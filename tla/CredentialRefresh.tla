-------------------------- MODULE CredentialRefresh --------------------------
(***************************************************************************)
(* CompositeCredentialProvider.getAccess for one tenant's HighLevel        *)
(* connection: several instances of the server refresh the same stored     *)
(* OAuth credential, whose refresh token HighLevel rotates, while a login  *)
(* or a new connection may replace the credential altogether.              *)
(*                                                                         *)
(* In each process the callers share one promise per credential; across    *)
(* processes a row lock (SELECT ... FOR UPDATE) is held from the re-read   *)
(* of the credential to the commit.  A step is one SQL statement or one    *)
(* upstream call.  The UPDATE of save() and the COMMIT behind it are one   *)
(* step: nobody sees the first before the second.                          *)
(***************************************************************************)
EXTENDS Naturals

CONSTANTS
    Instances,      \* server processes over the same database
    Calls,          \* calls that can be in flight at the same time
    Credentials,    \* rows of tenant_credentials
    Tokens,         \* refresh tokens, numbered; each comes with an access token
    Nil             \* absence of a value

ASSUME TokensAssumption == Tokens \subseteq Nat

ASSUME NilAssumption == Nil \notin Instances \cup Credentials \cup Tokens

VARIABLES
    row,        \* tenant_credentials: the stored payload
    conn,       \* connections: the tenant's one row
    lock,       \* the row lock on each credential
    call,       \* calls: the connection they have read
    flight,     \* per process, the refresh in flight for each credential
    grant,      \* HighLevel: the credential a refresh token was issued for
    spent,      \* HighLevel: refresh tokens already exchanged
    expired,    \* tokens whose access token is within a minute of its end
    lost        \* history: credentials whose new token did not get stored

vars == <<row, conn, lock, call, flight, grant, spent, expired, lost>>

-----------------------------------------------------------------------------

\* company: auth_mode, an agency-level grant.
Row == [status : {"unborn", "stored", "deleted"},
        token : Tokens \cup {Nil}, company : BOOLEAN]

Conn == [credential : Credentials \cup {Nil}, status : {"none", "active", "error"}]

Call == [pc : {"idle", "read", "waiting"}, at : Instances \cup {Nil},
         credential : Credentials \cup {Nil}, token : Tokens \cup {Nil}]

\* phase: waiting for the lock, request sent, company token to be turned into a
\* location token, new token to be stored, refresh rejected and rolled back.
Flight == [phase : {"none", "lock", "sent", "mint", "save", "rejected"},
           token : Tokens \cup {Nil}]

NoCall == [pc |-> "idle", at |-> Nil, credential |-> Nil, token |-> Nil]
NoFlight == [phase |-> "none", token |-> Nil]

Stored(k) == row[k].status = "stored"

TypeOK ==
    /\ row \in [Credentials -> Row]
    /\ \A k \in Credentials : row[k].status # "unborn" => row[k].token \in Tokens
    /\ conn \in Conn
    /\ lock \in [Credentials -> Instances \cup {Nil}]
    /\ call \in [Calls -> Call]
    /\ flight \in [Instances -> [Credentials -> Flight]]
    /\ grant \in [Tokens -> Credentials \cup {Nil}]
    /\ spent \in SUBSET Tokens
    /\ expired \in SUBSET Tokens
    /\ lost \in SUBSET Credentials

-----------------------------------------------------------------------------

Init ==
    /\ row = [k \in Credentials |-> [status |-> "unborn", token |-> Nil, company |-> FALSE]]
    /\ conn = [credential |-> Nil, status |-> "none"]
    /\ lock = [k \in Credentials |-> Nil]
    /\ call = [c \in Calls |-> NoCall]
    /\ flight = [i \in Instances |-> [k \in Credentials |-> NoFlight]]
    /\ grant = [t \in Tokens |-> Nil]
    /\ spent = {}
    /\ expired = {}
    /\ lost = {}

\* HighLevel issues a refresh token nobody has seen before.
NewToken(t) == grant[t] = Nil /\ \A u \in Tokens : u < t => grant[u] # Nil

\* A login or a new connection commits: it stores its own credential and
\* deletes the one it replaces, which waits for the lock on that row.
Connect(k, t, company) ==
    LET old == conn.credential
    IN  /\ row[k].status = "unborn"
        /\ NewToken(t)
        /\ old # Nil => lock[old] = Nil
        /\ row' = [j \in Credentials |->
                     IF j = k THEN [status |-> "stored", token |-> t, company |-> company]
                     ELSE IF j = old THEN [row[j] EXCEPT !.status = "deleted"]
                     ELSE row[j]]
        /\ conn' = [credential |-> k, status |-> "active"]
        /\ grant' = [grant EXCEPT ![t] = k]
        /\ UNCHANGED <<lock, call, flight, spent, expired, lost>>

\* A call reads the connection together with its credential; one in status
\* error is not found.
Read(c, i) ==
    /\ call[c].pc = "idle"
    /\ conn.status = "active"
    /\ call' = [call EXCEPT ![c] = [pc |-> "read", at |-> i, credential |-> conn.credential,
                                    token |-> row[conn.credential].token]]
    /\ UNCHANGED <<row, conn, lock, flight, grant, spent, expired, lost>>

\* The access token it has read is still good.
Use(c) ==
    /\ call[c].pc = "read"
    /\ call[c].token \notin expired
    /\ call' = [call EXCEPT ![c] = NoCall]
    /\ UNCHANGED <<row, conn, lock, flight, grant, spent, expired, lost>>

\* It is not: the call joins the refresh in flight in its process, or starts
\* one, which keeps the payload this call has read.
Ask(c) ==
    LET i == call[c].at
        k == call[c].credential
    IN  /\ call[c].pc = "read"
        /\ call[c].token \in expired
        /\ call' = [call EXCEPT ![c].pc = "waiting"]
        /\ flight' = IF flight[i][k].phase = "none"
                     THEN [flight EXCEPT ![i][k] = [phase |-> "lock", token |-> call[c].token]]
                     ELSE flight
        /\ UNCHANGED <<row, conn, lock, grant, spent, expired, lost>>

\* Variant: the connection goes back to the pool with its transaction open.
SettleUncommitted(i, k) ==
    /\ flight' = [flight EXCEPT ![i][k] = NoFlight]
    /\ call' = [c \in Calls |->
                  IF call[c].pc = "waiting" /\ call[c].at = i /\ call[c].credential = k
                  THEN NoCall ELSE call[c]]
    /\ UNCHANGED lock

\* The promise of a refresh settles: the entry is dropped, every call that
\* shares it is answered, and the transaction is over.
Settle(i, k) ==
    /\ flight' = [flight EXCEPT ![i][k] = NoFlight]
    /\ call' = [c \in Calls |->
                  IF call[c].pc = "waiting" /\ call[c].at = i /\ call[c].credential = k
                  THEN NoCall ELSE call[c]]
    /\ lock' = IF lock[k] = i THEN [lock EXCEPT ![k] = Nil] ELSE lock

\* The row is read under its lock and another instance has refreshed it.
FindFresh(i, k) ==
    /\ flight[i][k].phase = "lock"
    /\ Stored(k) /\ lock[k] = Nil
    /\ row[k].token \notin expired
    /\ Settle(i, k)
    /\ UNCHANGED <<row, conn, grant, spent, expired, lost>>

\* Variant: a plain SELECT, which does not wait.
FindExpiredUnlocked(i, k) ==
    /\ flight[i][k].phase = "lock"
    /\ Stored(k)
    /\ row[k].token \in expired
    /\ lock' = [lock EXCEPT ![k] = i]
    /\ flight' = [flight EXCEPT ![i][k] = [phase |-> "sent", token |-> row[k].token]]
    /\ UNCHANGED <<row, conn, call, grant, spent, expired, lost>>

\* Variant: what the call had read is not read again.
FindExpiredUnread(i, k) ==
    /\ flight[i][k].phase = "lock"
    /\ Stored(k) /\ lock[k] = Nil
    /\ lock' = [lock EXCEPT ![k] = i]
    /\ flight' = [flight EXCEPT ![i][k].phase = "sent"]
    /\ UNCHANGED <<row, conn, call, grant, spent, expired, lost>>

\* The row is read under its lock and has to be refreshed.
FindExpired(i, k) ==
    /\ flight[i][k].phase = "lock"
    /\ Stored(k) /\ lock[k] = Nil
    /\ row[k].token \in expired
    /\ lock' = [lock EXCEPT ![k] = i]
    /\ flight' = [flight EXCEPT ![i][k] = [phase |-> "sent", token |-> row[k].token]]
    /\ UNCHANGED <<row, conn, call, grant, spent, expired, lost>>

\* The row is gone: nothing is locked, and the payload the call had read is
\* refreshed in its place.
FindNothing(i, k) ==
    /\ flight[i][k].phase = "lock"
    /\ ~Stored(k)
    /\ flight' = [flight EXCEPT ![i][k].phase = "sent"]
    /\ UNCHANGED <<row, conn, lock, call, grant, spent, expired, lost>>

\* HighLevel exchanges the refresh token for a new pair.
Exchange(i, k, t) ==
    /\ flight[i][k].phase = "sent"
    /\ flight[i][k].token \notin spent
    /\ NewToken(t)
    /\ spent' = spent \cup {flight[i][k].token}
    /\ grant' = [grant EXCEPT ![t] = k]
    /\ flight' = [flight EXCEPT ![i][k] =
                    [phase |-> IF row[k].company THEN "mint" ELSE "save", token |-> t]]
    /\ UNCHANGED <<row, conn, lock, call, expired, lost>>

\* HighLevel answers 400, 401 or 403; the transaction is rolled back.
Reject(i, k) ==
    /\ flight[i][k].phase = "sent"
    /\ flight[i][k].token \in spent
    /\ flight' = [flight EXCEPT ![i][k].phase = "rejected"]
    /\ lock' = IF lock[k] = i THEN [lock EXCEPT ![k] = Nil] ELSE lock
    /\ UNCHANGED <<row, conn, call, grant, spent, expired, lost>>

\* An agency-level token is turned into a token of the location.
Mint(i, k) ==
    /\ flight[i][k].phase = "mint"
    /\ flight' = [flight EXCEPT ![i][k].phase = "save"]
    /\ UNCHANGED <<row, conn, lock, call, grant, spent, expired, lost>>

\* Variant: an agency-level refresh is returned to the callers and not stored.
SaveForgotten(i, k) ==
    /\ flight[i][k].phase = "save"
    /\ row' = IF Stored(k) /\ ~row[k].company
              THEN [row EXCEPT ![k].token = flight[i][k].token] ELSE row
    /\ Settle(i, k)
    /\ UNCHANGED <<conn, grant, spent, expired, lost>>

\* save() and COMMIT; a row that is gone is not written.
Save(i, k) ==
    /\ flight[i][k].phase = "save"
    /\ row' = IF Stored(k) THEN [row EXCEPT ![k].token = flight[i][k].token] ELSE row
    /\ Settle(i, k)
    /\ UNCHANGED <<conn, grant, spent, expired, lost>>

\* A rejected refresh marks the connection, whatever credential it has by now.
MarkError(i, k) ==
    /\ flight[i][k].phase = "rejected"
    /\ conn' = IF conn.status = "active" THEN [conn EXCEPT !.status = "error"] ELSE conn
    /\ Settle(i, k)
    /\ UNCHANGED <<row, grant, spent, expired, lost>>

\* A statement or an upstream call fails, a reply is lost, the process dies:
\* the transaction is rolled back, and a token that was to be stored is lost.
Fail(i, k) ==
    /\ flight[i][k].phase # "none"
    /\ lost' = IF flight[i][k].phase \in {"mint", "save"} THEN lost \cup {k} ELSE lost
    /\ Settle(i, k)
    /\ UNCHANGED <<row, conn, grant, spent, expired>>

\* An access token comes within a minute of its end.
Expire(t) ==
    /\ grant[t] # Nil /\ t \notin expired
    /\ expired' = expired \cup {t}
    /\ UNCHANGED <<row, conn, lock, call, flight, grant, spent, lost>>

TakeLock(i, k) == FindFresh(i, k) \/ FindExpired(i, k) \/ FindNothing(i, k)

Proceed(i, k) ==
    \/ \E t \in Tokens : Exchange(i, k, t)
    \/ Reject(i, k)
    \/ Mint(i, k)
    \/ Save(i, k)
    \/ MarkError(i, k)

Next ==
    \/ \E k \in Credentials, t \in Tokens, company \in BOOLEAN : Connect(k, t, company)
    \/ \E c \in Calls, i \in Instances : Read(c, i)
    \/ \E c \in Calls : Use(c) \/ Ask(c)
    \/ \E i \in Instances, k \in Credentials : TakeLock(i, k) \/ Proceed(i, k) \/ Fail(i, k)
    \/ \E t \in Tokens : Expire(t)

Spec == Init /\ [][Next]_vars

\* The event loop resumes every call; statements and upstream calls end, well
\* or badly; the lock is granted to whoever keeps asking for it (the database
\* queues them).
Fairness ==
    /\ \A c \in Calls : WF_vars(Use(c) \/ Ask(c))
    /\ \A i \in Instances, k \in Credentials :
         /\ SF_vars(TakeLock(i, k))
         /\ WF_vars(flight[i][k].phase # "lock" /\ (Proceed(i, k) \/ Fail(i, k)))

FairSpec == Spec /\ Fairness

-----------------------------------------------------------------------------

\* The refresh has sent a request and has not finished.
Refreshing(i, k) == flight[i][k].phase \in {"sent", "mint", "save"}

\* As long as a credential is stored, at most one instance is refreshing it,
\* with the token that is stored (withCredentialLock).
RefreshesAreExclusive ==
    \A i \in Instances, k \in Credentials : Stored(k) /\ Refreshing(i, k) =>
        /\ \A j \in Instances : Refreshing(j, k) => j = i
        /\ flight[i][k].phase = "sent" => flight[i][k].token = row[k].token

\* However the instances race, the stored refresh token is one HighLevel still
\* accepts, or its successor is on its way into the row; only a reply or a
\* write that got lost breaks the chain.
StoredTokenIsAlive ==
    \A k \in Credentials : Stored(k) /\ row[k].token \in spent /\ k \notin lost =>
        \E i \in Instances : /\ flight[i][k].phase \in {"mint", "save"}
                             /\ flight[i][k].token \notin spent

\* A refresh of the credential that is stored is rejected only when a new
\* token was lost before: two callers never get each other rejected.
RejectedOnlyAfterLoss ==
    \A i \in Instances, k \in Credentials :
        Stored(k) /\ flight[i][k].phase = "rejected" => k \in lost

\* Every call that waits for a refresh is answered, also when the lock is held
\* by another process and when the refresh fails.
EveryCallIsAnswered == \A c \in Calls : call[c].pc = "waiting" ~> call[c].pc = "idle"

\* What holds the properties up: the connection names the one stored row, calls
\* and refreshes work on rows that exist, tokens stay with their credential.
References ==
    /\ conn.status # "none" => conn.credential \in Credentials
    /\ \A k \in Credentials : Stored(k) <=> conn.credential = k
    /\ \A k \in Credentials : row[k].status # "unborn" => grant[row[k].token] = k
    /\ \A c \in Calls : call[c].pc # "idle" =>
         /\ call[c].at \in Instances
         /\ call[c].credential \in Credentials
         /\ row[call[c].credential].status # "unborn"
         /\ call[c].token \in Tokens /\ grant[call[c].token] = call[c].credential
    /\ \A i \in Instances, k \in Credentials : flight[i][k].phase # "none" =>
         /\ row[k].status # "unborn"
         /\ flight[i][k].token \in Tokens /\ grant[flight[i][k].token] = k
    /\ \A t \in spent : grant[t] # Nil

\* The lock stands behind every refresh of a stored credential.
LockIsHeld ==
    \A i \in Instances, k \in Credentials : Stored(k) /\ Refreshing(i, k) => lock[k] = i

\* The new token of a stored credential has not been used by anybody.
SuccessorIsUnspent ==
    \A i \in Instances, k \in Credentials :
        Stored(k) /\ flight[i][k].phase \in {"mint", "save"} => flight[i][k].token \notin spent

IndInv ==
    /\ TypeOK
    /\ References
    /\ LockIsHeld
    /\ RefreshesAreExclusive
    /\ SuccessorIsUnspent
    /\ StoredTokenIsAlive
    /\ RejectedOnlyAfterLoss
=============================================================================
