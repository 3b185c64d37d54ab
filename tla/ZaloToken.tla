------------------------------ MODULE ZaloToken ------------------------------
(***************************************************************************)
(* The access token of one centre's Zalo Official Account: a row with the  *)
(* credential, a cache of it in every process, and one refresh at a time   *)
(* per process, which exchanges a refresh token that Zalo rotates.  An     *)
(* administrator may reconnect or disconnect the account at any moment.    *)
(*                                                                         *)
(* Each process is one event loop.  A step is one SQL statement, one       *)
(* upstream call, or what a handler does between two awaits.               *)
(***************************************************************************)
EXTENDS Naturals

CONSTANTS
    Instances,      \* server processes over the same database
    Calls,          \* callers of getOaAccessToken that can be in flight
    Refreshes,      \* refresh promises that can be in flight
    Tokens,         \* refresh tokens, numbered; each comes with an access token
    Nil             \* absence of a value

ASSUME TokensAssumption == Tokens \subseteq Nat

ASSUME NilAssumption == Nil \notin Instances \cup Refreshes \cup Tokens

VARIABLES
    row,        \* zalo_connections: the centre's row
    cache,      \* per process, the cached credential
    inflight,   \* per process, the refresh its entry names
    call,       \* the callers of getOaAccessToken
    refresh,    \* the refresh promises
    closing,    \* processes between the statement of disconnect() and its end
    granted,    \* Zalo: refresh tokens issued so far
    spent,      \* Zalo: refresh tokens already exchanged
    expired,    \* tokens whose access token is within two minutes of its end
    lost,       \* history: spent tokens whose successor nobody has any more
    dropped     \* history: processes that have dropped their entry

vars == <<row, cache, inflight, call, refresh, closing, granted, spent, expired,
          lost, dropped>>

-----------------------------------------------------------------------------

Row == [status : {"none", "connected", "disconnected", "error"}, token : Tokens \cup {Nil}]

\* selected: the row has been read, the caller has not resumed.
Call == [pc : {"idle", "selected", "waiting"}, at : Instances \cup {Nil},
         token : Tokens \cup {Nil}, refresh : Refreshes \cup {Nil}]

\* sent: token is at Zalo; answered: the reply is there, the promise has not
\* resumed; persist: next is cached and to be written; failed: the cache has
\* been cleared and the connection is to be marked.
Refresh == [phase : {"none", "sent", "answered", "persist", "failed"},
            at : Instances \cup {Nil}, token : Tokens \cup {Nil}, next : Tokens \cup {Nil}]

NoCall == [pc |-> "idle", at |-> Nil, token |-> Nil, refresh |-> Nil]
NoRefresh == [phase |-> "none", at |-> Nil, token |-> Nil, next |-> Nil]

TypeOK ==
    /\ row \in Row
    /\ row.status = "connected" => row.token \in Tokens
    /\ cache \in [Instances -> Tokens \cup {Nil}]
    /\ inflight \in [Instances -> Refreshes \cup {Nil}]
    /\ call \in [Calls -> Call]
    /\ refresh \in [Refreshes -> Refresh]
    /\ closing \in SUBSET Instances
    /\ granted \in SUBSET Tokens
    /\ spent \in SUBSET granted
    /\ expired \in SUBSET granted
    /\ lost \in SUBSET spent
    /\ dropped \in SUBSET Instances

\* The refresh holds the only copy of the token that replaces the one it spent.
Carrying(r) == refresh[r].phase \in {"answered", "persist"}

-----------------------------------------------------------------------------

Init ==
    /\ row = [status |-> "none", token |-> Nil]
    /\ cache = [i \in Instances |-> Nil]
    /\ inflight = [i \in Instances |-> Nil]
    /\ call = [c \in Calls |-> NoCall]
    /\ refresh = [r \in Refreshes |-> NoRefresh]
    /\ closing = {}
    /\ granted = {} /\ spent = {} /\ expired = {}
    /\ lost = {} /\ dropped = {}

\* Zalo issues a token nobody has seen before.
NewToken(t) == t \notin granted /\ \A u \in Tokens : u < t => u \in granted

\* handleConnectCallback: the account's row is written, by whichever process;
\* no cache is touched.
Connect(t) ==
    /\ NewToken(t)
    /\ row' = [status |-> "connected", token |-> t]
    /\ granted' = granted \cup {t}
    /\ UNCHANGED <<cache, inflight, call, refresh, closing, spent, expired, lost, dropped>>

\* disconnect(): the statement ...
Disconnect(i) ==
    /\ i \notin closing
    /\ row.status # "none"
    /\ row' = [status |-> "disconnected", token |-> Nil]
    /\ closing' = closing \cup {i}
    /\ UNCHANGED <<cache, inflight, call, refresh, granted, spent, expired, lost, dropped>>

\* ... and what the process that served it forgets.
Forget(i) ==
    /\ i \in closing
    /\ closing' = closing \ {i}
    /\ inflight' = [inflight EXCEPT ![i] = Nil]
    /\ cache' = [cache EXCEPT ![i] = Nil]
    /\ dropped' = dropped \cup {i}
    /\ UNCHANGED <<row, call, refresh, granted, spent, expired, lost>>

\* Variant: the entry is not looked up.
DecideAlone(c, i, t) ==
    IF t \notin expired
    THEN call' = [call EXCEPT ![c] = NoCall] /\ UNCHANGED <<inflight, refresh>>
    ELSE \E r \in Refreshes :
           /\ refresh[r].phase = "none"
           /\ refresh' = [refresh EXCEPT ![r] =
                            [phase |-> "sent", at |-> i, token |-> t, next |-> Nil]]
           /\ inflight' = [inflight EXCEPT ![i] = r]
           /\ call' = [call EXCEPT ![c] = [NoCall EXCEPT !.pc = "waiting", !.at = i, !.refresh = r]]

\* A caller with credential t: it returns, joins the refresh the entry names,
\* or starts one.
Decide(c, i, t) ==
    \/ /\ t \notin expired
       /\ call' = [call EXCEPT ![c] = NoCall]
       /\ UNCHANGED <<inflight, refresh>>
    \/ /\ t \in expired /\ inflight[i] # Nil
       /\ call' = [call EXCEPT ![c] =
                     [NoCall EXCEPT !.pc = "waiting", !.at = i, !.refresh = inflight[i]]]
       /\ UNCHANGED <<inflight, refresh>>
    \/ /\ t \in expired /\ inflight[i] = Nil
       /\ \E r \in Refreshes :
            /\ refresh[r].phase = "none"
            /\ refresh' = [refresh EXCEPT ![r] =
                             [phase |-> "sent", at |-> i, token |-> t, next |-> Nil]]
            /\ inflight' = [inflight EXCEPT ![i] = r]
            /\ call' = [call EXCEPT ![c] =
                          [NoCall EXCEPT !.pc = "waiting", !.at = i, !.refresh = r]]

\* The credential is cached.
Hit(c, i) ==
    /\ call[c].pc = "idle"
    /\ cache[i] # Nil
    /\ Decide(c, i, cache[i])
    /\ UNCHANGED <<row, cache, closing, granted, spent, expired, lost, dropped>>

\* It is not: the row is read, whatever its status ...
Select(c, i) ==
    /\ call[c].pc = "idle"
    /\ cache[i] = Nil
    /\ row.token # Nil
    /\ call' = [call EXCEPT ![c] = [NoCall EXCEPT !.pc = "selected", !.at = i, !.token = row.token]]
    /\ UNCHANGED <<row, cache, inflight, refresh, closing, granted, spent, expired, lost, dropped>>

\* ... and the caller caches what it has read.
Load(c) ==
    /\ call[c].pc = "selected"
    /\ cache' = [cache EXCEPT ![call[c].at] = call[c].token]
    /\ Decide(c, call[c].at, call[c].token)
    /\ UNCHANGED <<row, closing, granted, spent, expired, lost, dropped>>

\* Zalo exchanges the token ...
Exchange(r, t) ==
    /\ refresh[r].phase = "sent"
    /\ refresh[r].token \notin spent
    /\ NewToken(t)
    /\ spent' = spent \cup {refresh[r].token}
    /\ granted' = granted \cup {t}
    /\ refresh' = [refresh EXCEPT ![r].phase = "answered", ![r].next = t]
    /\ UNCHANGED <<row, cache, inflight, call, closing, expired, lost, dropped>>

\* ... or refuses it, or does not answer at all.
Refuse(r) ==
    /\ refresh[r].phase = "sent"
    /\ refresh' = [refresh EXCEPT ![r].phase = "failed"]
    /\ cache' = [cache EXCEPT ![refresh[r].at] = Nil]
    /\ UNCHANGED <<row, inflight, call, closing, granted, spent, expired, lost, dropped>>

\* Zalo has exchanged the token, and the answer is lost.
LoseAnswer(r) ==
    /\ refresh[r].phase = "answered"
    /\ refresh' = [refresh EXCEPT ![r].phase = "failed"]
    /\ cache' = [cache EXCEPT ![refresh[r].at] = Nil]
    /\ lost' = lost \cup {refresh[r].token}
    /\ UNCHANGED <<row, inflight, call, closing, granted, spent, expired, dropped>>

\* The new credential is cached, then written.
Keep(r) ==
    /\ refresh[r].phase = "answered"
    /\ cache' = [cache EXCEPT ![refresh[r].at] = refresh[r].next]
    /\ refresh' = [refresh EXCEPT ![r].phase = "persist"]
    /\ UNCHANGED <<row, inflight, call, closing, granted, spent, expired, lost, dropped>>

\* Variant: the callers that joined are forgotten.
SettleFirstOnly(r) ==
    LET one == CHOOSE c \in Calls : call[c].refresh = r \/ \A d \in Calls : call[d].refresh # r
    IN  /\ refresh' = [refresh EXCEPT ![r] = NoRefresh]
        /\ inflight' = [inflight EXCEPT ![refresh[r].at] = Nil]
        /\ call' = IF call[one].refresh = r THEN [call EXCEPT ![one] = NoCall] ELSE call

\* The promise settles: the process's entry is dropped, whichever refresh it
\* names, and everybody who waits for this one is answered.
Settle(r) ==
    /\ refresh' = [refresh EXCEPT ![r] = NoRefresh]
    /\ inflight' = [inflight EXCEPT ![refresh[r].at] = Nil]
    /\ call' = [c \in Calls |-> IF call[c].refresh = r THEN NoCall ELSE call[c]]

\* Variant: only a connected row is written.
PersistConnected(r) ==
    /\ refresh[r].phase = "persist"
    /\ row' = IF row.status = "connected" THEN [row EXCEPT !.token = refresh[r].next] ELSE row
    /\ Settle(r)
    /\ UNCHANGED <<cache, closing, granted, spent, expired, lost, dropped>>

\* persistCred: the credential is written whatever the row says by now.
Persist(r) ==
    /\ refresh[r].phase = "persist"
    /\ row' = [row EXCEPT !.token = refresh[r].next]
    /\ Settle(r)
    /\ UNCHANGED <<cache, closing, granted, spent, expired, lost, dropped>>

\* Three attempts have failed.
PersistFails(r) ==
    /\ refresh[r].phase = "persist"
    /\ refresh' = [refresh EXCEPT ![r].phase = "failed"]
    /\ cache' = [cache EXCEPT ![refresh[r].at] = Nil]
    /\ lost' = lost \cup {refresh[r].token}
    /\ UNCHANGED <<row, inflight, call, closing, granted, spent, expired, dropped>>

\* markError, or not: its failure is ignored.
MarkError(r) ==
    /\ refresh[r].phase = "failed"
    /\ row' \in {row, [row EXCEPT !.status = "error"]}
    /\ Settle(r)
    /\ UNCHANGED <<cache, closing, granted, spent, expired, lost, dropped>>

\* An access token comes near its end.  It outlives the refresh that brought
\* it: an hour against three attempts of a statement.
Expire(t) ==
    /\ t \in granted \ expired
    /\ \A r \in Refreshes : Carrying(r) => refresh[r].next # t
    /\ expired' = expired \cup {t}
    /\ UNCHANGED <<row, cache, inflight, call, refresh, closing, granted, spent, lost, dropped>>

\* A process dies and is started again.
Crash(i) ==
    LET mine == {r \in Refreshes : refresh[r].at = i}
    IN  /\ cache' = [cache EXCEPT ![i] = Nil]
        /\ inflight' = [inflight EXCEPT ![i] = Nil]
        /\ call' = [c \in Calls |-> IF call[c].at = i THEN NoCall ELSE call[c]]
        /\ refresh' = [r \in Refreshes |-> IF r \in mine THEN NoRefresh ELSE refresh[r]]
        /\ closing' = closing \ {i}
        /\ lost' = lost \cup {refresh[r].token : r \in {q \in mine : Carrying(q)}}
        /\ dropped' = dropped \ {i}
        /\ UNCHANGED <<row, granted, spent, expired>>

Proceed(r) ==
    \/ \E t \in Tokens : Exchange(r, t)
    \/ Refuse(r) \/ LoseAnswer(r)
    \/ Keep(r) \/ Persist(r) \/ PersistFails(r) \/ MarkError(r)

Next ==
    \/ \E t \in Tokens : Connect(t) \/ Expire(t)
    \/ \E i \in Instances : Disconnect(i) \/ Forget(i) \/ Crash(i)
    \/ \E c \in Calls, i \in Instances : Hit(c, i) \/ Select(c, i)
    \/ \E c \in Calls : Load(c)
    \/ \E r \in Refreshes : Proceed(r)

Spec == Init /\ [][Next]_vars

-----------------------------------------------------------------------------

\* Whatever refreshes, reconnects, disconnects and restarts do to each other,
\* a stored refresh token that Zalo no longer takes has its successor on the
\* way into the row, or the successor died with an answer, a write or
\* a process: no refresh ever writes a token back that another one has spent.
StoredTokenIsAlive ==
    row.token \in spent /\ row.token \notin lost =>
        \E r \in Refreshes : Carrying(r) /\ refresh[r].token = row.token

\* A process refreshes once at a time, and its entry names that refresh, until
\* a disconnect drops the entry under it.
OneRefreshPerProcess ==
    \A r \in Refreshes : LET i == refresh[r].at IN
        refresh[r].phase # "none" /\ i \notin dropped => inflight[i] = r

\* Whoever waits for a refresh, its own or one it joined, waits for one that is
\* under way in its process and will answer it: neither a disconnect that drops
\* the entry, nor another refresh that settles, nor a restart strands a caller.
NobodyWaitsForNothing ==
    \A c \in Calls : call[c].pc = "waiting" =>
        LET r == call[c].refresh IN refresh[r].phase # "none" /\ refresh[r].at = call[c].at

\* What holds the properties up: names are real, what is sent has expired, and
\* what is carried has not and replaces a spent token.
References ==
    /\ row.token \in granted \cup {Nil}
    /\ \A i \in Instances : cache[i] \in granted \cup {Nil}
    /\ \A c \in Calls : call[c].pc = "selected" =>
         call[c].at \in Instances /\ call[c].token \in granted
    /\ \A c \in Calls : call[c].pc = "waiting" =>
         call[c].at \in Instances /\ call[c].refresh \in Refreshes
    /\ \A r \in Refreshes : refresh[r].phase # "none" =>
         refresh[r].at \in Instances /\ refresh[r].token \in expired
    /\ \A i \in Instances : inflight[i] # Nil =>
         refresh[inflight[i]].phase # "none" /\ refresh[inflight[i]].at = i

CarriedIsUnspent ==
    /\ spent \subseteq expired
    /\ \A r \in Refreshes : Carrying(r) =>
         refresh[r].token \in spent /\ refresh[r].next \in granted \ expired

IndInv ==
    /\ TypeOK
    /\ References
    /\ CarriedIsUnspent
    /\ StoredTokenIsAlive
    /\ OneRefreshPerProcess
    /\ NobodyWaitsForNothing
=============================================================================
