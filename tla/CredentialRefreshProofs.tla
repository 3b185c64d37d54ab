----------------------- MODULE CredentialRefreshProofs -----------------------
(***************************************************************************)
(* What holds of the credential refresh for any number of processes,       *)
(* calls, credentials and tokens.                                          *)
(***************************************************************************)
EXTENDS CredentialRefresh, TLAPS

USE NilAssumption

LEMMA InitInvariant == Init => IndInv
<1> SUFFICES ASSUME Init PROVE IndInv
  OBVIOUS
<1>1. TypeOK
  BY DEF Init, TypeOK, Row, Conn, Call, Flight, NoCall, NoFlight
<1>2. QED
  BY <1>1 DEF Init, IndInv, References, LockIsHeld, RefreshesAreExclusive, SuccessorIsUnspent,
              StoredTokenIsAlive, RejectedOnlyAfterLoss, Stored, Refreshing, NoCall, NoFlight

\* What the end of a refresh changes: one entry, the calls that share it, and
\* the lock if the refresh held it.
LEMMA SettleFacts ==
    ASSUME TypeOK, NEW i \in Instances, NEW k \in Credentials, Settle(i, k)
    PROVE  /\ flight' \in [Instances -> [Credentials -> Flight]]
           /\ call' \in [Calls -> Call]
           /\ lock' \in [Credentials -> Instances \cup {Nil}]
           /\ flight'[i][k] = NoFlight
           /\ \A j \in Instances, l \in Credentials :
                (j # i \/ l # k) => flight'[j][l] = flight[j][l]
           /\ \A c \in Calls : call'[c] = call[c] \/ call'[c] = NoCall
           /\ \A l \in Credentials : (l # k \/ lock[k] # i) => lock'[l] = lock[l]
<1>1. NoFlight \in Flight /\ NoCall \in Call
  BY DEF NoFlight, NoCall, Flight, Call
<1>2. flight' \in [Instances -> [Credentials -> Flight]]
  BY <1>1 DEF TypeOK, Settle
<1>3. /\ call' \in [Calls -> Call]
      /\ \A c \in Calls : call'[c] = call[c] \/ call'[c] = NoCall
  BY <1>1 DEF TypeOK, Settle
<1>4. /\ lock' \in [Credentials -> Instances \cup {Nil}]
      /\ \A l \in Credentials : (l # k \/ lock[k] # i) => lock'[l] = lock[l]
  BY DEF TypeOK, Settle
<1>5. flight'[i][k] = NoFlight
  BY DEF TypeOK, Settle
<1>6. \A j \in Instances, l \in Credentials :
        (j # i \/ l # k) => flight'[j][l] = flight[j][l]
  BY DEF TypeOK, Settle
<1>7. QED
  BY <1>2, <1>3, <1>4, <1>5, <1>6

\* A refresh that ends without writing the row keeps the invariant, provided
\* that a new token of a stored credential is recorded as lost.
LEMMA EndKeeps ==
    ASSUME IndInv, NEW i \in Instances, NEW k \in Credentials, Settle(i, k),
           UNCHANGED <<row, grant, spent, expired>>,
           conn' \in Conn, conn'.credential = conn.credential,
           conn'.status = "none" <=> conn.status = "none",
           lost \subseteq lost', lost' \in SUBSET Credentials,
           flight[i][k].phase \in {"mint", "save"} /\ Stored(k) => k \in lost'
    PROVE  IndInv'
<1>1. TypeOK
  BY DEF IndInv
<1> DEFINE Kept(j, l) == j # i \/ l # k
<1>2. /\ flight'[i][k].phase = "none"
      /\ \A j \in Instances, l \in Credentials : Kept(j, l) => flight'[j][l] = flight[j][l]
      /\ \A c \in Calls : call'[c] = call[c] \/ call'[c].pc = "idle"
      /\ \A l \in Credentials : (l # k \/ lock[k] # i) => lock'[l] = lock[l]
  BY <1>1, SettleFacts DEF NoFlight, NoCall
<1> HIDE DEF Kept
<1>3. TypeOK'
  BY <1>1, SettleFacts DEF TypeOK
<1>4. \A j \in Instances, l \in Credentials :
        flight'[j][l] = flight[j][l] \/ flight'[j][l].phase = "none"
  BY <1>2 DEF Kept
<1>5. References'
  BY <1>2, <1>4 DEF IndInv, References, Stored
<1>6. LockIsHeld'
  <2>1. SUFFICES ASSUME NEW j \in Instances, NEW l \in Credentials,
                        Stored(l)', Refreshing(j, l)'
                 PROVE  lock'[l] = j
    BY DEF LockIsHeld
  <2>2. Kept(j, l) /\ flight'[j][l] = flight[j][l]
    BY <1>2, <2>1 DEF Refreshing, Kept
  <2>3. lock[l] = j
    BY <2>1, <2>2 DEF IndInv, LockIsHeld, Stored, Refreshing
  <2>4. QED
    BY <1>2, <2>2, <2>3 DEF Kept
<1>7. RefreshesAreExclusive'
  BY <1>4 DEF IndInv, RefreshesAreExclusive, Stored, Refreshing
<1>8. SuccessorIsUnspent'
  BY <1>4 DEF IndInv, SuccessorIsUnspent, Stored
<1>9. StoredTokenIsAlive'
  <2>1. SUFFICES ASSUME NEW l \in Credentials, Stored(l), row[l].token \in spent, l \notin lost'
                 PROVE  \E j \in Instances : /\ flight'[j][l].phase \in {"mint", "save"}
                                             /\ flight'[j][l].token \notin spent
    BY DEF StoredTokenIsAlive, Stored
  <2>2. PICK j \in Instances : /\ flight[j][l].phase \in {"mint", "save"}
                               /\ flight[j][l].token \notin spent
    BY <2>1 DEF IndInv, StoredTokenIsAlive
  <2>3. Kept(j, l)
    BY <2>1, <2>2 DEF Kept
  <2>4. QED
    BY <1>2, <2>2, <2>3
<1>10. RejectedOnlyAfterLoss'
  BY <1>4 DEF IndInv, RejectedOnlyAfterLoss, Stored
<1>11. QED
  BY <1>3, <1>5, <1>6, <1>7, <1>8, <1>9, <1>10 DEF IndInv

\* The new token is written over the one it replaces.
LEMMA SaveKeeps ==
    ASSUME IndInv, NEW i \in Instances, NEW k \in Credentials, Save(i, k)
    PROVE  IndInv'
<1>1. CASE ~Stored(k)
  <2>1. row' = row /\ conn' = conn /\ lost' = lost
    BY <1>1 DEF Save
  <2>2. QED
    BY <1>1, <2>1, EndKeeps DEF Save, IndInv, TypeOK
<1>2. CASE Stored(k)
  <2> DEFINE t == flight[i][k].token
  <2>1. TypeOK /\ flight[i][k].phase = "save"
    BY DEF IndInv, Save
  <2>2. t \in Tokens /\ grant[t] = k /\ t \notin spent
    BY <1>2, <2>1 DEF IndInv, References, SuccessorIsUnspent
  <2>3. /\ row' = [row EXCEPT ![k].token = t]
        /\ Settle(i, k)
        /\ UNCHANGED <<conn, grant, spent, expired, lost>>
    BY <1>2 DEF Save
  <2> HIDE DEF t
  <2>4. row[k] \in Row
    BY <2>1 DEF TypeOK
  <2>5. [row[k] EXCEPT !.token = t] \in Row
    BY <2>2, <2>4 DEF Row
  <2>6. /\ row' \in [Credentials -> Row]
        /\ row'[k].token = t /\ row'[k].status = row[k].status
        /\ \A l \in Credentials : l # k => row'[l] = row[l]
    BY <2>1, <2>3, <2>4, <2>5 DEF TypeOK, Row
  <2>7. \A l \in Credentials : row'[l].status = row[l].status
    BY <2>6
  <2>8. /\ flight'[i][k].phase = "none"
        /\ \A j \in Instances, l \in Credentials :
             (j # i \/ l # k) => flight'[j][l] = flight[j][l]
        /\ \A c \in Calls : call'[c] = call[c] \/ call'[c].pc = "idle"
        /\ \A l \in Credentials : (l # k \/ lock[k] # i) => lock'[l] = lock[l]
    BY <2>1, <2>3, SettleFacts DEF NoFlight, NoCall
  <2>9. \A j \in Instances, l \in Credentials :
          flight'[j][l] = flight[j][l] \/ flight'[j][l].phase = "none"
    BY <2>8
  <2>10. TypeOK'
    BY <2>1, <2>2, <2>3, <2>6, SettleFacts DEF TypeOK
  <2>11. References'
    <3>1. \A l \in Credentials : row'[l].status # "unborn" => grant[row'[l].token] = l
      BY <2>2, <2>6 DEF IndInv, References
    <3>2. QED
      BY <2>3, <2>7, <2>8, <2>9, <3>1 DEF IndInv, References, Stored
  <2>12. \A j \in Instances : Refreshing(j, k) => j = i
    BY <1>2, <2>1 DEF IndInv, RefreshesAreExclusive, Refreshing
  <2>13. \A j \in Instances, l \in Credentials : Refreshing(j, l)' /\ Stored(l)' =>
           l # k /\ flight'[j][l] = flight[j][l] /\ row'[l] = row[l]
    BY <2>6, <2>8, <2>9, <2>12 DEF Refreshing
  <2>14. LockIsHeld' /\ RefreshesAreExclusive' /\ SuccessorIsUnspent'
    <3>1. LockIsHeld'
      BY <2>8, <2>13 DEF IndInv, LockIsHeld, Refreshing, Stored
    <3>2. RefreshesAreExclusive'
      BY <2>7, <2>9, <2>13 DEF IndInv, RefreshesAreExclusive, Refreshing, Stored
    <3>3. SuccessorIsUnspent'
      BY <2>3, <2>7, <2>9 DEF IndInv, SuccessorIsUnspent, Stored
    <3>4. QED
      BY <3>1, <3>2, <3>3
  <2>15. StoredTokenIsAlive'
    BY <2>2, <2>3, <2>6, <2>8 DEF IndInv, StoredTokenIsAlive, Stored
  <2>16. RejectedOnlyAfterLoss'
    BY <2>3, <2>7, <2>9 DEF IndInv, RejectedOnlyAfterLoss, Stored
  <2>17. QED
    BY <2>10, <2>11, <2>14, <2>15, <2>16 DEF IndInv
<1>3. QED
  BY <1>1, <1>2

\* The steps of a call before it waits: they change no row, lock or token.
LEMMA CallKeeps ==
    ASSUME IndInv, NEW c \in Calls,
           (\E i \in Instances : Read(c, i)) \/ Use(c) \/ Ask(c)
    PROVE  IndInv'
<1>1. /\ TypeOK
      /\ UNCHANGED <<row, conn, lock, grant, spent, expired, lost>>
  BY DEF IndInv, Read, Use, Ask
<1> DEFINE Good(d) == /\ d.at \in Instances
                      /\ d.credential \in Credentials
                      /\ row[d.credential].status # "unborn"
                      /\ d.token \in Tokens /\ grant[d.token] = d.credential
           CallMoves == /\ call' \in [Calls -> Call]
                        /\ \A d \in Calls : d # c => call'[d] = call[d]
                        /\ call'[c].pc # "idle" => Good(call'[c])
<1>2. CallMoves
  <2>1. ASSUME NEW i \in Instances, Read(c, i)
        PROVE  CallMoves
    <3>1. /\ conn.credential \in Credentials /\ row[conn.credential].status = "stored"
          /\ row[conn.credential].token \in Tokens
          /\ grant[row[conn.credential].token] = conn.credential
      BY <1>1, <2>1 DEF Read, IndInv, References, Stored, TypeOK
    <3>2. [pc |-> "read", at |-> i, credential |-> conn.credential,
           token |-> row[conn.credential].token] \in Call
      BY <3>1 DEF Call
    <3>3. QED
      BY <1>1, <2>1, <3>1, <3>2 DEF Read, TypeOK
  <2>2. CASE Use(c)
    BY <1>1, <2>2 DEF Use, TypeOK, Call, NoCall
  <2>3. CASE Ask(c)
    <3>1. call[c] \in Call /\ call[c].pc = "read"
      BY <1>1, <2>3 DEF TypeOK, Ask
    <3>2. [call[c] EXCEPT !.pc = "waiting"] \in Call
      BY <3>1 DEF Call
    <3>3. call' = [call EXCEPT ![c] = [call[c] EXCEPT !.pc = "waiting"]]
      BY <1>1, <2>3 DEF Ask, TypeOK
    <3>4. /\ call'[c].at = call[c].at /\ call'[c].credential = call[c].credential
          /\ call'[c].token = call[c].token
      BY <1>1, <3>1, <3>3 DEF TypeOK, Call
    <3>5. QED
      BY <1>1, <3>1, <3>2, <3>3, <3>4 DEF IndInv, References, TypeOK
  <2>4. QED
    BY <2>1, <2>2, <2>3
<1>3. /\ flight' \in [Instances -> [Credentials -> Flight]]
      /\ \A i \in Instances, k \in Credentials :
           \/ flight'[i][k] = flight[i][k]
           \/ /\ flight'[i][k].phase = "lock"
              /\ flight[i][k].phase = "none"
              /\ row[k].status # "unborn"
              /\ flight'[i][k].token \in Tokens /\ grant[flight'[i][k].token] = k
  <2>1. CASE flight' = flight
    BY <1>1, <2>1 DEF TypeOK
  <2>2. CASE Ask(c) /\ flight' # flight
    <3> DEFINE i == call[c].at
               k == call[c].credential
               new == [phase |-> "lock", token |-> call[c].token]
    <3>1. /\ i \in Instances /\ k \in Credentials
          /\ row[k].status # "unborn"
          /\ call[c].token \in Tokens /\ grant[call[c].token] = k
      BY <2>2 DEF Ask, IndInv, References
    <3>2. flight' = [flight EXCEPT ![i][k] = new] /\ flight[i][k].phase = "none"
      BY <2>2 DEF Ask
    <3>3. new \in Flight /\ new.phase = "lock" /\ new.token = call[c].token
      BY <3>1 DEF Flight
    <3> HIDE DEF new, i, k
    <3>4. QED
      BY <1>1, <3>1, <3>2, <3>3 DEF TypeOK
  <2>3. QED
    BY <2>1, <2>2 DEF Read, Use
<1>4. TypeOK'
  BY <1>1, <1>2, <1>3 DEF TypeOK
<1>5. References'
  <2>1. \A d \in Calls : call'[d].pc # "idle" =>
           /\ call'[d].at \in Instances
           /\ call'[d].credential \in Credentials
           /\ row[call'[d].credential].status # "unborn"
           /\ call'[d].token \in Tokens /\ grant[call'[d].token] = call'[d].credential
    BY <1>2 DEF IndInv, References
  <2>2. \A i \in Instances, k \in Credentials : flight'[i][k].phase # "none" =>
           /\ row[k].status # "unborn"
           /\ flight'[i][k].token \in Tokens /\ grant[flight'[i][k].token] = k
    BY <1>3 DEF IndInv, References
  <2>3. QED
    BY <1>1, <2>1, <2>2 DEF IndInv, References, Stored
<1>6. \A i \in Instances, k \in Credentials : flight'[i][k].phase \notin {"none", "lock"} =>
        flight'[i][k] = flight[i][k]
  BY <1>3
<1>7. \A i \in Instances, k \in Credentials : Refreshing(i, k)' =>
        Refreshing(i, k) /\ flight'[i][k] = flight[i][k]
  BY <1>6 DEF Refreshing
<1>8. LockIsHeld' /\ RefreshesAreExclusive'
  BY <1>1, <1>7 DEF IndInv, LockIsHeld, RefreshesAreExclusive, Stored
<1>9. SuccessorIsUnspent' /\ RejectedOnlyAfterLoss'
  BY <1>1, <1>6 DEF IndInv, SuccessorIsUnspent, RejectedOnlyAfterLoss, Stored
<1>10. StoredTokenIsAlive'
  BY <1>1, <1>3 DEF IndInv, StoredTokenIsAlive, Stored
<1>11. QED
  BY <1>4, <1>5, <1>8, <1>9, <1>10 DEF IndInv

\* The old credential is deleted while nobody holds its lock, and the refresh
\* of a deleted credential is outside every property.
LEMMA ConnectKeeps ==
    ASSUME IndInv, NEW k \in Credentials, NEW t \in Tokens, NEW company \in BOOLEAN,
           Connect(k, t, company)
    PROVE  IndInv'
<1>1. /\ TypeOK /\ row[k].status = "unborn" /\ grant[t] = Nil
      /\ UNCHANGED <<lock, call, flight, spent, expired, lost>>
      /\ grant' = [grant EXCEPT ![t] = k]
      /\ conn' = [credential |-> k, status |-> "active"]
  BY DEF IndInv, Connect, NewToken
<1> DEFINE new == [status |-> "stored", token |-> t, company |-> company]
<1>2. /\ row' \in [Credentials -> Row]
      /\ row'[k].status = "stored" /\ row'[k].token = t
      /\ \A l \in Credentials : l # k =>
           /\ row'[l].token = row[l].token
           /\ row'[l].status = IF l = conn.credential THEN "deleted" ELSE row[l].status
  <2>1. new \in Row /\ \A l \in Credentials : [row[l] EXCEPT !.status = "deleted"] \in Row
    BY <1>1 DEF Row, TypeOK
  <2>2. row' = [l \in Credentials |->
                  IF l = k THEN new
                  ELSE IF l = conn.credential THEN [row[l] EXCEPT !.status = "deleted"]
                  ELSE row[l]]
    BY DEF Connect
  <2>3. row' \in [Credentials -> Row]
    BY <1>1, <2>1, <2>2 DEF TypeOK
  <2>4. row'[k] = new
    BY <2>2
  <2>5. \A l \in Credentials : row[l] \in Row
    BY <1>1 DEF TypeOK
  <2>6. QED
    BY <2>2, <2>3, <2>4, <2>5 DEF Row
<1>3. \A l \in Credentials : row'[l].status = "stored" <=> l = k
  BY <1>1, <1>2 DEF IndInv, References, Stored
<1>4. \A l \in Credentials : row'[l].status = "unborn" => row[l].status = "unborn"
  BY <1>1, <1>2
<1>5. \A i \in Instances : flight[i][k].phase = "none"
  BY <1>1 DEF IndInv, References
<1>6. \A u \in Tokens : grant[u] # Nil => u # t /\ grant'[u] = grant[u]
  BY <1>1 DEF TypeOK
<1>7. t \notin spent /\ grant'[t] = k
  BY <1>1 DEF IndInv, References, TypeOK
<1>8. TypeOK'
  <2>1. grant' \in [Tokens -> Credentials \cup {Nil}] /\ conn' \in Conn
    BY <1>1 DEF TypeOK, Conn
  <2>2. \A l \in Credentials : row'[l].status # "unborn" => row'[l].token \in Tokens
    BY <1>1, <1>2 DEF IndInv, References, TypeOK, Stored
  <2>3. QED
    BY <1>1, <1>2, <2>1, <2>2 DEF TypeOK
<1>9. References'
  <2>1. \A l \in Credentials : row'[l].status # "unborn" => grant'[row'[l].token] = l
    <3>1. SUFFICES ASSUME NEW l \in Credentials, l # k, row'[l].status # "unborn"
                   PROVE  grant'[row[l].token] = l
      BY <1>2, <1>7
    <3>2. row[l].status # "unborn"
      BY <1>2, <3>1 DEF IndInv, References, Stored
    <3>3. grant[row[l].token] = l /\ row[l].token \in Tokens
      BY <1>1, <3>2 DEF IndInv, References, TypeOK
    <3>4. QED
      BY <1>6, <3>3
  <2>2. \A c \in Calls : call[c].pc # "idle" =>
           /\ row'[call[c].credential].status # "unborn"
           /\ grant'[call[c].token] = call[c].credential
    BY <1>4, <1>6 DEF IndInv, References
  <2>3. \A i \in Instances, l \in Credentials : flight[i][l].phase # "none" =>
           /\ row'[l].status # "unborn"
           /\ grant'[flight[i][l].token] = l
    BY <1>4, <1>6 DEF IndInv, References
  <2>4. \A u \in spent : grant'[u] # Nil
    BY <1>1, <1>6 DEF IndInv, References, TypeOK
  <2>5. QED
    BY <1>1, <1>3, <2>1, <2>2, <2>3, <2>4 DEF IndInv, References, Stored
<1>10. \A i \in Instances, l \in Credentials : Stored(l)' => flight'[i][l].phase = "none"
  BY <1>1, <1>3, <1>5 DEF Stored
<1>11. LockIsHeld' /\ RefreshesAreExclusive' /\ SuccessorIsUnspent' /\ RejectedOnlyAfterLoss'
  BY <1>10 DEF LockIsHeld, RefreshesAreExclusive, SuccessorIsUnspent, RejectedOnlyAfterLoss,
               Refreshing
<1>12. StoredTokenIsAlive'
  BY <1>1, <1>2, <1>3, <1>7 DEF StoredTokenIsAlive, Stored
<1>13. QED
  BY <1>8, <1>9, <1>11, <1>12 DEF IndInv

\* The lock is taken with the stored token, while nobody refreshes the row.
LEMMA FindExpiredKeeps ==
    ASSUME IndInv, NEW i \in Instances, NEW k \in Credentials, FindExpired(i, k)
    PROVE  IndInv'
<1> DEFINE f == [phase |-> "sent", token |-> row[k].token]
<1>1. /\ TypeOK /\ Stored(k) /\ lock[k] = Nil
      /\ flight[i][k].phase = "lock"
      /\ flight' = [flight EXCEPT ![i][k] = f]
      /\ lock' = [lock EXCEPT ![k] = i]
      /\ UNCHANGED <<row, conn, call, grant, spent, expired, lost>>
  BY DEF IndInv, FindExpired
<1>2. row[k].token \in Tokens /\ grant[row[k].token] = k
  BY <1>1 DEF TypeOK, IndInv, References, Stored
<1>3. f \in Flight /\ f.phase = "sent" /\ f.token = row[k].token
  BY <1>2 DEF Flight
<1> HIDE DEF f
<1>4. /\ flight' \in [Instances -> [Credentials -> Flight]]
      /\ flight'[i][k] = f
      /\ \A j \in Instances, l \in Credentials :
           (j # i \/ l # k) => flight'[j][l] = flight[j][l]
  BY <1>1, <1>3 DEF TypeOK
<1>5. /\ lock' \in [Credentials -> Instances \cup {Nil}] /\ lock'[k] = i
      /\ \A l \in Credentials : l # k => lock'[l] = lock[l]
  BY <1>1 DEF TypeOK
<1>6. \A j \in Instances : ~Refreshing(j, k)
  BY <1>1 DEF IndInv, LockIsHeld
<1>7. TypeOK'
  BY <1>1, <1>4, <1>5 DEF TypeOK
<1>8. References'
  BY <1>1, <1>2, <1>3, <1>4 DEF IndInv, References, Stored
<1>9. LockIsHeld' /\ RefreshesAreExclusive'
  BY <1>1, <1>3, <1>4, <1>5, <1>6
     DEF IndInv, LockIsHeld, RefreshesAreExclusive, Refreshing, Stored
<1>10. SuccessorIsUnspent' /\ RejectedOnlyAfterLoss'
  BY <1>1, <1>3, <1>4 DEF IndInv, SuccessorIsUnspent, RejectedOnlyAfterLoss, Stored
<1>11. StoredTokenIsAlive'
  BY <1>1, <1>4 DEF IndInv, StoredTokenIsAlive, Stored
<1>12. QED
  BY <1>7, <1>8, <1>9, <1>10, <1>11 DEF IndInv

LEMMA FindNothingKeeps ==
    ASSUME IndInv, NEW i \in Instances, NEW k \in Credentials, FindNothing(i, k)
    PROVE  IndInv'
<1> DEFINE f == [flight[i][k] EXCEPT !.phase = "sent"]
<1>1. /\ TypeOK /\ ~Stored(k) /\ flight[i][k] \in Flight
      /\ flight[i][k].phase = "lock"
      /\ UNCHANGED <<row, conn, lock, call, grant, spent, expired, lost>>
  BY DEF IndInv, TypeOK, FindNothing
<1>2. flight' = [flight EXCEPT ![i][k] = f]
  BY <1>1 DEF FindNothing, TypeOK
<1>3. f \in Flight /\ f.token = flight[i][k].token
  BY <1>1 DEF Flight
<1> HIDE DEF f
<1>4. /\ flight' \in [Instances -> [Credentials -> Flight]]
      /\ flight'[i][k] = f
      /\ \A j \in Instances, l \in Credentials :
           (j # i \/ l # k) => flight'[j][l] = flight[j][l]
  BY <1>1, <1>2, <1>3 DEF TypeOK
<1>5. TypeOK'
  BY <1>1, <1>4 DEF TypeOK
<1>6. References'
  BY <1>1, <1>3, <1>4 DEF IndInv, References, Stored
<1>7. \A j \in Instances, l \in Credentials : Stored(l) => flight'[j][l] = flight[j][l]
  BY <1>1, <1>4
<1>8. /\ LockIsHeld' /\ RefreshesAreExclusive' /\ SuccessorIsUnspent'
      /\ StoredTokenIsAlive' /\ RejectedOnlyAfterLoss'
  BY <1>1, <1>7 DEF IndInv, LockIsHeld, RefreshesAreExclusive, SuccessorIsUnspent,
                    StoredTokenIsAlive, RejectedOnlyAfterLoss, Refreshing, Stored
<1>9. QED
  BY <1>5, <1>6, <1>8 DEF IndInv

\* The stored token is spent by the one refresh that holds the lock, which
\* from here on holds its successor.
LEMMA ExchangeKeeps ==
    ASSUME IndInv, NEW i \in Instances, NEW k \in Credentials, NEW t \in Tokens,
           Exchange(i, k, t)
    PROVE  IndInv'
<1> DEFINE f == [phase |-> IF row[k].company THEN "mint" ELSE "save", token |-> t]
           u == flight[i][k].token
<1>1. /\ TypeOK /\ flight[i][k].phase = "sent" /\ grant[t] = Nil
      /\ flight' = [flight EXCEPT ![i][k] = f]
      /\ spent' = spent \cup {u}
      /\ grant' = [grant EXCEPT ![t] = k]
      /\ UNCHANGED <<row, conn, lock, call, expired, lost>>
  BY DEF IndInv, Exchange, NewToken
<1>2. u \in Tokens /\ grant[u] = k /\ row[k].status # "unborn"
  BY <1>1 DEF IndInv, References
<1>3. f \in Flight /\ f.phase \in {"mint", "save"} /\ f.token = t
  BY DEF Flight
<1> HIDE DEF f, u
<1>4. /\ flight' \in [Instances -> [Credentials -> Flight]]
      /\ flight'[i][k] = f
      /\ \A j \in Instances, l \in Credentials :
           (j # i \/ l # k) => flight'[j][l] = flight[j][l]
  BY <1>1, <1>3 DEF TypeOK
<1>5. /\ grant' \in [Tokens -> Credentials \cup {Nil}] /\ grant'[t] = k
      /\ \A v \in Tokens : grant[v] # Nil => v # t /\ grant'[v] = grant[v]
  BY <1>1 DEF TypeOK
<1>6. t \notin spent'
  BY <1>1, <1>2 DEF IndInv, References
<1>7. TypeOK'
  BY <1>1, <1>2, <1>4, <1>5 DEF TypeOK
<1>8. References'
  <2>1. \A l \in Credentials : row[l].status # "unborn" => grant'[row[l].token] = l
    BY <1>1, <1>5 DEF IndInv, References, TypeOK
  <2>2. \A c \in Calls : call[c].pc # "idle" => grant'[call[c].token] = call[c].credential
    BY <1>5 DEF IndInv, References
  <2>3. \A j \in Instances, l \in Credentials : flight'[j][l].phase # "none" =>
           /\ row[l].status # "unborn"
           /\ flight'[j][l].token \in Tokens /\ grant'[flight'[j][l].token] = l
    BY <1>2, <1>3, <1>4, <1>5 DEF IndInv, References
  <2>4. \A v \in spent' : grant'[v] # Nil
    BY <1>1, <1>2, <1>5 DEF IndInv, References, TypeOK
  <2>5. QED
    BY <1>1, <2>1, <2>2, <2>3, <2>4 DEF IndInv, References, Stored
<1>9. \A j \in Instances, l \in Credentials : Refreshing(j, l)' <=> Refreshing(j, l)
  BY <1>1, <1>3, <1>4 DEF Refreshing
<1>10. LockIsHeld' /\ RefreshesAreExclusive'
  BY <1>1, <1>3, <1>4, <1>9 DEF IndInv, LockIsHeld, RefreshesAreExclusive, Stored
<1>11. SuccessorIsUnspent'
  <2>1. SUFFICES ASSUME NEW j \in Instances, NEW l \in Credentials, Stored(l),
                        flight'[j][l].phase \in {"mint", "save"}
                 PROVE  flight'[j][l].token \notin spent'
    BY <1>1 DEF SuccessorIsUnspent, Stored
  <2>2. CASE j = i /\ l = k
    BY <1>3, <1>4, <1>6, <2>2
  <2>3. CASE l = k /\ j # i
    BY <1>1, <1>4, <2>1, <2>3 DEF IndInv, RefreshesAreExclusive, Refreshing
  <2>4. CASE l # k
    BY <1>1, <1>2, <1>4, <2>1, <2>4 DEF IndInv, SuccessorIsUnspent, References
  <2>5. QED
    BY <2>2, <2>3, <2>4
<1>12. StoredTokenIsAlive'
  <2>1. SUFFICES ASSUME NEW l \in Credentials, Stored(l), row[l].token \in spent', l \notin lost
                 PROVE  \E j \in Instances : /\ flight'[j][l].phase \in {"mint", "save"}
                                             /\ flight'[j][l].token \notin spent'
    BY <1>1 DEF StoredTokenIsAlive, Stored
  <2>2. CASE l = k
    BY <1>3, <1>4, <1>6, <2>2
  <2>3. CASE l # k
    <3>1. row[l].token \in spent
      BY <1>1, <1>2, <2>1, <2>3 DEF IndInv, References, Stored
    <3>2. PICK j \in Instances : /\ flight[j][l].phase \in {"mint", "save"}
                                 /\ flight[j][l].token \notin spent
      BY <2>1, <3>1 DEF IndInv, StoredTokenIsAlive
    <3>3. flight[j][l].token # u
      BY <1>2, <2>3, <3>2 DEF IndInv, References
    <3>4. QED
      BY <1>1, <1>4, <2>3, <3>2, <3>3
  <2>4. QED
    BY <2>2, <2>3
<1>13. RejectedOnlyAfterLoss'
  BY <1>1, <1>3, <1>4 DEF IndInv, RejectedOnlyAfterLoss, Stored
<1>14. QED
  BY <1>7, <1>8, <1>10, <1>11, <1>12, <1>13 DEF IndInv

\* A stored token that is rejected has been spent before; its successor is not
\* on its way, for that refresh would hold the lock: so it was lost.
LEMMA RejectKeeps ==
    ASSUME IndInv, NEW i \in Instances, NEW k \in Credentials, Reject(i, k)
    PROVE  IndInv'
<1> DEFINE f == [flight[i][k] EXCEPT !.phase = "rejected"]
<1>1. /\ TypeOK /\ flight[i][k] \in Flight
      /\ flight[i][k].phase = "sent" /\ flight[i][k].token \in spent
      /\ UNCHANGED <<row, conn, call, grant, spent, expired, lost>>
  BY DEF IndInv, TypeOK, Reject
<1>2. flight' = [flight EXCEPT ![i][k] = f]
  BY <1>1 DEF Reject, TypeOK
<1>3. f \in Flight /\ f.phase = "rejected" /\ f.token = flight[i][k].token
  BY <1>1 DEF Flight
<1> HIDE DEF f
<1>4. /\ flight' \in [Instances -> [Credentials -> Flight]]
      /\ flight'[i][k] = f
      /\ \A j \in Instances, l \in Credentials :
           (j # i \/ l # k) => flight'[j][l] = flight[j][l]
  BY <1>1, <1>2, <1>3 DEF TypeOK
<1>5. /\ lock' \in [Credentials -> Instances \cup {Nil}]
      /\ \A l \in Credentials : (l # k \/ lock[k] # i) => lock'[l] = lock[l]
  BY <1>1 DEF Reject, TypeOK
<1>6. Stored(k) => \A j \in Instances : Refreshing(j, k) => j = i
  BY <1>1 DEF IndInv, RefreshesAreExclusive, Refreshing
<1>7. Stored(k) => k \in lost
  <2>1. SUFFICES ASSUME Stored(k), k \notin lost PROVE FALSE
    OBVIOUS
  <2>2. row[k].token \in spent
    BY <1>1, <2>1 DEF IndInv, RefreshesAreExclusive, Refreshing
  <2>3. PICK j \in Instances : flight[j][k].phase \in {"mint", "save"}
    BY <2>1, <2>2 DEF IndInv, StoredTokenIsAlive
  <2>4. j = i
    BY <1>6, <2>1, <2>3 DEF Refreshing
  <2>5. QED
    BY <1>1, <2>3, <2>4
<1>8. TypeOK'
  BY <1>1, <1>4, <1>5 DEF TypeOK
<1>9. References'
  BY <1>1, <1>3, <1>4 DEF IndInv, References, Stored
<1>10. \A j \in Instances, l \in Credentials : Refreshing(j, l)' =>
         (j # i \/ l # k) /\ Refreshing(j, l) /\ flight'[j][l] = flight[j][l]
  BY <1>3, <1>4 DEF Refreshing
<1>11. LockIsHeld'
  <2>1. SUFFICES ASSUME NEW j \in Instances, NEW l \in Credentials, Stored(l),
                        Refreshing(j, l)'
                 PROVE  lock'[l] = j
    BY <1>1 DEF LockIsHeld, Stored
  <2>2. l # k /\ lock[l] = j
    BY <1>6, <1>10, <2>1 DEF IndInv, LockIsHeld
  <2>3. QED
    BY <1>5, <2>2
<1>12. RefreshesAreExclusive' /\ SuccessorIsUnspent'
  BY <1>1, <1>3, <1>4, <1>10
     DEF IndInv, RefreshesAreExclusive, SuccessorIsUnspent, Stored
<1>13. StoredTokenIsAlive'
  BY <1>1, <1>4, <1>7 DEF IndInv, StoredTokenIsAlive, Stored
<1>14. RejectedOnlyAfterLoss'
  BY <1>1, <1>4, <1>7 DEF IndInv, RejectedOnlyAfterLoss, Stored
<1>15. QED
  BY <1>8, <1>9, <1>11, <1>12, <1>13, <1>14 DEF IndInv

LEMMA MintKeeps ==
    ASSUME IndInv, NEW i \in Instances, NEW k \in Credentials, Mint(i, k)
    PROVE  IndInv'
<1> DEFINE f == [flight[i][k] EXCEPT !.phase = "save"]
<1>1. /\ TypeOK /\ flight[i][k] \in Flight /\ flight[i][k].phase = "mint"
      /\ UNCHANGED <<row, conn, lock, call, grant, spent, expired, lost>>
  BY DEF IndInv, TypeOK, Mint
<1>2. flight' = [flight EXCEPT ![i][k] = f]
  BY <1>1 DEF Mint, TypeOK
<1>3. f \in Flight /\ f.phase = "save" /\ f.token = flight[i][k].token
  BY <1>1 DEF Flight
<1> HIDE DEF f
<1>4. /\ flight' \in [Instances -> [Credentials -> Flight]]
      /\ flight'[i][k] = f
      /\ \A j \in Instances, l \in Credentials :
           (j # i \/ l # k) => flight'[j][l] = flight[j][l]
  BY <1>1, <1>2, <1>3 DEF TypeOK
<1>5. TypeOK' /\ References'
  <2>1. TypeOK'
    BY <1>1, <1>4 DEF TypeOK
  <2>2. References'
    BY <1>1, <1>3, <1>4 DEF IndInv, References, Stored
  <2>3. QED
    BY <2>1, <2>2
<1>6. \A j \in Instances, l \in Credentials :
        /\ flight'[j][l].token = flight[j][l].token
        /\ (flight'[j][l].phase = flight[j][l].phase
            \/ (flight[j][l].phase = "mint" /\ flight'[j][l].phase = "save"))
  BY <1>1, <1>3, <1>4
<1>7. /\ LockIsHeld' /\ RefreshesAreExclusive'
  BY <1>1, <1>6 DEF IndInv, LockIsHeld, RefreshesAreExclusive, Refreshing, Stored
<1>8. SuccessorIsUnspent' /\ StoredTokenIsAlive' /\ RejectedOnlyAfterLoss'
  BY <1>1, <1>6
     DEF IndInv, SuccessorIsUnspent, StoredTokenIsAlive, RejectedOnlyAfterLoss, Stored
<1>9. QED
  BY <1>5, <1>7, <1>8 DEF IndInv

LEMMA InvariantStep == IndInv /\ [Next]_vars => IndInv'
<1> SUFFICES ASSUME IndInv, [Next]_vars PROVE IndInv'
  OBVIOUS
<1>1. ASSUME NEW k \in Credentials, NEW t \in Tokens, NEW company \in BOOLEAN,
             Connect(k, t, company)
      PROVE  IndInv'
  BY <1>1, ConnectKeeps
<1>2. ASSUME NEW c \in Calls, (\E i \in Instances : Read(c, i)) \/ Use(c) \/ Ask(c)
      PROVE  IndInv'
  BY <1>2, CallKeeps
<1>3. ASSUME NEW i \in Instances, NEW k \in Credentials, TakeLock(i, k)
      PROVE  IndInv'
  <2>1. CASE FindFresh(i, k)
    BY <2>1, EndKeeps DEF FindFresh, IndInv, TypeOK
  <2>2. QED
    BY <1>3, <2>1, FindExpiredKeeps, FindNothingKeeps DEF TakeLock
<1>4. ASSUME NEW i \in Instances, NEW k \in Credentials, Proceed(i, k)
      PROVE  IndInv'
  <2>1. CASE MarkError(i, k)
    <3>1. /\ conn' \in Conn /\ conn'.credential = conn.credential
          /\ conn'.status = "none" <=> conn.status = "none"
      BY <2>1 DEF MarkError, IndInv, TypeOK, Conn
    <3>2. QED
      BY <2>1, <3>1, EndKeeps DEF MarkError, IndInv, TypeOK
  <2>2. QED
    BY <1>4, <2>1, ExchangeKeeps, RejectKeeps, MintKeeps, SaveKeeps DEF Proceed
<1>5. ASSUME NEW i \in Instances, NEW k \in Credentials, Fail(i, k)
      PROVE  IndInv'
  BY <1>5, EndKeeps DEF Fail, IndInv, TypeOK
<1>6. ASSUME NEW t \in Tokens, Expire(t)
      PROVE  IndInv'
  BY <1>6 DEF Expire, IndInv, TypeOK, References, LockIsHeld, RefreshesAreExclusive,
              SuccessorIsUnspent, StoredTokenIsAlive, RejectedOnlyAfterLoss, Stored, Refreshing
<1>7. CASE UNCHANGED vars
  BY <1>7 DEF vars, IndInv, TypeOK, References, LockIsHeld, RefreshesAreExclusive,
              SuccessorIsUnspent, StoredTokenIsAlive, RejectedOnlyAfterLoss, Stored, Refreshing
<1>8. QED
  BY <1>1, <1>2, <1>3, <1>4, <1>5, <1>6, <1>7 DEF Next

LEMMA Invariance == Spec => []IndInv
  BY InitInvariant, InvariantStep, PTL DEF Spec

\* Every variable keeps its type: no step of any process stores a payload
\* without a token.
THEOREM TypeCorrect == Spec => []TypeOK
<1>1. IndInv => TypeOK
  BY DEF IndInv
<1>2. QED
  BY Invariance, <1>1, PTL

\* withCredentialLock keeps the processes apart: a stored credential is
\* refreshed by one of them at a time, with the token that is stored.
THEOREM Exclusive == Spec => []RefreshesAreExclusive
<1>1. IndInv => RefreshesAreExclusive
  BY DEF IndInv
<1>2. QED
  BY Invariance, <1>1, PTL

\* However many processes race, the refresh token on file stays alive until a
\* reply or a write is lost (the re-read under the lock, #persist).
THEOREM TokenAlive == Spec => []StoredTokenIsAlive
<1>1. IndInv => StoredTokenIsAlive
  BY DEF IndInv
<1>2. QED
  BY Invariance, <1>1, PTL

\* Two callers never get each other rejected: the credential on file is
\* rejected only after a new token was lost (#refreshHighLevel).
THEOREM RejectedAfterLoss == Spec => []RejectedOnlyAfterLoss
<1>1. IndInv => RejectedOnlyAfterLoss
  BY DEF IndInv
<1>2. QED
  BY Invariance, <1>1, PTL
=============================================================================
