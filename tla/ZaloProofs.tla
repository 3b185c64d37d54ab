----------------------------- MODULE ZaloProofs -----------------------------
(***************************************************************************)
(* What holds of a centre's Zalo credential for any number of processes,   *)
(* callers, refreshes and tokens, and of its messages for any number of    *)
(* customers, events, replies, handlers, failures and crashes.             *)
(***************************************************************************)
EXTENDS ZaloToken, ZaloMessages, TLAPS

USE NilAssumption

LEMMA InitInvariant == Init => IndInv
BY DEF Init, IndInv, TypeOK, References, CarriedIsUnspent, StoredTokenIsAlive,
       OneRefreshPerProcess, NobodyWaitsForNothing, Row, Call, Refresh, NoCall, NoRefresh, Carrying

\* The row, the refreshes and the entries stay as they are: what remains to be
\* shown of a step is its typing.
LEMMA OthersKeep ==
    ASSUME IndInv, TypeOK', References', NobodyWaitsForNothing',
           UNCHANGED <<row, inflight, refresh, spent, expired, dropped>>,
           granted \subseteq granted', lost \subseteq lost'
    PROVE  IndInv'
BY DEF IndInv, CarriedIsUnspent, StoredTokenIsAlive, OneRefreshPerProcess, Carrying

LEMMA ConnectKeeps ==
    ASSUME IndInv, NEW t \in Tokens, Connect(t)
    PROVE  IndInv'
<1>1. TypeOK'
  BY DEF IndInv, TypeOK, Connect, Row
<1>2. References' /\ NobodyWaitsForNothing'
  BY DEF IndInv, NobodyWaitsForNothing, References, Connect
<1>3. CarriedIsUnspent' /\ OneRefreshPerProcess'
  BY DEF IndInv, CarriedIsUnspent, OneRefreshPerProcess, Carrying, Connect
<1>4. StoredTokenIsAlive'
  BY DEF IndInv, TypeOK, StoredTokenIsAlive, Connect, NewToken
<1>5. QED
  BY <1>1, <1>2, <1>3, <1>4 DEF IndInv

LEMMA DisconnectKeeps ==
    ASSUME IndInv, NEW i \in Instances, Disconnect(i) \/ Forget(i)
    PROVE  IndInv'
<1>1. TypeOK'
  BY DEF IndInv, TypeOK, Disconnect, Forget, Row
<1>2. References' /\ NobodyWaitsForNothing'
  BY DEF IndInv, NobodyWaitsForNothing, TypeOK, References, Disconnect, Forget
<1>3. CarriedIsUnspent'
  BY DEF IndInv, CarriedIsUnspent, Carrying, Disconnect, Forget
<1>4. StoredTokenIsAlive'
  BY DEF IndInv, TypeOK, StoredTokenIsAlive, Carrying, Disconnect, Forget
<1>5. OneRefreshPerProcess'
  BY DEF IndInv, TypeOK, References, OneRefreshPerProcess, Disconnect, Forget
<1>6. QED
  BY <1>1, <1>2, <1>3, <1>4, <1>5 DEF IndInv

\* A caller with a token Zalo has issued: it returns, joins, or starts the one
\* refresh of its process.
LEMMA DecideKeeps ==
    ASSUME IndInv, NEW c \in Calls, NEW i \in Instances, NEW t \in granted, Decide(c, i, t),
           cache' \in [Instances -> Tokens \cup {Nil}],
           \A j \in Instances : cache'[j] \in granted \cup {Nil},
           UNCHANGED <<row, closing, granted, spent, expired, lost, dropped>>
    PROVE  IndInv'
<1>1. TypeOK /\ References /\ t \in Tokens
  BY DEF IndInv, TypeOK
<1>2. CASE t \notin expired
  <2>1. call' = [call EXCEPT ![c] = NoCall] /\ UNCHANGED <<inflight, refresh>>
    BY <1>2 DEF Decide
  <2>2. TypeOK'
    BY <1>1, <2>1 DEF TypeOK, Call, NoCall
  <2>3. References' /\ NobodyWaitsForNothing'
    BY <1>1, <2>1 DEF IndInv, NobodyWaitsForNothing, TypeOK, References, NoCall
  <2>4. QED
    BY <2>1, <2>2, <2>3, OthersKeep
<1>3. CASE t \in expired /\ inflight[i] # Nil
  <2>1. /\ call' = [call EXCEPT ![c] =
                      [NoCall EXCEPT !.pc = "waiting", !.at = i, !.refresh = inflight[i]]]
        /\ UNCHANGED <<inflight, refresh>>
    BY <1>3 DEF Decide
  <2>2. inflight[i] \in Refreshes
    BY <1>1, <1>3 DEF TypeOK
  <2>3. TypeOK'
    BY <1>1, <2>1, <2>2 DEF TypeOK, Call, NoCall
  <2>4. References' /\ NobodyWaitsForNothing'
    BY <1>1, <2>1, <2>2 DEF IndInv, NobodyWaitsForNothing, TypeOK, References, NoCall
  <2>5. QED
    BY <2>1, <2>3, <2>4, OthersKeep
<1>4. CASE t \in expired /\ inflight[i] = Nil
  <2>1. PICK r \in Refreshes :
          /\ refresh[r].phase = "none"
          /\ refresh' = [refresh EXCEPT ![r] =
                           [phase |-> "sent", at |-> i, token |-> t, next |-> Nil]]
          /\ inflight' = [inflight EXCEPT ![i] = r]
          /\ call' = [call EXCEPT ![c] =
                        [NoCall EXCEPT !.pc = "waiting", !.at = i, !.refresh = r]]
    BY <1>4 DEF Decide
  <2>2. /\ refresh'[r] = [phase |-> "sent", at |-> i, token |-> t, next |-> Nil]
        /\ \A q \in Refreshes : q # r => refresh'[q] = refresh[q]
    BY <1>1, <2>1 DEF TypeOK
  <2>3. TypeOK'
    BY <1>1, <2>1 DEF TypeOK, Call, NoCall, Refresh
  <2>4. References' /\ NobodyWaitsForNothing'
    BY <1>1, <1>4, <2>1, <2>2 DEF IndInv, NobodyWaitsForNothing, TypeOK, References, NoCall
  <2>5. CarriedIsUnspent'
    BY <2>2 DEF IndInv, CarriedIsUnspent, Carrying
  <2>6. StoredTokenIsAlive'
    BY <2>1, <2>2 DEF IndInv, StoredTokenIsAlive, Carrying
  <2>7. OneRefreshPerProcess'
    BY <1>1, <1>4, <2>1, <2>2 DEF IndInv, TypeOK, OneRefreshPerProcess
  <2>8. QED
    BY <2>3, <2>4, <2>5, <2>6, <2>7 DEF IndInv
<1>5. QED
  BY <1>2, <1>3, <1>4

LEMMA CallKeeps ==
    ASSUME IndInv, NEW c \in Calls,
           (\E i \in Instances : Hit(c, i) \/ Select(c, i)) \/ Load(c)
    PROVE  IndInv'
<1>1. TypeOK /\ References
  BY DEF IndInv
<1>2. ASSUME NEW i \in Instances, Hit(c, i) PROVE IndInv'
  <2>1. cache[i] \in granted
    BY <1>1, <1>2 DEF References, Hit
  <2>2. QED
    BY <1>1, <1>2, <2>1, DecideKeeps DEF TypeOK, References, Hit
<1>3. ASSUME NEW i \in Instances, Select(c, i) PROVE IndInv'
  <2>1. TypeOK'
    BY <1>1, <1>3 DEF TypeOK, Row, Call, NoCall, Select
  <2>2. References' /\ NobodyWaitsForNothing'
    BY <1>1, <1>3 DEF IndInv, NobodyWaitsForNothing, TypeOK, References, NoCall, Select
  <2>3. QED
    BY <1>3, <2>1, <2>2, OthersKeep DEF Select
<1>4. CASE Load(c)
  <2>1. call[c].at \in Instances /\ call[c].token \in granted /\ call[c].token \in Tokens
    BY <1>1, <1>4 DEF TypeOK, References, Load
  <2>2. /\ cache' \in [Instances -> Tokens \cup {Nil}]
        /\ \A j \in Instances : cache'[j] \in granted \cup {Nil}
    BY <1>1, <1>4, <2>1 DEF TypeOK, References, Load
  <2>3. QED
    BY <1>4, <2>1, <2>2, DecideKeeps DEF Load
<1>5. QED
  BY <1>2, <1>3, <1>4

\* A refresh changes its phase, with what it carries, and nothing of the others.
LEMMA PhaseFacts ==
    ASSUME TypeOK, NEW r \in Refreshes, NEW q \in Refresh,
           refresh' = [refresh EXCEPT ![r] = q]
    PROVE  /\ refresh' \in [Refreshes -> Refresh]
           /\ refresh'[r] = q
           /\ \A s \in Refreshes : s # r => refresh'[s] = refresh[s]
BY DEF TypeOK

LEMMA ExchangeKeeps ==
    ASSUME IndInv, NEW r \in Refreshes, NEW t \in Tokens, Exchange(r, t)
    PROVE  IndInv'
<1> DEFINE q == [refresh[r] EXCEPT !.phase = "answered", !.next = t]
<1>1. TypeOK /\ References /\ refresh[r].phase = "sent" /\ refresh[r] \in Refresh
  BY DEF IndInv, TypeOK, Exchange
<1>2. q \in Refresh /\ q.phase = "answered" /\ q.next = t /\ q.at = refresh[r].at
      /\ q.token = refresh[r].token
  BY <1>1 DEF Refresh
<1>3. refresh' = [refresh EXCEPT ![r] = q]
  BY <1>1 DEF TypeOK, Exchange
<1> HIDE DEF q
<1>4. /\ refresh' \in [Refreshes -> Refresh]
      /\ refresh'[r] = q
      /\ \A s \in Refreshes : s # r => refresh'[s] = refresh[s]
  BY <1>1, <1>2, <1>3, PhaseFacts
<1>5. refresh[r].at \in Instances /\ refresh[r].token \in expired
  BY <1>1 DEF References
<1>6. TypeOK'
  BY <1>1, <1>4, <1>5 DEF TypeOK, Exchange
<1>7. References' /\ NobodyWaitsForNothing'
  BY <1>1, <1>2, <1>4, <1>5 DEF IndInv, NobodyWaitsForNothing, TypeOK, References, Exchange
<1>8. CarriedIsUnspent'
  BY <1>1, <1>2, <1>4, <1>5 DEF IndInv, TypeOK, CarriedIsUnspent, Carrying, Exchange, NewToken
<1>9. StoredTokenIsAlive'
  <2>1. SUFFICES ASSUME row.token \in spent', row.token \notin lost
                 PROVE  \E s \in Refreshes : Carrying(s)' /\ refresh'[s].token = row.token
    BY DEF StoredTokenIsAlive, Exchange
  <2>2. CASE row.token = refresh[r].token
    BY <1>2, <1>4, <2>2 DEF Carrying
  <2>3. CASE row.token # refresh[r].token
    <3>1. row.token \in spent
      BY <2>1, <2>3 DEF Exchange
    <3>2. PICK s \in Refreshes : Carrying(s) /\ refresh[s].token = row.token
      BY <2>1, <3>1 DEF IndInv, StoredTokenIsAlive
    <3>3. s # r
      BY <2>3, <3>2
    <3>4. QED
      BY <1>4, <3>2, <3>3 DEF Carrying
  <2>4. QED
    BY <2>2, <2>3
<1>10. OneRefreshPerProcess'
  BY <1>1, <1>2, <1>4 DEF IndInv, OneRefreshPerProcess, Exchange
<1>11. QED
  BY <1>6, <1>7, <1>8, <1>9, <1>10 DEF IndInv

\* A refresh that fails has its loss recorded if it carried a token.
LEMMA FailureKeeps ==
    ASSUME IndInv, NEW r \in Refreshes, Refuse(r) \/ LoseAnswer(r) \/ PersistFails(r)
    PROVE  IndInv'
<1> DEFINE q == [refresh[r] EXCEPT !.phase = "failed"]
<1>1. TypeOK /\ References /\ refresh[r].phase # "none" /\ refresh[r] \in Refresh
  BY DEF IndInv, TypeOK, Refuse, LoseAnswer, PersistFails
<1>2. q \in Refresh /\ q.phase = "failed" /\ q.at = refresh[r].at /\ q.token = refresh[r].token
  BY <1>1 DEF Refresh
<1>3. refresh' = [refresh EXCEPT ![r] = q]
  BY <1>1 DEF TypeOK, Refuse, LoseAnswer, PersistFails
<1> HIDE DEF q
<1>4. /\ refresh' \in [Refreshes -> Refresh]
      /\ refresh'[r] = q
      /\ \A s \in Refreshes : s # r => refresh'[s] = refresh[s]
  BY <1>1, <1>2, <1>3, PhaseFacts
<1>5. refresh[r].at \in Instances /\ refresh[r].token \in expired
  BY <1>1 DEF References
<1>6. /\ lost \subseteq lost' /\ lost' \subseteq lost \cup {refresh[r].token}
      /\ Carrying(r) => refresh[r].token \in lost'
      /\ ~Carrying(r) => lost' = lost
      /\ cache' = [cache EXCEPT ![refresh[r].at] = Nil]
      /\ UNCHANGED <<row, inflight, call, closing, granted, spent, expired, dropped>>
  BY DEF Refuse, LoseAnswer, PersistFails, Carrying
<1>7. Carrying(r) => refresh[r].token \in spent
  BY DEF IndInv, CarriedIsUnspent
<1>8. TypeOK'
  BY <1>1, <1>4, <1>6, <1>7 DEF TypeOK
<1>9. References' /\ NobodyWaitsForNothing'
  BY <1>1, <1>2, <1>4, <1>5, <1>6 DEF IndInv, NobodyWaitsForNothing, TypeOK, References
<1>10. CarriedIsUnspent' /\ OneRefreshPerProcess'
  BY <1>1, <1>2, <1>4, <1>6 DEF IndInv, CarriedIsUnspent, OneRefreshPerProcess, Carrying
<1>11. StoredTokenIsAlive'
  BY <1>4, <1>6 DEF IndInv, StoredTokenIsAlive, Carrying
<1>12. QED
  BY <1>8, <1>9, <1>10, <1>11 DEF IndInv

LEMMA KeepKeeps ==
    ASSUME IndInv, NEW r \in Refreshes, Keep(r)
    PROVE  IndInv'
<1> DEFINE q == [refresh[r] EXCEPT !.phase = "persist"]
<1>1. TypeOK /\ References /\ refresh[r].phase = "answered" /\ refresh[r] \in Refresh
  BY DEF IndInv, TypeOK, Keep
<1>2. q \in Refresh /\ q.phase = "persist" /\ q.at = refresh[r].at
      /\ q.token = refresh[r].token /\ q.next = refresh[r].next
  BY <1>1 DEF Refresh
<1>3. refresh' = [refresh EXCEPT ![r] = q]
  BY <1>1 DEF TypeOK, Keep
<1> HIDE DEF q
<1>4. /\ refresh' \in [Refreshes -> Refresh]
      /\ refresh'[r] = q
      /\ \A s \in Refreshes : s # r => refresh'[s] = refresh[s]
  BY <1>1, <1>2, <1>3, PhaseFacts
<1>5. /\ refresh[r].at \in Instances /\ refresh[r].token \in expired
      /\ refresh[r].next \in granted
  BY <1>1 DEF IndInv, References, CarriedIsUnspent, Carrying
<1>6. TypeOK'
  BY <1>1, <1>4, <1>5 DEF TypeOK, Keep
<1>7. References' /\ NobodyWaitsForNothing'
  BY <1>1, <1>2, <1>4, <1>5 DEF IndInv, NobodyWaitsForNothing, TypeOK, References, Keep
<1>8. CarriedIsUnspent' /\ OneRefreshPerProcess'
  BY <1>1, <1>2, <1>4 DEF IndInv, CarriedIsUnspent, OneRefreshPerProcess, Carrying, Keep
<1>9. StoredTokenIsAlive'
  BY <1>1, <1>2, <1>4 DEF IndInv, StoredTokenIsAlive, Carrying, Keep
<1>10. QED
  BY <1>6, <1>7, <1>8, <1>9 DEF IndInv

\* What the end of a promise changes.
LEMMA SettleFacts ==
    ASSUME TypeOK, NEW r \in Refreshes, refresh[r].at \in Instances, Settle(r)
    PROVE  /\ refresh' \in [Refreshes -> Refresh]
           /\ refresh'[r] = NoRefresh
           /\ \A s \in Refreshes : s # r => refresh'[s] = refresh[s]
           /\ inflight' \in [Instances -> Refreshes \cup {Nil}]
           /\ inflight'[refresh[r].at] = Nil
           /\ \A i \in Instances : i # refresh[r].at => inflight'[i] = inflight[i]
           /\ call' \in [Calls -> Call]
           /\ \A c \in Calls : call'[c] = IF call[c].refresh = r THEN NoCall ELSE call[c]
<1>1. NoRefresh \in Refresh /\ NoCall \in Call
  BY DEF NoRefresh, NoCall, Refresh, Call
<1>2. /\ refresh' \in [Refreshes -> Refresh]
      /\ refresh'[r] = NoRefresh
      /\ \A s \in Refreshes : s # r => refresh'[s] = refresh[s]
  BY <1>1 DEF TypeOK, Settle
<1>3. /\ inflight' \in [Instances -> Refreshes \cup {Nil}]
      /\ inflight'[refresh[r].at] = Nil
      /\ \A i \in Instances : i # refresh[r].at => inflight'[i] = inflight[i]
  BY DEF TypeOK, Settle
<1>4. /\ call' \in [Calls -> Call]
      /\ \A c \in Calls : call'[c] = IF call[c].refresh = r THEN NoCall ELSE call[c]
  BY <1>1 DEF TypeOK, Settle
<1>5. QED
  BY <1>2, <1>3, <1>4

\* A promise ends after its token was written, or with nothing to write.
LEMMA EndKeeps ==
    ASSUME IndInv, NEW r \in Refreshes, Persist(r) \/ MarkError(r)
    PROVE  IndInv'
<1>1. TypeOK /\ References /\ refresh[r].phase \in {"persist", "failed"} /\ Settle(r)
  BY DEF IndInv, Persist, MarkError
<1>2. refresh[r].at \in Instances
  BY <1>1 DEF References
<1>3. /\ refresh' \in [Refreshes -> Refresh]
      /\ refresh'[r].phase = "none"
      /\ \A s \in Refreshes : s # r => refresh'[s] = refresh[s]
      /\ inflight' \in [Instances -> Refreshes \cup {Nil}]
      /\ inflight'[refresh[r].at] = Nil
      /\ \A i \in Instances : i # refresh[r].at => inflight'[i] = inflight[i]
      /\ call' \in [Calls -> Call]
      /\ \A c \in Calls :
           IF call[c].refresh = r THEN call'[c].pc = "idle" ELSE call'[c] = call[c]
  BY <1>1, <1>2, SettleFacts DEF NoRefresh, NoCall
<1>4. /\ row' \in Row
      /\ row'.status = "connected" => row'.token \in Tokens
      /\ row'.token \in granted \cup {Nil}
      /\ \/ row'.token = row.token /\ ~Carrying(r)
         \/ row'.token \in granted \ spent
      /\ UNCHANGED <<cache, closing, granted, spent, expired, lost, dropped>>
  <2>1. CASE Persist(r)
    <3>1. refresh[r].next \in granted \ expired
      BY <2>1 DEF IndInv, CarriedIsUnspent, Carrying, Persist
    <3>2. refresh[r].next \in Tokens /\ refresh[r].next \notin spent
      BY <1>1, <3>1 DEF IndInv, TypeOK, CarriedIsUnspent
    <3>3. /\ row' = [row EXCEPT !.token = refresh[r].next]
          /\ UNCHANGED <<cache, closing, granted, spent, expired, lost, dropped>>
      BY <2>1 DEF Persist
    <3>4. row' \in Row /\ row'.token = refresh[r].next
      BY <1>1, <3>2, <3>3 DEF TypeOK, Row
    <3>5. QED
      BY <1>1, <3>1, <3>2, <3>3, <3>4 DEF TypeOK
  <2>2. CASE MarkError(r)
    <3>1. /\ row' \in {row, [row EXCEPT !.status = "error"]}
          /\ UNCHANGED <<cache, closing, granted, spent, expired, lost, dropped>>
          /\ ~Carrying(r)
      BY <2>2 DEF MarkError, Carrying
    <3>2. /\ row' \in Row /\ row'.token = row.token
          /\ row'.status = "connected" => row.status = "connected"
      BY <1>1, <3>1 DEF TypeOK, Row
    <3>3. QED
      BY <1>1, <3>1, <3>2 DEF TypeOK, References
  <2>3. QED
    BY <2>1, <2>2
<1>5. TypeOK'
  BY <1>1, <1>3, <1>4 DEF TypeOK
<1>6. References' /\ NobodyWaitsForNothing'
  BY <1>1, <1>3, <1>4 DEF IndInv, NobodyWaitsForNothing, References
<1>7. CarriedIsUnspent'
  BY <1>3, <1>4 DEF IndInv, CarriedIsUnspent, Carrying
<1>8. StoredTokenIsAlive'
  BY <1>3, <1>4 DEF IndInv, StoredTokenIsAlive, Carrying
<1>9. OneRefreshPerProcess'
  <2>1. SUFFICES ASSUME NEW s \in Refreshes, refresh'[s].phase # "none",
                        refresh'[s].at \notin dropped
                 PROVE  inflight'[refresh'[s].at] = s
    BY <1>4 DEF OneRefreshPerProcess
  <2>2. s # r /\ refresh'[s] = refresh[s]
    BY <1>3, <2>1
  <2>3. inflight[refresh[s].at] = s
    BY <2>1, <2>2 DEF IndInv, OneRefreshPerProcess
  <2>4. refresh[s].at # refresh[r].at
    BY <1>1, <2>1, <2>2, <2>3 DEF IndInv, OneRefreshPerProcess
  <2>5. refresh[s].at \in Instances
    BY <1>1, <2>1, <2>2 DEF References
  <2>6. QED
    BY <1>3, <2>2, <2>3, <2>4, <2>5
<1>10. QED
  BY <1>5, <1>6, <1>7, <1>8, <1>9 DEF IndInv

LEMMA CrashKeeps ==
    ASSUME IndInv, NEW i \in Instances, Crash(i)
    PROVE  IndInv'
<1>1. TypeOK /\ References
  BY DEF IndInv
<1>2. NoRefresh \in Refresh /\ NoCall \in Call
  BY DEF NoRefresh, NoCall, Refresh, Call
<1>3. /\ refresh' \in [Refreshes -> Refresh]
      /\ \A r \in Refreshes : refresh[r].at = i => refresh'[r] = NoRefresh
      /\ \A r \in Refreshes : refresh[r].at # i => refresh'[r] = refresh[r]
  BY <1>1, <1>2 DEF TypeOK, Crash
<1>4. /\ call' \in [Calls -> Call]
      /\ \A c \in Calls : call'[c] = IF call[c].at = i THEN NoCall ELSE call[c]
  BY <1>1, <1>2 DEF TypeOK, Crash
<1>5. /\ lost \subseteq lost'
      /\ \A r \in Refreshes : refresh[r].at = i /\ Carrying(r) => refresh[r].token \in lost'
      /\ lost' \subseteq spent
  BY <1>1 DEF IndInv, TypeOK, CarriedIsUnspent, Crash
<1>6. /\ cache' = [cache EXCEPT ![i] = Nil]
      /\ inflight' = [inflight EXCEPT ![i] = Nil]
      /\ closing' = closing \ {i} /\ dropped' = dropped \ {i}
      /\ UNCHANGED <<row, granted, spent, expired>>
  BY DEF Crash
<1>7. TypeOK'
  BY <1>1, <1>3, <1>4, <1>5, <1>6 DEF TypeOK
<1>8. References' /\ NobodyWaitsForNothing'
  BY <1>1, <1>3, <1>4, <1>6 DEF IndInv, NobodyWaitsForNothing, TypeOK, References, NoCall, NoRefresh
<1>9. CarriedIsUnspent'
  BY <1>3, <1>6 DEF IndInv, CarriedIsUnspent, Carrying, NoRefresh
<1>10. StoredTokenIsAlive'
  BY <1>3, <1>5, <1>6 DEF IndInv, StoredTokenIsAlive, Carrying
<1>11. OneRefreshPerProcess'
  BY <1>1, <1>3, <1>6 DEF IndInv, TypeOK, References, OneRefreshPerProcess, NoRefresh
<1>12. QED
  BY <1>7, <1>8, <1>9, <1>10, <1>11 DEF IndInv

LEMMA ExpireKeeps ==
    ASSUME IndInv, NEW t \in Tokens, Expire(t)
    PROVE  IndInv'
BY DEF IndInv, TypeOK, References, CarriedIsUnspent, StoredTokenIsAlive,
       OneRefreshPerProcess, NobodyWaitsForNothing, Carrying, Expire

LEMMA InvariantStep == IndInv /\ [Next]_vars => IndInv'
<1> SUFFICES ASSUME IndInv, [Next]_vars PROVE IndInv'
  OBVIOUS
<1>1. ASSUME NEW t \in Tokens, Connect(t) \/ Expire(t) PROVE IndInv'
  BY <1>1, ConnectKeeps, ExpireKeeps
<1>2. ASSUME NEW i \in Instances, Disconnect(i) \/ Forget(i) \/ Crash(i) PROVE IndInv'
  BY <1>2, DisconnectKeeps, CrashKeeps
<1>3. ASSUME NEW c \in Calls, (\E i \in Instances : Hit(c, i) \/ Select(c, i)) \/ Load(c)
      PROVE  IndInv'
  BY <1>3, CallKeeps
<1>4. ASSUME NEW r \in Refreshes, Proceed(r) PROVE IndInv'
  BY <1>4, ExchangeKeeps, FailureKeeps, KeepKeeps, EndKeeps DEF Proceed
<1>5. CASE UNCHANGED vars
  BY <1>5 DEF vars, IndInv, TypeOK, References, CarriedIsUnspent, StoredTokenIsAlive,
              OneRefreshPerProcess, NobodyWaitsForNothing, Carrying
<1>6. QED
  BY <1>1, <1>2, <1>3, <1>4, <1>5 DEF Next

LEMMA Invariance == Spec => []IndInv
  BY InitInvariant, InvariantStep, PTL DEF Spec

\* Every variable keeps its type, and a connected row has a credential.
THEOREM TypeCorrect == Spec => []TypeOK
<1>1. IndInv => TypeOK
  BY DEF IndInv
<1>2. QED
  BY Invariance, <1>1, PTL

\* No refresh, reconnect, disconnect or restart, in whatever order and in how
\* many processes, puts a dead refresh token into the row (persistCred).
THEOREM TokenAlive == Spec => []StoredTokenIsAlive
<1>1. IndInv => StoredTokenIsAlive
  BY DEF IndInv
<1>2. QED
  BY Invariance, <1>1, PTL

\* The single flight of getOaAccessToken works until disconnect() drops it.
THEOREM SingleFlight == Spec => []OneRefreshPerProcess
<1>1. IndInv => OneRefreshPerProcess
  BY DEF IndInv
<1>2. QED
  BY Invariance, <1>1, PTL

\* A caller that waits, waits for a refresh under way in its process, which
\* answers it when it settles (the finally of getOaAccessToken).
THEOREM WaitersAreServed == Spec => []NobodyWaitsForNothing
<1>1. IndInv => NobodyWaitsForNothing
  BY DEF IndInv
<1>2. QED
  BY Invariance, <1>1, PTL


-----------------------------------------------------------------------------
\* The messages of a centre

MailSpec == MailInit /\ [][MailNext]_mailVars

EventSteps == {"lookup", "profile", "find", "make", "save", "linkfind", "linkmake",
               "touch", "push", "log", "resolve"}
SendSteps  == {"send1", "send2", "log", "resolve"}
Items      == Events \cup Replies \cup Notices

HandlerRecord == [at : {"free"} \cup EventSteps \cup SendSteps, of : Items \cup {NoOne},
                  who : Customers \cup {NoOne}, contact : Nat, old : Nat,
                  prof : {"none", "name", "phone"}, entry : Nat, linking : BOOLEAN,
                  type : {"none", "event", "push", "send"}]
RowRecord     == [type : {"event", "push", "send"}, of : Items, who : Customers \cup {NoOne},
                  contact : Nat, resolved : BOOLEAN]
ContactRecord == [phone : Customers \cup {NoOne}, uid : Customers \cup {NoOne}]

MailTypes ==
    /\ handler \in [Handlers -> HandlerRecord]
    /\ log \in Seq(RowRecord) /\ contact \in Seq(ContactRecord)
    /\ mapping \in [Customers -> Nat] /\ created \in [Customers -> Nat]
    /\ sent \in [Parts -> Nat]
    /\ event \in [Events -> [kind : Kinds \cup {NoOne}, from : Customers \cup {NoOne}]]

\* An event that has been pushed or given up: it is shown, lost, or in the row of
\* its failed push.
PushDone(e) ==
    \/ e \in shown \cup astray
    \/ \E i \in DOMAIN log : log[i].of = e /\ log[i].type = "push" /\ ~log[i].resolved

\* What a handler knows at each step.
HandlerIsSound(h) ==
    LET m == handler[h] IN
    /\ m.at = "free" => m = Free
    /\ m.at # "free" => m.of \in Items \cap asked
    /\ m.of \in Events =>
         /\ m.at \in EventSteps /\ m.who \in Customers /\ event[m.of].kind \in Kinds
         /\ (m.at \in {"linkfind", "linkmake"} \/ m.linking) => event[m.of].kind \in {"shared", "info"}
    /\ m.of \in Replies => m.at \in SendSteps
    /\ m.of \in Notices => m.at = "send2" /\ m.entry = 0
    /\ m.at = "save" => m.contact # 0
    /\ m.at = "resolve" => m.entry # 0
    /\ m.at = "log" /\ m.of \in Replies => m.type = "send" /\ m.entry = 0
    /\ m.at = "log" /\ m.of \in Events => m.type \in {"push", "event"}
    /\ m.at = "log" /\ m.of \in Events /\ m.entry # 0 => m.type = "push"
    /\ m.at = "log" /\ m.of \in Events /\ m.type = "event" => event[m.of].kind \in Messages
    /\ m.entry # 0 =>
         /\ m.entry \in DOMAIN log /\ log[m.entry].of = m.of
         /\ log[m.entry].type = "push" => (m.at = "push" \/ (m.at = "resolve" /\ m.of \in shown))
    /\ /\ m.of \in Events /\ event[m.of].kind \in Messages
       /\ m.linking \/ m.at \in {"linkfind", "linkmake", "resolve"}
       => PushDone(m.of)

RowIsSound(i) ==
    LET r == log[i] IN
    /\ r.of \in (Events \cup Replies) \cap asked
    /\ (r.type = "send") = (r.of \in Replies)
    /\ r.of \in Events => r.who \in Customers /\ event[r.of].kind \in Kinds
    /\ r.type = "event" => event[r.of].kind \in Messages
    /\ r.resolved /\ r.type = "push" => r.of \in shown
    /\ r.resolved /\ r.type = "event" => PushDone(r.of)

MailIsSound ==
    /\ \A h \in Handlers : HandlerIsSound(h)
    /\ \A i \in DOMAIN log : RowIsSound(i)

\* The one contact of a customer is mapped, or in the hands of who made it.
ContactIsHeld ==
    \A u \in Customers :
        \/ created[u] = 0 \/ u \in excused
        \/ /\ created[u] = 1
           /\ mapping[u] # 0 \/ \E h \in Handlers : handler[h].who = u /\ handler[h].at = "save"

\* A reply or notice r is in one place: a handler, a row, the customer's phone.
OnTheWay(h, r) == handler[h].of = r /\ handler[h].at # "resolve"
InOnePlace(r) ==
    /\ r \notin asked => sent[<<r, 2>>] = 0 \/ r \in excused
    /\ \A g, h \in Handlers :
         handler[g].of = r /\ handler[h].of = r /\ handler[g].entry = 0 /\ handler[h].entry = 0 => g = h
    /\ \A i \in DOMAIN log : log[i].of = r =>
         /\ \A h \in Handlers : handler[h].of = r => handler[h].entry # 0
         /\ \A j \in DOMAIN log : log[j].of = r => i = j
    /\ r \notin excused =>
         /\ \A g, h \in Handlers : handler[g].of = r /\ handler[h].of = r => g = h
         /\ sent[<<r, 2>>] <= 1
         /\ sent[<<r, 2>>] = 1 =>
              /\ \A h \in Handlers : ~OnTheWay(h, r)
              /\ \A i \in DOMAIN log : log[i].of = r /\ ~log[i].resolved =>
                   \E h \in Handlers : handler[h].entry = i /\ handler[h].at = "resolve"

SendsAreSingle == \A r \in Replies \cup Notices : InOnePlace(r)

MailIsWell == MailIsSound /\ MessagesAreKept /\ SendsAreSingle

MailInv == MailTypes /\ MailIsWell /\ ContactIsHeld

-----------------------------------------------------------------------------
\* Rows and contacts are sequences

LEMMA Appended ==
    ASSUME NEW S, NEW s \in Seq(S), NEW e \in S
    PROVE  /\ Append(s, e) \in Seq(S) /\ Len(s) \in Nat /\ Len(Append(s, e)) = Len(s) + 1
           /\ DOMAIN Append(s, e) = DOMAIN s \cup {Len(s) + 1} /\ Len(s) + 1 \notin DOMAIN s
           /\ Append(s, e)[Len(s) + 1] = e
           /\ \A i \in DOMAIN s : i \in Nat /\ i # 0 /\ Append(s, e)[i] = s[i]
OBVIOUS

LEMMA RowOf == ASSUME log \in Seq(RowRecord), NEW i \in DOMAIN log PROVE log[i] \in RowRecord /\ i \in Nat /\ i # 0
OBVIOUS

LEMMA Resolved1 ==
    ASSUME log \in Seq(RowRecord), NEW i \in DOMAIN log, log' = [log EXCEPT ![i].resolved = TRUE]
    PROVE  /\ log' \in Seq(RowRecord) /\ DOMAIN log' = DOMAIN log
           /\ log'[i].resolved /\ log'[i].type = log[i].type /\ log'[i].of = log[i].of
           /\ log'[i].who = log[i].who /\ log'[i].contact = log[i].contact
           /\ \A j \in DOMAIN log : j # i => log'[j] = log[j]
<1>1. log[i] \in RowRecord
  BY RowOf
<1> DEFINE r == [log[i] EXCEPT !.resolved = TRUE]
<1>2. r \in RowRecord /\ r.resolved /\ r.type = log[i].type /\ r.of = log[i].of /\ r.who = log[i].who /\ r.contact = log[i].contact
  BY <1>1 DEF RowRecord
<1>3. log' = [log EXCEPT ![i] = r]
  OBVIOUS
<1> HIDE DEF r
<1>4. DOMAIN log' = DOMAIN log /\ log'[i] = r /\ \A j \in DOMAIN log : j # i => log'[j] = log[j]
  BY <1>3
<1>5. log' \in Seq(RowRecord)
  <2>1. Len(log) \in Nat /\ DOMAIN log = 1..Len(log)
    OBVIOUS
  <2>2. \A j \in DOMAIN log : log'[j] \in RowRecord
    BY <1>2, <1>4, RowOf
  <2>3. log' \in [1..Len(log) -> RowRecord]
    BY <1>3, <2>1, <2>2
  <2>4. QED
    BY <2>1, <2>3
<1>6. QED
  BY <1>2, <1>4, <1>5

\* A field of a contact is written, in or out of the list.
LEMMA ContactWritten ==
    ASSUME contact \in Seq(ContactRecord), NEW c, NEW u \in Customers,
           \/ contact' = [contact EXCEPT ![c].phone = u]
           \/ contact' = [contact EXCEPT ![c].uid = u]
           \/ UNCHANGED contact
    PROVE  contact' \in Seq(ContactRecord)
<1>1. Len(contact) \in Nat /\ DOMAIN contact = 1..Len(contact) /\ \A i \in DOMAIN contact : contact[i] \in ContactRecord
  OBVIOUS
<1>2. CASE contact' = [contact EXCEPT ![c].phone = u]
  <2>1. \A i \in 1..Len(contact) : contact'[i] \in ContactRecord
    BY <1>1, <1>2 DEF ContactRecord
  <2>2. contact' \in [1..Len(contact) -> ContactRecord]
    BY <1>1, <1>2, <2>1
  <2>3. QED
    BY <1>1, <2>2
<1>3. CASE contact' = [contact EXCEPT ![c].uid = u]
  <2>1. \A i \in 1..Len(contact) : contact'[i] \in ContactRecord
    BY <1>1, <1>3 DEF ContactRecord
  <2>2. contact' \in [1..Len(contact) -> ContactRecord]
    BY <1>1, <1>3, <2>1
  <2>3. QED
    BY <1>1, <2>2
<1>4. QED
  BY <1>2, <1>3

-----------------------------------------------------------------------------
\* What happens to a handler

LEMMA FreeIsTyped == Free \in HandlerRecord
BY DEF Free, HandlerRecord, EventSteps, SendSteps

LEMMA LeaveTakes ==
    ASSUME MailTypes, NEW h \in Handlers, Leave(h)
    PROVE  /\ handler' \in [Handlers -> HandlerRecord] /\ handler'[h] = Free
           /\ \A g \in Handlers : g # h => handler'[g] = handler[g]
BY FreeIsTyped DEF Leave, MailTypes

LEMMA SetTakes ==
    ASSUME MailTypes, NEW h \in Handlers, NEW m \in HandlerRecord, Set(h, m)
    PROVE  /\ handler' \in [Handlers -> HandlerRecord] /\ handler'[h] = m
           /\ \A g \in Handlers : g # h => handler'[g] = handler[g]
<1>1. m.at # "end"
  BY DEF HandlerRecord, EventSteps, SendSteps
<1>2. QED
  BY <1>1 DEF Set, MailTypes

LEMMA GotoTakes ==
    ASSUME MailTypes, NEW h \in Handlers, NEW a \in {"free"} \cup EventSteps \cup SendSteps, Goto(h, a)
    PROVE  /\ handler' \in [Handlers -> HandlerRecord]
           /\ \A g \in Handlers : g # h => handler'[g] = handler[g]
           /\ handler'[h].at = a /\ handler'[h].of = handler[h].of /\ handler'[h].who = handler[h].who
           /\ handler'[h].entry = handler[h].entry /\ handler'[h].linking = handler[h].linking
           /\ handler'[h].type = handler[h].type /\ handler'[h].contact = handler[h].contact
<1> DEFINE m == [handler[h] EXCEPT !.at = a]
<1>1. handler[h] \in HandlerRecord
  BY DEF MailTypes
<1>2. m \in HandlerRecord
  BY <1>1 DEF HandlerRecord
<1>3. /\ m.at = a /\ m.of = handler[h].of /\ m.who = handler[h].who
      /\ m.entry = handler[h].entry /\ m.linking = handler[h].linking
      /\ m.type = handler[h].type /\ m.contact = handler[h].contact
  BY <1>1 DEF HandlerRecord
<1>4. Set(h, m)
  BY DEF Goto
<1> HIDE DEF m
<1>5. /\ handler' \in [Handlers -> HandlerRecord] /\ handler'[h] = m
      /\ \A g \in Handlers : g # h => handler'[g] = handler[g]
  BY <1>2, <1>4, SetTakes
<1>6. QED
  BY <1>3, <1>5

LEMMA GotoEnd ==
    ASSUME MailTypes, NEW h \in Handlers, Goto(h, "end")
    PROVE  Finish(h)
<1>1. handler[h] \in HandlerRecord
  BY DEF MailTypes
<1>2. [handler[h] EXCEPT !.at = "end"].at = "end"
  BY <1>1 DEF HandlerRecord
<1>3. QED
  BY <1>2 DEF Goto, Set

LEMMA FinishTakes ==
    ASSUME MailTypes, NEW h \in Handlers, Finish(h)
    PROVE  /\ handler' \in [Handlers -> HandlerRecord]
           /\ \A g \in Handlers : g # h => handler'[g] = handler[g]
           /\ \/ handler[h].entry = 0 /\ handler'[h] = Free
              \/ /\ handler[h].entry # 0
                 /\ handler'[h].at = "resolve" /\ handler'[h].of = handler[h].of /\ handler'[h].who = handler[h].who
                 /\ handler'[h].entry = handler[h].entry /\ handler'[h].linking = handler[h].linking
<1>1. handler[h] \in HandlerRecord
  BY DEF MailTypes
<1>2. CASE handler[h].entry = 0
  BY <1>2, LeaveTakes DEF Finish
<1>3. CASE handler[h].entry # 0
  <2> DEFINE m == [handler[h] EXCEPT !.at = "resolve"]
  <2>1. m \in HandlerRecord
    BY <1>1 DEF HandlerRecord, EventSteps
  <2>2. /\ m.at = "resolve" /\ m.of = handler[h].of /\ m.who = handler[h].who
        /\ m.entry = handler[h].entry /\ m.linking = handler[h].linking
    BY <1>1 DEF HandlerRecord
  <2>3. handler' = [handler EXCEPT ![h] = m]
    BY <1>3 DEF Finish, MailTypes
  <2> HIDE DEF m
  <2>4. QED
    BY <1>3, <2>1, <2>2, <2>3 DEF MailTypes
<1>4. QED
  BY <1>2, <1>3

\* Only events pass these steps.
LEMMA IsEvent ==
    ASSUME MailInv, NEW h \in Handlers, handler[h].at \in EventSteps \ {"log", "resolve"}
    PROVE  /\ handler[h].of \in Events /\ handler[h].of \in asked /\ handler[h].who \in Customers
           /\ event[handler[h].of].kind \in Kinds /\ HandlerIsSound(h)
<1>1. HandlerIsSound(h)
  BY DEF MailInv, MailIsWell, MailIsSound
<1>2. QED
  BY <1>1 DEF HandlerIsSound, EventSteps, SendSteps, Items

LEMMA EmptyIsSound ==
    ASSUME NEW h \in Handlers, handler[h] = Free
    PROVE  HandlerIsSound(h)
BY ItemsAssumption DEF HandlerIsSound, Free

\* A handler of an event moves on, or leaves the event where it is kept; the others,
\* the rows and what is on its way to a customer do not notice.
LEMMA EventMoves ==
    ASSUME MailInv, NEW h \in Handlers, handler[h].of \in Events,
           \A g \in Handlers : g # h => handler'[g] = handler[g],
           UNCHANGED <<log, asked, event, sent, astray>>,
           shown \subseteq shown', excused \subseteq excused',
           \/ /\ handler'[h] = Free
              /\ event[handler[h].of].kind \in Messages =>
                   \/ handler[h].of \in shown' \cup astray
                   \/ \E i \in DOMAIN log : log[i].of = handler[h].of /\ ~log[i].resolved
           \/ handler'[h].of = handler[h].of /\ HandlerIsSound(h)'
    PROVE  MailIsWell'
<1>0. MailIsSound /\ MessagesAreKept /\ SendsAreSingle
  BY DEF MailInv, MailIsWell
<1>1. \A e : PushDone(e) => PushDone(e)'
  BY DEF PushDone
<1>2. ASSUME NEW g \in Handlers PROVE HandlerIsSound(g)'
  <2>1. CASE g # h
    <3>1. HandlerIsSound(g) /\ handler'[g] = handler[g]
      BY <1>0, <2>1 DEF MailIsSound
    <3>2. QED
      BY <3>1, <1>1 DEF HandlerIsSound
  <2>2. CASE g = h /\ handler'[h] = Free
    BY <2>2, ItemsAssumption DEF HandlerIsSound, Free
  <2>3. QED
    BY <2>1, <2>2
<1>3. ASSUME NEW i \in DOMAIN log' PROVE RowIsSound(i)'
  <2>1. RowIsSound(i)
    BY <1>0, <1>3 DEF MailIsSound
  <2>2. QED
    BY <2>1, <1>1 DEF RowIsSound
<1>4. MessagesAreKept'
  <2> SUFFICES ASSUME NEW e \in asked' \cap Events, event'[e].kind \in Messages
               PROVE  \/ e \in shown' \cup astray'
                      \/ \E g \in Handlers : handler'[g].of = e
                      \/ \E i \in DOMAIN log' : log'[i].of = e /\ ~log'[i].resolved
    BY DEF MessagesAreKept
  <2>1. \/ e \in shown \cup astray
        \/ \E g \in Handlers : handler[g].of = e
        \/ \E i \in DOMAIN log : log[i].of = e /\ ~log[i].resolved
    BY <1>0 DEF MessagesAreKept
  <2>2. CASE \E g \in Handlers : handler[g].of = e
    <3>1. PICK g \in Handlers : handler[g].of = e
      BY <2>2
    <3>2. CASE g = h
      BY <3>1, <3>2
    <3>3. CASE g # h
      BY <3>1, <3>3
    <3>4. QED
      BY <3>2, <3>3
  <2>3. QED
    BY <2>1, <2>2
<1>5. SendsAreSingle'
  <2> SUFFICES ASSUME NEW r \in Replies \cup Notices PROVE InOnePlace(r)'
    BY DEF SendsAreSingle
  <2>1. InOnePlace(r)
    BY <1>0 DEF SendsAreSingle
  <2>2. handler[h].of # r /\ handler'[h].of # r
    BY ItemsAssumption DEF Free
  <2>3. \A g \in Handlers : handler'[g].of = r => g # h /\ handler'[g] = handler[g]
    BY <2>2
  <2>4. \A g \in Handlers : OnTheWay(g, r)' => OnTheWay(g, r)
    BY <2>3 DEF OnTheWay
  <2>5. /\ r \notin asked' => sent'[<<r, 2>>] = 0 \/ r \in excused'
        /\ \A g, k \in Handlers :
             handler'[g].of = r /\ handler'[k].of = r /\ handler'[g].entry = 0 /\ handler'[k].entry = 0 => g = k
        /\ \A i \in DOMAIN log' : log'[i].of = r =>
             /\ \A g \in Handlers : handler'[g].of = r => handler'[g].entry # 0
             /\ \A j \in DOMAIN log' : log'[j].of = r => i = j
    BY <2>1, <2>3 DEF InOnePlace
  <2>6. ASSUME r \notin excused'
        PROVE  /\ \A g, k \in Handlers : handler'[g].of = r /\ handler'[k].of = r => g = k
               /\ sent'[<<r, 2>>] <= 1
    BY <2>1, <2>3, <2>6 DEF InOnePlace
  <2>7. ASSUME r \notin excused', sent'[<<r, 2>>] = 1
        PROVE  /\ \A g \in Handlers : ~OnTheWay(g, r)'
               /\ \A i \in DOMAIN log' : log'[i].of = r /\ ~log'[i].resolved =>
                     \E g \in Handlers : handler'[g].entry = i /\ handler'[g].at = "resolve"
    <3>1. /\ \A g \in Handlers : ~OnTheWay(g, r)
          /\ \A i \in DOMAIN log : log[i].of = r /\ ~log[i].resolved =>
                \E g \in Handlers : handler[g].entry = i /\ handler[g].at = "resolve"
      BY <2>1, <2>7 DEF InOnePlace
    <3>2. ASSUME NEW i \in DOMAIN log, log[i].of = r, ~log[i].resolved
          PROVE  \E g \in Handlers : handler'[g].entry = i /\ handler'[g].at = "resolve"
      <4>1. PICK g \in Handlers : handler[g].entry = i /\ handler[g].at = "resolve"
        BY <3>1, <3>2
      <4>2. handler[g].of = r
        <5>1. HandlerIsSound(g) /\ handler[g].entry # 0
          BY <1>0, <4>1 DEF MailIsSound, HandlerIsSound
        <5>2. QED
          BY <5>1, <4>1, <3>2 DEF HandlerIsSound
      <4>3. QED
        BY <4>1, <4>2, <2>2
    <3>3. QED
      BY <3>1, <3>2, <2>4
  <2>8. QED
    BY <2>5, <2>6, <2>7 DEF InOnePlace
<1>6. QED
  BY <1>2, <1>3, <1>4, <1>5 DEF MailIsWell, MailIsSound

-----------------------------------------------------------------------------
\* Event handlers: moving on, finishing, failing

FoundSteps == {"lookup", "profile", "find", "make", "save", "linkfind", "linkmake", "touch"}

\* The contact of a customer stays where it is.
LEMMA ContactStays ==
    ASSUME ContactIsHeld, UNCHANGED <<mapping, created>>, excused \subseteq excused',
           \A g \in Handlers : handler[g].at = "save" => handler'[g] = handler[g]
    PROVE  ContactIsHeld'
BY DEF ContactIsHeld

LEMMA ContactStaysBut ==
    ASSUME ContactIsHeld, UNCHANGED <<mapping, created>>, excused \subseteq excused', NEW h \in Handlers,
           handler[h].at # "save", \A g \in Handlers : g # h => handler'[g] = handler[g]
    PROVE  ContactIsHeld'
BY ContactStays

\* A row of a message that is not unresolved has been pushed.
LEMMA RowKeepsEvent ==
    ASSUME MailInv, NEW i \in DOMAIN log, log[i].of \in Events, shown \subseteq shown', UNCHANGED <<log, astray>>
    PROVE  \/ log[i].of \in shown' \cup astray
           \/ \E j \in DOMAIN log : log[j].of = log[i].of /\ ~log[j].resolved
<1>1. RowIsSound(i) /\ log[i] \in RowRecord
  BY RowOf DEF MailInv, MailTypes, MailIsWell, MailIsSound
<1>2. log[i].type # "send"
  BY <1>1, ItemsAssumption DEF RowIsSound
<1>3. log[i].type \in {"push", "event"}
  BY <1>1, <1>2 DEF RowRecord
<1>4. QED
  BY <1>1, <1>3 DEF RowIsSound, PushDone

LEMMA GoesOn ==
    ASSUME MailInv, NEW h \in Handlers, handler[h].at \in FoundSteps,
           handler' \in [Handlers -> HandlerRecord],
           handler'[h].of = handler[h].of, handler'[h].who = handler[h].who, handler'[h].entry = handler[h].entry,
           handler'[h].at \in {"profile", "find", "make", "save", "linkmake", "touch", "push"},
           handler'[h].at = "save" => handler'[h].contact # 0,
           handler'[h].linking \/ handler'[h].at = "linkmake" =>
               handler[h].linking \/ handler[h].at \in {"linkfind", "linkmake"},
           UNCHANGED <<log, asked, event, shown, astray>>
    PROVE  HandlerIsSound(h)'
<1>1. /\ handler[h].of \in Events /\ handler[h].of \in asked /\ handler[h].who \in Customers
      /\ event[handler[h].of].kind \in Kinds /\ HandlerIsSound(h)
  BY IsEvent DEF FoundSteps, EventSteps
<1>2. handler[h].entry # 0 =>
        /\ handler[h].entry \in DOMAIN log /\ log[handler[h].entry].of = handler[h].of
        /\ log[handler[h].entry].type # "push"
  BY <1>1 DEF HandlerIsSound, FoundSteps
<1>3. handler[h].linking \/ handler[h].at \in {"linkfind", "linkmake"} =>
        /\ event[handler[h].of].kind \in {"shared", "info"}
        /\ event[handler[h].of].kind \in Messages => PushDone(handler[h].of)
  BY <1>1 DEF HandlerIsSound
<1>4. PushDone(handler[h].of) => PushDone(handler[h].of)'
  BY DEF PushDone
<1>5. handler'[h].of \notin Replies \cup Notices /\ handler'[h].of \in Items
  BY <1>1, ItemsAssumption DEF Items
<1>6. /\ handler'[h].at \in EventSteps
      /\ handler'[h].linking \/ handler'[h].at \in {"linkfind", "linkmake"} => event'[handler'[h].of].kind \in {"shared", "info"}
  BY <1>3 DEF EventSteps
<1>7. handler'[h].entry # 0 =>
        /\ handler'[h].entry \in DOMAIN log' /\ log'[handler'[h].entry].of = handler'[h].of
        /\ log'[handler'[h].entry].type # "push"
  BY <1>2
<1>8. event'[handler'[h].of].kind \in Messages /\ (handler'[h].linking \/ handler'[h].at \in {"linkfind", "linkmake", "resolve"})
        => PushDone(handler[h].of)'
  BY <1>3, <1>4
<1>9. QED
  BY <1>1, <1>5, <1>6, <1>7, <1>8 DEF HandlerIsSound

\* The work is done, and a message with it.
LEMMA FinishKeeps ==
    ASSUME MailInv, NEW h \in Handlers, handler[h].at \in FoundSteps \cup {"push"}, Finish(h),
           NEW e, e = handler[h].of,
           UNCHANGED <<log, asked, event, sent, astray>>, shown \subseteq shown', excused \subseteq excused',
           event[e].kind \in Messages => PushDone(e)',
           handler[h].at = "push" => handler[h].of \in shown'
    PROVE  /\ MailIsWell' /\ handler' \in [Handlers -> HandlerRecord]
           /\ \A g \in Handlers : g # h => handler'[g] = handler[g]
<1>1. /\ handler[h].of \in Events /\ handler[h].of \in asked /\ handler[h].who \in Customers
      /\ event[handler[h].of].kind \in Kinds /\ HandlerIsSound(h)
  BY IsEvent DEF FoundSteps, EventSteps
<1>2. /\ handler' \in [Handlers -> HandlerRecord]
      /\ \A g \in Handlers : g # h => handler'[g] = handler[g]
      /\ \/ handler[h].entry = 0 /\ handler'[h] = Free
         \/ /\ handler[h].entry # 0
            /\ handler'[h].at = "resolve" /\ handler'[h].of = handler[h].of /\ handler'[h].who = handler[h].who
            /\ handler'[h].entry = handler[h].entry /\ handler'[h].linking = handler[h].linking
  BY FinishTakes DEF MailInv
<1>3. CASE handler'[h] = Free
  <2>1. event[handler[h].of].kind \in Messages =>
          \/ handler[h].of \in shown' \cup astray
          \/ \E i \in DOMAIN log : log[i].of = handler[h].of /\ ~log[i].resolved
    BY DEF PushDone
  <2>2. QED
    BY <1>1, <1>2, <1>3, <2>1, EventMoves
<1>4. CASE handler'[h] # Free
  <2>1. /\ handler[h].entry # 0
        /\ handler'[h].at = "resolve" /\ handler'[h].of = handler[h].of /\ handler'[h].who = handler[h].who
        /\ handler'[h].entry = handler[h].entry /\ handler'[h].linking = handler[h].linking
    BY <1>2, <1>4
  <2>2. /\ handler[h].entry \in DOMAIN log /\ log[handler[h].entry].of = handler[h].of
        /\ log[handler[h].entry].type = "push" => handler[h].of \in shown'
    BY <1>1, <2>1 DEF HandlerIsSound, FoundSteps
  <2>3. handler[h].linking => event[handler[h].of].kind \in {"shared", "info"}
    BY <1>1 DEF HandlerIsSound
  <2>4. handler'[h].of \notin Replies \cup Notices /\ handler'[h].of \in Items
    BY <1>1, <2>1, ItemsAssumption DEF Items
  <2>5. handler'[h].at \in EventSteps
    BY <2>1 DEF EventSteps
  <2>6. HandlerIsSound(h)'
    BY <1>1, <2>1, <2>2, <2>3, <2>4, <2>5 DEF HandlerIsSound
  <2>7. QED
    BY <1>1, <1>2, <2>1, <2>6, EventMoves
<1>5. QED
  BY <1>2, <1>3, <1>4

\* A failure on the way to the conversation.
LEMMA ThrowKeeps ==
    ASSUME MailInv, NEW h \in Handlers, handler[h].at \in FoundSteps, Throw(h),
           UNCHANGED <<log, asked, event, sent, shown, astray>>, excused \subseteq excused'
    PROVE  /\ MailIsWell' /\ handler' \in [Handlers -> HandlerRecord]
           /\ \A g \in Handlers : g # h => handler'[g] = handler[g]
<1> DEFINE m == [handler[h] EXCEPT !.at = "log", !.type = "event"]
<1>1. /\ handler[h].of \in Events /\ handler[h].of \in asked /\ handler[h].who \in Customers
      /\ event[handler[h].of].kind \in Kinds /\ HandlerIsSound(h)
  BY IsEvent DEF FoundSteps, EventSteps
<1>2. handler[h] \in HandlerRecord /\ MailTypes
  BY DEF MailTypes, MailInv
<1>3. handler[h].linking => /\ event[handler[h].of].kind \in {"shared", "info"}
                            /\ event[handler[h].of].kind \in Messages => PushDone(handler[h].of)
  BY <1>1 DEF HandlerIsSound
<1>4. m \in HandlerRecord
  BY <1>2 DEF HandlerRecord, EventSteps
<1>5. /\ m.at = "log" /\ m.type = "event" /\ m.of = handler[h].of /\ m.who = handler[h].who
      /\ m.entry = handler[h].entry /\ m.linking = handler[h].linking
  BY <1>2 DEF HandlerRecord
<1>6. \/ handler[h].linking /\ event[handler[h].of].kind = "shared" /\ Finish(h)
      \/ (handler[h].entry # 0 \/ event[handler[h].of].kind \notin Messages) /\ Leave(h)
      \/ /\ ~(handler[h].linking /\ event[handler[h].of].kind = "shared")
         /\ handler[h].entry = 0 /\ event[handler[h].of].kind \in Messages /\ Set(h, m)
  BY DEF Throw
<1> HIDE DEF m
<1>7. CASE handler[h].linking /\ event[handler[h].of].kind = "shared" /\ Finish(h)
  <2> DEFINE e == handler[h].of
  <2>1. PushDone(e) /\ UNCHANGED <<log, shown, astray>>
    BY <1>3, <1>7 DEF Messages
  <2> HIDE DEF e
  <2>0. \A x : PushDone(x) => PushDone(x)'
    BY DEF PushDone
  <2>2. handler[h].at # "push"
    BY DEF FoundSteps
  <2>3. QED
    BY <1>7, <2>0, <2>1, <2>2, FinishKeeps DEF e
<1>8. CASE (handler[h].entry # 0 \/ event[handler[h].of].kind \notin Messages) /\ Leave(h)
  <2>1. /\ handler' \in [Handlers -> HandlerRecord] /\ handler'[h] = Free
        /\ \A g \in Handlers : g # h => handler'[g] = handler[g]
    BY <1>2, <1>8, LeaveTakes
  <2>2. event[handler[h].of].kind \in Messages =>
          \/ handler[h].of \in shown' \cup astray
          \/ \E i \in DOMAIN log : log[i].of = handler[h].of /\ ~log[i].resolved
    <3>1. handler[h].entry # 0 => handler[h].entry \in DOMAIN log /\ log[handler[h].entry].of = handler[h].of
      BY <1>1 DEF HandlerIsSound
    <3>2. QED
      BY <1>1, <1>8, <3>1, RowKeepsEvent
  <2>3. QED
    BY <1>1, <2>1, <2>2, EventMoves
<1>9. CASE /\ ~(handler[h].linking /\ event[handler[h].of].kind = "shared")
           /\ handler[h].entry = 0 /\ event[handler[h].of].kind \in Messages /\ Set(h, m)
  <2>1. /\ handler' \in [Handlers -> HandlerRecord] /\ handler'[h] = m
        /\ \A g \in Handlers : g # h => handler'[g] = handler[g]
    BY <1>2, <1>4, <1>9, SetTakes
  <2>2. ~handler[h].linking
    BY <1>3, <1>9 DEF Messages
  <2>3. handler'[h].of \notin Replies \cup Notices /\ handler'[h].of \in Items
    BY <1>1, <1>5, <2>1, ItemsAssumption DEF Items
  <2>4. handler'[h].at \in EventSteps
    BY <1>5, <2>1 DEF EventSteps
  <2>5. HandlerIsSound(h)'
    BY <1>1, <1>5, <1>9, <2>1, <2>2, <2>3, <2>4 DEF HandlerIsSound
  <2>6. QED
    BY <1>1, <1>5, <2>1, <2>5, EventMoves
<1>10. QED
  BY <1>6, <1>7, <1>8, <1>9

LEMMA SetMovesOn ==
    ASSUME MailInv, NEW h \in Handlers, handler[h].at \in FoundSteps,
           NEW m \in HandlerRecord, Set(h, m),
           m.of = handler[h].of, m.who = handler[h].who, m.entry = handler[h].entry,
           m.at \in {"profile", "find", "make", "save", "linkmake", "touch", "push"},
           m.at = "save" => m.contact # 0,
           m.linking \/ m.at = "linkmake" => handler[h].linking \/ handler[h].at \in {"linkfind", "linkmake"},
           UNCHANGED <<log, asked, event, sent, shown, astray>>, excused \subseteq excused'
    PROVE  /\ MailIsWell' /\ handler' \in [Handlers -> HandlerRecord] /\ handler'[h] = m
           /\ \A g \in Handlers : g # h => handler'[g] = handler[g]
<1>1. /\ handler' \in [Handlers -> HandlerRecord] /\ handler'[h] = m
      /\ \A g \in Handlers : g # h => handler'[g] = handler[g]
  BY SetTakes DEF MailInv
<1>2. HandlerIsSound(h)'
  BY <1>1, GoesOn
<1>3. handler[h].of \in Events
  BY IsEvent DEF FoundSteps, EventSteps
<1>4. QED
  BY <1>1, <1>2, <1>3, EventMoves

LEMMA ResolvedLeads ==
    ASSUME NEW h \in Handlers
    PROVE  \/ Resolved(h) \in {"push", "touch"}
           \/ Resolved(h) = "end" /\ event[handler[h].of].kind = "follow"
BY DEF Resolved

\* The fields a step writes, and those it leaves.
LEMMA LookupStep ==
    ASSUME MailInv, NEW h \in Handlers, Lookup(h)
    PROVE  MailInv'
<1>1. /\ handler[h].at = "lookup" /\ UNCHANGED <<mapping, log, contact, created, sent, event, asked, shown, astray, excused>>
      /\ handler[h] \in HandlerRecord /\ MailTypes /\ ContactIsHeld /\ handler[h].at \in FoundSteps
  BY DEF Lookup, MailInv, MailTypes, FoundSteps
<1>2. /\ handler[h].of \in Events /\ handler[h].who \in Customers /\ HandlerIsSound(h)
  BY <1>1, IsEvent DEF EventSteps
<1>3. SUFFICES /\ MailIsWell' /\ handler' \in [Handlers -> HandlerRecord]
               /\ \A g \in Handlers : g # h => handler'[g] = handler[g]
  <2>1. MailTypes'
    BY <1>1, <1>3 DEF MailTypes
  <2>2. ContactIsHeld'
    BY <1>1, <1>3, ContactStaysBut
  <2>3. QED
    BY <1>3, <2>1, <2>2 DEF MailInv
<1>4. CASE Goto(h, "find")
  <2> DEFINE m == [handler[h] EXCEPT !.at = "find"]
  <2>1. /\ m \in HandlerRecord /\ m.of = handler[h].of /\ m.who = handler[h].who /\ m.entry = handler[h].entry
        /\ m.at = "find" /\ m.linking = handler[h].linking
    BY <1>1 DEF HandlerRecord, EventSteps
  <2>2. Set(h, m)
    BY <1>4 DEF Goto
  <2> HIDE DEF m
  <2>3. QED
    BY <1>1, <2>1, <2>2, SetMovesOn
<1>5. ASSUME NEW at, at \in {Resolved(h), "profile"}, mapping[handler[h].who] # 0,
             Set(h, [handler[h] EXCEPT !.at = at, !.contact = mapping[handler[h].who]])
      PROVE  /\ MailIsWell' /\ handler' \in [Handlers -> HandlerRecord]
             /\ \A g \in Handlers : g # h => handler'[g] = handler[g]
  <2> DEFINE m == [handler[h] EXCEPT !.at = at, !.contact = mapping[handler[h].who]]
  <2>1. mapping[handler[h].who] \in Nat
    BY <1>1, <1>2 DEF MailTypes
  <2>2. CASE at = "end"
    <3>1. event[handler[h].of].kind = "follow"
      BY <1>5, <2>2, ResolvedLeads
    <3>2. Finish(h)
      BY <1>1, <1>5, <2>2 DEF Set, HandlerRecord
    <3>3. "follow" \notin Messages
      BY DEF Messages
    <3>4. QED
      BY <1>1, <3>1, <3>2, <3>3, FinishKeeps
  <2>3. CASE at # "end"
    <3>1. at \in {"push", "touch", "profile"}
      BY <1>5, <2>3, ResolvedLeads
    <3>2. /\ m \in HandlerRecord /\ m.of = handler[h].of /\ m.who = handler[h].who /\ m.entry = handler[h].entry
          /\ m.at = at /\ m.linking = handler[h].linking
      BY <1>1, <2>1, <3>1 DEF HandlerRecord, EventSteps
    <3>3. Set(h, m)
      BY <1>5
    <3> HIDE DEF m
    <3>4. QED
      BY <1>1, <3>1, <3>2, <3>3, SetMovesOn
  <2>4. QED
    BY <2>2, <2>3
<1>6. CASE Throw(h)
  BY <1>1, <1>6, ThrowKeeps
<1>7. QED
  <2>1. \/ Goto(h, "find") \/ Throw(h)
        \/ /\ mapping[handler[h].who] # 0
           /\ \E at \in {Resolved(h)} \cup (IF handler[h].who \in named THEN {} ELSE {"profile"}) :
               Set(h, [handler[h] EXCEPT !.at = at, !.contact = mapping[handler[h].who]])
    BY DEF Lookup
  <2>2. QED
    BY <1>4, <1>5, <1>6, <2>1

\* A step that leads on to where a resolved contact leads.
LEMMA GoesToResolved ==
    ASSUME MailInv, NEW h \in Handlers, handler[h].at \in FoundSteps, Goto(h, Resolved(h)),
           UNCHANGED <<log, asked, event, sent, shown, astray>>, excused \subseteq excused'
    PROVE  /\ MailIsWell' /\ handler' \in [Handlers -> HandlerRecord]
           /\ \A g \in Handlers : g # h => handler'[g] = handler[g]
<1>1. handler[h] \in HandlerRecord
  BY DEF MailInv, MailTypes
<1>2. CASE Resolved(h) = "end"
  <2>1. event[handler[h].of].kind = "follow" /\ "follow" \notin Messages
    BY <1>2, ResolvedLeads DEF Messages
  <2>2. Finish(h)
    BY <1>2, GotoEnd DEF MailInv
  <2>3. handler[h].at # "push"
    BY DEF FoundSteps
  <2>4. QED
    BY <2>1, <2>2, <2>3, FinishKeeps
<1>3. CASE Resolved(h) # "end"
  <2> DEFINE at == Resolved(h)
             m == [handler[h] EXCEPT !.at = at]
  <2>1. at \in {"push", "touch"}
    BY <1>3, ResolvedLeads
  <2>2. Set(h, m)
    BY DEF Goto
  <2> HIDE DEF at
  <2>3. /\ m \in HandlerRecord /\ m.of = handler[h].of /\ m.who = handler[h].who /\ m.entry = handler[h].entry
        /\ m.at = at /\ m.linking = handler[h].linking
    BY <1>1, <2>1 DEF HandlerRecord, EventSteps
  <2> HIDE DEF m
  <2>4. QED
    BY <2>1, <2>2, <2>3, SetMovesOn
<1>4. QED
  BY <1>2, <1>3

\* A step that changes neither the mapping nor the count of contacts.
LEMMA MailInvFrom ==
    ASSUME MailInv, NEW h \in Handlers, handler[h].at # "save",
           MailIsWell', handler' \in [Handlers -> HandlerRecord],
           \A g \in Handlers : g # h => handler'[g] = handler[g],
           UNCHANGED <<mapping, created, log, sent, event>>, contact' \in Seq(ContactRecord),
           excused \subseteq excused'
    PROVE  MailInv'
<1>1. MailTypes'
  BY DEF MailInv, MailTypes
<1>2. ContactIsHeld'
  BY ContactStaysBut DEF MailInv
<1>3. QED
  BY <1>1, <1>2 DEF MailInv

LEMMA RefreshProfileStep ==
    ASSUME MailInv, NEW h \in Handlers, RefreshProfile(h)
    PROVE  MailInv'
<1>1. /\ handler[h].at = "profile" /\ UNCHANGED <<mapping, log, created, sent, event, asked, shown, astray, excused>>
      /\ Goto(h, Resolved(h)) /\ handler[h].at \in FoundSteps
  BY DEF RefreshProfile, FoundSteps
<1>2. handler[h].who \in Customers
  BY <1>1, IsEvent DEF EventSteps
<1>3. contact' \in Seq(ContactRecord)
  <2>1. \/ contact' = [contact EXCEPT ![handler[h].contact].phone = handler[h].who]
        \/ UNCHANGED contact
    BY DEF RefreshProfile
  <2>2. QED
    BY <1>2, <2>1, ContactWritten DEF MailInv, MailTypes
<1>4. /\ MailIsWell' /\ handler' \in [Handlers -> HandlerRecord]
      /\ \A g \in Handlers : g # h => handler'[g] = handler[g]
  BY <1>1, GoesToResolved
<1>5. QED
  BY <1>1, <1>3, <1>4, MailInvFrom

LEMMA ByPhoneIsNat == ASSUME MailInv, NEW u, NEW c \in ByPhone(u) PROVE c \in Nat
BY DEF MailInv, MailTypes, ByPhone

LEMMA FindContactStep ==
    ASSUME MailInv, NEW h \in Handlers, FindContact(h)
    PROVE  MailInv'
<1>1. /\ handler[h].at = "find" /\ UNCHANGED <<mapping, log, contact, created, sent, event, asked, shown, astray, excused>>
      /\ handler[h] \in HandlerRecord /\ handler[h].at \in FoundSteps /\ contact \in Seq(ContactRecord)
  BY DEF FindContact, FoundSteps, MailInv, MailTypes
<1>2. PICK prof \in {"none", "name", "phone"}, c \in Nat :
        Set(h, [handler[h] EXCEPT !.at = "make", !.prof = prof, !.contact = c])
  BY ByPhoneIsNat DEF FindContact
<1> DEFINE m == [handler[h] EXCEPT !.at = "make", !.prof = prof, !.contact = c]
<1>3. /\ m \in HandlerRecord /\ m.of = handler[h].of /\ m.who = handler[h].who /\ m.entry = handler[h].entry
      /\ m.at = "make" /\ m.linking = handler[h].linking
  BY <1>1 DEF HandlerRecord, EventSteps
<1>4. Set(h, m)
  BY <1>2
<1> HIDE DEF m
<1>5. /\ MailIsWell' /\ handler' \in [Handlers -> HandlerRecord]
      /\ \A g \in Handlers : g # h => handler'[g] = handler[g]
  BY <1>1, <1>3, <1>4, SetMovesOn
<1>6. QED
  BY <1>1, <1>5, MailInvFrom

\* A handler has a contact for its customer, and is about to map it.
LEMMA GoesToSave ==
    ASSUME MailInv, NEW h \in Handlers, handler[h].at \in {"make", "linkmake"}, NEW c \in Nat, c # 0,
           Set(h, [handler[h] EXCEPT !.at = "save", !.contact = c]),
           UNCHANGED <<log, asked, event, sent, shown, astray>>, excused \subseteq excused'
    PROVE  /\ MailIsWell' /\ handler' \in [Handlers -> HandlerRecord]
           /\ \A g \in Handlers : g # h => handler'[g] = handler[g]
           /\ handler'[h].at = "save" /\ handler'[h].who = handler[h].who
<1> DEFINE m == [handler[h] EXCEPT !.at = "save", !.contact = c]
<1>1. handler[h] \in HandlerRecord /\ handler[h].at \in FoundSteps
  BY DEF MailInv, MailTypes, FoundSteps
<1>2. /\ m \in HandlerRecord /\ m.of = handler[h].of /\ m.who = handler[h].who /\ m.entry = handler[h].entry
      /\ m.at = "save" /\ m.linking = handler[h].linking /\ m.contact = c
  BY <1>1 DEF HandlerRecord, EventSteps
<1>3. Set(h, m)
  OBVIOUS
<1> HIDE DEF m
<1>4. QED
  BY <1>1, <1>2, <1>3, SetMovesOn

LEMMA TagContactStep ==
    ASSUME MailInv, NEW h \in Handlers, handler[h].at \in {"make", "linkmake"}, NEW c \in Nat, c # 0, TagContact(h, c),
           UNCHANGED <<mapping, log, asked, event, shown, sent, astray>>
    PROVE  MailInv'
<1>1. UNCHANGED <<created, excused>> /\ handler[h].who \in Customers /\ handler[h].at # "save"
  BY IsEvent DEF TagContact, EventSteps
<1>2. contact' \in Seq(ContactRecord)
  BY <1>1, ContactWritten DEF TagContact, MailInv, MailTypes
<1>3. /\ MailIsWell' /\ handler' \in [Handlers -> HandlerRecord]
      /\ \A g \in Handlers : g # h => handler'[g] = handler[g]
  BY <1>1, GoesToSave DEF TagContact
<1>4. QED
  BY <1>1, <1>2, <1>3, MailInvFrom

LEMMA NoContactStep ==
    ASSUME MailInv, NEW h \in Handlers, handler[h].at \in {"make", "linkmake"}, NoContact(h),
           UNCHANGED <<mapping, log, asked, event, shown, sent, astray>>
    PROVE  MailInv'
<1>1. UNCHANGED <<created, excused, contact>> /\ handler[h].at # "save" /\ handler[h].at \in FoundSteps /\ Throw(h)
  BY DEF NoContact, FoundSteps
<1>2. /\ MailIsWell' /\ handler' \in [Handlers -> HandlerRecord]
      /\ \A g \in Handlers : g # h => handler'[g] = handler[g]
  BY <1>1, ThrowKeeps
<1>3. contact' \in Seq(ContactRecord)
  BY <1>1 DEF MailInv, MailTypes
<1>4. QED
  BY <1>1, <1>2, <1>3, MailInvFrom

\* Who makes a contact has found none mapped, and nobody else at it, or the customer
\* is excused.
LEMMA NewContactStep ==
    ASSUME MailInv, NEW h \in Handlers, handler[h].at \in {"make", "linkmake"},
           NEW phone \in Customers \cup {NoOne}, NewContact(h, phone),
           UNCHANGED <<mapping, log, asked, event, shown, sent, astray>>
    PROVE  MailInv'
<1> DEFINE u == handler[h].who
           item == [phone |-> phone, uid |-> IF field THEN u ELSE NoOne]
<1>1. u \in Customers /\ handler[h].at # "save" /\ handler[h].at \in FoundSteps /\ MailTypes /\ ContactIsHeld
  BY IsEvent DEF EventSteps, FoundSteps, MailInv
<1>2. /\ contact' = Append(contact, item) /\ created' = [created EXCEPT ![u] = @ + 1]
      /\ \/ /\ Set(h, [handler[h] EXCEPT !.at = "save", !.contact = Len(contact')])
            /\ excused' = IF mapping[u] # 0 \/ (\E g \in Handlers \ {h} : Resolving(g, u))
                          THEN excused \cup {u} ELSE excused
         \/ Throw(h) /\ excused' = excused \cup {u}
  BY DEF NewContact
<1>3. item \in ContactRecord
  BY <1>1 DEF ContactRecord
<1> HIDE DEF item
<1>4. contact' \in Seq(ContactRecord) /\ Len(contact') \in Nat /\ Len(contact') # 0
  BY <1>1, <1>2, <1>3, Appended DEF MailTypes
<1>5. /\ created' \in [Customers -> Nat] /\ created'[u] = created[u] + 1 /\ created[u] \in Nat
      /\ \A v \in Customers \ {u} : created'[v] = created[v]
  BY <1>1, <1>2 DEF MailTypes
<1>6. excused \subseteq excused'
  BY <1>2
<1>7. SUFFICES /\ MailIsWell' /\ handler' \in [Handlers -> HandlerRecord]
               /\ ContactIsHeld'
  <2>1. MailTypes'
    BY <1>1, <1>4, <1>5, <1>7 DEF MailTypes
  <2>2. QED
    BY <1>7, <2>1 DEF MailInv
<1>8. ASSUME \A g \in Handlers : g # h => handler'[g] = handler[g], NEW v \in Customers \ {u}
      PROVE  \/ created'[v] = 0 \/ v \in excused'
             \/ /\ created'[v] = 1
                /\ mapping'[v] # 0 \/ \E g \in Handlers : handler'[g].who = v /\ handler'[g].at = "save"
  BY <1>1, <1>5, <1>6, <1>8 DEF ContactIsHeld
<1>9. CASE Throw(h) /\ excused' = excused \cup {u}
  <2>1. /\ MailIsWell' /\ handler' \in [Handlers -> HandlerRecord]
        /\ \A g \in Handlers : g # h => handler'[g] = handler[g]
    BY <1>1, <1>9, ThrowKeeps
  <2>2. ContactIsHeld'
    BY <1>8, <1>9, <2>1 DEF ContactIsHeld
  <2>3. QED
    BY <2>1, <2>2
<1>10. CASE /\ Set(h, [handler[h] EXCEPT !.at = "save", !.contact = Len(contact')])
            /\ excused' = IF mapping[u] # 0 \/ (\E g \in Handlers \ {h} : Resolving(g, u))
                          THEN excused \cup {u} ELSE excused
  <2>1. /\ MailIsWell' /\ handler' \in [Handlers -> HandlerRecord]
        /\ \A g \in Handlers : g # h => handler'[g] = handler[g]
        /\ handler'[h].at = "save" /\ handler'[h].who = u
    <3> DEFINE c == Len(contact')
    <3>1. c \in Nat /\ c # 0 /\ Set(h, [handler[h] EXCEPT !.at = "save", !.contact = c])
      BY <1>4, <1>10
    <3> HIDE DEF c
    <3>2. QED
      BY <1>6, <3>1, GoesToSave
  <2>2. ASSUME u \notin excused' PROVE created[u] = 0
    <3>1. u \notin excused /\ mapping[u] = 0 /\ \A g \in Handlers \ {h} : ~Resolving(g, u)
      BY <1>10, <2>2
    <3>2. \A g \in Handlers : ~(handler[g].who = u /\ handler[g].at = "save")
      BY <1>1, <3>1 DEF Resolving
    <3>3. QED
      BY <1>1, <3>1, <3>2 DEF ContactIsHeld
  <2>3. ContactIsHeld'
    BY <1>5, <1>8, <2>1, <2>2 DEF ContactIsHeld
  <2>4. QED
    BY <2>1, <2>3
<1>11. QED
  BY <1>2, <1>9, <1>10

LEMMA MakeContactStep ==
    ASSUME MailInv, NEW h \in Handlers, MakeContact(h)
    PROVE  MailInv'
<1>1. /\ handler[h].at = "make" /\ UNCHANGED <<mapping, log, asked, event, shown, sent, astray>>
      /\ handler[h].who \in Customers /\ handler[h].contact \in Nat
  <2>1. handler[h].at = "make" /\ UNCHANGED <<mapping, log, asked, event, shown, sent, astray>>
    BY DEF MakeContact
  <2>2. handler[h] \in HandlerRecord
    BY DEF MailInv, MailTypes
  <2>3. QED
    BY <2>1, <2>2, IsEvent DEF EventSteps, HandlerRecord
<1>2. \/ NoContact(h) \/ NewContact(h, handler[h].who) \/ NewContact(h, NoOne)
      \/ handler[h].contact # 0 /\ TagContact(h, handler[h].contact)
  BY DEF MakeContact
<1>3. QED
  BY <1>1, <1>2, NoContactStep, NewContactStep, TagContactStep

LEMMA LinkMakeStep ==
    ASSUME MailInv, NEW h \in Handlers, LinkMake(h)
    PROVE  MailInv'
<1>1. /\ handler[h].at = "linkmake" /\ UNCHANGED <<mapping, log, asked, event, shown, sent, astray>>
      /\ handler[h].who \in Customers /\ handler[h].contact \in Nat /\ handler[h].old \in Nat
  <2>1. handler[h].at = "linkmake" /\ UNCHANGED <<mapping, log, asked, event, shown, sent, astray>>
    BY DEF LinkMake
  <2>2. handler[h] \in HandlerRecord
    BY DEF MailInv, MailTypes
  <2>3. QED
    BY <2>1, <2>2, IsEvent DEF EventSteps, HandlerRecord
<1>2. \/ NoContact(h) \/ NewContact(h, handler[h].who)
      \/ handler[h].contact # 0 /\ TagContact(h, handler[h].contact)
      \/ /\ handler[h].old # 0
         /\ contact' = [contact EXCEPT ![handler[h].old].phone = handler[h].who] \/ UNCHANGED contact
         /\ Set(h, [handler[h] EXCEPT !.at = "save", !.contact = handler[h].old])
         /\ UNCHANGED <<created, excused>>
  BY DEF LinkMake
<1>3. CASE /\ handler[h].old # 0
           /\ contact' = [contact EXCEPT ![handler[h].old].phone = handler[h].who] \/ UNCHANGED contact
           /\ Set(h, [handler[h] EXCEPT !.at = "save", !.contact = handler[h].old])
           /\ UNCHANGED <<created, excused>>
  <2>1. contact' \in Seq(ContactRecord)
    BY <1>1, <1>3, ContactWritten DEF MailInv, MailTypes
  <2>2. /\ MailIsWell' /\ handler' \in [Handlers -> HandlerRecord]
        /\ \A g \in Handlers : g # h => handler'[g] = handler[g]
    BY <1>1, <1>3, GoesToSave
  <2>3. QED
    BY <1>1, <1>3, <2>1, <2>2, MailInvFrom
<1>4. QED
  BY <1>1, <1>2, <1>3, NoContactStep, NewContactStep, TagContactStep

\* The mapping is written, or its customer excused.
LEMMA SaveMappingStep ==
    ASSUME MailInv, NEW h \in Handlers, SaveMapping(h)
    PROVE  MailInv'
<1> DEFINE u == handler[h].who
<1>1. /\ handler[h].at = "save" /\ UNCHANGED <<log, asked, event, contact, shown, sent, created, astray>>
      /\ handler[h].at \in FoundSteps /\ handler[h] \in HandlerRecord /\ MailTypes /\ ContactIsHeld
  BY DEF SaveMapping, FoundSteps, MailInv, MailTypes
<1>2. /\ u \in Customers /\ handler[h].of \in Events /\ HandlerIsSound(h)
  BY <1>1, IsEvent DEF EventSteps
<1>3. handler[h].contact # 0 /\ handler[h].contact \in Nat
  BY <1>1, <1>2 DEF HandlerIsSound, HandlerRecord
<1>4. CASE Throw(h) /\ excused' = excused \cup {u} /\ UNCHANGED mapping
  <2>1. /\ MailIsWell' /\ handler' \in [Handlers -> HandlerRecord]
        /\ \A g \in Handlers : g # h => handler'[g] = handler[g]
    BY <1>1, <1>4, ThrowKeeps
  <2>2. ContactIsHeld'
    BY <1>1, <1>4, <2>1 DEF ContactIsHeld
  <2>3. MailTypes'
    BY <1>1, <1>4, <2>1 DEF MailTypes
  <2>4. QED
    BY <2>1, <2>2, <2>3 DEF MailInv
<1>5. ASSUME NEW at \in {"push", "touch", "end"}, mapping' = [mapping EXCEPT ![u] = handler[h].contact],
             UNCHANGED excused,
             at = "end" /\ event[handler[h].of].kind \in Messages => handler[h].linking,
             Set(h, [handler[h] EXCEPT !.prof = "none", !.old = 0, !.at = at])
      PROVE  MailInv'
  <2> DEFINE m == [handler[h] EXCEPT !.prof = "none", !.old = 0, !.at = at]
  <2>1. mapping' \in [Customers -> Nat] /\ mapping'[u] # 0 /\ \A v \in Customers \ {u} : mapping'[v] = mapping[v]
    BY <1>1, <1>2, <1>3, <1>5 DEF MailTypes
  <2>2. /\ MailIsWell' /\ handler' \in [Handlers -> HandlerRecord]
        /\ \A g \in Handlers : g # h => handler'[g] = handler[g]
    <3>1. CASE at = "end"
      <4>0. PICK e : e = handler[h].of
        OBVIOUS
      <4>1. Finish(h)
        BY <1>1, <1>5, <3>1 DEF Set, HandlerRecord
      <4>2. event[e].kind \in Messages => PushDone(e)
        BY <1>2, <1>5, <3>1, <4>0 DEF HandlerIsSound
      <4>3. event[e].kind \in Messages => PushDone(e)'
        BY <1>1, <4>2 DEF PushDone
      <4>4. QED
        BY <1>1, <1>5, <4>0, <4>1, <4>3, FinishKeeps
    <3>2. CASE at # "end"
      <4>1. at \in {"push", "touch"}
        BY <3>2
      <4>2. /\ m \in HandlerRecord /\ m.of = handler[h].of /\ m.who = handler[h].who /\ m.entry = handler[h].entry
            /\ m.at = at /\ m.linking = handler[h].linking
        BY <1>1, <4>1 DEF HandlerRecord, EventSteps
      <4>3. Set(h, m)
        BY <1>5
      <4> HIDE DEF m
      <4>4. QED
        BY <1>1, <1>5, <4>1, <4>2, <4>3, SetMovesOn
    <3>3. QED
      BY <3>1, <3>2
  <2>3. ContactIsHeld'
    <3>1. ASSUME NEW v \in Customers
          PROVE  \/ created'[v] = 0 \/ v \in excused'
                 \/ /\ created'[v] = 1
                    /\ mapping'[v] # 0 \/ \E g \in Handlers : handler'[g].who = v /\ handler'[g].at = "save"
      <4>1. CASE v = u
        BY <1>1, <1>5, <2>1, <4>1 DEF ContactIsHeld
      <4>2. CASE v # u
        BY <1>1, <1>5, <2>1, <2>2, <4>2 DEF ContactIsHeld
      <4>3. QED
        BY <4>1, <4>2
    <3>2. QED
      BY <3>1 DEF ContactIsHeld
  <2>4. MailTypes'
    BY <1>1, <2>1, <2>2 DEF MailTypes
  <2>5. QED
    BY <2>2, <2>3, <2>4 DEF MailInv
<1>6. CASE /\ mapping' = [mapping EXCEPT ![u] = handler[h].contact] /\ UNCHANGED excused
           /\ Set(h, [handler[h] EXCEPT !.prof = "none", !.old = 0,
                       !.at = CASE ~handler[h].linking -> Resolved(h)
                                [] handler[h].linking /\ event[handler[h].of].kind = "info"   -> "touch"
                                [] handler[h].linking /\ event[handler[h].of].kind = "shared" -> "end"])
  <2> DEFINE at == CASE ~handler[h].linking -> Resolved(h)
                     [] handler[h].linking /\ event[handler[h].of].kind = "info"   -> "touch"
                     [] handler[h].linking /\ event[handler[h].of].kind = "shared" -> "end"
  <2>1. handler[h].linking => event[handler[h].of].kind \in {"info", "shared"}
    BY <1>2 DEF HandlerIsSound
  <2>2. handler[h].linking \in BOOLEAN
    BY <1>1 DEF HandlerRecord
  <2>3. CASE ~handler[h].linking
    <3>1. at = Resolved(h)
      BY <2>3
    <3>2. "follow" \notin Messages
      BY DEF Messages
    <3>3. at \in {"push", "touch", "end"} /\ (at = "end" => event[handler[h].of].kind \notin Messages)
      BY <3>1, <3>2, ResolvedLeads
    <3>4. QED
      BY <1>5, <1>6, <3>3
  <2>4. CASE handler[h].linking
    <3>1. at \in {"touch", "end"}
      BY <2>1, <2>4
    <3>2. QED
      BY <1>5, <1>6, <2>4, <3>1
  <2>5. QED
    BY <2>2, <2>3, <2>4
<1>7. QED
  <2>1. \/ Throw(h) /\ excused' = excused \cup {u} /\ UNCHANGED mapping
        \/ /\ mapping' = [mapping EXCEPT ![u] = handler[h].contact] /\ UNCHANGED excused
           /\ Set(h, [handler[h] EXCEPT !.prof = "none", !.old = 0,
                       !.at = CASE ~handler[h].linking -> Resolved(h)
                                [] handler[h].linking /\ event[handler[h].of].kind = "info"   -> "touch"
                                [] handler[h].linking /\ event[handler[h].of].kind = "shared" -> "end"])
    BY DEF SaveMapping
  <2>2. QED
    BY <1>4, <1>6, <2>1

\* The work of a handler that is linking is done.
LEMMA LinkingFinishes ==
    ASSUME MailInv, NEW h \in Handlers, handler[h].at \in FoundSteps, Finish(h),
           handler[h].linking \/ handler[h].at = "linkfind",
           UNCHANGED <<log, asked, event, sent, shown, astray>>, excused \subseteq excused'
    PROVE  /\ MailIsWell' /\ handler' \in [Handlers -> HandlerRecord]
           /\ \A g \in Handlers : g # h => handler'[g] = handler[g]
<1>0. PICK e : e = handler[h].of
  OBVIOUS
<1>1. e \in Events /\ HandlerIsSound(h) /\ handler[h].at # "push"
  BY <1>0, IsEvent DEF FoundSteps, EventSteps
<1>2. event[e].kind \in Messages => PushDone(e)
  BY <1>0, <1>1 DEF HandlerIsSound
<1>3. event[e].kind \in Messages => PushDone(e)'
  BY <1>2 DEF PushDone
<1>4. QED
  BY <1>0, <1>1, <1>3, FinishKeeps

LEMMA LinkFindStep ==
    ASSUME MailInv, NEW h \in Handlers, LinkFind(h)
    PROVE  MailInv'
<1>1. /\ handler[h].at = "linkfind"
      /\ UNCHANGED <<mapping, log, contact, created, sent, event, asked, shown, astray, excused>>
      /\ handler[h] \in HandlerRecord /\ handler[h].at \in FoundSteps /\ contact \in Seq(ContactRecord)
  BY DEF LinkFind, FoundSteps, MailInv, MailTypes
<1>2. handler[h].who \in Customers
  BY <1>1, IsEvent DEF EventSteps
<1>3. mapping[handler[h].who] \in Nat
  BY <1>2 DEF MailInv, MailTypes
<1>4. CASE Finish(h)
  BY <1>1, <1>4, LinkingFinishes, MailInvFrom
<1>5. ASSUME NEW c \in Nat,
             Set(h, [handler[h] EXCEPT !.at = "linkmake", !.old = mapping[handler[h].who], !.contact = c,
                                       !.prof = "name", !.linking = TRUE])
      PROVE  MailInv'
  <2> DEFINE m == [handler[h] EXCEPT !.at = "linkmake", !.old = mapping[handler[h].who], !.contact = c,
                                     !.prof = "name", !.linking = TRUE]
  <2>1. /\ m \in HandlerRecord /\ m.of = handler[h].of /\ m.who = handler[h].who /\ m.entry = handler[h].entry
        /\ m.at = "linkmake"
    BY <1>1, <1>3 DEF HandlerRecord, EventSteps
  <2>2. Set(h, m)
    BY <1>5
  <2> HIDE DEF m
  <2>3. /\ MailIsWell' /\ handler' \in [Handlers -> HandlerRecord]
        /\ \A g \in Handlers : g # h => handler'[g] = handler[g]
    BY <1>1, <2>1, <2>2, SetMovesOn
  <2>4. QED
    BY <1>1, <2>3, MailInvFrom
<1>6. QED
  BY <1>4, <1>5, ByPhoneIsNat DEF LinkFind

LEMMA TouchStep ==
    ASSUME MailInv, NEW h \in Handlers, Touch(h)
    PROVE  MailInv'
<1>1. /\ handler[h].at = "touch"
      /\ UNCHANGED <<mapping, log, contact, created, sent, event, asked, shown, astray, excused>>
      /\ handler[h] \in HandlerRecord /\ handler[h].at \in FoundSteps /\ contact \in Seq(ContactRecord)
  BY DEF Touch, FoundSteps, MailInv, MailTypes
<1>2. CASE Throw(h)
  BY <1>1, <1>2, ThrowKeeps, MailInvFrom
<1>3. CASE handler[h].linking /\ Goto(h, "end")
  <2>1. Finish(h)
    BY <1>3, GotoEnd DEF MailInv
  <2>2. QED
    BY <1>1, <1>3, <2>1, LinkingFinishes, MailInvFrom
<1>4. CASE Goto(h, "push")
  <2> DEFINE m == [handler[h] EXCEPT !.at = "push"]
  <2>1. /\ m \in HandlerRecord /\ m.of = handler[h].of /\ m.who = handler[h].who /\ m.entry = handler[h].entry
        /\ m.at = "push" /\ m.linking = handler[h].linking
    BY <1>1 DEF HandlerRecord, EventSteps
  <2>2. Set(h, m)
    BY <1>4 DEF Goto
  <2> HIDE DEF m
  <2>3. QED
    BY <1>1, <2>1, <2>2, SetMovesOn, MailInvFrom
<1>5. QED
  BY <1>2, <1>3, <1>4 DEF Touch

\* A message is shown; one that is not goes into the log, or stays in its row.
LEMMA PushStep ==
    ASSUME MailInv, NEW h \in Handlers, Push(h)
    PROVE  MailInv'
<1>0. PICK e : e = handler[h].of
  OBVIOUS
<1> USE <1>0
<1>1. /\ handler[h].at = "push"
      /\ UNCHANGED <<mapping, log, contact, created, sent, event, asked, astray, excused>>
      /\ handler[h] \in HandlerRecord /\ contact \in Seq(ContactRecord) /\ shown \subseteq shown'
      /\ log \in Seq(RowRecord)
  BY DEF Push, MailInv, MailTypes
<1>2. /\ e \in Events /\ e \in asked /\ handler[h].who \in Customers
      /\ event[e].kind \in Kinds /\ HandlerIsSound(h)
  BY <1>1, IsEvent DEF EventSteps
<1>3. handler[h].entry # 0 => handler[h].entry \in DOMAIN log /\ log[handler[h].entry].of = e
  BY <1>2 DEF HandlerIsSound
<1>4. handler[h].linking => /\ event[e].kind \in {"shared", "info"}
                            /\ event[e].kind \in Messages => PushDone(e)
  BY <1>2 DEF HandlerIsSound
<1>5. handler[h].entry # 0 /\ ~Repeating(h) => log[handler[h].entry].type # "push"
  BY DEF Repeating
<1>6. SUFFICES /\ MailIsWell' /\ handler' \in [Handlers -> HandlerRecord]
               /\ \A g \in Handlers : g # h => handler'[g] = handler[g]
  BY <1>1, MailInvFrom
<1>7. ASSUME NEW at \in {"linkfind", "log"}, NEW m \in HandlerRecord, Set(h, m), m.at = at, m.of = e,
             m.who = handler[h].who, m.entry = handler[h].entry, m.linking = handler[h].linking, ~Repeating(h),
             at = "linkfind" => event[e].kind = "shared" /\ e \in shown',
             at = "log" => m.type = "push"
      PROVE  /\ MailIsWell' /\ handler' \in [Handlers -> HandlerRecord]
             /\ \A g \in Handlers : g # h => handler'[g] = handler[g]
  <2>1. /\ handler' \in [Handlers -> HandlerRecord] /\ handler'[h] = m
        /\ \A g \in Handlers : g # h => handler'[g] = handler[g]
    BY <1>7, SetTakes DEF MailInv
  <2>2. e \notin Replies \cup Notices /\ e \in Items
    BY <1>2, ItemsAssumption DEF Items
  <2>3. at \in EventSteps /\ at \notin {"free", "save", "resolve"}
    BY DEF EventSteps
  <2>4. \A x : PushDone(x) => PushDone(x)'
    BY <1>1 DEF PushDone
  <2>5. event[e].kind \in Messages /\ (m.linking \/ at \in {"linkfind", "linkmake", "resolve"}) => PushDone(e)'
    <3>1. at = "linkfind" => PushDone(e)'
      BY <1>7 DEF PushDone
    <3>2. QED
      BY <1>4, <1>7, <2>4, <3>1
  <2>6. HandlerIsSound(h)'
    BY <1>1, <1>2, <1>3, <1>4, <1>5, <1>7, <2>1, <2>2, <2>3, <2>5 DEF HandlerIsSound
  <2>7. QED
    BY <1>1, <1>2, <1>7, <2>1, <2>6, EventMoves
<1>8. CASE Finish(h) /\ e \in shown'
  <2>1. PushDone(e)'
    BY <1>8 DEF PushDone
  <2>2. QED
    BY <1>1, <1>8, FinishKeeps DEF PushDone
<1>9. CASE Goto(h, Pushed(h)) /\ e \in shown'
  <2>1. CASE Pushed(h) = "end"
    BY <1>8, <1>9, <2>1, GotoEnd DEF MailInv
  <2>2. CASE Pushed(h) # "end"
    <3> DEFINE m == [handler[h] EXCEPT !.at = "linkfind"]
    <3>1. Pushed(h) = "linkfind" /\ event[e].kind = "shared" /\ ~Repeating(h)
      BY <2>2 DEF Pushed
    <3>2. /\ m \in HandlerRecord /\ m.of = e /\ m.who = handler[h].who /\ m.entry = handler[h].entry
          /\ m.at = "linkfind" /\ m.linking = handler[h].linking
      BY <1>1 DEF HandlerRecord, EventSteps
    <3>3. Set(h, m)
      BY <1>9, <3>1 DEF Goto
    <3> HIDE DEF m
    <3>4. QED
      BY <1>7, <1>9, <3>1, <3>2, <3>3
  <2>3. QED
    BY <2>1, <2>2
<1>10. CASE Repeating(h) /\ Leave(h)
  <2>1. /\ handler' \in [Handlers -> HandlerRecord] /\ handler'[h] = Free
        /\ \A g \in Handlers : g # h => handler'[g] = handler[g]
    BY <1>10, LeaveTakes DEF MailInv
  <2>2. \/ e \in shown' \cup astray
        \/ \E j \in DOMAIN log : log[j].of = e /\ ~log[j].resolved
    BY <1>1, <1>2, <1>3, <1>10, RowKeepsEvent DEF Repeating
  <2>3. QED
    BY <1>1, <1>2, <2>1, <2>2, EventMoves
<1>11. CASE ~Repeating(h) /\ Set(h, [handler[h] EXCEPT !.at = "log", !.type = "push"])
  <2> DEFINE m == [handler[h] EXCEPT !.at = "log", !.type = "push"]
  <2>1. /\ m \in HandlerRecord /\ m.of = e /\ m.who = handler[h].who /\ m.entry = handler[h].entry
        /\ m.at = "log" /\ m.linking = handler[h].linking /\ m.type = "push"
    BY <1>1 DEF HandlerRecord, EventSteps
  <2>2. Set(h, m)
    BY <1>11
  <2> HIDE DEF m
  <2>3. QED
    BY <1>7, <1>11, <2>1, <2>2
<1>12. QED
  BY <1>9, <1>10, <1>11 DEF Push

-----------------------------------------------------------------------------
\* What a step leaves alone

\* The rows stay, and what they tell of their events stays true.
RowsStay ==
    /\ \A e \in Events \cap asked : e \in asked' /\ event'[e] = event[e]
    /\ \A r \in Replies \cap asked : r \in asked'
    /\ \A i \in DOMAIN log :
         /\ i \in DOMAIN log' /\ log'[i].of = log[i].of /\ log'[i].type = log[i].type /\ log'[i].who = log[i].who
         /\ log'[i].resolved => \/ log[i].resolved
                                \/ /\ log[i].type = "push" => log[i].of \in shown'
                                   /\ log[i].type = "event" => PushDone(log[i].of)
    /\ shown \subseteq shown'
    /\ \A e \in Events : PushDone(e) => PushDone(e)'

LEMMA HandlersStaySound ==
    ASSUME MailInv, RowsStay, NEW g \in Handlers, handler'[g] = handler[g],
           handler[g].of \in Notices => asked \subseteq asked' \/ handler[g].of \in asked'
    PROVE  HandlerIsSound(g)'
<1>0. PICK e : e = handler[g].of
  OBVIOUS
<1>1. HandlerIsSound(g)
  BY DEF MailInv, MailIsWell, MailIsSound
<1>2. handler[g].at # "free" => e \in Items \cap asked'
  BY <1>0, <1>1 DEF HandlerIsSound, RowsStay, Items
<1>3. CASE e \notin Events \/ handler[g].at = "free"
  <2>1. handler[g].at = "free" => handler[g] = Free /\ e \notin Items
    BY <1>0, <1>1, ItemsAssumption DEF HandlerIsSound, Free, Items
  <2>2. e \notin Events
    BY <1>3, <2>1 DEF Items
  <2>3. handler[g].entry # 0 =>
         /\ handler[g].entry \in DOMAIN log' /\ log'[handler[g].entry].of = e
         /\ log'[handler[g].entry].type = "push" => (handler[g].at = "push" \/ (handler[g].at = "resolve" /\ e \in shown'))
    BY <1>0, <1>1 DEF HandlerIsSound, RowsStay
  <2>4. QED
    BY <1>0, <1>1, <1>2, <2>2, <2>3 DEF HandlerIsSound
<1>4. CASE e \in Events /\ handler[g].at # "free"
  <2>1. event'[e] = event[e] /\ (PushDone(e) => PushDone(e)')
    BY <1>0, <1>1, <1>4 DEF HandlerIsSound, RowsStay
  <2>2. handler[g].entry # 0 =>
         /\ handler[g].entry \in DOMAIN log' /\ log'[handler[g].entry].of = e
         /\ log'[handler[g].entry].type = "push" => (handler[g].at = "push" \/ (handler[g].at = "resolve" /\ e \in shown'))
    BY <1>0, <1>1 DEF HandlerIsSound, RowsStay
  <2>3. (/\ e \in Events /\ event'[e].kind \in Messages
         /\ handler[g].linking \/ handler[g].at \in {"linkfind", "linkmake", "resolve"}) => PushDone(e)'
    BY <1>0, <1>1, <2>1 DEF HandlerIsSound
  <2>4. QED
    BY <1>0, <1>1, <1>2, <2>1, <2>2, <2>3 DEF HandlerIsSound
<1>5. QED
  BY <1>3, <1>4

LEMMA RowsStaySound ==
    ASSUME MailInv, RowsStay, NEW i \in DOMAIN log
    PROVE  RowIsSound(i)'
<1>0. PICK e, t, w : e = log[i].of /\ t = log[i].type /\ w = log[i].who
  OBVIOUS
<1>1. RowIsSound(i)
  BY DEF MailInv, MailIsWell, MailIsSound
<1>2. log'[i].of = e /\ log'[i].type = t /\ log'[i].who = w /\ i \in DOMAIN log'
  BY <1>0 DEF RowsStay
<1>3. e \in (Events \cup Replies) \cap asked'
  BY <1>0, <1>1 DEF RowIsSound, RowsStay
<1>4. e \in Events => event'[e] = event[e]
  BY <1>0, <1>1 DEF RowIsSound, RowsStay
<1>5. t = "event" => e \in Events
  BY <1>0, <1>1, <1>3 DEF RowIsSound
<1>6. log'[i].resolved => (t = "push" => e \in shown') /\ (t = "event" => PushDone(e)')
  <2>1. log[i].resolved => (t = "push" => e \in shown) /\ (t = "event" => PushDone(e))
    BY <1>0, <1>1 DEF RowIsSound
  <2>2. log'[i].resolved => (t = "push" => e \in shown') /\ (t = "event" => PushDone(e))
    BY <1>0, <2>1 DEF RowsStay
  <2>3. QED
    BY <1>5, <2>2 DEF RowsStay
<1>7. QED
  BY <1>0, <1>1, <1>2, <1>3, <1>4, <1>5, <1>6 DEF RowIsSound

\* A reply or notice that a step has nothing to do with.
LEMMA StillSingle ==
    ASSUME MailInv, NEW r, InOnePlace(r),
           \A g \in Handlers : handler[g].of = r \/ handler'[g].of = r => handler'[g] = handler[g],
           \A i \in DOMAIN log' : log'[i].of = r => i \in DOMAIN log /\ log'[i] = log[i],
           r \in asked => r \in asked', excused \subseteq excused', sent'[<<r, 2>>] = sent[<<r, 2>>]
    PROVE  InOnePlace(r)'
<1>1. \A g \in Handlers : handler'[g].of = r => handler'[g] = handler[g] /\ handler[g].of = r
  OBVIOUS
<1>2. \A g \in Handlers : OnTheWay(g, r)' => OnTheWay(g, r)
  BY <1>1 DEF OnTheWay
<1>3. \A i \in DOMAIN log' : log'[i].of = r => i \in DOMAIN log /\ log[i].of = r /\ (~log'[i].resolved => ~log[i].resolved)
  OBVIOUS
<1>4. /\ r \notin asked' => sent'[<<r, 2>>] = 0 \/ r \in excused'
      /\ \A g, k \in Handlers :
           handler'[g].of = r /\ handler'[k].of = r /\ handler'[g].entry = 0 /\ handler'[k].entry = 0 => g = k
  BY <1>1 DEF InOnePlace
<1>5. \A i \in DOMAIN log' : log'[i].of = r =>
           /\ \A g \in Handlers : handler'[g].of = r => handler'[g].entry # 0
           /\ \A j \in DOMAIN log' : log'[j].of = r => i = j
  BY <1>1, <1>3 DEF InOnePlace
<1>6. ASSUME r \notin excused'
      PROVE  /\ \A g, k \in Handlers : handler'[g].of = r /\ handler'[k].of = r => g = k
             /\ sent'[<<r, 2>>] <= 1
  BY <1>1, <1>6 DEF InOnePlace
<1>7. ASSUME r \notin excused', sent'[<<r, 2>>] = 1
      PROVE  /\ \A g \in Handlers : ~OnTheWay(g, r)'
             /\ \A i \in DOMAIN log' : log'[i].of = r /\ ~log'[i].resolved =>
                   \E g \in Handlers : handler'[g].entry = i /\ handler'[g].at = "resolve"
  <2>1. /\ \A g \in Handlers : ~OnTheWay(g, r)
        /\ \A i \in DOMAIN log : log[i].of = r /\ ~log[i].resolved =>
              \E g \in Handlers : handler[g].entry = i /\ handler[g].at = "resolve"
    BY <1>7 DEF InOnePlace
  <2>2. ASSUME NEW i \in DOMAIN log, log[i].of = r, ~log[i].resolved
        PROVE  \E g \in Handlers : handler'[g].entry = i /\ handler'[g].at = "resolve"
    <3>1. PICK g \in Handlers : handler[g].entry = i /\ handler[g].at = "resolve"
      BY <2>1, <2>2
    <3>2. HandlerIsSound(g)
      BY DEF MailInv, MailIsWell, MailIsSound
    <3>3. handler[g].entry # 0
      BY <3>1, <3>2 DEF HandlerIsSound
    <3>4. handler[g].of = r
      BY <2>2, <3>1, <3>2, <3>3 DEF HandlerIsSound
    <3>5. QED
      BY <3>1, <3>4
  <2>3. QED
    BY <1>2, <1>3, <2>1, <2>2
<1>8. QED
  BY <1>4, <1>5, <1>6, <1>7 DEF InOnePlace

\* Who is free has nothing in hand.
LEMMA FreeHasNothing ==
    ASSUME MailInv, NEW h \in Handlers, handler[h].at = "free"
    PROVE  handler[h] = Free /\ handler[h].of \notin Items
<1>1. HandlerIsSound(h)
  BY DEF MailInv, MailIsWell, MailIsSound
<1>2. QED
  BY <1>1, ItemsAssumption DEF HandlerIsSound, Free, Items

\* What was never delivered is nowhere.
LEMMA NotAskedIsNowhere ==
    ASSUME MailInv, NEW r \in Items, r \notin asked
    PROVE  /\ \A h \in Handlers : handler[h].of # r
           /\ \A i \in DOMAIN log : log[i].of # r
<1>1. ASSUME NEW h \in Handlers PROVE handler[h].of # r
  <2>1. HandlerIsSound(h)
    BY DEF MailInv, MailIsWell, MailIsSound
  <2>2. QED
    BY <2>1, FreeHasNothing DEF HandlerIsSound
<1>2. ASSUME NEW i \in DOMAIN log PROVE log[i].of # r
  <2>1. RowIsSound(i)
    BY DEF MailInv, MailIsWell, MailIsSound
  <2>2. QED
    BY <2>1 DEF RowIsSound
<1>3. QED
  BY <1>1, <1>2

\* The messages do not notice what a handler does that has none in hand.
LEMMA MessagesStay ==
    ASSUME MailInv, NEW h \in Handlers, \A g \in Handlers : g # h => handler'[g] = handler[g],
           handler[h].of \notin Events, asked' \cap Events \subseteq asked, UNCHANGED event,
           shown \subseteq shown', astray \subseteq astray',
           \A i \in DOMAIN log : log[i].of \in Events /\ ~log[i].resolved =>
               i \in DOMAIN log' /\ log'[i].of = log[i].of /\ ~log'[i].resolved
    PROVE  MessagesAreKept'
<1> SUFFICES ASSUME NEW e \in asked' \cap Events, event'[e].kind \in Messages
             PROVE  \/ e \in shown' \cup astray'
                    \/ \E g \in Handlers : handler'[g].of = e
                    \/ \E i \in DOMAIN log' : log'[i].of = e /\ ~log'[i].resolved
  BY DEF MessagesAreKept
<1>1. \/ e \in shown \cup astray
      \/ \E g \in Handlers : handler[g].of = e
      \/ \E i \in DOMAIN log : log[i].of = e /\ ~log[i].resolved
  BY DEF MailInv, MailIsWell, MessagesAreKept
<1>2. ASSUME NEW g \in Handlers, handler[g].of = e PROVE handler'[g].of = e
  BY <1>2
<1>3. ASSUME NEW i \in DOMAIN log, log[i].of = e, ~log[i].resolved
      PROVE  i \in DOMAIN log' /\ log'[i].of = e /\ ~log'[i].resolved
  BY <1>3
<1>4. QED
  BY <1>1, <1>2, <1>3

\* What a handler that was free takes up.
LEMMA TakesUp ==
    ASSUME MailInv, NEW h \in Handlers, handler[h].at = "free", NEW m \in HandlerRecord, Set(h, m), NEW r \in Items,
           m.of = r
    PROVE  /\ handler' \in [Handlers -> HandlerRecord] /\ handler'[h] = m
           /\ \A g \in Handlers : g # h => handler'[g] = handler[g]
           /\ \A s \in Items : s # r =>
                \A g \in Handlers : handler[g].of = s \/ handler'[g].of = s => handler'[g] = handler[g]
<1>1. /\ handler' \in [Handlers -> HandlerRecord] /\ handler'[h] = m
      /\ \A g \in Handlers : g # h => handler'[g] = handler[g]
  BY SetTakes DEF MailInv
<1>2. handler[h].of \notin Items
  BY FreeHasNothing
<1>3. QED
  BY <1>1, <1>2

LEMMA DeliverStep ==
    ASSUME MailInv, NEW h \in Handlers, NEW e \in Events, Deliver(h, e)
    PROVE  MailInv'
<1>1. /\ handler[h].at = "free" /\ e \notin asked /\ asked' = asked \cup {e}
      /\ UNCHANGED <<mapping, log, contact, shown, sent, created, excused>> /\ MailTypes /\ ContactIsHeld
  BY DEF Deliver, MailInv
<1>2. PICK kind \in Kinds, u \in Customers :
        /\ event' = [event EXCEPT ![e] = [kind |-> kind, from |-> u]]
        /\ \/ /\ Set(h, [Free EXCEPT !.at = IF kind = "info" THEN "linkfind" ELSE "lookup", !.of = e, !.who = u])
              /\ UNCHANGED astray
           \/ astray' = astray \cup {e} /\ UNCHANGED handler
  BY DEF Deliver
<1>3. /\ event' \in [Events -> [kind : Kinds \cup {NoOne}, from : Customers \cup {NoOne}]]
      /\ event'[e].kind = kind /\ \A x \in Events : x # e => event'[x] = event[x]
  BY <1>1, <1>2 DEF MailTypes
<1>4. \A x : PushDone(x) => PushDone(x)'
  BY <1>1, <1>2 DEF PushDone
<1>5. RowsStay
  BY <1>1, <1>3, <1>4 DEF RowsStay
<1>6. e \in Items /\ e \notin Replies \cup Notices
  BY ItemsAssumption DEF Items
<1>7. /\ handler' \in [Handlers -> HandlerRecord] /\ \A g \in Handlers : g # h => handler'[g] = handler[g]
      /\ HandlerIsSound(h)' /\ (handler'[h].of = e \/ e \in astray')
      /\ \A s \in Items : s # e =>
           \A g \in Handlers : handler[g].of = s \/ handler'[g].of = s => handler'[g] = handler[g]
  <2>1. CASE astray' = astray \cup {e} /\ UNCHANGED handler
    <3>1. handler' \in [Handlers -> HandlerRecord] /\ \A g \in Handlers : handler'[g] = handler[g]
      BY <1>1, <2>1 DEF MailTypes
    <3>2. HandlerIsSound(h)'
      BY <1>1, <1>5, <3>1, HandlersStaySound
    <3>3. QED
      BY <2>1, <3>1, <3>2
  <2>2. ASSUME NEW at \in {"linkfind", "lookup"}, at = "linkfind" => kind = "info",
               Set(h, [Free EXCEPT !.at = at, !.of = e, !.who = u])
        PROVE  /\ handler' \in [Handlers -> HandlerRecord] /\ \A g \in Handlers : g # h => handler'[g] = handler[g]
               /\ HandlerIsSound(h)' /\ (handler'[h].of = e \/ e \in astray')
               /\ \A s \in Items : s # e =>
                    \A g \in Handlers : handler[g].of = s \/ handler'[g].of = s => handler'[g] = handler[g]
    <3> DEFINE m == [Free EXCEPT !.at = at, !.of = e, !.who = u]
    <3>1. /\ m \in HandlerRecord /\ m.at = at /\ m.of = e /\ m.who = u /\ m.entry = 0 /\ m.linking = FALSE
      BY <1>6 DEF Free, HandlerRecord, EventSteps
    <3>2. Set(h, m)
      BY <2>2
    <3> HIDE DEF m
    <3>3. /\ handler' \in [Handlers -> HandlerRecord] /\ handler'[h] = m
          /\ \A g \in Handlers : g # h => handler'[g] = handler[g]
          /\ \A s \in Items : s # e =>
               \A g \in Handlers : handler[g].of = s \/ handler'[g].of = s => handler'[g] = handler[g]
      BY <1>1, <1>6, <3>1, <3>2, TakesUp
    <3>4. at \in EventSteps /\ at \notin {"free", "save", "log", "resolve"} /\ "info" \notin Messages
      BY DEF EventSteps, Messages
    <3>5. HandlerIsSound(h)'
      BY <1>1, <1>3, <1>6, <2>2, <3>1, <3>3, <3>4 DEF HandlerIsSound
    <3>6. QED
      BY <3>1, <3>3, <3>5
  <2>3. CASE Set(h, [Free EXCEPT !.at = IF kind = "info" THEN "linkfind" ELSE "lookup", !.of = e, !.who = u])
    <3>1. CASE kind = "info"
      BY <2>2, <2>3, <3>1
    <3>2. CASE kind # "info"
      BY <2>2, <2>3, <3>2
    <3>3. QED
      BY <3>1, <3>2
  <2>4. QED
    BY <1>2, <2>1, <2>3
<1>8. MailIsSound'
  <2>1. \A g \in Handlers : HandlerIsSound(g)'
    BY <1>1, <1>5, <1>7, HandlersStaySound
  <2>2. \A i \in DOMAIN log' : RowIsSound(i)'
    BY <1>1, <1>5, RowsStaySound
  <2>3. QED
    BY <2>1, <2>2 DEF MailIsSound
<1>9. MessagesAreKept'
  <2> SUFFICES ASSUME NEW x \in asked' \cap Events, event'[x].kind \in Messages
               PROVE  \/ x \in shown' \cup astray'
                      \/ \E g \in Handlers : handler'[g].of = x
                      \/ \E i \in DOMAIN log' : log'[i].of = x /\ ~log'[i].resolved
    BY DEF MessagesAreKept
  <2>1. CASE x = e
    BY <1>7, <2>1
  <2>2. CASE x # e
    <3>1. \/ x \in shown \cup astray
          \/ \E g \in Handlers : handler[g].of = x
          \/ \E i \in DOMAIN log : log[i].of = x /\ ~log[i].resolved
      BY <1>1, <1>3, <2>2 DEF MailInv, MailIsWell, MessagesAreKept
    <3>2. \A g \in Handlers : handler[g].of = x => handler'[g].of = x
      BY <1>7, <2>2 DEF Items
    <3>3. astray \subseteq astray'
      BY <1>2
    <3>4. QED
      BY <1>1, <3>1, <3>2, <3>3
  <2>3. QED
    BY <2>1, <2>2
<1>10. SendsAreSingle'
  <2>1. ASSUME NEW r \in Replies \cup Notices PROVE InOnePlace(r)'
    <3>1. InOnePlace(r) /\ r # e /\ r \in Items
      BY <1>6 DEF MailInv, MailIsWell, SendsAreSingle, Items
    <3>2. QED
      BY <1>1, <1>7, <3>1, StillSingle
  <2>2. QED
    BY <2>1 DEF SendsAreSingle
<1>11. MailTypes'
  BY <1>1, <1>3, <1>7 DEF MailTypes
<1>12. ContactIsHeld'
  BY <1>1, <1>7, ContactStaysBut
<1>13. QED
  BY <1>8, <1>9, <1>10, <1>11, <1>12 DEF MailInv, MailIsWell

-----------------------------------------------------------------------------
\* To the customer

\* A step for a reply or notice r: the messages and the others do not notice it.
LEMMA SendKeeps ==
    ASSUME MailInv, NEW h \in Handlers, NEW r \in Replies \cup Notices,
           handler' \in [Handlers -> HandlerRecord], \A g \in Handlers : g # h => handler'[g] = handler[g],
           handler[h].of \in {r, NoOne}, handler'[h].of \in {r, NoOne}, handler[h].at # "save",
           HandlerIsSound(h)', InOnePlace(r)',
           asked' \ asked \subseteq {r}, asked \ asked' \subseteq {r} \cap Notices,
           r \in asked' \/ \A g \in Handlers : g # h => handler[g].of # r,
           UNCHANGED <<mapping, event, contact, shown, created>>, astray \subseteq astray', excused \subseteq excused',
           sent' \in [Parts -> Nat], \A s \in Replies \cup Notices : s # r => sent'[<<s, 2>>] = sent[<<s, 2>>],
           log' \in Seq(RowRecord), RowsStay,
           \A i \in DOMAIN log' : i \notin DOMAIN log => RowIsSound(i)',
           \A i \in DOMAIN log' : log'[i].of # r => i \in DOMAIN log /\ log'[i] = log[i],
           \A i \in DOMAIN log : log[i].of # r => log'[i] = log[i]
    PROVE  MailInv'
<1>0. r \in Items /\ r \notin Events /\ NoOne \notin Items
  BY ItemsAssumption DEF Items
<1>1. MailIsSound'
  <2>1. ASSUME NEW g \in Handlers, g # h PROVE HandlerIsSound(g)'
    <3>1. handler[g].of \in Notices => asked \subseteq asked' \/ handler[g].of \in asked'
      <4>1. HandlerIsSound(g)
        BY DEF MailInv, MailIsWell, MailIsSound
      <4>2. handler[g].of \in Items => handler[g].of \in asked
        BY <4>1, FreeHasNothing DEF HandlerIsSound
      <4>3. QED
        BY <2>1, <4>2 DEF Items
    <3>2. QED
      BY <2>1, <3>1, HandlersStaySound
  <2>2. \A i \in DOMAIN log' : RowIsSound(i)'
    BY RowsStaySound
  <2>3. QED
    BY <2>1, <2>2 DEF MailIsSound
<1>2. MessagesAreKept'
  <2>1. handler[h].of \notin Events /\ asked' \cap Events \subseteq asked
    BY <1>0 DEF Items
  <2>2. \A i \in DOMAIN log : log[i].of \in Events /\ ~log[i].resolved =>
               i \in DOMAIN log' /\ log'[i].of = log[i].of /\ ~log'[i].resolved
    BY <1>0 DEF RowsStay
  <2>3. QED
    BY <2>1, <2>2, MessagesStay
<1>3. ASSUME NEW s \in Replies \cup Notices PROVE InOnePlace(s)'
  <2>1. CASE s # r
    <3>1. InOnePlace(s) /\ s # NoOne
      BY <1>0 DEF MailInv, MailIsWell, SendsAreSingle, Items
    <3>2. \A g \in Handlers : handler[g].of = s \/ handler'[g].of = s => handler'[g] = handler[g]
      BY <2>1, <3>1
    <3>3. QED
      BY <2>1, <3>1, <3>2, StillSingle
  <2>2. QED
    BY <2>1
<1>4. MailTypes'
  BY DEF MailInv, MailTypes
<1>5. ContactIsHeld'
  BY ContactStaysBut DEF MailInv
<1>6. QED
  BY <1>1, <1>2, <1>3, <1>4, <1>5 DEF MailInv, MailIsWell, SendsAreSingle

\* Steps that write no row.
LEMMA SameRowsStay ==
    ASSUME MailInv, NEW r \in Notices \cup Replies, asked \ asked' \subseteq {r} \cap Notices,
           UNCHANGED <<log, event, shown, astray>>
    PROVE  RowsStay /\ log' \in Seq(RowRecord)
<1>1. \A x : PushDone(x) => PushDone(x)'
  BY DEF PushDone
<1>2. \A e \in Events \cup Replies : e \in asked => e \in asked'
  BY ItemsAssumption
<1>3. RowsStay
  BY <1>1, <1>2 DEF RowsStay
<1>4. QED
  BY <1>3 DEF MailInv, MailTypes

\* A reply or notice that comes in.
LEMMA TakesSend ==
    ASSUME MailInv, NEW h \in Handlers, handler[h].at = "free", NEW r \in Replies \cup Notices, r \notin asked,
           asked' = asked \cup {r}, UNCHANGED <<mapping, log, event, contact, shown, sent, created, excused, astray>>,
           \/ UNCHANGED handler
           \/ \E m \in HandlerRecord :
                 /\ m.at = "send2" \/ (m.at = "send1" /\ r \in Replies)
                 /\ m.of = r /\ m.entry = 0 /\ Set(h, m)
    PROVE  MailInv'
<1>1. MailTypes /\ r \in Items /\ r \notin Events
  BY ItemsAssumption DEF MailInv, Items
<1>2. /\ \A g \in Handlers : handler[g].of # r
      /\ \A i \in DOMAIN log : log[i].of # r
  BY <1>1, NotAskedIsNowhere
<1>3. handler[h] = Free /\ Free.of = NoOne
  <2>1. handler[h] = Free
    BY FreeHasNothing
  <2>2. Free.of = NoOne
    BY DEF Free
  <2>3. QED
    BY <2>1, <2>2
<1>4. InOnePlace(r)
  BY DEF MailInv, MailIsWell, SendsAreSingle
<1>5. /\ handler' \in [Handlers -> HandlerRecord] /\ \A g \in Handlers : g # h => handler'[g] = handler[g]
      /\ HandlerIsSound(h)' /\ handler'[h].of \in {r, NoOne}
  <2>1. CASE UNCHANGED handler
    BY <1>1, <1>3, <2>1, ItemsAssumption DEF MailTypes, HandlerIsSound, Free
  <2>2. ASSUME NEW m \in HandlerRecord, m.at = "send2" \/ (m.at = "send1" /\ r \in Replies),
               m.of = r, m.entry = 0, Set(h, m)
        PROVE  /\ handler' \in [Handlers -> HandlerRecord] /\ \A g \in Handlers : g # h => handler'[g] = handler[g]
               /\ HandlerIsSound(h)' /\ handler'[h].of \in {r, NoOne}
    <3>1. /\ handler' \in [Handlers -> HandlerRecord] /\ handler'[h] = m
          /\ \A g \in Handlers : g # h => handler'[g] = handler[g]
      BY <1>1, <2>2, SetTakes
    <3>2. m.at \in SendSteps /\ m.at \notin {"free", "save", "log", "resolve"}
      BY <2>2 DEF SendSteps
    <3>3. HandlerIsSound(h)'
      BY <1>1, <2>2, <3>1, <3>2, ItemsAssumption DEF HandlerIsSound
    <3>4. QED
      BY <2>2, <3>1, <3>3
  <2>3. QED
    BY <2>1, <2>2
<1>6. \A g \in Handlers : handler'[g].of = r => g = h
  BY <1>2, <1>5
<1>7. r \notin excused => sent[<<r, 2>>] = 0
  BY <1>4 DEF InOnePlace
<1>8. InOnePlace(r)'
  <2>1. \A i \in DOMAIN log' : log'[i].of # r
    BY <1>2
  <2>2. r \in asked' /\ (r \notin excused' => sent'[<<r, 2>>] = 0)
    BY <1>7
  <2>3. QED
    BY <1>6, <2>1, <2>2 DEF InOnePlace
<1>9. RowsStay /\ log' \in Seq(RowRecord)
  BY SameRowsStay
<1>10. sent' \in [Parts -> Nat] /\ handler[h].at # "save"
  BY <1>1 DEF MailTypes
<1>11. QED
  BY <1>3, <1>5, <1>8, <1>9, <1>10, SendKeeps

LEMMA ReplyStep ==
    ASSUME MailInv, NEW h \in Handlers, NEW r \in Replies, Reply(h, r)
    PROVE  MailInv'
<1>1. /\ handler[h].at = "free" /\ r \notin asked /\ asked' = asked \cup {r}
      /\ UNCHANGED <<mapping, log, event, contact, shown, sent, created, excused, astray>>
  BY DEF Reply
<1>2. PICK c \in DOMAIN contact :
        \/ UNCHANGED handler
        \/ \E u \in (IF {u \in Customers : mapping[u] = c} # {} THEN {u \in Customers : mapping[u] = c}
                     ELSE {contact[c].uid} \ {NoOne}) :
              Set(h, [Free EXCEPT !.at = "send1", !.of = r, !.who = u, !.contact = c])
  BY DEF Reply
<1>3. c \in Nat /\ contact[c] \in ContactRecord
  BY DEF MailInv, MailTypes
<1>4. contact[c].uid \in Customers \cup {NoOne}
  BY <1>3 DEF ContactRecord
<1>5. \/ UNCHANGED handler
      \/ \E u \in Customers : Set(h, [Free EXCEPT !.at = "send1", !.of = r, !.who = u, !.contact = c])
  BY <1>2, <1>4
<1>6. ASSUME NEW u \in Customers, Set(h, [Free EXCEPT !.at = "send1", !.of = r, !.who = u, !.contact = c])
      PROVE  MailInv'
  <2> DEFINE m == [Free EXCEPT !.at = "send1", !.of = r, !.who = u, !.contact = c]
  <2>1. m \in HandlerRecord /\ m.at = "send1" /\ m.of = r /\ m.entry = 0
    BY <1>3 DEF Free, HandlerRecord, SendSteps, Items
  <2>2. Set(h, m)
    BY <1>6
  <2> HIDE DEF m
  <2>3. QED
    BY <1>1, <2>1, <2>2, TakesSend
<1>7. QED
  BY <1>1, <1>5, <1>6, TakesSend

LEMMA NoticeStep ==
    ASSUME MailInv, NEW h \in Handlers, NEW n \in Notices, Notice(h, n)
    PROVE  MailInv'
<1>1. /\ handler[h].at = "free" /\ n \notin asked /\ asked' = asked \cup {n}
      /\ UNCHANGED <<mapping, log, event, contact, shown, sent, created, excused, astray>>
  BY DEF Notice
<1>2. PICK u \in Customers : Set(h, [Free EXCEPT !.at = "send2", !.of = n, !.who = u])
  BY DEF Notice
<1> DEFINE m == [Free EXCEPT !.at = "send2", !.of = n, !.who = u]
<1>3. m \in HandlerRecord /\ m.at = "send2" /\ m.of = n /\ m.entry = 0
  BY DEF Free, HandlerRecord, SendSteps, Items
<1>4. Set(h, m)
  BY <1>2
<1> HIDE DEF m
<1>5. QED
  BY <1>1, <1>3, <1>4, TakesSend

\* What is known of a send under way.
LEMMA SendFacts ==
    ASSUME MailInv, NEW h \in Handlers, NEW r, r = handler[h].of, handler[h].at \in {"send1", "send2"}
    PROVE  /\ r \in (Replies \cup Notices) \cap asked /\ r \notin Events /\ r # NoOne
           /\ handler[h].at = "send1" => r \in Replies
           /\ r \in Notices => handler[h].entry = 0 /\ \A g \in Handlers : handler[g].of = r => g = h
           /\ handler[h].entry # 0 =>
                handler[h].entry \in DOMAIN log /\ log[handler[h].entry].of = r /\ log[handler[h].entry].type # "push"
           /\ InOnePlace(r) /\ sent[<<r, 2>>] \in Nat
           /\ r \notin excused => sent[<<r, 2>>] = 0
<1>1. HandlerIsSound(h)
  BY DEF MailInv, MailIsWell, MailIsSound
<1>2. r \in Items \cap asked /\ r \notin Events
  BY <1>1 DEF HandlerIsSound, EventSteps
<1>3. r \in Replies \cup Notices /\ r # NoOne
  BY <1>2, ItemsAssumption DEF Items
<1>4. InOnePlace(r)
  BY <1>3 DEF MailInv, MailIsWell, SendsAreSingle
<1>5. handler[h].at = "send1" => r \in Replies
  BY <1>1, <1>3 DEF HandlerIsSound
<1>6. r \in Notices => handler[h].entry = 0 /\ \A g \in Handlers : handler[g].of = r => g = h
  <2>1. \A g \in Handlers : handler[g].of = r /\ r \in Notices => handler[g].entry = 0
    BY DEF MailInv, MailIsWell, MailIsSound, HandlerIsSound
  <2>2. QED
    BY <1>4, <2>1 DEF InOnePlace
<1>7. handler[h].entry # 0 =>
        handler[h].entry \in DOMAIN log /\ log[handler[h].entry].of = r /\ log[handler[h].entry].type # "push"
  BY <1>1 DEF HandlerIsSound
<1>8. sent[<<r, 2>>] \in Nat
  BY <1>3 DEF MailInv, MailTypes, Parts
<1>9. r \notin excused => sent[<<r, 2>>] = 0
  <2>1. OnTheWay(h, r)
    BY DEF OnTheWay
  <2>2. r \notin excused => sent[<<r, 2>>] <= 1 /\ sent[<<r, 2>>] # 1
    BY <1>4, <2>1 DEF InOnePlace
  <2>3. QED
    BY <1>8, <2>2
<1>10. QED
  BY <1>2, <1>3, <1>4, <1>5, <1>6, <1>7, <1>8, <1>9

\* A send goes on, or out of the handler's hands.
LEMMA PlaceAfterSend ==
    ASSUME MailInv, NEW h \in Handlers, NEW r, r = handler[h].of, handler[h].at \in {"send1", "send2"},
           \A g \in Handlers : g # h => handler'[g] = handler[g],
           handler'[h] = Free \/ (handler'[h].of = r /\ handler'[h].entry = handler[h].entry),
           UNCHANGED log, excused \subseteq excused',
           r \in asked' \/ r \in excused' \/ sent'[<<r, 2>>] = 0,
           r \notin excused' => \/ sent'[<<r, 2>>] = 0
                                \/ /\ sent'[<<r, 2>>] = 1
                                   /\ \/ handler[h].entry = 0 /\ handler'[h] = Free
                                      \/ handler'[h].at = "resolve" /\ handler[h].entry # 0
    PROVE  InOnePlace(r)'
<1>1. InOnePlace(r) /\ r # NoOne
  BY SendFacts
<1>2. Free.of = NoOne
  BY DEF Free
<1>3. \A g \in Handlers : handler'[g].of = r => handler[g].of = r /\ handler'[g].entry = handler[g].entry
  BY <1>1, <1>2
<1>4. \A g, k \in Handlers :
        handler'[g].of = r /\ handler'[k].of = r /\ handler'[g].entry = 0 /\ handler'[k].entry = 0 => g = k
  BY <1>1, <1>3 DEF InOnePlace
<1>5. \A i \in DOMAIN log' : log'[i].of = r =>
         /\ \A g \in Handlers : handler'[g].of = r => handler'[g].entry # 0
         /\ \A j \in DOMAIN log' : log'[j].of = r => i = j
  BY <1>1, <1>3 DEF InOnePlace
<1>6. r \notin excused' => \A g \in Handlers : handler[g].of = r => g = h
  BY <1>1 DEF InOnePlace
<1>7. r \notin excused' => \A g, k \in Handlers : handler'[g].of = r /\ handler'[k].of = r => g = k
  BY <1>3, <1>6
<1>8. ASSUME r \notin excused', sent'[<<r, 2>>] = 1
      PROVE  /\ \A g \in Handlers : ~OnTheWay(g, r)'
             /\ \A i \in DOMAIN log' : log'[i].of = r /\ ~log'[i].resolved =>
                   \E g \in Handlers : handler'[g].entry = i /\ handler'[g].at = "resolve"
  <2>1. \A g \in Handlers : handler'[g].of = r => g = h
    BY <1>3, <1>6, <1>8
  <2>2. CASE handler[h].entry = 0 /\ handler'[h] = Free
    <3>1. \A g \in Handlers : handler'[g].of # r
      BY <1>1, <1>2, <2>1, <2>2
    <3>2. \A i \in DOMAIN log : log[i].of # r
      BY <1>1, <2>2 DEF InOnePlace
    <3>3. QED
      BY <3>1, <3>2 DEF OnTheWay
  <2>3. CASE handler'[h].at = "resolve" /\ handler[h].entry # 0
    <3>1. handler[h].entry \in DOMAIN log /\ log[handler[h].entry].of = r
      BY <2>3, SendFacts
    <3>2. \A i \in DOMAIN log : log[i].of = r => i = handler[h].entry
      BY <1>1, <3>1 DEF InOnePlace
    <3>3. handler'[h].entry = handler[h].entry
      BY <2>3 DEF Free
    <3>4. \A g \in Handlers : ~OnTheWay(g, r)'
      BY <2>1, <2>3 DEF OnTheWay
    <3>5. QED
      BY <2>3, <3>2, <3>3, <3>4
  <2>4. QED
    BY <1>8, <2>2, <2>3
<1>9. r \notin excused' => sent'[<<r, 2>>] <= 1
  OBVIOUS
<1>10. r \notin asked' => sent'[<<r, 2>>] = 0 \/ r \in excused'
  OBVIOUS
<1>11. QED
  BY <1>4, <1>5, <1>7, <1>8, <1>9, <1>10 DEF InOnePlace

LEMMA PartSent ==
    ASSUME MailInv, NEW r \in Replies \cup Notices, NEW part \in {1, 2}, part = 1 => r \in Replies,
           sent' = [sent EXCEPT ![<<r, part>>] = @ + 1]
    PROVE  /\ sent' \in [Parts -> Nat]
           /\ sent'[<<r, 2>>] = IF part = 2 THEN sent[<<r, 2>>] + 1 ELSE sent[<<r, 2>>]
           /\ \A s \in Replies \cup Notices : s # r => sent'[<<s, 2>>] = sent[<<s, 2>>]
<1>1. sent \in [Parts -> Nat] /\ <<r, part>> \in Parts /\ \A s \in Replies \cup Notices : <<s, 2>> \in Parts
  BY DEF MailInv, MailTypes, Parts
<1>2. sent[<<r, part>>] \in Nat
  BY <1>1
<1>3. sent' \in [Parts -> Nat]
  BY <1>1, <1>2
<1>4. \A s \in Replies \cup Notices : s # r => <<s, 2>> # <<r, part>>
  OBVIOUS
<1>5. part # 2 => <<r, 2>> # <<r, part>>
  OBVIOUS
<1>6. QED
  BY <1>1, <1>3, <1>4, <1>5

\* What a send leaves of its handler: the text after the attachment, the end of the
\* work, a failure to log.
LEMMA SenderStaysSound ==
    ASSUME MailInv, NEW h \in Handlers, NEW r, r = handler[h].of, handler[h].at \in {"send1", "send2"},
           UNCHANGED log, handler'[h].at # "free" => r \in asked',
           \/ handler'[h] = Free
           \/ /\ handler'[h].of = r /\ handler'[h].entry = handler[h].entry
              /\ \/ handler'[h].at = "send2"
                 \/ handler'[h].at = "resolve" /\ handler[h].entry # 0
                 \/ handler'[h].at = "log" /\ handler'[h].type = "send" /\ r \in Replies /\ handler[h].entry = 0
    PROVE  HandlerIsSound(h)'
<1>1. CASE handler'[h] = Free
  BY <1>1, ItemsAssumption DEF HandlerIsSound, Free
<1>2. CASE /\ handler'[h].of = r /\ handler'[h].entry = handler[h].entry
           /\ \/ handler'[h].at = "send2"
              \/ handler'[h].at = "resolve" /\ handler[h].entry # 0
              \/ handler'[h].at = "log" /\ handler'[h].type = "send" /\ r \in Replies /\ handler[h].entry = 0
  <2>1. /\ r \in (Replies \cup Notices) /\ r \notin Events
        /\ r \in Notices => handler[h].entry = 0
        /\ handler[h].entry # 0 =>
             handler[h].entry \in DOMAIN log /\ log[handler[h].entry].of = r /\ log[handler[h].entry].type # "push"
    BY SendFacts
  <2>2. handler'[h].at \in SendSteps \cup {"send2"} /\ handler'[h].at \notin {"free", "save"}
    BY <1>2 DEF SendSteps
  <2>3. "send2" \in SendSteps
    BY DEF SendSteps
  <2>4. r \in Notices => handler'[h].at = "send2"
    BY <1>2, <2>1, ItemsAssumption
  <2>5. r \in Items \cap asked'
    BY <2>1, <2>2 DEF Items
  <2>6. QED
    BY <1>2, <2>1, <2>2, <2>3, <2>4, <2>5 DEF HandlerIsSound
<1>3. QED
  BY <1>1, <1>2

LEMMA SendStep ==
    ASSUME MailInv, NEW h \in Handlers, NEW part \in {1, 2}, Send(h, part)
    PROVE  MailInv'
<1>0. PICK r : r = handler[h].of
  OBVIOUS
<1>1. /\ handler[h].at = <<"send1", "send2">>[part]
      /\ UNCHANGED <<mapping, log, event, contact, shown, created, astray>>
      /\ MailTypes /\ handler[h] \in HandlerRecord
  BY DEF Send, MailInv, MailTypes
<1>2. /\ handler[h].at \in {"send1", "send2"} /\ handler[h].at # "save" /\ (part = 1 => handler[h].at = "send1")
      /\ (part = 2 => handler[h].at = "send2")
  <2>1. CASE part = 1
    BY <1>1, <2>1
  <2>2. CASE part = 2
    BY <1>1, <2>2
  <2>3. QED
    BY <2>1, <2>2
<1>3. /\ r \in (Replies \cup Notices) \cap asked /\ r \notin Events /\ r # NoOne
      /\ part = 1 => r \in Replies
      /\ r \in Notices => handler[h].entry = 0 /\ \A g \in Handlers : handler[g].of = r => g = h
      /\ sent[<<r, 2>>] \in Nat /\ (r \notin excused => sent[<<r, 2>>] = 0)
  BY <1>0, <1>2, SendFacts
<1>4. ASSUME \/ asked' = asked \/ (r \in Notices /\ asked' = asked \ {r} /\ handler'[h] = Free),
             excused \subseteq excused', r \in asked' \/ r \in excused' \/ sent'[<<r, 2>>] = 0,
             handler' \in [Handlers -> HandlerRecord], \A g \in Handlers : g # h => handler'[g] = handler[g],
             \/ handler'[h] = Free
             \/ /\ handler'[h].of = r /\ handler'[h].entry = handler[h].entry
                /\ \/ handler'[h].at = "send2"
                   \/ handler'[h].at = "resolve" /\ handler[h].entry # 0
                   \/ handler'[h].at = "log" /\ handler'[h].type = "send" /\ r \in Replies /\ handler[h].entry = 0,
             r \notin excused' => \/ sent'[<<r, 2>>] = 0
                                  \/ /\ sent'[<<r, 2>>] = 1
                                     /\ \/ handler[h].entry = 0 /\ handler'[h] = Free
                                        \/ handler'[h].at = "resolve" /\ handler[h].entry # 0,
             sent' \in [Parts -> Nat], \A s \in Replies \cup Notices : s # r => sent'[<<s, 2>>] = sent[<<s, 2>>]
      PROVE  MailInv'
  <2>1. InOnePlace(r)'
    BY <1>0, <1>1, <1>2, <1>4, PlaceAfterSend
  <2>2. HandlerIsSound(h)'
    <3>1. Free.at = "free"
      BY DEF Free
    <3>2. handler'[h].at # "free" => r \in asked'
      BY <1>3, <1>4, <3>1
    <3>3. QED
      BY <1>0, <1>1, <1>2, <1>4, <3>2, SenderStaysSound
  <2>3. handler[h].of \in {r, NoOne} /\ handler'[h].of \in {r, NoOne}
    BY <1>0, <1>4 DEF Free
  <2>4. RowsStay /\ log' \in Seq(RowRecord)
    BY <1>1, <1>3, <1>4, SameRowsStay
  <2>5. /\ asked' \ asked \subseteq {r} /\ asked \ asked' \subseteq {r} \cap Notices
        /\ r \in asked' \/ \A g \in Handlers : g # h => handler[g].of # r
    BY <1>3, <1>4
  <2>6. QED
    BY <1>1, <1>2, <1>3, <1>4, <2>1, <2>2, <2>3, <2>4, <2>5, SendKeeps
<1>5. CASE sent' = [sent EXCEPT ![<<r, part>>] = @ + 1] /\ part = 1 /\ Goto(h, "send2") /\ UNCHANGED <<asked, excused>>
  <2>1. /\ handler' \in [Handlers -> HandlerRecord] /\ \A g \in Handlers : g # h => handler'[g] = handler[g]
        /\ handler'[h].at = "send2" /\ handler'[h].of = handler[h].of /\ handler'[h].entry = handler[h].entry
    BY <1>1, <1>5, GotoTakes DEF SendSteps
  <2>2. /\ sent' \in [Parts -> Nat] /\ sent'[<<r, 2>>] = sent[<<r, 2>>]
        /\ \A s \in Replies \cup Notices : s # r => sent'[<<s, 2>>] = sent[<<s, 2>>]
    <3>1. /\ sent' \in [Parts -> Nat]
          /\ sent'[<<r, 2>>] = IF part = 2 THEN sent[<<r, 2>>] + 1 ELSE sent[<<r, 2>>]
          /\ \A s \in Replies \cup Notices : s # r => sent'[<<s, 2>>] = sent[<<s, 2>>]
      <4>1. r \in Replies \cup Notices /\ (part = 1 => r \in Replies) /\ sent' = [sent EXCEPT ![<<r, part>>] = @ + 1]
        BY <1>3, <1>5
      <4>2. QED
        BY <4>1, PartSent
    <3>2. part # 2
      BY <1>5
    <3>3. QED
      BY <3>1, <3>2
  <2>3. QED
    BY <1>0, <1>3, <1>4, <1>5, <2>1, <2>2
<1>6. CASE sent' = [sent EXCEPT ![<<r, part>>] = @ + 1] /\ part = 2 /\ Finish(h) /\ UNCHANGED <<asked, excused>>
  <2>1. /\ handler' \in [Handlers -> HandlerRecord]
        /\ \A g \in Handlers : g # h => handler'[g] = handler[g]
        /\ \/ handler[h].entry = 0 /\ handler'[h] = Free
           \/ /\ handler[h].entry # 0
              /\ handler'[h].at = "resolve" /\ handler'[h].of = handler[h].of /\ handler'[h].entry = handler[h].entry
    BY <1>1, <1>6, FinishTakes
  <2>2. /\ sent' \in [Parts -> Nat] /\ sent'[<<r, 2>>] = sent[<<r, 2>>] + 1
        /\ \A s \in Replies \cup Notices : s # r => sent'[<<s, 2>>] = sent[<<s, 2>>]
    BY <1>3, <1>6, PartSent
  <2>3. r \notin excused' => sent'[<<r, 2>>] = 1
    BY <1>3, <1>6, <2>2
  <2>4. QED
    BY <1>0, <1>3, <1>4, <1>6, <2>1, <2>2, <2>3
<1>7. ASSUME NotSent(h)
      PROVE  /\ \/ asked' = asked \/ (r \in Notices /\ asked' = asked \ {r} /\ handler'[h] = Free)
             /\ handler' \in [Handlers -> HandlerRecord] /\ \A g \in Handlers : g # h => handler'[g] = handler[g]
             /\ \/ handler'[h] = Free
                \/ /\ handler'[h].of = r /\ handler'[h].entry = handler[h].entry
                   /\ handler'[h].at = "log" /\ handler'[h].type = "send" /\ r \in Replies /\ handler[h].entry = 0
  <2>1. CASE Leave(h) /\ (asked' = asked \/ (r \in Notices /\ asked' = asked \ {r}))
    BY <1>1, <2>1, LeaveTakes
  <2>2. CASE /\ r \in Replies /\ handler[h].entry = 0 /\ UNCHANGED asked
             /\ Set(h, [handler[h] EXCEPT !.at = "log", !.type = "send"])
    <3> DEFINE m == [handler[h] EXCEPT !.at = "log", !.type = "send"]
    <3>1. m \in HandlerRecord /\ m.at = "log" /\ m.type = "send" /\ m.of = r /\ m.entry = handler[h].entry
      BY <1>0, <1>1 DEF HandlerRecord, SendSteps
    <3>2. Set(h, m)
      BY <2>2
    <3> HIDE DEF m
    <3>3. /\ handler' \in [Handlers -> HandlerRecord] /\ handler'[h] = m
          /\ \A g \in Handlers : g # h => handler'[g] = handler[g]
      BY <1>1, <3>1, <3>2, SetTakes
    <3>4. QED
      BY <2>2, <3>1, <3>3
  <2>3. QED
    BY <1>0, <1>3, <1>7, <2>1, <2>2 DEF NotSent
<1>8. CASE NotSent(h) /\ UNCHANGED <<sent, excused>>
  <2>1. sent' \in [Parts -> Nat] /\ (r \in asked' \/ r \in excused' \/ sent'[<<r, 2>>] = 0)
    BY <1>1, <1>3, <1>8 DEF MailTypes
  <2>2. QED
    BY <1>3, <1>4, <1>7, <1>8, <2>1
<1>9. CASE NotSent(h) /\ sent' = [sent EXCEPT ![<<r, part>>] = @ + 1] /\ excused' = excused \cup {r}
  <2>1. /\ sent' \in [Parts -> Nat]
        /\ \A s \in Replies \cup Notices : s # r => sent'[<<s, 2>>] = sent[<<s, 2>>]
    BY <1>3, <1>9, PartSent
  <2>2. QED
    BY <1>4, <1>7, <1>9, <2>1
<1>10. QED
  <2>1. \/ /\ sent' = [sent EXCEPT ![<<r, part>>] = @ + 1]
           /\ IF part = 1 THEN Goto(h, "send2") ELSE Finish(h)
           /\ UNCHANGED <<asked, excused>>
        \/ NotSent(h) /\ UNCHANGED <<sent, excused>>
        \/ NotSent(h) /\ sent' = [sent EXCEPT ![<<r, part>>] = @ + 1] /\ excused' = excused \cup {r}
    BY <1>0 DEF Send
  <2>2. QED
    BY <1>5, <1>6, <1>8, <1>9, <2>1

-----------------------------------------------------------------------------
\* Send again

LEMMA RetryStep ==
    ASSUME MailInv, NEW h \in Handlers, NEW i \in DOMAIN log, Retry(h, i)
    PROVE  MailInv'
<1>0. PICK r : r = log[i].of
  OBVIOUS
<1>1. /\ handler[h].at = "free" /\ ~log[i].resolved
      /\ UNCHANGED <<mapping, log, asked, event, contact, shown, sent, created, astray>>
      /\ excused' = IF \E g \in Handlers : handler[g].entry = i THEN excused \cup {r} ELSE excused
      /\ excused \subseteq excused'
      /\ MailTypes /\ log[i] \in RowRecord /\ i \in Nat /\ i # 0
  BY <1>0, RowOf DEF Retry, MailInv, MailTypes
<1>2. RowIsSound(i)
  BY DEF MailInv, MailIsWell, MailIsSound
<1>3. r \in (Events \cup Replies) \cap asked /\ r \in Items /\ log[i].type \in {"push", "event", "send"}
  BY <1>0, <1>1, <1>2 DEF RowIsSound, Items, RowRecord
<1>4. PICK at \in {"push", "lookup", "send1"} :
        /\ log[i].type = "push" => at = "push"
        /\ log[i].type = "event" => at = "lookup"
        /\ log[i].type = "send" => at = "send1"
        /\ Set(h, [Free EXCEPT !.of = r, !.who = log[i].who, !.contact = log[i].contact, !.entry = i, !.at = at])
  BY <1>0, <1>3 DEF Retry
<1> DEFINE m == [Free EXCEPT !.of = r, !.who = log[i].who, !.contact = log[i].contact, !.entry = i, !.at = at]
<1>5. /\ m \in HandlerRecord /\ m.at = at /\ m.of = r /\ m.who = log[i].who /\ m.entry = i /\ m.linking = FALSE
  BY <1>1, <1>3 DEF Free, HandlerRecord, RowRecord, EventSteps, SendSteps
<1>6. Set(h, m)
  BY <1>4
<1> HIDE DEF m
<1>7. /\ handler' \in [Handlers -> HandlerRecord] /\ handler'[h] = m
      /\ \A g \in Handlers : g # h => handler'[g] = handler[g]
  BY <1>1, <1>5, <1>6, SetTakes
<1>8. handler[h] = Free /\ handler[h].of \notin Items
  BY <1>1, FreeHasNothing
<1>9. Free.of = NoOne /\ NoOne \notin Items
  BY ItemsAssumption DEF Free, Items
<1>10. HandlerIsSound(h)'
  <2>1. CASE r \in Events
    <3>1. log[i].type # "send" /\ log[i].who \in Customers /\ event[r].kind \in Kinds
      BY <1>0, <1>2, <2>1, ItemsAssumption DEF RowIsSound
    <3>2. at \in {"push", "lookup"} /\ at \in EventSteps
      BY <1>3, <1>4, <3>1 DEF EventSteps
    <3>3. r \notin Replies /\ r \notin Notices
      BY <2>1, ItemsAssumption
    <3>4. log[i].type = "push" => at = "push"
      BY <1>4
    <3>5. QED
      BY <1>0, <1>1, <1>3, <1>5, <1>7, <2>1, <3>1, <3>2, <3>3, <3>4 DEF HandlerIsSound
  <2>2. CASE r \in Replies
    <3>1. log[i].type = "send" /\ r \notin Events /\ r \notin Notices
      BY <1>0, <1>2, <2>2, ItemsAssumption DEF RowIsSound
    <3>2. at = "send1" /\ at \in SendSteps
      BY <1>4, <3>1 DEF SendSteps
    <3>3. QED
      BY <1>0, <1>1, <1>3, <1>5, <1>7, <2>2, <3>1, <3>2 DEF HandlerIsSound
  <2>3. QED
    BY <1>3, <2>1, <2>2
<1>11. CASE r \in Events
  <2>1. \A g \in Handlers : HandlerIsSound(g)'
    <3>1. RowsStay
      <4>1. \A x : PushDone(x) => PushDone(x)'
        BY <1>1 DEF PushDone
      <4>2. QED
        BY <1>1, <4>1 DEF RowsStay
    <3>2. ASSUME NEW g \in Handlers, g # h PROVE HandlerIsSound(g)'
      BY <1>1, <1>7, <3>1, <3>2, HandlersStaySound
    <3>3. QED
      BY <1>10, <3>2
  <2>2. \A j \in DOMAIN log' : RowIsSound(j)'
    <3>1. \A x : PushDone(x) => PushDone(x)'
      BY <1>1 DEF PushDone
    <3>2. QED
      BY <1>1, <3>1 DEF MailInv, MailIsWell, MailIsSound, RowIsSound
  <2>3. MessagesAreKept'
    <3>1. handler[h].of \notin Events
      BY <1>8 DEF Items
    <3>2. QED
      BY <1>1, <1>7, <3>1, MessagesStay
  <2>4. ASSUME NEW s \in Replies \cup Notices PROVE InOnePlace(s)'
    <3>1. s # r /\ s \in Items /\ InOnePlace(s)
      BY <1>11, ItemsAssumption DEF Items, MailInv, MailIsWell, SendsAreSingle
    <3>2. \A g \in Handlers : handler[g].of = s \/ handler'[g].of = s => handler'[g] = handler[g]
      BY <1>5, <1>7, <1>8, <3>1
    <3>3. QED
      BY <1>1, <3>1, <3>2, StillSingle
  <2>5. MailIsWell'
    BY <2>1, <2>2, <2>3, <2>4 DEF MailIsWell, MailIsSound, SendsAreSingle
  <2>6. contact' \in Seq(ContactRecord) /\ handler[h].at # "save"
    BY <1>1 DEF MailTypes
  <2>7. QED
    BY <1>1, <1>7, <2>5, <2>6, MailInvFrom
<1>12. CASE r \in Replies
  <2>1. InOnePlace(r)
    BY <1>12 DEF MailInv, MailIsWell, SendsAreSingle
  <2>2. \A j \in DOMAIN log : log[j].of = r => j = i
    BY <1>0, <2>1 DEF InOnePlace
  <2>3. \A g \in Handlers : handler[g].of = r => handler[g].entry = i
    <3>1. ASSUME NEW g \in Handlers, handler[g].of = r PROVE handler[g].entry = i
      <4>1. HandlerIsSound(g) /\ handler[g].entry # 0
        BY <1>0, <2>1, <3>1 DEF InOnePlace, MailInv, MailIsWell, MailIsSound
      <4>2. QED
        BY <2>2, <3>1, <4>1 DEF HandlerIsSound
    <3>2. QED
      BY <3>1
  <2>4. \A g \in Handlers : handler'[g].of = r => handler'[g].entry = i
    BY <1>5, <1>7, <2>3
  <2>5. r \notin excused' => /\ r \notin excused /\ \A g \in Handlers : handler[g].entry # i
    BY <1>1
  <2>6. r \notin excused' => \A g \in Handlers : handler'[g].of = r => g = h
    BY <1>7, <2>3, <2>5
  <2>7. r \notin excused' => sent[<<r, 2>>] <= 1 /\ sent[<<r, 2>>] # 1
    BY <1>0, <1>1, <2>1, <2>5 DEF InOnePlace
  <2>8. InOnePlace(r)'
    BY <1>0, <1>1, <1>3, <2>2, <2>4, <2>6, <2>7 DEF InOnePlace
  <2>9. RowsStay /\ log' \in Seq(RowRecord)
    BY <1>1, <1>12, SameRowsStay
  <2>10. sent' \in [Parts -> Nat] /\ handler[h].at # "save"
    BY <1>1 DEF MailTypes
  <2>11. QED
    BY <1>1, <1>3, <1>5, <1>7, <1>8, <1>9, <1>10, <1>12, <2>8, <2>9, <2>10, SendKeeps
<1>13. QED
  BY <1>3, <1>11, <1>12

\* What is known of a retry that has done its work.
LEMMA ResolveFacts ==
    ASSUME MailInv, NEW h \in Handlers, handler[h].at = "resolve", NEW i, i = handler[h].entry,
           NEW r, r = handler[h].of
    PROVE  /\ i \in DOMAIN log /\ log[i].of = r /\ RowIsSound(i) /\ log[i] \in RowRecord
           /\ r \in (Events \cup Replies) \cap asked /\ r # NoOne
           /\ r \in Events => /\ event[r].kind \in Messages => PushDone(r)
                              /\ log[i].type # "send"
                              /\ log[i].type = "push" => r \in shown
                              /\ log[i].type = "event" => PushDone(r)
           /\ r \in Replies => log[i].type = "send"
<1>1. HandlerIsSound(h)
  BY DEF MailInv, MailIsWell, MailIsSound
<1>2. i # 0 /\ i \in DOMAIN log /\ log[i].of = r
  BY <1>1 DEF HandlerIsSound
<1>3. RowIsSound(i) /\ log[i] \in RowRecord
  BY <1>2, RowOf DEF MailInv, MailTypes, MailIsWell, MailIsSound
<1>4. r \in (Events \cup Replies) \cap asked /\ r # NoOne
  BY <1>2, <1>3, ItemsAssumption DEF RowIsSound
<1>5. r \in Events /\ event[r].kind \in Messages => PushDone(r)
  BY <1>1 DEF HandlerIsSound
<1>6. log[i].type = "push" => r \in shown
  BY <1>1, <1>2 DEF HandlerIsSound
<1>7. /\ log[i].type = "event" => event[r].kind \in Messages
      /\ (log[i].type = "send") = (r \in Replies)
  BY <1>2, <1>3 DEF RowIsSound
<1>8. r \in Events => r \notin Replies
  BY ItemsAssumption
<1>9. QED
  BY <1>2, <1>3, <1>4, <1>5, <1>6, <1>7, <1>8

LEMMA ResolveStep ==
    ASSUME MailInv, NEW h \in Handlers, Resolve(h)
    PROVE  MailInv'
<1>0. PICK i, r : i = handler[h].entry /\ r = handler[h].of
  OBVIOUS
<1>1. /\ handler[h].at = "resolve" /\ handler[h].at # "save" /\ Leave(h)
      /\ UNCHANGED <<mapping, asked, event, contact, shown, sent, created, astray>> /\ MailTypes
  BY DEF Resolve, MailInv
<1>2. /\ i \in DOMAIN log /\ log[i].of = r /\ RowIsSound(i) /\ log[i] \in RowRecord
      /\ r \in (Events \cup Replies) \cap asked /\ r # NoOne
  BY <1>0, <1>1, ResolveFacts
<1>3. /\ r \in Events => /\ event[r].kind \in Messages => PushDone(r)
                         /\ log[i].type # "send"
                         /\ log[i].type = "push" => r \in shown
                         /\ log[i].type = "event" => PushDone(r)
      /\ r \in Replies => log[i].type = "send"
  BY <1>0, <1>1, ResolveFacts
<1>4. /\ handler' \in [Handlers -> HandlerRecord] /\ handler'[h] = Free
      /\ \A g \in Handlers : g # h => handler'[g] = handler[g]
  BY <1>1, LeaveTakes
<1>5. /\ excused \subseteq excused' /\ log' \in Seq(RowRecord) /\ DOMAIN log' = DOMAIN log
      /\ log'[i].of = log[i].of /\ log'[i].type = log[i].type /\ log'[i].who = log[i].who
      /\ \A j \in DOMAIN log : j # i => log'[j] = log[j]
      /\ log'[i].resolved \/ (r \in excused' /\ UNCHANGED log)
  <2>1. CASE log' = [log EXCEPT ![i].resolved = TRUE] /\ UNCHANGED excused
    BY <1>1, <1>2, <2>1, Resolved1 DEF MailTypes
  <2>2. CASE excused' = excused \cup {log[i].of} /\ UNCHANGED log
    BY <1>1, <1>2, <2>2 DEF MailTypes
  <2>3. QED
    BY <1>0, <2>1, <2>2 DEF Resolve
<1>6. \A e : PushDone(e) => PushDone(e)'
  <2> SUFFICES ASSUME NEW e, PushDone(e) PROVE PushDone(e)'
    OBVIOUS
  <2>1. CASE e \in shown \cup astray
    BY <1>1, <2>1 DEF PushDone
  <2>2. CASE \E j \in DOMAIN log : log[j].of = e /\ log[j].type = "push" /\ ~log[j].resolved
    <3>1. PICK j \in DOMAIN log : log[j].of = e /\ log[j].type = "push" /\ ~log[j].resolved
      BY <2>2
    <3>2. CASE j = i
      BY <1>1, <1>2, <1>3, <3>1, <3>2 DEF PushDone
    <3>3. CASE j # i
      BY <1>5, <3>1, <3>3 DEF PushDone
    <3>4. QED
      BY <3>2, <3>3
  <2>3. QED
    BY <2>1, <2>2 DEF PushDone
<1>7. RowsStay
  <2>1. ASSUME NEW j \in DOMAIN log
        PROVE  /\ j \in DOMAIN log' /\ log'[j].of = log[j].of /\ log'[j].type = log[j].type /\ log'[j].who = log[j].who
               /\ log'[j].resolved => \/ log[j].resolved
                                      \/ /\ log[j].type = "push" => log[j].of \in shown'
                                         /\ log[j].type = "event" => PushDone(log[j].of)
    <3>1. CASE j = i
      BY <1>1, <1>2, <1>3, <1>5, <3>1
    <3>2. CASE j # i
      BY <1>5, <3>2
    <3>3. QED
      BY <3>1, <3>2
  <2>2. QED
    BY <1>1, <1>6, <2>1 DEF RowsStay
<1>8. HandlerIsSound(h)'
  BY <1>4, ItemsAssumption DEF HandlerIsSound, Free
<1>9. Free.of = NoOne /\ \A s \in Items : s # NoOne
  BY ItemsAssumption DEF Free, Items
<1>10. CASE r \in Events
  <2>1. \A g \in Handlers : HandlerIsSound(g)'
    BY <1>1, <1>4, <1>7, <1>8, HandlersStaySound
  <2>2. \A j \in DOMAIN log' : RowIsSound(j)'
    BY <1>5, <1>7, RowsStaySound
  <2>3. MessagesAreKept'
    <3> SUFFICES ASSUME NEW e \in asked' \cap Events, event'[e].kind \in Messages
                 PROVE  \/ e \in shown' \cup astray'
                        \/ \E g \in Handlers : handler'[g].of = e
                        \/ \E j \in DOMAIN log' : log'[j].of = e /\ ~log'[j].resolved
      BY DEF MessagesAreKept
    <3>1. CASE e = r
      <4>1. PushDone(e)'
        BY <1>1, <1>3, <1>6, <1>10, <3>1
      <4>2. QED
        BY <4>1 DEF PushDone
    <3>2. CASE e # r
      <4>1. \/ e \in shown \cup astray
            \/ \E g \in Handlers : handler[g].of = e
            \/ \E j \in DOMAIN log : log[j].of = e /\ ~log[j].resolved
        BY <1>1 DEF MailInv, MailIsWell, MessagesAreKept
      <4>2. \A g \in Handlers : handler[g].of = e => handler'[g].of = e
        BY <1>0, <1>4, <3>2
      <4>3. \A j \in DOMAIN log : log[j].of = e => j # i /\ log'[j] = log[j]
        BY <1>2, <1>5, <3>2
      <4>4. QED
        BY <1>1, <1>5, <4>1, <4>2, <4>3
    <3>3. QED
      BY <3>1, <3>2
  <2>4. ASSUME NEW s \in Replies \cup Notices PROVE InOnePlace(s)'
    <3>1. s # r /\ s # NoOne /\ InOnePlace(s)
      BY <1>10, ItemsAssumption DEF MailInv, MailIsWell, SendsAreSingle
    <3>2. \A g \in Handlers : handler[g].of = s \/ handler'[g].of = s => handler'[g] = handler[g]
      BY <1>0, <1>4, <1>9, <3>1
    <3>3. \A j \in DOMAIN log' : log'[j].of = s => j \in DOMAIN log /\ log'[j] = log[j]
      BY <1>2, <1>5, <3>1
    <3>4. QED
      BY <1>1, <1>5, <3>1, <3>2, <3>3, StillSingle
  <2>5. MailIsWell'
    BY <2>1, <2>2, <2>3, <2>4 DEF MailIsWell, MailIsSound, SendsAreSingle
  <2>6. MailTypes'
    BY <1>1, <1>4, <1>5 DEF MailTypes
  <2>7. ContactIsHeld'
    BY <1>1, <1>4, <1>5, ContactStaysBut DEF MailInv
  <2>8. QED
    BY <2>5, <2>6, <2>7 DEF MailInv
<1>11. CASE r \in Replies
  <2>1. InOnePlace(r)
    BY <1>11 DEF MailInv, MailIsWell, SendsAreSingle
  <2>2. \A g \in Handlers : handler'[g].of = r => g # h /\ handler'[g] = handler[g]
    BY <1>2, <1>4, <1>9
  <2>3. r \notin excused' => \A g \in Handlers : handler'[g].of # r
    BY <1>0, <1>5, <2>1, <2>2 DEF InOnePlace
  <2>4. \A j \in DOMAIN log' : log'[j].of = r => j = i
    BY <1>2, <1>5, <2>1 DEF InOnePlace
  <2>5. r \notin excused' => log'[i].resolved /\ sent'[<<r, 2>>] <= 1
    BY <1>1, <1>5, <2>1 DEF InOnePlace
  <2>6. \A g, k \in Handlers :
          handler'[g].of = r /\ handler'[k].of = r /\ handler'[g].entry = 0 /\ handler'[k].entry = 0 => g = k
    BY <2>1, <2>2 DEF InOnePlace
  <2>7. \A g \in Handlers : handler'[g].of = r => handler'[g].entry # 0
    BY <1>2, <2>1, <2>2 DEF InOnePlace
  <2>8. r \in asked'
    BY <1>1, <1>2
  <2>9. InOnePlace(r)'
    BY <2>3, <2>4, <2>5, <2>6, <2>7, <2>8 DEF InOnePlace, OnTheWay
  <2>10. sent' \in [Parts -> Nat] /\ \A j \in DOMAIN log : log[j].of # r => log'[j] = log[j]
    BY <1>1, <1>2, <1>5 DEF MailTypes
  <2>11. \A j \in DOMAIN log' : j \in DOMAIN log /\ (log'[j].of # r => log'[j] = log[j])
    BY <1>2, <1>5
  <2>12. handler[h].of \in {r, NoOne} /\ handler'[h].of \in {r, NoOne}
    BY <1>0, <1>4, <1>9
  <2>13. /\ asked' \ asked \subseteq {r} /\ asked \ asked' \subseteq {r} \cap Notices
         /\ UNCHANGED <<mapping, event, contact, shown, created>> /\ astray \subseteq astray'
         /\ \A s \in Replies \cup Notices : s # r => sent'[<<s, 2>>] = sent[<<s, 2>>]
    BY <1>1
  <2>14. r \in Replies \cup Notices /\ handler[h].at # "save" /\ log' \in Seq(RowRecord) /\ excused \subseteq excused'
    BY <1>1, <1>5, <1>11
  <2>15. \A j \in DOMAIN log' : j \notin DOMAIN log => RowIsSound(j)'
    BY <2>11
  <2>16. QED
    BY <1>4, <1>7, <1>8, <2>8, <2>9, <2>10, <2>11, <2>12, <2>13, <2>14, <2>15, SendKeeps
<1>12. QED
  BY <1>2, <1>10, <1>11

-----------------------------------------------------------------------------
\* Into the log

\* What is known of a failure to log.
LEMMA LogFacts ==
    ASSUME MailInv, NEW h \in Handlers, handler[h].at = "log", NEW r, r = handler[h].of
    PROVE  /\ r \in (Events \cup Replies) \cap asked /\ HandlerIsSound(h) /\ handler[h] \in HandlerRecord
           /\ handler[h].type \in {"event", "push", "send"} /\ ((handler[h].type = "send") = (r \in Replies))
           /\ r \in Events => handler[h].who \in Customers /\ event[r].kind \in Kinds
           /\ handler[h].type = "event" => event[r].kind \in Messages
           /\ handler[h].entry # 0 => /\ r \in Events /\ handler[h].type = "push"
                                      /\ handler[h].entry \in DOMAIN log /\ log[handler[h].entry].of = r
                                      /\ log[handler[h].entry].type # "push"
<1>1. HandlerIsSound(h) /\ handler[h] \in HandlerRecord
  BY DEF MailInv, MailTypes, MailIsWell, MailIsSound
<1>2. r \in Items \cap asked /\ r \notin Notices
  BY <1>1 DEF HandlerIsSound
<1>3. r \in Events \cup Replies
  BY <1>2 DEF Items
<1>4. r \in Replies => handler[h].type = "send" /\ handler[h].entry = 0
  BY <1>1 DEF HandlerIsSound
<1>5. r \in Events => /\ handler[h].type \in {"push", "event"}
                      /\ handler[h].entry # 0 => handler[h].type = "push"
                      /\ handler[h].type = "event" => event[r].kind \in Messages
                      /\ handler[h].who \in Customers /\ event[r].kind \in Kinds
  BY <1>1 DEF HandlerIsSound
<1>6. handler[h].entry # 0 => /\ handler[h].entry \in DOMAIN log /\ log[handler[h].entry].of = r
                              /\ log[handler[h].entry].type # "push"
  BY <1>1 DEF HandlerIsSound
<1>7. ~(r \in Events /\ r \in Replies)
  BY ItemsAssumption
<1>8. QED
  BY <1>1, <1>2, <1>3, <1>4, <1>5, <1>6, <1>7

\* The failure of r is in a row that can be sent again, or astray.
IsLogged(r, type) ==
    \/ r \in astray
    \/ \E i \in DOMAIN log : log[i].of = r /\ log[i].type = type /\ ~log[i].resolved

LEMMA LogWrites ==
    ASSUME MailInv, NEW h \in Handlers, Log(h), NEW r, r = handler[h].of, NEW type, type = handler[h].type
    PROVE  /\ log' \in Seq(RowRecord) /\ RowsStay /\ astray \subseteq astray' /\ IsLogged(r, type)'
           /\ \A e : PushDone(e) => PushDone(e)'
           /\ \A i \in DOMAIN log : i \in DOMAIN log' /\ log'[i] = log[i]
           /\ \A i \in DOMAIN log' : i \notin DOMAIN log => log'[i].of = r /\ RowIsSound(i)'
           /\ \A i, j \in DOMAIN log' : i \notin DOMAIN log /\ j \notin DOMAIN log => i = j
<1>1. handler[h].at = "log" /\ UNCHANGED <<asked, event, shown>> /\ log \in Seq(RowRecord)
  BY DEF Log, MailInv, MailTypes
<1>2. /\ r \in (Events \cup Replies) \cap asked /\ handler[h] \in HandlerRecord
      /\ type \in {"event", "push", "send"} /\ ((type = "send") = (r \in Replies))
      /\ r \in Events => handler[h].who \in Customers /\ event[r].kind \in Kinds
      /\ type = "event" => event[r].kind \in Messages
  BY <1>1, LogFacts
<1>3. \/ log' = Append(log, [type |-> type, of |-> r, who |-> handler[h].who,
                             contact |-> handler[h].contact, resolved |-> FALSE]) /\ UNCHANGED astray
      \/ astray' = astray \cup {r} /\ UNCHANGED log
  BY DEF Log
<1>4. CASE astray' = astray \cup {r} /\ UNCHANGED log
  <2>1. \A e : PushDone(e) => PushDone(e)'
    BY <1>1, <1>4 DEF PushDone
  <2>2. RowsStay
    BY <1>1, <1>4, <2>1 DEF RowsStay
  <2>3. IsLogged(r, type)'
    BY <1>4 DEF IsLogged
  <2>4. QED
    BY <1>1, <1>4, <2>1, <2>2, <2>3
<1>5. CASE log' = Append(log, [type |-> type, of |-> r, who |-> handler[h].who,
                               contact |-> handler[h].contact, resolved |-> FALSE]) /\ UNCHANGED astray
  <2> DEFINE item == [type |-> type, of |-> r, who |-> handler[h].who,
                     contact |-> handler[h].contact, resolved |-> FALSE]
             n == Len(log) + 1
  <2>1. /\ item \in RowRecord /\ item.type = type /\ item.of = r /\ item.who = handler[h].who /\ item.resolved = FALSE
    BY <1>2 DEF RowRecord, HandlerRecord, Items
  <2>2. log' = Append(log, item)
    BY <1>5
  <2> HIDE DEF item
  <2>3. /\ log' \in Seq(RowRecord) /\ DOMAIN log' = DOMAIN log \cup {n} /\ n \notin DOMAIN log /\ log'[n] = item
        /\ \A i \in DOMAIN log : log'[i] = log[i]
    BY <1>1, <2>1, <2>2, Appended
  <2> HIDE DEF n
  <2>4. \A e : PushDone(e) => PushDone(e)'
    BY <1>1, <1>5, <2>3 DEF PushDone
  <2>5. RowsStay
    BY <1>1, <2>3, <2>4 DEF RowsStay
  <2>6. \A i \in DOMAIN log' : i \notin DOMAIN log => log'[i] = item
    BY <2>3
  <2>7. \A i \in DOMAIN log' : i \notin DOMAIN log => RowIsSound(i)'
    BY <1>1, <1>2, <2>1, <2>6 DEF RowIsSound
  <2>8. IsLogged(r, type)'
    BY <2>1, <2>3 DEF IsLogged
  <2>9. QED
    BY <1>5, <2>1, <2>3, <2>4, <2>5, <2>6, <2>7, <2>8
<1>6. QED
  BY <1>3, <1>4, <1>5

LEMMA LogStep ==
    ASSUME MailInv, NEW h \in Handlers, Log(h)
    PROVE  MailInv'
<1>0. PICK r, type : r = handler[h].of /\ type = handler[h].type
  OBVIOUS
<1>1. /\ handler[h].at = "log" /\ handler[h].at # "save"
      /\ UNCHANGED <<mapping, asked, event, contact, shown, sent, created, excused>>
      /\ IF type = "push" THEN Goto(h, Pushed(h)) ELSE Leave(h)
      /\ MailTypes
  BY <1>0 DEF Log, MailInv
<1>2. /\ r \in (Events \cup Replies) \cap asked /\ HandlerIsSound(h) /\ r # NoOne /\ r \in Items
      /\ type \in {"event", "push", "send"} /\ ((type = "send") = (r \in Replies))
      /\ r \in Events => handler[h].who \in Customers /\ event[r].kind \in Kinds
      /\ handler[h].entry # 0 => /\ r \in Events /\ type = "push"
                                 /\ handler[h].entry \in DOMAIN log /\ log[handler[h].entry].of = r
                                 /\ log[handler[h].entry].type # "push"
  BY <1>0, <1>1, LogFacts, ItemsAssumption DEF Items
<1>3. /\ log' \in Seq(RowRecord) /\ RowsStay /\ astray \subseteq astray' /\ IsLogged(r, type)'
      /\ \A e : PushDone(e) => PushDone(e)'
      /\ \A i \in DOMAIN log : i \in DOMAIN log' /\ log'[i] = log[i]
      /\ \A i \in DOMAIN log' : i \notin DOMAIN log => log'[i].of = r /\ RowIsSound(i)'
      /\ \A i, j \in DOMAIN log' : i \notin DOMAIN log /\ j \notin DOMAIN log => i = j
  BY <1>0, LogWrites
<1>4. Free.of = NoOne /\ \A s \in Items : s # NoOne
  BY ItemsAssumption DEF Free, Items
<1>5. CASE r \in Events
  <2>1. type \in {"push", "event"} /\ r \notin Replies /\ r \notin Notices
    BY <1>2, <1>5, ItemsAssumption
  <2>2. /\ handler' \in [Handlers -> HandlerRecord] /\ \A g \in Handlers : g # h => handler'[g] = handler[g]
        /\ HandlerIsSound(h)' /\ handler'[h].of \in {r, NoOne}
    <3>1. CASE Leave(h)
      <4>1. /\ handler' \in [Handlers -> HandlerRecord] /\ handler'[h] = Free
            /\ \A g \in Handlers : g # h => handler'[g] = handler[g]
        BY <1>1, <3>1, LeaveTakes
      <4>2. HandlerIsSound(h)'
        BY <4>1, ItemsAssumption DEF HandlerIsSound, Free
      <4>3. QED
        BY <1>4, <4>1, <4>2
    <3>2. CASE type = "push" /\ Goto(h, Pushed(h))
      <4>1. PushDone(r)'
        BY <1>3, <3>2 DEF PushDone, IsLogged
      <4>2. ~Repeating(h)
        BY <1>2 DEF Repeating
      <4>3. \/ Pushed(h) = "end"
            \/ Pushed(h) = "linkfind" /\ event[r].kind = "shared"
        BY <1>0, <4>2 DEF Pushed
      <4>4. handler[h].linking => event[r].kind \in {"shared", "info"}
        BY <1>0, <1>2, <1>5 DEF HandlerIsSound
      <4>5. handler[h].entry # 0 => /\ handler[h].entry \in DOMAIN log' /\ log'[handler[h].entry].of = r
                                    /\ log'[handler[h].entry].type # "push"
        BY <1>2, <1>3
      <4>6. CASE Pushed(h) = "end"
        <5>1. Finish(h)
          BY <1>1, <3>2, <4>6, GotoEnd
        <5>2. /\ handler' \in [Handlers -> HandlerRecord]
              /\ \A g \in Handlers : g # h => handler'[g] = handler[g]
              /\ \/ handler[h].entry = 0 /\ handler'[h] = Free
                 \/ /\ handler[h].entry # 0
                    /\ handler'[h].at = "resolve" /\ handler'[h].of = handler[h].of /\ handler'[h].who = handler[h].who
                    /\ handler'[h].entry = handler[h].entry /\ handler'[h].linking = handler[h].linking
          BY <1>1, <5>1, FinishTakes
        <5>3. CASE handler'[h] = Free
          <6>1. HandlerIsSound(h)'
            BY <5>3, ItemsAssumption DEF HandlerIsSound, Free
          <6>2. QED
            BY <1>4, <5>2, <5>3, <6>1
        <5>4. CASE /\ handler[h].entry # 0
                   /\ handler'[h].at = "resolve" /\ handler'[h].of = r /\ handler'[h].who = handler[h].who
                   /\ handler'[h].entry = handler[h].entry /\ handler'[h].linking = handler[h].linking
          <6>1. "resolve" \in EventSteps
            BY DEF EventSteps
          <6>2. HandlerIsSound(h)'
            BY <1>1, <1>2, <1>5, <2>1, <4>1, <4>4, <4>5, <5>4, <6>1 DEF HandlerIsSound
          <6>3. QED
            BY <5>2, <5>4, <6>2
        <5>5. QED
          BY <1>0, <5>2, <5>3, <5>4
      <4>7. CASE Pushed(h) = "linkfind" /\ event[r].kind = "shared"
        <5>1. "linkfind" \in EventSteps
          BY DEF EventSteps
        <5>2. /\ handler' \in [Handlers -> HandlerRecord]
              /\ \A g \in Handlers : g # h => handler'[g] = handler[g]
              /\ handler'[h].at = "linkfind" /\ handler'[h].of = handler[h].of /\ handler'[h].who = handler[h].who
              /\ handler'[h].entry = handler[h].entry
          BY <1>1, <3>2, <4>7, <5>1, GotoTakes
        <5>3. HandlerIsSound(h)'
          BY <1>0, <1>1, <1>2, <1>5, <2>1, <4>1, <4>5, <4>7, <5>1, <5>2 DEF HandlerIsSound
        <5>4. QED
          BY <1>0, <5>2, <5>3
      <4>8. QED
        BY <4>3, <4>6, <4>7
    <3>3. QED
      BY <1>1, <3>1, <3>2
  <2>3. MailIsSound'
    <3>1. \A g \in Handlers : HandlerIsSound(g)'
      BY <1>1, <1>3, <2>2, HandlersStaySound
    <3>2. \A i \in DOMAIN log' : RowIsSound(i)'
      BY <1>3, RowsStaySound
    <3>3. QED
      BY <3>1, <3>2 DEF MailIsSound
  <2>4. MessagesAreKept'
    <3> SUFFICES ASSUME NEW e \in asked' \cap Events, event'[e].kind \in Messages
                 PROVE  \/ e \in shown' \cup astray'
                        \/ \E g \in Handlers : handler'[g].of = e
                        \/ \E i \in DOMAIN log' : log'[i].of = e /\ ~log'[i].resolved
      BY DEF MessagesAreKept
    <3>1. CASE e = r
      BY <1>3, <3>1 DEF IsLogged
    <3>2. CASE e # r
      <4>1. \/ e \in shown \cup astray
            \/ \E g \in Handlers : handler[g].of = e
            \/ \E j \in DOMAIN log : log[j].of = e /\ ~log[j].resolved
        BY <1>1 DEF MailInv, MailIsWell, MessagesAreKept
      <4>2. \A g \in Handlers : handler[g].of = e => handler'[g].of = e
        BY <1>0, <2>2, <3>2
      <4>3. QED
        BY <1>1, <1>3, <4>1, <4>2
    <3>3. QED
      BY <3>1, <3>2
  <2>5. ASSUME NEW s \in Replies \cup Notices PROVE InOnePlace(s)'
    <3>1. s # r /\ s # NoOne /\ InOnePlace(s)
      BY <2>1, ItemsAssumption DEF MailInv, MailIsWell, SendsAreSingle
    <3>2. \A g \in Handlers : handler[g].of = s \/ handler'[g].of = s => handler'[g] = handler[g]
      BY <1>0, <2>2, <3>1
    <3>3. \A i \in DOMAIN log' : log'[i].of = s => i \in DOMAIN log /\ log'[i] = log[i]
      BY <1>3, <3>1
    <3>4. QED
      BY <1>1, <3>1, <3>2, <3>3, StillSingle
  <2>6. MailTypes'
    BY <1>1, <1>3, <2>2 DEF MailTypes
  <2>7. ContactIsHeld'
    BY <1>1, <2>2, ContactStaysBut DEF MailInv
  <2>8. QED
    BY <2>3, <2>4, <2>5, <2>6, <2>7 DEF MailInv, MailIsWell, SendsAreSingle
<1>6. CASE r \in Replies
  <2>1. type = "send" /\ handler[h].entry = 0 /\ Leave(h)
    BY <1>1, <1>2, <1>6, ItemsAssumption
  <2>2. /\ handler' \in [Handlers -> HandlerRecord] /\ handler'[h] = Free
        /\ \A g \in Handlers : g # h => handler'[g] = handler[g]
    BY <1>1, <2>1, LeaveTakes
  <2>3. InOnePlace(r)
    BY <1>6 DEF MailInv, MailIsWell, SendsAreSingle
  <2>4. \A i \in DOMAIN log : log[i].of # r
    BY <1>0, <2>1, <2>3 DEF InOnePlace
  <2>5. ASSUME NEW g \in Handlers, handler[g].of = r PROVE g = h
    <3>1. HandlerIsSound(g)
      BY DEF MailInv, MailIsWell, MailIsSound
    <3>2. handler[g].entry = 0
      BY <2>4, <2>5, <3>1 DEF HandlerIsSound
    <3>3. QED
      BY <1>0, <2>1, <2>3, <2>5, <3>2 DEF InOnePlace
  <2>6. \A g \in Handlers : handler'[g].of # r
    BY <1>2, <1>4, <2>2, <2>5
  <2>7. \A i, j \in DOMAIN log' : log'[i].of = r /\ log'[j].of = r => i = j
    <3>1. \A i \in DOMAIN log' : log'[i].of = r => i \notin DOMAIN log
      BY <1>3, <2>4
    <3>2. QED
      BY <1>3, <3>1
  <2>8. r \notin excused => sent[<<r, 2>>] <= 1 /\ sent[<<r, 2>>] # 1
    <3>1. OnTheWay(h, r)
      BY <1>0, <1>1 DEF OnTheWay
    <3>2. QED
      BY <2>3, <3>1 DEF InOnePlace
  <2>9. r \in asked' /\ (r \notin excused' => sent'[<<r, 2>>] <= 1 /\ sent'[<<r, 2>>] # 1)
    BY <1>1, <1>2, <2>8
  <2>10. InOnePlace(r)'
    BY <2>6, <2>7, <2>9 DEF InOnePlace
  <2>11. HandlerIsSound(h)'
    BY <2>2, ItemsAssumption DEF HandlerIsSound, Free
  <2>12. handler[h].of \in {r, NoOne} /\ handler'[h].of \in {r, NoOne}
    BY <1>0, <1>4, <2>2
  <2>13. /\ asked' \ asked \subseteq {r} /\ asked \ asked' \subseteq {r} \cap Notices
         /\ UNCHANGED <<mapping, event, contact, shown, created>> /\ excused \subseteq excused'
         /\ \A s \in Replies \cup Notices : s # r => sent'[<<s, 2>>] = sent[<<s, 2>>]
         /\ sent' \in [Parts -> Nat] /\ r \in Replies \cup Notices
    BY <1>1, <1>6 DEF MailTypes
  <2>14. /\ \A i \in DOMAIN log' : i \notin DOMAIN log => RowIsSound(i)'
         /\ \A i \in DOMAIN log' : log'[i].of # r => i \in DOMAIN log /\ log'[i] = log[i]
         /\ \A i \in DOMAIN log : log[i].of # r => log'[i] = log[i]
    BY <1>3
  <2>15. QED
    BY <1>1, <1>3, <2>2, <2>9, <2>10, <2>11, <2>12, <2>13, <2>14, SendKeeps
<1>7. QED
  BY <1>2, <1>5, <1>6

-----------------------------------------------------------------------------
\* A crash, the beginning, and what follows

\* What a crash takes is astray, still in its row, or excused.
LEMMA MailCrashStep ==
    ASSUME MailInv, MailCrash
    PROVE  MailInv'
<1>1. /\ handler' = [h \in Handlers |-> Free]
      /\ UNCHANGED <<mapping, log, asked, event, contact, shown, sent, created>> /\ MailTypes /\ ContactIsHeld
      /\ excused \subseteq excused' /\ astray \subseteq astray'
      /\ \A h \in Handlers : handler[h].who \in excused' /\ handler[h].of \in excused'
      /\ \A h \in Handlers : handler[h].entry = 0 => handler[h].of \in astray'
  BY DEF MailCrash, MailInv
<1>2. \A h \in Handlers : handler'[h] = Free
  BY <1>1
<1>3. Free.of = NoOne /\ \A s \in Items : s # NoOne
  BY ItemsAssumption DEF Free, Items
<1>4. \A e : PushDone(e) => PushDone(e)'
  BY <1>1 DEF PushDone
<1>5. ASSUME NEW h \in Handlers PROVE HandlerIsSound(h)'
  <2>1. handler'[h] = Free
    BY <1>2
  <2>2. QED
    BY <2>1, ItemsAssumption DEF HandlerIsSound, Free
<1>6. \A i \in DOMAIN log' : RowIsSound(i)'
  <2>1. RowsStay
    BY <1>1, <1>4 DEF RowsStay
  <2>2. QED
    BY <1>1, <2>1, RowsStaySound
<1>7. MessagesAreKept'
  <2> SUFFICES ASSUME NEW e \in asked' \cap Events, event'[e].kind \in Messages
               PROVE  \/ e \in shown' \cup astray'
                      \/ \E i \in DOMAIN log' : log'[i].of = e /\ ~log'[i].resolved
    BY DEF MessagesAreKept
  <2>1. \/ e \in shown \cup astray
        \/ \E g \in Handlers : handler[g].of = e
        \/ \E i \in DOMAIN log : log[i].of = e /\ ~log[i].resolved
    BY <1>1 DEF MailInv, MailIsWell, MessagesAreKept
  <2>2. ASSUME NEW g \in Handlers, handler[g].of = e
        PROVE  \/ e \in shown' \cup astray'
               \/ \E i \in DOMAIN log' : log'[i].of = e /\ ~log'[i].resolved
    <3>1. HandlerIsSound(g)
      BY DEF MailInv, MailIsWell, MailIsSound
    <3>2. handler[g].entry # 0 => handler[g].entry \in DOMAIN log /\ log[handler[g].entry].of = e
      BY <2>2, <3>1 DEF HandlerIsSound
    <3>3. CASE handler[g].entry = 0
      BY <1>1, <2>2, <3>3
    <3>4. ASSUME NEW i \in DOMAIN log, log[i].of = e
          PROVE  \/ e \in shown \cup astray
                 \/ \E j \in DOMAIN log : log[j].of = e /\ ~log[j].resolved
      <4>1. RowIsSound(i) /\ log[i] \in RowRecord /\ e \notin Replies
        BY <1>1, RowOf, ItemsAssumption DEF MailTypes, MailInv, MailIsWell, MailIsSound
      <4>2. log[i].type \in {"push", "event"}
        BY <3>4, <4>1 DEF RowIsSound, RowRecord
      <4>3. QED
        BY <3>4, <4>1, <4>2 DEF RowIsSound, PushDone
    <3>5. QED
      BY <1>1, <3>2, <3>3, <3>4
  <2>3. QED
    BY <1>1, <2>1, <2>2
<1>8. ASSUME NEW r \in Replies \cup Notices PROVE InOnePlace(r)'
  <2>1. InOnePlace(r) /\ r # NoOne
    BY <1>3 DEF MailInv, MailIsWell, SendsAreSingle, Items
  <2>2. \A h \in Handlers : handler'[h].of # r
    BY <1>2, <1>3, <2>1
  <2>3. r \notin excused' => r \notin excused /\ \A h \in Handlers : handler[h].of # r
    BY <1>1
  <2>4. \A i, j \in DOMAIN log' : log'[i].of = r /\ log'[j].of = r => i = j
    BY <1>1, <2>1 DEF InOnePlace
  <2>5. r \notin asked' => sent'[<<r, 2>>] = 0 \/ r \in excused'
    BY <1>1, <2>1 DEF InOnePlace
  <2>6. r \notin excused' => sent'[<<r, 2>>] <= 1
    BY <1>1, <2>1, <2>3 DEF InOnePlace
  <2>7. ASSUME r \notin excused', sent'[<<r, 2>>] = 1, NEW i \in DOMAIN log', log'[i].of = r
        PROVE  log'[i].resolved
    <3>1. SUFFICES ASSUME ~log[i].resolved PROVE FALSE
      BY <1>1
    <3>2. PICK h \in Handlers : handler[h].entry = i /\ handler[h].at = "resolve"
      BY <1>1, <2>1, <2>3, <2>7, <3>1 DEF InOnePlace
    <3>3. HandlerIsSound(h)
      BY DEF MailInv, MailIsWell, MailIsSound
    <3>4. handler[h].of = r
      BY <1>1, <2>7, <3>2, <3>3 DEF HandlerIsSound
    <3>5. QED
      BY <2>3, <2>7, <3>4
  <2>8. QED
    BY <2>2, <2>4, <2>5, <2>6, <2>7 DEF InOnePlace, OnTheWay
<1>9. MailTypes'
  BY <1>1, FreeIsTyped DEF MailTypes
<1>10. ContactIsHeld'
  <2>1. ASSUME NEW u \in Customers
        PROVE  created'[u] = 0 \/ u \in excused' \/ (created'[u] = 1 /\ mapping'[u] # 0)
    BY <1>1 DEF ContactIsHeld
  <2>2. QED
    BY <2>1 DEF ContactIsHeld
<1>11. QED
  BY <1>5, <1>6, <1>7, <1>8, <1>9, <1>10 DEF MailInv, MailIsWell, MailIsSound, SendsAreSingle

LEMMA MailInitInv ==
    ASSUME MailInit
    PROVE  MailInv
<1>1. /\ mapping = [u \in Customers |-> 0] /\ log = <<>> /\ handler = [h \in Handlers |-> Free]
      /\ event = [e \in Events |-> [kind |-> NoOne, from |-> NoOne]]
      /\ contact \in {<<>>} \cup {<<[phone |-> u, uid |-> NoOne]>> : u \in Customers}
      /\ sent = [p \in Parts |-> 0] /\ created = [u \in Customers |-> 0]
  BY DEF MailInit
<1>2. \A h \in Handlers : handler[h] = Free
  BY <1>1
<1>3. Free.of = NoOne /\ \A s \in Items : s # NoOne
  BY ItemsAssumption DEF Free, Items
<1>4. DOMAIN log = {}
  BY <1>1
<1>5. MailTypes
  <2>1. contact \in Seq(ContactRecord)
    <3>1. \A u \in Customers : [phone |-> u, uid |-> NoOne] \in ContactRecord
      BY DEF ContactRecord
    <3>2. CASE contact = <<>>
      BY <3>2
    <3>3. ASSUME NEW c \in ContactRecord, contact = <<c>> PROVE contact \in Seq(ContactRecord)
      BY <3>3
    <3>4. QED
      BY <1>1, <3>1, <3>2, <3>3
  <2>2. log \in Seq(RowRecord)
    BY <1>1
  <2>3. QED
    BY <1>1, <2>1, <2>2, FreeIsTyped DEF MailTypes
<1>6. MailIsSound
  BY <1>2, <1>4, EmptyIsSound DEF MailIsSound
<1>7. MessagesAreKept
  <2>1. \A e \in Events : event[e].kind = NoOne
    BY <1>1
  <2>2. NoOne \notin Messages
    BY ItemsAssumption DEF Kinds
  <2>3. QED
    BY <2>1, <2>2 DEF MessagesAreKept
<1>8. SendsAreSingle
  <2>1. ASSUME NEW r \in Replies \cup Notices PROVE InOnePlace(r)
    <3>1. sent[<<r, 2>>] = 0
      BY <1>1 DEF Parts
    <3>2. \A h \in Handlers : handler[h].of # r
      BY <1>2, <1>3 DEF Items
    <3>3. QED
      BY <1>4, <3>1, <3>2 DEF InOnePlace
  <2>2. QED
    BY <2>1 DEF SendsAreSingle
<1>9. ContactIsHeld
  BY <1>1 DEF ContactIsHeld
<1>10. QED
  BY <1>5, <1>6, <1>7, <1>8, <1>9 DEF MailInv, MailIsWell

LEMMA MailNextInv ==
    ASSUME MailInv, [MailNext]_mailVars
    PROVE  MailInv'
<1>1. CASE UNCHANGED mailVars
  BY <1>1 DEF mailVars, MailInv, MailTypes, MailIsWell, MailIsSound, HandlerIsSound, RowIsSound, PushDone,
     MessagesAreKept, SendsAreSingle, InOnePlace, OnTheWay, ContactIsHeld
<1>2. CASE MailCrash
  BY <1>2, MailCrashStep
<1>3. ASSUME NEW h \in Handlers,
             \/ \E e \in Events : Deliver(h, e)
             \/ \E r \in Replies : Reply(h, r)
             \/ \E n \in Notices : Notice(h, n)
             \/ \E i \in DOMAIN log : Retry(h, i)
             \/ \E part \in {1, 2} : Send(h, part)
             \/ Lookup(h) \/ RefreshProfile(h) \/ FindContact(h) \/ MakeContact(h) \/ SaveMapping(h)
             \/ LinkFind(h) \/ LinkMake(h) \/ Touch(h) \/ Push(h) \/ Log(h) \/ Resolve(h)
      PROVE  MailInv'
  BY <1>3, DeliverStep, ReplyStep, NoticeStep, RetryStep, SendStep, LookupStep, RefreshProfileStep,
     FindContactStep, MakeContactStep, SaveMappingStep, LinkFindStep, LinkMakeStep, TouchStep, PushStep,
     LogStep, ResolveStep
<1>4. QED
  BY <1>1, <1>2, <1>3 DEF MailNext

LEMMA MailInvariant == MailSpec => []MailInv
<1>1. MailInit => MailInv
  BY MailInitInv
<1>2. MailInv /\ [MailNext]_mailVars => MailInv'
  BY MailNextInv
<1>3. QED
  BY <1>1, <1>2, PTL DEF MailSpec

\* A message that reached the server is in its conversation, in the hands of a
\* handler, or in a row of the sync log that somebody can send again, whatever
\* fails in between; only a crash, a failure before the handler's own guard, or a
\* log row that could not be written loses one.
THEOREM MessagesAreNotLost == MailSpec => []MessagesAreKept
<1>1. MailInv => MessagesAreKept
  BY DEF MailInv, MailIsWell
<1>2. QED
  BY <1>1, MailInvariant, PTL

\* The two ways a customer is looked up, with all their interleavings, make one
\* contact, unless two handlers look at the same time, an answer is lost, or the
\* mapping cannot be saved.
THEOREM CustomersGetOneContact == MailSpec => []OneContactPerCustomer
<1>1. MailInv => OneContactPerCustomer
  <2> SUFFICES ASSUME MailInv, NEW u \in Customers PROVE created[u] <= 1 \/ u \in excused
    BY DEF OneContactPerCustomer
  <2>1. created[u] = 0 \/ u \in excused \/ created[u] = 1
    BY DEF MailInv, ContactIsHeld
  <2>2. QED
    BY <2>1
<1>2. QED
  BY <1>1, MailInvariant, PTL

\* The text of a reply and a ZNS notice reach the customer once, through the log
\* and any number of retries, unless an answer was lost, two retries of one row
\* overlapped, or the row could not be marked.
THEOREM RepliesReachOnce == MailSpec => []TextReachesOnce
<1>1. MailInv => TextReachesOnce
  <2> SUFFICES ASSUME MailInv, NEW p \in Parts, p[2] = 2 PROVE sent[p] <= 1 \/ p[1] \in excused
    BY DEF TextReachesOnce
  <2>1. p[1] \in Replies \cup Notices /\ p = <<p[1], 2>>
    BY DEF Parts
  <2>2. InOnePlace(p[1])
    BY <2>1 DEF MailInv, MailIsWell, SendsAreSingle
  <2>3. QED
    BY <2>1, <2>2 DEF InOnePlace
<1>2. QED
  BY <1>1, MailInvariant, PTL
=============================================================================
