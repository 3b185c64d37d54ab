---------------------------- MODULE ReportProofs ----------------------------
(* Proofs about the report service, for every set of requests, people and   *)
(* packs: its types, that a revoked person stays out, that logins make one  *)
(* owner, that the stored HighLevel credential works; and about the         *)
(* bulkhead in front of its tools, for every number of callers and limit.   *)
EXTENDS ReportAccess, ReportBulkhead, FiniteSetTheorems, TLAPS

\* The steps at which a revoked person's request may still be.
LateSteps == {"exchange", "tenant", "insert", "member", "claim", "join", "retry",
              "owner", "principal"}

\* The steps that go on to work with the request's person.
PersonSteps == LateSteps \cup {"commit", "code", "access", "refresh"}

\* The steps at which a request has a credential nobody else knows of.
PrivateSteps == {"tenant", "insert", "member", "commit", "store"}

\* A request and its steps.
RequestKinds == {"none", "callback", "form", "token", "refresh", "call", "approve", "status",
                 "grants", "matrix", "revoke", "invite", "role", "pause", "provision"}
RequestSteps == LateSteps \cup PersonSteps \cup PrivateSteps
                \cup {"new", "family", "pause", "setting", "cache", "permissions", "queue", "send",
                      "rotate", "grant", "cell", "switch", "revoke", "create", "done"}

RequestRecord ==
    [kind : RequestKinds, pc : RequestSteps, user : Users \cup {Nobody},
     from : LoginStates \cup Requests \cup {Nobody}, role : Roles \cup {"none"},
     status : {"none", "pending", "active", "suspended"},
     want : SUBSET (Packs \cup Cells), todo : SUBSET (Packs \cup Cells), token : Nat,
     ok : BOOLEAN, late : BOOLEAN]

TokenRecord ==
    [kind : {"access", "refresh"}, by : Requests \cup {Nobody},
     family : LoginStates \cup Requests \cup {Nobody}, user : Users,
     state : {"live", "used", "revoked"}]

\* What the tables hold, and the gateway's caches.
TablesTyped ==
    /\ customer \in {"absent", "pending", "active", "suspended"}
    /\ rowLock \in Requests \cup {Nobody}
    /\ member \in [Users -> [role : Roles \cup {"none"}, status : {"none", "active", "revoked"}]]
    /\ grants \in [Packs -> BOOLEAN] /\ matrix \in [Cells -> {"unset", "on", "off"}]
    /\ invite \in {"none", "open", "taken", "used"}
    /\ login \in [LoginStates -> {"new", "open", "gone"}]
    /\ codes \subseteq [by : Requests, user : Users]
    /\ tokens \subseteq TokenRecord
    /\ setting \in BOOLEAN /\ pausedCache \in {"old", "paused", "running"} /\ rate \in Nat

CredentialsTyped ==
    /\ issued \in Nat /\ stored \in 0..issued /\ alive \subseteq 1..issued
    /\ \A r \in Requests : req[r].token \in 0..issued

RoleWasChanged == \E r \in Requests : req[r].kind = "role"
ActiveOwners == {u \in Actives : member[u].role = "owner"}

\* Who was revoked before the request came is revoked still, and gets no further.
LateStaysOut(r) ==
    req[r].late =>
        IF At(r, "done") THEN ~req[r].ok
        ELSE req[r].pc \in LateSteps /\ member[req[r].user].status = "revoked"

\* A request that ranks or commits a login holds the customer's row, and makes an
\* owner only where there is none.
LoginIsAlone(r) ==
    /\ req[r].pc \in {"member", "commit"} => rowLock = r
    /\ At(r, "commit") /\ req[r].role = "owner" /\ member[req[r].user] = NotMember =>
          ActiveOwners = {} \/ RoleWasChanged

RequestIsSound(r) ==
    /\ LateStaysOut(r)
    /\ LoginIsAlone(r)
    /\ req[r].pc \in PersonSteps => req[r].user \in Users
    /\ req[r].pc \in {"claim", "join"} => req[r].user = Invitee
    /\ req[r].kind = "role" => At(r, "done")
    /\ req[r].pc \in {"grant", "switch"} => req[r].status # "pending"
    /\ At(r, "switch") /\ req[r].kind # "revoke" => req[r].status # "none"

\* A credential on its way to the table works and is known to its request alone.
CredentialIsPrivate(r) ==
    req[r].pc \in PrivateSteps =>
        /\ req[r].token \in alive /\ req[r].token # stored
        /\ \A s \in Requests \ {r} :
              req[s].pc \in PrivateSteps \cup {"rotate"} => req[s].token # req[r].token

StoredIsGood ==
    stored # 0 /\ ~lost => stored \in alive \/ \E r \in Requests : At(r, "store")

AccessInv ==
    /\ req \in [Requests -> RequestRecord]
    /\ TablesTyped
    /\ CredentialsTyped
    /\ \A r \in Requests : RequestIsSound(r) /\ CredentialIsPrivate(r)
    /\ RoleWasChanged \/ \A u, v \in ActiveOwners : u = v
    /\ StoredIsGood

-----------------------------------------------------------------------------

LEMMA AccessInitInv == AccessInit => AccessInv
<1> SUFFICES ASSUME AccessInit PROVE AccessInv
  OBVIOUS
<1>1. NewRequest \in RequestRecord
  <2>1. "none" \in RequestKinds /\ "new" \in RequestSteps
    BY DEF RequestKinds, RequestSteps
  <2>2. QED
    BY <2>1 DEF NewRequest, RequestRecord
<1>2. req \in [Requests -> RequestRecord] /\ \A r \in Requests : req[r] = NewRequest
  BY <1>1 DEF AccessInit
<1>3. TablesTyped
  <2>1. member \in [Users -> [role : Roles \cup {"none"}, status : {"none", "active", "revoked"}]]
    BY DEF AccessInit, NotMember, Roles
  <2>2. tokens \subseteq TokenRecord
    BY DEF AccessInit, TokenRecord, Users
  <2>3. grants \in [Packs -> BOOLEAN]
    <3>1. CASE grants = [p \in Packs |-> FALSE]
      BY <3>1
    <3>2. CASE \E preset \in Presets : grants = [p \in Packs |-> p \in preset]
      <4>1. PICK preset \in Presets : grants = [p \in Packs |-> p \in preset]
        BY <3>2
      <4>2. \A p \in Packs : (p \in preset) \in BOOLEAN
        OBVIOUS
      <4>3. QED
        BY <4>1, <4>2, Zenon
    <3>3. QED
      BY <3>1, <3>2 DEF AccessInit
  <2>4. QED
    BY <2>1, <2>2, <2>3 DEF AccessInit, TablesTyped
<1>4. CredentialsTyped
  BY <1>2 DEF AccessInit, CredentialsTyped, NewRequest
<1>5. \A r \in Requests : RequestIsSound(r) /\ CredentialIsPrivate(r)
  BY <1>2 DEF RequestIsSound, CredentialIsPrivate, LateStaysOut, LoginIsAlone, PersonSteps,
     LateSteps, PrivateSteps, NewRequest, At
<1>6. \A u, v \in ActiveOwners : u = v
  BY DEF AccessInit, ActiveOwners, Actives, NotMember
<1>7. StoredIsGood
  BY DEF AccessInit, StoredIsGood
<1>8. QED
  BY <1>2, <1>3, <1>4, <1>5, <1>6, <1>7 DEF AccessInv

-----------------------------------------------------------------------------
\* What a step of one request does to the requests.

LEMMA RequestTyped ==
    ASSUME AccessInv, NEW r \in Requests
    PROVE  req[r] \in RequestRecord
  BY DEF AccessInv

LEMMA RequestTakes ==
    ASSUME AccessInv, NEW r \in Requests, NEW q \in RequestRecord,
           req' = [req EXCEPT ![r] = q]
    PROVE  /\ req' \in [Requests -> RequestRecord] /\ req'[r] = q
           /\ \A s \in Requests : s # r => req'[s] = req[s]
  BY DEF AccessInv

\* Only the request moves: the memberships and the credentials are as they were.
LEMMA RequestKeeps ==
    ASSUME AccessInv, NEW r \in Requests, NEW q \in RequestRecord,
           req' = [req EXCEPT ![r] = q], ~At(r, "done"), TablesTyped',
           UNCHANGED <<member, stored, alive, issued>>,
           \/ rowLock' = rowLock
           \/ rowLock' \in {r, Nobody} /\ rowLock \in {r, Nobody},
           lost => lost', At(r, "store") => lost' \/ q.pc = "store",
           q.token \in 0..issued,
           q.late => IF q.pc = "done" THEN ~q.ok
                     ELSE q.pc \in LateSteps /\ member[q.user].status = "revoked",
           q.pc \in {"member", "commit"} => rowLock' = r,
           q.pc = "commit" /\ q.role = "owner" /\ member[q.user] = NotMember => ActiveOwners = {},
           q.pc \in PersonSteps => q.user \in Users,
           q.pc \in {"claim", "join"} => q.user = Invitee,
           q.kind = "role" => q.pc = "done",
           q.pc \in {"grant", "switch"} => q.status # "pending",
           q.pc = "switch" /\ q.kind # "revoke" => q.status # "none",
           q.pc \in PrivateSteps => req[r].pc \in PrivateSteps /\ q.token = req[r].token,
           q.pc = "rotate" => q.token = stored
    PROVE  AccessInv'
<1>1. /\ req' \in [Requests -> RequestRecord] /\ req'[r] = q
      /\ \A s \in Requests : s # r => req'[s] = req[s]
  BY RequestTakes
<1>2. ActiveOwners' = ActiveOwners
  BY DEF ActiveOwners, Actives
<1>3. RoleWasChanged => RoleWasChanged'
  <2>1. req[r].kind # "role"
    BY DEF AccessInv, RequestIsSound
  <2>2. QED
    BY <1>1, <2>1 DEF RoleWasChanged
<1>4. ASSUME NEW s \in Requests
      PROVE  RequestIsSound(s)'
  <2>1. CASE s = r
    BY <1>1, <1>2, <2>1 DEF RequestIsSound, LateStaysOut, LoginIsAlone, At
  <2>2. CASE s # r
    <3>1. RequestIsSound(s) /\ req'[s] = req[s]
      BY <1>1, <2>2 DEF AccessInv
    <3>2. req[s].pc \in {"member", "commit"} => rowLock' = s
      BY <2>2, <3>1, AccessAssumption DEF RequestIsSound, LoginIsAlone
    <3>3. LoginIsAlone(s)'
      BY <1>2, <1>3, <3>1, <3>2 DEF RequestIsSound, LoginIsAlone, At
    <3>4. LateStaysOut(s)'
      BY <3>1 DEF RequestIsSound, LateStaysOut, At
    <3>5. QED
      BY <3>1, <3>3, <3>4 DEF RequestIsSound, At
  <2>3. QED
    BY <2>1, <2>2
<1>5. ASSUME NEW s \in Requests
      PROVE  CredentialIsPrivate(s)'
  <2>1. CredentialIsPrivate(s) /\ CredentialIsPrivate(r)
    BY DEF AccessInv
  <2>2. CASE s = r
    BY <1>1, <2>1, <2>2 DEF CredentialIsPrivate
  <2>3. CASE s # r
    BY <1>1, <2>1, <2>3 DEF CredentialIsPrivate
  <2>4. QED
    BY <2>2, <2>3
<1>6. CredentialsTyped'
  BY <1>1 DEF AccessInv, CredentialsTyped
<1>7. StoredIsGood'
  BY <1>1 DEF AccessInv, StoredIsGood, At
<1>8. QED
  BY <1>1, <1>2, <1>3, <1>4, <1>5, <1>6, <1>7 DEF AccessInv

LEMMA AnsweredKnown ==
    ASSUME AccessInv, NEW r \in Requests, NEW ok \in BOOLEAN
    PROVE  /\ Answered(r, ok) \in RequestRecord
           /\ Answered(r, ok).kind = req[r].kind /\ Answered(r, ok).pc = "done"
           /\ Answered(r, ok).late = req[r].late /\ Answered(r, ok).ok = ok
           /\ Answered(r, ok).token = 0
<1>1. "done" \in RequestSteps
  BY DEF RequestSteps
<1>2. QED
  BY <1>1, RequestTyped DEF Answered, NewRequest, RequestRecord

\* A request is answered; whose person was revoked before does not get what it asks for.
LEMMA AnswerKeeps ==
    ASSUME AccessInv, NEW r \in Requests, NEW ok \in BOOLEAN, Answer(r, ok), ~At(r, "done"),
           ~ok \/ req[r].pc \notin LateSteps, TablesTyped',
           UNCHANGED <<member, stored, alive, issued>>,
           \/ rowLock' = rowLock
           \/ rowLock' \in {r, Nobody} /\ rowLock \in {r, Nobody},
           lost => lost', At(r, "store") => lost'
    PROVE  AccessInv'
<1> DEFINE q == Answered(r, ok)
<1>1. /\ q \in RequestRecord /\ q.kind = req[r].kind /\ q.pc = "done"
      /\ q.late = req[r].late /\ q.ok = ok /\ q.token = 0
  BY AnsweredKnown
<1>2. req' = [req EXCEPT ![r] = q]
  BY DEF Answer
<1>3. q.late => ~q.ok
  BY <1>1 DEF AccessInv, RequestIsSound, LateStaysOut
<1>4. 0 \in 0..issued
  BY DEF AccessInv, CredentialsTyped
<1> HIDE DEF q
<1>5. q.pc \notin PersonSteps \cup PrivateSteps \cup {"store", "rotate", "claim", "join", "member", "commit"}
  BY <1>1 DEF PersonSteps, PrivateSteps, LateSteps
<1>6. q.pc \notin {"grant", "switch"}
  BY <1>1
<1>7. QED
  BY <1>1, <1>2, <1>3, <1>4, <1>5, <1>6, RequestKeeps

LEMMA StepTakes ==
    ASSUME AccessInv, NEW r \in Requests, NEW step \in RequestSteps, Step(r, step)
    PROVE  \E q \in RequestRecord :
              /\ req' = [req EXCEPT ![r] = q] /\ q.pc = step
              /\ q.kind = req[r].kind /\ q.user = req[r].user /\ q.role = req[r].role
              /\ q.token = req[r].token /\ q.late = req[r].late
              /\ q.ok = req[r].ok
<1> DEFINE q == [req[r] EXCEPT !.pc = step]
<1>1. req[r] \in RequestRecord
  BY RequestTyped
<1>2. q \in RequestRecord
  BY <1>1 DEF RequestRecord
<1>3. /\ q.pc = step /\ q.kind = req[r].kind /\ q.user = req[r].user /\ q.role = req[r].role
      /\ q.token = req[r].token /\ q.late = req[r].late /\ q.ok = req[r].ok
  BY <1>1, <1>2 DEF RequestRecord
<1>4. req' = [req EXCEPT ![r] = q]
  BY DEF Step
<1> HIDE DEF q
<1>5. QED
  BY <1>2, <1>3, <1>4

\* A request goes on to its next step.
LEMMA StepKeeps ==
    ASSUME AccessInv, NEW r \in Requests, NEW step \in RequestSteps, Step(r, step),
           ~At(r, "done"), TablesTyped',
           UNCHANGED <<member, stored, alive, issued>>,
           \/ rowLock' = rowLock
           \/ rowLock' \in {r, Nobody} /\ rowLock \in {r, Nobody},
           lost => lost', At(r, "store") => lost' \/ step = "store",
           step \notin {"done", "commit", "rotate", "grant", "switch"}, req[r].kind # "role",
           req[r].pc \in LateSteps =>
              \/ step \in LateSteps
              \/ ~req[r].late
              \/ member[req[r].user].status # "revoked",
           step = "member" => rowLock' = r,
           step \in PersonSteps => req[r].pc \in PersonSteps,
           step \in {"claim", "join"} => req[r].pc \in {"claim", "join"},
           step \in PrivateSteps => req[r].pc \in PrivateSteps
    PROVE  AccessInv'
<1>1. PICK q \in RequestRecord :
              /\ req' = [req EXCEPT ![r] = q] /\ q.pc = step
              /\ q.kind = req[r].kind /\ q.user = req[r].user /\ q.role = req[r].role
              /\ q.token = req[r].token /\ q.late = req[r].late
  BY StepTakes
<1>2. RequestIsSound(r) /\ req[r].token \in 0..issued
  BY DEF AccessInv, CredentialsTyped
<1>3. q.late => q.pc \in LateSteps /\ member[q.user].status = "revoked"
  BY <1>1, <1>2 DEF RequestIsSound, LateStaysOut, At
<1>4. q.pc \in PersonSteps => q.user \in Users
  BY <1>1, <1>2 DEF RequestIsSound
<1>5. q.pc \in {"claim", "join"} => q.user = Invitee
  BY <1>1, <1>2 DEF RequestIsSound
<1>6. QED
  BY <1>1, <1>2, <1>3, <1>4, <1>5, RequestKeeps

LEMMA UnderWay ==
    ASSUME AccessInv, NEW r \in Requests, ~At(r, "done")
    PROVE  /\ req[r].kind # "role"
           /\ req[r].pc \in PersonSteps => req[r].user \in Users
           /\ req[r].late => req[r].pc \in LateSteps /\ member[req[r].user].status = "revoked"
  BY DEF AccessInv, RequestIsSound, LateStaysOut

LEMMA RevokedTyped ==
    ASSUME AccessInv, NEW t \in tokens
    PROVE  Revoked(t) \in TokenRecord
<1>1. t \in TokenRecord
  BY DEF AccessInv, TablesTyped
<1>2. Revoked(t) = [t EXCEPT !.state = IF t.state = "live" THEN "revoked" ELSE t.state]
  BY DEF Revoked
<1> DEFINE state == IF t.state = "live" THEN "revoked" ELSE t.state
<1>3. state \in {"live", "used", "revoked"}
  BY <1>1 DEF TokenRecord
<1> HIDE DEF state
<1>4. [t EXCEPT !.state = state] \in TokenRecord
  BY <1>1, <1>3 DEF TokenRecord
<1>5. QED
  BY <1>2, <1>4 DEF state

\* The customer's row is locked, or made, for a login.
LEMMA LockKeeps ==
    ASSUME AccessInv, NEW r \in Requests, LockTenant(r) \/ InsertTenant(r)
    PROVE  AccessInv'
<1>1. /\ req[r].pc \in {"tenant", "insert"} /\ ~At(r, "done") /\ ~At(r, "store")
      /\ UNCHANGED <<customer, member, packsOf, signIn, gate, credential>>
  BY DEF LockTenant, InsertTenant, At
<1>2. \/ \E ok \in BOOLEAN : ~ok /\ Answer(r, ok) /\ rowLock' = rowLock
      \/ Step(r, "insert") /\ rowLock' = rowLock
      \/ Step(r, "member") /\ rowLock = Nobody /\ rowLock' = r
  BY DEF LockTenant, InsertTenant, RowIsFree
<1>3. TablesTyped'
  BY <1>1, <1>2 DEF AccessInv, TablesTyped, packsOf, signIn, gate
<1>4. /\ {"insert", "member"} \subseteq RequestSteps \cap LateSteps \cap PersonSteps \cap PrivateSteps
      /\ req[r].pc \in LateSteps \cap PersonSteps \cap PrivateSteps
  BY <1>1 DEF RequestSteps, LateSteps, PersonSteps, PrivateSteps
<1>5. UNCHANGED <<member, stored, alive, issued, lost>>
  BY <1>1 DEF credential
<1>6. CASE \E ok \in BOOLEAN : ~ok /\ Answer(r, ok) /\ rowLock' = rowLock
  BY <1>1, <1>3, <1>5, <1>6, AnswerKeeps
<1>7. CASE Step(r, "insert") /\ rowLock' = rowLock
  BY <1>1, <1>3, <1>4, <1>5, <1>7, UnderWay, StepKeeps
<1>8. CASE Step(r, "member") /\ rowLock = Nobody /\ rowLock' = r
  BY <1>1, <1>3, <1>4, <1>5, <1>8, UnderWay, StepKeeps
<1>9. QED
  BY <1>2, <1>6, <1>7, <1>8

\* The access code is claimed, or refused with a login state of its own.
LEMMA InviteFormKeeps ==
    ASSUME AccessInv, NEW r \in Requests, ClaimInvite(r) \/ Renew(r)
    PROVE  AccessInv'
<1>1. /\ req[r].pc \in {"claim", "retry"} /\ ~At(r, "done") /\ ~At(r, "store")
      /\ UNCHANGED <<people, packsOf, codes, tokens, gate, credential>>
  BY DEF ClaimInvite, Renew, At
<1>2. UNCHANGED <<member, rowLock, stored, alive, issued, lost>>
  BY <1>1 DEF people, credential
<1>3. TablesTyped'
  BY <1>1 DEF AccessInv, TablesTyped, ClaimInvite, Renew, people, packsOf, gate
<1>4. CASE Renew(r)
  BY <1>1, <1>2, <1>3, <1>4, AnswerKeeps DEF Renew
<1>5. CASE ClaimInvite(r)
  <2>1. /\ req[r].pc = "claim"
        /\ Step(r, "join") \/ Step(r, "retry")
    BY <1>5 DEF ClaimInvite, At
  <2>2. /\ {"join", "retry"} \subseteq RequestSteps \cap LateSteps \cap PersonSteps
        /\ req[r].pc \in LateSteps \cap PersonSteps
        /\ {"join", "retry"} \cap PrivateSteps = {}
    BY <2>1 DEF RequestSteps, LateSteps, PersonSteps, PrivateSteps
  <2>3. CASE Step(r, "join")
    BY <1>1, <1>2, <1>3, <2>1, <2>2, <2>3, UnderWay, StepKeeps
  <2>4. CASE Step(r, "retry")
    BY <1>1, <1>2, <1>3, <2>1, <2>2, <2>4, UnderWay, StepKeeps
  <2>5. QED
    BY <2>1, <2>3, <2>4
<1>6. QED
  BY <1>4, <1>5

\* A code and tokens are made for the request's person, or taken from the family.
LEMMA IssueKeepsAccess ==
    ASSUME AccessInv, NEW r \in Requests,
           CreateCode(r) \/ RevokeFamily(r) \/ (\E kind \in {"access", "refresh"} : InsertToken(r, kind))
    PROVE  AccessInv'
<1>1. /\ req[r].pc \in {"code", "family", "access", "refresh"} /\ ~At(r, "done") /\ ~At(r, "store")
      /\ UNCHANGED <<people, packsOf, invite, login, gate, credential>>
  BY DEF CreateCode, RevokeFamily, InsertToken, At
<1>2. UNCHANGED <<member, rowLock, stored, alive, issued, lost>>
  BY <1>1 DEF people, credential
<1>3. req[r].pc \notin LateSteps /\ req[r] \in RequestRecord
  BY <1>1, RequestTyped DEF LateSteps
<1>4. CASE CreateCode(r)
  <2>1. req[r].user \in Users
    BY <1>4, UnderWay DEF CreateCode, At, PersonSteps
  <2>2. TablesTyped'
    BY <1>1, <1>4, <2>1 DEF CreateCode, AccessInv, TablesTyped, people, packsOf, gate
  <2>3. QED
    BY <1>1, <1>2, <1>3, <1>4, <2>2, AnswerKeeps DEF CreateCode
<1>5. CASE RevokeFamily(r)
  <2>1. tokens' \subseteq TokenRecord
    BY <1>5, RevokedTyped DEF RevokeFamily, AccessInv, TablesTyped
  <2>2. TablesTyped'
    BY <1>1, <1>5, <2>1 DEF RevokeFamily, AccessInv, TablesTyped, people, packsOf, gate
  <2>3. QED
    BY <1>1, <1>2, <1>3, <1>5, <2>2, AnswerKeeps DEF RevokeFamily
<1>6. CASE \E kind \in {"access", "refresh"} : InsertToken(r, kind)
  <2>1. PICK kind \in {"access", "refresh"} : InsertToken(r, kind)
    BY <1>6
  <2>2. req[r].user \in Users /\ req[r].pc = kind
    BY <2>1, UnderWay DEF InsertToken, At, PersonSteps
  <2>3. [kind |-> kind, by |-> r, family |-> req[r].from, user |-> req[r].user, state |-> "live"]
           \in TokenRecord
    BY <1>3, <2>2 DEF TokenRecord, RequestRecord
  <2>4. TablesTyped'
    BY <1>1, <2>1, <2>3 DEF InsertToken, AccessInv, TablesTyped, people, packsOf, gate
  <2>5. CASE kind = "access"
    <3>1. Step(r, "refresh")
      BY <2>1, <2>5 DEF InsertToken
    <3>2. /\ "refresh" \in RequestSteps /\ "refresh" \notin PrivateSteps
          /\ req[r].pc \in PersonSteps
      BY <2>2 DEF RequestSteps, PersonSteps, PrivateSteps
    <3>3. QED
      BY <1>1, <1>2, <1>3, <2>4, <3>1, <3>2, UnderWay, StepKeeps
  <2>6. CASE kind = "refresh"
    BY <1>1, <1>2, <1>3, <2>1, <2>4, <2>6, AnswerKeeps DEF InsertToken
  <2>7. QED
    BY <2>5, <2>6
<1>7. QED
  BY <1>4, <1>5, <1>6

\* A refresh asks for its owner's membership; a revoked owner gets no tokens.
LEMMA OwnerKeeps ==
    ASSUME AccessInv, NEW r \in Requests, CheckOwner(r)
    PROVE  AccessInv'
<1>1. /\ req[r].pc = "owner" /\ ~At(r, "done") /\ ~At(r, "store")
      /\ UNCHANGED <<people, packsOf, signIn, gate, credential>>
  BY DEF CheckOwner, At
<1>2. UNCHANGED <<member, rowLock, stored, alive, issued, lost>>
  BY <1>1 DEF people, credential
<1>3. TablesTyped'
  BY <1>1 DEF AccessInv, TablesTyped, people, packsOf, signIn, gate
<1>4. CASE Answer(r, FALSE)
  BY <1>1, <1>2, <1>3, <1>4, AnswerKeeps
<1>5. CASE Step(r, "access") /\ Resolves(req[r].user)
  <2>1. member[req[r].user].status # "revoked"
    BY <1>5 DEF Resolves
  <2>2. /\ "access" \in RequestSteps /\ "access" \notin PrivateSteps
        /\ req[r].pc \in PersonSteps
    BY <1>1 DEF RequestSteps, PersonSteps, LateSteps, PrivateSteps
  <2>3. QED
    BY <1>1, <1>2, <1>3, <1>5, <2>1, <2>2, UnderWay, StepKeeps
<1>6. QED
  BY <1>4, <1>5 DEF CheckOwner

\* The gateway's checks that only answer or go on, and the pages of a tool's answer.
LEMMA GateKeeps ==
    ASSUME AccessInv, NEW r \in Requests,
           \/ CheckPause(r) \/ (\E readable \in BOOLEAN : CachePause(r, readable))
           \/ CheckPacks(r) \/ (\E more \in BOOLEAN : Send(r, more))
    PROVE  AccessInv'
<1>1. /\ req[r].pc \in {"pause", "cache", "permissions", "send"} /\ ~At(r, "done") /\ ~At(r, "store")
      /\ UNCHANGED <<people, packsOf, signIn, setting, credential>>
  BY DEF CheckPause, CachePause, CheckPacks, Send, At, gate
<1>2. /\ \/ Answer(r, FALSE) \/ Answer(r, TRUE)
         \/ \E step \in {"setting", "permissions", "queue"} : Step(r, step)
      /\ rate' = rate \/ rate' = rate + 1
      /\ pausedCache' = pausedCache \/ pausedCache' \in {"paused", "running"}
  <2>1. CASE CheckPause(r)
    <3>1. \/ Step(r, "setting") /\ UNCHANGED rate
          \/ Answer(r, FALSE) /\ UNCHANGED rate
          \/ pausedCache = "running" /\ CountCall(r)
          \/ pausedCache \notin {"old", "paused", "running"}
      BY <2>1 DEF CheckPause
    <3>2. QED
      BY <2>1, <3>1 DEF CheckPause, CountCall, AccessInv, TablesTyped
  <2>2. CASE \E readable \in BOOLEAN : CachePause(r, readable)
    BY <2>2 DEF CachePause, CountCall
  <2>3. CASE CheckPacks(r) \/ \E more \in BOOLEAN : Send(r, more)
    BY <2>3 DEF CheckPacks, Send, gate
  <2>4. QED
    BY <2>1, <2>2, <2>3
<1>3. UNCHANGED <<member, rowLock, stored, alive, issued, lost>>
  BY <1>1 DEF people, credential
<1>4. TablesTyped'
  BY <1>1, <1>2 DEF AccessInv, TablesTyped, people, packsOf, signIn
<1>5. req[r].pc \notin LateSteps
  BY <1>1 DEF LateSteps
<1>6. CASE Answer(r, FALSE) \/ Answer(r, TRUE)
  BY <1>1, <1>3, <1>4, <1>5, <1>6, AnswerKeeps
<1>7. CASE \E step \in {"setting", "permissions", "queue"} : Step(r, step)
  <2>1. PICK step \in {"setting", "permissions", "queue"} : Step(r, step)
    BY <1>7
  <2>2. step \in RequestSteps /\ step \notin PersonSteps \cup PrivateSteps
    BY <2>1 DEF RequestSteps, PersonSteps, LateSteps, PrivateSteps
  <2>3. step \notin {"done", "commit", "rotate", "member", "claim", "join", "store", "grant", "switch"}
    OBVIOUS
  <2>4. QED
    BY <1>1, <1>3, <1>4, <1>5, <2>1, <2>2, <2>3, UnderWay, StepKeeps
<1>8. QED
  BY <1>2, <1>6, <1>7

\* The dashboard's steps that neither revoke a member nor begin.
LEMMA DashboardKeeps ==
    ASSUME AccessInv, NEW r \in Requests,
           SwitchTenant(r) \/ RevokeTokens(r) \/ CreateInvite(r)
    PROVE  AccessInv'
<1>1. /\ req[r].pc \in {"switch", "revoke", "create"} /\ ~At(r, "done") /\ ~At(r, "store")
      /\ UNCHANGED <<rowLock, member, packsOf, login, codes, gate, credential>>
  BY DEF SwitchTenant, RevokeTokens, CreateInvite, At, people, signIn
<1>2. UNCHANGED <<stored, alive, issued, lost>>
  BY <1>1 DEF credential
<1>3. req[r].pc \notin LateSteps /\ req[r] \in RequestRecord
  BY <1>1, RequestTyped DEF LateSteps
<1>4. CASE RevokeTokens(r)
  <2>1. tokens' \subseteq TokenRecord
    BY <1>4, RevokedTyped DEF RevokeTokens, AccessInv, TablesTyped
  <2>2. TablesTyped'
    BY <1>1, <1>4, <2>1 DEF RevokeTokens, AccessInv, TablesTyped, people, packsOf, gate
  <2>3. QED
    BY <1>1, <1>2, <1>3, <1>4, <2>2, AnswerKeeps DEF RevokeTokens
<1>5. CASE CreateInvite(r)
  <2>1. TablesTyped'
    BY <1>1, <1>5 DEF CreateInvite, AccessInv, TablesTyped, people, packsOf, gate
  <2>2. QED
    BY <1>1, <1>2, <1>3, <1>5, <2>1, AnswerKeeps DEF CreateInvite
<1>6. CASE SwitchTenant(r)
  <2>1. /\ customer' = req[r].status /\ UNCHANGED signIn
        /\ Step(r, "revoke") \/ Answer(r, TRUE)
    BY <1>6 DEF SwitchTenant
  <2>2. TablesTyped'
    <3>1. req[r].status \in {"active", "suspended"}
      BY <1>3, <1>6 DEF SwitchTenant, AccessInv, RequestIsSound, RequestRecord, At
    <3>2. QED
      BY <1>1, <2>1, <3>1 DEF AccessInv, TablesTyped, packsOf, gate, signIn
  <2>3. CASE Answer(r, TRUE)
    BY <1>1, <1>2, <1>3, <2>2, <2>3, AnswerKeeps
  <2>4. CASE Step(r, "revoke")
    <3>1. "revoke" \in RequestSteps /\ "revoke" \notin PersonSteps \cup PrivateSteps
      BY DEF RequestSteps, PersonSteps, LateSteps, PrivateSteps
    <3>2. QED
      BY <1>1, <1>2, <1>3, <2>2, <2>4, <3>1, UnderWay, StepKeeps
  <2>5. QED
    BY <2>1, <2>3, <2>4
<1>7. QED
  BY <1>4, <1>5, <1>6

\* A request breaks off: it gives back the row it holds and the code it has taken.
LEMMA BreakKeeps ==
    ASSUME AccessInv, NEW r \in Requests, Break(r)
    PROVE  AccessInv'
<1>1. /\ ~At(r, "done") /\ Answer(r, FALSE)
      /\ UNCHANGED <<customer, member, packsOf, login, codes, tokens, gate, stored, issued, alive>>
      /\ rowLock' = IF rowLock = r THEN Nobody ELSE rowLock
      /\ invite' \in {"open", invite}
      /\ lost => lost'
      /\ At(r, "store") => lost'
  BY DEF Break
<1>2. TablesTyped'
  BY <1>1 DEF AccessInv, TablesTyped, packsOf, gate
<1>3. \/ rowLock' = rowLock
      \/ rowLock' \in {r, Nobody} /\ rowLock \in {r, Nobody}
  BY <1>1
<1>4. QED
  BY <1>1, <1>2, <1>3, AnswerKeeps

-----------------------------------------------------------------------------
\* The steps that begin a request or write down what it has read.

\* A new request knows nobody and has nothing.
LEMMA NewIsClean ==
    ASSUME AccessInv, NEW r \in Requests, At(r, "new")
    PROVE  /\ ~req[r].late /\ req[r].kind # "role" /\ ~At(r, "done") /\ ~At(r, "store")
           /\ req[r].token \in 0..issued
  BY DEF AccessInv, CredentialsTyped, RequestIsSound, LateStaysOut, LateSteps, At

\* Of a person who is revoked, at a step that leads nowhere for them, or at one that is
\* no longer theirs.
LEMMA PersonKeeps ==
    ASSUME AccessInv, NEW r \in Requests, At(r, "new"),
           NEW kind \in RequestKinds, NEW step \in RequestSteps, NEW user \in Users,
           NEW from \in LoginStates \cup Requests \cup {Nobody}, NEW late \in BOOLEAN,
           req' = [req EXCEPT ![r] = [req[r] EXCEPT !.kind = kind, !.pc = step, !.user = user,
                                                    !.from = from, !.late = late]],
           late => step \in LateSteps /\ member[user].status = "revoked",
           kind # "role", step \notin PrivateSteps \cup {"rotate", "grant", "switch"},
           step \in {"claim", "join"} => user = Invitee,
           TablesTyped', UNCHANGED <<member, rowLock, stored, alive, issued, lost>>
    PROVE  AccessInv'
<1> DEFINE q == [req[r] EXCEPT !.kind = kind, !.pc = step, !.user = user, !.from = from,
                               !.late = late]
<1>1. req[r] \in RequestRecord /\ user \in Users \cup {Nobody}
  BY RequestTyped
<1>2. q \in RequestRecord
  BY <1>1 DEF RequestRecord
<1>3. q.kind = kind /\ q.pc = step /\ q.user = user /\ q.late = late /\ q.token = req[r].token
  BY <1>1, <1>2 DEF RequestRecord
<1> HIDE DEF q
<1>4. req' = [req EXCEPT ![r] = q]
  BY DEF q
<1>5. step # "done" \/ ~late
  BY DEF LateSteps
<1>6. step \notin {"member", "commit", "rotate", "store", "grant", "switch"}
  BY DEF PrivateSteps
<1>7. QED
  BY <1>2, <1>3, <1>4, <1>5, <1>6, NewIsClean, RequestKeeps

\* Signing in, with HighLevel or with an access code.
LEMMA SignInKeeps ==
    ASSUME AccessInv, NEW r \in Requests, NEW s \in LoginStates,
           Form(r, s) \/ \E u \in Installers : Callback(r, s, u)
    PROVE  AccessInv'
<1>1. PICK user \in Users, kind \in {"form", "callback"}, step \in {"claim", "exchange"} :
         /\ ConsumeLogin(r, s, kind, user, step)
         /\ step = "claim" => user = Invitee
         /\ UNCHANGED <<people, packsOf, invite, codes, tokens, gate, credential>>
  BY DEF Form, Callback, Users
<1> DEFINE late == member[user].status = "revoked"
<1>2. /\ At(r, "new") /\ login' = [login EXCEPT ![s] = "gone"]
      /\ req' = [req EXCEPT ![r] = [req[r] EXCEPT !.kind = kind, !.pc = step, !.user = user,
                                                  !.from = s, !.late = late]]
  BY <1>1 DEF ConsumeLogin
<1>3. late \in BOOLEAN
  OBVIOUS
<1>4. late => member[user].status = "revoked"
  OBVIOUS
<1> HIDE DEF late
<1>5. TablesTyped'
  BY <1>1, <1>2 DEF AccessInv, TablesTyped, people, packsOf, gate
<1>6. kind \in RequestKinds /\ kind # "role"
  BY <1>1 DEF RequestKinds
<1>7. step \in RequestSteps \cap LateSteps /\ step \notin PrivateSteps \cup {"rotate", "grant", "switch", "join"}
  BY DEF RequestSteps, LateSteps, PrivateSteps
<1>8. UNCHANGED <<member, rowLock, stored, alive, issued, lost>>
  BY <1>1 DEF people, credential
<1>9. QED
  BY <1>1, <1>2, <1>3, <1>4, <1>5, <1>6, <1>7, <1>8, PersonKeeps

\* A refresh token is marked used or recognised, and an access token let in.
LEMMA TokenKeeps ==
    ASSUME AccessInv, NEW r \in Requests, NEW t \in tokens, ConsumeRefresh(r, t)
    PROVE  AccessInv'
<1> DEFINE user == t.user
           from == t.family
<1>1. t \in TokenRecord
  BY DEF AccessInv, TablesTyped
<1>2. user \in Users /\ from \in LoginStates \cup Requests \cup {Nobody}
  BY <1>1 DEF TokenRecord
<1>3. At(r, "new") /\ UNCHANGED <<people, packsOf, invite, login, codes, gate, credential>>
  BY DEF ConsumeRefresh
<1>4. UNCHANGED <<member, rowLock, stored, alive, issued, lost>>
  BY <1>3 DEF people, credential
<1>5. tokens' \subseteq TokenRecord
  <2>1. [t EXCEPT !.state = "used"] \in TokenRecord
    BY <1>1 DEF TokenRecord
  <2>2. QED
    BY <2>1 DEF ConsumeRefresh, AccessInv, TablesTyped
<1>6. TablesTyped'
  BY <1>3, <1>5 DEF AccessInv, TablesTyped, people, packsOf, gate
<1>7. "refresh" \in RequestKinds
  BY DEF RequestKinds
<1>8. CASE t.state = "live"
  <2> DEFINE late == member[user].status = "revoked"
  <2>1. req' = [req EXCEPT ![r] = [req[r] EXCEPT !.kind = "refresh", !.pc = "owner",
                              !.user = user, !.from = from, !.late = late]]
    BY <1>8 DEF ConsumeRefresh
  <2>2. late \in BOOLEAN /\ (late => member[user].status = "revoked")
    OBVIOUS
  <2> HIDE DEF late, user, from
  <2>3. "owner" \in RequestSteps \cap LateSteps /\ "owner" \notin PrivateSteps \cup {"rotate", "grant", "switch", "claim", "join"}
    BY DEF RequestSteps, LateSteps, PrivateSteps
  <2>4. QED
    BY <1>2, <1>3, <1>4, <1>6, <1>7, <2>1, <2>2, <2>3, PersonKeeps
<1>9. CASE t.state # "live"
  <2> DEFINE step == IF t.state = "used" THEN "family" ELSE "done"
             late == req[r].late
  <2>1. req' = [req EXCEPT ![r] = [req[r] EXCEPT !.kind = "refresh", !.user = user,
                              !.from = from, !.pc = step]]
    BY <1>9 DEF ConsumeRefresh
  <2>2. step \in {"family", "done"}
    OBVIOUS
  <2> HIDE DEF step, user, from
  <2>3. step \in RequestSteps /\ step \notin PrivateSteps \cup {"rotate", "grant", "switch", "claim", "join"}
    BY <2>2 DEF RequestSteps, PrivateSteps
  <2>4. req[r] \in RequestRecord
    BY RequestTyped
  <2>5. late \in BOOLEAN /\ ~late
    BY <1>3, <2>4, NewIsClean DEF RequestRecord
  <2>6. [req[r] EXCEPT !.kind = "refresh", !.user = user, !.from = from, !.pc = step]
          = [req[r] EXCEPT !.kind = "refresh", !.pc = step, !.user = user, !.from = from,
                           !.late = late]
    BY <2>4 DEF RequestRecord
  <2> HIDE DEF late
  <2>7. req' = [req EXCEPT ![r] = [req[r] EXCEPT !.kind = "refresh", !.pc = step,
                              !.user = user, !.from = from, !.late = late]]
    BY <2>1, <2>6
  <2>8. step \notin PrivateSteps \cup {"rotate", "grant", "switch"} /\ step \notin {"claim", "join"}
    BY <2>3
  <2>9. QED
    BY <1>2, <1>3, <1>4, <1>6, <1>7, <2>3, <2>5, <2>7, <2>8, PersonKeeps
<1>10. QED
  BY <1>8, <1>9

\* findAccessToken lets a call in, or a code is exchanged.
LEMMA CallerKeeps ==
    ASSUME AccessInv, NEW r \in Requests,
           \/ \E t \in tokens, pack \in Packs : Call(r, t, pack)
           \/ \E code \in codes, matches \in BOOLEAN : ExchangeCode(r, code, matches)
    PROVE  AccessInv'
<1>1. /\ At(r, "new") /\ UNCHANGED <<people, packsOf, invite, login, tokens, gate, credential>>
      /\ codes' \subseteq codes
  BY DEF Call, ExchangeCode, signIn
<1>2. UNCHANGED <<member, rowLock, stored, alive, issued, lost>>
  BY <1>1 DEF people, credential
<1>3. TablesTyped'
  BY <1>1 DEF AccessInv, TablesTyped, people, packsOf, gate
<1>4. req[r] \in RequestRecord /\ ~req[r].late
  BY <1>1, RequestTyped, NewIsClean
<1>5. CASE \E t \in tokens, pack \in Packs : Call(r, t, pack)
  <2>1. PICK t \in tokens, pack \in Packs : Call(r, t, pack)
    BY <1>5
  <2> DEFINE user == t.user
             want == {pack}
             late == member[user].status = "revoked"
             q == [req[r] EXCEPT !.kind = "call", !.pc = "principal", !.user = user,
                                 !.want = want, !.late = late]
  <2>2. req' = [req EXCEPT ![r] = q]
    BY <2>1 DEF Call
  <2>3. /\ user \in Users /\ want \in SUBSET (Packs \cup Cells) /\ late \in BOOLEAN
        /\ "call" \in RequestKinds /\ "principal" \in RequestSteps
        /\ late => member[user].status = "revoked"
    BY DEF AccessInv, TablesTyped, TokenRecord, RequestKinds, RequestSteps, LateSteps
  <2> HIDE DEF late, want, user
  <2>4. q \in RequestRecord
    BY <1>4, <2>3 DEF RequestRecord
  <2>5. q.kind = "call" /\ q.pc = "principal" /\ q.user = user /\ q.late = late
        /\ q.token = req[r].token
    BY <1>4, <2>4 DEF RequestRecord
  <2> HIDE DEF q
  <2>6. "principal" \in LateSteps /\ "principal" \notin PrivateSteps
    BY DEF LateSteps, PrivateSteps
  <2>7. q.late => IF q.pc = "done" THEN ~q.ok
                  ELSE q.pc \in LateSteps /\ member[q.user].status = "revoked"
    BY <2>3, <2>5, <2>6
  <2>8. QED
    BY <1>1, <1>2, <1>3, <2>2, <2>3, <2>4, <2>5, <2>6, <2>7, NewIsClean, RequestKeeps
<1>6. CASE \E code \in codes, matches \in BOOLEAN : ExchangeCode(r, code, matches)
  <2>1. PICK code \in codes, matches \in BOOLEAN : ExchangeCode(r, code, matches)
    BY <1>6
  <2>2. CASE matches
    <3> DEFINE user == code.user
               q == [req[r] EXCEPT !.kind = "token", !.pc = "access", !.user = user, !.from = r]
    <3>1. req' = [req EXCEPT ![r] = q]
      BY <2>1, <2>2 DEF ExchangeCode
    <3>2. user \in Users /\ "token" \in RequestKinds /\ "access" \in RequestSteps
      BY DEF AccessInv, TablesTyped, RequestKinds, RequestSteps, PersonSteps
    <3> HIDE DEF user
    <3>3. q \in RequestRecord
      BY <1>4, <3>2 DEF RequestRecord
    <3>4. q.kind = "token" /\ q.pc = "access" /\ q.user = user /\ q.late = req[r].late
          /\ q.token = req[r].token
      BY <1>4, <3>3 DEF RequestRecord
    <3> HIDE DEF q
    <3>5. "access" \notin PrivateSteps
      BY DEF PrivateSteps
    <3>6. QED
      BY <1>1, <1>2, <1>3, <1>4, <3>1, <3>2, <3>3, <3>4, <3>5, NewIsClean, RequestKeeps
  <2>3. CASE ~matches
    <3> DEFINE q == [Answered(r, FALSE) EXCEPT !.kind = "token"]
    <3>1. req' = [req EXCEPT ![r] = q]
      BY <2>1, <2>3 DEF ExchangeCode
    <3>2. Answered(r, FALSE) \in RequestRecord /\ Answered(r, FALSE).pc = "done"
          /\ Answered(r, FALSE).late = req[r].late /\ Answered(r, FALSE).token = 0
      BY AnsweredKnown
    <3>3. "token" \in RequestKinds
      BY DEF RequestKinds
    <3>4. q \in RequestRecord /\ q.kind = "token" /\ q.pc = "done" /\ q.late = req[r].late
          /\ q.token = 0
      BY <3>2, <3>3 DEF RequestRecord
    <3> HIDE DEF q
    <3>5. "done" \notin PrivateSteps \cup PersonSteps /\ 0 \in 0..issued
      BY DEF PrivateSteps, PersonSteps, LateSteps, AccessInv, CredentialsTyped
    <3>6. QED
      BY <1>1, <1>2, <1>3, <1>4, <3>1, <3>4, <3>5, NewIsClean, RequestKeeps
  <2>4. QED
    BY <2>2, <2>3
<1>7. QED
  BY <1>5, <1>6

\* The gateway writes down the membership, the setting or the connection it has read.
LEMMA ReadKeeps ==
    ASSUME AccessInv, NEW r \in Requests, Authenticate(r) \/ ReadSetting(r) \/ ReadConnection(r)
    PROVE  AccessInv'
<1>1. /\ req[r].pc \in {"principal", "setting", "queue"} /\ ~At(r, "done") /\ ~At(r, "store")
      /\ UNCHANGED <<people, packsOf, signIn, gate, credential>>
  BY DEF Authenticate, ReadSetting, ReadConnection, At
<1>2. UNCHANGED <<member, rowLock, stored, alive, issued, lost>>
  BY <1>1 DEF people, credential
<1>3. TablesTyped'
  BY <1>1 DEF AccessInv, TablesTyped, people, packsOf, signIn, gate
<1>4. req[r] \in RequestRecord /\ req[r].token \in 0..issued
  BY RequestTyped DEF AccessInv, CredentialsTyped
<1>5. \A q \in RequestRecord :
         /\ req' = [req EXCEPT ![r] = q] /\ q.kind = req[r].kind /\ ~q.late
         /\ q.token \in 0..issued
         /\ q.pc \in {"pause", "cache", "send"} \/ (q.pc = "rotate" /\ q.token = stored)
         => AccessInv'
  <2>1. {"pause", "cache", "send", "rotate"} \cap (PersonSteps \cup PrivateSteps
           \cup {"member", "commit", "claim", "join", "done", "store", "grant", "switch"}) = {}
    BY DEF PersonSteps, LateSteps, PrivateSteps
  <2>2. QED
    BY <1>1, <1>2, <1>3, <2>1, UnderWay, RequestKeeps
<1>6. CASE Authenticate(r)
  <2>1. CASE ~Resolves(req[r].user)
    BY <1>1, <1>2, <1>3, <1>6, <2>1, AnswerKeeps DEF Authenticate
  <2>2. CASE Resolves(req[r].user)
    <3> DEFINE role == member[req[r].user].role
               q == [req[r] EXCEPT !.pc = "pause", !.status = customer, !.role = role]
    <3>1. req' = [req EXCEPT ![r] = q]
      BY <1>6, <2>2 DEF Authenticate
    <3>2. ~req[r].late
      BY <1>1, <2>2, UnderWay DEF Resolves
    <3>3. req[r].user \in Users
      BY <1>6, UnderWay DEF Authenticate, At, PersonSteps, LateSteps
    <3>4. /\ role \in Roles \cup {"none"} /\ customer \in {"none", "pending", "active", "suspended"}
          /\ "pause" \in RequestSteps
      BY <2>2, <3>3 DEF Resolves, AccessInv, TablesTyped, RequestSteps
    <3> HIDE DEF role
    <3>5. q \in RequestRecord
      BY <1>4, <3>4 DEF RequestRecord
    <3>6. q.pc = "pause" /\ q.kind = req[r].kind /\ q.late = req[r].late /\ q.token = req[r].token
      BY <1>4, <3>5 DEF RequestRecord
    <3> HIDE DEF q
    <3>7. QED
      BY <1>4, <1>5, <3>1, <3>2, <3>5, <3>6
  <2>3. QED
    BY <2>1, <2>2
<1>7. CASE ReadSetting(r)
  <2> DEFINE q == [req[r] EXCEPT !.pc = "cache", !.ok = setting]
  <2>1. req' = [req EXCEPT ![r] = q] /\ req[r].pc = "setting"
    BY <1>7 DEF ReadSetting, At
  <2>2. ~req[r].late
    BY <1>1, <2>1, UnderWay DEF LateSteps
  <2>3. "cache" \in RequestSteps /\ setting \in BOOLEAN
    BY DEF RequestSteps, AccessInv, TablesTyped
  <2>4. q \in RequestRecord
    BY <1>4, <2>3 DEF RequestRecord
  <2>5. q.pc = "cache" /\ q.kind = req[r].kind /\ q.late = req[r].late /\ q.token = req[r].token
    BY <1>4, <2>4 DEF RequestRecord
  <2> HIDE DEF q
  <2>6. QED
    BY <1>4, <1>5, <2>1, <2>2, <2>4, <2>5
<1>8. CASE ReadConnection(r)
  <2> DEFINE step == IF fresh THEN "send" ELSE "rotate"
             q == [req[r] EXCEPT !.token = stored, !.pc = step]
  <2>1. req' = [req EXCEPT ![r] = q] /\ req[r].pc = "queue"
    BY <1>8 DEF ReadConnection, At
  <2>2. ~req[r].late
    BY <1>1, <2>1, UnderWay DEF LateSteps
  <2>3. step \in {"send", "rotate"}
    OBVIOUS
  <2> HIDE DEF step
  <2>4. step \in RequestSteps /\ stored \in Nat /\ stored \in 0..issued
    BY <2>3 DEF RequestSteps, AccessInv, CredentialsTyped
  <2>5. q \in RequestRecord
    BY <1>4, <2>4 DEF RequestRecord
  <2>6. q.pc = step /\ q.kind = req[r].kind /\ q.late = req[r].late /\ q.token = stored
    BY <1>4, <2>5 DEF RequestRecord
  <2> HIDE DEF q
  <2>7. QED
    BY <1>5, <2>1, <2>2, <2>3, <2>4, <2>5, <2>6
<1>9. QED
  BY <1>6, <1>7, <1>8

\* A form of the dashboard begins, or the webhook, or the pause switch is turned.
LEMMA FormKeeps ==
    ASSUME AccessInv, NEW r \in Requests,
           NEW kind \in RequestKinds, NEW user \in Users \cup {Nobody},
           NEW status \in {"none", "active", "suspended"}, NEW want \in SUBSET (Packs \cup Cells),
           NEW next \in {"grant", "cell", "switch", "create"},
           Begin(r, kind, user, status, want, next), kind # "role",
           next = "switch" => kind = "revoke" \/ status # "none"
    PROVE  AccessInv'
<1> DEFINE todo == CASE next = "grant" -> Packs [] next = "cell" -> Cells [] OTHER -> {}
           q == [req[r] EXCEPT !.kind = kind, !.pc = next, !.user = user, !.status = status,
                               !.want = want, !.todo = todo]
<1>1. /\ req' = [req EXCEPT ![r] = q] /\ UNCHANGED <<people, packsOf, signIn, gate, credential>>
      /\ At(r, "new")
  BY DEF Begin
<1>2. UNCHANGED <<member, rowLock, stored, alive, issued, lost>>
  BY <1>1 DEF people, credential
<1>3. TablesTyped'
  BY <1>1 DEF AccessInv, TablesTyped, people, packsOf, signIn, gate
<1>4. req[r] \in RequestRecord
  BY RequestTyped
<1>5. /\ todo \in SUBSET (Packs \cup Cells) /\ next \in RequestSteps
      /\ status \in {"none", "pending", "active", "suspended"}
  BY DEF RequestSteps
<1> HIDE DEF todo
<1>6. q \in RequestRecord
  BY <1>4, <1>5 DEF RequestRecord
<1>7. q.kind = kind /\ q.pc = next /\ q.late = req[r].late /\ q.token = req[r].token
      /\ q.status = status
  BY <1>4, <1>6 DEF RequestRecord
<1> HIDE DEF q
<1>8. next \notin PersonSteps \cup PrivateSteps \cup {"member", "commit", "claim", "join", "store", "rotate"}
  BY DEF PersonSteps, LateSteps, PrivateSteps
<1>9. QED
  BY <1>1, <1>2, <1>3, <1>6, <1>7, <1>8, NewIsClean, RequestKeeps

LEMMA BeginKeeps ==
    ASSUME AccessInv, NEW r \in Requests,
           \/ \E preset \in Presets : Approve(r, preset) \/ SaveGrants(r, preset)
           \/ \E status \in {"active", "suspended"} : SetStatus(r, status)
           \/ \E cells \in RoleForms : SaveMatrix(r, cells)
           \/ \E u \in Users : RevokeMember(r, u)
           \/ MakeInvite(r)
    PROVE  AccessInv'
<1>1. /\ {"approve", "status", "grants", "matrix", "revoke", "invite"} \subseteq RequestKinds
      /\ \A preset \in Presets : preset \in SUBSET (Packs \cup Cells)
      /\ \A cells \in RoleForms : cells \in SUBSET (Packs \cup Cells)
      /\ {} \in SUBSET (Packs \cup Cells) /\ Invitee \in Users
  BY AccessAssumption DEF RequestKinds, Users
<1>2. CASE \E preset \in Presets : Approve(r, preset)
  BY <1>1, <1>2, FormKeeps DEF Approve
<1>3. CASE \E preset \in Presets : SaveGrants(r, preset)
  BY <1>1, <1>3, FormKeeps DEF SaveGrants
<1>4. CASE \E status \in {"active", "suspended"} : SetStatus(r, status)
  BY <1>1, <1>4, FormKeeps DEF SetStatus
<1>5. CASE \E cells \in RoleForms : SaveMatrix(r, cells)
  BY <1>1, <1>5, FormKeeps DEF SaveMatrix
<1>6. CASE \E u \in Users : RevokeMember(r, u)
  BY <1>1, <1>6, FormKeeps DEF RevokeMember
<1>7. CASE MakeInvite(r)
  BY <1>1, <1>7, FormKeeps DEF MakeInvite
<1>8. QED
  BY <1>2, <1>3, <1>4, <1>5, <1>6, <1>7

LEMMA ProvisionKeeps ==
    ASSUME AccessInv, NEW r \in Requests,
           \/ \E preset \in Presets, update \in BOOLEAN : Provision(r, preset, update)
           \/ \E paused \in BOOLEAN : SetPaused(r, paused)
    PROVE  AccessInv'
<1>1. /\ At(r, "new") /\ UNCHANGED <<rowLock, member, packsOf, signIn, rate, pausedCache, credential>>
      /\ customer' \in {"pending", customer} /\ setting' \in BOOLEAN
  BY DEF Provision, SetPaused, gate, people, AccessInv, TablesTyped
<1>2. UNCHANGED <<member, rowLock, stored, alive, issued, lost>>
  BY <1>1 DEF credential
<1>3. TablesTyped'
  BY <1>1 DEF AccessInv, TablesTyped, packsOf, signIn
<1>4. req[r] \in RequestRecord
  BY RequestTyped
<1>5. ASSUME NEW kind \in {"provision", "pause"},
             req' = [req EXCEPT ![r] = [Answered(r, TRUE) EXCEPT !.kind = kind]]
      PROVE  AccessInv'
  <2> DEFINE q == [Answered(r, TRUE) EXCEPT !.kind = kind]
  <2>1. Answered(r, TRUE) \in RequestRecord /\ Answered(r, TRUE).pc = "done"
        /\ Answered(r, TRUE).late = req[r].late /\ Answered(r, TRUE).token = 0
    BY AnsweredKnown
  <2>2. kind \in RequestKinds
    BY DEF RequestKinds
  <2>3. q \in RequestRecord /\ q.kind = kind /\ q.pc = "done" /\ q.late = req[r].late
        /\ q.token = 0
    BY <2>1, <2>2 DEF RequestRecord
  <2>4. req' = [req EXCEPT ![r] = q]
    BY <1>5
  <2> HIDE DEF q
  <2>5. "done" \notin PrivateSteps \cup PersonSteps /\ 0 \in 0..issued
    BY DEF PrivateSteps, PersonSteps, LateSteps, AccessInv, CredentialsTyped
  <2>6. QED
    BY <1>1, <1>2, <1>3, <2>3, <2>4, <2>5, NewIsClean, RequestKeeps
<1>6. CASE \E paused \in BOOLEAN : SetPaused(r, paused)
  BY <1>5, <1>6 DEF SetPaused
<1>7. CASE \E preset \in Presets, update \in BOOLEAN : Provision(r, preset, update)
  <2>1. PICK preset \in Presets, update \in BOOLEAN : Provision(r, preset, update)
    BY <1>7
  <2> DEFINE status == IF customer \in {"absent", "pending"} THEN "active" ELSE "none"
             q == [req[r] EXCEPT !.kind = "provision", !.pc = "grant", !.want = preset,
                                 !.todo = Packs, !.status = status]
  <2>2. \/ req' = [req EXCEPT ![r] = [Answered(r, TRUE) EXCEPT !.kind = "provision"]]
        \/ req' = [req EXCEPT ![r] = q]
    BY <2>1 DEF Provision
  <2>3. CASE req' = [req EXCEPT ![r] = q]
    <3>1. /\ status \in {"none", "pending", "active", "suspended"}
          /\ preset \in SUBSET (Packs \cup Cells) /\ Packs \in SUBSET (Packs \cup Cells)
          /\ "provision" \in RequestKinds /\ "grant" \in RequestSteps
          /\ status # "pending"
      BY AccessAssumption DEF RequestKinds, RequestSteps
    <3> HIDE DEF status
    <3>2. q \in RequestRecord
      BY <1>4, <3>1 DEF RequestRecord
    <3>3. q.kind = "provision" /\ q.pc = "grant" /\ q.late = req[r].late /\ q.token = req[r].token
          /\ q.status = status
      BY <1>4, <3>2 DEF RequestRecord
    <3> HIDE DEF q
    <3>4. "grant" \notin PrivateSteps \cup PersonSteps
      BY DEF PrivateSteps, PersonSteps, LateSteps
    <3>5. QED
      BY <1>1, <1>2, <1>3, <2>3, <3>1, <3>2, <3>3, <3>4, NewIsClean, RequestKeeps
  <2>4. QED
    BY <1>5, <2>2, <2>3
<1>8. QED
  BY <1>6, <1>7

\* setPackGrant and setRolePack, one after the other.
LEMMA WriteKeeps ==
    ASSUME AccessInv, NEW r \in Requests, WriteGrant(r) \/ WriteCell(r)
    PROVE  AccessInv'
<1> DEFINE x == CHOOSE x \in req[r].todo : TRUE
<1>1. /\ req[r].pc \in {"grant", "cell"} /\ ~At(r, "done") /\ ~At(r, "store")
      /\ UNCHANGED <<people, signIn, gate, credential>>
  BY DEF WriteGrant, WriteCell, At
<1>2. UNCHANGED <<member, rowLock, stored, alive, issued, lost>>
  BY <1>1 DEF people, credential
<1>3. grants' \in [Packs -> BOOLEAN]
  <2>1. grants \in [Packs -> BOOLEAN]
    BY DEF AccessInv, TablesTyped
  <2>2. CASE WriteCell(r)
    BY <2>1, <2>2 DEF WriteCell
  <2>3. CASE WriteGrant(r)
    <3>1. grants' = [grants EXCEPT ![x] = x \in req[r].want]
      BY <2>3 DEF WriteGrant
    <3> DEFINE on == x \in req[r].want
    <3>2. on \in BOOLEAN
      OBVIOUS
    <3>3. grants' = [grants EXCEPT ![x] = on]
      BY <3>1
    <3> HIDE DEF on, x
    <3>4. QED
      BY <2>1, <3>2, <3>3
  <2>4. QED
    BY <2>2, <2>3
<1>4. matrix' \in [Cells -> {"unset", "on", "off"}]
  BY DEF AccessInv, TablesTyped, WriteGrant, WriteCell
<1>5. TablesTyped'
  BY <1>1, <1>3, <1>4 DEF AccessInv, TablesTyped, people, signIn, gate
<1>6. req[r] \in RequestRecord /\ req[r].token \in 0..issued
  BY RequestTyped DEF AccessInv, CredentialsTyped
<1>7. req[r].pc \notin LateSteps
  BY <1>1 DEF LateSteps
<1> DEFINE rest == req[r].todo \ {x}
<1>8. \/ Answer(r, TRUE)
      \/ req' = [req EXCEPT ![r] = [req[r] EXCEPT !.todo = rest]]
      \/ /\ req' = [req EXCEPT ![r] = [req[r] EXCEPT !.todo = {}, !.pc = "switch"]]
         /\ req[r].status # "none" /\ req[r].pc = "grant"
  BY DEF WriteGrant, WriteCell, At
<1>9. CASE Answer(r, TRUE)
  BY <1>1, <1>2, <1>5, <1>7, <1>9, AnswerKeeps
<1>10. CASE req' = [req EXCEPT ![r] = [req[r] EXCEPT !.todo = rest]]
  <2> DEFINE q == [req[r] EXCEPT !.todo = rest]
  <2>1. rest \in SUBSET (Packs \cup Cells)
    BY <1>6 DEF RequestRecord
  <2> HIDE DEF rest
  <2>2. q \in RequestRecord
    BY <1>6, <2>1 DEF RequestRecord
  <2>3. q.kind = req[r].kind /\ q.pc = req[r].pc /\ q.late = req[r].late /\ q.token = req[r].token
        /\ q.status = req[r].status
    BY <1>6, <2>2 DEF RequestRecord
  <2>4. req' = [req EXCEPT ![r] = q]
    BY <1>10
  <2> HIDE DEF q
  <2>5. req[r].pc \notin PrivateSteps \cup PersonSteps \cup {"member", "commit", "claim", "join",
             "store", "rotate", "switch"}
    BY <1>1 DEF PrivateSteps, PersonSteps, LateSteps
  <2>6. req[r].pc = "grant" => req[r].status # "pending"
    BY DEF AccessInv, RequestIsSound
  <2>7. QED
    BY <1>1, <1>2, <1>5, <1>6, <1>7, <2>2, <2>3, <2>4, <2>5, <2>6, UnderWay, RequestKeeps
<1>11. CASE /\ req' = [req EXCEPT ![r] = [req[r] EXCEPT !.todo = {}, !.pc = "switch"]]
            /\ req[r].status # "none" /\ req[r].pc = "grant"
  <2> DEFINE q == [req[r] EXCEPT !.todo = {}, !.pc = "switch"]
  <2>1. "switch" \in RequestSteps /\ {} \in SUBSET (Packs \cup Cells)
    BY DEF RequestSteps
  <2>2. q \in RequestRecord
    BY <1>6, <2>1 DEF RequestRecord
  <2>3. q.kind = req[r].kind /\ q.pc = "switch" /\ q.late = req[r].late /\ q.token = req[r].token
        /\ q.status = req[r].status
    BY <1>6, <2>2 DEF RequestRecord
  <2>4. req' = [req EXCEPT ![r] = q]
    BY <1>11
  <2> HIDE DEF q
  <2>5. "switch" \notin PrivateSteps \cup PersonSteps
    BY DEF PrivateSteps, PersonSteps, LateSteps
  <2>6. req[r].status # "pending" /\ req[r].status # "none"
    BY <1>11 DEF AccessInv, RequestIsSound, At
  <2>7. QED
    BY <1>1, <1>2, <1>5, <1>6, <1>7, <2>2, <2>3, <2>4, <2>5, <2>6, UnderWay, RequestKeeps
<1>12. QED
  BY <1>8, <1>9, <1>10, <1>11

-----------------------------------------------------------------------------
\* The steps that change a membership.

\* provisionLogin ranks a new member while the customer's row is locked.
LEMMA RankKeeps ==
    ASSUME AccessInv, NEW r \in Requests, RankMember(r)
    PROVE  AccessInv'
<1> DEFINE u == req[r].user
<1>1. /\ req[r].pc = "member" /\ ~At(r, "done") /\ ~At(r, "store")
      /\ UNCHANGED <<customer, member, packsOf, signIn, gate, credential>>
  BY DEF RankMember, At
<1>2. UNCHANGED <<member, stored, alive, issued, lost>>
  BY <1>1 DEF credential
<1>3. rowLock = r /\ rowLock' \in {r, Nobody}
  BY <1>1 DEF AccessInv, RequestIsSound, LoginIsAlone, RankMember
<1>4. TablesTyped'
  BY <1>1, <1>3 DEF AccessInv, TablesTyped, packsOf, signIn, gate
<1>5. CASE member[u].status = "revoked"
  BY <1>1, <1>2, <1>3, <1>4, <1>5, AnswerKeeps DEF RankMember
<1>6. CASE member[u].status # "revoked"
  <2> DEFINE role == IF member[u].status = "active" THEN member[u].role
                     ELSE IF Actives = {} THEN "owner" ELSE "admin"
             q == [req[r] EXCEPT !.pc = "commit", !.role = role]
  <2>1. req' = [req EXCEPT ![r] = q] /\ rowLock' = rowLock
    BY <1>6 DEF RankMember
  <2>2. /\ req[r] \in RequestRecord /\ req[r].token \in 0..issued /\ u \in Users
        /\ ~req[r].late /\ req[r].kind # "role" /\ req[r].pc \in PrivateSteps
    BY <1>1, <1>6, RequestTyped, UnderWay
       DEF AccessInv, CredentialsTyped, PersonSteps, LateSteps, PrivateSteps
  <2>3. /\ role \in Roles \cup {"none"} /\ "commit" \in RequestSteps
        /\ member[u] = NotMember /\ role = "owner" => ActiveOwners = {}
    BY <2>2 DEF AccessInv, TablesTyped, Roles, RequestSteps, PersonSteps, NotMember, ActiveOwners
  <2> HIDE DEF role
  <2>4. q \in RequestRecord
    BY <2>2, <2>3 DEF RequestRecord
  <2>5. q.kind = req[r].kind /\ q.pc = "commit" /\ q.late = req[r].late /\ q.token = req[r].token
        /\ q.role = role /\ q.user = u
    BY <2>2, <2>4 DEF RequestRecord
  <2> HIDE DEF q, u
  <2>6. QED
    BY <1>1, <1>2, <1>3, <1>4, <2>1, <2>2, <2>3, <2>4, <2>5, RequestKeeps
<1>7. QED
  BY <1>5, <1>6

\* A membership changes; who is revoked stays so, and nobody new becomes an owner but by
\* the dashboard.
LEMMA MemberKeeps ==
    ASSUME AccessInv, NEW r \in Requests, NEW q \in RequestRecord,
           req' = [req EXCEPT ![r] = q], ~At(r, "done"), ~At(r, "store"), TablesTyped',
           UNCHANGED <<rowLock, stored, alive, issued, lost>>,
           \A v \in Users : /\ member[v].status = "revoked" => member'[v].status = "revoked"
                            /\ member'[v] = NotMember => member[v] = NotMember,
           ActiveOwners' \subseteq ActiveOwners \/ q.kind = "role",
           q.token \in 0..issued,
           q.late => IF q.pc = "done" THEN ~q.ok
                     ELSE q.pc \in LateSteps /\ q.user \in Users /\ member[q.user].status = "revoked",
           q.pc \in {"code", "retry", "revoke", "done"},
           q.pc \in {"code", "retry"} => q.user \in Users,
           q.kind = "role" => q.pc = "done"
    PROVE  AccessInv'
<1>1. /\ req' \in [Requests -> RequestRecord] /\ req'[r] = q
      /\ \A s \in Requests : s # r => req'[s] = req[s]
  BY RequestTakes
<1>2. q.pc \notin PrivateSteps \cup {"rotate", "store"}
      /\ (q.pc \in PersonSteps => q.user \in Users)
  BY DEF PrivateSteps, PersonSteps, LateSteps
<1>3. RoleWasChanged => RoleWasChanged'
  BY <1>1, UnderWay DEF RoleWasChanged
<1>4. q.kind = "role" => RoleWasChanged'
  BY <1>1 DEF RoleWasChanged
<1>5. ASSUME NEW s \in Requests
      PROVE  RequestIsSound(s)'
  <2>1. CASE s = r
    BY <1>1, <1>2, <2>1 DEF RequestIsSound, LateStaysOut, LoginIsAlone, At
  <2>2. CASE s # r
    <3>1. RequestIsSound(s) /\ req'[s] = req[s]
      BY <1>1, <2>2 DEF AccessInv
    <3>2. LoginIsAlone(s)'
      <4>1. At(s, "commit") => req[s].user \in Users
        BY <3>1 DEF RequestIsSound, At, PersonSteps
      <4>2. QED
        BY <1>3, <1>4, <3>1, <4>1 DEF RequestIsSound, LoginIsAlone, At
    <3>3. LateStaysOut(s)'
      BY <3>1 DEF RequestIsSound, LateStaysOut, At, PersonSteps
    <3>4. QED
      BY <3>1, <3>2, <3>3 DEF RequestIsSound, At
  <2>3. QED
    BY <2>1, <2>2
<1>6. ASSUME NEW s \in Requests
      PROVE  CredentialIsPrivate(s)'
  <2>1. CredentialIsPrivate(s)
    BY DEF AccessInv
  <2>2. QED
    BY <1>1, <1>2, <2>1 DEF CredentialIsPrivate
<1>7. CredentialsTyped'
  BY <1>1 DEF AccessInv, CredentialsTyped
<1>8. StoredIsGood'
  BY <1>1 DEF AccessInv, StoredIsGood, At
<1>9. RoleWasChanged' \/ \A u, v \in ActiveOwners' : u = v
  BY <1>3, <1>4 DEF AccessInv
<1>10. QED
  BY <1>1, <1>5, <1>6, <1>7, <1>8, <1>9 DEF AccessInv

\* acceptInvite: the person joins as what the code says, an admin or staff.
LEMMA JoinKeeps ==
    ASSUME AccessInv, NEW r \in Requests, NEW role \in InviteRoles, AcceptInvite(r, role)
    PROVE  AccessInv'
<1>1. /\ req[r].pc = "join" /\ ~At(r, "done") /\ ~At(r, "store")
      /\ UNCHANGED <<customer, rowLock, packsOf, login, codes, tokens, gate, credential>>
  BY DEF AcceptInvite, At
<1>2. UNCHANGED <<rowLock, stored, alive, issued, lost>>
  BY <1>1 DEF credential
<1>3. /\ req[r] \in RequestRecord /\ req[r].token \in 0..issued /\ req[r].kind # "role"
      /\ req[r].user = Invitee /\ Invitee \in Users
  BY <1>1, RequestTyped, UnderWay DEF AccessInv, CredentialsTyped, RequestIsSound, Users
<1> DEFINE new == [role |-> role, status |-> "active"]
<1>4. /\ member' \in {member, [member EXCEPT ![Invitee] = new]}
      /\ member' # member => member[Invitee] = NotMember
      /\ invite' \in {"open", "used"}
  BY DEF AcceptInvite
<1>5. /\ member \in [Users -> [role : Roles \cup {"none"}, status : {"none", "active", "revoked"}]]
      /\ new \in [role : Roles \cup {"none"}, status : {"none", "active", "revoked"}]
      /\ new # NotMember /\ new.role # "owner" /\ NotMember.status # "revoked"
  BY DEF AccessInv, TablesTyped, Roles, InviteRoles, NotMember
<1> HIDE DEF new
<1>6. TablesTyped'
  BY <1>1, <1>4, <1>5 DEF AccessInv, TablesTyped, packsOf, gate
<1>7. /\ \A v \in Users : /\ member[v].status = "revoked" => member'[v].status = "revoked"
                          /\ member'[v] = NotMember => member[v] = NotMember
      /\ ActiveOwners' \subseteq ActiveOwners
  BY <1>3, <1>4, <1>5 DEF ActiveOwners, Actives
<1>8. \A step \in {"code", "retry"} : Step(r, step) /\ (step = "code" => ~req[r].late) => AccessInv'
  <2> SUFFICES ASSUME NEW step \in {"code", "retry"}, Step(r, step), step = "code" => ~req[r].late
               PROVE  AccessInv'
    OBVIOUS
  <2>1. step \in RequestSteps /\ "retry" \in LateSteps
    BY DEF RequestSteps, PersonSteps, LateSteps
  <2>2. PICK q \in RequestRecord :
              /\ req' = [req EXCEPT ![r] = q] /\ q.pc = step
              /\ q.kind = req[r].kind /\ q.user = req[r].user /\ q.role = req[r].role
              /\ q.token = req[r].token /\ q.late = req[r].late
    BY <2>1, StepTakes
  <2>3. req[r].late => member[req[r].user].status = "revoked"
    BY <1>1, UnderWay
  <2>4. QED
    BY <1>1, <1>2, <1>3, <1>6, <1>7, <2>1, <2>2, <2>3, MemberKeeps
<1>9. CASE member[Invitee].status = "revoked"
  BY <1>8, <1>9 DEF AcceptInvite
<1>10. CASE member[Invitee].status # "revoked"
  BY <1>1, <1>3, <1>8, <1>10, UnderWay DEF AcceptInvite
<1>11. QED
  BY <1>9, <1>10

\* The dashboard revokes a member, or gives one another role.
LEMMA MembershipKeeps ==
    ASSUME AccessInv, NEW r \in Requests,
           SwitchMember(r) \/ \E u \in Users, role \in Roles : ChangeRole(r, u, role)
    PROVE  AccessInv'
<1>1. /\ UNCHANGED <<customer, rowLock, packsOf, signIn, gate, credential>>
      /\ req[r].pc \in {"switch", "new"} /\ ~At(r, "done") /\ ~At(r, "store")
  BY DEF SwitchMember, ChangeRole, At
<1>2. UNCHANGED <<rowLock, stored, alive, issued, lost>>
  BY <1>1 DEF credential
<1> DEFINE M == [role : Roles \cup {"none"}, status : {"none", "active", "revoked"}]
<1>3. member \in [Users -> M] /\ req[r] \in RequestRecord /\ 0 \in 0..issued
      /\ req[r].token \in 0..issued
  BY RequestTyped DEF AccessInv, TablesTyped, CredentialsTyped
<1>4. ~req[r].late
  BY <1>1, UnderWay DEF LateSteps
<1>5. CASE SwitchMember(r)
  <2> DEFINE u == req[r].user
  <2>1. member' = [member EXCEPT ![u].status = "revoked"] /\ Step(r, "revoke")
    BY <1>5 DEF SwitchMember
  <2>2. PICK q \in RequestRecord :
              /\ req' = [req EXCEPT ![r] = q] /\ q.pc = "revoke"
              /\ q.kind = req[r].kind /\ q.user = req[r].user /\ q.role = req[r].role
              /\ q.token = req[r].token /\ q.late = req[r].late
    <3>1. "revoke" \in RequestSteps
      BY DEF RequestSteps
    <3>2. QED
      BY <2>1, <3>1, StepTakes
  <2> HIDE DEF u
  <2>3. /\ member' \in [Users -> M]
        /\ \A v \in Users : v # u => member'[v] = member[v]
        /\ \A v \in Users : v = u => member'[v].status = "revoked"
    <3>1. CASE u \in Users
      <4> DEFINE m == [member[u] EXCEPT !.status = "revoked"]
      <4>1. member[u] \in M
        BY <1>3, <3>1
      <4>2. m \in M /\ m.status = "revoked"
        BY <4>1
      <4>3. member' = [member EXCEPT ![u] = m]
        BY <2>1
      <4> HIDE DEF m
      <4>4. QED
        BY <1>3, <3>1, <4>2, <4>3
    <3>2. CASE u \notin Users
      <4>1. member' = member
        BY <1>3, <2>1, <3>2
      <4>2. QED
        BY <1>3, <3>2, <4>1
    <3>3. QED
      BY <3>1, <3>2
  <2>4. TablesTyped'
    BY <1>1, <2>3 DEF AccessInv, TablesTyped, packsOf, signIn, gate
  <2>5. /\ \A v \in Users : /\ member[v].status = "revoked" => member'[v].status = "revoked"
                            /\ member'[v] = NotMember => member[v] = NotMember
        /\ ActiveOwners' \subseteq ActiveOwners
    BY <2>3 DEF ActiveOwners, Actives, NotMember
  <2>6. QED
    BY <1>1, <1>2, <1>3, <1>4, <2>2, <2>4, <2>5, UnderWay, MemberKeeps
<1>6. CASE \E u \in Users, role \in Roles : ChangeRole(r, u, role)
  <2>1. PICK u \in Users, role \in Roles : ChangeRole(r, u, role)
    BY <1>6
  <2> DEFINE m == [member[u] EXCEPT !.role = role]
             q == [Answered(r, TRUE) EXCEPT !.kind = "role"]
  <2>2. /\ member' = [member EXCEPT ![u] = m] /\ req' = [req EXCEPT ![r] = q]
        /\ member[u] # NotMember
    BY <2>1 DEF ChangeRole
  <2>3. m \in M /\ m.status = member[u].status /\ member[u] \in M
    BY <1>3
  <2>4. m # NotMember
    BY <2>3 DEF NotMember, Roles
  <2> HIDE DEF m
  <2>5. member' \in [Users -> M] /\ member'[u] = m /\ \A v \in Users : v # u => member'[v] = member[v]
    BY <1>3, <2>2, <2>3
  <2>6. TablesTyped'
    BY <1>1, <2>5 DEF AccessInv, TablesTyped, packsOf, signIn, gate
  <2>7. Answered(r, TRUE) \in RequestRecord /\ Answered(r, TRUE).pc = "done"
        /\ Answered(r, TRUE).late = req[r].late /\ Answered(r, TRUE).token = 0
    BY AnsweredKnown
  <2>8. "role" \in RequestKinds
    BY DEF RequestKinds
  <2>9. q \in RequestRecord /\ q.kind = "role" /\ q.pc = "done" /\ q.late = req[r].late
        /\ q.token = 0
    BY <2>7, <2>8 DEF RequestRecord
  <2> HIDE DEF q
  <2>10. \A v \in Users : /\ member[v].status = "revoked" => member'[v].status = "revoked"
                          /\ member'[v] = NotMember => member[v] = NotMember
    BY <2>2, <2>3, <2>4, <2>5
  <2>11. QED
    BY <1>1, <1>2, <1>3, <1>4, <2>2, <2>6, <2>9, <2>10, MemberKeeps
<1>7. QED
  BY <1>5, <1>6

-----------------------------------------------------------------------------
\* The steps that change a credential.

\* provisionLogin commits: the member, the credential, and the row is free again.
LEMMA CommitKeeps ==
    ASSUME AccessInv, NEW r \in Requests, CommitLogin(r)
    PROVE  AccessInv'
<1> DEFINE u == req[r].user
           new == [role |-> req[r].role, status |-> "active"]
           M == [role : Roles \cup {"none"}, status : {"none", "active", "revoked"}]
<1>1. /\ req[r].pc = "commit" /\ ~At(r, "done") /\ ~At(r, "store") /\ Step(r, "code")
      /\ customer' = IF customer = "absent" THEN "pending" ELSE customer
      /\ member' = IF member[u] # NotMember THEN member ELSE [member EXCEPT ![u] = new]
      /\ stored' = req[r].token /\ rowLock' = Nobody
      /\ UNCHANGED <<packsOf, signIn, gate, issued, alive, lost>>
  BY DEF CommitLogin, At
<1>2. /\ rowLock = r /\ req[r] \in RequestRecord /\ u \in Users /\ ~req[r].late
      /\ req[r].kind # "role" /\ member \in [Users -> M]
      /\ req[r].token \in alive /\ req[r].token \in 0..issued
  BY <1>1, RequestTyped, UnderWay DEF AccessInv, TablesTyped, CredentialsTyped, RequestIsSound,
     LoginIsAlone, CredentialIsPrivate, PersonSteps, LateSteps, PrivateSteps
<1>3. PICK q \in RequestRecord :
              /\ req' = [req EXCEPT ![r] = q] /\ q.pc = "code"
              /\ q.kind = req[r].kind /\ q.user = u /\ q.role = req[r].role
              /\ q.token = req[r].token /\ q.late = req[r].late
  <2>1. "code" \in RequestSteps
    BY DEF RequestSteps, PersonSteps
  <2>2. QED
    BY <1>1, <2>1, StepTakes
<1>4. /\ req' \in [Requests -> RequestRecord] /\ req'[r] = q
      /\ \A s \in Requests : s # r => req'[s] = req[s]
  BY <1>3, RequestTakes
<1>5. "code" \notin PrivateSteps \cup LateSteps /\ "commit" \in PrivateSteps
  BY DEF PrivateSteps, LateSteps
<1>6. new \in M /\ new.status = "active" /\ new.role = req[r].role /\ new # NotMember
  BY <1>2 DEF RequestRecord, NotMember
<1> HIDE DEF new, u
<1>7. /\ member' \in [Users -> M]
      /\ \A v \in Users : v # u => member'[v] = member[v]
      /\ member[u] # NotMember => member' = member
      /\ member[u] = NotMember => member'[u] = new
  BY <1>1, <1>2, <1>6
<1>8. TablesTyped'
  <2>1. customer' \in {"absent", "pending", "active", "suspended"} /\ rowLock' \in Requests \cup {Nobody}
    BY <1>1 DEF AccessInv, TablesTyped
  <2>2. QED
    BY <1>1, <1>7, <2>1 DEF AccessInv, TablesTyped, packsOf, signIn, gate
<1>9. RoleWasChanged => RoleWasChanged'
  BY <1>2, <1>4 DEF RoleWasChanged
<1>10. \A v \in Users : /\ member[v].status = "revoked" => member'[v].status = "revoked"
                        /\ member'[v] = NotMember => member[v] = NotMember
  BY <1>2, <1>6, <1>7 DEF NotMember
<1>11. ASSUME NEW s \in Requests
       PROVE  RequestIsSound(s)'
  <2>1. CASE s = r
    BY <1>2, <1>3, <1>4, <2>1 DEF RequestIsSound, LateStaysOut, LoginIsAlone, At
  <2>2. CASE s # r
    <3>1. RequestIsSound(s) /\ req'[s] = req[s]
      BY <1>4, <2>2 DEF AccessInv
    <3>2. req[s].pc \notin {"member", "commit"}
      BY <1>2, <2>2, <3>1 DEF RequestIsSound, LoginIsAlone
    <3>3. LateStaysOut(s)'
      BY <1>10, <3>1 DEF RequestIsSound, LateStaysOut, At, PersonSteps
    <3>4. QED
      BY <3>1, <3>2, <3>3 DEF RequestIsSound, LoginIsAlone, At
  <2>3. QED
    BY <2>1, <2>2
<1>12. ASSUME NEW s \in Requests
       PROVE  CredentialIsPrivate(s)'
  <2>1. CredentialIsPrivate(s) /\ CredentialIsPrivate(r)
    BY DEF AccessInv
  <2>2. QED
    BY <1>1, <1>3, <1>4, <1>5, <2>1 DEF CredentialIsPrivate
<1>13. CredentialsTyped'
  BY <1>1, <1>2, <1>3, <1>4 DEF AccessInv, CredentialsTyped
<1>14. StoredIsGood'
  BY <1>1, <1>2 DEF StoredIsGood
<1>15. RoleWasChanged' \/ \A v, w \in ActiveOwners' : v = w
  <2>1. CASE RoleWasChanged
    BY <1>9, <2>1
  <2>2. CASE ~RoleWasChanged
    <3>1. \A v, w \in ActiveOwners : v = w
      BY <2>2 DEF AccessInv
    <3>2. CASE member[u] # NotMember
      BY <1>7, <3>1, <3>2 DEF ActiveOwners, Actives
    <3>3. CASE member[u] = NotMember /\ req[r].role # "owner"
      BY <1>6, <1>7, <3>1, <3>3 DEF ActiveOwners, Actives
    <3>4. CASE member[u] = NotMember /\ req[r].role = "owner"
      <4>1. ActiveOwners = {}
        BY <1>1, <2>2, <3>4 DEF AccessInv, RequestIsSound, LoginIsAlone, At, u
      <4>2. ActiveOwners' \subseteq {u}
        BY <1>7, <4>1 DEF ActiveOwners, Actives
      <4>3. QED
        BY <4>2
    <3>5. QED
      BY <3>2, <3>3, <3>4
  <2>3. QED
    BY <2>1, <2>2
<1>16. QED
  BY <1>4, <1>8, <1>11, <1>12, <1>13, <1>14, <1>15 DEF AccessInv

\* HighLevel issues a credential, for a login or in place of the one it has just been given.
LEMMA CredentialKeeps ==
    ASSUME AccessInv, NEW r \in Requests, ExchangeHighLevel(r) \/ Rotate(r)
    PROVE  AccessInv'
<1> DEFINE new == issued + 1
           step == IF At(r, "exchange") THEN "tenant" ELSE "store"
           gone == IF At(r, "exchange") THEN {} ELSE {req[r].token}
           q == [req[r] EXCEPT !.pc = step, !.token = new]
<1>1. /\ req[r].pc \in {"exchange", "rotate"}
      /\ step \in {"tenant", "store"}
      /\ UNCHANGED <<people, packsOf, signIn, gate, stored, lost>>
  BY DEF ExchangeHighLevel, Rotate, At
<1>2. /\ req' = [req EXCEPT ![r] = q] /\ issued' = new /\ alive' = (alive \ gone) \cup {new}
  BY DEF ExchangeHighLevel, Rotate, At
<1>3. /\ req[r] \in RequestRecord /\ req[r].kind # "role" /\ issued \in Nat /\ new \in Nat
      /\ stored \in 0..issued /\ alive \subseteq 1..issued
      /\ \A s \in Requests : req[s].token \in 0..issued
  <2>1. ~At(r, "done")
    BY <1>1 DEF At
  <2>2. QED
    BY <2>1, RequestTyped, UnderWay DEF AccessInv, CredentialsTyped
<1>4. /\ \A x \in 0..issued : x # new /\ x \in 0..new
      /\ \A x \in 1..issued : x \in 1..new
      /\ new \in 0..new /\ new \in 1..new
  BY <1>3
<1>5. /\ step = "tenant" => req[r].pc = "exchange" /\ gone = {}
      /\ step = "store" => req[r].pc = "rotate" /\ gone = {req[r].token}
  BY <1>1 DEF At
<1>6. step \in RequestSteps
  BY <1>1 DEF RequestSteps, PrivateSteps
<1> HIDE DEF new, step, gone
<1>7. q \in RequestRecord
  BY <1>3, <1>6 DEF RequestRecord
<1>8. q.kind = req[r].kind /\ q.pc = step /\ q.user = req[r].user /\ q.late = req[r].late
      /\ q.token = new
  BY <1>3, <1>7 DEF RequestRecord
<1> HIDE DEF q
<1>9. /\ req' \in [Requests -> RequestRecord] /\ req'[r] = q
      /\ \A s \in Requests : s # r => req'[s] = req[s]
  BY <1>2, <1>7, RequestTakes
<1>10. UNCHANGED <<member, rowLock>> /\ ActiveOwners' = ActiveOwners
  BY <1>1 DEF people, ActiveOwners, Actives
<1>11. TablesTyped'
  BY <1>1 DEF AccessInv, TablesTyped, people, packsOf, signIn, gate
<1>12. RoleWasChanged => RoleWasChanged'
  BY <1>3, <1>9 DEF RoleWasChanged
<1>13. ASSUME NEW s \in Requests
       PROVE  RequestIsSound(s)'
  <2>1. RequestIsSound(s)
    BY DEF AccessInv
  <2>2. CASE s = r
    <3>1. "rotate" \notin LateSteps /\ "exchange" \in PersonSteps /\ "tenant" \in LateSteps
          /\ "store" \notin PersonSteps
      BY DEF LateSteps, PersonSteps
    <3>2. LateStaysOut(s)'
      BY <1>1, <1>5, <1>8, <1>9, <1>10, <2>1, <2>2, <3>1 DEF RequestIsSound, LateStaysOut, At
    <3>3. q.pc \in PersonSteps => q.user \in Users
      BY <1>1, <1>5, <1>8, <2>1, <2>2, <3>1 DEF RequestIsSound
    <3>4. q.pc \notin {"member", "commit", "claim", "join", "grant", "switch"}
      BY <1>1, <1>8
    <3>5. QED
      BY <1>3, <1>8, <1>9, <2>2, <3>2, <3>3, <3>4 DEF RequestIsSound, LoginIsAlone, At
  <2>3. CASE s # r
    BY <1>9, <1>10, <1>12, <2>1, <2>3 DEF RequestIsSound, LateStaysOut, LoginIsAlone, At
  <2>4. QED
    BY <2>2, <2>3
<1>14. ASSUME NEW s \in Requests
       PROVE  CredentialIsPrivate(s)'
  <2>1. CredentialIsPrivate(s)
    BY DEF AccessInv
  <2>2. CASE s = r
    BY <1>1, <1>2, <1>3, <1>4, <1>8, <1>9, <2>2 DEF CredentialIsPrivate
  <2>3. CASE s # r
    <3>1. SUFFICES ASSUME req[s].pc \in PrivateSteps
                   PROVE  /\ req[s].token \in alive' /\ req[s].token # stored'
                          /\ \A t \in Requests \ {s} :
                                req'[t].pc \in PrivateSteps \cup {"rotate"} =>
                                   req'[t].token # req[s].token
      BY <1>9, <2>3 DEF CredentialIsPrivate
    <3>2. req[s].token \notin gone
      BY <1>1, <1>5, <2>1, <2>3, <3>1 DEF CredentialIsPrivate
    <3>3. req[s].token \in alive /\ req[s].token # stored' /\ req[s].token # new
      BY <1>1, <1>3, <1>4, <2>1, <3>1 DEF CredentialIsPrivate
    <3>4. QED
      BY <1>2, <1>8, <1>9, <2>1, <2>3, <3>1, <3>2, <3>3 DEF CredentialIsPrivate
  <2>4. QED
    BY <2>2, <2>3
<1>15. CredentialsTyped'
  <2>1. alive' \subseteq 1..issued'
    BY <1>2, <1>3, <1>4
  <2>2. \A s \in Requests : req'[s].token \in 0..issued'
    BY <1>2, <1>3, <1>4, <1>8, <1>9
  <2>3. QED
    BY <1>1, <1>2, <1>3, <1>4, <2>1, <2>2 DEF CredentialsTyped
<1>16. StoredIsGood'
  <2>1. CASE step = "store"
    BY <1>8, <1>9, <2>1 DEF StoredIsGood, At
  <2>2. CASE step = "tenant"
    <3>1. alive \subseteq alive' /\ ~At(r, "store")
      BY <1>2, <1>5, <2>2 DEF At
    <3>2. \A s \in Requests : At(s, "store") => At(s, "store")'
      BY <1>9, <3>1 DEF At
    <3>3. QED
      BY <1>1, <3>1, <3>2 DEF AccessInv, StoredIsGood
  <2>3. QED
    BY <1>1, <2>1, <2>2
<1>17. QED
  BY <1>9, <1>10, <1>11, <1>12, <1>13, <1>14, <1>15, <1>16 DEF AccessInv

\* updateConnectionCredential: the rotated credential is the stored one.
LEMMA StoreKeeps ==
    ASSUME AccessInv, NEW r \in Requests, StoreCredential(r)
    PROVE  AccessInv'
<1>1. /\ req[r].pc = "store" /\ ~At(r, "done") /\ Step(r, "send") /\ stored' = req[r].token
      /\ UNCHANGED <<people, packsOf, signIn, gate, issued, alive, lost>>
  BY DEF StoreCredential, At
<1>2. /\ req[r].kind # "role" /\ ~req[r].late /\ req[r].token \in alive
      /\ req[r].token \in 0..issued
  BY <1>1, UnderWay DEF AccessInv, CredentialsTyped, CredentialIsPrivate, PrivateSteps, LateSteps
<1>3. PICK q \in RequestRecord :
              /\ req' = [req EXCEPT ![r] = q] /\ q.pc = "send"
              /\ q.kind = req[r].kind /\ q.user = req[r].user /\ q.role = req[r].role
              /\ q.token = req[r].token /\ q.late = req[r].late
  <2>1. "send" \in RequestSteps
    BY DEF RequestSteps
  <2>2. QED
    BY <1>1, <2>1, StepTakes
<1>4. /\ req' \in [Requests -> RequestRecord] /\ req'[r] = q
      /\ \A s \in Requests : s # r => req'[s] = req[s]
  BY <1>3, RequestTakes
<1>5. "send" \notin PrivateSteps \cup PersonSteps /\ "store" \in PrivateSteps
  BY DEF PrivateSteps, PersonSteps, LateSteps
<1>6. UNCHANGED <<member, rowLock>> /\ ActiveOwners' = ActiveOwners
  BY <1>1 DEF people, ActiveOwners, Actives
<1>7. TablesTyped'
  BY <1>1 DEF AccessInv, TablesTyped, people, packsOf, signIn, gate
<1>8. RoleWasChanged => RoleWasChanged'
  BY <1>2, <1>4 DEF RoleWasChanged
<1>9. ASSUME NEW s \in Requests
      PROVE  RequestIsSound(s)' /\ CredentialIsPrivate(s)'
  <2>1. RequestIsSound(s) /\ CredentialIsPrivate(s) /\ CredentialIsPrivate(r)
    BY DEF AccessInv
  <2>2. CASE s = r
    BY <1>2, <1>3, <1>4, <1>5, <2>2
       DEF RequestIsSound, LateStaysOut, LoginIsAlone, At, CredentialIsPrivate
  <2>3. CASE s # r
    <3>1. RequestIsSound(s)'
      BY <1>4, <1>6, <1>8, <2>1, <2>3 DEF RequestIsSound, LateStaysOut, LoginIsAlone, At
    <3>2. CredentialIsPrivate(s)'
      BY <1>1, <1>3, <1>4, <1>5, <2>1, <2>3 DEF CredentialIsPrivate
    <3>3. QED
      BY <3>1, <3>2
  <2>4. QED
    BY <2>2, <2>3
<1>10. CredentialsTyped' /\ StoredIsGood'
  BY <1>1, <1>2, <1>3, <1>4 DEF AccessInv, CredentialsTyped, StoredIsGood
<1>11. QED
  BY <1>4, <1>6, <1>7, <1>8, <1>9, <1>10 DEF AccessInv

-----------------------------------------------------------------------------

LEMMA OutsideKeepsAccess ==
    ASSUME AccessInv,
           (\E s \in LoginStates : Register(s)) \/ ExpireAccess \/ AgeCache \/ NextMinute
    PROVE  AccessInv'
<1>1. /\ UNCHANGED <<req, people, packsOf, stored, issued, alive, lost>>
      /\ UNCHANGED <<invite, codes, tokens, setting>>
      /\ rate' \in {rate, 0} /\ pausedCache' \in {pausedCache, "old"}
      /\ login' \in [LoginStates -> {"new", "open", "gone"}]
  BY DEF Register, ExpireAccess, AgeCache, NextMinute, signIn, gate, credential, AccessInv, TablesTyped
<1>2. TablesTyped'
  BY <1>1 DEF AccessInv, TablesTyped, people, packsOf
<1>3. QED
  BY <1>1, <1>2 DEF AccessInv, CredentialsTyped, RequestIsSound, LateStaysOut, LoginIsAlone, At,
     CredentialIsPrivate, RoleWasChanged, ActiveOwners, Actives, StoredIsGood, people

LEMMA AccessStepInv == AccessInv /\ [AccessNext]_accessVars => AccessInv'
<1> SUFFICES ASSUME AccessInv, [AccessNext]_accessVars PROVE AccessInv'
  OBVIOUS
<1>1. CASE UNCHANGED accessVars
  BY <1>1 DEF accessVars, people, packsOf, signIn, gate, credential, AccessInv, TablesTyped,
     CredentialsTyped, RequestIsSound, LateStaysOut, LoginIsAlone, At, CredentialIsPrivate,
     RoleWasChanged, ActiveOwners, Actives, StoredIsGood
<1>2. ASSUME NEW r \in Requests, SignInNext(r)
      PROVE  AccessInv'
  <2>1. CASE \E s \in LoginStates : Form(r, s) \/ \E u \in Installers : Callback(r, s, u)
    BY <2>1, SignInKeeps
  <2>2. CASE ExchangeHighLevel(r) \/ LockTenant(r) \/ InsertTenant(r) \/ RankMember(r)
    BY <2>2, CredentialKeeps, LockKeeps, RankKeeps
  <2>3. CASE CommitLogin(r) \/ ClaimInvite(r) \/ Renew(r) \/ CreateCode(r)
    BY <2>3, CommitKeeps, InviteFormKeeps, IssueKeepsAccess
  <2>4. CASE \E role \in InviteRoles : AcceptInvite(r, role)
    BY <2>4, JoinKeeps
  <2>5. QED
    BY <1>2, <2>1, <2>2, <2>3, <2>4 DEF SignInNext
<1>3. ASSUME NEW r \in Requests, TokenNext(r)
      PROVE  AccessInv'
  BY <1>3, CallerKeeps, TokenKeeps, IssueKeepsAccess, OwnerKeeps DEF TokenNext
<1>4. ASSUME NEW r \in Requests, CallNext(r)
      PROVE  AccessInv'
  BY <1>4, CallerKeeps, ReadKeeps, GateKeeps, CredentialKeeps, StoreKeeps DEF CallNext
<1>5. ASSUME NEW r \in Requests, AdminNext(r)
      PROVE  AccessInv'
  <2>1. CASE \/ \E preset \in Presets : Approve(r, preset) \/ SaveGrants(r, preset)
             \/ \E status \in {"active", "suspended"} : SetStatus(r, status)
             \/ \E cells \in RoleForms : SaveMatrix(r, cells)
             \/ \E u \in Users : RevokeMember(r, u)
             \/ MakeInvite(r)
    BY <2>1, BeginKeeps
  <2>2. CASE \/ \E preset \in Presets, update \in BOOLEAN : Provision(r, preset, update)
             \/ \E paused \in BOOLEAN : SetPaused(r, paused)
    BY <2>2, ProvisionKeeps
  <2>3. CASE SwitchMember(r) \/ \E u \in Users, role \in Roles : ChangeRole(r, u, role)
    BY <2>3, MembershipKeeps
  <2>4. CASE \/ CreateInvite(r) \/ WriteGrant(r) \/ WriteCell(r)
             \/ SwitchTenant(r) \/ RevokeTokens(r)
    BY <2>4, WriteKeeps, DashboardKeeps
  <2>5. QED
    BY <1>5, <2>1, <2>2, <2>3, <2>4 DEF AdminNext
<1>6. ASSUME NEW r \in Requests, Break(r)
      PROVE  AccessInv'
  BY <1>6, BreakKeeps
<1>7. CASE (\E s \in LoginStates : Register(s)) \/ ExpireAccess \/ AgeCache \/ NextMinute
  BY <1>7, OutsideKeepsAccess
<1>8. QED
  BY <1>1, <1>2, <1>3, <1>4, <1>5, <1>6, <1>7 DEF AccessNext

LEMMA AccessInvariant == AccessSpec => []AccessInv
<1>1. AccessInit => AccessInv
  BY AccessInitInv
<1>2. AccessInv /\ [AccessNext]_accessVars => AccessInv'
  BY AccessStepInv
<1>3. QED
  BY <1>1, <1>2, PTL DEF AccessSpec

\* The tables and the requests of the report service keep their types.
THEOREM AccessTypeCorrect == AccessSpec => []AccessTypeOK
<1>1. AccessInv => AccessTypeOK
  BY DEF AccessInv, TablesTyped, CredentialsTyped, AccessTypeOK, RequestRecord
<1>2. QED
  BY <1>1, AccessInvariant, PTL

\* Who has been revoked is out for good: no sign-in, refresh or call that begins afterwards
\* succeeds (provisionLogin, acceptInvite, resolvePrincipal), however many requests overlap.
THEOREM RevokedPeopleStayOut == AccessSpec => []RevokedForGood
<1>1. AccessInv => RevokedForGood
  BY DEF AccessInv, RequestIsSound, LateStaysOut, RevokedForGood
<1>2. QED
  BY <1>1, AccessInvariant, PTL

\* First logins that overlap make one owner (provisionLogin locks the customer's row); two
\* only if the dashboard changes a role.
THEOREM LoginsMakeOneOwner == AccessSpec => []OneOwnerByLogin
<1>1. AccessInv => OneOwnerByLogin
  BY DEF AccessInv, RoleWasChanged, ActiveOwners, OneOwnerByLogin
<1>2. QED
  BY <1>1, AccessInvariant, PTL

\* The credential in report_connections is one HighLevel takes, unless a rotated one is on
\* its way to the table or was lost before it (refreshCredential, which takes no lock).
THEOREM StoredCredentialIsAlive == AccessSpec => []StoredCredentialWorks
<1>1. AccessInv => StoredCredentialWorks
  BY DEF AccessInv, StoredIsGood, StoredCredentialWorks
<1>2. QED
  BY <1>1, AccessInvariant, PTL

\* What a transition may never do: give a revoked membership back, whatever handler runs.
THEOREM RevocationIsFinal ==
    AccessSpec => [][\A u \in Users : member[u].status = "revoked"
                                        => member'[u].status = "revoked"]_accessVars
<1>1. AccessInv /\ AccessInv' /\ [AccessNext]_accessVars
        => [\A u \in Users : member[u].status = "revoked"
                               => member'[u].status = "revoked"]_accessVars
  <2> SUFFICES ASSUME AccessInv, AccessNext, NEW u \in Users, member[u].status = "revoked"
               PROVE  member'[u].status = "revoked"
    BY DEF accessVars
  <2>1. member \in [Users -> [role : Roles \cup {"none"}, status : {"none", "active", "revoked"}]]
    BY DEF AccessInv, TablesTyped
  <2>2. CASE UNCHANGED member
    BY <2>2
  <2>3. ASSUME NEW r \in Requests, CommitLogin(r) \/ \E role \in InviteRoles : AcceptInvite(r, role)
        PROVE  member'[u].status = "revoked"
    BY <2>1, <2>3 DEF CommitLogin, AcceptInvite, NotMember
  <2>4. ASSUME NEW r \in Requests, SwitchMember(r)
        PROVE  member'[u].status = "revoked"
    BY <2>1, <2>4 DEF SwitchMember
  <2>5. ASSUME NEW r \in Requests, NEW v \in Users, NEW role \in Roles, ChangeRole(r, v, role)
        PROVE  member'[u].status = "revoked"
    BY <2>1, <2>5 DEF ChangeRole
  <2>6. ASSUME ~UNCHANGED member
        PROVE  \E r \in Requests :
                  \/ CommitLogin(r) \/ \E role \in InviteRoles : AcceptInvite(r, role)
                  \/ SwitchMember(r) \/ \E v \in Users, role \in Roles : ChangeRole(r, v, role)
    <3>1. PICK r \in Requests : SignInNext(r) \/ TokenNext(r) \/ CallNext(r) \/ AdminNext(r) \/ Break(r)
      BY <2>6 DEF AccessNext, Register, ExpireAccess, AgeCache, NextMinute, people
    <3>2. CASE SignInNext(r)
      BY <2>6, <3>2 DEF SignInNext, Form, Callback, ConsumeLogin, ExchangeHighLevel, LockTenant,
         InsertTenant, RankMember, ClaimInvite, Renew, CreateCode, people
    <3>3. CASE TokenNext(r)
      BY <2>6, <3>3 DEF TokenNext, ExchangeCode, ConsumeRefresh, InsertToken, RevokeFamily,
         CheckOwner, people
    <3>4. CASE CallNext(r)
      BY <2>6, <3>4 DEF CallNext, Call, Authenticate, CheckPause, ReadSetting, CheckPacks,
         CachePause, ReadConnection, Rotate, StoreCredential, Send, people
    <3>5. CASE AdminNext(r)
      BY <2>6, <3>5 DEF AdminNext, Approve, SaveGrants, SetStatus, SaveMatrix, RevokeMember,
         MakeInvite, Begin, Provision, SetPaused, CreateInvite, WriteGrant, WriteCell,
         SwitchTenant, RevokeTokens, people
    <3>6. QED
      BY <2>6, <3>1, <3>2, <3>3, <3>4, <3>5 DEF Break
  <2>7. QED
    BY <2>2, <2>3, <2>4, <2>5, <2>6
<1>2. QED
  BY <1>1, AccessInvariant, PTL DEF AccessSpec

------------------------------------------------------------------------------
\* The bulkhead

\* Holders is decided by pc alone, so a caller that takes a slot or gives one
\* up adds itself to, or removes itself from, a set of known size.
LEMMA HoldersGrow ==
    ASSUME TypeOK, SlotsAreCounted, NEW c \in Callers, c \notin Holders,
           NEW p \in {"granted", "running", "auditing"}, pc' = [pc EXCEPT ![c] = p]
    PROVE  /\ Holders' = Holders \cup {c}
           /\ IsFiniteSet(Holders')
           /\ Cardinality(Holders') = active + 1
<1>1. Holders' = Holders \cup {c}
  BY DEF TypeOK, Holders
<1>2. IsFiniteSet(Holders) /\ active = Cardinality(Holders)
  BY DEF SlotsAreCounted
<1>3. IsFiniteSet(Holders \cup {c}) /\ Cardinality(Holders \cup {c}) = Cardinality(Holders) + 1
  BY <1>2, FS_AddElement
<1>4. QED
  BY <1>1, <1>2, <1>3

LEMMA HoldersShrink ==
    ASSUME TypeOK, SlotsAreCounted, NEW c \in Callers, c \in Holders,
           pc' = [pc EXCEPT ![c] = "idle"]
    PROVE  /\ Holders' = Holders \ {c}
           /\ IsFiniteSet(Holders')
           /\ Cardinality(Holders') = active - 1
           /\ active > 0
<1>1. Holders' = Holders \ {c}
  BY DEF TypeOK, Holders
<1>2. IsFiniteSet(Holders) /\ active = Cardinality(Holders)
  BY DEF SlotsAreCounted
<1>3. IsFiniteSet(Holders \ {c}) /\ Cardinality(Holders \ {c}) = Cardinality(Holders) - 1
  BY <1>2, FS_RemoveElement
<1>4. Cardinality(Holders \ {c}) \in Nat
  BY <1>3, FS_CardinalityType
<1>5. active \in Nat
  BY DEF TypeOK
<1>6. QED
  BY <1>1, <1>2, <1>3, <1>4, <1>5

\* Handing a slot over exchanges two callers in Holders.
LEMMA HoldersExchange ==
    ASSUME TypeOK, SlotsAreCounted, NEW c \in Callers, c \in Holders,
           NEW n \in Callers, n \notin Holders,
           pc' = [pc EXCEPT ![c] = "idle", ![n] = "granted"]
    PROVE  /\ Holders' = (Holders \ {c}) \cup {n}
           /\ IsFiniteSet(Holders')
           /\ Cardinality(Holders') = active
<1>1. Holders' = (Holders \ {c}) \cup {n}
  BY DEF TypeOK, Holders
<1>2. IsFiniteSet(Holders) /\ active = Cardinality(Holders)
  BY DEF SlotsAreCounted
<1>3. IsFiniteSet(Holders \ {c}) /\ Cardinality(Holders \ {c}) = Cardinality(Holders) - 1
  BY <1>2, FS_RemoveElement
<1>4. /\ IsFiniteSet((Holders \ {c}) \cup {n})
      /\ Cardinality((Holders \ {c}) \cup {n}) = Cardinality(Holders \ {c}) + 1
  BY <1>3, FS_AddElement
<1>5. active \in Nat
  BY DEF TypeOK
<1>6. QED
  BY <1>1, <1>2, <1>3, <1>4, <1>5

-----------------------------------------------------------------------------

LEMMA InitIndInv == Init => IndInv
<1> SUFFICES ASSUME Init PROVE IndInv
  OBVIOUS
<1> USE LimitsAssumption DEF Init
<1>1. TypeOK
  BY DEF TypeOK, States
<1>2. QueueIsExact
  BY DEF QueueIsExact
<1>3. SlotsAreCounted
  <2>1. Holders = {}
    BY DEF Holders
  <2>2. QED
    BY <2>1, FS_EmptySet DEF SlotsAreCounted
<1>4. NoSlotIdlesWhileCallersWait
  BY DEF NoSlotIdlesWhileCallersWait
<1>5. QED
  BY <1>1, <1>2, <1>3, <1>4 DEF IndInv

LEMMA EnterKeeps == ASSUME IndInv, NEW c \in Callers, Enter(c) PROVE IndInv'
<1> USE LimitsAssumption DEF Enter
<1>0. TypeOK /\ QueueIsExact /\ SlotsAreCounted /\ NoSlotIdlesWhileCallersWait
  BY DEF IndInv
<1>1. TypeOK'
  BY <1>0 DEF TypeOK, States
<1>2. QueueIsExact'
  BY <1>0 DEF TypeOK, QueueIsExact, States
<1>3. c \notin Holders
  BY DEF Holders
<1>4. SlotsAreCounted'
  <2>1. pc' = [pc EXCEPT ![c] = "granted"]
    OBVIOUS
  <2>2. IsFiniteSet(Holders') /\ Cardinality(Holders') = active + 1
    BY <1>0, <1>3, <2>1, HoldersGrow
  <2>3. QED
    BY <1>0, <2>2 DEF SlotsAreCounted, TypeOK
<1>5. NoSlotIdlesWhileCallersWait'
  BY <1>0 DEF NoSlotIdlesWhileCallersWait, TypeOK
<1>6. QED
  BY <1>1, <1>2, <1>4, <1>5 DEF IndInv

LEMMA JoinKeepsSlots == ASSUME IndInv, NEW c \in Callers, Join(c) PROVE IndInv'
<1> USE LimitsAssumption DEF Join
<1>0. TypeOK /\ QueueIsExact /\ SlotsAreCounted /\ NoSlotIdlesWhileCallersWait
  BY DEF IndInv
<1>1. /\ Len(waiters') = Len(waiters) + 1
      /\ \A i \in 1..Len(waiters) : waiters'[i] = waiters[i]
      /\ waiters'[Len(waiters) + 1] = c
      /\ Len(waiters) \in Nat
  BY <1>0 DEF TypeOK
<1>2. TypeOK'
  BY <1>0, <1>1 DEF TypeOK, States
<1>3. \A i \in 1..Len(waiters) : waiters[i] \in Callers /\ waiters[i] # c
  BY <1>0 DEF TypeOK, QueueIsExact
<1>4. QueueIsExact'
  <2>1. \A i \in 1..Len(waiters') : i \in 1..Len(waiters) \/ i = Len(waiters) + 1
    BY <1>1
  <2>2. \A i \in 1..Len(waiters') : pc'[waiters'[i]] = "waiting"
    BY <1>0, <1>1, <1>3, <2>1 DEF TypeOK, QueueIsExact
  <2>3. \A i, j \in 1..Len(waiters') : waiters'[i] = waiters'[j] => i = j
    BY <1>0, <1>1, <1>3, <2>1 DEF QueueIsExact
  <2>4. ASSUME NEW d \in Callers, pc'[d] = "waiting"
        PROVE  \E i \in 1..Len(waiters') : waiters'[i] = d
    <3>1. CASE d = c
      BY <1>1, <3>1
    <3>2. CASE d # c
      <4>1. PICK i \in 1..Len(waiters) : waiters[i] = d
        BY <1>0, <2>4, <3>2 DEF TypeOK, QueueIsExact
      <4>2. QED
        BY <1>1, <4>1
    <3>3. QED
      BY <3>1, <3>2
  <2>5. QED
    BY <2>2, <2>3, <2>4 DEF QueueIsExact
<1>5. SlotsAreCounted'
  <2>1. Holders' = Holders
    BY <1>0 DEF Holders, TypeOK
  <2>2. QED
    BY <1>0, <2>1 DEF SlotsAreCounted
<1>6. NoSlotIdlesWhileCallersWait'
  BY <1>0 DEF NoSlotIdlesWhileCallersWait, SlotsAreCounted, TypeOK
<1>7. QED
  BY <1>2, <1>4, <1>5, <1>6 DEF IndInv

\* The steps that touch neither the counter nor the queue, and move a caller
\* within, or outside, the set of holders.
LEMMA QuietStepKeeps ==
    ASSUME IndInv, NEW c \in Callers,
           Refuse(c) \/ Refused(c) \/ Start(c) \/ Finish(c)
    PROVE  IndInv'
<1>0. TypeOK /\ QueueIsExact /\ SlotsAreCounted /\ NoSlotIdlesWhileCallersWait
  BY DEF IndInv
<1> USE DEF Refuse, Refused, Start, Finish
<1>1. TypeOK'
  BY <1>0 DEF TypeOK, States
<1>2. QueueIsExact'
  BY <1>0 DEF TypeOK, QueueIsExact
<1>3. Holders' = Holders
  BY <1>0 DEF Holders, TypeOK
<1>4. SlotsAreCounted'
  BY <1>0, <1>3 DEF SlotsAreCounted
<1>5. NoSlotIdlesWhileCallersWait'
  BY <1>0 DEF NoSlotIdlesWhileCallersWait
<1>6. QED
  BY <1>1, <1>2, <1>4, <1>5 DEF IndInv

LEMMA ReleaseKeeps == ASSUME IndInv, NEW c \in Callers, Release(c) PROVE IndInv'
<1> USE LimitsAssumption
<1>0. TypeOK /\ QueueIsExact /\ SlotsAreCounted /\ NoSlotIdlesWhileCallersWait
  BY DEF IndInv
<1>1. pc[c] = "auditing" /\ c \in Holders
  BY DEF Release, Holders
<1>2. CASE waiters = <<>>
  <2>1. pc' = [pc EXCEPT ![c] = "idle"] /\ active' = active - 1 /\ waiters' = waiters
    BY <1>2 DEF Release
  <2>2. /\ IsFiniteSet(Holders') /\ Cardinality(Holders') = active - 1
        /\ active > 0
    BY <1>0, <1>1, <2>1, HoldersShrink
  <2>3. TypeOK'
    BY <1>0, <2>1, <2>2 DEF TypeOK, States
  <2>4. QueueIsExact'
    BY <1>0, <1>1, <2>1 DEF TypeOK, QueueIsExact
  <2>5. SlotsAreCounted'
    BY <1>0, <2>1, <2>2 DEF TypeOK, SlotsAreCounted
  <2>6. NoSlotIdlesWhileCallersWait'
    BY <1>2, <2>1 DEF NoSlotIdlesWhileCallersWait
  <2>7. QED
    BY <2>3, <2>4, <2>5, <2>6 DEF IndInv
<1>3. CASE waiters # <<>>
  <2> DEFINE n == waiters[1]
  <2>1. /\ Len(waiters) \in Nat /\ Len(waiters) > 0
        /\ Head(waiters) = waiters[1]
        /\ n \in Callers
    BY <1>0, <1>3 DEF TypeOK
  <2>2. pc[n] = "waiting" /\ n \notin Holders /\ n # c
    BY <1>0, <1>1, <2>1 DEF QueueIsExact, Holders
  <2>3. /\ pc' = [pc EXCEPT ![c] = "idle", ![n] = "granted"]
        /\ waiters' = Tail(waiters) /\ active' = active
    BY <1>3, <2>1 DEF Release
  <2>4. /\ waiters' \in Seq(Callers)
        /\ Len(waiters') = Len(waiters) - 1
        /\ \A i \in 1..Len(waiters') : waiters'[i] = waiters[i + 1]
    BY <1>0, <1>3, <2>3 DEF TypeOK
  <2>5. \A i \in 1..Len(waiters') : i + 1 \in 1..Len(waiters) /\ waiters[i + 1] # n
    BY <1>0, <2>1, <2>4 DEF QueueIsExact
  <2>6. TypeOK'
    BY <1>0, <2>1, <2>3, <2>4 DEF TypeOK, States
  <2>7. QueueIsExact'
    <3>1. \A i \in 1..Len(waiters') : pc'[waiters'[i]] = "waiting"
      <4> SUFFICES ASSUME NEW i \in 1..Len(waiters') PROVE pc'[waiters'[i]] = "waiting"
        OBVIOUS
      <4>1. /\ waiters'[i] = waiters[i + 1] /\ waiters[i + 1] # n
            /\ i + 1 \in 1..Len(waiters)
        BY <2>4, <2>5
      <4>2. pc[waiters[i + 1]] = "waiting" /\ waiters[i + 1] \in Callers
        BY <1>0, <4>1 DEF QueueIsExact, TypeOK
      <4>3. QED
        BY <1>0, <1>1, <2>3, <4>1, <4>2 DEF TypeOK
    <3>2. \A i, j \in 1..Len(waiters') : waiters'[i] = waiters'[j] => i = j
      <4> SUFFICES ASSUME NEW i \in 1..Len(waiters'), NEW j \in 1..Len(waiters'),
                          waiters'[i] = waiters'[j]
                   PROVE  i = j
        OBVIOUS
      <4>1. waiters[i + 1] = waiters[j + 1] /\ i + 1 \in 1..Len(waiters) /\ j + 1 \in 1..Len(waiters)
        BY <2>4, <2>5
      <4>2. i + 1 = j + 1
        BY <1>0, <4>1 DEF QueueIsExact
      <4>3. QED
        BY <4>2
    <3>3. ASSUME NEW d \in Callers, pc'[d] = "waiting"
          PROVE  \E i \in 1..Len(waiters') : waiters'[i] = d
      <4>1. pc[d] = "waiting" /\ d # n
        BY <1>0, <2>1, <2>2, <2>3, <3>3 DEF TypeOK
      <4>2. PICK k \in 1..Len(waiters) : waiters[k] = d
        BY <1>0, <4>1 DEF QueueIsExact
      <4>3. k # 1 /\ k - 1 \in 1..Len(waiters') /\ waiters'[k - 1] = waiters[k]
        <5>1. k # 1
          BY <4>1, <4>2
        <5>2. k - 1 \in 1..Len(waiters')
          BY <2>1, <2>4, <5>1
        <5>3. waiters'[k - 1] = waiters[(k - 1) + 1]
          BY <2>4, <5>2
        <5>4. QED
          BY <5>1, <5>2, <5>3
      <4>4. QED
        BY <4>2, <4>3
    <3>4. QED
      BY <3>1, <3>2, <3>3 DEF QueueIsExact
  <2>8. SlotsAreCounted'
    <3>1. IsFiniteSet(Holders') /\ Cardinality(Holders') = active
      BY <1>0, <1>1, <2>1, <2>2, <2>3, HoldersExchange
    <3>2. QED
      BY <1>0, <2>3, <3>1 DEF SlotsAreCounted
  <2>9. NoSlotIdlesWhileCallersWait'
    BY <1>0, <1>3, <2>3 DEF NoSlotIdlesWhileCallersWait
  <2>10. QED
    BY <2>6, <2>7, <2>8, <2>9 DEF IndInv
<1>4. QED
  BY <1>2, <1>3

LEMMA StepIndInv == IndInv /\ [Next]_vars => IndInv'
<1> SUFFICES ASSUME IndInv, [Next]_vars PROVE IndInv'
  OBVIOUS
<1>1. ASSUME NEW c \in Callers, Enter(c) PROVE IndInv'
  BY <1>1, EnterKeeps
<1>2. ASSUME NEW c \in Callers, Join(c) PROVE IndInv'
  BY <1>2, JoinKeepsSlots
<1>3. ASSUME NEW c \in Callers, Refuse(c) \/ Refused(c) \/ Start(c) \/ Finish(c) PROVE IndInv'
  BY <1>3, QuietStepKeeps
<1>4. ASSUME NEW c \in Callers, Release(c) PROVE IndInv'
  BY <1>4, ReleaseKeeps
<1>5. ASSUME UNCHANGED vars PROVE IndInv'
  BY <1>5 DEF vars, IndInv, TypeOK, QueueIsExact, SlotsAreCounted,
              NoSlotIdlesWhileCallersWait, Holders
<1>6. QED
  BY <1>1, <1>2, <1>3, <1>4, <1>5 DEF Next, Advance

LEMMA IndInvHolds == Spec => []IndInv
  BY InitIndInv, StepIndInv, PTL DEF Spec

-----------------------------------------------------------------------------

\* The queue never outgrows MaxQueue, for every limit.
THEOREM TypeCorrect == Spec => []TypeOK
<1>1. IndInv => TypeOK
  BY DEF IndInv
<1>2. QED
  BY <1>1, IndInvHolds, PTL

\* No slot is leaked or counted twice and the limit is never exceeded, for
\* every number of callers and every limit.
THEOREM SlotsCounted == Spec => []SlotsAreCounted
<1>1. IndInv => SlotsAreCounted
  BY DEF IndInv
<1>2. QED
  BY <1>1, IndInvHolds, PTL

\* A call never waits beside a free slot.
THEOREM NoIdleSlot == Spec => []NoSlotIdlesWhileCallersWait
<1>1. IndInv => NoSlotIdlesWhileCallersWait
  BY DEF IndInv
<1>2. QED
  BY <1>1, IndInvHolds, PTL

LEMMA StepInOrder ==
    ASSUME IndInv, [Next]_vars, NEW c \in Callers,
           c \notin Holders, c \in Holders', waiters # <<>>
    PROVE  c = Head(waiters)
<1>0. TypeOK /\ active = MaxConcurrent
  BY DEF IndInv, NoSlotIdlesWhileCallersWait
<1>1. ASSUME NEW d \in Callers, Enter(d) PROVE FALSE
  BY <1>0, <1>1, LimitsAssumption DEF Enter
<1>2. ASSUME NEW d \in Callers, Join(d) \/ Refuse(d) \/ Refused(d) PROVE FALSE
  BY <1>0, <1>2 DEF Join, Refuse, Refused, Holders, TypeOK
<1>3. ASSUME NEW d \in Callers, Start(d) \/ Finish(d) PROVE FALSE
  BY <1>0, <1>3 DEF Start, Finish, Holders, TypeOK
<1>4. ASSUME NEW d \in Callers, Release(d) PROVE c = Head(waiters)
  BY <1>0, <1>4 DEF Release, Holders, TypeOK
<1>5. ASSUME UNCHANGED vars PROVE FALSE
  BY <1>5 DEF vars, Holders
<1>6. QED
  BY <1>1, <1>2, <1>3, <1>4, <1>5 DEF Next, Advance

\* Slots are handed out in the order the calls arrived.
THEOREM FirstComeFirstServed == Spec => NobodyOvertakes
<1>1. IndInv /\ [Next]_vars =>
        [\A c \in Callers :
            c \notin Holders /\ c \in Holders' /\ waiters # <<>> => c = Head(waiters)]_vars
  BY StepInOrder
<1>2. QED
  BY <1>1, IndInvHolds, PTL DEF Spec, NobodyOvertakes
=============================================================================
