-------------------------- MODULE ProvisioningProofs --------------------------
(***************************************************************************)
(* What holds of tenants, owners, locations and credentials for any number *)
(* of logins and connects, and of the tokens installations bring for any   *)
(* number of sub-accounts, requests and installations.                     *)
(***************************************************************************)
EXTENDS Provisioning, InstallTokens, TLAPS

USE NilAssumption

LEMMA InitInvariant == Init => IndInv
<1> SUFFICES ASSUME Init PROVE IndInv
  OBVIOUS
<1>1. TypeOK
  BY DEF Init, TypeOK, Connection, Connected, Request, NoRequest, Roles
<1>2. \A r \in Requests : req[r] = NoRequest
  BY DEF Init
<1>3. References
  BY <1>1, <1>2 DEF Init, TypeOK, References, Connection, Connected, NoRequest, NoConnection
<1>4. KeysAreHeld /\ RolesAreDecided
  BY <1>2 DEF KeysAreHeld, RolesAreDecided, HoldsConnection, NoRequest
<1>5. OneTenantPerLocation
  BY DEF Init, OneTenantPerLocation, Connected, NoConnection
<1>6. SomebodyOwns
  BY DEF Init, SomebodyOwns, HasMembers
<1>7. ReplacedCredentialsAreDeleted
  BY DEF Init, ReplacedCredentialsAreDeleted
<1>8. QED
  BY <1>1, <1>3, <1>4, <1>5, <1>6, <1>7 DEF IndInv

\* A request changes in itself, and holds nothing of the connection yet.
LEMMA RequestKeeps ==
    ASSUME IndInv, NEW r \in Requests, NEW q \in Request,
           req' = [req EXCEPT ![r] = q],
           UNCHANGED <<tenant, member, conn, cred, unseen>>,
           q.pc \notin {"write", "wrote"},
           q.pc # "idle" => q.location \in Locations,
           q.pc \notin {"idle", "user", "find"} => q.tenant \in Tenants,
           q.pc \in {"askCurrent", "askOwner", "pending", "current", "owner"} => q.user = Nil,
           q.user # Nil /\ q.pc = "lock" =>
               \/ q.role = "tenant_owner"
               \/ q.role = "tenant_admin" /\ HasMembers(q.tenant)
    PROVE  IndInv'
<1>1. /\ req' \in [Requests -> Request]
      /\ req'[r] = q
      /\ \A s \in Requests : s # r => req'[s] = req[s]
  BY DEF IndInv, TypeOK
<1>2. TypeOK'
  BY <1>1 DEF IndInv, TypeOK, Connected
<1>3. References'
  BY <1>1 DEF IndInv, References, Connected
<1>4. KeysAreHeld'
  <2>1. \A s \in Requests, t \in Tenants :
           HoldsConnection(s, t)' => s # r /\ HoldsConnection(s, t)
    BY <1>1 DEF HoldsConnection
  <2>2. \A s \in Requests : req'[s].pc \in {"write", "wrote"} => s # r /\ req'[s] = req[s]
    BY <1>1
  <2>3. \A s \in Requests : req'[s].pc = "wrote" => ~Taken(s)'
    BY <2>2 DEF IndInv, KeysAreHeld, Taken
  <2>4. QED
    BY <2>1, <2>2, <2>3 DEF IndInv, KeysAreHeld, Connected
<1>5. RolesAreDecided'
  BY <1>1 DEF IndInv, RolesAreDecided, HasMembers
<1>6. OneTenantPerLocation' /\ SomebodyOwns' /\ ReplacedCredentialsAreDeleted'
  BY DEF IndInv, OneTenantPerLocation, SomebodyOwns, ReplacedCredentialsAreDeleted,
         Connected, HasMembers
<1>7. QED
  BY <1>2, <1>3, <1>4, <1>5, <1>6 DEF IndInv

LEMMA EndKeeps ==
    ASSUME IndInv, NEW r \in Requests, End(r),
           UNCHANGED <<tenant, member, conn, cred, unseen>>
    PROVE  IndInv'
<1>1. NoRequest \in Request /\ NoRequest.pc = "idle"
  BY DEF NoRequest, Request, Roles
<1>2. QED
  BY <1>1, RequestKeeps DEF End

\* A request that goes on, with what it knows.
LEMMA StepKeeps ==
    ASSUME IndInv, NEW r \in Requests,
           NEW pc \in {"askOwner", "pending", "current", "owner", "find", "lock"},
           Step(r, pc), UNCHANGED <<tenant, member, conn, cred, unseen>>,
           req[r].pc # "idle",
           pc # "find" => req[r].pc \notin {"user", "find"} /\ req[r].user = Nil
    PROVE  IndInv'
<1> DEFINE q == [req[r] EXCEPT !.pc = pc]
<1>1. req[r] \in Request /\ req' = [req EXCEPT ![r] = q]
  BY DEF IndInv, TypeOK, Step
<1>2. /\ q \in Request
      /\ q.pc = pc /\ q.location = req[r].location /\ q.tenant = req[r].tenant
      /\ q.user = req[r].user
  BY <1>1 DEF Request
<1> HIDE DEF q
<1>3. req[r].location \in Locations
  BY DEF IndInv, References
<1>4. pc # "find" => req[r].tenant \in Tenants
  BY DEF IndInv, References
<1>5. QED
  BY <1>1, <1>2, <1>3, <1>4, RequestKeeps

LEMMA EarlyKeeps ==
    ASSUME IndInv, NEW r \in Requests,
           \/ Callback(r) \/ CheckCurrent(r) \/ CheckOwner(r) \/ UpsertUser(r)
           \/ Conflict(r) \/ RefuseSignup(r) \/ ViolateKey(r) \/ Fail(r)
    PROVE  IndInv'
<1>1. CASE Callback(r) \/ CheckCurrent(r) \/ CheckOwner(r)
  <2>1. req[r].user = Nil
    BY <1>1 DEF IndInv, References, Callback, CheckCurrent, CheckOwner
  <2>2. QED
    BY <1>1, <2>1, StepKeeps DEF Callback, CheckCurrent, CheckOwner
<1>2. CASE Conflict(r) \/ RefuseSignup(r) \/ ViolateKey(r) \/ Fail(r)
  BY <1>2, EndKeeps DEF Conflict, RefuseSignup, ViolateKey, Fail
<1>3. CASE UpsertUser(r)
  BY <1>3, StepKeeps DEF UpsertUser
<1>4. QED
  BY <1>1, <1>2, <1>3

\* The steps of a connect or a login, one by one.
LEMMA AskKeeps ==
    ASSUME IndInv, NEW r \in Requests, NEW t \in Tenants, NEW l \in Locations, Ask(r, t, l)
    PROVE  IndInv'
<1> DEFINE q == [NoRequest EXCEPT !.pc = "askCurrent", !.tenant = t, !.location = l]
<1>1. q \in Request /\ q.pc = "askCurrent" /\ q.location = l /\ q.tenant = t /\ q.user = Nil
  BY DEF NoRequest, Request, Roles
<1>2. req' = [req EXCEPT ![r] = q] /\ UNCHANGED <<tenant, member, conn, cred, unseen>>
  BY DEF Ask
<1> HIDE DEF q
<1>3. QED
  BY <1>1, <1>2, RequestKeeps

LEMMA LoginKeeps ==
    ASSUME IndInv, NEW r \in Requests, NEW u \in Users, NEW l \in Locations, Login(r, u, l)
    PROVE  IndInv'
<1> DEFINE q == [NoRequest EXCEPT !.pc = "user", !.user = u, !.location = l]
<1>1. q \in Request /\ q.pc = "user" /\ q.location = l
  BY DEF NoRequest, Request, Roles
<1>2. req' = [req EXCEPT ![r] = q] /\ UNCHANGED <<tenant, member, conn, cred, unseen>>
  BY DEF Login
<1> HIDE DEF q
<1>3. QED
  BY <1>1, <1>2, RequestKeeps

LEMMA TenantKeeps ==
    ASSUME IndInv, NEW r \in Requests, NEW t \in Tenants, FindTenant(r, t) \/ CreateTenant(r, t)
    PROVE  IndInv'
<1> DEFINE q == [req[r] EXCEPT !.pc = "count", !.tenant = t]
<1>1. req[r] \in Request /\ req[r].location \in Locations
  BY DEF IndInv, TypeOK, References, FindTenant, CreateTenant
<1>2. q \in Request /\ q.pc = "count" /\ q.location = req[r].location /\ q.tenant = t
  BY <1>1 DEF Request
<1>3. req' = [req EXCEPT ![r] = q] /\ UNCHANGED <<tenant, member, conn, cred, unseen>>
  BY DEF FindTenant, CreateTenant
<1> HIDE DEF q
<1>4. QED
  BY <1>1, <1>2, <1>3, RequestKeeps

LEMMA CountKeeps ==
    ASSUME IndInv, NEW r \in Requests, CountMembers(r)
    PROVE  IndInv'
<1> DEFINE role == IF HasMembers(req[r].tenant) THEN "tenant_admin" ELSE "tenant_owner"
           q == [req[r] EXCEPT !.pc = "lock", !.role = role]
<1>1. /\ req[r] \in Request /\ req[r].location \in Locations /\ req[r].tenant \in Tenants
  BY DEF IndInv, TypeOK, References, CountMembers
<1>2. /\ role \in Roles
      /\ role = "tenant_owner" \/ (role = "tenant_admin" /\ HasMembers(req[r].tenant))
  BY Zenon DEF Roles
<1>3. req' = [req EXCEPT ![r] = q] /\ UNCHANGED <<tenant, member, conn, cred, unseen>>
  BY DEF CountMembers
<1> HIDE DEF role
<1>4. /\ q \in Request /\ q.pc = "lock" /\ q.location = req[r].location
      /\ q.tenant = req[r].tenant /\ q.role = role
  BY <1>1, <1>2 DEF Request
<1> HIDE DEF q
<1>5. QED
  BY <1>1, <1>2, <1>3, <1>4, RequestKeeps

\* A row that is locked is nobody else's, and what is read of it stays true.
LEMMA LockKeeps ==
    ASSUME IndInv, NEW r \in Requests, LockConnection(r)
    PROVE  IndInv'
<1> DEFINE t == req[r].tenant
<1>1. req[r] \in Request /\ t \in Tenants /\ req[r].location \in Locations /\ conn[t] \in Connection
  BY DEF IndInv, TypeOK, References, LockConnection
<1>2. /\ req' \in [Requests -> Request]
      /\ \A s \in Requests : s # r => req'[s] = req[s]
      /\ req'[r].pc = "write" /\ req'[r].tenant = t /\ req'[r].location = req[r].location
      /\ req'[r].user = req[r].user /\ req'[r].role = req[r].role
      /\ req'[r].locked = Connected(t) /\ req'[r].previous = conn[t].credential
  BY <1>1 DEF IndInv, TypeOK, LockConnection, Request, Connection, Connected
<1>3. UNCHANGED <<tenant, member, conn, cred, unseen>>
  BY DEF LockConnection
<1>4. TypeOK'
  BY <1>2, <1>3 DEF IndInv, TypeOK, Connected
<1>5. References'
  BY <1>1, <1>2, <1>3 DEF IndInv, References, Connected
<1>6. KeysAreHeld'
  <2>1. ASSUME NEW s \in Requests, s # r
        PROVE  /\ \A u \in Tenants : HoldsConnection(s, u)' <=> HoldsConnection(s, u)
               /\ Taken(s)' <=> Taken(s)
    BY <2>1, <1>2, <1>3 DEF HoldsConnection, Taken
  <2>2. \A u \in Tenants : HoldsConnection(r, u)' => u = t /\ Connected(t)
    BY <1>2 DEF HoldsConnection
  <2>3. \A s \in Requests, u \in Tenants : s # r /\ HoldsConnection(s, u) => ~HoldsConnection(r, u)'
    BY <2>2 DEF LockConnection
  <2>4. \A s, v \in Requests, u \in Tenants : HoldsConnection(s, u)' /\ HoldsConnection(v, u)' => s = v
    BY <2>1, <2>3 DEF IndInv, KeysAreHeld
  <2>5. \A s \in Requests : req'[s].pc = "wrote" => s # r /\ ~Taken(s)'
    BY <2>1, <1>2 DEF IndInv, KeysAreHeld
  <2>6. \A s, v \in Requests :
          req'[s].pc = "wrote" /\ req'[v].pc = "wrote" /\ req'[s].location = req'[v].location => s = v
    BY <1>2 DEF IndInv, KeysAreHeld
  <2>7. conn[t].credential = Nil \/ Connected(t)
    BY <1>1 DEF IndInv, TypeOK, Connected
  <2>8. ASSUME NEW s \in Requests, req'[s].pc \in {"write", "wrote"}
        PROVE  \/ /\ req'[s].locked /\ Connected(req[s].tenant)'
                  /\ req'[s].previous = conn'[req'[s].tenant].credential
               \/ ~req'[s].locked /\ req'[s].previous = Nil
    <3>1. CASE s = r
      BY <3>1, <2>7, <1>2, <1>3 DEF Connected
    <3>2. CASE s # r
      BY <3>2, <2>8, <1>2, <1>3 DEF IndInv, KeysAreHeld, Connected
    <3>3. QED
      BY <3>1, <3>2
  <2>9. QED
    BY <2>4, <2>5, <2>6, <2>8 DEF KeysAreHeld
<1>7. RolesAreDecided'
  BY <1>2, <1>3 DEF IndInv, RolesAreDecided, HasMembers, LockConnection
<1>8. OneTenantPerLocation' /\ SomebodyOwns' /\ ReplacedCredentialsAreDeleted'
  BY <1>3 DEF IndInv, OneTenantPerLocation, SomebodyOwns, ReplacedCredentialsAreDeleted,
              Connected, HasMembers
<1>9. QED
  BY <1>4, <1>5, <1>6, <1>7, <1>8 DEF IndInv

LEMMA WriteKeeps ==
    ASSUME IndInv, NEW r \in Requests, NEW k \in Credentials, WriteConnection(r, k)
    PROVE  IndInv'
<1> DEFINE t == req[r].tenant
<1>1. /\ req[r] \in Request /\ t \in Tenants /\ req[r].location \in Locations
      /\ k \notin cred /\ \A s \in Requests : req[s].credential # k
  BY DEF IndInv, TypeOK, References, WriteConnection, FreshCredential
<1>2. /\ req' \in [Requests -> Request]
      /\ \A s \in Requests : s # r => req'[s] = req[s]
      /\ req[r].pc = "write" /\ req'[r].pc = "wrote" /\ req'[r].credential = k
      /\ req'[r].tenant = t /\ req'[r].location = req[r].location
      /\ req'[r].user = req[r].user /\ req'[r].role = req[r].role
      /\ req'[r].locked = req[r].locked /\ req'[r].previous = req[r].previous
  BY <1>1 DEF IndInv, TypeOK, WriteConnection, Request
<1>3. UNCHANGED <<tenant, member, conn, cred, unseen>>
  BY DEF WriteConnection
<1>4. TypeOK'
  BY <1>2, <1>3 DEF IndInv, TypeOK, Connected
<1>5. References'
  BY <1>1, <1>2, <1>3 DEF IndInv, References, Connected
<1>6. KeysAreHeld'
  <2>1. ASSUME NEW s \in Requests, s # r
        PROVE  /\ \A u \in Tenants : HoldsConnection(s, u)' <=> HoldsConnection(s, u)
               /\ ~HoldsConnection(s, t)
               /\ req[s].pc = "wrote" => req[s].location # req[r].location
               /\ Taken(s)' <=> Taken(s)
    BY <2>1, <1>2, <1>3 DEF HoldsConnection, HoldsLocation, Taken, WriteConnection, KeysAreFree
  <2>2. \A u \in Tenants : HoldsConnection(r, u)' => u = t
    BY <1>2 DEF HoldsConnection
  <2>3. \A s, v \in Requests, u \in Tenants : HoldsConnection(s, u)' /\ HoldsConnection(v, u)' => s = v
    BY <2>1, <2>2 DEF IndInv, KeysAreHeld
  <2>4. ~Taken(r)'
    BY <1>2, <1>3 DEF Taken, WriteConnection
  <2>5. \A s \in Requests : req'[s].pc = "wrote" => ~Taken(s)'
    BY <2>1, <2>4, <1>2 DEF IndInv, KeysAreHeld
  <2>6. \A s, v \in Requests :
          req'[s].pc = "wrote" /\ req'[v].pc = "wrote" /\ req'[s].location = req'[v].location => s = v
    BY <2>1, <1>2 DEF IndInv, KeysAreHeld
  <2>7. ASSUME NEW s \in Requests, req'[s].pc \in {"write", "wrote"}
        PROVE  \/ /\ req'[s].locked /\ Connected(req[s].tenant)'
                  /\ req'[s].previous = conn'[req'[s].tenant].credential
               \/ ~req'[s].locked /\ req'[s].previous = Nil
    <3>1. CASE s = r
      BY <3>1, <1>2, <1>3 DEF IndInv, KeysAreHeld, Connected
    <3>2. CASE s # r
      BY <3>2, <2>7, <1>2, <1>3 DEF IndInv, KeysAreHeld, Connected
    <3>3. QED
      BY <3>1, <3>2
  <2>8. QED
    BY <2>3, <2>5, <2>6, <2>7 DEF KeysAreHeld
<1>7. RolesAreDecided'
  BY <1>2, <1>3 DEF IndInv, RolesAreDecided, HasMembers
<1>8. OneTenantPerLocation' /\ SomebodyOwns' /\ ReplacedCredentialsAreDeleted'
  BY <1>3 DEF IndInv, OneTenantPerLocation, SomebodyOwns, ReplacedCredentialsAreDeleted,
              Connected, HasMembers
<1>9. QED
  BY <1>4, <1>5, <1>6, <1>7, <1>8 DEF IndInv

\* What a commit does to the variables, and what its locks say of them.
LEMMA CommitFacts ==
    ASSUME IndInv, NEW r \in Requests, Commit(r),
           NEW t, t = req[r].tenant, NEW l, l = req[r].location,
           NEW k, k = req[r].credential
    PROVE  /\ t \in Tenants /\ l \in Locations /\ k \in Credentials \ cred
           /\ req' \in [Requests -> Request] /\ req'[r] = NoRequest
           /\ \A s \in Requests : s # r => req'[s] = req[s]
           /\ conn' \in [Tenants -> Connection]
           /\ conn'[t].location = l /\ conn'[t].credential = k
           /\ \A s \in Tenants : s # t => conn'[s] = conn[s]
           /\ \A s \in Tenants : s # t => conn[s].location # l
           /\ \/ /\ Connected(t) /\ req[r].previous = conn[t].credential
                 /\ unseen' = unseen
                 /\ cred' = (cred \ {conn[t].credential}) \cup {k}
              \/ /\ ~Connected(t) /\ req[r].previous = Nil
                 /\ unseen' = unseen /\ cred' = cred \cup {k}
              \/ /\ Connected(t) /\ req[r].previous = Nil
                 /\ unseen' = unseen \cup {conn[t].credential} /\ cred' = cred \cup {k}
<1>1. /\ t \in Tenants /\ l \in Locations /\ k \in Credentials \ cred
      /\ req[r] \in Request /\ cred \in SUBSET Credentials
  BY DEF IndInv, TypeOK, References, Commit
<1>2. NoRequest \in Request
  BY DEF NoRequest, Request, Roles
<1>3. /\ req' \in [Requests -> Request] /\ req'[r] = NoRequest
      /\ \A s \in Requests : s # r => req'[s] = req[s]
  BY <1>2 DEF IndInv, TypeOK, Commit, End
<1>4. /\ conn' \in [Tenants -> Connection]
      /\ conn'[t].location = l /\ conn'[t].credential = k
      /\ \A s \in Tenants : s # t => conn'[s] = conn[s]
  <2>1. conn' = [conn EXCEPT ![t] = [location |-> l, credential |-> k]]
    BY DEF Commit
  <2>2. [location |-> l, credential |-> k] \in Connection
    BY <1>1 DEF Connection
  <2>3. QED
    BY <2>1, <2>2, <1>1 DEF IndInv, TypeOK
<1>5. \A s \in Tenants : s # t => conn[s].location # l
  BY DEF IndInv, KeysAreHeld, Taken, Commit
<1>6. /\ Connected(t) => conn[t].credential \in cred /\ conn[t].credential # Nil
      /\ \A s \in Tenants : Connected(t) /\ s # t => conn[s].credential # conn[t].credential
  BY <1>1 DEF IndInv, TypeOK, References, Connected
<1>7. \/ Connected(t) /\ req[r].previous = conn[t].credential
      \/ req[r].previous = Nil
  BY DEF IndInv, KeysAreHeld, Commit
<1>8. Nil \notin cred
  BY <1>1
<1> DEFINE replaced == {p \in {req[r].previous} : \A s \in Tenants \ {t} : conn[s].credential # p}
<1>9. /\ cred' = (cred \ replaced) \cup {k}
      /\ unseen' = IF Connected(t) /\ req[r].previous = Nil
                   THEN unseen \cup {conn[t].credential} ELSE unseen
  BY DEF Commit
<1>10. CASE Connected(t) /\ req[r].previous = conn[t].credential
  <2>1. replaced = {conn[t].credential}
    BY <1>6, <1>10
  <2>2. QED
    BY <2>1, <1>1, <1>3, <1>4, <1>5, <1>6, <1>9, <1>10
<1>11. CASE req[r].previous = Nil
  <2>1. cred \ replaced = cred
    BY <1>8, <1>11
  <2>2. QED
    BY <2>1, <1>1, <1>3, <1>4, <1>5, <1>9, <1>11
<1>12. QED
  BY <1>7, <1>10, <1>11

\* Members stay, with their roles; whoever joins is the owner or joins one.
LEMMA CommitMembers ==
    ASSUME IndInv, NEW r \in Requests, Commit(r)
    PROVE  /\ member' \in [Tenants -> [Users -> Roles]]
           /\ \A t \in Tenants : HasMembers(t) => HasMembers(t)'
           /\ SomebodyOwns'
<1>1. /\ member \in [Tenants -> [Users -> Roles]] /\ req[r] \in Request
      /\ req[r].tenant \in Tenants
  BY DEF IndInv, TypeOK, References, Commit
<1>2. CASE req[r].user # Nil /\ member[req[r].tenant][req[r].user] = "none"
  <2>1. /\ req[r].user \in Users /\ req[r].role \in Roles
        /\ member' = [member EXCEPT ![req[r].tenant][req[r].user] = req[r].role]
    BY <1>1, <1>2 DEF Commit, Request
  <2>2. /\ member' \in [Tenants -> [Users -> Roles]]
        /\ member'[req[r].tenant][req[r].user] = req[r].role
        /\ \A t \in Tenants, u \in Users : member[t][u] # "none" => member'[t][u] = member[t][u]
        /\ \A t \in Tenants, u \in Users : t # req[r].tenant => member'[t][u] = member[t][u]
    BY <1>1, <1>2, <2>1
  <2>3. \A t \in Tenants : HasMembers(t) => HasMembers(t)'
    BY <2>2 DEF HasMembers
  <2>4. req[r].role = "tenant_owner" \/ HasMembers(req[r].tenant)
    BY <1>2 DEF IndInv, RolesAreDecided, Commit
  <2>5. ASSUME NEW t \in Tenants, HasMembers(t)
        PROVE  \E u \in Users : member'[t][u] = "tenant_owner"
    BY <2>5, <2>2 DEF IndInv, SomebodyOwns
  <2>6. ASSUME NEW t \in Tenants, HasMembers(t)'
        PROVE  \E u \in Users : member'[t][u] = "tenant_owner"
    <3>1. CASE t = req[r].tenant
      BY <3>1, <2>1, <2>2, <2>4, <2>5
    <3>2. CASE t # req[r].tenant
      BY <3>2, <2>2, <2>5, <2>6 DEF HasMembers
    <3>3. QED
      BY <3>1, <3>2
  <2>7. QED
    BY <2>2, <2>3, <2>6 DEF SomebodyOwns
<1>3. CASE ~(req[r].user # Nil /\ member[req[r].tenant][req[r].user] = "none")
  <2>1. member' = member
    BY <1>3 DEF Commit
  <2>2. QED
    BY <2>1, <1>1 DEF IndInv, SomebodyOwns, HasMembers
<1>4. QED
  BY <1>2, <1>3

LEMMA CommitKeeps ==
    ASSUME IndInv, NEW r \in Requests, Commit(r)
    PROVE  IndInv'
<1> DEFINE t == req[r].tenant
           l == req[r].location
           k == req[r].credential
<1>1. /\ t \in Tenants /\ l \in Locations /\ k \in Credentials \ cred
      /\ req' \in [Requests -> Request] /\ req'[r] = NoRequest
      /\ \A s \in Requests : s # r => req'[s] = req[s]
      /\ conn' \in [Tenants -> Connection]
      /\ conn'[t].location = l /\ conn'[t].credential = k
      /\ \A s \in Tenants : s # t => conn'[s] = conn[s]
      /\ \A s \in Tenants : s # t => conn[s].location # l
  BY CommitFacts
<1>2. \/ /\ Connected(t) /\ req[r].previous = conn[t].credential
         /\ unseen' = unseen
         /\ cred' = (cred \ {conn[t].credential}) \cup {k}
      \/ /\ ~Connected(t) /\ req[r].previous = Nil
         /\ unseen' = unseen /\ cred' = cred \cup {k}
      \/ /\ Connected(t) /\ req[r].previous = Nil
         /\ unseen' = unseen \cup {conn[t].credential} /\ cred' = cred \cup {k}
  BY CommitFacts
<1>3. tenant' = tenant \cup {t} /\ req[r].pc = "wrote" /\ NoRequest.pc = "idle"
  BY DEF Commit, NoRequest
<1> HIDE DEF t, l, k
<1>4. Nil \notin Locations \cup Credentials
  OBVIOUS
<1>5. /\ \A s \in Tenants : Connected(s) =>
           s \in tenant /\ conn[s].credential \in cred /\ conn[s].credential \notin unseen
      /\ \A s, v \in Tenants : Connected(s) /\ conn[s].credential = conn[v].credential => s = v
      /\ cred \in SUBSET Credentials /\ unseen \in SUBSET cred
      /\ \A s \in Tenants : conn[s].location # Nil <=> conn[s].credential # Nil
      /\ conn \in [Tenants -> Connection] /\ tenant \in SUBSET Tenants
  BY DEF IndInv, TypeOK, References
<1>6. \A s \in Tenants : s # t => (Connected(s)' <=> Connected(s))
  BY <1>1 DEF Connected
<1>7. TypeOK'
  <2>1. \A s \in Tenants : conn'[s].location # Nil <=> conn'[s].credential # Nil
    BY <1>1, <1>4, <1>5
  <2>2. cred' \in SUBSET Credentials /\ unseen' \in SUBSET cred'
    BY <1>1, <1>2, <1>5
  <2>3. QED
    BY <2>1, <2>2, <1>1, <1>3, <1>5, CommitMembers DEF TypeOK
<1>8. References'
  <2>1. ASSUME NEW s \in Tenants, Connected(s)'
        PROVE  s \in tenant' /\ conn'[s].credential \in cred' \ unseen'
    <3>1. CASE s = t
      BY <3>1, <1>1, <1>2, <1>3, <1>5
    <3>2. CASE s # t
      BY <3>2, <2>1, <1>1, <1>2, <1>3, <1>5, <1>6
    <3>3. QED
      BY <3>1, <3>2
  <2>2. ASSUME NEW s \in Tenants, NEW v \in Tenants, Connected(s)',
               conn'[s].credential = conn'[v].credential
        PROVE  s = v
    <3>1. CASE s = t
      BY <3>1, <2>2, <1>1, <1>4, <1>5 DEF Connected
    <3>2. CASE s # t
      BY <3>2, <2>2, <1>1, <1>5, <1>6
    <3>3. QED
      BY <3>1, <3>2
  <2>3. ASSUME NEW s \in Requests, req'[s].pc = "wrote"
        PROVE  s # r /\ req'[s].credential \in Credentials \ cred'
    <3>1. s # r /\ req[s].pc = "wrote"
      BY <2>3, <1>1, <1>3
    <3>2. req[s].credential \in Credentials \ cred /\ req[s].credential # k
      BY <3>1, <1>3 DEF IndInv, References, k
    <3>3. QED
      BY <3>1, <3>2, <1>1, <1>2
  <2>4. \A s, v \in Requests :
         /\ req'[s].pc = "wrote" /\ req'[v].pc = "wrote"
         /\ req'[s].credential = req'[v].credential
         => s = v
    BY <2>3, <1>1 DEF IndInv, References
  <2>5. /\ \A s \in Requests : req'[s].pc # "idle" => req'[s].location \in Locations
        /\ \A s \in Requests : req'[s].pc \notin {"idle", "user", "find"} => req'[s].tenant \in Tenants
        /\ \A s \in Requests :
             req'[s].pc \in {"askCurrent", "askOwner", "pending", "current", "owner"} =>
               req'[s].user = Nil
    BY <1>1, <1>3 DEF IndInv, References
  <2>6. QED
    BY <2>1, <2>2, <2>3, <2>4, <2>5 DEF References
<1>9. KeysAreHeld'
  <2>1. \A s \in Requests, v \in Tenants :
          HoldsConnection(s, v)' => s # r /\ HoldsConnection(s, v)
    BY <1>1, <1>3 DEF HoldsConnection
  <2>2. \A s, u \in Requests, v \in Tenants : HoldsConnection(s, v)' /\ HoldsConnection(u, v)' => s = u
    BY <2>1 DEF IndInv, KeysAreHeld
  <2>3. \A s, u \in Requests :
          req'[s].pc = "wrote" /\ req'[u].pc = "wrote" /\ req'[s].location = req'[u].location => s = u
    BY <1>1, <1>3 DEF IndInv, KeysAreHeld
  <2>4. ASSUME NEW s \in Requests, req'[s].pc = "wrote" PROVE ~Taken(s)'
    <3>1. s # r /\ req'[s] = req[s] /\ ~Taken(s) /\ req[s].location # l
      BY <2>4, <1>1, <1>3 DEF IndInv, KeysAreHeld, l
    <3>2. QED
      BY <3>1, <1>1 DEF Taken
  <2>5. ASSUME NEW s \in Requests, req'[s].pc \in {"write", "wrote"}
        PROVE  \/ /\ req'[s].locked /\ Connected(req[s].tenant)' /\ req'[s].tenant = req[s].tenant
                  /\ req'[s].previous = conn'[req'[s].tenant].credential
               \/ ~req'[s].locked /\ req'[s].previous = Nil
    <3>1. s # r /\ req'[s] = req[s] /\ req[s].tenant \in Tenants
      BY <2>5, <1>1, <1>3 DEF IndInv, References
    <3>2. HoldsConnection(r, t)
      BY <1>3 DEF HoldsConnection, t
    <3>3. req[s].locked => req[s].tenant # t
      BY <3>1, <3>2, <2>5, <1>1 DEF IndInv, KeysAreHeld, HoldsConnection
    <3>4. QED
      BY <3>1, <3>3, <2>5, <1>1, <1>6 DEF IndInv, KeysAreHeld
  <2>6. QED
    BY <2>2, <2>3, <2>4, <2>5 DEF KeysAreHeld
<1>10. RolesAreDecided'
  <2>1. \A s \in Requests : req'[s].pc # "idle" => s # r /\ req'[s] = req[s]
    BY <1>1, <1>3
  <2>2. \A s \in Requests : req[s].pc \notin {"idle", "user", "find"} => req[s].tenant \in Tenants
    BY DEF IndInv, References
  <2>3. \A v \in Tenants : HasMembers(v) => HasMembers(v)'
    BY CommitMembers
  <2>4. ASSUME NEW s \in Requests, req'[s].user # Nil, req'[s].pc \in {"lock", "write", "wrote"}
        PROVE  \/ req'[s].role = "tenant_owner"
               \/ req'[s].role = "tenant_admin" /\ HasMembers(req[s].tenant)'
    BY <2>1, <2>2, <2>3, <2>4 DEF IndInv, RolesAreDecided
  <2>5. QED
    BY <2>1, <2>4 DEF RolesAreDecided, HasMembers
<1>11. OneTenantPerLocation'
  BY <1>1, <1>4, <1>6 DEF IndInv, OneTenantPerLocation, Connected
<1>12. ReplacedCredentialsAreDeleted'
  <2>1. ASSUME NEW j \in cred' \ unseen'
        PROVE  \E s \in Tenants : conn'[s].credential = j
    <3>1. CASE j = k
      BY <3>1, <1>1
    <3>2. CASE j # k
      <4>1. j \in cred \ unseen
        BY <3>2, <1>2
      <4>2. PICK s \in Tenants : conn[s].credential = j
        BY <4>1 DEF IndInv, ReplacedCredentialsAreDeleted
      <4>3. s # t
        BY <4>1, <4>2, <3>2, <1>2, <1>4, <1>5 DEF Connected
      <4>4. QED
        BY <4>2, <4>3, <1>1
    <3>3. QED
      BY <3>1, <3>2
  <2>2. QED
    BY <2>1 DEF ReplacedCredentialsAreDeleted
<1>13. QED
  BY <1>7, <1>8, <1>9, <1>10, <1>11, <1>12, CommitMembers DEF IndInv

LEMMA EnrolKeeps ==
    ASSUME IndInv, NEW u \in Users, NEW t \in Tenants, Enrol(u, t)
    PROVE  IndInv'
<1>1. /\ UNCHANGED <<conn, cred, req, unseen>> /\ tenant' = tenant \cup {t}
      /\ member' \in [Tenants -> [Users -> Roles]]
      /\ member'[t][u] = "tenant_owner"
      /\ \A s \in Tenants, v \in Users : s # t \/ v # u => member'[s][v] = member[s][v]
  BY DEF IndInv, TypeOK, Enrol, Roles
<1>2. \A s \in Tenants : HasMembers(s) => HasMembers(s)'
  BY <1>1 DEF HasMembers
<1>3. \A r \in Requests : req[r].pc \notin {"idle", "user", "find"} => req[r].tenant \in Tenants
  BY DEF IndInv, References
<1>4. TypeOK' /\ References'
  BY <1>1 DEF IndInv, TypeOK, References, Connected
<1>5. KeysAreHeld'
  BY <1>1 DEF IndInv, KeysAreHeld, HoldsConnection, Taken, Connected
<1>6. RolesAreDecided'
  <2>1. ASSUME NEW r \in Requests, req'[r].user # Nil, req'[r].pc \in {"lock", "write", "wrote"}
        PROVE  \/ req'[r].role = "tenant_owner"
               \/ req'[r].role = "tenant_admin" /\ HasMembers(req[r].tenant)'
    BY <2>1, <1>1, <1>2, <1>3 DEF IndInv, RolesAreDecided
  <2>2. QED
    BY <2>1, <1>1 DEF RolesAreDecided, HasMembers
<1>7. SomebodyOwns'
  BY <1>1 DEF IndInv, SomebodyOwns, HasMembers
<1>8. OneTenantPerLocation' /\ ReplacedCredentialsAreDeleted'
  BY <1>1 DEF IndInv, OneTenantPerLocation, ReplacedCredentialsAreDeleted, Connected
<1>9. QED
  BY <1>4, <1>5, <1>6, <1>7, <1>8 DEF IndInv

LEMMA InvariantStep == IndInv /\ [Next]_vars => IndInv'
<1> SUFFICES ASSUME IndInv, [Next]_vars PROVE IndInv'
  OBVIOUS
<1>1. CASE \E u \in Users, t \in Tenants : Enrol(u, t)
  BY <1>1, EnrolKeeps
<1>2. CASE \E r \in Requests, t \in Tenants, l \in Locations : Ask(r, t, l)
  BY <1>2, AskKeeps
<1>3. CASE \E r \in Requests, u \in Users, l \in Locations : Login(r, u, l)
  BY <1>3, LoginKeeps
<1>4. ASSUME NEW r \in Requests, Callback(r) \/ Proceed(r) \/ Wait(r) \/ Fail(r)
      PROVE  IndInv'
  <2>1. CASE Callback(r) \/ Fail(r)
    BY <2>1, EarlyKeeps
  <2>2. CASE Proceed(r)
    BY <2>2, EarlyKeeps, TenantKeeps, CountKeeps, CommitKeeps DEF Proceed
  <2>3. CASE Wait(r)
    BY <2>3, EarlyKeeps, LockKeeps, WriteKeeps DEF Wait
  <2>4. QED
    BY <1>4, <2>1, <2>2, <2>3
<1>5. CASE UNCHANGED vars
  BY <1>5 DEF vars, IndInv, TypeOK, References, KeysAreHeld, RolesAreDecided,
              OneTenantPerLocation, SomebodyOwns, ReplacedCredentialsAreDeleted,
              Connected, HasMembers, HoldsConnection, Taken
<1>6. QED
  BY <1>1, <1>2, <1>3, <1>4, <1>5 DEF Next

LEMMA Invariance == Spec => []IndInv
<1>1. QED
  BY InitInvariant, InvariantStep, PTL DEF Spec

\* Types, at every step.
THEOREM TypeCorrect == Spec => []TypeOK
<1>1. IndInv => TypeOK
  BY DEF IndInv
<1>2. QED
  BY <1>1, Invariance, PTL

\* However many logins and connects race, a location has one tenant: the unique
\* key of #saveConnection's upsert and the locks its waiters queue on.
THEOREM OneTenant == Spec => []OneTenantPerLocation
<1>1. IndInv => OneTenantPerLocation
  BY DEF IndInv
<1>2. QED
  BY <1>1, Invariance, PTL

\* Racing first logins never leave a tenant without an owner
\* (#provisionHighLevelTenant counts committed members only).
THEOREM OwnerExists == Spec => []SomebodyOwns
<1>1. IndInv => SomebodyOwns
  BY DEF IndInv
<1>2. QED
  BY <1>1, Invariance, PTL

\* A credential outlives its connection only where #saveConnection found no
\* row to lock.
THEOREM CredentialsDeleted == Spec => []ReplacedCredentialsAreDeleted
<1>1. IndInv => ReplacedCredentialsAreDeleted
  BY DEF IndInv
<1>2. QED
  BY <1>1, Invariance, PTL

\* A request that gets past its look at a connected tenant's location means
\* that location.
LEMMA SettledStep ==
    ASSUME IndInv, [Next]_vars, NEW t \in Tenants, Settled(t)
    PROVE  Settled(t)' /\ UNCHANGED conn[t].location
<1> DEFINE Kept ==
      /\ conn'[t].location = conn[t].location
      /\ \A s \in Requests : Underway(s, t)' => req'[s].location = conn[t].location
<1> SUFFICES Kept
  BY DEF Settled, Connected
<1>1. /\ conn[t].location # Nil /\ t \in tenant
      /\ \A s \in Requests : Underway(s, t) => req[s].location = conn[t].location
  BY DEF Settled, Connected, IndInv, References
<1>2. req \in [Requests -> Request] /\ conn \in [Tenants -> Connection]
  BY DEF IndInv, TypeOK
<1>3. ASSUME NEW r \in Requests, UNCHANGED conn, NEW q, req' = [req EXCEPT ![r] = q],
             \/ q.pc \notin {"owner", "count", "lock", "write", "wrote"}
             \/ q.tenant # t
             \/ q.location = conn[t].location
      PROVE  Kept
  <2>1. req'[r] = q /\ \A s \in Requests : s # r => req'[s] = req[s]
    BY <1>3, <1>2
  <2>2. QED
    BY <2>1, <1>1, <1>3 DEF Underway
<1>4. ASSUME NEW r \in Requests, UNCHANGED conn, End(r)
      PROVE  Kept
  BY <1>3, <1>4 DEF End, NoRequest
<1>5. ASSUME NEW r \in Requests, NEW q, req' = [req EXCEPT ![r] = q],
             q.tenant = req[r].tenant, q.location = req[r].location,
             UNCHANGED conn,
             \/ q.pc \notin {"owner", "count", "lock", "write", "wrote"}
             \/ req[r].pc \in {"owner", "count", "lock", "write", "wrote"}
      PROVE  Kept
  BY <1>1, <1>3, <1>5 DEF Underway
<1>6. CASE UNCHANGED vars \/ \E u \in Users, v \in Tenants : Enrol(u, v)
  BY <1>1, <1>6 DEF vars, Enrol, Underway
<1>7. ASSUME NEW r \in Requests, Callback(r) \/ CheckOwner(r) \/ UpsertUser(r)
      PROVE  Kept
  <2>1. PICK pc \in {"current", "lock", "pending", "find"} :
           /\ req' = [req EXCEPT ![r] = [req[r] EXCEPT !.pc = pc]]
           /\ pc = "lock" => req[r].pc = "owner"
    BY <1>2, <1>7 DEF Callback, CheckOwner, UpsertUser, Step
  <2> DEFINE q == [req[r] EXCEPT !.pc = pc]
  <2>2. q.pc = pc /\ q.tenant = req[r].tenant /\ q.location = req[r].location
    BY <1>2 DEF Request
  <2>3. UNCHANGED conn /\ req' = [req EXCEPT ![r] = q]
    BY <2>1, <1>7 DEF Callback, CheckOwner, UpsertUser
  <2> HIDE DEF q
  <2>4. QED
    BY <2>1, <2>2, <2>3, <1>5
<1>8. ASSUME NEW r \in Requests, CheckCurrent(r)
      PROVE  Kept
  <2> DEFINE q == [req[r] EXCEPT !.pc = IF req[r].pc = "current" THEN "owner" ELSE "askOwner"]
  <2>1. q.tenant = req[r].tenant /\ q.location = req[r].location
    BY <1>2 DEF Request
  <2>2. UNCHANGED conn /\ req' = [req EXCEPT ![r] = q]
    BY <1>8, <1>2 DEF CheckCurrent, Step
  <2>3. q.tenant = t => q.location = conn[t].location
    BY <2>1, <1>1, <1>8 DEF CheckCurrent
  <2> HIDE DEF q
  <2>4. QED
    BY <2>2, <2>3, <1>3
<1>9. ASSUME NEW r \in Requests, NEW v \in Tenants, FindTenant(r, v) \/ CreateTenant(r, v)
      PROVE  Kept
  <2> DEFINE q == [req[r] EXCEPT !.pc = "count", !.tenant = v]
  <2>1. q.tenant = v /\ q.location = req[r].location
    BY <1>2 DEF Request
  <2>2. UNCHANGED conn /\ req' = [req EXCEPT ![r] = q]
    BY <1>9 DEF FindTenant, CreateTenant
  <2>3. q.tenant = t => q.location = conn[t].location
    BY <2>1, <1>1, <1>9 DEF FindTenant, CreateTenant
  <2> HIDE DEF q
  <2>4. QED
    BY <2>2, <2>3, <1>3
<1>10. ASSUME NEW r \in Requests,
              CountMembers(r) \/ LockConnection(r) \/ \E k \in Credentials : WriteConnection(r, k)
       PROVE  Kept
  <2>1. /\ UNCHANGED conn /\ req[r].pc \in {"count", "lock", "write"}
        /\ req'[r].tenant = req[r].tenant /\ req'[r].location = req[r].location
        /\ \A s \in Requests : s # r => req'[s] = req[s]
    BY <1>2, <1>10 DEF CountMembers, LockConnection, WriteConnection, Request
  <2>2. QED
    BY <2>1, <1>1 DEF Underway
<1>11. ASSUME NEW r \in Requests, Commit(r)
       PROVE  Kept
  <2>1. /\ req[r].pc = "wrote" /\ req'[r].pc = "idle"
        /\ \A s \in Requests : s # r => req'[s] = req[s]
    <3>1. req[r].pc = "wrote" /\ NoRequest.pc = "idle"
      BY <1>11 DEF Commit, NoRequest
    <3>2. QED
      BY <3>1, <1>11, CommitFacts
  <2>2. /\ conn'[req[r].tenant].location = req[r].location
        /\ \A s \in Tenants : s # req[r].tenant => conn'[s] = conn[s]
    BY <1>11, CommitFacts
  <2>3. t = req[r].tenant => req[r].location = conn[t].location
    BY <2>1, <1>1 DEF Underway
  <2>4. QED
    BY <2>1, <2>2, <2>3, <1>1 DEF Underway
<1>12. ASSUME NEW r \in Requests, Conflict(r) \/ RefuseSignup(r) \/ ViolateKey(r) \/ Fail(r)
       PROVE  Kept
  BY <1>4, <1>12 DEF Conflict, RefuseSignup, ViolateKey, Fail
<1>13. ASSUME NEW r \in Requests, NEW l \in Locations,
              \/ \E v \in Tenants : Ask(r, v, l)
              \/ \E u \in Users : Login(r, u, l)
       PROVE  Kept
  <2>1. /\ UNCHANGED conn /\ req'[r].pc \in {"askCurrent", "user"}
        /\ \A s \in Requests : s # r => req'[s] = req[s]
    BY <1>2, <1>13 DEF Ask, Login, NoRequest
  <2>2. QED
    BY <2>1, <1>1 DEF Underway
<1>14. ASSUME NEW r \in Requests, Callback(r) \/ Proceed(r) \/ Wait(r) \/ Fail(r)
       PROVE  Kept
  BY <1>7, <1>8, <1>9, <1>10, <1>11, <1>12, <1>14 DEF Proceed, Wait
<1>15. QED
  BY <1>6, <1>13, <1>14 DEF Next

\* A connected tenant nobody is connecting elsewhere keeps its location:
\* assertConnectable refuses every other one from then on.
THEOREM SettledKept == Spec => SettledForGood
<1>1. IndInv /\ [Next]_vars =>
        [\A t \in Tenants : Settled(t) => Settled(t)' /\ UNCHANGED conn[t].location]_vars
  BY SettledStep
<1>2. QED
  BY <1>1, Invariance, PTL DEF Spec, SettledForGood


-----------------------------------------------------------------------------
\* The HighLevel tokens of the centre app

GrantSpec == GrantInit /\ [][GrantNext]_grantVars

Grant   == {NoGrant} \cup [mode : {"location", "company"}, n : Nat]
Resting == {"asleep", "joined"}
OfCompany == {"company", "loaded", "shared", "renew", "renewed", "persist", "mint"}
Carrying  == {"keep", "save", "install", "renewed", "persist"}
TaskSteps == Resting \cup OfCompany \cup Carrying \cup {"read", "refresh"}

TaskRecord == [at : TaskSteps, place : Places \cup {NoTask}, installs : BOOLEAN,
               cred : Grant, got : Nat, base : Nat]

GrantTypes ==
    /\ grant \in [Places -> Grant] /\ held \in [Centers -> Grant]
    /\ company \in [AppKeys -> Nat] /\ known \in [AppKeys -> Nat]
    /\ renewing \in [AppKeys -> Tasks \cup {NoTask}]
    /\ served \in [Places -> Nat]
    /\ serving \in [Apps -> Tasks \cup {NoTask}]
    /\ task \in [Tasks -> TaskRecord]
    /\ issued \in Nat /\ mishaps \in Nat
    /\ used \subseteq aged /\ aged \subseteq 1..issued /\ wasted \subseteq Nat

\* What a task knows at each step; the token it was given is of today.
StepIsSound(r, old, last) ==
    /\ r.at # "asleep" => r.place \in Places
    /\ r.at \in Resting \cup {"read"} => r.cred = NoGrant /\ ~r.installs /\ r.base = 0
    /\ r.at = "refresh" => r.cred.mode = "location" /\ ~r.installs /\ r.cred.n \in old
    /\ r.at \in OfCompany => r.cred.mode = "company"
    /\ r.at \in {"keep", "save"} => r.cred # NoGrant /\ ~r.installs
    /\ r.at = "install" => r.cred # NoGrant /\ r.installs
    /\ r.at = "renew" => r.base \in old
    /\ IF r.at \in Carrying THEN r.got \in 1..last \ old ELSE r.got = 0

TasksAreSound == \A t \in Tasks : StepIsSound(task[t], aged, issued)

\* A connector has one request at work.
ServedAlone ==
    /\ \A p \in Apps : serving[p] \in Tasks =>
         LET r == task[serving[p]] IN r.place = p /\ r.at \notin Resting /\ ~r.installs
    /\ \A t \in Tasks :
         task[t].place \in Apps /\ task[t].at \notin Resting /\ ~task[t].installs => serving[task[t].place] = t

\* Whose refresh token a token comes with: of a place, or of an app's company.
TaskHasOfPlace(r, n, p)   == r.place = p /\ r.cred.mode = "location" /\ n \in {r.cred.n, r.got}
TaskHasOfCompany(r, n, k) == App(r.place) = k /\ (n = r.base \/ (r.at \in {"renewed", "persist"} /\ n = r.got))

OfPlace(n, p) ==
    /\ n # 0
    /\ \/ grant[p].mode = "location" /\ grant[p].n = n
       \/ p \in Centers /\ held[p].mode = "location" /\ held[p].n = n
       \/ \E t \in Tasks : TaskHasOfPlace(task[t], n, p)

OfApp(n, k) ==
    /\ n # 0
    /\ \/ n \in {company[k], known[k]}
       \/ \E t \in Tasks : TaskHasOfCompany(task[t], n, k)

\* No token is of two places, of two apps, or of a place and an app.
TokensHaveOneOwner ==
    /\ \A n \in Nat, p \in Places :
         OfPlace(n, p) => n <= issued /\ (\A q \in Places : OfPlace(n, q) => q = p)
    /\ \A n \in Nat, k \in AppKeys :
         OfApp(n, k) => /\ n <= issued /\ (\A j \in AppKeys : OfApp(n, j) => j = k)
                        /\ \A p \in Places : ~OfPlace(n, p)

\* A stored credential that has been exchanged: the task that did it carries its
\* successor.
Successor(p) == \E t \in Tasks : task[t].at \in {"keep", "save"} /\ task[t].cred = grant[p]
SuccessorOfCompany(k) == \E t \in Tasks : task[t].at \in {"renewed", "persist"} /\ task[t].base = company[k]

SuccessorsAreComing ==
    /\ \A p \in Places : grant[p].mode = "location" /\ grant[p].n \in used \ wasted => Successor(p)
    /\ \A k \in AppKeys : company[k] \in used \ wasted => SuccessorOfCompany(k)

GrantInv ==
    /\ GrantTypes /\ TasksAreSound /\ ServedAlone /\ TokensHaveOneOwner
    /\ SuccessorsAreComing /\ ConnectorsRefreshLiveTokens

\* Sleeping tasks hold nothing.
LEMMA AsleepHoldsNothing ==
    /\ Asleep \in TaskRecord
    /\ \A old, last : StepIsSound(Asleep, old, last)
    /\ \A n, p : n # 0 => ~TaskHasOfPlace(Asleep, n, p)
    /\ \A n, k : n # 0 => ~TaskHasOfCompany(Asleep, n, k)
<1>1. Asleep \in TaskRecord
  BY DEF Asleep, TaskRecord, TaskSteps, Resting, Grant, NoGrant
<1>2. QED
  BY <1>1 DEF Asleep, NoGrant, StepIsSound, TaskHasOfPlace, TaskHasOfCompany, Resting, OfCompany, Carrying

LEMMA GrantInitInv == GrantInit => GrantInv
<1> SUFFICES ASSUME GrantInit PROVE GrantInv
  OBVIOUS
<1>1. \A t \in Tasks : task[t] = Asleep /\ task[t].at = "asleep" /\ task[t].place = NoTask
  BY DEF GrantInit, Asleep
<1>2. GrantTypes
  BY AsleepHoldsNothing DEF GrantInit, GrantTypes, Grant, NoGrant
<1>3. TasksAreSound
  BY <1>1, AsleepHoldsNothing DEF TasksAreSound
<1>4. ServedAlone
  BY <1>1, GrantAssumption DEF GrantInit, ServedAlone, Resting
<1>5. (\A n, p : p \in Places => ~OfPlace(n, p)) /\ (\A n, k : k \in AppKeys => ~OfApp(n, k))
  BY <1>1, AsleepHoldsNothing DEF GrantInit, OfPlace, OfApp, NoGrant
<1>6. TokensHaveOneOwner
  BY <1>5 DEF TokensHaveOneOwner
<1>7. SuccessorsAreComing /\ ConnectorsRefreshLiveTokens
  BY <1>1 DEF GrantInit, SuccessorsAreComing, ConnectorsRefreshLiveTokens
<1>8. QED
  BY <1>2, <1>3, <1>4, <1>6, <1>7 DEF GrantInv

-----------------------------------------------------------------------------
\* Who owns a token

LEMMA OwnersStay ==
    ASSUME TokensHaveOneOwner, issued \in Nat, issued' \in Nat, issued <= issued',
           \A n \in Nat, p \in Places : OfPlace(n, p)' => OfPlace(n, p),
           \A n \in Nat, k \in AppKeys : OfApp(n, k)' => OfApp(n, k)
    PROVE  TokensHaveOneOwner'
<1>1. ASSUME NEW n \in Nat, NEW p \in Places, OfPlace(n, p)'
      PROVE  n <= issued' /\ (\A q \in Places : OfPlace(n, q)' => q = p)
  <2>1. OfPlace(n, p) /\ n <= issued /\ (\A q \in Places : OfPlace(n, q) => q = p)
    BY <1>1 DEF TokensHaveOneOwner
  <2>2. QED
    BY <2>1
<1>2. ASSUME NEW n \in Nat, NEW k \in AppKeys, OfApp(n, k)'
      PROVE  /\ n <= issued' /\ (\A j \in AppKeys : OfApp(n, j)' => j = k)
             /\ \A p \in Places : ~OfPlace(n, p)'
  <2>1. /\ OfApp(n, k) /\ n <= issued /\ (\A j \in AppKeys : OfApp(n, j) => j = k)
        /\ \A p \in Places : ~OfPlace(n, p)
    BY <1>2 DEF TokensHaveOneOwner
  <2>2. QED
    BY <2>1
<1>3. QED
  BY <1>1, <1>2 DEF TokensHaveOneOwner

\* HighLevel issues a token to a place.
LEMMA PlaceIsIssuedTo ==
    ASSUME TokensHaveOneOwner, issued \in Nat, issued' = issued + 1, NEW o \in Places,
           \A n \in Nat, p \in Places : OfPlace(n, p)' => OfPlace(n, p) \/ (n = issued' /\ p = o),
           \A n \in Nat, k \in AppKeys : OfApp(n, k)' => OfApp(n, k)
    PROVE  TokensHaveOneOwner'
<1>1. ASSUME NEW n \in Nat, NEW p \in Places, OfPlace(n, p)'
      PROVE  n <= issued' /\ (\A q \in Places : OfPlace(n, q)' => q = p)
  <2>1. CASE OfPlace(n, p)
    <3>1. n <= issued /\ (\A q \in Places : OfPlace(n, q) => q = p)
      BY <2>1 DEF TokensHaveOneOwner
    <3>2. QED
      BY <3>1
  <2>2. CASE n = issued' /\ p = o
    <3>1. \A q \in Places : ~OfPlace(n, q)
      BY <2>2 DEF TokensHaveOneOwner
    <3>2. QED
      BY <3>1, <2>2
  <2>3. QED
    BY <1>1, <2>1, <2>2
<1>2. ASSUME NEW n \in Nat, NEW k \in AppKeys, OfApp(n, k)'
      PROVE  /\ n <= issued' /\ (\A j \in AppKeys : OfApp(n, j)' => j = k)
             /\ \A p \in Places : ~OfPlace(n, p)'
  <2>1. /\ OfApp(n, k) /\ n <= issued /\ (\A j \in AppKeys : OfApp(n, j) => j = k)
        /\ \A p \in Places : ~OfPlace(n, p)
    BY <1>2 DEF TokensHaveOneOwner
  <2>2. QED
    BY <2>1
<1>3. QED
  BY <1>1, <1>2 DEF TokensHaveOneOwner

\* HighLevel issues a token to the company of an app.
LEMMA CompanyIsIssuedTo ==
    ASSUME TokensHaveOneOwner, issued \in Nat, issued' = issued + 1, NEW o \in AppKeys,
           \A n \in Nat, p \in Places : OfPlace(n, p)' => OfPlace(n, p),
           \A n \in Nat, k \in AppKeys : OfApp(n, k)' => OfApp(n, k) \/ (n = issued' /\ k = o)
    PROVE  TokensHaveOneOwner'
<1>1. ASSUME NEW n \in Nat, NEW p \in Places, OfPlace(n, p)'
      PROVE  n <= issued /\ (\A q \in Places : OfPlace(n, q)' => q = p)
  BY <1>1 DEF TokensHaveOneOwner
<1>2. ASSUME NEW n \in Nat, NEW k \in AppKeys, OfApp(n, k)'
      PROVE  /\ n <= issued' /\ (\A j \in AppKeys : OfApp(n, j)' => j = k)
             /\ \A p \in Places : ~OfPlace(n, p)'
  <2>1. CASE OfApp(n, k)
    <3>1. /\ n <= issued /\ (\A j \in AppKeys : OfApp(n, j) => j = k)
          /\ \A p \in Places : ~OfPlace(n, p)
      BY <2>1 DEF TokensHaveOneOwner
    <3>2. QED
      BY <3>1
  <2>2. CASE n = issued' /\ k = o
    <3>1. (\A j \in AppKeys : ~OfApp(n, j)) /\ \A p \in Places : ~OfPlace(n, p)
      BY <2>2 DEF TokensHaveOneOwner
    <3>2. QED
      BY <3>1, <2>2
  <2>3. QED
    BY <1>2, <2>1, <2>2
<1>3. \A n \in Nat : n <= issued => n <= issued'
  OBVIOUS
<1>4. QED
  BY <1>1, <1>2, <1>3 DEF TokensHaveOneOwner

-----------------------------------------------------------------------------
\* The end of a task

LEMMA EndsTakes ==
    ASSUME GrantTypes, ServedAlone, NEW t \in Tasks, task[t].at \notin Resting, Ends(t)
    PROVE  /\ task' \in [Tasks -> TaskRecord]
           /\ serving' \in [Apps -> Tasks \cup {NoTask}]
           /\ renewing' \in [AppKeys -> Tasks \cup {NoTask}]
           /\ task'[t] = Asleep
           /\ \A x \in Tasks : task'[x] \in {task[x], Asleep}
           /\ \A x \in Tasks \ {t} : task[x].at \notin {"joined", "shared"} => task'[x] = task[x]
           /\ ServedAlone'
<1> DEFINE k == App(task[t].place)
           renewed == IF renewing[k] = t THEN {x \in Tasks : task[x].at = "shared" /\ App(task[x].place) = k} ELSE {}
           over == {t} \cup renewed
           places == {task[x].place : x \in {y \in over : y \in {serving[q] : q \in Apps}}}
<1>1. /\ task' = [x \in Tasks |->
             IF x \in over \/ (task[x].at = "joined" /\ task[x].place \in places) THEN Asleep ELSE task[x]]
      /\ serving' = [q \in Apps |-> IF q \in places THEN NoTask ELSE serving[q]]
      /\ renewing' = [renewing EXCEPT ![k] = IF @ = t THEN NoTask ELSE @]
  BY DEF Ends
<1>2. over \subseteq Tasks /\ t \in over /\ \A x \in over : x = t \/ task[x].at = "shared"
  OBVIOUS
<1>3. task' \in [Tasks -> TaskRecord]
  BY <1>1, AsleepHoldsNothing DEF GrantTypes
<1>4. /\ serving' \in [Apps -> Tasks \cup {NoTask}]
      /\ renewing' \in [AppKeys -> Tasks \cup {NoTask}]
  BY <1>1 DEF GrantTypes
<1>5. \A p \in Apps : p \in places => serving[p] \in over
  BY <1>2 DEF ServedAlone
<1>6. \A p \in Apps : serving[p] \in over => p \in places
  <2> SUFFICES ASSUME NEW p \in Apps, serving[p] \in over PROVE p \in places
    OBVIOUS
  <2>1. task[serving[p]].place = p
    BY <1>2 DEF ServedAlone
  <2>2. QED
    BY <2>1
<1>7. /\ task'[t] = Asleep
      /\ \A x \in Tasks : task'[x] \in {task[x], Asleep}
      /\ \A x \in Tasks : x \notin over /\ task[x].at # "joined" => task'[x] = task[x]
      /\ \A x \in over : task'[x] = Asleep
  BY <1>1, <1>2
<1>8. \A p \in Apps : serving'[p] = IF serving[p] \in over THEN NoTask ELSE serving[p]
  BY <1>1, <1>5, <1>6
<1> HIDE DEF k, renewed, over, places
<1>9. ServedAlone'
  <2>1. ASSUME NEW p \in Apps, serving'[p] \in Tasks
        PROVE  task'[serving'[p]].place = p /\ task'[serving'[p]].at \notin Resting /\ ~task'[serving'[p]].installs
    <3>1. serving'[p] = serving[p] /\ serving[p] \notin over
      BY <2>1, <1>8, GrantAssumption
    <3>2. task[serving[p]].place = p /\ task[serving[p]].at \notin Resting /\ ~task[serving[p]].installs
      BY <2>1, <3>1 DEF ServedAlone
    <3>3. task'[serving[p]] = task[serving[p]]
      BY <2>1, <3>1, <3>2, <1>7 DEF Resting
    <3>4. QED
      BY <3>1, <3>2, <3>3
  <2>2. ASSUME NEW x \in Tasks, task'[x].place \in Apps, task'[x].at \notin Resting, ~task'[x].installs
        PROVE  serving'[task'[x].place] = x
    <3>1. task'[x] = task[x] /\ x \notin over
      BY <2>2, <1>7 DEF Asleep, Resting
    <3>2. serving[task[x].place] = x
      BY <2>2, <3>1 DEF ServedAlone
    <3>3. QED
      BY <2>2, <3>1, <3>2, <1>8
  <2>3. QED
    BY <2>1, <2>2 DEF ServedAlone
<1>10. \A x \in Tasks \ {t} : task[x].at \notin {"joined", "shared"} => task'[x] = task[x]
  BY <1>2, <1>7
<1>11. QED
  BY <1>3, <1>4, <1>7, <1>9, <1>10

\* A task ends, whatever it could not do: what it exchanged and did not store is wasted.
LEMMA TaskEndKeeps ==
    ASSUME GrantInv, NEW t \in Tasks, task[t].at \notin Resting, Ends(t),
           UNCHANGED <<grant, company, aged>>,
           held' \in [Centers -> Grant], \A p \in Centers : held'[p] \in {held[p], grant[p]},
           known' \in [AppKeys -> Nat],
           \A k \in AppKeys : known'[k] = known[k] \/ (k = App(task[t].place) /\ known'[k] = task[t].base),
           served' \in [Places -> Nat], mishaps' \in Nat,
           issued' \in Nat, issued <= issued',
           used' \subseteq aged, used \subseteq used', wasted' \subseteq Nat,
           used' \ wasted' \subseteq used \ wasted,
           task[t].at \in {"keep", "save"} => task[t].cred.n \notin used' \ wasted',
           task[t].at \in {"renewed", "persist"} => task[t].base \notin used' \ wasted'
    PROVE  GrantInv'
<1>0. GrantTypes /\ TasksAreSound /\ ServedAlone /\ TokensHaveOneOwner
  BY DEF GrantInv
<1>1. /\ task' \in [Tasks -> TaskRecord]
      /\ serving' \in [Apps -> Tasks \cup {NoTask}]
      /\ renewing' \in [AppKeys -> Tasks \cup {NoTask}]
      /\ \A x \in Tasks : task'[x] \in {task[x], Asleep}
      /\ \A x \in Tasks \ {t} : task[x].at \notin {"joined", "shared"} => task'[x] = task[x]
      /\ task'[t] = Asleep
      /\ ServedAlone'
  BY <1>0, EndsTakes
<1>2. GrantTypes'
  BY <1>0, <1>1 DEF GrantTypes
<1>3. TasksAreSound'
  <2> SUFFICES ASSUME NEW x \in Tasks PROVE StepIsSound(task'[x], aged, issued')
    BY DEF TasksAreSound
  <2>1. StepIsSound(task[x], aged, issued)
    BY <1>0 DEF TasksAreSound
  <2>2. StepIsSound(task[x], aged, issued')
    BY <2>1, <1>0 DEF StepIsSound, GrantTypes
  <2>3. QED
    BY <2>2, <1>1, AsleepHoldsNothing
<1>4. TokensHaveOneOwner'
  <2>1. ASSUME NEW n \in Nat, NEW p \in Places, OfPlace(n, p)' PROVE OfPlace(n, p)
    <3>1. \A x \in Tasks : TaskHasOfPlace(task'[x], n, p) => TaskHasOfPlace(task[x], n, p)
      BY <2>1, <1>1, AsleepHoldsNothing DEF OfPlace
    <3>2. QED
      BY <2>1, <3>1 DEF OfPlace
  <2>2. ASSUME NEW n \in Nat, NEW k \in AppKeys, OfApp(n, k)' PROVE OfApp(n, k)
    <3>1. \A x \in Tasks : TaskHasOfCompany(task'[x], n, k) => TaskHasOfCompany(task[x], n, k)
      BY <2>2, <1>1, AsleepHoldsNothing DEF OfApp
    <3>2. known'[k] = known[k] \/ TaskHasOfCompany(task[t], known'[k], k)
      BY DEF TaskHasOfCompany
    <3>3. QED
      BY <2>2, <3>1, <3>2 DEF OfApp
  <2>3. QED
    BY <1>0, <2>1, <2>2, OwnersStay DEF GrantTypes
<1>5. SuccessorsAreComing'
  <2>1. ASSUME NEW p \in Places, grant'[p].mode = "location", grant'[p].n \in used' \ wasted'
        PROVE  Successor(p)'
    <3>1. PICK x \in Tasks : task[x].at \in {"keep", "save"} /\ task[x].cred = grant[p]
      BY <2>1 DEF GrantInv, SuccessorsAreComing, Successor
    <3>2. x # t
      BY <2>1, <3>1
    <3>3. task'[x] = task[x]
      BY <3>1, <3>2, <1>1
    <3>4. QED
      BY <3>1, <3>3 DEF Successor
  <2>2. ASSUME NEW k \in AppKeys, company'[k] \in used' \ wasted' PROVE SuccessorOfCompany(k)'
    <3>1. PICK x \in Tasks : task[x].at \in {"renewed", "persist"} /\ task[x].base = company[k]
      BY <2>2 DEF GrantInv, SuccessorsAreComing, SuccessorOfCompany
    <3>2. x # t
      BY <2>2, <3>1
    <3>3. task'[x] = task[x]
      BY <3>1, <3>2, <1>1
    <3>4. QED
      BY <3>1, <3>3 DEF SuccessorOfCompany
  <2>3. QED
    BY <2>1, <2>2 DEF SuccessorsAreComing
<1>6. ConnectorsRefreshLiveTokens'
  BY <1>1 DEF GrantInv, ConnectorsRefreshLiveTokens, Asleep
<1>7. QED
  BY <1>1, <1>2, <1>3, <1>4, <1>5, <1>6 DEF GrantInv

\* A task stores the token it was given and ends.
LEMMA EndStores ==
    ASSUME GrantInv, NEW t \in Tasks, task[t].at \in {"save", "install"}, Ends(t),
           grant' = [grant EXCEPT ![task[t].place] = [mode |-> task[t].cred.mode, n |-> task[t].got]],
           UNCHANGED <<company, known, aged, issued, used, wasted, mishaps>>,
           held' \in [Centers -> Grant], \A p \in Centers : held'[p] \in {held[p], NoGrant},
           served' \in [Places -> Nat]
    PROVE  GrantInv'
<1> DEFINE o == task[t].place
<1>0. /\ GrantTypes /\ TasksAreSound /\ ServedAlone /\ TokensHaveOneOwner
      /\ task[t].at \notin Resting
  BY DEF GrantInv, Resting
<1>1. /\ task' \in [Tasks -> TaskRecord]
      /\ serving' \in [Apps -> Tasks \cup {NoTask}]
      /\ renewing' \in [AppKeys -> Tasks \cup {NoTask}]
      /\ \A x \in Tasks : task'[x] \in {task[x], Asleep}
      /\ \A x \in Tasks \ {t} : task[x].at \notin {"joined", "shared"} => task'[x] = task[x]
      /\ task'[t] = Asleep
      /\ ServedAlone'
  BY <1>0, EndsTakes
<1>2. /\ o \in Places /\ task[t].cred # NoGrant /\ task[t].cred \in Grant
      /\ task[t].got \in 1..issued /\ task[t].got \notin aged /\ task[t].got \in Nat /\ issued \in Nat
  BY <1>0 DEF TasksAreSound, StepIsSound, Carrying, GrantTypes, TaskRecord
<1>3. /\ grant'[o].mode = task[t].cred.mode /\ grant'[o].n = task[t].got /\ grant'[o] \in Grant
      /\ \A p \in Places : p # o => grant'[p] = grant[p]
      /\ grant' \in [Places -> Grant]
  BY <1>0, <1>2 DEF GrantTypes, Grant
<1>4. GrantTypes'
  BY <1>0, <1>1, <1>3 DEF GrantTypes
<1>5. TasksAreSound'
  BY <1>0, <1>1, AsleepHoldsNothing DEF TasksAreSound
<1>6. TokensHaveOneOwner'
  <2>1. ASSUME NEW n \in Nat, NEW p \in Places, OfPlace(n, p)' PROVE OfPlace(n, p)
    <3>1. \A x \in Tasks : TaskHasOfPlace(task'[x], n, p) => TaskHasOfPlace(task[x], n, p)
      BY <2>1, <1>1, AsleepHoldsNothing DEF OfPlace
    <3>2. grant'[p].mode = "location" /\ grant'[p].n = n =>
             grant[p] = grant'[p] \/ TaskHasOfPlace(task[t], n, p)
      BY <1>3 DEF TaskHasOfPlace
    <3>3. p \in Centers /\ held'[p].mode = "location" => held'[p] = held[p]
      BY DEF NoGrant
    <3>4. QED
      BY <2>1, <3>1, <3>2, <3>3 DEF OfPlace
  <2>2. ASSUME NEW n \in Nat, NEW k \in AppKeys, OfApp(n, k)' PROVE OfApp(n, k)
    <3>1. \A x \in Tasks : TaskHasOfCompany(task'[x], n, k) => TaskHasOfCompany(task[x], n, k)
      BY <2>2, <1>1, AsleepHoldsNothing DEF OfApp
    <3>2. QED
      BY <2>2, <3>1 DEF OfApp
  <2>3. QED
    BY <1>0, <1>2, <2>1, <2>2, OwnersStay
<1>7. SuccessorsAreComing'
  <2>1. ASSUME NEW p \in Places, grant'[p].mode = "location", grant'[p].n \in used' \ wasted'
        PROVE  Successor(p)'
    <3>1. p # o
      BY <2>1, <1>2, <1>3, <1>0 DEF GrantTypes
    <3>2. grant'[p] = grant[p]
      BY <3>1, <1>3
    <3>3. PICK x \in Tasks : task[x].at \in {"keep", "save"} /\ task[x].cred = grant[p]
      BY <2>1, <3>2 DEF GrantInv, SuccessorsAreComing, Successor
    <3>4. x # t
      <4> SUFFICES ASSUME x = t PROVE FALSE
        OBVIOUS
      <4>1. grant[p].n \in Nat /\ grant[p].n # 0
        <5>1. grant[p].n \in used
          BY <2>1, <3>2
        <5>2. used \subseteq 1..issued
          BY <1>0 DEF GrantTypes
        <5>3. issued \in Nat
          BY <1>2
        <5>4. \A i \in used : i \in Nat /\ i # 0
          BY <5>2, <5>3
        <5>5. QED
          BY <5>1, <5>4
      <4>2. OfPlace(grant[p].n, o) /\ OfPlace(grant[p].n, p)
        BY <4>1, <2>1, <3>2, <3>3 DEF OfPlace, TaskHasOfPlace
      <4>3. QED
        BY <4>1, <4>2, <3>1, <1>0, <1>2 DEF TokensHaveOneOwner
    <3>5. task'[x] = task[x]
      BY <3>3, <3>4, <1>1
    <3>6. QED
      BY <3>2, <3>3, <3>5 DEF Successor
  <2>2. ASSUME NEW k \in AppKeys, company'[k] \in used' \ wasted' PROVE SuccessorOfCompany(k)'
    <3>1. PICK x \in Tasks : task[x].at \in {"renewed", "persist"} /\ task[x].base = company[k]
      BY <2>2 DEF GrantInv, SuccessorsAreComing, SuccessorOfCompany
    <3>2. task'[x] = task[x]
      BY <3>1, <1>1
    <3>3. QED
      BY <3>1, <3>2 DEF SuccessorOfCompany
  <2>3. QED
    BY <2>1, <2>2 DEF SuccessorsAreComing
<1>8. ConnectorsRefreshLiveTokens'
  BY <1>1 DEF GrantInv, ConnectorsRefreshLiveTokens, Asleep
<1>9. QED
  BY <1>1, <1>4, <1>5, <1>6, <1>7, <1>8 DEF GrantInv

-----------------------------------------------------------------------------
\* A task moves on

LEMMA StillServedAlone ==
    ASSUME ServedAlone, NEW t \in Tasks, \A x \in Tasks : x # t => task'[x] = task[x],
           UNCHANGED serving, task'[t].place = task[t].place, task'[t].installs = task[t].installs,
           task[t].at \notin Resting, task'[t].at \notin Resting
    PROVE  ServedAlone'
<1>1. \A p \in Apps : serving[p] \in Tasks =>
        task'[serving[p]].place = p /\ task'[serving[p]].at \notin Resting /\ ~task'[serving[p]].installs
  BY DEF ServedAlone
<1>2. \A x \in Tasks :
        task'[x].place \in Apps /\ task'[x].at \notin Resting /\ ~task'[x].installs => serving[task'[x].place] = x
  BY DEF ServedAlone
<1>3. QED
  BY <1>1, <1>2 DEF ServedAlone

\* Nothing is exchanged; what carries a successor goes on carrying it.
LEMMA MoveKeeps ==
    ASSUME GrantInv, NEW t \in Tasks, task' \in [Tasks -> TaskRecord],
           \A x \in Tasks : x # t => task'[x] = task[x],
           StepIsSound(task'[t], aged, issued'), ServedAlone', TokensHaveOneOwner',
           UNCHANGED <<grant, company, aged, used, wasted, mishaps>>,
           issued' \in Nat, issued <= issued',
           held' \in [Centers -> Grant], known' \in [AppKeys -> Nat], served' \in [Places -> Nat],
           renewing' \in [AppKeys -> Tasks \cup {NoTask}], serving' \in [Apps -> Tasks \cup {NoTask}],
           task[t].at \in {"keep", "save"} => task'[t].at \in {"keep", "save"} /\ task'[t].cred = task[t].cred,
           task[t].at \in {"renewed", "persist"} =>
               task'[t].at \in {"renewed", "persist"} /\ task'[t].base = task[t].base,
           task'[t].at = "refresh" /\ task'[t].place \in Apps =>
               task'[t].cred.n \notin used \/ task'[t].cred.n \in wasted
    PROVE  GrantInv'
<1>0. GrantTypes /\ TasksAreSound /\ ServedAlone /\ TokensHaveOneOwner
  BY DEF GrantInv
<1>2. GrantTypes'
  BY <1>0 DEF GrantTypes
<1>3. TasksAreSound'
  <2> SUFFICES ASSUME NEW x \in Tasks PROVE StepIsSound(task'[x], aged, issued')
    BY DEF TasksAreSound
  <2>1. CASE x = t
    BY <2>1
  <2>2. CASE x # t
    <3>1. StepIsSound(task[x], aged, issued)
      BY <1>0 DEF TasksAreSound
    <3>2. StepIsSound(task[x], aged, issued')
      BY <3>1, <1>0 DEF StepIsSound, GrantTypes
    <3>3. QED
      BY <2>2, <3>2
  <2>3. QED
    BY <2>1, <2>2
<1>4. SuccessorsAreComing'
  <2>1. ASSUME NEW p \in Places, grant'[p].mode = "location", grant'[p].n \in used' \ wasted'
        PROVE  Successor(p)'
    <3>1. PICK x \in Tasks : task[x].at \in {"keep", "save"} /\ task[x].cred = grant[p]
      BY <2>1 DEF GrantInv, SuccessorsAreComing, Successor
    <3>2. task'[x].at \in {"keep", "save"} /\ task'[x].cred = grant[p]
      BY <3>1
    <3>3. QED
      BY <3>2 DEF Successor
  <2>2. ASSUME NEW k \in AppKeys, company'[k] \in used' \ wasted' PROVE SuccessorOfCompany(k)'
    <3>1. PICK x \in Tasks : task[x].at \in {"renewed", "persist"} /\ task[x].base = company[k]
      BY <2>2 DEF GrantInv, SuccessorsAreComing, SuccessorOfCompany
    <3>2. task'[x].at \in {"renewed", "persist"} /\ task'[x].base = company[k]
      BY <3>1
    <3>3. QED
      BY <3>2 DEF SuccessorOfCompany
  <2>3. QED
    BY <2>1, <2>2 DEF SuccessorsAreComing
<1>5. ConnectorsRefreshLiveTokens'
  BY DEF GrantInv, ConnectorsRefreshLiveTokens
<1>6. QED
  BY <1>2, <1>3, <1>4, <1>5 DEF GrantInv

\* The fields of a task with some of them replaced.
LEMMA Moves ==
    ASSUME task \in [Tasks -> TaskRecord], NEW t \in Tasks, NEW r \in TaskRecord,
           task' = [task EXCEPT ![t] = r]
    PROVE  task' \in [Tasks -> TaskRecord] /\ task'[t] = r /\ \A x \in Tasks : x # t => task'[x] = task[x]
OBVIOUS

LEMMA AskTokenKeeps ==
    ASSUME GrantInv, NEW t \in Tasks, NEW p \in Places, AskToken(t, p)
    PROVE  GrantInv'
<1> DEFINE joins == p \in Apps /\ serving[p] # NoTask
           r == [Asleep EXCEPT !.at = IF joins THEN "joined" ELSE "read", !.place = p]
<1>0. GrantTypes /\ ServedAlone /\ TokensHaveOneOwner
  BY DEF GrantInv
<1>1. /\ task[t].at = "asleep" /\ task' = [task EXCEPT ![t] = r]
      /\ serving' = IF p \in Centers \/ joins THEN serving ELSE [serving EXCEPT ![p] = t]
      /\ UNCHANGED <<grant, company, known, renewing, served, held, issued, used, aged, wasted, mishaps>>
  BY DEF AskToken
<1>2. /\ r.at = IF joins THEN "joined" ELSE "read"
      /\ r.place = p /\ r.installs = FALSE /\ r.cred = NoGrant /\ r.got = 0 /\ r.base = 0
  BY DEF Asleep
<1>3. r \in TaskRecord
  BY DEF Asleep, TaskRecord, TaskSteps, Resting, Grant
<1> HIDE DEF r, joins
<1>4. task' \in [Tasks -> TaskRecord] /\ task'[t] = r /\ \A x \in Tasks : x # t => task'[x] = task[x]
  BY <1>0, <1>1, <1>3, Moves DEF GrantTypes
<1>5. StepIsSound(r, aged, issued')
  BY <1>2 DEF StepIsSound, Resting, OfCompany, Carrying
<1>6. serving' \in [Apps -> Tasks \cup {NoTask}]
  BY <1>0, <1>1, GrantAssumption DEF GrantTypes, joins, Places
<1>7. ServedAlone'
  <2>1. CASE p \in Centers \/ joins
    <3>1. serving' = serving /\ (r.at \in Resting \/ r.place \notin Apps)
      BY <2>1, <1>1, <1>2, GrantAssumption DEF Resting
    <3>2. \A q \in Apps : serving[q] # t
      BY <1>1 DEF GrantInv, ServedAlone, Resting
    <3>3. QED
      BY <3>1, <3>2, <1>0, <1>4 DEF ServedAlone
  <2>2. CASE ~(p \in Centers \/ joins)
    <3>1. /\ p \in Apps /\ serving[p] = NoTask /\ r.at = "read"
          /\ serving'[p] = t /\ \A q \in Apps : q # p => serving'[q] = serving[q]
      BY <2>2, <1>0, <1>1, <1>2 DEF Places, joins, GrantTypes
    <3>2. \A q \in Apps : serving[q] # t
      BY <1>1 DEF GrantInv, ServedAlone, Resting
    <3>3. \A x \in Tasks :
             task[x].place = p => task[x].at \in Resting \/ task[x].installs
      BY <3>1, <1>0, GrantAssumption DEF ServedAlone
    <3>4. ASSUME NEW q \in Apps, serving'[q] \in Tasks
          PROVE  task'[serving'[q]].place = q /\ task'[serving'[q]].at \notin Resting /\ ~task'[serving'[q]].installs
      <4>1. CASE q = p
        BY <4>1, <3>1, <1>2, <1>4 DEF Resting
      <4>2. CASE q # p
        BY <4>2, <3>4, <3>1, <3>2, <1>0, <1>4 DEF ServedAlone
      <4>3. QED
        BY <4>1, <4>2
    <3>5. ASSUME NEW x \in Tasks, task'[x].place \in Apps, task'[x].at \notin Resting, ~task'[x].installs
          PROVE  serving'[task'[x].place] = x
      <4>1. CASE x = t
        BY <4>1, <3>1, <1>2, <1>4
      <4>2. CASE x # t
        BY <4>2, <3>5, <3>1, <3>3, <1>0, <1>4 DEF ServedAlone
      <4>3. QED
        BY <4>1, <4>2
    <3>6. QED
      BY <3>4, <3>5 DEF ServedAlone
  <2>3. QED
    BY <2>1, <2>2
<1>8. TokensHaveOneOwner'
  <2>1. \A n \in Nat, q \in Places : OfPlace(n, q)' => OfPlace(n, q)
    BY <1>1, <1>2, <1>4 DEF OfPlace, TaskHasOfPlace, NoGrant
  <2>2. \A n \in Nat, k \in AppKeys : OfApp(n, k)' => OfApp(n, k)
    BY <1>1, <1>2, <1>4 DEF OfApp, TaskHasOfCompany
  <2>3. QED
    BY <1>0, <1>1, <2>1, <2>2, OwnersStay DEF GrantTypes
<1>9. QED
  <2>1. UNCHANGED <<grant, company, aged, used, wasted, mishaps>> /\ issued' \in Nat /\ issued <= issued'
    BY <1>0, <1>1 DEF GrantTypes
  <2>2. /\ held' \in [Centers -> Grant] /\ known' \in [AppKeys -> Nat] /\ served' \in [Places -> Nat]
        /\ renewing' \in [AppKeys -> Tasks \cup {NoTask}]
    BY <1>0, <1>1 DEF GrantTypes
  <2>3. task[t].at \notin {"keep", "save", "renewed", "persist"} /\ task'[t].at # "refresh"
    BY <1>1, <1>2, <1>4
  <2>4. StepIsSound(task'[t], aged, issued')
    BY <1>4, <1>5
  <2>5. QED
    BY <1>4, <1>6, <1>7, <1>8, <2>1, <2>2, <2>3, <2>4, MoveKeeps

\* A row that has been exchanged is in the hands of a task of its own place: of a
\* connector there is none beside the reader.
LEMMA ConnectorReadsLiveToken ==
    ASSUME GrantInv, NEW t \in Tasks, task[t].at = "read", task[t].place \in Apps,
           grant[task[t].place].mode = "location"
    PROVE  grant[task[t].place].n \notin used \/ grant[task[t].place].n \in wasted
<1> DEFINE p == task[t].place
<1> SUFFICES ASSUME grant[p].n \in used \ wasted PROVE FALSE
  OBVIOUS
<1>0. GrantTypes /\ TasksAreSound /\ ServedAlone /\ TokensHaveOneOwner /\ p \in Places
  BY DEF GrantInv, Places
<1>1. PICK x \in Tasks : task[x].at \in {"keep", "save"} /\ task[x].cred = grant[p]
  BY <1>0 DEF GrantInv, SuccessorsAreComing, Successor
<1>2. task[x].place \in Places /\ ~task[x].installs /\ ~task[t].installs
  BY <1>0, <1>1 DEF TasksAreSound, StepIsSound
<1>3. grant[p].n \in Nat /\ grant[p].n # 0
  BY <1>0 DEF GrantTypes, Grant, NoGrant
<1>4. OfPlace(grant[p].n, p) /\ OfPlace(grant[p].n, task[x].place)
  BY <1>1, <1>3 DEF OfPlace, TaskHasOfPlace
<1>5. task[x].place = p
  BY <1>0, <1>2, <1>3, <1>4 DEF TokensHaveOneOwner
<1>6. serving[p] = x /\ serving[p] = t
  BY <1>0, <1>1, <1>2, <1>5 DEF ServedAlone, Resting
<1>7. QED
  BY <1>1, <1>6

LEMMA ReadKeeps ==
    ASSUME GrantInv, NEW t \in Tasks, Read(t)
    PROVE  GrantInv'
<1> DEFINE p == task[t].place
           c == IF p \in Centers /\ held[p] # NoGrant THEN held[p] ELSE grant[p]
<1>0. GrantTypes /\ TasksAreSound /\ ServedAlone /\ TokensHaveOneOwner
  BY DEF GrantInv
<1>1. /\ task[t].at = "read"
      /\ held' = IF p \in Centers THEN [held EXCEPT ![p] = c] ELSE held
      /\ \/ c.mode = "none" /\ Ends(t) /\ UNCHANGED served
         \/ /\ c.mode # "none" /\ c.n \notin aged
            /\ served' = [served EXCEPT ![p] = c.n] /\ Ends(t)
         \/ /\ c.n \in aged
            /\ task' = [task EXCEPT ![t].cred = c, ![t].at = IF c.mode = "company" THEN "company" ELSE "refresh"]
            /\ UNCHANGED <<served, serving, renewing>>
      /\ UNCHANGED <<grant, company, known, issued, used, aged, wasted, mishaps>>
  BY DEF Read
<1>2. p \in Places /\ task[t].at \notin Resting /\ task[t] \in TaskRecord /\ StepIsSound(task[t], aged, issued)
  BY <1>0, <1>1 DEF TasksAreSound, StepIsSound, Resting, GrantTypes
<1>3. /\ c \in Grant
      /\ p \in Centers => c \in {held[p], grant[p]}
      /\ p \notin Centers => c = grant[p]
      /\ c.n # 0 => c.mode # "none"
  BY <1>0, <1>2 DEF GrantTypes, Grant, NoGrant
<1>4. c.n \in Nat /\ (c.mode = "location" /\ c.n # 0 => OfPlace(c.n, p))
  BY <1>3, <1>2, NoGrant \in Grant DEF OfPlace, Grant, NoGrant
<1> HIDE DEF c
<1>5. /\ held' \in [Centers -> Grant]
      /\ \A q \in Centers : held'[q] \in {held[q], grant[q]}
      /\ \A q \in Centers : q # p => held'[q] = held[q]
      /\ p \in Centers => held'[p] = c
  BY <1>0, <1>1, <1>3 DEF GrantTypes
<1>6. CASE Ends(t) /\ served' \in [Places -> Nat]
  <2>1. /\ UNCHANGED <<grant, company, aged>> /\ known' \in [AppKeys -> Nat]
        /\ mishaps' \in Nat /\ issued' \in Nat /\ issued <= issued'
        /\ used' \subseteq aged /\ used \subseteq used' /\ wasted' \subseteq Nat
        /\ used' \ wasted' \subseteq used \ wasted
        /\ \A k \in AppKeys : known'[k] = known[k]
        /\ task[t].at \notin {"keep", "save", "renewed", "persist"}
    BY <1>0, <1>1 DEF GrantTypes
  <2>2. QED
    BY <1>2, <1>5, <1>6, <2>1, TaskEndKeeps
<1>7. CASE /\ c.n \in aged
           /\ task' = [task EXCEPT ![t].cred = c, ![t].at = IF c.mode = "company" THEN "company" ELSE "refresh"]
           /\ UNCHANGED <<served, serving, renewing>>
  <2> DEFINE a == IF c.mode = "company" THEN "company" ELSE "refresh"
  <2>0. a \in {"company", "refresh"} /\ (a = "company" <=> c.mode = "company")
    OBVIOUS
  <2> HIDE DEF a
  <2>1. /\ task'[t].at = a /\ task'[t].cred = c
        /\ task'[t].place = p /\ task'[t].installs = task[t].installs
        /\ task'[t].got = task[t].got /\ task'[t].base = task[t].base
        /\ \A x \in Tasks : x # t => task'[x] = task[x]
    BY <1>0, <1>2, <1>7 DEF GrantTypes, TaskRecord, a
  <2>2. task' \in [Tasks -> TaskRecord]
    <3>1. [task[t] EXCEPT !.cred = c, !.at = a] \in TaskRecord
      BY <1>2, <1>3, <2>0 DEF TaskRecord, TaskSteps, OfCompany
    <3>2. task' = [task EXCEPT ![t] = [task[t] EXCEPT !.cred = c, !.at = a]]
      BY <1>0, <1>2, <1>7 DEF GrantTypes, a
    <3>3. QED
      BY <3>1, <3>2, <1>0 DEF GrantTypes
  <2>3. c.n # 0 /\ c.n \in 1..issued /\ (c.mode = "company" \/ c.mode = "location")
    BY <1>0, <1>3, <1>7 DEF GrantTypes, Grant, NoGrant
  <2>4. StepIsSound(task'[t], aged, issued')
    BY <1>1, <1>2, <1>7, <2>0, <2>1, <2>3 DEF StepIsSound, Resting, OfCompany, Carrying
  <2>5. ServedAlone'
    <3>1. task'[t].at \notin Resting
      BY <2>0, <2>1 DEF Resting
    <3>2. QED
      BY <1>0, <1>2, <1>7, <2>1, <3>1, StillServedAlone
  <2>6. TokensHaveOneOwner'
    <3>1. ASSUME NEW n \in Nat, NEW q \in Places, OfPlace(n, q)' PROVE OfPlace(n, q)
      <4>1. \A x \in Tasks : TaskHasOfPlace(task'[x], n, q) => TaskHasOfPlace(task[x], n, q) \/ OfPlace(n, q)
        BY <3>1, <1>1, <1>2, <1>4, <2>1 DEF OfPlace, TaskHasOfPlace, StepIsSound, Carrying
      <4>2. QED
        BY <3>1, <4>1, <1>1, <1>5 DEF OfPlace
    <3>2. \A n \in Nat, k \in AppKeys : OfApp(n, k)' => OfApp(n, k)
      BY <1>1, <2>0, <2>1 DEF OfApp, TaskHasOfCompany
    <3>3. QED
      BY <1>0, <1>1, <3>1, <3>2, OwnersStay DEF GrantTypes
  <2>7. task'[t].at = "refresh" /\ task'[t].place \in Apps =>
           task'[t].cred.n \notin used \/ task'[t].cred.n \in wasted
    BY <1>1, <1>3, <2>0, <2>1, <2>3, GrantAssumption, ConnectorReadsLiveToken
  <2>8. /\ UNCHANGED <<grant, company, aged, used, wasted, mishaps>>
        /\ issued' \in Nat /\ issued <= issued'
        /\ known' \in [AppKeys -> Nat] /\ served' \in [Places -> Nat]
        /\ renewing' \in [AppKeys -> Tasks \cup {NoTask}] /\ serving' \in [Apps -> Tasks \cup {NoTask}]
        /\ task[t].at \notin {"keep", "save", "renewed", "persist"}
    BY <1>0, <1>1, <1>7 DEF GrantTypes
  <2>9. QED
    BY <1>5, <2>1, <2>2, <2>4, <2>5, <2>6, <2>7, <2>8, MoveKeeps
<1>8. QED
  <2>1. c.n \in Nat /\ (UNCHANGED served => served' \in [Places -> Nat])
    BY <1>0, <1>4 DEF GrantTypes
  <2>2. served' = [served EXCEPT ![p] = c.n] => served' \in [Places -> Nat]
    BY <1>0, <2>1 DEF GrantTypes
  <2>3. QED
    BY <1>1, <1>6, <1>7, <2>1, <2>2

LEMMA KeepGrantKeeps ==
    ASSUME GrantInv, NEW t \in Tasks, KeepGrant(t)
    PROVE  GrantInv'
<1> DEFINE p == task[t].place
<1>0. GrantTypes /\ TasksAreSound /\ ServedAlone /\ TokensHaveOneOwner
  BY DEF GrantInv
<1>1. /\ task[t].at = "keep" /\ task' = [task EXCEPT ![t].at = "save"]
      /\ IF p \in Apps THEN served' = [served EXCEPT ![p] = task[t].got] /\ UNCHANGED held
         ELSE held' = [held EXCEPT ![p] = [mode |-> task[t].cred.mode, n |-> task[t].got]] /\ UNCHANGED served
      /\ UNCHANGED <<grant, company, known, renewing, serving, issued, used, aged, wasted, mishaps>>
  BY DEF KeepGrant, Turn
<1>2. p \in Places /\ task[t].at \notin Resting /\ task[t] \in TaskRecord /\ StepIsSound(task[t], aged, issued)
  BY <1>0, <1>1 DEF TasksAreSound, StepIsSound, Resting, GrantTypes
<1>3. task[t].cred # NoGrant /\ task[t].cred \in Grant /\ task[t].got \in Nat /\ task[t].got \in 1..issued \ aged
  BY <1>1, <1>2 DEF StepIsSound, TaskRecord, Carrying
<1>4. /\ held' \in [Centers -> Grant] /\ served' \in [Places -> Nat]
      /\ \A q \in Centers : held'[q] = held[q] \/
           (q = p /\ held'[q].mode = task[t].cred.mode /\ held'[q].n = task[t].got)
  <2>1. CASE p \in Apps
    <3>1. held' = held /\ served' = [served EXCEPT ![p] = task[t].got]
      BY <1>1, <2>1
    <3>2. QED
      BY <1>0, <1>3, <3>1 DEF GrantTypes
  <2>2. CASE p \notin Apps
    <3>1. p \in Centers /\ served' = served
          /\ held' = [held EXCEPT ![p] = [mode |-> task[t].cred.mode, n |-> task[t].got]]
      BY <1>1, <1>2, <2>2 DEF Places
    <3>2. [mode |-> task[t].cred.mode, n |-> task[t].got] \in Grant
      BY <1>3 DEF Grant
    <3>3. QED
      BY <1>0, <3>1, <3>2 DEF GrantTypes
  <2>3. QED
    BY <2>1, <2>2
<1>5. /\ task'[t].at = "save" /\ task'[t].cred = task[t].cred
      /\ task'[t].place = p /\ task'[t].installs = task[t].installs
      /\ task'[t].got = task[t].got /\ task'[t].base = task[t].base
      /\ \A x \in Tasks : x # t => task'[x] = task[x]
  BY <1>0, <1>1, <1>2 DEF GrantTypes, TaskRecord
<1>6. task' \in [Tasks -> TaskRecord]
  BY <1>0, <1>1, <1>2 DEF GrantTypes, TaskRecord, TaskSteps, Carrying
<1>7. StepIsSound(task'[t], aged, issued')
  BY <1>1, <1>2, <1>5 DEF StepIsSound, Resting, OfCompany, Carrying
<1>8. ServedAlone'
  BY <1>0, <1>1, <1>2, <1>5, StillServedAlone DEF Resting
<1>9. TokensHaveOneOwner'
  <2>1. ASSUME NEW n \in Nat, NEW q \in Places, OfPlace(n, q)' PROVE OfPlace(n, q)
    <3>1. \A x \in Tasks : TaskHasOfPlace(task'[x], n, q) => TaskHasOfPlace(task[x], n, q)
      BY <1>5 DEF TaskHasOfPlace
    <3>2. q \in Centers /\ held'[q].mode = "location" /\ held'[q].n = n =>
             held'[q] = held[q] \/ TaskHasOfPlace(task[t], n, q)
      BY <1>4 DEF TaskHasOfPlace
    <3>3. QED
      BY <2>1, <3>1, <3>2, <1>1 DEF OfPlace
  <2>2. \A n \in Nat, k \in AppKeys : OfApp(n, k)' => OfApp(n, k)
    BY <1>1, <1>5 DEF OfApp, TaskHasOfCompany
  <2>3. QED
    BY <1>0, <1>1, <2>1, <2>2, OwnersStay DEF GrantTypes
<1>10. QED
  <2>1. /\ UNCHANGED <<grant, company, aged, used, wasted, mishaps>>
        /\ issued' \in Nat /\ issued <= issued' /\ known' \in [AppKeys -> Nat]
        /\ renewing' \in [AppKeys -> Tasks \cup {NoTask}] /\ serving' \in [Apps -> Tasks \cup {NoTask}]
    BY <1>0, <1>1 DEF GrantTypes
  <2>2. QED
    BY <1>1, <1>4, <1>5, <1>6, <1>7, <1>8, <1>9, <2>1, MoveKeeps

-----------------------------------------------------------------------------
\* Exchanges at HighLevel

\* The refresh token of a place is exchanged: nobody else holds it ready.
LEMMA RefreshGrantKeeps ==
    ASSUME GrantInv, NEW t \in Tasks, RefreshGrant(t)
    PROVE  GrantInv'
<1> DEFINE n == task[t].cred.n
           p == task[t].place
<1>0. GrantTypes /\ TasksAreSound /\ ServedAlone /\ TokensHaveOneOwner
  BY DEF GrantInv
<1>1. /\ task[t].at = "refresh"
      /\ UNCHANGED <<grant, company, known, served, held, aged>>
  BY DEF RefreshGrant
<1>2. /\ p \in Places /\ task[t].at \notin Resting /\ task[t] \in TaskRecord
      /\ StepIsSound(task[t], aged, issued)
      /\ n \in aged /\ n \in Nat /\ n # 0 /\ task[t].cred.mode = "location" /\ ~task[t].installs
      /\ task[t].got = 0 /\ issued \in Nat
  <2>1. StepIsSound(task[t], aged, issued) /\ aged \subseteq 1..issued /\ issued \in Nat /\ task[t] \in TaskRecord
    BY <1>0 DEF TasksAreSound, GrantTypes
  <2>2. /\ p \in Places /\ n \in aged /\ task[t].cred.mode = "location" /\ ~task[t].installs
        /\ task[t].got = 0 /\ task[t].at \notin Resting
    BY <1>1, <2>1 DEF StepIsSound, Resting, Carrying
  <2>3. \A i \in 1..issued : i \in Nat /\ i # 0
    BY <2>1
  <2>4. QED
    BY <2>1, <2>2, <2>3
<1>3. OfPlace(n, p)
  BY <1>2 DEF OfPlace, TaskHasOfPlace
<1>4. CASE Ends(t) /\ UNCHANGED <<issued, used, wasted, mishaps>>
  <2>1. /\ held' \in [Centers -> Grant] /\ known' \in [AppKeys -> Nat] /\ served' \in [Places -> Nat]
        /\ mishaps' \in Nat /\ issued' \in Nat /\ issued <= issued'
        /\ used' \subseteq aged /\ used \subseteq used' /\ wasted' \subseteq Nat
        /\ used' \ wasted' \subseteq used \ wasted
    BY <1>0, <1>1, <1>4 DEF GrantTypes
  <2>2. QED
    BY <1>1, <1>2, <1>4, <2>1, TaskEndKeeps
<1>5. CASE Exchanges(n) /\ Mishap /\ wasted' = wasted \cup {n} /\ Ends(t)
  <2>1. used' = used \cup {n} /\ issued' = issued + 1 /\ mishaps' = mishaps + 1 /\ wasted' = wasted \cup {n}
    BY <1>5 DEF Exchanges, Issue, Mishap
  <2>2. /\ held' \in [Centers -> Grant] /\ known' \in [AppKeys -> Nat] /\ served' \in [Places -> Nat]
        /\ mishaps' \in Nat /\ issued' \in Nat /\ issued <= issued'
    BY <1>0, <1>1, <2>1 DEF GrantTypes
  <2>3. /\ used' \subseteq aged /\ used \subseteq used' /\ wasted' \subseteq Nat
        /\ used' \ wasted' \subseteq used \ wasted
    BY <1>0, <1>2, <2>1 DEF GrantTypes
  <2>4. QED
    BY <1>1, <1>2, <1>5, <2>2, <2>3, TaskEndKeeps
<1>6. CASE /\ Exchanges(n) /\ task' = [task EXCEPT ![t].got = issued', ![t].at = "keep"]
           /\ UNCHANGED <<serving, renewing, wasted, mishaps>>
  <2>1. n \notin used /\ used' = used \cup {n} /\ issued' = issued + 1 /\ issued' \in Nat
    BY <1>2, <1>6 DEF Exchanges, Issue
  <2>2. /\ task'[t].at = "keep" /\ task'[t].cred = task[t].cred
        /\ task'[t].place = p /\ task'[t].installs = task[t].installs
        /\ task'[t].got = issued' /\ task'[t].base = task[t].base
        /\ \A x \in Tasks : x # t => task'[x] = task[x]
    BY <1>0, <1>2, <1>6 DEF GrantTypes, TaskRecord
  <2>3. task' \in [Tasks -> TaskRecord]
    BY <1>0, <1>2, <1>6, <2>1 DEF GrantTypes, TaskRecord, TaskSteps, Carrying
  <2>4. GrantTypes'
    BY <1>0, <1>1, <1>2, <1>6, <2>1, <2>3 DEF GrantTypes
  <2>5. TasksAreSound'
    <3> SUFFICES ASSUME NEW x \in Tasks PROVE StepIsSound(task'[x], aged, issued')
      BY <1>1 DEF TasksAreSound
    <3>1. CASE x = t
      <4>1. issued' \in 1..issued' /\ issued' \notin aged
        BY <1>0, <1>2, <2>1 DEF GrantTypes
      <4>2. task[t].cred # NoGrant
        BY <1>2 DEF NoGrant
      <4>3. QED
        BY <1>2, <2>2, <3>1, <4>1, <4>2 DEF StepIsSound, Resting, OfCompany, Carrying
    <3>2. CASE x # t
      <4>1. StepIsSound(task[x], aged, issued)
        BY <1>0 DEF TasksAreSound
      <4>2. StepIsSound(task[x], aged, issued')
        BY <4>1, <1>0, <2>1 DEF StepIsSound, GrantTypes
      <4>3. QED
        BY <3>2, <4>2, <2>2
    <3>3. QED
      BY <3>1, <3>2
  <2>6. ServedAlone'
    BY <1>0, <1>2, <1>6, <2>2, StillServedAlone DEF Resting
  <2>7. TokensHaveOneOwner'
    <3>1. ASSUME NEW m \in Nat, NEW q \in Places, OfPlace(m, q)' PROVE OfPlace(m, q) \/ (m = issued' /\ q = p)
      <4>1. \A x \in Tasks : TaskHasOfPlace(task'[x], m, q) =>
               TaskHasOfPlace(task[x], m, q) \/ (m = issued' /\ q = p)
        BY <2>2 DEF TaskHasOfPlace
      <4>2. QED
        BY <3>1, <4>1, <1>1 DEF OfPlace
    <3>2. \A m \in Nat, k \in AppKeys : OfApp(m, k)' => OfApp(m, k)
      BY <1>1, <2>2 DEF OfApp, TaskHasOfCompany
    <3>3. QED
      BY <1>0, <1>2, <2>1, <3>1, <3>2, PlaceIsIssuedTo
  <2>8. SuccessorsAreComing'
    <3>1. ASSUME NEW q \in Places, grant'[q].mode = "location", grant'[q].n \in used' \ wasted'
          PROVE  Successor(q)'
      <4>1. CASE grant[q].n = n
        <5>1. grant[q] = task[t].cred
          <6>1. grant[q] \in Grant /\ task[t].cred \in Grant
            BY <1>0, <1>2 DEF GrantTypes, TaskRecord
          <6>2. QED
            BY <6>1, <3>1, <4>1, <1>1, <1>2 DEF Grant, NoGrant
        <5>2. QED
          BY <5>1, <1>1, <2>2 DEF Successor
      <4>2. CASE grant[q].n # n
        <5>1. PICK x \in Tasks : task[x].at \in {"keep", "save"} /\ task[x].cred = grant[q]
          BY <3>1, <4>2, <1>1, <1>6, <2>1 DEF GrantInv, SuccessorsAreComing, Successor
        <5>2. x # t
          BY <5>1, <1>1
        <5>3. QED
          BY <5>1, <5>2, <1>1, <2>2 DEF Successor
      <4>3. QED
        BY <4>1, <4>2
    <3>2. ASSUME NEW k \in AppKeys, company'[k] \in used' \ wasted' PROVE SuccessorOfCompany(k)'
      <4>1. company[k] # n
        <5> SUFFICES ASSUME company[k] = n PROVE FALSE
          OBVIOUS
        <5>1. OfApp(n, k)
          BY <1>2 DEF OfApp
        <5>2. QED
          BY <5>1, <1>0, <1>2, <1>3 DEF TokensHaveOneOwner
      <4>2. PICK x \in Tasks : task[x].at \in {"renewed", "persist"} /\ task[x].base = company[k]
        BY <3>2, <4>1, <1>1, <1>6, <2>1 DEF GrantInv, SuccessorsAreComing, SuccessorOfCompany
      <4>3. x # t
        BY <4>2, <1>1
      <4>4. QED
        BY <4>2, <4>3, <1>1, <2>2 DEF SuccessorOfCompany
    <3>3. QED
      BY <3>1, <3>2 DEF SuccessorsAreComing
  <2>9. ConnectorsRefreshLiveTokens'
    <3> SUFFICES ASSUME NEW x \in Tasks, task'[x].at = "refresh", task'[x].place \in Apps
                 PROVE  task'[x].cred.n \notin used' \/ task'[x].cred.n \in wasted'
      BY DEF ConnectorsRefreshLiveTokens
    <3>1. x # t /\ task'[x] = task[x]
      BY <2>2
    <3>2. task[x].cred.n \notin used \/ task[x].cred.n \in wasted
      BY <3>1 DEF GrantInv, ConnectorsRefreshLiveTokens
    <3>3. task[x].cred.n # n
      <4> SUFFICES ASSUME task[x].cred.n = n PROVE FALSE
        OBVIOUS
      <4>1. task[x].place \in Places /\ task[x].cred.mode = "location" /\ ~task[x].installs
        BY <3>1, <1>0 DEF TasksAreSound, StepIsSound
      <4>2. OfPlace(n, task[x].place)
        BY <4>1, <1>2 DEF OfPlace, TaskHasOfPlace
      <4>3. task[x].place = p
        BY <4>1, <4>2, <1>0, <1>2, <1>3 DEF TokensHaveOneOwner
      <4>4. serving[p] = x /\ serving[p] = t
        BY <3>1, <4>1, <4>3, <1>0, <1>2 DEF ServedAlone, Resting
      <4>5. QED
        BY <3>1, <4>4
    <3>4. QED
      BY <3>1, <3>2, <3>3, <1>6, <2>1
  <2>10. QED
    BY <2>4, <2>5, <2>6, <2>7, <2>8, <2>9 DEF GrantInv
<1>7. QED
  BY <1>4, <1>5, <1>6 DEF RefreshGrant

\* So is the company's, by the one refresh of its app.
LEMMA RenewKeeps ==
    ASSUME GrantInv, NEW t \in Tasks, Renew(t)
    PROVE  GrantInv'
<1> DEFINE c == task[t].base
           j == App(task[t].place)
<1>0. GrantTypes /\ TasksAreSound /\ ServedAlone /\ TokensHaveOneOwner
  BY DEF GrantInv
<1>1. /\ task[t].at = "renew"
      /\ UNCHANGED <<grant, company, known, served, held, aged>>
  BY DEF Renew
<1>2. /\ task[t].place \in Places /\ task[t].at \notin Resting /\ task[t] \in TaskRecord
      /\ StepIsSound(task[t], aged, issued)
      /\ c \in aged /\ c \in Nat /\ c # 0 /\ task[t].cred.mode = "company"
      /\ task[t].got = 0 /\ issued \in Nat /\ j \in AppKeys
  <2>1. StepIsSound(task[t], aged, issued) /\ aged \subseteq 1..issued /\ issued \in Nat /\ task[t] \in TaskRecord
    BY <1>0 DEF TasksAreSound, GrantTypes
  <2>2. /\ task[t].place \in Places /\ c \in aged /\ task[t].cred.mode = "company"
        /\ task[t].got = 0 /\ task[t].at \notin Resting /\ j \in AppKeys
    BY <1>1, <2>1 DEF StepIsSound, Resting, Carrying, OfCompany, App, AppKeys
  <2>3. \A i \in 1..issued : i \in Nat /\ i # 0
    BY <2>1
  <2>4. QED
    BY <2>1, <2>2, <2>3
<1>3. OfApp(c, j)
  BY <1>2 DEF OfApp, TaskHasOfCompany
<1>4. CASE Ends(t) /\ UNCHANGED <<issued, used, wasted, mishaps>>
  <2>1. /\ held' \in [Centers -> Grant] /\ known' \in [AppKeys -> Nat] /\ served' \in [Places -> Nat]
        /\ mishaps' \in Nat /\ issued' \in Nat /\ issued <= issued'
        /\ used' \subseteq aged /\ used \subseteq used' /\ wasted' \subseteq Nat
        /\ used' \ wasted' \subseteq used \ wasted
    BY <1>0, <1>1, <1>4 DEF GrantTypes
  <2>2. QED
    BY <1>1, <1>2, <1>4, <2>1, TaskEndKeeps
<1>5. CASE Exchanges(c) /\ Mishap /\ wasted' = wasted \cup {c} /\ Ends(t)
  <2>1. used' = used \cup {c} /\ issued' = issued + 1 /\ mishaps' = mishaps + 1 /\ wasted' = wasted \cup {c}
    BY <1>5 DEF Exchanges, Issue, Mishap
  <2>2. /\ held' \in [Centers -> Grant] /\ known' \in [AppKeys -> Nat] /\ served' \in [Places -> Nat]
        /\ mishaps' \in Nat /\ issued' \in Nat /\ issued <= issued'
    BY <1>0, <1>1, <2>1 DEF GrantTypes
  <2>3. /\ used' \subseteq aged /\ used \subseteq used' /\ wasted' \subseteq Nat
        /\ used' \ wasted' \subseteq used \ wasted
    BY <1>0, <1>2, <2>1 DEF GrantTypes
  <2>4. QED
    BY <1>1, <1>2, <1>5, <2>2, <2>3, TaskEndKeeps
<1>6. CASE /\ Exchanges(c) /\ task' = [task EXCEPT ![t].got = issued', ![t].at = "renewed"]
           /\ UNCHANGED <<serving, renewing, wasted, mishaps>>
  <2>1. c \notin used /\ used' = used \cup {c} /\ issued' = issued + 1 /\ issued' \in Nat
    BY <1>2, <1>6 DEF Exchanges, Issue
  <2>2. /\ task'[t].at = "renewed" /\ task'[t].cred = task[t].cred
        /\ task'[t].place = task[t].place /\ task'[t].installs = task[t].installs
        /\ task'[t].got = issued' /\ task'[t].base = c
        /\ \A x \in Tasks : x # t => task'[x] = task[x]
    BY <1>0, <1>2, <1>6 DEF GrantTypes, TaskRecord
  <2>3. task' \in [Tasks -> TaskRecord]
    BY <1>0, <1>2, <1>6, <2>1 DEF GrantTypes, TaskRecord, TaskSteps, Carrying
  <2>4. GrantTypes'
    BY <1>0, <1>1, <1>2, <1>6, <2>1, <2>3 DEF GrantTypes
  <2>5. TasksAreSound'
    <3> SUFFICES ASSUME NEW x \in Tasks PROVE StepIsSound(task'[x], aged, issued')
      BY <1>1 DEF TasksAreSound
    <3>1. CASE x = t
      <4>1. issued' \in 1..issued' /\ issued' \notin aged
        BY <1>0, <1>2, <2>1 DEF GrantTypes
      <4>2. QED
        BY <1>2, <2>2, <3>1, <4>1 DEF StepIsSound, Resting, OfCompany, Carrying
    <3>2. CASE x # t
      <4>1. StepIsSound(task[x], aged, issued)
        BY <1>0 DEF TasksAreSound
      <4>2. StepIsSound(task[x], aged, issued')
        BY <4>1, <1>0, <2>1 DEF StepIsSound, GrantTypes
      <4>3. QED
        BY <3>2, <4>2, <2>2
    <3>3. QED
      BY <3>1, <3>2
  <2>6. ServedAlone'
    BY <1>0, <1>2, <1>6, <2>2, StillServedAlone DEF Resting
  <2>7. TokensHaveOneOwner'
    <3>1. \A m \in Nat, q \in Places : OfPlace(m, q)' => OfPlace(m, q)
      BY <1>1, <1>2, <2>2 DEF OfPlace, TaskHasOfPlace
    <3>2. ASSUME NEW m \in Nat, NEW k \in AppKeys, OfApp(m, k)' PROVE OfApp(m, k) \/ (m = issued' /\ k = j)
      <4>1. \A x \in Tasks : TaskHasOfCompany(task'[x], m, k) =>
               TaskHasOfCompany(task[x], m, k) \/ (m = issued' /\ k = j)
        BY <2>2 DEF TaskHasOfCompany
      <4>2. QED
        BY <3>2, <4>1, <1>1 DEF OfApp
    <3>3. QED
      BY <1>0, <1>2, <2>1, <3>1, <3>2, CompanyIsIssuedTo
  <2>8. \A q \in Places : ~OfPlace(c, q)
    BY <1>0, <1>2, <1>3 DEF TokensHaveOneOwner
  <2>9. SuccessorsAreComing'
    <3>1. ASSUME NEW q \in Places, grant'[q].mode = "location", grant'[q].n \in used' \ wasted'
          PROVE  Successor(q)'
      <4>1. grant[q].n # c
        BY <2>8, <3>1, <1>1, <1>2 DEF OfPlace
      <4>2. PICK x \in Tasks : task[x].at \in {"keep", "save"} /\ task[x].cred = grant[q]
        BY <3>1, <4>1, <1>1, <1>6, <2>1 DEF GrantInv, SuccessorsAreComing, Successor
      <4>3. x # t
        BY <4>2, <1>1
      <4>4. QED
        BY <4>2, <4>3, <1>1, <2>2 DEF Successor
    <3>2. ASSUME NEW k \in AppKeys, company'[k] \in used' \ wasted' PROVE SuccessorOfCompany(k)'
      <4>1. CASE company[k] = c
        BY <4>1, <1>1, <2>2 DEF SuccessorOfCompany
      <4>2. CASE company[k] # c
        <5>1. PICK x \in Tasks : task[x].at \in {"renewed", "persist"} /\ task[x].base = company[k]
          BY <3>2, <4>2, <1>1, <1>6, <2>1 DEF GrantInv, SuccessorsAreComing, SuccessorOfCompany
        <5>2. x # t
          BY <5>1, <1>1
        <5>3. QED
          BY <5>1, <5>2, <1>1, <2>2 DEF SuccessorOfCompany
      <4>3. QED
        BY <4>1, <4>2
    <3>3. QED
      BY <3>1, <3>2 DEF SuccessorsAreComing
  <2>10. ConnectorsRefreshLiveTokens'
    <3> SUFFICES ASSUME NEW x \in Tasks, task'[x].at = "refresh", task'[x].place \in Apps
                 PROVE  task'[x].cred.n \notin used' \/ task'[x].cred.n \in wasted'
      BY DEF ConnectorsRefreshLiveTokens
    <3>1. x # t /\ task'[x] = task[x]
      BY <2>2
    <3>2. task[x].cred.n \notin used \/ task[x].cred.n \in wasted
      BY <3>1 DEF GrantInv, ConnectorsRefreshLiveTokens
    <3>3. task[x].cred.n # c
      <4>1. task[x].place \in Places /\ task[x].cred.mode = "location"
        BY <3>1, <1>0 DEF TasksAreSound, StepIsSound
      <4>2. QED
        BY <4>1, <2>8, <1>2 DEF OfPlace, TaskHasOfPlace
    <3>4. QED
      BY <3>1, <3>2, <3>3, <1>6, <2>1
  <2>11. QED
    BY <2>4, <2>5, <2>6, <2>7, <2>9, <2>10 DEF GrantInv
<1>7. QED
  BY <1>4, <1>5, <1>6 DEF Renew

-----------------------------------------------------------------------------
\* Tokens are stored

LEMMA SaveGrantKeeps ==
    ASSUME GrantInv, NEW t \in Tasks, SaveGrant(t)
    PROVE  GrantInv'
<1> DEFINE p == task[t].place
<1>0. GrantTypes /\ TasksAreSound
  BY DEF GrantInv
<1>1. /\ task[t].at = "save" /\ Ends(t)
      /\ \/ /\ grant' = [grant EXCEPT ![p] = [mode |-> task[t].cred.mode, n |-> task[t].got]]
            /\ served' = [served EXCEPT ![p] = task[t].got]
            /\ UNCHANGED <<wasted, mishaps>>
         \/ Mishap /\ wasted' = wasted \cup {task[t].cred.n} /\ UNCHANGED <<grant, served>>
      /\ UNCHANGED <<company, known, held, issued, used, aged>>
  BY DEF SaveGrant
<1>2. task[t].at \notin Resting /\ task[t].got \in Nat /\ task[t].cred.n \in Nat
  BY <1>0, <1>1 DEF Resting, GrantTypes, TaskRecord, Grant, NoGrant
<1>3. held' \in [Centers -> Grant] /\ (\A q \in Centers : held'[q] \in {held[q], NoGrant})
      /\ known' \in [AppKeys -> Nat]
  BY <1>0, <1>1 DEF GrantTypes
<1>4. CASE /\ grant' = [grant EXCEPT ![p] = [mode |-> task[t].cred.mode, n |-> task[t].got]]
           /\ served' = [served EXCEPT ![p] = task[t].got]
           /\ UNCHANGED <<wasted, mishaps>>
  <2>1. served' \in [Places -> Nat]
    BY <1>0, <1>2, <1>4 DEF GrantTypes
  <2>2. QED
    BY <1>1, <1>3, <1>4, <2>1, EndStores
<1>5. CASE Mishap /\ wasted' = wasted \cup {task[t].cred.n} /\ UNCHANGED <<grant, served>>
  <2>1. mishaps' = mishaps + 1 /\ wasted' = wasted \cup {task[t].cred.n}
    BY <1>5 DEF Mishap
  <2>2. /\ served' \in [Places -> Nat] /\ mishaps' \in Nat /\ issued' \in Nat /\ issued <= issued'
        /\ used' \subseteq aged /\ used \subseteq used'
    <3>1. UNCHANGED <<served, issued, used>>
      BY <1>1, <1>5
    <3>2. QED
      BY <1>0, <2>1, <3>1 DEF GrantTypes
  <2>3. wasted' \subseteq Nat /\ used' \ wasted' \subseteq used \ wasted
    <3>1. used' = used /\ wasted \subseteq Nat /\ task[t].cred.n \in Nat
      BY <1>0, <1>1, <1>2 DEF GrantTypes
    <3>2. QED
      BY <2>1, <3>1
  <2>4. \A q \in Centers : held'[q] \in {held[q], grant[q]}
    BY <1>1
  <2>5. QED
    BY <1>1, <1>2, <1>3, <1>5, <2>1, <2>2, <2>4, <2>3, TaskEndKeeps
<1>6. QED
  BY <1>1, <1>4, <1>5

LEMMA StoreInstallKeeps ==
    ASSUME GrantInv, NEW t \in Tasks, StoreInstall(t)
    PROVE  GrantInv'
<1> DEFINE p == task[t].place
<1>0. GrantTypes /\ TasksAreSound
  BY DEF GrantInv
<1>1. /\ task[t].at = "install" /\ Ends(t)
      /\ \/ (StoreConnector(t) \/ StoreCenter(t)) /\ UNCHANGED mishaps
         \/ Mishap /\ UNCHANGED <<grant, served, held>>
      /\ UNCHANGED <<company, known, issued, used, aged, wasted>>
  BY DEF StoreInstall
<1>2. CASE (StoreConnector(t) \/ StoreCenter(t)) /\ UNCHANGED mishaps
  <2>1. grant' = [grant EXCEPT ![p] = [mode |-> task[t].cred.mode, n |-> task[t].got]]
    BY <1>2 DEF StoreConnector, StoreCenter
  <2>2. /\ \/ held' = held
           \/ p \in Centers /\ held' = [held EXCEPT ![p] = NoGrant]
        /\ served' = served \/ served' = [served EXCEPT ![p] = 0]
    BY <1>2 DEF StoreConnector, StoreCenter
  <2>3. /\ held' \in [Centers -> Grant] /\ \A q \in Centers : held'[q] \in {held[q], NoGrant}
        /\ served' \in [Places -> Nat]
    BY <1>0, <2>2, NoGrant \in Grant DEF GrantTypes, Grant
  <2>4. QED
    BY <1>1, <1>2, <2>1, <2>3, EndStores
<1>3. CASE Mishap /\ UNCHANGED <<grant, served, held>>
  <2>1. mishaps' = mishaps + 1
    BY <1>3 DEF Mishap
  <2>2. /\ served' \in [Places -> Nat] /\ mishaps' \in Nat /\ issued' \in Nat /\ issued <= issued'
        /\ used' \subseteq aged /\ used \subseteq used' /\ wasted' \subseteq Nat
        /\ used' \ wasted' \subseteq used \ wasted
        /\ held' \in [Centers -> Grant] /\ known' \in [AppKeys -> Nat]
        /\ \A q \in Centers : held'[q] \in {held[q], grant[q]}
    BY <1>0, <1>1, <1>3, <2>1 DEF GrantTypes
  <2>3. task[t].at \notin Resting
    BY <1>1 DEF Resting
  <2>4. QED
    BY <1>1, <1>3, <2>2, <2>3, TaskEndKeeps
<1>4. QED
  BY <1>1, <1>2, <1>3

-----------------------------------------------------------------------------
\* The token of the company

\* A company token in hand, from the cache or the row, decides where a task goes on.
LEMMA TokenOrRefreshKeeps ==
    ASSUME GrantInv, NEW t \in Tasks, task[t].at \in {"company", "loaded"},
           NEW c \in Nat, c # 0 => OfApp(c, App(task[t].place)),
           TokenOrRefresh(t, c),
           known' \in [AppKeys -> Nat],
           \A k \in AppKeys : known'[k] = known[k] \/
               (k = App(task[t].place) /\ known'[k] = c /\ c = task[t].base),
           UNCHANGED <<grant, company, served, held, issued, used, aged, wasted, mishaps>>
    PROVE  GrantInv'
<1> DEFINE k == App(task[t].place)
           at == IF c \notin aged THEN "mint" ELSE IF renewing[k] # NoTask THEN "shared" ELSE "renew"
<1>0. GrantTypes /\ TasksAreSound /\ ServedAlone /\ TokensHaveOneOwner
  BY DEF GrantInv
<1>1. \/ c = 0 /\ Ends(t)
      \/ /\ c # 0
         /\ task' = [task EXCEPT ![t].base = c, ![t].at = at]
         /\ renewing' = IF at = "renew" THEN [renewing EXCEPT ![k] = t] ELSE renewing
         /\ UNCHANGED serving
  BY DEF TokenOrRefresh
<1>2. StepIsSound(task[t], aged, issued) /\ task[t] \in TaskRecord /\ issued \in Nat
  BY <1>0 DEF TasksAreSound, GrantTypes
<1>3. /\ task[t].place \in Places /\ task[t].at \notin Resting
      /\ task[t].cred.mode = "company" /\ task[t].got = 0 /\ k \in AppKeys
  BY <1>2 DEF StepIsSound, Resting, Carrying, OfCompany, App, AppKeys
<1>4. /\ served' \in [Places -> Nat] /\ held' \in [Centers -> Grant]
      /\ issued' \in Nat /\ issued <= issued'
  BY <1>0 DEF GrantTypes
<1>5. CASE c = 0 /\ Ends(t)
  <2>1. /\ mishaps' \in Nat
        /\ used' \subseteq aged /\ used \subseteq used' /\ wasted' \subseteq Nat
        /\ used' \ wasted' \subseteq used \ wasted
        /\ \A q \in Centers : held'[q] \in {held[q], grant[q]}
    BY <1>0 DEF GrantTypes
  <2>2. QED
    BY <1>3, <1>4, <1>5, <2>1, TaskEndKeeps
<1>6. CASE /\ c # 0
           /\ task' = [task EXCEPT ![t].base = c, ![t].at = at]
           /\ renewing' = IF at = "renew" THEN [renewing EXCEPT ![k] = t] ELSE renewing
           /\ UNCHANGED serving
  <2>0. at \in {"mint", "shared", "renew"} /\ (at = "renew" => c \in aged)
    OBVIOUS
  <2> HIDE DEF at
  <2>1. /\ task'[t].at = at /\ task'[t].base = c
        /\ task'[t].place = task[t].place /\ task'[t].installs = task[t].installs
        /\ task'[t].got = task[t].got /\ task'[t].cred = task[t].cred
        /\ \A x \in Tasks : x # t => task'[x] = task[x]
    BY <1>0, <1>2, <1>6 DEF GrantTypes, TaskRecord
  <2>2. task' \in [Tasks -> TaskRecord]
    <3>1. [task[t] EXCEPT !.base = c, !.at = at] \in TaskRecord
      BY <1>2, <2>0 DEF TaskRecord, TaskSteps, OfCompany
    <3>2. task' = [task EXCEPT ![t] = [task[t] EXCEPT !.base = c, !.at = at]]
      BY <1>0, <1>2, <1>6 DEF GrantTypes
    <3>3. QED
      BY <3>1, <3>2, <1>0 DEF GrantTypes
  <2>3. StepIsSound(task'[t], aged, issued')
    BY <1>2, <1>3, <2>0, <2>1 DEF StepIsSound, Resting, OfCompany, Carrying
  <2>4. ServedAlone'
    <3>1. task'[t].at \notin Resting
      BY <2>0, <2>1 DEF Resting
    <3>2. QED
      BY <1>0, <1>3, <1>6, <2>1, <3>1, StillServedAlone
  <2>5. TokensHaveOneOwner'
    <3>1. \A n \in Nat, q \in Places : OfPlace(n, q)' => OfPlace(n, q)
      BY <2>1 DEF OfPlace, TaskHasOfPlace
    <3>2. ASSUME NEW n \in Nat, NEW q \in AppKeys, OfApp(n, q)' PROVE OfApp(n, q)
      <4>1. \A x \in Tasks : TaskHasOfCompany(task'[x], n, q) => TaskHasOfCompany(task[x], n, q) \/ OfApp(n, q)
        <5>1. TaskHasOfCompany(task'[t], n, q) => OfApp(n, q)
          BY <1>6, <2>0, <2>1 DEF TaskHasOfCompany
        <5>2. QED
          BY <5>1, <2>1
      <4>2. n = known'[q] => n = known[q] \/ OfApp(n, q)
        BY <1>6
      <4>3. QED
        BY <3>2, <4>1, <4>2 DEF OfApp
    <3>3. QED
      BY <1>0, <1>2, <1>4, <3>1, <3>2, OwnersStay
  <2>6. renewing' \in [AppKeys -> Tasks \cup {NoTask}] /\ serving' \in [Apps -> Tasks \cup {NoTask}]
    BY <1>0, <1>6 DEF GrantTypes
  <2>7. task'[t].at # "refresh"
    BY <2>0, <2>1
  <2>8. QED
    BY <1>4, <2>1, <2>2, <2>3, <2>4, <2>5, <2>6, <2>7, MoveKeeps
<1>7. QED
  BY <1>1, <1>5, <1>6

LEMMA LoadCompanyKeeps ==
    ASSUME GrantInv, NEW t \in Tasks, LoadCompany(t)
    PROVE  GrantInv'
<1> DEFINE k == App(task[t].place)
<1>0. GrantTypes /\ TasksAreSound /\ ServedAlone /\ TokensHaveOneOwner
  BY DEF GrantInv
<1>1. /\ task[t].at = "company"
      /\ IF known[k] # 0 THEN TokenOrRefresh(t, known[k])
         ELSE /\ task' = [task EXCEPT ![t].base = company[k], ![t].at = "loaded"]
              /\ UNCHANGED <<serving, renewing>>
      /\ UNCHANGED <<grant, company, known, served, held, issued, used, aged, wasted, mishaps>>
  BY DEF LoadCompany
<1>2. StepIsSound(task[t], aged, issued) /\ task[t] \in TaskRecord /\ issued \in Nat
  BY <1>0 DEF TasksAreSound, GrantTypes
<1>3. /\ task[t].place \in Places /\ task[t].at \notin Resting
      /\ task[t].cred.mode = "company" /\ task[t].got = 0 /\ k \in AppKeys
  BY <1>1, <1>2 DEF StepIsSound, Resting, Carrying, OfCompany, App, AppKeys
<1>4. company[k] \in Nat /\ known[k] \in Nat /\ (company[k] # 0 => OfApp(company[k], k))
      /\ (known[k] # 0 => OfApp(known[k], k))
  BY <1>0, <1>3 DEF GrantTypes, OfApp
<1>5. CASE known[k] # 0
  <2>1. known' \in [AppKeys -> Nat] /\ \A q \in AppKeys : known'[q] = known[q]
    BY <1>0, <1>1 DEF GrantTypes
  <2>2. QED
    BY <1>1, <1>4, <1>5, <2>1, TokenOrRefreshKeeps
<1>6. CASE known[k] = 0
  <2>0. task' = [task EXCEPT ![t].base = company[k], ![t].at = "loaded"] /\ UNCHANGED <<serving, renewing>>
    BY <1>1, <1>6
  <2>1. /\ task'[t].at = "loaded" /\ task'[t].base = company[k]
        /\ task'[t].place = task[t].place /\ task'[t].installs = task[t].installs
        /\ task'[t].got = task[t].got /\ task'[t].cred = task[t].cred
        /\ \A x \in Tasks : x # t => task'[x] = task[x]
    BY <1>0, <1>2, <2>0 DEF GrantTypes, TaskRecord
  <2>2. task' \in [Tasks -> TaskRecord]
    BY <1>0, <1>2, <1>4, <2>0 DEF GrantTypes, TaskRecord, TaskSteps, OfCompany
  <2>3. StepIsSound(task'[t], aged, issued')
    BY <1>1, <1>2, <1>3, <2>1 DEF StepIsSound, Resting, OfCompany, Carrying
  <2>4. ServedAlone'
    BY <1>0, <1>3, <2>0, <2>1, StillServedAlone DEF Resting
  <2>5. TokensHaveOneOwner'
    <3>1. \A n \in Nat, q \in Places : OfPlace(n, q)' => OfPlace(n, q)
      BY <1>1, <2>1 DEF OfPlace, TaskHasOfPlace
    <3>2. ASSUME NEW n \in Nat, NEW q \in AppKeys, OfApp(n, q)' PROVE OfApp(n, q)
      <4>1. TaskHasOfCompany(task'[t], n, q) => n = company[q]
        BY <2>1 DEF TaskHasOfCompany
      <4>2. QED
        BY <3>2, <4>1, <1>1, <2>1 DEF OfApp
    <3>3. QED
      BY <1>0, <1>1, <1>2, <3>1, <3>2, OwnersStay
  <2>6. /\ UNCHANGED <<grant, company, aged, used, wasted, mishaps>> /\ issued' \in Nat /\ issued <= issued'
        /\ served' \in [Places -> Nat] /\ held' \in [Centers -> Grant] /\ known' \in [AppKeys -> Nat]
        /\ renewing' \in [AppKeys -> Tasks \cup {NoTask}] /\ serving' \in [Apps -> Tasks \cup {NoTask}]
    BY <1>0, <1>1, <2>0 DEF GrantTypes
  <2>7. task'[t].at # "refresh" /\ task[t].at \notin {"keep", "save", "renewed", "persist"}
    BY <1>1, <2>1
  <2>8. QED
    BY <2>1, <2>2, <2>3, <2>4, <2>5, <2>6, <2>7, MoveKeeps
<1>7. QED
  BY <1>5, <1>6

LEMMA LoadedKeeps ==
    ASSUME GrantInv, NEW t \in Tasks, Loaded(t)
    PROVE  GrantInv'
<1> DEFINE k == App(task[t].place)
           c == task[t].base
<1>0. GrantTypes /\ TasksAreSound
  BY DEF GrantInv
<1>1. /\ task[t].at = "loaded"
      /\ known' = IF c = 0 THEN known ELSE [known EXCEPT ![k] = c]
      /\ TokenOrRefresh(t, c)
      /\ UNCHANGED <<grant, company, served, held, issued, used, aged, wasted, mishaps>>
  BY DEF Loaded
<1>2. c \in Nat /\ (c # 0 => OfApp(c, k))
  BY <1>0 DEF GrantTypes, TaskRecord, OfApp, TaskHasOfCompany
<1>3. known' \in [AppKeys -> Nat] /\ \A q \in AppKeys : known'[q] = known[q] \/ (q = k /\ known'[q] = c)
  BY <1>0, <1>1, <1>2 DEF GrantTypes
<1>4. QED
  BY <1>1, <1>2, <1>3, TokenOrRefreshKeeps

LEMMA RenewedKeeps ==
    ASSUME GrantInv, NEW t \in Tasks, Renewed(t)
    PROVE  GrantInv'
<1> DEFINE k == App(task[t].place)
<1>0. GrantTypes /\ TasksAreSound /\ ServedAlone /\ TokensHaveOneOwner
  BY DEF GrantInv
<1>1. /\ task[t].at = "renewed"
      /\ known' = [known EXCEPT ![k] = task[t].got]
      /\ task' = [task EXCEPT ![t].at = "persist"]
      /\ UNCHANGED <<grant, company, renewing, served, serving, held, issued, used, aged, wasted, mishaps>>
  BY DEF Renewed, Turn
<1>2. StepIsSound(task[t], aged, issued) /\ task[t] \in TaskRecord /\ issued \in Nat
  BY <1>0 DEF TasksAreSound, GrantTypes
<1>3. /\ task'[t].at = "persist" /\ task'[t].base = task[t].base
      /\ task'[t].place = task[t].place /\ task'[t].installs = task[t].installs
      /\ task'[t].got = task[t].got /\ task'[t].cred = task[t].cred
      /\ \A x \in Tasks : x # t => task'[x] = task[x]
  BY <1>0, <1>1, <1>2 DEF GrantTypes, TaskRecord
<1>4. task' \in [Tasks -> TaskRecord]
  BY <1>0, <1>1, <1>2 DEF GrantTypes, TaskRecord, TaskSteps, Carrying
<1>5. StepIsSound(task'[t], aged, issued')
  BY <1>1, <1>2, <1>3 DEF StepIsSound, Resting, OfCompany, Carrying
<1>6. ServedAlone'
  BY <1>0, <1>1, <1>3, StillServedAlone DEF Resting
<1>7. known' \in [AppKeys -> Nat] /\ \A q \in AppKeys : known'[q] = known[q] \/ (q = k /\ known'[q] = task[t].got)
  BY <1>0, <1>1, <1>2 DEF GrantTypes, TaskRecord
<1>8. TokensHaveOneOwner'
  <2>1. \A n \in Nat, q \in Places : OfPlace(n, q)' => OfPlace(n, q)
    BY <1>1, <1>3 DEF OfPlace, TaskHasOfPlace
  <2>2. ASSUME NEW n \in Nat, NEW q \in AppKeys, OfApp(n, q)' PROVE OfApp(n, q)
    <3>1. \A x \in Tasks : TaskHasOfCompany(task'[x], n, q) => TaskHasOfCompany(task[x], n, q)
      BY <1>1, <1>3 DEF TaskHasOfCompany
    <3>2. n = known'[q] => n = known[q] \/ TaskHasOfCompany(task[t], n, q)
      BY <1>1, <1>7 DEF TaskHasOfCompany
    <3>3. QED
      BY <2>2, <3>1, <3>2, <1>1 DEF OfApp
  <2>3. QED
    BY <1>0, <1>1, <1>2, <2>1, <2>2, OwnersStay
<1>9. QED
  <2>1. /\ UNCHANGED <<grant, company, aged, used, wasted, mishaps>> /\ issued' \in Nat /\ issued <= issued'
        /\ served' \in [Places -> Nat] /\ held' \in [Centers -> Grant]
        /\ renewing' \in [AppKeys -> Tasks \cup {NoTask}] /\ serving' \in [Apps -> Tasks \cup {NoTask}]
    BY <1>0, <1>1 DEF GrantTypes
  <2>2. QED
    BY <1>1, <1>3, <1>4, <1>5, <1>6, <1>7, <1>8, <2>1, MoveKeeps

\* Everybody who waited goes on without a token of its own.
LEMMA GoesOn ==
    ASSUME NEW r \in TaskRecord, NEW a \in {"mint", "company"}, NEW m, m = [r EXCEPT !.at = a, !.got = 0]
    PROVE  /\ m \in TaskRecord /\ m.at \in {"mint", "company"} /\ m.got = 0 /\ m.place = r.place
           /\ m.installs = r.installs /\ m.cred = r.cred /\ m.base = r.base
BY DEF TaskRecord, TaskSteps, OfCompany

LEMMA PersistCompanyKeeps ==
    ASSUME GrantInv, NEW t \in Tasks, PersistCompany(t)
    PROVE  GrantInv'
<1> DEFINE k == App(task[t].place)
           waiting == IF renewing[k] = t
                      THEN {t} \cup {x \in Tasks : task[x].at = "shared" /\ App(task[x].place) = k} ELSE {}
<1>0. GrantTypes /\ TasksAreSound /\ ServedAlone /\ TokensHaveOneOwner
  BY DEF GrantInv
<1>1. /\ task[t].at = "persist"
      /\ \/ /\ company' = [company EXCEPT ![k] = task[t].got]
            /\ task' = [x \in Tasks |-> CASE x \in waiting -> [task[x] EXCEPT !.at = "mint", !.got = 0]
                                        [] x = t /\ x \notin waiting -> [task[x] EXCEPT !.at = "company", !.got = 0]
                                        [] OTHER -> task[x]]
            /\ renewing' = [renewing EXCEPT ![k] = IF @ = t THEN NoTask ELSE @]
            /\ UNCHANGED <<serving, wasted, mishaps>>
         \/ Mishap /\ wasted' = wasted \cup ({task[t].base} \ {0}) /\ Ends(t) /\ UNCHANGED company
      /\ UNCHANGED <<grant, known, served, held, issued, used, aged>>
  BY DEF PersistCompany
<1>2. /\ StepIsSound(task[t], aged, issued) /\ task[t] \in TaskRecord /\ issued \in Nat
      /\ \A i \in 1..issued : i \in Nat /\ i # 0
  BY <1>0 DEF TasksAreSound, GrantTypes
<1>3. /\ task[t].place \in Places /\ task[t].at \notin Resting
      /\ task[t].cred.mode = "company" /\ task[t].got \in 1..issued \ aged /\ k \in AppKeys
      /\ task[t].base \in Nat
  BY <1>1, <1>2 DEF StepIsSound, Resting, Carrying, OfCompany, App, AppKeys, TaskRecord
<1>4. CASE Mishap /\ wasted' = wasted \cup ({task[t].base} \ {0}) /\ Ends(t) /\ UNCHANGED company
  <2>1. mishaps' = mishaps + 1
    BY <1>4 DEF Mishap
  <2>2. /\ served' \in [Places -> Nat] /\ mishaps' \in Nat /\ issued' \in Nat /\ issued <= issued'
        /\ used' \subseteq aged /\ used \subseteq used' /\ wasted' \subseteq Nat
        /\ used' \ wasted' \subseteq used \ wasted
        /\ held' \in [Centers -> Grant] /\ known' \in [AppKeys -> Nat]
        /\ \A q \in Centers : held'[q] \in {held[q], grant[q]}
    BY <1>0, <1>1, <1>3, <1>4, <2>1 DEF GrantTypes
  <2>3. task[t].base \notin used' \ wasted'
    BY <1>0, <1>1, <1>2, <1>4 DEF GrantTypes
  <2>4. QED
    BY <1>1, <1>3, <1>4, <2>2, <2>3, TaskEndKeeps
<1>5. CASE /\ company' = [company EXCEPT ![k] = task[t].got]
           /\ task' = [x \in Tasks |-> CASE x \in waiting -> [task[x] EXCEPT !.at = "mint", !.got = 0]
                                       [] x = t /\ x \notin waiting -> [task[x] EXCEPT !.at = "company", !.got = 0]
                                       [] OTHER -> task[x]]
           /\ renewing' = [renewing EXCEPT ![k] = IF @ = t THEN NoTask ELSE @]
           /\ UNCHANGED <<serving, wasted, mishaps>>
  <2>0. UNCHANGED <<grant, known, served, held, issued, used, aged, serving, wasted, mishaps>>
    BY <1>1, <1>5
  <2>1. \A x \in waiting : x = t \/ task[x].at = "shared"
    OBVIOUS
  <2> HIDE DEF waiting
  <2>2. \A x \in Tasks :
           \/ task'[x] = task[x] /\ x # t
           \/ /\ x = t \/ task[x].at = "shared"
              /\ \/ task'[x] = [task[x] EXCEPT !.at = "mint", !.got = 0]
                 \/ task'[x] = [task[x] EXCEPT !.at = "company", !.got = 0]
    BY <1>5, <2>1
  <2>3. \A x \in Tasks : task[x] \in TaskRecord
    BY <1>0 DEF GrantTypes
  <2>4. \A x \in Tasks :
           \/ task'[x] = task[x] /\ x # t
           \/ /\ x = t \/ task[x].at = "shared"
              /\ task'[x] \in TaskRecord /\ task'[x].at \in {"mint", "company"} /\ task'[x].got = 0
              /\ task'[x].place = task[x].place /\ task'[x].installs = task[x].installs
              /\ task'[x].cred = task[x].cred /\ task'[x].base = task[x].base
    <3> SUFFICES ASSUME NEW x \in Tasks, ~(task'[x] = task[x] /\ x # t)
                 PROVE  /\ x = t \/ task[x].at = "shared"
                        /\ task'[x] \in TaskRecord /\ task'[x].at \in {"mint", "company"} /\ task'[x].got = 0
                        /\ task'[x].place = task[x].place /\ task'[x].installs = task[x].installs
                        /\ task'[x].cred = task[x].cred /\ task'[x].base = task[x].base
      OBVIOUS
    <3>1. task[x] \in TaskRecord /\ (x = t \/ task[x].at = "shared")
      BY <2>2, <2>3
    <3>2. CASE task'[x] = [task[x] EXCEPT !.at = "mint", !.got = 0]
      BY <3>1, <3>2, GoesOn
    <3>3. CASE task'[x] = [task[x] EXCEPT !.at = "company", !.got = 0]
      BY <3>1, <3>3, GoesOn
    <3>4. QED
      BY <2>2, <3>2, <3>3
  <2>5. \A x \in Tasks : task'[x].place = task[x].place /\ task'[x].installs = task[x].installs
                         /\ task'[x].cred = task[x].cred /\ task'[x].base = task[x].base
    BY <2>4
  <2>6. task' \in [Tasks -> TaskRecord]
    <3>1. \A x \in Tasks : task'[x] \in TaskRecord
      BY <2>3, <2>4
    <3>2. task' = [x \in Tasks |-> task'[x]]
      BY <1>5
    <3>3. QED
      BY <3>1, <3>2
  <2>7. company' \in [AppKeys -> Nat] /\ company'[k] = task[t].got /\ \A j \in AppKeys : j # k => company'[j] = company[j]
    BY <1>0, <1>2, <1>3, <1>5 DEF GrantTypes
  <2>8. renewing' \in [AppKeys -> Tasks \cup {NoTask}]
    BY <1>0, <1>5 DEF GrantTypes
  <2>9. GrantTypes'
    BY <1>0, <1>1, <1>5, <2>6, <2>7, <2>8 DEF GrantTypes
  <2>10. TasksAreSound'
    <3> SUFFICES ASSUME NEW x \in Tasks PROVE StepIsSound(task'[x], aged, issued)
      BY <1>1 DEF TasksAreSound
    <3>1. StepIsSound(task[x], aged, issued)
      BY <1>0 DEF TasksAreSound
    <3>2. CASE task'[x] = task[x]
      BY <3>1, <3>2
    <3>3. CASE task'[x] # task[x]
      <4>1. /\ x = t \/ task[x].at = "shared"
            /\ task'[x].at \in {"mint", "company"} /\ task'[x].got = 0
        BY <2>4, <3>3
      <4>2. task[x].place \in Places /\ task[x].cred.mode = "company"
        BY <1>3, <3>1, <4>1 DEF StepIsSound, OfCompany
      <4>3. QED
        BY <4>1, <4>2, <2>5 DEF StepIsSound, Resting, OfCompany, Carrying
    <3>4. QED
      BY <3>2, <3>3
  <2>11. ServedAlone'
    <3>1. \A x \in Tasks : (task'[x].at \in Resting) = (task[x].at \in Resting)
      BY <1>3, <2>4 DEF Resting
    <3>2. ASSUME NEW p \in Apps, serving'[p] \in Tasks
          PROVE  task'[serving'[p]].place = p /\ task'[serving'[p]].at \notin Resting /\ ~task'[serving'[p]].installs
      BY <3>1, <3>2, <1>0, <2>0, <2>5 DEF ServedAlone
    <3>3. ASSUME NEW x \in Tasks, task'[x].place \in Apps, task'[x].at \notin Resting, ~task'[x].installs
          PROVE  serving'[task'[x].place] = x
      BY <3>1, <3>3, <1>0, <2>0, <2>5 DEF ServedAlone
    <3>4. QED
      BY <3>2, <3>3 DEF ServedAlone
  <2>12. TokensHaveOneOwner'
    <3>1. ASSUME NEW n \in Nat, NEW q \in Places, OfPlace(n, q)' PROVE OfPlace(n, q)
      <4>1. \A x \in Tasks : n # 0 /\ TaskHasOfPlace(task'[x], n, q) => TaskHasOfPlace(task[x], n, q)
        BY <2>4 DEF TaskHasOfPlace
      <4>2. QED
        BY <3>1, <4>1, <1>1 DEF OfPlace
    <3>2. ASSUME NEW n \in Nat, NEW j \in AppKeys, OfApp(n, j)' PROVE OfApp(n, j)
      <4>1. \A x \in Tasks : n # 0 /\ TaskHasOfCompany(task'[x], n, j) => TaskHasOfCompany(task[x], n, j)
        BY <2>4 DEF TaskHasOfCompany
      <4>2. n = company'[j] => n = company[j] \/ TaskHasOfCompany(task[t], n, j)
        BY <1>1, <2>7 DEF TaskHasOfCompany
      <4>3. QED
        BY <3>2, <4>1, <4>2, <1>1 DEF OfApp
    <3>3. QED
      BY <1>0, <1>2, <2>0, <3>1, <3>2, OwnersStay
  <2>13. SuccessorsAreComing'
    <3>1. ASSUME NEW p \in Places, grant'[p].mode = "location", grant'[p].n \in used' \ wasted'
          PROVE  Successor(p)'
      <4>1. PICK x \in Tasks : task[x].at \in {"keep", "save"} /\ task[x].cred = grant[p]
        BY <3>1, <1>1, <1>5 DEF GrantInv, SuccessorsAreComing, Successor
      <4>2. task'[x] = task[x]
        BY <4>1, <1>1, <2>4
      <4>3. QED
        BY <4>1, <4>2, <1>1 DEF Successor
    <3>2. ASSUME NEW j \in AppKeys, company'[j] \in used' \ wasted' PROVE SuccessorOfCompany(j)'
      <4>1. j # k
        BY <3>2, <1>0, <1>1, <1>3, <2>7 DEF GrantTypes
      <4>2. company'[j] = company[j]
        BY <4>1, <2>7
      <4>3. PICK x \in Tasks : task[x].at \in {"renewed", "persist"} /\ task[x].base = company[j]
        BY <3>2, <4>2, <1>1, <1>5 DEF GrantInv, SuccessorsAreComing, SuccessorOfCompany
      <4>4. x # t
        <5> SUFFICES ASSUME x = t PROVE FALSE
          OBVIOUS
        <5>1. company[j] \in Nat /\ company[j] # 0
          BY <3>2, <4>2, <1>0, <1>1, <1>2 DEF GrantTypes
        <5>2. OfApp(company[j], j) /\ OfApp(company[j], k)
          BY <5>1, <4>3 DEF OfApp, TaskHasOfCompany
        <5>3. QED
          BY <5>1, <5>2, <4>1, <1>0, <1>3 DEF TokensHaveOneOwner
      <4>5. task'[x] = task[x]
        BY <4>3, <4>4, <2>4
      <4>6. QED
        BY <4>2, <4>3, <4>5 DEF SuccessorOfCompany
    <3>3. QED
      BY <3>1, <3>2 DEF SuccessorsAreComing
  <2>14. ConnectorsRefreshLiveTokens'
    <3> SUFFICES ASSUME NEW x \in Tasks, task'[x].at = "refresh", task'[x].place \in Apps
                 PROVE  task'[x].cred.n \notin used' \/ task'[x].cred.n \in wasted'
      BY DEF ConnectorsRefreshLiveTokens
    <3>1. task'[x] = task[x]
      BY <2>4
    <3>2. QED
      BY <3>1, <2>0 DEF GrantInv, ConnectorsRefreshLiveTokens
  <2>15. QED
    BY <2>9, <2>10, <2>11, <2>12, <2>13, <2>14 DEF GrantInv
<1>6. QED
  BY <1>1, <1>4, <1>5

LEMMA MintKeeps ==
    ASSUME GrantInv, NEW t \in Tasks, Mint(t)
    PROVE  GrantInv'
<1>0. GrantTypes /\ TasksAreSound /\ ServedAlone /\ TokensHaveOneOwner
  BY DEF GrantInv
<1>1. /\ task[t].at = "mint"
      /\ \/ /\ Issue
            /\ task' = [task EXCEPT ![t].got = issued', ![t].at = IF task[t].installs THEN "install" ELSE "keep"]
            /\ UNCHANGED <<serving, renewing>>
         \/ Ends(t) /\ UNCHANGED issued
      /\ UNCHANGED <<grant, company, known, served, held, used, aged, wasted, mishaps>>
  BY DEF Mint
<1>2. StepIsSound(task[t], aged, issued) /\ task[t] \in TaskRecord /\ issued \in Nat
  BY <1>0 DEF TasksAreSound, GrantTypes
<1>3. task[t].place \in Places /\ task[t].at \notin Resting /\ task[t].cred.mode = "company"
  BY <1>1, <1>2 DEF StepIsSound, Resting, OfCompany
<1>4. CASE Ends(t) /\ UNCHANGED issued
  <2>1. /\ served' \in [Places -> Nat] /\ mishaps' \in Nat /\ issued' \in Nat /\ issued <= issued'
        /\ used' \subseteq aged /\ used \subseteq used' /\ wasted' \subseteq Nat
        /\ used' \ wasted' \subseteq used \ wasted
        /\ held' \in [Centers -> Grant] /\ known' \in [AppKeys -> Nat]
        /\ \A q \in Centers : held'[q] \in {held[q], grant[q]}
    BY <1>0, <1>1, <1>4 DEF GrantTypes
  <2>2. QED
    BY <1>1, <1>3, <1>4, <2>1, TaskEndKeeps
<1>5. CASE /\ Issue
           /\ task' = [task EXCEPT ![t].got = issued', ![t].at = IF task[t].installs THEN "install" ELSE "keep"]
           /\ UNCHANGED <<serving, renewing>>
  <2> DEFINE at == IF task[t].installs THEN "install" ELSE "keep"
  <2>0. /\ at \in {"install", "keep"} /\ (at = "install" <=> task[t].installs)
        /\ issued' = issued + 1 /\ issued' \in Nat
    BY <1>2, <1>5 DEF Issue, TaskRecord
  <2> HIDE DEF at
  <2>1. /\ task'[t].at = at /\ task'[t].base = task[t].base
        /\ task'[t].place = task[t].place /\ task'[t].installs = task[t].installs
        /\ task'[t].got = issued' /\ task'[t].cred = task[t].cred
        /\ \A x \in Tasks : x # t => task'[x] = task[x]
    BY <1>0, <1>2, <1>5 DEF GrantTypes, TaskRecord, at
  <2>2. task' \in [Tasks -> TaskRecord]
    <3>1. [task[t] EXCEPT !.got = issued', !.at = at] \in TaskRecord
      BY <1>2, <2>0 DEF TaskRecord, TaskSteps, Carrying
    <3>2. task' = [task EXCEPT ![t] = [task[t] EXCEPT !.got = issued', !.at = at]]
      BY <1>0, <1>2, <1>5 DEF GrantTypes, at
    <3>3. QED
      BY <3>1, <3>2, <1>0 DEF GrantTypes
  <2>3. StepIsSound(task'[t], aged, issued')
    <3>1. issued' \in 1..issued' /\ issued' \notin aged
      BY <1>0, <1>2, <2>0 DEF GrantTypes
    <3>2. task[t].cred # NoGrant
      BY <1>3 DEF NoGrant
    <3>3. QED
      BY <1>2, <1>3, <2>0, <2>1, <3>1, <3>2 DEF StepIsSound, Resting, OfCompany, Carrying
  <2>4. ServedAlone'
    <3>1. task'[t].at \notin Resting
      BY <2>0, <2>1 DEF Resting
    <3>2. QED
      BY <1>0, <1>3, <1>5, <2>1, <3>1, StillServedAlone
  <2>5. TokensHaveOneOwner'
    <3>1. \A n \in Nat, q \in Places : OfPlace(n, q)' => OfPlace(n, q)
      BY <1>1, <1>3, <2>1 DEF OfPlace, TaskHasOfPlace
    <3>2. \A n \in Nat, q \in AppKeys : OfApp(n, q)' => OfApp(n, q)
      BY <1>1, <2>0, <2>1 DEF OfApp, TaskHasOfCompany
    <3>3. QED
      BY <1>0, <1>2, <2>0, <3>1, <3>2, OwnersStay
  <2>6. /\ UNCHANGED <<grant, company, aged, used, wasted, mishaps>> /\ issued' \in Nat /\ issued <= issued'
        /\ served' \in [Places -> Nat] /\ held' \in [Centers -> Grant] /\ known' \in [AppKeys -> Nat]
        /\ renewing' \in [AppKeys -> Tasks \cup {NoTask}] /\ serving' \in [Apps -> Tasks \cup {NoTask}]
    BY <1>0, <1>1, <1>2, <1>5, <2>0 DEF GrantTypes
  <2>7. task'[t].at # "refresh" /\ task[t].at \notin {"keep", "save", "renewed", "persist"}
    BY <1>1, <2>0, <2>1
  <2>8. QED
    BY <2>1, <2>2, <2>3, <2>4, <2>5, <2>6, <2>7, MoveKeeps
<1>6. QED
  BY <1>1, <1>4, <1>5

-----------------------------------------------------------------------------
\* Installations, days, restarts

LEMMA InstallKeeps ==
    ASSUME GrantInv, NEW t \in Tasks, NEW p \in Places, NEW mode \in {"location", "company"},
           Install(t, p, mode)
    PROVE  GrantInv'
<1> DEFINE at == IF mode = "company" THEN "persist" ELSE "install"
           r == [Asleep EXCEPT !.place = p, !.installs = TRUE, !.got = issued',
                               !.at = at, !.cred = [mode |-> mode, n |-> 0]]
<1>0. GrantTypes /\ TasksAreSound /\ ServedAlone /\ TokensHaveOneOwner /\ issued \in Nat
  BY DEF GrantInv, GrantTypes
<1>1. /\ task[t].at = "asleep" /\ issued' = issued + 1 /\ issued' \in Nat
      /\ task' = [task EXCEPT ![t] = r]
      /\ known' = IF mode = "company" THEN [known EXCEPT ![App(p)] = issued'] ELSE known
      /\ UNCHANGED <<grant, company, renewing, served, serving, held, used, aged, wasted, mishaps>>
  BY <1>0 DEF Install, Issue
<1>2. /\ r.at = at /\ r.place = p /\ r.installs = TRUE /\ r.got = issued' /\ r.base = 0
      /\ r.cred.mode = mode /\ r.cred.n = 0
      /\ at \in {"persist", "install"} /\ (at = "persist" <=> mode = "company")
  BY DEF Asleep
<1>3. r \in TaskRecord
  <2>1. [mode |-> mode, n |-> 0] \in Grant
    BY DEF Grant
  <2>2. at \in TaskSteps
    BY DEF TaskSteps, Carrying
  <2>3. QED
    BY <1>1, <2>1, <2>2 DEF Asleep, TaskRecord
<1> HIDE DEF r, at
<1>4. task' \in [Tasks -> TaskRecord] /\ task'[t] = r /\ \A x \in Tasks : x # t => task'[x] = task[x]
  BY <1>0, <1>1, <1>3, Moves DEF GrantTypes
<1>5. StepIsSound(task'[t], aged, issued')
  <2>1. issued' \in 1..issued' /\ issued' \notin aged
    BY <1>0, <1>1 DEF GrantTypes
  <2>2. r.cred # NoGrant
    BY <1>2 DEF NoGrant
  <2>3. QED
    BY <1>2, <1>4, <2>1, <2>2 DEF StepIsSound, Resting, OfCompany, Carrying
<1>6. ServedAlone'
  <2>1. \A q \in Apps : serving[q] # t
    BY <1>0, <1>1 DEF ServedAlone, Resting
  <2>2. QED
    BY <2>1, <1>0, <1>1, <1>2, <1>4 DEF ServedAlone
<1>7. App(p) \in AppKeys /\ known' \in [AppKeys -> Nat]
  BY <1>0, <1>1 DEF GrantTypes, App, AppKeys
<1>8. TokensHaveOneOwner'
  <2>1. CASE mode = "company"
    <3>1. \A n \in Nat, q \in Places : OfPlace(n, q)' => OfPlace(n, q)
      BY <2>1, <1>1, <1>2, <1>4 DEF OfPlace, TaskHasOfPlace
    <3>2. ASSUME NEW n \in Nat, NEW k \in AppKeys, OfApp(n, k)' PROVE OfApp(n, k) \/ (n = issued' /\ k = App(p))
      <4>1. known'[k] = known[k] \/ (k = App(p) /\ known'[k] = issued')
        BY <2>1, <1>0, <1>1 DEF GrantTypes
      <4>2. n # 0 /\ TaskHasOfCompany(r, n, k) => n = issued' /\ k = App(p)
        BY <1>2 DEF TaskHasOfCompany
      <4>3. QED
        BY <3>2, <4>1, <4>2, <1>1, <1>4 DEF OfApp
    <3>3. QED
      BY <1>0, <1>1, <1>7, <3>1, <3>2, CompanyIsIssuedTo
  <2>2. CASE mode = "location"
    <3>1. ASSUME NEW n \in Nat, NEW q \in Places, OfPlace(n, q)' PROVE OfPlace(n, q) \/ (n = issued' /\ q = p)
      <4>1. n # 0 /\ TaskHasOfPlace(r, n, q) => n = issued' /\ q = p
        BY <1>2 DEF TaskHasOfPlace
      <4>2. QED
        BY <3>1, <4>1, <1>1, <1>4 DEF OfPlace
    <3>2. \A n \in Nat, k \in AppKeys : OfApp(n, k)' => OfApp(n, k)
      BY <2>2, <1>1, <1>2, <1>4 DEF OfApp, TaskHasOfCompany
    <3>3. QED
      BY <1>0, <1>1, <3>1, <3>2, PlaceIsIssuedTo
  <2>3. QED
    BY <2>1, <2>2
<1>9. QED
  <2>1. /\ UNCHANGED <<grant, company, aged, used, wasted, mishaps>> /\ issued' \in Nat /\ issued <= issued'
        /\ served' \in [Places -> Nat] /\ held' \in [Centers -> Grant]
        /\ renewing' \in [AppKeys -> Tasks \cup {NoTask}] /\ serving' \in [Apps -> Tasks \cup {NoTask}]
    BY <1>0, <1>1 DEF GrantTypes
  <2>2. task'[t].at # "refresh" /\ task[t].at \notin {"keep", "save", "renewed", "persist"}
    BY <1>1, <1>2, <1>4
  <2>3. QED
    BY <1>4, <1>5, <1>6, <1>7, <1>8, <2>1, <2>2, MoveKeeps

LEMMA AgeKeeps ==
    ASSUME GrantInv, NEW n \in 1..issued, Age(n)
    PROVE  GrantInv'
<1>0. GrantTypes /\ TasksAreSound /\ ServedAlone /\ TokensHaveOneOwner
  BY DEF GrantInv
<1>1. /\ \A t \in Tasks : task[t].got # n
      /\ aged' = aged \cup {n}
      /\ UNCHANGED <<grant, company, known, renewing, served, serving, held, task, issued, used, wasted, mishaps>>
  BY DEF Age
<1>2. GrantTypes'
  BY <1>0, <1>1 DEF GrantTypes
<1>3. TasksAreSound'
  <2> SUFFICES ASSUME NEW t \in Tasks PROVE StepIsSound(task[t], aged', issued)
    BY <1>1 DEF TasksAreSound
  <2>1. StepIsSound(task[t], aged, issued)
    BY <1>0 DEF TasksAreSound
  <2>2. QED
    BY <2>1, <1>1 DEF StepIsSound
<1>4. ServedAlone'
  BY <1>0, <1>1 DEF ServedAlone
<1>5. TokensHaveOneOwner'
  <2>1. \A m \in Nat, q \in Places : OfPlace(m, q)' => OfPlace(m, q)
    BY <1>1 DEF OfPlace
  <2>2. \A m \in Nat, k \in AppKeys : OfApp(m, k)' => OfApp(m, k)
    BY <1>1 DEF OfApp
  <2>3. issued' = issued /\ issued \in Nat
    BY <1>0, <1>1 DEF GrantTypes
  <2>4. QED
    BY <1>0, <2>1, <2>2, <2>3, OwnersStay
<1>6. SuccessorsAreComing'
  BY <1>1 DEF GrantInv, SuccessorsAreComing, Successor, SuccessorOfCompany
<1>7. ConnectorsRefreshLiveTokens'
  BY <1>1 DEF GrantInv, ConnectorsRefreshLiveTokens
<1>8. QED
  BY <1>2, <1>3, <1>4, <1>5, <1>6, <1>7 DEF GrantInv

\* After a restart the rows are what there is: what was exchanged and not stored is lost.
LEMMA GrantRestartKeeps ==
    ASSUME GrantInv, Restart
    PROVE  GrantInv'
<1>0. GrantTypes /\ TokensHaveOneOwner
  BY DEF GrantInv
<1>1. /\ mishaps' = mishaps + 1
      /\ known' = [k \in AppKeys |-> 0] /\ renewing' = [k \in AppKeys |-> NoTask]
      /\ served' = [p \in Places |-> 0] /\ serving' = [p \in Apps |-> NoTask]
      /\ held' = [p \in Centers |-> NoGrant] /\ task' = [t \in Tasks |-> Asleep]
      /\ wasted' = used \cap ({grant[p].n : p \in Places} \cup {company[k] : k \in AppKeys})
      /\ UNCHANGED <<grant, company, issued, used, aged>>
  BY DEF Restart, Mishap
<1>2. \A t \in Tasks : task'[t] = Asleep /\ task'[t].at = "asleep"
  BY <1>1 DEF Asleep
<1>3. GrantTypes'
  <2>1. /\ held' \in [Centers -> Grant] /\ task' \in [Tasks -> TaskRecord]
        /\ known' \in [AppKeys -> Nat] /\ served' \in [Places -> Nat]
        /\ renewing' \in [AppKeys -> Tasks \cup {NoTask}] /\ serving' \in [Apps -> Tasks \cup {NoTask}]
    BY <1>1, AsleepHoldsNothing DEF Grant
  <2>2. wasted' \subseteq Nat /\ mishaps' \in Nat
    <3>1. wasted' \subseteq used
      BY <1>1
    <3>2. used \subseteq Nat
      BY <1>0 DEF GrantTypes
    <3>3. mishaps \in Nat /\ mishaps' = mishaps + 1
      BY <1>0, <1>1 DEF GrantTypes
    <3>4. QED
      BY <3>1, <3>2, <3>3
  <2>3. QED
    BY <1>0, <1>1, <2>1, <2>2 DEF GrantTypes
<1>4. TasksAreSound'
  BY <1>2, AsleepHoldsNothing DEF TasksAreSound
<1>5. ServedAlone'
  BY <1>1, <1>2, GrantAssumption DEF ServedAlone, Resting
<1>6. TokensHaveOneOwner'
  <2>1. \A n \in Nat, q \in Places : OfPlace(n, q)' => OfPlace(n, q)
    BY <1>1, <1>2, AsleepHoldsNothing DEF OfPlace, NoGrant
  <2>2. \A n \in Nat, k \in AppKeys : OfApp(n, k)' => OfApp(n, k)
    BY <1>1, <1>2, AsleepHoldsNothing DEF OfApp
  <2>3. issued' = issued /\ issued \in Nat
    BY <1>0, <1>1 DEF GrantTypes
  <2>4. QED
    BY <1>0, <2>1, <2>2, <2>3, OwnersStay
<1>7. SuccessorsAreComing'
  BY <1>1 DEF SuccessorsAreComing
<1>8. ConnectorsRefreshLiveTokens'
  BY <1>2 DEF ConnectorsRefreshLiveTokens
<1>9. QED
  BY <1>3, <1>4, <1>5, <1>6, <1>7, <1>8 DEF GrantInv

LEMMA GrantStepInv == GrantInv /\ [GrantNext]_grantVars => GrantInv'
<1> SUFFICES ASSUME GrantInv, [GrantNext]_grantVars PROVE GrantInv'
  OBVIOUS
<1>1. CASE UNCHANGED grantVars
  <2>1. GrantTypes' /\ TasksAreSound' /\ ServedAlone'
    BY <1>1 DEF grantVars, GrantInv, GrantTypes, TasksAreSound, ServedAlone
  <2>2. TokensHaveOneOwner'
    BY <1>1 DEF grantVars, GrantInv, TokensHaveOneOwner, OfPlace, OfApp
  <2>3. SuccessorsAreComing' /\ ConnectorsRefreshLiveTokens'
    BY <1>1 DEF grantVars, GrantInv, SuccessorsAreComing, Successor, SuccessorOfCompany, ConnectorsRefreshLiveTokens
  <2>4. QED
    BY <2>1, <2>2, <2>3 DEF GrantInv
<1>2. CASE \E t \in Tasks, p \in Places : AskToken(t, p)
  BY <1>2, AskTokenKeeps
<1>3. CASE \E t \in Tasks, p \in Places, mode \in {"location", "company"} : Install(t, p, mode)
  BY <1>3, InstallKeeps
<1>4. CASE \E t \in Tasks : Read(t) \/ RefreshGrant(t) \/ KeepGrant(t) \/ SaveGrant(t)
  BY <1>4, ReadKeeps, RefreshGrantKeeps, KeepGrantKeeps, SaveGrantKeeps
<1>5. CASE \E t \in Tasks : LoadCompany(t) \/ Loaded(t) \/ Renew(t) \/ Renewed(t) \/ PersistCompany(t)
  BY <1>5, LoadCompanyKeeps, LoadedKeeps, RenewKeeps, RenewedKeeps, PersistCompanyKeeps
<1>6. CASE \E t \in Tasks : Mint(t) \/ StoreInstall(t)
  BY <1>6, MintKeeps, StoreInstallKeeps
<1>7. CASE \E n \in 1..issued : Age(n)
  BY <1>7, AgeKeeps
<1>8. CASE Restart
  BY <1>8, GrantRestartKeeps
<1>9. QED
  BY <1>1, <1>2, <1>3, <1>4, <1>5, <1>6, <1>7, <1>8 DEF GrantNext

LEMMA GrantInvariant == GrantSpec => []GrantInv
<1>1. GrantInit => GrantInv
  BY GrantInitInv
<1>2. GrantInv /\ [GrantNext]_grantVars => GrantInv'
  BY GrantStepInv
<1>3. QED
  BY <1>1, <1>2, PTL DEF GrantSpec

\* The single flight of ghl-apps.mjs (getAppLocationToken) does what it is for: however
\* many requests and installations overlap, a connector presents a refresh token HighLevel
\* has not taken yet, unless the answer of the earlier exchange was lost.
THEOREM ConnectorsNeverReplay == GrantSpec => []ConnectorsRefreshLiveTokens
<1>1. GrantInv => ConnectorsRefreshLiveTokens
  BY DEF GrantInv
<1>2. QED
  BY <1>1, GrantInvariant, PTL

\* The credentials of sub-accounts and agencies in the database can be refreshed, or the
\* task that spent one is about to store its successor (ghl-apps, ghl-write, ghl-company).
THEOREM StoredTokensStayGood == GrantSpec => []StoredTokensCanRefresh
<1>1. GrantInv => StoredTokensCanRefresh
  BY DEF GrantInv, SuccessorsAreComing, Successor, SuccessorOfCompany, StoredTokensCanRefresh
<1>2. QED
  BY <1>1, GrantInvariant, PTL

\* A token HighLevel gave to one sub-account, or to an agency, never becomes the
\* credential of another one, in the database or in the memory of a process.
THEOREM TokensStayWithTheirOwner == GrantSpec => []TokensHaveOneOwner
<1>1. GrantInv => TokensHaveOneOwner
  BY DEF GrantInv
<1>2. QED
  BY <1>1, GrantInvariant, PTL

===============================================================================
