----------------------------- MODULE Provisioning -----------------------------
(***************************************************************************)
(* Who owns a HighLevel sub-account (location): logins that find or create *)
(* its tenant, and callbacks that connect a tenant to a location it asked  *)
(* for.  Both end in #saveConnection, in a transaction at READ COMMITTED:  *)
(* what a transaction has written is seen by nobody before its commit, but *)
(* its row locks and unique keys make others wait.                         *)
(*                                                                         *)
(* A step is one statement, with statements nobody can notice joined to    *)
(* the next.                                                               *)
(***************************************************************************)
EXTENDS Naturals

CONSTANTS
    Requests,       \* logins and connects that can be in flight
    Users,          \* people who log in
    Tenants,        \* accounts, existing or yet to be created
    Locations,      \* sub-accounts
    Credentials,    \* rows of tenant_credentials, numbered
    Nil             \* absence of a value

ASSUME CredentialsAssumption == Credentials \subseteq Nat

ASSUME NilAssumption == Nil \notin Users \cup Tenants \cup Locations \cup Credentials

VARIABLES
    tenant,         \* the tenants there are
    member,         \* memberships: the role of each user in each tenant
    conn,           \* connections: at most one per tenant
    cred,           \* the stored credentials
    req,            \* the requests in flight
    unseen          \* history: credentials replaced by a request that had not seen them

vars == <<tenant, member, conn, cred, req, unseen>>

-----------------------------------------------------------------------------

Roles == {"none", "tenant_owner", "tenant_admin"}

Connection == [location : Locations \cup {Nil}, credential : Credentials \cup {Nil}]

\* start() of a connect: askCurrent, askOwner; then its link is pending; its
\* callback(): current, owner.  A login: user, find, count.  Both: lock, write,
\* wrote.
Request == [pc : {"idle", "askCurrent", "askOwner", "pending", "current", "owner",
                  "user", "find", "count", "lock", "write", "wrote"},
            user : Users \cup {Nil}, tenant : Tenants \cup {Nil},
            location : Locations \cup {Nil}, role : Roles, locked : BOOLEAN,
            previous : Credentials \cup {Nil}, credential : Credentials \cup {Nil}]

NoConnection == [location |-> Nil, credential |-> Nil]

NoRequest == [pc |-> "idle", user |-> Nil, tenant |-> Nil, location |-> Nil,
              role |-> "none", locked |-> FALSE, previous |-> Nil, credential |-> Nil]

TypeOK ==
    /\ tenant \in SUBSET Tenants
    /\ member \in [Tenants -> [Users -> Roles]]
    /\ conn \in [Tenants -> Connection]
    /\ \A t \in Tenants : conn[t].location # Nil <=> conn[t].credential # Nil
    /\ cred \in SUBSET Credentials
    /\ req \in [Requests -> Request]
    /\ unseen \in SUBSET cred

Connected(t) == conn[t].location # Nil

HasMembers(t) == \E u \in Users : member[t][u] # "none"

\* What the open transaction of a request holds: the row of its user, the row
\* or the key of its tenant's connection, the key of its location.
HoldsUser(r, u) ==
    req[r].user = u /\ req[r].pc \in {"find", "count", "lock", "write", "wrote"}

HoldsConnection(r, t) ==
    /\ req[r].tenant = t
    /\ \/ req[r].pc = "write" /\ req[r].locked
       \/ req[r].pc = "wrote"

HoldsLocation(r, l) ==
    req[r].pc = "wrote" /\ l \in {req[r].location, conn[req[r].tenant].location}

\* A tenant some transaction has inserted and not committed.
Reserved(t) == \E r \in Requests : req[r].tenant = t

-----------------------------------------------------------------------------

\* Tenants the migrations seed: connected, with nobody in them.
Init ==
    /\ conn \in {c \in [Tenants -> Connection] :
                   /\ \A t \in Tenants : c[t].location # Nil <=> c[t].credential # Nil
                   /\ \A t, u \in Tenants : c[t] # NoConnection /\ t # u =>
                        c[t].location # c[u].location /\ c[t].credential # c[u].credential}
    /\ tenant = {t \in Tenants : Connected(t)}
    /\ member = [t \in Tenants |-> [u \in Users |-> "none"]]
    /\ cred = {conn[t].credential : t \in tenant}
    /\ \A k \in cred, j \in Credentials : j < k => j \in cred
    /\ req = [r \in Requests |-> NoRequest]
    /\ unseen = {}

Step(r, pc) == req' = [req EXCEPT ![r].pc = pc]

End(r) == req' = [req EXCEPT ![r] = NoRequest]

\* An invited customer's first Auth0 login creates a tenant with an owner.
Enrol(u, t) ==
    /\ t \notin tenant /\ ~Reserved(t)
    /\ tenant' = tenant \cup {t}
    /\ member' = [member EXCEPT ![t][u] = "tenant_owner"]
    /\ UNCHANGED <<conn, cred, req, unseen>>

\* A member asks for a link that connects its tenant.
Ask(r, t, l) ==
    /\ req[r].pc = "idle"
    /\ t \in tenant /\ HasMembers(t)
    /\ req' = [req EXCEPT ![r] = [NoRequest EXCEPT !.pc = "askCurrent", !.tenant = t, !.location = l]]
    /\ UNCHANGED <<tenant, member, conn, cred, unseen>>

\* The link is opened and HighLevel grants the location.
Callback(r) ==
    /\ req[r].pc = "pending"
    /\ Step(r, "current")
    /\ UNCHANGED <<tenant, member, conn, cred, unseen>>

\* Variant: only start() checks.
CheckCurrentOnce(r) ==
    /\ req[r].pc \in {"askCurrent", "current"}
    /\ req[r].pc = "askCurrent" => conn[req[r].tenant].location \in {Nil, req[r].location}
    /\ Step(r, IF req[r].pc = "current" THEN "owner" ELSE "askOwner")
    /\ UNCHANGED <<tenant, member, conn, cred, unseen>>

\* assertConnectable: the tenant has no other location ...
CheckCurrent(r) ==
    /\ req[r].pc \in {"askCurrent", "current"}
    /\ conn[req[r].tenant].location \in {Nil, req[r].location}
    /\ Step(r, IF req[r].pc = "current" THEN "owner" ELSE "askOwner")
    /\ UNCHANGED <<tenant, member, conn, cred, unseen>>

\* ... and the location no other tenant.
CheckOwner(r) ==
    /\ req[r].pc \in {"askOwner", "owner"}
    /\ \A t \in Tenants : conn[t].location = req[r].location => t = req[r].tenant
    /\ Step(r, IF req[r].pc = "owner" THEN "lock" ELSE "pending")
    /\ UNCHANGED <<tenant, member, conn, cred, unseen>>

\* ConnectionConflictError.
Conflict(r) ==
    /\ \/ /\ req[r].pc \in {"askCurrent", "current"}
          /\ conn[req[r].tenant].location \notin {Nil, req[r].location}
       \/ /\ req[r].pc \in {"askOwner", "owner"}
          /\ \E t \in Tenants : conn[t].location = req[r].location /\ t # req[r].tenant
    /\ End(r)
    /\ UNCHANGED <<tenant, member, conn, cred, unseen>>

\* A user comes back from HighLevel, granted a location.
Login(r, u, l) ==
    /\ req[r].pc = "idle"
    /\ req' = [req EXCEPT ![r] = [NoRequest EXCEPT !.pc = "user", !.user = u, !.location = l]]
    /\ UNCHANGED <<tenant, member, conn, cred, unseen>>

\* The user's row is inserted or updated: logins of one user queue up here.
UpsertUser(r) ==
    /\ req[r].pc = "user"
    /\ \A s \in Requests : ~HoldsUser(s, req[r].user)
    /\ Step(r, "find")
    /\ UNCHANGED <<tenant, member, conn, cred, unseen>>

\* The tenant of the location ...
FindTenant(r, t) ==
    /\ req[r].pc = "find"
    /\ conn[t].location = req[r].location
    /\ req' = [req EXCEPT ![r].pc = "count", ![r].tenant = t]
    /\ UNCHANGED <<tenant, member, conn, cred, unseen>>

\* ... or a new one ...
CreateTenant(r, t) ==
    /\ req[r].pc = "find"
    /\ \A u \in Tenants : conn[u].location # req[r].location
    /\ t \notin tenant /\ ~Reserved(t)
    /\ req' = [req EXCEPT ![r].pc = "count", ![r].tenant = t]
    /\ UNCHANGED <<tenant, member, conn, cred, unseen>>

\* ... or neither: signing up is disabled.
RefuseSignup(r) ==
    /\ req[r].pc = "find"
    /\ \A u \in Tenants : conn[u].location # req[r].location
    /\ End(r)
    /\ UNCHANGED <<tenant, member, conn, cred, unseen>>

\* Variant: members whose logins are not committed are counted too.
CountMembersInFlight(r) ==
    /\ req[r].pc = "count"
    /\ req' = [req EXCEPT
         ![r].pc = "lock",
         ![r].role = IF HasMembers(req[r].tenant)
                        \/ \E s \in Requests \ {r} : req[s].tenant = req[r].tenant /\ req[s].user # Nil
                     THEN "tenant_admin" ELSE "tenant_owner"]
    /\ UNCHANGED <<tenant, member, conn, cred, unseen>>

\* The first member is the owner; the membership is inserted.
CountMembers(r) ==
    /\ req[r].pc = "count"
    /\ req' = [req EXCEPT
         ![r].pc = "lock",
         ![r].role = IF HasMembers(req[r].tenant) THEN "tenant_admin" ELSE "tenant_owner"]
    /\ UNCHANGED <<tenant, member, conn, cred, unseen>>

\* Variant: the row is read without FOR UPDATE.
LockConnectionNot(r) ==
    /\ req[r].pc = "lock"
    /\ req' = [req EXCEPT ![r].pc = "write", ![r].previous = conn[req[r].tenant].credential]
    /\ UNCHANGED <<tenant, member, conn, cred, unseen>>

\* SELECT ... FOR UPDATE: where there is no row there is nothing to lock.
LockConnection(r) ==
    LET t == req[r].tenant IN
    /\ req[r].pc = "lock"
    /\ Connected(t) => \A s \in Requests : ~HoldsConnection(s, t)
    /\ req' = [req EXCEPT ![r].pc = "write", ![r].locked = Connected(t),
                          ![r].previous = conn[t].credential]
    /\ UNCHANGED <<tenant, member, conn, cred, unseen>>

\* Nobody else holds the keys the connection needs.
KeysAreFree(r) ==
    \A s \in Requests \ {r} :
        ~HoldsConnection(s, req[r].tenant) /\ ~HoldsLocation(s, req[r].location)

\* The location is another tenant's.
Taken(r) == \E t \in Tenants \ {req[r].tenant} : conn[t].location = req[r].location

FreshCredential(k) ==
    LET used == cred \cup {req[r].credential : r \in Requests}
    IN  k \notin used /\ \A j \in Credentials : j < k => j \in used

\* Variant: the unique key of the location is missing.
WriteConnectionAnywhere(r, k) ==
    /\ req[r].pc = "write"
    /\ \A s \in Requests \ {r} : ~HoldsConnection(s, req[r].tenant)
    /\ FreshCredential(k)
    /\ req' = [req EXCEPT ![r].pc = "wrote", ![r].credential = k]
    /\ UNCHANGED <<tenant, member, conn, cred, unseen>>

\* The credential is inserted and the connection upserted ...
WriteConnection(r, k) ==
    /\ req[r].pc = "write"
    /\ KeysAreFree(r) /\ ~Taken(r)
    /\ FreshCredential(k)
    /\ req' = [req EXCEPT ![r].pc = "wrote", ![r].credential = k]
    /\ UNCHANGED <<tenant, member, conn, cred, unseen>>

\* Variant: the duplicate is waited for.
ViolateKeyNever(r) ==
    /\ req[r].pc = "write" /\ FALSE
    /\ End(r)
    /\ UNCHANGED <<tenant, member, conn, cred, unseen>>

\* ... or a unique key is violated.
ViolateKey(r) ==
    /\ req[r].pc = "write"
    /\ KeysAreFree(r) /\ Taken(r)
    /\ End(r)
    /\ UNCHANGED <<tenant, member, conn, cred, unseen>>

\* The replaced credential is deleted, and all of it committed.
Commit(r) ==
    LET t == req[r].tenant
        u == req[r].user
        k == req[r].credential
        previous == req[r].previous
        replaced == {p \in {previous} : \A s \in Tenants \ {t} : conn[s].credential # p}
    IN  /\ req[r].pc = "wrote"
        /\ conn' = [conn EXCEPT ![t] = [location |-> req[r].location, credential |-> k]]
        /\ cred' = (cred \ replaced) \cup {k}
        /\ unseen' = IF Connected(t) /\ previous = Nil
                     THEN unseen \cup {conn[t].credential} ELSE unseen
        /\ tenant' = tenant \cup {t}
        /\ member' = IF u # Nil /\ member[t][u] = "none"
                     THEN [member EXCEPT ![t][u] = req[r].role] ELSE member
        /\ End(r)

\* Any statement or upstream call fails, the process dies, the link expires, or
\* the user, the membership or the tenant is not active.
Fail(r) ==
    /\ req[r].pc # "idle"
    /\ End(r)
    /\ UNCHANGED <<tenant, member, conn, cred, unseen>>

Proceed(r) ==
    \/ CheckCurrent(r) \/ CheckOwner(r) \/ Conflict(r)
    \/ (\E t \in Tenants : FindTenant(r, t) \/ CreateTenant(r, t)) \/ RefuseSignup(r)
    \/ CountMembers(r) \/ Commit(r)

Wait(r) ==
    \/ UpsertUser(r) \/ LockConnection(r)
    \/ (\E k \in Credentials : WriteConnection(r, k)) \/ ViolateKey(r)

Next ==
    \/ \E u \in Users, t \in Tenants : Enrol(u, t)
    \/ \E r \in Requests, t \in Tenants, l \in Locations : Ask(r, t, l)
    \/ \E r \in Requests, u \in Users, l \in Locations : Login(r, u, l)
    \/ \E r \in Requests : Callback(r) \/ Proceed(r) \/ Wait(r) \/ Fail(r)

Spec == Init /\ [][Next]_vars

\* Statements end; the database grants a lock to whoever keeps waiting for it.
Fairness == \A r \in Requests : WF_vars(Proceed(r)) /\ SF_vars(Wait(r))

FairSpec == Spec /\ Fairness

-----------------------------------------------------------------------------

\* Whatever logins and connects race, a location belongs to one tenant.
OneTenantPerLocation ==
    \A t, u \in Tenants : Connected(t) /\ conn[t].location = conn[u].location => t = u

\* A tenant with members has an owner: of logins that race to be the first,
\* never all think another one was.
SomebodyOwns ==
    \A t \in Tenants : HasMembers(t) => \E u \in Users : member[t][u] = "tenant_owner"

\* Replacing a connection leaves no credential behind, unless the request that
\* replaced it found no connection to lock when it looked (#saveConnection).
ReplacedCredentialsAreDeleted ==
    \A k \in cred \ unseen : \E t \in Tenants : conn[t].credential = k

\* A request past its look at the tenant's location.
Underway(r, t) ==
    req[r].tenant = t /\ req[r].pc \in {"owner", "count", "lock", "write", "wrote"}

\* Connected, and nobody under way still means another location.
Settled(t) ==
    /\ Connected(t)
    /\ \A r \in Requests : Underway(r, t) => req[r].location = conn[t].location

\* From then on the tenant keeps its location for ever (assertConnectable).
SettledForGood ==
    [][\A t \in Tenants : Settled(t) => Settled(t)' /\ UNCHANGED conn[t].location]_vars

\* Every login and every connect ends: nobody waits for ever on a lock, and no
\* two transactions on each other.
EveryRequestEnds ==
    \A r \in Requests : req[r].pc \notin {"idle", "pending"} ~> req[r].pc \in {"idle", "pending"}

\* What holds the properties up: connections name their tenant and a credential
\* of their own, requests know what they work on.
References ==
    /\ \A t \in Tenants : Connected(t) => t \in tenant /\ conn[t].credential \in cred \ unseen
    /\ \A t, u \in Tenants : Connected(t) /\ conn[t].credential = conn[u].credential => t = u
    /\ \A r \in Requests : req[r].pc # "idle" => req[r].location \in Locations
    /\ \A r \in Requests : req[r].pc \notin {"idle", "user", "find"} => req[r].tenant \in Tenants
    /\ \A r \in Requests :
         req[r].pc \in {"askCurrent", "askOwner", "pending", "current", "owner"} => req[r].user = Nil
    /\ \A r \in Requests : req[r].pc = "wrote" => req[r].credential \in Credentials \ cred
    /\ \A r, s \in Requests :
         /\ req[r].pc = "wrote" /\ req[s].pc = "wrote"
         /\ req[r].credential = req[s].credential
         => r = s

\* Locks and keys exclude, and what was read under a lock is still true.
KeysAreHeld ==
    /\ \A r, s \in Requests, t \in Tenants :
         HoldsConnection(r, t) /\ HoldsConnection(s, t) => r = s
    /\ \A r, s \in Requests :
         req[r].pc = "wrote" /\ req[s].pc = "wrote" /\ req[r].location = req[s].location => r = s
    /\ \A r \in Requests : req[r].pc = "wrote" => ~Taken(r)
    /\ \A r \in Requests : req[r].pc \in {"write", "wrote"} =>
         \/ /\ req[r].locked /\ Connected(req[r].tenant)
            /\ req[r].previous = conn[req[r].tenant].credential
         \/ ~req[r].locked /\ req[r].previous = Nil

\* A login that does not make an owner has seen a member.
RolesAreDecided ==
    \A r \in Requests : req[r].user # Nil /\ req[r].pc \in {"lock", "write", "wrote"} =>
        \/ req[r].role = "tenant_owner"
        \/ req[r].role = "tenant_admin" /\ HasMembers(req[r].tenant)

IndInv ==
    /\ TypeOK
    /\ References
    /\ KeysAreHeld
    /\ RolesAreDecided
    /\ OneTenantPerLocation
    /\ SomebodyOwns
    /\ ReplacedCredentialsAreDeleted
=============================================================================
