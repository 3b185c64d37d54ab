----------------------------- MODULE ReportAccess -----------------------------
(***************************************************************************)
(* Who may use the report gateway of one customer: its OAuth server, the   *)
(* admin dashboard, the provisioning webhook, the gateway's checks before  *)
(* a tool runs, and the HighLevel credential the tool runs with.           *)
(*                                                                         *)
(* A request is one HTTP request; every statement and every call to        *)
(* HighLevel is a step of it, and any of them may fail.  Requests run at   *)
(* once, in one process or in several (the two caches of a process, for    *)
(* the pause switch and the rate, are those of the process that serves     *)
(* all of them here).  A token, code or link that has expired is refused   *)
(* like one that is missing, so its expiry adds no behaviour.              *)
(***************************************************************************)
EXTENDS Naturals, FiniteSets

CONSTANTS
    Requests,       \* HTTP requests, each of them served once
    Installers,     \* HighLevel users of the customer's location
    Invitee,        \* the person an access code is made for
    LoginStates,    \* states of /report/oauth/authorize
    Packs,          \* PACK_IDS
    Presets,        \* pack lists of the presets and of the webhook
    RoleForms,      \* the cells switched on in a form of the role matrix
    AllowUnknown,   \* REPORT_ALLOW_UNKNOWN_INSTALLS
    CallsPerMinute, \* REPORT_RATE_LIMIT_PER_MINUTE
    MaxCredentials, \* bound: credentials HighLevel issues
    Nobody

VARIABLES
    req,        \* the local variables of each request
    customer,   \* report_tenants.status, or "absent"
    rowLock,    \* the transaction that holds the customer's row or its key
    member,     \* report_memberships of the customer
    grants,     \* report_pack_grants
    matrix,     \* report_role_packs
    invite,     \* the access code: "none", "open", "taken" in a transaction, "used"
    login,      \* report_login_requests
    codes,      \* report_auth_codes
    tokens,     \* report_oauth_tokens
    setting,    \* report_settings.paused
    pausedCache, \* pausedCache of the gateway, "old" once it is older than 5 s
    rate,       \* rateWindows: calls let through in this minute
    stored,     \* report_connections: the credential's number; 0: none
    fresh,      \* its access token has not expired
    issued,     \* HighLevel: credentials issued so far
    alive,      \* HighLevel: those whose refresh token it still takes
    lost        \* history: a rotated credential could not be stored

people == <<customer, rowLock, member>>
packsOf == <<grants, matrix>>
signIn == <<invite, login, codes, tokens>>
gate == <<setting, pausedCache, rate>>
credential == <<stored, fresh, issued, alive, lost>>
accessVars == <<req, people, packsOf, signIn, gate, credential>>

Roles == {"owner", "admin", "staff"}
InviteRoles == {"admin", "staff"}
Cells == Roles \X Packs
Users == Installers \cup {Invitee}

ASSUME AccessAssumption ==
    /\ Nobody \notin Requests
    /\ Presets \subseteq SUBSET Packs /\ RoleForms \subseteq SUBSET Cells
    /\ CallsPerMinute \in Nat /\ MaxCredentials \in Nat

\* DEFAULT_ROLE_PACKS, for a pack that staff have and one that they have not.
DefaultAllows(role, pack) == role # "staff" \/ pack = "contacts"

RoleAllows(role, pack) ==
    IF matrix[role, pack] = "unset" THEN DefaultAllows(role, pack)
    ELSE matrix[role, pack] = "on"

\* effectivePacks, for the status and role the principal was resolved with.
EffectivePacks(status, role) ==
    IF status # "active" THEN {}
    ELSE {p \in Packs : grants[p] /\ RoleAllows(role, p)}

(* Fields of a request: what it is, its next step, the person it is for,   *)
(* the login state, code or token family it works with, the role and       *)
(* status it has read or will write, the packs (or cells) to switch on and *)
(* those still to write, a credential; whether it got what it came for;    *)
(* history: whether its person had been revoked before it arrived.         *)
NewRequest == [kind |-> "none", pc |-> "new", user |-> Nobody, from |-> Nobody,
               role |-> "none", status |-> "none", want |-> {}, todo |-> {},
               token |-> 0, ok |-> FALSE, late |-> FALSE]

NotMember == [role |-> "none", status |-> "none"]

At(r, step) == req[r].pc = step

\* What a request keeps once it has been answered.
Answered(r, ok) ==
    [NewRequest EXCEPT !.kind = req[r].kind, !.pc = "done", !.late = req[r].late, !.ok = ok]

Answer(r, ok) == req' = [req EXCEPT ![r] = Answered(r, ok)]

Step(r, step) == req' = [req EXCEPT ![r].pc = step]

\* The row of the customer can be locked or written now.
RowIsFree == rowLock = Nobody

Actives == {u \in Users : member[u].status = "active"}

\* resolvePrincipal
Resolves(u) == customer \notin {"absent", "suspended"} /\ member[u].status = "active"

\* Nobody knows of the customer, or it is in use and its staff have been asked in.
AccessInit ==
    /\ req = [r \in Requests |-> NewRequest]
    /\ rowLock = Nobody
    /\ matrix = [c \in Cells |-> "unset"]
    /\ login = [s \in LoginStates |-> "new"]
    /\ codes = {}
    /\ setting = FALSE
    /\ pausedCache = "old"
    /\ rate = 0
    /\ fresh = TRUE
    /\ lost = FALSE
    /\ \/ /\ customer = "absent"
          /\ grants = [p \in Packs |-> FALSE]
          /\ member = [u \in Users |-> NotMember]
          /\ invite = "none"
          /\ tokens = {}
          /\ stored = 0 /\ issued = 0 /\ alive = {}
       \/ /\ customer = "active"
          /\ \E owner \in Installers :
                /\ member = [u \in Users |-> IF u = owner
                              THEN [role |-> "owner", status |-> "active"] ELSE NotMember]
                /\ tokens = {[kind |-> k, by |-> Nobody, family |-> Nobody, user |-> owner,
                              state |-> "live"] : k \in {"access", "refresh"}}
          /\ grants \in {[p \in Packs |-> p \in preset] : preset \in Presets}
          /\ invite = "open"
          /\ stored = 1 /\ issued = 1 /\ alive = {1}

AccessTypeOK ==
    /\ customer \in {"absent", "pending", "active", "suspended"}
    /\ rowLock \in Requests \cup {Nobody}
    /\ member \in [Users -> [role : Roles \cup {"none"}, status : {"none", "active", "revoked"}]]
    /\ grants \in [Packs -> BOOLEAN] /\ matrix \in [Cells -> {"unset", "on", "off"}]
    /\ invite \in {"none", "open", "taken", "used"}
    /\ login \in [LoginStates -> {"new", "open", "gone"}]
    /\ codes \subseteq [by : Requests, user : Users]
    /\ rate \in Nat
    /\ stored \in 0..issued /\ alive \subseteq 1..issued
    /\ \A r \in Requests : req[r].token \in 0..issued /\ req[r].todo \subseteq Packs \cup Cells

-----------------------------------------------------------------------------
\* Signing in: /report/oauth/authorize and its two answers

Register(s) ==
    /\ login[s] = "new"
    /\ login' = [login EXCEPT ![s] = "open"]
    /\ UNCHANGED <<req, people, packsOf, invite, codes, tokens, gate, credential>>

\* consumeLoginRequest deletes the row it returns.
ConsumeLogin(r, s, kind, user, next) ==
    /\ At(r, "new")
    /\ login[s] = "open"
    /\ login' = [login EXCEPT ![s] = "gone"]
    /\ req' = [req EXCEPT ![r] = [@ EXCEPT !.kind = kind, !.pc = next, !.user = user,
                                           !.from = s, !.late = member[user].status = "revoked"]]

Callback(r, s, u) ==
    /\ ConsumeLogin(r, s, "callback", u, "exchange")
    /\ UNCHANGED <<people, packsOf, invite, codes, tokens, gate, credential>>

\* HighLevel issues the location's credential; names are looked up as well.
ExchangeHighLevel(r) ==
    /\ At(r, "exchange")
    /\ issued < MaxCredentials
    /\ issued' = issued + 1
    /\ alive' = alive \cup {issued + 1}
    /\ req' = [req EXCEPT ![r].pc = "tenant", ![r].token = issued + 1]
    /\ UNCHANGED <<people, packsOf, signIn, gate, stored, fresh, lost>>

\* Variant: the customer's row is read without FOR UPDATE.
LockTenantNot(r) ==
    /\ At(r, "tenant")
    /\ IF customer \in {"absent", "suspended"} THEN Answer(r, FALSE) ELSE Step(r, "member")
    /\ UNCHANGED <<people, packsOf, signIn, gate, credential>>

\* provisionLogin: SELECT ... FOR UPDATE, which finds no uncommitted row.
LockTenant(r) ==
    /\ At(r, "tenant")
    /\ IF customer = "absent"
       THEN /\ IF AllowUnknown THEN Step(r, "insert") ELSE Answer(r, FALSE)
            /\ UNCHANGED rowLock
       ELSE /\ RowIsFree
            /\ IF customer = "suspended" THEN Answer(r, FALSE) /\ UNCHANGED rowLock
               ELSE Step(r, "member") /\ rowLock' = r
    /\ UNCHANGED <<customer, member, packsOf, signIn, gate, credential>>

\* The key of the location: a second insert waits for the first, then fails.
InsertTenant(r) ==
    /\ At(r, "insert")
    /\ RowIsFree
    /\ IF customer = "absent" THEN Step(r, "member") /\ rowLock' = r
       ELSE Answer(r, FALSE) /\ UNCHANGED rowLock
    /\ UNCHANGED <<customer, member, packsOf, signIn, gate, credential>>

\* Variant: a membership that exists is taken as it is, revoked or not.
RankMemberAny(r) ==
    LET u == req[r].user IN
    /\ At(r, "member")
    /\ req' = [req EXCEPT ![r].pc = "commit",
                 ![r].role = IF member[u] # NotMember THEN member[u].role
                             ELSE IF Actives = {} THEN "owner" ELSE "admin"]
    /\ UNCHANGED <<people, packsOf, signIn, gate, credential>>

\* The membership is looked up; a new one is ranked by the active members.
RankMember(r) ==
    LET u == req[r].user IN
    /\ At(r, "member")
    /\ IF member[u].status = "revoked"
       THEN Answer(r, FALSE) /\ rowLock' = Nobody
       ELSE /\ req' = [req EXCEPT ![r].pc = "commit",
                         ![r].role = IF member[u].status = "active" THEN member[u].role
                                     ELSE IF Actives = {} THEN "owner" ELSE "admin"]
            /\ UNCHANGED rowLock
    /\ UNCHANGED <<customer, member, packsOf, signIn, gate, credential>>

\* A membership that exists is left alone, whatever has become of it since.
CommitLogin(r) ==
    LET u == req[r].user IN
    /\ At(r, "commit")
    /\ customer' = IF customer = "absent" THEN "pending" ELSE customer
    /\ member' = IF member[u] # NotMember THEN member
                 ELSE [member EXCEPT ![u] = [role |-> req[r].role, status |-> "active"]]
    /\ stored' = req[r].token
    /\ fresh' = TRUE
    /\ rowLock' = Nobody
    /\ Step(r, "code")
    /\ UNCHANGED <<packsOf, signIn, gate, issued, alive, lost>>

\* The staff path: an email address and an access code.
Form(r, s) ==
    /\ ConsumeLogin(r, s, "form", Invitee, "claim")
    /\ UNCHANGED <<people, packsOf, invite, codes, tokens, gate, credential>>

\* acceptInvite: the UPDATE waits for another transaction that holds the code.
ClaimInvite(r) ==
    /\ At(r, "claim")
    /\ invite # "taken"
    /\ IF invite = "open" /\ customer \notin {"absent", "suspended"}
       THEN invite' = "taken" /\ Step(r, "join")
       ELSE UNCHANGED invite /\ Step(r, "retry")
    /\ UNCHANGED <<people, packsOf, login, codes, tokens, gate, credential>>

\* The rest of its transaction; a revoked member's code stays unused.
AcceptInvite(r, role) ==
    /\ At(r, "join")
    /\ IF member[Invitee].status = "revoked"
       THEN /\ Step(r, "retry")
            /\ invite' = "open"
            /\ UNCHANGED member
       ELSE /\ Step(r, "code")
            /\ invite' = "used"
            /\ member' = IF member[Invitee] # NotMember THEN member
                         ELSE [member EXCEPT ![Invitee] = [role |-> role, status |-> "active"]]
    /\ UNCHANGED <<customer, rowLock, packsOf, login, codes, tokens, gate, credential>>

\* renew: a refused form comes back with a state of its own.
Renew(r) ==
    /\ At(r, "retry")
    /\ \E s \in LoginStates :
          /\ login[s] = "new"
          /\ login' = [login EXCEPT ![s] = "open"]
    /\ Answer(r, FALSE)
    /\ UNCHANGED <<people, packsOf, invite, codes, tokens, gate, credential>>

\* createAuthCode; the redirect carries it back to the client.
CreateCode(r) ==
    /\ At(r, "code")
    /\ codes' = codes \cup {[by |-> r, user |-> req[r].user]}
    /\ Answer(r, TRUE)
    /\ UNCHANGED <<people, packsOf, invite, login, tokens, gate, credential>>

-----------------------------------------------------------------------------
\* POST /report/oauth/token

\* consumeAuthCode; a wrong verifier or client loses the code all the same.
ExchangeCode(r, code, matches) ==
    /\ At(r, "new")
    /\ codes' = codes \ {code}
    /\ req' = [req EXCEPT ![r] = IF matches
         THEN [@ EXCEPT !.kind = "token", !.pc = "access", !.user = code.user, !.from = r]
         ELSE [Answered(r, FALSE) EXCEPT !.kind = "token"]]
    /\ UNCHANGED <<people, packsOf, invite, login, tokens, gate, credential>>

\* consumeRefreshToken: marked used, or recognised as a replay.
ConsumeRefresh(r, t) ==
    /\ At(r, "new")
    /\ t.kind = "refresh"
    /\ IF t.state = "live"
       THEN /\ tokens' = (tokens \ {t}) \cup {[t EXCEPT !.state = "used"]}
            /\ req' = [req EXCEPT ![r] = [@ EXCEPT !.kind = "refresh", !.pc = "owner",
                         !.user = t.user, !.from = t.family,
                         !.late = member[t.user].status = "revoked"]]
       ELSE /\ UNCHANGED tokens
            /\ req' = [req EXCEPT ![r] = [@ EXCEPT !.kind = "refresh", !.user = t.user,
                         !.from = t.family, !.pc = IF t.state = "used" THEN "family" ELSE "done"]]
    /\ UNCHANGED <<people, packsOf, invite, login, codes, gate, credential>>

\* A used token is revoked like any other, and stays recognisable as used.
Revoked(t) == [t EXCEPT !.state = IF @ = "live" THEN "revoked" ELSE @]

RevokeFamily(r) ==
    /\ At(r, "family")
    /\ tokens' = {IF t.family = req[r].from THEN Revoked(t) ELSE t : t \in tokens}
    /\ Answer(r, FALSE)
    /\ UNCHANGED <<people, packsOf, invite, login, codes, gate, credential>>

CheckOwner(r) ==
    /\ At(r, "owner")
    /\ IF Resolves(req[r].user) THEN Step(r, "access") ELSE Answer(r, FALSE)
    /\ UNCHANGED <<people, packsOf, signIn, gate, credential>>

\* issueTokens: two inserts, the access token first.
InsertToken(r, kind) ==
    /\ At(r, kind)
    /\ tokens' = tokens \cup {[kind |-> kind, by |-> r, family |-> req[r].from,
                               user |-> req[r].user, state |-> "live"]}
    /\ IF kind = "access" THEN Step(r, "refresh") ELSE Answer(r, TRUE)
    /\ UNCHANGED <<people, packsOf, invite, login, codes, gate, credential>>

-----------------------------------------------------------------------------
\* POST /report/mcp, tools/call

\* findAccessToken
Call(r, t, pack) ==
    /\ At(r, "new")
    /\ t.kind = "access"
    /\ t.state = "live"
    /\ req' = [req EXCEPT ![r] = [@ EXCEPT !.kind = "call", !.pc = "principal",
                 !.user = t.user, !.want = {pack}, !.late = member[t.user].status = "revoked"]]
    /\ UNCHANGED <<people, packsOf, signIn, gate, credential>>

Authenticate(r) ==
    /\ At(r, "principal")
    /\ IF Resolves(req[r].user)
       THEN req' = [req EXCEPT ![r].pc = "pause", ![r].status = customer,
                               ![r].role = member[req[r].user].role]
       ELSE Answer(r, FALSE)
    /\ UNCHANGED <<people, packsOf, signIn, gate, credential>>

\* rateLimited: the first call of a minute always passes.
CountCall(r) ==
    IF rate = 0 \/ rate < CallsPerMinute THEN rate' = rate + 1 /\ Step(r, "permissions")
    ELSE UNCHANGED rate /\ Answer(r, FALSE)

\* isPaused with a young cache; otherwise the setting is asked for.
CheckPause(r) ==
    /\ At(r, "pause")
    /\ CASE pausedCache = "old" -> Step(r, "setting") /\ UNCHANGED rate
         [] pausedCache = "paused" -> Answer(r, FALSE) /\ UNCHANGED rate
         [] pausedCache = "running" -> CountCall(r)
    /\ UNCHANGED <<people, packsOf, signIn, setting, pausedCache, credential>>

ReadSetting(r) ==
    /\ At(r, "setting")
    /\ req' = [req EXCEPT ![r].pc = "cache", ![r].ok = setting]
    /\ UNCHANGED <<people, packsOf, signIn, gate, credential>>

\* A setting that cannot be read counts as "not paused", and is cached as such.
CachePause(r, readable) ==
    /\ At(r, "cache")
    /\ IF readable /\ req[r].ok
       THEN pausedCache' = "paused" /\ Answer(r, FALSE) /\ UNCHANGED rate
       ELSE pausedCache' = "running" /\ CountCall(r)
    /\ UNCHANGED <<people, packsOf, signIn, setting, credential>>

\* getPermissions and the gate; then the call queues for a slot.
CheckPacks(r) ==
    /\ At(r, "permissions")
    /\ IF req[r].want \subseteq EffectivePacks(req[r].status, req[r].role)
       THEN Step(r, "queue") ELSE Answer(r, FALSE)
    /\ UNCHANGED <<people, packsOf, signIn, gate, credential>>

\* acquire() lets it through, and the tool asks for the connection.
ReadConnection(r) ==
    /\ At(r, "queue")
    /\ stored # 0
    /\ req' = [req EXCEPT ![r].token = stored, ![r].pc = IF fresh THEN "send" ELSE "rotate"]
    /\ UNCHANGED <<people, packsOf, signIn, gate, credential>>

\* refreshCredential, without a lock: HighLevel takes a refresh token once.
Rotate(r) ==
    /\ At(r, "rotate")
    /\ req[r].token \in alive
    /\ issued < MaxCredentials
    /\ issued' = issued + 1
    /\ alive' = (alive \ {req[r].token}) \cup {issued + 1}
    /\ req' = [req EXCEPT ![r].pc = "store", ![r].token = issued + 1]
    /\ UNCHANGED <<people, packsOf, signIn, gate, stored, fresh, lost>>

\* Variant: the access token is stored, with the refresh token it replaces.
StoreCredentialHalf(r) ==
    /\ At(r, "store")
    /\ fresh' = TRUE
    /\ Step(r, "send")
    /\ UNCHANGED <<people, packsOf, signIn, gate, stored, issued, alive, lost>>

\* updateConnectionCredential
StoreCredential(r) ==
    /\ At(r, "store")
    /\ stored' = req[r].token
    /\ fresh' = TRUE
    /\ Step(r, "send")
    /\ UNCHANGED <<people, packsOf, signIn, gate, issued, alive, lost>>

\* A page of the tool's answer comes in: up to MAX_PAGES, each with the token
\* looked up again, or the last of them.
Send(r, more) ==
    /\ At(r, "send")
    /\ IF more THEN Step(r, "queue") ELSE Answer(r, TRUE)
    /\ UNCHANGED <<people, packsOf, signIn, gate, credential>>

-----------------------------------------------------------------------------
\* The dashboard and the provisioning webhook

\* A form of the dashboard begins with getTenant, and goes by its status.
Begin(r, kind, user, status, want, next) ==
    /\ At(r, "new")
    /\ req' = [req EXCEPT ![r] = [@ EXCEPT !.kind = kind, !.pc = next, !.user = user,
                 !.status = status, !.want = want,
                 !.todo = CASE next = "grant" -> Packs [] next = "cell" -> Cells [] OTHER -> {}]]
    /\ UNCHANGED <<people, packsOf, signIn, gate, credential>>

Approve(r, preset) ==
    customer = "pending" /\ Begin(r, "approve", Nobody, "active", preset, "grant")

SetStatus(r, status) ==
    customer \in {"active", "suspended"} /\ Begin(r, "status", Nobody, status, {}, "switch")

SaveGrants(r, preset) ==
    customer # "absent" /\ Begin(r, "grants", Nobody, "none", preset, "grant")

SaveMatrix(r, cells) ==
    customer # "absent" /\ Begin(r, "matrix", Nobody, "none", cells, "cell")

RevokeMember(r, u) == member[u] # NotMember /\ Begin(r, "revoke", u, "none", {}, "switch")

MakeInvite(r) ==
    customer \in {"pending", "active"} /\ Begin(r, "invite", Invitee, "none", {}, "create")

ChangeRole(r, u, role) ==
    /\ At(r, "new")
    /\ member[u] # NotMember
    /\ member' = [member EXCEPT ![u].role = role]
    /\ req' = [req EXCEPT ![r] = [Answered(r, TRUE) EXCEPT !.kind = "role"]]
    /\ UNCHANGED <<customer, rowLock, packsOf, signIn, gate, credential>>

SetPaused(r, paused) ==
    /\ At(r, "new")
    /\ setting' = paused
    /\ req' = [req EXCEPT ![r] = [Answered(r, TRUE) EXCEPT !.kind = "pause"]]
    /\ UNCHANGED <<people, packsOf, signIn, pausedCache, rate, credential>>

\* provisionTenant, and what provisionCustomer does with its answer: a new
\* customer is switched on, one that exists only if asked to.
Provision(r, packs, update) ==
    LET apply == customer = "absent" \/ (update /\ customer # "suspended") IN
    /\ At(r, "new")
    /\ customer = "absent" => RowIsFree
    /\ customer' = IF customer = "absent" THEN "pending" ELSE customer
    /\ req' = [req EXCEPT ![r] = IF apply
         THEN [@ EXCEPT !.kind = "provision", !.pc = "grant", !.want = packs, !.todo = Packs,
                        !.status = IF customer \in {"absent", "pending"} THEN "active" ELSE "none"]
         ELSE [Answered(r, TRUE) EXCEPT !.kind = "provision"]]
    /\ UNCHANGED <<rowLock, member, packsOf, signIn, gate, credential>>

\* setPackGrant, pack after pack in the order of PACK_IDS.
WriteGrant(r) ==
    LET p == CHOOSE p \in req[r].todo : TRUE IN
    /\ At(r, "grant")
    /\ grants' = [grants EXCEPT ![p] = p \in req[r].want]
    /\ IF req[r].todo # {p} THEN req' = [req EXCEPT ![r].todo = @ \ {p}]
       ELSE IF req[r].status = "none" THEN Answer(r, TRUE)
       ELSE req' = [req EXCEPT ![r].todo = {}, ![r].pc = "switch"]
    /\ UNCHANGED <<people, matrix, signIn, gate, credential>>

\* setRolePack, cell after cell.
WriteCell(r) ==
    LET c == CHOOSE c \in req[r].todo : TRUE IN
    /\ At(r, "cell")
    /\ matrix' = [matrix EXCEPT ![c] = IF c \in req[r].want THEN "on" ELSE "off"]
    /\ IF req[r].todo # {c} THEN req' = [req EXCEPT ![r].todo = @ \ {c}] ELSE Answer(r, TRUE)
    /\ UNCHANGED <<people, grants, signIn, gate, credential>>

\* setTenantStatus, whatever the status has become since it was read.
SwitchTenant(r) ==
    /\ At(r, "switch")
    /\ req[r].kind # "revoke"
    /\ RowIsFree
    /\ customer' = req[r].status
    /\ IF req[r].status = "suspended" THEN Step(r, "revoke") ELSE Answer(r, TRUE)
    /\ UNCHANGED <<rowLock, member, packsOf, signIn, gate, credential>>

SwitchMember(r) ==
    /\ At(r, "switch")
    /\ req[r].kind = "revoke"
    /\ member' = [member EXCEPT ![req[r].user].status = "revoked"]
    /\ Step(r, "revoke")
    /\ UNCHANGED <<customer, rowLock, packsOf, signIn, gate, credential>>

\* revokeTokens, of everybody or of one member.
RevokeTokens(r) ==
    /\ At(r, "revoke")
    /\ tokens' = {IF req[r].user \in {Nobody, t.user} THEN Revoked(t) ELSE t : t \in tokens}
    /\ Answer(r, TRUE)
    /\ UNCHANGED <<people, packsOf, invite, login, codes, gate, credential>>

CreateInvite(r) ==
    /\ At(r, "create")
    /\ invite = "none"
    /\ invite' = "open"
    /\ Answer(r, TRUE)
    /\ UNCHANGED <<people, packsOf, login, codes, tokens, gate, credential>>

-----------------------------------------------------------------------------
\* The outside

(* A statement or a call upstream fails, or the process dies: what was     *)
(* committed stays, an open transaction is rolled back.                    *)
Break(r) ==
    /\ ~At(r, "new") /\ ~At(r, "done")
    /\ Answer(r, FALSE)
    /\ rowLock' = IF rowLock = r THEN Nobody ELSE rowLock
    /\ invite' = IF At(r, "join") THEN "open" ELSE invite
    /\ lost' = (lost \/ At(r, "store"))
    /\ UNCHANGED <<customer, member, packsOf, login, codes, tokens, gate, stored, fresh, issued, alive>>

\* The access token of the stored credential expires.
ExpireAccess ==
    /\ stored # 0 /\ fresh
    /\ fresh' = FALSE
    /\ UNCHANGED <<req, people, packsOf, signIn, gate, stored, issued, alive, lost>>

\* Five seconds pass for the cache, and a minute for the rate.
AgeCache ==
    /\ pausedCache # "old"
    /\ pausedCache' = "old"
    /\ UNCHANGED <<req, people, packsOf, signIn, setting, rate, credential>>

NextMinute ==
    /\ rate > 0
    /\ rate' = 0
    /\ UNCHANGED <<req, people, packsOf, signIn, setting, pausedCache, credential>>

SignInNext(r) ==
    \/ \E s \in LoginStates : Form(r, s) \/ \E u \in Installers : Callback(r, s, u)
    \/ ExchangeHighLevel(r) \/ LockTenant(r) \/ InsertTenant(r) \/ RankMember(r)
    \/ CommitLogin(r) \/ ClaimInvite(r) \/ Renew(r) \/ CreateCode(r)
    \/ \E role \in InviteRoles : AcceptInvite(r, role)

TokenNext(r) ==
    \/ \E code \in codes, matches \in BOOLEAN : ExchangeCode(r, code, matches)
    \/ \E t \in tokens : ConsumeRefresh(r, t)
    \/ \E kind \in {"access", "refresh"} : InsertToken(r, kind)
    \/ RevokeFamily(r) \/ CheckOwner(r)

CallNext(r) ==
    \/ \E t \in tokens, pack \in Packs : Call(r, t, pack)
    \/ Authenticate(r) \/ CheckPause(r) \/ ReadSetting(r) \/ CheckPacks(r)
    \/ \E readable \in BOOLEAN : CachePause(r, readable)
    \/ ReadConnection(r) \/ Rotate(r) \/ StoreCredential(r)
    \/ \E more \in BOOLEAN : Send(r, more)

AdminNext(r) ==
    \/ \E preset \in Presets :
          \/ Approve(r, preset) \/ SaveGrants(r, preset)
          \/ \E update \in BOOLEAN : Provision(r, preset, update)
    \/ \E status \in {"active", "suspended"} : SetStatus(r, status)
    \/ \E cells \in RoleForms : SaveMatrix(r, cells)
    \/ \E u \in Users :
          \/ RevokeMember(r, u)
          \/ \E role \in Roles : ChangeRole(r, u, role)
    \/ \E paused \in BOOLEAN : SetPaused(r, paused)
    \/ MakeInvite(r) \/ CreateInvite(r) \/ WriteGrant(r) \/ WriteCell(r)
    \/ SwitchTenant(r) \/ SwitchMember(r) \/ RevokeTokens(r)

AccessNext ==
    \/ \E r \in Requests :
          SignInNext(r) \/ TokenNext(r) \/ CallNext(r) \/ AdminNext(r) \/ Break(r)
    \/ \E s \in LoginStates : Register(s)
    \/ ExpireAccess \/ AgeCache \/ NextMinute

AccessSpec == AccessInit /\ [][AccessNext]_accessVars

-----------------------------------------------------------------------------

(* Who has been revoked is out for good: no sign-in, refresh or call that  *)
(* begins afterwards succeeds, whatever tokens, codes, logins and forms    *)
(* were under way.  (A code redeemed then still yields tokens: dead ones.) *)
RevokedForGood ==
    \A r \in Requests :
        req[r].late /\ At(r, "done") => ~req[r].ok

(* First logins that overlap rank one owner: a second one comes from the   *)
(* dashboard only.                                                         *)
OneOwnerByLogin ==
    \A u, v \in Actives :
        u # v /\ member[u].role = "owner" /\ member[v].role = "owner"
            => \E r \in Requests : req[r].kind = "role"

(* Without a lock around the rotation, the stored credential is still one  *)
(* that HighLevel takes, unless a rotated one is being or could not be     *)
(* stored.                                                                 *)
StoredCredentialWorks ==
    stored # 0 /\ ~lost /\ ~(\E r \in Requests : At(r, "store")) => stored \in alive
===============================================================================
