---------------------------- MODULE SocialPosts -----------------------------
(***************************************************************************)
(* The MCP server's tools/call: a call is authorized, counted against the  *)
(* tenant's request rate, given the tenant's HighLevel access, held to the *)
(* tenant's plan, and then creates, updates, deletes or reads posts of the *)
(* tenant's location at HighLevel.                                         *)
(*                                                                         *)
(* One process serves the calls; each gives up control at every await, so  *)
(* a statement or a request to HighLevel is a step and the JavaScript up   *)
(* to the next await belongs to it.  The post list of HighLevel may show a *)
(* post late, any request may fail, and the process may be restarted.      *)
(***************************************************************************)
EXTENDS Naturals, Sequences, FiniteSets

CONSTANTS
    Calls,          \* tools/call requests of one tenant; a retry is another call
    Contents,       \* summary and media of a post, as isSamePost compares them
    Tools,          \* bound: the tools the calls use, of "create", "update", "delete", "read"
    Platforms,      \* platforms of the tenant's connected accounts
    Roles,          \* roles a membership may have
    Plans,          \* PLANS: the plans a tenant may have
    NoLimit,        \* max_posts_per_month is null
    PlanLimits,     \* values of maxPostsPerMonth the administrator sets
    RatePerMinute,  \* TENANT_RATE_LIMIT_PER_MINUTE
    LastMinute,     \* bound: the clock stops here
    MaxRestarts     \* bound: restarts of the process

ASSUME CallsAssumption == "hand" \notin Calls
ASSUME PlansAssumption == "none" \notin Plans
ASSUME BoundsAssumption ==
    /\ NoLimit \notin Nat
    /\ PlanLimits \subseteq Nat \cup {NoLimit}
    /\ RatePerMinute \in Nat /\ LastMinute \in Nat /\ MaxRestarts \in Nat

VARIABLES
    call,       \* the local variables of each tools/call
    posts,      \* HighLevel: every post it has accepted, numbered
    recent,     \* recentCreates: the post remembered for each content and platform
    window,     \* rateLimitWindows: the entries of the tenant and of the administrator's address
    minute,     \* the clock, as Date.now() / 60_000
    plan,       \* tenants.plan
    limit,      \* plan_limits.max_posts_per_month of each plan
    used,       \* tenant_usage_counters.count in the row of this month
    owed,       \* incrementUsage calls still under way, for this month
    restarts    \* how often the process was restarted

postVars == <<call, posts, recent, window, minute, plan, limit, used, owed, restarts>>

NoPlan == "none"    \* the principal has no field plan

Writers == {"tenant_owner", "tenant_admin", "editor", "uplifting_admin"}
Keys == Contents \X Platforms

ASSUME KeysAssumption == Keys # {}      \* there is something to post, and somewhere

(* Fields of a call: who calls, with the plan its principal carries, the   *)
(* role of its user until it is admitted, the tool, the content asked for, *)
(* the platforms still to do, the post aimed at, the platform being done,  *)
(* the post as loaded, the posts made; history: the calls that had ended   *)
(* and the posts that were listed when it was admitted, whether the plan   *)
(* was used up by then, and whether its posts are due to be counted this   *)
(* month, or have been.                                                    *)
NewCall == [pc |-> "new", who |-> "none", plan |-> NoPlan, role |-> "none", tool |-> "none",
            content |-> "none", todo |-> {}, aim |-> 0, group |-> "none", copy |-> "none",
            max |-> NoLimit, made |-> {}, after |-> {}, saw |-> {}, full |-> FALSE,
            tally |-> "none", answer |-> "none"]

ByHand == "hand"    \* the author of the post that is there from the start

(* What HighLevel keeps of a post, and history: who made it as what,       *)
(* whether its reply arrived, the server forgot it, or it was changed.     *)
NewPost(content, platform, by) ==
    [content |-> content, platform |-> platform, alive |-> TRUE,
     listed |-> by = ByHand, by |-> by, key |-> <<content, platform>>,
     heard |-> FALSE, forgotten |-> FALSE, touched |-> FALSE]

PostInit ==
    /\ call = [c \in Calls |-> NewCall]
    /\ posts = LET k == CHOOSE k \in Keys : TRUE IN <<NewPost(k[1], k[2], ByHand)>>
    /\ recent = [k \in Keys |-> 0]
    /\ window = [k \in {"tenant", "address"} |-> [start |-> 0, count |-> 0]]
    /\ minute = 0
    /\ plan \in Plans
    /\ limit \in [Plans -> PlanLimits]
    /\ used = 0
    /\ owed = [c \in Calls |-> 0]
    /\ restarts = 0

PostTypeOK ==
    /\ \A c \in Calls :
          /\ call[c].pc \in {"new", "token", "principal", "user", "enter", "context", "access",
                             "plan", "usage", "accounts", "group", "list", "post", "accepted",
                             "verify", "load", "put", "remove", "read", "audit", "done"}
          /\ call[c].made \subseteq 1..Len(posts)
          /\ call[c].aim \in 0..Len(posts)
          /\ call[c].who \in {"none", "issued", "auth0", "admin"}
          /\ call[c].tally \in {"none", "due", "counted"}
          /\ call[c].answer \in {"none", "ok", "error"}
    /\ recent \in [Keys -> 0..Len(posts)]
    /\ plan \in Plans
    /\ limit \in [Plans -> PlanLimits]
    /\ used \in Nat
    /\ owed \in [Calls -> 0..Cardinality(Platforms)]

-----------------------------------------------------------------------------

At(c, step) == call[c].pc = step

Goto(c, step) == call' = [call EXCEPT ![c].pc = step]

\* The call is answered; only what happened in it is kept.
Ended(c, answer) ==
    [NewCall EXCEPT !.pc = "done", !.answer = answer, !.made = call[c].made,
                    !.who = IF call[c].full THEN call[c].who ELSE "none",
                    !.after = call[c].after, !.saw = call[c].saw, !.full = call[c].full,
                    !.tally = call[c].tally]

\* The catch block audits and answers with the error.
Throw(c) == call' = [call EXCEPT ![c] = Ended(c, "error")]

Made == {i \in 1..Len(posts) : posts[i].by # ByHand}

\* The posts of HighLevel that its list shows with this content and platform.
Listed(key) ==
    {i \in 1..Len(posts) :
        /\ posts[i].alive /\ posts[i].listed
        /\ <<posts[i].content, posts[i].platform>> = key}

\* The posts this month's row counts, and those whose count was started this month.
Counted == {i \in 1..Len(posts) :
                \E c \in Calls : i \in call[c].made /\ call[c].tally = "counted"}
Charged == {i \in Made : call[posts[i].by].tally # "none"}

\* The plan the call carries, or else the tenant's, has had its posts of this month.
PlanOf(c) == IF call[c].plan = NoPlan THEN plan ELSE call[c].plan

PlanIsFull(c) == limit[PlanOf(c)] # NoLimit /\ Cardinality(Counted) >= limit[PlanOf(c)]

-----------------------------------------------------------------------------
\* Who calls: an access token of the built-in server, one of Auth0, or the key of
\* the administrator.  Every call reads its user's membership anew.

FirstStep == [issued |-> "token", auth0 |-> "user", admin |-> "enter"]

Bearer(c, who) ==
    /\ At(c, "new")
    /\ call' = [call EXCEPT ![c].who = who, ![c].pc = FirstStep[who],
                            ![c].role = IF who = "admin" THEN "uplifting_admin" ELSE "none"]
    /\ UNCHANGED <<posts, recent, window, minute, plan, limit, used, owed, restarts>>

\* authenticateIssuedToken: the row of the token ...
FindToken(c) ==
    /\ At(c, "token")
    /\ Goto(c, "principal")
    /\ UNCHANGED <<posts, recent, window, minute, plan, limit, used, owed, restarts>>

\* ... and the active membership of its user in its tenant, with the tenant's plan.
ResolvePrincipal(c, role) ==
    /\ At(c, "principal")
    /\ call' = [call EXCEPT ![c].pc = "enter", ![c].role = role, ![c].plan = plan]
    /\ UNCHANGED <<posts, recent, window, minute, plan, limit, used, owed, restarts>>

\* resolveUserAuthorization: the membership the token claims, or the only one; of
\* the tenant's plan its answer says nothing.
ResolveUser(c, role) ==
    /\ At(c, "user")
    /\ call' = [call EXCEPT ![c].pc = "enter", ![c].role = role]
    /\ UNCHANGED <<posts, recent, window, minute, plan, limit, used, owed, restarts>>

-----------------------------------------------------------------------------
\* Admission: authorizeTool and checkRateLimit.

MayUse(role, tool) ==
    /\ tool # "read" => role \in Writers
    /\ tool = "delete" => role # "editor"

\* tenantId || userId || req.ip: the administrator's principal has neither id.
RateKey(c) == IF call[c].who = "admin" THEN "address" ELSE "tenant"

CurrentWindow(k) == IF window[k].start = minute THEN window[k] ELSE [start |-> minute, count |-> 0]

\* The counter goes on counting the calls it refuses.
CheckRateLimit(k) ==
    window' = [window EXCEPT ![k] = [start |-> minute, count |-> CurrentWindow(k).count + 1]]

\* The first call of a minute passes whatever the limit is.
WithinRate(k) == CurrentWindow(k).count = 0 \/ CurrentWindow(k).count < RatePerMinute

Admit(c, tool, content, todo, aim) ==
    /\ At(c, "enter")
    /\ tool \in Tools
    /\ IF ~MayUse(call[c].role, tool)
       THEN Throw(c) /\ UNCHANGED window
       ELSE /\ CheckRateLimit(RateKey(c))
            /\ IF ~WithinRate(RateKey(c)) THEN Throw(c)
               ELSE call' = [call EXCEPT ![c] =
                      [@ EXCEPT !.pc = "context", !.role = "none", !.tool = tool, !.content = content,
                                !.todo = todo, !.aim = aim, !.after = {d \in Calls : At(d, "done")},
                                !.saw = {i \in 1..Len(posts) : posts[i].listed},
                                !.full = PlanIsFull(c)]]
    /\ UNCHANGED <<posts, recent, minute, plan, limit, used, owed, restarts>>

\* requestTenantContext: the active connection of the tenant, or of the location
\* the administrator names ...
Context(c) ==
    /\ At(c, "context")
    /\ Goto(c, "access")
    /\ UNCHANGED <<posts, recent, window, minute, plan, limit, used, owed, restarts>>

\* ... and its HighLevel access; then the tool is dispatched.  The administrator is
\* held to no plan.
GetAccess(c) ==
    /\ At(c, "access")
    /\ Goto(c, CASE call[c].tool = "create" -> IF call[c].who = "admin" THEN "accounts" ELSE "plan"
                 [] call[c].tool = "update" -> "load"
                 [] call[c].tool = "delete" -> "remove"
                 [] OTHER -> "read")
    /\ UNCHANGED <<posts, recent, window, minute, plan, limit, used, owed, restarts>>

\* limits[req.principal.plan]?.maxPostsPerMonth
LimitFor(c) == IF call[c].plan = NoPlan THEN NoLimit ELSE limit[call[c].plan]

\* getPlanLimits; without a limit the counter is not read.
ReadPlan(c) ==
    /\ At(c, "plan")
    /\ call' = [call EXCEPT ![c].pc = IF LimitFor(c) = NoLimit THEN "accounts" ELSE "usage",
                            ![c].max = LimitFor(c)]
    /\ UNCHANGED <<posts, recent, window, minute, plan, limit, used, owed, restarts>>

\* One post more than the plan has.
EnforcePostLimitLate(c) ==
    /\ At(c, "usage")
    /\ IF used > call[c].max THEN Throw(c) ELSE Goto(c, "accounts")
    /\ UNCHANGED <<posts, recent, window, minute, plan, limit, used, owed, restarts>>

\* enforcePostLimit: the limit read before against this month's counter read now.
EnforcePostLimit(c) ==
    /\ At(c, "usage")
    /\ IF used >= call[c].max THEN Throw(c) ELSE Goto(c, "accounts")
    /\ UNCHANGED <<posts, recent, window, minute, plan, limit, used, owed, restarts>>

-----------------------------------------------------------------------------
\* createSocialPost

\* resolveSocialAccounts: inactive and unknown accounts are refused (Fail).
ResolveAccounts(c) ==
    /\ At(c, "accounts")
    /\ Goto(c, "group")
    /\ UNCHANGED <<posts, recent, window, minute, plan, limit, used, owed, restarts>>

\* What was created moments ago is not remembered.
NextGroupForgetful(c, p) ==
    /\ At(c, "group")
    /\ p \in call[c].todo
    /\ call' = [call EXCEPT ![c].todo = @ \ {p}, ![c].group = p, ![c].pc = "list"]
    /\ UNCHANGED <<posts, recent, window, minute, plan, limit, used, owed, restarts>>

\* The next platform: skipped if the same post was created moments ago.
NextGroup(c, p) ==
    LET key == <<call[c].content, p>> IN
    /\ At(c, "group")
    /\ p \in call[c].todo
    /\ call' = [call EXCEPT ![c].todo = @ \ {p}, ![c].group = p,
                            ![c].pc = IF recent[key] # 0 THEN "group" ELSE "list"]
    /\ UNCHANGED <<posts, recent, window, minute, plan, limit, used, owed, restarts>>

\* Skipped as well if the list already shows such a post.
FindExisting(c) ==
    /\ At(c, "list")
    /\ Goto(c, IF Listed(<<call[c].content, call[c].group>>) # {} THEN "group" ELSE "post")
    /\ UNCHANGED <<posts, recent, window, minute, plan, limit, used, owed, restarts>>

\* HighLevel accepts the post; its reply is still on the way.
Accept(c) ==
    /\ At(c, "post")
    /\ posts' = Append(posts, NewPost(call[c].content, call[c].group, c))
    /\ call' = [call EXCEPT ![c].pc = "accepted", ![c].aim = Len(posts) + 1]
    /\ UNCHANGED <<recent, window, minute, plan, limit, used, owed, restarts>>

\* The reply arrives and the post is remembered before it is verified.
Remember(c, verify) ==
    LET new == call[c].aim IN
    /\ At(c, "accepted")
    /\ recent' = [recent EXCEPT ![posts[new].key] = new]
    /\ posts' = [posts EXCEPT ![new].heard = TRUE]
    /\ call' = [call EXCEPT ![c].made = @ \cup {new},
                            ![c].pc = IF verify THEN "verify" ELSE "group"]
    /\ UNCHANGED <<window, minute, plan, limit, used, owed, restarts>>

\* Looked for in the list twice; not finding it is only a warning.
Verify(c) ==
    /\ At(c, "verify")
    /\ Goto(c, "group")
    /\ UNCHANGED <<posts, recent, window, minute, plan, limit, used, owed, restarts>>

\* recordUsage starts the increment, of the row of the month it is now, and does not
\* await it; nothing was created, nothing is counted.
Record(c) ==
    /\ At(c, "group")
    /\ call[c].todo = {}
    /\ owed' = [owed EXCEPT ![c] = Cardinality(call[c].made)]
    /\ call' = [call EXCEPT ![c].pc = "audit",
                            ![c].tally = IF call[c].made = {} THEN "none" ELSE "due"]
    /\ UNCHANGED <<posts, recent, window, minute, plan, limit, used, restarts>>

\* The increment may be applied again.
IncrementUsageAgain(c, stored) ==
    /\ owed[c] > 0
    /\ used < Len(posts)
    /\ used' = used + owed[c]
    /\ call' = [call EXCEPT ![c].tally = "counted"]
    /\ UNCHANGED <<posts, recent, window, minute, plan, limit, owed, restarts>>

\* The increment runs on its own; if it fails nobody is told.
IncrementUsage(c, stored) ==
    /\ owed[c] > 0
    /\ IF stored THEN /\ used' = used + owed[c]
                      /\ call' = [call EXCEPT ![c].tally = "counted"]
       ELSE UNCHANGED <<used, call>>
    /\ owed' = [owed EXCEPT ![c] = 0]
    /\ UNCHANGED <<posts, recent, window, minute, plan, limit, restarts>>

-----------------------------------------------------------------------------
\* updateSocialPost: load the post, lay the changes over it, send it all back.

LoadPost(c) ==
    /\ At(c, "load")
    /\ posts[call[c].aim].alive
    /\ call' = [call EXCEPT ![c].pc = "put", ![c].copy = posts[call[c].aim].content]
    /\ UNCHANGED <<posts, recent, window, minute, plan, limit, used, owed, restarts>>

\* Without a new content the one that was loaded is sent back.
PutPost(c) ==
    LET i == call[c].aim
        asked == call[c].content
    IN
    /\ At(c, "put")
    /\ posts[i].alive
    /\ posts' = [posts EXCEPT ![i].content = IF asked = "none" THEN call[c].copy ELSE asked,
                             ![i].touched = TRUE]
    /\ Goto(c, "read")
    /\ UNCHANGED <<recent, window, minute, plan, limit, used, owed, restarts>>

\* deleteSocialPost; what was remembered of the post stays remembered.
RemovePost(c) ==
    LET i == call[c].aim IN
    /\ At(c, "remove")
    /\ posts[i].alive
    /\ posts' = [posts EXCEPT ![i].alive = FALSE, ![i].touched = TRUE]
    /\ Goto(c, "audit")
    /\ UNCHANGED <<recent, window, minute, plan, limit, used, owed, restarts>>

\* The read-only tools, uploads, and the fetch that verifies an update.
Read(c) ==
    /\ At(c, "read")
    /\ Goto(c, "audit")
    /\ UNCHANGED <<posts, recent, window, minute, plan, limit, used, owed, restarts>>

Audit(c) ==
    /\ At(c, "audit")
    /\ call' = [call EXCEPT ![c] = Ended(c, "ok")]
    /\ UNCHANGED <<posts, recent, window, minute, plan, limit, used, owed, restarts>>

-----------------------------------------------------------------------------
\* The outside

\* A request or a statement fails, a check refuses, or a reply is lost.
Fail(c) ==
    /\ call[c].pc \notin {"new", "group", "done"}
    /\ Throw(c)
    /\ UNCHANGED <<posts, recent, window, minute, plan, limit, used, owed, restarts>>

ShowInList(i) ==
    /\ i \in 1..Len(posts)
    /\ ~posts[i].listed
    /\ posts' = [posts EXCEPT ![i].listed = TRUE]
    /\ UNCHANGED <<call, recent, window, minute, plan, limit, used, owed, restarts>>

\* RECENT_CREATE_TTL_MS has passed: nothing that was remembered under the key is left.
Forget(key) ==
    /\ recent[key] # 0
    /\ posts' = [i \in DOMAIN posts |->
                   [posts[i] EXCEPT !.forgotten = @ \/ (posts[i].key = key /\ posts[i].heard)]]
    /\ recent' = [recent EXCEPT ![key] = 0]
    /\ UNCHANGED <<call, window, minute, plan, limit, used, owed, restarts>>

Tick ==
    /\ minute < LastMinute
    /\ minute' = minute + 1
    /\ UNCHANGED <<call, posts, recent, window, plan, limit, used, owed, restarts>>

\* A minute in which currentUsagePeriod changes: the row of the new month starts
\* empty, and what is still being added to the old one is read by nobody.
NextMonth ==
    /\ minute < LastMinute
    /\ minute' = minute + 1
    /\ used' = 0
    /\ owed' = [c \in Calls |-> 0]
    /\ call' = [c \in Calls |-> [call[c] EXCEPT !.full = FALSE, !.tally = "none"]]
    /\ UNCHANGED <<posts, recent, window, plan, limit, restarts>>

Raised(p, n) == n = NoLimit \/ (limit[p] # NoLimit /\ n > limit[p])

\* The admin panel; limits are read afresh by every call.
SetPlanLimit(p, n) ==
    /\ limit' = [limit EXCEPT ![p] = n]
    /\ call' = [c \in Calls |-> [call[c] EXCEPT !.full = @ /\ ~(PlanOf(c) = p /\ Raised(p, n))]]
    /\ UNCHANGED <<posts, recent, window, minute, plan, used, owed, restarts>>

\* The calls that carry a plan keep the one they were authenticated with.
SetTenantPlan(p) ==
    /\ plan' = p
    /\ call' = [c \in Calls |-> [call[c] EXCEPT !.full = @ /\ call[c].plan # NoPlan]]
    /\ UNCHANGED <<posts, recent, window, minute, limit, used, owed, restarts>>

\* The memory of the process is gone, and with it the calls it served.
Restart ==
    /\ restarts < MaxRestarts
    /\ restarts' = restarts + 1
    /\ call' = [c \in Calls |-> IF call[c].pc \in {"new", "done"} THEN call[c]
                                ELSE Ended(c, "error")]
    /\ posts' = [i \in DOMAIN posts |-> [posts[i] EXCEPT !.forgotten = TRUE]]
    /\ recent' = [k \in Keys |-> 0]
    /\ window' = [k \in {"tenant", "address"} |-> [start |-> 0, count |-> 0]]
    /\ owed' = [c \in Calls |-> 0]
    /\ UNCHANGED <<minute, plan, limit, used>>

AdmitSome(c) ==
    \/ Admit(c, "read", "none", {}, 0)
    \/ \E content \in Contents, todo \in SUBSET Platforms \ {{}} :
          Admit(c, "create", content, todo, 0)
    \/ \E i \in 1..Len(posts) :
          \/ Admit(c, "delete", "none", {}, i)
          \/ \E content \in Contents \cup {"none"} :
                Admit(c, "update", content, {}, i)

PostNext ==
    \/ \E c \in Calls :
          \/ \E who \in {"issued", "auth0", "admin"} : Bearer(c, who)
          \/ FindToken(c)
          \/ \E role \in Roles : ResolvePrincipal(c, role) \/ ResolveUser(c, role)
          \/ AdmitSome(c)
          \/ Context(c)
          \/ GetAccess(c)
          \/ EnforcePostLimit(c)
          \/ ResolveAccounts(c)
          \/ FindExisting(c)
          \/ Accept(c)
          \/ Verify(c)
          \/ Record(c)
          \/ LoadPost(c)
          \/ PutPost(c)
          \/ RemovePost(c)
          \/ Read(c)
          \/ Audit(c)
          \/ Fail(c)
          \/ \E p \in Platforms : NextGroup(c, p)
          \/ ReadPlan(c)
          \/ \E b \in BOOLEAN : IncrementUsage(c, b) \/ Remember(c, b)
    \/ \E i \in 1..Len(posts) : ShowInList(i)
    \/ \E key \in Keys : Forget(key)
    \/ \E p \in Plans : SetTenantPlan(p) \/ \E n \in PlanLimits : SetPlanLimit(p, n)
    \/ Tick
    \/ NextMonth
    \/ Restart

PostSpec == PostInit /\ [][PostNext]_postVars
-----------------------------------------------------------------------------

\* Out of sight: neither remembered by the process nor shown by the list.
Hidden(p, q) ==
    /\ ~posts[p].heard \/ posts[p].forgotten
    /\ p \notin call[posts[q].by].saw \/ posts[p].touched

(* A retry is never a second post.  Of two posts with the same content on  *)
(* the same platform, made by calls of which one was admitted after the    *)
(* other had ended, the earlier one was out of sight: its reply was lost   *)
(* or its memory gone, while the list did not show it.                     *)
RetriesDoNotRepeat ==
    \A p, q \in Made :
        posts[p].key = posts[q].key /\ posts[p].by \in call[posts[q].by].after
            => Hidden(p, q)

(* A plan whose posts of the month have been counted stays closed to the   *)
(* calls that carry it and are admitted then, unless the administrator     *)
(* raises its limit or the next month begins.                              *)
FullPlanStaysFull ==
    \A c \in Calls : call[c].full /\ call[c].who = "issued" => call[c].made = {}

(* A tenant is never charged for more than the posts that HighLevel        *)
(* accepted and whose count was started this month, whatever is skipped,   *)
(* retried, lost or counted late.                                          *)
UsageNeverOverstates == used <= Cardinality(Charged)
=============================================================================
