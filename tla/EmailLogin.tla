----------------------------- MODULE EmailLogin -----------------------------
(***************************************************************************)
(* Signing in to the built-in OAuth server: a login request made at        *)
(* /oauth/authorize is finished by HighLevel's callback or by a link sent  *)
(* to an invited teammate's address, and ends in an authorization code.    *)
(*                                                                         *)
(* Every SQL statement and every call to HighLevel is a step of the        *)
(* handler that awaits it; handlers of one or several processes            *)
(* interleave.  A failing statement and a dying process both end a         *)
(* handler, so they are one action.                                        *)
(***************************************************************************)
EXTENDS Naturals, FiniteSets, Sequences

CONSTANTS
    Logins,         \* login requests
    Addresses,      \* email addresses; each is also the user "email:<address>"
    HighLevelUsers, \* users "highlevel:<id>"
    AddressOf,      \* the address HighLevel gives for each of its users
    Tenants,
    Invites,        \* team invites
    MaxUsers,       \* plan_limits.max_users of the tenants' plan
    Handlers,       \* HTTP requests being served at the same time
    Nobody          \* absence of a value

Users == Addresses \cup HighLevelUsers

ASSUME AddressAssumption == AddressOf \in [HighLevelUsers -> Addresses]
ASSUME MaxUsersAssumption == MaxUsers \in Nat
ASSUME NobodyAssumption == Nobody \notin Users \cup Tenants \cup Logins

VARIABLES
    request,    \* oauth_login_requests: state of each login request
    link,       \* email_login_tokens: the row made for each login request
    invite,     \* team_invites
    member,     \* memberships: status of each user in each tenant
    handler,    \* the local variables of the handlers
    codes,      \* oauth_auth_codes: every code issued for a login request, in order
    given,      \* history: how often the window of a login was sent back with a code
    page,       \* the "check your email" page of each login request
    broken      \* history: a handler died, access ended or a reply was lost

loginVars == <<request, link, invite, member, handler, codes, given, page, broken>>

Owners == Users \X Tenants

\* Inside verify and finish, in the order of their awaits.
Steps == {"idle", "exchange", "provision", "lookup", "token", "mail",
          "respond", "principal", "code", "complete", "redirect", "invite"}

NoLink == [state |-> "none", owner |-> Nobody, completed |-> FALSE]
NoHandler == [pc |-> "idle", login |-> Nobody, way |-> "none", owner |-> Nobody]

(* A request is open until it is used or expires.  A link is sent when its *)
(* row exists, mailed when the mail went out, and completed while its      *)
(* redirect waits to be collected.                                         *)
LoginTypeOK ==
    /\ request \in [Logins -> {"none", "open", "used", "expired"}]
    /\ link \in [Logins -> [state : {"none", "stored", "mailed", "used", "expired"},
                            owner : Owners \cup {Nobody}, completed : BOOLEAN]]
    /\ invite \in [Invites -> [state : {"none", "pending", "accepted", "expired"},
                               address : Addresses \cup {Nobody},
                               tenant : Tenants \cup {Nobody}]]
    /\ member \in [Owners -> {"none", "active", "disabled"}]
    /\ handler \in [Handlers -> [pc : Steps, login : Logins \cup {Nobody},
                                 way : {"none", "highlevel", "email"},
                                 owner : (Users \X (Tenants \cup {Nobody})) \cup {Nobody}]]
    /\ codes \in [Logins -> Seq(Owners)]
    /\ given \in [Logins -> Nat]
    /\ page \in [Logins -> {"none", "waiting", "returned", "stopped"}]
    /\ broken \subseteq Logins

LoginInit ==
    /\ request = [l \in Logins |-> "none"]
    /\ link = [l \in Logins |-> NoLink]
    /\ invite = [i \in Invites |-> [state |-> "none", address |-> Nobody, tenant |-> Nobody]]
    /\ member = [o \in Owners |-> "none"]
    /\ handler = [h \in Handlers |-> NoHandler]
    /\ codes = [l \in Logins |-> <<>>]
    /\ given = [l \in Logins |-> 0]
    /\ page = [l \in Logins |-> "none"]
    /\ broken = {}

-----------------------------------------------------------------------------
\* Helpers: the step of a handler, and the two single-use rows.

Awaits(h, step) == handler[h].pc = step

Proceed(h, step) == handler' = [handler EXCEPT ![h].pc = step]

Finish(h) == handler' = [handler EXCEPT ![h] = NoHandler]

\* UPDATE ... WHERE used_at IS NULL AND expires_at > now() RETURNING ...
ConsumeRequest(l) ==
    /\ request[l] = "open"
    /\ request' = [request EXCEPT ![l] = "used"]

\* Without the condition on used_at.
ConsumeLinkAgain(l) ==
    /\ link[l].state \in {"mailed", "used"}
    /\ link' = [link EXCEPT ![l].state = "used"]

ConsumeLink(l) ==
    /\ link[l].state = "mailed"
    /\ link' = [link EXCEPT ![l].state = "used"]

-----------------------------------------------------------------------------
\* GET /oauth/authorize: the request is stored, the page offers both ways.
Authorize(l) ==
    /\ request[l] = "none"
    /\ request' = [request EXCEPT ![l] = "open"]
    /\ UNCHANGED <<link, invite, member, handler, codes, given, page, broken>>

-----------------------------------------------------------------------------
\* The HighLevel callback: consume, exchange the code, provision, issue.

\* query.error ends the login; a spent request makes this no login at all.
CallbackConsume(h, l, declined) ==
    /\ Awaits(h, "idle")
    /\ ConsumeRequest(l)
    /\ IF declined THEN UNCHANGED handler
       ELSE handler' = [handler EXCEPT ![h] =
                [pc |-> "exchange", login |-> l, way |-> "highlevel", owner |-> Nobody]]
    /\ UNCHANGED <<link, invite, member, codes, given, page, broken>>

\* The token reply names the user and the sub-account that granted access.
CallbackExchange(h, u, t) ==
    /\ Awaits(h, "exchange")
    /\ handler' = [handler EXCEPT ![h].pc = "provision", ![h].owner = <<u, t>>]
    /\ UNCHANGED <<request, link, invite, member, codes, given, page, broken>>

\* ON CONFLICT DO NOTHING: a membership that was ended is not revived.
CallbackProvision(h) ==
    LET o == handler[h].owner IN
    /\ Awaits(h, "provision")
    /\ IF member[o] = "disabled"
       THEN Finish(h) /\ UNCHANGED member
       ELSE Proceed(h, "code") /\ member' = [member EXCEPT ![o] = "active"]
    /\ UNCHANGED <<request, link, invite, codes, given, page, broken>>

-----------------------------------------------------------------------------
\* POST /oauth/authorize/email

FormConsume(h, l, a) ==
    /\ Awaits(h, "idle")
    /\ ConsumeRequest(l)
    /\ handler' = [handler EXCEPT ![h] =
            [pc |-> "lookup", login |-> l, way |-> "email", owner |-> <<a, Nobody>>]]
    /\ UNCHANGED <<link, invite, member, codes, given, page, broken>>

\* The active memberships of all users who have this address.
MembershipsOf(a) ==
    {o \in Owners : /\ member[o] = "active"
                    /\ o[1] = a \/ (o[1] \in HighLevelUsers /\ AddressOf[o[1]] = a)}

\* None or several memberships: the waiting page is shown all the same.
FormLookup(h) ==
    LET l == handler[h].login
        found == MembershipsOf(handler[h].owner[1])
    IN
    /\ Awaits(h, "lookup")
    /\ IF Cardinality(found) = 1
       THEN /\ handler' = [handler EXCEPT ![h].pc = "token",
                                          ![h].owner = CHOOSE o \in found : TRUE]
            /\ UNCHANGED page
       ELSE Finish(h) /\ page' = [page EXCEPT ![l] = "waiting"]
    /\ UNCHANGED <<request, link, invite, member, codes, given, broken>>

FormToken(h) ==
    /\ Awaits(h, "token")
    /\ link' = [link EXCEPT ![handler[h].login] =
                    [state |-> "stored", owner |-> handler[h].owner, completed |-> FALSE]]
    /\ Proceed(h, "mail")
    /\ UNCHANGED <<request, invite, member, codes, given, page, broken>>

\* A mail that cannot be sent is logged only: the page waits either way.
FormMail(h, sent) ==
    /\ Awaits(h, "mail")
    /\ link' = [link EXCEPT ![handler[h].login].state =
                    IF sent /\ @ = "stored" THEN "mailed" ELSE @]
    /\ Proceed(h, "respond")
    /\ UNCHANGED <<request, invite, member, codes, given, page, broken>>

FormRespond(h) ==
    /\ Awaits(h, "respond")
    /\ page' = [page EXCEPT ![handler[h].login] = "waiting"]
    /\ Finish(h)
    /\ UNCHANGED <<request, link, invite, member, codes, given, broken>>

-----------------------------------------------------------------------------
\* GET /oauth/email-login/verify, on whatever device the mail is read.

VerifyConsume(h, l) ==
    /\ Awaits(h, "idle")
    /\ ConsumeLink(l)
    /\ handler' = [handler EXCEPT ![h] =
            [pc |-> "principal", login |-> l, way |-> "email", owner |-> link[l].owner]]
    /\ UNCHANGED <<request, invite, member, codes, given, page, broken>>

VerifyPrincipal(h) ==
    LET l == handler[h].login
        active == member[handler[h].owner] = "active"
    IN
    /\ Awaits(h, "principal")
    /\ IF active THEN Proceed(h, "code") ELSE Finish(h)
    /\ broken' = IF active THEN broken ELSE broken \cup {l}
    /\ UNCHANGED <<request, link, invite, member, codes, given, page>>

\* createAuthCode, of both ways: one more row, whatever was issued before.
IssueCode(h) ==
    LET l == handler[h].login IN
    /\ Awaits(h, "code")
    /\ codes' = [codes EXCEPT ![l] = Append(@, handler[h].owner)]
    /\ Proceed(h, IF handler[h].way = "email" THEN "complete" ELSE "redirect")
    /\ UNCHANGED <<request, link, invite, member, given, page, broken>>

\* The window that began the login goes back to the client with the code.
HandOut(l) == given' = [given EXCEPT ![l] = @ + 1]

\* The callback answers its own window.
Redirect(h) ==
    /\ Awaits(h, "redirect")
    /\ HandOut(handler[h].login)
    /\ Finish(h)
    /\ UNCHANGED <<request, link, invite, member, codes, page, broken>>

\* The code is issued, but nothing is left for the waiting page.
IssueWithoutCompletion(h) ==
    /\ Awaits(h, "complete")
    /\ Finish(h)
    /\ UNCHANGED <<request, link, invite, member, codes, given, page, broken>>

StoreCompletion(h) ==
    /\ Awaits(h, "complete")
    /\ link' = [link EXCEPT ![handler[h].login].completed = TRUE]
    /\ Finish(h)
    /\ UNCHANGED <<request, invite, member, codes, given, page, broken>>

\* GET /oauth/email-login/poll: one statement takes and clears the redirect.
\* Another tab of the page asks on when one has returned.
Poll(l, delivered) ==
    /\ page[l] \in {"waiting", "returned"}
    /\ link[l].completed
    /\ link' = [link EXCEPT ![l].completed = FALSE]
    /\ HandOut(l)
    /\ IF delivered
       THEN page' = [page EXCEPT ![l] = "returned"] /\ UNCHANGED broken
       ELSE broken' = broken \cup {l} /\ UNCHANGED page
    /\ UNCHANGED <<request, invite, member, handler, codes>>

\* The page stops asking after 450 ticks.
PageStops(l) ==
    /\ page[l] = "waiting"
    /\ page' = [page EXCEPT ![l] = "stopped"]
    /\ UNCHANGED <<request, link, invite, member, handler, codes, given, broken>>

-----------------------------------------------------------------------------
\* invite_team_member and GET /invite/accept

ActiveMembers(t) == {u \in Users : member[<<u, t>>] = "active"}

\* enforceUserLimit counts members; invites under way are not counted.  Only the
\* tokens of the built-in server carry the plan that holds their user to a limit.
EnforceUserLimit(h, a, t, held) ==
    /\ Awaits(h, "idle")
    /\ held => Cardinality(ActiveMembers(t)) < MaxUsers
    /\ handler' = [handler EXCEPT ![h] =
            [pc |-> "invite", login |-> Nobody, way |-> "none", owner |-> <<a, t>>]]
    /\ UNCHANGED <<request, link, invite, member, codes, given, page, broken>>

CreateInvite(h, i) ==
    /\ Awaits(h, "invite")
    /\ invite[i].state = "none"
    /\ invite' = [invite EXCEPT ![i] = [state |-> "pending", address |-> handler[h].owner[1],
                                        tenant |-> handler[h].owner[2]]]
    /\ Finish(h)
    /\ UNCHANGED <<request, link, member, codes, given, page, broken>>

\* One transaction; the membership row that exists is left as it is.
AcceptInvite(i) ==
    LET o == <<invite[i].address, invite[i].tenant>> IN
    /\ invite[i].state = "pending"
    /\ invite' = [invite EXCEPT ![i].state = "accepted"]
    /\ member' = [member EXCEPT ![o] = IF @ = "none" THEN "active" ELSE @]
    /\ UNCHANGED <<request, link, handler, codes, given, page, broken>>

-----------------------------------------------------------------------------
\* The outside: time, operators, and handlers that do not get to their end.

\* An operator ends a membership in the database.
EndMembership(o) ==
    /\ member[o] = "active"
    /\ member' = [member EXCEPT ![o] = "disabled"]
    /\ UNCHANGED <<request, link, invite, handler, codes, given, page, broken>>

ExpireRequest(l) ==
    /\ request[l] = "open"
    /\ request' = [request EXCEPT ![l] = "expired"]
    /\ UNCHANGED <<link, invite, member, handler, codes, given, page, broken>>

ExpireLink(l) ==
    /\ link[l].state \in {"stored", "mailed"}
    /\ link' = [link EXCEPT ![l].state = "expired"]
    /\ UNCHANGED <<request, invite, member, handler, codes, given, page, broken>>

ExpireInvite(i) ==
    /\ invite[i].state = "pending"
    /\ invite' = [invite EXCEPT ![i].state = "expired"]
    /\ UNCHANGED <<request, link, member, handler, codes, given, page, broken>>

\* A statement fails, or the process dies: the handler answers no more.
HandlerFails(h) ==
    /\ ~Awaits(h, "idle")
    /\ broken' = broken \cup ({handler[h].login} \cap Logins)
    /\ Finish(h)
    /\ UNCHANGED <<request, link, invite, member, codes, given, page>>

HandlerStep(h) ==
    \/ CallbackProvision(h)
    \/ FormLookup(h)
    \/ FormToken(h)
    \/ FormRespond(h)
    \/ VerifyPrincipal(h)
    \/ IssueCode(h)
    \/ Redirect(h)
    \/ StoreCompletion(h)
    \/ \E sent \in BOOLEAN : FormMail(h, sent)
    \/ \E u \in HighLevelUsers, t \in Tenants : CallbackExchange(h, u, t)

LoginNext ==
    \/ \E h \in Handlers, l \in Logins :
          \/ \E declined \in BOOLEAN : CallbackConsume(h, l, declined)
          \/ \E a \in Addresses : FormConsume(h, l, a)
          \/ VerifyConsume(h, l)
    \/ \E h \in Handlers : HandlerStep(h) \/ HandlerFails(h)
    \/ \E l \in Logins :
          \/ Authorize(l)
          \/ PageStops(l)
          \/ ExpireRequest(l)
          \/ ExpireLink(l)
          \/ \E delivered \in BOOLEAN : Poll(l, delivered)
    \/ \E i \in Invites :
          \/ AcceptInvite(i)
          \/ ExpireInvite(i)
          \/ \E h \in Handlers : CreateInvite(h, i)
    \/ \E h \in Handlers, a \in Addresses, t \in Tenants, held \in BOOLEAN :
          EnforceUserLimit(h, a, t, held)
    \/ \E o \in Owners : EndMembership(o)

LoginSpec == LoginInit /\ [][LoginNext]_loginVars
-----------------------------------------------------------------------------

Once == INSTANCE LoginOnce WITH
            open <- {l \in Logins : request[l] = "open"}, answer <- codes

(* A login request, raced for by callbacks, forms and opened links that    *)
(* fail anywhere, is spent once; at most one authorization code is ever    *)
(* issued for it, and the window that began it is sent back with the code  *)
(* at most once, however many of its tabs go on polling.                   *)
LoginsAreAnsweredOnce == Once!Spec

(* A page that waits although its link was opened has something to wait    *)
(* for: a handler at work or a redirect to collect.  Otherwise a handler   *)
(* died, the membership had ended, or the reply to a poll was lost.        *)
WaitingHasReason ==
    \A l \in Logins :
        page[l] = "waiting" /\ link[l].state = "used" =>
            \/ link[l].completed
            \/ \E h \in Handlers : handler[h].login = l
            \/ l \in broken
=============================================================================
