---------------------------- MODULE ServerProofs ----------------------------
(***************************************************************************)
(* What holds of the MCP server's sign-in and of its posts for any number  *)
(* of logins, handlers, calls and posts.                                   *)
(***************************************************************************)
EXTENDS EmailLogin, SocialPosts, FiniteSetTheorems, TLAPS

-----------------------------------------------------------------------------
\* Signing in

FormSteps == {"lookup", "token", "mail", "respond"}
LinkSteps == {"principal", "code", "complete"}

\* The handler that has spent the request of l, and the one that has opened its link.
SpentBy(h, l) ==
    /\ handler[h].login = l
    /\ handler[h].way = "highlevel" \/ handler[h].pc \in FormSteps

OpenedBy(h, l) ==
    /\ handler[h].login = l
    /\ handler[h].way = "email" /\ handler[h].pc \in LinkSteps

\* What a handler knows at each of its steps.
HandlersKnow ==
    \A h \in Handlers :
        LET pc == handler[h].pc IN
        /\ pc \in {"idle", "invite"} <=> handler[h].login = Nobody
        /\ pc \in {"exchange", "provision"} => handler[h].way = "highlevel"
        /\ pc \in FormSteps \cup {"principal", "complete"} => handler[h].way = "email"
        /\ pc = "redirect" => handler[h].way = "highlevel"
        /\ pc = "code" => handler[h].way \in {"highlevel", "email"}
        /\ pc \in {"idle", "invite"} => handler[h].way = "none"
        /\ pc \in {"provision", "token", "principal", "code"} => handler[h].owner \in Owners
        /\ pc = "invite" => handler[h].owner \in Addresses \X Tenants

RequestsAreSpentOnce ==
    \A h \in Handlers, l \in Logins :
        SpentBy(h, l) => /\ request[l] = "used"
                         /\ \A g \in Handlers : SpentBy(g, l) => g = h

LinksAreOpenedOnce ==
    \A h \in Handlers, l \in Logins :
        OpenedBy(h, l) => /\ link[l].state = "used"
                          /\ \A g \in Handlers : OpenedBy(g, l) => g = h

\* A link is made by the form that has spent the request, for one owner.
LinksFollowForms ==
    \A l \in Logins :
        link[l].state # "none" =>
            /\ request[l] = "used"
            /\ link[l].owner \in Owners
            /\ \A h \in Handlers :
                  handler[h].login = l =>
                      handler[h].way # "highlevel" /\ handler[h].pc \notin {"lookup", "token"}

\* Once there is a code, nothing is left that could issue another.
NothingLeftToAnswer ==
    \A l \in Logins :
        codes[l] # <<>> =>
            /\ request[l] = "used"
            /\ link[l].state \notin {"stored", "mailed"}
            /\ \A h \in Handlers :
                  handler[h].login = l =>
                      handler[h].pc \in {"mail", "respond", "complete", "redirect"}

\* The handler that has issued the code of l and not answered yet.
Answering(h, l) == handler[h].login = l /\ handler[h].pc \in {"complete", "redirect"}

\* The code is with one handler, or with the link, or it has been given.
GivenOnce ==
    \A l \in Logins :
        /\ given[l] \in {0, 1}
        /\ given[l] = 1 => /\ codes[l] # <<>> /\ ~link[l].completed
                           /\ \A h \in Handlers : ~Answering(h, l)
        /\ link[l].completed => /\ codes[l] # <<>> /\ link[l].state = "used"
                                /\ \A h \in Handlers : ~OpenedBy(h, l)
        /\ \A h \in Handlers : Answering(h, l) => codes[l] # <<>>

\* A page is shown when its form has ended.
PagesFollowForms ==
    \A l \in Logins :
        page[l] # "none" =>
            /\ request[l] = "used"
            /\ \A h \in Handlers : handler[h].login = l => handler[h].pc \notin FormSteps

\* An opened link whose page is not told has a handler, or is broken.
OpenedLinksAreSettled ==
    \A l \in Logins :
        link[l].state = "used" =>
            \/ link[l].completed
            \/ \E h \in Handlers : OpenedBy(h, l)
            \/ l \in broken
            \/ page[l] \in {"returned", "stopped"}

LoginInv ==
    /\ LoginTypeOK
    /\ HandlersKnow
    /\ RequestsAreSpentOnce
    /\ LinksAreOpenedOnce
    /\ LinksFollowForms
    /\ NothingLeftToAnswer
    /\ GivenOnce
    /\ PagesFollowForms
    /\ OpenedLinksAreSettled

\* What a handler and the row of a link may hold.
HandlerRecord ==
    [pc : Steps, login : Logins \cup {Nobody}, way : {"none", "highlevel", "email"},
     owner : (Users \X (Tenants \cup {Nobody})) \cup {Nobody}]

LinkRecord ==
    [state : {"none", "stored", "mailed", "used", "expired"},
     owner : Owners \cup {Nobody}, completed : BOOLEAN]

\* The types, with those of the codes apart.
RowTypes ==
    /\ request \in [Logins -> {"none", "open", "used", "expired"}]
    /\ link \in [Logins -> LinkRecord]
    /\ invite \in [Invites -> [state : {"none", "pending", "accepted", "expired"},
                               address : Addresses \cup {Nobody},
                               tenant : Tenants \cup {Nobody}]]
    /\ member \in [Owners -> {"none", "active", "disabled"}]
    /\ handler \in [Handlers -> HandlerRecord]
    /\ given \in [Logins -> Nat]
    /\ page \in [Logins -> {"none", "waiting", "returned", "stopped"}]
    /\ broken \subseteq Logins

CodeTypes == codes \in [Logins -> Seq(Owners)]

LEMMA TypesSplit ==
    /\ LoginTypeOK <=> RowTypes /\ CodeTypes
    /\ LoginTypeOK' <=> RowTypes' /\ CodeTypes'
    /\ CodeTypes /\ codes' = codes => CodeTypes'
  BY DEF LoginTypeOK, RowTypes, CodeTypes, HandlerRecord, LinkRecord

LEMMA LoginInitInv == LoginInit => LoginInv
<1> SUFFICES ASSUME LoginInit PROVE LoginInv
  OBVIOUS
<1>1. LoginTypeOK
  BY DEF LoginInit, LoginTypeOK, NoLink, NoHandler, Steps
<1>2. /\ \A h \in Handlers : handler[h] = NoHandler
      /\ \A l \in Logins : link[l] = NoLink /\ codes[l] = <<>> /\ given[l] = 0 /\ page[l] = "none"
  BY DEF LoginInit
<1>3. HandlersKnow
  BY <1>2 DEF HandlersKnow, NoHandler, FormSteps
<1>4. RequestsAreSpentOnce /\ LinksAreOpenedOnce
  BY <1>2, NobodyAssumption DEF RequestsAreSpentOnce, LinksAreOpenedOnce, SpentBy, OpenedBy, NoHandler
<1>5. LinksFollowForms /\ NothingLeftToAnswer /\ PagesFollowForms /\ OpenedLinksAreSettled
  BY <1>2 DEF LinksFollowForms, NothingLeftToAnswer, PagesFollowForms, OpenedLinksAreSettled, NoLink
<1>6. GivenOnce
  BY <1>2 DEF GivenOnce, Answering, NoHandler, NoLink
<1>7. QED
  BY <1>1, <1>3, <1>4, <1>5, <1>6 DEF LoginInv

\* The conjuncts about the logins and their handlers.
LEMMA ConsumeKeeps ==
    ASSUME LoginInv, NEW h \in Handlers, NEW l \in Logins,
           \/ \E declined \in BOOLEAN : CallbackConsume(h, l, declined)
           \/ \E a \in Addresses : FormConsume(h, l, a)
    PROVE  LoginInv'
<1> USE NobodyAssumption
<1>1. /\ handler[h].pc = "idle" /\ request[l] = "open"
      /\ request' = [request EXCEPT ![l] = "used"]
      /\ UNCHANGED <<link, invite, member, codes, given, page, broken>>
  BY DEF CallbackConsume, FormConsume, ConsumeRequest, Awaits
<1>0. \A k \in Logins : request'[k] = IF k = l THEN "used" ELSE request[k]
  BY <1>1 DEF LoginInv, LoginTypeOK
<1>2. \/ UNCHANGED handler
      \/ handler' = [handler EXCEPT ![h] =
            [pc |-> "exchange", login |-> l, way |-> "highlevel", owner |-> Nobody]]
      \/ \E a \in Addresses : handler' = [handler EXCEPT ![h] =
            [pc |-> "lookup", login |-> l, way |-> "email", owner |-> <<a, Nobody>>]]
  BY DEF CallbackConsume, FormConsume
<1>3. LoginTypeOK'
  <2>1. RowTypes'
    BY <1>1, <1>2, TypesSplit DEF LoginInv, RowTypes, HandlerRecord, Steps, Users
  <2>2. QED
    BY <1>1, <2>1, TypesSplit DEF LoginInv
<1>4. /\ \A g \in Handlers : g # h => handler'[g] = handler[g]
      /\ \/ handler'[h] = handler[h]
         \/ /\ handler'[h].login = l
            /\ \/ handler'[h].pc = "exchange" /\ handler'[h].way = "highlevel"
               \/ handler'[h].pc = "lookup" /\ handler'[h].way = "email"
  BY <1>2 DEF LoginInv, LoginTypeOK
<1>5. (HandlersKnow /\ RequestsAreSpentOnce /\ LinksAreOpenedOnce)'
  <2>1. HandlersKnow'
    BY <1>1, <1>4 DEF LoginInv, HandlersKnow, FormSteps
  <2>2. \A g \in Handlers, k \in Logins :
           /\ SpentBy(g, k)' => SpentBy(g, k) \/ (g = h /\ k = l)
           /\ OpenedBy(g, k)' => OpenedBy(g, k)
    BY <1>1, <1>4 DEF LoginInv, HandlersKnow, SpentBy, OpenedBy, FormSteps, LinkSteps
  <2>3. \A g \in Handlers : ~SpentBy(g, l)
    BY <1>1 DEF LoginInv, RequestsAreSpentOnce
  <2>4. QED
    BY <1>1, <1>0, <2>1, <2>2, <2>3 DEF LoginInv, RequestsAreSpentOnce, LinksAreOpenedOnce
<1>6. (LinksFollowForms /\ NothingLeftToAnswer /\ PagesFollowForms)'
  BY <1>1, <1>0, <1>4 DEF LoginInv, LinksFollowForms, NothingLeftToAnswer, PagesFollowForms, FormSteps
<1>7. OpenedLinksAreSettled'
  <2>1. \A g \in Handlers, k \in Logins : OpenedBy(g, k) => OpenedBy(g, k)'
    BY <1>1, <1>4 DEF OpenedBy, LinkSteps
  <2>2. QED
    BY <1>1, <2>1 DEF LoginInv, OpenedLinksAreSettled
<1>8. GivenOnce'
  <2>1. \A g \in Handlers, k \in Logins :
           /\ Answering(g, k)' => Answering(g, k)
           /\ OpenedBy(g, k)' => OpenedBy(g, k)
    BY <1>1, <1>4 DEF Answering, OpenedBy, LinkSteps
  <2>2. QED
    BY <1>1, <2>1 DEF LoginInv, GivenOnce
<1>9. QED
  BY <1>3, <1>5, <1>6, <1>7, <1>8 DEF LoginInv

LEMMA OwnersAreKnown == Owners \subseteq Users \X (Tenants \cup {Nobody})
  BY DEF Owners

\* What a step of a handler does to the handlers.
LEMMA HandlerTakes ==
    ASSUME LoginTypeOK, NEW h \in Handlers, NEW q \in HandlerRecord,
           handler' = [handler EXCEPT ![h] = q]
    PROVE  /\ handler' \in [Handlers -> HandlerRecord]
           /\ handler'[h] = q
           /\ \A g \in Handlers : g # h => handler'[g] = handler[g]
  BY DEF LoginTypeOK, HandlerRecord

LEMMA FinishTakes ==
    ASSUME LoginTypeOK, NEW h \in Handlers, Finish(h)
    PROVE  /\ handler' \in [Handlers -> HandlerRecord]
           /\ handler'[h] = NoHandler
           /\ \A g \in Handlers : g # h => handler'[g] = handler[g]
<1>1. NoHandler \in HandlerRecord
  BY DEF NoHandler, HandlerRecord, Steps
<1>2. QED
  BY <1>1, HandlerTakes DEF Finish

LEMMA ProceedTakes ==
    ASSUME LoginTypeOK, NEW h \in Handlers, NEW step \in Steps, Proceed(h, step)
    PROVE  /\ handler' \in [Handlers -> HandlerRecord]
           /\ handler'[h].pc = step /\ handler'[h].login = handler[h].login
           /\ handler'[h].way = handler[h].way /\ handler'[h].owner = handler[h].owner
           /\ \A g \in Handlers : g # h => handler'[g] = handler[g]
<1> DEFINE q == [handler[h] EXCEPT !.pc = step]
<1>1. handler[h] \in HandlerRecord
  BY DEF LoginTypeOK, HandlerRecord
<1>2. /\ q \in HandlerRecord /\ q.pc = step /\ q.login = handler[h].login
      /\ q.way = handler[h].way /\ q.owner = handler[h].owner
  BY <1>1 DEF HandlerRecord
<1>3. handler' = [handler EXCEPT ![h] = q]
  BY DEF Proceed
<1> HIDE DEF q
<1>4. QED
  BY <1>2, <1>3, HandlerTakes

\* A handler that goes on, with the login it works for, or ends; the rows stay.
GoesOn(h) ==
    /\ handler'[h].login = handler[h].login
    /\ handler'[h].way = handler[h].way
    /\ \/ handler[h].pc \in {"exchange", "provision", "principal"}
          /\ handler'[h].pc \in {"provision", "code"}
       \/ handler[h].pc = "lookup" /\ handler'[h].pc = "token"

Leaves(h) ==
    /\ handler'[h].login = Nobody
    /\ \A l \in Logins : OpenedBy(h, l) => link[l].completed \/ l \in broken'

LEMMA MoveKeeps ==
    ASSUME LoginInv, NEW h \in Handlers, LoginTypeOK', HandlersKnow',
           \A g \in Handlers : g # h => handler'[g] = handler[g],
           GoesOn(h) \/ Leaves(h),
           broken \subseteq broken', UNCHANGED <<request, link, codes, given, page>>
    PROVE  LoginInv'
<1> USE NobodyAssumption
<1>1. \A g \in Handlers, l \in Logins :
         /\ SpentBy(g, l)' => SpentBy(g, l)
         /\ OpenedBy(g, l)' => OpenedBy(g, l)
         /\ OpenedBy(g, l) => OpenedBy(g, l)' \/ link[l].completed \/ l \in broken'
  BY DEF LoginInv, HandlersKnow, GoesOn, Leaves, SpentBy, OpenedBy, FormSteps, LinkSteps
<1>2. (RequestsAreSpentOnce /\ LinksAreOpenedOnce)'
  BY <1>1 DEF LoginInv, RequestsAreSpentOnce, LinksAreOpenedOnce
<1>3. (LinksFollowForms /\ NothingLeftToAnswer /\ PagesFollowForms)'
  BY DEF LoginInv, LinksFollowForms, NothingLeftToAnswer, PagesFollowForms, GoesOn, Leaves, FormSteps
<1>4. OpenedLinksAreSettled'
  BY <1>1 DEF LoginInv, OpenedLinksAreSettled
<1>5. GivenOnce'
  BY <1>1 DEF LoginInv, GivenOnce, Answering, GoesOn, Leaves
<1>6. QED
  BY <1>2, <1>3, <1>4, <1>5 DEF LoginInv

\* A form that ends shows the waiting page.
LEMMA PageKeeps ==
    ASSUME LoginInv, NEW h \in Handlers, handler[h].pc \in FormSteps, Finish(h),
           page' = [page EXCEPT ![handler[h].login] = "waiting"],
           UNCHANGED <<request, link, invite, member, codes, given, broken>>
    PROVE  LoginInv'
<1> USE NobodyAssumption
<1> DEFINE l == handler[h].login
<1>1. l \in Logins /\ SpentBy(h, l)
  BY DEF LoginInv, LoginTypeOK, HandlersKnow, FormSteps, SpentBy
<1>2. /\ handler' \in [Handlers -> HandlerRecord] /\ handler'[h] = NoHandler
      /\ \A g \in Handlers : g # h => handler'[g] = handler[g]
  BY FinishTakes DEF LoginInv
<1>3. LoginTypeOK'
  BY <1>2 DEF LoginInv, LoginTypeOK, HandlerRecord
<1>4. HandlersKnow'
  BY <1>2 DEF LoginInv, HandlersKnow, FormSteps, NoHandler
<1>5. \A g \in Handlers, k \in Logins :
         /\ SpentBy(g, k)' => SpentBy(g, k) /\ g # h
         /\ OpenedBy(g, k)' <=> OpenedBy(g, k)
  BY <1>2 DEF SpentBy, OpenedBy, NoHandler, FormSteps, LinkSteps
<1>6. (RequestsAreSpentOnce /\ LinksAreOpenedOnce)'
  BY <1>5 DEF LoginInv, RequestsAreSpentOnce, LinksAreOpenedOnce
<1>7. (LinksFollowForms /\ NothingLeftToAnswer)'
  BY <1>2 DEF LoginInv, LinksFollowForms, NothingLeftToAnswer, NoHandler
<1>8. /\ \A k \in Logins : page'[k] = IF k = l THEN "waiting" ELSE page[k]
      /\ page[l] = "none"
  BY <1>1 DEF LoginInv, LoginTypeOK, PagesFollowForms
<1>9. request[l] = "used" /\ \A g \in Handlers : g # h => ~SpentBy(g, l)
  BY <1>1 DEF LoginInv, RequestsAreSpentOnce
<1>10. PagesFollowForms'
  BY <1>1, <1>2, <1>8, <1>9 DEF LoginInv, PagesFollowForms, SpentBy, NoHandler
<1>11. OpenedLinksAreSettled'
  BY <1>5, <1>8 DEF LoginInv, OpenedLinksAreSettled
<1>12. GivenOnce'
  BY <1>2, <1>5 DEF LoginInv, GivenOnce, Answering, NoHandler
<1>13. QED
  BY <1>3, <1>4, <1>6, <1>7, <1>10, <1>11, <1>12 DEF LoginInv

LEMMA CallbackKeeps ==
    ASSUME LoginInv, NEW h \in Handlers,
           \/ \E u \in HighLevelUsers, t \in Tenants : CallbackExchange(h, u, t)
           \/ CallbackProvision(h)
    PROVE  LoginInv'
<1> USE NobodyAssumption
<1>1. CASE \E u \in HighLevelUsers, t \in Tenants : CallbackExchange(h, u, t)
  <2>1. PICK o \in Owners :
           /\ handler[h].pc = "exchange"
           /\ handler' = [handler EXCEPT ![h].pc = "provision", ![h].owner = o]
           /\ UNCHANGED <<request, link, invite, member, codes, given, page, broken>>
    <3>1. PICK u \in HighLevelUsers, t \in Tenants : CallbackExchange(h, u, t)
      BY <1>1
    <3>2. <<u, t>> \in Owners
      BY DEF Owners, Users
    <3>3. QED
      BY <3>1, <3>2 DEF CallbackExchange, Awaits
  <2> DEFINE q == [handler[h] EXCEPT !.pc = "provision", !.owner = o]
  <2>2. handler[h] \in HandlerRecord
    BY DEF LoginInv, LoginTypeOK, HandlerRecord
  <2>3. /\ q \in HandlerRecord /\ q.pc = "provision" /\ q.owner = o
        /\ q.login = handler[h].login /\ q.way = handler[h].way
    BY <2>2, OwnersAreKnown DEF HandlerRecord, Steps
  <2>4. handler' = [handler EXCEPT ![h] = q]
    BY <2>1
  <2> HIDE DEF q
  <2>5. /\ handler' \in [Handlers -> HandlerRecord] /\ handler'[h] = q
        /\ \A g \in Handlers : g # h => handler'[g] = handler[g]
    BY <2>3, <2>4, HandlerTakes DEF LoginInv
  <2>6. LoginTypeOK'
    BY <2>1, <2>5 DEF LoginInv, LoginTypeOK, HandlerRecord
  <2>7. HandlersKnow'
    BY <2>1, <2>3, <2>5 DEF LoginInv, HandlersKnow, FormSteps
  <2>8. QED
    BY <2>1, <2>3, <2>5, <2>6, <2>7, MoveKeeps DEF GoesOn
<1>2. CASE CallbackProvision(h)
  <2>1. /\ handler[h].pc = "provision"
        /\ Finish(h) \/ Proceed(h, "code")
        /\ UNCHANGED <<request, link, invite, codes, given, page, broken>>
    BY <1>2 DEF CallbackProvision, Awaits
  <2>2. /\ handler' \in [Handlers -> HandlerRecord]
        /\ \A g \in Handlers : g # h => handler'[g] = handler[g]
        /\ \/ handler'[h] = NoHandler
           \/ /\ handler'[h].pc = "code" /\ handler'[h].owner = handler[h].owner
              /\ handler'[h].login = handler[h].login /\ handler'[h].way = handler[h].way
    BY <2>1, FinishTakes, ProceedTakes DEF LoginInv, Steps
  <2>3. LoginTypeOK'
    BY <1>2, <2>1, <2>2 DEF CallbackProvision, LoginInv, LoginTypeOK, HandlerRecord
  <2>4. HandlersKnow'
    BY <2>1, <2>2 DEF LoginInv, HandlersKnow, FormSteps, NoHandler
  <2>5. \A l \in Logins : ~OpenedBy(h, l)
    BY <2>1 DEF OpenedBy, LinkSteps
  <2>6. QED
    BY <2>1, <2>2, <2>3, <2>4, <2>5, MoveKeeps DEF GoesOn, Leaves, NoHandler
<1>3. QED
  BY <1>1, <1>2

LEMMA FormLookupKeeps ==
    ASSUME LoginInv, NEW h \in Handlers, FormLookup(h)
    PROVE  LoginInv'
<1> USE NobodyAssumption
<1> DEFINE l == handler[h].login
           found == MembershipsOf(handler[h].owner[1])
           o == CHOOSE o \in found : TRUE
<1>1. /\ handler[h].pc = "lookup" /\ handler[h].way = "email" /\ l \in Logins
      /\ UNCHANGED <<request, link, invite, member, codes, given, broken>>
  BY DEF FormLookup, Awaits, LoginInv, LoginTypeOK, HandlersKnow, FormSteps
<1>2. CASE Cardinality(found) = 1
  <2>1. o \in Owners
    <3>1. found # {}
      BY <1>2, FS_EmptySet
    <3>2. found \subseteq Owners
      BY DEF MembershipsOf
    <3>3. QED
      BY <3>1, <3>2
  <2>2. /\ handler' = [handler EXCEPT ![h].pc = "token", ![h].owner = o]
        /\ UNCHANGED page
    BY <1>2 DEF FormLookup
  <2> DEFINE q == [handler[h] EXCEPT !.pc = "token", !.owner = o]
  <2> HIDE DEF o
  <2>3. handler[h] \in HandlerRecord
    BY DEF LoginInv, LoginTypeOK, HandlerRecord
  <2>4. /\ q \in HandlerRecord /\ q.pc = "token" /\ q.owner = o
        /\ q.login = l /\ q.way = handler[h].way
    BY <2>1, <2>3, OwnersAreKnown DEF HandlerRecord, Steps
  <2>5. handler' = [handler EXCEPT ![h] = q]
    BY <2>2
  <2> HIDE DEF q
  <2>6. /\ handler' \in [Handlers -> HandlerRecord] /\ handler'[h] = q
        /\ \A g \in Handlers : g # h => handler'[g] = handler[g]
    BY <2>4, <2>5, HandlerTakes DEF LoginInv
  <2>7. LoginTypeOK'
    BY <1>1, <2>2, <2>6 DEF LoginInv, LoginTypeOK, HandlerRecord
  <2>8. HandlersKnow'
    BY <1>1, <2>1, <2>4, <2>6 DEF LoginInv, HandlersKnow, FormSteps
  <2>9. QED
    BY <1>1, <2>2, <2>4, <2>6, <2>7, <2>8, MoveKeeps DEF GoesOn
<1>3. CASE Cardinality(found) # 1
  <2>1. Finish(h) /\ page' = [page EXCEPT ![l] = "waiting"]
    BY <1>3 DEF FormLookup
  <2>2. QED
    BY <1>1, <2>1, PageKeeps DEF FormSteps
<1>4. QED
  BY <1>2, <1>3

\* The form makes the link of its login, and mails it.
LEMMA FormLinkKeeps ==
    ASSUME LoginInv, NEW h \in Handlers,
           FormToken(h) \/ \E sent \in BOOLEAN : FormMail(h, sent)
    PROVE  LoginInv'
<1> USE NobodyAssumption
<1> DEFINE l == handler[h].login
<1>1. PICK pc \in {"mail", "respond"} :
         /\ handler[h].pc = (IF pc = "mail" THEN "token" ELSE "mail")
         /\ Proceed(h, pc)
         /\ UNCHANGED <<request, invite, member, codes, given, page, broken>>
  BY DEF FormToken, FormMail, Awaits
<1>2. l \in Logins /\ handler[h].way = "email" /\ SpentBy(h, l)
  BY <1>1 DEF LoginInv, LoginTypeOK, HandlersKnow, SpentBy, FormSteps
<1>3. /\ handler' \in [Handlers -> HandlerRecord]
      /\ handler'[h].pc = pc /\ handler'[h].login = l /\ handler'[h].way = handler[h].way
      /\ \A g \in Handlers : g # h => handler'[g] = handler[g]
  BY <1>1, ProceedTakes DEF LoginInv, Steps
<1>4. \/ /\ pc = "mail" /\ handler[h].owner \in Owners
         /\ link' = [link EXCEPT ![l] =
                        [state |-> "stored", owner |-> handler[h].owner, completed |-> FALSE]]
      \/ /\ pc = "respond"
         /\ \/ link[l].state = "stored" /\ link' = [link EXCEPT ![l].state = "mailed"]
            \/ link' = link
  <2>1. CASE FormToken(h)
    BY <1>1, <2>1 DEF FormToken, Awaits, LoginInv, HandlersKnow
  <2>2. CASE \E sent \in BOOLEAN : FormMail(h, sent)
    <3>1. PICK sent \in BOOLEAN : FormMail(h, sent)
      BY <2>2
    <3>2. CASE sent /\ link[l].state = "stored"
      BY <1>1, <3>1, <3>2 DEF FormMail, Awaits
    <3>3. CASE ~(sent /\ link[l].state = "stored")
      <4>1. link' = [link EXCEPT ![l].state = link[l].state] /\ pc = "respond"
        BY <1>1, <3>1, <3>3 DEF FormMail, Awaits
      <4>2. link \in [Logins -> LinkRecord]
        BY TypesSplit DEF LoginInv, RowTypes
      <4>3. [link[l] EXCEPT !.state = link[l].state] = link[l]
        BY <1>2, <4>2 DEF LinkRecord
      <4>4. QED
        BY <4>1, <4>2, <4>3
    <3>4. QED
      BY <3>2, <3>3
  <2>3. QED
    BY <2>1, <2>2
<1>14. LoginTypeOK'
  <2> DEFINE LinkType == link' \in [Logins -> LinkRecord]
  <2>1. link \in [Logins -> LinkRecord]
    BY DEF LoginInv, LoginTypeOK, LinkRecord
  <2>2. ASSUME pc = "mail" PROVE LinkType
    <3>1. [state |-> "stored", owner |-> handler[h].owner, completed |-> FALSE] \in LinkRecord
      BY <1>4, <2>2 DEF LinkRecord
    <3>2. QED
      BY <1>4, <2>1, <2>2, <3>1
  <2>3. ASSUME pc = "respond" PROVE LinkType
    BY <1>4, <2>1, <2>3 DEF LinkRecord
  <2>4. LinkType
    BY <2>2, <2>3
  <2>5. QED
    BY <1>1, <1>3, <2>4 DEF LoginInv, LoginTypeOK, HandlerRecord, LinkRecord
<1>5. /\ \A k \in Logins : k # l => link'[k] = link[k]
      /\ link'[l].state \in {"stored", "mailed"} \/ (pc = "respond" /\ link'[l] = link[l])
      /\ link'[l].owner = IF pc = "mail" THEN handler[h].owner ELSE link[l].owner
      /\ pc = "respond" /\ link'[l] # link[l] => link[l].state = "stored"
  BY <1>2, <1>4, TypesSplit DEF LoginInv, RowTypes, LinkRecord
<1>6. HandlersKnow'
  BY <1>1, <1>3 DEF LoginInv, HandlersKnow, FormSteps
<1>7. \A g \in Handlers, k \in Logins :
         /\ SpentBy(g, k)' <=> SpentBy(g, k)
         /\ OpenedBy(g, k)' <=> OpenedBy(g, k)
  BY <1>1, <1>3 DEF SpentBy, OpenedBy, FormSteps, LinkSteps
<1>8. /\ (request[l] = "used" /\ codes[l] = <<>>) \/ link'[l] = link[l]
      /\ \A g \in Handlers : g # h => ~SpentBy(g, l)
      /\ \A g \in Handlers : OpenedBy(g, l) => link'[l] = link[l]
  <2>1. request[l] = "used" /\ \A g \in Handlers : g # h => ~SpentBy(g, l)
    BY <1>2 DEF LoginInv, RequestsAreSpentOnce
  <2>2. CASE pc = "mail"
    <3>1. codes[l] = <<>> /\ link[l].state = "none"
      BY <1>1, <1>2, <2>2 DEF LoginInv, NothingLeftToAnswer, LinksFollowForms
    <3>2. QED
      BY <1>2, <2>1, <3>1 DEF LoginInv, LinksAreOpenedOnce
  <2>3. CASE pc = "respond"
    BY <1>2, <1>5, <2>1, <2>3 DEF LoginInv, NothingLeftToAnswer, LinksAreOpenedOnce
  <2>4. QED
    BY <2>2, <2>3
<1>9. RequestsAreSpentOnce' /\ LinksAreOpenedOnce'
  BY <1>1, <1>5, <1>7, <1>8 DEF LoginInv, RequestsAreSpentOnce, LinksAreOpenedOnce
<1>10. LinksFollowForms'
  <2>1. pc = "mail" => handler[h].owner \in Owners
    BY <1>1 DEF LoginInv, HandlersKnow
  <2>2. pc = "respond" /\ link'[l].state # "none" => link[l].state # "none"
    BY <1>5
  <2>3. QED
    BY <1>1, <1>2, <1>3, <1>5, <1>8, <2>1, <2>2 DEF LoginInv, LinksFollowForms, SpentBy, FormSteps
<1>11. NothingLeftToAnswer' /\ PagesFollowForms'
  BY <1>1, <1>2, <1>3, <1>5, <1>8 DEF LoginInv, NothingLeftToAnswer, PagesFollowForms, FormSteps
<1>12. OpenedLinksAreSettled'
  BY <1>1, <1>5, <1>7 DEF LoginInv, OpenedLinksAreSettled
<1>13. GivenOnce'
  <2>1. link'[l].completed => link'[l] = link[l]
    <3>1. link[l].completed => link[l].state = "used"
      BY <1>2 DEF LoginInv, GivenOnce
    <3>2. QED
      BY <1>2, <1>4, <3>1, TypesSplit DEF LoginInv, RowTypes, LinkRecord
  <2>2. \A k \in Logins : link'[k].completed => link'[k] = link[k]
    BY <1>5, <2>1
  <2>3. \A g \in Handlers, k \in Logins : Answering(g, k)' => Answering(g, k)
    BY <1>3 DEF Answering
  <2>4. QED
    BY <1>1, <1>7, <2>2, <2>3 DEF LoginInv, GivenOnce
<1>15. QED
  BY <1>14, <1>6, <1>9, <1>10, <1>11, <1>12, <1>13 DEF LoginInv

LEMMA VerifyConsumeKeeps ==
    ASSUME LoginInv, NEW h \in Handlers, NEW l \in Logins, VerifyConsume(h, l)
    PROVE  LoginInv'
<1> USE NobodyAssumption
<1> DEFINE q == [pc |-> "principal", login |-> l, way |-> "email", owner |-> link[l].owner]
<1>1. /\ handler[h].pc = "idle" /\ link[l].state = "mailed"
      /\ link' = [link EXCEPT ![l].state = "used"]
      /\ handler' = [handler EXCEPT ![h] = q]
      /\ UNCHANGED <<request, invite, member, codes, given, page, broken>>
  BY DEF VerifyConsume, ConsumeLink, Awaits
<1>2. request[l] = "used" /\ link[l].owner \in Owners /\ codes[l] = <<>>
  BY <1>1 DEF LoginInv, LinksFollowForms, NothingLeftToAnswer
<1>3. q \in HandlerRecord
  BY <1>2, OwnersAreKnown DEF HandlerRecord, Steps
<1>4. /\ handler' \in [Handlers -> HandlerRecord]
      /\ handler'[h].pc = "principal" /\ handler'[h].login = l /\ handler'[h].way = "email"
      /\ handler'[h].owner \in Owners
      /\ \A g \in Handlers : g # h => handler'[g] = handler[g]
  BY <1>1, <1>2, <1>3, HandlerTakes DEF LoginInv
<1>5. /\ \A k \in Logins : k # l => link'[k] = link[k]
      /\ link'[l].state = "used" /\ link'[l].owner = link[l].owner
  BY <1>1 DEF LoginInv, LoginTypeOK
<1>6. LoginTypeOK'
  <2>1. link' \in [Logins -> LinkRecord]
    BY <1>1, TypesSplit DEF LoginInv, RowTypes, LinkRecord
  <2>2. QED
    BY <1>1, <1>4, <2>1 DEF LoginInv, LoginTypeOK, HandlerRecord, LinkRecord
<1>7. HandlersKnow'
  BY <1>4 DEF LoginInv, HandlersKnow, FormSteps
<1>8. /\ \A g \in Handlers, k \in Logins :
             /\ SpentBy(g, k)' => SpentBy(g, k)
             /\ OpenedBy(g, k)' => OpenedBy(g, k) \/ (g = h /\ k = l)
             /\ OpenedBy(g, k) => OpenedBy(g, k)'
      /\ OpenedBy(h, l)'
      /\ \A g \in Handlers : ~OpenedBy(g, l)
  BY <1>1, <1>4 DEF LoginInv, HandlersKnow, LinksAreOpenedOnce, SpentBy, OpenedBy, FormSteps, LinkSteps
<1>9. RequestsAreSpentOnce' /\ LinksAreOpenedOnce'
  BY <1>1, <1>5, <1>8 DEF LoginInv, RequestsAreSpentOnce, LinksAreOpenedOnce
<1>10. LinksFollowForms' /\ NothingLeftToAnswer' /\ PagesFollowForms'
  BY <1>1, <1>2, <1>4, <1>5 DEF LoginInv, LinksFollowForms, NothingLeftToAnswer, PagesFollowForms, FormSteps
<1>11. OpenedLinksAreSettled'
  BY <1>1, <1>5, <1>8 DEF LoginInv, OpenedLinksAreSettled
<1>12. GivenOnce'
  <2>1. ~link'[l].completed
    BY <1>1, <1>2 DEF LoginInv, LoginTypeOK, GivenOnce
  <2>2. \A g \in Handlers, k \in Logins : Answering(g, k)' => Answering(g, k)
    BY <1>4 DEF Answering
  <2>3. QED
    BY <1>1, <1>5, <1>8, <2>1, <2>2 DEF LoginInv, GivenOnce
<1>13. QED
  BY <1>6, <1>7, <1>9, <1>10, <1>11, <1>12 DEF LoginInv

\* A code is issued for the owner the handler has found.
LEMMA IssueKeeps ==
    ASSUME LoginInv, NEW h \in Handlers, IssueCode(h)
    PROVE  LoginInv' /\ codes[handler[h].login] = <<>> /\ request[handler[h].login] = "used"
<1> USE NobodyAssumption
<1> DEFINE l == handler[h].login
<1>1. /\ handler[h].pc = "code" /\ l \in Logins /\ handler[h].owner \in Owners
      /\ codes' = [codes EXCEPT ![l] = Append(codes[l], handler[h].owner)]
      /\ UNCHANGED <<request, link, invite, member, given, page, broken>>
  BY DEF IssueCode, Awaits, LoginInv, LoginTypeOK, HandlersKnow
<1>2. \/ handler[h].way = "email" /\ Proceed(h, "complete")
      \/ handler[h].way = "highlevel" /\ Proceed(h, "redirect")
  BY <1>1 DEF IssueCode, LoginInv, HandlersKnow
<1>3. /\ handler' \in [Handlers -> HandlerRecord]
      /\ \A g \in Handlers : g # h => handler'[g] = handler[g]
      /\ \/ /\ handler[h].way = "email" /\ handler'[h].way = "email"
            /\ handler'[h].pc = "complete" /\ handler'[h].login = l
         \/ /\ handler[h].way = "highlevel" /\ handler'[h].way = "highlevel"
            /\ handler'[h].pc = "redirect" /\ handler'[h].login = l
  BY <1>2, ProceedTakes DEF LoginInv, Steps
<1>4. /\ request[l] = "used" /\ codes[l] = <<>>
      /\ link[l].state \notin {"stored", "mailed"}
      /\ \A g \in Handlers :
            handler[g].login = l /\ g # h =>
                handler[g].pc \in {"mail", "respond", "complete", "redirect"}
  <2>1. codes[l] = <<>>
    BY <1>1 DEF LoginInv, NothingLeftToAnswer
  <2>2. CASE handler[h].way = "email"
    <3>1. OpenedBy(h, l)
      BY <1>1, <2>2 DEF OpenedBy, LinkSteps
    <3>2. link[l].state = "used" /\ \A g \in Handlers : OpenedBy(g, l) => g = h
      BY <1>1, <3>1 DEF LoginInv, LinksAreOpenedOnce
    <3>3. QED
      <4>1. request[l] = "used" /\ \A g \in Handlers : OpenedBy(g, l) => g = h
        BY <1>1, <3>2 DEF LoginInv, LinksFollowForms
      <4>2. ASSUME NEW g \in Handlers, handler[g].login = l, g # h
            PROVE  handler[g].pc \in {"mail", "respond", "complete", "redirect"}
        <5>1. handler[g].way # "highlevel" /\ handler[g].pc \notin {"lookup", "token"}
          BY <1>1, <3>2, <4>2 DEF LoginInv, LinksFollowForms
        <5>2. handler[g].pc \in Steps /\ handler[g].way \in {"none", "highlevel", "email"}
          BY TypesSplit DEF LoginInv, RowTypes, HandlerRecord
        <5>3. ~OpenedBy(g, l)
          BY <4>1, <4>2
        <5>4. QED
          BY <1>1, <4>2, <5>1, <5>2, <5>3
             DEF LoginInv, HandlersKnow, OpenedBy, LinkSteps, FormSteps, Steps
      <4>3. QED
        BY <2>1, <3>2, <4>1, <4>2
  <2>3. CASE handler[h].way = "highlevel"
    <3>1. SpentBy(h, l)
      BY <2>3 DEF SpentBy
    <3>2. request[l] = "used" /\ \A g \in Handlers : SpentBy(g, l) => g = h
      BY <1>1, <3>1 DEF LoginInv, RequestsAreSpentOnce
    <3>3. link[l].state = "none"
      BY <1>1, <2>3 DEF LoginInv, LinksFollowForms
    <3>4. \A g \in Handlers : ~OpenedBy(g, l)
      BY <1>1, <3>3 DEF LoginInv, LinksAreOpenedOnce
    <3>5. QED
      BY <1>1, <2>1, <3>2, <3>3, <3>4 DEF LoginInv, LoginTypeOK, HandlersKnow, OpenedBy, SpentBy, LinkSteps, FormSteps, Steps
  <2>4. QED
    BY <1>2, <2>2, <2>3
<1>5. LoginTypeOK'
  <2>1. codes' \in [Logins -> Seq(Owners)] /\ codes'[l] = <<handler[h].owner>>
    BY <1>1, <1>4 DEF LoginInv, LoginTypeOK
  <2>2. QED
    BY <1>1, <1>3, <2>1 DEF LoginInv, LoginTypeOK, HandlerRecord
<1>6. HandlersKnow'
  BY <1>1, <1>3 DEF LoginInv, HandlersKnow, FormSteps
<1>7. /\ \A g \in Handlers, k \in Logins :
             /\ SpentBy(g, k)' => SpentBy(g, k)
             /\ OpenedBy(g, k)' <=> OpenedBy(g, k)
  BY <1>1, <1>3 DEF LoginInv, HandlersKnow, SpentBy, OpenedBy, FormSteps, LinkSteps
<1>8. RequestsAreSpentOnce' /\ LinksAreOpenedOnce' /\ OpenedLinksAreSettled'
  BY <1>1, <1>7 DEF LoginInv, RequestsAreSpentOnce, LinksAreOpenedOnce, OpenedLinksAreSettled
<1>9. /\ \A k \in Logins : k # l => codes'[k] = codes[k]
      /\ codes'[l] # <<>>
  BY <1>1, <1>4 DEF LoginInv, LoginTypeOK
<1>10. LinksFollowForms' /\ NothingLeftToAnswer' /\ PagesFollowForms'
  BY <1>1, <1>3, <1>4, <1>9 DEF LoginInv, LinksFollowForms, NothingLeftToAnswer, PagesFollowForms, FormSteps
<1>11. GivenOnce'
  <2>1. given[l] = 0 /\ ~link[l].completed
    BY <1>1, <1>4 DEF LoginInv, GivenOnce
  <2>2. \A g \in Handlers, k \in Logins : Answering(g, k)' => Answering(g, k) \/ k = l
    BY <1>3 DEF Answering
  <2>3. QED
    BY <1>1, <1>7, <1>9, <2>1, <2>2 DEF LoginInv, GivenOnce
<1>12. QED
  BY <1>4, <1>5, <1>6, <1>8, <1>10, <1>11 DEF LoginInv

\* The callback's own window goes back with the code: nobody else has it.
LEMMA RedirectKeeps ==
    ASSUME LoginInv, NEW h \in Handlers, Redirect(h)
    PROVE  LoginInv' /\ codes[handler[h].login] # <<>> /\ given[handler[h].login] = 0
<1> USE NobodyAssumption
<1> DEFINE l == handler[h].login
<1>1. /\ handler[h].pc = "redirect" /\ l \in Logins /\ handler[h].way = "highlevel"
      /\ given' = [given EXCEPT ![l] = given[l] + 1]
      /\ UNCHANGED <<request, link, invite, member, codes, page, broken>>
  BY DEF Redirect, HandOut, Awaits, LoginInv, LoginTypeOK, HandlersKnow
<1>2. /\ handler' \in [Handlers -> HandlerRecord] /\ handler'[h] = NoHandler
      /\ \A g \in Handlers : g # h => handler'[g] = handler[g]
  BY FinishTakes DEF Redirect, LoginInv
<1>3. SpentBy(h, l) /\ Answering(h, l)
  BY <1>1 DEF SpentBy, Answering
<1>4. codes[l] # <<>> /\ given[l] = 0
  BY <1>1, <1>3 DEF LoginInv, GivenOnce
<1>5. link[l].state = "none" /\ ~link[l].completed
  BY <1>1 DEF LoginInv, LoginTypeOK, LinksFollowForms, GivenOnce
<1>6. \A g \in Handlers, k \in Logins : k = l => ~Answering(g, k)'
  <2>1. \A g \in Handlers : SpentBy(g, l) => g = h
    BY <1>1, <1>3 DEF LoginInv, RequestsAreSpentOnce
  <2>2. \A g \in Handlers : ~OpenedBy(g, l)
    BY <1>1, <1>5 DEF LoginInv, LinksAreOpenedOnce
  <2>3. QED
    BY <1>1, <1>2, <2>1, <2>2 DEF LoginInv, HandlersKnow, Answering, SpentBy, OpenedBy,
       FormSteps, LinkSteps, NoHandler
<1>7. /\ \A k \in Logins : given'[k] = IF k = l THEN 1 ELSE given[k]
      /\ given' \in [Logins -> Nat]
  BY <1>1, <1>4 DEF LoginInv, LoginTypeOK
<1>8. LoginTypeOK'
  BY <1>1, <1>2, <1>7 DEF LoginInv, LoginTypeOK, HandlerRecord
<1>9. HandlersKnow'
  BY <1>2 DEF LoginInv, HandlersKnow, FormSteps, NoHandler
<1>10. \A g \in Handlers, k \in Logins :
          /\ SpentBy(g, k)' => SpentBy(g, k)
          /\ OpenedBy(g, k)' <=> OpenedBy(g, k)
          /\ Answering(g, k)' => Answering(g, k)
  BY <1>1, <1>2 DEF SpentBy, OpenedBy, Answering, FormSteps, LinkSteps, NoHandler
<1>11. RequestsAreSpentOnce' /\ LinksAreOpenedOnce' /\ OpenedLinksAreSettled'
  BY <1>1, <1>10 DEF LoginInv, RequestsAreSpentOnce, LinksAreOpenedOnce, OpenedLinksAreSettled
<1>12. LinksFollowForms' /\ NothingLeftToAnswer' /\ PagesFollowForms'
  BY <1>1, <1>2 DEF LoginInv, LinksFollowForms, NothingLeftToAnswer, PagesFollowForms, NoHandler
<1>13. GivenOnce'
  BY <1>1, <1>4, <1>5, <1>6, <1>7, <1>10 DEF LoginInv, GivenOnce
<1>14. QED
  BY <1>4, <1>8, <1>9, <1>11, <1>12, <1>13 DEF LoginInv

LEMMA VerifyPrincipalKeeps ==
    ASSUME LoginInv, NEW h \in Handlers, VerifyPrincipal(h)
    PROVE  LoginInv'
<1> USE NobodyAssumption
<1> DEFINE l == handler[h].login
<1>1. /\ handler[h].pc = "principal" /\ l \in Logins
      /\ \/ Proceed(h, "code") /\ broken' = broken
         \/ Finish(h) /\ broken' = broken \cup {l}
      /\ UNCHANGED <<request, link, invite, member, codes, given, page>>
  BY DEF VerifyPrincipal, Awaits, LoginInv, LoginTypeOK, HandlersKnow
<1>2. /\ handler' \in [Handlers -> HandlerRecord]
      /\ \A g \in Handlers : g # h => handler'[g] = handler[g]
      /\ \/ handler'[h] = NoHandler /\ l \in broken'
         \/ /\ handler'[h].pc = "code" /\ handler'[h].owner = handler[h].owner
            /\ handler'[h].login = l /\ handler'[h].way = handler[h].way
      /\ broken \subseteq broken' /\ broken' \subseteq Logins
  BY <1>1, FinishTakes, ProceedTakes DEF LoginInv, LoginTypeOK, Steps
<1>3. LoginTypeOK'
  BY <1>1, <1>2 DEF LoginInv, LoginTypeOK, HandlerRecord
<1>4. HandlersKnow'
  BY <1>1, <1>2 DEF LoginInv, HandlersKnow, FormSteps, NoHandler
<1>5. QED
  BY <1>1, <1>2, <1>3, <1>4, MoveKeeps DEF GoesOn, Leaves, OpenedBy, NoHandler

LEMMA HandlerFailsKeeps ==
    ASSUME LoginInv, NEW h \in Handlers, HandlerFails(h)
    PROVE  LoginInv'
<1> USE NobodyAssumption
<1>1. /\ broken' = broken \cup ({handler[h].login} \cap Logins)
      /\ UNCHANGED <<request, link, invite, member, codes, given, page>>
  BY DEF HandlerFails
<1>2. /\ handler' \in [Handlers -> HandlerRecord] /\ handler'[h] = NoHandler
      /\ \A g \in Handlers : g # h => handler'[g] = handler[g]
  BY FinishTakes DEF HandlerFails, LoginInv
<1>3. LoginTypeOK'
  BY <1>1, <1>2 DEF LoginInv, LoginTypeOK, HandlerRecord
<1>4. HandlersKnow'
  BY <1>2 DEF LoginInv, HandlersKnow, FormSteps, NoHandler
<1>5. QED
  BY <1>1, <1>2, <1>3, <1>4, MoveKeeps DEF Leaves, OpenedBy, NoHandler

\* The redirect of the code is left with the link, for the page to collect.
LEMMA StoreCompletionKeeps ==
    ASSUME LoginInv, NEW h \in Handlers, StoreCompletion(h)
    PROVE  LoginInv'
<1> USE NobodyAssumption
<1> DEFINE l == handler[h].login
<1>1. /\ handler[h].pc = "complete" /\ l \in Logins /\ handler[h].way = "email"
      /\ link' = [link EXCEPT ![l].completed = TRUE]
      /\ UNCHANGED <<request, invite, member, codes, given, page, broken>>
  BY DEF StoreCompletion, Awaits, LoginInv, LoginTypeOK, HandlersKnow
<1>2. /\ handler' \in [Handlers -> HandlerRecord] /\ handler'[h] = NoHandler
      /\ \A g \in Handlers : g # h => handler'[g] = handler[g]
  BY FinishTakes DEF StoreCompletion, LoginInv
<1>3. /\ link' \in [Logins -> LinkRecord] /\ link'[l].completed
      /\ \A k \in Logins :
            /\ link'[k].state = link[k].state /\ link'[k].owner = link[k].owner
            /\ k # l => link'[k] = link[k]
  <2>1. link \in [Logins -> LinkRecord]
    BY DEF LoginInv, LoginTypeOK, LinkRecord
  <2>2. link' \in [Logins -> LinkRecord]
    BY <1>1, <2>1 DEF LinkRecord
  <2>3. link'[l] = [link[l] EXCEPT !.completed = TRUE]
    BY <1>1, <2>1
  <2>4. \A k \in Logins : k # l => link'[k] = link[k]
    BY <1>1, <2>1
  <2>5. /\ link'[l].completed /\ link'[l].state = link[l].state /\ link'[l].owner = link[l].owner
    BY <1>1, <2>1, <2>3 DEF LinkRecord
  <2>6. QED
    BY <2>2, <2>4, <2>5
<1>4. LoginTypeOK'
  BY <1>1, <1>2, <1>3 DEF LoginInv, LoginTypeOK, HandlerRecord, LinkRecord
<1>5. HandlersKnow'
  BY <1>2 DEF LoginInv, HandlersKnow, FormSteps, NoHandler
<1>6. \A g \in Handlers, k \in Logins :
         /\ SpentBy(g, k)' => SpentBy(g, k)
         /\ OpenedBy(g, k)' => OpenedBy(g, k)
         /\ OpenedBy(g, k) => OpenedBy(g, k)' \/ k = l
  BY <1>2 DEF SpentBy, OpenedBy, FormSteps, LinkSteps, NoHandler
<1>7. RequestsAreSpentOnce' /\ LinksAreOpenedOnce'
  BY <1>1, <1>3, <1>6 DEF LoginInv, RequestsAreSpentOnce, LinksAreOpenedOnce
<1>8. LinksFollowForms' /\ NothingLeftToAnswer' /\ PagesFollowForms'
  BY <1>1, <1>2, <1>3 DEF LoginInv, LinksFollowForms, NothingLeftToAnswer, PagesFollowForms, NoHandler
<1>9. OpenedLinksAreSettled'
  BY <1>1, <1>3, <1>6 DEF LoginInv, OpenedLinksAreSettled
<1>10. GivenOnce'
  <2>1. OpenedBy(h, l) /\ Answering(h, l)
    BY <1>1 DEF OpenedBy, Answering, LinkSteps
  <2>2. /\ given[l] = 0 /\ codes[l] # <<>> /\ link[l].state = "used"
        /\ \A g \in Handlers : OpenedBy(g, l) => g = h
    BY <1>1, <2>1 DEF LoginInv, GivenOnce, LinksAreOpenedOnce
  <2>3. \A g \in Handlers, k \in Logins : Answering(g, k)' => Answering(g, k)
    BY <1>2 DEF Answering, NoHandler
  <2>4. \A g \in Handlers, k \in Logins : k = l => ~OpenedBy(g, k)'
    BY <1>1, <1>2, <1>6, <2>2 DEF OpenedBy, NoHandler
  <2>5. QED
    BY <1>1, <1>3, <1>6, <2>2, <2>3, <2>4 DEF LoginInv, GivenOnce
<1>11. QED
  BY <1>4, <1>5, <1>7, <1>8, <1>9, <1>10 DEF LoginInv

LEMMA HandlerKeeps ==
    ASSUME LoginInv, NEW h \in Handlers, HandlerStep(h) \/ HandlerFails(h)
    PROVE  LoginInv'
<1>1. CASE FormRespond(h)
  BY <1>1, PageKeeps DEF FormRespond, Awaits, FormSteps
<1>2. QED
  BY <1>1, CallbackKeeps, FormLookupKeeps, FormLinkKeeps, VerifyPrincipalKeeps, IssueKeeps, RedirectKeeps,
     StoreCompletionKeeps, HandlerFailsKeeps DEF HandlerStep

\* Invites: the handler that makes one works for no login.
LEMMA InviteKeeps ==
    ASSUME LoginInv,
           \/ \E i \in Invites : \/ AcceptInvite(i) \/ ExpireInvite(i)
                                 \/ \E h \in Handlers : CreateInvite(h, i)
           \/ \E h \in Handlers, a \in Addresses, t \in Tenants, held \in BOOLEAN :
                 EnforceUserLimit(h, a, t, held)
           \/ \E o \in Owners : EndMembership(o)
    PROVE  LoginInv'
<1> USE NobodyAssumption
<1>1. CASE \E h \in Handlers, i \in Invites : CreateInvite(h, i)
  <2>1. PICK h \in Handlers, i \in Invites : CreateInvite(h, i)
    BY <1>1
  <2>2. /\ handler[h].pc = "invite" /\ handler[h].login = Nobody
        /\ handler[h].owner \in Addresses \X Tenants
        /\ UNCHANGED <<request, link, member, codes, given, page, broken>>
    BY <2>1 DEF CreateInvite, Awaits, LoginInv, HandlersKnow
  <2>3. /\ handler' \in [Handlers -> HandlerRecord] /\ handler'[h] = NoHandler
        /\ \A g \in Handlers : g # h => handler'[g] = handler[g]
    BY <2>1, FinishTakes DEF CreateInvite, LoginInv
  <2>4. LoginTypeOK'
    BY <2>1, <2>2, <2>3 DEF CreateInvite, LoginInv, LoginTypeOK, HandlerRecord
  <2>5. HandlersKnow'
    BY <2>3 DEF LoginInv, HandlersKnow, FormSteps, NoHandler
  <2>6. QED
    BY <2>2, <2>3, <2>4, <2>5, MoveKeeps DEF Leaves, OpenedBy, NoHandler
<1>2. CASE \E h \in Handlers, a \in Addresses, t \in Tenants, held \in BOOLEAN :
              EnforceUserLimit(h, a, t, held)
  <2>1. PICK h \in Handlers, a \in Addresses, t \in Tenants, held \in BOOLEAN :
           EnforceUserLimit(h, a, t, held)
    BY <1>2
  <2> DEFINE q == [pc |-> "invite", login |-> Nobody, way |-> "none", owner |-> <<a, t>>]
  <2>2. q \in HandlerRecord
    BY DEF HandlerRecord, Steps, Users
  <2>3. /\ handler[h].pc = "idle" /\ handler[h].login = Nobody
        /\ handler' = [handler EXCEPT ![h] = q]
        /\ UNCHANGED <<request, link, invite, member, codes, given, page, broken>>
    BY <2>1 DEF EnforceUserLimit, Awaits, LoginInv, HandlersKnow
  <2>4. /\ handler' \in [Handlers -> HandlerRecord]
        /\ handler'[h].pc = "invite" /\ handler'[h].login = Nobody /\ handler'[h].way = "none"
        /\ handler'[h].owner \in Addresses \X Tenants
        /\ \A g \in Handlers : g # h => handler'[g] = handler[g]
    BY <2>2, <2>3, HandlerTakes DEF LoginInv
  <2>5. LoginTypeOK'
    BY <2>3, <2>4 DEF LoginInv, LoginTypeOK, HandlerRecord
  <2>6. HandlersKnow'
    BY <2>4 DEF LoginInv, HandlersKnow, FormSteps
  <2>7. QED
    BY <2>3, <2>4, <2>5, <2>6, MoveKeeps DEF Leaves, OpenedBy
<1>3. CASE \/ \E i \in Invites : AcceptInvite(i) \/ ExpireInvite(i)
           \/ \E o \in Owners : EndMembership(o)
  <2>1. UNCHANGED <<request, link, handler, codes, given, page, broken>>
    BY <1>3 DEF AcceptInvite, ExpireInvite, EndMembership
  <2>2. LoginTypeOK'
    <3>1. CASE \E i \in Invites : AcceptInvite(i)
      <4>1. PICK i \in Invites : AcceptInvite(i)
        BY <3>1
      <4> DEFINE o == <<invite[i].address, invite[i].tenant>>
      <4>2. /\ invite' = [invite EXCEPT ![i].state = "accepted"]
            /\ member' = [member EXCEPT ![o] = IF member[o] = "none" THEN "active" ELSE member[o]]
        BY <4>1 DEF AcceptInvite
      <4> HIDE DEF o
      <4>3. member' \in [Owners -> {"none", "active", "disabled"}]
        BY <4>2 DEF LoginInv, LoginTypeOK
      <4>4. RowTypes'
        BY <2>1, <4>2, <4>3, TypesSplit DEF LoginInv, RowTypes
      <4>5. QED
        BY <2>1, <4>4, TypesSplit DEF LoginInv
    <3>2. CASE \E i \in Invites : ExpireInvite(i)
      <4>1. RowTypes'
        BY <2>1, <3>2, TypesSplit DEF ExpireInvite, LoginInv, RowTypes
      <4>2. QED
        BY <2>1, <4>1, TypesSplit DEF LoginInv
    <3>3. CASE \E o \in Owners : EndMembership(o)
      BY <2>1, <3>3 DEF EndMembership, LoginInv, LoginTypeOK
    <3>4. QED
      BY <1>3, <3>1, <3>2, <3>3
  <2>3. QED
    BY <2>1, <2>2 DEF LoginInv, HandlersKnow, RequestsAreSpentOnce, LinksAreOpenedOnce,
       LinksFollowForms, NothingLeftToAnswer, GivenOnce, PagesFollowForms, OpenedLinksAreSettled,
       SpentBy, OpenedBy, Answering
<1>4. QED
  BY <1>1, <1>2, <1>3

\* Requests, links and pages that no handler works with at the moment.
LEMMA OutsideKeeps ==
    ASSUME LoginInv, NEW l \in Logins,
           \/ Authorize(l) \/ PageStops(l) \/ ExpireRequest(l) \/ ExpireLink(l)
           \/ \E delivered \in BOOLEAN : Poll(l, delivered)
    PROVE  LoginInv'
<1> USE NobodyAssumption
<1>1. handler' = handler /\ codes' = codes
  BY DEF Authorize, PageStops, ExpireRequest, ExpireLink, Poll
<1>5. GivenOnce /\ LoginTypeOK
  BY DEF LoginInv
<1>2. \A g \in Handlers, k \in Logins :
         (SpentBy(g, k)' <=> SpentBy(g, k)) /\ (OpenedBy(g, k)' <=> OpenedBy(g, k))
  BY <1>1 DEF SpentBy, OpenedBy
<1> DEFINE Changes ==
             /\ \A k \in Logins : request[k] = "used" => request'[k] = "used"
             /\ \A k \in Logins :
                   /\ link'[k].owner = link[k].owner
                   /\ link'[k].state = link[k].state
                      \/ (link[k].state \in {"stored", "mailed"} /\ link'[k].state = "expired")
                   /\ link[k].completed => \/ link'[k].completed
                                           \/ k \in broken' \/ page'[k] = "returned"
             /\ \A k \in Logins : page'[k] = page[k] \/ page[k] = "waiting"
             /\ broken \subseteq broken'
           Gives ==
             \A k \in Logins :
                \/ given'[k] = given[k] /\ (link'[k].completed <=> link[k].completed)
                \/ link[k].completed /\ ~link'[k].completed /\ given[k] = 0 /\ given'[k] = 1
<1>3. LoginTypeOK' /\ Changes /\ Gives
  <2>1. CASE Authorize(l) \/ ExpireRequest(l) \/ PageStops(l)
    BY <2>1 DEF LoginInv, LoginTypeOK, Authorize, PageStops, ExpireRequest
  <2>2. CASE ExpireLink(l)
    <3>1. link \in [Logins -> LinkRecord]
      BY DEF LoginInv, LoginTypeOK, LinkRecord
    <3>2. link' \in [Logins -> LinkRecord]
      BY <2>2, <3>1 DEF ExpireLink, LinkRecord
    <3>3. LoginTypeOK'
      BY <2>2, <3>2 DEF ExpireLink, LoginInv, LoginTypeOK, LinkRecord
    <3>4. Changes /\ Gives
      BY <2>2, <3>1 DEF ExpireLink, LinkRecord
    <3>5. QED
      BY <3>3, <3>4
  <2>3. CASE \E delivered \in BOOLEAN : Poll(l, delivered)
    <3>1. link \in [Logins -> LinkRecord]
      BY DEF LoginInv, LoginTypeOK, LinkRecord
    <3>2. /\ page[l] \in {"waiting", "returned"} /\ link[l].completed /\ link' = [link EXCEPT ![l].completed = FALSE]
          /\ \/ page' = [page EXCEPT ![l] = "returned"] /\ UNCHANGED broken
             \/ broken' = broken \cup {l} /\ UNCHANGED page
          /\ given' = [given EXCEPT ![l] = given[l] + 1]
          /\ UNCHANGED <<request, invite, member, handler, codes>>
      BY <2>3 DEF Poll, HandOut
    <3>3. link' \in [Logins -> LinkRecord]
      BY <3>1, <3>2 DEF LinkRecord
    <3>4. LoginTypeOK'
      BY <3>2, <3>3 DEF LoginInv, LoginTypeOK, LinkRecord
    <3>9. Gives
      <4>1. given[l] = 0 /\ given'[l] = 1 /\ ~link'[l].completed
        BY <1>5, <3>1, <3>2 DEF GivenOnce, LoginTypeOK, LinkRecord
      <4>2. \A k \in Logins : k # l => given'[k] = given[k] /\ link'[k] = link[k]
        BY <1>5, <3>1, <3>2 DEF LoginTypeOK
      <4>3. QED
        BY <3>2, <4>1, <4>2
    <3>5. /\ \A k \in Logins : link'[k].owner = link[k].owner /\ link'[k].state = link[k].state
          /\ \A k \in Logins : k # l => link'[k] = link[k]
      BY <3>1, <3>2 DEF LinkRecord
    <3>6. /\ \A k \in Logins : page'[k] = page[k] \/ page[k] = "waiting"
          /\ broken \subseteq broken'
          /\ l \in broken' \/ page'[l] = "returned"
      BY <3>2 DEF LoginInv, LoginTypeOK
    <3>7. Changes
      BY <3>2, <3>5, <3>6
    <3>8. QED
      BY <3>4, <3>7, <3>9
  <2>4. QED
    BY <2>1, <2>2, <2>3
<1>4. HandlersKnow'
  BY <1>1 DEF LoginInv, HandlersKnow
<1>6. RequestsAreSpentOnce' /\ LinksAreOpenedOnce' /\ LinksFollowForms'
  BY <1>1, <1>2, <1>3 DEF LoginInv, RequestsAreSpentOnce, LinksAreOpenedOnce, LinksFollowForms
<1>7. NothingLeftToAnswer' /\ PagesFollowForms'
  BY <1>1, <1>3 DEF LoginInv, NothingLeftToAnswer, PagesFollowForms
<1>8. OpenedLinksAreSettled'
  BY <1>2, <1>3 DEF LoginInv, OpenedLinksAreSettled
<1>9. GivenOnce'
  <2>1. \A g \in Handlers, k \in Logins :
           /\ Answering(g, k)' <=> Answering(g, k)
           /\ link[k].completed => ~Answering(g, k)
    <3>1. \A g \in Handlers, k \in Logins : Answering(g, k)' <=> Answering(g, k)
      BY <1>1 DEF Answering
    <3>2. ASSUME NEW g \in Handlers, NEW k \in Logins, link[k].completed, Answering(g, k)
          PROVE  FALSE
      <4>1. link[k].state = "used" /\ ~OpenedBy(g, k)
        BY <1>5, <3>2 DEF GivenOnce
      <4>2. handler[g].way # "highlevel"
        BY <3>2, <4>1 DEF LoginInv, LinksFollowForms, Answering
      <4>3. QED
        BY <3>2, <4>1, <4>2 DEF LoginInv, HandlersKnow, Answering, OpenedBy, FormSteps, LinkSteps
    <3>3. QED
      BY <3>1, <3>2
  <2>2. \A k \in Logins : link'[k].completed => link[k].completed /\ link'[k].state = link[k].state
    BY <1>3, <1>5 DEF GivenOnce
  <2>3. QED
    BY <1>1, <1>2, <1>3, <1>5, <2>1, <2>2 DEF GivenOnce
<1>10. QED
  BY <1>3, <1>4, <1>6, <1>7, <1>8, <1>9 DEF LoginInv

LEMMA LoginStepInv == LoginInv /\ [LoginNext]_loginVars => LoginInv'
<1> SUFFICES ASSUME LoginInv, [LoginNext]_loginVars PROVE LoginInv'
  OBVIOUS
<1>1. CASE UNCHANGED loginVars
  BY <1>1 DEF loginVars, LoginInv, LoginTypeOK, HandlersKnow, RequestsAreSpentOnce,
     LinksAreOpenedOnce, LinksFollowForms, NothingLeftToAnswer, GivenOnce, PagesFollowForms,
     OpenedLinksAreSettled, SpentBy, OpenedBy, Answering
<1>2. CASE LoginNext
  BY <1>2, ConsumeKeeps, VerifyConsumeKeeps, HandlerKeeps, InviteKeeps, OutsideKeeps
     DEF LoginNext
<1>3. QED
  BY <1>1, <1>2

LEMMA LoginInvariant == LoginSpec => []LoginInv
<1>1. LoginInit => LoginInv
  BY LoginInitInv
<1>2. LoginInv /\ [LoginNext]_loginVars => LoginInv'
  BY LoginStepInv
<1>3. QED
  BY <1>1, <1>2, PTL DEF LoginSpec

\* The rows, the pages and the handlers keep their types: a handler that
\* issues a code or stores a link always speaks for a user and a tenant.
THEOREM LoginTypeCorrect == LoginSpec => []LoginTypeOK
<1>1. LoginInv => LoginTypeOK
  BY DEF LoginInv
<1>2. QED
  BY <1>1, LoginInvariant, PTL

\* The "check your email" page never waits for nothing: as long as nothing
\* failed, an opened link has a handler at work or a redirect to collect.
THEOREM WaitingPagesHaveReason == LoginSpec => []WaitingHasReason
<1>1. LoginInv => WaitingHasReason
  BY DEF LoginInv, OpenedLinksAreSettled, WaitingHasReason, OpenedBy
<1>2. QED
  BY <1>1, LoginInvariant, PTL

\* What a step on a login's request, codes and window is to LoginOnce.
LEMMA StepAnswersOnce ==
    ASSUME LoginInv, [LoginNext]_loginVars
    PROVE  [Once!Next]_<<{l \in Logins : request[l] = "open"}, codes, given>>
<1> DEFINE open == {l \in Logins : request[l] = "open"}
<1>1. ASSUME NEW l \in Logins, request[l] = "open", request'[l] # "open", codes' = codes, given' = given,
             \A k \in Logins : k # l => request'[k] = request[k]
      PROVE  Once!Next
  <2>1. l \in open /\ open' = open \ {l}
    BY <1>1
  <2>2. Once!Spend(l)
    BY <1>1, <2>1 DEF Once!Spend
  <2>3. QED
    BY <2>2 DEF Once!Next
<1>2. ASSUME NEW l \in Logins, Authorize(l)
      PROVE  Once!Next
  <2>1. l \notin open /\ open' = open \cup {l} /\ codes' = codes /\ given' = given
    BY <1>2 DEF Authorize, LoginInv, LoginTypeOK
  <2>2. codes[l] = <<>>
    BY <1>2 DEF Authorize, LoginInv, NothingLeftToAnswer
  <2>3. Once!Ask(l)
    BY <2>1, <2>2 DEF Once!Ask
  <2>4. QED
    BY <2>3 DEF Once!Next
<1>3. ASSUME NEW h \in Handlers, IssueCode(h)
      PROVE  Once!Next
  <2> DEFINE l == handler[h].login
             o == handler[h].owner
  <2>1. codes[l] = <<>> /\ request[l] = "used"
    BY <1>3, IssueKeeps
  <2>2. /\ handler[h].pc = "code" /\ l \in Logins /\ o \in Owners
        /\ codes' = [codes EXCEPT ![l] = Append(codes[l], o)] /\ open' = open /\ given' = given
    BY <1>3, NobodyAssumption DEF IssueCode, Awaits, LoginInv, LoginTypeOK, HandlersKnow
  <2>3. codes' = [codes EXCEPT ![l] = <<o>>]
    <3>1. Append(codes[l], o) = <<o>>
      BY <2>1
    <3>2. QED
      BY <2>2, <3>1
  <2>4. Once!Answer(l, o)
    BY <2>1, <2>2, <2>3 DEF Once!Answer
  <2>5. QED
    BY <2>2, <2>4 DEF Once!Next
<1>7. ASSUME NEW l \in Logins, codes[l] # <<>>, given[l] = 0,
             given' = [given EXCEPT ![l] = given[l] + 1], UNCHANGED <<request, codes>>
      PROVE  Once!Next
  <2>1. given' = [given EXCEPT ![l] = 1] /\ open' = open
    BY <1>7
  <2>2. Once!HandOut(l)
    BY <1>7, <2>1 DEF Once!HandOut
  <2>3. QED
    BY <2>2 DEF Once!Next
<1>4. CASE UNCHANGED <<request, codes, given>>
  BY <1>4
<1>5. CASE LoginNext
  <2>1. CASE \E h \in Handlers, l \in Logins :
               \/ \E declined \in BOOLEAN : CallbackConsume(h, l, declined)
               \/ \E a \in Addresses : FormConsume(h, l, a)
    <3>1. PICK l \in Logins : /\ request[l] = "open" /\ codes' = codes /\ given' = given
                              /\ request' = [request EXCEPT ![l] = "used"]
      BY <2>1 DEF CallbackConsume, FormConsume, ConsumeRequest
    <3>2. QED
      BY <1>1, <3>1 DEF LoginInv, LoginTypeOK
  <2>2. CASE \E l \in Logins : ExpireRequest(l)
    <3>1. PICK l \in Logins : /\ request[l] = "open" /\ codes' = codes /\ given' = given
                              /\ request' = [request EXCEPT ![l] = "expired"]
      BY <2>2 DEF ExpireRequest
    <3>2. QED
      BY <1>1, <3>1 DEF LoginInv, LoginTypeOK
  <2>3. CASE (\E l \in Logins : Authorize(l)) \/ (\E h \in Handlers : IssueCode(h))
    BY <1>2, <1>3, <2>3
  <2>7. CASE \E h \in Handlers : Redirect(h)
    <3>1. PICK h \in Handlers : Redirect(h)
      BY <2>7
    <3>2. /\ handler[h].login \in Logins
          /\ given' = [given EXCEPT ![handler[h].login] = given[handler[h].login] + 1]
          /\ UNCHANGED <<request, codes>>
      BY <3>1, NobodyAssumption DEF Redirect, HandOut, Awaits, LoginInv, LoginTypeOK, HandlersKnow
    <3>3. QED
      BY <1>7, <3>1, <3>2, RedirectKeeps
  <2>8. CASE \E l \in Logins, delivered \in BOOLEAN : Poll(l, delivered)
    <3>1. PICK l \in Logins : /\ link[l].completed
                              /\ given' = [given EXCEPT ![l] = given[l] + 1]
                              /\ UNCHANGED <<request, codes>>
      BY <2>8 DEF Poll, HandOut
    <3>2. codes[l] # <<>> /\ given[l] = 0
      BY <3>1 DEF LoginInv, GivenOnce
    <3>3. QED
      BY <1>7, <3>1, <3>2
  <2>4. CASE \/ \E h \in Handlers : \/ HandlerStep(h) /\ ~IssueCode(h) /\ ~Redirect(h)
                                   \/ HandlerFails(h)
                                   \/ \E l \in Logins : VerifyConsume(h, l)
             \/ \E l \in Logins : PageStops(l) \/ ExpireLink(l)
    BY <1>4, <2>4 DEF HandlerStep, HandlerFails, VerifyConsume, PageStops, ExpireLink,
       CallbackProvision, CallbackExchange, FormLookup, FormToken, FormRespond, FormMail,
       VerifyPrincipal, StoreCompletion
  <2>5. CASE \/ \E i \in Invites : \/ AcceptInvite(i) \/ ExpireInvite(i)
                                   \/ \E h \in Handlers : CreateInvite(h, i)
             \/ \E h \in Handlers, a \in Addresses, t \in Tenants, held \in BOOLEAN :
                   EnforceUserLimit(h, a, t, held)
             \/ \E o \in Owners : EndMembership(o)
    BY <1>4, <2>5 DEF AcceptInvite, ExpireInvite, CreateInvite, EnforceUserLimit, EndMembership
  <2>6. QED
    BY <1>5, <2>1, <2>2, <2>3, <2>4, <2>5, <2>7, <2>8 DEF LoginNext
<1>6. QED
  BY <1>4, <1>5 DEF loginVars

\* Signing in implements LoginOnce: a login request, raced for by callbacks,
\* forms and opened links that fail anywhere, is spent once, at most one code
\* is ever issued for it, and its window is sent back with it at most once.
THEOREM LoginImplementsOnce == LoginSpec => LoginsAreAnsweredOnce
<1>1. LoginInit => Once!Init
  BY DEF LoginInit, Once!Init
<1>2. LoginInv /\ [LoginNext]_loginVars
        => [Once!Next]_<<{l \in Logins : request[l] = "open"}, codes, given>>
  BY StepAnswersOnce
<1>3. QED
  BY <1>1, <1>2, LoginInvariant, PTL DEF LoginSpec, LoginsAreAnsweredOnce, Once!Spec


-----------------------------------------------------------------------------
\* Posts

EarlySteps == {"new", "token", "principal", "user", "enter"}
CreateSteps == {"accounts", "group", "list", "post", "accepted", "verify"}
EditSteps == {"load", "put", "remove"}
CallSteps == EarlySteps \cup CreateSteps \cup EditSteps
             \cup {"context", "access", "plan", "usage", "read", "audit", "done"}

Bearers == {"none", "issued", "auth0", "admin"}
RoleNames == Roles \cup {"none", "uplifting_admin"}

CallRecord ==
    [pc : CallSteps, role : RoleNames,
     tool : {"none", "create", "update", "delete", "read"}, content : Contents \cup {"none"},
     todo : SUBSET Platforms, aim : Nat, group : Platforms \cup {"none"},
     copy : Contents \cup {"none"}, max : Nat \cup {NoLimit}, made : SUBSET Nat,
     after : SUBSET Calls, saw : SUBSET Nat, full : BOOLEAN,
     who : Bearers, plan : Plans \cup {NoPlan},
     tally : {"none", "due", "counted"}, answer : {"none", "ok", "error"}]

PostRecord ==
    [content : Contents \cup {"none"}, platform : Platforms, alive : BOOLEAN, listed : BOOLEAN,
     by : Calls \cup {ByHand}, key : Keys, heard : BOOLEAN, forgotten : BOOLEAN,
     touched : BOOLEAN]

PostTypes ==
    /\ call \in [Calls -> CallRecord]
    /\ posts \in Seq(PostRecord)
    /\ recent \in [Keys -> Nat]
    /\ plan \in Plans /\ limit \in [Plans -> Nat \cup {NoLimit}]
    /\ used \in Nat /\ owed \in [Calls -> Nat]

Over(c) == call[c].pc \in {"audit", "done"}

\* A call makes its posts as author, and none before it is admitted.
AuthorIsKnown(c) ==
    /\ call[c].pc \in EarlySteps => /\ call[c].made = {} /\ ~call[c].full
                                    /\ \A i \in 1..Len(posts) : posts[i].by # c
    /\ \A i \in call[c].made : i \in 1..Len(posts) /\ posts[i].by = c
    /\ ~Over(c) => call[c].tally = "none"
    /\ call[c].pc = "accepted" => call[c].aim \in 1..Len(posts) /\ posts[call[c].aim].by = c
    /\ call[c].pc \in EditSteps => call[c].aim \in 1..Len(posts)

\* What a call that creates works with.
CreatorKnows(c) ==
    /\ call[c].tool = "create" => call[c].content \in Contents
    /\ call[c].tool # "create" => call[c].pc \notin CreateSteps \cup {"plan", "usage"}
    /\ call[c].tool \in {"update", "delete"} => call[c].aim \in 1..Len(posts)
    /\ call[c].pc \in {"list", "post", "accepted"} => call[c].group \in Platforms

\* A token of the built-in server brings the plan of its tenant.
PlanIsCarried(c) ==
    /\ call[c].pc = "user" => call[c].who # "issued"
    /\ call[c].who = "issued" /\ call[c].pc \notin {"new", "token", "principal", "done"}
          => call[c].plan \in Plans

\* A call that is held to a plan, which was used up when it came.
Stopped(c) == call[c].full /\ call[c].who = "issued"

\* It still is: the call does not get to create.
FullCallStops(c) ==
    Stopped(c) =>
        /\ call[c].made = {}
        /\ call[c].pc # "done" =>
              /\ limit[call[c].plan] # NoLimit /\ limit[call[c].plan] <= used
              /\ call[c].pc \notin CreateSteps
              /\ call[c].pc = "usage" => call[c].max # NoLimit /\ call[c].max <= used

\* A call knows which calls had ended and which posts were listed when it came.
CallRecalls(c) ==
    /\ \A d \in call[c].after : call[d].pc = "done"
    /\ \A i \in call[c].saw : i \in 1..Len(posts) /\ posts[i].listed

\* It has found the posts of earlier calls out of sight, one way and the other.
SearchIsDone(c) ==
    \A i \in 1..Len(posts) :
        posts[i].key = <<call[c].content, call[c].group>> =>
            /\ call[c].pc \in {"list", "post"} /\ posts[i].by \in call[c].after =>
                  ~posts[i].heard \/ posts[i].forgotten
            /\ call[c].pc = "post" => i \notin call[c].saw \/ posts[i].touched

CallIsSound(c) ==
    /\ AuthorIsKnown(c)
    /\ CreatorKnows(c)
    /\ PlanIsCarried(c)
    /\ FullCallStops(c)
    /\ CallRecalls(c)
    /\ SearchIsDone(c)

\* The counter has the posts of the calls whose increment was stored this month.
UsageIsEarned ==
    /\ used = Cardinality(Counted)
    /\ \A c \in Calls :
          owed[c] # 0 => call[c].tally = "due" /\ owed[c] = Cardinality(call[c].made)

\* What a post shows as long as nobody changed it, and what is remembered of it.
PostsAreMarked ==
    /\ \A i \in 1..Len(posts) :
          ~posts[i].touched => /\ posts[i].alive
                               /\ <<posts[i].content, posts[i].platform>> = posts[i].key
    /\ \A i \in 1..Len(posts) :
          posts[i].heard /\ ~posts[i].forgotten => recent[posts[i].key] # 0

PostInv ==
    /\ PostTypes
    /\ \A c \in Calls : CallIsSound(c)
    /\ UsageIsEarned
    /\ PostsAreMarked
    /\ RetriesDoNotRepeat

\* The posts are as they were, or shown, changed and forgotten a little more.
PostsAreKept ==
    /\ posts' \in Seq(PostRecord) /\ Len(posts') = Len(posts)
    /\ \A i \in 1..Len(posts) :
          /\ posts'[i].by = posts[i].by /\ posts'[i].key = posts[i].key
          /\ posts'[i].heard = posts[i].heard
          /\ posts[i].listed => posts'[i].listed
          /\ posts[i].forgotten => posts'[i].forgotten
          /\ posts[i].touched => posts'[i].touched
          /\ ~posts'[i].touched =>
                /\ posts'[i].alive
                /\ <<posts'[i].content, posts'[i].platform>> = posts'[i].key

LEMMA SamePostsAreKept ==
    ASSUME PostInv, posts' = posts
    PROVE  PostsAreKept
  BY DEF PostInv, PostTypes, PostsAreMarked, PostsAreKept

LEMMA EarlierCallsKnown ==
    ASSUME PostInv
    PROVE  \A c \in Calls : call[c].after \subseteq Calls
  BY DEF PostInv, PostTypes, CallRecord

LEMMA PostsTyped ==
    ASSUME PostInv
    PROVE  \A i \in 1..Len(posts) : posts[i] \in PostRecord
  BY DEF PostInv, PostTypes

LEMMA FinitelyManyPosts ==
    ASSUME posts \in Seq(PostRecord), NEW S \in SUBSET (1..Len(posts))
    PROVE  IsFiniteSet(S) /\ Cardinality(S) \in Nat
<1>1. Len(posts) \in Int /\ 1 \in Int
  OBVIOUS
<1>2. IsFiniteSet(1..Len(posts))
  BY <1>1, FS_Interval
<1>3. QED
  BY <1>2, FS_Subset, FS_CardinalityType

\* What has been counted stays so as long as no increment is stored.
LEMMA CountedStays ==
    ASSUME PostInv, Len(posts) <= Len(posts'), Len(posts') \in Nat,
           \A c \in Calls :
              /\ call'[c].tally = "counted" <=> call[c].tally = "counted"
              /\ call[c].tally = "counted" => call'[c].made = call[c].made
    PROVE  Counted' = Counted
<1>1. /\ Len(posts) \in Nat
      /\ \A c \in Calls : \A i \in call[c].made : i \in 1..Len(posts)
  BY DEF PostInv, PostTypes, CallIsSound, AuthorIsKnown
<1>2. \A i \in 1..Len(posts) : i \in 1..Len(posts')
  BY <1>1
<1>3. ASSUME NEW i
      PROVE  (\E c \in Calls : i \in call'[c].made /\ call'[c].tally = "counted")
                <=> (\E c \in Calls : i \in call[c].made /\ call[c].tally = "counted")
  OBVIOUS
<1>4. QED
  BY <1>1, <1>2, <1>3 DEF Counted

\* A counter that is not incremented still has what it has counted.
LEMMA UsageStays ==
    ASSUME PostInv, used' = used, Len(posts) <= Len(posts'), Len(posts') \in Nat,
           \A c \in Calls :
              /\ call'[c].tally = "counted" <=> call[c].tally = "counted"
              /\ call[c].tally = "counted" \/ owed[c] # 0 => call'[c].made = call[c].made
              /\ owed'[c] # 0 => owed'[c] = owed[c] /\ call'[c].tally = call[c].tally
    PROVE  UsageIsEarned'
<1>1. Counted' = Counted
  BY CountedStays
<1>2. /\ used = Cardinality(Counted)
      /\ \A c \in Calls :
            owed[c] # 0 => call[c].tally = "due" /\ owed[c] = Cardinality(call[c].made)
  BY DEF PostInv, UsageIsEarned
<1>3. \A c \in Calls :
         owed'[c] # 0 => call'[c].tally = "due" /\ owed'[c] = Cardinality(call'[c].made)
  BY <1>2
<1>4. QED
  BY <1>1, <1>2, <1>3 DEF UsageIsEarned

\* One call takes a step, which the others do not notice.
OnlyCall(c) ==
    /\ call' \in [Calls -> CallRecord]
    /\ \A d \in Calls : d # c => call'[d] = call[d]
    /\ c \in Calls =>
          /\ call[c].pc # "done"
          /\ call[c].pc = "audit" => call'[c].pc \in {"audit", "done"}
          /\ call'[c].made = call[c].made /\ call'[c].tally = call[c].tally
          /\ call'[c].pc \in EarlySteps => call[c].pc \in EarlySteps

LEMMA CallKeeps ==
    ASSUME PostInv, NEW c, OnlyCall(c), PostsAreKept,
           UNCHANGED <<plan, limit, used, owed>>,
           recent' = recent \/ (recent' \in [Keys -> Nat] /\ PostsAreMarked'),
           c \in Calls =>
              /\ CreatorKnows(c)' /\ FullCallStops(c)' /\ CallRecalls(c)' /\ SearchIsDone(c)'
              /\ AuthorIsKnown(c)' /\ PlanIsCarried(c)'
              /\ \/ call[c].pc \in EarlySteps
                 \/ call'[c].after = call[c].after /\ call'[c].saw = call[c].saw
    PROVE  PostInv'
<1>1. PostTypes'
  BY DEF PostInv, PostTypes, OnlyCall, PostsAreKept
<1>2. ASSUME NEW d \in Calls, d # c
      PROVE  CallIsSound(d)'
  <2>1. CallIsSound(d) /\ call'[d] = call[d]
    BY <1>2 DEF PostInv, OnlyCall
  <2>2. AuthorIsKnown(d)' /\ CreatorKnows(d)' /\ PlanIsCarried(d)' /\ FullCallStops(d)'
    BY <2>1 DEF CallIsSound, AuthorIsKnown, Over, CreatorKnows, PlanIsCarried, FullCallStops,
       Stopped, PostsAreKept
  <2>3. CallRecalls(d)'
    BY <1>2, <2>1, EarlierCallsKnown DEF CallIsSound, CallRecalls, OnlyCall, PostsAreKept
  <2>4. SearchIsDone(d)'
    BY <2>1 DEF CallIsSound, SearchIsDone, PostsAreKept
  <2>5. QED
    BY <2>2, <2>3, <2>4 DEF CallIsSound
<1>3. \A d \in Calls : CallIsSound(d)'
  BY <1>2 DEF CallIsSound
<1>4. UsageIsEarned'
  <2>1. \A d \in Calls : call'[d].made = call[d].made /\ call'[d].tally = call[d].tally
    BY DEF OnlyCall
  <2>2. Len(posts') = Len(posts) /\ Len(posts) \in Nat
    BY DEF PostsAreKept, PostInv, PostTypes
  <2>3. QED
    BY <2>1, <2>2, UsageStays
<1>5. PostsAreMarked'
  BY DEF PostInv, PostsAreMarked, PostsAreKept
<1>6. RetriesDoNotRepeat'
  <2>1. \A i \in 1..Len(posts) : posts[i].by \in Calls \cup {ByHand}
    BY PostsTyped DEF PostRecord
  <2>2. Made' = Made /\ Made \subseteq 1..Len(posts)
    BY DEF Made, PostsAreKept
  <2>3. \A q \in Made : /\ call'[posts[q].by].after = call[posts[q].by].after
                        /\ call'[posts[q].by].saw = call[posts[q].by].saw
    BY <2>1, <2>2 DEF Made, OnlyCall, PostInv, CallIsSound, AuthorIsKnown
  <2>4. \A p, q \in Made : Hidden(p, q) => Hidden(p, q)'
    BY <2>1, <2>2, <2>3 DEF Hidden, PostsAreKept, Made
  <2>5. QED
    BY <2>1, <2>2, <2>3, <2>4 DEF PostInv, RetriesDoNotRepeat, PostsAreKept, Made
<1>7. QED
  BY <1>1, <1>3, <1>4, <1>5, <1>6 DEF PostInv

\* The step neither searches nor creates.
LEMMA StepKeeps ==
    ASSUME PostInv, NEW c \in Calls, OnlyCall(c), PostsAreKept,
           UNCHANGED <<recent, plan, limit, used, owed>>,
           call'[c].after = call[c].after, call'[c].saw = call[c].saw,
           call'[c].full = call[c].full, FullCallStops(c)', PlanIsCarried(c)',
           call'[c].pc \notin {"accepted", "list", "post"},
           call'[c].pc \in EditSteps => call'[c].aim \in 1..Len(posts),
           call'[c].tool = "create" => call'[c].content \in Contents,
           call'[c].tool # "create" => call'[c].pc \notin CreateSteps \cup {"plan", "usage"},
           call'[c].tool \in {"update", "delete"} => call'[c].aim \in 1..Len(posts)
    PROVE  PostInv'
<1>1. CallIsSound(c)
  BY DEF PostInv
<1>2. AuthorIsKnown(c)'
  BY <1>1 DEF CallIsSound, AuthorIsKnown, Over, OnlyCall, PostsAreKept, EarlySteps
<1>3. CreatorKnows(c)'
  BY <1>1 DEF CallIsSound, CreatorKnows, OnlyCall, PostsAreKept
<1>4. CallRecalls(c)'
  BY <1>1, EarlierCallsKnown DEF CallIsSound, CallRecalls, OnlyCall, PostsAreKept
<1>5. SearchIsDone(c)'
  BY DEF SearchIsDone
<1>6. QED
  BY <1>2, <1>3, <1>4, <1>5, CallKeeps

\* The call stays the same bearer's, with the same plan.
SameBearer(c) ==
    /\ call'[c].who = call[c].who /\ call'[c].plan = call[c].plan
    /\ call'[c].full = call[c].full /\ call'[c].tally = call[c].tally

LEMMA BearerStays ==
    ASSUME PostInv, NEW c \in Calls, SameBearer(c), UNCHANGED <<limit, used>>,
           call'[c].made = call[c].made, call[c].pc \notin {"new", "principal", "user", "done"},
           IF call[c].pc = "token" THEN call'[c].pc = "principal"
           ELSE call'[c].pc \notin EarlySteps,
           Stopped(c) => call'[c].pc \notin CreateSteps \cup {"usage"}
    PROVE  FullCallStops(c)' /\ PlanIsCarried(c)'
<1>1. CallIsSound(c)
  BY DEF PostInv
<1>2. FullCallStops(c)'
  BY <1>1 DEF CallIsSound, FullCallStops, Stopped, SameBearer
<1>3. PlanIsCarried(c)'
  BY <1>1 DEF CallIsSound, PlanIsCarried, SameBearer, EarlySteps
<1>4. QED
  BY <1>2, <1>3

\* What a step of a call does to the calls.
LEMMA CallTakes ==
    ASSUME PostInv, NEW c \in Calls, NEW r \in CallRecord, call' = [call EXCEPT ![c] = r]
    PROVE  /\ call' \in [Calls -> CallRecord] /\ call'[c] = r
           /\ \A d \in Calls : d # c => call'[d] = call[d]
  BY DEF PostInv, PostTypes

LEMMA CallTyped ==
    ASSUME PostInv, NEW c \in Calls
    PROVE  call[c] \in CallRecord
  BY DEF PostInv, PostTypes

LEMMA GotoTakes ==
    ASSUME PostInv, NEW c \in Calls, NEW step \in CallSteps, Goto(c, step)
    PROVE  /\ call' \in [Calls -> CallRecord]
           /\ call'[c] = [call[c] EXCEPT !.pc = step]
           /\ call'[c].pc = step /\ call'[c].tool = call[c].tool
           /\ call'[c].content = call[c].content /\ call'[c].group = call[c].group
           /\ call'[c].aim = call[c].aim /\ call'[c].max = call[c].max
           /\ call'[c].made = call[c].made /\ call'[c].after = call[c].after
           /\ call'[c].saw = call[c].saw /\ SameBearer(c)
           /\ \A d \in Calls : d # c => call'[d] = call[d]
<1> DEFINE r == [call[c] EXCEPT !.pc = step]
<1>1. call[c] \in CallRecord
  BY CallTyped
<1>2. /\ r \in CallRecord
      /\ r.pc = step /\ r.tool = call[c].tool /\ r.content = call[c].content
      /\ r.group = call[c].group /\ r.aim = call[c].aim /\ r.max = call[c].max
      /\ r.made = call[c].made /\ r.after = call[c].after /\ r.saw = call[c].saw
      /\ r.full = call[c].full /\ r.who = call[c].who /\ r.plan = call[c].plan
      /\ r.tally = call[c].tally
  BY <1>1 DEF CallRecord
<1>3. call' = [call EXCEPT ![c] = r]
  BY DEF Goto
<1> HIDE DEF r
<1>4. /\ call' \in [Calls -> CallRecord] /\ call'[c] = r
      /\ \A d \in Calls : d # c => call'[d] = call[d]
  BY <1>2, <1>3, CallTakes
<1>5. QED
  BY <1>2, <1>4 DEF r, SameBearer

LEMMA NewCallTyped ==
    NewCall \in CallRecord /\ NewCall.tool = "none"
BY DEF NewCall, CallRecord, CallSteps, EarlySteps, RoleNames, Bearers

LEMMA EndedKnown ==
    ASSUME PostInv, NEW c \in Calls, NEW answer \in {"ok", "error"}
    PROVE  /\ Ended(c, answer) \in CallRecord
           /\ Ended(c, answer).pc = "done" /\ Ended(c, answer).tool = "none"
           /\ Ended(c, answer).made = call[c].made /\ Ended(c, answer).after = call[c].after
           /\ Ended(c, answer).saw = call[c].saw /\ Ended(c, answer).full = call[c].full
           /\ Ended(c, answer).tally = call[c].tally
           /\ call[c].full => Ended(c, answer).who = call[c].who
<1> DEFINE who == IF call[c].full THEN call[c].who ELSE "none"
           told == [NewCall EXCEPT !.pc = "done", !.answer = answer, !.made = call[c].made,
                                   !.who = who]
           ended == [told EXCEPT !.after = call[c].after, !.saw = call[c].saw,
                                 !.full = call[c].full, !.tally = call[c].tally]
<1>1. call[c] \in CallRecord
  BY CallTyped
<1>2. /\ who \in Bearers /\ (call[c].full => who = call[c].who)
      /\ "done" \in CallSteps
  BY <1>1 DEF CallRecord, Bearers, CallSteps
<1>3. /\ call[c].made \in SUBSET Nat /\ call[c].after \in SUBSET Calls
      /\ call[c].saw \in SUBSET Nat /\ call[c].full \in BOOLEAN
      /\ call[c].tally \in {"none", "due", "counted"}
  BY <1>1 DEF CallRecord
<1>4. Ended(c, answer) = ended
  BY DEF Ended
<1> HIDE DEF who
<1>5. /\ told \in CallRecord
      /\ told.pc = "done" /\ told.tool = "none" /\ told.made = call[c].made /\ told.who = who
  BY <1>2, <1>3, NewCallTyped DEF CallRecord
<1> HIDE DEF told
<1>6. /\ ended \in CallRecord
      /\ ended.pc = "done" /\ ended.tool = "none" /\ ended.made = call[c].made
      /\ ended.after = call[c].after /\ ended.saw = call[c].saw /\ ended.full = call[c].full
      /\ ended.tally = call[c].tally /\ ended.who = who
  BY <1>3, <1>5 DEF CallRecord
<1> HIDE DEF ended
<1>7. QED
  BY <1>2, <1>4, <1>6

LEMMA EndKeeps ==
    ASSUME PostInv, NEW c \in Calls, NEW answer \in {"ok", "error"}, call[c].pc # "done",
           call' = [call EXCEPT ![c] = Ended(c, answer)],
           UNCHANGED <<posts, recent, plan, limit, used, owed>>
    PROVE  PostInv'
<1>1. /\ call' \in [Calls -> CallRecord] /\ call'[c] = Ended(c, answer)
      /\ \A d \in Calls : d # c => call'[d] = call[d]
  BY EndedKnown, CallTakes
<1>2. OnlyCall(c)
  BY <1>1, EndedKnown DEF OnlyCall, EarlySteps
<1>3. FullCallStops(c)' /\ PlanIsCarried(c)'
  <2>1. CallIsSound(c)
    BY DEF PostInv
  <2>2. QED
    BY <1>1, <2>1, EndedKnown DEF CallIsSound, FullCallStops, PlanIsCarried, Stopped
<1>4. QED
  BY <1>1, <1>2, <1>3, EndedKnown, SamePostsAreKept, StepKeeps DEF EditSteps, CreateSteps

LEMMA GoKeeps ==
    ASSUME PostInv, NEW c \in Calls, NEW step \in CallSteps, Goto(c, step),
           call[c].pc \notin {"new", "principal", "user", "audit", "done"},
           IF call[c].pc = "token" THEN step = "principal"
           ELSE step \notin EarlySteps \cup {"accepted", "list", "post", "usage"},
           step \in EditSteps => call[c].tool \in {"update", "delete"},
           step \in CreateSteps \cup {"plan"} => call[c].tool = "create",
           step \in CreateSteps => ~Stopped(c),
           UNCHANGED <<posts, recent, plan, limit, used, owed>>
    PROVE  PostInv'
<1>1. OnlyCall(c) /\ FullCallStops(c)' /\ PlanIsCarried(c)'
  <2>1. /\ call' \in [Calls -> CallRecord] /\ call'[c].pc = step
        /\ call'[c].made = call[c].made /\ SameBearer(c)
        /\ \A d \in Calls : d # c => call'[d] = call[d]
    BY GotoTakes
  <2>2. OnlyCall(c)
    BY <2>1 DEF OnlyCall, SameBearer, EarlySteps
  <2>3. QED
    BY <2>1, <2>2, BearerStays DEF EarlySteps, CreateSteps
<1>2. /\ call[c].tool \in {"update", "delete"} => call[c].aim \in 1..Len(posts)
      /\ call[c].tool = "create" => call[c].content \in Contents
  BY DEF PostInv, CallIsSound, CreatorKnows
<1>3. /\ call'[c].after = call[c].after /\ call'[c].saw = call[c].saw
      /\ call'[c].full = call[c].full /\ call'[c].pc = step /\ call'[c].tool = call[c].tool
      /\ call'[c].content = call[c].content /\ call'[c].aim = call[c].aim
  BY GotoTakes DEF SameBearer
<1>4. PostsAreKept
  BY SamePostsAreKept
<1>5. /\ step \notin {"accepted", "list", "post", "usage"}
      /\ call[c].tool # "create" => step \notin CreateSteps \cup {"plan"}
  BY DEF EarlySteps, CreateSteps
<1>6. QED
  BY <1>1, <1>2, <1>3, <1>4, <1>5, StepKeeps

\* Before it is admitted a call finds out who its bearer is.
LEMMA EarlyKeeps ==
    ASSUME PostInv, NEW c \in Calls,
           \/ \E who \in {"issued", "auth0", "admin"} : Bearer(c, who)
           \/ \E role \in Roles : ResolvePrincipal(c, role) \/ ResolveUser(c, role)
    PROVE  PostInv'
<1>1. call[c] \in CallRecord /\ CallIsSound(c)
  BY CallTyped DEF PostInv
<1>2. PICK r \in CallRecord :
         /\ call' = [call EXCEPT ![c] = r]
         /\ r.pc \in {"token", "user", "enter"}
         /\ r.pc = "user" => r.who # "issued"
         /\ r.pc = "enter" /\ r.who = "issued" => r.plan \in Plans
         /\ r.tool = call[c].tool /\ r.content = call[c].content /\ r.aim = call[c].aim
         /\ r.made = call[c].made /\ r.after = call[c].after /\ r.saw = call[c].saw
         /\ r.full = call[c].full /\ r.tally = call[c].tally
  <2>1. CASE \E who \in {"issued", "auth0", "admin"} : Bearer(c, who)
    <3>1. PICK who \in {"issued", "auth0", "admin"} : Bearer(c, who)
      BY <2>1
    <3> DEFINE step == FirstStep[who]
               role == IF who = "admin" THEN "uplifting_admin" ELSE "none"
               r == [call[c] EXCEPT !.who = who, !.pc = step, !.role = role]
    <3>2. /\ step \in {"token", "user", "enter"}
          /\ step \in {"user", "enter"} => who # "issued"
          /\ role \in RoleNames /\ who \in Bearers
      BY DEF FirstStep, RoleNames, Bearers
    <3>3. call' = [call EXCEPT ![c] = r]
      BY <3>1 DEF Bearer
    <3>4. step \in CallSteps
      BY <3>2 DEF CallSteps, EarlySteps
    <3> HIDE DEF step, role
    <3>5. r \in CallRecord
      BY <1>1, <3>2, <3>4 DEF CallRecord
    <3>6. /\ r.pc = step /\ r.who = who
          /\ r.tool = call[c].tool /\ r.content = call[c].content /\ r.aim = call[c].aim
          /\ r.made = call[c].made /\ r.after = call[c].after /\ r.saw = call[c].saw
          /\ r.full = call[c].full /\ r.tally = call[c].tally
      BY <1>1 DEF CallRecord
    <3> HIDE DEF r
    <3>7. QED
      BY <3>2, <3>3, <3>5, <3>6
  <2>2. CASE \E role \in Roles : ResolvePrincipal(c, role) \/ ResolveUser(c, role)
    <3>1. PICK role \in Roles, p \in Plans \cup {NoPlan} :
             /\ call' = [call EXCEPT ![c].pc = "enter", ![c].role = role, ![c].plan = p]
             /\ p \in Plans \/ call[c].who # "issued"
      <4>1. CASE \E role \in Roles : ResolvePrincipal(c, role)
        BY <4>1 DEF ResolvePrincipal, PostInv, PostTypes
      <4>2. CASE \E role \in Roles : ResolveUser(c, role)
        <5>1. PICK role \in Roles : ResolveUser(c, role)
          BY <4>2
        <5>2. call[c].who # "issued"
          BY <1>1, <5>1 DEF ResolveUser, At, CallIsSound, PlanIsCarried
        <5>3. /\ call[c].plan \in Plans \cup {NoPlan}
              /\ call' = [call EXCEPT ![c].pc = "enter", ![c].role = role,
                                      ![c].plan = call[c].plan]
          <6>1. /\ call[c].plan \in Plans \cup {NoPlan}
                /\ [call[c] EXCEPT !.pc = "enter", !.role = role, !.plan = call[c].plan]
                     = [call[c] EXCEPT !.pc = "enter", !.role = role]
            BY <1>1 DEF CallRecord
          <6>2. call' = [call EXCEPT ![c].pc = "enter", ![c].role = role]
            BY <5>1 DEF ResolveUser
          <6>3. QED
            BY <6>1, <6>2
        <5>4. QED
          BY <5>2, <5>3
      <4>3. QED
        BY <2>2, <4>1, <4>2
    <3> DEFINE r == [call[c] EXCEPT !.pc = "enter", !.role = role, !.plan = p]
    <3>2. call' = [call EXCEPT ![c] = r]
      BY <3>1
    <3>3. r \in CallRecord
      <4>1. "enter" \in CallSteps /\ role \in RoleNames
        BY DEF CallSteps, EarlySteps, RoleNames
      <4>2. QED
        BY <1>1, <4>1 DEF CallRecord
    <3>4. /\ r.pc = "enter" /\ r.who = call[c].who /\ r.plan = p
          /\ r.tool = call[c].tool /\ r.content = call[c].content /\ r.aim = call[c].aim
          /\ r.made = call[c].made /\ r.after = call[c].after /\ r.saw = call[c].saw
          /\ r.full = call[c].full /\ r.tally = call[c].tally
      BY <1>1 DEF CallRecord
    <3> HIDE DEF r
    <3>5. QED
      BY <3>1, <3>2, <3>3, <3>4
  <2>3. QED
    BY <2>1, <2>2
<1>3. call[c].pc \in EarlySteps /\ UNCHANGED <<posts, recent, plan, limit, used, owed>>
  BY DEF Bearer, ResolvePrincipal, ResolveUser, At, EarlySteps
<1>4. /\ call' \in [Calls -> CallRecord] /\ call'[c] = r
      /\ \A d \in Calls : d # c => call'[d] = call[d]
  BY <1>2, CallTakes
<1>5. OnlyCall(c)
  BY <1>2, <1>3, <1>4 DEF OnlyCall, EarlySteps
<1>6. ~call[c].full
  BY <1>1, <1>3 DEF CallIsSound, AuthorIsKnown
<1>7. FullCallStops(c)' /\ PlanIsCarried(c)'
  BY <1>2, <1>4, <1>6 DEF FullCallStops, PlanIsCarried, Stopped
<1>8. /\ call[c].tool \in {"update", "delete"} => call[c].aim \in 1..Len(posts)
      /\ call[c].tool = "create" => call[c].content \in Contents
  BY <1>1 DEF CallIsSound, CreatorKnows
<1>9. PostsAreKept
  BY <1>3, SamePostsAreKept
<1>10. r.pc \notin CreateSteps \cup EditSteps \cup {"plan", "usage", "accepted", "list", "post"}
  BY <1>2 DEF CreateSteps, EditSteps
<1>11. QED
  BY <1>2, <1>3, <1>4, <1>5, <1>7, <1>8, <1>9, <1>10, StepKeeps

\* A full plan is full when its limit is read, too.
LEMMA ReadPlanKeeps ==
    ASSUME PostInv, NEW c \in Calls, ReadPlan(c)
    PROVE  PostInv'
<1> DEFINE max == LimitFor(c)
           step == IF max = NoLimit THEN "accounts" ELSE "usage"
           r == [call[c] EXCEPT !.pc = step, !.max = max]
<1>1. /\ call[c].pc = "plan" /\ call' = [call EXCEPT ![c] = r]
      /\ UNCHANGED <<posts, recent, plan, limit, used, owed>>
  BY DEF ReadPlan, At
<1>2. call[c] \in CallRecord /\ CallIsSound(c)
  BY CallTyped DEF PostInv
<1>3. call[c].tool = "create" /\ call[c].content \in Contents
  BY <1>1, <1>2 DEF CallIsSound, CreatorKnows
<1>4. max \in Nat \cup {NoLimit}
  <2>1. call[c].plan \in Plans \cup {NoPlan} /\ limit \in [Plans -> Nat \cup {NoLimit}]
    BY <1>2 DEF CallRecord, PostInv, PostTypes
  <2>2. QED
    BY <2>1 DEF LimitFor
<1>5. Stopped(c) => max # NoLimit /\ max <= used /\ call[c].made = {}
                    /\ limit[call[c].plan] = max
  <2>1. NoPlan \notin Plans
    BY PlansAssumption DEF NoPlan
  <2>2. QED
    BY <1>1, <1>2, <2>1 DEF CallIsSound, FullCallStops, PlanIsCarried, Stopped, LimitFor
<1> HIDE DEF max
<1>6. step \in CallSteps /\ step \in {"accounts", "usage"} /\ (max # NoLimit => step = "usage")
  BY DEF CallSteps, CreateSteps
<1> HIDE DEF step
<1>7. r \in CallRecord
  BY <1>2, <1>4, <1>6 DEF CallRecord
<1>8. /\ r.pc = step /\ r.tool = call[c].tool /\ r.content = call[c].content
      /\ r.aim = call[c].aim /\ r.made = call[c].made /\ r.after = call[c].after
      /\ r.saw = call[c].saw /\ r.full = call[c].full /\ r.max = max
      /\ r.who = call[c].who /\ r.plan = call[c].plan /\ r.tally = call[c].tally
  BY <1>2 DEF CallRecord
<1> HIDE DEF r
<1>9. /\ call' \in [Calls -> CallRecord] /\ call'[c] = r
      /\ \A d \in Calls : d # c => call'[d] = call[d]
  BY <1>1, <1>7, CallTakes
<1>10. OnlyCall(c)
  BY <1>1, <1>6, <1>8, <1>9 DEF OnlyCall, EarlySteps
<1>11. PostsAreKept
  BY <1>1, SamePostsAreKept
<1>12. FullCallStops(c)' /\ PlanIsCarried(c)'
  BY <1>1, <1>2, <1>5, <1>6, <1>8, <1>9
     DEF CallIsSound, FullCallStops, PlanIsCarried, Stopped, CreateSteps
<1>13. QED
  BY <1>1, <1>3, <1>6, <1>8, <1>9, <1>10, <1>11, <1>12, StepKeeps DEF CreateSteps, EditSteps

\* The other steps that only take a call further, or end it.
LEMMA EasyKeeps ==
    ASSUME PostInv, NEW c \in Calls,
           \/ FindToken(c) \/ Context(c) \/ GetAccess(c) \/ EnforcePostLimit(c)
           \/ ResolveAccounts(c) \/ Verify(c) \/ Read(c) \/ Audit(c) \/ Fail(c)
    PROVE  PostInv'
<1>1. CASE Audit(c) \/ Fail(c)
  BY <1>1, EndKeeps DEF Audit, Fail, At, Throw
<1>2. CASE FindToken(c) \/ Context(c) \/ Read(c)
  BY <1>2, GoKeeps DEF FindToken, Context, Read, At, CallSteps, EarlySteps, CreateSteps, EditSteps
<1>3. CASE ResolveAccounts(c) \/ Verify(c)
  <2>1. call[c].tool = "create" /\ ~Stopped(c)
    BY <1>3 DEF ResolveAccounts, Verify, At, PostInv, CallIsSound, CreatorKnows, FullCallStops, CreateSteps
  <2>2. QED
    BY <1>3, <2>1, GoKeeps
       DEF ResolveAccounts, Verify, At, CallSteps, EarlySteps, CreateSteps, EditSteps
<1>4. CASE GetAccess(c)
  <2> DEFINE step == CASE call[c].tool = "create" -> IF call[c].who = "admin" THEN "accounts" ELSE "plan"
                       [] call[c].tool = "update" -> "load"
                       [] call[c].tool = "delete" -> "remove"
                       [] OTHER -> "read"
  <2>1. /\ call[c].pc = "access" /\ Goto(c, step)
        /\ UNCHANGED <<posts, recent, plan, limit, used, owed>>
    BY <1>4 DEF GetAccess, At
  <2>2. /\ step \in {"accounts", "plan", "load", "remove", "read"}
        /\ step \in {"accounts", "plan"} => call[c].tool = "create"
        /\ step = "accounts" => ~Stopped(c)
        /\ step \in EditSteps => call[c].tool \in {"update", "delete"}
    BY DEF EditSteps, Stopped
  <2> HIDE DEF step
  <2>3. /\ step \in CallSteps
        /\ step \in CreateSteps => step = "accounts"
        /\ step \notin EarlySteps \cup {"accepted", "list", "post", "usage"}
    BY <2>2 DEF CallSteps, EarlySteps, CreateSteps, EditSteps
  <2>4. QED
    BY <2>1, <2>2, <2>3, GoKeeps
<1>5. CASE EnforcePostLimit(c)
  <2>1. call[c].pc = "usage" /\ UNCHANGED <<posts, recent, plan, limit, used, owed>>
    BY <1>5 DEF EnforcePostLimit, At
  <2>2. CASE used >= call[c].max
    BY <1>5, <2>1, <2>2, EndKeeps DEF EnforcePostLimit, Throw
  <2>3. CASE ~(used >= call[c].max)
    <3>1. Goto(c, "accounts")
      BY <1>5, <2>3 DEF EnforcePostLimit
    <3>2. call[c].tool = "create"
      BY <2>1 DEF PostInv, CallIsSound, CreatorKnows
    <3>3. call[c].max \in Nat \cup {NoLimit} /\ used \in Nat
      BY CallTyped DEF CallRecord, PostInv, PostTypes
    <3>4. ~Stopped(c)
      BY <2>1, <2>3, <3>3 DEF PostInv, CallIsSound, FullCallStops
    <3>5. QED
      BY <2>1, <3>1, <3>2, <3>4, GoKeeps DEF CallSteps, EarlySteps, CreateSteps, EditSteps
  <2>4. QED
    BY <2>2, <2>3
<1>6. QED
  BY <1>1, <1>2, <1>3, <1>4, <1>5

\* recentCreates and the list are searched for the next platform.
LEMMA SearchKeeps ==
    ASSUME PostInv, NEW c \in Calls,
           (\E p \in Platforms : NextGroup(c, p)) \/ FindExisting(c)
    PROVE  PostInv'
<1>1. /\ call[c].pc \in {"group", "list"} /\ call[c].tool = "create" /\ ~Stopped(c)
      /\ call[c].content \in Contents
      /\ UNCHANGED <<posts, recent, plan, limit, used, owed>>
  BY DEF NextGroup, FindExisting, At, PostInv, CallIsSound, CreatorKnows, FullCallStops, CreateSteps
<1>2. PICK r \in CallRecord :
         /\ call' = [call EXCEPT ![c] = r]
         /\ r.pc \in {"group", "list", "post"}
         /\ r.tool = call[c].tool /\ r.content = call[c].content /\ r.made = call[c].made
         /\ r.after = call[c].after /\ r.saw = call[c].saw /\ r.full = call[c].full
         /\ r.who = call[c].who /\ r.plan = call[c].plan /\ r.tally = call[c].tally
         /\ r.group \in Platforms
         /\ r.pc = "list" => recent[<<r.content, r.group>>] = 0
         /\ r.pc = "post" => /\ call[c].pc = "list" /\ r.group = call[c].group
                             /\ Listed(<<r.content, r.group>>) = {}
  <2>1. CASE \E p \in Platforms : NextGroup(c, p)
    <3>1. PICK p \in Platforms : NextGroup(c, p)
      BY <2>1
    <3> DEFINE step == IF recent[<<call[c].content, p>>] # 0 THEN "group" ELSE "list"
               r == [call[c] EXCEPT !.todo = call[c].todo \ {p}, !.group = p, !.pc = step]
    <3>2. call' = [call EXCEPT ![c] = r]
      BY <3>1 DEF NextGroup
    <3>3. step \in CallSteps /\ step \in {"group", "list"}
      BY DEF CallSteps, CreateSteps
    <3>4. step = "list" => recent[<<call[c].content, p>>] = 0
      OBVIOUS
    <3> HIDE DEF step
    <3>5. r \in CallRecord
      <4>1. call[c] \in CallRecord
        BY CallTyped
      <4>2. QED
        BY <3>3, <4>1 DEF CallRecord
    <3>6. /\ r.pc = step /\ r.tool = call[c].tool /\ r.content = call[c].content
          /\ r.made = call[c].made /\ r.after = call[c].after /\ r.saw = call[c].saw
          /\ r.full = call[c].full /\ r.group = p
          /\ r.who = call[c].who /\ r.plan = call[c].plan /\ r.tally = call[c].tally
      BY CallTyped DEF CallRecord
    <3> HIDE DEF r
    <3>7. QED
      BY <3>2, <3>3, <3>4, <3>5, <3>6
  <2>2. CASE FindExisting(c)
    <3> DEFINE step == IF Listed(<<call[c].content, call[c].group>>) # {} THEN "group" ELSE "post"
    <3>1. step \in CallSteps /\ step \in {"group", "post"}
      BY DEF CallSteps, CreateSteps
    <3>2. step = "post" => Listed(<<call[c].content, call[c].group>>) = {}
      OBVIOUS
    <3>3. call[c].pc = "list" /\ Goto(c, step)
      BY <2>2 DEF FindExisting, At
    <3>4. call[c].group \in Platforms
      BY <3>3 DEF PostInv, CallIsSound, CreatorKnows
    <3> HIDE DEF step
    <3>5. /\ call'[c] \in CallRecord /\ call'[c].pc = step
          /\ call'[c].tool = call[c].tool /\ call'[c].content = call[c].content
          /\ call'[c].made = call[c].made /\ call'[c].after = call[c].after
          /\ call'[c].saw = call[c].saw /\ call'[c].full = call[c].full
          /\ call'[c].who = call[c].who /\ call'[c].plan = call[c].plan
          /\ call'[c].tally = call[c].tally /\ call'[c].group = call[c].group
      BY <3>1, <3>3, GotoTakes DEF SameBearer
    <3>6. call' = [call EXCEPT ![c] = call'[c]]
      BY <3>1, <3>3, GotoTakes DEF Goto
    <3>7. QED
      BY <3>1, <3>2, <3>3, <3>4, <3>5, <3>6
  <2>3. QED
    BY <2>1, <2>2
<1>3. /\ call' \in [Calls -> CallRecord] /\ call'[c] = r
      /\ \A d \in Calls : d # c => call'[d] = call[d]
  BY <1>2, CallTakes
<1>4. CallIsSound(c)
  BY DEF PostInv
<1>5. OnlyCall(c)
  BY <1>1, <1>2, <1>3 DEF OnlyCall, EarlySteps
<1>6. AuthorIsKnown(c)' /\ CreatorKnows(c)' /\ PlanIsCarried(c)' /\ FullCallStops(c)'
  <2>1. AuthorIsKnown(c)' /\ CreatorKnows(c)'
    BY <1>1, <1>2, <1>3, <1>4
       DEF CallIsSound, AuthorIsKnown, Over, CreatorKnows, EarlySteps, EditSteps
  <2>2. PlanIsCarried(c)' /\ FullCallStops(c)'
    BY <1>1, <1>2, <1>3, <1>4 DEF CallIsSound, PlanIsCarried, FullCallStops, Stopped
  <2>3. QED
    BY <2>1, <2>2
<1>7. CallRecalls(c)'
  BY <1>1, <1>2, <1>3, <1>4, EarlierCallsKnown DEF CallIsSound, CallRecalls
<1>8. SearchIsDone(c)'
  <2>1. ASSUME NEW i \in 1..Len(posts), posts[i].key = <<r.content, r.group>>,
               posts[i].by \in call[c].after, r.pc \in {"list", "post"}
        PROVE  ~posts[i].heard \/ posts[i].forgotten
    <3>1. CASE r.pc = "list"
      BY <1>2, <2>1, <3>1 DEF PostInv, PostsAreMarked
    <3>2. CASE r.pc = "post"
      BY <1>2, <1>4, <2>1, <3>2 DEF CallIsSound, SearchIsDone
    <3>3. QED
      BY <2>1, <3>1, <3>2
  <2>2. ASSUME NEW i \in 1..Len(posts), posts[i].key = <<r.content, r.group>>,
               r.pc = "post", i \in call[c].saw
        PROVE  posts[i].touched
    <3>1. posts[i].listed
      BY <1>4, <2>2 DEF CallIsSound, CallRecalls
    <3>2. i \notin Listed(<<r.content, r.group>>)
      BY <1>2, <2>2
    <3>3. QED
      BY <2>2, <3>1, <3>2 DEF Listed, PostInv, PostsAreMarked
  <2>3. QED
    BY <1>1, <1>2, <1>3, <2>1, <2>2 DEF SearchIsDone
<1>9. QED
  BY <1>1, <1>2, <1>3, <1>5, <1>6, <1>7, <1>8, SamePostsAreKept, CallKeeps

\* A call is admitted, and learns what had happened before it.
LEMMA AdmitKeeps ==
    ASSUME PostInv, NEW c \in Calls, AdmitSome(c)
    PROVE  PostInv'
<1>1. PICK tool \in {"create", "update", "delete", "read"}, content \in Contents \cup {"none"},
           todo \in SUBSET Platforms, aim \in 0..Len(posts) :
         /\ Admit(c, tool, content, todo, aim)
         /\ tool = "create" => content \in Contents
         /\ tool \in {"update", "delete"} => aim \in 1..Len(posts)
  BY DEF AdmitSome
<1>2. call[c].pc = "enter" /\ UNCHANGED <<posts, recent, plan, limit, used, owed>>
  BY <1>1 DEF Admit, At
<1>3. CASE Throw(c)
  BY <1>2, <1>3, EndKeeps DEF Throw
<1>4. CASE ~Throw(c)
  <2> DEFINE after == {d \in Calls : At(d, "done")}
             saw == {i \in 1..Len(posts) : posts[i].listed}
             full == PlanIsFull(c)
             r == [call[c] EXCEPT !.pc = "context", !.role = "none", !.tool = tool,
                     !.content = content, !.todo = todo, !.aim = aim, !.after = after,
                     !.saw = saw, !.full = full]
  <2>1. call' = [call EXCEPT ![c] = r]
    BY <1>1, <1>4 DEF Admit
  <2>2. /\ after \in SUBSET Calls /\ saw \in SUBSET Nat /\ saw \subseteq 1..Len(posts)
        /\ aim \in Nat
    <3>1. Len(posts) \in Nat
      BY DEF PostInv, PostTypes
    <3>2. QED
      BY <3>1
  <2>3. /\ full \in BOOLEAN /\ "context" \in CallSteps
        /\ "none" \in RoleNames
    BY DEF PlanIsFull, CallSteps, RoleNames
  <2>15. full /\ call[c].who = "issued" =>
            limit[call[c].plan] # NoLimit /\ limit[call[c].plan] <= used
    <3>1. CallIsSound(c) /\ used = Cardinality(Counted) /\ limit \in [Plans -> Nat \cup {NoLimit}]
      BY DEF PostInv, PostTypes, UsageIsEarned
    <3>2. NoPlan \notin Plans
      BY PlansAssumption DEF NoPlan
    <3>3. call[c].who = "issued" => PlanOf(c) = call[c].plan
      BY <1>2, <3>1, <3>2 DEF CallIsSound, PlanIsCarried, PlanOf
    <3>4. QED
      BY <3>1, <3>3 DEF PlanIsFull
  <2>4. /\ \A d \in after : call[d].pc = "done"
        /\ \A i \in saw : posts[i].listed
    BY DEF At
  <2> HIDE DEF after, saw, full
  <2>5. r \in CallRecord
    <3>1. call[c] \in CallRecord
      BY CallTyped
    <3>2. /\ tool \in {"none", "create", "update", "delete", "read"}
          /\ content \in Contents \cup {"none"} /\ todo \in SUBSET Platforms
      OBVIOUS
    <3>3. [call[c] EXCEPT !.pc = "context", !.role = "none", !.tool = tool,
                          !.content = content, !.todo = todo] \in CallRecord
      BY <2>3, <3>1, <3>2 DEF CallRecord
    <3> DEFINE q == [call[c] EXCEPT !.pc = "context", !.role = "none", !.tool = tool,
                                    !.content = content, !.todo = todo]
    <3>4. r = [q EXCEPT !.aim = aim, !.after = after, !.saw = saw, !.full = full]
      BY <3>1, SMTT(60) DEF CallRecord
    <3>5. q \in CallRecord
      BY <3>3
    <3> HIDE DEF q, r
    <3>6. [q EXCEPT !.aim = aim, !.after = after, !.saw = saw, !.full = full] \in CallRecord
      BY <2>2, <2>3, <3>5 DEF CallRecord
    <3>7. QED
      BY <3>4, <3>6
  <2>6. /\ r.pc = "context" /\ r.tool = tool /\ r.content = content /\ r.aim = aim
        /\ r.made = call[c].made /\ r.after = after /\ r.saw = saw /\ r.full = full
        /\ r.who = call[c].who /\ r.plan = call[c].plan /\ r.tally = call[c].tally
    BY CallTyped DEF CallRecord
  <2> HIDE DEF r
  <2>7. /\ call' \in [Calls -> CallRecord] /\ call'[c] = r
        /\ \A d \in Calls : d # c => call'[d] = call[d]
    BY <2>1, <2>5, CallTakes
  <2>8. CallIsSound(c) /\ call[c].made = {}
    BY <1>2 DEF PostInv, CallIsSound, AuthorIsKnown, EarlySteps
  <2>9. OnlyCall(c)
    BY <1>2, <2>6, <2>7 DEF OnlyCall, EarlySteps
  <2>10. AuthorIsKnown(c)'
    BY <1>2, <2>6, <2>7, <2>8 DEF CallIsSound, AuthorIsKnown, Over, EarlySteps, EditSteps
  <2>11. CreatorKnows(c)' /\ FullCallStops(c)' /\ PlanIsCarried(c)'
    BY <1>1, <1>2, <2>6, <2>7, <2>8, <2>15
       DEF CallIsSound, CreatorKnows, FullCallStops, PlanIsCarried, Stopped, CreateSteps
  <2>12. CallRecalls(c)'
    BY <1>2, <2>2, <2>4, <2>6, <2>7 DEF CallRecalls
  <2>13. SearchIsDone(c)'
    BY <2>6, <2>7 DEF SearchIsDone
  <2>14. QED
    BY <1>2, <2>9, <2>10, <2>11, <2>12, <2>13, SamePostsAreKept, CallKeeps DEF EarlySteps
<1>5. QED
  BY <1>3, <1>4

\* HighLevel accepts a post; its reply is on the way, and the call still runs.
LEMMA AcceptKeeps ==
    ASSUME PostInv, NEW c \in Calls, Accept(c)
    PROVE  PostInv'
<1> DEFINE new == NewPost(call[c].content, call[c].group, c)
           r == [call[c] EXCEPT !.pc = "accepted", !.aim = Len(posts) + 1]
<1>1. /\ call[c].pc = "post" /\ posts' = Append(posts, new)
      /\ call' = [call EXCEPT ![c] = r]
      /\ UNCHANGED <<recent, plan, limit, used, owed>>
  BY DEF Accept, At
<1>2. CallIsSound(c) /\ posts \in Seq(PostRecord) /\ Len(posts) \in Nat
  BY DEF PostInv, PostTypes
<1>3. /\ call[c].tool = "create" /\ call[c].content \in Contents /\ call[c].group \in Platforms
      /\ ~Stopped(c)
  BY <1>1, <1>2 DEF CallIsSound, CreatorKnows, FullCallStops, CreateSteps
<1>4. /\ new \in PostRecord /\ new.by = c /\ new.key = <<call[c].content, call[c].group>>
      /\ ~new.heard /\ new.alive /\ <<new.content, new.platform>> = new.key
  BY <1>3 DEF NewPost, PostRecord, Keys
<1> HIDE DEF new
<1>5. /\ posts' \in Seq(PostRecord) /\ Len(posts') = Len(posts) + 1
      /\ posts'[Len(posts')] = new
      /\ \A i \in 1..Len(posts) : posts'[i] = posts[i]
      /\ \A i \in 1..Len(posts') : i \in 1..Len(posts) \/ i = Len(posts')
  BY <1>1, <1>2, <1>4
<1>6. /\ r \in CallRecord /\ r.pc = "accepted" /\ r.tool = call[c].tool
      /\ r.content = call[c].content /\ r.made = call[c].made /\ r.after = call[c].after
      /\ r.saw = call[c].saw /\ r.full = call[c].full /\ r.group = call[c].group
      /\ r.who = call[c].who /\ r.plan = call[c].plan /\ r.tally = call[c].tally
      /\ r.aim = Len(posts')
  <2>1. "accepted" \in CallSteps /\ Len(posts) + 1 \in Nat
    BY <1>2 DEF CallSteps, CreateSteps
  <2>4. call[c] \in CallRecord
    BY CallTyped
  <2>2. r \in CallRecord
    BY <2>1, <2>4 DEF CallRecord
  <2>3. QED
    BY <2>2, <1>5, CallTyped DEF CallRecord
<1> HIDE DEF r
<1>7. /\ call' \in [Calls -> CallRecord] /\ call'[c] = r
      /\ \A d \in Calls : d # c => call'[d] = call[d]
  BY <1>1, <1>6, CallTakes
<1>8. PostTypes'
  BY <1>1, <1>5, <1>7 DEF PostInv, PostTypes
<1>9. \A d \in Calls : /\ c \notin call[d].after /\ call'[d].after = call[d].after
                       /\ call'[d].saw = call[d].saw /\ call[d].after \subseteq Calls
                       /\ \A i \in call[d].saw : i \in 1..Len(posts)
  BY <1>1, <1>6, <1>7, EarlierCallsKnown DEF PostInv, CallIsSound, CallRecalls
<1>10. ASSUME NEW d \in Calls
       PROVE  CallIsSound(d)'
  <2>1. CallIsSound(d) /\ (d # c => call'[d] = call[d])
    BY <1>7 DEF PostInv
  <2>2. AuthorIsKnown(d)'
    BY <1>1, <1>2, <1>4, <1>5, <1>6, <1>7, <2>1
       DEF CallIsSound, AuthorIsKnown, Over, EarlySteps, EditSteps
  <2>3. CreatorKnows(d)' /\ FullCallStops(d)' /\ PlanIsCarried(d)'
    BY <1>1, <1>2, <1>3, <1>5, <1>6, <1>7, <2>1
       DEF CallIsSound, CreatorKnows, FullCallStops, PlanIsCarried, Stopped
  <2>4. CallRecalls(d)'
    BY <1>2, <1>5, <1>7, <1>9, <2>1 DEF CallIsSound, CallRecalls
  <2>5. SearchIsDone(d)'
    <3>1. CASE d = c
      BY <1>6, <1>7, <3>1 DEF SearchIsDone
    <3>2. CASE d # c
      BY <1>2, <1>4, <1>5, <1>9, <2>1, <3>2 DEF CallIsSound, SearchIsDone
    <3>3. QED
      BY <3>1, <3>2
  <2>6. QED
    BY <2>2, <2>3, <2>4, <2>5 DEF CallIsSound
<1>11. UsageIsEarned'
  <2>1. \A d \in Calls : call'[d].made = call[d].made /\ call'[d].tally = call[d].tally
    BY <1>6, <1>7
  <2>2. Len(posts) <= Len(posts') /\ Len(posts') \in Nat
    BY <1>2, <1>5
  <2>3. QED
    BY <1>1, <2>1, <2>2, UsageStays
<1>12. PostsAreMarked'
  BY <1>1, <1>4, <1>5 DEF PostInv, PostsAreMarked
<1>13. RetriesDoNotRepeat'
  <2>1. \A i \in 1..Len(posts) : posts[i].by \in Calls \cup {ByHand}
    BY PostsTyped DEF PostRecord
  <2>2. SUFFICES ASSUME NEW p \in 1..Len(posts'), NEW q \in 1..Len(posts'),
                        posts'[p].by # ByHand, posts'[q].by # ByHand,
                        posts'[p].key = posts'[q].key,
                        posts'[p].by \in call'[posts'[q].by].after
                 PROVE  Hidden(p, q)'
    BY DEF RetriesDoNotRepeat, Made
  <2>3. posts'[q].by \in Calls
    BY <1>4, <1>5, <2>1, <2>2
  <2>4. p \in 1..Len(posts)
    BY <1>4, <1>5, <1>9, <2>2, <2>3
  <2>5. CASE q \in 1..Len(posts)
    <3>1. Hidden(p, q)
      BY <1>5, <1>9, <2>2, <2>3, <2>4, <2>5 DEF PostInv, RetriesDoNotRepeat, Made
    <3>2. QED
      BY <3>1, <1>5, <1>9, <2>3, <2>4, <2>5 DEF Hidden
  <2>6. CASE q = Len(posts')
    <3>1. /\ posts[p].by \in call[c].after
          /\ posts[p].key = <<call[c].content, call[c].group>>
      BY <1>4, <1>5, <1>9, <2>2, <2>4, <2>6
    <3>2. ~posts[p].heard \/ posts[p].forgotten
      BY <1>1, <1>2, <2>4, <3>1 DEF CallIsSound, SearchIsDone
    <3>3. p \notin call[c].saw \/ posts[p].touched
      BY <1>1, <1>2, <2>4, <3>1 DEF CallIsSound, SearchIsDone
    <3>4. QED
      BY <3>2, <3>3, <1>4, <1>5, <1>9, <2>4, <2>6 DEF Hidden
  <2>7. QED
    BY <1>5, <2>5, <2>6
<1>14. QED
  BY <1>8, <1>10, <1>11, <1>12, <1>13 DEF PostInv

\* The reply arrives: the post is the call's, and remembered under its key.
LEMMA RememberKeeps ==
    ASSUME PostInv, NEW c \in Calls, NEW verify \in BOOLEAN, Remember(c, verify)
    PROVE  PostInv'
<1> DEFINE new == call[c].aim
           step == IF verify THEN "verify" ELSE "group"
           made == call[c].made \cup {new}
           r == [call[c] EXCEPT !.made = made, !.pc = step]
<1>1. /\ call[c].pc = "accepted" /\ recent' = [recent EXCEPT ![posts[new].key] = new]
      /\ posts' = [posts EXCEPT ![new].heard = TRUE]
      /\ call' = [call EXCEPT ![c] = r]
      /\ UNCHANGED <<plan, limit, used, owed>>
  BY DEF Remember, At
<1>2. CallIsSound(c) /\ posts \in Seq(PostRecord) /\ Len(posts) \in Nat
  BY DEF PostInv, PostTypes
<1>3. /\ call[c].tool = "create" /\ call[c].content \in Contents /\ ~Stopped(c)
      /\ new \in 1..Len(posts) /\ posts[new].by = c
      /\ call[c].tally = "none" /\ owed[c] = 0
  BY <1>1, <1>2 DEF CallIsSound, AuthorIsKnown, Over, CreatorKnows, FullCallStops, CreateSteps,
     PostInv, UsageIsEarned
<1>4. posts[new] \in PostRecord /\ new \in Nat /\ new # 0
  BY <1>2, <1>3, PostsTyped
<1>5. /\ r \in CallRecord /\ r.pc = step /\ r.tool = call[c].tool
      /\ r.content = call[c].content /\ r.made = call[c].made \cup {new}
      /\ r.after = call[c].after /\ r.saw = call[c].saw /\ r.full = call[c].full
      /\ r.who = call[c].who /\ r.plan = call[c].plan /\ r.tally = call[c].tally
      /\ r.group = call[c].group /\ r.aim = call[c].aim
  <2>1. step \in CallSteps
    BY DEF CallSteps, CreateSteps
  <2> HIDE DEF step
  <2>2. call[c] \in CallRecord
    BY CallTyped
  <2>3. made \in SUBSET Nat
    BY <1>4, <2>2 DEF CallRecord
  <2> HIDE DEF made, new
  <2>4. r \in CallRecord
    BY <2>1, <2>2, <2>3 DEF CallRecord
  <2>5. QED
    BY <2>2, <2>4 DEF CallRecord, made, new
<1>6. step \in {"verify", "group"}
  OBVIOUS
<1> HIDE DEF r, step
<1>7. /\ call' \in [Calls -> CallRecord] /\ call'[c] = r
      /\ \A d \in Calls : d # c => call'[d] = call[d]
  BY <1>1, <1>5, CallTakes
<1>8. /\ posts' \in Seq(PostRecord) /\ Len(posts') = Len(posts) /\ posts'[new].heard
      /\ \A i \in 1..Len(posts) :
            /\ i # new => posts'[i] = posts[i]
            /\ posts'[i].by = posts[i].by /\ posts'[i].key = posts[i].key
            /\ posts'[i].listed = posts[i].listed /\ posts'[i].alive = posts[i].alive
            /\ posts'[i].forgotten = posts[i].forgotten
            /\ posts'[i].touched = posts[i].touched
            /\ posts'[i].content = posts[i].content /\ posts'[i].platform = posts[i].platform
  <2> DEFINE p == [posts[new] EXCEPT !.heard = TRUE]
  <2>1. /\ p \in PostRecord /\ p.heard /\ p.by = posts[new].by /\ p.key = posts[new].key
        /\ p.listed = posts[new].listed /\ p.alive = posts[new].alive
        /\ p.forgotten = posts[new].forgotten /\ p.touched = posts[new].touched
        /\ p.content = posts[new].content /\ p.platform = posts[new].platform
    BY <1>4 DEF PostRecord
  <2>2. posts' = [posts EXCEPT ![new] = p]
    BY <1>1
  <2> HIDE DEF p, new
  <2>3. /\ posts' \in Seq(PostRecord) /\ Len(posts') = Len(posts) /\ posts'[new] = p
        /\ \A i \in 1..Len(posts) : i # new => posts'[i] = posts[i]
    BY <1>2, <1>3, <2>1, <2>2
  <2>4. QED
    BY <2>1, <2>3, <1>3
<1>9. /\ recent' \in [Keys -> Nat] /\ recent'[posts[new].key] # 0
      /\ \A k \in Keys : recent[k] # 0 => recent'[k] # 0
  BY <1>1, <1>4 DEF PostInv, PostTypes, PostRecord
<1> HIDE DEF new
<1>10. PostTypes'
  BY <1>1, <1>7, <1>8, <1>9 DEF PostInv, PostTypes
<1>11. \A d \in Calls : /\ c \notin call[d].after /\ call'[d].after = call[d].after
                        /\ call'[d].saw = call[d].saw /\ call[d].after \subseteq Calls
  BY <1>1, <1>5, <1>7, EarlierCallsKnown DEF PostInv, CallIsSound, CallRecalls
<1>12. ASSUME NEW d \in Calls
       PROVE  CallIsSound(d)'
  <2>1. CallIsSound(d) /\ (d # c => call'[d] = call[d])
    BY <1>7 DEF PostInv
  <2>2. AuthorIsKnown(d)'
    BY <1>1, <1>3, <1>5, <1>6, <1>7, <1>8, <2>1
       DEF CallIsSound, AuthorIsKnown, Over, EarlySteps, EditSteps
  <2>3. CreatorKnows(d)' /\ FullCallStops(d)' /\ PlanIsCarried(d)'
    BY <1>1, <1>3, <1>5, <1>6, <1>7, <1>8, <2>1
       DEF CallIsSound, CreatorKnows, FullCallStops, PlanIsCarried, Stopped
  <2>4. CallRecalls(d)'
    BY <1>7, <1>8, <1>11, <2>1 DEF CallIsSound, CallRecalls
  <2>5. SearchIsDone(d)'
    <3>1. CASE d = c
      BY <1>5, <1>6, <1>7, <3>1 DEF SearchIsDone
    <3>2. CASE d # c
      BY <1>3, <1>8, <1>11, <2>1, <3>2 DEF CallIsSound, SearchIsDone
    <3>3. QED
      BY <3>1, <3>2
  <2>6. QED
    BY <2>2, <2>3, <2>4, <2>5 DEF CallIsSound
<1>13. UsageIsEarned'
  <2>1. \A d \in Calls : call'[d].tally = call[d].tally /\ (d # c => call'[d].made = call[d].made)
    BY <1>5, <1>7
  <2>2. Len(posts) <= Len(posts') /\ Len(posts') \in Nat
    BY <1>2, <1>8
  <2>3. QED
    BY <1>1, <1>3, <2>1, <2>2, UsageStays
<1>14. PostsAreMarked'
  <2>1. \A i \in 1..Len(posts) : posts[i].key \in Keys
    BY PostsTyped DEF PostRecord
  <2>2. ASSUME NEW i \in 1..Len(posts)
        PROVE  /\ ~posts'[i].touched =>
                     /\ posts'[i].alive
                     /\ <<posts'[i].content, posts'[i].platform>> = posts'[i].key
               /\ posts'[i].heard /\ ~posts'[i].forgotten => recent'[posts'[i].key] # 0
    <3>1. posts[i].heard /\ ~posts[i].forgotten => recent[posts[i].key] # 0
      BY DEF PostInv, PostsAreMarked
    <3>2. ~posts[i].touched => /\ posts[i].alive
                               /\ <<posts[i].content, posts[i].platform>> = posts[i].key
      BY DEF PostInv, PostsAreMarked
    <3>3. QED
      BY <1>3, <1>8, <1>9, <2>1, <3>1, <3>2
  <2>3. QED
    BY <1>8, <2>2 DEF PostsAreMarked
<1>15. RetriesDoNotRepeat'
  <2>1. \A i \in 1..Len(posts) : posts[i].by \in Calls \cup {ByHand}
    BY PostsTyped DEF PostRecord
  <2>2. SUFFICES ASSUME NEW p \in 1..Len(posts), NEW q \in 1..Len(posts),
                        posts'[p].by # ByHand, posts'[q].by # ByHand,
                        posts'[p].key = posts'[q].key,
                        posts'[p].by \in call'[posts'[q].by].after
                 PROVE  Hidden(p, q)'
    BY <1>8 DEF RetriesDoNotRepeat, Made
  <2>3. posts[q].by \in Calls /\ p # new
    BY <1>3, <1>8, <1>11, <2>1, <2>2
  <2>4. Hidden(p, q)
    BY <1>8, <1>11, <2>2, <2>3 DEF PostInv, RetriesDoNotRepeat, Made
  <2>5. QED
    BY <2>3, <2>4, <1>8, <1>11 DEF Hidden
<1>16. QED
  BY <1>10, <1>12, <1>13, <1>14, <1>15 DEF PostInv

\* recordUsage: the call made all its posts, and the increment is on its way.
LEMMA RecordKeeps ==
    ASSUME PostInv, NEW c \in Calls, Record(c)
    PROVE  PostInv'
<1> DEFINE tally == IF call[c].made = {} THEN "none" ELSE "due"
           r == [call[c] EXCEPT !.pc = "audit", !.tally = tally]
<1>1. /\ call[c].pc = "group" /\ owed' = [owed EXCEPT ![c] = Cardinality(call[c].made)]
      /\ call' = [call EXCEPT ![c] = r]
      /\ UNCHANGED <<posts, recent, plan, limit, used>>
  BY DEF Record, At
<1>2. /\ CallIsSound(c) /\ call[c] \in CallRecord
      /\ posts \in Seq(PostRecord) /\ Len(posts) \in Nat
  BY CallTyped DEF PostInv, PostTypes
<1>3. /\ tally \in {"none", "due"} /\ (tally = "none" <=> call[c].made = {})
      /\ call[c].tally = "none" /\ ~Stopped(c)
  BY <1>1, <1>2 DEF CallIsSound, AuthorIsKnown, Over, FullCallStops, CreateSteps
<1> HIDE DEF tally
<1>4. r \in CallRecord
  <2>1. "audit" \in CallSteps
    BY DEF CallSteps
  <2>2. QED
    BY <1>2, <1>3, <2>1 DEF CallRecord
<1>5. /\ r.pc = "audit" /\ r.tool = call[c].tool /\ r.content = call[c].content
      /\ r.aim = call[c].aim /\ r.made = call[c].made /\ r.after = call[c].after
      /\ r.saw = call[c].saw /\ r.full = call[c].full /\ r.who = call[c].who
      /\ r.plan = call[c].plan /\ r.tally = tally
  BY <1>2 DEF CallRecord
<1> HIDE DEF r
<1>6. /\ call' \in [Calls -> CallRecord] /\ call'[c] = r
      /\ \A d \in Calls : d # c => call'[d] = call[d]
  BY <1>1, <1>4, CallTakes
<1>7. Cardinality(call[c].made) \in Nat /\ (call[c].made = {} => Cardinality(call[c].made) = 0)
  <2>1. call[c].made \in SUBSET (1..Len(posts))
    BY <1>2 DEF CallIsSound, AuthorIsKnown
  <2>2. QED
    BY <2>1, <1>2, FinitelyManyPosts, FS_EmptySet
<1>8. PostTypes'
  BY <1>1, <1>6, <1>7 DEF PostInv, PostTypes
<1>9. \A d \in Calls : c \notin call[d].after /\ call[d].after \subseteq Calls
  BY <1>1, EarlierCallsKnown DEF PostInv, CallIsSound, CallRecalls
<1>10. ASSUME NEW d \in Calls
       PROVE  CallIsSound(d)'
  <2>1. CallIsSound(d) /\ (d # c => call'[d] = call[d])
    BY <1>6 DEF PostInv
  <2>2. AuthorIsKnown(d)'
    BY <1>1, <1>5, <1>6, <2>1 DEF CallIsSound, AuthorIsKnown, Over, EarlySteps, EditSteps
  <2>3. CreatorKnows(d)' /\ FullCallStops(d)' /\ PlanIsCarried(d)'
    BY <1>1, <1>3, <1>5, <1>6, <2>1
       DEF CallIsSound, CreatorKnows, FullCallStops, PlanIsCarried, Stopped, CreateSteps
  <2>4. CallRecalls(d)'
    BY <1>1, <1>5, <1>6, <1>9, <2>1 DEF CallIsSound, CallRecalls
  <2>5. SearchIsDone(d)'
    BY <1>1, <1>5, <1>6, <2>1 DEF CallIsSound, SearchIsDone
  <2>6. QED
    BY <2>2, <2>3, <2>4, <2>5 DEF CallIsSound
<1>11. UsageIsEarned'
  <2>1. Counted' = Counted
    <3>1. \A d \in Calls : /\ call'[d].tally = "counted" <=> call[d].tally = "counted"
                           /\ call'[d].made = call[d].made
      BY <1>3, <1>5, <1>6
    <3>2. Len(posts) <= Len(posts') /\ Len(posts') \in Nat
      BY <1>1, <1>2
    <3>3. QED
      BY <3>1, <3>2, CountedStays
  <2>2. ASSUME NEW d \in Calls, owed'[d] # 0
        PROVE  call'[d].tally = "due" /\ owed'[d] = Cardinality(call'[d].made)
    <3>1. CASE d = c
      BY <1>1, <1>3, <1>5, <1>6, <1>7, <2>2, <3>1 DEF PostInv, PostTypes
    <3>2. CASE d # c
      BY <1>1, <1>6, <2>2, <3>2 DEF PostInv, PostTypes, UsageIsEarned
    <3>3. QED
      BY <3>1, <3>2
  <2>3. QED
    BY <1>1, <2>1, <2>2 DEF PostInv, UsageIsEarned
<1>12. PostsAreMarked'
  BY <1>1 DEF PostInv, PostsAreMarked
<1>13. RetriesDoNotRepeat'
  <2>1. \A i \in 1..Len(posts) : posts[i].by \in Calls \cup {ByHand}
    BY PostsTyped DEF PostRecord
  <2>2. Made' = Made /\ \A q \in Made : /\ call'[posts[q].by].after = call[posts[q].by].after
                                        /\ call'[posts[q].by].saw = call[posts[q].by].saw
    BY <1>1, <1>5, <1>6, <2>1 DEF Made
  <2>3. QED
    BY <1>1, <2>2 DEF PostInv, RetriesDoNotRepeat, Hidden
<1>14. QED
  BY <1>8, <1>10, <1>11, <1>12, <1>13 DEF PostInv

\* The calls change nothing but what they remember of the plan and of the count.
OnlyMarks ==
    /\ call' \in [Calls -> CallRecord]
    /\ \A d \in Calls :
          /\ call'[d].pc = call[d].pc /\ call'[d].tool = call[d].tool
          /\ call'[d].content = call[d].content /\ call'[d].group = call[d].group
          /\ call'[d].aim = call[d].aim /\ call'[d].max = call[d].max
          /\ call'[d].made = call[d].made /\ call'[d].after = call[d].after
          /\ call'[d].saw = call[d].saw /\ call'[d].who = call[d].who
          /\ call'[d].plan = call[d].plan
          /\ call'[d].full => call[d].full
          /\ call'[d].tally # "none" => call[d].tally # "none"

LEMMA MarksKeep ==
    ASSUME PostInv, OnlyMarks, UNCHANGED <<posts, recent>>,
           plan' \in Plans, limit' \in [Plans -> Nat \cup {NoLimit}], used' \in Nat,
           owed' \in [Calls -> Nat], UsageIsEarned',
           \A d \in Calls : Stopped(d)' /\ call[d].pc # "done" =>
              /\ limit'[call[d].plan] # NoLimit /\ limit'[call[d].plan] <= used'
              /\ call[d].pc = "usage" => call[d].max <= used'
    PROVE  PostInv'
<1>1. PostTypes'
  BY DEF PostInv, PostTypes, OnlyMarks
<1>2. ASSUME NEW d \in Calls
      PROVE  CallIsSound(d)'
  <2>1. CallIsSound(d)
    BY DEF PostInv
  <2>2. AuthorIsKnown(d)' /\ CreatorKnows(d)'
    <3>1. call'[d] \in CallRecord /\ call[d] \in CallRecord
      BY CallTyped DEF OnlyMarks
    <3>2. call'[d].full \in BOOLEAN /\ call[d].full \in BOOLEAN
      BY <3>1 DEF CallRecord
    <3>3. QED
      BY <2>1, <3>2 DEF CallIsSound, AuthorIsKnown, CreatorKnows, Over, OnlyMarks
  <2>3. PlanIsCarried(d)' /\ FullCallStops(d)'
    BY <2>1 DEF CallIsSound, PlanIsCarried, FullCallStops, Stopped, OnlyMarks
  <2>4. CallRecalls(d)'
    BY <2>1, EarlierCallsKnown DEF CallIsSound, CallRecalls, OnlyMarks
  <2>5. SearchIsDone(d)'
    BY <2>1 DEF CallIsSound, SearchIsDone, OnlyMarks
  <2>6. QED
    BY <2>2, <2>3, <2>4, <2>5 DEF CallIsSound
<1>3. PostsAreMarked'
  BY DEF PostInv, PostsAreMarked
<1>4. RetriesDoNotRepeat'
  <2>1. \A i \in 1..Len(posts) : posts[i].by \in Calls \cup {ByHand}
    BY PostsTyped DEF PostRecord
  <2>2. Made' = Made /\ \A q \in Made : /\ call'[posts[q].by].after = call[posts[q].by].after
                                        /\ call'[posts[q].by].saw = call[posts[q].by].saw
    BY <2>1 DEF Made, OnlyMarks
  <2>3. QED
    BY <2>2 DEF PostInv, RetriesDoNotRepeat, Hidden
<1>5. QED
  BY <1>1, <1>2, <1>3, <1>4 DEF PostInv

\* A call that is stopped was admitted with a plan.
LEMMA StoppedCarries ==
    ASSUME PostInv, NEW d \in Calls, Stopped(d), call[d].pc # "done"
    PROVE  call[d].plan \in Plans
<1>1. CallIsSound(d)
  BY DEF PostInv
<1>2. call[d].pc \notin EarlySteps
  BY <1>1 DEF CallIsSound, AuthorIsKnown, Stopped
<1>3. QED
  BY <1>1, <1>2 DEF CallIsSound, PlanIsCarried, Stopped, EarlySteps

CallsAreTyped == \A d \in Calls : call[d] \in CallRecord

LEMMA FullIsAMark ==
    ASSUME CallsAreTyped, NEW full \in [Calls -> BOOLEAN],
           \A d \in Calls : full[d] => call[d].full,
           call' = [d \in Calls |-> [call[d] EXCEPT !.full = full[d]]]
    PROVE  OnlyMarks /\ \A d \in Calls : call'[d].full = full[d] /\ call'[d].tally = call[d].tally
<1> DEFINE r(d) == [call[d] EXCEPT !.full = full[d]]
<1>1. ASSUME NEW d \in Calls
      PROVE  /\ r(d) \in CallRecord /\ r(d).pc = call[d].pc /\ r(d).tool = call[d].tool
             /\ r(d).content = call[d].content /\ r(d).group = call[d].group
             /\ r(d).aim = call[d].aim /\ r(d).max = call[d].max
             /\ r(d).made = call[d].made /\ r(d).after = call[d].after
             /\ r(d).saw = call[d].saw /\ r(d).who = call[d].who
             /\ r(d).plan = call[d].plan /\ r(d).full = full[d] /\ r(d).tally = call[d].tally
  <2>1. call[d] \in CallRecord
    BY DEF CallsAreTyped
  <2>2. r(d) \in CallRecord
    BY <2>1 DEF CallRecord
  <2>3. QED
    BY <2>1, <2>2 DEF CallRecord
<1>2. call' = [d \in Calls |-> r(d)]
  OBVIOUS
<1> HIDE DEF r
<1>3. call' \in [Calls -> CallRecord] /\ \A d \in Calls : call'[d] = r(d)
  BY <1>1, <1>2
<1>4. QED
  BY <1>1, <1>3 DEF OnlyMarks

\* Only the limits change, and what is full with them.
LEMMA LimitStays ==
    ASSUME PostInv, OnlyMarks, UNCHANGED <<posts, recent, used, owed>>,
           \A d \in Calls : call'[d].tally = call[d].tally,
           plan' \in Plans, limit' \in [Plans -> Nat \cup {NoLimit}],
           \/ limit' = limit
           \/ \A d \in Calls : Stopped(d)' /\ call[d].pc # "done" =>
                 limit'[call[d].plan] # NoLimit /\ limit'[call[d].plan] <= used
    PROVE  PostInv'
<1>1. ASSUME NEW d \in Calls, Stopped(d)', call[d].pc # "done"
      PROVE  /\ limit'[call[d].plan] # NoLimit /\ limit'[call[d].plan] <= used
             /\ call[d].pc = "usage" => call[d].max <= used
  <2>1. CallIsSound(d) /\ Stopped(d)
    BY <1>1 DEF PostInv, Stopped, OnlyMarks
  <2>2. QED
    BY <1>1, <2>1 DEF CallIsSound, FullCallStops
<1>2. UsageIsEarned'
  <2>1. /\ Len(posts) <= Len(posts') /\ Len(posts') \in Nat
        /\ \A d \in Calls : call'[d].made = call[d].made
    BY DEF PostInv, PostTypes, OnlyMarks
  <2>2. QED
    BY <2>1, UsageStays
<1>3. used' \in Nat /\ owed' \in [Calls -> Nat]
  BY DEF PostInv, PostTypes
<1>4. QED
  BY <1>1, <1>2, <1>3, MarksKeep

\* The increment is applied, or nobody is told that it was not.
LEMMA IncrementKeeps ==
    ASSUME PostInv, NEW c \in Calls, NEW stored \in BOOLEAN, IncrementUsage(c, stored)
    PROVE  PostInv'
<1> DEFINE made == call[c].made
           r == [call[c] EXCEPT !.tally = "counted"]
<1>1. /\ owed[c] > 0 /\ owed' = [owed EXCEPT ![c] = 0]
      /\ UNCHANGED <<posts, recent, plan, limit>>
      /\ \/ stored /\ used' = used + owed[c] /\ call' = [call EXCEPT ![c] = r]
         \/ ~stored /\ UNCHANGED <<used, call>>
  BY DEF IncrementUsage
<1>2. /\ posts \in Seq(PostRecord) /\ Len(posts) \in Nat /\ owed[c] \in Nat /\ used \in Nat
      /\ used' \in Nat /\ used <= used' /\ owed' \in [Calls -> Nat]
      /\ owed'[c] = 0 /\ \A d \in Calls : d # c => owed'[d] = owed[d]
  BY <1>1 DEF PostInv, PostTypes
<1>3. /\ call[c].tally = "due" /\ owed[c] = Cardinality(made) /\ used = Cardinality(Counted)
  BY <1>1, <1>2 DEF PostInv, UsageIsEarned
<1>4. call[c] \in CallRecord
  BY CallTyped
<1>5. /\ r \in CallRecord /\ r.pc = call[c].pc /\ r.tool = call[c].tool
      /\ r.content = call[c].content /\ r.group = call[c].group
      /\ r.aim = call[c].aim /\ r.max = call[c].max
      /\ r.made = made /\ r.after = call[c].after
      /\ r.saw = call[c].saw /\ r.who = call[c].who
      /\ r.plan = call[c].plan /\ r.full = call[c].full /\ r.tally = "counted"
  <2>1. r \in CallRecord
    BY <1>4 DEF CallRecord
  <2>2. QED
    BY <1>4, <2>1 DEF CallRecord
<1> HIDE DEF r
<1>6. /\ call' \in [Calls -> CallRecord]
      /\ call'[c] = IF stored THEN r ELSE call[c]
      /\ \A d \in Calls : d # c => call'[d] = call[d]
  <2>1. CASE stored
    BY <1>1, <1>5, <2>1, CallTakes
  <2>2. CASE ~stored
    BY <1>1, <2>2 DEF PostInv, PostTypes
  <2>3. QED
    BY <2>1, <2>2
<1>7. OnlyMarks
  BY <1>3, <1>5, <1>6 DEF OnlyMarks
<1>8. UsageIsEarned'
  <2>1. used' = Cardinality(Counted')
    <3>1. CASE ~stored
      <4>1. Counted' = Counted
        BY <1>1, <3>1 DEF Counted
      <4>2. QED
        BY <1>1, <1>3, <3>1, <4>1
    <3>2. CASE stored
      <4>1. \A d \in Calls : \A i \in call[d].made : i \in 1..Len(posts) /\ posts[i].by = d
        BY DEF PostInv, CallIsSound, AuthorIsKnown
      <4>2. Counted' = Counted \cup made
        BY <1>1, <1>5, <1>6, <3>2, <4>1 DEF Counted
      <4>3. Counted \cap made = {}
        BY <1>3, <4>1 DEF Counted
      <4>4. IsFiniteSet(Counted) /\ IsFiniteSet(made) /\ Cardinality(Counted) \in Nat
            /\ Cardinality(made) \in Nat
        <5>1. Counted \in SUBSET (1..Len(posts)) /\ made \in SUBSET (1..Len(posts))
          BY <4>1 DEF Counted
        <5>2. QED
          BY <1>2, <5>1, FinitelyManyPosts
      <4>5. Cardinality(Counted \cup made)
              = Cardinality(Counted) + Cardinality(made) - Cardinality({})
        BY <4>3, <4>4, FS_Union
      <4>6. Cardinality({}) = 0
        BY FS_EmptySet
      <4>7. QED
        BY <1>1, <1>3, <3>2, <4>2, <4>4, <4>5, <4>6
    <3>3. QED
      BY <3>1, <3>2
  <2>2. ASSUME NEW d \in Calls, owed'[d] # 0
        PROVE  call'[d].tally = "due" /\ owed'[d] = Cardinality(call'[d].made)
    BY <1>2, <1>6, <2>2 DEF PostInv, UsageIsEarned
  <2>3. QED
    BY <2>1, <2>2 DEF UsageIsEarned
<1>9. ASSUME NEW d \in Calls, Stopped(d)', call[d].pc # "done"
      PROVE  /\ limit'[call[d].plan] # NoLimit /\ limit'[call[d].plan] <= used'
             /\ call[d].pc = "usage" => call[d].max <= used'
  <2>1. CallIsSound(d) /\ Stopped(d)
    BY <1>5, <1>6, <1>9 DEF PostInv, Stopped
  <2>2. /\ limit[call[d].plan] # NoLimit /\ limit[call[d].plan] <= used
        /\ call[d].pc = "usage" => call[d].max # NoLimit /\ call[d].max <= used
    BY <1>9, <2>1 DEF CallIsSound, FullCallStops
  <2>3. call[d].max \in Nat \cup {NoLimit} /\ limit[call[d].plan] \in Nat \cup {NoLimit}
    <3>1. call[d].plan \in Plans
      BY <1>9, <2>1, StoppedCarries
    <3>2. QED
      BY <3>1, CallTyped DEF CallRecord, PostInv, PostTypes
  <2>4. QED
    BY <1>1, <1>2, <2>2, <2>3
<1>10. QED
  BY <1>1, <1>2, <1>7, <1>8, <1>9, MarksKeep DEF PostInv, PostTypes

\* A post is changed where the call aims; its author and key stay.
LEMMA ChangeKeepsPosts ==
    ASSUME PostInv, NEW i \in 1..Len(posts), NEW p \in PostRecord,
           posts' = [posts EXCEPT ![i] = p],
           p.by = posts[i].by, p.key = posts[i].key, p.heard = posts[i].heard,
           posts[i].listed => p.listed, posts[i].forgotten => p.forgotten,
           posts[i].touched => p.touched,
           ~p.touched => p.alive = posts[i].alive /\ p.content = posts[i].content
                         /\ p.platform = posts[i].platform
    PROVE  PostsAreKept
<1>1. posts \in Seq(PostRecord)
  BY DEF PostInv, PostTypes
<1>2. /\ posts' \in Seq(PostRecord) /\ Len(posts') = Len(posts) /\ posts'[i] = p
      /\ \A j \in 1..Len(posts) : j # i => posts'[j] = posts[j]
  BY <1>1
<1>3. ASSUME NEW j \in 1..Len(posts)
      PROVE  /\ posts'[j].by = posts[j].by /\ posts'[j].key = posts[j].key
             /\ posts'[j].heard = posts[j].heard
             /\ posts[j].listed => posts'[j].listed
             /\ posts[j].forgotten => posts'[j].forgotten
             /\ posts[j].touched => posts'[j].touched
             /\ ~posts'[j].touched =>
                   /\ posts'[j].alive
                   /\ <<posts'[j].content, posts'[j].platform>> = posts'[j].key
  <2>1. ~posts[j].touched => /\ posts[j].alive
                             /\ <<posts[j].content, posts[j].platform>> = posts[j].key
    BY DEF PostInv, PostsAreMarked
  <2>2. QED
    BY <1>2, <2>1
<1>4. QED
  BY <1>2, <1>3 DEF PostsAreKept

\* updateSocialPost and deleteSocialPost change the post the call was admitted with.
LEMMA EditKeeps ==
    ASSUME PostInv, NEW c \in Calls, LoadPost(c) \/ PutPost(c) \/ RemovePost(c)
    PROVE  PostInv'
<1>1. call[c].pc \in EditSteps /\ UNCHANGED <<recent, plan, limit, used, owed>>
  BY DEF LoadPost, PutPost, RemovePost, At, EditSteps
<1>2. CallIsSound(c) /\ call[c] \in CallRecord
  BY CallTyped DEF PostInv
<1> DEFINE i == call[c].aim
<1>3. i \in 1..Len(posts) /\ posts[i] \in PostRecord
  BY <1>1, <1>2, PostsTyped DEF CallIsSound, AuthorIsKnown
<1>4. /\ call[c].tool = "create" => call[c].content \in Contents
      /\ call[c].tool \in {"update", "delete"} => call[c].aim \in 1..Len(posts)
      /\ call[c].pc # "audit" /\ call[c].pc # "done" /\ call[c].pc \notin EarlySteps
      /\ call[c].tool # "create"  \/ call[c].content \in Contents
  BY <1>1, <1>2 DEF CallIsSound, CreatorKnows, EditSteps, EarlySteps
<1>5. CASE LoadPost(c)
  <2> DEFINE copy == posts[i].content
             r == [call[c] EXCEPT !.pc = "put", !.copy = copy]
  <2>1. call' = [call EXCEPT ![c] = r] /\ posts' = posts
    BY <1>5 DEF LoadPost
  <2>2. copy \in Contents \cup {"none"} /\ "put" \in CallSteps
    BY <1>3 DEF PostRecord, CallSteps, EditSteps
  <2> HIDE DEF copy
  <2>3. r \in CallRecord
    BY <1>2, <2>2 DEF CallRecord
  <2>4. /\ r.pc = "put" /\ r.tool = call[c].tool /\ r.content = call[c].content
        /\ r.aim = call[c].aim /\ r.made = call[c].made /\ r.after = call[c].after
        /\ r.saw = call[c].saw /\ r.full = call[c].full /\ r.who = call[c].who
        /\ r.plan = call[c].plan /\ r.tally = call[c].tally
    BY <1>2, <2>3 DEF CallRecord
  <2> HIDE DEF r
  <2>5. /\ call' \in [Calls -> CallRecord] /\ call'[c] = r
        /\ \A d \in Calls : d # c => call'[d] = call[d]
    BY <2>1, <2>3, CallTakes
  <2>6. OnlyCall(c)
    BY <1>1, <1>4, <2>4, <2>5 DEF OnlyCall, EarlySteps
  <2>7. PostsAreKept
    BY <2>1, SamePostsAreKept
  <2>8. FullCallStops(c)' /\ PlanIsCarried(c)'
    <3>1. SameBearer(c)
      BY <2>4, <2>5 DEF SameBearer
    <3>2. QED
      BY <1>1, <2>4, <2>5, <3>1, BearerStays DEF EarlySteps, EditSteps, CreateSteps
  <2>9. QED
    BY <1>1, <1>3, <1>4, <2>4, <2>5, <2>6, <2>7, <2>8, StepKeeps DEF CreateSteps
<1>6. CASE PutPost(c) \/ RemovePost(c)
  <2>1. PICK step \in {"read", "audit"}, content \in Contents \cup {"none"}, alive \in BOOLEAN :
           /\ Goto(c, step)
           /\ posts' = [posts EXCEPT ![i] = [posts[i] EXCEPT !.content = content,
                                                 !.alive = alive, !.touched = TRUE]]
    <3>1. CASE PutPost(c)
      <4> DEFINE content == IF call[c].content = "none" THEN call[c].copy ELSE call[c].content
      <4>1. /\ Goto(c, "read")
            /\ posts' = [posts EXCEPT ![i] = [posts[i] EXCEPT !.content = content, !.touched = TRUE]]
        BY <3>1 DEF PutPost
      <4>2. content \in Contents \cup {"none"}
        BY <1>2 DEF CallRecord
      <4> HIDE DEF content, i
      <4>3. [posts[i] EXCEPT !.content = content, !.touched = TRUE]
              = [posts[i] EXCEPT !.content = content, !.alive = posts[i].alive, !.touched = TRUE]
            /\ posts[i].alive \in BOOLEAN
        BY <1>3, <4>2 DEF PostRecord
      <4>4. QED
        BY <4>1, <4>2, <4>3
    <3>2. CASE RemovePost(c)
      <4>1. /\ Goto(c, "audit")
            /\ posts' = [posts EXCEPT ![i] = [posts[i] EXCEPT !.alive = FALSE, !.touched = TRUE]]
        BY <3>2 DEF RemovePost
      <4> HIDE DEF i
      <4>2. [posts[i] EXCEPT !.alive = FALSE, !.touched = TRUE]
              = [posts[i] EXCEPT !.content = posts[i].content, !.alive = FALSE, !.touched = TRUE]
            /\ posts[i].content \in Contents \cup {"none"}
        BY <1>3 DEF PostRecord
      <4>3. QED
        BY <4>1, <4>2
    <3>3. QED
      BY <1>6, <3>1, <3>2
  <2> DEFINE p == [posts[i] EXCEPT !.content = content, !.alive = alive, !.touched = TRUE]
  <2>2. /\ p \in PostRecord /\ p.by = posts[i].by /\ p.key = posts[i].key
        /\ p.heard = posts[i].heard /\ p.listed = posts[i].listed
        /\ p.forgotten = posts[i].forgotten /\ p.touched
    <3> HIDE DEF i
    <3>1. p \in PostRecord
      BY <1>3 DEF PostRecord
    <3>2. QED
      BY <1>3, <3>1 DEF PostRecord
  <2>3. posts' = [posts EXCEPT ![i] = p]
    BY <2>1
  <2> HIDE DEF p
  <2>4. PostsAreKept
    BY <1>3, <2>2, <2>3, ChangeKeepsPosts
  <2>5. step \in CallSteps /\ step \notin EditSteps \cup CreateSteps \cup EarlySteps
    BY <2>1 DEF CallSteps, EditSteps, CreateSteps, EarlySteps
  <2>6. /\ call' \in [Calls -> CallRecord] /\ call'[c].pc = step /\ call'[c].tool = call[c].tool
        /\ call'[c].content = call[c].content /\ call'[c].aim = call[c].aim
        /\ call'[c].made = call[c].made /\ call'[c].after = call[c].after
        /\ call'[c].saw = call[c].saw /\ SameBearer(c)
        /\ \A d \in Calls : d # c => call'[d] = call[d]
    BY <2>1, <2>5, GotoTakes
  <2>7. OnlyCall(c) /\ call'[c].full = call[c].full /\ FullCallStops(c)' /\ PlanIsCarried(c)'
    <3>1. OnlyCall(c) /\ call'[c].full = call[c].full
      BY <1>4, <2>5, <2>6 DEF OnlyCall, SameBearer
    <3>2. QED
      BY <1>1, <2>1, <2>5, <2>6, <3>1, BearerStays DEF EarlySteps, EditSteps
  <2>8. step \notin {"accepted", "list", "post", "plan", "usage"}
    OBVIOUS
  <2>9. QED
    BY <1>1, <1>4, <2>4, <2>5, <2>6, <2>7, <2>8, StepKeeps
<1>7. QED
  BY <1>5, <1>6

\* Nobody's step: the list shows a post, the memory of a key runs out, the clock ticks.
LEMMA OutsideKeepsPosts ==
    ASSUME PostInv,
           \/ \E i \in 1..Len(posts) : ShowInList(i)
           \/ \E key \in Keys : Forget(key)
           \/ Tick
    PROVE  PostInv'
<1>1. UNCHANGED <<call, plan, limit, used, owed>>
  BY DEF ShowInList, Forget, Tick
<1>2. OnlyCall("hand")
  BY <1>1, CallsAssumption DEF OnlyCall, PostInv, PostTypes
<1>3. posts \in Seq(PostRecord)
  BY DEF PostInv, PostTypes
<1>4. CASE Tick
  BY <1>1, <1>2, <1>4, CallsAssumption, SamePostsAreKept, CallKeeps DEF Tick
<1>5. CASE \E i \in 1..Len(posts) : ShowInList(i)
  <2>1. PICK i \in 1..Len(posts) :
           /\ posts' = [posts EXCEPT ![i].listed = TRUE]
           /\ recent' = recent
    BY <1>5 DEF ShowInList
  <2> DEFINE p == [posts[i] EXCEPT !.listed = TRUE]
  <2>2. posts[i] \in PostRecord
    BY PostsTyped
  <2>3. /\ p \in PostRecord /\ p.by = posts[i].by /\ p.key = posts[i].key
        /\ p.heard = posts[i].heard /\ p.listed /\ p.touched = posts[i].touched
        /\ p.forgotten = posts[i].forgotten /\ p.alive = posts[i].alive
        /\ p.content = posts[i].content /\ p.platform = posts[i].platform
    BY <2>2 DEF PostRecord
  <2>4. posts' = [posts EXCEPT ![i] = p]
    BY <2>1
  <2> HIDE DEF p
  <2>5. PostsAreKept
    BY <2>3, <2>4, ChangeKeepsPosts
  <2>6. QED
    BY <1>1, <1>2, <2>1, <2>5, CallsAssumption, CallKeeps
<1>6. CASE \E key \in Keys : Forget(key)
  <2>1. PICK key \in Keys : Forget(key)
    BY <1>6
  <2> DEFINE gone(i) == posts[i].forgotten \/ (posts[i].key = key /\ posts[i].heard)
             p(i) == [posts[i] EXCEPT !.forgotten = gone(i)]
  <2>2. /\ posts' = [i \in 1..Len(posts) |-> p(i)]
        /\ recent' = [recent EXCEPT ![key] = 0]
    BY <1>3, <2>1 DEF Forget
  <2>3. ASSUME NEW i \in 1..Len(posts)
        PROVE  /\ p(i) \in PostRecord /\ p(i).by = posts[i].by /\ p(i).key = posts[i].key
               /\ p(i).heard = posts[i].heard /\ p(i).listed = posts[i].listed
               /\ p(i).touched = posts[i].touched /\ p(i).alive = posts[i].alive
               /\ p(i).content = posts[i].content /\ p(i).platform = posts[i].platform
               /\ p(i).forgotten = gone(i)
               /\ posts[i].forgotten \in BOOLEAN /\ posts[i].heard \in BOOLEAN
    <3> DEFINE g == gone(i)
    <3>1. posts[i] \in PostRecord
      BY PostsTyped
    <3>2. posts[i].forgotten \in BOOLEAN /\ posts[i].heard \in BOOLEAN
      BY <3>1 DEF PostRecord
    <3>3. g \in BOOLEAN
      BY <3>2
    <3> HIDE DEF g
    <3>4. /\ [posts[i] EXCEPT !.forgotten = g] \in PostRecord
          /\ [posts[i] EXCEPT !.forgotten = g].by = posts[i].by
          /\ [posts[i] EXCEPT !.forgotten = g].key = posts[i].key
          /\ [posts[i] EXCEPT !.forgotten = g].heard = posts[i].heard
          /\ [posts[i] EXCEPT !.forgotten = g].listed = posts[i].listed
          /\ [posts[i] EXCEPT !.forgotten = g].touched = posts[i].touched
          /\ [posts[i] EXCEPT !.forgotten = g].alive = posts[i].alive
          /\ [posts[i] EXCEPT !.forgotten = g].content = posts[i].content
          /\ [posts[i] EXCEPT !.forgotten = g].platform = posts[i].platform
          /\ [posts[i] EXCEPT !.forgotten = g].forgotten = g
      BY <3>1, <3>3 DEF PostRecord
    <3>5. QED
      BY <3>2, <3>4 DEF g
  <2> HIDE DEF p
  <2>4. /\ posts' \in Seq(PostRecord) /\ Len(posts') = Len(posts)
        /\ \A i \in 1..Len(posts) : posts'[i] = p(i)
    BY <1>3, <2>2, <2>3
  <2>5. /\ recent' \in [Keys -> Nat]
        /\ \A k \in Keys : k # key => recent'[k] = recent[k]
    BY <2>2 DEF PostInv, PostTypes
  <2>6. \A i \in 1..Len(posts) : posts[i].key \in Keys
    BY PostsTyped DEF PostRecord
  <2>7. \A i \in 1..Len(posts) :
           /\ ~posts[i].touched => /\ posts[i].alive
                                   /\ <<posts[i].content, posts[i].platform>> = posts[i].key
           /\ posts[i].heard /\ ~posts[i].forgotten => recent[posts[i].key] # 0
    BY DEF PostInv, PostsAreMarked
  <2>8. \A i \in 1..Len(posts) :
           ~posts'[i].touched =>
              /\ posts'[i].alive
              /\ <<posts'[i].content, posts'[i].platform>> = posts'[i].key
    BY <2>3, <2>4, <2>7
  <2>9. PostsAreKept
    BY <2>3, <2>4, <2>8 DEF PostsAreKept
  <2>10. ASSUME NEW i \in 1..Len(posts), posts'[i].heard, ~posts'[i].forgotten
         PROVE  recent'[posts'[i].key] # 0
    <3>1. /\ posts'[i].heard = posts[i].heard /\ posts'[i].key = posts[i].key
          /\ posts'[i].forgotten = gone(i)
      BY <2>3, <2>4
    <3>2. posts[i].heard /\ ~posts[i].forgotten /\ posts[i].key # key
      BY <2>10, <3>1
    <3>3. recent[posts[i].key] # 0
      BY <2>7, <3>2
    <3>4. recent'[posts[i].key] = recent[posts[i].key]
      BY <2>5, <2>6, <3>2
    <3>5. QED
      BY <3>1, <3>3, <3>4
  <2>11. PostsAreMarked'
    BY <2>4, <2>8, <2>10 DEF PostsAreMarked
  <2>12. QED
    BY <1>1, <1>2, <2>5, <2>9, <2>11, CallsAssumption, CallKeeps
<1>7. QED
  BY <1>4, <1>5, <1>6

\* The administrator sets a limit or gives the tenant another plan: what is full stays
\* so only below a limit that is not raised.
LEMMA LimitKeeps ==
    ASSUME PostInv, NEW p \in Plans,
           SetTenantPlan(p) \/ \E n \in PlanLimits : SetPlanLimit(p, n)
    PROVE  PostInv'
<1>1. CallsAreTyped
  BY CallTyped DEF CallsAreTyped
<1>2. CASE SetTenantPlan(p)
  <2> DEFINE full == [d \in Calls |-> call[d].full /\ call[d].plan # NoPlan]
  <2>1. /\ plan' = p /\ UNCHANGED <<posts, recent, limit, used, owed>>
        /\ call' = [d \in Calls |-> [call[d] EXCEPT !.full = full[d]]]
    BY <1>2 DEF SetTenantPlan
  <2>2. full \in [Calls -> BOOLEAN] /\ \A d \in Calls : full[d] => call[d].full
    BY <1>1 DEF CallsAreTyped, CallRecord
  <2> HIDE DEF full
  <2>3. OnlyMarks /\ \A d \in Calls : call'[d].full = full[d] /\ call'[d].tally = call[d].tally
    BY <1>1, <2>1, <2>2, FullIsAMark
  <2>4. QED
    BY <2>1, <2>3, LimitStays DEF PostInv, PostTypes
<1>3. CASE \E n \in PlanLimits : SetPlanLimit(p, n)
  <2>1. PICK n \in PlanLimits : SetPlanLimit(p, n)
    BY <1>3
  <2> DEFINE full == [d \in Calls |-> call[d].full /\ ~(PlanOf(d) = p /\ Raised(p, n))]
  <2>2. /\ limit' = [limit EXCEPT ![p] = n] /\ UNCHANGED <<posts, recent, plan, used, owed>>
        /\ call' = [d \in Calls |-> [call[d] EXCEPT !.full = full[d]]]
    BY <2>1 DEF SetPlanLimit
  <2>3. /\ full \in [Calls -> BOOLEAN]
        /\ \A d \in Calls : full[d] => call[d].full /\ ~(PlanOf(d) = p /\ Raised(p, n))
    BY <1>1 DEF CallsAreTyped, CallRecord
  <2> HIDE DEF full
  <2>4. OnlyMarks /\ \A d \in Calls : call'[d].full = full[d] /\ call'[d].tally = call[d].tally
    BY <1>1, <2>2, <2>3, FullIsAMark
  <2>5. n \in Nat \cup {NoLimit} /\ limit \in [Plans -> Nat \cup {NoLimit}] /\ used \in Nat
    BY BoundsAssumption DEF PostInv, PostTypes
  <2>6. ASSUME NEW d \in Calls, Stopped(d)', call[d].pc # "done"
        PROVE  limit'[call[d].plan] # NoLimit /\ limit'[call[d].plan] <= used
    <3>1. Stopped(d) /\ call[d].plan \in Plans /\ PlanOf(d) = call[d].plan
      <4>1. CallIsSound(d) /\ Stopped(d)
        BY <2>6, <2>3, <2>4 DEF PostInv, Stopped, OnlyMarks
      <4>2. call[d].plan \in Plans
        BY <2>6, <4>1, StoppedCarries
      <4>3. NoPlan \notin Plans
        BY PlansAssumption DEF NoPlan
      <4>4. QED
        BY <4>1, <4>2, <4>3 DEF PlanOf
    <3>2. limit[call[d].plan] # NoLimit /\ limit[call[d].plan] <= used
      BY <2>6, <3>1 DEF PostInv, CallIsSound, FullCallStops
    <3>3. CASE call[d].plan # p
      BY <2>2, <2>5, <3>1, <3>2, <3>3
    <3>4. CASE call[d].plan = p
      <4>1. ~Raised(p, n)
        BY <2>6, <2>3, <2>4, <3>1, <3>4 DEF Stopped
      <4>2. n # NoLimit /\ n <= limit[p]
        BY <2>5, <3>2, <3>4, <4>1 DEF Raised
      <4>3. QED
        BY <2>2, <2>5, <3>2, <3>4, <4>2
    <3>5. QED
      BY <3>3, <3>4
  <2>7. limit' \in [Plans -> Nat \cup {NoLimit}]
    BY <2>2, <2>5
  <2>8. QED
    BY <2>2, <2>4, <2>6, <2>7, LimitStays DEF PostInv, PostTypes
<1>4. QED
  BY <1>2, <1>3

\* The new month begins with an empty row; no call is known to be late for it.
LEMMA NextMonthKeeps ==
    ASSUME PostInv, NextMonth
    PROVE  PostInv'
<1> DEFINE r(d) == [call[d] EXCEPT !.full = FALSE, !.tally = "none"]
<1>1. /\ used' = 0 /\ owed' = [c \in Calls |-> 0] /\ call' = [d \in Calls |-> r(d)]
      /\ UNCHANGED <<posts, recent, plan, limit>>
  BY DEF NextMonth
<1>2. ASSUME NEW d \in Calls
      PROVE  /\ r(d) \in CallRecord /\ r(d).pc = call[d].pc /\ r(d).tool = call[d].tool
             /\ r(d).content = call[d].content /\ r(d).group = call[d].group
             /\ r(d).aim = call[d].aim /\ r(d).max = call[d].max
             /\ r(d).made = call[d].made /\ r(d).after = call[d].after
             /\ r(d).saw = call[d].saw /\ r(d).who = call[d].who
             /\ r(d).plan = call[d].plan /\ ~r(d).full /\ r(d).tally = "none"
  <2>1. call[d] \in CallRecord
    BY CallTyped
  <2>2. r(d) \in CallRecord
    BY <2>1 DEF CallRecord
  <2>3. QED
    BY <2>1, <2>2 DEF CallRecord
<1> HIDE DEF r
<1>3. call' \in [Calls -> CallRecord] /\ \A d \in Calls : call'[d] = r(d)
  BY <1>1, <1>2
<1>4. OnlyMarks
  BY <1>2, <1>3 DEF OnlyMarks
<1>5. UsageIsEarned'
  <2>1. Counted' = {}
    BY <1>2, <1>3 DEF Counted
  <2>2. QED
    BY <1>1, <2>1, FS_EmptySet DEF UsageIsEarned
<1>6. \A d \in Calls : ~Stopped(d)'
  BY <1>2, <1>3 DEF Stopped
<1>7. owed' \in [Calls -> Nat] /\ used' \in Nat
  BY <1>1
<1>8. QED
  BY <1>1, <1>4, <1>5, <1>6, <1>7, MarksKeep DEF PostInv, PostTypes

\* The process starts anew: calls and increments are gone, and the memory of the posts.
LEMMA RestartKeeps ==
    ASSUME PostInv, Restart
    PROVE  PostInv'
<1> DEFINE r(d) == IF call[d].pc \in {"new", "done"} THEN call[d] ELSE Ended(d, "error")
           p(i) == [posts[i] EXCEPT !.forgotten = TRUE]
<1>1. /\ call' = [d \in Calls |-> r(d)] /\ posts' = [i \in DOMAIN posts |-> p(i)]
      /\ recent' = [k \in Keys |-> 0] /\ owed' = [d \in Calls |-> 0]
      /\ UNCHANGED <<plan, limit, used>>
  BY DEF Restart
<1>2. posts \in Seq(PostRecord)
  BY DEF PostInv, PostTypes
<1>3. ASSUME NEW i \in 1..Len(posts)
      PROVE  /\ p(i) \in PostRecord /\ p(i).by = posts[i].by /\ p(i).key = posts[i].key
             /\ p(i).heard = posts[i].heard /\ p(i).listed = posts[i].listed
             /\ p(i).touched = posts[i].touched /\ p(i).alive = posts[i].alive
             /\ p(i).content = posts[i].content /\ p(i).platform = posts[i].platform
             /\ p(i).forgotten
  <2>1. posts[i] \in PostRecord
    BY PostsTyped
  <2>2. p(i) \in PostRecord
    BY <2>1 DEF PostRecord
  <2>3. QED
    BY <2>1, <2>2 DEF PostRecord
<1> HIDE DEF p
<1>4. /\ posts' \in Seq(PostRecord) /\ Len(posts') = Len(posts)
      /\ \A i \in 1..Len(posts) : posts'[i] = p(i)
  BY <1>1, <1>2, <1>3
<1>5. ASSUME NEW d \in Calls
      PROVE  /\ r(d) \in CallRecord
             /\ r(d).pc \in {"new", "done"}
             /\ r(d).pc = "new" => r(d) = call[d]
             /\ call[d].pc = "done" => r(d).pc = "done"
             /\ Over(d) => r(d).pc = "done"
             /\ r(d).tool = "none" \/ r(d) = call[d]
             /\ r(d).made = call[d].made /\ r(d).after = call[d].after
             /\ r(d).saw = call[d].saw /\ r(d).full = call[d].full
             /\ r(d).tally = call[d].tally /\ (call[d].full => r(d).who = call[d].who)
  BY CallTyped, EndedKnown DEF Over
<1> HIDE DEF r
<1>6. call' \in [Calls -> CallRecord] /\ \A d \in Calls : call'[d] = r(d)
  BY <1>1, <1>5
<1>7. PostTypes'
  BY <1>1, <1>4, <1>6 DEF PostInv, PostTypes
<1>8. \A i \in 1..Len(posts) :
         ~posts[i].touched => /\ posts[i].alive
                              /\ <<posts[i].content, posts[i].platform>> = posts[i].key
  BY DEF PostInv, PostsAreMarked
<1>9. \A i \in 1..Len(posts) :
         /\ posts'[i].by = posts[i].by /\ posts'[i].key = posts[i].key
         /\ posts'[i].listed = posts[i].listed /\ posts'[i].forgotten
         /\ posts'[i].touched = posts[i].touched
         /\ ~posts'[i].touched =>
               /\ posts'[i].alive
               /\ <<posts'[i].content, posts'[i].platform>> = posts'[i].key
  BY <1>3, <1>4, <1>8
<1>10. ASSUME NEW d \in Calls
       PROVE  CallIsSound(d)'
  <2>1. CallIsSound(d)
    BY DEF PostInv
  <2>2. AuthorIsKnown(d)'
    BY <1>4, <1>5, <1>6, <1>9, <2>1 DEF CallIsSound, AuthorIsKnown, Over, EarlySteps, EditSteps
  <2>3. CreatorKnows(d)'
    BY <1>4, <1>5, <1>6, <2>1 DEF CallIsSound, CreatorKnows, CreateSteps
  <2>4. FullCallStops(d)' /\ PlanIsCarried(d)'
    <3>1. CASE call[d].pc = "new"
      BY <1>1, <1>5, <1>6, <2>1, <3>1
         DEF CallIsSound, AuthorIsKnown, FullCallStops, PlanIsCarried, Stopped, EarlySteps
    <3>2. CASE call[d].pc # "new"
      BY <1>1, <1>5, <1>6, <2>1, <3>2 DEF CallIsSound, FullCallStops, PlanIsCarried, Stopped
    <3>3. QED
      BY <3>1, <3>2
  <2>5. CallRecalls(d)'
    BY <1>4, <1>5, <1>6, <1>9, <2>1, EarlierCallsKnown DEF CallIsSound, CallRecalls
  <2>6. SearchIsDone(d)'
    BY <1>5, <1>6 DEF SearchIsDone
  <2>7. QED
    BY <2>2, <2>3, <2>4, <2>5, <2>6 DEF CallIsSound
<1>11. UsageIsEarned'
  <2>1. \A d \in Calls : call'[d].made = call[d].made /\ call'[d].tally = call[d].tally
    BY <1>5, <1>6
  <2>2. Len(posts) <= Len(posts') /\ Len(posts') \in Nat
    BY <1>2, <1>4
  <2>3. used' = used /\ \A d \in Calls : owed'[d] = 0
    BY <1>1
  <2>4. QED
    BY <2>1, <2>2, <2>3, UsageStays
<1>12. PostsAreMarked'
  BY <1>4, <1>9 DEF PostsAreMarked
<1>13. RetriesDoNotRepeat'
  <2>1. \A i \in 1..Len(posts) : posts[i].by \in Calls \cup {ByHand}
    BY PostsTyped DEF PostRecord
  <2>2. SUFFICES ASSUME NEW i \in Made', NEW j \in Made', posts'[i].key = posts'[j].key,
                        posts'[i].by \in call'[posts'[j].by].after
                 PROVE  Hidden(i, j)'
    BY DEF RetriesDoNotRepeat
  <2>3. /\ i \in Made /\ j \in Made /\ i \in 1..Len(posts) /\ j \in 1..Len(posts)
        /\ posts[j].by \in Calls
    BY <1>4, <1>9, <2>1, <2>2 DEF Made
  <2>4. /\ call'[posts[j].by].after = call[posts[j].by].after
        /\ call'[posts[j].by].saw = call[posts[j].by].saw
    BY <1>5, <1>6, <2>3
  <2>5. Hidden(i, j)
    BY <1>9, <2>2, <2>3, <2>4 DEF PostInv, RetriesDoNotRepeat
  <2>6. QED
    BY <1>9, <2>3, <2>4, <2>5 DEF Hidden
<1>14. QED
  BY <1>7, <1>10, <1>11, <1>12, <1>13 DEF PostInv

\* There is a post from the start, which no call made.
LEMMA PostInitInv == PostInit => PostInv
<1> SUFFICES ASSUME PostInit PROVE PostInv
  OBVIOUS
<1> DEFINE k == CHOOSE k \in Keys : TRUE
           p == NewPost(k[1], k[2], ByHand)
<1>1. k \in Keys
  BY KeysAssumption
<1>2. p \in PostRecord /\ p.by = ByHand /\ ~p.heard /\ p.alive /\ <<p.content, p.platform>> = p.key
  BY <1>1 DEF NewPost, PostRecord, Keys
<1>3. posts = <<p>>
  BY DEF PostInit
<1> HIDE DEF p
<1>4. /\ posts \in Seq(PostRecord) /\ Len(posts) = 1
      /\ \A i \in 1..Len(posts) : posts[i] = p
  BY <1>2, <1>3
<1>5. NewCall \in CallRecord
  BY DEF NewCall, CallRecord, CallSteps, EarlySteps, RoleNames, Bearers
<1>6. call \in [Calls -> CallRecord] /\ \A c \in Calls : call[c] = NewCall
  BY <1>5 DEF PostInit
<1>7. PostTypes
  <2>1. limit \in [Plans -> Nat \cup {NoLimit}]
    BY BoundsAssumption DEF PostInit
  <2>2. QED
    BY <1>4, <1>6, <2>1 DEF PostInit, PostTypes
<1>8. \A c \in Calls : CallIsSound(c)
  <2>1. \A c \in Calls : c # ByHand
    BY CallsAssumption DEF ByHand
  <2>2. QED
    BY <1>2, <1>4, <1>6, <2>1 DEF CallIsSound, AuthorIsKnown, Over, CreatorKnows,
         PlanIsCarried, FullCallStops, Stopped, CallRecalls, SearchIsDone, NewCall, EarlySteps,
         EditSteps, CreateSteps
<1>9. UsageIsEarned
  <2>1. Counted = {}
    BY <1>6 DEF Counted, NewCall
  <2>2. QED
    BY <2>1, FS_EmptySet DEF UsageIsEarned, PostInit
<1>10. PostsAreMarked /\ RetriesDoNotRepeat
  BY <1>2, <1>4 DEF PostsAreMarked, RetriesDoNotRepeat, Made
<1>11. QED
  BY <1>7, <1>8, <1>9, <1>10 DEF PostInv

LEMMA PostStepInv == PostInv /\ [PostNext]_postVars => PostInv'
<1> SUFFICES ASSUME PostInv, [PostNext]_postVars PROVE PostInv'
  OBVIOUS
<1>1. CASE UNCHANGED postVars
  <2>1. UNCHANGED <<call, posts, recent, plan, limit, used, owed>>
    BY <1>1 DEF postVars
  <2>2. PostTypes' /\ UsageIsEarned' /\ PostsAreMarked' /\ RetriesDoNotRepeat'
    BY <2>1 DEF PostInv, PostTypes, UsageIsEarned, Counted, PostsAreMarked,
       RetriesDoNotRepeat, Hidden, Made
  <2>3. ASSUME NEW c \in Calls PROVE CallIsSound(c)'
    <3>1. CallIsSound(c)
      BY DEF PostInv
    <3>2. QED
      BY <2>1, <3>1 DEF CallIsSound, AuthorIsKnown, Over, CreatorKnows, PlanIsCarried,
         FullCallStops, Stopped, CallRecalls, SearchIsDone
  <2>4. QED
    BY <2>2, <2>3 DEF PostInv
<1>2. ASSUME NEW c \in Calls,
             \/ \E who \in {"issued", "auth0", "admin"} : Bearer(c, who)
             \/ \E role \in Roles : ResolvePrincipal(c, role) \/ ResolveUser(c, role)
      PROVE  PostInv'
  BY <1>2, EarlyKeeps
<1>3. ASSUME NEW c \in Calls,
             \/ FindToken(c) \/ Context(c) \/ GetAccess(c) \/ EnforcePostLimit(c)
             \/ ResolveAccounts(c) \/ Verify(c) \/ Read(c) \/ Audit(c) \/ Fail(c)
      PROVE  PostInv'
  BY <1>3, EasyKeeps
<1>4. ASSUME NEW c \in Calls, AdmitSome(c) \/ ReadPlan(c) \/ Accept(c) \/ Record(c)
      PROVE  PostInv'
  BY <1>4, AdmitKeeps, ReadPlanKeeps, AcceptKeeps, RecordKeeps
<1>5. ASSUME NEW c \in Calls, (\E p \in Platforms : NextGroup(c, p)) \/ FindExisting(c)
      PROVE  PostInv'
  BY <1>5, SearchKeeps
<1>6. ASSUME NEW c \in Calls, LoadPost(c) \/ PutPost(c) \/ RemovePost(c)
      PROVE  PostInv'
  BY <1>6, EditKeeps
<1>7. ASSUME NEW c \in Calls, NEW b \in BOOLEAN, IncrementUsage(c, b) \/ Remember(c, b)
      PROVE  PostInv'
  BY <1>7, IncrementKeeps, RememberKeeps
<1>8. CASE \/ \E i \in 1..Len(posts) : ShowInList(i)
           \/ \E key \in Keys : Forget(key)
           \/ Tick
  BY <1>8, OutsideKeepsPosts
<1>9. CASE \/ \E p \in Plans : SetTenantPlan(p) \/ \E n \in PlanLimits : SetPlanLimit(p, n)
           \/ NextMonth
           \/ Restart
  BY <1>9, LimitKeeps, NextMonthKeeps, RestartKeeps
<1>10. QED
  BY <1>1, <1>2, <1>3, <1>4, <1>5, <1>6, <1>7, <1>8, <1>9 DEF PostNext

LEMMA PostInvariant == PostSpec => []PostInv
<1>1. PostInit => PostInv
  BY PostInitInv
<1>2. PostInv /\ [PostNext]_postVars => PostInv'
  BY PostStepInv
<1>3. QED
  BY <1>1, <1>2, PTL DEF PostSpec

\* A retry is never a second post: of two posts of the same content on the same platform,
\* made by calls of which one came after the other had ended, the earlier one was out of
\* sight of recentCreates and of HighLevel's list (createSocialPost).
THEOREM RetriesAreNotRepeated == PostSpec => []RetriesDoNotRepeat
<1>1. PostInv => RetriesDoNotRepeat
  BY DEF PostInv
<1>2. QED
  BY <1>1, PostInvariant, PTL

\* A call that carries a plan and came when the posts of the month were used up creates
\* nothing, however the limit is read and the counter incremented meanwhile, unless the
\* limit was raised or the month has changed (enforcePostLimit).
THEOREM FullPlansStayFull == PostSpec => []FullPlanStaysFull
<1>1. PostInv => FullPlanStaysFull
  BY DEF PostInv, CallIsSound, FullCallStops, Stopped, FullPlanStaysFull
<1>2. QED
  BY <1>1, PostInvariant, PTL

\* The row of the month never has more posts than HighLevel accepted from calls whose count
\* was started that month (recordUsage, incrementUsage).
THEOREM UsageIsNotOverstated == PostSpec => []UsageNeverOverstates
<1>1. PostInv => UsageNeverOverstates
  <2> SUFFICES ASSUME PostInv PROVE UsageNeverOverstates
    OBVIOUS
  <2>1. posts \in Seq(PostRecord) /\ used = Cardinality(Counted)
    BY DEF PostInv, PostTypes, UsageIsEarned
  <2>2. \A c \in Calls : \A i \in call[c].made : i \in 1..Len(posts) /\ posts[i].by = c
    BY DEF PostInv, CallIsSound, AuthorIsKnown
  <2>3. Counted \in SUBSET Charged /\ Charged \in SUBSET (1..Len(posts))
    <3>1. ByHand \notin Calls
      BY CallsAssumption DEF ByHand
    <3>2. QED
      BY <2>2, <3>1 DEF Counted, Charged, Made
  <2>4. IsFiniteSet(Charged) /\ Cardinality(Charged) \in Nat
    BY <2>1, <2>3, FinitelyManyPosts
  <2>5. Cardinality(Counted) <= Cardinality(Charged)
    BY <2>3, <2>4, FS_Subset
  <2>6. QED
    BY <2>1, <2>5 DEF UsageNeverOverstates
<1>2. QED
  BY <1>1, PostInvariant, PTL

=============================================================================
