---------------------------- MODULE ZaloMessages ----------------------------
(***************************************************************************)
(* Messages between the Official Account of one centre and its             *)
(* conversations in HighLevel: what Zalo's webhook brings in is pushed     *)
(* into the conversation of the customer's contact, what the staff answer  *)
(* is sent to the customer, and what fails is kept in the sync log for the *)
(* button "send again".                                                    *)
(*                                                                         *)
(* Both webhooks are answered before they are handled, so a handler that   *)
(* dies is never called again.  A step is one SQL statement, one upstream  *)
(* call, or what a handler does between two awaits.                        *)
(***************************************************************************)
EXTENDS Naturals, Sequences, FiniteSets

CONSTANTS
    Customers,      \* Zalo users, each with a phone of their own
    Handlers,       \* webhook calls and retries that can be under way
    Events,         \* events Zalo may deliver
    Replies,        \* replies of the staff, each an attachment and a text
    Notices,        \* ZNS templates a workflow sends
    Mixes,          \* what one behaviour sees of these: a bound
    MaxContacts,    \* contacts at HighLevel
    MaxTroubles,    \* calls and statements that fail, answers lost, crashes
    NoOne           \* absence of a value

\* What is kept for a retry: a text or attachment of a customer, the text that
\* confirms a shared phone, and what the staff type in Zalo.
Messages == {"text", "shared", "staff"}
Kinds    == Messages \cup {"follow", "info"}

\* What a handler is about is an event, a reply or a notice.
ASSUME ItemsAssumption ==
    /\ Events \cap Replies = {} /\ Events \cap Notices = {} /\ Replies \cap Notices = {}
    /\ NoOne \notin Customers \cup Events \cup Replies \cup Notices \cup Kinds

VARIABLES
    mapping,    \* zalo_contacts: the contact of each customer, 0 without a row
    named,      \* customers whose row has a name
    field,      \* the connection has its "Zalo UID" field
    log,        \* zalo_sync_log: the rows that can be sent again
    handler,    \* the calls under way
    asked,      \* events, replies and notices delivered, or outside of the mix
    event,      \* what each delivered event says
    contact,    \* HighLevel: the contacts
    shown,      \* HighLevel: events in a conversation
    sent,       \* Zalo: how often each part reached its customer
    created,    \* history: how many contacts were made for a customer
    excused,    \* history: what a crash, a lost answer or an overlap happened to
    astray,     \* history: events a crash or an unwritten log row lost
    trouble     \* troubles so far

mailVars == <<mapping, named, field, log, handler, asked, event, contact,
              shown, sent, created, excused, astray, trouble>>

Parts == (Replies \X {1, 2}) \cup (Notices \X {2})

\* type: the failure to log; prof: what Zalo's profile of the customer told; old: the contact mapped so far.
Free == [at |-> "free", of |-> NoOne, who |-> NoOne, contact |-> 0, old |-> 0,
         prof |-> "none", entry |-> 0, linking |-> FALSE, type |-> "none"]

MailInit ==
    /\ mapping = [u \in Customers |-> 0] /\ named = {}
    /\ field = FALSE
    /\ log = <<>> /\ handler = [h \in Handlers |-> Free]
    /\ \E mix \in Mixes : asked = (Events \cup Replies \cup Notices) \ mix
    /\ event = [e \in Events |-> [kind |-> NoOne, from |-> NoOne]]
    /\ contact \in {<<>>} \cup {<<[phone |-> u, uid |-> NoOne]>> : u \in Customers}
    /\ shown = {} /\ sent = [p \in Parts |-> 0]
    /\ created = [u \in Customers |-> 0]
    /\ excused = {} /\ astray = {} /\ trouble \in 0..MaxTroubles

-----------------------------------------------------------------------------
\* Steps, failures and the log

Leave(h) == handler' = [handler EXCEPT ![h] = Free]

\* The end of the work: a retry marks its row, a webhook is over.
Finish(h) == IF handler[h].entry = 0 THEN Leave(h) ELSE handler' = [handler EXCEPT ![h].at = "resolve"]

Set(h, m)   == IF m.at = "end" THEN Finish(h) ELSE handler' = [handler EXCEPT ![h] = m]
Goto(h, at) == Set(h, [handler[h] EXCEPT !.at = at])

Trouble == trouble < MaxTroubles /\ trouble' = trouble + 1

\* A contact is made between the look at the mapping and its replacement.
Resolving(g, u) == handler[g].who = u /\ handler[g].at \in {"find", "make", "save", "linkfind", "linkmake"}

\* A plausible bug: what the staff wrote in Zalo is not kept.
ThrowCustomersOnly(h) ==
    LET m == handler[h] IN
    IF m.linking /\ event[m.of].kind = "shared" THEN Finish(h)
    ELSE IF m.entry # 0 \/ event[m.of].kind \notin Messages \ {"staff"} THEN Leave(h)
    ELSE Set(h, [m EXCEPT !.at = "log", !.type = "event"])

\* An exception: of a retry it goes to the administrator, of a webhook into the
\* log.  What follows a share of the phone is guarded on its own.
Throw(h) ==
    LET m == handler[h] IN
    IF m.linking /\ event[m.of].kind = "shared" THEN Finish(h)
    ELSE IF m.entry # 0 \/ event[m.of].kind \notin Messages THEN Leave(h)
    ELSE Set(h, [m EXCEPT !.at = "log", !.type = "event"])

\* The row being sent again is of a push.
Repeating(h) == handler[h].entry # 0 /\ log[handler[h].entry].type = "push"

\* The message that confirms a share of the phone goes on to link its contact.
Pushed(h) ==
    IF event[handler[h].of].kind = "shared" /\ ~Repeating(h) THEN "linkfind" ELSE "end"

\* logSync(): the row of a failure, unless the statement fails too.  What follows
\* a push that failed is still done.
Log(h) ==
    LET m == handler[h] IN
    /\ m.at = "log"
    /\ \/ /\ log' = Append(log, [type |-> m.type, of |-> m.of, who |-> m.who,
                                 contact |-> m.contact, resolved |-> FALSE])
          /\ UNCHANGED <<astray, trouble>>
       \/ /\ Trouble
          /\ astray' = astray \cup {m.of} /\ UNCHANGED log
    /\ IF m.type = "push" THEN Goto(h, Pushed(h)) ELSE Leave(h)
    /\ UNCHANGED <<mapping, named, field, asked, event, contact, shown, sent, created, excused>>

-----------------------------------------------------------------------------
\* Zalo's webhook: which customer, which contact

\* The signature is behind it.  When getConnectionByOa() fails, or the account is
\* not in state connected (a refresh that failed marks it), the event is only
\* written to the console.
Deliver(h, e) ==
    /\ handler[h].at = "free" /\ e \notin asked
    /\ asked' = asked \cup {e}
    /\ \E kind \in Kinds, u \in Customers :
         /\ event' = [event EXCEPT ![e] = [kind |-> kind, from |-> u]]
         /\ \/ /\ Set(h, [Free EXCEPT !.at = IF kind = "info" THEN "linkfind" ELSE "lookup", !.of = e, !.who = u])
               /\ UNCHANGED <<astray, trouble>>
            \/ /\ Trouble /\ astray' = astray \cup {e} /\ UNCHANGED handler
    /\ UNCHANGED <<mapping, named, field, log, contact, shown, sent, created, excused>>

\* Where a resolved contact leads.
Resolved(h) ==
    CASE event[handler[h].of].kind = "follow" -> "end"
      [] event[handler[h].of].kind = "staff"  -> "push"
      [] OTHER                              -> "touch"

\* resolveContact(): the mapping first.  A customer without a name has the profile
\* read again, once an hour.
Lookup(h) ==
    LET m == handler[h] IN
    /\ m.at = "lookup"
    /\ \/ /\ mapping[m.who] = 0
          /\ Goto(h, "find") /\ UNCHANGED trouble
       \/ /\ mapping[m.who] # 0
          /\ \E at \in {Resolved(h)} \cup (IF m.who \in named THEN {} ELSE {"profile"}) :
               Set(h, [m EXCEPT !.at = at, !.contact = mapping[m.who]])
          /\ UNCHANGED trouble
       \/ Trouble /\ Throw(h)
    /\ UNCHANGED <<mapping, named, field, log, asked, event, contact, shown, sent, created, excused, astray>>

\* refreshProfile(): the name, and the phone when HighLevel takes it.  Whatever
\* fails in it is ignored.
RefreshProfile(h) ==
    LET m == handler[h] IN
    /\ m.at = "profile"
    /\ \/ UNCHANGED <<named, contact>>
       \/ /\ named' = named \cup {m.who}
          /\ \/ UNCHANGED contact
             \/ contact' = [contact EXCEPT ![m.contact].phone = m.who]
    /\ Goto(h, Resolved(h))
    /\ UNCHANGED <<mapping, field, log, asked, event, shown, sent, created, excused, astray, trouble>>

\* findContactByPhone(): the contact with the phone, 0 for none or a failure.
ByPhone(u) == {c \in DOMAIN contact : contact[c].phone = u} \cup {0}

\* connWithUidField(): a missing field is made; a failure leaves it missing.
UidField == field' \in {field, TRUE}

\* The profile, and with a phone the contact that has it; then the UID field.
FindContact(h) ==
    LET m == handler[h] IN
    /\ m.at = "find"
    /\ \E prof \in {"none", "name", "phone"} :
         \E c \in IF prof = "phone" THEN ByPhone(m.who) ELSE {0} :
            Set(h, [m EXCEPT !.at = "make", !.prof = prof, !.contact = c])
    /\ UidField
    /\ UNCHANGED <<mapping, named, log, asked, event, contact, shown, sent, created, excused, astray, trouble>>

\* A contact for a customer; another call that has not found one is making its own.
NewContact(h, phone) ==
    LET u == handler[h].who IN
    /\ Len(contact) < MaxContacts
    /\ contact' = Append(contact, [phone |-> phone, uid |-> IF field THEN u ELSE NoOne])
    /\ created' = [created EXCEPT ![u] = @ + 1]
    /\ \/ /\ Set(h, [handler[h] EXCEPT !.at = "save", !.contact = Len(contact')])
          /\ excused' = IF mapping[u] # 0 \/ \E g \in Handlers \ {h} : Resolving(g, u)
                        THEN excused \cup {u} ELSE excused
          /\ UNCHANGED trouble
       \/ /\ Trouble /\ Throw(h)
          /\ excused' = excused \cup {u}

\* writeUidField(): a failure is only logged.
TagContact(h, c) ==
    /\ \/ field /\ contact' = [contact EXCEPT ![c].uid = handler[h].who]
       \/ UNCHANGED contact
    /\ Set(h, [handler[h] EXCEPT !.at = "save", !.contact = c])
    /\ UNCHANGED <<created, excused, trouble>>

\* The call for a contact is refused.
NoContact(h) ==
    /\ Trouble /\ Throw(h) /\ UNCHANGED <<contact, created, excused>>

MakeContact(h) ==
    LET m == handler[h] IN
    /\ m.at = "make"
    /\ \/ m.contact = 0 /\ (NoContact(h) \/ NewContact(h, IF m.prof = "phone" THEN m.who ELSE NoOne))
       \/ m.contact # 0 /\ TagContact(h, m.contact)
    /\ UNCHANGED <<mapping, named, field, log, asked, event, shown, sent, astray>>

\* A plausible bug: the mapping is written for contacts found by phone only.
SaveMappingOfFound(h) ==
    LET m == handler[h] IN
    /\ m.at = "save"
    /\ mapping' = IF m.contact \in ByPhone(m.who) THEN [mapping EXCEPT ![m.who] = m.contact] ELSE mapping
    /\ Goto(h, Resolved(h))
    /\ UNCHANGED <<named, field, log, asked, event, contact, shown, sent, created, excused, astray, trouble>>

\* saveMapping(): the last one to write decides.
SaveMapping(h) ==
    LET m == handler[h] IN
    /\ m.at = "save"
    /\ \/ /\ mapping' = [mapping EXCEPT ![m.who] = m.contact]
          /\ named' = IF m.prof # "none" THEN named \cup {m.who} ELSE named
          /\ Set(h, [m EXCEPT !.prof = "none", !.old = 0,
                             !.at = CASE ~m.linking -> Resolved(h)
                                      [] m.linking /\ event[m.of].kind = "info"   -> "touch"
                                      [] m.linking /\ event[m.of].kind = "shared" -> "end"])
          /\ UNCHANGED <<excused, trouble>>
       \/ /\ Trouble /\ Throw(h)
          /\ excused' = excused \cup {m.who}
          /\ UNCHANGED <<mapping, named>>
    /\ UNCHANGED <<field, log, asked, event, contact, shown, sent, created, astray>>

\* linkUidByPhone(): the UID field, the mapping so far, the contact with the phone.
\* After a message, syncPhoneAfterShare() may find no phone in profile or text.
LinkFind(h) ==
    LET m == handler[h] IN
    /\ m.at = "linkfind"
    /\ \/ /\ \E c \in ByPhone(m.who) :
               Set(h, [m EXCEPT !.at = "linkmake", !.old = mapping[m.who], !.contact = c,
                               !.prof = "name", !.linking = TRUE])
          /\ UidField /\ UNCHANGED trouble
       \/ event[m.of].kind = "shared" /\ Finish(h) /\ UNCHANGED <<field, trouble>>
       \/ Trouble /\ Finish(h) /\ UNCHANGED field
    /\ UNCHANGED <<mapping, named, log, asked, event, contact, shown, sent, created, excused, astray>>

LinkMake(h) ==
    LET m == handler[h] IN
    /\ m.at = "linkmake"
    /\ \/ m.contact # 0 /\ TagContact(h, m.contact)
       \/ /\ m.contact = 0 /\ m.old # 0          \* its contact gets the phone, if HighLevel takes it
          /\ \/ contact' = [contact EXCEPT ![m.old].phone = m.who]
             \/ UNCHANGED contact
          /\ Set(h, [m EXCEPT !.at = "save", !.contact = m.old])
          /\ UNCHANGED <<created, excused, trouble>>
       \/ m.contact = 0 /\ m.old = 0 /\ (NoContact(h) \/ NewContact(h, m.who))
    /\ UNCHANGED <<mapping, named, field, log, asked, event, shown, sent, astray>>

-----------------------------------------------------------------------------
\* Into the conversation

\* The time of the customer's last message, for the seven-day window.
Touch(h) ==
    LET m == handler[h] IN
    /\ m.at = "touch"
    /\ \/ Goto(h, IF m.linking THEN "end" ELSE "push") /\ UNCHANGED trouble
       \/ Trouble /\ Throw(h)
    /\ UNCHANGED <<mapping, named, field, log, asked, event, contact, shown, sent, created, excused, astray>>

\* pushToConversation(): HighLevel knows a message by its altId.  Attachments it
\* does not take are sent as text, within the step.
Push(h) ==
    LET m == handler[h] IN
    /\ m.at = "push"
    /\ \/ shown' = shown \cup {m.of} /\ Goto(h, Pushed(h)) /\ UNCHANGED trouble
       \/ /\ Trouble /\ shown' \in {shown, shown \cup {m.of}}
          /\ IF Repeating(h) THEN Leave(h) ELSE Set(h, [m EXCEPT !.at = "log", !.type = "push"])
    /\ UNCHANGED <<mapping, named, field, log, asked, event, contact, sent, created, excused, astray>>

-----------------------------------------------------------------------------
\* To the customer

\* handleGhlOutbound(): the customer mapped to the contact, else the one its UID
\* field names; without either the reply is refused.
Reply(h, r) ==
    /\ handler[h].at = "free" /\ r \notin asked
    /\ \E c \in DOMAIN contact :
         LET mapped == {u \in Customers : mapping[u] = c}
             found  == IF mapped # {} THEN mapped ELSE {contact[c].uid} \ {NoOne} IN
         \/ /\ \E u \in found :
                 Set(h, [Free EXCEPT !.at = "send1", !.of = r, !.who = u, !.contact = c])
            /\ UNCHANGED trouble
         \/ found = {} /\ UNCHANGED <<handler, trouble>>
         \/ Trouble /\ UNCHANGED handler
    /\ asked' = asked \cup {r}
    /\ UNCHANGED <<mapping, named, field, log, event, contact, shown, sent, created, excused, astray>>

\* handleZnsWebhook(): HighLevel's workflow may call it again after a 502.
Notice(h, n) ==
    /\ handler[h].at = "free" /\ n \notin asked
    /\ asked' = asked \cup {n}
    /\ \E u \in Customers : Set(h, [Free EXCEPT !.at = "send2", !.of = n, !.who = u])
    /\ UNCHANGED <<mapping, named, field, log, event, contact, shown, sent, created, excused, astray, trouble>>

\* A send that failed: a reply goes into the log or, from a retry, to the
\* administrator; a notice is refused for good or called again.
NotSent(h) ==
    LET m == handler[h] IN
    IF m.of \in Notices
      THEN Leave(h) /\ asked' \in {asked, asked \ {m.of}}
      ELSE /\ IF m.entry # 0 THEN Leave(h) ELSE Set(h, [m EXCEPT !.at = "log", !.type = "send"])
           /\ UNCHANGED asked

\* sendToZalo(): the attachment, then the text.  Zalo's error code is an answer;
\* a connection that broke may hide a delivery.
Send(h, part) ==
    LET m == handler[h]  p == <<m.of, part>> IN
    /\ m.at = <<"send1", "send2">>[part]
    /\ \/ /\ sent' = [sent EXCEPT ![p] = @ + 1]
          /\ IF part = 1 THEN Goto(h, "send2") ELSE Finish(h)
          /\ UNCHANGED <<asked, excused, trouble>>
       \/ Trouble /\ NotSent(h) /\ UNCHANGED <<sent, excused>>
       \/ /\ Trouble /\ NotSent(h)
          /\ sent' = [sent EXCEPT ![p] = @ + 1]
          /\ excused' = excused \cup {m.of}
    /\ UNCHANGED <<mapping, named, field, log, event, contact, shown, created, astray>>

-----------------------------------------------------------------------------
\* "Send again", and the rest

\* retryLog(): a row nobody has resolved, although somebody may be resolving it.
Retry(h, i) ==
    LET row == log[i] IN
    /\ handler[h].at = "free" /\ ~row.resolved
    /\ Set(h, [Free EXCEPT !.of = row.of, !.who = row.who, !.contact = row.contact, !.entry = i,
                             !.at = CASE row.type = "push"  -> "push"
                                      [] row.type = "event" -> "lookup"
                                      [] row.type = "send"  -> "send1"])
    /\ excused' = IF \E g \in Handlers : handler[g].entry = i THEN excused \cup {row.of} ELSE excused
    /\ UNCHANGED <<mapping, named, field, log, asked, event, contact, shown, sent, created, astray, trouble>>

\* A plausible bug: only messages for HighLevel are marked.
ResolvePushes(h) ==
    LET i == handler[h].entry IN
    /\ handler[h].at = "resolve"
    /\ log' = [log EXCEPT ![i].resolved = log[i].type # "send"]
    /\ Leave(h)
    /\ UNCHANGED <<mapping, named, field, asked, event, contact, shown, sent, created, excused, astray, trouble>>

Resolve(h) ==
    LET i == handler[h].entry IN
    /\ handler[h].at = "resolve"
    /\ \/ log' = [log EXCEPT ![i].resolved = TRUE] /\ UNCHANGED <<excused, trouble>>
       \/ Trouble /\ excused' = excused \cup {log[i].of} /\ UNCHANGED log
    /\ Leave(h)
    /\ UNCHANGED <<mapping, named, field, asked, event, contact, shown, sent, created, astray>>

\* The process dies with everything under way in it.
MailCrash ==
    /\ Trouble
    /\ handler' = [h \in Handlers |-> Free]
    /\ excused' = excused \cup {handler[h].who : h \in Handlers} \cup {handler[h].of : h \in Handlers}
    /\ astray' = astray \cup {handler[h].of : h \in {g \in Handlers : handler[g].entry = 0}}
    /\ UNCHANGED <<mapping, named, field, log, asked, event, contact, shown, sent, created>>

MailNext ==
    \/ \E h \in Handlers :
         \/ \E e \in Events : Deliver(h, e)
         \/ \E r \in Replies : Reply(h, r)
         \/ \E n \in Notices : Notice(h, n)
         \/ \E i \in DOMAIN log : Retry(h, i)
         \/ \E part \in {1, 2} : Send(h, part)
         \/ Lookup(h) \/ RefreshProfile(h) \/ FindContact(h) \/ MakeContact(h) \/ SaveMapping(h)
         \/ LinkFind(h) \/ LinkMake(h) \/ Touch(h) \/ Push(h) \/ Log(h) \/ Resolve(h)
    \/ MailCrash

-----------------------------------------------------------------------------
\* Properties

\* A message that reached the server is in the conversation, in the hands of a
\* handler, or in a row of the log that can be sent again, however many calls
\* failed; only a process that died with it, a failure before the handler's own
\* guard, or a log row that could not be written loses one.
MessagesAreKept ==
    \A e \in asked \cap Events :
        event[e].kind \in Messages =>
            \/ e \in shown \cup astray
            \/ \E h \in Handlers : handler[h].of = e
            \/ \E i \in DOMAIN log : log[i].of = e /\ ~log[i].resolved

\* A customer gets one contact, unless two handlers were looking for it at the
\* same time, an answer was lost, or the mapping could not be saved.
OneContactPerCustomer ==
    \A u \in Customers : created[u] <= 1 \/ u \in excused

\* The text of a reply, and a notice, reaches the customer once, however often
\* somebody sends the failed one again, unless an answer was lost, two retries
\* of one row overlapped, or the row could not be marked.
TextReachesOnce ==
    \A p \in Parts : p[2] = 2 => sent[p] <= 1 \/ p[1] \in excused
=============================================================================
