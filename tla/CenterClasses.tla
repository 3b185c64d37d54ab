--------------------------- MODULE CenterClasses ---------------------------
(* Classes, enrolment, timetable and attendance of one centre.  The records  *)
(* live at HighLevel; the app answers from a snapshot of them, taken when a  *)
(* webhook says something changed, plus overlay documents of its own writes. *)
(* A request keeps the AppState object it began with; the overlays are saved *)
(* whole and in the background; a check and the writes it allows are several *)
(* calls apart.                                                              *)
EXTENDS Fields, Naturals, Sequences, FiniteSets, FiniteSetsExt, SequencesExt

CONSTANTS
    Requests,       \* requests to the app, and what staff do at HighLevel itself
    Wishes,         \* sets of requests; a behaviour's come from one
    Size,           \* class -> si_so_toi_da, 0 when it has none
    StartGd,        \* enrolments at HighLevel when the app starts
    StartBase,      \* how many of them the stored snapshot has
    StartEnrol,     \* the enrolment overlay: rows for the others
    StartRooms,     \* class -> [slot, who]: the classes, their hour and teachers
    Quota,          \* make-up lessons an enrolment may book
    MaxApps,        \* bound: AppState objects built
    MaxSaves,       \* bound: saves under way at once
    MaxTroubles,    \* bound: lost answers, failed saves and restarts
    None

Enrolling == {"enrol", "newcomer", "move"}

\* The calls each request makes, one after the other.
Calls == [newcomer |-> <<"newStudent", "create", "linkPupil", "linkClass", "push">>,
          enrol    |-> <<"create", "linkPupil", "linkClass", "push">>,
          staff    |-> <<"create", "linkPupil", "linkClass">>,
          move     |-> <<"create", "linkPupil", "linkClass", "push", "close", "note">>,
          status   |-> <<"close", "note">>,
          schedule |-> <<"setHour", "noteHour">>,
          assign   |-> <<"unlinkTeacher", "linkTeacher", "noteTeacher">>,
          class    |-> <<"newClass", "noteClass">>,
          lessons  |-> <<"find", "newLesson", "linkLesson">>,
          attend   |-> <<"find", "newLesson", "linkLesson", "newMark", "linkMark", "count", "bump", "noteMark">>,
          makeup   |-> <<"find", "newLesson", "linkLesson", "newMark", "linkMark", "count", "bump", "noteBooking">>,
          deal     |-> <<"newPupil", "linkDeal">>]

ASSUME WishesAssumption ==
    \A W \in Wishes : \A q \in W :
        /\ q.op \in DOMAIN Calls
        /\ q.op \notin {"status", "deal"} => "lop" \in DOMAIN q
        /\ q.op \in Enrolling => q.lop \in DOMAIN Size
ASSUME SizeAssumption == Size \in [DOMAIN Size -> Nat]

\* The stored snapshot has the first enrolments; of the others, the overlay has those that
\* the app itself made, numbered as they came.
ASSUME StartAssumption ==
    /\ StartGd \in Seq({StartGd[i] : i \in DOMAIN StartGd})
    /\ \A i \in DOMAIN StartGd :
          /\ {"lop", "pupil", "class", "staff"} \subseteq DOMAIN StartGd[i]
          /\ i > StartBase /\ StartGd[i].pupil /\ StartGd[i].class /\ ~StartGd[i].staff =>
                \E k \in DOMAIN StartEnrol : StartEnrol[k].gd = i /\ StartEnrol[k].lop = StartGd[i].lop
    /\ StartBase \in 0..Len(StartGd)
    /\ StartEnrol \in Seq({StartEnrol[k] : k \in DOMAIN StartEnrol})
    /\ \A k \in DOMAIN StartEnrol :
          /\ {"n", "gd", "lop"} \subseteq DOMAIN StartEnrol[k]
          /\ StartEnrol[k].n = 999 + k
          /\ StartEnrol[k].gd \in DOMAIN StartGd /\ StartGd[StartEnrol[k].gd].lop = StartEnrol[k].lop

VARIABLES
    wish,      \* the requests of this behaviour that nobody made yet
    gd,        \* enrolments at HighLevel
    room,      \* classes at HighLevel
    lesson,    \* sessions at HighLevel
    mark,      \* attendance records at HighLevel
    pupil,     \* students at HighLevel made from a deal: deal -> how many, linked or not
    listed,    \* what its search shows of enrolments and sessions
    app,       \* the AppState objects built so far
    now,       \* the one in appStates, 0 for none
    store,     \* Postgres: the snapshot and the overlay documents
    saving,    \* saves under way, in the order they were issued
    writer,    \* ghl-write's tenant state: what may be written to; None when not loaded
    timer,     \* the resync and what it read
    req,       \* the requests
    troubles,
    past       \* classes whose size check could not see everything; whether requests
               \* overlapped or a new state was built before a save had landed

recordVars == <<gd, room, lesson, mark, pupil, listed>>
appVars    == <<app, now, store, saving>>
classVars  == <<wish, recordVars, appVars, writer, timer, req, troubles, past>>

Attending == {"dang_hoc", "tam_nghi"}
Linked(g) == g.pupil /\ g.class

Idle == [q |-> None, pc |-> "idle", app |-> 0, page |-> 0, n |-> 0, id |-> 0, ref |-> 0, got |-> None, at |-> 1]

NoDocs == [enrol |-> <<>>, over |-> <<>>, made |-> {}, lops |-> <<>>, marks |-> {}, booked |-> {}]

\* seedTenantFromGhl: enrolments tied to a student and a class, numbered as they come.
\* Teachers are not part of it.
Snapshot(gds, rooms) ==
    LET ids     == {i \in DOMAIN gds : Linked(gds[i])}
        Nth(n)  == CHOOSE i \in ids : Cardinality({j \in ids : j <= i}) = n
        Row(n, i) == [n |-> n, gd |-> i, hv |-> gds[i].hv, lop |-> gds[i].lop, st |-> gds[i].st]
    IN  [rows  |-> [n \in 1..Cardinality(ids) |-> Row(n, Nth(n))],
         rooms |-> [l \in DOMAIN rooms |-> rooms[l].slot]]

\* The enrolments of a class, and whether they are more than it holds.
Seats(g, l)    == {i \in DOMAIN g : g[i].lop = l /\ Linked(g[i])}
Overfull(g, l) == Size[l] # 0 /\ Cardinality(Seats(g, l)) > Size[l]

ClassInit ==
    /\ wish \in Wishes
    /\ gd = StartGd /\ room = StartRooms
    /\ lesson = <<>> /\ mark = <<>> /\ pupil = <<>>
    /\ listed = [gd |-> StartGd, lesson |-> <<>>]
    /\ app = <<>> /\ now = 0 /\ saving = <<>>
    /\ store = [base |-> Snapshot(SubSeq(StartGd, 1, StartBase), StartRooms),
                docs |-> [NoDocs EXCEPT !.enrol = StartEnrol]]
    /\ writer = None
    /\ timer = [pc |-> "off", read |-> None]
    /\ req = [r \in Requests |-> Idle]
    /\ troubles = 0
    /\ past = [blind |-> {l \in DOMAIN Size : Overfull(gd, l)}, overlap |-> FALSE]

Trouble == troubles < MaxTroubles /\ troubles' = troubles + 1
Waiting == \E r \in Requests : req[r].pc # "done"

------------------------------------------------------------------------------
\* What an AppState object shows

With(f, k, fields) == Put(f, k, Over(fields, At(f, k)))

AllStudents(a) ==
    LET rows == a.base.rows \o a.docs.enrol IN
    [i \in DOMAIN rows |-> Over(At(a.docs.over, rows[i].gd), rows[i])]

Classes(a)     == DOMAIN a.base.rooms \cup a.docs.made
Class(a, l)    ==
    Over(At(a.docs.lops, l),
         [who |-> None, slot |-> IF l \in DOMAIN a.base.rooms THEN a.base.rooms[l] ELSE None])
Roster(a, l)   == {i \in DOMAIN AllStudents(a) : AllStudents(a)[i].lop = l}

\* A plausible bug: the class counts as full one student too late.
IsFullLate(a, l) == Size[l] # 0 /\ Cardinality(Roster(a, l)) > Size[l]

\* Rows of every state count.
IsFull(a, l) == Size[l] # 0 /\ Cardinality(Roster(a, l)) >= Size[l]

\* A plausible bug: rows are numbered class by class.
NextEnrollNOfClass(a, l) == 1000 + Cardinality({k \in DOMAIN a.docs.enrol : a.docs.enrol[k].lop = l})

\* The number of a new row; the pages and the attendance overlay know students by it.
NextEnrollN(a, l) == 1000 + Len(a.docs.enrol)

\* findTeacherConflict: another class of the teacher at the same hour.
Conflict(a, l, who, slot) ==
    /\ who # None /\ slot # None
    /\ \E k \in Classes(a) \ {l} : Class(a, k).who = who /\ Class(a, k).slot = slot

\* A document of an object changes and is saved whole, without being waited for.
Keep(a, doc, value) ==
    /\ Len(saving) < MaxSaves
    /\ app' = [app EXCEPT ![a].docs[doc] = value]
    /\ saving' = Append(saving, [doc |-> doc, value |-> value])
    /\ UNCHANGED <<now, store>>

Blinded(ls) == past' = [past EXCEPT !.blind = @ \cup ls]

------------------------------------------------------------------------------
\* Requests

\* Those that staff or a webhook start go without the app's state.
Direct == {"staff", "deal"}

\* The next call of a request, and one that is still to come.
Step(r, call)  == req[r].pc = "calls" /\ Calls[req[r].q.op][req[r].at] = call
Ahead(r, call) ==
    req[r].pc = "calls" /\ \E k \in req[r].at..Len(Calls[req[r].q.op]) : Calls[req[r].q.op][k] = call

\* A request past its check that puts a student into a class.
Entering(l) == {r \in Requests : Ahead(r, "push") /\ req[r].q.lop = l}

End(r) == req' = [req EXCEPT ![r] = [Idle EXCEPT !.pc = "done"]]

Ask(r) ==
    /\ req[r].pc = "idle"
    /\ \E q \in wish :
         /\ wish' = wish \ {q}
         /\ req' = [req EXCEPT ![r] = [Idle EXCEPT !.q = q,
                       !.pc = IF q.op \in Direct THEN "check" ELSE IF q.op = "attend" THEN "page" ELSE "state"]]
    /\ past' = [past EXCEPT !.overlap = @ \/ \E p \in Requests : req[p].pc \notin {"idle", "done"}]
    /\ UNCHANGED <<recordVars, appVars, writer, timer, troubles>>

\* getAppState: the object there is, or a new one, built from the snapshot and then
\* the overlays; two requests may build one each and the later one stays.
GetAppState(r) ==
    /\ req[r].pc \in {"page", "state"} /\ now # 0
    /\ req' = [req EXCEPT ![r].pc = IF @ = "page" THEN "roster" ELSE "check", ![r].app = now]
    /\ UNCHANGED <<wish, recordVars, appVars, writer, timer, troubles, past>>

LoadSnapshot(r) ==
    /\ req[r].pc \in {"page", "state"} /\ now = 0
    /\ req' = [req EXCEPT ![r].pc = IF @ = "page" THEN "pageLoad" ELSE "load", ![r].got = store.base]
    /\ UNCHANGED <<wish, recordVars, appVars, writer, timer, troubles, past>>

LoadOverlays(r) ==
    /\ req[r].pc \in {"pageLoad", "load"} /\ Len(app) < MaxApps
    /\ app' = Append(app, [base |-> req[r].got, docs |-> store.docs])
    /\ now' = Len(app) + 1
    /\ req' = [req EXCEPT ![r].pc = IF @ = "pageLoad" THEN "roster" ELSE "check",
                          ![r].app = Len(app) + 1, ![r].got = None]
    \* a save that has not landed, and an object already there, are overlooked
    /\ LET missed == now # 0 \/ \E i \in DOMAIN saving : saving[i].doc = "enrol" IN
       past' = [past EXCEPT !.blind = @ \cup (IF missed THEN DOMAIN Size ELSE {}),
                            !.overlap = @ \/ saving # <<>>]
    /\ UNCHANGED <<wish, recordVars, store, saving, writer, timer, troubles>>

\* The first row of a number: the one the class page shows for it, and the one a mark
\* of that number is for.
Student(a, n) == LET s == AllStudents(a) IN s[Min({i \in DOMAIN s : s[i].n = n})]

\* GET /api/candy/class: the page shows the student of each number in the class; the
\* teacher marks one and the class and the number are sent.
OpenRoster(r) ==
    /\ req[r].pc = "roster"
    /\ LET a == app[req[r].app]  rows == Roster(a, req[r].q.lop) IN
       IF rows = {} THEN End(r)
       ELSE \E i \in rows :
              req' = [req EXCEPT ![r].pc = "state", ![r].page = req[r].app, ![r].n = AllStudents(a)[i].n]
    /\ UNCHANGED <<wish, recordVars, appVars, writer, timer, troubles, past>>

\* getTenantState: what the tenant's snapshot and overlays hold may be written to.
Writer ==
    IF writer # None THEN writer
    ELSE LET rows == store.base.rows \o store.docs.enrol IN
         [gd  |-> {rows[i].gd : i \in DOMAIN rows}, hv |-> {rows[i].hv : i \in DOMAIN rows},
          lop |-> DOMAIN store.base.rooms \cup store.docs.made, found |-> {}]

\* The check of each request, on the object it holds.
May(q, a, r) ==
    CASE q.op \in {"enrol", "move"} ->
           LET mine == {i \in DOMAIN AllStudents(a) : AllStudents(a)[i].hv = q.hv}
               first == AllStudents(a)[Min(mine)]
           IN /\ mine # {}
              /\ ~(first.lop = q.lop /\ (q.op = "move" \/ first.st = "dang_hoc"))
              /\ q.lop \in Classes(a) /\ ~IsFull(a, q.lop)
      [] q.op = "newcomer" -> q.lop \in Classes(a) /\ ~IsFull(a, q.lop)
      [] q.op = "schedule" -> q.lop \in Classes(a) /\ ~Conflict(a, q.lop, Class(a, q.lop).who, q.slot)
      [] q.op = "assign"   -> q.lop \in Classes(a) /\ ~Conflict(a, q.lop, q.who, Class(a, q.lop).slot)
      [] q.op = "class"    -> q.lop \notin Classes(a)
      [] q.op = "lessons"  -> q.lop \in Classes(a) /\ Class(a, q.lop).slot # None
      [] q.op = "attend"   -> /\ <<q.lop, q.day, req[r].n>> \notin a.docs.marks
                              /\ \E i \in DOMAIN AllStudents(a) : AllStudents(a)[i].n = req[r].n
      [] q.op = "makeup"   -> /\ \E i \in DOMAIN AllStudents(a) : AllStudents(a)[i].gd = q.gd
                              /\ <<q.gd, q.missed>> \notin a.docs.booked
                              /\ Cardinality({b \in a.docs.booked : b[1] = q.gd}) < Quota
                              /\ q.lop \in Classes(a)
      [] q.op = "deal"     -> ~(q.deal \in DOMAIN pupil /\ pupil[q.deal].linked)
      [] OTHER -> TRUE

\* The enrolment a request is about, as the object it holds has it.
About(q, a, r) ==
    CASE q.op = "attend" -> Student(a, req[r].n).gd
      [] q.op \in {"status", "move", "makeup"} -> q.gd
      [] OTHER -> 0

\* The check could not see a student who is being put into the class by another
\* request, or whom staff enrolled, or anything done through a newer object.
Overlooks(r, q, a) ==
    \/ Entering(q.lop) # {}
    \/ req[r].app # Len(app)
    \/ \E i \in DOMAIN gd : /\ gd[i].staff /\ gd[i].lop = q.lop
                            /\ \A k \in Roster(a, q.lop) : AllStudents(a)[k].gd # i

\* A mark that was made before, or of a number nobody has, is written no more; the marks
\* of the day are stored all the same.
Dismiss(r, a) ==
    IF req[r].q.op = "attend"
    THEN req' = [req EXCEPT ![r].pc = "calls", ![r].at = Len(Calls.attend), ![r].ref = None,
                            ![r].got = a.docs.marks]
    ELSE End(r)

Check(r) ==
    LET q == req[r].q  a == IF q.op \in Direct THEN None ELSE app[req[r].app] IN
    /\ req[r].pc = "check"
    /\ IF May(q, a, r)
       THEN /\ req' = [req EXCEPT ![r].pc = "calls", ![r].id = About(q, a, r),
                                  ![r].got = IF q.op = "attend" THEN a.docs.marks ELSE None]
            /\ writer' = IF q.op = "staff" THEN writer ELSE Writer
            /\ IF q.op \in Enrolling /\ Overlooks(r, q, a) THEN Blinded({q.lop}) ELSE UNCHANGED past
       ELSE Dismiss(r, a) /\ UNCHANGED <<writer, past>>
    /\ UNCHANGED <<wish, recordVars, appVars, timer, troubles>>

------------------------------------------------------------------------------
\* The calls of a request, one after the other

After(r, n, ref) ==
    IF req[r].at + n > Len(Calls[req[r].q.op]) THEN End(r)
    ELSE req' = [req EXCEPT ![r].at = @ + n, ![r].ref = ref]

\* A request fails; one for attendance still stores the marks of the day.
Fails(r) ==
    IF req[r].q.op = "attend" THEN After(r, Len(Calls.attend) - req[r].at, None) ELSE End(r)

\* HighLevel did what was asked; its answer arrives, or is lost and the request fails.
Answer(r, ref) ==
    \/ After(r, 1, ref) /\ UNCHANGED <<troubles, past>>
    \/ Trouble /\ Fails(r)
       /\ Blinded(IF "lop" \in DOMAIN req[r].q THEN {req[r].q.lop} ELSE {})

AppSide == {"push", "note", "noteHour", "noteTeacher", "noteClass", "noteMark", "noteBooking"}

\* HighLevel refuses a call.  Old teachers and the count of lessons may stay as they were.
Refused(r) ==
    /\ req[r].pc = "calls" /\ ~\E call \in AppSide : Step(r, call)
    /\ IF Step(r, "count") THEN After(r, 2, req[r].ref)
       ELSE IF Step(r, "unlinkTeacher") \/ Step(r, "bump") THEN After(r, 1, req[r].ref)
       ELSE Fails(r)
    /\ UNCHANGED <<wish, recordVars, appVars, writer, timer, troubles, past>>

\* createHocVien for a newcomer.
CreateNewcomer(r) ==
    /\ Step(r, "newStudent")
    /\ writer' = [Writer EXCEPT !.hv = @ \cup {req[r].q.hv}]
    /\ Answer(r, req[r].ref)
    /\ UNCHANGED <<wish, recordVars, appVars, timer>>

\* enrollStudent: the enrolment is created and then tied to its student and its class.
CreateEnrolment(r) ==
    LET q == req[r].q IN
    /\ Step(r, "create")
    /\ IF q.op # "staff" /\ ~(q.hv \in Writer.hv /\ q.lop \in Writer.lop)
       THEN End(r) /\ UNCHANGED <<gd, writer, troubles, past>>
       ELSE /\ gd' = Append(gd, [hv |-> q.hv, lop |-> q.lop, st |-> "dang_hoc", pupil |-> FALSE,
                                 class |-> FALSE, done |-> 0, staff |-> q.op = "staff"])
            /\ writer' = IF q.op = "staff" THEN writer ELSE Writer
            /\ Answer(r, Len(gd) + 1)
    /\ UNCHANGED <<wish, room, lesson, mark, pupil, listed, appVars, timer>>

LinkPupil(r) ==
    /\ Step(r, "linkPupil")
    /\ gd' = [gd EXCEPT ![req[r].ref].pupil = TRUE]
    /\ Answer(r, req[r].ref)
    /\ UNCHANGED <<wish, room, lesson, mark, pupil, listed, appVars, writer, timer>>

LinkClass(r) ==
    LET q == req[r].q IN
    /\ Step(r, "linkClass")
    /\ gd' = [gd EXCEPT ![req[r].ref].class = TRUE]
    /\ writer' = IF q.op = "staff" \/ writer = None THEN writer
                 ELSE [writer EXCEPT !.gd = @ \cup {req[r].ref}]
    /\ IF q.op = "staff" /\ (Overfull(gd', q.lop) \/ Entering(q.lop) # {})
       THEN After(r, 1, req[r].ref) /\ Blinded({q.lop}) /\ UNCHANGED troubles
       ELSE Answer(r, req[r].ref)
    /\ UNCHANGED <<wish, room, lesson, mark, pupil, listed, appVars, timer>>

\* The new row goes into the object the request holds.
Push(r) ==
    LET q == req[r].q  a == req[r].app IN
    /\ Step(r, "push")
    /\ Keep(a, "enrol", Append(app[a].docs.enrol,
            [n |-> NextEnrollN(app[a], q.lop), gd |-> req[r].ref, hv |-> q.hv, lop |-> q.lop, st |-> "dang_hoc"]))
    /\ After(r, 1, req[r].ref)
    /\ IF a # Len(app) THEN Blinded(DOMAIN Size) ELSE UNCHANGED past
    /\ UNCHANGED <<wish, recordVars, writer, timer, troubles>>

\* setGhiDanhTrangThai: a request's own state, or the old enrolment of one moved.
State(q) == IF q.op = "move" THEN "da_chuyen_lop" ELSE q.st

SetGhiDanhTrangThai(r) ==
    LET i == req[r].id IN
    /\ Step(r, "close")
    /\ IF i \notin Writer.gd THEN End(r) /\ UNCHANGED <<gd, writer, troubles, past>>
       ELSE /\ gd' = [gd EXCEPT ![i].st = State(req[r].q)]
            /\ writer' = Writer
            /\ Answer(r, req[r].ref)
    /\ UNCHANGED <<wish, room, lesson, mark, pupil, listed, appVars, timer>>

NoteState(r) ==
    LET a == req[r].app IN
    /\ Step(r, "note")
    /\ Keep(a, "over", With(app[a].docs.over, req[r].id, [st |-> State(req[r].q)]))
    /\ After(r, 1, req[r].ref)
    /\ UNCHANGED <<wish, recordVars, writer, timer, troubles, past>>

\* setLichHoc, and the override that replaces all the class had.
SetLichHoc(r) ==
    LET q == req[r].q IN
    /\ Step(r, "setHour")
    /\ IF q.lop \notin Writer.lop THEN End(r) /\ UNCHANGED <<room, writer, troubles, past>>
       ELSE /\ room' = [room EXCEPT ![q.lop].slot = q.slot]
            /\ writer' = Writer
            /\ Answer(r, req[r].ref)
    /\ UNCHANGED <<wish, gd, lesson, mark, pupil, listed, appVars, timer>>

NoteHour(r) ==
    LET a == req[r].app IN
    /\ Step(r, "noteHour")
    /\ Keep(a, "lops", Put(app[a].docs.lops, req[r].q.lop, [slot |-> req[r].q.slot]))
    /\ After(r, 1, req[r].ref)
    /\ UNCHANGED <<wish, recordVars, writer, timer, troubles, past>>

\* ganGiaoVienChoLop: the old teachers' relations are removed as far as that works.
UnlinkTeacher(r) ==
    /\ Step(r, "unlinkTeacher")
    /\ IF req[r].q.lop \notin Writer.lop THEN End(r) /\ UNCHANGED <<room, writer>>
       ELSE /\ room' = [room EXCEPT ![req[r].q.lop].who = {}]
            /\ writer' = Writer
            /\ After(r, 1, req[r].ref)
    /\ UNCHANGED <<wish, gd, lesson, mark, pupil, listed, appVars, timer, troubles, past>>

LinkTeacher(r) ==
    /\ Step(r, "linkTeacher")
    /\ room' = [room EXCEPT ![req[r].q.lop].who = @ \cup {req[r].q.who}]
    /\ Answer(r, req[r].ref)
    /\ UNCHANGED <<wish, gd, lesson, mark, pupil, listed, appVars, writer, timer>>

NoteTeacher(r) ==
    LET a == req[r].app IN
    /\ Step(r, "noteTeacher")
    /\ Keep(a, "lops", With(app[a].docs.lops, req[r].q.lop, [who |-> req[r].q.who]))
    /\ After(r, 1, req[r].ref)
    /\ UNCHANGED <<wish, recordVars, writer, timer, troubles, past>>

\* createLop
CreateLop(r) ==
    LET l == req[r].q.lop IN
    /\ Step(r, "newClass")
    /\ room' = IF l \in DOMAIN room THEN room ELSE Put(room, l, [slot |-> None, who |-> {}])
    /\ writer' = [Writer EXCEPT !.lop = @ \cup {l}]
    /\ Answer(r, req[r].ref)
    /\ UNCHANGED <<wish, gd, lesson, mark, pupil, listed, appVars, timer>>

NoteClass(r) ==
    LET a == req[r].app IN
    /\ Step(r, "noteClass")
    /\ Keep(a, "made", app[a].docs.made \cup {req[r].q.lop})
    /\ After(r, 1, req[r].ref)
    /\ UNCHANGED <<wish, recordVars, writer, timer, troubles, past>>

\* findOrCreateBuoiHoc: a session the process knows or the search shows is used.
FindLesson(r) ==
    LET q == req[r].q  key == <<q.lop, q.day>>
        known == \E i \in DOMAIN listed.lesson : listed.lesson[i].of = key
        allowed == q.lop \in Writer.lop /\ (q.op = "lessons" \/ req[r].id \in Writer.gd)
    IN
    /\ Step(r, "find")
    /\ CASE ~allowed -> Fails(r) /\ UNCHANGED writer
         [] allowed /\ (key \in Writer.found \/ known) ->
              After(r, 3, req[r].ref) /\ writer' = [Writer EXCEPT !.found = @ \cup {key}]
         [] OTHER -> After(r, 1, req[r].ref) /\ writer' = Writer
    /\ UNCHANGED <<wish, recordVars, appVars, timer, troubles, past>>

CreateLesson(r) ==
    /\ Step(r, "newLesson")
    /\ lesson' = Append(lesson, [of |-> <<req[r].q.lop, req[r].q.day>>, class |-> FALSE])
    /\ Answer(r, Len(lesson) + 1)
    /\ UNCHANGED <<wish, gd, room, mark, pupil, listed, appVars, writer, timer>>

LinkLesson(r) ==
    /\ Step(r, "linkLesson")
    /\ lesson' = [lesson EXCEPT ![req[r].ref].class = TRUE]
    /\ writer' = IF writer = None THEN None ELSE [writer EXCEPT !.found = @ \cup {lesson[req[r].ref].of}]
    /\ Answer(r, req[r].ref)
    /\ UNCHANGED <<wish, gd, room, mark, pupil, listed, appVars, timer>>

\* writeAttendance: the record, its relations, and the count of lessons attended.
CreateMark(r) ==
    /\ Step(r, "newMark")
    /\ mark' = Append(mark, [gd |-> req[r].id, of |-> <<req[r].q.lop, req[r].q.day>>, linked |-> FALSE,
                             own |-> req[r].q.op = "attend" /\ req[r].page = req[r].app])
    /\ Answer(r, Len(mark) + 1)
    /\ UNCHANGED <<wish, gd, room, lesson, pupil, listed, appVars, writer, timer>>

LinkMark(r) ==
    /\ Step(r, "linkMark")
    /\ mark' = [mark EXCEPT ![req[r].ref].linked = TRUE]
    /\ Answer(r, req[r].ref)
    /\ UNCHANGED <<wish, gd, room, lesson, pupil, listed, appVars, writer, timer>>

ReadCount(r) ==
    /\ Step(r, "count")
    /\ After(r, 1, gd[req[r].id].done)
    /\ UNCHANGED <<wish, recordVars, appVars, writer, timer, troubles, past>>

WriteCount(r) ==
    /\ Step(r, "bump")
    /\ gd' = [gd EXCEPT ![req[r].id].done = req[r].ref + 1]
    /\ After(r, 1, req[r].ref)
    /\ UNCHANGED <<wish, room, lesson, mark, pupil, listed, appVars, writer, timer, troubles, past>>

\* The marks of the class and day as they were at the start, and this one if it was made.
NoteMark(r) ==
    LET a == req[r].app  q == req[r].q  own == {m \in app[a].docs.marks : m[1] = q.lop /\ m[2] = q.day} IN
    /\ Step(r, "noteMark")
    /\ Keep(a, "marks", (app[a].docs.marks \ own)
                \cup {m \in req[r].got : m[1] = q.lop /\ m[2] = q.day}
                \cup (IF req[r].ref = None THEN {} ELSE {<<q.lop, q.day, req[r].n>>}))
    /\ After(r, 1, req[r].ref)
    /\ UNCHANGED <<wish, recordVars, writer, timer, troubles, past>>

NoteBooking(r) ==
    LET a == req[r].app IN
    /\ Step(r, "noteBooking")
    /\ Keep(a, "booked", app[a].docs.booked \cup {<<req[r].q.gd, req[r].q.missed>>})
    /\ After(r, 1, req[r].ref)
    /\ UNCHANGED <<wish, recordVars, writer, timer, troubles, past>>

\* handleOpportunityStageWebhook: a student for a deal that has none yet.
CreateHocVien(r) ==
    LET d == req[r].q.deal IN
    /\ Step(r, "newPupil")
    /\ pupil' = IF d \in DOMAIN pupil THEN [pupil EXCEPT ![d].made = @ + 1]
                ELSE Put(pupil, d, [made |-> 1, linked |-> FALSE])
    /\ Answer(r, req[r].ref)
    /\ UNCHANGED <<wish, gd, room, lesson, mark, listed, appVars, writer, timer>>

LinkDeal(r) ==
    /\ Step(r, "linkDeal")
    /\ pupil' = [pupil EXCEPT ![req[r].q.deal].linked = TRUE]
    /\ After(r, 1, req[r].ref)
    /\ UNCHANGED <<wish, gd, room, lesson, mark, listed, appVars, writer, timer, troubles, past>>

------------------------------------------------------------------------------
\* The background: HighLevel's index, saves, the resync, a restart

SearchCatchesUp ==
    /\ Waiting /\ listed # [gd |-> gd, lesson |-> lesson]
    /\ listed' = [gd |-> gd, lesson |-> lesson]
    /\ UNCHANGED <<wish, gd, room, lesson, mark, pupil, appVars, writer, timer, req, troubles, past>>

\* Saves land in any order, or fail and are only logged.
Save ==
    \E i \in DOMAIN saving :
      /\ Waiting
      /\ saving' = RemoveAt(saving, i)
      /\ \/ /\ store' = [store EXCEPT !.docs[saving[i].doc] = saving[i].value]
            /\ UNCHANGED troubles
            /\ IF \E k \in 1..(i - 1) : saving[k].doc = saving[i].doc
               THEN Blinded(DOMAIN Size) ELSE UNCHANGED past
         \/ Trouble /\ Blinded(DOMAIN Size) /\ UNCHANGED store
      /\ UNCHANGED <<wish, recordVars, app, now, writer, timer, req>>

\* HighLevel's webhook about a change sets the timer; seedTenantFromGhl lists
\* everything, stores the snapshot, and the caches go; it is done once more later.
Webhook ==
    /\ Waiting /\ timer.pc \in {"off", "again"} /\ <<gd, room>> # <<StartGd, StartRooms>>
    /\ Len(app) < MaxApps
    /\ timer' = [timer EXCEPT !.pc = "due"]
    /\ UNCHANGED <<wish, recordVars, appVars, writer, req, troubles, past>>

ResyncReads ==
    /\ Waiting /\ timer.pc \in {"due", "again"}
    /\ timer' = [pc |-> IF timer.pc = "due" THEN "first" ELSE "second", read |-> Snapshot(listed.gd, room)]
    /\ UNCHANGED <<wish, recordVars, appVars, writer, req, troubles, past>>

ResyncStores ==
    /\ Waiting /\ timer.pc \in {"first", "second"}
    /\ store' = [store EXCEPT !.base = timer.read]
    /\ writer' = None /\ now' = 0
    /\ timer' = [pc |-> IF timer.pc = "first" THEN "again" ELSE "off", read |-> None]
    /\ UNCHANGED <<wish, recordVars, app, saving, req, troubles, past>>

RestartApp ==
    /\ Waiting /\ Trouble
    /\ now' = 0 /\ writer' = None /\ saving' = <<>> /\ timer' = [pc |-> "off", read |-> None]
    /\ req' = [r \in Requests |-> IF req[r].pc = "idle" \/ (req[r].q # None /\ req[r].q.op = "staff")
                                  THEN req[r] ELSE [Idle EXCEPT !.pc = "done"]]
    /\ Blinded(DOMAIN Size)
    /\ UNCHANGED <<wish, recordVars, app, store>>

ClassNext ==
    \/ \E r \in Requests :
         \/ Ask(r) \/ GetAppState(r) \/ LoadSnapshot(r) \/ LoadOverlays(r) \/ OpenRoster(r) \/ Check(r)
         \/ Refused(r) \/ CreateNewcomer(r) \/ CreateEnrolment(r) \/ LinkPupil(r) \/ LinkClass(r) \/ Push(r)
         \/ SetGhiDanhTrangThai(r) \/ NoteState(r) \/ SetLichHoc(r) \/ NoteHour(r)
         \/ UnlinkTeacher(r) \/ LinkTeacher(r) \/ NoteTeacher(r) \/ CreateLop(r) \/ NoteClass(r)
         \/ FindLesson(r) \/ CreateLesson(r) \/ LinkLesson(r) \/ CreateMark(r) \/ LinkMark(r)
         \/ ReadCount(r) \/ WriteCount(r) \/ NoteMark(r) \/ NoteBooking(r)
         \/ CreateHocVien(r) \/ LinkDeal(r)
    \/ SearchCatchesUp \/ Save \/ Webhook \/ ResyncReads \/ ResyncStores \/ RestartApp

------------------------------------------------------------------------------

\* server.mjs:526 and 582: the app never puts more students into a class than it
\* holds, however its snapshot, its overlays and the resync interleave.  Excused are
\* requests that overlapped, staff enrolling at HighLevel ahead of the resync, lost
\* answers and saves that had not landed when the state was built anew.
Attended(g, l) == {i \in Seats(g, l) : g[i].st \in Attending}
ClassKeepsToItsSize ==
    \A l \in DOMAIN Size :
        Size[l] # 0 /\ Cardinality(Attended(gd, l)) > Size[l] => l \in past.blind

\* server.mjs:480 and 912: a student's attendance is recorded for a lesson of a class of
\* theirs, though classes and marks know students by numbers only, and half of these come
\* with the snapshot and half with the overlay.  Excused are a state rebuilt between the
\* page and its answer, and a centre with so many enrolments that the numbers of the
\* snapshot reach those of the overlay.
MarkStaysInItsClass ==
    Len(gd) < 1000 =>
        \A i \in DOMAIN mark : mark[i].own => gd[mark[i].gd].lop = mark[i].of[1]

\* server.mjs:910, "never re-write an already-confirmed real record": once a student's
\* attendance at a lesson is recorded, no later request records it again.
MarkIsWrittenOnce ==
    \/ past.overlap
    \/ \A i, j \in DOMAIN mark :
          i < j /\ mark[i].linked => <<mark[i].gd, mark[i].of>> # <<mark[j].gd, mark[j].of>>

\* server.mjs:625: a teacher never has two classes at one hour, as long as the
\* requests come one after the other.
TeacherInOnePlace ==
    \A k, l \in DOMAIN room :
        /\ k # l /\ room[k].slot = room[l].slot /\ room[k].slot # None
        /\ ~past.overlap
        => room[k].who \cap room[l].who = {}
=============================================================================
