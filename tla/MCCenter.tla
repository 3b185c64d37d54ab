------------------------------ MODULE MCCenter ------------------------------
(* The service module and the class pages of the centre app.  They share no  *)
(* record, so a behaviour exercises one of them and leaves the other at its  *)
(* start.                                                                    *)
EXTENDS ServiceOrders, CenterClasses, TLC

VARIABLE part   \* the part this behaviour exercises

CenterInit ==
    /\ ServiceInit /\ ClassInit
    /\ part \in {"work", "classes"}
    /\ part = "work" => wish = {}
    /\ part = "classes" => menu = {}
    \* an order's report matters where somebody edits or finishes it
    /\ ((\A q \in menu : q.op # "edit") => \A o \in DOMAIN report : report[o] = Parts)

CenterNext ==
    /\ UNCHANGED part
    /\ \/ part = "work" /\ ServiceNext /\ UNCHANGED classVars
       \/ part = "classes" /\ ClassNext /\ UNCHANGED serviceVars

CenterSpec == CenterInit /\ [][CenterNext]_<<part, serviceVars, classVars>>

------------------------------------------------------------------------------
\* One contract of three months over one unit, a project, an inspection done

Row(obj, key, st, ref) == [obj |-> obj, key |-> key, st |-> st, ref |-> ref, who |-> Nothing]

Records ==
    << Row("hop_dong", <<"hop_dong", "H1">>, "hieu_luc", Nothing),
       Row("thang_may", <<"thang_may", "T1">>, "dang_lap", 1),
       Row("phieu", Nothing, "moi", 2),
       Row("du_an", <<"du_an", "D1">>, "chuan_bi", 1),
       [Row("cong_viec", <<"cong_viec", 4, 1>>, "chua_lam", 4) EXCEPT !.who = "an"],
       Row("kiem_dinh", <<"kiem_dinh", 2>>, "hoan_tat", 2) >>

Contracts == [n \in {"H1", "H2"} |-> [first |-> 1, last |-> 3, cycle |-> 1, units |-> {2}]]

Templates == [da_nhan |-> {"moi", "da_giao"}, hoan_thanh |-> {"hoan_thanh"}]

Request(op, by, arg)  == [op |-> op, by |-> by, arg |-> arg]
Order(by, what)       == Request("update", by, [order |-> 3, do |-> what, skip |-> FALSE])
SkipCheck             == Request("update", "admin", [order |-> 3, do |-> "finish", skip |-> TRUE])
NoSuchOrder           == Request("update", "an", [order |-> 9, do |-> "finish", skip |-> FALSE])
Edit(by, piece, put)  == Request("edit", by, [order |-> 3, part |-> piece, put |-> put])
TaskTo(by, st, pct)   == Request("task", by, [task |-> 5, st |-> st, pct |-> pct])
Record(id, st)        == Request("record", "admin", [inspection |-> id, st |-> st])

SomeMenus ==
    { {},
      {Request("generate", "admin", [contract |-> 1, months |-> 1]), Request("generateAll", "admin", Nothing)},
      {Request("tasks", "admin", 4)},
      {Request("inspect", "admin", 2), Record(6, "len_lich")},
      {Request("inspect", "admin", 2), Record(7, "hoan_tat")},
      {Request("unit", "admin", "T9"), Request("contract", "admin", "H1"), Request("contract", "admin", "H2")},
      {Order("an", "finish"), Order("ba", "take"), SkipCheck, Edit("an", "photo", FALSE), Edit("an", "photo", TRUE)},
      {Order("an", "start"), Order("an", "finish"), Order("admin", "cancel"), Edit("an", "answers", FALSE)},
      {Order("an", "finish"), Order("an", "take"), NoSuchOrder,
       Request("notify", "admin", "da_nhan"), Request("notify", "admin", "hoan_thanh")},
      {Request("handover", "admin", 4), Request("stage", "admin", [project |-> 4, st |-> "hoan_tat"]),
       Request("order", "admin", 2)},
      {TaskTo("an", "dang_lam", Nothing), TaskTo("ba", "huy", Nothing),
       TaskTo("admin", Nothing, 100), TaskTo("admin", "huy", 100)} }

------------------------------------------------------------------------------
\* Class A holds three and is taught at the hour of class B, which has no limit;
\* the third enrolment is the app's own and not in the snapshot yet.

Enrolled(hv, lop) == [hv |-> hv, lop |-> lop, st |-> "dang_hoc", pupil |-> TRUE, class |-> TRUE,
                      done |-> 0, staff |-> FALSE]

Enrolments == <<Enrolled("h1", "A"), Enrolled("h2", "B"), Enrolled("h3", "A")>>
OwnRows    == <<[n |-> 1000, gd |-> 3, hv |-> "h3", lop |-> "A", st |-> "dang_hoc"]>>
Rooms      == [l \in {"A", "B"} |-> [slot |-> "t2", who |-> {}]]
Sizes      == [A |-> 3, B |-> 0, C |-> 1]

Into(op, hv, lop) == [op |-> op, hv |-> hv, lop |-> lop]
Moved             == [op |-> "move", hv |-> "h2", lop |-> "A", gd |-> 2]
Leaves            == [op |-> "status", gd |-> 1, st |-> "da_nghi"]
Attends(lop)      == [op |-> "attend", lop |-> lop, day |-> "d1"]
Makeup(missed)    == [op |-> "makeup", gd |-> 1, missed |-> missed, lop |-> "A", day |-> "d1"]
Lessons           == [op |-> "lessons", lop |-> "A", day |-> "d1"]
Teaches(lop)      == [op |-> "assign", lop |-> lop, who |-> "T"]
Hour(lop, slot)   == [op |-> "schedule", lop |-> lop, slot |-> slot]
Deal(no)          == [op |-> "deal", deal |-> "o1", no |-> no]

SomeWishes ==
    { {},
      {Into("enrol", "h2", "A"), Into("newcomer", "h4", "A")},
      {Into("enrol", "h2", "A"), Into("staff", "h4", "A")},
      {Into("enrol", "h1", "B"), Attends("B")},
      {Moved},
      {Makeup("d0"), Lessons},
      {Teaches("A"), Teaches("B"), Hour("A", "t2"), Leaves},
      {[op |-> "class", lop |-> "C"], Into("newcomer", "h4", "C")},
      {Deal(1), Deal(2)} }

\* An hour taken from a class that has a teacher, and the teacher's other class.
TeacherWishes == {{}, {Teaches("A"), Teaches("B"), Hour("A", "t2")}}
NoMenu        == {{}}

\* The teacher marks a student of class A, and once more.
MarkingWishes == {{}, {Attends("A") @@ [no |-> 1], Attends("A") @@ [no |-> 2]}}

Symmetry == Permutations(Jobs) \cup Permutations(Requests)
=============================================================================
