--------------------------- MODULE ServiceOrders ---------------------------
(* The service module of one sub-account: its records live at HighLevel,     *)
(* whose search index lags behind what was written; one process keeps a      *)
(* short cache of every list and an overlay of its own recent writes, checks *)
(* its rules against that view and then writes.  Work orders, maintenance    *)
(* and task generation, inspections, contracts, hand-over, the report of an  *)
(* order and the ZNS notices about it.                                       *)
EXTENDS Fields, Naturals, Sequences, FiniteSets, FiniteSetsExt

CONSTANTS
    Jobs,            \* requests the service module handles
    Menus,           \* sets of requests [op, by, arg]; a behaviour's come from one
    StartRecords,    \* what the sub-account holds when the process starts
    Terms,           \* contract number -> [first, last, cycle, units]
    ThisMonth,
    DueMonths,       \* months from now that generateAllDue looks ahead
    Items,           \* number of items of the task template
    Wording,         \* notice template -> states of an order it is about
    Workers,         \* technicians; the other actor is the administrator
    MaxGenerate,     \* MAX_GENERATE and MAX_TASKS
    MaxFaults,       \* bound: lost answers of HighLevel or Zalo, and restarts
    Nothing

\* The sub-account's records have every field; an order is changed in one of four ways.
ASSUME RecordsAssumption ==
    /\ StartRecords \in Seq({StartRecords[i] : i \in DOMAIN StartRecords})
    /\ \A i \in DOMAIN StartRecords : {"obj", "key", "st", "ref", "who"} \subseteq DOMAIN StartRecords[i]
ASSUME RequestsAssumption ==
    \A m \in Menus : \A q \in m :
        q.op = "update" => q.arg.do \in {"take", "start", "finish", "cancel"}
\* A key names its record's object, an inspection's its unit; no key is there twice, but
\* of inspections, one of which is open at most.
ASSUME OneEachAssumption ==
    \A i \in DOMAIN StartRecords :
        LET x == StartRecords[i] IN
        /\ x.key # Nothing => x.key[1] = x.obj
        /\ x.obj = "kiem_dinh" => x.key = <<"kiem_dinh", x.ref>>
        /\ \A k \in DOMAIN StartRecords \ {i} : x.key # Nothing /\ StartRecords[k].key = x.key =>
              x.obj = "kiem_dinh" /\ {x.st, StartRecords[k].st} # {"len_lich"}

Objects == {"phieu", "thang_may", "hop_dong", "kiem_dinh", "du_an", "cong_viec"}
Parts   == {"answers", "photo", "signature"}
Actors  == Workers \cup {"admin"}

VARIABLES
    menu,      \* the requests of this behaviour
    rec,       \* HighLevel's records, by id
    shown,     \* what its search shows of them
    cache,     \* listAll's cache: object -> rows, or Nothing
    recent,    \* the overlay: object -> id -> fields written lately
    job,       \* what each request is doing
    report,    \* the stored report of an order: the parts it holds
    claimed,   \* service_notify_log
    heard,     \* notices the customer received, per key
    retracted, \* notices that were released although they had gone out
    faults,
    excused,   \* keys whose check could not see a record of the same key
    muddled    \* orders whose report and state changed in overlapping requests

storeVars  == <<rec, shown>>
viewVars   == <<cache, recent>>
noticeVars == <<claimed, heard, retracted>>
pastVars   == <<excused, muddled>>
boundVars  == <<menu, faults>>
serviceVars == <<storeVars, viewVars, job, report, noticeVars, pastVars, boundVars>>

Ids(obj) == {i \in DOMAIN rec : rec[i].obj = obj}

NoJob == [op |-> "none", by |-> "admin", arg |-> Nothing, pc |-> "idle", stage |-> 1,
          view |-> Nothing, miss |-> {}, seen |-> 0, todo |-> {}, sent |-> {}, got |-> Nothing]

ServiceInit ==
    /\ menu \in Menus
    /\ rec = StartRecords /\ shown = StartRecords
    /\ cache = [o \in Objects |-> Nothing]
    /\ recent = [o \in Objects |-> <<>>]
    /\ job = [r \in Jobs |-> NoJob]
    /\ report \in [Ids("phieu") -> {{}, Parts}]
    /\ \A i \in Ids("phieu") : rec[i].st = "hoan_thanh" => report[i] = Parts
    /\ claimed = {} /\ heard = <<>> /\ retracted = <<>>
    /\ faults = 0 /\ excused = {} /\ muddled = {}

------------------------------------------------------------------------------
\* The view of HighLevel's records

Fault == faults < MaxFaults /\ faults' = faults + 1

\* Nothing that happens once the last request has ended is of interest.
Busy == \E r \in Jobs : job[r].pc # "done"

RowsOf(o, f) == [i \in {j \in DOMAIN f : f[j].obj = o} |-> f[i]]

\* The process's own recent writes, merged over rows the search returned.
Overlay(o, rows) ==
    [i \in DOMAIN rows \cup DOMAIN recent[o] |-> Over(At(recent[o], i), At(rows, i))]

\* A plausible bug: a change is remembered, a new record is not.
NoteChangesOnly(o, i, fields) ==
    recent' = [recent EXCEPT ![o] = IF "obj" \in DOMAIN fields THEN @ ELSE Put(@, i, Over(fields, At(@, i)))]

\* A write is remembered for RECENT_MS ...
Note(o, i, fields) ==
    recent' = [recent EXCEPT ![o] = Put(@, i, Over(fields, At(@, i)))]

\* ... and patched into the cached list, if there is one.
PatchCache(o, i, fields) ==
    cache' = [cache EXCEPT ![o] =
                 IF @ = Nothing \/ (i \notin DOMAIN @ /\ "obj" \notin DOMAIN fields) THEN @
                 ELSE Put(@, i, Over(fields, At(@, i)))]

\* An entry of the cache ages out after cacheMs, or /api/refresh clears it.
CacheGone(o) ==
    /\ Busy /\ cache[o] # Nothing
    /\ cache' = [cache EXCEPT ![o] = Nothing]
    /\ UNCHANGED <<storeVars, recent, job, report, noticeVars, pastVars, boundVars>>

\* The overlay drops a write after RECENT_MS: by then the index shows it and no
\* listing that started before is still running.
RecentGone(o) ==
    /\ Busy /\ DOMAIN recent[o] # {}
    /\ shown = rec
    /\ \A r \in Jobs : job[r].pc # "merge" /\ job[r].sent = {}
    /\ recent' = [recent EXCEPT ![o] = <<>>]
    /\ UNCHANGED <<storeVars, cache, job, report, noticeVars, pastVars, boundVars>>

\* HighLevel's search index catches up with what was written.
IndexCatchesUp ==
    /\ Busy /\ shown # rec
    /\ shown' = rec
    /\ UNCHANGED <<rec, viewVars, job, report, noticeVars, pastVars, boundVars>>

------------------------------------------------------------------------------
\* Writes to HighLevel

Generators == {"generate", "generateAll", "tasks"}

\* A generator creates its batch three at a time; every other write waits for the last.
Width(op) == IF op \in Generators THEN 3 ELSE 1

New(obj, key, st, ref)  == [new |-> TRUE, obj |-> obj,
                            fields |-> [obj |-> obj, key |-> key, st |-> st, ref |-> ref, who |-> Nothing]]
Change(obj, id, fields) == [new |-> FALSE, id |-> id, obj |-> obj, fields |-> fields]
KeysOf(writes)          == {w.fields.key : w \in {x \in writes : x.new}} \ {Nothing}
Writes(r)               == job[r].todo \cup {s.write : s \in job[r].sent}

\* Records up to here are answered for: a listing that starts now shows them.
Settled ==
    LET waiting == {s.id : s \in {x \in UNION {job[r].sent : r \in Jobs} : x.write.new}}
    IN  IF waiting = {} THEN Len(rec) ELSE Min(waiting) - 1

Goto(r, pc) == job' = [job EXCEPT ![r].pc = pc]
Done(r)     == job' = [job EXCEPT ![r] = [NoJob EXCEPT !.pc = "done"]]

\* A request that passed its check starts writing.  Its check could not see what
\* another request was writing, or wrote while this one was listing.
StartWriting(r, since, writes) ==
    /\ job' = [job EXCEPT ![r] = [@ EXCEPT !.pc = "write", !.view = Nothing, !.miss = {},
                                           !.seen = 0, !.todo = writes]]
    /\ excused' = excused \cup
         {k \in KeysOf(writes) :
             \/ \E i \in DOMAIN rec : i > since /\ rec[i].key = k
             \/ \E q \in Jobs \ {r} : k \in KeysOf(Writes(q))}

\* HighLevel refuses to change a record that is not of the object named.
Post(r) ==
    /\ job[r].pc = "write" /\ Cardinality(job[r].sent) < Width(job[r].op)
    /\ \E w \in job[r].todo :
         LET id == IF w.new THEN Len(rec) + 1 ELSE w.id IN
         /\ ~w.new => w.id \in Ids(w.obj)
         /\ rec' = IF w.new THEN Append(rec, w.fields)
                               ELSE [rec EXCEPT ![id] = Over(w.fields, @)]
         /\ job' = [job EXCEPT ![r].todo = @ \ {w}, ![r].sent = @ \cup {[id |-> id, write |-> w]}]
         \* a closed inspection opened again is the administrator's decision
         /\ excused' = IF ~w.new /\ rec[id].obj = "kiem_dinh" /\ rec'[id].st = "len_lich"
                       THEN excused \cup {rec[id].key} ELSE excused
         \* of two changes of a record at once, either may be answered, and remembered, last
         /\ muddled' = IF \E q \in Jobs \ {r} : \E s \in job[q].sent : s.id = id
                       THEN muddled \cup {id} ELSE muddled
    /\ UNCHANGED <<shown, viewVars, report, noticeVars, boundVars>>

Answered(r) ==
    /\ \E s \in job[r].sent :
         /\ Note(s.write.obj, s.id, s.write.fields)
         /\ PatchCache(s.write.obj, s.id, s.write.fields)
         /\ job' = [job EXCEPT ![r].sent = @ \ {s}, ![r].got = IF s.write.new THEN s.id ELSE @]
    /\ UNCHANGED <<storeVars, report, noticeVars, pastVars, boundVars>>

\* A write that failed: a generator reports it as remaining and goes on with the others,
\* any other request ends.
Fail(r, todo, sent) ==
    IF job[r].op \in Generators THEN job' = [job EXCEPT ![r].todo = todo, ![r].sent = sent]
                                ELSE Done(r)

\* HighLevel did the write and its answer is lost: call() tries again after a 5xx,
\* and gives up when the connection broke.
AnswerLost(r) ==
    /\ Fault
    /\ \E s \in job[r].sent :
         /\ \/ job' = [job EXCEPT ![r].sent = @ \ {s}, ![r].todo = @ \cup {s.write}]
            \/ Fail(r, job[r].todo, job[r].sent \ {s})
         /\ excused' = excused \cup KeysOf({s.write})
         /\ muddled' = muddled \cup {s.id}
    /\ UNCHANGED <<storeVars, viewVars, report, noticeVars, menu>>

Rejected(r) ==
    /\ job[r].pc = "write" /\ Cardinality(job[r].sent) < Width(job[r].op)
    /\ \E w \in job[r].todo : Fail(r, job[r].todo \ {w}, job[r].sent)
    /\ UNCHANGED <<storeVars, viewVars, report, noticeVars, pastVars, boundVars>>

------------------------------------------------------------------------------
\* What each operation checks and writes

\* The lists an operation reads, in the stage it is in.
Needs(j) ==
    CASE j.op \in {"generate", "generateAll"} -> {"hop_dong", "thang_may", "phieu"}
      [] j.op = "contract" -> {"hop_dong", "thang_may"}
      [] j.op = "unit"     -> {"thang_may"}
      [] j.op = "order"    -> {"thang_may"}
      [] j.op = "tasks"    -> {"cong_viec"}   \* its project exists: none is ever removed
      [] j.op = "handover" -> {"du_an", "hop_dong", "thang_may"}
      [] j.op = "stage"    -> {"du_an"}
      [] j.op = "inspect"  -> {"kiem_dinh"}
      [] j.op = "record"   -> {"kiem_dinh"}
      [] j.op = "task"     -> IF j.stage = 1 THEN {"cong_viec"} ELSE {"du_an"}
      [] OTHER             -> {"phieu"}

Keys(v, o) == {v[o][i].key : i \in DOMAIN v[o]}

\* The months of a maintenance contract that fall due between two months.
PlanMaintenance(v, c, from, months) ==
    LET t == Terms[v["hop_dong"][c].key[2]]
        units == {u \in DOMAIN v["thang_may"] : v["thang_may"][u].ref = c}
    IN  {<<"phieu", c, u, m>> : u \in units,
            m \in {n \in from..(from + months - 1) :
                      n >= t.first /\ n <= t.last /\ (n - t.first) % t.cycle = 0}}
        \ Keys(v, "phieu")

Active(v) == {c \in DOMAIN v["hop_dong"] : v["hop_dong"][c].st = "hieu_luc"}

\* The work orders an order generator creates: the planned ones with no order yet.
Plan(j, v) ==
    CASE j.op = "generate" ->
           IF j.arg.contract \in Active(v)
             THEN PlanMaintenance(v, j.arg.contract, ThisMonth, j.arg.months) ELSE {}
      [] j.op = "generateAll" ->
           UNION {PlanMaintenance(v, c, ThisMonth, DueMonths) : c \in Active(v)}
      [] j.op = "tasks" ->
           {<<"cong_viec", j.arg, i>> : i \in 1..Items} \ Keys(v, "cong_viec")

Generate(r, v, since) ==
    LET j == job[r]  plan == Plan(j, v) IN
    /\ j.op \in Generators
    /\ \E batch \in kSubset(IF Cardinality(plan) > MaxGenerate THEN MaxGenerate ELSE Cardinality(plan), plan) :
         StartWriting(r, since,
             {IF j.op = "tasks" THEN New("cong_viec", k, "chua_lam", j.arg)
                                ELSE New("phieu", k, "moi", k[3]) : k \in batch})
    /\ UNCHANGED muddled

\* A contract is refused for a known number, and for a unit under an active contract.
MayContract(v, number) ==
    /\ <<"hop_dong", number>> \notin Keys(v, "hop_dong")
    /\ \A u \in Terms[number].units :
         LET c == v["thang_may"][u].ref IN
         c # Nothing => c \notin DOMAIN v["hop_dong"] \/ v["hop_dong"][c].st # "hieu_luc"

\* What the other operations write after their check; {} when they are refused.
FirstWrites(j, v) ==
    CASE j.op = "unit" ->
           IF <<"thang_may", j.arg>> \in Keys(v, "thang_may") THEN {}
           ELSE {New("thang_may", <<"thang_may", j.arg>>, "dang_bao_hanh", Nothing)}
      [] j.op = "contract" ->
           IF MayContract(v, j.arg) THEN {New("hop_dong", <<"hop_dong", j.arg>>, "hieu_luc", Nothing)} ELSE {}
      [] j.op = "order" ->
           IF j.arg \in DOMAIN v["thang_may"] THEN {New("phieu", Nothing, "moi", j.arg)} ELSE {}
      [] j.op = "inspect" ->
           IF \E i \in DOMAIN v["kiem_dinh"] : v["kiem_dinh"][i].ref = j.arg /\ v["kiem_dinh"][i].st = "len_lich"
           THEN {} ELSE {New("kiem_dinh", <<"kiem_dinh", j.arg>>, "len_lich", j.arg)}
      [] j.op = "record" ->
           IF j.arg.inspection \in DOMAIN v["kiem_dinh"]
           THEN {Change("kiem_dinh", j.arg.inspection, [st |-> j.arg.st])} ELSE {}
      [] j.op = "stage" ->
           IF j.arg.project \notin DOMAIN v["du_an"] \/ v["du_an"][j.arg.project].st = j.arg.st THEN {}
           ELSE {Change("du_an", j.arg.project, [st |-> j.arg.st])}
      [] j.op = "handover" ->
           {Change("thang_may", u, [st |-> "dang_bao_hanh"]) :
               u \in {x \in DOMAIN v["thang_may"] : v["thang_may"][x].ref = v["du_an"][j.arg].ref}}
      [] OTHER -> {}

Simple(r, v, since) ==
    LET writes == FirstWrites(job[r], v) IN
    /\ job[r].op \in {"unit", "contract", "order", "inspect", "record", "stage", "handover"}
    /\ IF writes = {} THEN Done(r) /\ UNCHANGED excused ELSE StartWriting(r, since, writes)
    /\ UNCHANGED muddled

\* Keeps the state and the percentage of a task together.
NormalizeTaskPatch(cur, st, pct) ==
    LET next == IF st = "hoan_thanh" THEN st
                ELSE IF pct = 100 /\ (IF st = Nothing THEN cur.st ELSE st) # "huy" THEN "hoan_thanh"
                ELSE IF st # Nothing THEN st
                ELSE IF pct # Nothing /\ pct > 0 /\ cur.st = "chua_lam" THEN "dang_lam"
                ELSE IF pct # Nothing /\ pct < 100 /\ cur.st = "hoan_thanh"
                     THEN IF pct > 0 THEN "dang_lam" ELSE "chua_lam"
                ELSE cur.st
        percent == IF st = "hoan_thanh" THEN 100
                   ELSE IF pct # Nothing THEN pct
                   ELSE IF cur.st = "hoan_thanh" /\ next \notin {"hoan_thanh", "huy"} THEN 90
                   ELSE IF st = "chua_lam" THEN 0
                   ELSE Nothing
    IN  Over((IF next # cur.st \/ st # Nothing THEN [st |-> next] ELSE <<>>),
            (IF percent # Nothing THEN [pct |-> percent] ELSE <<>>))

\* A task's change; in the second stage the project it sets going.
Task(r, v, since) ==
    LET j == job[r]  cur == v["cong_viec"][j.arg.task]
        patch == NormalizeTaskPatch(cur, j.arg.st, j.arg.pct)
        may == /\ j.arg.task \in DOMAIN v["cong_viec"]
               /\ j.by = "admin" \/ cur.who = j.by
               /\ j.arg.st # Nothing \/ j.arg.pct # Nothing
    IN
    /\ j.op = "task"
    /\ UNCHANGED <<excused, muddled>>
    /\ \/ /\ j.stage = 1 /\ may
          /\ job' = [job EXCEPT ![r] = [@ EXCEPT !.pc = "write", !.view = Nothing, !.miss = {}, !.seen = 0,
                        !.todo = {Change("cong_viec", j.arg.task, patch)},
                        !.got = IF "st" \in DOMAIN patch /\ patch.st \in {"dang_lam", "cho_kiem_tra", "hoan_thanh"}
                                THEN cur.ref ELSE Nothing]]
       \/ j.stage = 1 /\ ~may /\ Done(r)
       \/ /\ j.stage = 2
          /\ IF v["du_an"][j.got].st = "chuan_bi"
             THEN job' = [job EXCEPT ![r] = [@ EXCEPT !.pc = "write", !.view = Nothing, !.miss = {}, !.seen = 0,
                              !.todo = {Change("du_an", j.got, [st |-> "dang_thuc_hien"])}]]
             ELSE Done(r)

------------------------------------------------------------------------------
\* Work orders and their reports

Closed == {"hoan_thanh", "huy"}

CanWorkOn(o, by) == by = "admin" \/ o.who \in {Nothing, by}

\* The requests that change an order's report, and those that close it, each past
\* its own check and not yet finished.
Editing(o) == {q \in Jobs : job[q].pc \in {"get", "put", "mark", "markput"} /\ job[q].arg.order = o}
Closing(o) == {q \in Jobs : /\ job[q].op = "update" /\ job[q].stage = 2
                            /\ job[q].arg.do = "finish" /\ job[q].arg.order = o}

\* What updateOrder writes; {} when it refuses.
OrderPatch(j, o) ==
    IF ~CanWorkOn(o, j.by) THEN <<>>
    ELSE CASE j.arg.do = "take" ->
                IF j.by # "admin" /\ o.who # Nothing THEN <<>>
                ELSE Over([who |-> IF j.by = "admin" THEN CHOOSE w \in Workers : w # o.who ELSE j.by],
                          IF o.st = "moi" THEN [st |-> "da_giao"] ELSE <<>>)
           [] OTHER ->
                LET st == CASE j.arg.do = "start" -> "dang_xu_ly" [] j.arg.do = "finish" -> "hoan_thanh"
                            [] j.arg.do = "cancel" -> "huy"
                IN IF j.by # "admin" /\ (st = "huy" \/ o.st \in Closed) THEN <<>> ELSE [st |-> st]

\* POST /api/order/update: with a start or a finish the order is read first and, for
\* a finish its worker may make, the report is checked; updateOrder reads it again.
Update(r, v) ==
    LET j == job[r] IN
    /\ j.op = "update"
    /\ UNCHANGED excused
    /\ IF j.arg.order \notin DOMAIN v["phieu"] THEN Done(r) /\ UNCHANGED muddled
       ELSE LET o == v["phieu"][j.arg.order]  patch == OrderPatch(j, o) IN
         IF j.stage = 1 /\ j.arg.do \in {"start", "finish"}
           THEN /\ job' = [job EXCEPT ![r] = [@ EXCEPT !.view = Nothing, !.miss = {}, !.seen = 0,
                              !.got = o.st,
                              !.stage = IF j.arg.do = "finish" /\ CanWorkOn(o, j.by) THEN 1 ELSE 2,
                              !.pc = IF j.arg.do = "finish" /\ CanWorkOn(o, j.by) THEN "guard" ELSE "list"]]
                \* the check is skipped for an order that is somebody else's at this moment
                /\ muddled' = IF j.arg.do = "finish" /\ ~CanWorkOn(o, j.by)
                              THEN muddled \cup {j.arg.order} ELSE muddled
           ELSE /\ UNCHANGED muddled
                /\ IF patch = <<>> THEN Done(r)
                   ELSE job' = [job EXCEPT ![r] = [@ EXCEPT !.pc = "write", !.view = Nothing, !.miss = {}, !.seen = 0,
                                    !.stage = 2, !.todo = {Change("phieu", j.arg.order, patch)}]]

Doc(o) == IF o \in DOMAIN report THEN report[o] ELSE {}

\* guardComplete: nothing may be missing, unless the administrator skips the check.
GuardComplete(r) ==
    LET o == job[r].arg.order  skip == job[r].by = "admin" /\ job[r].arg.skip IN
    /\ job[r].pc = "guard"
    /\ IF Doc(o) # Parts /\ ~skip THEN Done(r) /\ UNCHANGED muddled
       ELSE /\ job' = [job EXCEPT ![r].pc = "list", ![r].stage = 2]
            /\ muddled' = IF skip \/ Editing(o) # {} THEN muddled \cup {o} ELSE muddled
    /\ UNCHANGED <<storeVars, viewVars, report, noticeVars, excused, boundVars>>

\* A plausible bug: a closed order's report may still be changed.
OpenAnyOrder(r, v) ==
    LET j == job[r] IN
    /\ j.op = "edit"
    /\ UNCHANGED excused
    /\ IF j.arg.order \in DOMAIN v["phieu"] /\ CanWorkOn(v["phieu"][j.arg.order], j.by)
       THEN /\ job' = [job EXCEPT ![r] = [@ EXCEPT !.pc = "get", !.view = Nothing, !.miss = {}, !.seen = 0]]
            /\ muddled' = IF Closing(j.arg.order) # {} THEN muddled \cup {j.arg.order} ELSE muddled
       ELSE Done(r) /\ UNCHANGED muddled

\* A request about an order's report: the order must be the caller's and still open.
Open(r, v) ==
    LET j == job[r] IN
    /\ j.op = "edit"
    /\ UNCHANGED excused
    /\ IF /\ j.arg.order \in DOMAIN v["phieu"]
          /\ CanWorkOn(v["phieu"][j.arg.order], j.by)
          /\ v["phieu"][j.arg.order].st \notin Closed
       THEN /\ job' = [job EXCEPT ![r] = [@ EXCEPT !.pc = "get", !.view = Nothing, !.miss = {}, !.seen = 0]]
            /\ muddled' = IF Closing(j.arg.order) # {} THEN muddled \cup {j.arg.order} ELSE muddled
       ELSE Done(r) /\ UNCHANGED muddled

\* load and store.put: the whole document is read, changed and written back.
GetReport(r) ==
    /\ job[r].pc \in {"get", "mark"}
    /\ job' = [job EXCEPT ![r].got = Doc(job[r].arg.order), ![r].pc = IF @ = "get" THEN "put" ELSE "markput"]
    /\ UNCHANGED <<storeVars, viewVars, report, noticeVars, pastVars, boundVars>>

PutReport(r) ==
    LET j == job[r] IN
    /\ j.pc \in {"put", "markput"}
    /\ report' = Put(report, j.arg.order,
                     IF j.pc = "markput" THEN j.got
                     ELSE IF j.arg.put THEN j.got \cup {j.arg.part} ELSE j.got \ {j.arg.part})
    /\ Done(r)
    /\ UNCHANGED <<storeVars, viewVars, noticeVars, pastVars, boundVars>>

\* What an operation writes once its first writes are answered.
SecondWrites(j) ==
    CASE j.op = "contract" -> {Change("thang_may", u, [ref |-> j.got]) : u \in Terms[j.arg].units}
      [] j.op = "handover" -> {Change("du_an", j.arg, [st |-> "bao_hanh"])}
      [] j.op = "record" /\ j.arg.st = "hoan_tat" ->
           {Change("thang_may", rec[j.arg.inspection].ref, [next |-> "set"])}
      [] OTHER -> {}

\* The last write is answered: the operation ends, or goes on to its second stage.
Finish(r) ==
    LET j == job[r]  second == SecondWrites(j) IN
    /\ j.pc = "write" /\ j.todo = {} /\ j.sent = {}
    /\ CASE j.stage = 1 /\ second # {} -> job' = [job EXCEPT ![r].stage = 2, ![r].todo = second]
         [] j.stage = 1 /\ j.op = "task" /\ j.got # Nothing -> job' = [job EXCEPT ![r].stage = 2, ![r].pc = "list"]
         [] j.op = "update" /\ j.arg.do = "start" /\ j.got # "dang_xu_ly" -> Goto(r, "mark")
         [] OTHER -> Done(r)
    /\ muddled' = IF j.op = "update" /\ j.arg.do = "start" /\ Closing(j.arg.order) # {}
                  THEN muddled \cup {j.arg.order} ELSE muddled
    /\ UNCHANGED <<storeVars, viewVars, report, noticeVars, excused, boundVars>>

------------------------------------------------------------------------------
\* Notices

Times(f, k)  == IF k \in DOMAIN f THEN f[k] ELSE 0
More(f, k)   == [i \in DOMAIN f \cup {k} |-> Times(f, i) + IF i = k THEN 1 ELSE 0]

\* The customer's newest order in one of the template's states.
FindOrder(r, v) ==
    LET fit == {i \in DOMAIN v["phieu"] : v["phieu"][i].st \in Wording[job[r].arg]} IN
    /\ job[r].op = "notify"
    /\ IF fit = {} THEN Done(r)
       ELSE job' = [job EXCEPT ![r] = [@ EXCEPT !.pc = "claim", !.view = Nothing, !.miss = {}, !.seen = 0,
                       !.got = <<job[r].arg, Max(fit), v["phieu"][Max(fit)].st>>]]
    /\ UNCHANGED pastVars

\* A plausible bug: the log is written after the notice went out, so nobody loses the claim.
ClaimAlways(r) ==
    /\ job[r].pc = "claim"
    /\ claimed' = claimed \cup {job[r].got} /\ Goto(r, "send")
    /\ UNCHANGED <<storeVars, viewVars, report, heard, retracted, pastVars, boundVars>>

\* insert ... on conflict do nothing: one request wins.
Claim(r) ==
    /\ job[r].pc = "claim"
    /\ IF job[r].got \in claimed THEN Done(r) /\ UNCHANGED claimed
       ELSE claimed' = claimed \cup {job[r].got} /\ Goto(r, "send")
    /\ UNCHANGED <<storeVars, viewVars, report, heard, retracted, pastVars, boundVars>>

\* Zalo delivers the notice, or refuses it.
SendZns(r) ==
    /\ job[r].pc = "send"
    /\ \/ heard' = More(heard, job[r].got) /\ Goto(r, "sent")
       \/ UNCHANGED heard /\ Goto(r, "release")
    /\ UNCHANGED <<storeVars, viewVars, report, claimed, retracted, pastVars, boundVars>>

\* The answer arrives, or is lost and the notice counts as unsent.
ZnsAnswered(r) ==
    /\ job[r].pc = "sent"
    /\ \/ Done(r) /\ UNCHANGED <<faults, retracted>>
       \/ /\ Fault
          /\ retracted' = More(retracted, job[r].got) /\ Goto(r, "release")
    /\ UNCHANGED <<storeVars, viewVars, report, claimed, heard, pastVars, menu>>

\* A notice that was not sent may be sent later.
Release(r) ==
    /\ job[r].pc = "release"
    /\ claimed' = claimed \ {job[r].got}
    /\ Done(r)
    /\ UNCHANGED <<storeVars, viewVars, report, heard, retracted, pastVars, boundVars>>

------------------------------------------------------------------------------
\* Requests

Begin(r) ==
    /\ job[r].pc = "idle"
    /\ \E q \in menu : job' = [job EXCEPT ![r] = [NoJob EXCEPT !.op = q.op, !.by = q.by, !.arg = q.arg, !.pc = "list"]]
    /\ UNCHANGED <<storeVars, viewVars, report, noticeVars, pastVars, boundVars>>

Decide(r, v, since) ==
    \/ Generate(r, v, since) \/ Simple(r, v, since) \/ Task(r, v, since)
    \/ Update(r, v) \/ Open(r, v) \/ FindOrder(r, v)

\* listAll: the lists the cache holds are taken as they are, the others searched for.
Search(r) ==
    LET j == job[r]
        miss == {o \in Needs(j) : cache[o] = Nothing}
        v == [o \in Needs(j) |-> IF o \in miss THEN RowsOf(o, shown) ELSE cache[o]]
    IN
    /\ j.pc = "list"
    /\ IF miss = {} THEN Decide(r, v, Settled)
       ELSE /\ job' = [job EXCEPT ![r] = [@ EXCEPT !.pc = "merge", !.view = v, !.miss = miss, !.seen = Settled]]
            /\ UNCHANGED pastVars
    /\ UNCHANGED <<storeVars, viewVars, report, noticeVars, boundVars>>

\* The search is answered: the overlay is merged in, the cache filled.
Merge(r) ==
    LET j == job[r]
        v == [o \in Needs(j) |-> IF o \in j.miss THEN Overlay(o, j.view[o]) ELSE j.view[o]]
    IN
    /\ j.pc = "merge"
    /\ cache' = [o \in Objects |-> IF o \in j.miss THEN v[o] ELSE cache[o]]
    /\ Decide(r, v, j.seen)
    /\ UNCHANGED <<storeVars, recent, report, noticeVars, boundVars>>

\* The process stops and starts again: cache, overlay and requests are gone.
Restart ==
    /\ Busy
    /\ Fault
    /\ cache' = [o \in Objects |-> Nothing]
    /\ recent' = [o \in Objects |-> <<>>]
    /\ job' = [r \in Jobs |-> IF job[r].pc = "idle" THEN job[r] ELSE [NoJob EXCEPT !.pc = "done"]]
    \* what the index does not show yet is out of sight
    /\ excused' = excused \cup {rec[i].key : i \in DOMAIN rec \ DOMAIN shown}
    /\ muddled' = muddled \cup {i \in DOMAIN rec : i \notin DOMAIN shown \/ shown[i] # rec[i]}
    /\ UNCHANGED <<storeVars, report, noticeVars, menu>>

ServiceNext ==
    \/ \E r \in Jobs :
         \/ Begin(r) \/ Search(r) \/ Merge(r) \/ Post(r) \/ Answered(r) \/ AnswerLost(r)
         \/ Rejected(r) \/ Finish(r) \/ GuardComplete(r) \/ GetReport(r) \/ PutReport(r)
         \/ Claim(r) \/ SendZns(r) \/ ZnsAnswered(r) \/ Release(r)
    \/ \E o \in Objects : CacheGone(o) \/ RecentGone(o)
    \/ IndexCatchesUp \/ Restart

------------------------------------------------------------------------------

\* logic.mjs:25 and ghl.mjs:31: however often generation is asked for, and however
\* late the index is, a unit has one order per contract and month, a project one
\* task per template item, a unit one name and one open inspection.  Excused are
\* requests that overlapped, lost answers and a restart ahead of the index.
OneRecordPerKey ==
    \A i, j \in DOMAIN rec :
        /\ i # j /\ rec[i].key = rec[j].key /\ rec[i].key # Nothing
        /\ rec[i].obj = "kiem_dinh" => {rec[i].st, rec[j].st} = {"len_lich"}
        => rec[i].key \in excused

\* notify.mjs:106: the customer hears of an order's state once per template, however
\* often the workflow calls; again only for a notice whose answer was lost.
NoticeGoesOutOnce ==
    \A k \in DOMAIN heard : heard[k] <= 1 + Times(retracted, k)

\* reports.mjs:181 and index.mjs:243: a finished order has a complete report and
\* keeps it, unless the administrator skipped the check, the report was edited while
\* the order was being closed, another request's change of the order was on its way at
\* the same time, or an answer or the process was lost meanwhile.
FinishedHasReport ==
    \A i \in DOMAIN rec :
        rec[i].obj = "phieu" /\ rec[i].st = "hoan_thanh" /\ i \notin muddled => Doc(i) = Parts
=============================================================================
