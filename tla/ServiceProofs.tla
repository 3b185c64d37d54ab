--------------------------- MODULE ServiceProofs ----------------------------
(* Proofs about the service module: a notice goes out once, a finished      *)
(* order keeps its report, and no key is created twice.                     *)
EXTENDS ServiceOrders, FiniteSetTheorems, SequenceTheorems, TLAPS

ServiceSpec == ServiceInit /\ [][ServiceNext]_serviceVars

JobFields == {"op", "by", "arg", "pc", "stage", "view", "miss", "seen", "todo", "sent", "got"}

Sending(j) == j.pc \in {"send", "sent", "release"}

\* What a request may have written and not heard of: only while it writes.
JobIsSound(j) ==
    /\ DOMAIN j = JobFields
    /\ j.sent # {} => j.pc = "write"

\* A key is claimed by one request at a time, which has not sent the notice yet or
\* knows that it counts as unsent.
NoticeInv ==
    /\ job = [r \in Jobs |-> job[r]]
    /\ \A r \in Jobs : JobIsSound(job[r])
    /\ \A k : Times(heard, k) \in Nat /\ Times(retracted, k) \in Nat
    /\ \A r \in Jobs : Sending(job[r]) =>
          /\ job[r].got \in claimed
          /\ \A q \in Jobs : Sending(job[q]) /\ job[q].got = job[r].got => q = r
          /\ job[r].pc # "sent" => Times(heard, job[r].got) <= Times(retracted, job[r].got)
    /\ \A k : Times(heard, k) <= 1 + Times(retracted, k)
    /\ \A k : k \notin claimed => Times(heard, k) <= Times(retracted, k)

LEMMA NoJobIsSound == JobIsSound(NoJob) /\ NoJob.pc = "idle"
  BY DEF JobIsSound, NoJob, JobFields

LEMMA NoticeInitInv == ServiceInit => NoticeInv
<1> SUFFICES ASSUME ServiceInit PROVE NoticeInv
  OBVIOUS
<1>1. \A r \in Jobs : job[r] = NoJob
  BY DEF ServiceInit
<1>2. \A k : Times(heard, k) = 0 /\ Times(retracted, k) = 0
  BY DEF ServiceInit, Times
<1>3. job = [r \in Jobs |-> job[r]]
  BY DEF ServiceInit
<1>4. QED
  BY <1>1, <1>2, <1>3, NoJobIsSound DEF NoticeInv, Sending

\* One request moves, and sends nothing.
JobMoves(r) ==
    /\ job' = [job EXCEPT ![r] = job'[r]]
    /\ JobIsSound(job'[r]) /\ ~Sending(job'[r])

LEMMA JobMoveKeeps ==
    ASSUME NoticeInv, NEW r \in Jobs, JobMoves(r), UNCHANGED noticeVars
    PROVE  NoticeInv'
<1>1. /\ job' = [q \in Jobs |-> job'[q]]
      /\ \A q \in Jobs : q # r => job'[q] = job[q]
  BY DEF NoticeInv, JobMoves
<1>2. QED
  BY <1>1 DEF NoticeInv, JobMoves, noticeVars, Times

\* A request in one piece: what its new state is.
LEMMA JobTakes ==
    ASSUME NoticeInv, NEW r \in Jobs, NEW j, job' = [job EXCEPT ![r] = j],
           DOMAIN j = JobFields, j.sent # {} => j.pc = "write", ~Sending(j)
    PROVE  JobMoves(r)
  BY DEF NoticeInv, JobMoves, JobIsSound

LEMMA DoneMoves ==
    ASSUME NoticeInv, NEW r \in Jobs, Done(r)
    PROVE  JobMoves(r)
<1> DEFINE j == [NoJob EXCEPT !.pc = "done"]
<1>1. DOMAIN j = JobFields /\ j.sent = {} /\ ~Sending(j)
  BY DEF NoJob, JobFields, Sending
<1>2. job' = [job EXCEPT ![r] = j]
  BY DEF Done
<1>3. QED
  BY <1>1, <1>2, JobTakes

LEMMA FailMoves ==
    ASSUME NoticeInv, NEW r \in Jobs, NEW todo, NEW sent, job[r].pc = "write", Fail(r, todo, sent)
    PROVE  JobMoves(r)
<1>1. CASE job[r].op \in Generators
  <2> DEFINE j == [job[r] EXCEPT !.todo = todo, !.sent = sent]
  <2>1. DOMAIN j = JobFields /\ j.pc = "write" /\ ~Sending(j)
    BY DEF NoticeInv, JobIsSound, JobFields, Sending
  <2>2. job' = [job EXCEPT ![r] = j]
    BY <1>1 DEF Fail, NoticeInv, JobIsSound, JobFields
  <2>3. QED
    BY <2>1, <2>2, JobTakes
<1>2. CASE job[r].op \notin Generators
  BY <1>2, DoneMoves DEF Fail
<1>3. QED
  BY <1>1, <1>2

LEMMA StartWritingMoves ==
    ASSUME NoticeInv, NEW r \in Jobs, NEW since, NEW writes, StartWriting(r, since, writes)
    PROVE  JobMoves(r)
<1> DEFINE j == [job[r] EXCEPT !.pc = "write", !.view = Nothing, !.miss = {}, !.seen = 0, !.todo = writes]
<1>1. DOMAIN j = JobFields /\ j.pc = "write" /\ ~Sending(j)
  BY DEF NoticeInv, JobIsSound, JobFields, Sending
<1>2. job' = [job EXCEPT ![r] = j]
  BY DEF StartWriting, NoticeInv
<1>3. QED
  BY <1>1, <1>2, JobTakes

\* A request that waits for nothing may go to any step but the three of a notice.
LEMMA StepMoves ==
    ASSUME NoticeInv, NEW r \in Jobs, job[r].sent = {}, NEW j, job' = [job EXCEPT ![r] = j],
           DOMAIN j = DOMAIN job[r], j.sent = job[r].sent, ~Sending(j)
    PROVE  JobMoves(r)
  BY JobTakes DEF NoticeInv, JobIsSound

LEMMA TaskMoves ==
    ASSUME NoticeInv, NEW r \in Jobs, job[r].sent = {}, NEW v, NEW since, Task(r, v, since)
    PROVE  JobMoves(r)
<1>1. ASSUME NEW todo, NEW got, 
             job' = [job EXCEPT ![r] = [job[r] EXCEPT !.pc = "write", !.view = Nothing, !.miss = {}, !.seen = 0,
                                                      !.todo = todo, !.got = got]]
      PROVE  JobMoves(r)
  <2> DEFINE j == [job[r] EXCEPT !.pc = "write", !.view = Nothing, !.miss = {}, !.seen = 0,
                                 !.todo = todo, !.got = got]
  <2>1. DOMAIN j = DOMAIN job[r] /\ j.sent = job[r].sent /\ ~Sending(j)
    BY DEF NoticeInv, JobIsSound, JobFields, Sending
  <2>2. QED
    BY <1>1, <2>1, StepMoves
<1>2. ASSUME NEW todo, 
             job' = [job EXCEPT ![r] = [job[r] EXCEPT !.pc = "write", !.view = Nothing, !.miss = {}, !.seen = 0,
                                                      !.todo = todo]]
      PROVE  JobMoves(r)
  <2> DEFINE j == [job[r] EXCEPT !.pc = "write", !.view = Nothing, !.miss = {}, !.seen = 0, !.todo = todo]
  <2>1. DOMAIN j = DOMAIN job[r] /\ j.sent = job[r].sent /\ ~Sending(j)
    BY DEF NoticeInv, JobIsSound, JobFields, Sending
  <2>2. QED
    BY <1>2, <2>1, StepMoves
<1>3. \/ Done(r)
      \/ \E todo, got : job' = [job EXCEPT ![r] = [job[r] EXCEPT !.pc = "write", !.view = Nothing, !.miss = {},
                                                                !.seen = 0, !.todo = todo, !.got = got]]
      \/ \E todo : job' = [job EXCEPT ![r] = [job[r] EXCEPT !.pc = "write", !.view = Nothing, !.miss = {},
                                                           !.seen = 0, !.todo = todo]]
  <2>1. CASE job[r].stage = 1
    BY <2>1, Zenon DEF Task
  <2>2. CASE job[r].stage = 2
    <3>1. job[r].stage # 1
      BY <2>2
    <3>2. QED
      BY <2>2, <3>1, Zenon DEF Task
  <2>3. QED
    BY <2>1, <2>2 DEF Task
<1>4. QED
  BY <1>1, <1>2, <1>3, DoneMoves

LEMMA UpdateMoves ==
    ASSUME NoticeInv, NEW r \in Jobs, job[r].sent = {}, NEW v, Update(r, v)
    PROVE  JobMoves(r)
<1>1. ASSUME NEW got, NEW stage, NEW pc \in {"guard", "list"},
             job' = [job EXCEPT ![r] = [job[r] EXCEPT !.view = Nothing, !.miss = {}, !.seen = 0, !.got = got,
                                                      !.stage = stage, !.pc = pc]]
      PROVE  JobMoves(r)
  <2> DEFINE j == [job[r] EXCEPT !.view = Nothing, !.miss = {}, !.seen = 0, !.got = got,
                                 !.stage = stage, !.pc = pc]
  <2>1. DOMAIN j = DOMAIN job[r] /\ j.sent = job[r].sent /\ ~Sending(j)
    BY DEF NoticeInv, JobIsSound, JobFields, Sending
  <2>2. QED
    BY <1>1, <2>1, StepMoves
<1>2. ASSUME NEW todo,
             job' = [job EXCEPT ![r] = [job[r] EXCEPT !.pc = "write", !.view = Nothing, !.miss = {}, !.seen = 0,
                                                      !.stage = 2, !.todo = todo]]
      PROVE  JobMoves(r)
  <2> DEFINE j == [job[r] EXCEPT !.pc = "write", !.view = Nothing, !.miss = {}, !.seen = 0,
                                 !.stage = 2, !.todo = todo]
  <2>1. DOMAIN j = DOMAIN job[r] /\ j.sent = job[r].sent /\ ~Sending(j)
    BY DEF NoticeInv, JobIsSound, JobFields, Sending
  <2>2. QED
    BY <1>2, <2>1, StepMoves
<1>3. \/ Done(r)
      \/ \E got, stage : \E pc \in {"guard", "list"} :
           job' = [job EXCEPT ![r] = [job[r] EXCEPT !.view = Nothing, !.miss = {}, !.seen = 0, !.got = got,
                                                    !.stage = stage, !.pc = pc]]
      \/ \E todo : job' = [job EXCEPT ![r] = [job[r] EXCEPT !.pc = "write", !.view = Nothing, !.miss = {},
                                                           !.seen = 0, !.stage = 2, !.todo = todo]]
  BY Zenon DEF Update
<1>4. QED
  BY <1>1, <1>2, <1>3, DoneMoves

LEMMA OpenMoves ==
    ASSUME NoticeInv, NEW r \in Jobs, job[r].sent = {}, NEW v, Open(r, v)
    PROVE  JobMoves(r)
<1> DEFINE j == [job[r] EXCEPT !.pc = "get", !.view = Nothing, !.miss = {}, !.seen = 0]
<1>1. DOMAIN j = DOMAIN job[r] /\ j.sent = job[r].sent /\ ~Sending(j)
  BY DEF NoticeInv, JobIsSound, JobFields, Sending
<1>2. Done(r) \/ job' = [job EXCEPT ![r] = j]
  BY DEF Open
<1>3. QED
  BY <1>1, <1>2, StepMoves, DoneMoves

LEMMA FindOrderMoves ==
    ASSUME NoticeInv, NEW r \in Jobs, job[r].sent = {}, NEW v, FindOrder(r, v)
    PROVE  JobMoves(r)
<1>1. ASSUME NEW got,
             job' = [job EXCEPT ![r] = [job[r] EXCEPT !.pc = "claim", !.view = Nothing, !.miss = {}, !.seen = 0,
                                                      !.got = got]]
      PROVE  JobMoves(r)
  <2> DEFINE j == [job[r] EXCEPT !.pc = "claim", !.view = Nothing, !.miss = {}, !.seen = 0, !.got = got]
  <2>1. DOMAIN j = DOMAIN job[r] /\ j.sent = job[r].sent /\ ~Sending(j)
    BY DEF NoticeInv, JobIsSound, JobFields, Sending
  <2>2. QED
    BY <1>1, <2>1, StepMoves
<1>2. \/ Done(r)
      \/ \E got : job' = [job EXCEPT ![r] = [job[r] EXCEPT !.pc = "claim", !.view = Nothing, !.miss = {},
                                                          !.seen = 0, !.got = got]]
  BY Zenon DEF FindOrder
<1>3. QED
  BY <1>1, <1>2, DoneMoves

LEMMA DecideMoves ==
    ASSUME NoticeInv, NEW r \in Jobs, job[r].sent = {}, NEW v, NEW since, Decide(r, v, since)
    PROVE  JobMoves(r)
<1>1. ASSUME Generate(r, v, since) PROVE JobMoves(r)
  BY <1>1, StartWritingMoves, Zenon DEF Generate
<1>2. ASSUME Simple(r, v, since) PROVE JobMoves(r)
  BY <1>2, StartWritingMoves, DoneMoves DEF Simple
<1>3. QED
  BY <1>1, <1>2, TaskMoves, UpdateMoves, OpenMoves, FindOrderMoves DEF Decide

LEMMA WritesMove ==
    ASSUME NoticeInv, NEW r \in Jobs, Post(r) \/ Answered(r) \/ AnswerLost(r) \/ Rejected(r)
    PROVE  JobMoves(r) /\ UNCHANGED noticeVars
<1>1. CASE Post(r)
  <2>0. PICK w \in job[r].todo :
          \E s : job' = [job EXCEPT ![r].todo = @ \ {w}, ![r].sent = @ \cup {s}]
    BY <1>1, Zenon DEF Post
  <2>1. PICK s : job' = [job EXCEPT ![r].todo = @ \ {w}, ![r].sent = @ \cup {s}]
    BY <2>0
  <2> DEFINE j == [job[r] EXCEPT !.todo = @ \ {w}, !.sent = @ \cup {s}]
  <2>2. DOMAIN j = JobFields /\ j.pc = "write" /\ ~Sending(j)
    BY <1>1 DEF NoticeInv, JobIsSound, JobFields, Sending, Post
  <2>3. job' = [job EXCEPT ![r] = j]
    BY <2>1 DEF NoticeInv, JobIsSound, JobFields
  <2>4. QED
    BY <1>1, <2>2, <2>3, JobTakes DEF Post
<1>2. CASE Answered(r)
  <2>0. PICK s \in job[r].sent :
          job' = [job EXCEPT ![r].sent = @ \ {s}, ![r].got = IF s.write.new THEN s.id ELSE @]
    BY <1>2, Zenon DEF Answered
  <2> DEFINE got == IF s.write.new THEN s.id ELSE job[r].got
  <2>1. job' = [job EXCEPT ![r].sent = @ \ {s}, ![r].got = got]
    BY <2>0 DEF NoticeInv, JobIsSound, JobFields
  <2> DEFINE j == [job[r] EXCEPT !.sent = @ \ {s}, !.got = got]
  <2>2. DOMAIN j = JobFields /\ j.pc = "write" /\ ~Sending(j)
    BY DEF NoticeInv, JobIsSound, JobFields, Sending
  <2>3. job' = [job EXCEPT ![r] = j]
    BY <2>1 DEF NoticeInv, JobIsSound, JobFields
  <2>4. QED
    BY <1>2, <2>2, <2>3, JobTakes DEF Answered
<1>3. CASE AnswerLost(r)
  <2>1. PICK s \in job[r].sent :
          \/ job' = [job EXCEPT ![r].sent = @ \ {s}, ![r].todo = @ \cup {s.write}]
          \/ Fail(r, job[r].todo, job[r].sent \ {s})
    BY <1>3, Zenon DEF AnswerLost
  <2>2. job[r].pc = "write"
    BY DEF NoticeInv, JobIsSound
  <2> DEFINE j == [job[r] EXCEPT !.sent = @ \ {s}, !.todo = @ \cup {s.write}]
  <2>3. DOMAIN j = JobFields /\ j.pc = "write" /\ ~Sending(j)
    BY <2>2 DEF NoticeInv, JobIsSound, JobFields, Sending
  <2>4. Fail(r, job[r].todo, job[r].sent \ {s}) \/ job' = [job EXCEPT ![r] = j]
    BY <2>1 DEF NoticeInv, JobIsSound, JobFields
  <2>5. QED
    BY <1>3, <2>2, <2>3, <2>4, JobTakes, FailMoves DEF AnswerLost
<1>4. CASE Rejected(r)
  BY <1>4, FailMoves DEF Rejected
<1>5. QED
  BY <1>1, <1>2, <1>3, <1>4

LEMMA ReportsMove ==
    ASSUME NoticeInv, NEW r \in Jobs,
           Begin(r) \/ Finish(r) \/ GuardComplete(r) \/ GetReport(r) \/ PutReport(r)
    PROVE  JobMoves(r) /\ UNCHANGED noticeVars
<1>1. CASE Begin(r)
  <2>1. PICK q \in menu : job' = [job EXCEPT ![r] = [NoJob EXCEPT !.op = q.op, !.by = q.by, !.arg = q.arg, !.pc = "list"]]
    BY <1>1, Zenon DEF Begin
  <2> DEFINE j == [NoJob EXCEPT !.op = q.op, !.by = q.by, !.arg = q.arg, !.pc = "list"]
  <2>2. DOMAIN j = JobFields /\ j.sent = {} /\ ~Sending(j)
    BY DEF NoJob, JobFields, Sending
  <2>3. QED
    BY <1>1, <2>1, <2>2, JobTakes DEF Begin
<1>2. CASE Finish(r)
  <2>1. ASSUME NEW todo, job' = [job EXCEPT ![r].stage = 2, ![r].todo = todo]
        PROVE  JobMoves(r)
    <3> DEFINE j == [job[r] EXCEPT !.stage = 2, !.todo = todo]
    <3>1. DOMAIN j = DOMAIN job[r] /\ j.sent = job[r].sent /\ job[r].sent = {} /\ ~Sending(j)
      BY <1>2 DEF NoticeInv, JobIsSound, JobFields, Sending, Finish
    <3>2. job' = [job EXCEPT ![r] = j]
      BY <2>1 DEF NoticeInv, JobIsSound, JobFields
    <3>3. QED
      BY <3>1, <3>2, StepMoves
  <2>2. ASSUME job' = [job EXCEPT ![r].stage = 2, ![r].pc = "list"]
        PROVE  JobMoves(r)
    <3> DEFINE j == [job[r] EXCEPT !.stage = 2, !.pc = "list"]
    <3>1. DOMAIN j = DOMAIN job[r] /\ j.sent = job[r].sent /\ job[r].sent = {} /\ ~Sending(j)
      BY <1>2 DEF NoticeInv, JobIsSound, JobFields, Sending, Finish
    <3>2. job' = [job EXCEPT ![r] = j]
      BY <2>2 DEF NoticeInv, JobIsSound, JobFields
    <3>3. QED
      BY <3>1, <3>2, StepMoves
  <2>3. ASSUME Goto(r, "mark")
        PROVE  JobMoves(r)
    <3> DEFINE j == [job[r] EXCEPT !.pc = "mark"]
    <3>1. DOMAIN j = DOMAIN job[r] /\ j.sent = job[r].sent /\ job[r].sent = {} /\ ~Sending(j)
      BY <1>2 DEF NoticeInv, JobIsSound, JobFields, Sending, Finish
    <3>2. job' = [job EXCEPT ![r] = j]
      BY <2>3 DEF NoticeInv, JobIsSound, JobFields, Goto
    <3>3. QED
      BY <3>1, <3>2, StepMoves
  <2>4. \/ \E todo : job' = [job EXCEPT ![r].stage = 2, ![r].todo = todo]
        \/ job' = [job EXCEPT ![r].stage = 2, ![r].pc = "list"]
        \/ Goto(r, "mark")
        \/ Done(r)
    BY <1>2, Zenon DEF Finish
  <2>5. QED
    BY <1>2, <2>1, <2>2, <2>3, <2>4, DoneMoves DEF Finish
<1>3. CASE GuardComplete(r)
  <2> DEFINE j == [job[r] EXCEPT !.pc = "list", !.stage = 2]
  <2>1. DOMAIN j = DOMAIN job[r] /\ j.sent = job[r].sent /\ job[r].sent = {} /\ ~Sending(j)
    BY <1>3 DEF NoticeInv, JobIsSound, JobFields, Sending, GuardComplete
  <2>2. Done(r) \/ job' = [job EXCEPT ![r] = j]
    BY <1>3 DEF NoticeInv, JobIsSound, JobFields, GuardComplete
  <2>3. QED
    BY <1>3, <2>1, <2>2, StepMoves, DoneMoves DEF GuardComplete
<1>4. CASE GetReport(r)
  <2> DEFINE pc == IF job[r].pc = "get" THEN "put" ELSE "markput"
             j == [job[r] EXCEPT !.got = Doc(job[r].arg.order), !.pc = pc]
  <2>1. DOMAIN j = DOMAIN job[r] /\ j.sent = job[r].sent /\ job[r].sent = {} /\ ~Sending(j)
    BY <1>4 DEF NoticeInv, JobIsSound, JobFields, Sending, GetReport
  <2>2. job' = [job EXCEPT ![r] = j]
    BY <1>4 DEF NoticeInv, JobIsSound, JobFields, GetReport
  <2>3. QED
    BY <1>4, <2>1, <2>2, StepMoves DEF GetReport
<1>5. CASE PutReport(r)
  BY <1>5, DoneMoves DEF PutReport
<1>6. QED
  BY <1>1, <1>2, <1>3, <1>4, <1>5

LEMMA ListsMove ==
    ASSUME NoticeInv, NEW r \in Jobs, Search(r) \/ Merge(r)
    PROVE  JobMoves(r) /\ UNCHANGED noticeVars
<1>1. job[r].sent = {}
  BY DEF NoticeInv, JobIsSound, Search, Merge
<1>2. ASSUME NEW view, NEW miss, NEW seen,
             job' = [job EXCEPT ![r] = [job[r] EXCEPT !.pc = "merge", !.view = view, !.miss = miss, !.seen = seen]]
      PROVE  JobMoves(r)
  <2> DEFINE j == [job[r] EXCEPT !.pc = "merge", !.view = view, !.miss = miss, !.seen = seen]
  <2>1. DOMAIN j = DOMAIN job[r] /\ j.sent = job[r].sent /\ ~Sending(j)
    BY DEF NoticeInv, JobIsSound, JobFields, Sending
  <2>2. QED
    BY <1>1, <1>2, <2>1, StepMoves
<1>3. \/ \E v, since : Decide(r, v, since)
      \/ \E view, miss, seen :
           job' = [job EXCEPT ![r] = [job[r] EXCEPT !.pc = "merge", !.view = view, !.miss = miss, !.seen = seen]]
  BY Zenon DEF Search, Merge
<1>4. JobMoves(r)
  BY <1>1, <1>2, <1>3, DecideMoves
<1>5. UNCHANGED noticeVars
  BY Zenon DEF Search, Merge
<1>6. QED
  BY <1>4, <1>5

\* The notice itself: one request moves, from one step to the next.
LEMMA GoesTo ==
    ASSUME NoticeInv, NEW r \in Jobs, NEW pc, job[r].pc \in {"claim", "send", "sent", "release"},
           Goto(r, pc)
    PROVE  /\ job' = [q \in Jobs |-> job'[q]]
           /\ \A q \in Jobs : JobIsSound(job'[q]) /\ job'[q].got = job[q].got
           /\ job'[r].pc = pc
           /\ \A q \in Jobs : q # r => job'[q] = job[q]
<1> DEFINE j == [job[r] EXCEPT !.pc = pc]
<1>1. job' = [job EXCEPT ![r] = j]
  BY DEF Goto, NoticeInv
<1>2. job[r].sent = {}
  BY DEF NoticeInv, JobIsSound
<1>3. DOMAIN j = JobFields /\ j.sent = {} /\ j.got = job[r].got /\ j.pc = pc
  BY <1>2 DEF NoticeInv, JobIsSound, JobFields
<1> HIDE DEF j
<1>4. QED
  BY <1>1, <1>3 DEF NoticeInv, JobIsSound

LEMMA MoreCounts ==
    ASSUME NEW f, NEW k, \A i : Times(f, i) \in Nat
    PROVE  /\ Times(More(f, k), k) = Times(f, k) + 1
           /\ \A i : i # k => Times(More(f, k), i) = Times(f, i)
  BY DEF Times, More

LEMMA ClaimKeeps ==
    ASSUME NoticeInv, NEW r \in Jobs, Claim(r)
    PROVE  NoticeInv'
<1>1. CASE job[r].got \in claimed
  BY <1>1, DoneMoves, JobMoveKeeps DEF Claim, noticeVars
<1>2. CASE job[r].got \notin claimed
  <2>1. /\ Goto(r, "send") /\ claimed' = claimed \cup {job[r].got} /\ job[r].pc = "claim"
        /\ UNCHANGED <<heard, retracted>>
    BY <1>2 DEF Claim
  <2>2. /\ job' = [q \in Jobs |-> job'[q]]
        /\ \A q \in Jobs : JobIsSound(job'[q]) /\ job'[q].got = job[q].got
        /\ job'[r].pc = "send"
        /\ \A q \in Jobs : q # r => job'[q] = job[q]
    BY <2>1, GoesTo
  <2>3. \A q \in Jobs : Sending(job[q]) => job[q].got # job[r].got
    BY <1>2 DEF NoticeInv
  <2>4. QED
    BY <1>2, <2>1, <2>2, <2>3 DEF NoticeInv, Sending, Times

<1>3. QED
  BY <1>1, <1>2

LEMMA SendZnsKeeps ==
    ASSUME NoticeInv, NEW r \in Jobs, SendZns(r)
    PROVE  NoticeInv'
<1>1. /\ job[r].pc = "send" /\ UNCHANGED <<claimed, retracted>>
      /\ \/ heard' = More(heard, job[r].got) /\ Goto(r, "sent")
         \/ heard' = heard /\ Goto(r, "release")
  BY DEF SendZns
<1>2. /\ job[r].got \in claimed
      /\ \A q \in Jobs : Sending(job[q]) /\ job[q].got = job[r].got => q = r
      /\ Times(heard, job[r].got) <= Times(retracted, job[r].got)
  BY <1>1 DEF NoticeInv, Sending
<1>3. CASE heard' = More(heard, job[r].got) /\ Goto(r, "sent")
  <2>1. /\ job' = [q \in Jobs |-> job'[q]]
        /\ \A q \in Jobs : JobIsSound(job'[q]) /\ job'[q].got = job[q].got
        /\ job'[r].pc = "sent"
        /\ \A q \in Jobs : q # r => job'[q] = job[q]
    BY <1>1, <1>3, GoesTo
  <2>2. /\ Times(heard', job[r].got) = Times(heard, job[r].got) + 1
        /\ \A i : i # job[r].got => Times(heard', i) = Times(heard, i)
    BY <1>3, MoreCounts DEF NoticeInv
  <2>3. \A i : Times(heard, i) \in Nat /\ Times(retracted, i) \in Nat
    BY DEF NoticeInv
  <2>4. \A i : Times(heard, i)' = Times(heard', i) /\ Times(retracted, i)' = Times(retracted, i)
    BY <1>1 DEF Times
  <2>5. \A i : Times(heard', i) \in Nat /\ Times(heard', i) <= 1 + Times(retracted, i)
               /\ (i \notin claimed => Times(heard', i) <= Times(retracted, i))
    BY <1>2, <2>2, <2>3 DEF NoticeInv
  <2>6. \A q \in Jobs : Sending(job'[q]) =>
          /\ job'[q].got \in claimed
          /\ \A p \in Jobs : Sending(job'[p]) /\ job'[p].got = job'[q].got => p = q
          /\ job'[q].pc # "sent" => Times(heard', job'[q].got) <= Times(retracted, job'[q].got)
    BY <1>1, <1>2, <2>1, <2>2 DEF NoticeInv, Sending
  <2>7. QED
    BY <1>1, <2>1, <2>3, <2>4, <2>5, <2>6 DEF NoticeInv, Sending
<1>4. CASE heard' = heard /\ Goto(r, "release")
  <2>1. /\ job' = [q \in Jobs |-> job'[q]]
        /\ \A q \in Jobs : JobIsSound(job'[q]) /\ job'[q].got = job[q].got
        /\ job'[r].pc = "release"
        /\ \A q \in Jobs : q # r => job'[q] = job[q]
    BY <1>1, <1>4, GoesTo
  <2>2. QED
    BY <1>1, <1>2, <1>4, <2>1 DEF NoticeInv, Sending, Times
<1>5. QED
  BY <1>1, <1>3, <1>4

LEMMA ZnsAnsweredKeeps ==
    ASSUME NoticeInv, NEW r \in Jobs, ZnsAnswered(r)
    PROVE  NoticeInv'
<1>1. CASE Done(r) /\ UNCHANGED retracted
  BY <1>1, DoneMoves, JobMoveKeeps DEF ZnsAnswered, noticeVars
<1>2. CASE retracted' = More(retracted, job[r].got) /\ Goto(r, "release")
  <2>1. job[r].pc = "sent" /\ UNCHANGED <<claimed, heard>>
    BY DEF ZnsAnswered
  <2>2. /\ job[r].got \in claimed
        /\ \A q \in Jobs : Sending(job[q]) /\ job[q].got = job[r].got => q = r
        /\ \A i : Times(heard, i) \in Nat /\ Times(retracted, i) \in Nat
        /\ Times(heard, job[r].got) <= Times(retracted, job[r].got) + 1
    BY <2>1 DEF NoticeInv, Sending
  <2>3. /\ job' = [q \in Jobs |-> job'[q]]
        /\ \A q \in Jobs : JobIsSound(job'[q]) /\ job'[q].got = job[q].got
        /\ job'[r].pc = "release"
        /\ \A q \in Jobs : q # r => job'[q] = job[q]
    BY <1>2, <2>1, GoesTo
  <2>4. /\ Times(retracted', job[r].got) = Times(retracted, job[r].got) + 1
        /\ \A i : i # job[r].got => Times(retracted', i) = Times(retracted, i)
    BY <1>2, <2>2, MoreCounts
  <2>5. \A i : Times(heard, i)' = Times(heard, i) /\ Times(retracted, i)' = Times(retracted', i)
    BY <2>1 DEF Times
  <2>6. \A i : /\ Times(retracted', i) \in Nat /\ Times(heard, i) <= 1 + Times(retracted', i)
               /\ i \notin claimed => Times(heard, i) <= Times(retracted', i)
    BY <2>2, <2>4 DEF NoticeInv
  <2>7. \A q \in Jobs : Sending(job'[q]) =>
          /\ job'[q].got \in claimed
          /\ \A p \in Jobs : Sending(job'[p]) /\ job'[p].got = job'[q].got => p = q
          /\ job'[q].pc # "sent" => Times(heard, job'[q].got) <= Times(retracted', job'[q].got)
    BY <2>1, <2>2, <2>3, <2>4 DEF NoticeInv, Sending
  <2>8. QED
    BY <2>1, <2>2, <2>3, <2>5, <2>6, <2>7 DEF NoticeInv, Sending
<1>3. QED
  BY <1>1, <1>2 DEF ZnsAnswered

LEMMA ReleaseKeeps ==
    ASSUME NoticeInv, NEW r \in Jobs, Release(r)
    PROVE  NoticeInv'
<1>1. /\ job[r].pc = "release" /\ claimed' = claimed \ {job[r].got} /\ UNCHANGED <<heard, retracted>>
  BY DEF Release
<1>2. JobMoves(r)
  BY DoneMoves DEF Release
<1>3. /\ \A q \in Jobs : Sending(job[q]) /\ job[q].got = job[r].got => q = r
      /\ Times(heard, job[r].got) <= Times(retracted, job[r].got)
  BY <1>1 DEF NoticeInv, Sending
<1>4. /\ job' = [q \in Jobs |-> job'[q]]
      /\ \A q \in Jobs : q # r => job'[q] = job[q]
  BY <1>2 DEF NoticeInv, JobMoves
<1>5. QED
  BY <1>1, <1>2, <1>3, <1>4 DEF NoticeInv, JobMoves, Times

LEMMA RestartKeeps ==
    ASSUME NoticeInv, Restart
    PROVE  NoticeInv'
<1>1. /\ UNCHANGED noticeVars
      /\ job' = [r \in Jobs |-> IF job[r].pc = "idle" THEN job[r] ELSE [NoJob EXCEPT !.pc = "done"]]
  BY DEF Restart
<1> DEFINE d == [NoJob EXCEPT !.pc = "done"]
<1>2. JobIsSound(d) /\ ~Sending(d)
  BY DEF NoJob, JobIsSound, JobFields, Sending
<1> HIDE DEF d
<1>3. \A r \in Jobs : JobIsSound(job'[r]) /\ ~Sending(job'[r])
  BY <1>1, <1>2 DEF NoticeInv, Sending, d
<1>4. job' = [r \in Jobs |-> job'[r]]
  BY <1>1
<1>5. QED
  BY <1>1, <1>3, <1>4 DEF NoticeInv, noticeVars, Times

LEMMA NoticeStepInv == NoticeInv /\ [ServiceNext]_serviceVars => NoticeInv'
<1> SUFFICES ASSUME NoticeInv, [ServiceNext]_serviceVars PROVE NoticeInv'
  OBVIOUS
<1>1. CASE UNCHANGED <<job, noticeVars>>
  BY <1>1 DEF NoticeInv, noticeVars, Times
<1>2. ASSUME NEW r \in Jobs,
             \/ Begin(r) \/ Search(r) \/ Merge(r) \/ Post(r) \/ Answered(r) \/ AnswerLost(r)
             \/ Rejected(r) \/ Finish(r) \/ GuardComplete(r) \/ GetReport(r) \/ PutReport(r)
      PROVE  NoticeInv'
  <2>1. JobMoves(r) /\ UNCHANGED noticeVars
    BY <1>2, WritesMove, ReportsMove, ListsMove
  <2>2. QED
    BY <2>1, JobMoveKeeps
<1>3. ASSUME NEW r \in Jobs, Claim(r) \/ SendZns(r) \/ ZnsAnswered(r) \/ Release(r)
      PROVE  NoticeInv'
  BY <1>3, ClaimKeeps, SendZnsKeeps, ZnsAnsweredKeeps, ReleaseKeeps
<1>4. CASE (\E o \in Objects : CacheGone(o) \/ RecentGone(o)) \/ IndexCatchesUp
  BY <1>1, <1>4 DEF CacheGone, RecentGone, IndexCatchesUp
<1>5. CASE UNCHANGED serviceVars
  BY <1>1, <1>5 DEF serviceVars
<1>6. QED
  BY <1>2, <1>3, <1>4, <1>5, RestartKeeps DEF ServiceNext

\* A customer hears of an order's state once per template, however many requests of the
\* workflow overlap and wherever they stop (claim, send, release of notify.mjs); again
\* only for a notice whose answer was lost.
THEOREM NoticesGoOutOnce == ServiceSpec => []NoticeGoesOutOnce
<1>1. NoticeInv => NoticeGoesOutOnce
  BY DEF NoticeInv, NoticeGoesOutOnce, Times
<1>2. QED
  BY <1>1, NoticeInitInv, NoticeStepInv, PTL DEF ServiceSpec


-----------------------------------------------------------------------------
\* A finished order keeps its report

Deeds == {"take", "start", "finish", "cancel"}

\* A request that has checked the report of order o and will finish it.
Finishes(j, o) == j.op = "update" /\ j.stage = 2 /\ j.arg.do = "finish" /\ j.arg.order = o

\* Only such a request makes an order finished.
WriteIsSound(j, w) ==
    /\ w.new => /\ {"obj", "st"} \subseteq DOMAIN w.fields /\ w.fields.st # "hoan_thanh"
                /\ w.fields.obj = w.obj
    /\ ~w.new => j.op \notin Generators /\ "obj" \notin DOMAIN w.fields
    /\ ~w.new /\ w.obj = "phieu" /\ "st" \in DOMAIN w.fields /\ w.fields.st = "hoan_thanh" =>
          Finishes(j, w.id)

\* What was sent is in the record, unless another write of the record was on its way too.
SentIsSound(s) ==
    /\ s.id \in DOMAIN rec /\ rec[s.id].obj = s.write.obj
    /\ ~s.write.new => s.write.id = s.id
    /\ "st" \in DOMAIN s.write.fields /\ s.id \notin muddled => rec[s.id].st = s.write.fields.st

WritesAreSound(j) ==
    /\ IsFiniteSet(j.sent)
    /\ j.op \notin Generators => \A s, t \in j.sent : s = t
    /\ \A w \in j.todo : WriteIsSound(j, w)
    /\ \A s \in j.sent : WriteIsSound(j, s.write) /\ SentIsSound(s)
    /\ j.stage \in {1, 2}
    /\ j.op = "update" => j.arg.do \in Deeds
    /\ j.pc = "merge" => j.miss \subseteq Needs(j) /\ j.miss # {}

Edits(j, o) == j.pc \in {"get", "put", "mark", "markput"} /\ j.arg.order = o

ClosingIsSound(j) ==
    \A o : Finishes(j, o) =>
        o \in muddled \/ (Doc(o) = Parts /\ \A q \in Jobs : ~Edits(job[q], o))

Finished(i) == /\ i \in DOMAIN rec /\ i \notin muddled
               /\ rec[i].obj = "phieu" /\ rec[i].st = "hoan_thanh"
Pending(i)  == \E r \in Jobs : \E s \in job[r].sent : s.id = i /\ "st" \in DOMAIN s.write.fields

\* Nobody edits the report of order i; its start may still be noted, which changes nothing.
LeavesReport(j, i) ==
    /\ j.pc \in {"get", "put"} => j.arg.order # i
    /\ j.pc = "markput" /\ j.arg.order = i => j.got = Parts

ReportIsKept(i) == Doc(i) = Parts /\ \A q \in Jobs : LeavesReport(job[q], i)

ShowsFinished(f, i) == i \in DOMAIN f /\ "st" \in DOMAIN f[i] /\ f[i].st = "hoan_thanh"
CacheShows(i) == cache["phieu"] # Nothing /\ i \in DOMAIN cache["phieu"] => ShowsFinished(cache["phieu"], i)
ListShows(j, i) == j.pc = "merge" /\ "phieu" \in j.miss => ShowsFinished(j.view["phieu"], i)

\* Every view of the orders that is used from now on shows that order i is finished.
ViewsShow(i) ==
    /\ CacheShows(i)
    /\ "st" \in DOMAIN At(recent["phieu"], i) => At(recent["phieu"], i).st = "hoan_thanh"
    /\ "st" \notin DOMAIN At(recent["phieu"], i) =>
          /\ ShowsFinished(shown, i) /\ shown[i].obj = "phieu"
          /\ \A q \in Jobs : ListShows(job[q], i)

RecordsAreSound ==
    /\ rec \in Seq({rec[i] : i \in DOMAIN rec})
    /\ \A i \in DOMAIN rec : {"obj", "st"} \subseteq DOMAIN rec[i]
    /\ DOMAIN cache = Objects /\ DOMAIN recent = Objects
    /\ menu \in Menus

FinishInv ==
    /\ RecordsAreSound
    /\ \A r \in Jobs : WritesAreSound(job[r]) /\ ClosingIsSound(job[r])
    /\ \A i : Finished(i) => ReportIsKept(i)
    /\ \A i : Finished(i) /\ ~Pending(i) => ViewsShow(i)

LEMMA PartsOfFinishInv ==
    ASSUME FinishInv, NEW r \in Jobs
    PROVE  /\ RecordsAreSound
           /\ WritesAreSound(job[r])
           /\ ClosingIsSound(job[r])
  BY DEF FinishInv

\* One request moves; records, index, overlay and reports stay.
LEMMA FinishFrame ==
    ASSUME NoticeInv, FinishInv, NEW r \in Jobs,
           job' = [job EXCEPT ![r] = job'[r]],
           UNCHANGED <<rec, shown, recent, report, menu>>, muddled \subseteq muddled', DOMAIN cache' = Objects,
           \A i : Finished(i) /\ i \notin muddled' /\ ~Pending(i) => CacheShows(i)',
           WritesAreSound(job'[r]),
           \A s \in job[r].sent : s \in job'[r].sent \/ s.id \in muddled',
           \A o : Finishes(job'[r], o) =>
               \/ o \in muddled' \/ Finishes(job[r], o)
               \/ Doc(o) = Parts /\ \A q \in Jobs : ~Edits(job[q], o) /\ ~Edits(job'[r], o),
           \A o : Edits(job'[r], o) =>
               Edits(job[r], o) \/ o \in muddled' \/ \A q \in Jobs : ~Finishes(job[q], o),
           \A i : Finished(i) /\ i \notin muddled' => LeavesReport(job'[r], i),
           \A i : /\ Finished(i) /\ i \notin muddled' /\ ~Pending(i)
                  /\ "st" \notin DOMAIN At(recent["phieu"], i)
                  => ListShows(job'[r], i)
    PROVE  FinishInv'
<1>1. /\ \A q \in Jobs : q # r => job'[q] = job[q]
      /\ DOMAIN job = Jobs
  BY DEF NoticeInv
<1>2. RecordsAreSound'
  BY DEF FinishInv, RecordsAreSound
<1>3. \A q \in Jobs : WritesAreSound(job'[q])
  BY <1>1 DEF FinishInv
<1>4. \A q \in Jobs : WritesAreSound(job[q])'
  <2>1. \A s : SentIsSound(s) => SentIsSound(s)'
    BY DEF SentIsSound
  <2>2. QED
    BY <1>3, <2>1, Zenon DEF WritesAreSound, WriteIsSound, Finishes, Needs
<1>5. \A o : Doc(o)' = Doc(o)
  BY DEF Doc
<1>6. \A q \in Jobs : ClosingIsSound(job[q])'
  <2> SUFFICES ASSUME NEW q \in Jobs, NEW o, Finishes(job'[q], o), o \notin muddled'
               PROVE  Doc(o)' = Parts /\ \A p \in Jobs : ~Edits(job'[p], o)
    BY DEF ClosingIsSound
  <2>1. CASE Finishes(job[q], o)
    <3>1. Doc(o) = Parts /\ \A p \in Jobs : ~Edits(job[p], o)
      BY <2>1 DEF FinishInv, ClosingIsSound
    <3>2. ~Edits(job'[r], o)
      BY <2>1, <3>1
    <3>3. QED
      BY <1>1, <1>5, <3>1, <3>2
  <2>2. CASE ~Finishes(job[q], o)
    BY <1>1, <1>5, <2>2
  <2>3. QED
    BY <2>1, <2>2
<1>7. \A i : Finished(i)' => Finished(i) /\ i \notin muddled'
  BY DEF Finished
<1>8. \A i : Finished(i)' => ReportIsKept(i)'
  <2> SUFFICES ASSUME NEW i, Finished(i), i \notin muddled'
               PROVE  ReportIsKept(i)'
    BY <1>7
  <2>1. Doc(i) = Parts /\ \A q \in Jobs : LeavesReport(job[q], i)
    BY DEF FinishInv, ReportIsKept
  <2>2. \A q \in Jobs : LeavesReport(job'[q], i)
    BY <1>1, <2>1
  <2>3. QED
    BY <1>5, <2>1, <2>2 DEF ReportIsKept
<1>9. \A i : i \notin muddled' /\ ~Pending(i)' => ~Pending(i)
  BY <1>1 DEF Pending
<1>10. \A i : Finished(i)' /\ ~Pending(i)' => ViewsShow(i)'
  <2> SUFFICES ASSUME NEW i, Finished(i), i \notin muddled', ~Pending(i)
               PROVE  ViewsShow(i)'
    BY <1>7, <1>9
  <2>1. ViewsShow(i)
    BY DEF FinishInv
  <2>2. CacheShows(i)'
    OBVIOUS
  <2>3. "st" \notin DOMAIN At(recent["phieu"], i) => \A q \in Jobs : ListShows(job'[q], i)
    BY <1>1, <2>1 DEF ViewsShow
  <2>4. QED
    BY <2>1, <2>2, <2>3 DEF ViewsShow, At
<1>11. QED
  BY <1>2, <1>4, <1>6, <1>8, <1>10 DEF FinishInv

\* A request that neither opens a report nor waits for a list.
LEMMA QuietFrame ==
    ASSUME NoticeInv, FinishInv, NEW r \in Jobs, NEW j,
           job' = [job EXCEPT ![r] = j],
           UNCHANGED <<rec, shown, viewVars, report, menu>>, muddled \subseteq muddled',
           WritesAreSound(j), j.pc \notin {"get", "put", "mark", "markput", "merge"},
           \A s \in job[r].sent : s \in j.sent \/ s.id \in muddled',
           \A o : Finishes(j, o) =>
               \/ o \in muddled' \/ Finishes(job[r], o)
               \/ Doc(o) = Parts /\ \A q \in Jobs : ~Edits(job[q], o)
    PROVE  FinishInv'
<1>1. job' = [job EXCEPT ![r] = job'[r]] /\ job'[r] = j
  BY DEF NoticeInv
<1>2. /\ \A o : ~Edits(j, o)
      /\ \A i : LeavesReport(j, i) /\ ListShows(j, i)
  BY DEF Edits, LeavesReport, ListShows
<1>3. \A i : Finished(i) /\ i \notin muddled' /\ ~Pending(i) => CacheShows(i)'
  BY DEF FinishInv, ViewsShow, CacheShows, viewVars
<1>4. DOMAIN cache' = Objects /\ recent' = recent
  BY DEF FinishInv, RecordsAreSound, viewVars
<1>5. /\ WritesAreSound(job'[r])
      /\ \A s \in job[r].sent : s \in job'[r].sent \/ s.id \in muddled'
      /\ \A o : Finishes(job'[r], o) =>
             \/ o \in muddled' \/ Finishes(job[r], o)
             \/ Doc(o) = Parts /\ \A q \in Jobs : ~Edits(job[q], o) /\ ~Edits(job'[r], o)
  BY <1>1, <1>2
<1>6. /\ \A o : Edits(job'[r], o) =>
             Edits(job[r], o) \/ o \in muddled' \/ \A q \in Jobs : ~Finishes(job[q], o)
      /\ \A i : Finished(i) /\ i \notin muddled' => LeavesReport(job'[r], i)
      /\ \A i : /\ Finished(i) /\ i \notin muddled' /\ ~Pending(i)
                /\ "st" \notin DOMAIN At(recent["phieu"], i)
                => ListShows(job'[r], i)
  BY <1>1, <1>2
<1>7. QED
  BY <1>1, <1>3, <1>4, <1>5, <1>6, FinishFrame

\* What a request writes stays sound while it does something else.
LEMMA WritesStay ==
    ASSUME NEW k, NEW j, WritesAreSound(k), j.op = k.op, j.arg = k.arg, j.todo = k.todo, j.sent = k.sent,
           j.stage \in {k.stage, 2}, j.pc # "merge"
    PROVE  WritesAreSound(j)
<1>1. \A w : WriteIsSound(k, w) => WriteIsSound(j, w)
  BY DEF WriteIsSound, Finishes, WritesAreSound
<1>2. QED
  BY <1>1 DEF WritesAreSound

Quiet(pc) == pc \notin {"get", "put", "mark", "markput", "merge"}

LEMMA StepKeeps ==
    ASSUME NoticeInv, FinishInv, NEW r \in Jobs, NEW j, job' = [job EXCEPT ![r] = j],
           UNCHANGED <<rec, shown, viewVars, report, menu>>, muddled \subseteq muddled',
           j.op = job[r].op, j.arg = job[r].arg, j.todo = job[r].todo, j.sent = job[r].sent,
           j.stage \in {job[r].stage, 2}, Quiet(j.pc),
           \A o : Finishes(j, o) =>
               \/ o \in muddled' \/ Finishes(job[r], o)
               \/ Doc(o) = Parts /\ \A q \in Jobs : ~Edits(job[q], o)
    PROVE  FinishInv'
<1>1. WritesAreSound(job[r])
  BY PartsOfFinishInv
<1>2. j.pc \notin {"get", "put", "mark", "markput", "merge"} /\ j.pc # "merge"
  BY DEF Quiet
<1>3. WritesAreSound(j)
  BY <1>1, <1>2, WritesStay
<1>4. \A s \in job[r].sent : s \in j.sent \/ s.id \in muddled'
  OBVIOUS
<1>5. QED
  BY <1>2, <1>3, <1>4, QuietFrame

LEMMA NoJobWrites ==
    ASSUME NEW j, j.op = "update" => j.arg.do \in Deeds, j.todo = {}, j.sent = {}, j.stage = 1, j.pc # "merge"
    PROVE  WritesAreSound(j)
  BY FS_EmptySet DEF WritesAreSound

LEMMA DoneKeeps ==
    ASSUME NoticeInv, FinishInv, NEW r \in Jobs, Done(r),
           UNCHANGED <<rec, shown, viewVars, report, menu>>, muddled \subseteq muddled',
           \A s \in job[r].sent : s.id \in muddled'
    PROVE  FinishInv'
<1> DEFINE j == [NoJob EXCEPT !.pc = "done"]
<1>1. /\ j.op = "none" /\ j.todo = {} /\ j.sent = {} /\ j.stage = 1 /\ j.pc = "done"
      /\ job' = [job EXCEPT ![r] = j]
  BY DEF NoJob, Done
<1> HIDE DEF j
<1>2. WritesAreSound(j)
  BY <1>1, NoJobWrites
<1>3. \A o : ~Finishes(j, o)
  BY <1>1 DEF Finishes
<1>4. QED
  BY <1>1, <1>2, <1>3, QuietFrame

\* The steps of a notice.
LEMMA GotoKeeps ==
    ASSUME NoticeInv, FinishInv, NEW r \in Jobs, NEW pc, Goto(r, pc), Quiet(pc),
           UNCHANGED <<rec, shown, viewVars, report, menu, muddled>>
    PROVE  FinishInv'
<1> DEFINE j == [job[r] EXCEPT !.pc = pc]
<1>1. job' = [job EXCEPT ![r] = j]
  BY DEF Goto, NoticeInv
<1>2. /\ j.op = job[r].op /\ j.arg = job[r].arg /\ j.todo = job[r].todo /\ j.sent = job[r].sent
      /\ j.stage = job[r].stage /\ j.pc = pc
  BY DEF NoticeInv, JobIsSound, JobFields
<1> HIDE DEF j
<1>3. \A o : Finishes(j, o) => Finishes(job[r], o)
  BY <1>2 DEF Finishes
<1>4. QED
  BY <1>1, <1>2, <1>3, StepKeeps

LEMMA NothingSent ==
    ASSUME NoticeInv, NEW r \in Jobs, job[r].pc # "write"
    PROVE  job[r].sent = {}
  BY DEF NoticeInv, JobIsSound

LEMMA NoticesKeepReports ==
    ASSUME NoticeInv, FinishInv, NEW r \in Jobs, Claim(r) \/ SendZns(r) \/ ZnsAnswered(r) \/ Release(r)
    PROVE  FinishInv'
<1>1. /\ job[r].sent = {}
      /\ UNCHANGED <<rec, shown, viewVars, report, menu, muddled>> /\ muddled \subseteq muddled'
  BY NothingSent DEF Claim, SendZns, ZnsAnswered, Release, storeVars, pastVars, boundVars
<1>2. Done(r) \/ Goto(r, "send") \/ Goto(r, "sent") \/ Goto(r, "release")
  BY Zenon DEF Claim, SendZns, ZnsAnswered, Release
<1>3. Quiet("send") /\ Quiet("sent") /\ Quiet("release")
  BY DEF Quiet
<1>4. QED
  BY <1>1, <1>2, <1>3, DoneKeeps, GotoKeeps

LEMMA BeginKeeps ==
    ASSUME NoticeInv, FinishInv, NEW r \in Jobs, Begin(r)
    PROVE  FinishInv'
<1>1. PICK q \in menu : job' = [job EXCEPT ![r] = [NoJob EXCEPT !.op = q.op, !.by = q.by, !.arg = q.arg, !.pc = "list"]]
  BY Zenon DEF Begin
<1> DEFINE j == [NoJob EXCEPT !.op = q.op, !.by = q.by, !.arg = q.arg, !.pc = "list"]
<1>2. /\ j.op = q.op /\ j.arg = q.arg /\ j.todo = {} /\ j.sent = {} /\ j.stage = 1 /\ j.pc = "list"
      /\ job' = [job EXCEPT ![r] = j]
  BY <1>1 DEF NoJob
<1> HIDE DEF j
<1>3. q.op = "update" => q.arg.do \in Deeds
  BY RequestsAssumption DEF FinishInv, RecordsAreSound, Deeds
<1>4. WritesAreSound(j)
  BY <1>2, <1>3, NoJobWrites
<1>5. \A o : ~Finishes(j, o)
  BY <1>2 DEF Finishes
<1>6. /\ job[r].sent = {}
      /\ UNCHANGED <<rec, shown, viewVars, report, menu, muddled>> /\ muddled \subseteq muddled'
  BY NothingSent DEF Begin, storeVars, pastVars, boundVars
<1>7. j.pc \notin {"get", "put", "mark", "markput", "merge"}
  BY <1>2
<1>8. QED
  BY <1>2, <1>4, <1>5, <1>6, <1>7, QuietFrame

\* A request that goes on writing, with writes it had.
LEMMA WritesOn ==
    ASSUME NEW k, NEW j, WritesAreSound(k), j.op = k.op, j.arg = k.arg, j.stage = k.stage, j.pc # "merge",
           j.sent \subseteq k.sent, \A w \in j.todo : w \in k.todo \/ \E s \in k.sent : w = s.write
    PROVE  WritesAreSound(j)
<1>1. \A w : WriteIsSound(k, w) => WriteIsSound(j, w)
  BY DEF WriteIsSound, Finishes
<1>2. IsFiniteSet(j.sent)
  BY FS_Subset DEF WritesAreSound
<1>3. QED
  BY <1>1, <1>2 DEF WritesAreSound

LEMMA FailKeeps ==
    ASSUME NoticeInv, FinishInv, NEW r \in Jobs, job[r].pc = "write", NEW todo, NEW sent, Fail(r, todo, sent),
           todo \subseteq job[r].todo, sent \subseteq job[r].sent,
           UNCHANGED <<rec, shown, viewVars, report, menu>>, muddled \subseteq muddled',
           \A s \in job[r].sent : s \in sent \/ s.id \in muddled',
           job[r].op \notin Generators => \A s \in job[r].sent : s.id \in muddled'
    PROVE  FinishInv'
<1>1. CASE job[r].op \in Generators
  <2> DEFINE j == [job[r] EXCEPT !.todo = todo, !.sent = sent]
  <2>1. /\ job' = [job EXCEPT ![r] = j]
        /\ j.op = job[r].op /\ j.arg = job[r].arg /\ j.stage = job[r].stage /\ j.pc = "write"
        /\ j.todo = todo /\ j.sent = sent
    BY <1>1 DEF Fail, NoticeInv, JobIsSound, JobFields
  <2> HIDE DEF j
  <2>2. WritesAreSound(job[r])
    BY PartsOfFinishInv
  <2>3. j.pc # "merge" /\ j.pc \notin {"get", "put", "mark", "markput", "merge"}
    BY <2>1
  <2>4. WritesAreSound(j)
    BY <2>1, <2>2, <2>3, WritesOn
  <2>5. \A o : Finishes(j, o) => Finishes(job[r], o)
    BY <2>1 DEF Finishes
  <2>6. QED
    BY <2>1, <2>3, <2>4, <2>5, QuietFrame
<1>2. CASE job[r].op \notin Generators
  BY <1>2, DoneKeeps DEF Fail
<1>3. QED
  BY <1>1, <1>2

LEMMA AnswerLostKeeps ==
    ASSUME NoticeInv, FinishInv, NEW r \in Jobs, AnswerLost(r)
    PROVE  FinishInv'
<1>1. PICK s \in job[r].sent :
         /\ \/ job' = [job EXCEPT ![r].sent = @ \ {s}, ![r].todo = @ \cup {s.write}]
            \/ Fail(r, job[r].todo, job[r].sent \ {s})
         /\ muddled' = muddled \cup {s.id}
  BY Zenon DEF AnswerLost
<1>2. /\ UNCHANGED <<rec, shown, viewVars, report, menu>> /\ muddled \subseteq muddled'
      /\ job[r].pc = "write" /\ s.id \in muddled'
  BY <1>1 DEF AnswerLost, storeVars, NoticeInv, JobIsSound
<1>3. WritesAreSound(job[r])
  BY PartsOfFinishInv
<1>4. CASE job' = [job EXCEPT ![r].sent = @ \ {s}, ![r].todo = @ \cup {s.write}]
  <2> DEFINE j == [job[r] EXCEPT !.sent = @ \ {s}, !.todo = @ \cup {s.write}]
  <2>1. /\ job' = [job EXCEPT ![r] = j]
        /\ j.op = job[r].op /\ j.arg = job[r].arg /\ j.stage = job[r].stage /\ j.pc = "write"
        /\ j.todo = job[r].todo \cup {s.write} /\ j.sent = job[r].sent \ {s}
    BY <1>2, <1>4 DEF NoticeInv, JobIsSound, JobFields
  <2> HIDE DEF j
  <2>2. j.pc # "merge" /\ j.pc \notin {"get", "put", "mark", "markput", "merge"}
    BY <2>1
  <2>3. WritesAreSound(j)
    BY <1>3, <2>1, <2>2, WritesOn
  <2>4. \A o : Finishes(j, o) => Finishes(job[r], o)
    BY <2>1 DEF Finishes
  <2>5. QED
    BY <1>2, <2>1, <2>2, <2>3, <2>4, QuietFrame
<1>5. CASE Fail(r, job[r].todo, job[r].sent \ {s})
  <2>1. job[r].op \notin Generators => \A t \in job[r].sent : t.id \in muddled'
    BY <1>2, <1>3 DEF WritesAreSound
  <2>2. QED
    BY <1>2, <1>5, <2>1, FailKeeps
<1>6. QED
  BY <1>1, <1>4, <1>5

LEMMA RoomToWrite ==
    ASSUME NoticeInv, FinishInv, NEW r \in Jobs, job[r].op \notin Generators,
           Cardinality(job[r].sent) < Width(job[r].op)
    PROVE  job[r].sent = {}
<1>1. IsFiniteSet(job[r].sent)
  BY DEF FinishInv, WritesAreSound
<1>2. Cardinality(job[r].sent) \in Nat /\ Cardinality(job[r].sent) < 1
  BY <1>1, FS_CardinalityType DEF Width
<1>3. Cardinality(job[r].sent) = 0
  BY <1>2
<1>4. QED
  BY <1>1, <1>3, FS_EmptySet

LEMMA RejectedKeeps ==
    ASSUME NoticeInv, FinishInv, NEW r \in Jobs, Rejected(r)
    PROVE  FinishInv'
<1>1. PICK w \in job[r].todo : Fail(r, job[r].todo \ {w}, job[r].sent)
  BY Zenon DEF Rejected
<1>2. /\ UNCHANGED <<rec, shown, viewVars, report, menu>> /\ muddled \subseteq muddled'
      /\ job[r].pc = "write"
  BY DEF Rejected, storeVars, pastVars, boundVars
<1>3. job[r].op \notin Generators => job[r].sent = {}
  BY RoomToWrite DEF Rejected
<1>4. QED
  BY <1>1, <1>2, <1>3, FailKeeps

\* The report is checked: whoever goes on to finish finds all its parts and nobody editing.
LEMMA GuardKeeps ==
    ASSUME NoticeInv, FinishInv, NEW r \in Jobs, GuardComplete(r)
    PROVE  FinishInv'
<1> DEFINE o == job[r].arg.order
<1>1. /\ job[r].sent = {} /\ muddled \subseteq muddled'
      /\ UNCHANGED <<rec, shown, viewVars, report, menu>>
  BY NothingSent DEF GuardComplete, storeVars, boundVars
<1>2. CASE Done(r)
  BY <1>1, <1>2, DoneKeeps
<1>3. CASE ~Done(r)
  <2> DEFINE j == [job[r] EXCEPT !.pc = "list", !.stage = 2]
  <2>1. /\ job' = [job EXCEPT ![r] = j]
        /\ j.op = job[r].op /\ j.arg = job[r].arg /\ j.todo = job[r].todo /\ j.sent = job[r].sent
        /\ j.stage = 2 /\ j.pc = "list"
    BY <1>3 DEF GuardComplete, NoticeInv, JobIsSound, JobFields
  <2> HIDE DEF j
  <2>2. o \in muddled' \/ (Doc(o) = Parts /\ Editing(o) = {})
    BY <1>3, Zenon DEF GuardComplete
  <2>3. \A x : Finishes(j, x) => x = o
    BY <2>1 DEF Finishes
  <2>4. Editing(o) = {} => \A q \in Jobs : ~Edits(job[q], o)
    BY DEF Editing, Edits
  <2>5. Quiet(j.pc) /\ j.stage \in {job[r].stage, 2}
    BY <2>1 DEF Quiet
  <2>6. QED
    BY <1>1, <2>1, <2>2, <2>3, <2>4, <2>5, StepKeeps
<1>4. QED
  BY <1>2, <1>3

LEMMA GetReportKeeps ==
    ASSUME NoticeInv, FinishInv, NEW r \in Jobs, GetReport(r)
    PROVE  FinishInv'
<1> DEFINE pc == IF job[r].pc = "get" THEN "put" ELSE "markput"
           o == job[r].arg.order
           j == [job[r] EXCEPT !.got = Doc(o), !.pc = pc]
<1>1. /\ job[r].pc \in {"get", "mark"} /\ job[r].sent = {}
      /\ UNCHANGED <<rec, shown, recent, report, menu, muddled, cache>>
  BY NothingSent DEF GetReport, storeVars, viewVars, pastVars, boundVars
<1>2. /\ job' = [job EXCEPT ![r] = j]
      /\ j.op = job[r].op /\ j.arg = job[r].arg /\ j.todo = job[r].todo /\ j.sent = job[r].sent
      /\ j.stage = job[r].stage /\ j.pc = pc /\ j.got = Doc(o)
  BY DEF GetReport, NoticeInv, JobIsSound, JobFields
<1> HIDE DEF j
<1>3. job'[r] = j /\ job' = [job EXCEPT ![r] = job'[r]]
  BY <1>2 DEF NoticeInv
<1>4. WritesAreSound(j)
  <2>1. WritesAreSound(job[r])
    BY PartsOfFinishInv
  <2>2. j.pc # "merge" /\ j.stage \in {job[r].stage, 2}
    BY <1>2
  <2>3. QED
    BY <1>2, <2>1, <2>2, WritesStay
<1>5. \A x : (Edits(j, x) => Edits(job[r], x)) /\ (Finishes(j, x) => Finishes(job[r], x))
  BY <1>1, <1>2 DEF Edits, Finishes
<1>6. \A i : Finished(i) => LeavesReport(j, i)
  <2> SUFFICES ASSUME NEW i, Finished(i) PROVE LeavesReport(j, i)
    OBVIOUS
  <2>1. Doc(i) = Parts /\ LeavesReport(job[r], i)
    BY DEF FinishInv, ReportIsKept
  <2>2. QED
    BY <1>1, <1>2, <2>1 DEF LeavesReport
<1>7. \A i : ListShows(j, i)
  BY <1>2 DEF ListShows
<1>8. \A i : Finished(i) /\ ~Pending(i) => CacheShows(i)'
  BY <1>1 DEF FinishInv, ViewsShow, CacheShows
<1>9. DOMAIN cache' = Objects
  BY <1>1 DEF FinishInv, RecordsAreSound
<1> HIDE DEF pc, o
<1>10. /\ WritesAreSound(job'[r])
       /\ \A s \in job[r].sent : s \in job'[r].sent \/ s.id \in muddled'
       /\ \A x : Finishes(job'[r], x) => Finishes(job[r], x)
       /\ \A x : Edits(job'[r], x) => Edits(job[r], x)
       /\ \A i : Finished(i) => LeavesReport(job'[r], i)
       /\ \A i : ListShows(job'[r], i)
  BY <1>1, <1>3, <1>4, <1>5, <1>6, <1>7
<1>11. muddled \subseteq muddled' /\ UNCHANGED <<rec, shown, recent, report, menu>>
  BY <1>1
<1>12. QED
  BY <1>3, <1>8, <1>9, <1>10, <1>11, FinishFrame

LEMMA PutReportKeeps ==
    ASSUME NoticeInv, FinishInv, NEW r \in Jobs, PutReport(r)
    PROVE  FinishInv'
<1> DEFINE o == job[r].arg.order
           d == [NoJob EXCEPT !.pc = "done"]
<1>1. /\ job[r].pc \in {"put", "markput"} /\ job[r].sent = {}
      /\ UNCHANGED <<rec, shown, recent, menu, muddled, cache>>
  BY NothingSent DEF PutReport, storeVars, viewVars, pastVars, boundVars
<1>2. /\ d.op = "none" /\ d.todo = {} /\ d.sent = {} /\ d.stage = 1 /\ d.pc = "done"
      /\ job' = [job EXCEPT ![r] = d]
  BY DEF NoJob, Done, PutReport
<1> HIDE DEF d
<1>3. /\ DOMAIN job = Jobs /\ job'[r] = d
      /\ \A q \in Jobs : q # r => job'[q] = job[q]
  BY <1>2 DEF NoticeInv
<1>4. \A i : i # o => Doc(i)' = Doc(i)
  BY DEF PutReport, Doc, Put
<1>5. \A i : i = o /\ job[r].pc = "markput" => Doc(i)' = job[r].got
  BY DEF PutReport, Doc, Put
<1>6. Edits(job[r], o)
  BY <1>1 DEF Edits
<1> HIDE DEF o
<1>7. /\ WritesAreSound(d)
      /\ \A x : ~Finishes(d, x) /\ ~Edits(d, x) /\ LeavesReport(d, x) /\ ListShows(d, x)
  BY <1>2, NoJobWrites DEF Finishes, Edits, LeavesReport, ListShows
<1>8. RecordsAreSound'
  BY <1>1 DEF FinishInv, RecordsAreSound
<1>9. \A q \in Jobs : WritesAreSound(job[q])'
  <2>1. \A q \in Jobs : WritesAreSound(job'[q])
    BY <1>3, <1>7 DEF FinishInv
  <2>2. \A s : SentIsSound(s) => SentIsSound(s)'
    BY <1>1 DEF SentIsSound
  <2>3. QED
    BY <2>1, <2>2, Zenon DEF WritesAreSound, WriteIsSound, Finishes, Needs
<1>10. \A q \in Jobs : ClosingIsSound(job[q])'
  <2> SUFFICES ASSUME NEW q \in Jobs, NEW x, Finishes(job'[q], x), x \notin muddled
               PROVE  Doc(x)' = Parts /\ \A p \in Jobs : ~Edits(job'[p], x)
    BY <1>1 DEF ClosingIsSound
  <2>1. q # r /\ Finishes(job[q], x)
    BY <1>3, <1>7
  <2>2. Doc(x) = Parts /\ \A p \in Jobs : ~Edits(job[p], x)
    BY <2>1 DEF FinishInv, ClosingIsSound
  <2>3. x # o
    BY <1>6, <2>2
  <2>4. QED
    BY <1>3, <1>4, <1>7, <2>2, <2>3
<1>11. \A i : (Finished(i)' => Finished(i)) /\ (Pending(i) => Pending(i)')
  BY <1>1, <1>3 DEF Finished, Pending
<1>12. \A i : Finished(i)' => ReportIsKept(i)'
  <2> SUFFICES ASSUME NEW i, Finished(i) PROVE ReportIsKept(i)'
    BY <1>11
  <2>1. Doc(i) = Parts /\ \A q \in Jobs : LeavesReport(job[q], i)
    BY DEF FinishInv, ReportIsKept
  <2>2. Doc(i)' = Parts
    <3>1. CASE i # o
      BY <1>4, <2>1, <3>1
    <3>2. CASE i = o
      <4>1. job[r].pc = "markput" /\ job[r].got = Parts
        BY <1>1, <2>1, <3>2 DEF LeavesReport, o
      <4>2. QED
        BY <1>5, <3>2, <4>1
    <3>3. QED
      BY <3>1, <3>2
  <2>3. \A q \in Jobs : LeavesReport(job'[q], i)
    BY <1>3, <1>7, <2>1
  <2>4. QED
    BY <2>2, <2>3 DEF ReportIsKept
<1>13. \A i : Finished(i)' /\ ~Pending(i)' => ViewsShow(i)'
  <2> SUFFICES ASSUME NEW i, Finished(i), ~Pending(i) PROVE ViewsShow(i)'
    BY <1>11
  <2>1. ViewsShow(i)
    BY DEF FinishInv
  <2>2. CacheShows(i)'
    BY <1>1, <2>1 DEF ViewsShow, CacheShows
  <2>3. "st" \notin DOMAIN At(recent["phieu"], i) => \A q \in Jobs : ListShows(job'[q], i)
    BY <1>3, <1>7, <2>1 DEF ViewsShow
  <2>4. QED
    BY <1>1, <2>1, <2>2, <2>3 DEF ViewsShow, At
<1>14. QED
  BY <1>8, <1>9, <1>10, <1>12, <1>13 DEF FinishInv

LEMMA SecondWritesSound ==
    ASSUME NEW k, NEW j, j.op = k.op, NEW w \in SecondWrites(k)
    PROVE  j.op \in {"contract", "handover", "record"} /\ WriteIsSound(j, w)
<1>1. CASE k.op = "contract"
  <2>1. \E u \in Terms[k.arg].units : w = Change("thang_may", u, [ref |-> k.got])
    BY <1>1 DEF SecondWrites
  <2>2. QED
    BY <1>1, <2>1 DEF Change, WriteIsSound, Generators
<1>2. CASE k.op = "handover"
  <2>1. w = Change("du_an", k.arg, [st |-> "bao_hanh"])
    BY <1>2 DEF SecondWrites
  <2>2. QED
    BY <1>2, <2>1 DEF Change, WriteIsSound, Generators
<1>3. CASE k.op = "record"
  <2>1. w = Change("thang_may", rec[k.arg.inspection].ref, [next |-> "set"])
    BY <1>3 DEF SecondWrites
  <2>2. QED
    BY <1>3, <2>1 DEF Change, WriteIsSound, Generators
<1>4. QED
  BY <1>1, <1>2, <1>3 DEF SecondWrites

LEMMA FinishKeeps ==
    ASSUME NoticeInv, FinishInv, NEW r \in Jobs, Finish(r)
    PROVE  FinishInv'
<1>1. /\ job[r].pc = "write" /\ job[r].todo = {} /\ job[r].sent = {}
      /\ UNCHANGED <<rec, shown, viewVars, report, menu>> /\ muddled \subseteq muddled'
      /\ UNCHANGED <<recent, cache>>
  BY DEF Finish, storeVars, viewVars, boundVars
<1>2. WritesAreSound(job[r])
  BY PartsOfFinishInv
<1>3. \/ /\ SecondWrites(job[r]) # {}
         /\ job' = [job EXCEPT ![r].stage = 2, ![r].todo = SecondWrites(job[r])]
      \/ job[r].op = "task" /\ job' = [job EXCEPT ![r].stage = 2, ![r].pc = "list"]
      \/ /\ job[r].op = "update" /\ job[r].arg.do = "start" /\ Goto(r, "mark")
      \/ Done(r)
  BY Zenon DEF Finish
<1>4. CASE /\ SecondWrites(job[r]) # {}
           /\ job' = [job EXCEPT ![r].stage = 2, ![r].todo = SecondWrites(job[r])]
  <2> DEFINE j == [job[r] EXCEPT !.stage = 2, !.todo = SecondWrites(job[r])]
  <2>1. /\ job' = [job EXCEPT ![r] = j]
        /\ j.op = job[r].op /\ j.arg = job[r].arg /\ j.todo = SecondWrites(job[r]) /\ j.sent = {}
        /\ j.stage = 2 /\ j.pc = "write"
    BY <1>1, <1>4 DEF NoticeInv, JobIsSound, JobFields
  <2> HIDE DEF j
  <2>2. j.op \in {"contract", "handover", "record"}
    BY <1>4, <2>1, SecondWritesSound
  <2>3. \A w \in j.todo : WriteIsSound(j, w)
    BY <2>1, SecondWritesSound
  <2>4. WritesAreSound(j)
    BY <2>1, <2>2, <2>3, FS_EmptySet DEF WritesAreSound
  <2>5. \A o : ~Finishes(j, o)
    BY <2>2 DEF Finishes
  <2>6. j.pc \notin {"get", "put", "mark", "markput", "merge"}
    BY <2>1
  <2>7. QED
    BY <1>1, <2>1, <2>4, <2>5, <2>6, QuietFrame
<1>5. CASE job[r].op = "task" /\ job' = [job EXCEPT ![r].stage = 2, ![r].pc = "list"]
  <2> DEFINE j == [job[r] EXCEPT !.stage = 2, !.pc = "list"]
  <2>1. /\ job' = [job EXCEPT ![r] = j]
        /\ j.op = job[r].op /\ j.arg = job[r].arg /\ j.todo = job[r].todo /\ j.sent = job[r].sent
        /\ j.stage = 2 /\ j.pc = "list"
    BY <1>5 DEF NoticeInv, JobIsSound, JobFields
  <2> HIDE DEF j
  <2>2. \A o : ~Finishes(j, o)
    BY <1>5, <2>1 DEF Finishes
  <2>3. Quiet(j.pc) /\ j.stage \in {job[r].stage, 2}
    BY <2>1 DEF Quiet
  <2>4. QED
    BY <1>1, <2>1, <2>2, <2>3, StepKeeps
<1>6. CASE job[r].op = "update" /\ job[r].arg.do = "start" /\ Goto(r, "mark")
  <2> DEFINE o == job[r].arg.order
             j == [job[r] EXCEPT !.pc = "mark"]
  <2>1. /\ job' = [job EXCEPT ![r] = j]
        /\ j.op = job[r].op /\ j.arg = job[r].arg /\ j.todo = job[r].todo /\ j.sent = job[r].sent
        /\ j.stage = job[r].stage /\ j.pc = "mark"
    BY <1>6 DEF NoticeInv, JobIsSound, JobFields, Goto
  <2> HIDE DEF j
  <2>2. job'[r] = j /\ job' = [job EXCEPT ![r] = job'[r]]
    BY <2>1 DEF NoticeInv
  <2>3. WritesAreSound(j)
    <3>1. j.pc # "merge" /\ j.stage \in {job[r].stage, 2}
      BY <2>1
    <3>2. QED
      BY <1>2, <2>1, <3>1, WritesStay
  <2>4. \A x : ~Finishes(j, x) /\ LeavesReport(j, x) /\ ListShows(j, x)
    BY <1>6, <2>1 DEF Finishes, LeavesReport, ListShows
  <2>5. \A x : Edits(j, x) => x = o
    BY <2>1 DEF Edits
  <2>6. o \in muddled' \/ Closing(o) = {}
    BY <1>6 DEF Finish
  <2>7. Closing(o) = {} => \A q \in Jobs : ~Finishes(job[q], o)
    BY DEF Closing, Finishes
  <2> HIDE DEF o
  <2>8. /\ WritesAreSound(job'[r])
        /\ \A s \in job[r].sent : s \in job'[r].sent \/ s.id \in muddled'
        /\ \A x : ~Finishes(job'[r], x) /\ LeavesReport(job'[r], x) /\ ListShows(job'[r], x)
        /\ \A x : Edits(job'[r], x) =>
               Edits(job[r], x) \/ x \in muddled' \/ \A q \in Jobs : ~Finishes(job[q], x)
    BY <1>1, <2>2, <2>3, <2>4, <2>5, <2>6, <2>7
  <2>9. DOMAIN cache' = Objects /\ \A i : Finished(i) /\ ~Pending(i) => CacheShows(i)'
    BY <1>1 DEF FinishInv, RecordsAreSound, ViewsShow, CacheShows
  <2>10. QED
    BY <1>1, <2>2, <2>8, <2>9, FinishFrame
<1>7. CASE Done(r)
  BY <1>1, <1>7, DoneKeeps
<1>8. QED
  BY <1>3, <1>4, <1>5, <1>6, <1>7

\* Only the views of the records change.
LEMMA ViewsFrame ==
    ASSUME NoticeInv, FinishInv, UNCHANGED <<rec, job, report, menu, muddled>>,
           DOMAIN cache' = Objects, DOMAIN recent' = Objects,
           \A i : Finished(i) /\ ~Pending(i) => ViewsShow(i)'
    PROVE  FinishInv'
<1>1. RecordsAreSound'
  BY DEF FinishInv, RecordsAreSound
<1>2. \A q \in Jobs : WritesAreSound(job[q])'
  <2>1. \A q \in Jobs : WritesAreSound(job'[q])
    BY DEF FinishInv
  <2>2. \A s : SentIsSound(s) => SentIsSound(s)'
    BY DEF SentIsSound
  <2>3. QED
    BY <2>1, <2>2, Zenon DEF WritesAreSound, WriteIsSound, Finishes, Needs
<1>3. \A q \in Jobs : ClosingIsSound(job[q])'
  BY DEF FinishInv, ClosingIsSound, Doc, Finishes, Edits
<1>4. \A i : (Finished(i)' <=> Finished(i)) /\ (Pending(i)' <=> Pending(i))
  BY DEF Finished, Pending
<1>5. \A i : Finished(i)' => ReportIsKept(i)'
  BY <1>4 DEF FinishInv, ReportIsKept, Doc, LeavesReport
<1>6. QED
  BY <1>1, <1>2, <1>3, <1>4, <1>5 DEF FinishInv

LEMMA ForgettingKeeps ==
    ASSUME NoticeInv, FinishInv, (\E o \in Objects : CacheGone(o) \/ RecentGone(o)) \/ IndexCatchesUp
    PROVE  FinishInv'
<1>1. UNCHANGED <<rec, job, report, menu, muddled>>
  BY DEF CacheGone, RecentGone, IndexCatchesUp, storeVars, pastVars, boundVars
<1>2. DOMAIN cache = Objects /\ DOMAIN recent = Objects /\ "phieu" \in Objects
  BY DEF FinishInv, RecordsAreSound, Objects
<1>3. \A i : Finished(i) => ShowsFinished(rec, i) /\ rec[i].obj = "phieu"
  BY DEF FinishInv, RecordsAreSound, Finished, ShowsFinished
<1>4. ASSUME NEW o \in Objects, CacheGone(o)
      PROVE  FinishInv'
  <2>1. cache' = [cache EXCEPT ![o] = Nothing] /\ UNCHANGED <<shown, recent>>
    BY <1>4 DEF CacheGone, storeVars
  <2>2. ASSUME NEW i, ViewsShow(i) PROVE ViewsShow(i)'
    <3>1. CacheShows(i)'
      BY <1>2, <2>1, <2>2 DEF ViewsShow, CacheShows
    <3>2. QED
      BY <1>1, <2>1, <2>2, <3>1 DEF ViewsShow, At
  <2>3. DOMAIN cache' = Objects /\ DOMAIN recent' = Objects
    BY <1>2, <2>1
  <2>4. QED
    BY <1>1, <2>2, <2>3, ViewsFrame DEF FinishInv
<1>5. ASSUME NEW o \in Objects, RecentGone(o)
      PROVE  FinishInv'
  <2>1. /\ recent' = [recent EXCEPT ![o] = <<>>] /\ UNCHANGED <<shown, cache>>
        /\ shown = rec /\ \A q \in Jobs : job[q].pc # "merge"
    BY <1>5 DEF RecentGone, storeVars
  <2>2. ASSUME NEW i, Finished(i), ViewsShow(i) PROVE ViewsShow(i)'
    <3>1. CacheShows(i)'
      BY <2>1, <2>2 DEF ViewsShow, CacheShows
    <3>2. /\ ShowsFinished(shown, i)' /\ (shown[i].obj = "phieu")'
      BY <1>3, <2>1, <2>2 DEF ShowsFinished
    <3>3. \A q \in Jobs : ListShows(job[q], i)'
      BY <1>1, <2>1 DEF ListShows
    <3>4. At(recent'["phieu"], i) \in {<<>>, At(recent["phieu"], i)}
      BY <1>2, <2>1 DEF At
    <3>5. "st" \in DOMAIN At(recent'["phieu"], i) => At(recent'["phieu"], i).st = "hoan_thanh"
      BY <2>2, <3>4 DEF ViewsShow
    <3>6. QED
      BY <3>1, <3>2, <3>3, <3>5 DEF ViewsShow, At
  <2>3. DOMAIN cache' = Objects /\ DOMAIN recent' = Objects
    BY <1>2, <2>1
  <2>4. QED
    BY <1>1, <2>2, <2>3, ViewsFrame DEF FinishInv
<1>6. CASE IndexCatchesUp
  <2>1. shown' = rec /\ UNCHANGED <<recent, cache>>
    BY <1>6 DEF IndexCatchesUp, viewVars
  <2>2. ASSUME NEW i, Finished(i), ViewsShow(i) PROVE ViewsShow(i)'
    <3>1. CacheShows(i)'
      BY <2>1, <2>2 DEF ViewsShow, CacheShows
    <3>2. /\ ShowsFinished(shown, i)' /\ (shown[i].obj = "phieu")'
      BY <1>3, <2>1, <2>2 DEF ShowsFinished
    <3>3. QED
      BY <1>1, <2>1, <2>2, <3>1, <3>2 DEF ViewsShow, At, ListShows
  <2>3. QED
    BY <1>1, <1>2, <2>1, <2>2, ViewsFrame DEF FinishInv
<1>7. QED
  BY <1>4, <1>5, <1>6

LEMMA RestartKeepsReports ==
    ASSUME NoticeInv, FinishInv, Restart
    PROVE  FinishInv'
<1> DEFINE d == [NoJob EXCEPT !.pc = "done"]
<1>1. /\ UNCHANGED <<rec, shown, report, menu>> /\ muddled \subseteq muddled'
      /\ cache' = [o \in Objects |-> Nothing] /\ recent' = [o \in Objects |-> <<>>]
      /\ \A i \in DOMAIN rec : i \notin muddled' => i \in DOMAIN shown /\ shown[i] = rec[i]
      /\ "phieu" \in Objects
  BY DEF Restart, storeVars, Objects
<1>2. /\ d.op = "none" /\ d.todo = {} /\ d.sent = {} /\ d.stage = 1 /\ d.pc = "done"
      /\ job' = [r \in Jobs |-> IF job[r].pc = "idle" THEN job[r] ELSE d]
  BY DEF NoJob, Restart
<1> HIDE DEF d
<1>3. /\ WritesAreSound(d)
      /\ \A o : ~Finishes(d, o) /\ ~Edits(d, o)
  BY <1>2, NoJobWrites DEF Finishes, Edits
<1>4. \A q \in Jobs : /\ job'[q] = d \/ (job'[q] = job[q] /\ job[q].pc = "idle")
                      /\ job'[q].pc \in {"done", "idle"} /\ job'[q].sent = {}
  BY <1>2, NothingSent
<1>5. RecordsAreSound'
  BY <1>1 DEF FinishInv, RecordsAreSound
<1>6. \A q \in Jobs : WritesAreSound(job[q])'
  <2>1. \A q \in Jobs : WritesAreSound(job'[q])
    BY <1>3, <1>4 DEF FinishInv
  <2>2. \A s : SentIsSound(s) => SentIsSound(s)'
    BY <1>1 DEF SentIsSound
  <2>3. QED
    BY <2>1, <2>2, Zenon DEF WritesAreSound, WriteIsSound, Finishes, Needs
<1>7. \A o, q : Doc(o)' = Doc(o)
  BY <1>1 DEF Doc
<1>8. \A q \in Jobs : ClosingIsSound(job[q])'
  <2> SUFFICES ASSUME NEW q \in Jobs, NEW x, Finishes(job'[q], x), x \notin muddled'
               PROVE  Doc(x)' = Parts /\ \A p \in Jobs : ~Edits(job'[p], x)
    BY DEF ClosingIsSound
  <2>1. Finishes(job[q], x)
    BY <1>3, <1>4
  <2>2. Doc(x) = Parts
    BY <1>1, <2>1 DEF FinishInv, ClosingIsSound
  <2>3. \A p \in Jobs : ~Edits(job'[p], x)
    BY <1>4 DEF Edits
  <2>4. QED
    BY <1>7, <2>2, <2>3
<1>9. \A i : Finished(i)' => Finished(i) /\ i \notin muddled'
  BY <1>1 DEF Finished
<1>10. \A i : Finished(i)' => ReportIsKept(i)'
  <2> SUFFICES ASSUME NEW i, Finished(i) PROVE ReportIsKept(i)'
    BY <1>9
  <2>1. Doc(i) = Parts
    BY DEF FinishInv, ReportIsKept
  <2>2. \A q \in Jobs : LeavesReport(job'[q], i)
    BY <1>4 DEF LeavesReport
  <2>3. QED
    BY <1>7, <2>1, <2>2 DEF ReportIsKept
<1>11. \A i : Finished(i)' => ViewsShow(i)'
  <2> SUFFICES ASSUME NEW i, Finished(i), i \notin muddled' PROVE ViewsShow(i)'
    BY <1>9
  <2>1. ShowsFinished(shown, i) /\ shown[i].obj = "phieu"
    BY <1>1 DEF FinishInv, RecordsAreSound, Finished, ShowsFinished
  <2>2. \A q \in Jobs : ListShows(job'[q], i)
    BY <1>4 DEF ListShows
  <2>3. CacheShows(i)'
    BY <1>1 DEF CacheShows
  <2>4. At(recent'["phieu"], i) = <<>>
    BY <1>1 DEF At
  <2>5. "st" \notin DOMAIN At(recent'["phieu"], i)
    BY <2>4
  <2>6. QED
    BY <1>1, <2>1, <2>2, <2>3, <2>5 DEF ViewsShow, At
<1>12. QED
  BY <1>5, <1>6, <1>8, <1>10, <1>11 DEF FinishInv

LEMMA SeqOfItsOwn ==
    ASSUME NEW T, NEW s \in Seq(T)
    PROVE  s \in Seq({s[i] : i \in DOMAIN s})
  OBVIOUS

LEMMA AppendedRecord ==
    ASSUME NEW T, NEW s \in Seq(T), NEW x
    PROVE  LET t == Append(s, x) IN
           /\ t \in Seq({t[i] : i \in DOMAIN t})
           /\ Len(s) + 1 \notin DOMAIN s /\ DOMAIN t = DOMAIN s \cup {Len(s) + 1}
           /\ t[Len(s) + 1] = x /\ \A k \in DOMAIN s : t[k] = s[k]
<1> DEFINE t == Append(s, x)
<1>1. t \in Seq(T \cup {x})
  OBVIOUS
<1>2. t \in Seq({t[i] : i \in DOMAIN t})
  BY <1>1, SeqOfItsOwn
<1>3. QED
  BY <1>2

\* A write that reaches HighLevel: the record it makes or changes, and who else was writing it.
Written(r, w, id) ==
    /\ w \in job[r].todo
    /\ w.new => id \notin DOMAIN rec
    /\ ~w.new => id = w.id /\ id \in DOMAIN rec /\ rec[id].obj = w.obj
    /\ DOMAIN rec' = DOMAIN rec \cup {id} /\ \A k \in DOMAIN rec : k # id => rec'[k] = rec[k]
    /\ {"obj", "st"} \subseteq DOMAIN rec'[id] /\ rec'[id].obj = w.obj
    /\ "st" \in DOMAIN w.fields => rec'[id].st = w.fields.st
    /\ "st" \notin DOMAIN w.fields =>
          ~w.new /\ rec'[id].st = rec[id].st
    /\ rec' \in Seq({rec'[i] : i \in DOMAIN rec'})
    /\ job' = [job EXCEPT ![r].todo = @ \ {w}, ![r].sent = @ \cup {[id |-> id, write |-> w]}]
    /\ \A q \in Jobs : \A s \in job[q].sent : s.id = id => id \in muddled'

LEMMA PostWrites ==
    ASSUME NoticeInv, FinishInv, NEW r \in Jobs, Post(r)
    PROVE  (\E w, id : Written(r, w, id)) /\ (job[r].op \notin Generators => job[r].sent = {})
<1>1. \E w \in job[r].todo : \E id :
         /\ id = IF w.new THEN Len(rec) + 1 ELSE w.id
         /\ ~w.new => w.id \in Ids(w.obj)
         /\ rec' = IF w.new THEN Append(rec, w.fields) ELSE [rec EXCEPT ![id] = Over(w.fields, @)]
         /\ job' = [job EXCEPT ![r].todo = @ \ {w}, ![r].sent = @ \cup {[id |-> id, write |-> w]}]
         /\ muddled' = IF \E q \in Jobs \ {r} : \E s \in job[q].sent : s.id = id
                       THEN muddled \cup {id} ELSE muddled
  BY Zenon DEF Post
<1>2. PICK w \in job[r].todo : \E id :
         /\ id = IF w.new THEN Len(rec) + 1 ELSE w.id
         /\ ~w.new => w.id \in Ids(w.obj)
         /\ rec' = IF w.new THEN Append(rec, w.fields) ELSE [rec EXCEPT ![id] = Over(w.fields, @)]
         /\ job' = [job EXCEPT ![r].todo = @ \ {w}, ![r].sent = @ \cup {[id |-> id, write |-> w]}]
         /\ muddled' = IF \E q \in Jobs \ {r} : \E s \in job[q].sent : s.id = id
                       THEN muddled \cup {id} ELSE muddled
  BY <1>1, Zenon
<1>3. PICK id :
         /\ id = IF w.new THEN Len(rec) + 1 ELSE w.id
         /\ ~w.new => w.id \in Ids(w.obj)
         /\ rec' = IF w.new THEN Append(rec, w.fields) ELSE [rec EXCEPT ![id] = Over(w.fields, @)]
         /\ job' = [job EXCEPT ![r].todo = @ \ {w}, ![r].sent = @ \cup {[id |-> id, write |-> w]}]
         /\ muddled' = IF \E q \in Jobs \ {r} : \E s \in job[q].sent : s.id = id
                       THEN muddled \cup {id} ELSE muddled
  BY <1>2, Zenon
<1>4. job[r].op \notin Generators => job[r].sent = {}
  BY RoomToWrite DEF Post
<1>5. /\ WriteIsSound(job[r], w) /\ WritesAreSound(job[r])
      /\ rec \in Seq({rec[i] : i \in DOMAIN rec}) /\ \A i \in DOMAIN rec : {"obj", "st"} \subseteq DOMAIN rec[i]
  BY DEF FinishInv, WritesAreSound, RecordsAreSound
<1>6. ~w.new => job[r].sent = {} /\ "obj" \notin DOMAIN w.fields
  BY <1>4, <1>5 DEF WriteIsSound
<1>7. CASE w.new
  <2>1. rec' = Append(rec, w.fields) /\ id = Len(rec) + 1
    BY <1>3, <1>7
  <2>2. /\ rec' \in Seq({rec'[i] : i \in DOMAIN rec'}) /\ id \notin DOMAIN rec
        /\ DOMAIN rec' = DOMAIN rec \cup {id} /\ rec'[id] = w.fields
        /\ \A k \in DOMAIN rec : rec'[k] = rec[k]
    BY <1>5, <2>1, AppendedRecord
  <2>3. {"obj", "st"} \subseteq DOMAIN w.fields /\ w.fields.obj = w.obj
    BY <1>5, <1>7 DEF WriteIsSound
  <2>4. \A q \in Jobs : \A s \in job[q].sent : s.id # id
    BY <2>2 DEF FinishInv, WritesAreSound, SentIsSound
  <2>5. Written(r, w, id)
    BY <1>3, <1>7, <2>2, <2>3, <2>4 DEF Written
  <2>6. QED
    BY <1>4, <2>5
<1>8. CASE ~w.new
  <2>1. /\ rec' = [rec EXCEPT ![id] = Over(w.fields, rec[id])] /\ id = w.id
        /\ id \in DOMAIN rec /\ rec[id].obj = w.obj
    BY <1>3, <1>8 DEF Ids
  <2>2. /\ rec' \in Seq({rec'[i] : i \in DOMAIN rec'})
        /\ DOMAIN rec' = DOMAIN rec /\ rec'[id] = Over(w.fields, rec[id])
        /\ \A k \in DOMAIN rec : k # id => rec'[k] = rec[k]
    <3> DEFINE T == {rec[i] : i \in DOMAIN rec}
               x == Over(w.fields, rec[id])
               t == rec'
    <3>1. rec \in Seq(T) /\ id \in DOMAIN rec /\ t = [rec EXCEPT ![id] = x]
      BY <1>5, <2>1
    <3> HIDE DEF T, x, t
    <3>2. t \in Seq(T \cup {x})
      BY ONLY <3>1
    <3>3. t \in Seq({t[k] : k \in DOMAIN t})
      BY ONLY <3>2, SeqOfItsOwn
    <3>4. DOMAIN t = DOMAIN rec /\ t[id] = x /\ \A k \in DOMAIN rec : k # id => t[k] = rec[k]
      BY ONLY <3>1
    <3>5. QED
      BY <3>3, <3>4 DEF t, x
  <2>3. /\ {"obj", "st"} \subseteq DOMAIN rec'[id] /\ rec'[id].obj = w.obj
        /\ "st" \in DOMAIN w.fields => rec'[id].st = w.fields.st
        /\ "st" \notin DOMAIN w.fields => rec'[id].st = rec[id].st
    BY <1>5, <1>6, <1>8, <2>1, <2>2 DEF Over
  <2>4. \A q \in Jobs : \A s \in job[q].sent : s.id = id => id \in muddled'
    BY <1>3, <1>6, <1>8
  <2>5. DOMAIN rec' = DOMAIN rec \cup {id}
    BY <2>1, <2>2
  <2>6. Written(r, w, id)
    BY <1>3, <1>8, <2>1, <2>2, <2>3, <2>4, <2>5 DEF Written
  <2>7. QED
    BY <1>4, <2>6
<1>9. QED
  BY <1>7, <1>8

LEMMA PostKeeps ==
    ASSUME NoticeInv, FinishInv, NEW r \in Jobs, Post(r)
    PROVE  FinishInv'
<1>1. PICK w, id : Written(r, w, id)
  BY PostWrites
<1>2. /\ UNCHANGED <<shown, recent, cache, report, menu>> /\ muddled \subseteq muddled'
      /\ job[r].pc = "write"
  BY DEF Post, viewVars, boundVars
<1> DEFINE m == [id |-> id, write |-> w]
           j == [job[r] EXCEPT !.todo = @ \ {w}, !.sent = @ \cup {m}]
<1>3. m.id = id /\ m.write = w
  OBVIOUS
<1> HIDE DEF m
<1>4. /\ job' = [job EXCEPT ![r] = j]
      /\ j.op = job[r].op /\ j.arg = job[r].arg /\ j.stage = job[r].stage /\ j.pc = "write"
      /\ j.todo = job[r].todo \ {w} /\ j.sent = job[r].sent \cup {m}
  BY <1>1, <1>2 DEF NoticeInv, JobIsSound, JobFields, Written, m
<1> HIDE DEF j
<1>5. job'[r] = j /\ \A q \in Jobs : q # r => job'[q] = job[q]
  BY <1>4 DEF NoticeInv
<1>6. WritesAreSound(job[r]) /\ WriteIsSound(job[r], w)
  BY <1>1 DEF FinishInv, WritesAreSound, Written
<1>7. \A x : WriteIsSound(job[r], x) => WriteIsSound(j, x)
  BY <1>4 DEF WriteIsSound, Finishes
<1>8. /\ DOMAIN rec' = DOMAIN rec \cup {id} /\ \A k \in DOMAIN rec : k # id => rec'[k] = rec[k]
      /\ {"obj", "st"} \subseteq DOMAIN rec'[id] /\ rec'[id].obj = w.obj
      /\ "st" \in DOMAIN w.fields => rec'[id].st = w.fields.st
      /\ "st" \notin DOMAIN w.fields =>
            ~w.new /\ id \in DOMAIN rec /\ rec'[id].st = rec[id].st
      /\ rec' \in Seq({rec'[i] : i \in DOMAIN rec'})
      /\ ~w.new => w.id = id /\ rec[id].obj = w.obj
      /\ w.new => id \notin DOMAIN rec
      /\ \A q \in Jobs : \A s \in job[q].sent : s.id = id => id \in muddled'
  BY <1>1 DEF Written
<1>9. RecordsAreSound'
  BY <1>2, <1>8 DEF FinishInv, RecordsAreSound
<1>10. \A q \in Jobs : \A s \in job[q].sent : SentIsSound(s)'
  <2> SUFFICES ASSUME NEW q \in Jobs, NEW s \in job[q].sent PROVE SentIsSound(s)'
    OBVIOUS
  <2>1. SentIsSound(s)
    BY DEF FinishInv, WritesAreSound
  <2>2. CASE s.id # id
    BY <1>2, <1>8, <2>1, <2>2 DEF SentIsSound
  <2>3. CASE s.id = id
    <3>1. id \in DOMAIN rec /\ ~w.new /\ rec[id].obj = s.write.obj
      BY <1>8, <2>1, <2>3 DEF SentIsSound
    <3>2. rec'[id].obj = s.write.obj /\ id \in muddled'
      BY <1>8, <2>3, <3>1
    <3>3. QED
      BY <1>8, <2>1, <2>3, <3>1, <3>2 DEF SentIsSound
  <2>4. QED
    BY <2>2, <2>3
<1>11. SentIsSound(m)'
  BY <1>3, <1>8 DEF SentIsSound
<1>12. \A q \in Jobs : WritesAreSound(job[q])'
  <2>1. /\ IsFiniteSet(j.sent)
        /\ j.op \notin Generators => \A s, t \in j.sent : s = t
        /\ \A x \in j.todo : WriteIsSound(j, x)
        /\ \A s \in j.sent : WriteIsSound(j, s.write) /\ SentIsSound(s)'
        /\ j.stage \in {1, 2}
        /\ j.op = "update" => j.arg.do \in Deeds
        /\ j.pc # "merge"
    <3>1. IsFiniteSet(j.sent)
      BY <1>4, <1>6, FS_AddElement DEF WritesAreSound
    <3>2. j.op \notin Generators => \A s, t \in j.sent : s = t
      BY <1>4, PostWrites
    <3>3. \A s \in j.sent : WriteIsSound(j, s.write) /\ SentIsSound(s)'
      BY <1>3, <1>4, <1>6, <1>7, <1>10, <1>11 DEF WritesAreSound
    <3>4. QED
      BY <1>4, <1>6, <1>7, <3>1, <3>2, <3>3 DEF WritesAreSound
  <2>2. WritesAreSound(job[r])'
    BY <1>5, <2>1, Zenon DEF WritesAreSound, WriteIsSound, Finishes, Needs
  <2>3. \A q \in Jobs : q # r => WritesAreSound(job[q])'
    <3>1. \A q \in Jobs : q # r => WritesAreSound(job'[q]) /\ \A s \in job'[q].sent : SentIsSound(s)'
      BY <1>5, <1>10 DEF FinishInv
    <3>2. QED
      BY <3>1, Zenon DEF WritesAreSound, WriteIsSound, Finishes, Needs
  <2>4. QED
    BY <2>2, <2>3
<1>13. \A o : /\ Doc(o)' = Doc(o)
              /\ \A q \in Jobs : (Edits(job'[q], o) => Edits(job[q], o)) /\ (Finishes(job'[q], o) => Finishes(job[q], o))
              /\ \A q \in Jobs : LeavesReport(job[q], o) => LeavesReport(job'[q], o)
              /\ \A q \in Jobs : ListShows(job[q], o) => ListShows(job'[q], o)
  BY <1>2, <1>4, <1>5 DEF Doc, Edits, Finishes, LeavesReport, ListShows
<1>14. \A q \in Jobs : ClosingIsSound(job[q])'
  BY <1>2, <1>13 DEF FinishInv, ClosingIsSound
<1>15. ASSUME NEW i, Finished(i)', "st" \notin DOMAIN w.fields \/ i # id
       PROVE  Finished(i)
  BY <1>2, <1>8, <1>15 DEF Finished
<1>16. \A i : Finished(i)' => ReportIsKept(i)'
  <2> SUFFICES ASSUME NEW i, Finished(i)' PROVE ReportIsKept(i)'
    OBVIOUS
  <2>1. CASE Finished(i)
    BY <1>13, <2>1 DEF FinishInv, ReportIsKept
  <2>2. CASE ~Finished(i)
    <3>1. "st" \in DOMAIN w.fields /\ i = id
      BY <1>15, <2>2
    <3>2. w.fields.st = "hoan_thanh" /\ w.obj = "phieu" /\ i \notin muddled
      BY <1>2, <1>8, <3>1 DEF Finished
    <3>3. Finishes(job[r], i)
      BY <1>6, <1>8, <3>1, <3>2 DEF WriteIsSound
    <3>4. Doc(i) = Parts /\ \A q \in Jobs : ~Edits(job[q], i)
      BY <3>2, <3>3 DEF FinishInv, ClosingIsSound
    <3>5. \A q \in Jobs : LeavesReport(job[q], i)
      BY <3>4 DEF Edits, LeavesReport
    <3>6. QED
      BY <1>13, <3>4, <3>5 DEF ReportIsKept
  <2>3. QED
    BY <2>1, <2>2
<1>17. \A i : Finished(i)' /\ ~Pending(i)' => ViewsShow(i)'
  <2> SUFFICES ASSUME NEW i, Finished(i)', ~Pending(i)' PROVE ViewsShow(i)'
    OBVIOUS
  <2>1. \A q \in Jobs : \A s \in job'[q].sent : ~(s.id = i /\ "st" \in DOMAIN s.write.fields)
    BY DEF Pending
  <2>2. \A q \in Jobs : job[q].sent \subseteq job'[q].sent
    BY <1>4, <1>5
  <2>3. ~Pending(i)
    BY <2>1, <2>2 DEF Pending
  <2>4. "st" \notin DOMAIN w.fields \/ i # id
    BY <1>3, <1>4, <1>5, <2>1
  <2>5. ViewsShow(i)
    BY <1>15, <2>3, <2>4 DEF FinishInv
  <2>6. CacheShows(i)'
    BY <1>2, <2>5 DEF ViewsShow, CacheShows
  <2>7. QED
    BY <1>2, <1>13, <2>5, <2>6 DEF ViewsShow, At
<1>18. QED
  BY <1>9, <1>12, <1>14, <1>16, <1>17 DEF FinishInv

LEMMA PutEntry ==
    ASSUME NEW f, NEW k, NEW x
    PROVE  /\ \A i : i \in DOMAIN Put(f, k, x) <=> i \in DOMAIN f \/ i = k
           /\ Put(f, k, x)[k] = x
           /\ \A i \in DOMAIN f : i # k => Put(f, k, x)[i] = f[i]
           /\ At(Put(f, k, x), k) = x
           /\ \A i : i # k => At(Put(f, k, x), i) = At(f, i)
  BY DEF Put, At

LEMMA OverFields ==
    ASSUME NEW f, NEW g
    PROVE  /\ \A x : x \in DOMAIN Over(f, g) <=> x \in DOMAIN f \/ x \in DOMAIN g
           /\ "st" \in DOMAIN f => Over(f, g).st = f.st
           /\ "st" \notin DOMAIN f /\ "st" \in DOMAIN g => Over(f, g).st = g.st
  BY DEF Over

LEMMA AnsweredKeeps ==
    ASSUME NoticeInv, FinishInv, NEW r \in Jobs, Answered(r)
    PROVE  FinishInv'
<1>1. PICK s \in job[r].sent :
         /\ Note(s.write.obj, s.id, s.write.fields)
         /\ PatchCache(s.write.obj, s.id, s.write.fields)
         /\ job' = [job EXCEPT ![r].sent = @ \ {s}, ![r].got = IF s.write.new THEN s.id ELSE @]
  BY Zenon DEF Answered
<1> DEFINE w == s.write
           got == IF w.new THEN s.id ELSE job[r].got
           j == [job[r] EXCEPT !.sent = @ \ {s}, !.got = got]
<1>2. /\ UNCHANGED <<rec, shown, report, menu, muddled>>
      /\ job[r].pc = "write"
  BY <1>1 DEF Answered, storeVars, pastVars, boundVars, NoticeInv, JobIsSound
<1>3. /\ job' = [job EXCEPT ![r] = j]
      /\ j.op = job[r].op /\ j.arg = job[r].arg /\ j.stage = job[r].stage /\ j.pc = "write"
      /\ j.todo = job[r].todo /\ j.sent = job[r].sent \ {s}
  BY <1>1, <1>2 DEF NoticeInv, JobIsSound, JobFields
<1> HIDE DEF j, got
<1>4. job'[r] = j /\ \A q \in Jobs : q # r => job'[q] = job[q]
  BY <1>3 DEF NoticeInv
<1>5. WritesAreSound(job[r]) /\ WriteIsSound(job[r], w) /\ SentIsSound(s) /\ RecordsAreSound
  BY DEF FinishInv, WritesAreSound
<1>6. \A q \in Jobs : WritesAreSound(job[q])'
  <2>1. j.pc # "merge"
    BY <1>3
  <2>2. WritesAreSound(j)
    BY <1>3, <1>5, <2>1, WritesOn
  <2>3. \A q \in Jobs : WritesAreSound(job'[q])
    BY <1>4, <2>2 DEF FinishInv
  <2>4. \A x : SentIsSound(x) => SentIsSound(x)'
    BY <1>2 DEF SentIsSound
  <2>5. QED
    BY <2>3, <2>4, Zenon DEF WritesAreSound, WriteIsSound, Finishes, Needs
<1>7. \A o : /\ Doc(o)' = Doc(o)
             /\ \A q \in Jobs : (Edits(job'[q], o) => Edits(job[q], o)) /\ (Finishes(job'[q], o) => Finishes(job[q], o))
             /\ \A q \in Jobs : LeavesReport(job[q], o) => LeavesReport(job'[q], o)
             /\ \A q \in Jobs : ListShows(job[q], o) => ListShows(job'[q], o)
  BY <1>2, <1>3, <1>4 DEF Doc, Edits, Finishes, LeavesReport, ListShows
<1>8. \A q \in Jobs : ClosingIsSound(job[q])'
  BY <1>2, <1>7 DEF FinishInv, ClosingIsSound
<1>9. \A i : Finished(i)' => Finished(i)
  BY <1>2 DEF Finished
<1>10. \A i : Finished(i)' => ReportIsKept(i)'
  BY <1>7, <1>9 DEF FinishInv, ReportIsKept
<1>11. /\ DOMAIN cache = Objects /\ DOMAIN recent = Objects /\ "phieu" \in Objects
       /\ DOMAIN cache' = Objects /\ DOMAIN recent' = Objects
  BY <1>1, <1>5 DEF RecordsAreSound, Note, PatchCache, Objects
<1>12. RecordsAreSound'
  BY <1>2, <1>5, <1>11 DEF RecordsAreSound
<1> DEFINE R == recent["phieu"]
           C == cache["phieu"]
<1>13. /\ w.obj # "phieu" => recent'["phieu"] = R /\ cache'["phieu"] = C
       /\ w.obj = "phieu" => recent'["phieu"] = Put(R, s.id, Over(w.fields, At(R, s.id)))
       /\ w.obj = "phieu" => \/ cache'["phieu"] = C /\ (C = Nothing \/ s.id \notin DOMAIN C)
                             \/ /\ cache'["phieu"] = Put(C, s.id, Over(w.fields, At(C, s.id)))
                                /\ C # Nothing /\ (s.id \in DOMAIN C \/ "obj" \in DOMAIN w.fields)
  BY <1>1, <1>11 DEF Note, PatchCache
<1>14. ASSUME NEW i, Finished(i), ~Pending(i)'
       PROVE  ViewsShow(i)'
  <2>1. \A q \in Jobs : \A x \in job[q].sent : x.id = i /\ "st" \in DOMAIN x.write.fields => x = s
    BY <1>3, <1>4, <1>14 DEF Pending
  <2>2. CASE s.id = i /\ "st" \in DOMAIN w.fields
    <3>1. w.fields.st = "hoan_thanh" /\ w.obj = "phieu"
      BY <1>5, <1>14, <2>2 DEF Finished, SentIsSound
    <3>2. /\ "st" \in DOMAIN At(recent'["phieu"], i) /\ At(recent'["phieu"], i).st = "hoan_thanh"
      BY <1>13, <2>2, <3>1, PutEntry, OverFields
    <3>3. CacheShows(i)'
      <4>1. CASE cache'["phieu"] = C /\ (C = Nothing \/ i \notin DOMAIN C)
        BY <4>1 DEF CacheShows
      <4>2. CASE cache'["phieu"] = Put(C, i, Over(w.fields, At(C, i)))
        <5>1. cache'["phieu"][i] = Over(w.fields, At(C, i))
          BY <4>2, PutEntry
        <5>2. "st" \in DOMAIN cache'["phieu"][i] /\ cache'["phieu"][i].st = "hoan_thanh"
          BY <2>2, <3>1, <5>1, OverFields
        <5>3. QED
          BY <5>2 DEF CacheShows, ShowsFinished
      <4>3. QED
        BY <1>13, <2>2, <3>1, <4>1, <4>2
    <3>4. QED
      BY <3>2, <3>3 DEF ViewsShow, At
  <2>3. CASE ~(s.id = i /\ "st" \in DOMAIN w.fields)
    <3>1. ~Pending(i)
      BY <2>1, <2>3 DEF Pending
    <3>2. ViewsShow(i)
      BY <1>14, <3>1 DEF FinishInv
    <3>3. /\ "st" \in DOMAIN At(recent'["phieu"], i) <=> "st" \in DOMAIN At(R, i)
          /\ "st" \in DOMAIN At(R, i) => At(recent'["phieu"], i).st = At(R, i).st
      <4>1. CASE w.obj = "phieu" /\ s.id = i
        <5>1. At(recent'["phieu"], i) = Over(w.fields, At(R, i)) /\ "st" \notin DOMAIN w.fields
          BY <1>13, <2>3, <4>1, PutEntry
        <5>2. QED
          BY <5>1, OverFields
      <4>2. CASE ~(w.obj = "phieu" /\ s.id = i)
        <5>1. At(recent'["phieu"], i) = At(R, i)
          BY <1>13, <4>2, PutEntry
        <5>2. QED
          BY <5>1
      <4>3. QED
        BY <4>1, <4>2
    <3>4. CacheShows(i)'
      <4>1. CASE cache'["phieu"] = C
        BY <3>2, <4>1 DEF ViewsShow, CacheShows
      <4>2. CASE /\ cache'["phieu"] = Put(C, s.id, Over(w.fields, At(C, s.id)))
                 /\ C # Nothing /\ (s.id \in DOMAIN C \/ "obj" \in DOMAIN w.fields)
        <5>1. CASE s.id # i
          <6>1. i \in DOMAIN cache'["phieu"] => i \in DOMAIN C /\ cache'["phieu"][i] = C[i]
            BY <4>2, <5>1, PutEntry
          <6>2. QED
            BY <3>2, <4>2, <6>1 DEF ViewsShow, CacheShows, ShowsFinished
        <5>2. CASE s.id = i
          <6>1. "st" \notin DOMAIN w.fields
            BY <2>3, <5>2
          <6>2. ~w.new /\ "obj" \notin DOMAIN w.fields
            BY <1>5, <6>1 DEF WriteIsSound
          <6>3. i \in DOMAIN C
            BY <4>2, <5>2, <6>2
          <6>4. "st" \in DOMAIN C[i] /\ C[i].st = "hoan_thanh" /\ At(C, i) = C[i]
            BY <3>2, <4>2, <6>3 DEF ViewsShow, CacheShows, ShowsFinished, At
          <6>5. cache'["phieu"][i] = Over(w.fields, C[i])
            BY <4>2, <5>2, <6>4, PutEntry
          <6>6. "st" \in DOMAIN cache'["phieu"][i] /\ cache'["phieu"][i].st = "hoan_thanh"
            BY <6>1, <6>4, <6>5, OverFields
          <6>7. QED
            BY <6>6 DEF CacheShows, ShowsFinished
        <5>3. QED
          BY <5>1, <5>2
      <4>3. QED
        BY <1>13, <4>1, <4>2
    <3>5. QED
      BY <1>2, <1>7, <3>2, <3>3, <3>4 DEF ViewsShow, At
  <2>4. QED
    BY <2>2, <2>3
<1>15. QED
  BY <1>6, <1>8, <1>9, <1>10, <1>12, <1>14 DEF FinishInv

\* What a check needs of the lists it was made on, and leaves of the cache.
CacheStaysGood ==
    /\ DOMAIN cache' = Objects
    /\ \A i : Finished(i) /\ i \notin muddled' /\ ~Pending(i) => CacheShows(i)'

LEMMA ChoiceFrame ==
    ASSUME NoticeInv, FinishInv, NEW r \in Jobs, NEW j,
           job' = [job EXCEPT ![r] = j], job[r].sent = {},
           UNCHANGED <<rec, shown, recent, report, menu>>, muddled \subseteq muddled', CacheStaysGood,
           WritesAreSound(j), Quiet(j.pc),
           \A o : Finishes(j, o) => o \in muddled' \/ Finishes(job[r], o)
    PROVE  FinishInv'
<1>1. job' = [job EXCEPT ![r] = job'[r]] /\ job'[r] = j
  BY DEF NoticeInv
<1>2. /\ \A o : ~Edits(j, o)
      /\ \A i : LeavesReport(j, i) /\ ListShows(j, i)
  BY DEF Edits, LeavesReport, ListShows, Quiet
<1>3. /\ DOMAIN cache' = Objects
      /\ \A i : Finished(i) /\ i \notin muddled' /\ ~Pending(i) => CacheShows(i)'
  BY DEF CacheStaysGood
<1>4. /\ WritesAreSound(job'[r])
      /\ \A s \in job[r].sent : s \in job'[r].sent \/ s.id \in muddled'
      /\ \A o : Finishes(job'[r], o) => o \in muddled' \/ Finishes(job[r], o)
      /\ \A o : ~Edits(job'[r], o)
      /\ \A i : LeavesReport(job'[r], i) /\ ListShows(job'[r], i)
  BY <1>1, <1>2
<1>5. QED
  BY <1>1, <1>3, <1>4, FinishFrame

LEMMA RefusalKeeps ==
    ASSUME NoticeInv, FinishInv, NEW r \in Jobs, Done(r), job[r].sent = {},
           UNCHANGED <<rec, shown, recent, report, menu>>, muddled \subseteq muddled', CacheStaysGood
    PROVE  FinishInv'
<1> DEFINE j == [NoJob EXCEPT !.pc = "done"]
<1>1. /\ j.op = "none" /\ j.todo = {} /\ j.sent = {} /\ j.stage = 1 /\ j.pc = "done"
      /\ job' = [job EXCEPT ![r] = j]
  BY DEF NoJob, Done
<1> HIDE DEF j
<1>2. WritesAreSound(j)
  BY <1>1, NoJobWrites
<1>3. (\A o : ~Finishes(j, o)) /\ Quiet(j.pc)
  BY <1>1 DEF Finishes, Quiet
<1>4. QED
  BY <1>1, <1>2, <1>3, ChoiceFrame

\* A request that passed its check: what it writes depends on what it is.
LEMMA WritingKeeps ==
    ASSUME NoticeInv, FinishInv, NEW r \in Jobs, NEW j, job' = [job EXCEPT ![r] = j], job[r].sent = {},
           UNCHANGED <<rec, shown, recent, report, menu>>, muddled \subseteq muddled', CacheStaysGood,
           j.op = job[r].op, j.arg = job[r].arg, j.sent = job[r].sent, j.stage \in {job[r].stage, 2}, j.pc = "write",
           \A w \in j.todo : WriteIsSound(j, w),
           \A o : Finishes(j, o) => Finishes(job[r], o)
    PROVE  FinishInv'
<1>1. WritesAreSound(job[r])
  BY PartsOfFinishInv
<1>2. WritesAreSound(j) /\ Quiet(j.pc)
  BY <1>1 DEF WritesAreSound, Quiet
<1>3. QED
  BY <1>2, ChoiceFrame

LEMMA StartWritingKeeps ==
    ASSUME NoticeInv, FinishInv, NEW r \in Jobs, NEW since, NEW writes, StartWriting(r, since, writes),
           job[r].sent = {},
           UNCHANGED <<rec, shown, recent, report, menu>>, muddled \subseteq muddled', CacheStaysGood,
           \A w \in writes : WriteIsSound(job[r], w)
    PROVE  FinishInv'
<1> DEFINE j == [job[r] EXCEPT !.pc = "write", !.view = Nothing, !.miss = {}, !.seen = 0, !.todo = writes]
<1>1. /\ job' = [job EXCEPT ![r] = j]
      /\ j.op = job[r].op /\ j.arg = job[r].arg /\ j.sent = job[r].sent /\ j.stage = job[r].stage
      /\ j.pc = "write" /\ j.todo = writes
  BY DEF StartWriting, NoticeInv, JobIsSound, JobFields
<1> HIDE DEF j
<1>2. /\ \A o : Finishes(j, o) => Finishes(job[r], o)
      /\ \A w : WriteIsSound(job[r], w) => WriteIsSound(j, w)
  BY <1>1 DEF Finishes, WriteIsSound
<1>3. j.stage \in {job[r].stage, 2} /\ \A w \in j.todo : WriteIsSound(j, w)
  BY <1>1, <1>2
<1>4. QED
  BY <1>1, <1>2, <1>3, WritingKeeps

LEMMA NewIsSound ==
    ASSUME NEW j, NEW obj, NEW key, NEW st, NEW ref, st # "hoan_thanh"
    PROVE  WriteIsSound(j, New(obj, key, st, ref))
  BY DEF WriteIsSound, New

LEMMA ChangeIsSound ==
    ASSUME NEW j, NEW obj, NEW id, NEW fields, j.op \notin Generators, "obj" \notin DOMAIN fields,
           obj # "phieu" \/ "st" \notin DOMAIN fields \/ fields.st # "hoan_thanh" \/ Finishes(j, id)
    PROVE  WriteIsSound(j, Change(obj, id, fields))
  BY DEF WriteIsSound, Change

LEMMA GenerateKeeps ==
    ASSUME NoticeInv, FinishInv, NEW r \in Jobs, NEW v, NEW since, Generate(r, v, since), job[r].sent = {},
           UNCHANGED <<rec, shown, recent, report, menu>>, CacheStaysGood
    PROVE  FinishInv'
<1>1. muddled \subseteq muddled'
  BY DEF Generate
<1>2. \E batch : StartWriting(r, since,
             {IF job[r].op = "tasks" THEN New("cong_viec", k, "chua_lam", job[r].arg)
                                     ELSE New("phieu", k, "moi", k[3]) : k \in batch})
  BY Zenon DEF Generate
<1>3. PICK batch : StartWriting(r, since,
             {IF job[r].op = "tasks" THEN New("cong_viec", k, "chua_lam", job[r].arg)
                                     ELSE New("phieu", k, "moi", k[3]) : k \in batch})
  BY <1>2
<1> DEFINE writes == {IF job[r].op = "tasks" THEN New("cong_viec", k, "chua_lam", job[r].arg)
                                             ELSE New("phieu", k, "moi", k[3]) : k \in batch}
<1>4. \A w \in writes : WriteIsSound(job[r], w)
  BY NewIsSound
<1>5. StartWriting(r, since, writes)
  BY <1>3
<1> HIDE DEF writes
<1>6. QED
  BY <1>1, <1>4, <1>5, StartWritingKeeps

LEMMA FirstWritesSound ==
    ASSUME NEW j, NEW v, j.op \in {"unit", "contract", "order", "inspect", "record", "stage", "handover"},
           NEW w \in FirstWrites(j, v)
    PROVE  WriteIsSound(j, w)
<1>0. j.op \notin Generators
  BY DEF Generators
<1>1. CASE j.op = "unit"
  BY <1>1, NewIsSound DEF FirstWrites
<1>2. CASE j.op = "contract"
  BY <1>2, NewIsSound DEF FirstWrites
<1>3. CASE j.op = "order"
  BY <1>3, NewIsSound DEF FirstWrites
<1>4. CASE j.op = "inspect"
  BY <1>4, NewIsSound DEF FirstWrites
<1>5. CASE j.op = "record"
  <2>1. w = Change("kiem_dinh", j.arg.inspection, [st |-> j.arg.st])
    BY <1>5 DEF FirstWrites
  <2>2. QED
    BY <1>0, <2>1, ChangeIsSound
<1>6. CASE j.op = "stage"
  <2>1. w = Change("du_an", j.arg.project, [st |-> j.arg.st])
    BY <1>6 DEF FirstWrites
  <2>2. QED
    BY <1>0, <2>1, ChangeIsSound
<1>7. CASE j.op = "handover"
  <2>1. \E u : w = Change("thang_may", u, [st |-> "dang_bao_hanh"])
    BY <1>7 DEF FirstWrites
  <2>2. QED
    BY <1>0, <2>1, ChangeIsSound
<1>8. QED
  BY <1>1, <1>2, <1>3, <1>4, <1>5, <1>6, <1>7

LEMMA SimpleKeeps ==
    ASSUME NoticeInv, FinishInv, NEW r \in Jobs, NEW v, NEW since, Simple(r, v, since), job[r].sent = {},
           UNCHANGED <<rec, shown, recent, report, menu>>, CacheStaysGood
    PROVE  FinishInv'
<1>1. /\ muddled \subseteq muddled'
      /\ job[r].op \in {"unit", "contract", "order", "inspect", "record", "stage", "handover"}
      /\ Done(r) \/ StartWriting(r, since, FirstWrites(job[r], v))
  BY DEF Simple
<1>2. \A w \in FirstWrites(job[r], v) : WriteIsSound(job[r], w)
  BY <1>1, FirstWritesSound
<1>3. QED
  BY <1>1, <1>2, RefusalKeeps, StartWritingKeeps

LEMMA FindOrderKeeps ==
    ASSUME NoticeInv, FinishInv, NEW r \in Jobs, NEW v, FindOrder(r, v), job[r].sent = {},
           UNCHANGED <<rec, shown, recent, report, menu>>, CacheStaysGood
    PROVE  FinishInv'
<1>1. /\ muddled \subseteq muddled'
      /\ \/ Done(r)
         \/ \E got : job' = [job EXCEPT ![r] = [job[r] EXCEPT !.pc = "claim", !.view = Nothing, !.miss = {},
                                                              !.seen = 0, !.got = got]]
  <2>1. muddled \subseteq muddled'
    BY DEF FindOrder, pastVars
  <2>2. \/ Done(r)
        \/ \E got : job' = [job EXCEPT ![r] = [job[r] EXCEPT !.pc = "claim", !.view = Nothing, !.miss = {},
                                                             !.seen = 0, !.got = got]]
    BY Zenon DEF FindOrder
  <2>3. QED
    BY <2>1, <2>2
<1>2. ASSUME NEW got,
             job' = [job EXCEPT ![r] = [job[r] EXCEPT !.pc = "claim", !.view = Nothing, !.miss = {}, !.seen = 0,
                                                      !.got = got]]
      PROVE  FinishInv'
  <2> DEFINE j == [job[r] EXCEPT !.pc = "claim", !.view = Nothing, !.miss = {}, !.seen = 0, !.got = got]
  <2>1. /\ job' = [job EXCEPT ![r] = j]
        /\ j.op = job[r].op /\ j.arg = job[r].arg /\ j.sent = job[r].sent /\ j.stage = job[r].stage
        /\ j.pc = "claim" /\ j.todo = job[r].todo
    BY <1>2 DEF NoticeInv, JobIsSound, JobFields
  <2> HIDE DEF j
  <2>2. Quiet(j.pc) /\ j.pc # "merge" /\ j.stage \in {job[r].stage, 2} /\ WritesAreSound(job[r])
    BY <2>1, PartsOfFinishInv DEF Quiet
  <2>3. WritesAreSound(j)
    BY <2>1, <2>2, WritesStay
  <2>4. \A o : Finishes(j, o) => Finishes(job[r], o)
    BY <2>1 DEF Finishes
  <2>5. QED
    BY <1>1, <2>1, <2>2, <2>3, <2>4, ChoiceFrame
<1>3. QED
  BY <1>1, <1>2, RefusalKeeps

KeepsNames(fields) == "obj" \notin DOMAIN fields /\ "key" \notin DOMAIN fields /\ "ref" \notin DOMAIN fields

LEMMA TaskPatchKeepsNames ==
    ASSUME NEW cur, NEW st, NEW pct
    PROVE  KeepsNames(NormalizeTaskPatch(cur, st, pct))
<1>1. ASSUME NEW next, NEW percent, NEW b \in BOOLEAN, NEW c \in BOOLEAN
      PROVE  KeepsNames(Over(IF b THEN [st |-> next] ELSE <<>>, IF c THEN [pct |-> percent] ELSE <<>>))
  BY OverFields DEF KeepsNames
<1>2. \E next, percent : \E b, c \in BOOLEAN :
        NormalizeTaskPatch(cur, st, pct) = Over(IF b THEN [st |-> next] ELSE <<>>,
                                                IF c THEN [pct |-> percent] ELSE <<>>)
  BY Zenon DEF NormalizeTaskPatch
<1>3. QED
  BY <1>1, <1>2

\* A task is refused, changed, or sets its project going.
LEMMA TaskChoices ==
    ASSUME NEW r, NEW v, NEW since, Task(r, v, since)
    PROVE  \/ Done(r)
           \/ \E id, fields, got : /\ KeepsNames(fields)
                /\ job' = [job EXCEPT ![r] = [job[r] EXCEPT !.pc = "write", !.view = Nothing, !.miss = {}, !.seen = 0,
                                                 !.todo = {Change("cong_viec", id, fields)}, !.got = got]]
           \/ \E id :
                job' = [job EXCEPT ![r] = [job[r] EXCEPT !.pc = "write", !.view = Nothing, !.miss = {}, !.seen = 0,
                                                 !.todo = {Change("du_an", id, [st |-> "dang_thuc_hien"])}]]
<1>1. CASE job[r].stage = 1
  <2>1. job[r].stage # 2
    BY <1>1
  <2> DEFINE cur == v["cong_viec"][job[r].arg.task]
             patch == NormalizeTaskPatch(cur, job[r].arg.st, job[r].arg.pct)
             got == IF "st" \in DOMAIN patch /\ patch.st \in {"dang_lam", "cho_kiem_tra", "hoan_thanh"}
                    THEN cur.ref ELSE Nothing
  <2>2. \/ Done(r)
        \/ job' = [job EXCEPT ![r] = [job[r] EXCEPT !.pc = "write", !.view = Nothing, !.miss = {}, !.seen = 0,
                                          !.todo = {Change("cong_viec", job[r].arg.task, patch)}, !.got = got]]
    BY <1>1, <2>1, Zenon DEF Task
  <2>3. KeepsNames(patch)
    BY TaskPatchKeepsNames
  <2> HIDE DEF patch, got
  <2>4. ASSUME NEW id, NEW fields, NEW g, KeepsNames(fields),
               job' = [job EXCEPT ![r] = [job[r] EXCEPT !.pc = "write", !.view = Nothing, !.miss = {}, !.seen = 0,
                                             !.todo = {Change("cong_viec", id, fields)}, !.got = g]]
        PROVE  \E x, f, h : /\ KeepsNames(f)
                 /\ job' = [job EXCEPT ![r] = [job[r] EXCEPT !.pc = "write", !.view = Nothing, !.miss = {},
                                                   !.seen = 0, !.todo = {Change("cong_viec", x, f)}, !.got = h]]
    BY <2>4, Zenon
  <2>5. QED
    BY <2>2, <2>3, <2>4, Zenon
<1>2. CASE job[r].stage = 2
  <2>1. job[r].stage # 1
    BY <1>2
  <2>2. QED
    BY <1>2, <2>1, Zenon DEF Task
<1>3. QED
  BY <1>1, <1>2 DEF Task

LEMMA TaskKeeps ==
    ASSUME NoticeInv, FinishInv, NEW r \in Jobs, NEW v, NEW since, Task(r, v, since), job[r].sent = {},
           UNCHANGED <<rec, shown, recent, report, menu>>, CacheStaysGood
    PROVE  FinishInv'
<1>1. muddled \subseteq muddled' /\ job[r].op = "task" /\ job[r].op \notin Generators
  BY DEF Task, Generators
<1>2. ASSUME NEW todo, NEW got, \A k : k.op = "task" => \A w \in todo : WriteIsSound(k, w),
             job' = [job EXCEPT ![r] = [job[r] EXCEPT !.pc = "write", !.view = Nothing, !.miss = {}, !.seen = 0,
                                                      !.todo = todo, !.got = got]]
      PROVE  FinishInv'
  <2> DEFINE j == [job[r] EXCEPT !.pc = "write", !.view = Nothing, !.miss = {}, !.seen = 0,
                                 !.todo = todo, !.got = got]
  <2>1. /\ job' = [job EXCEPT ![r] = j]
        /\ j.op = job[r].op /\ j.arg = job[r].arg /\ j.sent = job[r].sent /\ j.stage = job[r].stage
        /\ j.pc = "write" /\ j.todo = todo
    BY <1>2 DEF NoticeInv, JobIsSound, JobFields
  <2> HIDE DEF j
  <2>2. j.stage \in {job[r].stage, 2} /\ \A w \in j.todo : WriteIsSound(j, w)
    BY <1>1, <1>2, <2>1
  <2>3. \A o : Finishes(j, o) => Finishes(job[r], o)
    BY <2>1 DEF Finishes
  <2>4. QED
    BY <1>1, <2>1, <2>2, <2>3, WritingKeeps
<1>3. \A k, id, fields : k.op = "task" /\ "obj" \notin DOMAIN fields =>
         WriteIsSound(k, Change("cong_viec", id, fields)) /\ WriteIsSound(k, Change("du_an", id, fields))
  BY ChangeIsSound DEF Generators
<1>4. \/ Done(r)
      \/ \E id, fields, got : /\ KeepsNames(fields)
           /\ job' = [job EXCEPT ![r] = [job[r] EXCEPT !.pc = "write", !.view = Nothing, !.miss = {}, !.seen = 0,
                                            !.todo = {Change("cong_viec", id, fields)}, !.got = got]]
      \/ \E id : 
           job' = [job EXCEPT ![r] = [job[r] EXCEPT !.pc = "write", !.view = Nothing, !.miss = {}, !.seen = 0,
                                            !.todo = {Change("du_an", id, [st |-> "dang_thuc_hien"])}]]
  BY TaskChoices
<1>5. ASSUME NEW id, NEW fields, NEW got, KeepsNames(fields),
             job' = [job EXCEPT ![r] = [job[r] EXCEPT !.pc = "write", !.view = Nothing, !.miss = {}, !.seen = 0,
                                            !.todo = {Change("cong_viec", id, fields)}, !.got = got]]
      PROVE  FinishInv'
  <2>1. \A k : k.op = "task" => \A w \in {Change("cong_viec", id, fields)} : WriteIsSound(k, w)
    BY <1>3, <1>5 DEF KeepsNames
  <2>2. QED
    BY <1>2, <1>5, <2>1
<1>6. ASSUME NEW id,
             job' = [job EXCEPT ![r] = [job[r] EXCEPT !.pc = "write", !.view = Nothing, !.miss = {}, !.seen = 0,
                                            !.todo = {Change("du_an", id, [st |-> "dang_thuc_hien"])}]]
      PROVE  FinishInv'
  <2> DEFINE todo == {Change("du_an", id, [st |-> "dang_thuc_hien"])}
  <2>1. \A k : k.op = "task" => \A w \in todo : WriteIsSound(k, w)
    BY <1>3
  <2> HIDE DEF todo
  <2>2. job' = [job EXCEPT ![r] = [job[r] EXCEPT !.pc = "write", !.view = Nothing, !.miss = {}, !.seen = 0,
                                                 !.todo = todo, !.got = job[r].got]]
    BY <1>6 DEF todo, NoticeInv, JobIsSound, JobFields
  <2>3. QED
    BY <1>2, <2>1, <2>2
<1>7. QED
  BY <1>1, <1>4, <1>5, <1>6, RefusalKeeps

LEMMA OrderPatchIsSound ==
    ASSUME NEW j, NEW o, j.arg.do \in Deeds
    PROVE  LET patch == OrderPatch(j, o) IN
           /\ "obj" \notin DOMAIN patch /\ "key" \notin DOMAIN patch
           /\ "st" \in DOMAIN patch /\ patch.st = "hoan_thanh" => j.arg.do = "finish"
<1> DEFINE patch == OrderPatch(j, o)
<1>1. CASE ~CanWorkOn(o, j.by)
  BY <1>1 DEF OrderPatch
<1>2. CASE CanWorkOn(o, j.by) /\ j.arg.do = "take"
  <2>1. \/ patch = <<>>
        \/ \E w : patch = Over([who |-> w], [st |-> "da_giao"]) \/ patch = Over([who |-> w], <<>>)
    BY <1>2, Zenon DEF OrderPatch
  <2>2. ASSUME NEW w, patch = Over([who |-> w], [st |-> "da_giao"])
        PROVE  "obj" \notin DOMAIN patch /\ "key" \notin DOMAIN patch /\ patch.st = "da_giao"
    BY <2>2 DEF Over
  <2>3. ASSUME NEW w, patch = Over([who |-> w], <<>>)
        PROVE  "obj" \notin DOMAIN patch /\ "key" \notin DOMAIN patch /\ "st" \notin DOMAIN patch
    BY <2>3 DEF Over
  <2>4. patch = <<>> => DOMAIN patch = {}
    OBVIOUS
  <2> HIDE DEF patch
  <2>5. QED
    BY <2>1, <2>2, <2>3, <2>4 DEF patch
<1>3. CASE CanWorkOn(o, j.by) /\ j.arg.do \in {"start", "finish", "cancel"}
  <2> DEFINE st == CASE j.arg.do = "start" -> "dang_xu_ly" [] j.arg.do = "finish" -> "hoan_thanh"
                     [] j.arg.do = "cancel" -> "huy"
  <2>1. j.arg.do # "take"
    BY <1>3
  <2>2. patch = <<>> \/ patch = [st |-> st]
    BY <1>3, <2>1, Zenon DEF OrderPatch
  <2>3. st = "hoan_thanh" => j.arg.do = "finish"
    BY <1>3
  <2> HIDE DEF st
  <2>4. QED
    BY <2>2, <2>3
<1>4. QED
  BY <1>1, <1>2, <1>3 DEF Deeds

\* What updateOrder does with an order: refuses, looks again, or changes it.
LEMMA UpdateChoices ==
    ASSUME NEW r, NEW v, Update(r, v), job[r].stage \in {1, 2}
    PROVE  LET order == job[r].arg.order
               o     == v["phieu"][order] IN
           \/ Done(r)
           \/ \E stage, pc :
                /\ pc \in {"guard", "list"} /\ stage \in {1, 2}
                /\ job[r].stage = 1
                /\ job' = [job EXCEPT ![r] = [job[r] EXCEPT !.view = Nothing, !.miss = {}, !.seen = 0, !.got = o.st,
                                                            !.stage = stage, !.pc = pc]]
                /\ job[r].arg.do = "finish" => stage = 1 \/ order \in muddled'
           \/ /\ job[r].stage = 2 \/ job[r].arg.do # "finish"
              /\ job' = [job EXCEPT ![r] = [job[r] EXCEPT !.pc = "write", !.view = Nothing, !.miss = {}, !.seen = 0,
                                      !.stage = 2, !.todo = {Change("phieu", order, OrderPatch(job[r], o))}]]
<1> DEFINE order == job[r].arg.order
           o == v["phieu"][order]
<1>1. CASE order \notin DOMAIN v["phieu"]
  BY <1>1, Zenon DEF Update
<1>2. CASE /\ order \in DOMAIN v["phieu"]
           /\ job[r].stage = 1 /\ job[r].arg.do \in {"start", "finish"}
  <2>1. CASE job[r].arg.do = "finish" /\ CanWorkOn(o, job[r].by)
    BY <1>2, <2>1, Zenon DEF Update
  <2>2. CASE ~(job[r].arg.do = "finish" /\ CanWorkOn(o, job[r].by))
    <3>1. /\ job' = [job EXCEPT ![r] = [job[r] EXCEPT !.view = Nothing, !.miss = {}, !.seen = 0, !.got = o.st,
                                                     !.stage = 2, !.pc = "list"]]
          /\ muddled' = IF job[r].arg.do = "finish" /\ ~CanWorkOn(o, job[r].by)
                        THEN muddled \cup {order} ELSE muddled
      BY <1>2, <2>2, Zenon DEF Update
    <3>2. job[r].arg.do = "finish" => order \in muddled'
      BY <2>2, <3>1
    <3>3. QED
      BY <1>2, <3>1, <3>2, Zenon
  <2>3. QED
    BY <2>1, <2>2
<1>3. CASE /\ order \in DOMAIN v["phieu"]
           /\ ~(job[r].stage = 1 /\ job[r].arg.do \in {"start", "finish"})
  <2>1. job[r].stage = 2 \/ job[r].arg.do # "finish"
    BY <1>3
  <2>2. QED
    BY <1>3, <2>1, Zenon DEF Update
<1>4. QED
  BY <1>1, <1>2, <1>3

LEMMA UpdateKeeps ==
    ASSUME NoticeInv, FinishInv, NEW r \in Jobs, NEW v, Update(r, v), job[r].sent = {},
           UNCHANGED <<rec, shown, recent, report, menu>>, CacheStaysGood
    PROVE  FinishInv'
<1> DEFINE order == job[r].arg.order
           o == v["phieu"][order]
           patch == OrderPatch(job[r], o)
<1>1. /\ job[r].op = "update" /\ WritesAreSound(job[r])
      /\ job[r].arg.do \in Deeds /\ job[r].stage \in {1, 2}
  BY DEF Update, FinishInv, WritesAreSound
<1>2. muddled \subseteq muddled'
  BY DEF Update
<1>3. \/ Done(r)
      \/ \E stage, pc :
           /\ pc \in {"guard", "list"} /\ stage \in {1, 2}
           /\ job[r].stage = 1
           /\ job' = [job EXCEPT ![r] = [job[r] EXCEPT !.view = Nothing, !.miss = {}, !.seen = 0, !.got = o.st,
                                                       !.stage = stage, !.pc = pc]]
           /\ job[r].arg.do = "finish" => stage = 1 \/ order \in muddled'
      \/ /\ job[r].stage = 2 \/ job[r].arg.do # "finish"
         /\ job' = [job EXCEPT ![r] = [job[r] EXCEPT !.pc = "write", !.view = Nothing, !.miss = {}, !.seen = 0,
                                                     !.stage = 2, !.todo = {Change("phieu", order, patch)}]]
  BY <1>1, UpdateChoices
<1> HIDE DEF order, o
<1>4. ASSUME NEW stage \in {1, 2}, NEW pc \in {"guard", "list"}, job[r].stage = 1,
             job' = [job EXCEPT ![r] = [job[r] EXCEPT !.view = Nothing, !.miss = {}, !.seen = 0, !.got = o.st,
                                                      !.stage = stage, !.pc = pc]],
             job[r].arg.do = "finish" => stage = 1 \/ order \in muddled'
      PROVE  FinishInv'
  <2> DEFINE j == [job[r] EXCEPT !.view = Nothing, !.miss = {}, !.seen = 0, !.got = o.st,
                                 !.stage = stage, !.pc = pc]
  <2>1. /\ job' = [job EXCEPT ![r] = j]
        /\ j.op = job[r].op /\ j.arg = job[r].arg /\ j.sent = job[r].sent /\ j.stage = stage
        /\ j.pc = pc /\ j.todo = job[r].todo
    BY <1>4 DEF NoticeInv, JobIsSound, JobFields
  <2> HIDE DEF j
  <2>2. Quiet(j.pc) /\ j.pc # "merge" /\ j.stage \in {job[r].stage, 2}
    BY <1>4, <2>1 DEF Quiet
  <2>3. WritesAreSound(j)
    BY <1>1, <2>1, <2>2, WritesStay
  <2>4. \A x : Finishes(j, x) => x \in muddled'
    BY <1>4, <2>1 DEF Finishes, order
  <2>5. QED
    BY <1>2, <2>1, <2>2, <2>3, <2>4, ChoiceFrame
<1>5. ASSUME job[r].stage = 2 \/ job[r].arg.do # "finish",
             job' = [job EXCEPT ![r] = [job[r] EXCEPT !.pc = "write", !.view = Nothing, !.miss = {}, !.seen = 0,
                                                      !.stage = 2, !.todo = {Change("phieu", order, patch)}]]
      PROVE  FinishInv'
  <2> DEFINE todo == {Change("phieu", order, patch)}
             j == [job[r] EXCEPT !.pc = "write", !.view = Nothing, !.miss = {}, !.seen = 0,
                                 !.stage = 2, !.todo = todo]
  <2>1. /\ job' = [job EXCEPT ![r] = j]
        /\ j.op = job[r].op /\ j.arg = job[r].arg /\ j.sent = job[r].sent /\ j.stage = 2
        /\ j.pc = "write" /\ j.todo = todo
    BY <1>5 DEF NoticeInv, JobIsSound, JobFields
  <2> HIDE DEF j
  <2>2. /\ "obj" \notin DOMAIN patch
        /\ "st" \in DOMAIN patch /\ patch.st = "hoan_thanh" => job[r].arg.do = "finish"
    BY <1>1, OrderPatchIsSound
  <2> HIDE DEF patch
  <2>3. "st" \in DOMAIN patch /\ patch.st = "hoan_thanh" => Finishes(j, order)
    BY <1>1, <2>1, <2>2 DEF Finishes, order
  <2>4. j.op \notin Generators
    BY <1>1, <2>1 DEF Generators
  <2>5. \A w \in j.todo : WriteIsSound(j, w)
    BY <2>1, <2>2, <2>3, <2>4, ChangeIsSound
  <2>6. \A x : Finishes(j, x) => Finishes(job[r], x)
    BY <1>1, <1>5, <2>1 DEF Finishes
  <2>7. j.stage \in {job[r].stage, 2}
    BY <2>1
  <2>8. QED
    BY <1>2, <2>1, <2>5, <2>6, <2>7, WritingKeeps
<1>6. QED
  BY <1>2, <1>3, <1>4, <1>5, RefusalKeeps

OrdersShown(v) ==
    \A i : Finished(i) /\ ~Pending(i) /\ i \in DOMAIN v["phieu"] => v["phieu"][i].st = "hoan_thanh"

\* Whoever still waits to hear that it finished an order counts as closing it.
LEMMA PendingCloses ==
    ASSUME FinishInv, NEW i, Finished(i), Pending(i)
    PROVE  \E q \in Jobs : Finishes(job[q], i)
<1>1. PICK q \in Jobs : \E s \in job[q].sent : s.id = i /\ "st" \in DOMAIN s.write.fields
  BY DEF Pending
<1>2. PICK s \in job[q].sent : s.id = i /\ "st" \in DOMAIN s.write.fields
  BY <1>1
<1>3. WriteIsSound(job[q], s.write) /\ SentIsSound(s)
  BY DEF FinishInv, WritesAreSound
<1>4. s.write.fields.st = "hoan_thanh" /\ s.write.obj = "phieu"
  BY <1>2, <1>3 DEF Finished, SentIsSound
<1>5. ~s.write.new /\ s.write.id = i
  BY <1>2, <1>3, <1>4 DEF WriteIsSound, SentIsSound
<1>6. Finishes(job[q], i)
  BY <1>2, <1>3, <1>4, <1>5 DEF WriteIsSound
<1>7. QED
  BY <1>6

LEMMA OpenKeeps ==
    ASSUME NoticeInv, FinishInv, NEW r \in Jobs, NEW v, Open(r, v), job[r].sent = {},
           UNCHANGED <<rec, shown, recent, report, menu>>, CacheStaysGood,
           job[r].op = "edit" => OrdersShown(v)
    PROVE  FinishInv'
<1> DEFINE o == job[r].arg.order
           j == [job[r] EXCEPT !.pc = "get", !.view = Nothing, !.miss = {}, !.seen = 0]
<1>1. job[r].op = "edit" /\ muddled \subseteq muddled'
  BY DEF Open
<1>2. CASE Done(r)
  BY <1>1, <1>2, RefusalKeeps
<1>3. CASE ~Done(r)
  <2>1. /\ o \in DOMAIN v["phieu"] /\ v["phieu"][o].st \notin Closed
        /\ job' = [job EXCEPT ![r] = j]
        /\ Closing(o) # {} => o \in muddled'
    BY <1>3 DEF Open
  <2>2. /\ j.op = job[r].op /\ j.arg = job[r].arg /\ j.todo = job[r].todo /\ j.sent = job[r].sent
        /\ j.stage = job[r].stage /\ j.pc = "get"
    BY DEF NoticeInv, JobIsSound, JobFields
  <2> HIDE DEF j
  <2>3. job'[r] = j /\ job' = [job EXCEPT ![r] = job'[r]]
    BY <2>1 DEF NoticeInv
  <2>4. WritesAreSound(j)
    <3>1. j.pc # "merge" /\ j.stage \in {job[r].stage, 2} /\ WritesAreSound(job[r])
      BY <2>2, PartsOfFinishInv
    <3>2. QED
      BY <2>2, <3>1, WritesStay
  <2>5. \A x : ~Finishes(j, x) /\ (Edits(j, x) => x = o) /\ ListShows(j, x)
    BY <1>1, <2>2 DEF Finishes, Edits, ListShows
  <2>6. Closing(o) = {} => \A q \in Jobs : ~Finishes(job[q], o)
    BY DEF Closing, Finishes
  <2>7. \A i : Finished(i) /\ i \notin muddled' => i # o
    <3> SUFFICES ASSUME Finished(o), o \notin muddled' PROVE FALSE
      OBVIOUS
    <3>1. ~Pending(o)
      BY <2>1, <2>6, PendingCloses
    <3>2. v["phieu"][o].st = "hoan_thanh"
      BY <1>1, <2>1, <3>1 DEF OrdersShown
    <3>3. QED
      BY <2>1, <3>2 DEF Closed
  <2>8. \A i : Finished(i) /\ i \notin muddled' => LeavesReport(j, i)
    BY <2>2, <2>7 DEF LeavesReport
  <2> HIDE DEF o
  <2>9. /\ WritesAreSound(job'[r])
        /\ \A s \in job[r].sent : s \in job'[r].sent \/ s.id \in muddled'
        /\ \A x : ~Finishes(job'[r], x) /\ ListShows(job'[r], x)
        /\ \A x : Edits(job'[r], x) => x \in muddled' \/ \A q \in Jobs : ~Finishes(job[q], x)
        /\ \A i : Finished(i) /\ i \notin muddled' => LeavesReport(job'[r], i)
    BY <2>1, <2>3, <2>4, <2>5, <2>6, <2>8
  <2>10. /\ DOMAIN cache' = Objects
         /\ \A i : Finished(i) /\ i \notin muddled' /\ ~Pending(i) => CacheShows(i)'
    BY DEF CacheStaysGood
  <2>11. QED
    BY <1>1, <2>3, <2>9, <2>10, FinishFrame
<1>4. QED
  BY <1>2, <1>3

LEMMA DecideKeeps ==
    ASSUME NoticeInv, FinishInv, NEW r \in Jobs, NEW v, NEW since, Decide(r, v, since), job[r].sent = {},
           UNCHANGED <<rec, shown, recent, report, menu>>, CacheStaysGood,
           job[r].op = "edit" => OrdersShown(v)
    PROVE  FinishInv'
  BY GenerateKeeps, SimpleKeeps, TaskKeeps, UpdateKeeps, OpenKeeps, FindOrderKeeps DEF Decide

LEMMA SearchKeeps ==
    ASSUME NoticeInv, FinishInv, NEW r \in Jobs, Search(r)
    PROVE  FinishInv'
<1> DEFINE k == job[r]
           miss == {o \in Needs(k) : cache[o] = Nothing}
           v == [o \in Needs(k) |-> IF o \in miss THEN RowsOf(o, shown) ELSE cache[o]]
<1>1. /\ k.pc = "list" /\ k.sent = {}
      /\ UNCHANGED <<rec, shown, recent, report, menu, cache>>
  BY NothingSent DEF Search, storeVars, viewVars, boundVars
<1>2. DOMAIN cache' = Objects /\ \A i : Finished(i) /\ ~Pending(i) => CacheShows(i)'
  BY <1>1 DEF FinishInv, RecordsAreSound, ViewsShow, CacheShows
<1>3. CASE miss = {}
  <2>1. Decide(r, v, Settled)
    BY <1>3 DEF Search
  <2>2. k.op = "edit" => OrdersShown(v)
    <3> SUFFICES ASSUME k.op = "edit", NEW i, Finished(i), ~Pending(i), i \in DOMAIN v["phieu"]
                 PROVE  v["phieu"][i].st = "hoan_thanh"
      BY DEF OrdersShown
    <3>1. "phieu" \in Needs(k)
      BY DEF Needs
    <3>2. v["phieu"] = cache["phieu"] /\ cache["phieu"] # Nothing
      BY <1>3, <3>1
    <3>3. CacheShows(i)
      BY DEF FinishInv, ViewsShow
    <3> HIDE DEF v
    <3>4. QED
      BY <3>2, <3>3 DEF CacheShows, ShowsFinished
  <2> HIDE DEF v, miss
  <2>3. CacheStaysGood
    BY <1>2 DEF CacheStaysGood
  <2>4. QED
    BY <1>1, <2>1, <2>2, <2>3, DecideKeeps
<1>4. CASE miss # {}
  <2> DEFINE since == Settled
             j == [job[r] EXCEPT !.pc = "merge", !.view = v, !.miss = miss, !.seen = since]
  <2>1. job' = [job EXCEPT ![r] = j] /\ muddled' = muddled
    BY <1>4 DEF Search, pastVars
  <2> HIDE DEF since, v, miss
  <2>2. /\ j.op = job[r].op /\ j.arg = job[r].arg /\ j.todo = job[r].todo /\ j.sent = job[r].sent
        /\ j.stage = job[r].stage /\ j.pc = "merge" /\ j.view = v /\ j.miss = miss
    BY DEF NoticeInv, JobIsSound, JobFields
  <2> HIDE DEF j
  <2>3. job'[r] = j /\ job' = [job EXCEPT ![r] = job'[r]]
    BY <2>1 DEF NoticeInv
  <2>4. WritesAreSound(j)
    <3>1. WritesAreSound(job[r])
      BY PartsOfFinishInv
    <3>2. \A w : WriteIsSound(job[r], w) => WriteIsSound(j, w)
      BY <2>2 DEF WriteIsSound, Finishes
    <3>3. Needs(j) = Needs(job[r])
      BY <2>2 DEF Needs
    <3>4. miss \subseteq Needs(job[r])
      BY DEF miss
    <3>5. QED
      BY <1>4, <2>2, <3>1, <3>2, <3>3, <3>4 DEF WritesAreSound
  <2>5. \A x : (Finishes(j, x) => Finishes(job[r], x)) /\ ~Edits(j, x) /\ LeavesReport(j, x)
    BY <2>2 DEF Finishes, Edits, LeavesReport
  <2>6. ASSUME NEW i, Finished(i), ~Pending(i), "st" \notin DOMAIN At(recent["phieu"], i)
        PROVE  ListShows(j, i)
    <3>1. ShowsFinished(shown, i) /\ shown[i].obj = "phieu"
      BY <2>6 DEF FinishInv, ViewsShow
    <3>2. "phieu" \in miss => v["phieu"] = RowsOf("phieu", shown)
      BY DEF v, miss
    <3>3. "phieu" \in miss => ShowsFinished(v["phieu"], i)
      BY <3>1, <3>2 DEF RowsOf, ShowsFinished
    <3>4. QED
      BY <2>2, <3>3 DEF ListShows
  <2>7. /\ WritesAreSound(job'[r])
        /\ \A s \in job[r].sent : s \in job'[r].sent \/ s.id \in muddled'
        /\ \A x : (Finishes(job'[r], x) => Finishes(job[r], x)) /\ ~Edits(job'[r], x) /\ LeavesReport(job'[r], x)
        /\ \A i : Finished(i) /\ ~Pending(i) /\ "st" \notin DOMAIN At(recent["phieu"], i) => ListShows(job'[r], i)
    BY <2>2, <2>3, <2>4, <2>5, <2>6
  <2>8. QED
    BY <1>1, <1>2, <2>1, <2>3, <2>7, FinishFrame
<1>5. QED
  BY <1>3, <1>4

LEMMA MergeKeeps ==
    ASSUME NoticeInv, FinishInv, NEW r \in Jobs, Merge(r)
    PROVE  FinishInv'
<1> DEFINE k == job[r]
           v == [o \in Needs(k) |-> IF o \in k.miss THEN Overlay(o, k.view[o]) ELSE k.view[o]]
<1>1. /\ k.pc = "merge" /\ k.sent = {}
      /\ UNCHANGED <<rec, shown, recent, report, menu>>
      /\ cache' = [o \in Objects |-> IF o \in k.miss THEN v[o] ELSE cache[o]]
      /\ Decide(r, v, k.seen)
  BY NothingSent DEF Merge, storeVars, boundVars
<1>2. k.miss \subseteq Needs(k) /\ k.miss # {}
  BY <1>1 DEF FinishInv, WritesAreSound
<1>3. ASSUME NEW i, Finished(i), ~Pending(i), "phieu" \in k.miss, i \in DOMAIN v["phieu"]
      PROVE  ShowsFinished(v["phieu"], i)
  <2>1. v["phieu"] = Overlay("phieu", k.view["phieu"])
    BY <1>2, <1>3
  <2> DEFINE R == At(recent["phieu"], i)
             L == At(k.view["phieu"], i)
  <2>2. v["phieu"][i] = Over(R, L)
    BY <1>3, <2>1 DEF Overlay
  <2>3. ViewsShow(i)
    BY <1>3 DEF FinishInv
  <2>4. CASE "st" \in DOMAIN R
    <3>1. R.st = "hoan_thanh"
      BY <2>3, <2>4 DEF ViewsShow
    <3>2. "st" \in DOMAIN Over(R, L) /\ Over(R, L).st = "hoan_thanh"
      BY <2>4, <3>1, OverFields
    <3> HIDE DEF v
    <3>3. QED
      BY <1>3, <2>2, <3>2 DEF ShowsFinished
  <2>5. CASE "st" \notin DOMAIN R
    <3>1. ListShows(k, i)
      BY <2>3, <2>5 DEF ViewsShow
    <3>2. "st" \in DOMAIN L /\ L.st = "hoan_thanh"
      BY <1>1, <1>3, <3>1 DEF ListShows, ShowsFinished, At
    <3>3. "st" \in DOMAIN Over(R, L) /\ Over(R, L).st = "hoan_thanh"
      BY <2>5, <3>2, OverFields
    <3> HIDE DEF v
    <3>4. QED
      BY <1>3, <2>2, <3>3 DEF ShowsFinished
  <2>6. QED
    BY <2>4, <2>5
<1>4. k.op = "edit" => OrdersShown(v)
  <2> SUFFICES ASSUME k.op = "edit" PROVE OrdersShown(v)
    OBVIOUS
  <2>1. Needs(k) = {"phieu"}
    BY DEF Needs
  <2>2. "phieu" \in k.miss
    BY <1>2, <2>1
  <2> HIDE DEF v
  <2>3. QED
    BY <1>3, <2>2 DEF OrdersShown, ShowsFinished
<1> HIDE DEF v
<1>5. CacheStaysGood
  <2>1. DOMAIN cache' = Objects
    BY <1>1
  <2>2. "phieu" \in Objects
    BY DEF Objects
  <2>3. ASSUME NEW i, Finished(i), ~Pending(i) PROVE CacheShows(i)'
    <3>1. CASE "phieu" \in k.miss
      <4>1. cache'["phieu"] = v["phieu"]
        BY <1>1, <2>2, <3>1
      <4>2. QED
        BY <1>3, <2>3, <3>1, <4>1 DEF CacheShows
    <3>2. CASE "phieu" \notin k.miss
      <4>1. cache'["phieu"] = cache["phieu"]
        BY <1>1, <2>2, <3>2
      <4>2. CacheShows(i)
        BY <2>3 DEF FinishInv, ViewsShow
      <4>3. QED
        BY <4>1, <4>2 DEF CacheShows
    <3>3. QED
      BY <3>1, <3>2
  <2>4. QED
    BY <2>1, <2>3 DEF CacheStaysGood
<1>6. QED
  BY <1>1, <1>4, <1>5, DecideKeeps

LEMMA FinishInitInv == ServiceInit => FinishInv
<1> SUFFICES ASSUME ServiceInit PROVE FinishInv
  OBVIOUS
<1>1. /\ \A r \in Jobs : job[r] = NoJob
      /\ rec = StartRecords /\ shown = rec /\ menu \in Menus /\ muddled = {}
      /\ cache = [o \in Objects |-> Nothing] /\ recent = [o \in Objects |-> <<>>]
  BY DEF ServiceInit
<1>2. RecordsAreSound
  BY <1>1, RecordsAssumption DEF RecordsAreSound
<1>3. /\ NoJob.op = "none" /\ NoJob.todo = {} /\ NoJob.sent = {} /\ NoJob.stage = 1 /\ NoJob.pc = "idle"
  BY DEF NoJob
<1>4. WritesAreSound(NoJob)
  BY <1>3, NoJobWrites
<1>5. \A r \in Jobs : WritesAreSound(job[r]) /\ ClosingIsSound(job[r])
  BY <1>1, <1>3, <1>4 DEF ClosingIsSound, Finishes
<1>6. \A i : Finished(i) => ReportIsKept(i)
  <2> SUFFICES ASSUME NEW i, Finished(i) PROVE ReportIsKept(i)
    OBVIOUS
  <2>1. i \in Ids("phieu") /\ DOMAIN report = Ids("phieu") /\ report[i] = Parts
    BY DEF ServiceInit, Finished, Ids
  <2>2. Doc(i) = Parts
    BY <2>1 DEF Doc
  <2>3. QED
    BY <1>1, <1>3, <2>2 DEF ReportIsKept, LeavesReport
<1>7. \A i : Finished(i) => ViewsShow(i)
  <2> SUFFICES ASSUME NEW i, Finished(i) PROVE ViewsShow(i)
    OBVIOUS
  <2>1. ShowsFinished(shown, i) /\ shown[i].obj = "phieu"
    BY <1>1, <1>2 DEF ShowsFinished, Finished, RecordsAreSound
  <2>2. "phieu" \in Objects
    BY DEF Objects
  <2>3. At(recent["phieu"], i) = <<>> /\ cache["phieu"] = Nothing
    BY <1>1, <2>2 DEF At
  <2>4. "st" \notin DOMAIN At(recent["phieu"], i)
    BY <2>3
  <2>5. QED
    BY <1>1, <1>3, <2>1, <2>3, <2>4 DEF ViewsShow, CacheShows, ListShows
<1>8. QED
  BY <1>2, <1>5, <1>6, <1>7 DEF FinishInv

LEMMA FinishStepInv == NoticeInv /\ FinishInv /\ [ServiceNext]_serviceVars => FinishInv'
<1> SUFFICES ASSUME NoticeInv, FinishInv, [ServiceNext]_serviceVars PROVE FinishInv'
  OBVIOUS
<1>1. ASSUME NEW r \in Jobs,
             \/ Begin(r) \/ Search(r) \/ Merge(r) \/ Post(r) \/ Answered(r) \/ AnswerLost(r) \/ Rejected(r)
      PROVE  FinishInv'
  BY <1>1, BeginKeeps, SearchKeeps, MergeKeeps, PostKeeps, AnsweredKeeps, AnswerLostKeeps, RejectedKeeps
<1>2. ASSUME NEW r \in Jobs,
             \/ Finish(r) \/ GuardComplete(r) \/ GetReport(r) \/ PutReport(r)
             \/ Claim(r) \/ SendZns(r) \/ ZnsAnswered(r) \/ Release(r)
      PROVE  FinishInv'
  BY <1>2, FinishKeeps, GuardKeeps, GetReportKeeps, PutReportKeeps, NoticesKeepReports
<1>3. CASE (\E o \in Objects : CacheGone(o) \/ RecentGone(o)) \/ IndexCatchesUp
  BY <1>3, ForgettingKeeps
<1>4. CASE Restart
  BY <1>4, RestartKeepsReports
<1>5. CASE UNCHANGED serviceVars
  <2>1. /\ UNCHANGED <<rec, job, report, menu, muddled>> /\ UNCHANGED <<shown, cache, recent>>
    BY <1>5 DEF serviceVars, storeVars, viewVars, pastVars, boundVars
  <2>2. DOMAIN cache' = Objects /\ DOMAIN recent' = Objects
    BY <2>1 DEF FinishInv, RecordsAreSound
  <2>3. \A i : Finished(i) /\ ~Pending(i) => ViewsShow(i)'
    BY <2>1 DEF FinishInv, ViewsShow, CacheShows, At, ListShows
  <2>4. QED
    BY <2>1, <2>2, <2>3, ViewsFrame
<1>6. QED
  BY <1>1, <1>2, <1>3, <1>4, <1>5 DEF ServiceNext

\* A finished order has every part of its report and keeps it: whoever checked the report
\* (guardComplete) finishes an order nobody edits, and no list from which an edit is
\* allowed, neither the index, the cache nor the overlay of recent writes, shows the
\* order open again; overlapping requests, lost answers and restarts excepted.
THEOREM FinishedOrdersKeepReports == ServiceSpec => []FinishedHasReport
<1>1. FinishInv => FinishedHasReport
  BY DEF FinishInv, FinishedHasReport, Finished, ReportIsKept
<1>2. ServiceInit => NoticeInv /\ FinishInv
  BY NoticeInitInv, FinishInitInv
<1>3. NoticeInv /\ FinishInv /\ [ServiceNext]_serviceVars => (NoticeInv /\ FinishInv)'
  BY NoticeStepInv, FinishStepInv
<1>4. QED
  BY <1>1, <1>2, <1>3, PTL DEF ServiceSpec

------------------------------------------------------------------------------
\* One record per key

KeyFields == {"key", "ref", "st"}

\* A record without a key, or of one that is excused.
Lost(x, excuses) == x.key = Nothing \/ x.key \in excuses

\* A record somebody created and has not been told of.
Awaited(i) == \E q \in Jobs : \E s \in job[q].sent : s.write.new /\ s.id = i

\* A record every view must show.
Due(i) == i \in DOMAIN rec /\ ~Lost(rec[i], excused) /\ ~Awaited(i)

\* An entry of a view has the key of its record, and shows an inspection closed only if it was.
Fits(f, x, excuses) ==
    /\ "key" \in DOMAIN f => f.key = x.key
    /\ x.obj = "kiem_dinh" =>
          /\ "ref" \in DOMAIN f => f.ref = x.ref
          /\ "st" \in DOMAIN f /\ f.st # "len_lich" => x.st # "len_lich" \/ x.key \in excuses
AllFit(view, records, excuses) ==
    \A i \in DOMAIN view : i \in DOMAIN records /\ Fits(view[i], records[i], excuses)

Full(view, i) == i \in DOMAIN view /\ KeyFields \subseteq DOMAIN view[i]

RecordKeys ==
    \A i \in DOMAIN rec :
        /\ KeyFields \subseteq DOMAIN rec[i]
        /\ rec[i].key # Nothing => rec[i].key[1] = rec[i].obj
        /\ rec[i].obj = "kiem_dinh" => rec[i].key = <<"kiem_dinh", rec[i].ref>>

ShownKeys ==
    \A i \in DOMAIN shown :
        /\ i \in DOMAIN rec /\ shown[i].obj = rec[i].obj
        /\ KeyFields \subseteq DOMAIN shown[i] /\ Fits(shown[i], rec[i], excused)

\* A record that is due is in the index or the overlay, and in the cache if there is one.
ViewKeys ==
    \A o \in Objects :
        /\ AllFit(recent[o], rec, excused)
        /\ cache[o] # Nothing => AllFit(cache[o], rec, excused)
        /\ \A i \in Ids(o) : Due(i) =>
              /\ i \in DOMAIN shown \/ Full(recent[o], i)
              /\ cache[o] # Nothing => Full(cache[o], i)

\* The same of a view that is being searched for: what was cached was complete when the search began.
MergeKeys(j) ==
    j.pc = "merge" =>
        /\ j.seen \in Nat /\ j.seen <= Len(rec)
        /\ \A o \in Needs(j) :
              /\ AllFit(j.view[o], rec, excused)
              /\ \A i \in Ids(o) :
                    /\ o \in j.miss /\ Due(i) => Full(j.view[o], i) \/ Full(recent[o], i)
                    /\ o \notin j.miss /\ ~Lost(rec[i], excused) /\ i <= j.seen => Full(j.view[o], i)

\* What a write does to keys: a new record has one of its object, a change leaves it alone.
WriteKeys(w) ==
    /\ w.obj \in Objects
    /\ w.new => /\ KeyFields \subseteq DOMAIN w.fields
                /\ w.fields.key # Nothing => w.fields.key[1] = w.obj
                /\ w.obj = "kiem_dinh" =>
                      w.fields.key = <<"kiem_dinh", w.fields.ref>> /\ w.fields.st = "len_lich"
    /\ ~w.new => /\ "key" \notin DOMAIN w.fields
                 /\ w.obj = "kiem_dinh" => "ref" \notin DOMAIN w.fields

Makes(w, k) == w.new /\ w.fields.key = k

\* No record of key k is in the way of a new one.
Fresh(k) == \A i \in DOMAIN rec : rec[i].key = k => rec[i].obj = "kiem_dinh" /\ rec[i].st # "len_lich"

\* A key that is to be created is free, and nobody else is about to create it.
PlansAreApart ==
    \A r \in Jobs : \A w \in job[r].todo : w.new /\ ~Lost(w.fields, excused) =>
        /\ Fresh(w.fields.key)
        /\ \A q \in Jobs : \A x \in job[q].todo : Makes(x, w.fields.key) => q = r /\ x = w

JobKeys(j) ==
    /\ MergeKeys(j)
    /\ \A w \in j.todo : WriteKeys(w)
    /\ \A s \in j.sent : WriteKeys(s.write) /\ Fits(s.write.fields, rec[s.id], excused)

KeyInv ==
    /\ RecordKeys /\ OneRecordPerKey
    /\ ShownKeys /\ ViewKeys
    /\ PlansAreApart
    /\ \A r \in Jobs : JobKeys(job[r])

\* Records are appended and changed, and an inspection is opened again only with an excuse.
RecordsGrow ==
    /\ excused \subseteq excused'
    /\ \A i \in DOMAIN rec :
          /\ i \in DOMAIN rec' /\ rec'[i].obj = rec[i].obj /\ rec'[i].key = rec[i].key
          /\ KeyFields \subseteq DOMAIN rec'[i]
          /\ rec[i].obj = "kiem_dinh" =>
                /\ rec'[i].ref = rec[i].ref
                /\ rec'[i].st = "len_lich" => rec[i].st = "len_lich" \/ rec[i].key \in excused'

LEMMA FitsStay ==
    ASSUME RecordsGrow, NEW i \in DOMAIN rec, NEW f, Fits(f, rec[i], excused)
    PROVE  Fits(f, rec'[i], excused')
<1>1. rec'[i].obj = rec[i].obj /\ rec'[i].key = rec[i].key /\ excused \subseteq excused'
  BY DEF RecordsGrow
<1>2. rec[i].obj = "kiem_dinh" =>
         /\ rec'[i].ref = rec[i].ref
         /\ rec'[i].st = "len_lich" => rec[i].st = "len_lich" \/ rec[i].key \in excused'
  BY DEF RecordsGrow
<1>3. QED
  BY <1>1, <1>2 DEF Fits

LEMMA AllFitStays ==
    ASSUME RecordsGrow, NEW view, AllFit(view, rec, excused)
    PROVE  AllFit(view, rec', excused')
<1>1. ASSUME NEW i \in DOMAIN view PROVE i \in DOMAIN rec' /\ Fits(view[i], rec'[i], excused')
  <2>1. i \in DOMAIN rec /\ Fits(view[i], rec[i], excused)
    BY DEF AllFit
  <2>2. QED
    BY <2>1, FitsStay DEF RecordsGrow
<1>2. QED
  BY <1>1 DEF AllFit

LEMMA FitsOver ==
    ASSUME NEW f, NEW g, NEW x, NEW excuses, Fits(f, x, excuses), Fits(g, x, excuses)
    PROVE  Fits(Over(f, g), x, excuses)
  BY DEF Fits, Over

LEMMA NothingFits == \A x, excuses : Fits(<<>>, x, excuses)
  BY DEF Fits

\* Whoever is not awaited any more was answered or is excused.
AwaitedStay ==
    \A i \in DOMAIN rec : Awaited(i) => Awaited(i)' \/ Lost(rec[i], excused')

LEMMA DueBefore ==
    ASSUME RecordsGrow, AwaitedStay, NEW i \in DOMAIN rec, Due(i)'
    PROVE  Due(i)
  BY DEF RecordsGrow, AwaitedStay, Due, Lost

\* Records that stay as they are.
LEMMA SameRecords ==
    ASSUME KeyInv, UNCHANGED rec, excused \subseteq excused'
    PROVE  RecordsGrow /\ RecordKeys' /\ OneRecordPerKey'
<1>1. RecordsGrow
  BY DEF KeyInv, RecordKeys, RecordsGrow
<1>2. RecordKeys'
  BY DEF KeyInv, RecordKeys
<1>3. OneRecordPerKey'
  BY DEF KeyInv, OneRecordPerKey
<1>4. QED
  BY <1>1, <1>2, <1>3

LEMMA NeedsAreObjects == \A j : Needs(j) \subseteq Objects
  BY DEF Needs, Objects

LEMMA LengthOfRecords ==
    ASSUME FinishInv
    PROVE  Len(rec) \in Nat /\ DOMAIN rec = 1..Len(rec)
  BY DEF FinishInv, RecordsAreSound

\* A search under way stays good: what is new is awaited, and what was answered is remembered.
LEMMA MergesStay ==
    ASSUME RecordsGrow, Len(rec) \in Nat, Len(rec') \in Nat, Len(rec) <= Len(rec'),
           \A i \in DOMAIN rec' : i \in DOMAIN rec \/ (i \in Nat /\ i > Len(rec) /\ ~Due(i)'),
           \A o \in Objects : \A i \in Ids(o) : Due(i)' => Due(i) \/ Full(recent'[o], i),
           \A o \in Objects : \A i : Full(recent[o], i) => Full(recent'[o], i),
           NEW k, MergeKeys(k)
    PROVE  MergeKeys(k)'
<1> SUFFICES ASSUME k.pc = "merge" PROVE MergeKeys(k)'
  BY DEF MergeKeys
<1>1. /\ k.seen \in Nat /\ k.seen <= Len(rec)
      /\ \A o \in Needs(k) : AllFit(k.view[o], rec, excused)
  BY DEF MergeKeys
<1>2. k.seen <= Len(rec')
  BY <1>1
<1>3. \A o \in Needs(k) : AllFit(k.view[o], rec', excused')
  BY <1>1, AllFitStays
<1>4. ASSUME NEW o \in Needs(k), NEW i \in DOMAIN rec', rec'[i].obj = o
      PROVE  /\ o \in k.miss /\ Due(i)' => Full(k.view[o], i) \/ Full(recent'[o], i)
             /\ o \notin k.miss /\ ~Lost(rec'[i], excused') /\ i <= k.seen => Full(k.view[o], i)
  <2>1. CASE i \in DOMAIN rec
    <3>1. i \in Ids(o) /\ o \in Objects
      BY <1>4, <2>1, NeedsAreObjects DEF Ids, RecordsGrow
    <3>2. /\ o \in k.miss /\ Due(i) => Full(k.view[o], i) \/ Full(recent[o], i)
          /\ o \notin k.miss /\ ~Lost(rec[i], excused) /\ i <= k.seen => Full(k.view[o], i)
      BY <3>1 DEF MergeKeys
    <3>3. ~Lost(rec'[i], excused') => ~Lost(rec[i], excused)
      BY <2>1 DEF Lost, RecordsGrow
    <3>4. Due(i)' => Due(i) \/ Full(recent'[o], i)
      BY <3>1
    <3>5. Full(recent[o], i) => Full(recent'[o], i)
      BY <3>1
    <3>6. QED
      BY <3>2, <3>3, <3>4, <3>5
  <2>2. CASE i \notin DOMAIN rec
    <3>1. i \in Nat /\ i > Len(rec) /\ ~Due(i)'
      BY <2>2
    <3>2. ~(i <= k.seen)
      BY <1>1, <3>1
    <3>3. QED
      BY <3>1, <3>2
  <2>3. QED
    BY <2>1, <2>2
<1>5. QED
  BY <1>1, <1>2, <1>3, <1>4 DEF MergeKeys, Ids

\* A list a request may put into the cache.
Complete(view, o) ==
    /\ AllFit(view, rec, excused)
    /\ \A i \in Ids(o) : Due(i) => Full(view, i)

\* What a request may add to its plans: changes, excused keys, and keys that are free.
MayPlan(r, j, w) ==
    w.new /\ ~Lost(w.fields, excused') =>
        /\ Fresh(w.fields.key)
        /\ \A q \in Jobs : q # r => \A x \in job[q].todo : ~Makes(x, w.fields.key)
        /\ \A x \in j.todo : Makes(x, w.fields.key) => x = w

\* One request moves; records, index and overlay stay.
LEMMA KeysFrame ==
    ASSUME NoticeInv, FinishInv, KeyInv, NEW r \in Jobs, NEW j, job' = [job EXCEPT ![r] = j],
           UNCHANGED <<rec, shown, recent>>, excused \subseteq excused',
           \A o \in Objects : cache'[o] = cache[o] \/ cache'[o] = Nothing \/ Complete(cache'[o], o),
           j.sent \subseteq job[r].sent,
           \A s \in job[r].sent : s \in j.sent \/ (s.write.new => Lost(rec[s.id], excused')),
           MergeKeys(j),
           \A w \in j.todo : WriteKeys(w) /\ (w \in job[r].todo \/ MayPlan(r, j, w))
    PROVE  KeyInv'
<1>1. job'[r] = j /\ \A q \in Jobs : q # r => job'[q] = job[q]
  BY DEF NoticeInv
<1>2. RecordsGrow /\ RecordKeys' /\ OneRecordPerKey'
  BY SameRecords
<1>3. AwaitedStay
  <2> SUFFICES ASSUME NEW i \in DOMAIN rec, NEW q \in Jobs, NEW s \in job[q].sent, s.write.new, s.id = i
               PROVE  Awaited(i)' \/ Lost(rec[i], excused')
    BY DEF AwaitedStay, Awaited
  <2>1. CASE s \in job'[q].sent
    BY <2>1 DEF Awaited
  <2>2. CASE s \notin job'[q].sent
    BY <1>1, <2>2
  <2>3. QED
    BY <2>1, <2>2
<1>4. \A i : Due(i)' => Due(i)
  <2> SUFFICES ASSUME NEW i, Due(i)' PROVE Due(i)
    OBVIOUS
  <2>1. i \in DOMAIN rec
    BY DEF Due
  <2>2. QED
    BY <1>2, <1>3, <2>1, DueBefore
<1>5. ShownKeys'
  <2>1. ASSUME NEW i \in DOMAIN shown
        PROVE  /\ i \in DOMAIN rec /\ shown[i].obj = rec[i].obj
               /\ KeyFields \subseteq DOMAIN shown[i] /\ Fits(shown[i], rec[i], excused')
    <3>1. /\ i \in DOMAIN rec /\ shown[i].obj = rec[i].obj
          /\ KeyFields \subseteq DOMAIN shown[i] /\ Fits(shown[i], rec[i], excused)
      BY DEF KeyInv, ShownKeys
    <3>2. Fits(shown[i], rec'[i], excused')
      BY <1>2, <3>1, FitsStay
    <3>3. QED
      BY <3>1, <3>2
  <2>2. QED
    BY <2>1 DEF ShownKeys
<1>6. ViewKeys'
  <2> SUFFICES ASSUME NEW o \in Objects
               PROVE  /\ AllFit(recent[o], rec, excused')
                      /\ cache'[o] # Nothing => AllFit(cache'[o], rec, excused')
                      /\ \A i \in Ids(o) : Due(i) =>
                            /\ i \in DOMAIN shown \/ Full(recent[o], i)
                            /\ cache'[o] # Nothing => Full(cache'[o], i)
    BY <1>4 DEF ViewKeys, Ids
  <2>1. /\ AllFit(recent[o], rec, excused)
        /\ cache[o] # Nothing => AllFit(cache[o], rec, excused)
        /\ \A i \in Ids(o) : Due(i) =>
              /\ i \in DOMAIN shown \/ Full(recent[o], i)
              /\ cache[o] # Nothing => Full(cache[o], i)
    BY DEF KeyInv, ViewKeys
  <2>2. \A view : AllFit(view, rec, excused) => AllFit(view, rec, excused')
    BY <1>2, AllFitStays
  <2>3. cache'[o] # Nothing => AllFit(cache'[o], rec, excused)
    BY <2>1 DEF Complete
  <2>4. \A i \in Ids(o) : Due(i) /\ cache'[o] # Nothing => Full(cache'[o], i)
    BY <2>1 DEF Complete
  <2>5. QED
    BY <2>1, <2>2, <2>3, <2>4
<1>7. PlansAreApart'
  <2> SUFFICES ASSUME NEW p \in Jobs, NEW w \in job'[p].todo, w.new, ~Lost(w.fields, excused')
               PROVE  /\ Fresh(w.fields.key)
                      /\ \A q \in Jobs : \A x \in job'[q].todo : Makes(x, w.fields.key) => q = p /\ x = w
    BY DEF PlansAreApart, Fresh
  <2>1. ~Lost(w.fields, excused)
    BY DEF Lost
  <2>2. CASE w \in job[p].todo
    <3>1. /\ Fresh(w.fields.key)
          /\ \A q \in Jobs : \A x \in job[q].todo : Makes(x, w.fields.key) => q = p /\ x = w
      BY <2>1, <2>2 DEF KeyInv, PlansAreApart
    <3>2. ASSUME NEW x \in j.todo, Makes(x, w.fields.key) PROVE r = p /\ x = w
      <4>1. CASE x \in job[r].todo
        BY <3>1, <3>2, <4>1
      <4>2. CASE x \notin job[r].todo
        <5>1. MayPlan(r, j, x) /\ x.new /\ ~Lost(x.fields, excused')
          BY <3>2, <4>2 DEF Makes, Lost
        <5>2. /\ \A q \in Jobs : q # r => \A y \in job[q].todo : ~Makes(y, x.fields.key)
              /\ \A y \in j.todo : Makes(y, x.fields.key) => y = x
          BY <5>1 DEF MayPlan
        <5>3. Makes(w, x.fields.key)
          BY <3>2 DEF Makes
        <5>4. r = p
          BY <2>2, <5>2, <5>3
        <5>5. w = x
          BY <1>1, <5>2, <5>3, <5>4
        <5>6. QED
          BY <5>4, <5>5
      <4>3. QED
        BY <4>1, <4>2
    <3>3. QED
      BY <1>1, <3>1, <3>2
  <2>3. CASE w \notin job[p].todo
    <3>1. p = r /\ MayPlan(r, j, w)
      BY <1>1, <2>3
    <3>2. QED
      BY <1>1, <3>1 DEF MayPlan
  <2>4. QED
    BY <2>2, <2>3
<1>8. ASSUME NEW q \in Jobs PROVE JobKeys(job[q])'
  <2>1. MergeKeys(job'[q]) /\ \A w \in job'[q].todo : WriteKeys(w)
    BY <1>1 DEF KeyInv, JobKeys
  <2>2. \A s \in job'[q].sent : WriteKeys(s.write) /\ Fits(s.write.fields, rec[s.id], excused) /\ s.id \in DOMAIN rec
    <3>1. \A s \in job[q].sent : WriteKeys(s.write) /\ Fits(s.write.fields, rec[s.id], excused) /\ s.id \in DOMAIN rec
      BY DEF KeyInv, JobKeys, FinishInv, WritesAreSound, SentIsSound
    <3>2. QED
      BY <1>1, <3>1
  <2>3. \A s \in job'[q].sent : WriteKeys(s.write) /\ Fits(s.write.fields, rec'[s.id], excused')
    BY <1>2, <2>2, FitsStay
  <2>4. PICK k : k = job'[q]
    OBVIOUS
  <2>5. MergeKeys(k)'
    <3>1. Len(rec) \in Nat /\ Len(rec') \in Nat /\ Len(rec) <= Len(rec')
      BY LengthOfRecords
    <3>2. MergeKeys(k)
      BY <2>1, <2>4
    <3>3. /\ \A i \in DOMAIN rec' : i \in DOMAIN rec \/ (i \in Nat /\ i > Len(rec) /\ ~Due(i)')
          /\ \A o \in Objects : \A i \in Ids(o) : Due(i)' => Due(i) \/ Full(recent'[o], i)
          /\ \A o \in Objects : \A i : Full(recent[o], i) => Full(recent'[o], i)
      BY <1>4
    <3>4. QED
      BY <1>2, <3>1, <3>2, <3>3, MergesStay
  <2>6. MergeKeys(job[q])'
    BY <2>4, <2>5 DEF MergeKeys
  <2>7. QED
    BY <2>1, <2>3, <2>6 DEF JobKeys
<1>9. QED
  BY <1>2, <1>5, <1>6, <1>7, <1>8 DEF KeyInv

\* A request that does not wait for a list, and plans nothing but changes.
LEMMA KeysStay ==
    ASSUME NoticeInv, FinishInv, KeyInv, NEW r \in Jobs, NEW j, job' = [job EXCEPT ![r] = j],
           UNCHANGED <<rec, shown, viewVars>>, excused \subseteq excused', j.pc # "merge",
           j.sent \subseteq job[r].sent,
           \A s \in job[r].sent : s \in j.sent \/ (s.write.new => Lost(rec[s.id], excused')),
           \A w \in j.todo : w \in job[r].todo \/ (WriteKeys(w) /\ (w.new => Lost(w.fields, excused')))
    PROVE  KeyInv'
<1>1. MergeKeys(j)
  BY DEF MergeKeys
<1>2. \A w \in job[r].todo : WriteKeys(w)
  BY DEF KeyInv, JobKeys
<1>3. \A w \in j.todo : WriteKeys(w) /\ (w \in job[r].todo \/ MayPlan(r, j, w))
  BY <1>2 DEF MayPlan
<1>4. \A o \in Objects : cache'[o] = cache[o]
  BY DEF viewVars
<1>5. UNCHANGED <<rec, shown, recent>>
  BY DEF viewVars
<1>6. QED
  BY <1>1, <1>3, <1>4, <1>5, KeysFrame

LEMMA KeysAfterDone ==
    ASSUME NoticeInv, FinishInv, KeyInv, NEW r \in Jobs, Done(r),
           UNCHANGED <<rec, shown, viewVars>>, excused \subseteq excused',
           \A s \in job[r].sent : s.write.new => Lost(rec[s.id], excused')
    PROVE  KeyInv'
<1> DEFINE j == [NoJob EXCEPT !.pc = "done"]
<1>1. j.todo = {} /\ j.sent = {} /\ j.pc = "done" /\ job' = [job EXCEPT ![r] = j]
  BY DEF NoJob, Done
<1> HIDE DEF j
<1>2. QED
  BY <1>1, KeysStay

LEMMA KeysAfterGoto ==
    ASSUME NoticeInv, FinishInv, KeyInv, NEW r \in Jobs, NEW pc, Goto(r, pc), pc # "merge",
           UNCHANGED <<rec, shown, viewVars, excused>>
    PROVE  KeyInv'
<1> DEFINE j == [job[r] EXCEPT !.pc = pc]
<1>1. job' = [job EXCEPT ![r] = j] /\ j.todo = job[r].todo /\ j.sent = job[r].sent /\ j.pc = pc
  BY DEF Goto, NoticeInv, JobIsSound, JobFields
<1> HIDE DEF j
<1>2. QED
  BY <1>1, KeysStay

LEMMA NoticesKeepKeys ==
    ASSUME NoticeInv, FinishInv, KeyInv, NEW r \in Jobs, Claim(r) \/ SendZns(r) \/ ZnsAnswered(r) \/ Release(r)
    PROVE  KeyInv'
<1>1. job[r].sent = {} /\ UNCHANGED <<rec, shown, viewVars, excused>>
  BY NothingSent DEF Claim, SendZns, ZnsAnswered, Release, storeVars, pastVars
<1>2. Done(r) \/ Goto(r, "send") \/ Goto(r, "sent") \/ Goto(r, "release")
  BY Zenon DEF Claim, SendZns, ZnsAnswered, Release
<1>3. QED
  BY <1>1, <1>2, KeysAfterDone, KeysAfterGoto

LEMMA BeginKeepsKeys ==
    ASSUME NoticeInv, FinishInv, KeyInv, NEW r \in Jobs, Begin(r)
    PROVE  KeyInv'
<1>1. PICK q \in menu : job' = [job EXCEPT ![r] = [NoJob EXCEPT !.op = q.op, !.by = q.by, !.arg = q.arg, !.pc = "list"]]
  BY Zenon DEF Begin
<1> DEFINE j == [NoJob EXCEPT !.op = q.op, !.by = q.by, !.arg = q.arg, !.pc = "list"]
<1>2. j.todo = {} /\ j.sent = {} /\ j.pc = "list" /\ job' = [job EXCEPT ![r] = j]
  BY <1>1 DEF NoJob
<1> HIDE DEF j
<1>3. job[r].sent = {} /\ UNCHANGED <<rec, shown, viewVars, excused>>
  BY NothingSent DEF Begin, storeVars, pastVars
<1>4. QED
  BY <1>2, <1>3, KeysStay

LEMMA FailKeepsKeys ==
    ASSUME NoticeInv, FinishInv, KeyInv, NEW r \in Jobs, job[r].pc = "write", NEW todo, NEW sent, Fail(r, todo, sent),
           todo \subseteq job[r].todo, sent \subseteq job[r].sent,
           UNCHANGED <<rec, shown, viewVars>>, excused \subseteq excused',
           \A s \in job[r].sent : s \in sent \/ (s.write.new => Lost(rec[s.id], excused')),
           job[r].op \notin Generators => \A s \in job[r].sent : s.write.new => Lost(rec[s.id], excused')
    PROVE  KeyInv'
<1>1. CASE job[r].op \in Generators
  <2> DEFINE j == [job[r] EXCEPT !.todo = todo, !.sent = sent]
  <2>1. job' = [job EXCEPT ![r] = j] /\ j.pc = "write" /\ j.todo = todo /\ j.sent = sent
    BY <1>1 DEF Fail, NoticeInv, JobIsSound, JobFields
  <2> HIDE DEF j
  <2>2. QED
    BY <2>1, KeysStay
<1>2. CASE job[r].op \notin Generators
  BY <1>2, KeysAfterDone DEF Fail
<1>3. QED
  BY <1>1, <1>2

LEMMA RejectedKeepsKeys ==
    ASSUME NoticeInv, FinishInv, KeyInv, NEW r \in Jobs, Rejected(r)
    PROVE  KeyInv'
<1>1. PICK w \in job[r].todo : Fail(r, job[r].todo \ {w}, job[r].sent)
  BY Zenon DEF Rejected
<1>2. job[r].pc = "write" /\ UNCHANGED <<rec, shown, viewVars, excused>>
  BY DEF Rejected, storeVars, pastVars
<1>3. job[r].op \notin Generators => job[r].sent = {}
  BY RoomToWrite DEF Rejected
<1>4. QED
  BY <1>1, <1>2, <1>3, FailKeepsKeys

LEMMA AnswerLostKeepsKeys ==
    ASSUME NoticeInv, FinishInv, KeyInv, NEW r \in Jobs, AnswerLost(r)
    PROVE  KeyInv'
<1>1. PICK s \in job[r].sent :
         /\ \/ job' = [job EXCEPT ![r].sent = @ \ {s}, ![r].todo = @ \cup {s.write}]
            \/ Fail(r, job[r].todo, job[r].sent \ {s})
         /\ excused' = excused \cup KeysOf({s.write})
  BY Zenon DEF AnswerLost
<1>2. /\ UNCHANGED <<rec, shown, viewVars>> /\ excused \subseteq excused'
      /\ job[r].pc = "write"
  BY <1>1 DEF AnswerLost, storeVars, NoticeInv, JobIsSound
<1>3. s.write.new => Lost(s.write.fields, excused')
  BY <1>1 DEF Lost, KeysOf
<1>4. WriteKeys(s.write) /\ (s.write.new => s.write.fields.key = rec[s.id].key)
  BY DEF KeyInv, JobKeys, WriteKeys, Fits, KeyFields
<1>5. s.write.new => Lost(rec[s.id], excused')
  BY <1>3, <1>4 DEF Lost
<1>6. CASE job' = [job EXCEPT ![r].sent = @ \ {s}, ![r].todo = @ \cup {s.write}]
  <2> DEFINE j == [job[r] EXCEPT !.sent = @ \ {s}, !.todo = @ \cup {s.write}]
  <2>1. /\ job' = [job EXCEPT ![r] = j] /\ j.pc = "write"
        /\ j.todo = job[r].todo \cup {s.write} /\ j.sent = job[r].sent \ {s}
    BY <1>2, <1>6 DEF NoticeInv, JobIsSound, JobFields
  <2> HIDE DEF j
  <2>2. \A w \in j.todo : w \in job[r].todo \/ (WriteKeys(w) /\ (w.new => Lost(w.fields, excused')))
    BY <1>3, <1>4, <2>1
  <2>3. /\ j.sent \subseteq job[r].sent /\ j.pc # "merge"
        /\ \A t \in job[r].sent : t \in j.sent \/ (t.write.new => Lost(rec[t.id], excused'))
    BY <1>5, <2>1
  <2>4. QED
    BY <1>2, <2>1, <2>2, <2>3, KeysStay
<1>7. CASE Fail(r, job[r].todo, job[r].sent \ {s})
  <2>1. job[r].op \notin Generators => \A t \in job[r].sent : t = s
    BY DEF FinishInv, WritesAreSound
  <2>2. QED
    BY <1>2, <1>5, <1>7, <2>1, FailKeepsKeys
<1>8. QED
  BY <1>1, <1>6, <1>7

LEMMA ReportsKeepKeys ==
    ASSUME NoticeInv, FinishInv, KeyInv, NEW r \in Jobs, GuardComplete(r) \/ GetReport(r) \/ PutReport(r)
    PROVE  KeyInv'
<1>1. job[r].sent = {} /\ UNCHANGED <<rec, shown, viewVars, excused>>
  BY NothingSent DEF GuardComplete, GetReport, PutReport, storeVars, pastVars
<1>2. \/ Done(r)
      \/ job' = [job EXCEPT ![r].pc = "list", ![r].stage = 2]
      \/ \E got : \E pc \in {"put", "markput"} : job' = [job EXCEPT ![r].got = got, ![r].pc = pc]
  <2>1. CASE GetReport(r)
    <3> DEFINE pc == IF job[r].pc = "get" THEN "put" ELSE "markput"
    <3>1. job' = [job EXCEPT ![r].got = Doc(job[r].arg.order), ![r].pc = pc] /\ pc \in {"put", "markput"}
      BY <2>1 DEF GetReport, NoticeInv, JobIsSound, JobFields
    <3> HIDE DEF pc
    <3>2. QED
      BY <3>1, Zenon
  <2>2. CASE GuardComplete(r) \/ PutReport(r)
    BY <2>2, Zenon DEF GuardComplete, PutReport
  <2>3. QED
    BY <2>1, <2>2
<1>3. CASE job' = [job EXCEPT ![r].pc = "list", ![r].stage = 2]
  <2> DEFINE j == [job[r] EXCEPT !.pc = "list", !.stage = 2]
  <2>1. job' = [job EXCEPT ![r] = j] /\ j.todo = job[r].todo /\ j.sent = job[r].sent /\ j.pc = "list"
    BY <1>3 DEF NoticeInv, JobIsSound, JobFields
  <2> HIDE DEF j
  <2>2. QED
    BY <1>1, <2>1, KeysStay
<1>4. ASSUME NEW got, NEW pc \in {"put", "markput"}, job' = [job EXCEPT ![r].got = got, ![r].pc = pc]
      PROVE  KeyInv'
  <2> DEFINE j == [job[r] EXCEPT !.got = got, !.pc = pc]
  <2>1. job' = [job EXCEPT ![r] = j] /\ j.todo = job[r].todo /\ j.sent = job[r].sent /\ j.pc = pc
    BY <1>4 DEF NoticeInv, JobIsSound, JobFields
  <2> HIDE DEF j
  <2>2. QED
    BY <1>1, <2>1, KeysStay
<1>5. QED
  BY <1>1, <1>2, <1>3, <1>4, KeysAfterDone

LEMMA ChangeKeepsKey ==
    ASSUME NEW obj \in Objects, NEW id, NEW fields, "key" \notin DOMAIN fields,
           obj = "kiem_dinh" => "ref" \notin DOMAIN fields
    PROVE  WriteKeys(Change(obj, id, fields)) /\ ~Change(obj, id, fields).new
  BY DEF WriteKeys, Change

LEMMA SecondWritesKeepKeys ==
    ASSUME NEW k, NEW w \in SecondWrites(k)
    PROVE  WriteKeys(w) /\ ~w.new
<1>1. /\ "thang_may" \in Objects /\ "du_an" \in Objects
      /\ \A x : "key" \notin DOMAIN [ref |-> x] /\ "key" \notin DOMAIN [st |-> x] /\ "key" \notin DOMAIN [next |-> x]
  BY DEF Objects
<1>2. \E id, x : \/ w = Change("thang_may", id, [ref |-> x]) \/ w = Change("du_an", id, [st |-> x])
                 \/ w = Change("thang_may", id, [next |-> x])
  <2>1. CASE k.op = "contract"
    BY <2>1 DEF SecondWrites
  <2>2. CASE k.op = "handover"
    BY <2>2 DEF SecondWrites
  <2>3. CASE k.op = "record"
    BY <2>3 DEF SecondWrites
  <2>4. QED
    BY <2>1, <2>2, <2>3 DEF SecondWrites
<1>3. QED
  BY <1>1, <1>2, ChangeKeepsKey

LEMMA FinishKeepsKeys ==
    ASSUME NoticeInv, FinishInv, KeyInv, NEW r \in Jobs, Finish(r)
    PROVE  KeyInv'
<1>1. /\ job[r].pc = "write" /\ job[r].todo = {} /\ job[r].sent = {}
      /\ UNCHANGED <<rec, shown, viewVars, excused>>
  BY DEF Finish, storeVars
<1>2. \/ job' = [job EXCEPT ![r].stage = 2, ![r].todo = SecondWrites(job[r])]
      \/ job' = [job EXCEPT ![r].stage = 2, ![r].pc = "list"]
      \/ Goto(r, "mark")
      \/ Done(r)
  BY Zenon DEF Finish
<1>3. CASE job' = [job EXCEPT ![r].stage = 2, ![r].todo = SecondWrites(job[r])]
  <2> DEFINE j == [job[r] EXCEPT !.stage = 2, !.todo = SecondWrites(job[r])]
  <2>1. job' = [job EXCEPT ![r] = j] /\ j.todo = SecondWrites(job[r]) /\ j.sent = job[r].sent /\ j.pc = "write"
    BY <1>1, <1>3 DEF NoticeInv, JobIsSound, JobFields
  <2> HIDE DEF j
  <2>2. \A w \in j.todo : WriteKeys(w) /\ ~w.new
    BY <2>1, SecondWritesKeepKeys
  <2>3. QED
    BY <1>1, <2>1, <2>2, KeysStay
<1>4. CASE job' = [job EXCEPT ![r].stage = 2, ![r].pc = "list"]
  <2> DEFINE j == [job[r] EXCEPT !.stage = 2, !.pc = "list"]
  <2>1. job' = [job EXCEPT ![r] = j] /\ j.todo = job[r].todo /\ j.sent = job[r].sent /\ j.pc = "list"
    BY <1>4 DEF NoticeInv, JobIsSound, JobFields
  <2> HIDE DEF j
  <2>2. QED
    BY <1>1, <2>1, KeysStay
<1>5. QED
  BY <1>1, <1>2, <1>3, <1>4, KeysAfterGoto, KeysAfterDone

\* Only the views of the records change.
LEMMA KeysOfViews ==
    ASSUME KeyInv, UNCHANGED <<rec, job, excused>>, ShownKeys', ViewKeys',
           \A q \in Jobs : MergeKeys(job[q])'
    PROVE  KeyInv'
<1>1. RecordKeys' /\ OneRecordPerKey'
  BY SameRecords
<1>2. PlansAreApart'
  BY DEF KeyInv, PlansAreApart, Fresh
<1>3. \A q \in Jobs : JobKeys(job[q])'
  BY DEF KeyInv, JobKeys
<1>4. QED
  BY <1>1, <1>2, <1>3 DEF KeyInv

LEMMA ForgettingKeepsKeys ==
    ASSUME NoticeInv, FinishInv, KeyInv, (\E o \in Objects : CacheGone(o) \/ RecentGone(o)) \/ IndexCatchesUp
    PROVE  KeyInv'
<1>1. UNCHANGED <<rec, job, excused>>
  BY DEF CacheGone, RecentGone, IndexCatchesUp, storeVars, pastVars
<1>2. \A i : Due(i)' <=> Due(i)
  BY <1>1 DEF Due, Awaited
<1>3. DOMAIN cache = Objects /\ DOMAIN recent = Objects
  BY DEF FinishInv, RecordsAreSound
<1>4. ASSUME NEW o \in Objects, CacheGone(o)
      PROVE  KeyInv'
  <2>1. cache' = [cache EXCEPT ![o] = Nothing] /\ UNCHANGED <<shown, recent>>
    BY <1>4 DEF CacheGone, storeVars
  <2>2. \A p \in Objects : cache'[p] = cache[p] \/ cache'[p] = Nothing
    BY <1>3, <2>1
  <2>3. PICK r \in Jobs : job[r].pc # "done"
    BY <1>4 DEF CacheGone, Busy
  <2> DEFINE j == job[r]
  <2>4. job' = [job EXCEPT ![r] = j]
    BY <1>1 DEF NoticeInv
  <2>5. MergeKeys(j) /\ \A w \in j.todo : WriteKeys(w)
    BY DEF KeyInv, JobKeys
  <2>6. QED
    BY <1>1, <2>1, <2>2, <2>4, <2>5, KeysFrame
<1>5. ASSUME NEW o \in Objects, RecentGone(o)
      PROVE  KeyInv'
  <2>1. /\ recent' = [recent EXCEPT ![o] = <<>>] /\ UNCHANGED <<shown, cache>>
        /\ shown = rec /\ \A q \in Jobs : job[q].pc # "merge"
    BY <1>5 DEF RecentGone, storeVars
  <2>2. ShownKeys'
    BY <1>1, <2>1 DEF KeyInv, ShownKeys
  <2>3. ASSUME NEW p \in Objects
        PROVE  /\ AllFit(recent'[p], rec, excused)
               /\ cache[p] # Nothing => AllFit(cache[p], rec, excused)
               /\ \A i \in Ids(p) : Due(i) => i \in DOMAIN shown /\ (cache[p] # Nothing => Full(cache[p], i))
    <3>1. /\ AllFit(recent[p], rec, excused)
          /\ cache[p] # Nothing => AllFit(cache[p], rec, excused)
          /\ \A i \in Ids(p) : Due(i) /\ cache[p] # Nothing => Full(cache[p], i)
      BY DEF KeyInv, ViewKeys
    <3>2. recent'[p] = <<>> \/ recent'[p] = recent[p]
      BY <1>3, <2>1
    <3>3. AllFit(<<>>, rec, excused)
      BY DEF AllFit
    <3>4. QED
      BY <2>1, <3>1, <3>2, <3>3 DEF Ids
  <2>4. ViewKeys'
    BY <1>1, <1>2, <2>1, <2>3 DEF ViewKeys, Ids
  <2>5. \A q \in Jobs : MergeKeys(job[q])'
    BY <1>1, <2>1 DEF MergeKeys
  <2>6. QED
    BY <1>1, <2>2, <2>4, <2>5, KeysOfViews
<1>6. CASE IndexCatchesUp
  <2>1. shown' = rec /\ UNCHANGED <<recent, cache>>
    BY <1>6 DEF IndexCatchesUp, viewVars
  <2>2. \A i \in DOMAIN rec : Fits(rec[i], rec[i], excused) /\ KeyFields \subseteq DOMAIN rec[i]
    BY DEF Fits, KeyInv, RecordKeys
  <2>3. ShownKeys'
    BY <1>1, <2>1, <2>2 DEF ShownKeys
  <2>4. ViewKeys'
    <3> SUFFICES ASSUME NEW p \in Objects
                 PROVE  /\ AllFit(recent[p], rec, excused)
                        /\ cache[p] # Nothing => AllFit(cache[p], rec, excused)
                        /\ \A i \in Ids(p) : Due(i) =>
                              /\ i \in DOMAIN rec
                              /\ cache[p] # Nothing => Full(cache[p], i)
      BY <1>1, <1>2, <2>1 DEF ViewKeys, Ids
    <3>1. QED
      BY DEF KeyInv, ViewKeys, Ids
  <2>5. ASSUME NEW q \in Jobs PROVE MergeKeys(job[q])'
    <3>1. MergeKeys(job[q])
      BY DEF KeyInv, JobKeys
    <3>2. QED
      BY <1>1, <1>2, <2>1, <3>1 DEF MergeKeys, Ids
  <2>6. QED
    BY <1>1, <2>3, <2>4, <2>5, KeysOfViews
<1>7. QED
  BY <1>4, <1>5, <1>6

LEMMA RestartKeepsKeys ==
    ASSUME NoticeInv, FinishInv, KeyInv, Restart
    PROVE  KeyInv'
<1> DEFINE d == [NoJob EXCEPT !.pc = "done"]
<1>1. /\ UNCHANGED <<rec, shown>>
      /\ cache' = [o \in Objects |-> Nothing] /\ recent' = [o \in Objects |-> <<>>]
      /\ excused' = excused \cup {rec[i].key : i \in DOMAIN rec \ DOMAIN shown}
  BY DEF Restart, storeVars
<1>2. /\ d.todo = {} /\ d.sent = {} /\ d.pc = "done"
      /\ job' = [r \in Jobs |-> IF job[r].pc = "idle" THEN job[r] ELSE d]
  BY DEF NoJob, Restart
<1> HIDE DEF d
<1>3. \A q \in Jobs : /\ job'[q] = d \/ job'[q] = job[q]
                      /\ job'[q].pc # "merge" /\ job'[q].sent = {}
  BY <1>2, NothingSent
<1>4. RecordsGrow /\ RecordKeys' /\ OneRecordPerKey'
  BY <1>1, SameRecords
<1>5. ShownKeys'
  <2>1. ASSUME NEW i \in DOMAIN shown
        PROVE  /\ i \in DOMAIN rec /\ shown[i].obj = rec[i].obj
               /\ KeyFields \subseteq DOMAIN shown[i] /\ Fits(shown[i], rec'[i], excused')
    <3>1. /\ i \in DOMAIN rec /\ shown[i].obj = rec[i].obj
          /\ KeyFields \subseteq DOMAIN shown[i] /\ Fits(shown[i], rec[i], excused)
      BY DEF KeyInv, ShownKeys
    <3>2. QED
      BY <1>4, <3>1, FitsStay
  <2>2. QED
    BY <1>1, <2>1 DEF ShownKeys
<1>6. ViewKeys'
  <2>1. ASSUME NEW o \in Objects
        PROVE  AllFit(recent'[o], rec, excused') /\ cache'[o] = Nothing
    BY <1>1 DEF AllFit
  <2>2. \A i \in DOMAIN rec : Due(i)' => i \in DOMAIN shown
    BY <1>1 DEF Due, Lost
  <2>3. QED
    BY <1>1, <2>1, <2>2 DEF ViewKeys, Ids
<1>7. PlansAreApart'
  <2>1. excused \subseteq excused'
    BY <1>1
  <2>2. \A q \in Jobs : \A w \in job'[q].todo : w \in job[q].todo
    BY <1>2, <1>3
  <2>3. QED
    BY <1>1, <2>1, <2>2 DEF KeyInv, PlansAreApart, Fresh, Lost
<1>8. \A q \in Jobs : JobKeys(job[q])'
  <2>1. \A q \in Jobs : \A w \in job'[q].todo : WriteKeys(w)
    BY <1>2, <1>3 DEF KeyInv, JobKeys
  <2>2. QED
    BY <1>3, <2>1 DEF JobKeys, MergeKeys
<1>9. QED
  BY <1>4, <1>5, <1>6, <1>7, <1>8 DEF KeyInv

\* A write that reaches HighLevel: what it leaves of the records.
Posted(r, w, id) ==
    /\ w \in job[r].todo
    /\ job' = [job EXCEPT ![r].todo = @ \ {w}, ![r].sent = @ \cup {[id |-> id, write |-> w]}]
    /\ RecordsGrow /\ DOMAIN rec' = DOMAIN rec \cup {id} /\ Len(rec) <= Len(rec') /\ Len(rec') \in Nat
    /\ id \notin DOMAIN rec => w.new /\ rec'[id] = w.fields /\ id = Len(rec) + 1
    /\ id \in DOMAIN rec => ~w.new
    /\ KeyFields \subseteq DOMAIN rec'[id] /\ rec'[id].obj = w.obj
    /\ Fits(w.fields, rec'[id], excused')

LEMMA PostGrows ==
    ASSUME NoticeInv, FinishInv, KeyInv, NEW r \in Jobs, Post(r)
    PROVE  \E w, id : Posted(r, w, id)
<1>1. \E w \in job[r].todo : \E id :
         /\ id = IF w.new THEN Len(rec) + 1 ELSE w.id
         /\ ~w.new => w.id \in Ids(w.obj)
         /\ rec' = IF w.new THEN Append(rec, w.fields) ELSE [rec EXCEPT ![id] = Over(w.fields, @)]
         /\ job' = [job EXCEPT ![r].todo = @ \ {w}, ![r].sent = @ \cup {[id |-> id, write |-> w]}]
         /\ excused' = IF ~w.new /\ rec[id].obj = "kiem_dinh" /\ rec'[id].st = "len_lich"
                       THEN excused \cup {rec[id].key} ELSE excused
  BY Zenon DEF Post
<1>2. PICK w \in job[r].todo : \E id :
         /\ id = IF w.new THEN Len(rec) + 1 ELSE w.id
         /\ ~w.new => w.id \in Ids(w.obj)
         /\ rec' = IF w.new THEN Append(rec, w.fields) ELSE [rec EXCEPT ![id] = Over(w.fields, @)]
         /\ job' = [job EXCEPT ![r].todo = @ \ {w}, ![r].sent = @ \cup {[id |-> id, write |-> w]}]
         /\ excused' = IF ~w.new /\ rec[id].obj = "kiem_dinh" /\ rec'[id].st = "len_lich"
                       THEN excused \cup {rec[id].key} ELSE excused
  BY <1>1, Zenon
<1>3. PICK id :
         /\ id = IF w.new THEN Len(rec) + 1 ELSE w.id
         /\ ~w.new => w.id \in Ids(w.obj)
         /\ rec' = IF w.new THEN Append(rec, w.fields) ELSE [rec EXCEPT ![id] = Over(w.fields, @)]
         /\ job' = [job EXCEPT ![r].todo = @ \ {w}, ![r].sent = @ \cup {[id |-> id, write |-> w]}]
         /\ excused' = IF ~w.new /\ rec[id].obj = "kiem_dinh" /\ rec'[id].st = "len_lich"
                       THEN excused \cup {rec[id].key} ELSE excused
  BY <1>2, Zenon
<1>4. /\ WriteIsSound(job[r], w) /\ WriteKeys(w)
      /\ rec \in Seq({rec[i] : i \in DOMAIN rec}) /\ \A i \in DOMAIN rec : {"obj", "st"} \subseteq DOMAIN rec[i]
      /\ \A i \in DOMAIN rec : KeyFields \subseteq DOMAIN rec[i]
      /\ Len(rec) \in Nat /\ DOMAIN rec = 1..Len(rec)
  BY LengthOfRecords DEF FinishInv, WritesAreSound, RecordsAreSound, KeyInv, RecordKeys, JobKeys
<1>5. CASE w.new
  <2>1. rec' = Append(rec, w.fields) /\ id = Len(rec) + 1 /\ excused' = excused
    BY <1>3, <1>5
  <2>2. /\ id \notin DOMAIN rec
        /\ DOMAIN rec' = DOMAIN rec \cup {id} /\ rec'[id] = w.fields
        /\ \A k \in DOMAIN rec : rec'[k] = rec[k]
    BY <1>4, <2>1, AppendedRecord
  <2>3. Len(rec') = Len(rec) + 1
    BY <1>4, <2>1
  <2>4. KeyFields \subseteq DOMAIN w.fields /\ w.fields.obj = w.obj
    BY <1>4, <1>5 DEF WriteIsSound, WriteKeys
  <2>5. Fits(w.fields, w.fields, excused')
    BY DEF Fits
  <2>6. RecordsGrow
    BY <1>4, <2>1, <2>2 DEF RecordsGrow
  <2>7. Posted(r, w, id)
    BY <1>3, <1>4, <1>5, <2>1, <2>2, <2>3, <2>4, <2>5, <2>6 DEF Posted
  <2>8. QED
    BY <2>7
<1>6. CASE ~w.new
  <2>1. /\ rec' = [rec EXCEPT ![id] = Over(w.fields, rec[id])] /\ id = w.id
        /\ id \in DOMAIN rec /\ rec[id].obj = w.obj
    BY <1>3, <1>6 DEF Ids
  <2>2. /\ DOMAIN rec' = DOMAIN rec /\ rec'[id] = Over(w.fields, rec[id])
        /\ \A k \in DOMAIN rec : k # id => rec'[k] = rec[k]
    BY <2>1
  <2>3. Len(rec') = Len(rec)
    BY <1>4, <2>1
  <2>4. /\ "obj" \notin DOMAIN w.fields /\ "key" \notin DOMAIN w.fields
        /\ w.obj = "kiem_dinh" => "ref" \notin DOMAIN w.fields
    BY <1>4, <1>6 DEF WriteIsSound, WriteKeys
  <2>5. /\ KeyFields \subseteq DOMAIN rec'[id] /\ rec'[id].obj = rec[id].obj /\ rec'[id].key = rec[id].key
        /\ w.obj = "kiem_dinh" => rec'[id].ref = rec[id].ref
        /\ "st" \in DOMAIN w.fields => rec'[id].st = w.fields.st
    BY <1>4, <2>1, <2>2, <2>4 DEF Over, KeyFields
  <2>6. excused \subseteq excused' /\ (w.obj = "kiem_dinh" /\ rec'[id].st = "len_lich" => rec[id].key \in excused')
    BY <1>3, <1>6, <2>1
  <2>7. RecordsGrow
    BY <1>4, <2>1, <2>2, <2>5, <2>6 DEF RecordsGrow
  <2>8. Fits(w.fields, rec'[id], excused')
    BY <2>1, <2>4, <2>5, <2>6 DEF Fits
  <2>9. Posted(r, w, id)
    BY <1>3, <1>4, <1>6, <2>1, <2>2, <2>3, <2>5, <2>7, <2>8 DEF Posted
  <2>10. QED
    BY <2>9
<1>7. QED
  BY <1>5, <1>6

LEMMA PostKeepsKeys ==
    ASSUME NoticeInv, FinishInv, KeyInv, NEW r \in Jobs, Post(r)
    PROVE  KeyInv'
<1>1. PICK w, id : Posted(r, w, id)
  BY PostGrows
<1>2. /\ w \in job[r].todo
      /\ job' = [job EXCEPT ![r].todo = @ \ {w}, ![r].sent = @ \cup {[id |-> id, write |-> w]}]
      /\ RecordsGrow /\ DOMAIN rec' = DOMAIN rec \cup {id} /\ Len(rec) <= Len(rec') /\ Len(rec') \in Nat
      /\ id \notin DOMAIN rec => w.new /\ rec'[id] = w.fields /\ id = Len(rec) + 1
      /\ id \in DOMAIN rec => ~w.new
      /\ KeyFields \subseteq DOMAIN rec'[id] /\ rec'[id].obj = w.obj
      /\ Fits(w.fields, rec'[id], excused')
  BY <1>1 DEF Posted
<1>3. UNCHANGED <<shown, recent, cache>> /\ job[r].pc = "write"
  BY DEF Post, viewVars
<1> DEFINE m == [id |-> id, write |-> w]
           j == [job[r] EXCEPT !.todo = @ \ {w}, !.sent = @ \cup {m}]
<1>4. m.id = id /\ m.write = w
  OBVIOUS
<1>5. /\ job' = [job EXCEPT ![r] = j] /\ j.pc = "write"
      /\ j.todo = job[r].todo \ {w} /\ j.sent = job[r].sent \cup {m}
  BY <1>2, <1>3 DEF NoticeInv, JobIsSound, JobFields
<1> HIDE DEF j, m
<1>6. job'[r] = j /\ \A q \in Jobs : q # r => job'[q] = job[q]
  BY <1>5 DEF NoticeInv
<1>7. WriteKeys(w) /\ Len(rec) \in Nat /\ DOMAIN rec = 1..Len(rec)
  BY <1>2, LengthOfRecords DEF KeyInv, JobKeys
<1>8. /\ \A i : Awaited(i) => Awaited(i)'
      /\ id \notin DOMAIN rec => Awaited(id)'
  BY <1>2, <1>4, <1>5, <1>6 DEF Awaited
<1>9. \A i : Due(i)' => Due(i)
  <2> SUFFICES ASSUME NEW i, Due(i)' PROVE Due(i)
    OBVIOUS
  <2>1. i \in DOMAIN rec
    BY <1>2, <1>8 DEF Due
  <2>2. AwaitedStay
    BY <1>8 DEF AwaitedStay
  <2>3. QED
    BY <1>2, <2>1, <2>2, DueBefore
<1>10. RecordKeys'
  <2>1. ASSUME NEW i \in DOMAIN rec'
        PROVE  /\ KeyFields \subseteq DOMAIN rec'[i]
               /\ rec'[i].key # Nothing => rec'[i].key[1] = rec'[i].obj
               /\ rec'[i].obj = "kiem_dinh" => rec'[i].key = <<"kiem_dinh", rec'[i].ref>>
    <3>1. CASE i \in DOMAIN rec
      BY <1>2, <3>1 DEF KeyInv, RecordKeys, RecordsGrow
    <3>2. CASE i \notin DOMAIN rec
      <4>1. i = id /\ w.new /\ rec'[i] = w.fields /\ rec'[i].obj = w.obj
        BY <1>2, <3>2
      <4>2. QED
        BY <1>7, <4>1 DEF WriteKeys
    <3>3. QED
      BY <3>1, <3>2
  <2>2. QED
    BY <2>1 DEF RecordKeys
<1>11. ASSUME NEW k, k # Nothing, k \notin excused', Fresh(k), NEW i \in DOMAIN rec, rec'[i].key = k
       PROVE  rec'[i].obj = "kiem_dinh" /\ rec'[i].st # "len_lich"
  <2>1. rec[i].obj = "kiem_dinh" /\ rec[i].st # "len_lich"
    BY <1>2, <1>11 DEF Fresh, RecordsGrow
  <2>2. QED
    BY <1>2, <1>11, <2>1 DEF RecordsGrow
<1>12. OneRecordPerKey'
  <2> SUFFICES ASSUME NEW i \in DOMAIN rec', NEW k \in DOMAIN rec', i # k, rec'[i].key = rec'[k].key,
                      rec'[i].key # Nothing, rec'[i].key \notin excused',
                      rec'[i].obj = "kiem_dinh" => {rec'[i].st, rec'[k].st} = {"len_lich"}
               PROVE  FALSE
    BY DEF OneRecordPerKey
  <2>1. rec'[i].obj = rec'[k].obj
    BY <1>10 DEF RecordKeys
  <2>2. rec'[i].obj = "kiem_dinh" => rec'[i].st = "len_lich" /\ rec'[k].st = "len_lich"
    OBVIOUS
  <2>3. CASE i \in DOMAIN rec /\ k \in DOMAIN rec
    <3>1. /\ rec[i].key = rec[k].key /\ rec[i].key # Nothing /\ rec[i].key \notin excused
          /\ rec[i].obj = "kiem_dinh" => rec[i].st = "len_lich" /\ rec[k].st = "len_lich"
      BY <1>2, <2>1, <2>2, <2>3 DEF RecordsGrow
    <3>2. rec[i].obj = "kiem_dinh" => {rec[i].st, rec[k].st} = {"len_lich"}
      BY <3>1
    <3>3. QED
      BY <2>3, <3>1, <3>2 DEF KeyInv, OneRecordPerKey
  <2>4. ASSUME NEW x \in DOMAIN rec, NEW y \in DOMAIN rec', y \notin DOMAIN rec, rec'[x].key = rec'[y].key,
               rec'[x].key # Nothing, rec'[x].key \notin excused',
               rec'[x].obj = "kiem_dinh" => rec'[x].st = "len_lich"
        PROVE  FALSE
    <3>1. y = id /\ w.new /\ rec'[y] = w.fields
      BY <1>2, <2>4
    <3>2. ~Lost(w.fields, excused)
      BY <1>2, <2>4, <3>1 DEF Lost, RecordsGrow
    <3>3. Fresh(w.fields.key)
      BY <1>2, <3>1, <3>2 DEF KeyInv, PlansAreApart
    <3>4. rec'[x].obj = "kiem_dinh" /\ rec'[x].st # "len_lich"
      BY <1>11, <2>4, <3>1, <3>3
    <3>5. QED
      BY <2>4, <3>4
  <2>5. i \in DOMAIN rec \/ k \in DOMAIN rec
    BY <1>2
  <2>6. QED
    BY <2>1, <2>2, <2>3, <2>4, <2>5
<1>13. ShownKeys'
  <2>1. ASSUME NEW i \in DOMAIN shown
        PROVE  /\ i \in DOMAIN rec' /\ shown[i].obj = rec'[i].obj
               /\ KeyFields \subseteq DOMAIN shown[i] /\ Fits(shown[i], rec'[i], excused')
    <3>1. /\ i \in DOMAIN rec /\ shown[i].obj = rec[i].obj
          /\ KeyFields \subseteq DOMAIN shown[i] /\ Fits(shown[i], rec[i], excused)
      BY DEF KeyInv, ShownKeys
    <3>2. Fits(shown[i], rec'[i], excused')
      BY <1>2, <3>1, FitsStay
    <3>3. QED
      BY <1>2, <3>1, <3>2 DEF RecordsGrow
  <2>2. QED
    BY <1>3, <2>1 DEF ShownKeys
<1>14. ViewKeys'
  <2>1. ASSUME NEW o \in Objects
        PROVE  /\ AllFit(recent[o], rec', excused')
               /\ cache[o] # Nothing => AllFit(cache[o], rec', excused')
               /\ \A i \in DOMAIN rec' : rec'[i].obj = o /\ Due(i)' =>
                     /\ i \in DOMAIN shown \/ Full(recent[o], i)
                     /\ cache[o] # Nothing => Full(cache[o], i)
    <3>1. /\ AllFit(recent[o], rec, excused)
          /\ cache[o] # Nothing => AllFit(cache[o], rec, excused)
          /\ \A i \in Ids(o) : Due(i) =>
                /\ i \in DOMAIN shown \/ Full(recent[o], i)
                /\ cache[o] # Nothing => Full(cache[o], i)
      BY DEF KeyInv, ViewKeys
    <3>2. \A view : AllFit(view, rec, excused) => AllFit(view, rec', excused')
      BY <1>2, AllFitStays
    <3>3. ASSUME NEW i \in DOMAIN rec', rec'[i].obj = o, Due(i)' PROVE i \in Ids(o) /\ Due(i)
      BY <1>2, <1>9, <3>3 DEF Due, Ids, RecordsGrow
    <3>4. QED
      BY <3>1, <3>2, <3>3
  <2>2. QED
    BY <1>3, <2>1 DEF ViewKeys, Ids
<1>15. PlansAreApart'
  <2> SUFFICES ASSUME NEW p \in Jobs, NEW x \in job'[p].todo, x.new, ~Lost(x.fields, excused')
               PROVE  /\ \A i \in DOMAIN rec' : rec'[i].key = x.fields.key =>
                            rec'[i].obj = "kiem_dinh" /\ rec'[i].st # "len_lich"
                      /\ \A q \in Jobs : \A y \in job'[q].todo : Makes(y, x.fields.key) => q = p /\ y = x
    BY DEF PlansAreApart, Fresh
  <2>1. \A q \in Jobs : \A y \in job'[q].todo : y \in job[q].todo /\ (q = r => y # w)
    BY <1>5, <1>6
  <2>2. ~Lost(x.fields, excused) /\ x.fields.key # Nothing /\ x.fields.key \notin excused'
    BY <1>2 DEF Lost, RecordsGrow
  <2>3. /\ Fresh(x.fields.key)
        /\ \A q \in Jobs : \A y \in job[q].todo : Makes(y, x.fields.key) => q = p /\ y = x
    BY <2>1, <2>2 DEF KeyInv, PlansAreApart
  <2>4. ASSUME NEW i \in DOMAIN rec', rec'[i].key = x.fields.key
        PROVE  rec'[i].obj = "kiem_dinh" /\ rec'[i].st # "len_lich"
    <3>1. CASE i \in DOMAIN rec
      BY <1>11, <2>2, <2>3, <2>4, <3>1
    <3>2. CASE i \notin DOMAIN rec
      <4>1. Makes(w, x.fields.key)
        BY <1>2, <2>4, <3>2 DEF Makes
      <4>2. r = p /\ w = x
        BY <1>2, <2>3, <4>1
      <4>3. QED
        BY <2>1, <4>2
    <3>3. QED
      BY <3>1, <3>2
  <2>5. QED
    BY <2>1, <2>3, <2>4
<1>16. ASSUME NEW q \in Jobs PROVE JobKeys(job[q])'
  <2>1. \A x \in job'[q].todo : WriteKeys(x)
    BY <1>5, <1>6 DEF KeyInv, JobKeys
  <2>2. ASSUME NEW s \in job'[q].sent PROVE WriteKeys(s.write) /\ Fits(s.write.fields, rec'[s.id], excused')
    <3>1. CASE s \in job[q].sent
      <4>1. WriteKeys(s.write) /\ Fits(s.write.fields, rec[s.id], excused) /\ s.id \in DOMAIN rec
        BY <3>1 DEF KeyInv, JobKeys, FinishInv, WritesAreSound, SentIsSound
      <4>2. QED
        BY <1>2, <4>1, FitsStay
    <3>2. CASE s \notin job[q].sent
      <4>1. s.id = id /\ s.write = w
        BY <1>4, <1>5, <1>6, <2>2, <3>2
      <4>2. QED
        BY <1>2, <1>7, <4>1
    <3>3. QED
      BY <3>1, <3>2
  <2>3. PICK k : k = job'[q]
    OBVIOUS
  <2>4. MergeKeys(k)'
    <3>1. MergeKeys(k)
      <4>1. MergeKeys(job[q])
        BY DEF KeyInv, JobKeys
      <4>2. CASE q = r
        BY <1>5, <1>6, <2>3, <4>2 DEF MergeKeys
      <4>3. CASE q # r
        BY <1>6, <2>3, <4>1, <4>3
      <4>4. QED
        BY <4>2, <4>3
    <3>2. \A i \in DOMAIN rec' : i \in DOMAIN rec \/ (i \in Nat /\ i > Len(rec) /\ ~Due(i)')
      BY <1>2, <1>7, <1>9 DEF Due
    <3>3. /\ \A o \in Objects : \A i \in Ids(o) : Due(i)' => Due(i) \/ Full(recent'[o], i)
          /\ \A o \in Objects : \A i : Full(recent[o], i) => Full(recent'[o], i)
      BY <1>3, <1>9
    <3>4. QED
      BY <1>2, <1>7, <3>1, <3>2, <3>3, MergesStay
  <2>5. MergeKeys(job[q])'
    BY <2>3, <2>4 DEF MergeKeys
  <2>6. QED
    BY <2>1, <2>2, <2>5 DEF JobKeys
<1>17. QED
  BY <1>10, <1>12, <1>13, <1>14, <1>15, <1>16 DEF KeyInv

\* An entry is overwritten in a view.
LEMMA PutFits ==
    ASSUME NEW view, NEW id, NEW f, AllFit(view, rec, excused), id \in DOMAIN rec, Fits(f, rec[id], excused)
    PROVE  LET t == Put(view, id, Over(f, At(view, id))) IN
           /\ AllFit(t, rec, excused)
           /\ \A i : Full(view, i) => Full(t, i)
           /\ KeyFields \subseteq DOMAIN f => Full(t, id)
<1> DEFINE x == Over(f, At(view, id))
           t == Put(view, id, x)
<1>1. Fits(At(view, id), rec[id], excused)
  BY NothingFits DEF At, AllFit
<1>2. Fits(x, rec[id], excused)
  BY <1>1, FitsOver
<1>3. \A y : y \in DOMAIN f \/ y \in DOMAIN At(view, id) => y \in DOMAIN x
  BY OverFields
<1> HIDE DEF x
<1>4. /\ \A i : i \in DOMAIN t <=> i \in DOMAIN view \/ i = id
      /\ t[id] = x
      /\ \A i \in DOMAIN view : i # id => t[i] = view[i]
  BY PutEntry
<1> HIDE DEF t
<1>5. AllFit(t, rec, excused)
  <2>1. ASSUME NEW i \in DOMAIN t PROVE i \in DOMAIN rec /\ Fits(t[i], rec[i], excused)
    <3>1. CASE i = id
      BY <1>2, <1>4, <3>1
    <3>2. CASE i # id
      BY <1>4, <2>1, <3>2 DEF AllFit
    <3>3. QED
      BY <3>1, <3>2
  <2>2. QED
    BY <2>1 DEF AllFit
<1>6. ASSUME NEW i, Full(view, i) PROVE Full(t, i)
  <2>1. CASE i = id
    <3>1. KeyFields \subseteq DOMAIN At(view, id)
      BY <1>6, <2>1 DEF Full, At
    <3>2. QED
      BY <1>3, <1>4, <2>1, <3>1 DEF Full
  <2>2. CASE i # id
    BY <1>4, <1>6, <2>2 DEF Full
  <2>3. QED
    BY <2>1, <2>2
<1>7. KeyFields \subseteq DOMAIN f => Full(t, id)
  BY <1>3, <1>4 DEF Full
<1>8. QED
  BY <1>5, <1>6, <1>7 DEF t, x

LEMMA AnsweredKeepsKeys ==
    ASSUME NoticeInv, FinishInv, KeyInv, NEW r \in Jobs, Answered(r)
    PROVE  KeyInv'
<1>1. PICK s \in job[r].sent :
         /\ Note(s.write.obj, s.id, s.write.fields)
         /\ PatchCache(s.write.obj, s.id, s.write.fields)
         /\ job' = [job EXCEPT ![r].sent = @ \ {s}, ![r].got = IF s.write.new THEN s.id ELSE @]
  BY Zenon DEF Answered
<1> DEFINE w == s.write
           got == IF w.new THEN s.id ELSE job[r].got
           j == [job[r] EXCEPT !.sent = @ \ {s}, !.got = got]
<1>2. UNCHANGED <<rec, shown, excused>> /\ job[r].pc = "write"
  BY <1>1 DEF Answered, storeVars, pastVars, NoticeInv, JobIsSound
<1>3. /\ job' = [job EXCEPT ![r] = j] /\ j.pc = "write"
      /\ j.todo = job[r].todo /\ j.sent = job[r].sent \ {s}
  BY <1>1, <1>2 DEF NoticeInv, JobIsSound, JobFields
<1> HIDE DEF j, got
<1>4. job'[r] = j /\ \A q \in Jobs : q # r => job'[q] = job[q]
  BY <1>3 DEF NoticeInv
<1>5. /\ WriteIsSound(job[r], w) /\ SentIsSound(s)
      /\ WriteKeys(w) /\ Fits(w.fields, rec[s.id], excused)
      /\ DOMAIN cache = Objects /\ DOMAIN recent = Objects
  BY DEF FinishInv, WritesAreSound, RecordsAreSound, KeyInv, JobKeys
<1>6. s.id \in DOMAIN rec /\ rec[s.id].obj = w.obj /\ w.obj \in Objects
  BY <1>5 DEF SentIsSound, WriteKeys
<1>7. w.new => KeyFields \subseteq DOMAIN w.fields /\ "obj" \in DOMAIN w.fields
  BY <1>5 DEF WriteIsSound, WriteKeys
<1> DEFINE o == w.obj
           R == recent[o]
           C == cache[o]
           R2 == Put(R, s.id, Over(w.fields, At(R, s.id)))
           C2 == Put(C, s.id, Over(w.fields, At(C, s.id)))
<1>8. /\ \A p \in Objects : p # o => recent'[p] = recent[p] /\ cache'[p] = cache[p]
      /\ recent'[o] = R2
      /\ \/ cache'[o] = C /\ (C = Nothing \/ (s.id \notin DOMAIN C /\ "obj" \notin DOMAIN w.fields))
         \/ cache'[o] = C2 /\ C # Nothing
  BY <1>1, <1>5, <1>6 DEF Note, PatchCache
<1>9. /\ AllFit(R, rec, excused)
      /\ C # Nothing => AllFit(C, rec, excused)
      /\ \A i \in Ids(o) : Due(i) =>
            /\ i \in DOMAIN shown \/ Full(R, i)
            /\ C # Nothing => Full(C, i)
  BY <1>6 DEF KeyInv, ViewKeys
<1>10. /\ AllFit(R2, rec, excused)
       /\ \A i : Full(R, i) => Full(R2, i)
       /\ KeyFields \subseteq DOMAIN w.fields => Full(R2, s.id)
  BY <1>5, <1>6, <1>9, PutFits
<1>11. C # Nothing => /\ AllFit(C2, rec, excused)
                      /\ \A i : Full(C, i) => Full(C2, i)
                      /\ KeyFields \subseteq DOMAIN w.fields => Full(C2, s.id)
  BY <1>5, <1>6, <1>9, PutFits
<1>12. \A i : Due(i)' => Due(i) \/ (i = s.id /\ w.new)
  <2> SUFFICES ASSUME NEW i, i \in DOMAIN rec, ~Lost(rec[i], excused), ~Awaited(i)', Awaited(i)
               PROVE  i = s.id /\ w.new
    BY <1>2 DEF Due
  <2>1. PICK q \in Jobs : \E x \in job[q].sent : x.write.new /\ x.id = i
    BY DEF Awaited
  <2>2. PICK x \in job[q].sent : x.write.new /\ x.id = i
    BY <2>1
  <2>3. x \notin job'[q].sent
    BY <2>2 DEF Awaited
  <2>4. q = r /\ x = s
    BY <1>3, <1>4, <2>3
  <2>5. QED
    BY <2>2, <2>4
<1> HIDE DEF R2, C2, R, C, o, w
<1>13. ViewKeys'
  <2>1. ASSUME NEW p \in Objects
        PROVE  /\ AllFit(recent'[p], rec, excused)
               /\ cache'[p] # Nothing => AllFit(cache'[p], rec, excused)
               /\ \A i \in Ids(p) : Due(i)' =>
                     /\ i \in DOMAIN shown \/ Full(recent'[p], i)
                     /\ cache'[p] # Nothing => Full(cache'[p], i)
    <3>1. CASE p = o
      <4>1. AllFit(recent'[p], rec, excused) /\ (cache'[p] # Nothing => AllFit(cache'[p], rec, excused))
        BY <1>8, <1>9, <1>10, <1>11, <3>1
      <4>2. ASSUME NEW i \in Ids(p), Due(i)'
            PROVE  i \in DOMAIN shown \/ Full(recent'[p], i)
        BY <1>7, <1>8, <1>9, <1>10, <1>12, <3>1, <4>2
      <4>3. ASSUME NEW i \in Ids(p), Due(i)', cache'[p] # Nothing
            PROVE  Full(cache'[p], i)
        <5>1. CASE Due(i)
          BY <1>8, <1>9, <1>11, <3>1, <4>3, <5>1
        <5>2. CASE ~Due(i)
          <6>1. i = s.id /\ w.new
            BY <1>12, <4>3, <5>2
          <6>2. QED
            BY <1>7, <1>8, <1>11, <3>1, <4>3, <6>1
        <5>3. QED
          BY <5>1, <5>2
      <4>4. QED
        BY <4>1, <4>2, <4>3
    <3>2. CASE p # o
      <4>1. /\ AllFit(recent[p], rec, excused)
            /\ cache[p] # Nothing => AllFit(cache[p], rec, excused)
            /\ \A i \in Ids(p) : Due(i) =>
                  /\ i \in DOMAIN shown \/ Full(recent[p], i)
                  /\ cache[p] # Nothing => Full(cache[p], i)
        BY DEF KeyInv, ViewKeys
      <4>2. \A i \in Ids(p) : Due(i)' => Due(i)
        BY <1>6, <1>12, <3>2 DEF Ids, o
      <4>3. QED
        BY <1>8, <3>2, <4>1, <4>2
    <3>3. QED
      BY <3>1, <3>2
  <2>2. QED
    BY <1>2, <2>1 DEF ViewKeys, Ids
<1>14. RecordsGrow /\ RecordKeys' /\ OneRecordPerKey'
  BY <1>2, SameRecords
<1>15. ShownKeys'
  BY <1>2 DEF KeyInv, ShownKeys
<1>16. \A q \in Jobs : job'[q].todo = job[q].todo /\ job'[q].sent \subseteq job[q].sent
  BY <1>3, <1>4
<1>17. PlansAreApart'
  BY <1>2, <1>16 DEF KeyInv, PlansAreApart, Fresh
<1>18. ASSUME NEW q \in Jobs PROVE JobKeys(job[q])'
  <2>1. /\ \A x \in job'[q].todo : WriteKeys(x)
        /\ \A x \in job'[q].sent : WriteKeys(x.write) /\ Fits(x.write.fields, rec[x.id], excused)
    BY <1>16 DEF KeyInv, JobKeys
  <2>2. PICK k : k = job'[q]
    OBVIOUS
  <2>3. MergeKeys(k)'
    <3>1. MergeKeys(k)
      <4>1. CASE q = r
        BY <1>3, <1>4, <2>2, <4>1 DEF MergeKeys
      <4>2. CASE q # r
        BY <1>4, <2>2, <4>2 DEF KeyInv, JobKeys
      <4>3. QED
        BY <4>1, <4>2
    <3>2. Len(rec) \in Nat /\ Len(rec') \in Nat /\ Len(rec) <= Len(rec')
      BY <1>2, LengthOfRecords
    <3>3. \A i \in DOMAIN rec' : i \in DOMAIN rec \/ (i \in Nat /\ i > Len(rec) /\ ~Due(i)')
      BY <1>2
    <3>4. ASSUME NEW p \in Objects, NEW i \in Ids(p), Due(i)' PROVE Due(i) \/ Full(recent'[p], i)
      <4>1. CASE Due(i)
        BY <4>1
      <4>2. CASE ~Due(i)
        <5>1. i = s.id /\ w.new /\ p = o
          BY <1>6, <1>12, <3>4, <4>2 DEF Ids, o
        <5>2. QED
          BY <1>7, <1>8, <1>10, <5>1
      <4>3. QED
        BY <4>1, <4>2
    <3>5. \A p \in Objects : \A i : Full(recent[p], i) => Full(recent'[p], i)
      <4>1. \A i : Full(recent[o], i) => Full(recent'[o], i)
        BY <1>8, <1>10 DEF R
      <4>2. QED
        BY <1>8, <4>1
    <3>6. QED
      BY <1>14, <3>1, <3>2, <3>3, <3>4, <3>5, MergesStay
  <2>4. MergeKeys(job[q])'
    BY <2>2, <2>3 DEF MergeKeys
  <2>5. QED
    BY <1>2, <2>1, <2>4 DEF JobKeys
<1>19. QED
  BY <1>13, <1>14, <1>15, <1>17, <1>18 DEF KeyInv
LEMMA LeastOf ==
    ASSUME NEW S, S \subseteq Nat, S # {}
    PROVE  Min(S) \in S /\ \A x \in S : Min(S) <= x
<1> DEFINE T == {0..x : x \in S}
<1>1. T \subseteq FiniteSubsetsOf(Nat)
  <2>1. \A x \in S : IsFiniteSet(0..x) /\ 0..x \in SUBSET Nat
    BY FS_Interval
  <2>2. QED
    BY <2>1 DEF FiniteSubsetsOf
<1>2. \E m \in T : \A t \in T : ~(<<t, m>> \in StrictSubsetOrdering(Nat))
  <2>1. T # {}
    OBVIOUS
  <2> HIDE DEF T
  <2>2. IsWellFoundedOn(StrictSubsetOrdering(Nat), FiniteSubsetsOf(Nat))
    BY FS_StrictSubsetOrderingWellFounded
  <2>3. QED
    BY <1>1, <2>1, <2>2, WFMin
<1>3. PICK x \in S : \A t \in T : ~(<<t, 0..x>> \in StrictSubsetOrdering(Nat))
  BY <1>2
<1>4. ASSUME NEW y \in S PROVE x <= y
  <2>1. ~(<<0..y, 0..x>> \in StrictSubsetOrdering(Nat))
    BY <1>3
  <2>2. 0..y \in SUBSET Nat /\ 0..x \in SUBSET Nat
    OBVIOUS
  <2>3. ~(0..y \subseteq 0..x /\ 0..y # 0..x)
    BY <2>1, <2>2 DEF StrictSubsetOrdering
  <2>4. y < x => 0..y \subseteq 0..x /\ 0..y # 0..x
    OBVIOUS
  <2>5. QED
    BY <2>3, <2>4
<1>5. QED
  BY <1>4 DEF Min

\* A listing that starts now misses no record up to Settled but those that are excused.
LEMMA SettledBelow ==
    ASSUME FinishInv
    PROVE  /\ Settled \in Nat /\ Settled <= Len(rec)
           /\ \A i : Awaited(i) => ~(i <= Settled)
<1> DEFINE waiting == {s.id : s \in {x \in UNION {job[r].sent : r \in Jobs} : x.write.new}}
<1>1. Len(rec) \in Nat /\ DOMAIN rec = 1..Len(rec)
  BY LengthOfRecords
<1>2. \A i \in waiting : i \in DOMAIN rec
  BY DEF FinishInv, WritesAreSound, SentIsSound
<1>3. \A i : Awaited(i) <=> i \in waiting
  BY DEF Awaited
<1>4. Settled = IF waiting = {} THEN Len(rec) ELSE Min(waiting) - 1
  BY DEF Settled
<1> HIDE DEF waiting
<1>5. CASE waiting = {}
  BY <1>1, <1>3, <1>4, <1>5
<1>6. CASE waiting # {}
  <2>1. waiting \subseteq Nat
    BY <1>1, <1>2
  <2>2. Min(waiting) \in waiting /\ \A i \in waiting : Min(waiting) <= i
    BY <1>6, <2>1, LeastOf
  <2>3. Min(waiting) \in 1..Len(rec)
    BY <1>1, <1>2, <2>2
  <2>4. \A i \in waiting : i \in Nat
    BY <2>1
  <2>5. QED
    BY <1>1, <1>3, <1>4, <1>6, <2>2, <2>3, <2>4
<1>7. QED
  BY <1>5, <1>6

\* What a check reads: every record up to since, but those that are excused or awaited.
Seen(r, v, since) ==
    /\ since \in Nat
    /\ \A o \in Needs(job[r]) :
          /\ AllFit(v[o], rec, excused)
          /\ \A i \in Ids(o) : Due(i) /\ i <= since => Full(v[o], i)

CachesStayFull ==
    \A o \in Objects : cache'[o] = cache[o] \/ cache'[o] = Nothing \/ Complete(cache'[o], o)

\* No record of the key a write would create is in the lists the check reads.
Unseen(r, v, w) ==
    /\ w.obj \in Needs(job[r])
    /\ w.obj # "kiem_dinh" => w.fields.key \notin Keys(v, w.obj)
    /\ w.obj = "kiem_dinh" => \A i \in DOMAIN v["kiem_dinh"] :
          ~(v["kiem_dinh"][i].ref = w.fields.ref /\ v["kiem_dinh"][i].st = "len_lich")

\* What the check did not see is not there, unless somebody was writing it.
LEMMA UnseenIsFresh ==
    ASSUME FinishInv, KeyInv, NEW r \in Jobs, job[r].sent = {}, NEW v, NEW since, Seen(r, v, since),
           NEW w, WriteKeys(w), w.new, ~Lost(w.fields, excused), Unseen(r, v, w),
           \A i \in DOMAIN rec : i > since => rec[i].key # w.fields.key,
           \A q \in Jobs : q # r => w.fields.key \notin KeysOf(Writes(q))
    PROVE  /\ Fresh(w.fields.key)
           /\ \A q \in Jobs : q # r => \A x \in job[q].todo : ~Makes(x, w.fields.key)
<1> DEFINE k == w.fields.key
           o == w.obj
<1>1. k # Nothing /\ k \notin excused
  BY DEF Lost
<1>2. \A q \in Jobs : q # r => \A x \in Writes(q) : ~Makes(x, k)
  BY <1>1 DEF KeysOf, Makes
<1>3. \A q \in Jobs : q # r => \A x \in job[q].todo : ~Makes(x, k)
  BY <1>2 DEF Writes
<1>4. ASSUME NEW i \in DOMAIN rec, rec[i].key = k
      PROVE  rec[i].obj = "kiem_dinh" /\ rec[i].st # "len_lich"
  <2>1. rec[i].obj = o /\ o \in Objects
    BY <1>1, <1>4 DEF WriteKeys, KeyInv, RecordKeys
  <2>2. ~Awaited(i)
    <3> SUFFICES ASSUME NEW q \in Jobs, NEW s \in job[q].sent, s.write.new, s.id = i PROVE FALSE
      BY DEF Awaited
    <3>1. WriteKeys(s.write) /\ Fits(s.write.fields, rec[i], excused)
      BY DEF KeyInv, JobKeys
    <3>2. Makes(s.write, k)
      BY <1>4, <3>1 DEF WriteKeys, Fits, KeyFields, Makes
    <3>3. s.write \in Writes(q) /\ q # r
      BY DEF Writes
    <3>4. QED
      BY <1>2, <3>2, <3>3
  <2>3. Due(i) /\ i \in Ids(o)
    BY <1>1, <1>4, <2>1, <2>2 DEF Due, Lost, Ids
  <2>4. i <= since
    <3>1. i \in Nat /\ since \in Nat /\ ~(i > since)
      BY <1>4, LengthOfRecords DEF Seen
    <3>2. QED
      BY <3>1
  <2>5. Full(v[o], i) /\ Fits(v[o][i], rec[i], excused)
    <3>1. o \in Needs(job[r]) /\ Full(v[o], i)
      BY <2>3, <2>4 DEF Unseen, Seen
    <3>2. QED
      BY <3>1 DEF Seen, AllFit, Full
  <2>6. v[o][i].key = k /\ i \in DOMAIN v[o]
    BY <1>4, <2>5 DEF Full, Fits, KeyFields
  <2>7. o = "kiem_dinh"
    BY <2>6 DEF Unseen, Keys
  <2>8. v[o][i].ref = w.fields.ref
    <3>1. k = <<"kiem_dinh", w.fields.ref>> /\ k = <<"kiem_dinh", rec[i].ref>>
      BY <1>4, <2>1, <2>7 DEF WriteKeys, KeyInv, RecordKeys
    <3>2. v[o][i].ref = rec[i].ref
      BY <2>1, <2>5, <2>7 DEF Full, Fits, KeyFields
    <3>3. QED
      BY <3>1, <3>2
  <2>9. v[o][i].st # "len_lich" /\ "st" \in DOMAIN v[o][i]
    BY <2>5, <2>6, <2>7, <2>8 DEF Unseen, Full, KeyFields
  <2>10. rec[i].st # "len_lich"
    BY <1>1, <1>4, <2>1, <2>5, <2>7, <2>9 DEF Fits
  <2>11. QED
    BY <2>1, <2>7, <2>10
<1>5. QED
  BY <1>3, <1>4 DEF Fresh

\* A check that plans nothing but changes.
LEMMA ChoiceKeepsKeys ==
    ASSUME NoticeInv, FinishInv, KeyInv, NEW r \in Jobs, NEW j, job' = [job EXCEPT ![r] = j], job[r].sent = {},
           UNCHANGED <<rec, shown, recent, excused>>, CachesStayFull, j.pc # "merge", j.sent = {},
           \A w \in j.todo : w \in job[r].todo \/ (WriteKeys(w) /\ ~w.new)
    PROVE  KeyInv'
<1>1. MergeKeys(j)
  BY DEF MergeKeys
<1>2. \A w \in job[r].todo : WriteKeys(w)
  BY DEF KeyInv, JobKeys
<1>3. \A w \in j.todo : WriteKeys(w) /\ (w \in job[r].todo \/ MayPlan(r, j, w))
  BY <1>2 DEF MayPlan
<1>4. /\ \A o \in Objects : cache'[o] = cache[o] \/ cache'[o] = Nothing \/ Complete(cache'[o], o)
      /\ UNCHANGED <<rec, shown, recent>> /\ excused \subseteq excused'
  BY DEF CachesStayFull
<1>5. j.sent \subseteq job[r].sent /\ \A s \in job[r].sent : s \in j.sent \/ (s.write.new => Lost(rec[s.id], excused'))
  OBVIOUS
<1>6. QED
  BY <1>1, <1>3, <1>4, <1>5, KeysFrame

LEMMA RefusalKeepsKeys ==
    ASSUME NoticeInv, FinishInv, KeyInv, NEW r \in Jobs, Done(r), job[r].sent = {},
           UNCHANGED <<rec, shown, recent, excused>>, CachesStayFull
    PROVE  KeyInv'
<1> DEFINE j == [NoJob EXCEPT !.pc = "done"]
<1>1. j.todo = {} /\ j.sent = {} /\ j.pc = "done" /\ job' = [job EXCEPT ![r] = j]
  BY DEF NoJob, Done
<1> HIDE DEF j
<1>2. QED
  BY <1>1, ChoiceKeepsKeys

\* A request that passed its check: the keys it will create were not in the lists it read.
LEMMA StartWritingKeepsKeys ==
    ASSUME NoticeInv, FinishInv, KeyInv, NEW r \in Jobs, NEW v, NEW since, NEW writes,
           StartWriting(r, since, writes), job[r].sent = {}, Seen(r, v, since),
           UNCHANGED <<rec, shown, recent>>, CachesStayFull,
           \A w \in writes : WriteKeys(w) /\ (w.new => w.fields.key = Nothing \/ Unseen(r, v, w)),
           \A w, x \in writes : w.new /\ x.new /\ w.fields.key = x.fields.key => w = x
    PROVE  KeyInv'
<1> DEFINE j == [job[r] EXCEPT !.pc = "write", !.view = Nothing, !.miss = {}, !.seen = 0, !.todo = writes]
<1>1. /\ job' = [job EXCEPT ![r] = j]
      /\ j.sent = {} /\ j.pc = "write" /\ j.todo = writes
  BY DEF StartWriting, NoticeInv, JobIsSound, JobFields
<1> HIDE DEF j
<1>2. excused' = excused \cup
         {k \in KeysOf(writes) :
             \/ \E i \in DOMAIN rec : i > since /\ rec[i].key = k
             \/ \E q \in Jobs \ {r} : k \in KeysOf(Writes(q))}
  BY DEF StartWriting
<1>3. ASSUME NEW w \in writes PROVE MayPlan(r, j, w)
  <2> SUFFICES ASSUME w.new, ~Lost(w.fields, excused')
               PROVE  /\ Fresh(w.fields.key)
                      /\ \A q \in Jobs : q # r => \A x \in job[q].todo : ~Makes(x, w.fields.key)
                      /\ \A x \in j.todo : Makes(x, w.fields.key) => x = w
    BY DEF MayPlan
  <2>1. w.fields.key \in KeysOf(writes) /\ w.fields.key # Nothing
    BY DEF Lost, KeysOf
  <2>2. /\ ~Lost(w.fields, excused)
        /\ \A i \in DOMAIN rec : i > since => rec[i].key # w.fields.key
        /\ \A q \in Jobs : q # r => w.fields.key \notin KeysOf(Writes(q))
    BY <1>2, <2>1 DEF Lost
  <2>3. WriteKeys(w) /\ Unseen(r, v, w)
    BY <2>1
  <2>4. Fresh(w.fields.key) /\ \A q \in Jobs : q # r => \A x \in job[q].todo : ~Makes(x, w.fields.key)
    BY <2>2, <2>3, UnseenIsFresh
  <2>5. \A x \in j.todo : Makes(x, w.fields.key) => x = w
    BY <1>1 DEF Makes
  <2>6. QED
    BY <2>4, <2>5
<1>4. MergeKeys(j) /\ \A w \in j.todo : WriteKeys(w) /\ (w \in job[r].todo \/ MayPlan(r, j, w))
  BY <1>1, <1>3 DEF MergeKeys
<1>5. /\ \A o \in Objects : cache'[o] = cache[o] \/ cache'[o] = Nothing \/ Complete(cache'[o], o)
      /\ UNCHANGED <<rec, shown, recent>> /\ excused \subseteq excused'
  BY <1>2 DEF CachesStayFull
<1>6. j.sent \subseteq job[r].sent /\ \A s \in job[r].sent : s \in j.sent \/ (s.write.new => Lost(rec[s.id], excused'))
  BY <1>1
<1>7. QED
  BY <1>1, <1>4, <1>5, <1>6, KeysFrame

LEMMA NewHasItsKey ==
    ASSUME NEW obj \in Objects, NEW key, NEW st, NEW ref, key # Nothing => key[1] = obj,
           obj = "kiem_dinh" => key = <<"kiem_dinh", ref>> /\ st = "len_lich"
    PROVE  LET w == New(obj, key, st, ref) IN
           WriteKeys(w) /\ w.new /\ w.obj = obj /\ w.fields.key = key /\ w.fields.ref = ref
  BY DEF WriteKeys, New, KeyFields

\* The keys a generator plans: of its object, and in none of the lists it read.
LEMMA PlannedKeys ==
    ASSUME NEW j, NEW v, j.op \in Generators, NEW k \in Plan(j, v)
    PROVE  LET o == IF j.op = "tasks" THEN "cong_viec" ELSE "phieu" IN
           k[1] = o /\ o \in Needs(j) /\ k \notin Keys(v, o)
<1>1. ASSUME NEW c, NEW from, NEW months, NEW x \in PlanMaintenance(v, c, from, months)
      PROVE  x[1] = "phieu" /\ x \notin Keys(v, "phieu")
  BY DEF PlanMaintenance
<1>2. CASE j.op = "tasks"
  <2>1. k \in {<<"cong_viec", j.arg, i>> : i \in 1..Items} \ Keys(v, "cong_viec")
    BY <1>2, Zenon DEF Plan
  <2>2. "cong_viec" \in Needs(j)
    BY <1>2 DEF Needs
  <2>3. QED
    BY <1>2, <2>1, <2>2
<1>3. CASE j.op \in {"generate", "generateAll"}
  <2>1. \E c, from, months : k \in PlanMaintenance(v, c, from, months)
    <3>1. CASE j.op = "generate"
      <4>1. k \in PlanMaintenance(v, j.arg.contract, ThisMonth, j.arg.months)
        BY <3>1 DEF Plan
      <4>2. QED
        BY <4>1, Zenon
    <3>2. CASE j.op = "generateAll"
      <4>1. k \in UNION {PlanMaintenance(v, c, ThisMonth, DueMonths) : c \in Active(v)}
        BY <3>2 DEF Plan
      <4>2. PICK c : k \in PlanMaintenance(v, c, ThisMonth, DueMonths)
        BY <4>1
      <4>3. QED
        BY <4>2, Zenon
    <3>3. QED
      BY <1>3, <3>1, <3>2
  <2>2. "phieu" \in Needs(j) /\ j.op # "tasks"
    BY <1>3 DEF Needs
  <2>3. QED
    BY <1>1, <2>1, <2>2
<1>4. QED
  BY <1>2, <1>3 DEF Generators

LEMMA GenerateKeepsKeys ==
    ASSUME NoticeInv, FinishInv, KeyInv, NEW r \in Jobs, NEW v, NEW since, Generate(r, v, since),
           job[r].sent = {}, Seen(r, v, since), UNCHANGED <<rec, shown, recent>>, CachesStayFull
    PROVE  KeyInv'
<1> DEFINE W(k) == IF job[r].op = "tasks" THEN New("cong_viec", k, "chua_lam", job[r].arg)
                                          ELSE New("phieu", k, "moi", k[3])
           o == IF job[r].op = "tasks" THEN "cong_viec" ELSE "phieu"
<1>1. \E n : \E batch \in kSubset(n, Plan(job[r], v)) : StartWriting(r, since, {W(k) : k \in batch})
  BY Zenon DEF Generate
<1>2. PICK batch : batch \subseteq Plan(job[r], v) /\ StartWriting(r, since, {W(k) : k \in batch})
  BY <1>1 DEF kSubset
<1>3. job[r].op \in Generators
  BY DEF Generate
<1>4. ASSUME NEW k \in batch
      PROVE  /\ WriteKeys(W(k)) /\ W(k).new /\ W(k).fields.key = k /\ W(k).obj = o
             /\ Unseen(r, v, W(k))
  <2>1. k[1] = o /\ o \in Needs(job[r]) /\ k \notin Keys(v, o)
    BY <1>2, <1>3, PlannedKeys
  <2>2. "cong_viec" \in Objects /\ "phieu" \in Objects
    BY DEF Objects
  <2>3. WriteKeys(W(k)) /\ W(k).new /\ W(k).fields.key = k /\ W(k).obj = o
    <3>1. CASE job[r].op = "tasks"
      BY <2>1, <2>2, <3>1, NewHasItsKey
    <3>2. CASE job[r].op # "tasks"
      BY <2>1, <2>2, <3>2, NewHasItsKey
    <3>3. QED
      BY <3>1, <3>2
  <2> HIDE DEF W
  <2>4. QED
    BY <2>1, <2>3 DEF Unseen
<1> HIDE DEF W
<1>5. \A w \in {W(k) : k \in batch} : WriteKeys(w) /\ (w.new => w.fields.key = Nothing \/ Unseen(r, v, w))
  BY <1>4
<1>6. \A w, x \in {W(k) : k \in batch} : w.new /\ x.new /\ w.fields.key = x.fields.key => w = x
  BY <1>4
<1>7. QED
  BY <1>2, <1>5, <1>6, StartWritingKeepsKeys

LEMMA FirstWritesKeys ==
    ASSUME NEW r, NEW v, job[r].op \in {"unit", "contract", "order", "inspect", "record", "stage", "handover"},
           NEW w \in FirstWrites(job[r], v)
    PROVE  /\ WriteKeys(w)
           /\ w.new => (w.fields.key = Nothing \/ Unseen(r, v, w)) /\ FirstWrites(job[r], v) = {w}
<1> DEFINE j == job[r]
<1>0. "thang_may" \in Objects /\ "hop_dong" \in Objects /\ "phieu" \in Objects /\ "kiem_dinh" \in Objects
      /\ "du_an" \in Objects /\ \A x : "key" \notin DOMAIN [st |-> x] /\ "ref" \notin DOMAIN [st |-> x]
  BY DEF Objects
<1>1. CASE j.op = "unit"
  <2>1. /\ <<"thang_may", j.arg>> \notin Keys(v, "thang_may")
        /\ FirstWrites(j, v) = {New("thang_may", <<"thang_may", j.arg>>, "dang_bao_hanh", Nothing)}
    BY <1>1 DEF FirstWrites
  <2>2. "thang_may" \in Needs(j)
    BY <1>1 DEF Needs
  <2>3. QED
    BY <1>0, <2>1, <2>2, NewHasItsKey DEF Unseen
<1>2. CASE j.op = "contract"
  <2>1. /\ <<"hop_dong", j.arg>> \notin Keys(v, "hop_dong")
        /\ FirstWrites(j, v) = {New("hop_dong", <<"hop_dong", j.arg>>, "hieu_luc", Nothing)}
    BY <1>2 DEF FirstWrites, MayContract
  <2>2. "hop_dong" \in Needs(j)
    BY <1>2 DEF Needs
  <2>3. QED
    BY <1>0, <2>1, <2>2, NewHasItsKey DEF Unseen
<1>3. CASE j.op = "order"
  <2>1. FirstWrites(j, v) = {New("phieu", Nothing, "moi", j.arg)}
    BY <1>3 DEF FirstWrites
  <2>2. QED
    BY <1>0, <2>1, NewHasItsKey
<1>4. CASE j.op = "inspect"
  <2>1. /\ \A i \in DOMAIN v["kiem_dinh"] : ~(v["kiem_dinh"][i].ref = j.arg /\ v["kiem_dinh"][i].st = "len_lich")
        /\ FirstWrites(j, v) = {New("kiem_dinh", <<"kiem_dinh", j.arg>>, "len_lich", j.arg)}
    BY <1>4 DEF FirstWrites
  <2>2. "kiem_dinh" \in Needs(j)
    BY <1>4 DEF Needs
  <2>3. QED
    BY <1>0, <2>1, <2>2, NewHasItsKey DEF Unseen
<1>5. CASE j.op = "record"
  <2>1. w = Change("kiem_dinh", j.arg.inspection, [st |-> j.arg.st])
    BY <1>5 DEF FirstWrites
  <2>2. QED
    BY <1>0, <2>1, ChangeKeepsKey
<1>6. CASE j.op = "stage"
  <2>1. w = Change("du_an", j.arg.project, [st |-> j.arg.st])
    BY <1>6 DEF FirstWrites
  <2>2. QED
    BY <1>0, <2>1, ChangeKeepsKey
<1>7. CASE j.op = "handover"
  <2>1. \E u : w = Change("thang_may", u, [st |-> "dang_bao_hanh"])
    BY <1>7 DEF FirstWrites
  <2>2. QED
    BY <1>0, <2>1, ChangeKeepsKey
<1>8. QED
  BY <1>1, <1>2, <1>3, <1>4, <1>5, <1>6, <1>7

LEMMA SimpleKeepsKeys ==
    ASSUME NoticeInv, FinishInv, KeyInv, NEW r \in Jobs, NEW v, NEW since, Simple(r, v, since),
           job[r].sent = {}, Seen(r, v, since), UNCHANGED <<rec, shown, recent>>, CachesStayFull
    PROVE  KeyInv'
<1>1. job[r].op \in {"unit", "contract", "order", "inspect", "record", "stage", "handover"}
  BY DEF Simple
<1>2. (Done(r) /\ UNCHANGED excused) \/ StartWriting(r, since, FirstWrites(job[r], v))
  BY DEF Simple
<1>3. \A w \in FirstWrites(job[r], v) :
         /\ WriteKeys(w)
         /\ w.new => (w.fields.key = Nothing \/ Unseen(r, v, w)) /\ FirstWrites(job[r], v) = {w}
  BY <1>1, FirstWritesKeys
<1>4. \A w, x \in FirstWrites(job[r], v) : w.new /\ x.new /\ w.fields.key = x.fields.key => w = x
  BY <1>3
<1>5. QED
  BY <1>2, <1>3, <1>4, RefusalKeepsKeys, StartWritingKeepsKeys

LEMMA TaskKeepsKeys ==
    ASSUME NoticeInv, FinishInv, KeyInv, NEW r \in Jobs, NEW v, NEW since, Task(r, v, since),
           job[r].sent = {}, UNCHANGED <<rec, shown, recent>>, CachesStayFull
    PROVE  KeyInv'
<1>1. UNCHANGED excused
  BY DEF Task
<1>2. ASSUME NEW w, WriteKeys(w), ~w.new, NEW got,
             job' = [job EXCEPT ![r] = [job[r] EXCEPT !.pc = "write", !.view = Nothing, !.miss = {}, !.seen = 0,
                                            !.todo = {w}, !.got = got]]
      PROVE  KeyInv'
  <2> DEFINE j == [job[r] EXCEPT !.pc = "write", !.view = Nothing, !.miss = {}, !.seen = 0, !.todo = {w}, !.got = got]
  <2>1. /\ job' = [job EXCEPT ![r] = j]
        /\ j.sent = {} /\ j.pc = "write" /\ j.todo = {w}
    BY <1>2 DEF NoticeInv, JobIsSound, JobFields
  <2> HIDE DEF j
  <2>2. \A x \in j.todo : WriteKeys(x) /\ ~x.new
    BY <1>2, <2>1
  <2>3. QED
    BY <1>1, <2>1, <2>2, ChoiceKeepsKeys
<1>3. "cong_viec" \in Objects /\ "du_an" \in Objects /\ \A x : "key" \notin DOMAIN [st |-> x]
  BY DEF Objects
<1>4. ASSUME NEW id, NEW fields, NEW got, KeepsNames(fields),
             job' = [job EXCEPT ![r] = [job[r] EXCEPT !.pc = "write", !.view = Nothing, !.miss = {}, !.seen = 0,
                                            !.todo = {Change("cong_viec", id, fields)}, !.got = got]]
      PROVE  KeyInv'
  <2>1. WriteKeys(Change("cong_viec", id, fields)) /\ ~Change("cong_viec", id, fields).new
    BY <1>3, <1>4, ChangeKeepsKey DEF KeepsNames
  <2>2. QED
    BY <1>2, <1>4, <2>1
<1>5. ASSUME NEW id,
             job' = [job EXCEPT ![r] = [job[r] EXCEPT !.pc = "write", !.view = Nothing, !.miss = {}, !.seen = 0,
                                            !.todo = {Change("du_an", id, [st |-> "dang_thuc_hien"])}]]
      PROVE  KeyInv'
  <2> DEFINE w == Change("du_an", id, [st |-> "dang_thuc_hien"])
  <2>1. WriteKeys(w) /\ ~w.new
    BY <1>3, ChangeKeepsKey
  <2> HIDE DEF w
  <2>2. job' = [job EXCEPT ![r] = [job[r] EXCEPT !.pc = "write", !.view = Nothing, !.miss = {}, !.seen = 0,
                                                 !.todo = {w}, !.got = job[r].got]]
    BY <1>5 DEF w, NoticeInv, JobIsSound, JobFields
  <2>3. QED
    BY <1>2, <2>1, <2>2
<1>6. \/ Done(r)
      \/ \E id, fields, got : /\ KeepsNames(fields)
           /\ job' = [job EXCEPT ![r] = [job[r] EXCEPT !.pc = "write", !.view = Nothing, !.miss = {}, !.seen = 0,
                                            !.todo = {Change("cong_viec", id, fields)}, !.got = got]]
      \/ \E id :
           job' = [job EXCEPT ![r] = [job[r] EXCEPT !.pc = "write", !.view = Nothing, !.miss = {}, !.seen = 0,
                                            !.todo = {Change("du_an", id, [st |-> "dang_thuc_hien"])}]]
  BY TaskChoices
<1>7. QED
  BY <1>1, <1>4, <1>5, <1>6, RefusalKeepsKeys

LEMMA UpdateKeepsKeys ==
    ASSUME NoticeInv, FinishInv, KeyInv, NEW r \in Jobs, NEW v, Update(r, v),
           job[r].sent = {}, UNCHANGED <<rec, shown, recent>>, CachesStayFull
    PROVE  KeyInv'
<1> DEFINE order == job[r].arg.order
           o == v["phieu"][order]
           patch == OrderPatch(job[r], o)
<1>1. UNCHANGED excused /\ job[r].arg.do \in Deeds
  BY DEF Update, FinishInv, WritesAreSound
<1>2. \/ Done(r)
      \/ \E stage, pc :
           /\ pc \in {"guard", "list"} /\ stage \in {1, 2}
           /\ job[r].stage = 1
           /\ job' = [job EXCEPT ![r] = [job[r] EXCEPT !.view = Nothing, !.miss = {}, !.seen = 0, !.got = o.st,
                                                       !.stage = stage, !.pc = pc]]
           /\ job[r].arg.do = "finish" => stage = 1 \/ order \in muddled'
      \/ /\ job[r].stage = 2 \/ job[r].arg.do # "finish"
         /\ job' = [job EXCEPT ![r] = [job[r] EXCEPT !.pc = "write", !.view = Nothing, !.miss = {}, !.seen = 0,
                                                     !.stage = 2, !.todo = {Change("phieu", order, patch)}]]
  <2>1. job[r].stage \in {1, 2}
    BY DEF FinishInv, WritesAreSound
  <2>2. QED
    BY <2>1, UpdateChoices
<1>3. ASSUME NEW stage, NEW pc \in {"guard", "list"},
             job' = [job EXCEPT ![r] = [job[r] EXCEPT !.view = Nothing, !.miss = {}, !.seen = 0, !.got = o.st,
                                                      !.stage = stage, !.pc = pc]]
      PROVE  KeyInv'
  <2> DEFINE j == [job[r] EXCEPT !.view = Nothing, !.miss = {}, !.seen = 0, !.got = o.st,
                                 !.stage = stage, !.pc = pc]
  <2>1. job' = [job EXCEPT ![r] = j] /\ j.sent = {} /\ j.pc = pc /\ j.todo = job[r].todo
    BY <1>3 DEF NoticeInv, JobIsSound, JobFields
  <2> HIDE DEF j
  <2>2. j.pc # "merge"
    BY <1>3, <2>1
  <2>3. QED
    BY <1>1, <2>1, <2>2, ChoiceKeepsKeys
<1>4. CASE job' = [job EXCEPT ![r] = [job[r] EXCEPT !.pc = "write", !.view = Nothing, !.miss = {}, !.seen = 0,
                                                    !.stage = 2, !.todo = {Change("phieu", order, patch)}]]
  <2> DEFINE todo == {Change("phieu", order, patch)}
             j == [job[r] EXCEPT !.pc = "write", !.view = Nothing, !.miss = {}, !.seen = 0,
                                 !.stage = 2, !.todo = todo]
  <2>1. job' = [job EXCEPT ![r] = j] /\ j.sent = {} /\ j.pc = "write" /\ j.todo = todo
    BY <1>4 DEF NoticeInv, JobIsSound, JobFields
  <2> HIDE DEF j
  <2>2. "key" \notin DOMAIN patch /\ "phieu" \in Objects
    BY <1>1, OrderPatchIsSound DEF Objects
  <2> HIDE DEF patch
  <2>3. \A w \in todo : WriteKeys(w) /\ ~w.new
    BY <2>2, ChangeKeepsKey
  <2>4. QED
    BY <1>1, <2>1, <2>3, ChoiceKeepsKeys
<1>5. QED
  BY <1>1, <1>2, <1>3, <1>4, RefusalKeepsKeys

LEMMA OpenKeepsKeys ==
    ASSUME NoticeInv, FinishInv, KeyInv, NEW r \in Jobs, NEW v, Open(r, v) \/ FindOrder(r, v),
           job[r].sent = {}, UNCHANGED <<rec, shown, recent>>, CachesStayFull
    PROVE  KeyInv'
<1>1. UNCHANGED excused
  BY DEF Open, FindOrder, pastVars
<1>2. \/ Done(r)
      \/ job' = [job EXCEPT ![r] = [job[r] EXCEPT !.pc = "get", !.view = Nothing, !.miss = {}, !.seen = 0]]
      \/ \E got : job' = [job EXCEPT ![r] = [job[r] EXCEPT !.pc = "claim", !.view = Nothing, !.miss = {}, !.seen = 0,
                                                           !.got = got]]
  BY Zenon DEF Open, FindOrder
<1>3. CASE job' = [job EXCEPT ![r] = [job[r] EXCEPT !.pc = "get", !.view = Nothing, !.miss = {}, !.seen = 0]]
  <2> DEFINE j == [job[r] EXCEPT !.pc = "get", !.view = Nothing, !.miss = {}, !.seen = 0]
  <2>1. job' = [job EXCEPT ![r] = j] /\ j.sent = {} /\ j.pc = "get" /\ j.todo = job[r].todo
    BY <1>3 DEF NoticeInv, JobIsSound, JobFields
  <2> HIDE DEF j
  <2>2. QED
    BY <1>1, <2>1, ChoiceKeepsKeys
<1>4. ASSUME NEW got,
             job' = [job EXCEPT ![r] = [job[r] EXCEPT !.pc = "claim", !.view = Nothing, !.miss = {}, !.seen = 0,
                                                      !.got = got]]
      PROVE  KeyInv'
  <2> DEFINE j == [job[r] EXCEPT !.pc = "claim", !.view = Nothing, !.miss = {}, !.seen = 0, !.got = got]
  <2>1. job' = [job EXCEPT ![r] = j] /\ j.sent = {} /\ j.pc = "claim" /\ j.todo = job[r].todo
    BY <1>4 DEF NoticeInv, JobIsSound, JobFields
  <2> HIDE DEF j
  <2>2. QED
    BY <1>1, <2>1, ChoiceKeepsKeys
<1>5. QED
  BY <1>1, <1>2, <1>3, <1>4, RefusalKeepsKeys

LEMMA DecideKeepsKeys ==
    ASSUME NoticeInv, FinishInv, KeyInv, NEW r \in Jobs, NEW v, NEW since, Decide(r, v, since),
           job[r].sent = {}, Seen(r, v, since), UNCHANGED <<rec, shown, recent>>, CachesStayFull
    PROVE  KeyInv'
  BY GenerateKeepsKeys, SimpleKeepsKeys, TaskKeepsKeys, UpdateKeepsKeys, OpenKeepsKeys DEF Decide

LEMMA SearchKeepsKeys ==
    ASSUME NoticeInv, FinishInv, KeyInv, NEW r \in Jobs, Search(r)
    PROVE  KeyInv'
<1> DEFINE k == job[r]
           miss == {o \in Needs(k) : cache[o] = Nothing}
           v == [o \in Needs(k) |-> IF o \in miss THEN RowsOf(o, shown) ELSE cache[o]]
<1>1. k.pc = "list" /\ k.sent = {} /\ UNCHANGED <<rec, shown, recent, cache>>
  BY NothingSent DEF Search, storeVars, viewVars
<1>2. ASSUME NEW o \in Needs(k), o \notin miss
      PROVE  /\ v[o] = cache[o] /\ AllFit(v[o], rec, excused)
             /\ \A i \in Ids(o) : Due(i) => Full(v[o], i)
  <2>1. v[o] = cache[o] /\ cache[o] # Nothing /\ o \in Objects
    BY <1>2, NeedsAreObjects
  <2> HIDE DEF v, miss
  <2>2. QED
    BY <2>1 DEF KeyInv, ViewKeys
<1>3. Settled \in Nat /\ Settled <= Len(rec) /\ \A i : Awaited(i) => ~(i <= Settled)
  BY SettledBelow
<1>4. CASE miss = {}
  <2>1. Decide(r, v, Settled)
    BY <1>4 DEF Search
  <2> HIDE DEF v
  <2>2. Seen(r, v, Settled)
    BY <1>2, <1>3, <1>4 DEF Seen
  <2>3. CachesStayFull
    BY <1>1 DEF CachesStayFull
  <2>4. QED
    BY <1>1, <2>1, <2>2, <2>3, DecideKeepsKeys
<1>5. CASE miss # {}
  <2> DEFINE since == Settled
             j == [job[r] EXCEPT !.pc = "merge", !.view = v, !.miss = miss, !.seen = since]
  <2>1. job' = [job EXCEPT ![r] = j] /\ UNCHANGED excused
    BY <1>5 DEF Search, pastVars
  <2>2. ASSUME NEW o \in miss
        PROVE  /\ AllFit(v[o], rec, excused)
               /\ \A i \in Ids(o) : Due(i) => Full(v[o], i) \/ Full(recent[o], i)
    <3>1. v[o] = RowsOf(o, shown) /\ o \in Objects
      BY NeedsAreObjects
    <3> HIDE DEF v, miss
    <3>2. ShownKeys
      BY DEF KeyInv
    <3>3. AllFit(v[o], rec, excused)
      BY <3>1, <3>2 DEF AllFit, RowsOf, ShownKeys
    <3>4. ASSUME NEW i \in Ids(o), Due(i) PROVE Full(v[o], i) \/ Full(recent[o], i)
      <4>1. i \in DOMAIN shown \/ Full(recent[o], i)
        BY <3>1, <3>4 DEF KeyInv, ViewKeys
      <4>2. i \in DOMAIN shown => shown[i].obj = o /\ KeyFields \subseteq DOMAIN shown[i]
        BY <3>2, <3>4 DEF ShownKeys, Ids
      <4>3. QED
        BY <3>1, <4>1, <4>2 DEF RowsOf, Full
    <3>5. QED
      BY <3>3, <3>4
  <2> HIDE DEF v, miss, since
  <2>3. /\ j.op = k.op /\ j.stage = k.stage /\ j.todo = k.todo /\ j.sent = k.sent
        /\ j.pc = "merge" /\ j.view = v /\ j.miss = miss /\ j.seen = since
    BY DEF NoticeInv, JobIsSound, JobFields
  <2> HIDE DEF j
  <2>4. Needs(j) = Needs(k)
    BY <2>3 DEF Needs
  <2>5. MergeKeys(j)
    <3>1. since \in Nat /\ since <= Len(rec) /\ \A i : Awaited(i) => ~(i <= since)
      BY <1>3 DEF since
    <3>2. ASSUME NEW o \in Needs(k)
          PROVE  /\ AllFit(v[o], rec, excused)
                 /\ \A i \in Ids(o) :
                       /\ o \in miss /\ Due(i) => Full(v[o], i) \/ Full(recent[o], i)
                       /\ o \notin miss /\ ~Lost(rec[i], excused) /\ i <= since => Full(v[o], i)
      <4>1. CASE o \in miss
        BY <2>2, <4>1
      <4>2. CASE o \notin miss
        <5>1. AllFit(v[o], rec, excused) /\ \A i \in Ids(o) : Due(i) => Full(v[o], i)
          BY <1>2, <4>2
        <5>2. \A i \in Ids(o) : ~Lost(rec[i], excused) /\ i <= since => Due(i)
          BY <3>1 DEF Due, Ids
        <5>3. QED
          BY <4>2, <5>1, <5>2
      <4>3. QED
        BY <4>1, <4>2
    <3>3. QED
      BY <2>3, <2>4, <3>1, <3>2 DEF MergeKeys
  <2>6. \A w \in j.todo : WriteKeys(w) /\ w \in job[r].todo
    BY <2>3 DEF KeyInv, JobKeys
  <2>7. \A o \in Objects : cache'[o] = cache[o]
    BY <1>1
  <2>8. QED
    BY <1>1, <2>1, <2>3, <2>5, <2>6, <2>7, KeysFrame
<1>6. QED
  BY <1>4, <1>5

LEMMA OverlayKeys ==
    ASSUME NEW o, NEW rows, AllFit(rows, rec, excused), AllFit(recent[o], rec, excused)
    PROVE  /\ AllFit(Overlay(o, rows), rec, excused)
           /\ \A i : Full(rows, i) \/ Full(recent[o], i) => Full(Overlay(o, rows), i)
<1>1. DOMAIN Overlay(o, rows) = DOMAIN rows \cup DOMAIN recent[o]
  BY DEF Overlay
<1>2. \A i \in DOMAIN Overlay(o, rows) : Overlay(o, rows)[i] = Over(At(recent[o], i), At(rows, i))
  BY DEF Overlay
<1>3. ASSUME NEW i \in DOMAIN Overlay(o, rows)
      PROVE  i \in DOMAIN rec /\ Fits(Overlay(o, rows)[i], rec[i], excused)
  <2>1. i \in DOMAIN rec
    BY <1>1 DEF AllFit
  <2>2. Fits(At(recent[o], i), rec[i], excused) /\ Fits(At(rows, i), rec[i], excused)
    BY NothingFits DEF AllFit, At
  <2>3. QED
    BY <1>2, <2>1, <2>2, FitsOver
<1>4. ASSUME NEW i, Full(rows, i) \/ Full(recent[o], i)
      PROVE  Full(Overlay(o, rows), i)
  <2>1. i \in DOMAIN Overlay(o, rows)
    BY <1>1, <1>4 DEF Full
  <2>2. KeyFields \subseteq DOMAIN At(recent[o], i) \/ KeyFields \subseteq DOMAIN At(rows, i)
    BY <1>4 DEF Full, At
  <2>3. KeyFields \subseteq DOMAIN Overlay(o, rows)[i]
    BY <1>2, <2>1, <2>2, OverFields
  <2>4. QED
    BY <2>1, <2>3 DEF Full
<1>5. QED
  BY <1>3, <1>4 DEF AllFit

LEMMA MergeKeepsKeys ==
    ASSUME NoticeInv, FinishInv, KeyInv, NEW r \in Jobs, Merge(r)
    PROVE  KeyInv'
<1> DEFINE k == job[r]
           v == [o \in Needs(k) |-> IF o \in k.miss THEN Overlay(o, k.view[o]) ELSE k.view[o]]
<1>1. /\ k.pc = "merge" /\ k.sent = {}
      /\ UNCHANGED <<rec, shown, recent>>
      /\ cache' = [o \in Objects |-> IF o \in k.miss THEN v[o] ELSE cache[o]]
      /\ Decide(r, v, k.seen)
  BY NothingSent DEF Merge, storeVars
<1>2. k.miss \subseteq Needs(k)
  BY <1>1 DEF FinishInv, WritesAreSound
<1>3. /\ k.seen \in Nat
      /\ \A o \in Needs(k) :
            /\ AllFit(k.view[o], rec, excused)
            /\ \A i \in Ids(o) :
                  /\ o \in k.miss /\ Due(i) => Full(k.view[o], i) \/ Full(recent[o], i)
                  /\ o \notin k.miss /\ ~Lost(rec[i], excused) /\ i <= k.seen => Full(k.view[o], i)
  <2>1. MergeKeys(k)
    BY DEF KeyInv, JobKeys
  <2>2. QED
    BY <1>1, <2>1 DEF MergeKeys
<1>4. ASSUME NEW o \in k.miss PROVE Complete(v[o], o)
  <2>1. v[o] = Overlay(o, k.view[o]) /\ o \in Needs(k) /\ o \in Objects
    BY <1>2, NeedsAreObjects
  <2> HIDE DEF v
  <2>2. AllFit(recent[o], rec, excused)
    BY <2>1 DEF KeyInv, ViewKeys
  <2>3. AllFit(v[o], rec, excused) /\ \A i : Full(k.view[o], i) \/ Full(recent[o], i) => Full(v[o], i)
    BY <1>3, <2>1, <2>2, OverlayKeys
  <2>4. QED
    BY <1>3, <2>1, <2>3 DEF Complete
<1>5. ASSUME NEW o \in Needs(k), o \notin k.miss
      PROVE  AllFit(v[o], rec, excused) /\ \A i \in Ids(o) : Due(i) /\ i <= k.seen => Full(v[o], i)
  <2>1. v[o] = k.view[o]
    BY <1>5
  <2> HIDE DEF v
  <2>2. QED
    BY <1>3, <1>5, <2>1 DEF Due
<1> HIDE DEF v
<1>6. Seen(r, v, k.seen)
  BY <1>3, <1>4, <1>5 DEF Seen, Complete
<1>7. CachesStayFull
  BY <1>1, <1>4 DEF CachesStayFull
<1>8. QED
  BY <1>1, <1>6, <1>7, DecideKeepsKeys

LEMMA KeyInitInv == ServiceInit => KeyInv
<1> SUFFICES ASSUME ServiceInit PROVE KeyInv
  OBVIOUS
<1>1. /\ \A r \in Jobs : job[r] = NoJob
      /\ rec = StartRecords /\ shown = rec
      /\ cache = [o \in Objects |-> Nothing] /\ recent = [o \in Objects |-> <<>>]
  BY DEF ServiceInit
<1>2. RecordKeys
  BY <1>1, RecordsAssumption, OneEachAssumption DEF RecordKeys, KeyFields
<1>3. OneRecordPerKey
  <2> SUFFICES ASSUME NEW i \in DOMAIN rec, NEW k \in DOMAIN rec, i # k, rec[i].key = rec[k].key,
                      rec[i].key # Nothing
               PROVE  rec[i].obj = "kiem_dinh" /\ {rec[i].st, rec[k].st} # {"len_lich"}
    BY DEF OneRecordPerKey
  <2>1. QED
    BY <1>1, OneEachAssumption
<1>4. ShownKeys
  BY <1>1, <1>2 DEF ShownKeys, RecordKeys, Fits
<1>5. ViewKeys
  <2>1. AllFit(<<>>, rec, excused)
    BY DEF AllFit
  <2>2. \A o \in Objects : recent[o] = <<>> /\ cache[o] = Nothing
    BY <1>1
  <2>3. \A i : Due(i) => i \in DOMAIN shown
    BY <1>1 DEF Due
  <2>4. QED
    BY <2>1, <2>2, <2>3 DEF ViewKeys
<1>6. NoJob.todo = {} /\ NoJob.sent = {} /\ NoJob.pc = "idle"
  BY DEF NoJob
<1>7. PlansAreApart
  BY <1>1, <1>6 DEF PlansAreApart
<1>8. \A r \in Jobs : JobKeys(job[r])
  BY <1>1, <1>6 DEF JobKeys, MergeKeys
<1>9. QED
  BY <1>2, <1>3, <1>4, <1>5, <1>7, <1>8 DEF KeyInv

LEMMA KeyStepInv == NoticeInv /\ FinishInv /\ KeyInv /\ [ServiceNext]_serviceVars => KeyInv'
<1> SUFFICES ASSUME NoticeInv, FinishInv, KeyInv, [ServiceNext]_serviceVars PROVE KeyInv'
  OBVIOUS
<1>1. ASSUME NEW r \in Jobs,
             \/ Begin(r) \/ Search(r) \/ Merge(r) \/ Post(r) \/ Answered(r) \/ AnswerLost(r) \/ Rejected(r)
      PROVE  KeyInv'
  BY <1>1, BeginKeepsKeys, SearchKeepsKeys, MergeKeepsKeys, PostKeepsKeys, AnsweredKeepsKeys,
     AnswerLostKeepsKeys, RejectedKeepsKeys
<1>2. ASSUME NEW r \in Jobs,
             \/ Finish(r) \/ GuardComplete(r) \/ GetReport(r) \/ PutReport(r)
             \/ Claim(r) \/ SendZns(r) \/ ZnsAnswered(r) \/ Release(r)
      PROVE  KeyInv'
  BY <1>2, FinishKeepsKeys, ReportsKeepKeys, NoticesKeepKeys
<1>3. CASE (\E o \in Objects : CacheGone(o) \/ RecentGone(o)) \/ IndexCatchesUp
  BY <1>3, ForgettingKeepsKeys
<1>4. CASE Restart
  BY <1>4, RestartKeepsKeys
<1>5. CASE UNCHANGED serviceVars
  <2>1. UNCHANGED <<rec, job, excused, shown, cache, recent>>
    BY <1>5 DEF serviceVars, storeVars, viewVars, pastVars, boundVars
  <2>2. \A i : Due(i)' <=> Due(i)
    BY <2>1 DEF Due, Awaited
  <2>3. ShownKeys' /\ ViewKeys'
    BY <2>1, <2>2 DEF KeyInv, ShownKeys, ViewKeys, Ids
  <2>4. \A q \in Jobs : MergeKeys(job[q])'
    BY <2>1, <2>2 DEF KeyInv, JobKeys, MergeKeys, Ids
  <2>5. QED
    BY <2>1, <2>3, <2>4, KeysOfViews
<1>6. QED
  BY <1>1, <1>2, <1>3, <1>4, <1>5 DEF ServiceNext

\* However often generation is asked for (logic.mjs:25), however late HighLevel's search index
\* is (ghl.mjs:31) and whatever the cache holds, no key is created twice and no unit has two
\* open inspections: whoever checks a key sees every record of it that was answered for when
\* its lists were read, unless requests overlapped, an answer was lost or the process restarted.
THEOREM OneRecordPerKeyHolds == ServiceSpec => []OneRecordPerKey
<1>1. KeyInv => OneRecordPerKey
  BY DEF KeyInv
<1>2. QED
  BY <1>1, NoticeInitInv, NoticeStepInv, FinishInitInv, FinishStepInv, KeyInitInv, KeyStepInv, PTL DEF ServiceSpec
=============================================================================
