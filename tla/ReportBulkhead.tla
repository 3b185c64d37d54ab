---------------------------- MODULE ReportBulkhead ----------------------------
(***************************************************************************)
(* The bulkhead of the report gateway (POST /report/mcp, tools/call): at   *)
(* most MaxConcurrent tool executions at once in a process, a bounded      *)
(* queue behind them, and the rest refused.                                *)
(*                                                                         *)
(* One process, one event loop: what runs between two awaits of the        *)
(* handler is one step.  A caller is one slot of the web server for a      *)
(* request, and serves another request once it is idle again.              *)
(***************************************************************************)
EXTENDS Naturals, Sequences, FiniteSets

CONSTANTS
    Callers,        \* requests that can be in flight at the same time
    MaxConcurrent,  \* REPORT_MAX_CONCURRENT
    MaxQueue        \* REPORT_MAX_QUEUE

ASSUME LimitsAssumption == MaxConcurrent \in Nat \ {0} /\ MaxQueue \in Nat

VARIABLES
    active,     \* the counter of slots taken
    waiters,    \* the callers whose promise is queued, first come first
    pc          \* where each request is in the handler

vars == <<active, waiters, pc>>

\* granted: acquire() has resolved to true, the handler has not resumed yet;
\* auditing: the tool has answered or failed, the audit row is being written;
\* refused: acquire() has resolved to false.
States == {"idle", "waiting", "granted", "running", "auditing", "refused"}

\* The queue never outgrows its limit.
TypeOK ==
    /\ active \in Nat
    /\ waiters \in Seq(Callers)
    /\ Len(waiters) <= MaxQueue
    /\ pc \in [Callers -> States]

-----------------------------------------------------------------------------

Init ==
    /\ active = 0
    /\ waiters = <<>>
    /\ pc = [c \in Callers |-> "idle"]

\* acquire() finds a free slot.
Enter(c) ==
    /\ pc[c] = "idle"
    /\ active < MaxConcurrent
    /\ active' = active + 1
    /\ pc' = [pc EXCEPT ![c] = "granted"]
    /\ UNCHANGED waiters

\* acquire() finds none and queues a promise.
Join(c) ==
    /\ pc[c] = "idle"
    /\ active >= MaxConcurrent
    /\ Len(waiters) < MaxQueue
    /\ waiters' = Append(waiters, c)
    /\ pc' = [pc EXCEPT ![c] = "waiting"]
    /\ UNCHANGED active

\* acquire() finds the queue full; the caller is told the system is busy.
Refuse(c) ==
    /\ pc[c] = "idle"
    /\ active >= MaxConcurrent
    /\ Len(waiters) >= MaxQueue
    /\ pc' = [pc EXCEPT ![c] = "refused"]
    /\ UNCHANGED <<active, waiters>>

\* The refusal is audited and sent.
Refused(c) ==
    /\ pc[c] = "refused"
    /\ pc' = [pc EXCEPT ![c] = "idle"]
    /\ UNCHANGED <<active, waiters>>

\* The handler resumes with its slot and calls the tool.
Start(c) ==
    /\ pc[c] = "granted"
    /\ pc' = [pc EXCEPT ![c] = "running"]
    /\ UNCHANGED <<active, waiters>>

\* Variant: a tool that throws leaves the handler without release().
FinishLeaks(c) ==
    /\ pc[c] = "running"
    /\ \E next \in {"auditing", "idle"} : pc' = [pc EXCEPT ![c] = next]
    /\ UNCHANGED <<active, waiters>>

\* The tool returns or throws; either way the handler writes an audit row.
Finish(c) ==
    /\ pc[c] = "running"
    /\ pc' = [pc EXCEPT ![c] = "auditing"]
    /\ UNCHANGED <<active, waiters>>

\* Variant: the newest waiter is served (pop in place of shift).
ReleaseNewest(c) ==
    /\ pc[c] = "auditing"
    /\ \/ /\ waiters # <<>>
          /\ pc' = [pc EXCEPT ![c] = "idle", ![waiters[Len(waiters)]] = "granted"]
          /\ waiters' = SubSeq(waiters, 1, Len(waiters) - 1)
          /\ UNCHANGED active
       \/ /\ waiters = <<>>
          /\ pc' = [pc EXCEPT ![c] = "idle"]
          /\ active' = active - 1
          /\ UNCHANGED waiters

\* Variant: the slot is given back even when a waiter takes it over.
ReleaseTwice(c) ==
    /\ pc[c] = "auditing"
    /\ active' = active - 1
    /\ \/ /\ waiters # <<>>
          /\ pc' = [pc EXCEPT ![c] = "idle", ![Head(waiters)] = "granted"]
          /\ waiters' = Tail(waiters)
       \/ /\ waiters = <<>>
          /\ pc' = [pc EXCEPT ![c] = "idle"]
          /\ UNCHANGED waiters

\* Variant: nobody is woken.
ReleaseSilently(c) ==
    /\ pc[c] = "auditing"
    /\ pc' = [pc EXCEPT ![c] = "idle"]
    /\ active' = active - 1
    /\ UNCHANGED waiters

\* release(): the slot is handed to the caller that has waited longest, and
\* "active" stays as it is, or it is given back.
Release(c) ==
    /\ pc[c] = "auditing"
    /\ \/ /\ waiters # <<>>
          /\ pc' = [pc EXCEPT ![c] = "idle", ![Head(waiters)] = "granted"]
          /\ waiters' = Tail(waiters)
          /\ UNCHANGED active
       \/ /\ waiters = <<>>
          /\ pc' = [pc EXCEPT ![c] = "idle"]
          /\ active' = active - 1
          /\ UNCHANGED waiters

Advance(c) == Refused(c) \/ Start(c) \/ Finish(c) \/ Release(c)

Next == \E c \in Callers : Enter(c) \/ Join(c) \/ Refuse(c) \/ Advance(c)

Spec == Init /\ [][Next]_vars

\* The event loop resumes every handler, and every tool answers: an upstream
\* call is aborted after its timeout, a query succeeds or fails.
Fairness == \A c \in Callers : WF_vars(Advance(c))

FairSpec == Spec /\ Fairness

-----------------------------------------------------------------------------

\* The callers that hold a slot.
Holders == {c \in Callers : pc[c] \in {"granted", "running", "auditing"}}

\* The queue holds each waiting caller once, and nobody else.
QueueIsExact ==
    /\ \A i \in 1..Len(waiters) : pc[waiters[i]] = "waiting"
    /\ \A i, j \in 1..Len(waiters) : waiters[i] = waiters[j] => i = j
    /\ \A c \in Callers : pc[c] = "waiting" => \E i \in 1..Len(waiters) : waiters[i] = c

\* However calls are admitted, queued, handed a slot, answered and failed, the
\* counter is the number of calls that hold a slot, and that number never
\* exceeds the limit: no slot is leaked or counted twice.
SlotsAreCounted ==
    /\ IsFiniteSet(Holders)
    /\ active = Cardinality(Holders)
    /\ active <= MaxConcurrent

\* A call never waits beside a free slot: a hand-over leaves no gap in which a
\* slot is free and the queue asleep.
NoSlotIdlesWhileCallersWait == waiters # <<>> => active = MaxConcurrent

\* A call that gets a slot has not overtaken one that was waiting for it.
NobodyOvertakes ==
    [][\A c \in Callers :
          c \notin Holders /\ c \in Holders' /\ waiters # <<>> => c = Head(waiters)]_vars

\* Every call that queued gets to run.
EveryWaiterRuns == \A c \in Callers : pc[c] = "waiting" ~> pc[c] = "running"

IndInv == TypeOK /\ QueueIsExact /\ SlotsAreCounted /\ NoSlotIdlesWhileCallersWait
=============================================================================
