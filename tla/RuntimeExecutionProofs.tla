----------------------- MODULE RuntimeExecutionProofs -----------------------
(***************************************************************************)
(* Theorems about RuntimeExecution for every value of its constants: type  *)
(* correctness for any number of loops and, with a single runtime loop,    *)
(* that no RUNNING run is lost.                                            *)
(***************************************************************************)
EXTENDS RuntimeExecution, TLAPS

-----------------------------------------------------------------------------
(* The rows that the operations write are rows.                            *)

\* A flush mixes the columns of three rows into one.
LEMMA FlushType ==
    ASSUME NEW c \in Run, NEW s \in Run, NEW n \in Run
    PROVE  Flush(c, s, n) \in Run
BY DEF Flush, Run

LEMMA NewRunType ==
    ASSUME NEW policy \in Policies
    PROVE  NewRun(policy) \in Run
BY DEF NewRun, Run, Statuses, Absent

LEMMA DispatchedType ==
    ASSUME NEW row \in Run, NEW x \in Workers
    PROVE  Dispatched(row, x) \in Run
<1>1. row.attempt + 1 \in Nat
  BY DEF Run
<1>. QED
  BY <1>1 DEF Dispatched, Run, Statuses, Absent

LEMMA FlushDispatchType ==
    ASSUME NEW c \in Run, NEW s \in Run, NEW x \in Workers
    PROVE  FlushDispatch(c, s, x) \in Run
<1>1. Flush(c, s, Dispatched(s, x)) \in Run
  BY FlushType, DispatchedType
<1>. QED
  BY <1>1 DEF FlushDispatch, Run, Statuses, Absent

\* Each outcome of a run, and each request of a user, yields a row.
LEMMA OutcomeTypes ==
    ASSUME NEW row \in Run
    PROVE  /\ StaleOutcome(row) \in Run
           /\ FailureOutcome(row) \in Run
           /\ BlockedOutcome(row) \in Run
           /\ Completed(row) \in Run
           /\ Paused(row) \in Run
           /\ Continued(row) \in Run
           /\ Cancelled(row) \in Run
<1>1. StaleOutcome(row) \in Run
  BY DEF StaleOutcome, Requeued, Run, Statuses, Absent
<1>2. FailureOutcome(row) \in Run
  BY DEF FailureOutcome, Requeued, Run, Statuses, Absent
<1>3. BlockedOutcome(row) \in Run /\ Completed(row) \in Run
  BY DEF BlockedOutcome, Completed, Run, Statuses, Absent
<1>4. Paused(row) \in Run /\ Continued(row) \in Run /\ Cancelled(row) \in Run
  BY DEF Paused, Continued, Cancelled, Run, Statuses, Absent
<1>. QED
  BY <1>1, <1>2, <1>3, <1>4

LEMMA WorkerTypes ==
    ASSUME codexUp \in BOOLEAN, NEW row \in Worker
    PROVE  /\ Registered(row) \in Worker
           /\ RegisteredOffline(row) \in Worker
           /\ Beating(row) \in Worker
           /\ Freed \in Worker
           /\ \A r \in Runs : Busy(row, r) \in Worker
BY DEF Registered, RegisteredOffline, Beating, Freed, Busy, Worker

\* What a cycle makes of the rows it has read and of the tables.
LEMMA CycleTypes ==
    ASSUME TypeOK, NEW w \in Loops, NEW v \in View
    PROVE  /\ RunsSeen(v) \in [Runs -> Run]
           /\ StaleSettled(v) \in [Runs -> Run]
           /\ StaleFreed(w, v) \in [Workers -> Worker]
           /\ StaleRequeued(v) \subseteq Runs
           /\ FirstIdle(v) \subseteq Workers
           /\ Candidates(v) \subseteq Runs
<1>1. /\ v.runs \in [Runs -> Run] /\ v.workers \in [Workers -> Worker]
      /\ runs \in [Runs -> Run] /\ workers \in [Workers -> Worker]
      /\ codexUp \in BOOLEAN
  BY DEF View, TypeOK
<1>2. RunsSeen(v) \in [Runs -> Run]
  BY <1>1, OutcomeTypes DEF RunsSeen
<1>3. StaleSettled(v) \in [Runs -> Run]
  BY <1>1, OutcomeTypes, FlushType DEF StaleSettled
<1>4. StaleFreed(w, v) \in [Workers -> Worker]
  BY <1>1, WorkerTypes DEF StaleFreed
<1>. QED
  BY <1>2, <1>3, <1>4 DEF StaleRequeued, StaleRuns, FirstIdle, IdleWorkers, Candidates

LEMMA EnqueuedType ==
    ASSUME NEW order \in SUBSET (Runs \X Runs), NEW S \in SUBSET Runs
    PROVE  Enqueued(order, S) \in SUBSET (Runs \X Runs)
BY DEF Enqueued

LEMMA EventTypes ==
    ASSUME events \in [Runs -> [started : Nat, completed : Nat]], NEW r \in Runs
    PROVE  /\ [events EXCEPT ![r].started = @ + 1]
                  \in [Runs -> [started : Nat, completed : Nat]]
           /\ [events EXCEPT ![r].completed = @ + 1]
                  \in [Runs -> [started : Nat, completed : Nat]]
<1>1. events[r].started \in Nat /\ events[r].completed \in Nat
  OBVIOUS
<1>2. /\ events[r].started + 1 \in Nat
      /\ events[r].completed + 1 \in Nat
  BY <1>1
<1>3. /\ [events[r] EXCEPT !.started = @ + 1] \in [started : Nat, completed : Nat]
      /\ [events[r] EXCEPT !.completed = @ + 1] \in [started : Nat, completed : Nat]
  BY <1>2
<1>. QED
  BY <1>3

LEMMA OneMoreFault ==
    ASSUME TypeOK, faults < MaxFaults
    PROVE  faults + 1 \in 0..MaxFaults
<1>1. faults \in Nat /\ MaxFaults \in Nat
  BY BoundsAreNatural DEF TypeOK
<1>. QED
  BY <1>1

-----------------------------------------------------------------------------
(* Type correctness.                                                       *)

LEMMA TypeInit == Init => TypeOK
<1>. SUFFICES ASSUME Init PROVE TypeOK
  OBVIOUS
<1>1. runs \in [Runs -> Run]
  <2>1. PICK policy \in Policies :
            runs = [r \in Runs |-> [NewRun(policy) EXCEPT !.status = Absent]]
    BY DEF Init
  <2>2. [NewRun(policy) EXCEPT !.status = Absent] \in Run
    BY DEF NewRun, Run, Statuses, Absent
  <2>. QED
    BY <2>1, <2>2
<1>2. workers \in [Workers -> Worker]
  BY DEF Init, Worker
<1>3. /\ pc \in [Loops -> Places]
      /\ view \in [Loops -> View \cup Run \cup {Nothing}]
      /\ job \in [Loops -> Job \cup {Nothing}]
      /\ \A w \in Loops : pc[w] = "idle"
  BY DEF Init, Places
<1>4. /\ steps \in [Runs -> [1..LastStep -> {"none", "running", "completed", "failed"}]]
      /\ events \in [Runs -> [started : Nat, completed : Nat]]
      /\ continues \in [Runs -> Nat]
      /\ older \subseteq Runs \X Runs /\ codexUp \in BOOLEAN
      /\ request \in Request \cup {Nothing} /\ faults \in 0..MaxFaults
  BY BoundsAreNatural DEF Init
<1>. QED
  BY <1>1, <1>2, <1>3, <1>4 DEF TypeOK, Settling, Executing

\* The actions of a cycle.
LEMMA TypeCycle ==
    ASSUME TypeOK, NEW w \in Loops,
           \/ CycleBegin(w) \/ CycleIdle(w) \/ CycleDispatch(w) \/ CycleDeadlock(w)
           \/ CycleUnavailable(w) \/ RegisterOffline(w)
    PROVE  TypeOK'
<1>1. CASE CycleBegin(w)
  <2>1. [workers EXCEPT ![w] = Registered(@)] \in [Workers -> Worker]
    BY WorkerTypes, LoopsAreWorkers DEF TypeOK
  <2>2. [runs |-> runs, older |-> older,
         workers |-> [workers EXCEPT ![w] = Registered(@)]] \in View
    BY <2>1 DEF TypeOK, View
  <2>. QED
    BY <1>1, <2>2 DEF TypeOK, CycleBegin, Goto, Sees, tables, Places, Settling, Executing
<1>2. CASE CycleIdle(w)
  <2>1. view[w] \in View
    BY <1>2 DEF CycleIdle, TypeOK
  <2>. QED
    BY <1>2, <2>1, CycleTypes, EnqueuedType
    DEF TypeOK, CycleIdle, EndIteration, Goto, Sees, Places, Settling, Executing
<1>3. CASE CycleDispatch(w)
  <2>. DEFINE v == view[w]
  <2>1. v \in View
    BY <1>3 DEF CycleDispatch, TypeOK
  <2>2. PICK x \in FirstIdle(v), r \in Candidates(v) :
              /\ runs' = [StaleSettled(v) EXCEPT ![r] = FlushDispatch(@, RunsSeen(v)[r], x)]
              /\ workers' = [StaleFreed(w, v) EXCEPT ![x] = Busy(@, r)]
              /\ events' = [events EXCEPT ![r].started = @ + 1]
              /\ steps' = [steps EXCEPT ![r][1] = "running"]
              /\ job' = [job EXCEPT ![w] = [run |-> r, as |-> x, step |-> 1]]
    BY <1>3 DEF CycleDispatch
  <2>3. x \in Workers /\ r \in Runs
    BY <2>1, CycleTypes
  <2>4. runs' \in [Runs -> Run]
    BY <2>1, <2>2, <2>3, CycleTypes, FlushDispatchType
  <2>5. workers' \in [Workers -> Worker]
    <3>1. StaleFreed(w, v) \in [Workers -> Worker]
      BY <2>1, CycleTypes
    <3>2. Busy(StaleFreed(w, v)[x], r) \in Worker
      BY <2>3, <3>1, WorkerTypes DEF TypeOK
    <3>. QED
      BY <2>2, <3>1, <3>2
  <2>6. events' \in [Runs -> [started : Nat, completed : Nat]]
    BY <2>2, <2>3, EventTypes DEF TypeOK
  <2>7. steps' \in [Runs -> [1..LastStep -> {"none", "running", "completed", "failed"}]]
    BY <2>2, <2>3 DEF TypeOK
  <2>8. job' \in [Loops -> Job \cup {Nothing}] /\ job'[w] \in Job
    BY <2>2, <2>3, LastStepIsPositive DEF TypeOK, Job
  <2>9. older' \subseteq Runs \X Runs
    BY <1>3, <2>1, CycleTypes, EnqueuedType DEF TypeOK, CycleDispatch
  <2>. QED
    BY <1>3, <2>2, <2>4, <2>5, <2>6, <2>7, <2>8, <2>9
    DEF TypeOK, CycleDispatch, Goto, Sees, Places, Settling, Executing
<1>4. CASE CycleDeadlock(w)
  BY <1>4 DEF TypeOK, CycleDeadlock, EndIteration, Goto, Sees, tables, Places, Settling,
              Executing
<1>5. CASE CycleUnavailable(w)
  <2>. DEFINE v == view[w]
              seen(r, x) == Dispatched(RunsSeen(v)[r], x)
  <2>1. v \in View
    BY <1>5 DEF CycleUnavailable, TypeOK
  <2>2. PICK x \in FirstIdle(v), r \in Candidates(v) :
             /\ runs' = [StaleSettled(v) EXCEPT
                   ![r] = Flush(FlushDispatch(@, RunsSeen(v)[r], x), seen(r, x),
                                FailureOutcome(seen(r, x)))]
             /\ older' = Enqueued(older, StaleRequeued(v)
                            \cup (IF RetriesLeft(seen(r, x)) THEN {r} ELSE {}))
             /\ events' = [events EXCEPT ![r].started = @ + 1]
             /\ workers' = [StaleFreed(w, v) EXCEPT
                   ![x] = [Freed EXCEPT !.status = "OFFLINE"]]
    BY <1>5 DEF CycleUnavailable
  <2>3. x \in Workers /\ r \in Runs
    BY <2>1, CycleTypes
  <2>4. RunsSeen(v)[r] \in Run /\ seen(r, x) \in Run /\ StaleSettled(v)[r] \in Run
    BY <2>1, <2>3, CycleTypes, DispatchedType
  <2>5. runs' \in [Runs -> Run]
    <3>1. FlushDispatch(StaleSettled(v)[r], RunsSeen(v)[r], x) \in Run
      BY <2>3, <2>4, FlushDispatchType
    <3>2. FailureOutcome(seen(r, x)) \in Run
      BY <2>4, OutcomeTypes
    <3>. QED
      BY <2>1, <2>2, <2>3, <2>4, <3>1, <3>2, CycleTypes, FlushType
  <2>6. workers' \in [Workers -> Worker]
    <3>1. [Freed EXCEPT !.status = "OFFLINE"] \in Worker
      BY DEF Freed, Worker
    <3>. QED
      BY <2>1, <2>2, <2>3, <3>1, CycleTypes
  <2>7. events' \in [Runs -> [started : Nat, completed : Nat]]
    BY <2>2, <2>3, EventTypes DEF TypeOK
  <2>8. older' \subseteq Runs \X Runs
    BY <2>1, <2>2, <2>3, CycleTypes, EnqueuedType DEF TypeOK
  <2>9. codexUp' \in BOOLEAN /\ faults' \in 0..MaxFaults
    <3>1. codexUp' = FALSE /\ faults' = faults + 1 /\ faults < MaxFaults
      BY <1>5 DEF CycleUnavailable
    <3>. QED
      BY <3>1, OneMoreFault
  <2>. QED
    BY <1>5, <2>5, <2>6, <2>7, <2>8, <2>9
    DEF TypeOK, CycleUnavailable, EndIteration, Goto, Sees, Places, Settling, Executing
<1>6. CASE RegisterOffline(w)
  <2>1. workers' \in [Workers -> Worker]
    BY <1>6, LoopsAreWorkers, WorkerTypes DEF TypeOK, RegisterOffline
  <2>. QED
    BY <1>6, <2>1 DEF TypeOK, RegisterOffline
<1>. QED
  BY <1>1, <1>2, <1>3, <1>4, <1>5, <1>6

\* The steps of a run and the transactions that settle it.
LEMMA TypeExecution ==
    ASSUME TypeOK, NEW w \in Loops,
           \/ StartStep(w) \/ FinishStep(w) \/ RefuseStep(w) \/ FailStep(w) \/ BlockStep(w)
           \/ CompleteRun(w) \/ CompleteRefused(w) \/ HandleFailure(w) \/ MarkBlocked(w)
    PROVE  TypeOK'
<1>. DEFINE r == job[w].run
            x == job[w].as
<1>1. /\ pc[w] \in Executing
      /\ job[w] \in Job /\ r \in Runs /\ x \in Workers
  BY DEF StartStep, FinishStep, RefuseStep, FailStep, BlockStep, StepEnds, CompleteRun,
         CompleteRefused, HandleFailure, MarkBlocked, TypeOK, Job, Executing, Settling
<1>2. ASSUME Heartbeat(w)
      PROVE  runs' \in [Runs -> Run] /\ workers' \in [Workers -> Worker]
  <2>1. [runs[r] EXCEPT !.heartbeat = "fresh"] \in Run
    <3>1. runs[r] \in Run
      BY <1>1 DEF TypeOK
    <3>. QED
      BY <3>1 DEF Run
  <2>2. Beating(workers[x]) \in Worker
    BY <1>1, WorkerTypes DEF TypeOK
  <2>. QED
    BY <1>1, <1>2, <2>1, <2>2 DEF TypeOK, Heartbeat
<1>3. ASSUME NEW status \in {"running", "completed", "failed"}, ReportStep(w, status)
      PROVE  steps' \in [Runs -> [1..LastStep -> {"none", "running", "completed", "failed"}]]
  BY <1>1, <1>3 DEF TypeOK, ReportStep, Job
<1>4. ASSUME NEW freed \in SUBSET Workers, Settle(w, freed)
      PROVE  /\ workers' \in [Workers -> Worker]
             /\ pc' \in [Loops -> Places]
             /\ view' \in [Loops -> View \cup Run \cup {Nothing}]
             /\ job' \in [Loops -> Job \cup {Nothing}]
             /\ pc'[w] = "idle"
             /\ \A u \in Loops \ {w} : /\ pc'[u] = pc[u] /\ view'[u] = view[u]
                                       /\ job'[u] = job[u]
  <2>1. Freed \in Worker
    BY DEF Freed, Worker
  <2>. QED
    BY <1>4, <2>1 DEF TypeOK, Settle, EndIteration, Goto, Sees, Places
<1>5. CASE StartStep(w)
  BY <1>1, <1>2, <1>3, <1>5
  DEF TypeOK, StartStep, Goto, Places, Executing, Settling
<1>6. CASE FinishStep(w)
  <2>1. /\ runs' \in [Runs -> Run] /\ workers' \in [Workers -> Worker]
        /\ steps' \in [Runs -> [1..LastStep -> {"none", "running", "completed", "failed"}]]
    BY <1>2, <1>3, <1>6 DEF FinishStep
  <2>2. CASE job[w].step < LastStep
    <3>1. job[w].step \in 1..LastStep /\ job[w].step + 1 \in 1..LastStep
      BY <1>1, <2>2, LastStepIsPositive DEF Job
    <3>2. [job[w] EXCEPT !.step = @ + 1] \in Job
      BY <1>1, <3>1 DEF Job
    <3>. QED
      BY <1>6, <2>1, <2>2, <3>2
      DEF TypeOK, FinishStep, Goto, Places, Executing, Settling
  <2>3. CASE ~(job[w].step < LastStep)
    <3>1. runs'[r] \in Run
      BY <1>1, <2>1
    <3>. QED
      BY <1>1, <1>6, <2>1, <2>3, <3>1
      DEF TypeOK, FinishStep, Goto, Sees, Places, Executing, Settling
  <2>. QED
    BY <2>2, <2>3
<1>7. CASE RefuseStep(w) \/ CompleteRefused(w)
  BY <1>1, <1>7
  DEF TypeOK, RefuseStep, CompleteRefused, BeginFailure, tables, Goto, Sees, Places, Executing,
      Settling
<1>8. CASE FailStep(w) \/ BlockStep(w)
  <2>1. PICK place \in {"fail", "block"} : StepEnds(w, place)
    BY <1>8 DEF FailStep, BlockStep
  <2>2. /\ runs' \in [Runs -> Run] /\ workers' \in [Workers -> Worker]
        /\ steps' \in [Runs -> [1..LastStep -> {"none", "running", "completed", "failed"}]]
    <3>1. CASE job[w].step < LastStep
      BY <1>2, <1>3, <2>1, <3>1 DEF StepEnds
    <3>2. CASE ~(job[w].step < LastStep)
      BY <2>1, <3>2 DEF StepEnds, TypeOK
    <3>. QED
      BY <3>1, <3>2
  <2>3. runs'[r] \in Run
    BY <1>1, <2>2
  <2>. QED
    BY <1>1, <2>1, <2>2, <2>3
    DEF TypeOK, StepEnds, Goto, Sees, Places, Executing, Settling
<1>9. CASE CompleteRun(w)
  <2>1. view[w] \in Run
    BY <1>9 DEF TypeOK, CompleteRun, Settling
  <2>2. {view[w].worker} \ {NoWorker} \in SUBSET Workers
    BY <2>1 DEF Run
  <2>3. runs' \in [Runs -> Run]
    <3>1. Flush(runs[r], view[w], Completed(view[w])) \in Run
      BY <1>1, <2>1, FlushType, OutcomeTypes DEF TypeOK
    <3>. QED
      BY <1>1, <1>9, <3>1 DEF TypeOK, CompleteRun
  <2>4. events' \in [Runs -> [started : Nat, completed : Nat]]
    BY <1>1, <1>9, EventTypes DEF TypeOK, CompleteRun
  <2>. QED
    BY <1>4, <1>9, <2>2, <2>3, <2>4 DEF TypeOK, CompleteRun, Settling, Executing
<1>10. CASE HandleFailure(w)
  <2>1. view[w] \in Run
    BY <1>10 DEF TypeOK, HandleFailure, Settling
  <2>2. runs' \in [Runs -> Run]
    <3>1. Flush(runs[r], view[w], FailureOutcome(view[w])) \in Run
      BY <1>1, <2>1, FlushType, OutcomeTypes DEF TypeOK
    <3>. QED
      BY <1>1, <1>10, <3>1 DEF TypeOK, HandleFailure
  <2>3. older' \subseteq Runs \X Runs
    BY <1>1, <1>10, EnqueuedType DEF TypeOK, HandleFailure
  <2>4. {x} \in SUBSET Workers
    BY <1>1
  <2>. QED
    BY <1>4, <1>10, <2>2, <2>3, <2>4 DEF TypeOK, HandleFailure, Settling, Executing
<1>11. CASE MarkBlocked(w)
  <2>1. view[w] \in Run
    BY <1>11 DEF TypeOK, MarkBlocked, Settling
  <2>2. runs' \in [Runs -> Run]
    <3>1. Flush(runs[r], view[w], BlockedOutcome(view[w])) \in Run
      BY <1>1, <2>1, FlushType, OutcomeTypes DEF TypeOK
    <3>. QED
      BY <1>1, <1>11, <3>1 DEF TypeOK, MarkBlocked
  <2>3. {x} \in SUBSET Workers
    BY <1>1
  <2>. QED
    BY <1>4, <1>11, <2>2, <2>3 DEF TypeOK, MarkBlocked, Settling, Executing
<1>. QED
  BY <1>5, <1>6, <1>7, <1>8, <1>9, <1>10, <1>11

\* Faults, time and users.
LEMMA TypeRest ==
    ASSUME TypeOK,
           \/ \E w \in Loops : Abort(w) \/ Crash(w) \/ Restart(w)
           \/ Environment
           \/ Users
    PROVE  TypeOK'
<1>1. ASSUME NEW w \in Loops, Abort(w)
      PROVE  TypeOK'
  <2>1. faults' \in 0..MaxFaults
    BY <1>1, OneMoreFault DEF Abort
  <2>2. CASE pc[w] \in {"start", "body", "complete"} /\ BeginFailure(w) /\ job' = job
    <3>1. runs[job[w].run] \in Run /\ job[w] \in Job
      BY <2>2 DEF TypeOK, Job, Executing, Settling
    <3>. QED
      BY <1>1, <2>1, <2>2, <3>1
      DEF TypeOK, Abort, BeginFailure, Goto, Sees, tables, Places, Executing, Settling
  <2>3. CASE pc[w] \in {"cycle", "fail", "block"} /\ EndIteration(w)
    BY <1>1, <2>1, <2>3
    DEF TypeOK, Abort, EndIteration, Goto, Sees, tables, Places, Executing, Settling
  <2>. QED
    BY <1>1, <2>2, <2>3 DEF Abort
<1>2. ASSUME NEW w \in Loops, Crash(w)
      PROVE  TypeOK'
  <2>1. faults' \in 0..MaxFaults
    BY <1>2, OneMoreFault DEF Crash
  <2>. QED
    BY <1>2, <2>1 DEF TypeOK, Crash, Goto, Sees, tables, Places, Executing, Settling
<1>3. ASSUME NEW w \in Loops, Restart(w)
      PROVE  TypeOK'
  BY <1>3 DEF TypeOK, Restart, Goto, tables, Places, Executing, Settling
<1>4. CASE CodexFails \/ CodexRecovers
  <2>1. faults' \in 0..MaxFaults
    BY <1>4, OneMoreFault DEF CodexFails, CodexRecovers, TypeOK
  <2>. QED
    BY <1>4, <2>1 DEF TypeOK, CodexFails, CodexRecovers, tables
<1>5. ASSUME NEW r \in Runs, RunAges(r)
      PROVE  TypeOK'
  <2>1. [runs[r] EXCEPT !.heartbeat = "stale"] \in Run
    <3>1. runs[r] \in Run
      BY DEF TypeOK
    <3>. QED
      BY <3>1 DEF Run
  <2>. QED
    BY <1>5, <2>1 DEF TypeOK, RunAges
<1>6. ASSUME NEW x \in Workers, WorkerAges(x)
      PROVE  TypeOK'
  <2>1. [workers[x] EXCEPT !.heartbeat = "stale"] \in Worker
    BY DEF TypeOK, Worker
  <2>. QED
    BY <1>6, <2>1 DEF TypeOK, WorkerAges
<1>7. ASSUME NEW r \in Runs, NEW policy \in Policies, Insert(r, policy)
      PROVE  TypeOK'
  BY <1>7, NewRunType, EnqueuedType DEF TypeOK, Insert
<1>8. ASSUME NEW op \in {"pause", "continue", "cancel"}, NEW r \in Runs, ReceiveRequest(op, r)
      PROVE  TypeOK'
  BY <1>8 DEF TypeOK, ReceiveRequest, Request, tables
<1>9. CASE PauseRun \/ CancelRun \/ ContinueRun
  <2>1. request \in Request
    BY <1>9 DEF TypeOK, PauseRun, CancelRun, ContinueRun, ServeRequest
  <2>2. PICK written \in Run :
           runs' = [runs EXCEPT ![request.run] = Flush(@, request.seen, written)]
    BY <1>9, <2>1, OutcomeTypes DEF PauseRun, CancelRun, ContinueRun, ServeRequest, Request
  <2>3. runs' \in [Runs -> Run]
    BY <2>1, <2>2, FlushType DEF TypeOK, Request
  <2>4. older' \subseteq Runs \X Runs /\ continues' \in [Runs -> Nat]
    <3>1. CASE PauseRun \/ CancelRun
      BY <3>1 DEF PauseRun, CancelRun, TypeOK
    <3>2. CASE ContinueRun
      <4>1. request.run \in Runs
        BY <2>1 DEF Request
      <4>2. continues[request.run] + 1 \in Nat
        BY <4>1 DEF TypeOK
      <4>. QED
        BY <3>2, <4>1, <4>2, EnqueuedType DEF ContinueRun, TypeOK
    <3>. QED
      BY <1>9, <3>1, <3>2
  <2>. QED
    BY <1>9, <2>3, <2>4 DEF TypeOK, PauseRun, CancelRun, ContinueRun, ServeRequest
<1>10. CASE \E r, copy \in Runs : RetryRun(r, copy)
  <2>1. PICK r \in Runs, copy \in Runs : RetryRun(r, copy)
    BY <1>10
  <2>2. runs[r].policy \in Policies
    BY DEF TypeOK, Run
  <2>. QED
    BY <1>7, <2>1, <2>2 DEF RetryRun
<1>. QED
  BY <1>1, <1>2, <1>3, <1>4, <1>5, <1>6, <1>7, <1>8, <1>9, <1>10
  DEF Environment, Users, SubmitRun

LEMMA TypeStutter == TypeOK /\ UNCHANGED vars => TypeOK'
BY DEF TypeOK, vars, tables

\* Every variable keeps its type, whatever the number of loops.
THEOREM TypeCorrect == Spec => []TypeOK
<1>1. TypeOK /\ [Next]_vars => TypeOK'
  <2>1. ASSUME TypeOK, NEW w \in Loops,
               LoopStep(w) \/ RegisterOffline(w) \/ Restart(w) \/ Fault(w)
        PROVE  TypeOK'
    BY <2>1, TypeCycle, TypeExecution, TypeRest DEF LoopStep, Fault
  <2>. QED
    BY <2>1, TypeRest, TypeStutter DEF Next
<1>. QED
  BY <1>1, TypeInit, PTL DEF Spec

-----------------------------------------------------------------------------
(* No run is lost.  RunningIsRecoverable is not inductive: a failure or a  *)
(* continuation empties heartbeat_at, and writes the status QUEUED with it *)
(* only if that is not the status it has read.  What makes it hold is that *)
(* a status read as QUEUED cannot have become RUNNING since, which takes   *)
(* another loop, and that continue reads a BLOCKED run.                    *)

OneLoop == \A v, w \in Loops : v = w

FailureSawRunning ==
    \A w \in Loops :
        pc[w] = "fail" /\ runs[job[w].run].status = "RUNNING" => view[w].status = "RUNNING"

ContinueSawBlocked ==
    request # Nothing /\ request.op = "continue" => request.seen.status = "BLOCKED"

RecoveryInv == RunningIsRecoverable /\ FailureSawRunning /\ ContinueSawBlocked

Recoverable(row) == row.status = "RUNNING" => row.heartbeat # "none"

\* A flush that empties the heartbeat of a run read as RUNNING, or that leaves the
\* heartbeat as read, does not make the run unrecoverable.
LEMMA FlushRecoverable ==
    ASSUME NEW c \in Run, NEW s \in Run, NEW n \in Run, Recoverable(c),
           n.status # "RUNNING" \/ s.status = "RUNNING",
           \/ n.heartbeat = s.heartbeat
           \/ n.status # s.status
           \/ c.status # "RUNNING"
    PROVE  /\ Recoverable(Flush(c, s, n))
           /\ Flush(c, s, n).status = "RUNNING" => c.status = "RUNNING"
BY DEF Flush, Recoverable, Run

\* The settling of stale runs and the dispatch.
LEMMA RecoverCycle ==
    ASSUME TypeOK, RecoveryInv, OneLoop, NEW w \in Loops,
           \/ CycleBegin(w) \/ CycleIdle(w) \/ CycleDispatch(w) \/ CycleDeadlock(w)
           \/ CycleUnavailable(w) \/ RegisterOffline(w)
    PROVE  RecoveryInv'
<1>. DEFINE v == view[w]
<1>1. pc'[w] # "fail" /\ \A u \in Loops : u = w
  <2>1. pc \in [Loops -> Places]
    BY DEF TypeOK
  <2>2. CASE CycleBegin(w) \/ CycleDispatch(w)
    BY <2>1, <2>2 DEF OneLoop, CycleBegin, CycleDispatch, Goto
  <2>3. CASE CycleIdle(w) \/ CycleDeadlock(w) \/ CycleUnavailable(w)
    BY <2>1, <2>3 DEF OneLoop, CycleIdle, CycleDeadlock, CycleUnavailable, EndIteration, Goto
  <2>4. CASE RegisterOffline(w)
    BY <2>4 DEF OneLoop, RegisterOffline
  <2>. QED
    BY <2>2, <2>3, <2>4
<1>2. FailureSawRunning' /\ ContinueSawBlocked'
  <2>1. UNCHANGED request
    BY DEF CycleBegin, CycleIdle, CycleDispatch, CycleDeadlock, CycleUnavailable,
           RegisterOffline
  <2>. QED
    BY <1>1, <2>1 DEF RecoveryInv, FailureSawRunning, ContinueSawBlocked
<1>3. CASE CycleBegin(w) \/ CycleDeadlock(w) \/ RegisterOffline(w)
  BY <1>2, <1>3
  DEF RecoveryInv, RunningIsRecoverable, CycleBegin, CycleDeadlock, RegisterOffline, tables
<1>4. ASSUME v \in View
      PROVE  \A r \in Runs : Recoverable(StaleSettled(v)[r])
  <2>. SUFFICES ASSUME NEW r \in Runs
                PROVE  Recoverable(StaleSettled(v)[r])
    OBVIOUS
  <2>1. /\ runs[r] \in Run /\ v.runs[r] \in Run /\ Recoverable(runs[r])
        /\ StaleOutcome(v.runs[r]) \in Run
    BY <1>4, OutcomeTypes
    DEF TypeOK, View, RecoveryInv, RunningIsRecoverable, Recoverable
  <2>2. CASE r \in StaleRuns(v)
    <3>1. v.runs[r].status = "RUNNING"
      BY <2>2 DEF StaleRuns
    <3>2. StaleOutcome(v.runs[r]).status # "RUNNING"
      BY <2>1 DEF StaleOutcome, Requeued, Run
    <3>. QED
      BY <2>1, <2>2, <3>1, <3>2, FlushRecoverable DEF StaleSettled
  <2>3. CASE r \notin StaleRuns(v)
    BY <2>1, <2>3 DEF StaleSettled
  <2>. QED
    BY <2>2, <2>3
<1>5. CASE CycleIdle(w)
  <2>1. v \in View
    BY <1>5 DEF CycleIdle, TypeOK
  <2>. QED
    BY <1>2, <1>4, <1>5, <2>1
    DEF RecoveryInv, RunningIsRecoverable, Recoverable, CycleIdle
<1>6. CASE CycleDispatch(w)
  <2>1. v \in View
    BY <1>6 DEF CycleDispatch, TypeOK
  <2>2. PICK x \in FirstIdle(v), r \in Candidates(v) :
            runs' = [StaleSettled(v) EXCEPT ![r] = FlushDispatch(@, RunsSeen(v)[r], x)]
    BY <1>6 DEF CycleDispatch
  <2>3. r \in Runs /\ StaleSettled(v) \in [Runs -> Run]
    BY <2>1, CycleTypes
  <2>4. FlushDispatch(StaleSettled(v)[r], RunsSeen(v)[r], x).heartbeat = "fresh"
    BY DEF FlushDispatch, Flush
  <2>. QED
    BY <1>2, <1>4, <2>1, <2>2, <2>3, <2>4
    DEF RecoveryInv, RunningIsRecoverable, Recoverable
<1>7. CASE CycleUnavailable(w)
  <2>. DEFINE seen(r, x) == Dispatched(RunsSeen(v)[r], x)
  <2>1. v \in View
    BY <1>7 DEF CycleUnavailable, TypeOK
  <2>2. PICK x \in FirstIdle(v), r \in Candidates(v) :
            runs' = [StaleSettled(v) EXCEPT
                   ![r] = Flush(FlushDispatch(@, RunsSeen(v)[r], x), seen(r, x),
                                FailureOutcome(seen(r, x)))]
    BY <1>7 DEF CycleUnavailable
  <2>3. r \in Runs /\ x \in Workers /\ StaleSettled(v) \in [Runs -> Run]
        /\ RunsSeen(v)[r] \in Run
    BY <2>1, CycleTypes
  <2>4. seen(r, x).status = "RUNNING" /\ FailureOutcome(seen(r, x)).status # "RUNNING"
    BY <2>3, DispatchedType DEF Dispatched, FailureOutcome, Requeued, Run
  <2>5. runs'[r].status # "RUNNING"
    BY <2>2, <2>3, <2>4 DEF Flush
  <2>. QED
    BY <1>2, <1>4, <2>1, <2>2, <2>3, <2>5
    DEF RecoveryInv, RunningIsRecoverable, Recoverable
<1>. QED
  BY <1>3, <1>5, <1>6, <1>7

\* The steps of a run and the transactions that settle it.
LEMMA RecoverExecution ==
    ASSUME TypeOK, TypeOK', RecoveryInv, OneLoop, NEW w \in Loops,
           \/ StartStep(w) \/ FinishStep(w) \/ RefuseStep(w) \/ FailStep(w) \/ BlockStep(w)
           \/ CompleteRun(w) \/ CompleteRefused(w) \/ HandleFailure(w) \/ MarkBlocked(w)
    PROVE  RecoveryInv'
<1>. DEFINE r == job[w].run
<1>1. /\ job[w] \in Job /\ r \in Runs /\ runs[r] \in Run /\ Recoverable(runs[r])
      /\ pc[w] \in Settling => view[w] \in Run
      /\ \A u \in Loops : u = w
  BY DEF StartStep, FinishStep, RefuseStep, FailStep, BlockStep, StepEnds, CompleteRun,
         CompleteRefused, HandleFailure, MarkBlocked, TypeOK, Job, Executing, Settling,
         RecoveryInv, RunningIsRecoverable, Recoverable, OneLoop
<1>2. ContinueSawBlocked'
  BY DEF StartStep, FinishStep, RefuseStep, FailStep, BlockStep, StepEnds, CompleteRun,
         CompleteRefused, HandleFailure, MarkBlocked, RecoveryInv, ContinueSawBlocked
<1>3. ASSUME Heartbeat(w)
      PROVE  RunningIsRecoverable'
  BY <1>1, <1>3 DEF Heartbeat, RecoveryInv, RunningIsRecoverable, TypeOK
<1>4. CASE StartStep(w)
  <2>1. pc'[w] # "fail"
    BY <1>4 DEF StartStep, Goto, TypeOK
  <2>. QED
    BY <1>1, <1>2, <1>3, <1>4, <2>1 DEF StartStep, RecoveryInv, FailureSawRunning
<1>5. CASE FinishStep(w)
  <2>1. pc'[w] # "fail"
    BY <1>5 DEF FinishStep, Goto, TypeOK
  <2>. QED
    BY <1>1, <1>2, <1>3, <1>5, <2>1 DEF FinishStep, RecoveryInv, FailureSawRunning
<1>6. CASE RefuseStep(w) \/ CompleteRefused(w)
  <2>1. /\ UNCHANGED <<runs, job>> /\ view'[w] = runs[r]
    BY <1>6 DEF RefuseStep, CompleteRefused, BeginFailure, Sees, tables, TypeOK
  <2>. QED
    BY <1>1, <1>2, <2>1 DEF RecoveryInv, RunningIsRecoverable, FailureSawRunning
<1>7. CASE FailStep(w) \/ BlockStep(w)
  <2>1. PICK place \in {"fail", "block"} : StepEnds(w, place)
    BY <1>7 DEF FailStep, BlockStep
  <2>2. UNCHANGED job /\ view'[w] = runs'[r]
    BY <2>1 DEF StepEnds, Sees, TypeOK
  <2>3. RunningIsRecoverable'
    BY <1>3, <2>1 DEF StepEnds, RecoveryInv, RunningIsRecoverable
  <2>. QED
    BY <1>1, <1>2, <2>2, <2>3 DEF RecoveryInv, FailureSawRunning
<1>. DEFINE Settles(n) ==
              /\ pc[w] \in Settling /\ pc'[w] = "idle"
              /\ runs' = [runs EXCEPT ![r] = Flush(@, view[w], n)]
              /\ n.status # "RUNNING" \/ view[w].status = "RUNNING"
              /\ \/ n.heartbeat = view[w].heartbeat
                 \/ n.status # view[w].status
                 \/ runs[r].status # "RUNNING"
<1>8. ASSUME NEW n \in Run, Settles(n)
      PROVE  RecoveryInv'
  <2>1. Recoverable(Flush(runs[r], view[w], n))
    BY <1>1, <1>8, FlushRecoverable
  <2>. QED
    BY <1>1, <1>2, <1>8, <2>1
    DEF RecoveryInv, RunningIsRecoverable, FailureSawRunning, Recoverable, TypeOK
<1>9. CASE CompleteRun(w)
  <2>1. /\ Completed(view[w]) \in Run /\ Completed(view[w]).status # "RUNNING"
        /\ Completed(view[w]).heartbeat = view[w].heartbeat
    <3>1. view[w] \in Run
      BY <1>1, <1>9 DEF CompleteRun, Settling
    <3>2. /\ Completed(view[w]).status # "RUNNING"
          /\ Completed(view[w]).heartbeat = view[w].heartbeat
      BY <3>1 DEF Completed, Run
    <3>. QED
      BY <3>1, <3>2, OutcomeTypes
  <2>2. Settles(Completed(view[w]))
    BY <1>9, <2>1 DEF CompleteRun, Settle, EndIteration, Goto, Settling, TypeOK
  <2>. HIDE DEF Settles
  <2>. QED
    BY <1>8, <2>1, <2>2
<1>10. CASE HandleFailure(w)
  <2>1. FailureOutcome(view[w]) \in Run /\ FailureOutcome(view[w]).status # "RUNNING"
    <3>1. view[w] \in Run
      BY <1>1, <1>10 DEF HandleFailure, Settling
    <3>2. FailureOutcome(view[w]).status # "RUNNING"
      BY <3>1 DEF FailureOutcome, Requeued, Run
    <3>. QED
      BY <3>1, <3>2, OutcomeTypes
  <2>2. runs[r].status = "RUNNING" => view[w].status = "RUNNING"
    BY <1>10 DEF HandleFailure, RecoveryInv, FailureSawRunning
  <2>3. pc[w] \in Settling /\ pc'[w] = "idle"
    BY <1>10 DEF HandleFailure, Settle, EndIteration, Goto, Settling, TypeOK
  <2>4. runs' = [runs EXCEPT ![r] = Flush(@, view[w], FailureOutcome(view[w]))]
    BY <1>10 DEF HandleFailure
  <2>5. Settles(FailureOutcome(view[w]))
    BY <2>1, <2>2, <2>3, <2>4
  <2>. HIDE DEF Settles
  <2>. QED
    BY <1>8, <2>1, <2>5
<1>11. CASE MarkBlocked(w)
  <2>1. /\ BlockedOutcome(view[w]) \in Run /\ BlockedOutcome(view[w]).status # "RUNNING"
        /\ BlockedOutcome(view[w]).heartbeat = view[w].heartbeat
    <3>1. view[w] \in Run
      BY <1>1, <1>11 DEF MarkBlocked, Settling
    <3>2. /\ BlockedOutcome(view[w]).status # "RUNNING"
          /\ BlockedOutcome(view[w]).heartbeat = view[w].heartbeat
      BY <3>1 DEF BlockedOutcome, Run
    <3>. QED
      BY <3>1, <3>2, OutcomeTypes
  <2>2. Settles(BlockedOutcome(view[w]))
    BY <1>11, <2>1 DEF MarkBlocked, Settle, EndIteration, Goto, Settling, TypeOK
  <2>. HIDE DEF Settles
  <2>. QED
    BY <1>8, <2>1, <2>2
<1>. QED
  BY <1>4, <1>5, <1>6, <1>7, <1>9, <1>10, <1>11

\* Faults, time and users.
LEMMA RecoverRest ==
    ASSUME TypeOK, TypeOK', RecoveryInv, OneLoop,
           \/ \E w \in Loops : Abort(w) \/ Crash(w) \/ Restart(w)
           \/ Environment
           \/ Users
    PROVE  RecoveryInv'
<1>1. ASSUME NEW w \in Loops, Abort(w) \/ Crash(w) \/ Restart(w)
      PROVE  RecoveryInv'
  <2>1. UNCHANGED <<runs, request>> /\ \A u \in Loops : u = w
    BY <1>1 DEF Abort, Crash, Restart, tables, OneLoop
  <2>2. pc'[w] = "fail" => UNCHANGED job /\ view'[w] = runs[job[w].run]
    <3>1. CASE Abort(w)
      BY <3>1 DEF Abort, BeginFailure, EndIteration, Goto, Sees, TypeOK
    <3>2. CASE Crash(w) \/ Restart(w)
      BY <3>2 DEF Crash, Restart, Goto, TypeOK
    <3>. QED
      BY <1>1, <3>1, <3>2
  <2>. QED
    BY <2>1, <2>2
    DEF RecoveryInv, RunningIsRecoverable, FailureSawRunning, ContinueSawBlocked
<1>2. CASE CodexFails \/ CodexRecovers \/ \E x \in Workers : WorkerAges(x)
  BY <1>2
  DEF CodexFails, CodexRecovers, WorkerAges, tables, RecoveryInv, RunningIsRecoverable,
      FailureSawRunning, ContinueSawBlocked
<1>3. ASSUME NEW r \in Runs, RunAges(r)
      PROVE  RecoveryInv'
  BY <1>3
  DEF RunAges, RecoveryInv, RunningIsRecoverable, FailureSawRunning, ContinueSawBlocked,
      TypeOK, Run
<1>4. ASSUME NEW r \in Runs, NEW policy \in Policies, Insert(r, policy)
      PROVE  RecoveryInv'
  BY <1>4
  DEF Insert, NewRun, RecoveryInv, RunningIsRecoverable, FailureSawRunning,
      ContinueSawBlocked, TypeOK
<1>5. ASSUME NEW op \in {"pause", "continue", "cancel"}, NEW r \in Runs, ReceiveRequest(op, r)
      PROVE  RecoveryInv'
  BY <1>5
  DEF ReceiveRequest, tables, RecoveryInv, RunningIsRecoverable, FailureSawRunning,
      ContinueSawBlocked
<1>6. CASE PauseRun \/ CancelRun \/ ContinueRun
  <2>. DEFINE r == request.run
              s == request.seen
  <2>1. /\ request \in Request /\ r \in Runs /\ s \in Run /\ runs[r] \in Run
        /\ Recoverable(runs[r])
    BY <1>6 DEF TypeOK, PauseRun, CancelRun, ContinueRun, ServeRequest, Request,
                RecoveryInv, RunningIsRecoverable, Recoverable
  <2>2. PICK n \in Run :
           /\ runs' = [runs EXCEPT ![r] = Flush(@, s, n)]
           /\ n.status # "RUNNING" \/ s.status = "RUNNING"
           /\ n.heartbeat = s.heartbeat \/ n.status # s.status
    <3>1. CASE PauseRun
      <4>1. /\ Paused(s).heartbeat = s.heartbeat
            /\ Paused(s).status # "RUNNING" \/ s.status = "RUNNING"
        BY <2>1 DEF Paused, Run
      <4>2. runs' = [runs EXCEPT ![r] = Flush(@, s, Paused(s))]
        BY <3>1 DEF PauseRun, ServeRequest
      <4>3. Paused(s) \in Run
        BY <2>1, OutcomeTypes
      <4>. USE <4>3
      <4>. WITNESS Paused(s) \in Run
      <4>. QED
        BY <4>1, <4>2
    <3>2. CASE CancelRun
      <4>1. /\ Cancelled(s).heartbeat = s.heartbeat
            /\ Cancelled(s).status # "RUNNING"
        BY <2>1 DEF Cancelled, Run
      <4>2. runs' = [runs EXCEPT ![r] = Flush(@, s, Cancelled(s))]
        BY <3>2 DEF CancelRun, ServeRequest
      <4>3. Cancelled(s) \in Run
        BY <2>1, OutcomeTypes
      <4>. USE <4>3
      <4>. WITNESS Cancelled(s) \in Run
      <4>. QED
        BY <4>1, <4>2
    <3>3. CASE ContinueRun
      <4>1. s.status = "BLOCKED"
        BY <3>3 DEF ContinueRun, ServeRequest, RecoveryInv, ContinueSawBlocked
      <4>2. Continued(s).status = "QUEUED"
        BY <2>1 DEF Continued, Run
      <4>3. runs' = [runs EXCEPT ![r] = Flush(@, s, Continued(s))]
        BY <3>3 DEF ContinueRun, ServeRequest
      <4>4. Continued(s) \in Run
        BY <2>1, OutcomeTypes
      <4>. USE <4>4
      <4>. WITNESS Continued(s) \in Run
      <4>. QED
        BY <4>1, <4>2, <4>3
    <3>. QED
      BY <1>6, <3>1, <3>2, <3>3
  <2>3. /\ Recoverable(Flush(runs[r], s, n))
        /\ Flush(runs[r], s, n).status = "RUNNING" => runs[r].status = "RUNNING"
    BY <2>1, <2>2, FlushRecoverable
  <2>4. UNCHANGED <<pc, view, job>> /\ request' = Nothing
    BY <1>6 DEF PauseRun, CancelRun, ContinueRun, ServeRequest
  <2>. QED
    BY <2>1, <2>2, <2>3, <2>4
    DEF RecoveryInv, RunningIsRecoverable, FailureSawRunning, ContinueSawBlocked, Recoverable,
        TypeOK
<1>7. CASE \E r, copy \in Runs : RetryRun(r, copy)
  <2>1. PICK r \in Runs, copy \in Runs : RetryRun(r, copy)
    BY <1>7
  <2>2. runs[r].policy \in Policies
    BY DEF TypeOK, Run
  <2>. QED
    BY <1>4, <2>1, <2>2 DEF RetryRun
<1>. QED
  BY <1>1, <1>2, <1>3, <1>4, <1>5, <1>6, <1>7
  DEF Environment, Users, SubmitRun

\* With one runtime loop, as the kernel is deployed, every RUNNING run has a
\* heartbeat, whatever crashes, outages and requests come between.
THEOREM NoRunIsLost ==
    ASSUME OneLoop
    PROVE  Spec => []RunningIsRecoverable
<1>1. Init => RecoveryInv
  BY DEF Init, NewRun, RecoveryInv, RunningIsRecoverable, FailureSawRunning,
         ContinueSawBlocked, Absent
<1>2. TypeOK /\ TypeOK' /\ RecoveryInv /\ [Next]_vars => RecoveryInv'
  <2>. SUFFICES ASSUME TypeOK, TypeOK', RecoveryInv, [Next]_vars
                PROVE  RecoveryInv'
    OBVIOUS
  <2>1. ASSUME NEW w \in Loops,
               LoopStep(w) \/ RegisterOffline(w) \/ Restart(w) \/ Fault(w)
        PROVE  RecoveryInv'
    BY <2>1, OneLoop, RecoverCycle, RecoverExecution, RecoverRest DEF LoopStep, Fault
  <2>2. CASE UNCHANGED vars
    BY <2>2 DEF vars, tables, RecoveryInv, RunningIsRecoverable, FailureSawRunning,
                ContinueSawBlocked
  <2>. QED
    BY <2>1, <2>2, OneLoop, RecoverRest DEF Next
<1>3. RecoveryInv => RunningIsRecoverable
  BY DEF RecoveryInv
<1>. QED
  BY <1>1, <1>2, <1>3, TypeCorrect, PTL DEF Spec
=============================================================================
