-------------------------- MODULE RuntimeExecution --------------------------
(***************************************************************************)
(* The runtime of the kernel: the table of runs, the registry of workers,  *)
(* the loops that dispatch and execute runs, and the API requests that     *)
(* submit, pause, continue, cancel and retry them.                         *)
(*                                                                         *)
(* Sources: core/runtime_execution.py, core/runtime_workers.py,            *)
(* core/runtime_loop.py, core/codex_local_worker.py, core/api/runs.py.     *)
(*                                                                         *)
(* The database runs at READ COMMITTED and no row is locked when it is     *)
(* read, so what a transaction writes may rest on values that others have  *)
(* changed since.  A transaction with a read and a later write is two      *)
(* actions here: the first keeps what was read, the second flushes only    *)
(* the columns whose value differs from it (see Flush).                    *)
(***************************************************************************)
EXTENDS Naturals

CONSTANTS
    Runs,           \* identifiers a run can be submitted under
    Workers,        \* worker_id values in runtime_workers, ordered as numbers
    Loops,          \* the workers that a live runtime loop registers
    LastStep,       \* number of steps of a run; the last finalizes its outputs
    Policies,       \* the execution policies runs are submitted with
    Ops,            \* the API operations that users issue
    MaxContinues,   \* bound: how often one run is continued
    MaxFaults       \* bound: crashes, aborted transactions and codex outages

ASSUME LoopsAreWorkers == Workers \subseteq Nat /\ Loops \subseteq Workers
ASSUME LastStepIsPositive == LastStep \in Nat \ {0}
ASSUME PoliciesAreTyped == Policies \subseteq [maxRetries : Nat, review : BOOLEAN]
ASSUME BoundsAreNatural == MaxContinues \in Nat /\ MaxFaults \in Nat

CONSTANTS NoWorker, NoRun, Nothing
ASSUME NullsAreFresh == NoWorker \notin Workers /\ NoRun \notin Runs

VARIABLES
    runs,       \* the committed table runs
    steps,      \* the latest row of every step of a run
    older,      \* <<r, s>>: the queued_at of r is before that of s
    workers,    \* the committed table runtime_workers
    codexUp,    \* does check_codex_availability succeed
    events,     \* how many run.started and run.completed events were published
    continues,  \* how often a run was continued
    pc,         \* where each loop is
    view,       \* what the open transaction of a loop has read
    job,        \* the run a loop is executing
    request,    \* the API request being served
    faults      \* how many faults there have been

tables == <<runs, steps, older, workers, events, continues>>
vars == <<tables, codexUp, pc, view, job, request, faults>>

Absent == "ABSENT"
Statuses == {"QUEUED", "RUNNING", "COMPLETED", "FAILED", "BLOCKED", "CANCELLED"}
TerminalStatuses == {"COMPLETED", "FAILED", "BLOCKED", "CANCELLED"}

-----------------------------------------------------------------------------
(* Types.                                                                  *)

\* The columns of a run that the runtime decides by.  "stale" stands for a
\* heartbeat_at older than the 30 seconds of handle_stale_heartbeats.
Run == [status : Statuses \cup {Absent},
        worker : Workers \cup {NoWorker},
        heartbeat : {"none", "fresh", "stale"},
        attempt : Nat,
        failure : {"none", "worker_unresponsive", "error"},
        escalation : {"none", "paused_by_user", "review_stale", "review_failed",
                      "blocked"},
        paused : BOOLEAN,        \* runtime_controls.pause_requested
        policy : Policies]

\* "stale" stands for a last_heartbeat outside the 90 seconds of
\* DEFAULT_HEALTH_WINDOW_SECONDS.
Worker == [status : {"IDLE", "BUSY", "OFFLINE"},
           active : Runs \cup {NoRun},
           heartbeat : {"fresh", "stale"}]

View == [runs : [Runs -> Run], workers : [Workers -> Worker],
         older : SUBSET (Runs \X Runs)]

\* A loop executes its run in the name of the worker it was assigned to,
\* which need not be the worker the loop registers.
Job == [run : Runs, as : Workers, step : 1..LastStep]

Request == [op : {"pause", "continue", "cancel"}, run : Runs, seen : Run]

\* idle: waiting for the next iteration; cycle: in process_runtime_cycle before
\* its first commit; start, body: before and in a step of the run;
\* complete, fail, block: in the transaction that settles the run; down: dead.
Settling == {"complete", "fail", "block"}
Executing == {"start", "body"} \cup Settling
Places == {"idle", "cycle", "down"} \cup Executing

TypeOK ==
    /\ runs \in [Runs -> Run]
    /\ steps \in [Runs -> [1..LastStep -> {"none", "running", "completed", "failed"}]]
    /\ older \subseteq Runs \X Runs
    /\ workers \in [Workers -> Worker]
    /\ codexUp \in BOOLEAN
    /\ events \in [Runs -> [started : Nat, completed : Nat]]
    /\ continues \in [Runs -> Nat]
    /\ pc \in [Loops -> Places]
    /\ view \in [Loops -> View \cup Run \cup {Nothing}]
    /\ job \in [Loops -> Job \cup {Nothing}]
    /\ request \in Request \cup {Nothing}
    /\ faults \in 0..MaxFaults
    /\ \A w \in Loops : /\ pc[w] = "cycle" => view[w] \in View
                        /\ pc[w] \in Settling => view[w] \in Run
                        /\ pc[w] \in Executing => job[w] \in Job

-----------------------------------------------------------------------------
(* What the operations do to a row, as a session holds it.                 *)

NewRun(policy) ==
    [status |-> "QUEUED", worker |-> NoWorker, heartbeat |-> "none", attempt |-> 0,
     failure |-> "none", escalation |-> "none", paused |-> FALSE, policy |-> policy]

Dispatched(row, x) ==
    [row EXCEPT !.status = "RUNNING", !.worker = x, !.heartbeat = "fresh",
                !.attempt = @ + 1]

\* Mutant: the status is left as it is.
RequeuedHalf(row, reason) ==
    [row EXCEPT !.worker = NoWorker, !.heartbeat = "none", !.failure = reason]

Requeued(row, reason) ==
    [row EXCEPT !.status = "QUEUED", !.worker = NoWorker, !.heartbeat = "none",
                !.failure = reason]

\* Mutant: the attempts are counted from zero.
RetriesLeftOffByOne(row) == row.attempt <= row.policy.maxRetries + 1

RetriesLeft(row) ==
    (IF row.attempt = 0 THEN 1 ELSE row.attempt) <= row.policy.maxRetries

\* handle_stale_heartbeats, one run: a reviewed run ends BLOCKED.
StaleOutcome(row) ==
    IF RetriesLeft(row) THEN Requeued(row, "worker_unresponsive")
    ELSE IF row.policy.review
           THEN [row EXCEPT !.status = "BLOCKED", !.failure = "worker_unresponsive",
                            !.escalation = "review_stale"]
           ELSE [row EXCEPT !.status = "FAILED", !.failure = "worker_unresponsive"]

\* _handle_failure: it writes the status without transition_run_status, and a
\* reviewed run ends FAILED.
FailureOutcome(row) ==
    IF RetriesLeft(row) THEN Requeued(row, "error")
    ELSE [row EXCEPT !.status = "FAILED", !.failure = "error",
                     !.escalation = IF row.policy.review THEN "review_failed" ELSE @]

\* Mutant: no escalation_reason.
BlockedOutcomeSilent(row) == [row EXCEPT !.status = "BLOCKED"]

\* _mark_blocked.
BlockedOutcome(row) == [row EXCEPT !.status = "BLOCKED", !.escalation = "blocked"]

\* transition_run_status(run, COMPLETED) in complete_run: RUNNING only.
CanComplete(row) == row.status = "RUNNING"
Completed(row) == [row EXCEPT !.status = "COMPLETED"]

\* request_pause_run: only a queued run blocks at once.
Paused(row) ==
    IF row.status = "QUEUED"
    THEN [row EXCEPT !.paused = TRUE, !.status = "BLOCKED", !.escalation = "paused_by_user"]
    ELSE [row EXCEPT !.paused = TRUE]

\* continue_blocked_run.  The attempt is kept.
Continued(row) ==
    [row EXCEPT !.status = "QUEUED", !.worker = NoWorker, !.heartbeat = "none",
                !.failure = "none", !.escalation = "none", !.paused = FALSE]

Cancelled(row) == [row EXCEPT !.status = "CANCELLED"]

\* The session's UPDATE names the columns whose value differs from the value
\* read, and overwrites those whatever is committed in them now.
Flush(committed, seen, written) ==
    LET Column(c, s, n) == IF n = s THEN c ELSE n
    IN  [status    |-> Column(committed.status, seen.status, written.status),
         worker    |-> Column(committed.worker, seen.worker, written.worker),
         heartbeat |-> Column(committed.heartbeat, seen.heartbeat, written.heartbeat),
         attempt   |-> Column(committed.attempt, seen.attempt, written.attempt),
         failure   |-> Column(committed.failure, seen.failure, written.failure),
         escalation |-> Column(committed.escalation, seen.escalation, written.escalation),
         paused    |-> Column(committed.paused, seen.paused, written.paused),
         policy    |-> committed.policy]

\* A dispatch always writes heartbeat_at: no two reads of the clock are equal.
FlushDispatch(committed, seen, x) ==
    [Flush(committed, seen, Dispatched(seen, x)) EXCEPT !.heartbeat = "fresh"]

\* queued_at := now, for every run of S at once.
Enqueued(order, S) ==
    {p \in order : p[1] \notin S /\ p[2] \notin S} \cup ((Runs \ S) \X S)

-----------------------------------------------------------------------------
(* What the operations do to a row of runtime_workers.                     *)

\* register_worker, when codex is available and when it is not; active_run_id is
\* left alone.
Registered(row) == [row EXCEPT !.status = "IDLE", !.heartbeat = "fresh"]
RegisteredOffline(row) == [row EXCEPT !.status = "OFFLINE", !.heartbeat = "fresh"]

\* heartbeat(): a sign of life brings an offline worker back.
Beating(row) ==
    [row EXCEPT !.heartbeat = "fresh",
                !.status = IF @ = "OFFLINE" THEN "IDLE" ELSE @]

\* Mutant: active_run_id is not written.
BusyWithNothing(row, r) == [row EXCEPT !.status = "BUSY", !.heartbeat = "fresh"]

Busy(row, r) == [row EXCEPT !.status = "BUSY", !.active = r, !.heartbeat = "fresh"]

\* mark_worker_idle.
Freed == [status |-> IF codexUp THEN "IDLE" ELSE "OFFLINE", active |-> NoRun,
          heartbeat |-> "fresh"]

\* A cycle locks its own row of runtime_workers from register_worker until
\* its commit, and nobody else updates that row meanwhile.
LockedByOther(w, x) == x \in Loops \ {w} /\ pc[x] = "cycle"

-----------------------------------------------------------------------------
(* What a cycle decides from the rows v it has read.                       *)

\* The query of handle_stale_heartbeats.
StaleRuns(v) ==
    {r \in Runs : v.runs[r].status = "RUNNING" /\ v.runs[r].heartbeat = "stale"}

StaleRequeued(v) == {r \in StaleRuns(v) : RetriesLeft(v.runs[r])}

\* The workers it marks idle.
StaleWorkers(v) == {v.runs[r].worker : r \in StaleRuns(v)} \ {NoWorker}

\* The session's own picture once the stale runs are settled.
RunsSeen(v) ==
    [r \in Runs |-> IF r \in StaleRuns(v) THEN StaleOutcome(v.runs[r]) ELSE v.runs[r]]

\* Mutant: failed runs are candidates too.
CandidatesWithFailed(v) ==
    LET open  == {r \in Runs : RunsSeen(v)[r].status \in {"QUEUED", "FAILED"}}
        order == Enqueued(v.older, StaleRequeued(v))
    IN  {r \in open : \A s \in open : <<s, r>> \notin order}

\* The first of the queued runs in the order of queued_at.
Candidates(v) ==
    LET queued == {r \in Runs : RunsSeen(v)[r].status = "QUEUED"}
        order  == Enqueued(v.older, StaleRequeued(v))
    IN  {r \in queued : \A s \in queued : <<s, r>> \notin order}

\* list_healthy_workers, those that are idle.
IdleWorkers(v) ==
    {x \in Workers : \/ x \in StaleWorkers(v)
                     \/ v.workers[x].status = "IDLE" /\ v.workers[x].heartbeat = "fresh"}

CanDispatch(v) == codexUp /\ Candidates(v) # {} /\ IdleWorkers(v) # {}

\* The first idle worker in the order of worker_id.
FirstIdle(v) == {x \in IdleWorkers(v) : \A y \in IdleWorkers(v) : x <= y}

\* The rows of runtime_workers that the rest of the cycle updates.
WorkersToUpdate(v) ==
    StaleWorkers(v) \cup (IF CanDispatch(v) THEN FirstIdle(v) ELSE {})

\* What handle_stale_heartbeats leaves in the tables.
StaleSettled(v) ==
    [r \in Runs |-> IF r \in StaleRuns(v)
                    THEN Flush(runs[r], v.runs[r], StaleOutcome(v.runs[r]))
                    ELSE runs[r]]

StaleFreed(w, v) ==
    [x \in Workers |-> IF x \in StaleWorkers(v) THEN Freed
                       ELSE IF x = w THEN Registered(workers[x])
                       ELSE workers[x]]

-----------------------------------------------------------------------------
(* The runtime loop.                                                       *)

Goto(w, place) == pc' = [pc EXCEPT ![w] = place]
Sees(w, rows) == view' = [view EXCEPT ![w] = rows]

\* The transaction of loop w ends and so does its iteration.
EndIteration(w) ==
    /\ Goto(w, "idle")
    /\ Sees(w, Nothing)
    /\ job' = [job EXCEPT ![w] = Nothing]

\* _runtime_loop: codex is unavailable, so the worker registers as offline and
\* the iteration ends there: no stale run is looked for.
RegisterOffline(w) ==
    /\ pc[w] = "idle"
    /\ ~codexUp
    /\ workers' = [workers EXCEPT ![w] = RegisteredOffline(@)]
    /\ UNCHANGED <<runs, steps, older, events, continues, codexUp, pc, view, job,
                   request, faults>>

\* register_worker, heartbeat and the queries of process_runtime_cycle.
CycleBegin(w) ==
    /\ pc[w] = "idle"
    /\ codexUp
    /\ Goto(w, "cycle")
    /\ Sees(w, [runs |-> runs, older |-> older,
                workers |-> [workers EXCEPT ![w] = Registered(@)]])
    /\ UNCHANGED <<tables, codexUp, job, request, faults>>

\* A cycle that finds no run, or no worker for it, commits after the stale runs.
CycleIdle(w) ==
    LET v == view[w]
    IN  /\ pc[w] = "cycle"
        /\ ~CanDispatch(v)
        /\ \A y \in WorkersToUpdate(v) : ~LockedByOther(w, y)
        /\ runs' = StaleSettled(v)
        /\ older' = Enqueued(older, StaleRequeued(v))
        /\ workers' = StaleFreed(w, v)
        /\ EndIteration(w)
        /\ UNCHANGED <<steps, events, continues, codexUp, request, faults>>

WaitsFor(w, v) ==
    /\ pc[w] = "cycle"
    /\ v \in WorkersToUpdate(view[w])
    /\ LockedByOther(w, v)

\* Cycles of two loops that wait for each other's rows: the database makes one
\* of them a victim, and _runtime_loop rolls it back.
CycleDeadlock(w) ==
    /\ \E v \in Loops : WaitsFor(w, v) /\ \E u \in Loops : WaitsFor(v, u)
    /\ EndIteration(w)
    /\ UNCHANGED <<tables, codexUp, request, faults>>

\* dispatch_queued_run and, in the same transaction, the first _start_step.
CycleDispatch(w) ==
    LET v == view[w]
    IN  /\ pc[w] = "cycle"
        /\ CanDispatch(v)
        /\ \A y \in WorkersToUpdate(v) : ~LockedByOther(w, y)
        /\ \E x \in FirstIdle(v), r \in Candidates(v) :
              /\ runs' = [StaleSettled(v) EXCEPT ![r] = FlushDispatch(@, RunsSeen(v)[r], x)]
              /\ workers' = [StaleFreed(w, v) EXCEPT ![x] = Busy(@, r)]
              /\ events' = [events EXCEPT ![r].started = @ + 1]
              /\ steps' = [steps EXCEPT ![r][1] = "running"]
              /\ job' = [job EXCEPT ![w] = [run |-> r, as |-> x, step |-> 1]]
        /\ older' = Enqueued(older, StaleRequeued(v))
        /\ Goto(w, "body")
        /\ Sees(w, Nothing)
        /\ UNCHANGED <<continues, codexUp, request, faults>>

\* Codex goes away between the dispatch and the check at the head of
\* execute_codex_local_run: _handle_failure settles the run before the commit.
CycleUnavailable(w) ==
    LET v == view[w]
    IN  /\ pc[w] = "cycle"
        /\ CanDispatch(v)
        /\ faults < MaxFaults
        /\ \A y \in WorkersToUpdate(v) : ~LockedByOther(w, y)
        /\ \E x \in FirstIdle(v), r \in Candidates(v) :
             LET seen == Dispatched(RunsSeen(v)[r], x)
             IN  /\ runs' = [StaleSettled(v) EXCEPT
                       ![r] = Flush(FlushDispatch(@, RunsSeen(v)[r], x), seen,
                                    FailureOutcome(seen))]
                 /\ older' = Enqueued(older, StaleRequeued(v)
                                \cup (IF RetriesLeft(seen) THEN {r} ELSE {}))
                 /\ events' = [events EXCEPT ![r].started = @ + 1]
                 /\ workers' = [StaleFreed(w, v) EXCEPT
                       ![x] = [Freed EXCEPT !.status = "OFFLINE"]]
        /\ codexUp' = FALSE
        /\ faults' = faults + 1
        /\ EndIteration(w)
        /\ UNCHANGED <<steps, continues, request>>

-----------------------------------------------------------------------------
(* The steps of a run: execute_codex_local_run.                            *)

\* record_run_heartbeat: the run's heartbeat only while it is locked by the
\* worker, whatever its status.
Heartbeat(w) ==
    LET r == job[w].run
        x == job[w].as
    IN  /\ ~LockedByOther(w, x)
        /\ workers' = [workers EXCEPT ![x] = Beating(@)]
        /\ runs' = IF runs[r].worker = x
                   THEN [runs EXCEPT ![r].heartbeat = "fresh"] ELSE runs

StepRow(w) == steps[job[w].run][job[w].step]

ReportStep(w, status) ==
    steps' = [steps EXCEPT ![job[w].run][job[w].step] = status]

\* _start_step: report_run_step adds a row when there is none to reuse.
StartStep(w) ==
    /\ pc[w] = "start"
    /\ Heartbeat(w)
    /\ ReportStep(w, "running")
    /\ Goto(w, "body")
    /\ UNCHANGED <<older, events, continues, codexUp, view, job, request, faults>>

\* _complete_step.  After the last step complete_run reads the run.
FinishStep(w) ==
    /\ pc[w] = "body"
    /\ StepRow(w) # "failed"
    /\ Heartbeat(w)
    /\ ReportStep(w, "completed")
    /\ IF job[w].step < LastStep
       THEN /\ job' = [job EXCEPT ![w].step = @ + 1]
            /\ Goto(w, "start")
            /\ view' = view
       ELSE /\ job' = job
            /\ Goto(w, "complete")
            /\ Sees(w, runs'[job[w].run])
    /\ UNCHANGED <<older, events, continues, codexUp, request, faults>>

\* Mutant: the run is not read again.
BeginFailureBlind(w) == Goto(w, "fail") /\ view' = view

\* The session rolls back and _handle_failure reads the run.
BeginFailure(w) == Goto(w, "fail") /\ Sees(w, runs[job[w].run])

\* transition_step_status refuses what another executor of the run has made
\* impossible: its ValueError reaches _handle_failure.
RefuseStep(w) ==
    /\ pc[w] = "body"
    /\ \/ StepRow(w) = "failed"
       \/ StepRow(w) = "completed" /\ job[w].step < LastStep
    /\ BeginFailure(w)
    /\ UNCHANGED <<tables, codexUp, job, request, faults>>

\* _fail_step, and the place its exception leads to.  _run_finalize_outputs_step
\* has no handler, so its row stays running.
StepEnds(w, place) ==
    /\ pc[w] = "body"
    /\ IF job[w].step < LastStep
       THEN StepRow(w) # "completed" /\ Heartbeat(w) /\ ReportStep(w, "failed")
       ELSE UNCHANGED <<runs, workers, steps>>
    /\ Goto(w, place)
    /\ Sees(w, runs'[job[w].run])
    /\ UNCHANGED <<older, events, continues, codexUp, job, request, faults>>

\* Mutant: the exception of the step is swallowed.
FailStepSwallowed(w) == StepEnds(w, "complete")

FailStep(w) == StepEnds(w, "fail")

\* _BlockedRun is raised by the steps that look at the git repository.
BlockStep(w) ==
    /\ pc[w] = "body"
    /\ job[w].step \in {1, LastStep}
    /\ StepEnds(w, "block")

\* The transaction that settles the run of loop w, and its iteration, end.
Settle(w, freed) ==
    /\ \A x \in freed : ~LockedByOther(w, x)
    /\ workers' = [x \in Workers |-> IF x \in freed THEN Freed ELSE workers[x]]
    /\ EndIteration(w)

\* complete_run frees the worker the row names.
CompleteRun(w) ==
    LET r == job[w].run
    IN  /\ pc[w] = "complete"
        /\ CanComplete(view[w])
        /\ runs' = [runs EXCEPT ![r] = Flush(@, view[w], Completed(view[w]))]
        /\ events' = [events EXCEPT ![r].completed = @ + 1]
        /\ Settle(w, {view[w].worker} \ {NoWorker})
        /\ UNCHANGED <<steps, older, continues, codexUp, request, faults>>

\* transition_run_status raises: the run goes to _handle_failure.
CompleteRefused(w) ==
    /\ pc[w] = "complete"
    /\ ~CanComplete(view[w])
    /\ BeginFailure(w)
    /\ UNCHANGED <<tables, codexUp, job, request, faults>>

\* _handle_failure frees the worker the loop executes as.
HandleFailure(w) ==
    LET r == job[w].run
    IN  /\ pc[w] = "fail"
        /\ runs' = [runs EXCEPT ![r] = Flush(@, view[w], FailureOutcome(view[w]))]
        /\ older' = IF RetriesLeft(view[w]) THEN Enqueued(older, {r}) ELSE older
        /\ Settle(w, {job[w].as})
        /\ UNCHANGED <<steps, events, continues, codexUp, request, faults>>

MarkBlocked(w) ==
    LET r == job[w].run
    IN  /\ pc[w] = "block"
        /\ runs' = [runs EXCEPT ![r] = Flush(@, view[w], BlockedOutcome(view[w]))]
        /\ Settle(w, {job[w].as})
        /\ UNCHANGED <<steps, older, events, continues, codexUp, request, faults>>

-----------------------------------------------------------------------------
(* Faults and time.                                                        *)

\* The database or the artifact store raises.  The handler of the run turns
\* that into a failure; one in _handle_failure, in _mark_blocked or in the cycle
\* reaches _runtime_loop, which rolls back and forgets the run.
Abort(w) ==
    /\ faults < MaxFaults
    /\ faults' = faults + 1
    /\ \/ pc[w] \in {"start", "body", "complete"} /\ BeginFailure(w) /\ job' = job
       \/ pc[w] \in {"cycle", "fail", "block"} /\ EndIteration(w)
    /\ UNCHANGED <<tables, codexUp, request>>

\* The process of the loop dies; what it had not committed is lost.
Crash(w) ==
    /\ faults < MaxFaults
    /\ faults' = faults + 1
    /\ pc[w] # "down"
    /\ Goto(w, "down")
    /\ Sees(w, Nothing)
    /\ job' = [job EXCEPT ![w] = Nothing]
    /\ UNCHANGED <<tables, codexUp, request>>

Restart(w) ==
    /\ pc[w] = "down"
    /\ Goto(w, "idle")
    /\ UNCHANGED <<tables, codexUp, view, job, request, faults>>

CodexFails ==
    /\ codexUp
    /\ faults < MaxFaults
    /\ codexUp' = FALSE
    /\ faults' = faults + 1
    /\ UNCHANGED <<tables, pc, view, job, request>>

CodexRecovers ==
    /\ ~codexUp
    /\ codexUp' = TRUE
    /\ UNCHANGED <<tables, pc, view, job, request, faults>>

\* 30 seconds pass without a heartbeat of run r; only a running run's matters.
RunAges(r) ==
    /\ runs[r].status = "RUNNING"
    /\ runs[r].heartbeat = "fresh"
    /\ runs' = [runs EXCEPT ![r].heartbeat = "stale"]
    /\ UNCHANGED <<steps, older, workers, events, continues, codexUp, pc, view, job,
                   request, faults>>

\* 90 seconds pass without a sign of life of worker x.  Each heartbeat of a run
\* is one of its worker too, so the run's has been stale for long.
WorkerAges(x) ==
    /\ workers[x].heartbeat = "fresh"
    /\ \A r \in Runs : ~(runs[r].worker = x /\ runs[r].heartbeat = "fresh")
    /\ workers' = [workers EXCEPT ![x].heartbeat = "stale"]
    /\ UNCHANGED <<runs, steps, older, events, continues, codexUp, pc, view, job,
                   request, faults>>

-----------------------------------------------------------------------------
(* The API.  A handler never awaits between its query and its commit, so    *)
(* the event loop of the kernel serves one request at a time.              *)

Insert(r, policy) ==
    /\ runs[r].status = Absent
    /\ runs' = [runs EXCEPT ![r] = NewRun(policy)]
    /\ older' = Enqueued(older, {r})
    /\ UNCHANGED <<steps, workers, events, continues, codexUp, pc, view, job, request,
                   faults>>

\* submit_runtime_run; for a known run_id it returns the run it finds.
SubmitRun(r, policy) == Insert(r, policy)

\* retry_run: a copy of the payload under a new identifier.
RetryRun(r, copy) ==
    /\ "retry" \in Ops
    /\ runs[r].status \in TerminalStatuses
    /\ Insert(copy, runs[r].policy)

\* The query of the handler and the check of the status it finds.
ReceiveRequest(op, r) ==
    /\ op \in Ops
    /\ request = Nothing
    /\ CASE op = "pause"    -> runs[r].status # Absent
         [] op = "continue" -> runs[r].status = "BLOCKED" /\ continues[r] < MaxContinues
         [] op = "cancel"   -> runs[r].status = "RUNNING"
    /\ request' = [op |-> op, run |-> r, seen |-> runs[r]]
    /\ UNCHANGED <<tables, codexUp, pc, view, job, faults>>

\* The UPDATE and the commit of a handler.
ServeRequest(op, written) ==
    /\ request # Nothing
    /\ request.op = op
    /\ runs' = [runs EXCEPT ![request.run] = Flush(@, request.seen, written)]
    /\ request' = Nothing
    /\ UNCHANGED <<steps, workers, events, codexUp, pc, view, job, faults>>

PauseRun == ServeRequest("pause", Paused(request.seen)) /\ UNCHANGED <<older, continues>>

CancelRun == ServeRequest("cancel", Cancelled(request.seen)) /\ UNCHANGED <<older, continues>>

ContinueRun ==
    /\ ServeRequest("continue", Continued(request.seen))
    /\ older' = Enqueued(older, {request.run})
    /\ continues' = [continues EXCEPT ![request.run] = @ + 1]

-----------------------------------------------------------------------------
(* The specification.                                                      *)

\* A worker without a loop was registered by an earlier process.
Init ==
    /\ \E policy \in Policies :
          runs = [r \in Runs |-> [NewRun(policy) EXCEPT !.status = Absent]]
    /\ steps = [r \in Runs |-> [k \in 1..LastStep |-> "none"]]
    /\ older = {}
    /\ workers = [x \in Workers |->
          IF x \in Loops
          THEN [status |-> "OFFLINE", active |-> NoRun, heartbeat |-> "stale"]
          ELSE [status |-> "IDLE", active |-> NoRun, heartbeat |-> "fresh"]]
    /\ codexUp = TRUE
    /\ events = [r \in Runs |-> [started |-> 0, completed |-> 0]]
    /\ continues = [r \in Runs |-> 0]
    /\ pc = [w \in Loops |-> "idle"]
    /\ view = [w \in Loops |-> Nothing]
    /\ job = [w \in Loops |-> Nothing]
    /\ request = Nothing
    /\ faults = 0

\* What the code of a loop does next when nothing goes wrong around it.
LoopStep(w) ==
    \/ CycleBegin(w) \/ CycleIdle(w) \/ CycleDispatch(w) \/ CycleDeadlock(w)
    \/ StartStep(w) \/ FinishStep(w) \/ RefuseStep(w) \/ FailStep(w) \/ BlockStep(w)
    \/ CompleteRun(w) \/ CompleteRefused(w) \/ HandleFailure(w) \/ MarkBlocked(w)

Fault(w) == CycleUnavailable(w) \/ Abort(w) \/ Crash(w)

Environment ==
    \/ CodexFails \/ CodexRecovers
    \/ \E r \in Runs : RunAges(r)
    \/ \E x \in Workers : WorkerAges(x)

Users ==
    \/ \E r \in Runs, policy \in Policies : SubmitRun(r, policy)
    \/ \E r, copy \in Runs : RetryRun(r, copy)
    \/ \E op \in {"pause", "continue", "cancel"}, r \in Runs : ReceiveRequest(op, r)
    \/ PauseRun \/ CancelRun \/ ContinueRun

Next ==
    \/ \E w \in Loops : LoopStep(w) \/ RegisterOffline(w) \/ Restart(w) \/ Fault(w)
    \/ Environment
    \/ Users

Spec == Init /\ [][Next]_vars

\* The loop thread runs, every step of a run ends (codex has a time limit),
\* time passes, a dead process is started again and an outage of codex ends.
\* Users need do nothing.
Fairness ==
    /\ \A w \in Loops : WF_vars(LoopStep(w)) /\ WF_vars(Restart(w))
    /\ \A r \in Runs : WF_vars(RunAges(r))
    /\ WF_vars(CodexRecovers)

FairSpec == Spec /\ Fairness

-----------------------------------------------------------------------------
(* Properties.                                                             *)

\* A RUNNING run can be taken back: it has a heartbeat, which goes stale unless
\* somebody renews it.  handle_stale_heartbeats skips a run whose heartbeat_at is
\* NULL and dispatch_queued_run a run that is not QUEUED, so a RUNNING run
\* without a heartbeat would be lost for ever.
RunningIsRecoverable ==
    \A r \in Runs : runs[r].status = "RUNNING" => runs[r].heartbeat # "none"

\* A BLOCKED run says what it waits for: escalation_reason is set
\* (docs/runtime-execution.md, "Failure reasons").
BlockedIsEscalated ==
    \A r \in Runs : runs[r].status = "BLOCKED" => runs[r].escalation # "none"

\* A run is started at most 1 + max_retries times, and once more for each time
\* a user continues it, whatever crashes, outages, stale heartbeats and failures
\* come between.
RetryBudget ==
    \A r \in Runs :
        events[r].started <= 1 + runs[r].policy.maxRetries + continues[r]

\* A run completes once, and once more at most for each time it is continued;
\* a completed run has done every step of its plan.
CompletedOnceAndWhole ==
    \A r \in Runs :
        /\ events[r].completed <= 1 + continues[r]
        /\ runs[r].status = "COMPLETED" =>
              /\ events[r].completed > 0
              /\ \A k \in 1..LastStep : steps[r][k] = "completed"

\* The run a loop executes is still its own: RUNNING (or cancelled meanwhile)
\* and assigned to the worker the loop executes as, which is BUSY with it.
ExecutorOwnsRun ==
    \A w \in Loops : pc[w] \in Executing =>
        /\ runs[job[w].run].status \in {"RUNNING", "CANCELLED"}
        /\ runs[job[w].run].worker = job[w].as
        /\ workers[job[w].as].status = "BUSY" /\ workers[job[w].as].active = job[w].run

\* Every run a user submits settles: it ends COMPLETED, FAILED, BLOCKED or
\* CANCELLED.  No crash, abort or outage leaves it QUEUED or RUNNING for ever.
EveryRunSettles ==
    \A r \in Runs : runs[r].status \in {"QUEUED", "RUNNING"} ~>
                    runs[r].status \in TerminalStatuses

\* The statuses of the runs move along RUN_STATUS_TRANSITIONS only.
Lifecycle == INSTANCE RunLifecycle WITH status <- [r \in Runs |-> runs[r].status]
StatusTransitionsAllowed == Lifecycle!LifecycleSpec
=============================================================================
