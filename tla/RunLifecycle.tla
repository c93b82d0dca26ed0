---------------------------- MODULE RunLifecycle ----------------------------
(***************************************************************************)
(* What the runtime promises about the status of a run: a run is submitted *)
(* QUEUED and its status then moves only along the edges of the table      *)
(* RUN_STATUS_TRANSITIONS of core/runtime_execution.py.  RuntimeExecution  *)
(* is compared with this specification.                                    *)
(***************************************************************************)
CONSTANT Runs          \* identifiers a run can be submitted under

VARIABLE status        \* [Runs -> Statuses \cup {Absent}]

Absent == "ABSENT"     \* no row of the table runs has this identifier

Statuses == {"QUEUED", "RUNNING", "COMPLETED", "FAILED", "BLOCKED", "CANCELLED"}

\* RUN_TERMINAL_STATUSES.
TerminalStatuses == {"COMPLETED", "FAILED", "BLOCKED", "CANCELLED"}

\* RUN_STATUS_TRANSITIONS, without the row of CREATED: only the demonstration
\* executor of core/executor.py writes that status.
RunStatusTransitions(s) ==
    CASE s = "QUEUED"  -> {"RUNNING", "BLOCKED", "CANCELLED"}
      [] s = "RUNNING" -> {"COMPLETED", "FAILED", "BLOCKED", "CANCELLED", "QUEUED"}
      [] s \in {"FAILED", "BLOCKED"} -> {"QUEUED"}
      [] OTHER -> {}

\* What one commit may do to a status.  The transaction that dispatches a run
\* may settle it too, when the executor turns out to be unavailable.
CommittedTransitions(s) ==
    RunStatusTransitions(s)
      \cup (IF s = "QUEUED" THEN RunStatusTransitions("RUNNING") ELSE {})

-----------------------------------------------------------------------------
LifecycleInit == status = [r \in Runs |-> Absent]

\* create_runtime_run inserts the row.
SubmitRun(r) ==
    /\ status[r] = Absent
    /\ status' = [status EXCEPT ![r] = "QUEUED"]

\* One commit may move several runs: handle_stale_heartbeats settles every
\* stale run in the transaction that also dispatches the next one.
MoveRuns ==
    /\ status' \in [Runs -> Statuses \cup {Absent}]
    /\ \A r \in Runs : \/ status'[r] = status[r]
                       \/ status'[r] \in CommittedTransitions(status[r])

LifecycleNext == MoveRuns \/ \E r \in Runs : SubmitRun(r)

LifecycleSpec == LifecycleInit /\ [][LifecycleNext]_status
=============================================================================
