------------------------------ MODULE RunTrail -------------------------------
(***************************************************************************)
(* The demonstration executor (core/executor.py) with the logs of its      *)
(* steps (core/log_capture.py) and the artifact store                      *)
(* (core/artifact_store.py), and the uploads and cancellations             *)
(* (core/api/artifacts.py, core/api/runs.py) beside it.  A run is executed *)
(* inside the request that creates it, by some twenty commits, one by one: *)
(* rows of the run and of its two steps, an event after each change, a log *)
(* file and its artifact row per step.                                     *)
(*                                                                         *)
(* A request holds the event loop except while a thread stores a file for  *)
(* it; then other requests run.  A commit can fail, which ends the request *)
(* there, and the process can die between any two commits.                 *)
(***************************************************************************)
EXTENDS Naturals, Sequences

CONSTANTS
    Runs,           \* ids of runs
    NoRun,
    MaxFaults       \* bound: commits and writes that fail, crashes

ASSUME TrailAssumption == NoRun \notin Runs

VARIABLES
    trails,         \* per run: where its request is, its rows, events and files
    upload,         \* an artifact that is uploaded: its file, row and event
    loop,           \* the run whose request holds the event loop
    faults

trailVars == <<trails, upload, loop, faults>>

StepIds == 1..2

(* The commits of a request, in their order.  "file" stores a log file,    *)
(* "log" inserts its artifact row.                                         *)
Row(of, status) == [op |-> "row", of |-> of, status |-> status]
Event(of, status) == [op |-> "event", of |-> of, status |-> status]
Changes(of, status) == <<Row(of, status), Event(of, status)>>

\* Mutant: the artifact row is inserted before the file is stored.
FinalizeRowFirst(s) == <<[op |-> "log", of |-> s, status |-> ""],
                         [op |-> "file", of |-> s, status |-> ""]>>

finalize(s) == <<[op |-> "file", of |-> s, status |-> ""],
                 [op |-> "log", of |-> s, status |-> ""]>>

StepScript(s, status) ==
    Changes(s, "CREATED") \o Changes(s, "RUNNING") \o finalize(s) \o Changes(s, status)

execute_simple_run(simulate_failure) ==
    LET end == IF simulate_failure THEN "FAILED" ELSE "COMPLETED"
    IN  Changes(0, "CREATED") \o Changes(0, "RUNNING")
        \o StepScript(1, "COMPLETED") \o StepScript(2, end) \o Changes(0, end)

NoTrail ==
    [stage |-> "none", pc |-> 1, fails |-> FALSE,
     status |-> [w \in {0} \union StepIds |-> "none"], events |-> {},
     files |-> [s \in StepIds |-> "none"], logs |-> {}]

NoUpload == [stage |-> "none", file |-> "none", row |-> FALSE, event |-> FALSE]

TrailInit ==
    /\ trails = [r \in Runs |-> NoTrail]
    /\ upload = NoUpload /\ loop = NoRun /\ faults = 0

Fails == faults < MaxFaults /\ faults' = faults + 1

create_run(r, simulate_failure) ==
    /\ loop = NoRun /\ trails[r].stage = "none"
    /\ loop' = r
    /\ trails' = [trails EXCEPT ![r].stage = "commits", ![r].fails = simulate_failure]
    /\ UNCHANGED <<upload, faults>>

Advanced(t) ==
    IF t.pc = Len(execute_simple_run(t.fails)) THEN [t EXCEPT !.stage = "answered"]
    ELSE [t EXCEPT !.pc = @ + 1]

(* What one commit leaves in the database.                                 *)
Committed(t, c) ==
    CASE c.op = "row" -> [t EXCEPT !.status[c.of] = c.status]
      [] c.op = "event" -> [t EXCEPT !.events = @ \union {<<c.of, c.status>>}]
      [] c.op = "log" -> [t EXCEPT !.logs = @ \union {c.of}]

Commit(r) ==
    LET t == trails[r]
        c == execute_simple_run(t.fails)[t.pc]
    IN  /\ loop = r /\ t.stage = "commits" /\ c.op # "file"
        /\ \/ /\ trails' = [trails EXCEPT ![r] = Advanced(Committed(t, c))]
              /\ loop' = IF Advanced(t).stage = "answered" THEN NoRun ELSE r
              /\ UNCHANGED faults
           \/ /\ Fails /\ loop' = NoRun
              /\ trails' = [trails EXCEPT ![r].stage = "answered"]
        /\ UNCHANGED upload

(* The file is written by a thread; the request waits for it.              *)
store(r) ==
    LET t == trails[r]
        c == execute_simple_run(t.fails)[t.pc]
    IN  /\ loop = r /\ t.stage = "commits" /\ c.op = "file"
        /\ trails' = [trails EXCEPT ![r].stage = "storing", ![r].files[c.of] = "partial"]
        /\ loop' = NoRun
        /\ UNCHANGED <<upload, faults>>

Stored(r) ==
    LET t == trails[r]
        c == execute_simple_run(t.fails)[t.pc]
    IN  /\ loop = NoRun /\ t.stage = "storing"
        /\ \/ /\ trails' = [trails EXCEPT ![r] =
                               [Advanced(t) EXCEPT !.stage = "commits", !.files[c.of] = "whole"]]
              /\ loop' = r
              /\ UNCHANGED faults
           \/ /\ Fails
              /\ trails' = [trails EXCEPT ![r].stage = "answered"]
              /\ UNCHANGED loop
        /\ UNCHANGED upload

(* A run may be cancelled while its request waits for a file, or after it  *)
(* ended early.  The request does not look and completes it later.         *)
cancel_run(r) ==
    /\ loop = NoRun
    /\ trails[r].status[0] \in {"CREATED", "RUNNING"}
    /\ trails' = [trails EXCEPT ![r].status[0] = "CANCELLED"]
    /\ UNCHANGED <<upload, loop, faults>>

-----------------------------------------------------------------------------
(* An upload is written chunk by chunk, and the request waits for each;    *)
(* then come its row and its event.  S3 keeps only whole objects.          *)
create_artifact ==
    /\ loop = NoRun
    /\ \/ /\ upload.stage = "none"
          /\ \E file \in {"partial", "none"} :
                 upload' = [upload EXCEPT !.stage = "storing", !.file = file]
          /\ UNCHANGED faults
       \/ /\ upload.stage = "storing"
          /\ \/ /\ upload' = [upload EXCEPT !.stage = "row", !.file = "whole"]
                /\ UNCHANGED faults
             \/ Fails /\ upload' = [upload EXCEPT !.stage = "answered"]
       \/ /\ upload.stage = "row"
          /\ \/ /\ upload' = [upload EXCEPT !.stage = "event", !.row = TRUE]
                /\ UNCHANGED faults
             \/ Fails /\ upload' = [upload EXCEPT !.stage = "answered"]
       \/ /\ upload.stage = "event"
          /\ \/ /\ upload' = [upload EXCEPT !.stage = "answered", !.event = TRUE]
                /\ UNCHANGED faults
             \/ Fails /\ upload' = [upload EXCEPT !.stage = "answered"]
    /\ UNCHANGED <<trails, loop>>

(* The process dies with its requests; nothing takes them up again.        *)
ProcessDies ==
    /\ Fails /\ loop' = NoRun
    /\ trails' = [r \in Runs |-> IF trails[r].stage = "none" THEN NoTrail
                                 ELSE [trails[r] EXCEPT !.stage = "answered"]]
    /\ upload' = IF upload.stage = "none" THEN upload
                 ELSE [upload EXCEPT !.stage = "answered"]

TrailNext ==
    \/ \E r \in Runs, simulate_failure \in BOOLEAN : create_run(r, simulate_failure)
    \/ \E r \in Runs : Commit(r) \/ store(r) \/ Stored(r) \/ cancel_run(r)
    \/ create_artifact
    \/ ProcessDies

TrailSpec == TrailInit /\ [][TrailNext]_trailVars

-----------------------------------------------------------------------------
Rank(status) ==
    CASE status = "none" -> 0
      [] status = "CREATED" -> 1
      [] status = "RUNNING" -> 2
      [] status \in {"COMPLETED", "FAILED", "CANCELLED"} -> 3

TrailTypeOK ==
    /\ loop \in Runs \union {NoRun}
    /\ \A r \in Runs :
           /\ trails[r].stage \in {"none", "commits", "storing", "answered"}
           /\ trails[r].pc \in 1..Len(execute_simple_run(TRUE))
           /\ \A w \in {0} \union StepIds : Rank(trails[r].status[w]) \in 0..3
           /\ trails[r].logs \subseteq StepIds

(***************************************************************************)
(* Wherever a request fails or dies and whatever runs beside it, what it   *)
(* left is a true account.  An artifact row has its whole file.  A step is *)
(* over only with its log, a run is COMPLETED only if both steps are and   *)
(* FAILED only if a step is.  An event is never ahead of its row, and the  *)
(* event of an end says how the row ended.                                 *)
(***************************************************************************)
TrailIsTrue ==
    /\ upload.row => upload.file = "whole"
    /\ upload.event => upload.row
    /\ \A r \in Runs :
        LET t == trails[r]
        IN  /\ \A s \in t.logs : t.files[s] = "whole"
            /\ \A s \in StepIds : Rank(t.status[s]) = 3 => s \in t.logs
            /\ t.status[0] = "COMPLETED" => \A s \in StepIds : t.status[s] = "COMPLETED"
            /\ t.status[0] = "FAILED" => \E s \in StepIds : t.status[s] = "FAILED"
            /\ \A e \in t.events :
                   /\ Rank(e[2]) <= Rank(t.status[e[1]])
                   /\ Rank(e[2]) = 3 => t.status[e[1]] = e[2]
=============================================================================
