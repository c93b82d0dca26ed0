--------------------------- MODULE BlueprintQueue ---------------------------
(***************************************************************************)
(* The queue of blueprint runs: runs are enqueued, claimed under a lease   *)
(* by worker processes, executed, and settled; a run may spawn children    *)
(* and wait for them.  A worker that dies leaves a lease that expires, and *)
(* another worker executes the run again from its beginning.               *)
(*                                                                         *)
(* Sources: core/worker.py, core/blueprints/runner.py,                     *)
(* core/blueprints/test_orchestrator.py, core/api/packs.py.                *)
(*                                                                         *)
(* Every statement sees what is committed when it starts.  A check of      *)
(* ownership and the write it is to protect are separate statements, so    *)
(* they are separate actions; only the updates that settle a run test the  *)
(* ownership in their own WHERE clause.                                    *)
(***************************************************************************)
EXTENDS Naturals, FiniteSets

CONSTANTS
    RunIds,         \* identifiers of runs, in the order of created_at
    Workers,        \* worker processes (WORKER_ID)
    Kinds,          \* what the enqueued runs are: see Kind
    Keys,           \* the child_keys under which an orchestrator spawns
    MaxEnqueued,    \* bound: how many runs are enqueued by requests
    MaxFaults       \* bound: crashes, database errors and late renewals

CONSTANTS NoWorker, NoRun, NoKey
ASSUME QueueIdsAreOrdered == RunIds \subseteq Nat /\ NoRun \notin RunIds
ASSUME QueueSetsAreFinite == IsFiniteSet(RunIds) /\ IsFiniteSet(Keys)
ASSUME QueueNullsAreFresh == NoWorker \notin Workers /\ NoKey \notin Keys
ASSUME QueueBoundsAreNatural == MaxEnqueued \in Nat /\ MaxFaults \in Nat

VARIABLES
    queue,      \* the tables runs and run_edges, by run
    at,         \* what each worker is doing
    enqueued,   \* how many runs were enqueued by requests
    mishaps     \* how many faults there have been

queueVars == <<queue, at, enqueued, mishaps>>

Settled == {"COMPLETED", "FAILED"}
RunStatus == {"ABSENT", "QUEUED", "RUNNING"} \cup Settled

\* A task has one step that may fail; "all" and "any" are orchestrators that
\* wait for all or for any of their children; "install" is a pack installation.
Kind == {"task", "all", "any", "install"}
ASSUME KindsAreKnown == Kinds \subseteq Kind

\* lease: lease_expires_at is NULL, in the future, or past.  parent and key are
\* the edge of the run, which is committed together with it.
Queued == [status : RunStatus, kind : Kind, owner : Workers \cup {NoWorker},
           lease : {"none", "live", "expired"},
           parent : RunIds \cup {NoRun}, key : Keys \cup {NoKey}]

NewQueued(kind, parent, key) ==
    [status |-> "QUEUED", kind |-> kind, owner |-> NoWorker, lease |-> "none",
     parent |-> parent, key |-> key]

\* begin: in execute_run, before its try; task, spawn, insert, spawned, wait: in the
\* step of a blueprint; finish, fail: at the update that settles the run.  The other
\* places are those of an installation.
InstallPlaces == {"lock", "claim", "claimed", "system", "migrate", "stamp", "stamped"}
QueuePlaces == {"idle", "begin", "task", "spawn", "insert", "spawned", "wait", "finish",
                "fail", "down"}
Position == [pc : QueuePlaces \cup InstallPlaces, run : RunIds \cup {NoRun},
             key : Keys \cup {NoKey}, spawned : SUBSET RunIds, renewing : BOOLEAN]

Idle == [pc |-> "idle", run |-> NoRun, key |-> NoKey, spawned |-> {}, renewing |-> FALSE]

QueueTypeOK ==
    /\ queue \in [RunIds -> Queued]
    /\ at \in [Workers -> Position]
    /\ enqueued \in 0..MaxEnqueued
    /\ mishaps \in 0..MaxFaults
    /\ \A w \in Workers : (at[w].run = NoRun) <=> (at[w].pc \in {"idle", "down"})

QueueInit ==
    /\ queue = [r \in RunIds |-> [NewQueued("task", NoRun, NoKey) EXCEPT !.status = "ABSENT"]]
    /\ at = [w \in Workers |-> Idle]
    /\ enqueued = 0
    /\ mishaps = 0

-----------------------------------------------------------------------------
(* Helpers.                                                                *)

Free == {r \in RunIds : queue[r].status = "ABSENT"}
NextId == CHOOSE r \in Free : \A q \in Free : r <= q

Spawns(kind) == kind \in {"all", "any"}
Children(r) == {c \in RunIds : queue[c].status # "ABSENT" /\ queue[c].parent = r}

\* The children that the orchestrators may still spawn, each of which needs an
\* identifier.
Unspawned == {e \in RunIds \X Keys :
                /\ queue[e[1]].status # "ABSENT" /\ Spawns(queue[e[1]].kind)
                /\ ~\E c \in Children(e[1]) : queue[c].key = e[2]}
Reserved == Cardinality(Unspawned)

\* Mutant: a run whose worker died is not claimed again.
ClaimableQueued(r) == queue[r].status = "QUEUED"

Claimable(r) == \/ queue[r].status = "QUEUED"
                \/ queue[r].status = "RUNNING" /\ queue[r].lease = "expired"

\* The order of the candidates: expired leases first, then by age.
ClaimedBefore(r, q) ==
    \/ queue[r].status = "RUNNING" /\ queue[q].status = "QUEUED"
    \/ queue[r].status = queue[q].status /\ r < q

Owns(w, r) == /\ queue[r].status = "RUNNING"
              /\ queue[r].owner = w
              /\ queue[r].lease = "live"

Executing(w) == at[w].pc \notin {"idle", "down"}
Goto(w, pc) == at' = [at EXCEPT ![w].pc = pc]
\* Mutant: the worker goes on to poll, and keeps its run.
LeaveHolding(w) == at' = [at EXCEPT ![w].pc = "idle"]

Leave(w) == at' = [at EXCEPT ![w] = Idle]

\* assert_ownership: go on, or leave the blueprint with LostLeaseError.
Assert(w, pc) == Goto(w, IF Owns(w, at[w].run) THEN pc ELSE "fail")

Fault == mishaps < MaxFaults /\ mishaps' = mishaps + 1

-----------------------------------------------------------------------------
(* Requests and claims.                                                    *)

Enqueue(kind) ==
    /\ enqueued < MaxEnqueued
    /\ Cardinality(Free) > Reserved + (IF Spawns(kind) THEN Cardinality(Keys) ELSE 0)
    /\ queue' = [queue EXCEPT ![NextId] = NewQueued(kind, NoRun, NoKey)]
    /\ enqueued' = enqueued + 1
    /\ UNCHANGED <<at, mishaps>>

\* One UPDATE over the candidate rows, which it locks or skips.
ClaimRun(w) ==
    /\ at[w].pc = "idle"
    /\ \E r \in RunIds :
        /\ Claimable(r)
        /\ \A q \in RunIds \ {r} : Claimable(q) => ClaimedBefore(r, q)
        /\ queue' = [queue EXCEPT ![r].status = "RUNNING", ![r].owner = w, ![r].lease = "live"]
        /\ at' = [at EXCEPT ![w] = [Idle EXCEPT !.pc = "begin", !.run = r, !.renewing = TRUE]]
    /\ UNCHANGED <<enqueued, mishaps>>

\* The renewal finds its row by status and owner; it revives an expired lease.
RenewLease(w) ==
    /\ Executing(w) /\ at[w].renewing
    /\ LET r == at[w].run
           owned == queue[r].status = "RUNNING" /\ queue[r].owner = w
       IN /\ queue' = IF owned THEN [queue EXCEPT ![r].lease = "live"] ELSE queue
          /\ at' = [at EXCEPT ![w].renewing = owned]
    /\ UNCHANGED <<enqueued, mishaps>>

\* A database error ends the renewals for good; the execution goes on.
RenewalFails(w) ==
    /\ Executing(w) /\ at[w].renewing /\ Fault
    /\ at' = [at EXCEPT ![w].renewing = FALSE]
    /\ UNCHANGED <<queue, enqueued>>

\* Time passes the lease of a run that nobody renews.
LeaseExpires(r) ==
    /\ queue[r].status = "RUNNING" /\ queue[r].lease = "live"
    /\ ~\E w \in Workers : at[w].run = r /\ queue[r].owner = w /\ at[w].renewing
    /\ queue' = [queue EXCEPT ![r].lease = "expired"]
    /\ UNCHANGED <<at, enqueued, mishaps>>

\* A step that blocks the event loop keeps the renewal task from its turn.
RenewalIsLate(w) ==
    /\ Executing(w) /\ at[w].renewing /\ Fault
    /\ Owns(w, at[w].run)
    /\ queue' = [queue EXCEPT ![at[w].run].lease = "expired"]
    /\ UNCHANGED <<at, enqueued>>

-----------------------------------------------------------------------------
(* The execution of a run.                                                 *)

\* Where the blueprint of a run starts.
FirstPlace(kind) == CASE kind = "task" -> "task"
                      [] kind = "install" -> "lock"
                      [] OTHER -> "spawn"

\* run.started is emitted under assert_ownership.
Begin(w) ==
    /\ at[w].pc = "begin"
    /\ Assert(w, FirstPlace(queue[at[w].run].kind))
    /\ UNCHANGED <<queue, enqueued, mishaps>>

\* What fails before the try of execute_run (the run does not load, its blueprint
\* is not registered) leaves the run RUNNING.
BeginFails(w) ==
    /\ at[w].pc = "begin" /\ Fault
    /\ Leave(w)
    /\ UNCHANGED <<queue, enqueued>>

\* The one step of a task.
TaskStep(w) ==
    /\ at[w].pc = "task"
    /\ \/ Assert(w, "finish")
       \/ Goto(w, "fail")
    /\ UNCHANGED <<queue, enqueued, mishaps>>

\* spawn_run, fast path: the children that exist are returned as they are.
SpawnLookup(w) ==
    /\ at[w].pc = "spawn"
    /\ LET r == at[w].run
           left == {k \in Keys : ~\E c \in at[w].spawned : queue[c].key = k}
       IN IF left = {} THEN Assert(w, "wait")
          ELSE \E k \in left :
               LET found == {c \in Children(r) : queue[c].key = k}
               IN IF found = {}
                  THEN at' = [at EXCEPT ![w].pc = "insert", ![w].key = k]
                  ELSE at' = [at EXCEPT ![w].spawned = @ \cup found]
    /\ UNCHANGED <<queue, enqueued, mishaps>>

\* The child and its edge in one transaction; where the unique index on the edge
\* refuses them, the child that is there is returned.
SpawnInsert(w) ==
    /\ at[w].pc = "insert"
    /\ LET r == at[w].run
           k == at[w].key
           found == {c \in Children(r) : queue[c].key = k}
           back == [at[w] EXCEPT !.key = NoKey]
       IN IF found = {}
          THEN /\ queue' = [queue EXCEPT ![NextId] = NewQueued("task", r, k)]
               /\ at' = [at EXCEPT ![w] = [back EXCEPT !.pc = "spawned", !.spawned = @ \cup {NextId}]]
          ELSE /\ queue' = queue
               /\ at' = [at EXCEPT ![w] = [back EXCEPT !.pc = "spawn", !.spawned = @ \cup found]]
    /\ UNCHANGED <<enqueued, mishaps>>

\* run.spawned is emitted after the commit, under assert_ownership.
SpawnEvent(w) ==
    /\ at[w].pc = "spawned"
    /\ Assert(w, "spawn")
    /\ UNCHANGED <<queue, enqueued, mishaps>>

\* Mutant: the poll counts the children that are done, however they ended.
WaitRunsDone(w) ==
    /\ at[w].pc = "wait"
    /\ IF ~Owns(w, at[w].run) THEN Goto(w, "fail")
       ELSE /\ \A c \in at[w].spawned : queue[c].status \in Settled
            /\ Goto(w, "finish")
    /\ UNCHANGED <<queue, enqueued, mishaps>>

\* One poll of wait_runs: fail fast for "all", fail last for "any".
WaitRuns(w) ==
    /\ at[w].pc = "wait"
    /\ LET own == at[w].spawned
           completed == {c \in own : queue[c].status = "COMPLETED"}
           failed == {c \in own : queue[c].status = "FAILED"}
           all == queue[at[w].run].kind = "all"
       IN \/ /\ ~Owns(w, at[w].run) \/ (IF all THEN failed # {} ELSE failed = own)
             /\ Goto(w, "fail")
          \/ /\ Owns(w, at[w].run)
             /\ IF all THEN completed = own ELSE completed # {}
             /\ Goto(w, "finish")
    /\ UNCHANGED <<queue, enqueued, mishaps>>

\* Mutant: the update forgets the owner.
SettleByStatus(w, status) ==
    queue' = [queue EXCEPT ![at[w].run].status = IF @ = "RUNNING" THEN status ELSE @]

\* The update that settles a run tests the ownership itself.
Settle(w, status) ==
    queue' = [queue EXCEPT ![at[w].run].status = IF Owns(w, at[w].run) THEN status ELSE @]

\* The emission of run.completed asserts an ownership that ended with the update,
\* so execute_run raises in either case; its second update finds no RUNNING row.
Finish(w) ==
    /\ at[w].pc = "finish"
    /\ Settle(w, "COMPLETED")
    /\ IF Owns(w, at[w].run) THEN Leave(w) ELSE Goto(w, "fail")
    /\ UNCHANGED <<enqueued, mishaps>>

FinishRaises(w) ==
    /\ at[w].pc = "finish" /\ Fault
    /\ Goto(w, "fail")
    /\ UNCHANGED <<queue, enqueued>>

Fail(w) ==
    /\ at[w].pc = "fail"
    /\ Settle(w, "FAILED")
    /\ Leave(w)
    /\ UNCHANGED <<enqueued, mishaps>>

FailRaises(w) ==
    /\ at[w].pc = "fail" /\ Fault
    /\ Leave(w)
    /\ UNCHANGED <<queue, enqueued>>

\* The process is killed, or stops after a signal; nothing in the code starts it again.
Crash(w) ==
    /\ at[w].pc # "down" /\ Fault
    /\ at' = [at EXCEPT ![w] = [Idle EXCEPT !.pc = "down"]]
    /\ UNCHANGED <<queue, enqueued>>

-----------------------------------------------------------------------------
(* Steps by who takes them.                                                *)

WorkerStep(w) ==
    \/ ClaimRun(w) \/ Begin(w) \/ TaskStep(w)
    \/ SpawnLookup(w) \/ SpawnInsert(w) \/ SpawnEvent(w) \/ WaitRuns(w)
    \/ Finish(w) \/ Fail(w)

QueueFault(w) ==
    \/ RenewalFails(w) \/ RenewalIsLate(w) \/ BeginFails(w)
    \/ FinishRaises(w) \/ FailRaises(w) \/ Crash(w)
=============================================================================
