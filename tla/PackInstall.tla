---------------------------- MODULE PackInstall -----------------------------
(***************************************************************************)
(* The installation of one pack into one environment, executed by the      *)
(* workers of BlueprintQueue: an advisory lock, the claim of the row of    *)
(* pack_installations, the nested runs that create the schema and the      *)
(* tables and apply the migrations, and the transition to INSTALLED.       *)
(*                                                                         *)
(* Sources: core/blueprints/pack_install.py, core/advisory_locks.py,       *)
(* core/blueprints/runner.py (nested runs).                                *)
(*                                                                         *)
(* The advisory lock belongs to the database connection that took it, and  *)
(* a commit gives the connection back to the pool: the unlock may be sent  *)
(* over another one, and then the lock stays with the process.             *)
(***************************************************************************)
EXTENDS BlueprintQueue

VARIABLES
    install,    \* the row of pack_installations
    schema,     \* how far the schema of the pack has been built
    lock        \* the process that holds the advisory lock

installVars == <<install, schema, lock>>
packVars == <<queueVars, installVars>>

Installation == [status : {"ABSENT", "INSTALLING", "INSTALLED"}, by : RunIds \cup {NoRun}]

\* The stages that the nested runs bring the schema to, in this order.
Built == {"absent", "schema", "tables"}

PackTypeOK ==
    /\ QueueTypeOK
    /\ install \in Installation
    /\ schema \in Built
    /\ lock \in Workers \cup {NoWorker}

PackInit ==
    /\ QueueInit
    /\ install = [status |-> "ABSENT", by |-> NoRun]
    /\ schema = "absent"
    /\ lock = NoWorker

-----------------------------------------------------------------------------
(* The blueprint core.pack.install@v1, in the order of its steps.          *)

\* advisory_unlock in the finally of the context: it misses the lock when it
\* runs over another connection.
Unlock(w) == lock' \in {lock, IF lock = w THEN NoWorker ELSE lock}

\* pg_try_advisory_lock: re-entrant over the connection that holds it.
TryLock(w) ==
    /\ at[w].pc = "lock"
    /\ \/ /\ lock \in {NoWorker, w}
          /\ lock' = w
          /\ Goto(w, "claim")
       \/ /\ lock # NoWorker
          /\ UNCHANGED lock
          /\ Goto(w, "fail")
    /\ UNCHANGED <<queue, enqueued, mishaps, install, schema>>

\* INSERT ... ON CONFLICT DO NOTHING, committed at once; a conflict raises
\* whatever the status of the row is.
ClaimInstall(w) ==
    /\ at[w].pc = "claim"
    /\ IF install.status = "ABSENT" /\ Owns(w, at[w].run)
       THEN /\ install' = [status |-> "INSTALLING", by |-> at[w].run]
            /\ Goto(w, "claimed")
            /\ UNCHANGED lock
       ELSE /\ UNCHANGED install
            /\ Goto(w, "fail")
            /\ Unlock(w)
    /\ UNCHANGED <<queue, enqueued, mishaps, schema>>

\* The end of a step of the installation: on, or out through LostLeaseError.
EndStep(w, pc) == IF Owns(w, at[w].run)
                  THEN Goto(w, pc) /\ UNCHANGED lock
                  ELSE Goto(w, "fail") /\ Unlock(w)

InstallClaimed(w) ==
    /\ at[w].pc = "claimed"
    /\ EndStep(w, "system")
    /\ UNCHANGED <<queue, enqueued, mishaps, install, schema>>

\* The nested run asserts no ownership: it builds on after the lease is lost.  Every
\* statement of it is committed; IF NOT EXISTS makes it repeatable.
BuildSchema(w) ==
    /\ at[w].pc = "system"
    /\ schema # "tables"
    /\ schema' = IF schema = "absent" THEN "schema" ELSE "tables"
    /\ UNCHANGED <<queueVars, install, lock>>

SystemInstalled(w) ==
    /\ at[w].pc = "system"
    /\ schema = "tables"
    /\ EndStep(w, "migrate")
    /\ UNCHANGED <<queue, enqueued, mishaps, install, schema>>

\* Mutant: the failure of the nested run is swallowed.
SystemFailsSilently(w) ==
    /\ at[w].pc \in {"system", "migrate"} /\ Fault
    /\ EndStep(w, "migrate")
    /\ UNCHANGED <<queue, enqueued, install, schema>>

\* A statement of the nested run fails, or the update that settles the nested run.
SystemFails(w) ==
    /\ at[w].pc \in {"system", "migrate"} /\ Fault
    /\ Goto(w, "fail")
    /\ Unlock(w)
    /\ UNCHANGED <<queue, enqueued, install, schema>>

\* The migrations of the repository are applied in a nested run, then the next step begins.
MigrationsApplied(w) ==
    /\ at[w].pc = "migrate"
    /\ EndStep(w, "stamp")
    /\ UNCHANGED <<queue, enqueued, mishaps, install, schema>>

\* The row is read and written under its row lock.
FinalizeInstall(w) ==
    /\ at[w].pc = "stamp"
    /\ CASE install.status = "INSTALLED" ->
               Goto(w, "stamped") /\ UNCHANGED <<install, lock>>
         [] install.status = "INSTALLING" /\ install.by = at[w].run ->
               /\ install' = [install EXCEPT !.status = "INSTALLED"]
               /\ Goto(w, "stamped")
               /\ UNCHANGED lock
         [] OTHER ->
               Goto(w, "fail") /\ Unlock(w) /\ UNCHANGED install
    /\ UNCHANGED <<queue, enqueued, mishaps, schema>>

InstallStamped(w) ==
    /\ at[w].pc = "stamped"
    /\ Goto(w, IF Owns(w, at[w].run) THEN "finish" ELSE "fail")
    /\ Unlock(w)
    /\ UNCHANGED <<queue, enqueued, mishaps, install, schema>>

\* The connections of a dead process close, and with them goes its lock.
ConnectionsClose(w) ==
    /\ at[w].pc = "down" /\ lock = w
    /\ lock' = NoWorker
    /\ UNCHANGED <<queueVars, install, schema>>

-----------------------------------------------------------------------------
(* The composition.                                                        *)

\* POST /packs/{ref}/install, and the other callers of enqueue_run.
RequestInstall == "install" \in Kinds /\ Enqueue("install") /\ UNCHANGED installVars
RequestRun == \E kind \in Kinds \ {"install"} : Enqueue(kind) /\ UNCHANGED installVars

InstallStep(w) ==
    \/ TryLock(w) \/ ClaimInstall(w) \/ InstallClaimed(w)
    \/ BuildSchema(w) \/ SystemInstalled(w) \/ MigrationsApplied(w)
    \/ FinalizeInstall(w) \/ InstallStamped(w) \/ ConnectionsClose(w)

Progress(w) == InstallStep(w) \/ (WorkerStep(w) /\ UNCHANGED installVars)

PackNext ==
    \/ RequestInstall \/ RequestRun
    \/ \E r \in RunIds : LeaseExpires(r) /\ UNCHANGED installVars
    \/ \E w \in Workers :
        \/ Progress(w)
        \/ RenewLease(w) /\ UNCHANGED installVars
        \/ QueueFault(w) /\ UNCHANGED installVars
        \/ SystemFails(w)

PackSpec == PackInit /\ [][PackNext]_packVars

\* A live worker takes its next step, and time passes a lease that nobody renews.  No
\* fault has to happen, nothing has to be enqueued, and no renewal has to come in time.
PackFairness ==
    /\ \A w \in Workers : WF_packVars(Progress(w))
    /\ \A r \in RunIds : WF_packVars(LeaseExpires(r) /\ UNCHANGED installVars)

PackFairSpec == PackSpec /\ PackFairness

-----------------------------------------------------------------------------
(* Properties.                                                             *)

\* However often an orchestrator is executed again, by however many workers at a time,
\* it has at most one child for each child_key (spawn_run), and when it is COMPLETED it
\* has what its policy asks of its children: all of them COMPLETED, or one (wait_runs),
\* also when the children settled under an earlier execution of it.
ChildrenServeTheirParent ==
    \A r \in RunIds :
       LET served == {queue[c].key : c \in {d \in Children(r) : queue[d].status = "COMPLETED"}}
       IN /\ \A c, d \in Children(r) : queue[c].key = queue[d].key => c = d
          /\ queue[r].status = "COMPLETED" /\ queue[r].kind = "all" => served = Keys
          /\ queue[r].status = "COMPLETED" /\ queue[r].kind = "any" => served # {}

\* A run is settled once, and by the worker that claimed it last: a worker whose lease
\* went to another one neither settles the run nor overwrites the status that the other
\* gave it (claim_run, execute_run).
SettledOnceByItsOwner ==
    [][/\ \A r \in RunIds :
             queue[r].status \in Settled => queue'[r].status = queue[r].status
       /\ \A w \in Workers :
             at[w].pc \in {"finish", "fail"} /\ queue[at[w].run].owner # w /\ at'[w] # at[w]
                => queue'[at[w].run].status = queue[at[w].run].status]_packVars

\* A pack that is INSTALLED has its schema and all its tables, whichever executions of
\* the installation built them and whichever of them died.
InstalledIsWhole == install.status = "INSTALLED" => schema = "tables"

\* Every queued run is settled in the end, unless every worker that is still alive waits
\* for children that nobody is left to execute.
Starved == \A w \in Workers : at[w].pc \in {"down", "wait"}
QueueSettles ==
    \A r \in RunIds : queue[r].status = "QUEUED" ~> (queue[r].status \in Settled \/ Starved)

=============================================================================
