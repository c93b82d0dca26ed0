------------------------------ MODULE Releases ------------------------------
(***************************************************************************)
(* Planned releases and their reconciler (core/api/releases.py,            *)
(* core/releases/store.py, core/releases/reconciler.py).  A plan compiles  *)
(* a release into a new revision, a directory of three files, and says     *)
(* what changes; applying a plan runs "docker compose" on the files of its *)
(* revision.  The reconciler looks at the containers of the latest         *)
(* revision and brings them up when one of them does not run.              *)
(*                                                                         *)
(* The handlers and the pass of the reconciler never suspend and block the *)
(* one event loop, so each is one step; only the death of the process can  *)
(* cut a plan short.  The releases do not touch one another, except that   *)
(* an exception on one ends the reconciler for all: this is one release    *)
(* with the compose backend.  Docker is external: a command does its work, *)
(* or fails having done part of it.                                        *)
(***************************************************************************)
EXTENDS Naturals, Sequences, FiniteSets

CONSTANTS
    Services,       \* names of what a release can contain
    Versions,       \* configurations of a service
    Outputs,        \* what "ps --format json" prints: an "array", or "lines"
    MaxRevisions,   \* bound: revisions planned
    MaxPlans,       \* bound: stop, restart and destroy plans
    MaxMishaps     \* bound: deaths of the process or of a container,
                    \* commands that fail

ASSUME ReleasesAssumption ==
    /\ Outputs \subseteq {"array", "lines"}
    /\ MaxRevisions \in Nat /\ MaxPlans \in Nat /\ MaxMishaps \in Nat

VARIABLES
    revisions,      \* the revision directories, by number
    plans,          \* the saved plans, a set
    containers,     \* what docker holds of the release, by service
    output,         \* what this docker compose prints
    reconciling,    \* the reconcile loop is alive
    lastOp,         \* the type of the newest operation
    mishaps

releaseVars == <<revisions, plans, containers, output, reconciling, lastOp, mishaps>>

RevisionFiles == <<"release", "runtime", "compose">>
Specs == UNION {[S -> Versions] : S \in SUBSET Services \ {{}}}

Absent == [state |-> "absent"]
Running(v) == [state |-> "running", version |-> v]
Stopped(v) == [state |-> "stopped", version |-> v]

ReleaseInit ==
    /\ revisions = << >> /\ plans = {}
    /\ containers = [s \in Services |-> Absent]
    /\ output \in Outputs
    /\ reconciling = TRUE /\ lastOp = "none" /\ mishaps = 0

latest_revision == Len(revisions)

(* A revision with the first n of its files whole and the next one torn or *)
(* missing.                                                                *)
Revision(spec, n, torn) ==
    [spec |-> spec, whole |-> {RevisionFiles[i] : i \in 1..n},
     torn |-> IF torn /\ n < 3 THEN {RevisionFiles[n + 1]} ELSE {}]
Whole(spec) == Revision(spec, 3, FALSE)
Has(n, file) == file \in revisions[n].whole \union revisions[n].torn

\* Mutant: items that are gone are not listed.
DiffWithoutDeletions(previous, current) ==
    {[op |-> "create", name |-> s] : s \in DOMAIN current \ DOMAIN previous}
    \union {[op |-> "update", name |-> s] :
                s \in {t \in DOMAIN current \intersect DOMAIN previous :
                           current[t] # previous[t]}}

(* What changes from one set of items to another.  No previous revision is *)
(* an empty one.                                                           *)
diff_actions(previous, current) ==
    {[op |-> "create", name |-> s] : s \in DOMAIN current \ DOMAIN previous}
    \union {[op |-> "update", name |-> s] :
                s \in {t \in DOMAIN current \intersect DOMAIN previous :
                           current[t] # previous[t]}}
    \union {[op |-> "delete", name |-> s] : s \in DOMAIN previous \ DOMAIN current}

Previous(n) == IF n > 0 /\ "runtime" \in revisions[n].whole
               THEN revisions[n].spec ELSE << >>

Plan(kind, from, to, actions, compose) ==
    [kind |-> kind, from |-> from, to |-> to, actions |-> actions,
     compose |-> compose]

(* The new revision is written and then its plan.  If the file of the      *)
(* latest runtime is torn the comparison raises, and the revision stays    *)
(* without a plan.                                                         *)
plan_release(spec) ==
    LET from == latest_revision
    IN  /\ from < MaxRevisions
        /\ revisions' = Append(revisions, Whole(spec))
        /\ plans' = IF from > 0 /\ "runtime" \in revisions[from].torn THEN plans
                    ELSE plans \union
                        {Plan("apply", from, from + 1,
                              diff_actions(Previous(from), spec), TRUE)}
        /\ UNCHANGED <<containers, output, reconciling, lastOp, mishaps>>

(* The process dies while it writes the revision, and the new one starts   *)
(* with a reconciler.                                                      *)
PlanDies(spec, n, torn) ==
    /\ latest_revision < MaxRevisions /\ mishaps < MaxMishaps
    /\ mishaps' = mishaps + 1
    /\ revisions' = Append(revisions, Revision(spec, n, torn))
    /\ reconciling' = TRUE
    /\ UNCHANGED <<plans, containers, output, lastOp>>

(* A plan to stop, restart or destroy the latest revision: it needs a      *)
(* runtime that can be read, and records the compose file if there is one. *)
build_action_plan(kind) ==
    LET n == latest_revision
    IN  /\ Cardinality({p \in plans : p.kind # "apply"}) < MaxPlans
        /\ n > 0 /\ "runtime" \in revisions[n].whole
        /\ plans' = plans \union {Plan(kind, n, n, {}, Has(n, "compose"))}
        /\ UNCHANGED <<revisions, containers, output, reconciling, lastOp, mishaps>>

-----------------------------------------------------------------------------
(* docker compose on the file of revision n: a command touches the         *)
(* services of that file and no other.                                     *)
Commanded(kind, n, s) ==
    LET c == containers[s]
    IN  CASE kind = "apply" -> Running(revisions[n].spec[s])
          [] kind = "destroy" -> Absent
          [] kind \in {"stop", "restart"} /\ c.state = "absent" -> Absent
          [] kind = "stop" /\ c.state # "absent" -> Stopped(c.version)
          [] kind = "restart" /\ c.state # "absent" -> Running(c.version)

(* The command on some of the services of revision n.                      *)
Compose(kind, n, some) ==
    [s \in Services |-> IF s \in some THEN Commanded(kind, n, s) ELSE containers[s]]

(* A plan is applied: any saved plan, however old and however often.  A    *)
(* restart names one service.  It fails at once without a compose file,    *)
(* and docker refuses a torn one.                                          *)
apply_release(p, service) ==
    LET all == IF p.kind = "restart" THEN {service} \intersect DOMAIN revisions[p.to].spec
               ELSE DOMAIN revisions[p.to].spec
    IN  /\ p \in plans
        /\ lastOp' = p.kind
        /\ \/ /\ p.compose /\ "compose" \in revisions[p.to].whole
              /\ containers' = Compose(p.kind, p.to, all)
              /\ UNCHANGED mishaps
           \/ /\ p.compose /\ "compose" \in revisions[p.to].whole
              /\ mishaps < MaxMishaps /\ mishaps' = mishaps + 1
              /\ \E some \in SUBSET all : containers' = Compose(p.kind, p.to, some)
           \/ /\ ~p.compose \/ "compose" \notin revisions[p.to].whole
              /\ UNCHANGED <<containers, mishaps>>
        /\ UNCHANGED <<revisions, plans, output, reconciling>>

(* The containers that "ps" lists for the latest revision.                 *)
Listed ==
    {s \in DOMAIN revisions[latest_revision].spec : containers[s].state # "absent"}

\* Mutant: a release counts as drifted only if none of its containers runs.
AllDown == Listed # {} /\ \A s \in Listed : containers[s].state # "running"

Drifted == \E s \in Listed : containers[s].state # "running"

\* Mutant: an empty list of containers is repaired too.
RepairMissing ==
    LET n == latest_revision
        all == DOMAIN revisions[n].spec
    IN  /\ reconciling /\ n > 0
        /\ {"runtime", "compose"} \subseteq revisions[n].whole
        /\ output = "array" /\ (Drifted \/ Listed = {})
        /\ lastOp' = "reconcile"
        /\ containers' = Compose("apply", n, all)
        /\ UNCHANGED <<revisions, plans, output, reconciling, mishaps>>

(* The containers of the latest revision were listed and one does not run: *)
(* "up" on that revision, whether a plan for it was ever applied or not.   *)
Repair ==
    LET n == latest_revision
        all == DOMAIN revisions[n].spec
    IN  /\ reconciling /\ n > 0
        /\ {"runtime", "compose"} \subseteq revisions[n].whole
        /\ output = "array" /\ Drifted
        /\ lastOp' = "reconcile"
        /\ \/ /\ containers' = Compose("apply", n, all)
              /\ UNCHANGED mishaps
           \/ /\ mishaps < MaxMishaps /\ mishaps' = mishaps + 1
              /\ \E some \in SUBSET all : containers' = Compose("apply", n, some)
        /\ UNCHANGED <<revisions, plans, output, reconciling>>

(* A torn runtime file raises, and so does the line of a single container, *)
(* which is taken for the list; nothing catches it.  (Several lines are no *)
(* JSON, and the pass goes on.)                                            *)
LoopEnds ==
    LET n == latest_revision
    IN  /\ reconciling /\ n > 0
        /\ \/ "runtime" \in revisions[n].torn
           \/ /\ {"runtime", "compose"} \subseteq revisions[n].whole
              /\ output = "lines" /\ Cardinality(Listed) = 1
        /\ reconciling' = FALSE
        /\ UNCHANGED <<revisions, plans, containers, output, lastOp, mishaps>>

reconcile_once == Repair \/ LoopEnds

(* A container ends by itself; the process of the API is restarted.        *)
Trouble ==
    /\ mishaps < MaxMishaps /\ mishaps' = mishaps + 1
    /\ \/ /\ reconciling' = TRUE
          /\ UNCHANGED containers
       \/ /\ \E s \in Services :
                 /\ containers[s].state = "running"
                 /\ containers' = [containers EXCEPT ![s].state = "stopped"]
          /\ UNCHANGED reconciling
    /\ UNCHANGED <<revisions, plans, output, lastOp>>

ReleaseNext ==
    \/ \E spec \in Specs : plan_release(spec)
    \/ \E spec \in Specs, n \in 0..2, torn \in BOOLEAN : PlanDies(spec, n, torn)
    \/ \E kind \in {"stop", "restart", "destroy"} : build_action_plan(kind)
    \/ \E p \in plans, s \in Services : apply_release(p, s)
    \/ reconcile_once
    \/ Trouble

(* The loop passes every interval.                                         *)
ReleaseFairness == WF_releaseVars(reconcile_once)

ReleaseSpec == ReleaseInit /\ [][ReleaseNext]_releaseVars /\ ReleaseFairness

-----------------------------------------------------------------------------
ReleaseTypeOK ==
    /\ Len(revisions) <= MaxRevisions
    /\ \A n \in DOMAIN revisions : revisions[n].spec \in Specs
    /\ \A s \in Services :
           containers[s] \in {Absent} \union
               {[state |-> t, version |-> v] : t \in {"running", "stopped"}, v \in Versions}
    /\ reconciling \in BOOLEAN /\ output \in Outputs

(***************************************************************************)
(* Wherever the process dies, a plan that can be applied names files that  *)
(* are there and whole; only a plan to stop, restart or destroy may find   *)
(* its compose file missing, or torn.  The actions of a plan are the whole *)
(* change: done on what the revision before it holds (nothing, if that was *)
(* never finished) they give what its own revision holds.                  *)
(***************************************************************************)
Names(p, op) == {a.name : a \in {b \in p.actions : b.op = op}}

Tells(p, before, after) ==
    /\ DOMAIN after = (DOMAIN before \ Names(p, "delete")) \union Names(p, "create")
    /\ Names(p, "create") \intersect DOMAIN before = {}
    /\ \A s \in DOMAIN before \intersect DOMAIN after :
           (s \in Names(p, "update")) <=> (before[s] # after[s])

TellsTheChange(p) == Tells(p, Previous(p.from), revisions[p.to].spec)

PlansAreWhole ==
    \A p \in plans :
        /\ p.to \in DOMAIN revisions
        /\ "runtime" \in revisions[p.to].whole
        /\ p.kind = "apply" =>
               p.compose /\ "compose" \in revisions[p.to].whole /\ TellsTheChange(p)

(***************************************************************************)
(* The reconciler repairs, it does not deploy: when no container of the    *)
(* release is left, only a plan that is applied brings one up again.       *)
(***************************************************************************)
Gone == \A s \in Services : containers[s].state = "absent"

DestroyedStaysDown == [][Gone => Gone' \/ lastOp' = "apply"]_releaseVars

(***************************************************************************)
(* If the loop lives, docker prints a list, and the latest revision is     *)
(* whole, then no container stays down: one that ended, or that a failed   *)
(* command left behind, runs again in the end.                             *)
(***************************************************************************)
CanRepair ==
    /\ reconciling /\ output = "array" /\ latest_revision > 0
    /\ {"runtime", "compose"} \subseteq revisions[latest_revision].whole

DriftIsRepaired ==
    <>[]CanRepair =>
        []<>(/\ latest_revision > 0
             /\ \A s \in DOMAIN revisions[latest_revision].spec :
                    containers[s].state # "stopped")
=============================================================================
