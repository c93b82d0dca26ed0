-------------------------- MODULE DeploymentProofs --------------------------
(***************************************************************************)
(* Proofs about what runs in docker: planned releases (Releases), local    *)
(* instances (LocalInstances) and the builds of one app (AppRevisions),    *)
(* each by itself and for any bounds.                                      *)
(*                                                                         *)
(* ReleaseInv: plans name revisions that are there, and revisions are only *)
(* appended, so what a plan says stays true.  InstanceInv: whatever names  *)
(* a deployment, a provisioning under way included, names one that came    *)
(* up.  RevisionInv: the job that touched the root runtime last has it     *)
(* down or up again by its step, builds are generated in their order, and  *)
(* while no import was let pass the catalog has the newest of them.        *)
(***************************************************************************)
EXTENDS Releases, LocalInstances, AppRevisions, FiniteSetTheorems, SequenceTheorems, TLAPS

-----------------------------------------------------------------------------
(* Releases.                                                               *)

FileNames == {"release", "runtime", "compose"}
RevisionRows == [spec : Specs, whole : SUBSET FileNames, torn : SUBSET FileNames]
PlanKinds == {"apply", "stop", "restart", "destroy"}
Containers == {Absent} \union {[state |-> t, version |-> v] : t \in {"running", "stopped"}, v \in Versions}

\* The state of docker and of the store, and plans on revisions that exist.
ReleasesFit ==
    /\ revisions \in Seq(RevisionRows) /\ Len(revisions) <= MaxRevisions
    /\ containers \in [Services -> Containers]
    /\ reconciling \in BOOLEAN /\ output \in Outputs
    /\ \A p \in plans : p.kind \in PlanKinds /\ p.from \in 0..Len(revisions)

ReleaseInv == ReleasesFit /\ PlansAreWhole

\* The items of a release have names among the services.
LEMMA SpecsAreMaps ==
    ASSUME NEW f \in Specs
    PROVE  DOMAIN f \subseteq Services /\ \A s \in DOMAIN f : f[s] \in Versions
BY DEF Specs

\* The actions that the comparison lists are the change from one to the other.
LEMMA DiffTellsAll ==
    ASSUME NEW before, NEW after
    PROVE  /\ {a.name : a \in {b \in diff_actions(before, after) : b.op = "create"}} =
                  DOMAIN after \ DOMAIN before
           /\ {a.name : a \in {b \in diff_actions(before, after) : b.op = "delete"}} =
                  DOMAIN before \ DOMAIN after
           /\ \A t : t \in {a.name : a \in {b \in diff_actions(before, after) : b.op = "update"}}
                      <=> t \in DOMAIN after \intersect DOMAIN before /\ before[t] # after[t]
<1> DEFINE named(op) == {a.name : a \in {b \in diff_actions(before, after) : b.op = op}}
           created == DOMAIN after \ DOMAIN before
           deleted == DOMAIN before \ DOMAIN after
           updated == {t \in DOMAIN after \intersect DOMAIN before : before[t] # after[t]}
<1>1. diff_actions(before, after) =
          {[op |-> "create", name |-> s] : s \in created}
          \union {[op |-> "update", name |-> s] : s \in updated}
          \union {[op |-> "delete", name |-> s] : s \in deleted}
    <2>1. updated = {t \in DOMAIN after \intersect DOMAIN before : after[t] # before[t]}
        OBVIOUS
    <2> QED BY <2>1 DEF diff_actions
<1> HIDE DEF created, deleted, updated
<1>2. named("create") = created
    <2>1. ASSUME NEW s \in created
          PROVE  s \in named("create")
        <3>1. [op |-> "create", name |-> s] \in diff_actions(before, after)
            BY <1>1, <2>1
        <3> QED BY <3>1
    <2>2. ASSUME NEW a \in diff_actions(before, after), a.op = "create"
          PROVE  a.name \in created
        BY <1>1, <2>2
    <2> QED BY <2>1, <2>2
<1>3. named("update") = updated
    <2>1. ASSUME NEW s \in updated
          PROVE  s \in named("update")
        <3>1. [op |-> "update", name |-> s] \in diff_actions(before, after)
            BY <1>1, <2>1
        <3> QED BY <3>1
    <2>2. ASSUME NEW a \in diff_actions(before, after), a.op = "update"
          PROVE  a.name \in updated
        BY <1>1, <2>2
    <2> QED BY <2>1, <2>2
<1>4. named("delete") = deleted
    <2>1. ASSUME NEW s \in deleted
          PROVE  s \in named("delete")
        <3>1. [op |-> "delete", name |-> s] \in diff_actions(before, after)
            BY <1>1, <2>1
        <3> QED BY <3>1
    <2>2. ASSUME NEW a \in diff_actions(before, after), a.op = "delete"
          PROVE  a.name \in deleted
        BY <1>1, <2>2
    <2> QED BY <2>1, <2>2
<1> QED BY <1>2, <1>3, <1>4 DEF created, deleted, updated

\* A revision that was written, whole or cut short, is of the type of revisions.
LEMMA RevisionIsRow ==
    ASSUME NEW spec \in Specs, NEW n \in 0..3, NEW torn \in BOOLEAN
    PROVE  Revision(spec, n, torn) \in RevisionRows
<1>1. \A i \in 1..3 : RevisionFiles[i] \in FileNames
    BY DEF RevisionFiles, FileNames
<1>2. {RevisionFiles[i] : i \in 1..n} \subseteq FileNames
    BY <1>1
<1>3. (IF torn /\ n < 3 THEN {RevisionFiles[n + 1]} ELSE {}) \subseteq FileNames
    BY <1>1
<1> QED BY <1>2, <1>3 DEF Revision, RevisionRows

\* A planned revision has all its files.
LEMMA WholeIsWhole ==
    ASSUME NEW spec \in Specs
    PROVE  /\ Whole(spec) \in RevisionRows
           /\ Whole(spec).spec = spec /\ Whole(spec).whole = FileNames
<1>1. Whole(spec) \in RevisionRows
    <2>1. 3 \in 0..3 /\ FALSE \in BOOLEAN
        OBVIOUS
    <2> QED BY <2>1, RevisionIsRow DEF Whole
<1>2. {RevisionFiles[i] : i \in 1..3} = FileNames
    <2>1. 1..3 = {1, 2, 3}
        OBVIOUS
    <2> QED BY <2>1 DEF RevisionFiles, FileNames
<1> QED BY <1>1, <1>2 DEF Whole, Revision

\* A new revision leaves the older ones, and what their plans say, alone.
LEMMA PlansOutliveRevisions ==
    ASSUME ReleaseInv, NEW r \in RevisionRows, revisions' = Append(revisions, r)
    PROVE  /\ revisions' \in Seq(RevisionRows) /\ Len(revisions') = Len(revisions) + 1
           /\ revisions'[Len(revisions) + 1] = r
           /\ \A n \in 0..Len(revisions) : Previous(n)' = Previous(n)
           /\ \A p \in plans :
                  /\ p.from \in 0..Len(revisions')
                  /\ p.to \in DOMAIN revisions'
                  /\ "runtime" \in revisions'[p.to].whole
                  /\ p.kind = "apply" =>
                         /\ p.compose /\ "compose" \in revisions'[p.to].whole
                         /\ TellsTheChange(p)'
<1>1. /\ revisions \in Seq(RevisionRows) /\ Len(revisions) \in Nat
      /\ DOMAIN revisions = 1..Len(revisions)
    BY DEF ReleaseInv, ReleasesFit
<1>2. /\ revisions' \in Seq(RevisionRows) /\ Len(revisions') = Len(revisions) + 1
      /\ DOMAIN revisions' = 1..Len(revisions')
      /\ \A n \in 1..Len(revisions) : revisions'[n] = revisions[n]
      /\ revisions'[Len(revisions) + 1] = r
    BY <1>1
<1>3. ASSUME NEW n \in 0..Len(revisions)
      PROVE  Previous(n)' = Previous(n)
    BY <1>2, <1>1 DEF Previous
<1>4. ASSUME NEW p \in plans
      PROVE  /\ p.from \in 0..Len(revisions')
             /\ p.to \in DOMAIN revisions'
             /\ "runtime" \in revisions'[p.to].whole
             /\ p.kind = "apply" =>
                    /\ p.compose /\ "compose" \in revisions'[p.to].whole
                    /\ TellsTheChange(p)'
    <2>1. /\ p.from \in 0..Len(revisions) /\ p.to \in 1..Len(revisions)
          /\ "runtime" \in revisions[p.to].whole
          /\ p.kind = "apply" =>
                 p.compose /\ "compose" \in revisions[p.to].whole /\ TellsTheChange(p)
        BY <1>1 DEF ReleaseInv, ReleasesFit, PlansAreWhole
    <2>2. revisions'[p.to] = revisions[p.to]
        BY <1>2, <2>1
    <2>3. Previous(p.from)' = Previous(p.from)
        BY <1>3, <2>1
    <2>4. TellsTheChange(p) => TellsTheChange(p)'
        BY <2>2, <2>3 DEF TellsTheChange
    <2> QED BY <1>1, <1>2, <2>1, <2>2, <2>4
<1> QED BY <1>2, <1>3, <1>4

\* What a command on services of a revision leaves is a state of docker.
LEMMA CommandsKeepContainers ==
    ASSUME ReleasesFit, NEW n \in DOMAIN revisions, NEW kind \in PlanKinds,
           NEW some \in SUBSET DOMAIN revisions[n].spec
    PROVE  Compose(kind, n, some) \in [Services -> Containers]
<1>1. revisions[n].spec \in Specs
    <2>1. revisions[n] \in RevisionRows
        BY DEF ReleasesFit
    <2> QED BY <2>1 DEF RevisionRows
<1>2. ASSUME NEW s \in Services, s \in some
      PROVE  Commanded(kind, n, s) \in Containers
    <2>1. revisions[n].spec[s] \in Versions
        BY <1>1, <1>2, SpecsAreMaps
    <2>2. containers[s] \in Containers
        BY DEF ReleasesFit
    <2>3. containers[s].state # "absent" => containers[s].version \in Versions
        BY <2>2 DEF Containers, Absent
    <2> QED BY <2>1, <2>3 DEF Commanded, Containers, Running, Stopped, Absent, PlanKinds
<1>3. \A s \in Services : containers[s] \in Containers
    BY DEF ReleasesFit
<1> QED BY <1>2, <1>3 DEF Compose

\* Every step of the planner, the plans, the reconciler and docker keeps the invariant.
LEMMA ReleaseStep == ReleaseInv /\ [ReleaseNext]_releaseVars => ReleaseInv'
<1> SUFFICES ASSUME ReleaseInv, [ReleaseNext]_releaseVars
             PROVE  ReleaseInv'
    OBVIOUS
<1> USE ReleasesAssumption
<1>1. ASSUME NEW spec \in Specs, plan_release(spec)
      PROVE  ReleaseInv'
    <2>1. revisions' = Append(revisions, Whole(spec))
        BY <1>1 DEF plan_release
    <2>2. /\ Whole(spec) \in RevisionRows
          /\ Whole(spec).spec = spec /\ Whole(spec).whole = FileNames
        BY WholeIsWhole
    <2>3. /\ revisions' \in Seq(RevisionRows) /\ Len(revisions') = Len(revisions) + 1
          /\ revisions'[Len(revisions) + 1] = Whole(spec)
          /\ \A n \in 0..Len(revisions) : Previous(n)' = Previous(n)
          /\ \A p \in plans :
                 /\ p.from \in 0..Len(revisions')
                 /\ p.to \in DOMAIN revisions'
                 /\ "runtime" \in revisions'[p.to].whole
                 /\ p.kind = "apply" =>
                        /\ p.compose /\ "compose" \in revisions'[p.to].whole
                        /\ TellsTheChange(p)'
        BY <2>1, <2>2, PlansOutliveRevisions
    <2> PICK from, new, before :
            /\ from = Len(revisions) /\ before = Previous(from)
            /\ new = Plan("apply", from, from + 1, diff_actions(before, spec), TRUE)
        OBVIOUS
    <2>4. from \in Nat /\ from < MaxRevisions /\ plans' \subseteq plans \union {new}
        <3>1. from \in Nat
            BY DEF ReleaseInv, ReleasesFit
        <3>2. from < MaxRevisions
            BY <1>1 DEF plan_release, latest_revision
        <3>3. plans' = plans \/ plans' = plans \union {new}
            BY <1>1, Zenon DEF plan_release, latest_revision
        <3> QED BY <3>1, <3>2, <3>3
    <2>5. /\ new.kind = "apply" /\ new.from = from /\ new.to = from + 1 /\ new.compose
          /\ new.actions = diff_actions(before, spec)
        BY DEF Plan
    <2>6. TellsTheChange(new)'
        <3>1. Previous(from)' = before
            <4>1. from \in 0..Len(revisions)
                BY <2>4
            <4> QED BY <2>3, <4>1
        <3>2. revisions'[from + 1].spec = spec
            BY <2>2, <2>3
        <3>3. Names(new, "create") = DOMAIN spec \ DOMAIN before
            <4>1. {a.name : a \in {b \in diff_actions(before, spec) : b.op = "create"}} =
                      DOMAIN spec \ DOMAIN before
                BY DiffTellsAll
            <4> QED BY <2>5, <4>1, Zenon DEF Names
        <3>4. Names(new, "delete") = DOMAIN before \ DOMAIN spec
            <4>1. {a.name : a \in {b \in diff_actions(before, spec) : b.op = "delete"}} =
                      DOMAIN before \ DOMAIN spec
                BY DiffTellsAll
            <4> QED BY <2>5, <4>1, Zenon DEF Names
        <3>5. \A t : t \in Names(new, "update")
                         <=> t \in DOMAIN spec \intersect DOMAIN before /\ before[t] # spec[t]
            <4>1. \A t : t \in {a.name : a \in {b \in diff_actions(before, spec) : b.op = "update"}}
                             <=> t \in DOMAIN spec \intersect DOMAIN before /\ before[t] # spec[t]
                BY DiffTellsAll
            <4> QED BY <2>5, <4>1, Zenon DEF Names
        <3>6. /\ DOMAIN spec = (DOMAIN before \ Names(new, "delete")) \union Names(new, "create")
              /\ Names(new, "create") \intersect DOMAIN before = {}
              /\ \A s \in DOMAIN before \intersect DOMAIN spec :
                     (s \in Names(new, "update")) <=> (before[s] # spec[s])
            BY <3>3, <3>4, <3>5
        <3>7. new.from = from /\ new.to = from + 1
            BY <2>5
        <3>8. Previous(new.from)' = before /\ revisions'[new.to].spec = spec
            BY <3>1, <3>2, <3>7
        <3>9. Tells(new, before, spec)
            BY <3>6 DEF Tells
        <3> QED BY <3>8, <3>9, Zenon DEF TellsTheChange
    <2>7. PlansAreWhole'
        <3> SUFFICES ASSUME NEW p \in plans'
                     PROVE  /\ p.to \in DOMAIN revisions'
                            /\ "runtime" \in revisions'[p.to].whole
                            /\ p.kind = "apply" =>
                                   /\ p.compose /\ "compose" \in revisions'[p.to].whole
                                   /\ TellsTheChange(p)'
            BY DEF PlansAreWhole
        <3>1. CASE p \in plans
            BY <3>1, <2>3
        <3>2. CASE p = new
            <4>1. from + 1 \in DOMAIN revisions'
                BY <2>3, <2>4
            <4>2. /\ "runtime" \in revisions'[from + 1].whole
                  /\ "compose" \in revisions'[from + 1].whole
                BY <2>2, <2>3 DEF FileNames
            <4> QED BY <3>2, <4>1, <4>2, <2>5, <2>6
        <3> QED BY <3>1, <3>2, <2>4
    <2>8. ReleasesFit'
        <3>1. UNCHANGED <<containers, reconciling, output>> /\ Len(revisions') <= MaxRevisions
            BY <1>1, <2>3, <2>4 DEF plan_release
        <3>2. \A p \in plans' : p.kind \in PlanKinds /\ p.from \in 0..Len(revisions')
            <4>1. from \in 0..Len(revisions')
                BY <2>3, <2>4
            <4>2. \A p \in plans : p.kind \in PlanKinds
                BY DEF ReleaseInv, ReleasesFit
            <4>3. new.kind \in PlanKinds
                BY <2>5 DEF PlanKinds
            <4> QED BY <2>3, <2>4, <2>5, <4>1, <4>2, <4>3
        <3> QED BY <2>3, <3>1, <3>2 DEF ReleaseInv, ReleasesFit
    <2> QED BY <2>7, <2>8 DEF ReleaseInv
<1>2. ASSUME NEW spec \in Specs, NEW n \in 0..2, NEW torn \in BOOLEAN, PlanDies(spec, n, torn)
      PROVE  ReleaseInv'
    <2>1. Revision(spec, n, torn) \in RevisionRows
        BY RevisionIsRow
    <2>2. /\ revisions' = Append(revisions, Revision(spec, n, torn)) /\ plans' = plans
          /\ Len(revisions) < MaxRevisions /\ Len(revisions) \in Nat
        BY <1>2 DEF PlanDies, latest_revision, ReleaseInv, ReleasesFit
    <2>3. /\ revisions' \in Seq(RevisionRows) /\ Len(revisions') = Len(revisions) + 1
          /\ \A p \in plans :
                 /\ p.from \in 0..Len(revisions')
                 /\ p.to \in DOMAIN revisions'
                 /\ "runtime" \in revisions'[p.to].whole
                 /\ p.kind = "apply" =>
                        /\ p.compose /\ "compose" \in revisions'[p.to].whole
                        /\ TellsTheChange(p)'
        BY <2>1, <2>2, PlansOutliveRevisions
    <2>4. ReleasesFit'
        BY <1>2, <2>2, <2>3 DEF PlanDies, ReleaseInv, ReleasesFit
    <2> QED BY <2>2, <2>3, <2>4 DEF ReleaseInv, PlansAreWhole
<1>3. ASSUME NEW kind \in {"stop", "restart", "destroy"}, build_action_plan(kind)
      PROVE  ReleaseInv'
    <2> DEFINE n == Len(revisions)
               new == Plan(kind, n, n, {}, Has(n, "compose"))
    <2>1. /\ n \in Nat /\ n > 0 /\ "runtime" \in revisions[n].whole
          /\ plans' = plans \union {new}
          /\ UNCHANGED <<revisions, containers, output, reconciling>>
        BY <1>3 DEF build_action_plan, latest_revision, ReleaseInv, ReleasesFit
    <2>2. new.kind = kind /\ new.from = n /\ new.to = n
        BY DEF Plan
    <2>3. n \in DOMAIN revisions
        BY <2>1 DEF ReleaseInv, ReleasesFit
    <2>4. \A p : TellsTheChange(p)' = TellsTheChange(p)
        BY <2>1 DEF TellsTheChange, Previous
    <2> HIDE DEF new
    <2>5. ReleasesFit'
        BY <2>1, <2>2 DEF ReleaseInv, ReleasesFit, PlanKinds
    <2>6. PlansAreWhole'
        BY <2>1, <2>2, <2>3, <2>4 DEF ReleaseInv, PlansAreWhole
    <2> QED BY <2>5, <2>6 DEF ReleaseInv
<1>4. ASSUME UNCHANGED <<revisions, plans, output>>, reconciling' \in BOOLEAN,
             containers' \in [Services -> Containers]
      PROVE  ReleaseInv'
    <2>1. \A p : TellsTheChange(p)' = TellsTheChange(p)
        BY <1>4 DEF TellsTheChange, Previous
    <2> QED BY <1>4, <2>1 DEF ReleaseInv, ReleasesFit, PlansAreWhole
<1>5. ASSUME NEW p \in plans, NEW s \in Services, apply_release(p, s)
      PROVE  ReleaseInv'
    <2> DEFINE all == IF p.kind = "restart" THEN {s} \intersect DOMAIN revisions[p.to].spec
                      ELSE DOMAIN revisions[p.to].spec
    <2>1. p.to \in DOMAIN revisions /\ p.kind \in PlanKinds /\ ReleasesFit
        BY DEF ReleaseInv, ReleasesFit, PlansAreWhole
    <2>2. \A some \in SUBSET all : Compose(p.kind, p.to, some) \in [Services -> Containers]
        BY <2>1, CommandsKeepContainers
    <2>3. containers' = containers \/ \E some \in SUBSET all : containers' = Compose(p.kind, p.to, some)
        BY <1>5 DEF apply_release
    <2>4. containers' \in [Services -> Containers]
        BY <2>1, <2>2, <2>3 DEF ReleasesFit
    <2> QED BY <1>4, <1>5, <2>1, <2>4 DEF apply_release, ReleasesFit
<1>6. ASSUME Repair
      PROVE  ReleaseInv'
    <2> DEFINE n == Len(revisions)
    <2>1. ReleasesFit /\ n \in DOMAIN revisions
        BY <1>6 DEF Repair, latest_revision, ReleaseInv, ReleasesFit
    <2>2. \A some \in SUBSET DOMAIN revisions[n].spec :
              Compose("apply", n, some) \in [Services -> Containers]
        BY <2>1, CommandsKeepContainers DEF PlanKinds
    <2>3. \E some \in SUBSET DOMAIN revisions[n].spec : containers' = Compose("apply", n, some)
        BY <1>6 DEF Repair, latest_revision
    <2>4. containers' \in [Services -> Containers]
        BY <2>2, <2>3
    <2> QED BY <1>4, <1>6, <2>1, <2>4 DEF Repair, ReleasesFit
<1>7. ASSUME LoopEnds
      PROVE  ReleaseInv'
    BY <1>4, <1>7 DEF LoopEnds, ReleaseInv, ReleasesFit
<1>8. ASSUME Trouble
      PROVE  ReleaseInv'
    <2>1. ReleasesFit
        BY DEF ReleaseInv
    <2>2. containers' \in [Services -> Containers] /\ reconciling' \in BOOLEAN
        <3>1. CASE UNCHANGED containers
            BY <3>1, <2>1, <1>8 DEF Trouble, ReleasesFit
        <3>2. ASSUME NEW s \in Services, containers[s].state = "running",
                     containers' = [containers EXCEPT ![s].state = "stopped"], UNCHANGED reconciling
              PROVE  containers' \in [Services -> Containers] /\ reconciling' \in BOOLEAN
            <4>1. containers[s] \in Containers /\ containers \in [Services -> Containers]
                BY <2>1 DEF ReleasesFit
            <4>2. PICK v \in Versions : containers[s] = [state |-> "running", version |-> v]
                BY <4>1, <3>2 DEF Containers, Absent
            <4>3. [containers[s] EXCEPT !.state = "stopped"] = [state |-> "stopped", version |-> v]
                BY <4>2
            <4>4. [state |-> "stopped", version |-> v] \in Containers
                BY DEF Containers
            <4> QED BY <3>2, <4>1, <4>3, <4>4, <2>1 DEF ReleasesFit
        <3> QED BY <3>1, <3>2, <1>8 DEF Trouble
    <2> QED BY <1>4, <1>8, <2>2 DEF Trouble
<1>9. ASSUME UNCHANGED releaseVars
      PROVE  ReleaseInv'
    BY <1>4, <1>9 DEF releaseVars, ReleaseInv, ReleasesFit
<1> QED BY <1>1, <1>2, <1>3, <1>5, <1>6, <1>7, <1>8, <1>9 DEF ReleaseNext, reconcile_once

LEMMA ReleaseStart == ReleaseInit => ReleaseInv
<1> SUFFICES ASSUME ReleaseInit
             PROVE  ReleaseInv
    OBVIOUS
<1>1. revisions \in Seq(RevisionRows) /\ Len(revisions) = 0 /\ plans = {}
    BY DEF ReleaseInit
<1> QED BY <1>1, ReleasesAssumption DEF ReleaseInit, ReleaseInv, ReleasesFit, PlansAreWhole, Containers

\* The inductive invariant of releases holds in every behaviour.
THEOREM ReleaseInvariant == ReleaseSpec => []ReleaseInv
BY ReleaseStart, ReleaseStep, PTL DEF ReleaseSpec

(***************************************************************************)
(* Wherever the process dies and however many plans follow each other, a   *)
(* plan that can be applied names files that are there and whole, and the  *)
(* actions it lists are the change from the revision before it             *)
(* (core/releases/store.py).                                               *)
(***************************************************************************)
THEOREM PlansStayWhole == ReleaseSpec => []PlansAreWhole
<1>1. ReleaseInv => PlansAreWhole
    BY DEF ReleaseInv
<1> QED BY <1>1, ReleaseInvariant, PTL

LEMMA ReleaseTypes == ReleaseInv => ReleaseTypeOK
<1> SUFFICES ASSUME ReleaseInv
             PROVE  ReleaseTypeOK
    OBVIOUS
<1>1. \A n \in DOMAIN revisions : revisions[n] \in RevisionRows
    BY DEF ReleaseInv, ReleasesFit
<1> QED BY <1>1 DEF ReleaseInv, ReleasesFit, ReleaseTypeOK, RevisionRows, Containers

\* Type correctness of the revisions and of what docker holds of a release.
THEOREM ReleaseTypesAreKept == ReleaseSpec => []ReleaseTypeOK
BY ReleaseTypes, ReleaseInvariant, PTL

\* A command on a release without containers brings one up only if it applies a plan.
LEMMA CommandsOnNothing ==
    ASSUME Gone, NEW kind \in PlanKinds \ {"apply"}, NEW n, NEW some
    PROVE  \A s \in Services : Compose(kind, n, some)[s].state = "absent"
BY DEF Gone, PlanKinds, Compose, Commanded, Absent

LEMMA DestroyedStep ==
    ReleaseInv /\ [ReleaseNext]_releaseVars => [Gone => Gone' \/ lastOp' = "apply"]_releaseVars
<1> SUFFICES ASSUME ReleaseInv, ReleaseNext, Gone
             PROVE  Gone' \/ lastOp' = "apply"
    BY DEF releaseVars
<1>1. CASE UNCHANGED containers
    BY <1>1 DEF Gone
<1>2. ASSUME NEW p \in plans, NEW s \in Services, apply_release(p, s), p.kind # "apply"
      PROVE  Gone'
    <2>1. p.kind \in PlanKinds \ {"apply"}
        BY <1>2 DEF ReleaseInv, ReleasesFit
    <2>2. containers' = containers \/ \E some : containers' = Compose(p.kind, p.to, some)
        BY <1>2 DEF apply_release
    <2> QED BY <2>1, <2>2, CommandsOnNothing DEF Gone
<1>3. ~Drifted \/ Len(revisions) = 0
    <2> SUFFICES ASSUME Len(revisions) # 0
                 PROVE  ~Drifted
        OBVIOUS
    <2>1. revisions[Len(revisions)].spec \in Specs
        <3>1. revisions[Len(revisions)] \in RevisionRows
            BY DEF ReleaseInv, ReleasesFit
        <3> QED BY <3>1 DEF RevisionRows
    <2>2. DOMAIN revisions[Len(revisions)].spec \subseteq Services
        BY <2>1, SpecsAreMaps
    <2> QED BY <2>2 DEF Drifted, Listed, Gone, latest_revision
<1>4. ~Repair
    BY <1>3 DEF Repair, latest_revision
<1>5. CASE Trouble
    BY <1>1, <1>5 DEF Trouble, Gone
<1>6. ASSUME NEW p \in plans, NEW s \in Services, apply_release(p, s), p.kind = "apply"
      PROVE  lastOp' = "apply"
    BY <1>6 DEF apply_release
<1>7. CASE \E spec \in Specs : plan_release(spec)
    BY <1>1, <1>7 DEF plan_release
<1>8. CASE \E spec \in Specs, n \in 0..2, torn \in BOOLEAN : PlanDies(spec, n, torn)
    BY <1>1, <1>8 DEF PlanDies
<1>9. CASE \E kind \in {"stop", "restart", "destroy"} : build_action_plan(kind)
    BY <1>1, <1>9 DEF build_action_plan
<1>10. CASE LoopEnds
    BY <1>1, <1>10 DEF LoopEnds
<1> QED BY <1>2, <1>4, <1>5, <1>6, <1>7, <1>8, <1>9, <1>10 DEF ReleaseNext, reconcile_once

(***************************************************************************)
(* The reconciler repairs and does not deploy: from a state without        *)
(* containers of the release only a plan that is applied brings one up     *)
(* (core/releases/reconciler.py), whichever plans are applied in which     *)
(* order.                                                                  *)
(***************************************************************************)
THEOREM DestroyedReleasesStayDown == ReleaseSpec => DestroyedStaysDown
BY DestroyedStep, ReleaseInvariant, PTL DEF ReleaseSpec, DestroyedStaysDown

-----------------------------------------------------------------------------
(* Local instances.                                                        *)

ImageSources == {"", "local", "running", "registry"}
Urls == [env : Envs \union {NoEnv}, password : 0..MaxRequests]
Stages == {"idle", "images", "write", "env", "down", "up", "finish", "record"}
FileStates == [images : ImageSources, db : Urls]
Projects == [state : {"none", "up", "partial", "exited"}, images : ImageSources, db : Urls]
Provisions == [stage : Stages, id : 0..requests, env : Envs \union {NoEnv},
               force : BOOLEAN, images : ImageSources]
InstanceRows == [status : {"none", "ready", "active", "stopped"}, deployment : 0..requests]

InstancesFit ==
    /\ siblings \in [Envs -> InstanceRows]
    /\ passwords \in [Envs -> 0..requests]
    /\ files \in FileStates /\ project \in Projects
    /\ deployed \in 0..requests /\ tags \in SUBSET BothImages
    /\ procs \in [Processes -> Provisions]
    /\ requests \in 0..MaxRequests /\ troubles \in 0..MaxTroubles

\* The thread has no environment, and the loop has one while it provisions.
EnvironmentsFit ==
    /\ procs["thread"].env = NoEnv
    /\ procs["loop"].stage # "idle" => procs["loop"].env \in Envs

\* What names a deployment names one that came up: also a row that was stopped and
\* a provisioning that has yet to save it.
DeploymentsCameUp ==
    /\ deployed # 0 => deployed \in cameUp
    /\ \A e \in Envs : siblings[e].status # "none" \/ siblings[e].deployment # 0 =>
                           siblings[e].deployment \in cameUp
    /\ \A p \in Processes : procs[p].stage \in {"finish", "record"} => procs[p].id \in cameUp

\* Local images that were chosen, or written down, exist and stay.
LocalImagesExist ==
    /\ files.images = "local" => tags = BothImages
    /\ \A p \in Processes : procs[p].images = "local" => tags = BothImages

InstanceInv == InstancesFit /\ EnvironmentsFit /\ DeploymentsCameUp /\ LocalImagesExist

\* Choosing images never removes one, and local images are chosen only if both exist.
LEMMA ImagesAreKept ==
    ASSUME tags \subseteq BothImages, NEW prefer, NEW chosen, NEW after \in SUBSET BothImages,
           _resolve_images_for_provision(prefer, chosen, after)
    PROVE  tags \subseteq after /\ (chosen = "local" => after = BothImages)
<1>1. ASSUME NEW t, t \subseteq BothImages, Chosen(t, chosen, after)
      PROVE  t \subseteq after /\ (chosen = "local" => after = BothImages)
    BY <1>1 DEF Chosen
<1>2. CASE prefer = "none"
    BY <1>2 DEF _resolve_images_for_provision
<1>3. CASE prefer = "images"
    BY <1>1, <1>3 DEF _resolve_images_for_provision
<1>4. CASE prefer = "sources"
    <2>1. PICK built \in SUBSET BothImages :
              \/ built = BothImages /\ chosen = "local" /\ after = BothImages
              \/ built # BothImages /\ chosen = "raise" /\ after = tags \union built
              \/ built # BothImages /\ Chosen(tags \union built, chosen, after)
        BY <1>4 DEF _resolve_images_for_provision
    <2>2. CASE Chosen(tags \union built, chosen, after)
        BY <1>1, <2>2
    <2> QED BY <2>1, <2>2
<1> QED BY <1>2, <1>3, <1>4 DEF _resolve_images_for_provision

\* The DATABASE_URLs a provisioning writes and uses are those of the name's environments.
LEMMA UrlsFit ==
    ASSUME InstancesFit, NEW p \in Processes
    PROVE  UrlOf(p) \in Urls /\ UrlInForce(p) \in Urls
<1>1. procs[p].env \in Envs \union {NoEnv} /\ NoEnv \notin Envs /\ files.db \in Urls
    <2>1. procs[p] \in Provisions /\ files \in FileStates
        BY DEF InstancesFit
    <2> QED BY <2>1, InstancesAssumption DEF Provisions, FileStates
<1>2. procs[p].env \in Envs => passwords[procs[p].env] \in 0..MaxRequests
    <2> SUFFICES ASSUME procs[p].env \in Envs
                 PROVE  passwords[procs[p].env] \in 0..MaxRequests
        OBVIOUS
    <2>1. passwords[procs[p].env] \in 0..requests /\ requests \in 0..MaxRequests
        BY DEF InstancesFit
    <2> QED BY <2>1, InstancesAssumption
<1>3. 0 \in 0..MaxRequests
    BY InstancesAssumption
<1> QED BY <1>1, <1>2, <1>3 DEF UrlOf, UrlInForce, OwnUrl, Url, Urls

\* What fits goes on fitting when the requests are counted on.
LEMMA FitsGrow ==
    ASSUME InstancesFit, requests' \in {requests, requests + 1}, requests' <= MaxRequests
    PROVE  /\ siblings \in [Envs -> InstanceRows'] /\ InstanceRows \subseteq InstanceRows'
           /\ passwords \in [Envs -> 0..requests']
           /\ deployed \in 0..requests' /\ requests' \in 0..MaxRequests
           /\ procs \in [Processes -> Provisions'] /\ Provisions \subseteq Provisions'
<1>1. requests \in Nat /\ MaxRequests \in Nat
    BY InstancesAssumption DEF InstancesFit
<1>2. 0..requests \subseteq 0..requests' /\ requests' \in 0..MaxRequests
    BY <1>1
<1>3. InstanceRows \subseteq InstanceRows' /\ Provisions \subseteq Provisions'
    BY <1>2 DEF InstanceRows, Provisions
<1> QED BY <1>2, <1>3 DEF InstancesFit

\* The first state satisfies the invariant of instances.
LEMMA InstanceStart == InstanceInit => InstanceInv
<1> SUFFICES ASSUME InstanceInit
             PROVE  InstanceInv
    OBVIOUS
<1>1. 0 \in 0..MaxRequests /\ 0 \in 0..MaxTroubles /\ 0 \in 0..0
    BY InstancesAssumption
<1>2. OwnUrl \in Urls
    BY <1>1 DEF OwnUrl, Url, Urls
<1>3. /\ Free \in [stage : Stages, id : 0..0, env : Envs \union {NoEnv},
                   force : BOOLEAN, images : ImageSources]
      /\ Free.stage = "idle" /\ Free.env = NoEnv /\ Free.images = ""
    BY <1>1 DEF Free, Stages, ImageSources
<1>4. InstancesFit
    BY <1>1, <1>2, <1>3 DEF InstanceInit, InstancesFit, NoContainers, ImageSources, BothImages,
          FileStates, Projects, Provisions, InstanceRows
<1>5. \A p \in Processes : procs[p] = Free
    BY DEF InstanceInit
<1> QED BY <1>3, <1>4, <1>5 DEF InstanceInit, InstanceInv, EnvironmentsFit, DeploymentsCameUp,
              LocalImagesExist, Processes

\* A step of process p that leaves the rows, the allocations and the requests alone.
LEMMA ProcessSteps ==
    ASSUME InstanceInv, NEW p \in Processes,
           NEW q \in Provisions, procs' = [procs EXCEPT ![p] = q],
           q = Free \/ (q.env = procs[p].env /\ procs[p].stage # "idle"),
           UNCHANGED <<siblings, passwords, requests>>,
           files' \in FileStates, project' \in Projects,
           deployed' \in 0..requests, deployed' # 0 => deployed' \in cameUp',
           tags \subseteq tags', tags' \subseteq BothImages, troubles' \in 0..MaxTroubles,
           cameUp \subseteq cameUp',
           q.stage \in {"finish", "record"} => q.id \in cameUp',
           q.images = "local" => tags' = BothImages,
           files'.images = "local" => tags' = BothImages
    PROVE  InstanceInv'
<1>1. procs \in [Processes -> Provisions]
    BY DEF InstanceInv, InstancesFit
<1>2. procs'[p] = q /\ \A o \in Processes \ {p} : procs'[o] = procs[o]
    BY <1>1
<1>3. InstancesFit'
    BY <1>1 DEF InstanceRows, Provisions, InstanceInv, InstancesFit
<1>4. Free.env = NoEnv /\ Free.stage = "idle"
    BY DEF Free
<1>5. EnvironmentsFit'
    BY <1>2, <1>4 DEF InstanceInv, EnvironmentsFit, Processes
<1>6. DeploymentsCameUp'
    BY <1>2 DEF InstanceInv, DeploymentsCameUp
<1>7. LocalImagesExist'
    <2>1. tags = BothImages => tags' = BothImages
        OBVIOUS
    <2> QED BY <1>2, <2>1 DEF InstanceInv, LocalImagesExist
<1> QED BY <1>3, <1>5, <1>6, <1>7 DEF InstanceInv

\* A provisioning goes on to another stage, or ends.
LEMMA ProvisioningGoesOn ==
    ASSUME InstanceInv, NEW p \in Processes, procs[p].stage # "idle",
           NEW stage \in Stages, Raises(p) \/ Goes(p, stage),
           stage \in {"finish", "record"} => procs[p].id \in cameUp',
           UNCHANGED <<siblings, passwords, requests, tags>>,
           files' \in FileStates, project' \in Projects, troubles' \in 0..MaxTroubles,
           deployed' \in 0..requests, deployed' # 0 => deployed' \in cameUp',
           cameUp \subseteq cameUp', files'.images = "local" => tags = BothImages
    PROVE  InstanceInv'
<1>1. procs[p] \in Provisions /\ (procs[p].images = "local" => tags = BothImages)
    BY DEF InstanceInv, InstancesFit, LocalImagesExist
<1>2. Free \in Provisions /\ Free.stage = "idle" /\ Free.images = ""
    <2>1. 0 \in 0..requests
        BY InstancesAssumption DEF InstanceInv, InstancesFit
    <2> QED BY <2>1 DEF Free, Provisions, Stages, ImageSources
<1>3. tags \subseteq tags' /\ tags' \subseteq BothImages
    BY DEF InstanceInv, InstancesFit
<1>4. CASE Raises(p)
    <2>1. procs' = [procs EXCEPT ![p] = Free]
        BY <1>4 DEF Raises
    <2> QED BY <1>2, <1>3, <2>1, ProcessSteps
<1>5. CASE Goes(p, stage)
    <2>1. PICK q : q = [procs[p] EXCEPT !.stage = stage] /\ procs' = [procs EXCEPT ![p] = q]
        BY <1>5 DEF Goes
    <2>2. /\ q \in Provisions /\ q.env = procs[p].env /\ q.stage = stage
          /\ q.id = procs[p].id /\ q.images = procs[p].images
        BY <1>1, <2>1 DEF Provisions
    <2>3. /\ q.stage \in {"finish", "record"} => q.id \in cameUp'
          /\ q.images = "local" => tags' = BothImages
        BY <1>1, <2>2
    <2> QED BY <1>3, <2>1, <2>2, <2>3, ProcessSteps
<1> QED BY <1>4, <1>5

\* Docker and the rows change, and no process moves.
LEMMA ControlsKeep ==
    ASSUME InstanceInv, project' \in Projects, troubles' \in 0..MaxTroubles,
           NEW e \in Envs, siblings[e].deployment # 0,
           NEW status \in {"active", "stopped"},
           siblings' \in {siblings, [siblings EXCEPT ![e].status = status]},
           UNCHANGED <<passwords, files, deployed, tags, procs, requests, cameUp>>
    PROVE  InstanceInv'
<1>1. siblings \in [Envs -> InstanceRows] /\ siblings[e] \in InstanceRows
    BY DEF InstanceInv, InstancesFit
<1>2. siblings' = siblings \/ siblings' = [siblings EXCEPT ![e] = [@ EXCEPT !.status = status]]
    OBVIOUS
<1>3. [siblings[e] EXCEPT !.status = status] \in InstanceRows
    BY <1>1 DEF InstanceRows
<1>4. siblings' \in [Envs -> InstanceRows]
    BY <1>1, <1>2, <1>3
<1>5. \A d \in Envs : /\ siblings'[d].deployment = siblings[d].deployment
                      /\ siblings'[d].status # siblings[d].status => siblings[d].deployment # 0
    BY <1>1, <1>2 DEF InstanceRows
<1>6. InstancesFit'
    BY <1>4 DEF InstanceInv, InstancesFit, InstanceRows, Provisions
<1>7. DeploymentsCameUp'
    <2>1. /\ deployed' # 0 => deployed' \in cameUp'
          /\ \A p \in Processes : procs'[p].stage \in {"finish", "record"} => procs'[p].id \in cameUp'
        BY DEF InstanceInv, DeploymentsCameUp
    <2>2. ASSUME NEW d \in Envs, siblings'[d].status # "none" \/ siblings'[d].deployment # 0
          PROVE  siblings'[d].deployment \in cameUp'
        <3>1. /\ siblings'[d].deployment = siblings[d].deployment
              /\ siblings[d].status # "none" \/ siblings[d].deployment # 0
            BY <1>5, <2>2
        <3> QED BY <3>1 DEF InstanceInv, DeploymentsCameUp
    <2> QED BY <2>1, <2>2 DEF DeploymentsCameUp
<1> QED BY <1>6, <1>7 DEF InstanceInv, EnvironmentsFit, LocalImagesExist

\* Every step of a request, a provisioning or a crash keeps the invariant.
LEMMA InstanceStep == InstanceInv /\ [InstanceNext]_instanceVars => InstanceInv'
<1> SUFFICES ASSUME InstanceInv, [InstanceNext]_instanceVars
             PROVE  InstanceInv'
    OBVIOUS
<1>1. /\ InstancesFit /\ EnvironmentsFit /\ DeploymentsCameUp /\ LocalImagesExist
      /\ \A p \in Processes : procs[p] \in Provisions
    BY DEF InstanceInv, InstancesFit
<1>2. /\ MaxRequests \in Nat /\ MaxTroubles \in Nat /\ requests \in 0..MaxRequests
      /\ troubles \in 0..MaxTroubles /\ NoEnv \notin Envs
    BY <1>1, InstancesAssumption DEF InstancesFit
<1>3. Fault => troubles' \in 0..MaxTroubles
    BY <1>2 DEF Fault
<1>4. /\ Free \in Provisions
      /\ Free.stage = "idle" /\ Free.env = NoEnv /\ Free.images = "" /\ Free.id = 0
    BY <1>2 DEF Free, Stages, ImageSources, Provisions
<1>5. NoContainers \in Projects
    BY <1>2 DEF NoContainers, Projects, ImageSources, OwnUrl, Url, Urls
<1>6. ASSUME NEW e \in Envs, NEW force \in BOOLEAN, spawn_environment_sibling(e, force)
      PROVE  InstanceInv'
    <2>1. /\ procs["loop"].stage = "idle" /\ requests' = requests + 1 /\ requests + 1 <= MaxRequests
          /\ passwords' = [passwords EXCEPT ![e] = @ + 1]
          /\ UNCHANGED <<files, project, deployed, tags, cameUp>>
        BY <1>2, <1>6 DEF spawn_environment_sibling
    <2>2. passwords' \in [Envs -> 0..requests']
        BY <1>1, <1>2, <2>1 DEF InstancesFit
    <2>3. CASE Fault /\ UNCHANGED <<procs, siblings>>
        <3>1. InstancesFit'
            BY <1>1, <1>2, <1>3, <2>1, <2>2, <2>3, FitsGrow DEF InstancesFit
        <3> QED BY <1>1, <2>1, <2>3, <3>1 DEF InstanceInv, EnvironmentsFit, DeploymentsCameUp,
                  LocalImagesExist
    <2>4. CASE deployed # 0 /\ Record(e, deployed) /\ UNCHANGED <<procs, troubles>>
        <3>1. siblings' = [siblings EXCEPT ![e] = [status |-> "ready", deployment |-> deployed]]
            BY <2>4 DEF Record
        <3>2. /\ siblings \in [Envs -> InstanceRows'] /\ deployed \in 0..requests'
              /\ requests' \in 0..MaxRequests /\ procs \in [Processes -> Provisions']
            BY <1>1, <1>2, <2>1, FitsGrow
        <3>3. siblings' \in [Envs -> InstanceRows']
            <4>1. [status |-> "ready", deployment |-> deployed] \in InstanceRows'
                BY <3>2 DEF InstanceRows
            <4> QED BY <3>1, <3>2, <4>1
        <3>4. InstancesFit'
            BY <1>1, <2>1, <2>2, <2>4, <3>2, <3>3 DEF InstancesFit
        <3>5. DeploymentsCameUp'
            BY <1>1, <2>1, <2>4, <3>1 DEF DeploymentsCameUp, InstancesFit
        <3> QED BY <1>1, <2>1, <2>4, <3>4, <3>5 DEF InstanceInv, EnvironmentsFit, LocalImagesExist
    <2>5. CASE Begins("loop", e, force) /\ UNCHANGED troubles
        <3>1. PICK q : /\ q = [Free EXCEPT !.stage = "images", !.env = e,
                                           !.id = requests + 1, !.force = force]
                       /\ procs' = [procs EXCEPT !["loop"] = q] /\ UNCHANGED siblings
            BY <2>5 DEF Begins
        <3>2. q \in Provisions' /\ q.stage = "images" /\ q.env = e /\ q.images = ""
            <4>1. /\ requests + 1 \in 0..requests' /\ force \in BOOLEAN
                  /\ e \in Envs \union {NoEnv} /\ "images" \in Stages /\ "" \in ImageSources
                BY <1>2, <2>1 DEF Stages, ImageSources
            <4>2. q = [stage |-> "images", id |-> requests + 1, env |-> e, force |-> force,
                       images |-> ""]
                BY <3>1 DEF Free
            <4> QED BY <4>1, <4>2 DEF Provisions
        <3>3. /\ siblings \in [Envs -> InstanceRows'] /\ deployed \in 0..requests'
              /\ requests' \in 0..MaxRequests /\ procs \in [Processes -> Provisions']
            BY <1>1, <1>2, <2>1, FitsGrow
        <3>4. procs' \in [Processes -> Provisions']
            BY <3>1, <3>2, <3>3
        <3>5. InstancesFit'
            BY <1>1, <2>1, <2>2, <2>5, <3>1, <3>3, <3>4 DEF InstancesFit
        <3>6. procs'["loop"] = q /\ procs'["thread"] = procs["thread"]
            BY <1>1, <3>1 DEF InstancesFit, Processes
        <3>7. EnvironmentsFit'
            BY <1>1, <3>2, <3>6 DEF EnvironmentsFit
        <3>8. DeploymentsCameUp' /\ LocalImagesExist'
            <4>1. q.stage \notin {"finish", "record"} /\ q.images # "local"
                BY <3>2
            <4> QED BY <1>1, <2>1, <3>1, <3>6, <4>1 DEF DeploymentsCameUp, LocalImagesExist, Processes
        <3> QED BY <3>5, <3>7, <3>8 DEF InstanceInv
    <2> QED BY <1>6, <2>3, <2>4, <2>5 DEF spawn_environment_sibling
<1>7. ASSUME NEW force \in BOOLEAN, local_instance(force)
      PROVE  InstanceInv'
    <2>1. PICK q : /\ q = [Free EXCEPT !.stage = "images", !.env = NoEnv,
                                       !.id = requests + 1, !.force = force]
                   /\ procs' = [procs EXCEPT !["thread"] = q]
        BY <1>7 DEF local_instance, Begins
    <2>2. /\ requests' = requests + 1 /\ requests + 1 <= MaxRequests
          /\ UNCHANGED <<siblings, passwords, files, project, deployed, tags, troubles, cameUp>>
        BY <1>2, <1>7 DEF local_instance, Begins
    <2>3. q \in Provisions' /\ q.stage = "images" /\ q.env = NoEnv /\ q.images = ""
        <3>1. /\ requests + 1 \in 0..requests' /\ force \in BOOLEAN
              /\ NoEnv \in Envs \union {NoEnv} /\ "images" \in Stages /\ "" \in ImageSources
            BY <1>2, <2>2 DEF Stages, ImageSources
        <3>2. q = [stage |-> "images", id |-> requests + 1, env |-> NoEnv, force |-> force,
                   images |-> ""]
            BY <2>1 DEF Free
        <3> QED BY <3>1, <3>2 DEF Provisions
    <2>4. /\ siblings \in [Envs -> InstanceRows'] /\ deployed \in 0..requests'
          /\ passwords \in [Envs -> 0..requests']
          /\ requests' \in 0..MaxRequests /\ procs \in [Processes -> Provisions']
        BY <1>1, <1>2, <2>2, FitsGrow
    <2>5. procs' \in [Processes -> Provisions']
        BY <2>1, <2>3, <2>4
    <2>6. InstancesFit'
        BY <1>1, <2>2, <2>4, <2>5 DEF InstancesFit
    <2>7. procs'["thread"] = q /\ procs'["loop"] = procs["loop"]
        BY <1>1, <2>1 DEF InstancesFit, Processes
    <2> QED BY <1>1, <2>2, <2>3, <2>6, <2>7 DEF InstanceInv, EnvironmentsFit, DeploymentsCameUp,
              LocalImagesExist, Processes
<1>8. ASSUME NEW p \in Processes, ResolveImages(p)
      PROVE  InstanceInv'
    <2>1. PICK prefer \in Prefer, chosen \in {"local", "running", "registry", "raise"},
               after \in SUBSET BothImages :
              /\ _resolve_images_for_provision(prefer, chosen, after)
              /\ tags' = after
              /\ IF chosen = "raise" THEN Fault /\ Raises(p)
                 ELSE /\ procs' = [procs EXCEPT ![p].stage = "write", ![p].images = chosen]
                      /\ UNCHANGED troubles
        BY <1>8 DEF ResolveImages
    <2>2. tags \subseteq after /\ (chosen = "local" => after = BothImages)
        BY <1>1, <2>1, ImagesAreKept DEF InstancesFit
    <2>3. /\ UNCHANGED <<siblings, passwords, files, project, deployed, requests, cameUp>>
          /\ procs[p].stage = "images"
        BY <1>8 DEF ResolveImages
    <2> DEFINE q == IF chosen = "raise" THEN Free
                    ELSE [procs[p] EXCEPT !.stage = "write", !.images = chosen]
    <2>4. procs[p] \in Provisions
        BY <1>1
    <2>5. q \in Provisions /\ (q = Free \/ q.env = procs[p].env)
        BY <1>4, <2>1, <2>4 DEF Stages, ImageSources, Provisions
    <2>6. procs' = [procs EXCEPT ![p] = q]
        BY <2>1 DEF Raises
    <2>7. troubles' \in 0..MaxTroubles
        BY <1>2, <1>3, <2>1
    <2>8. q.stage \notin {"finish", "record"} /\ (q.images = "local" => after = BothImages)
        BY <1>4, <2>2, <2>4 DEF Provisions
    <2>9. files.images = "local" => tags = BothImages
        BY <1>1 DEF LocalImagesExist
    <2>10. /\ files \in FileStates /\ project \in Projects /\ deployed \in 0..requests
           /\ (deployed # 0 => deployed \in cameUp)
        BY <1>1 DEF InstancesFit, DeploymentsCameUp
    <2> HIDE DEF q
    <2>11. /\ q = Free \/ (q.env = procs[p].env /\ procs[p].stage # "idle")
           /\ q.stage \in {"finish", "record"} => q.id \in cameUp'
           /\ q.images = "local" => tags' = BothImages
           /\ files'.images = "local" => tags' = BothImages
           /\ tags \subseteq tags' /\ tags' \subseteq BothImages /\ cameUp \subseteq cameUp'
           /\ UNCHANGED <<siblings, passwords, requests>>
           /\ files' \in FileStates /\ project' \in Projects /\ deployed' \in 0..requests
           /\ (deployed' # 0 => deployed' \in cameUp')
        BY <2>1, <2>2, <2>3, <2>5, <2>8, <2>9, <2>10
    <2> QED BY <2>5, <2>6, <2>7, <2>11, ProcessSteps
<1>9. /\ files \in FileStates /\ project \in Projects /\ deployed \in 0..requests
      /\ (deployed # 0 => deployed \in cameUp)
      /\ (files.images = "local" => tags = BothImages)
    BY <1>1 DEF InstancesFit, DeploymentsCameUp, LocalImagesExist
<1>10. ASSUME NEW p \in Processes, WriteCompose(p)
       PROVE  InstanceInv'
    <2>1. procs[p].images \in ImageSources /\ (procs[p].images = "local" => tags = BothImages)
        BY <1>1 DEF Provisions, LocalImagesExist
    <2>2. files' \in FileStates /\ files'.images = procs[p].images
        BY <1>9, <1>10, <2>1 DEF WriteCompose, FileStates
    <2>3. /\ Goes(p, "env") /\ procs[p].stage # "idle" /\ "env" \in Stages
          /\ UNCHANGED <<siblings, passwords, project, deployed, tags, requests, troubles, cameUp>>
        BY <1>10 DEF WriteCompose, Stages
    <2> QED BY <1>2, <1>9, <2>1, <2>2, <2>3, ProvisioningGoesOn
<1>11. ASSUME NEW p \in Processes, _write_compose_env_file(p)
       PROVE  InstanceInv'
    <2>1. UrlOf(p) \in Urls
        BY <1>1, UrlsFit
    <2>2. files' \in FileStates /\ files'.images = files.images
        BY <1>9, <1>11, <2>1 DEF _write_compose_env_file, FileStates
    <2>3. /\ procs[p].stage # "idle" /\ Goes(p, IF procs[p].force THEN "down" ELSE "up")
          /\ (IF procs[p].force THEN "down" ELSE "up") \in Stages \ {"finish", "record"}
          /\ UNCHANGED <<siblings, passwords, project, deployed, tags, requests, troubles, cameUp>>
        BY <1>11 DEF _write_compose_env_file, Stages
    <2>4. PICK stage \in Stages \ {"finish", "record"} : Goes(p, stage)
        BY <2>3
    <2> QED BY <1>2, <1>9, <2>2, <2>3, <2>4, ProvisioningGoesOn
<1>12. ASSUME NEW p \in Processes, DownAndPull(p)
       PROVE  InstanceInv'
    <2>1. /\ Goes(p, "up") \/ Raises(p)
          /\ project' \in Projects /\ procs[p].stage # "idle" /\ "up" \in Stages
          /\ UNCHANGED <<siblings, passwords, files, deployed, tags, requests, cameUp>>
        BY <1>5, <1>9, <1>12 DEF DownAndPull, Stages
    <2>2. troubles' \in 0..MaxTroubles
        BY <1>2, <1>3, <1>12 DEF DownAndPull
    <2> QED BY <1>9, <2>1, <2>2, ProvisioningGoesOn
<1>13. ASSUME NEW p \in Processes, Up(p)
       PROVE  InstanceInv'
    <2> DEFINE up == [state |-> "up", images |-> files.images, db |-> UrlInForce(p)]
    <2>1. /\ procs[p].stage = "up"
          /\ project' = up \/ project' = [up EXCEPT !.state = "partial"]
          /\ (Goes(p, "finish") /\ cameUp' = cameUp \union {procs[p].id}) \/ Raises(p)
          /\ cameUp \subseteq cameUp' /\ (troubles' = troubles \/ Fault)
          /\ UNCHANGED <<siblings, passwords, files, deployed, tags, requests>>
        BY <1>13 DEF Up
    <2>2. files.images \in ImageSources /\ UrlInForce(p) \in Urls
        BY <1>1, <1>9, UrlsFit DEF FileStates
    <2>3. project' \in Projects
        BY <2>1, <2>2 DEF Projects
    <2>4. troubles' \in 0..MaxTroubles
        BY <1>2, <1>3, <2>1
    <2> HIDE DEF up
    <2>5. "finish" \in Stages /\ "images" \in Stages
        BY DEF Stages
    <2>6. CASE Goes(p, "finish") /\ cameUp' = cameUp \union {procs[p].id}
        BY <1>9, <2>1, <2>3, <2>4, <2>5, <2>6, ProvisioningGoesOn
    <2>7. CASE Raises(p)
        BY <1>9, <2>1, <2>3, <2>4, <2>5, <2>7, ProvisioningGoesOn
    <2> QED BY <2>1, <2>6, <2>7
<1>14. ASSUME NEW p \in Processes, Finish(p)
       PROVE  InstanceInv'
    <2>1. procs[p].stage = "finish" /\ procs[p].id \in cameUp /\ procs[p].id \in 0..requests
        BY <1>1, <1>14 DEF Finish, DeploymentsCameUp, Provisions
    <2>2. /\ Goes(p, "record") \/ Raises(p)
          /\ deployed' = procs[p].id \/ deployed' = deployed
          /\ troubles' = troubles \/ Fault
          /\ UNCHANGED <<siblings, passwords, files, project, tags, requests, cameUp>>
        BY <1>14 DEF Finish
    <2>3. troubles' \in 0..MaxTroubles /\ "record" \in Stages
        BY <1>2, <1>3, <2>2 DEF Stages
    <2> QED BY <1>9, <2>1, <2>2, <2>3, ProvisioningGoesOn
<1>15. ASSUME upsert_sibling
       PROVE  InstanceInv'
    <2> DEFINE p == procs["loop"]
    <2>1. /\ p.stage = "record" /\ p \in Provisions /\ p.env \in Envs /\ p.id \in cameUp
        BY <1>1, <1>15 DEF upsert_sibling, EnvironmentsFit, DeploymentsCameUp, Processes
    <2>2. /\ siblings' = [siblings EXCEPT ![p.env] = [status |-> "ready", deployment |-> p.id]]
          /\ procs' = [procs EXCEPT !["loop"] = Free]
          /\ UNCHANGED <<passwords, files, project, deployed, tags, requests, troubles, cameUp>>
        BY <1>15 DEF upsert_sibling, Record, Raises
    <2>3. [status |-> "ready", deployment |-> p.id] \in InstanceRows
        BY <2>1 DEF Provisions, InstanceRows
    <2>4. InstancesFit'
        <3>1. siblings' \in [Envs -> InstanceRows] /\ procs' \in [Processes -> Provisions]
            BY <1>1, <1>4, <2>1, <2>2, <2>3 DEF InstancesFit
        <3> QED BY <1>1, <2>2, <3>1 DEF InstancesFit, InstanceRows, Provisions
    <2>5. procs'["loop"] = Free /\ procs'["thread"] = procs["thread"]
        BY <1>1, <2>2 DEF InstancesFit, Processes
    <2>6. EnvironmentsFit' /\ LocalImagesExist'
        BY <1>1, <1>4, <2>2, <2>5 DEF EnvironmentsFit, LocalImagesExist, Processes
    <2>7. DeploymentsCameUp'
        BY <1>1, <1>4, <2>1, <2>2, <2>5 DEF DeploymentsCameUp, InstancesFit, Processes
    <2> QED BY <2>4, <2>6, <2>7 DEF InstanceInv
<1>16. ASSUME NEW e \in Envs, restart_sibling(e)
       PROVE  InstanceInv'
    <2>1. /\ siblings[e].deployment # 0
          /\ UNCHANGED <<passwords, files, deployed, tags, procs, requests, cameUp>>
          /\ siblings' \in {siblings, [siblings EXCEPT ![e].status = "active"]}
          /\ troubles' = troubles \/ Fault
        BY <1>16 DEF restart_sibling, Controls
    <2>2. project' \in Projects
        BY <1>9, <1>16 DEF restart_sibling, Projects
    <2>3. troubles' \in 0..MaxTroubles
        BY <1>2, <1>3, <2>1
    <2> QED BY <2>1, <2>2, <2>3, ControlsKeep
<1>17. ASSUME NEW e \in Envs, NEW remove \in BOOLEAN, stop_sibling(e, remove)
       PROVE  InstanceInv'
    <2>1. /\ siblings[e].deployment # 0
          /\ UNCHANGED <<passwords, files, deployed, tags, procs, requests, cameUp>>
          /\ siblings' \in {siblings, [siblings EXCEPT ![e].status = "stopped"]}
          /\ troubles' = troubles \/ Fault
        BY <1>17 DEF stop_sibling, Controls
    <2>2. project' \in Projects
        <3>1. [project EXCEPT !.state = "exited"] \in Projects
            BY <1>9 DEF Projects
        <3> QED BY <1>5, <1>17, <3>1 DEF stop_sibling
    <2>3. troubles' \in 0..MaxTroubles
        BY <1>2, <1>3, <2>1
    <2> QED BY <2>1, <2>2, <2>3, ControlsKeep
<1>18. ASSUME ApiCrash
       PROVE  InstanceInv'
    <2>1. /\ procs' = [p \in Processes |-> Free] /\ deployed' \in {0, deployed} /\ Fault
          /\ UNCHANGED <<siblings, passwords, files, project, tags, requests, cameUp>>
        BY <1>18 DEF ApiCrash
    <2>2. InstancesFit'
        <3>1. procs' \in [Processes -> Provisions] /\ deployed' \in 0..requests
            <4>1. 0 \in 0..requests
                BY <1>2
            <4> QED BY <1>4, <1>9, <2>1, <4>1
        <3> QED BY <1>1, <1>3, <2>1, <3>1 DEF InstancesFit, InstanceRows, Provisions
    <2>3. \A p \in Processes : procs'[p] = Free
        BY <2>1
    <2> QED BY <1>1, <1>4, <2>1, <2>2, <2>3 DEF InstanceInv, EnvironmentsFit, DeploymentsCameUp,
              LocalImagesExist, Processes
<1>19. CASE UNCHANGED instanceVars
    BY <1>1, <1>19 DEF instanceVars, InstanceRows, Provisions, InstanceInv, InstancesFit, EnvironmentsFit, DeploymentsCameUp,
          LocalImagesExist
<1> QED BY <1>6, <1>7, <1>8, <1>10, <1>11, <1>12, <1>13, <1>14, <1>15, <1>16, <1>17, <1>18, <1>19
          DEF InstanceNext, Provisioning

\* The inductive invariant of local instances holds in every behaviour.
THEOREM InstanceInvariant == InstanceSpec => []InstanceInv
BY InstanceStart, InstanceStep, PTL DEF InstanceSpec

(***************************************************************************)
(* A saved deployment and a sibling that is not "none" name a deployment   *)
(* that did come up, and the project is never put on local images of which *)
(* one is missing, whatever fails and whichever requests overlap           *)
(* (core/provisioning_local.py).                                           *)
(***************************************************************************)
THEOREM RuntimesAreBacked == InstanceSpec => []RuntimeIsBacked
<1>1. InstanceInv => RuntimeIsBacked
    BY DEF InstanceInv, DeploymentsCameUp, LocalImagesExist, RuntimeIsBacked
<1> QED BY <1>1, InstanceInvariant, PTL

LEMMA InstanceTypes == InstanceInv => InstanceTypeOK
<1> SUFFICES ASSUME InstanceInv
             PROVE  InstanceTypeOK
    OBVIOUS
<1>1. InstancesFit /\ EnvironmentsFit
    BY DEF InstanceInv
<1>2. requests \in 0..MaxRequests /\ 0..requests \subseteq 0..MaxRequests
    BY <1>1, InstancesAssumption DEF InstancesFit
<1>3. \A e \in Envs : siblings[e] \in InstanceRows /\ passwords[e] \in 0..requests
    BY <1>1 DEF InstancesFit
<1>4. \A p \in Processes : procs[p] \in Provisions
    BY <1>1 DEF InstancesFit
<1> QED BY <1>1, <1>2, <1>3, <1>4 DEF InstancesFit, EnvironmentsFit, InstanceTypeOK, InstanceRows,
          Provisions, Stages, Projects

\* Type correctness of the siblings, the project and the provisionings.
THEOREM InstanceTypesAreKept == InstanceSpec => []InstanceTypeOK
BY InstanceTypes, InstanceInvariant, PTL

(***************************************************************************)
(* A spawn that brought the containers up gave them the database of its    *)
(* own environment with the password allocated for it, also if a direct    *)
(* request rewrote the .env file of the shared project between.            *)
(***************************************************************************)
THEOREM SpawnsUseTheirDatabase == InstanceSpec => SpawnUsesItsDatabase
<1>1. InstanceInv /\ [InstanceNext]_instanceVars =>
          [LET p == procs["loop"]
           IN  p.stage = "up" /\ procs'["loop"].stage = "finish" =>
                   project'.db = Url(p.env, passwords[p.env])]_instanceVars
    <2> SUFFICES ASSUME InstanceInv, InstanceNext, procs["loop"].stage = "up",
                        procs'["loop"].stage = "finish"
                 PROVE  project'.db = Url(procs["loop"].env, passwords[procs["loop"].env])
        BY DEF instanceVars
    <2>1. /\ procs \in [Processes -> Provisions] /\ procs["loop"].env # NoEnv
        BY InstancesAssumption DEF InstanceInv, InstancesFit, EnvironmentsFit
    <2>2. CASE Up("loop")
        BY <2>1, <2>2 DEF Up, UrlInForce, UrlOf
    <2>3. ASSUME procs'["loop"] = procs["loop"]
          PROVE  FALSE
        BY <2>3
    <2>4. ASSUME NEW q, procs' = [procs EXCEPT !["thread"] = q]
          PROVE  FALSE
        BY <2>1, <2>3, <2>4
    <2>5. ASSUME NEW force \in BOOLEAN, local_instance(force)
          PROVE  FALSE
        BY <2>4, <2>5 DEF local_instance, Begins
    <2>6. ASSUME Provisioning("thread")
          PROVE  FALSE
        <3>1. \E q : procs' = [procs EXCEPT !["thread"] = q]
            BY <2>6 DEF Provisioning, ResolveImages, WriteCompose, _write_compose_env_file,
                 DownAndPull, Up, Finish, Goes, Raises
        <3> QED BY <2>4, <3>1
    <2>7. ASSUME Provisioning("loop"), ~Up("loop")
          PROVE  FALSE
        BY <2>7 DEF Provisioning, ResolveImages, WriteCompose, _write_compose_env_file,
             DownAndPull, Finish
    <2>8. ~upsert_sibling
        BY DEF upsert_sibling
    <2>9. \A e \in Envs : /\ ~restart_sibling(e)
                          /\ \A remove \in BOOLEAN : ~stop_sibling(e, remove)
                          /\ \A force \in BOOLEAN : ~spawn_environment_sibling(e, force)
        BY DEF restart_sibling, stop_sibling, Controls, spawn_environment_sibling
    <2>10. ~ApiCrash
        <3> SUFFICES ASSUME ApiCrash
                     PROVE  FALSE
            OBVIOUS
        <3>1. procs' = [p \in Processes |-> Free] /\ "loop" \in Processes
            BY DEF ApiCrash, Processes
        <3>2. procs'["loop"].stage = "idle"
            BY <3>1 DEF Free
        <3> QED BY <3>2
    <2> QED BY <2>2, <2>5, <2>6, <2>7, <2>8, <2>9, <2>10 DEF InstanceNext, Processes
<1> QED BY <1>1, InstanceInvariant, PTL DEF InstanceSpec, SpawnUsesItsDatabase

-----------------------------------------------------------------------------
(* Builds of one app.                                                      *)

TaskRows == [stage : {"generate", "deploy", "provision", "smoke"}, build : 1..MaxBuilds,
             host : Nat, installed : 0..MaxBuilds,
             status : {"queued", "running", "succeeded", "failed"}]
HostRows == [imported : SUBSET (0..MaxBuilds), installed : 0..MaxBuilds, runs : 0..MaxBuilds]
AskedRows == [builds : 0..MaxBuilds, activations : 0..MaxActivations, setbacks : 0..MaxSetbacks]

RevisionsFit ==
    /\ tasks \in Seq(TaskRows) /\ hosts \in Seq(HostRows)
    /\ \A t, u \in InProgress : t = u
    /\ Busy <=> step # "idle"
    /\ package \in 0..MaxBuilds /\ catalog \in 0..MaxBuilds
    /\ root \in [build : 0..MaxBuilds, up : BOOLEAN, by : 0..Len(tasks)]
    /\ deferred \in BOOLEAN /\ asked \in AskedRows

\* A running job that touched the root runtime last has it down, or has it up again
\* and is about to end.
HoldsRoot(t) ==
    \/ tasks[t].stage = "deploy" /\ (step = "down" \/ (step = "up" /\ root.up))
    \/ tasks[t].stage = "smoke" /\ (step = "stopped" \/ (step = "restarted" /\ root.up))

RootIsHeld ==
    \A t \in DOMAIN tasks : root.by = t =>
        /\ tasks[t].status # "queued"
        /\ tasks[t].status = "running" => HoldsRoot(t)
        /\ tasks[t].status = "succeeded" => root.up

Generation(t) == tasks[t].stage = "generate"

\* The builds are generated in the order of their numbers.
BuildsAreOrdered ==
    /\ \A t, u \in DOMAIN tasks :
          /\ Generation(t) /\ Generation(u) /\ t < u => tasks[t].build < tasks[u].build
          /\ tasks[u].status = "queued" /\ tasks[t].status # "queued" => t < u
    /\ \A t \in DOMAIN tasks : tasks[t].build <= asked.builds
    /\ catalog <= asked.builds
    /\ \A t \in InProgress : Generation(t) /\ step = "packaged" => package = tasks[t].build

\* While no import failed, the catalog has the newest build that anybody can deploy,
\* and a smoke test past the catalog check is of that build.
CatalogLeads == ~deferred =>
    /\ root.build <= catalog
    /\ \A t \in DOMAIN tasks :
          /\ ~Generation(t) \/ tasks[t].status = "succeeded" => tasks[t].build <= catalog
          /\ Generation(t) /\ tasks[t].status \in {"queued", "running"} => catalog <= tasks[t].build
    /\ \A t \in InProgress :
          (Generation(t) /\ step = "imported")
          \/ (tasks[t].stage = "smoke" /\ step \in {"listed", "agreed", "stopped"})
             => tasks[t].build = catalog

RevisionInv == RevisionsFit /\ RootIsHeld /\ BuildsAreOrdered /\ CatalogLeads

\* The running job is the only one.
LEMMA ThisRuns ==
    ASSUME RevisionsFit, Busy
    PROVE  /\ This \in DOMAIN tasks /\ tasks[This].status = "running"
           /\ tasks[This] \in TaskRows
           /\ \A u \in DOMAIN tasks : tasks[u].status = "running" => u = This
<1>1. This \in InProgress
    BY DEF Busy, This
<1>2. This \in DOMAIN tasks /\ tasks[This].status = "running"
    BY <1>1 DEF InProgress
<1>3. \A u \in DOMAIN tasks : tasks[u].status = "running" => u = This
    BY <1>1 DEF RevisionsFit, InProgress
<1> QED BY <1>2, <1>3 DEF RevisionsFit

\* A job ends, with or without a follow-up.
Ending(s, t, status, new) == [s EXCEPT ![t].status = status] \o new

IsEnding(s, t, status, new, after) ==
    /\ after \in Seq(TaskRows) /\ Len(after) = Len(s) + Len(new)
    /\ \A u \in DOMAIN s \ {t} : after[u] = s[u]
    /\ after[t].stage = s[t].stage /\ after[t].build = s[t].build
    /\ after[t].host = s[t].host /\ after[t].status = status
    /\ \A u \in (Len(s) + 1)..(Len(s) + Len(new)) : after[u] = new[1]

LEMMA TasksEnd ==
    ASSUME NEW s \in Seq(TaskRows), NEW t \in DOMAIN s,
           NEW status \in {"succeeded", "failed"}, NEW new \in Seq(TaskRows), Len(new) <= 1
    PROVE  IsEnding(s, t, status, new, Ending(s, t, status, new))
<1>1. s[t] \in TaskRows
    OBVIOUS
<1>2. [s[t] EXCEPT !.status = status] \in TaskRows
    BY <1>1 DEF TaskRows
<1>3. PICK ended : ended = [s EXCEPT ![t].status = status]
    OBVIOUS
<1>4. ended = [s EXCEPT ![t] = [s[t] EXCEPT !.status = status]]
    BY <1>3
<1>5. ended \in Seq(TaskRows) /\ Len(ended) = Len(s) /\ DOMAIN ended = DOMAIN s
    BY <1>2, <1>4
<1>6. ended[t] = [s[t] EXCEPT !.status = status] /\ \A u \in DOMAIN s \ {t} : ended[u] = s[u]
    BY <1>4
<1>7. PICK after : after = ended \o new
    OBVIOUS
<1>8. Ending(s, t, status, new) = after
    BY <1>3, <1>7, Zenon DEF Ending
<1>9. /\ Len(s) \in Nat /\ DOMAIN s = 1..Len(s) /\ Len(new) \in {0, 1}
    <2>1. Len(s) \in Nat /\ DOMAIN s = 1..Len(s) /\ Len(new) \in Nat
        BY LenProperties
    <2> QED BY <2>1
<1>10. /\ after \in Seq(TaskRows) /\ Len(after) = Len(s) + Len(new)
       /\ \A i \in 1..(Len(s) + Len(new)) :
              after[i] = IF i <= Len(s) THEN ended[i] ELSE new[i - Len(s)]
    <2>1. /\ ended \o new \in Seq(TaskRows) /\ Len(ended \o new) = Len(ended) + Len(new)
          /\ \A i \in 1..(Len(ended) + Len(new)) :
                 (ended \o new)[i] = IF i <= Len(ended) THEN ended[i] ELSE new[i - Len(ended)]
        BY <1>5, ConcatProperties
    <2>2. /\ after \in Seq(TaskRows) /\ Len(after) = Len(ended) + Len(new)
          /\ \A i \in 1..(Len(ended) + Len(new)) :
                 after[i] = IF i <= Len(ended) THEN ended[i] ELSE new[i - Len(ended)]
        BY <2>1, <1>7, Zenon
    <2> QED BY <2>2, <1>5
<1>11. \A u \in DOMAIN s : after[u] = ended[u]
    BY <1>9, <1>10
<1>12. ASSUME NEW u \in (Len(s) + 1)..(Len(s) + Len(new))
       PROVE  after[u] = new[1]
    <2>1. Len(new) = 1 /\ u = Len(s) + 1
        BY <1>9
    <2>2. u \in 1..(Len(s) + Len(new)) /\ ~(u <= Len(s)) /\ u - Len(s) = 1
        BY <1>9, <2>1
    <2> QED BY <1>10, <2>2
<1>13. /\ after[t].stage = s[t].stage /\ after[t].build = s[t].build
       /\ after[t].host = s[t].host /\ after[t].status = status
    BY <1>1, <1>6, <1>11 DEF TaskRows
<1>14. IsEnding(s, t, status, new, after)
    BY <1>6, <1>10, <1>11, <1>12, <1>13 DEF IsEnding
<1> QED BY <1>8, <1>14

\* The running job t takes a step: it goes on, or ends and has its follow-up queued.
LEMMA RunningStep ==
    ASSUME RevisionInv, NEW t \in DOMAIN tasks, tasks[t].status = "running",
           tasks' \in Seq(TaskRows), Len(tasks) <= Len(tasks'), hosts' \in Seq(HostRows),
           \A u \in DOMAIN tasks \ {t} : tasks'[u] = tasks[u],
           tasks'[t].stage = tasks[t].stage, tasks'[t].build = tasks[t].build,
           tasks'[t].status \in {"running", "succeeded", "failed"},
           \A u \in (Len(tasks) + 1)..Len(tasks') :
               /\ tasks'[u].status = "queued" /\ ~Generation(u)'
               /\ tasks'[u].build = tasks[t].build /\ tasks'[t].status = "succeeded",
           tasks'[t].status = "running" <=> step' # "idle",
           asked' \in AskedRows, asked'.builds = asked.builds,
           package' \in 0..MaxBuilds, deferred' \in BOOLEAN, deferred => deferred',
           root' \in [build : 0..MaxBuilds, up : BOOLEAN, by : 0..Len(tasks)],
           root'.by = t \/ (root'.by = root.by /\ (root.up => root'.up)),
           root'.by = t /\ tasks'[t].status = "running" => HoldsRoot(t)',
           root'.by = t /\ tasks'[t].status = "succeeded" => root'.up,
           root'.build = root.build \/ root'.build = tasks[t].build,
           ~deferred' /\ root'.build # root.build => tasks[t].build <= catalog,
           catalog' = catalog
               \/ (Generation(t) /\ step = "packaged" /\ catalog' = package
                   /\ tasks'[t].status = "running"),
           Generation(t) /\ step' = "packaged" => package' = tasks[t].build,
           ~deferred' /\ Generation(t) /\ step' = "imported" => catalog' = tasks[t].build,
           ~deferred' /\ tasks[t].stage = "smoke" /\ step' \in {"listed", "agreed", "stopped"}
               => catalog = tasks[t].build,
           ~deferred /\ tasks'[t].status = "succeeded" => tasks[t].build <= catalog
    PROVE  RevisionInv'
<1>1. /\ DOMAIN tasks = 1..Len(tasks) /\ DOMAIN tasks' = 1..Len(tasks')
      /\ Len(tasks) \in Nat /\ Len(tasks') \in Nat /\ tasks \in Seq(TaskRows)
      /\ \A u \in DOMAIN tasks : tasks[u] \in TaskRows
      /\ \A u \in DOMAIN tasks' : tasks'[u] \in TaskRows
    BY DEF RevisionInv, RevisionsFit
<1>2. \A u \in DOMAIN tasks : tasks[u].status = "running" => u = t
    BY DEF RevisionInv, RevisionsFit, InProgress
<1>3. \A u \in DOMAIN tasks' : u \in DOMAIN tasks \/ u \in (Len(tasks) + 1)..Len(tasks')
    BY <1>1
<1>4. \A u \in DOMAIN tasks' : tasks'[u].status = "running" => u = t
    BY <1>2, <1>3
<1>5. Busy' <=> step' # "idle"
    BY <1>1, <1>4 DEF Busy, InProgress
<1>6. root'.by \in 0..Len(tasks')
    BY <1>1
<1>7. /\ catalog \in 0..MaxBuilds /\ package \in 0..MaxBuilds
      /\ Generation(t) /\ step = "packaged" => package = tasks[t].build
    BY DEF RevisionInv, RevisionsFit, BuildsAreOrdered, InProgress
<1>8. RevisionsFit'
    BY <1>4, <1>5, <1>6, <1>7 DEF RevisionInv, RevisionsFit, InProgress
<1>9. RootIsHeld'
    <2> SUFFICES ASSUME NEW u \in DOMAIN tasks', root'.by = u
                 PROVE  /\ tasks'[u].status # "queued"
                        /\ tasks'[u].status = "running" => HoldsRoot(u)'
                        /\ tasks'[u].status = "succeeded" => root'.up
        BY DEF RootIsHeld
    <2>1. u \in DOMAIN tasks
        BY <1>1
    <2>2. CASE u = t
        BY <2>2
    <2>3. CASE u # t
        BY <1>2, <2>1, <2>3 DEF RevisionInv, RootIsHeld
    <2> QED BY <2>2, <2>3
<1>10. catalog' = catalog \/ (Generation(t) /\ catalog' = tasks[t].build)
    BY <1>7
<1>11. asked.builds \in Nat /\ tasks[t].build \in Nat
    <2>1. tasks[t] \in TaskRows /\ asked \in AskedRows
        BY <1>1 DEF RevisionInv, RevisionsFit
    <2> QED BY <2>1 DEF AskedRows, TaskRows
<1>12. BuildsAreOrdered'
    <2>1. \A u \in DOMAIN tasks' :
              /\ u \in DOMAIN tasks => /\ tasks'[u].build = tasks[u].build
                                       /\ tasks'[u].stage = tasks[u].stage
                                       /\ tasks'[u].status = "queued" <=> tasks[u].status = "queued"
              /\ u \notin DOMAIN tasks => /\ tasks'[u].build = tasks[t].build
                                          /\ tasks'[u].stage # "generate"
                                          /\ tasks'[u].status = "queued"
        BY <1>1, <1>3 DEF Generation
    <2>2. \A u \in DOMAIN tasks' : tasks'[u].build <= asked'.builds
        BY <2>1 DEF RevisionInv, BuildsAreOrdered
    <2>3. \A u, v \in DOMAIN tasks' :
              tasks'[u].stage = "generate" /\ tasks'[v].stage = "generate" /\ u < v
                  => tasks'[u].build < tasks'[v].build
        <3>1. \A u \in DOMAIN tasks' : tasks'[u].stage = "generate" =>
                  u \in DOMAIN tasks /\ tasks[u].stage = "generate" /\ tasks'[u].build = tasks[u].build
            BY <2>1
        <3> QED BY <3>1 DEF RevisionInv, BuildsAreOrdered, Generation
    <2>4. \A u, v \in DOMAIN tasks' :
              tasks'[v].status = "queued" /\ tasks'[u].status # "queued" => u < v
        <3>1. \A u \in DOMAIN tasks' : tasks'[u].status # "queued" =>
                  u \in DOMAIN tasks /\ tasks[u].status # "queued"
            BY <2>1
        <3>2. \A v \in DOMAIN tasks' : tasks'[v].status = "queued" =>
                  (v \in DOMAIN tasks /\ tasks[v].status = "queued") \/ v > Len(tasks)
            BY <1>1, <2>1
        <3> QED BY <1>1, <3>1, <3>2 DEF RevisionInv, BuildsAreOrdered
    <2>5. catalog' <= asked'.builds
        BY <1>10 DEF RevisionInv, BuildsAreOrdered
    <2> QED BY <1>4, <2>2, <2>3, <2>4, <2>5 DEF BuildsAreOrdered, Generation, InProgress
<1>13. CatalogLeads'
    <2> SUFFICES ASSUME ~deferred'
                 PROVE  CatalogLeads'
        BY DEF CatalogLeads
    <2>1. /\ root.build <= catalog
          /\ \A u \in DOMAIN tasks :
                /\ tasks[u].stage # "generate" \/ tasks[u].status = "succeeded"
                       => tasks[u].build <= catalog
                /\ tasks[u].stage = "generate" /\ tasks[u].status \in {"queued", "running"}
                       => catalog <= tasks[u].build
        BY DEF RevisionInv, CatalogLeads, Generation
    <2>2. catalog <= catalog' /\ catalog \in Nat /\ catalog' \in Nat
        BY <1>7, <1>10, <1>11, <2>1 DEF Generation
    <2>3. root.build \in Nat /\ root'.build \in Nat
        BY DEF RevisionInv, RevisionsFit
    <2>4. root'.build <= catalog'
        BY <1>11, <2>1, <2>2, <2>3
    <2>5. ASSUME NEW u \in DOMAIN tasks'
          PROVE  /\ tasks'[u].stage # "generate" \/ tasks'[u].status = "succeeded"
                        => tasks'[u].build <= catalog'
                 /\ tasks'[u].stage = "generate" /\ tasks'[u].status \in {"queued", "running"}
                        => catalog' <= tasks'[u].build
        <3>1. tasks'[u].build \in Nat
            BY <1>1 DEF TaskRows
        <3>2. CASE u = t
            BY <1>7, <1>10, <1>11, <2>1, <2>2, <3>1, <3>2 DEF Generation
        <3>3. CASE u \in DOMAIN tasks \ {t}
            <4>1. tasks'[u] = tasks[u] /\ tasks[u].status # "running"
                BY <1>2, <3>3
            <4>2. CASE catalog' = catalog
                BY <2>1, <3>3, <4>1, <4>2
            <4>3. CASE Generation(t) /\ catalog' = tasks[t].build
                <5>1. ASSUME tasks[u].stage = "generate", tasks[u].status = "queued"
                      PROVE  tasks[t].build < tasks[u].build
                    <6>1. t < u
                        BY <3>3, <5>1 DEF RevisionInv, BuildsAreOrdered
                    <6> QED BY <3>3, <4>3, <5>1, <6>1 DEF RevisionInv, BuildsAreOrdered, Generation
                <5>2. tasks[u].build <= catalog => tasks[u].build <= catalog'
                    BY <2>2, <3>1, <4>1
                <5> QED BY <1>11, <2>1, <3>1, <3>3, <4>1, <4>3, <5>1, <5>2
            <4> QED BY <1>10, <4>2, <4>3
        <3>4. CASE u \notin DOMAIN tasks
            BY <1>3, <1>11, <2>2, <3>4 DEF Generation
        <3> QED BY <3>2, <3>3, <3>4
    <2>6. ASSUME NEW u \in InProgress'
          PROVE  (tasks'[u].stage = "generate" /\ step' = "imported")
                 \/ (tasks'[u].stage = "smoke" /\ step' \in {"listed", "agreed", "stopped"})
                    => tasks'[u].build = catalog'
        <3>1. u = t /\ tasks'[t].status = "running"
            BY <1>4, <2>6 DEF InProgress
        <3> QED BY <1>10, <3>1 DEF Generation
    <2> QED BY <2>4, <2>5, <2>6 DEF CatalogLeads, Generation
<1> QED BY <1>8, <1>9, <1>12, <1>13 DEF RevisionInv

\* A step inside a stage, which leaves the tasks and the catalog alone.
LEMMA StageGoesOn ==
    ASSUME RevisionInv, Busy, NEW where, step' = where, where # "idle",
           tasks' \in Seq(TaskRows), Len(tasks') = Len(tasks),
           \A u \in DOMAIN tasks \ {This} : tasks'[u] = tasks[u],
           tasks'[This].stage = tasks[This].stage, tasks'[This].build = tasks[This].build,
           tasks'[This].status = "running",
           where = "imported" => tasks[This].stage # "generate",
           where = "packaged" => tasks[This].stage # "generate",
           root' \in [build : 0..MaxBuilds, up : BOOLEAN, by : 0..Len(tasks)],
           \/ root'.by = root.by /\ (root.up => root'.up) /\ root.by # This
           \/ /\ root'.by = This
              /\ \/ tasks[This].stage = "deploy" /\ (where = "down" \/ (where = "up" /\ root'.up))
                 \/ tasks[This].stage = "smoke"
                    /\ (where = "stopped" \/ (where = "restarted" /\ root'.up)),
           root'.build = root.build \/ (root'.build = Build /\ tasks[This].stage # "generate"),
           hosts' \in Seq(HostRows), UNCHANGED <<package, catalog, deferred, asked>>,
           tasks[This].stage = "smoke" /\ where \in {"listed", "agreed", "stopped"}
               /\ ~deferred => catalog = Build
    PROVE  RevisionInv'
<1> PICK t : t = This
    OBVIOUS
<1>1. /\ t \in DOMAIN tasks /\ tasks[t].status = "running"
      /\ package \in 0..MaxBuilds /\ asked \in AskedRows /\ deferred \in BOOLEAN
      /\ tasks \in Seq(TaskRows)
    BY ThisRuns DEF RevisionInv, RevisionsFit
<1>2. \A u \in (Len(tasks) + 1)..Len(tasks') : FALSE
    BY <1>1
<1>3. ~deferred /\ tasks[t].stage # "generate" => tasks[t].build <= catalog
    BY <1>1 DEF RevisionInv, CatalogLeads, Generation
<1>4. /\ tasks'[t].stage = tasks[t].stage /\ tasks'[t].build = tasks[t].build
      /\ tasks'[t].status = "running"
      /\ \A u \in DOMAIN tasks \ {t} : tasks'[u] = tasks[u]
      /\ where = "imported" \/ where = "packaged" => ~Generation(t)
      /\ root'.build = root.build \/ (root'.build = tasks[t].build /\ tasks[t].stage # "generate")
      /\ tasks[t].stage = "smoke" /\ where \in {"listed", "agreed", "stopped"}
             /\ ~deferred => catalog = tasks[t].build
    BY DEF Build, Generation
<1>5. /\ root'.by = t \/ (root'.by = root.by /\ (root.up => root'.up))
      /\ root'.by = t => HoldsRoot(t)'
    BY <1>4 DEF HoldsRoot
<1> QED BY <1>1, <1>2, <1>3, <1>4, <1>5, RunningStep

\* The running job ends: it fails, or it leaves the root runtime up behind it.
LEMMA StageEnds ==
    ASSUME RevisionInv, Busy, step' = "idle",
           NEW status \in {"succeeded", "failed"}, NEW new \in Seq(TaskRows), Len(new) <= 1,
           tasks' = Ending(tasks, This, status, new),
           new # << >> => /\ status = "succeeded" /\ new[1].status = "queued"
                          /\ new[1].stage # "generate" /\ new[1].build = Build,
           status = "succeeded" => root' = root /\ (root.by = This => root.up),
           root' \in [build : 0..MaxBuilds, up : BOOLEAN, by : 0..Len(tasks)],
           root'.by = This \/ (root'.by = root.by /\ (root.up => root'.up)),
           root'.build = root.build \/ (root'.build = Build /\ tasks[This].stage # "generate"),
           status = "succeeded" /\ tasks[This].stage = "generate" => step = "imported",
           hosts' \in Seq(HostRows), UNCHANGED <<package, catalog, deferred>>,
           asked' \in AskedRows, asked'.builds = asked.builds
    PROVE  RevisionInv'
<1> PICK t : t = This
    OBVIOUS
<1>1. /\ t \in DOMAIN tasks /\ tasks[t].status = "running" /\ tasks[t] \in TaskRows
      /\ package \in 0..MaxBuilds /\ deferred \in BOOLEAN /\ tasks \in Seq(TaskRows)
    BY ThisRuns DEF RevisionInv, RevisionsFit
<1>2. /\ tasks' \in Seq(TaskRows) /\ Len(tasks') = Len(tasks) + Len(new)
      /\ \A u \in DOMAIN tasks \ {t} : tasks'[u] = tasks[u]
      /\ tasks'[t].stage = tasks[t].stage /\ tasks'[t].build = tasks[t].build
      /\ tasks'[t].status = status
      /\ \A u \in (Len(tasks) + 1)..Len(tasks') : tasks'[u] = new[1]
    <2>1. tasks' = Ending(tasks, t, status, new)
        OBVIOUS
    <2>2. IsEnding(tasks, t, status, new, Ending(tasks, t, status, new))
        BY <1>1, TasksEnd
    <2> QED BY <2>1, <2>2 DEF IsEnding
<1>3. ASSUME NEW u \in (Len(tasks) + 1)..Len(tasks')
      PROVE  /\ tasks'[u].status = "queued" /\ ~Generation(u)'
             /\ tasks'[u].build = tasks[t].build /\ tasks'[t].status = "succeeded"
    <2>1. new # << >>
        BY <1>1, <1>2
    <2> QED BY <1>2, <2>1 DEF Build, Generation
<1>4. ~deferred /\ (tasks[t].stage = "generate" => step = "imported") => tasks[t].build <= catalog
    <2>1. catalog \in Nat
        BY DEF RevisionInv, RevisionsFit
    <2> QED BY <1>1, <2>1 DEF RevisionInv, CatalogLeads, Generation, InProgress
<1>5. /\ root'.by = t \/ (root'.by = root.by /\ (root.up => root'.up))
      /\ root'.by = t /\ status = "succeeded" => root'.up
      /\ root'.build = root.build \/ (root'.build = tasks[t].build /\ tasks[t].stage # "generate")
    BY DEF Build
<1>6. Len(tasks) <= Len(tasks')
    BY <1>1, <1>2
<1>7. /\ status # "running" /\ tasks'[t].status \in {"running", "succeeded", "failed"}
      /\ ~deferred' /\ root'.build # root.build => tasks[t].build <= catalog
      /\ ~deferred /\ tasks'[t].status = "succeeded" => tasks[t].build <= catalog
    BY <1>2, <1>4, <1>5
<1> QED BY <1>1, <1>2, <1>3, <1>5, <1>6, <1>7, RunningStep

\* A job is queued behind all others.
LEMMA TaskIsQueued ==
    ASSUME RevisionInv, NEW q \in TaskRows, q.status = "queued", tasks' = Append(tasks, q),
           UNCHANGED <<step, package, catalog, root, hosts, deferred>>,
           asked' \in AskedRows, q.build <= asked'.builds, asked.builds <= asked'.builds,
           q.stage = "generate" => asked.builds < q.build,
           q.stage # "generate" /\ ~deferred => q.build <= catalog
    PROVE  RevisionInv'
<1>1. /\ tasks \in Seq(TaskRows) /\ Len(tasks) \in Nat /\ DOMAIN tasks = 1..Len(tasks)
      /\ \A t \in DOMAIN tasks : tasks[t] \in TaskRows
    BY DEF RevisionInv, RevisionsFit
<1>2. /\ tasks' \in Seq(TaskRows) /\ Len(tasks') = Len(tasks) + 1
      /\ DOMAIN tasks' = 1..(Len(tasks) + 1)
      /\ \A t \in DOMAIN tasks : tasks'[t] = tasks[t]
      /\ tasks'[Len(tasks) + 1] = q
    BY <1>1
<1>3. InProgress' = InProgress
    BY <1>1, <1>2 DEF InProgress
<1>4. RevisionsFit'
    <2>1. root'.by \in 0..Len(tasks')
        BY <1>1, <1>2 DEF RevisionInv, RevisionsFit
    <2>2. root' \in [build : 0..MaxBuilds, up : BOOLEAN, by : 0..Len(tasks')]
        BY <2>1 DEF RevisionInv, RevisionsFit
    <2> QED BY <1>2, <1>3, <2>2 DEF RevisionInv, RevisionsFit, Busy
<1>5. \A t \in DOMAIN tasks' : t \in DOMAIN tasks \/ (t = Len(tasks) + 1 /\ tasks'[t] = q)
    BY <1>1, <1>2
<1>6. RootIsHeld'
    <2>1. root'.by # Len(tasks) + 1
        BY <1>1 DEF RevisionInv, RevisionsFit
    <2> QED BY <1>2, <1>5, <2>1 DEF RevisionInv, RootIsHeld, HoldsRoot
<1>7. /\ asked.builds \in Nat /\ asked'.builds \in Nat /\ q.build \in Nat /\ catalog \in Nat
      /\ \A t \in DOMAIN tasks : tasks[t].build \in Nat
    <2>1. asked \in AskedRows /\ catalog \in 0..MaxBuilds
        BY DEF RevisionInv, RevisionsFit
    <2> QED BY <1>1, <2>1 DEF AskedRows, TaskRows
<1>8. BuildsAreOrdered'
    <2>1. \A t \in DOMAIN tasks : tasks[t].build <= asked.builds
        BY DEF RevisionInv, BuildsAreOrdered
    <2>2. \A t \in DOMAIN tasks' : tasks'[t].build <= asked'.builds
        BY <1>2, <1>5, <1>7, <2>1
    <2>3. catalog' <= asked'.builds
        BY <1>7 DEF RevisionInv, BuildsAreOrdered
    <2>4. \A t, u \in DOMAIN tasks' :
              /\ tasks'[t].stage = "generate" /\ tasks'[u].stage = "generate" /\ t < u
                     => tasks'[t].build < tasks'[u].build
              /\ tasks'[u].status = "queued" /\ tasks'[t].status # "queued" => t < u
        BY <1>1, <1>2, <1>5, <1>7, <2>1 DEF RevisionInv, BuildsAreOrdered, Generation
    <2>5. \A t \in InProgress' : tasks'[t] = tasks[t] /\ t \in InProgress
        BY <1>2, <1>3 DEF InProgress
    <2> QED BY <2>2, <2>3, <2>4, <2>5 DEF RevisionInv, BuildsAreOrdered, Generation
<1>9. CatalogLeads'
    <2>1. catalog <= asked.builds
        BY DEF RevisionInv, BuildsAreOrdered
    <2>2. \A t \in InProgress' : tasks'[t] = tasks[t] /\ t \in InProgress
        BY <1>2, <1>3 DEF InProgress
    <2>3. ~deferred => \A t \in DOMAIN tasks' :
              /\ tasks'[t].stage # "generate" \/ tasks'[t].status = "succeeded"
                     => tasks'[t].build <= catalog
              /\ tasks'[t].stage = "generate" /\ tasks'[t].status \in {"queued", "running"}
                     => catalog <= tasks'[t].build
        BY <1>2, <1>5, <1>7, <2>1 DEF RevisionInv, CatalogLeads, Generation
    <2> QED BY <2>2, <2>3 DEF RevisionInv, CatalogLeads, Generation
<1> QED BY <1>4, <1>6, <1>8, <1>9 DEF RevisionInv

\* The worker takes the first waiting job: no job overtakes another.
LEMMA ClaimKeeps == ASSUME RevisionInv, Claim PROVE RevisionInv'
<1>1. PICK c \in Waiting : /\ \A u \in Waiting : c <= u
                           /\ tasks' = [tasks EXCEPT ![c].status = "running"]
    BY DEF Claim
<1>2. /\ ~Busy /\ step' = "start"
      /\ UNCHANGED <<package, catalog, root, hosts, deferred, asked>>
    BY DEF Claim
<1>3. /\ tasks \in Seq(TaskRows) /\ Len(tasks) \in Nat /\ DOMAIN tasks = 1..Len(tasks)
      /\ \A t \in DOMAIN tasks : tasks[t] \in TaskRows
      /\ c \in DOMAIN tasks /\ tasks[c].status = "queued"
    BY <1>1 DEF RevisionInv, RevisionsFit, Waiting
<1>4. PICK q : q = [tasks[c] EXCEPT !.status = "running"] /\ tasks' = [tasks EXCEPT ![c] = q]
    BY <1>1
<1>5. /\ q \in TaskRows /\ q.stage = tasks[c].stage /\ q.build = tasks[c].build
      /\ q.status = "running"
    BY <1>3, <1>4 DEF TaskRows
<1>6. /\ tasks' \in Seq(TaskRows) /\ Len(tasks') = Len(tasks) /\ DOMAIN tasks' = DOMAIN tasks
      /\ tasks'[c] = q /\ \A t \in DOMAIN tasks \ {c} : tasks'[t] = tasks[t]
    BY <1>3, <1>4, <1>5
<1>7. \A t \in DOMAIN tasks : tasks[t].status # "running"
    BY <1>2 DEF Busy, InProgress
<1>8. InProgress' = {c}
    BY <1>3, <1>5, <1>6, <1>7 DEF InProgress
<1>9. RevisionsFit'
    BY <1>2, <1>6, <1>8 DEF RevisionInv, RevisionsFit, Busy
<1>10. RootIsHeld'
    BY <1>2, <1>3, <1>6, <1>7 DEF RevisionInv, RootIsHeld
<1>11. BuildsAreOrdered'
    <2>1. \A u \in DOMAIN tasks : tasks[u].status = "queued" => c <= u
        BY <1>1 DEF Waiting
    <2>2. \A t \in DOMAIN tasks' : /\ tasks'[t].stage = tasks[t].stage
                                   /\ tasks'[t].build = tasks[t].build
        BY <1>5, <1>6
    <2>3. \A t, u \in DOMAIN tasks' : tasks'[u].status = "queued" /\ tasks'[t].status # "queued" => t < u
        <3> SUFFICES ASSUME NEW t \in DOMAIN tasks, NEW u \in DOMAIN tasks,
                            tasks'[u].status = "queued", tasks'[t].status # "queued"
                     PROVE  t < u
            BY <1>6
        <3>1. u # c /\ tasks[u].status = "queued" /\ c <= u
            BY <1>5, <1>6, <2>1
        <3>2. CASE t = c
            BY <1>3, <3>1, <3>2
        <3>3. CASE t # c
            BY <1>6, <3>1, <3>3 DEF RevisionInv, BuildsAreOrdered
        <3> QED BY <3>2, <3>3
    <2>4. \A t, u \in DOMAIN tasks' :
              tasks'[t].stage = "generate" /\ tasks'[u].stage = "generate" /\ t < u
                  => tasks'[t].build < tasks'[u].build
        BY <1>6, <2>2 DEF RevisionInv, BuildsAreOrdered, Generation
    <2>5. /\ \A t \in DOMAIN tasks' : tasks'[t].build <= asked'.builds
          /\ catalog' <= asked'.builds
        BY <1>2, <1>6, <2>2 DEF RevisionInv, BuildsAreOrdered
    <2> QED BY <1>2, <2>3, <2>4, <2>5 DEF BuildsAreOrdered, Generation
<1>12. CatalogLeads'
    BY <1>2, <1>3, <1>5, <1>6, <1>8 DEF RevisionInv, CatalogLeads, Generation
<1> QED BY <1>9, <1>10, <1>11, <1>12 DEF RevisionInv

\* The first state satisfies the invariant of builds.
LEMMA RevisionStart == RevisionInit => RevisionInv
<1> SUFFICES ASSUME RevisionInit
             PROVE  RevisionInv
    OBVIOUS
<1>1. /\ tasks \in Seq(TaskRows) /\ Len(tasks) = 0 /\ hosts \in Seq(HostRows)
      /\ DOMAIN tasks = {} /\ 0 \in 0..MaxBuilds /\ 0 \in 0..0
      /\ asked \in AskedRows /\ asked.builds = 0
    BY RevisionsAssumption DEF RevisionInit, AskedRows
<1>2. RevisionsFit
    BY <1>1 DEF RevisionInit, RevisionsFit, InProgress, Busy
<1> QED BY <1>1, <1>2 DEF RevisionInit, RevisionInv, RootIsHeld, BuildsAreOrdered, CatalogLeads,
              InProgress

\* What is known of the running job of an action.
LEMMA WhileDoing ==
    ASSUME RevisionInv, NEW stage, NEW where, Doing(stage, where)
    PROVE  /\ Busy /\ This \in DOMAIN tasks /\ tasks[This].status = "running"
           /\ tasks[This].stage = stage /\ step = where /\ tasks[This] \in TaskRows
           /\ tasks \in Seq(TaskRows) /\ hosts \in Seq(HostRows) /\ asked \in AskedRows
           /\ package \in 0..MaxBuilds /\ This \in 0..Len(tasks) /\ Build \in 1..MaxBuilds
           /\ root \in [build : 0..MaxBuilds, up : BOOLEAN, by : 0..Len(tasks)]
           /\ root.by = This =>
                  \/ stage = "deploy" /\ (where = "down" \/ (where = "up" /\ root.up))
                  \/ stage = "smoke" /\ (where = "stopped" \/ (where = "restarted" /\ root.up))
<1>1. Busy /\ tasks[This].stage = stage /\ step = where
    BY DEF Doing
<1>2. /\ This \in DOMAIN tasks /\ tasks[This].status = "running" /\ tasks[This] \in TaskRows
    BY <1>1, ThisRuns DEF RevisionInv
<1>3. /\ tasks \in Seq(TaskRows) /\ hosts \in Seq(HostRows) /\ asked \in AskedRows
      /\ package \in 0..MaxBuilds
      /\ root \in [build : 0..MaxBuilds, up : BOOLEAN, by : 0..Len(tasks)]
    BY DEF RevisionInv, RevisionsFit
<1>4. This \in 0..Len(tasks) /\ Build \in 1..MaxBuilds
    BY <1>2, <1>3 DEF Build, TaskRows
<1>5. root.by = This => HoldsRoot(This)
    BY <1>2 DEF RevisionInv, RootIsHeld
<1> QED BY <1>1, <1>2, <1>3, <1>4, <1>5 DEF HoldsRoot

\* The task of a job changes in what it has of its host.
LEMMA TaskIsNoted ==
    ASSUME NEW s \in Seq(TaskRows), NEW t \in DOMAIN s, s[t].status = "running", NEW after,
           \/ \E h \in Nat : after = [s EXCEPT ![t].host = h]
           \/ \E b \in 0..MaxBuilds : after = [s EXCEPT ![t].installed = b]
    PROVE  /\ after \in Seq(TaskRows) /\ Len(after) = Len(s)
           /\ \A u \in DOMAIN s \ {t} : after[u] = s[u]
           /\ after[t].stage = s[t].stage /\ after[t].build = s[t].build
           /\ after[t].status = "running"
<1>1. s[t] \in TaskRows
    OBVIOUS
<1>2. PICK q \in TaskRows : /\ after = [s EXCEPT ![t] = q]
                            /\ q.stage = s[t].stage /\ q.build = s[t].build
                            /\ q.status = "running"
    <2>1. ASSUME NEW h \in Nat, after = [s EXCEPT ![t].host = h]
          PROVE  \E q \in TaskRows : /\ after = [s EXCEPT ![t] = q]
                                     /\ q.stage = s[t].stage /\ q.build = s[t].build
                                     /\ q.status = "running"
        <3>1. PICK q : q = [s[t] EXCEPT !.host = h]
            OBVIOUS
        <3>2. after = [s EXCEPT ![t] = q]
            BY <2>1, <3>1
        <3>3. q \in TaskRows /\ q.stage = s[t].stage /\ q.build = s[t].build /\ q.status = "running"
            BY <1>1, <3>1 DEF TaskRows
        <3> QED BY <3>2, <3>3
    <2>2. ASSUME NEW b \in 0..MaxBuilds, after = [s EXCEPT ![t].installed = b]
          PROVE  \E q \in TaskRows : /\ after = [s EXCEPT ![t] = q]
                                     /\ q.stage = s[t].stage /\ q.build = s[t].build
                                     /\ q.status = "running"
        <3>1. PICK q : q = [s[t] EXCEPT !.installed = b]
            OBVIOUS
        <3>2. after = [s EXCEPT ![t] = q]
            BY <2>2, <3>1
        <3>3. q \in TaskRows /\ q.stage = s[t].stage /\ q.build = s[t].build /\ q.status = "running"
            BY <1>1, <3>1 DEF TaskRows
        <3> QED BY <3>2, <3>3
    <2> QED BY <2>1, <2>2
<1> QED BY <1>2

\* What the running job does with its sibling keeps the types of the siblings.
LEMMA HostIsChanged ==
    ASSUME NEW s \in Seq(HostRows), NEW h, NEW after,
           \/ \E b \in 0..MaxBuilds : after = [s EXCEPT ![h].imported = @ \cup {b}]
           \/ \E b \in 0..MaxBuilds : after = [s EXCEPT ![h].installed = b]
           \/ \E b \in 0..MaxBuilds : after = [s EXCEPT ![h].runs = b]
    PROVE  after \in Seq(HostRows)
<1>1. CASE h \notin DOMAIN s
    <2>1. \E q : after = [s EXCEPT ![h] = q]
        OBVIOUS
    <2>2. after = s
        BY <1>1, <2>1
    <2> QED BY <2>2
<1>2. CASE h \in DOMAIN s
    <2>1. s[h] \in HostRows
        BY <1>2
    <2>2. ASSUME NEW b \in 0..MaxBuilds
          PROVE  /\ [s[h] EXCEPT !.imported = @ \cup {b}] \in HostRows
                 /\ [s[h] EXCEPT !.installed = b] \in HostRows
                 /\ [s[h] EXCEPT !.runs = b] \in HostRows
        BY <2>1 DEF HostRows
    <2>3. \E q \in HostRows : after = [s EXCEPT ![h] = q]
        BY <2>2
    <2> QED BY <1>2, <2>3
<1> QED BY <1>1, <1>2

\* A job that fails has no follow-up.
LEMMA FailureEnds ==
    ASSUME RevisionInv, Busy, EndFailed
    PROVE  tasks' = Ending(tasks, This, "failed", << >>)
<1>1. This \in DOMAIN tasks /\ tasks \in Seq(TaskRows) /\ tasks[This] \in TaskRows
    BY ThisRuns DEF RevisionInv, RevisionsFit
<1>2. PICK q : q = [tasks[This] EXCEPT !.status = "failed"] /\ tasks' = [tasks EXCEPT ![This] = q]
    BY DEF EndFailed
<1>3. q \in TaskRows
    BY <1>1, <1>2 DEF TaskRows
<1>4. tasks' \in Seq(TaskRows)
    BY <1>1, <1>2, <1>3
<1>5. tasks' \o << >> = tasks'
    BY <1>4, ConcatEmptySeq
<1> QED BY <1>5, Zenon DEF Ending, EndFailed

\* The job of a stage fails; what it did to the root runtime stays.
LEMMA JobFails ==
    ASSUME RevisionInv, Busy, EndFailed,
           root' \in [build : 0..MaxBuilds, up : BOOLEAN, by : 0..Len(tasks)],
           root'.by = This \/ (root'.by = root.by /\ (root.up => root'.up)),
           root'.build = root.build \/ (root'.build = Build /\ tasks[This].stage # "generate"),
           hosts' \in Seq(HostRows), UNCHANGED <<package, catalog, deferred>>,
           asked' \in AskedRows, asked'.builds = asked.builds
    PROVE  RevisionInv'
<1>1. tasks' = Ending(tasks, This, "failed", << >>) /\ step' = "idle"
    BY FailureEnds DEF EndFailed
<1>2. << >> \in Seq(TaskRows) /\ Len(<< >>) <= 1
    OBVIOUS
<1> HIDE DEF Ending
<1> QED BY <1>1, <1>2, StageEnds

\* The job of a stage succeeds, with its follow-up or without one.
LEMMA JobSucceeds ==
    ASSUME RevisionInv, Busy, NEW new \in Seq(TaskRows), Len(new) <= 1, EndWith(new),
           new # << >> => /\ new[1].status = "queued" /\ new[1].stage # "generate"
                          /\ new[1].build = Build,
           root.by = This => root.up,
           tasks[This].stage = "generate" => step = "imported",
           UNCHANGED <<package, catalog, root, hosts, deferred, asked>>
    PROVE  RevisionInv'
<1>1. tasks' = Ending(tasks, This, "succeeded", new) /\ step' = "idle"
    BY Zenon DEF EndWith, Ending
<1>2. /\ root \in [build : 0..MaxBuilds, up : BOOLEAN, by : 0..Len(tasks)]
      /\ hosts \in Seq(HostRows) /\ asked \in AskedRows
    BY DEF RevisionInv, RevisionsFit
<1> HIDE DEF Ending
<1> QED BY <1>1, <1>2, StageEnds

\* A follow-up is a job like any other.
LEMMA FollowUpFits ==
    ASSUME NEW stage \in {"deploy", "provision", "smoke"}, NEW b \in 1..MaxBuilds, NEW h \in Nat,
           NEW q, q = Task(stage, b, h) \/ \E i \in 0..MaxBuilds : q = [Task(stage, b, h) EXCEPT !.installed = i]
    PROVE  /\ <<q>> \in Seq(TaskRows) /\ Len(<<q>>) <= 1 /\ <<q>>[1] = q
           /\ q.status = "queued" /\ q.stage # "generate" /\ q.build = b
<1>1. 0 \in 0..MaxBuilds
    BY RevisionsAssumption
<1>2. q \in TaskRows /\ q.status = "queued" /\ q.stage # "generate" /\ q.build = b
    BY <1>1 DEF Task, TaskRows
<1> QED BY <1>2

\* Every step inside a stage, between stages and of the queue keeps the invariant.
LEMMA RevisionStep == RevisionInv /\ [RevisionNext]_revisionVars => RevisionInv'
<1> SUFFICES ASSUME RevisionInv, [RevisionNext]_revisionVars
             PROVE  RevisionInv'
    OBVIOUS
<1> DEFINE RootRows == [build : 0..MaxBuilds, up : BOOLEAN, by : 0..Len(tasks)]
<1>1. CASE SubmitBuild
    <2>1. PICK q : q = Task("generate", asked.builds + 1, 0) /\ tasks' = Append(tasks, q)
        BY <1>1 DEF SubmitBuild
    <2>2. /\ asked \in AskedRows /\ asked.builds < MaxBuilds /\ MaxBuilds \in Nat
          /\ asked' = [asked EXCEPT !.builds = asked.builds + 1]
          /\ UNCHANGED <<step, package, catalog, root, hosts, deferred>>
        BY <1>1, RevisionsAssumption DEF SubmitBuild, RevisionInv, RevisionsFit
    <2>3. /\ asked' \in AskedRows /\ asked'.builds = asked.builds + 1 /\ asked.builds \in Nat
          /\ asked.builds + 1 \in 1..MaxBuilds
        BY <2>2 DEF AskedRows
    <2>4. /\ q \in TaskRows /\ q.status = "queued" /\ q.stage = "generate"
          /\ q.build = asked.builds + 1
        BY <2>1, <2>2, <2>3 DEF Task, TaskRows
    <2>5. q.build <= asked'.builds /\ asked.builds <= asked'.builds /\ asked.builds < q.build
        BY <2>3, <2>4
    <2> QED BY <2>1, <2>2, <2>3, <2>4, <2>5, TaskIsQueued
<1>2. ASSUME NEW g \in DOMAIN tasks, ActivateBuild(g)
      PROVE  RevisionInv'
    <2>1. PICK q : q = Task("deploy", tasks[g].build, 0) /\ tasks' = Append(tasks, q)
        BY <1>2 DEF ActivateBuild
    <2>2. /\ asked \in AskedRows /\ asked.activations < MaxActivations /\ MaxActivations \in Nat
          /\ asked' = [asked EXCEPT !.activations = asked.activations + 1]
          /\ tasks[g].status = "succeeded" /\ tasks[g] \in TaskRows
          /\ UNCHANGED <<step, package, catalog, root, hosts, deferred>>
        BY <1>2, RevisionsAssumption DEF ActivateBuild, RevisionInv, RevisionsFit
    <2>3. asked' \in AskedRows /\ asked'.builds = asked.builds /\ asked.builds \in Nat
        BY <2>2 DEF AskedRows
    <2>4. tasks[g].build \in 1..MaxBuilds /\ 0 \in 0..MaxBuilds
        BY <2>2, RevisionsAssumption DEF TaskRows
    <2>5. /\ q \in TaskRows /\ q.status = "queued" /\ q.stage = "deploy" /\ q.build = tasks[g].build
        BY <2>1, <2>4 DEF Task, TaskRows
    <2>6. tasks[g].build <= asked.builds /\ (~deferred => tasks[g].build <= catalog)
        BY <2>2 DEF RevisionInv, BuildsAreOrdered, CatalogLeads
    <2> QED BY <2>1, <2>2, <2>3, <2>5, <2>6, TaskIsQueued
<1>3. CASE Claim
    BY <1>3, ClaimKeeps
<1>4. CASE _package_generated_app
    <2>1. /\ Doing("generate", "start") /\ step' = "packaged" /\ package' = Build
          /\ UNCHANGED <<tasks, catalog, root, hosts, deferred, asked>>
        BY <1>4 DEF _package_generated_app
    <2>2. PICK t : t = This
        OBVIOUS
    <2>3. /\ t \in DOMAIN tasks /\ tasks[t].status = "running" /\ tasks[t].stage = "generate"
          /\ tasks \in Seq(TaskRows) /\ hosts \in Seq(HostRows) /\ asked \in AskedRows
          /\ root \in RootRows /\ root.by # t /\ Build \in 1..MaxBuilds /\ Build = tasks[t].build
          /\ deferred \in BOOLEAN
        BY <2>1, <2>2, WhileDoing DEF Build, RevisionInv, RevisionsFit
    <2>4. \A u \in (Len(tasks) + 1)..Len(tasks') : FALSE
        BY <2>1, <2>3
    <2>5. package' \in 0..MaxBuilds /\ Len(tasks) <= Len(tasks')
        BY <2>1, <2>3
    <2> QED BY <2>1, <2>3, <2>4, <2>5, RunningStep
<1>5. CASE _import_generated_artifact_package
    <2>1. /\ Doing("generate", "packaged") /\ step' = "imported"
          /\ \/ catalog' = package /\ UNCHANGED <<deferred, asked>>
             \/ /\ asked' = [asked EXCEPT !.setbacks = asked.setbacks + 1]
                /\ asked.setbacks < MaxSetbacks /\ deferred' = TRUE /\ UNCHANGED catalog
          /\ UNCHANGED <<tasks, package, root, hosts>>
        BY <1>5 DEF _import_generated_artifact_package
    <2>2. PICK t : t = This
        OBVIOUS
    <2>3. /\ t \in DOMAIN tasks /\ tasks[t].status = "running" /\ tasks[t].stage = "generate"
          /\ tasks \in Seq(TaskRows) /\ hosts \in Seq(HostRows) /\ asked \in AskedRows
          /\ root \in RootRows /\ root.by # t /\ package \in 0..MaxBuilds /\ step = "packaged"
          /\ deferred \in BOOLEAN
        BY <2>1, <2>2, WhileDoing DEF RevisionInv, RevisionsFit
    <2>4. (\A u \in (Len(tasks) + 1)..Len(tasks') : FALSE) /\ Len(tasks) <= Len(tasks')
        BY <2>1, <2>3
    <2>5. asked' \in AskedRows /\ asked'.builds = asked.builds
        BY <2>1, <2>3, RevisionsAssumption DEF AskedRows
    <2>6. package = tasks[t].build /\ Generation(t)
        BY <2>3 DEF RevisionInv, BuildsAreOrdered, Generation, InProgress
    <2>7. /\ catalog' = catalog \/ catalog' = package
          /\ ~deferred' => catalog' = package
          /\ deferred' \in BOOLEAN /\ (deferred => deferred')
        BY <2>1, <2>3
    <2> QED BY <2>1, <2>3, <2>4, <2>5, <2>6, <2>7, RunningStep
<1>6. CASE GenerateEnds
    <2>1. PICK q : q = Task("deploy", Build, 0) /\ EndWith(<<q>>)
        BY <1>6 DEF GenerateEnds
    <2>2. Doing("generate", "imported") /\ UNCHANGED <<package, catalog, root, hosts, deferred, asked>>
        BY <1>6 DEF GenerateEnds
    <2>3. Busy /\ step = "imported" /\ root.by # This /\ Build \in 1..MaxBuilds
        BY <2>2, WhileDoing
    <2>4. /\ <<q>> \in Seq(TaskRows) /\ Len(<<q>>) <= 1 /\ <<q>>[1] = q
          /\ q.status = "queued" /\ q.stage # "generate" /\ q.build = Build
        BY <2>1, <2>3, FollowUpFits
    <2> QED BY <2>1, <2>2, <2>3, <2>4, JobSucceeds
<1>7. CASE ComposeDown
    <2>1. /\ Doing("deploy", "start") /\ step' = "down"
          /\ root' = [root EXCEPT !.up = FALSE, !.by = This]
          /\ UNCHANGED <<tasks, package, catalog, hosts, deferred, asked>>
        BY <1>7 DEF ComposeDown
    <2>2. /\ Busy /\ tasks[This].stage = "deploy" /\ This \in 0..Len(tasks)
          /\ tasks[This].status = "running" /\ tasks \in Seq(TaskRows) /\ hosts \in Seq(HostRows)
          /\ Build \in 1..MaxBuilds /\ root \in RootRows
        BY <2>1, WhileDoing
    <2>3. /\ root' \in RootRows /\ root'.by = This
          /\ root'.build = root.build \/ root'.build = Build
          /\ "down" = "up" => root'.up
        BY <2>1, <2>2
    <2> QED BY <2>1, <2>2, <2>3, StageGoesOn
<1>8. CASE ComposeUp
    <2>1. /\ Doing("deploy", "down") /\ step' = "up"
          /\ root' = [build |-> Build, up |-> TRUE, by |-> This]
          /\ UNCHANGED <<tasks, package, catalog, hosts, deferred, asked>>
        BY <1>8 DEF ComposeUp
    <2>2. /\ Busy /\ tasks[This].stage = "deploy" /\ This \in 0..Len(tasks)
          /\ tasks[This].status = "running" /\ tasks \in Seq(TaskRows) /\ hosts \in Seq(HostRows)
          /\ Build \in 1..MaxBuilds /\ root \in RootRows
        BY <2>1, WhileDoing
    <2>3. /\ root' \in RootRows /\ root'.by = This
          /\ root'.build = root.build \/ root'.build = Build
          /\ "up" = "up" => root'.up
        BY <2>1, <2>2
    <2> QED BY <2>1, <2>2, <2>3, StageGoesOn
<1>9. CASE DeployEnds
    <2>1. PICK q : EndWith(<<q>>) /\ q = Task("provision", Build, 0)
        BY <1>9 DEF DeployEnds
    <2>2. Doing("deploy", "up") /\ UNCHANGED <<package, catalog, root, hosts, deferred, asked>>
        BY <1>9 DEF DeployEnds
    <2>3. /\ Busy /\ tasks[This].stage = "deploy" /\ (root.by = This => root.up)
          /\ Build \in 1..MaxBuilds /\ tasks[This] \in TaskRows
        BY <2>2, WhileDoing
    <2>4. /\ <<q>> \in Seq(TaskRows) /\ Len(<<q>>) <= 1 /\ <<q>>[1] = q
          /\ q.status = "queued" /\ q.stage # "generate" /\ q.build = Build
        BY <2>1, <2>3, FollowUpFits
    <2> QED BY <2>1, <2>2, <2>3, <2>4, JobSucceeds
<1>10. CASE ChooseHost
    <2>1. /\ Doing("provision", "start") /\ step' = "hosted"
          /\ UNCHANGED <<package, catalog, root, deferred, asked>>
        BY <1>10 DEF ChooseHost
    <2>2. PICK h \in Provisioned \cup {Len(hosts) + 1} :
              /\ tasks' = [tasks EXCEPT ![This].host = h]
              /\ hosts' = IF h \in DOMAIN hosts THEN hosts
                          ELSE Append(hosts, [imported |-> {}, installed |-> 0, runs |-> 0])
        BY <1>10 DEF ChooseHost
    <2>3. /\ Busy /\ tasks[This].stage = "provision" /\ root.by # This /\ root \in RootRows
          /\ This \in DOMAIN tasks
          /\ tasks[This].status = "running" /\ tasks \in Seq(TaskRows) /\ hosts \in Seq(HostRows)
        BY <2>1, WhileDoing
    <2>4. h \in Nat
        <3>1. \A t \in DOMAIN tasks : tasks[t].host \in Nat
            <4>1. \A t \in DOMAIN tasks : tasks[t] \in TaskRows
                BY <2>3
            <4> QED BY <4>1 DEF TaskRows
        <3>2. Len(hosts) + 1 \in Nat
            BY <2>3
        <3> QED BY <3>1, <3>2 DEF Provisioned
    <2>5. hosts' \in Seq(HostRows)
        <3>1. [imported |-> {}, installed |-> 0, runs |-> 0] \in HostRows
            BY RevisionsAssumption DEF HostRows
        <3> QED BY <2>2, <2>3, <3>1
    <2>6. /\ tasks' \in Seq(TaskRows) /\ Len(tasks') = Len(tasks)
          /\ \A u \in DOMAIN tasks \ {This} : tasks'[u] = tasks[u]
          /\ tasks'[This].stage = tasks[This].stage /\ tasks'[This].build = tasks[This].build
          /\ tasks'[This].status = "running"
        <3>1. \E i \in Nat : tasks' = [tasks EXCEPT ![This].host = i]
            BY <2>2, <2>4
        <3> QED BY <2>3, <3>1, TaskIsNoted
    <2> QED BY <2>1, <2>3, <2>5, <2>6, StageGoesOn
<1>11. CASE _import_generated_artifact_package_into_registry
    <2>1. /\ Doing("provision", "hosted") /\ step' = "imported"
          /\ hosts' = [hosts EXCEPT ![Host].imported = @ \cup {package}]
          /\ UNCHANGED <<tasks, package, catalog, root, deferred, asked>>
        BY <1>11 DEF _import_generated_artifact_package_into_registry
    <2>2. /\ Busy /\ tasks[This].stage = "provision" /\ root.by # This /\ root \in RootRows
          /\ package \in 0..MaxBuilds
          /\ tasks[This].status = "running" /\ tasks \in Seq(TaskRows) /\ hosts \in Seq(HostRows)
        BY <2>1, WhileDoing
    <2>3. hosts' \in Seq(HostRows)
        BY <2>1, <2>2, HostIsChanged
    <2>4. tasks' \in Seq(TaskRows) /\ Len(tasks') = Len(tasks) /\ root' \in RootRows
        BY <2>1, <2>2
    <2>5. /\ step' = "imported" /\ UNCHANGED <<tasks, package, catalog, root, deferred, asked>>
        BY <2>1
    <2> QED BY <2>2, <2>3, <2>4, <2>5, StageGoesOn
<1>12. CASE _install_generated_artifact_in_sibling
    <2>1. /\ Doing("provision", "imported") /\ step' = "installed"
          /\ UNCHANGED <<package, catalog, root, deferred, asked>>
        BY <1>12 DEF _install_generated_artifact_in_sibling
    <2>2. PICK b \in (hosts[Host].imported \cap {Build}) \cup {package} :
              /\ hosts' = [hosts EXCEPT ![Host].installed = b]
              /\ tasks' = [tasks EXCEPT ![This].installed = b]
        BY <1>12 DEF _install_generated_artifact_in_sibling
    <2>3. /\ Busy /\ tasks[This].stage = "provision" /\ root.by # This /\ root \in RootRows
          /\ package \in 0..MaxBuilds /\ This \in DOMAIN tasks /\ Build \in 1..MaxBuilds
          /\ tasks[This].status = "running" /\ tasks \in Seq(TaskRows) /\ hosts \in Seq(HostRows)
        BY <2>1, WhileDoing
    <2>4. b \in 0..MaxBuilds
        BY <2>3
    <2>5. hosts' \in Seq(HostRows)
        BY <2>2, <2>3, <2>4, HostIsChanged
    <2>6. /\ tasks' \in Seq(TaskRows) /\ Len(tasks') = Len(tasks)
          /\ \A u \in DOMAIN tasks \ {This} : tasks'[u] = tasks[u]
          /\ tasks'[This].stage = tasks[This].stage /\ tasks'[This].build = tasks[This].build
          /\ tasks'[This].status = "running"
        <3>1. \E i \in 0..MaxBuilds : tasks' = [tasks EXCEPT ![This].installed = i]
            BY <2>2, <2>4
        <3> QED BY <2>3, <3>1, TaskIsNoted
    <2> QED BY <2>1, <2>3, <2>5, <2>6, StageGoesOn
<1>13. CASE deploy_generated_runtime
    <2>1. /\ Doing("provision", "installed") /\ UNCHANGED <<package, catalog, root, deferred, asked>>
        BY <1>13 DEF deploy_generated_runtime
    <2>2. PICK up \in BOOLEAN :
              /\ hosts' = [hosts EXCEPT ![Host].runs = IF up THEN Build ELSE 0]
              /\ IF up THEN step' = "deployed" /\ UNCHANGED tasks ELSE EndFailed
        BY <1>13 DEF deploy_generated_runtime
    <2>3. /\ Busy /\ tasks[This].stage = "provision" /\ root.by # This /\ root \in RootRows
          /\ Build \in 1..MaxBuilds /\ asked \in AskedRows
          /\ tasks[This].status = "running" /\ tasks \in Seq(TaskRows) /\ hosts \in Seq(HostRows)
        BY <2>1, WhileDoing
    <2>4. hosts' \in Seq(HostRows)
        <3>1. PICK b \in 0..MaxBuilds : hosts' = [hosts EXCEPT ![Host].runs = b]
            <4>1. (IF up THEN Build ELSE 0) \in 0..MaxBuilds
                BY <2>3, RevisionsAssumption
            <4> QED BY <2>2, <4>1, Zenon
        <3> QED BY <2>3, <3>1, HostIsChanged
    <2>5. CASE step' = "deployed" /\ UNCHANGED tasks
        BY <2>1, <2>3, <2>4, <2>5, StageGoesOn
    <2>6. CASE EndFailed
        BY <2>1, <2>3, <2>4, <2>6, JobFails
    <2> QED BY <2>2, <2>5, <2>6
<1>14. CASE _register_sibling_runtime_target
    <2>1. PICK q : EndWith(<<q>>) /\ q = [Task("smoke", Build, Host) EXCEPT !.installed = tasks[This].installed]
        BY <1>14 DEF _register_sibling_runtime_target
    <2>2. Doing("provision", "deployed") /\ UNCHANGED <<package, catalog, root, hosts, deferred, asked>>
        BY <1>14 DEF _register_sibling_runtime_target
    <2>3. /\ Busy /\ tasks[This].stage = "provision" /\ (root.by = This => root.up)
          /\ Build \in 1..MaxBuilds /\ tasks[This] \in TaskRows
        BY <2>2, WhileDoing
    <2>4. /\ <<q>> \in Seq(TaskRows) /\ Len(<<q>>) <= 1 /\ <<q>>[1] = q
          /\ q.status = "queued" /\ q.stage # "generate" /\ q.build = Build
        <3>1. Host \in Nat /\ tasks[This].installed \in 0..MaxBuilds
            BY <2>3 DEF Host, TaskRows
        <3> QED BY <2>1, <2>3, <3>1, FollowUpFits
    <2> QED BY <2>1, <2>2, <2>3, <2>4, JobSucceeds
<1>15. CASE RootAnswers
    <2>1. /\ Doing("smoke", "start") /\ step' = "answered"
          /\ UNCHANGED <<tasks, package, catalog, root, hosts, deferred, asked>>
        BY <1>15 DEF RootAnswers
    <2>2. /\ Busy /\ tasks[This].stage = "smoke" /\ root.by # This /\ root \in RootRows
          /\ tasks[This].status = "running" /\ tasks \in Seq(TaskRows) /\ hosts \in Seq(HostRows)
        BY <2>1, WhileDoing
    <2> QED BY <2>1, <2>2, StageGoesOn
<1>16. CASE CatalogAgrees
    <2>1. /\ Doing("smoke", "answered") /\ step' = "listed"
          /\ UNCHANGED <<tasks, package, catalog, root, hosts, deferred, asked>>
        BY <1>16 DEF CatalogAgrees
    <2>2. /\ Busy /\ tasks[This].stage = "smoke" /\ root.by # This /\ root \in RootRows
          /\ tasks[This].status = "running" /\ tasks \in Seq(TaskRows) /\ hosts \in Seq(HostRows)
        BY <2>1, WhileDoing
    <2>3. ~deferred => catalog = Build
        <3>1. Build = IF catalog # 0 THEN catalog ELSE tasks[This].installed
            BY <1>16 DEF CatalogAgrees
        <3>2. ~deferred => Build <= catalog
            BY <2>1, <2>2, WhileDoing DEF RevisionInv, CatalogLeads, Generation, Build
        <3>3. catalog \in Nat /\ Build \in 1..MaxBuilds
            BY <2>1, WhileDoing DEF RevisionInv, RevisionsFit
        <3> QED BY <3>1, <3>2, <3>3
    <2> QED BY <2>1, <2>2, <2>3, StageGoesOn
<1>17. CASE HostAgrees
    <2>1. /\ Doing("smoke", "listed") /\ step' = "agreed"
          /\ UNCHANGED <<tasks, package, catalog, root, hosts, deferred, asked>>
        BY <1>17 DEF HostAgrees
    <2>2. /\ Busy /\ tasks[This].stage = "smoke" /\ root.by # This /\ root \in RootRows
          /\ tasks[This].status = "running" /\ tasks \in Seq(TaskRows) /\ hosts \in Seq(HostRows)
        BY <2>1, WhileDoing
    <2>3. ~deferred => catalog = Build
        BY <2>1, <2>2, WhileDoing DEF RevisionInv, CatalogLeads, Build, InProgress
    <2> QED BY <2>1, <2>2, <2>3, StageGoesOn
<1>18. CASE StopRoot
    <2>1. /\ Doing("smoke", "agreed") /\ step' = "stopped"
          /\ root' = [root EXCEPT !.up = FALSE, !.by = This]
          /\ UNCHANGED <<tasks, package, catalog, hosts, deferred, asked>>
        BY <1>18 DEF StopRoot
    <2>2. /\ Busy /\ tasks[This].stage = "smoke" /\ This \in 0..Len(tasks) /\ step = "agreed"
          /\ This \in DOMAIN tasks /\ root \in RootRows
          /\ tasks[This].status = "running" /\ tasks \in Seq(TaskRows) /\ hosts \in Seq(HostRows)
        BY <2>1, WhileDoing
    <2>3. root' \in RootRows /\ root'.by = This /\ root'.build = root.build
        BY <2>1, <2>2
    <2>4. ~deferred => catalog = Build
        BY <2>2 DEF RevisionInv, CatalogLeads, Build, InProgress
    <2> QED BY <2>1, <2>2, <2>3, <2>4, StageGoesOn
<1>19. CASE StartRoot
    <2>1. Doing("smoke", "stopped") /\ UNCHANGED <<package, catalog, hosts, deferred, asked>>
        BY <1>19 DEF StartRoot
    <2>2. PICK up \in BOOLEAN, alone \in BOOLEAN :
              /\ root' = IF up THEN [root EXCEPT !.build = Build, !.up = TRUE] ELSE root
              /\ IF up /\ alone THEN step' = "restarted" /\ UNCHANGED tasks ELSE EndFailed
        BY <1>19 DEF StartRoot
    <2>3. /\ Busy /\ tasks[This].stage = "smoke" /\ root \in RootRows /\ Build \in 1..MaxBuilds
          /\ asked \in AskedRows
          /\ tasks[This].status = "running" /\ tasks \in Seq(TaskRows) /\ hosts \in Seq(HostRows)
        BY <2>1, WhileDoing
    <2>4. /\ root' \in RootRows /\ root'.by = root.by /\ (root.up => root'.up)
          /\ root'.build = root.build \/ root'.build = Build
        <3>1. CASE up
            <4>1. root' = [root EXCEPT !.build = Build, !.up = TRUE]
                BY <2>2, <3>1
            <4>2. root \in RootRows /\ Build \in 0..MaxBuilds
                BY <2>3
            <4> QED BY <4>1, <4>2
        <3>2. CASE ~up
            BY <2>2, <2>3, <3>2
        <3> QED BY <3>1, <3>2
    <2>5. CASE EndFailed
        BY <2>1, <2>3, <2>4, <2>5, JobFails
    <2>6. CASE up /\ step' = "restarted" /\ UNCHANGED tasks
        <3>1. root'.up
            BY <2>2, <2>3, <2>6
        <3> QED BY <2>1, <2>3, <2>4, <2>6, <3>1, StageGoesOn
    <2> QED BY <2>2, <2>5, <2>6
<1>20. CASE SmokeEnds
    <2>1. /\ Doing("smoke", "restarted") /\ EndWith(<< >>)
          /\ UNCHANGED <<package, catalog, root, hosts, deferred, asked>>
        BY <1>20 DEF SmokeEnds
    <2>2. Busy /\ tasks[This].stage = "smoke" /\ (root.by = This => root.up)
        BY <2>1, WhileDoing
    <2>3. << >> \in Seq(TaskRows) /\ Len(<< >>) <= 1
        OBVIOUS
    <2> QED BY <2>1, <2>2, <2>3, JobSucceeds
<1>21. CASE StageRaises \/ StopAndRecover
    <2>1. /\ Busy /\ asked.setbacks < MaxSetbacks /\ EndFailed
          /\ asked' = [asked EXCEPT !.setbacks = asked.setbacks + 1]
          /\ UNCHANGED <<package, catalog, root, hosts, deferred>>
        BY <1>21 DEF StageRaises, StopAndRecover, Setback
    <2>2. asked \in AskedRows /\ hosts \in Seq(HostRows) /\ root \in RootRows
        BY DEF RevisionInv, RevisionsFit
    <2>3. asked' \in AskedRows /\ asked'.builds = asked.builds
        BY <2>1, <2>2, RevisionsAssumption DEF AskedRows
    <2> QED BY <2>1, <2>2, <2>3, JobFails
<1>22. CASE UNCHANGED revisionVars
    BY <1>22 DEF revisionVars, RevisionInv, RevisionsFit, RootIsHeld, HoldsRoot, BuildsAreOrdered,
         CatalogLeads, Generation, InProgress, Busy
<1> QED BY <1>1, <1>2, <1>3, <1>4, <1>5, <1>6, <1>7, <1>8, <1>9, <1>10, <1>11, <1>12, <1>13,
          <1>14, <1>15, <1>16, <1>17, <1>18, <1>19, <1>20, <1>21, <1>22 DEF RevisionNext

\* The inductive invariant of builds holds in every behaviour.
THEOREM RevisionInvariant == RevisionSpec => []RevisionInv
BY RevisionStart, RevisionStep, PTL DEF RevisionSpec

(***************************************************************************)
(* The root runtime is down only while a job has it down or after a job    *)
(* that failed: no deployment and no smoke test succeeds and leaves it     *)
(* down (core/runtime/deploy_local.py, core/runtime/smoke_test.py).        *)
(***************************************************************************)
THEOREM RootsAreAccounted == RevisionSpec => []RootDownIsAccounted
<1>1. RevisionInv => RootDownIsAccounted
    <2> SUFFICES ASSUME RevisionInv, ~root.up, root.by # 0
                 PROVE  tasks[root.by].status \in {"running", "failed"}
        BY DEF RootDownIsAccounted
    <2>1. tasks \in Seq(TaskRows) /\ root.by \in 0..Len(tasks)
        BY DEF RevisionInv, RevisionsFit
    <2>2. root.by \in DOMAIN tasks /\ tasks[root.by] \in TaskRows
        BY <2>1
    <2>3. tasks[root.by].status \in {"queued", "running", "succeeded", "failed"}
        BY <2>2 DEF TaskRows
    <2>4. tasks[root.by].status \notin {"queued", "succeeded"}
        BY <2>2 DEF RevisionInv, RootIsHeld
    <2> QED BY <2>3, <2>4
<1> QED BY <1>1, RevisionInvariant, PTL

(***************************************************************************)
(* As long as no import into the catalog was let pass, a smoke test never  *)
(* restarts the root runtime with an older build than the one it stopped,  *)
(* for any number of builds and activations whose chains take turns in the *)
(* queue.                                                                  *)
(***************************************************************************)
THEOREM OlderBuildsStayAway == RevisionSpec => NoOlderBuildReturns
<1>1. RevisionInv /\ [RevisionNext]_revisionVars =>
          [~deferred /\ StartRoot => root'.build >= root.build]_revisionVars
    <2> SUFFICES ASSUME RevisionInv, ~deferred, StartRoot
                 PROVE  root'.build >= root.build
        OBVIOUS
    <2>1. /\ Doing("smoke", "stopped")
          /\ \E up : root' = IF up THEN [root EXCEPT !.build = Build, !.up = TRUE] ELSE root
        BY DEF StartRoot
    <2>2. /\ This \in DOMAIN tasks /\ tasks[This].status = "running" /\ step = "stopped"
          /\ tasks[This].stage = "smoke" /\ Build \in 1..MaxBuilds
          /\ root \in [build : 0..MaxBuilds, up : BOOLEAN, by : 0..Len(tasks)]
        BY <2>1, WhileDoing
    <2>3. Build = catalog /\ root.build <= catalog
        BY <2>2 DEF RevisionInv, CatalogLeads, Build, InProgress
    <2> QED BY <2>1, <2>2, <2>3
<1> QED BY <1>1, RevisionInvariant, PTL DEF RevisionSpec, NoOlderBuildReturns

\* A package is there before anything can deploy or import it, and every sibling that
\* a job names is there.
PackageIsThere ==
    \/ package \in 1..MaxBuilds
    \/ /\ step \notin {"packaged", "imported"}
       /\ \A t \in DOMAIN tasks : tasks[t].stage = "generate" /\ tasks[t].status # "succeeded"

HostsAreThere == \A t \in DOMAIN tasks : tasks[t].host <= Len(hosts)
ImportsAreBuilds == \A h \in DOMAIN hosts : hosts[h].imported \subseteq 1..MaxBuilds

RevisionRowsFit == PackageIsThere /\ HostsAreThere /\ ImportsAreBuilds

LEMMA RevisionRowsStart == RevisionInit => RevisionRowsFit
<1> SUFFICES ASSUME RevisionInit PROVE RevisionRowsFit
    OBVIOUS
<1>1. step = "idle" /\ DOMAIN tasks = {} /\ DOMAIN hosts = {}
    BY DEF RevisionInit
<1> QED BY <1>1 DEF RevisionRowsFit, PackageIsThere, HostsAreThere, ImportsAreBuilds

\* What a change of the status leaves alone.
LEMMA StatusOnly ==
    ASSUME NEW s \in Seq(TaskRows), NEW t \in DOMAIN s, NEW status, NEW after,
           after = [s EXCEPT ![t].status = status]
    PROVE  /\ DOMAIN after = DOMAIN s /\ after[t].status = status
           /\ \A u \in DOMAIN s : after[u].stage = s[u].stage /\ after[u].host = s[u].host
           /\ \A u \in DOMAIN s \ {t} : after[u] = s[u]
<1>1. \A u \in DOMAIN s : s[u] \in TaskRows
    OBVIOUS
<1> QED BY <1>1 DEF TaskRows

LEMMA PackageStep ==
    RevisionInv /\ PackageIsThere /\ [RevisionNext]_revisionVars => PackageIsThere'
<1> SUFFICES ASSUME RevisionInv, PackageIsThere, [RevisionNext]_revisionVars
             PROVE  PackageIsThere'
    OBVIOUS
<1>1. CASE _package_generated_app
    <2>1. package' = Build /\ Doing("generate", "start")
        BY <1>1 DEF _package_generated_app
    <2>2. Build \in 1..MaxBuilds
        BY <2>1, WhileDoing
    <2> QED BY <2>1, <2>2 DEF PackageIsThere
<1>2. CASE package' = package
    <2>1. CASE package \in 1..MaxBuilds
        BY <1>2, <2>1 DEF PackageIsThere
    <2>2. CASE /\ step \notin {"packaged", "imported"}
               /\ \A t \in DOMAIN tasks : tasks[t].stage = "generate"
                                          /\ tasks[t].status # "succeeded"
        <3>0. tasks \in Seq(TaskRows)
            BY DEF RevisionInv, RevisionsFit
        <3>1. CASE SubmitBuild
            <4>1. /\ step' = step
                  /\ tasks' = Append(tasks, Task("generate", asked.builds + 1, 0))
                BY <3>1 DEF SubmitBuild
            <4>2. PICK q : q = Task("generate", asked.builds + 1, 0)
                OBVIOUS
            <4>3. q.stage = "generate" /\ q.status = "queued"
                BY <4>2 DEF Task
            <4>4. \A u \in DOMAIN tasks' :
                      tasks'[u] = q \/ (u \in DOMAIN tasks /\ tasks'[u] = tasks[u])
                BY <3>0, <4>1, <4>2
            <4> QED BY <2>2, <4>1, <4>3, <4>4 DEF PackageIsThere
        <3>2. CASE Claim
            <4>1. PICK t \in DOMAIN tasks : tasks' = [tasks EXCEPT ![t].status = "running"]
                BY <3>2 DEF Claim, Waiting
            <4>2. step' = "start"
                BY <3>2 DEF Claim
            <4> QED BY <2>2, <3>0, <4>1, <4>2, StatusOnly DEF PackageIsThere
        <3>3. CASE Setback
            <4>1. Busy /\ tasks' = [tasks EXCEPT ![This].status = "failed"] /\ step' = "idle"
                BY <3>3 DEF Setback, EndFailed
            <4>2. This \in DOMAIN tasks
                BY <4>1, ThisRuns DEF RevisionInv
            <4> QED BY <2>2, <3>0, <4>1, <4>2, StatusOnly DEF PackageIsThere
        <3>4. CASE UNCHANGED revisionVars
            BY <2>2, <3>4 DEF PackageIsThere, revisionVars
        <3>5. CASE \E g \in DOMAIN tasks : ActivateBuild(g)
            BY <2>2, <3>5 DEF ActivateBuild
        <3>6. ~Doing("generate", "packaged") /\ ~Doing("generate", "imported")
            BY <2>2 DEF Doing
        <3>7. \A stage \in {"deploy", "provision", "smoke"} : \A where : ~Doing(stage, where)
            <4>1. ASSUME NEW stage \in {"deploy", "provision", "smoke"}, NEW where,
                         Doing(stage, where)
                  PROVE  FALSE
                <5>1. This \in DOMAIN tasks /\ tasks[This].stage = stage
                    BY <4>1, WhileDoing
                <5> QED BY <2>2, <5>1
            <4> QED BY <4>1
        <3> QED
            BY <1>1, <3>1, <3>2, <3>3, <3>4, <3>5, <3>6, <3>7
            DEF RevisionNext, _import_generated_artifact_package, GenerateEnds, ComposeDown,
                ComposeUp, DeployEnds, ChooseHost,
                _import_generated_artifact_package_into_registry,
                _install_generated_artifact_in_sibling, deploy_generated_runtime,
                _register_sibling_runtime_target, RootAnswers, CatalogAgrees, HostAgrees,
                StopRoot, StartRoot, SmokeEnds, StageRaises, StopAndRecover
    <2> QED BY <2>1, <2>2 DEF PackageIsThere
<1> QED
    BY <1>1, <1>2
    DEF RevisionNext, revisionVars, SubmitBuild, ActivateBuild, Claim,
        _import_generated_artifact_package, GenerateEnds, ComposeDown, ComposeUp, DeployEnds,
        ChooseHost, _import_generated_artifact_package_into_registry,
        _install_generated_artifact_in_sibling, deploy_generated_runtime,
        _register_sibling_runtime_target, RootAnswers, CatalogAgrees, HostAgrees, StopRoot,
        StartRoot, SmokeEnds, StageRaises, StopAndRecover, Setback

\* A job that ends leaves its host as it is, and its follow-up names none or the same.
LEMMA EndsKeepHosts ==
    ASSUME RevisionInv, HostsAreThere, Busy, NEW status \in {"succeeded", "failed"},
           NEW new \in Seq(TaskRows), Len(new) <= 1, tasks' = Ending(tasks, This, status, new),
           new # << >> => new[1].host \in {0, Host}, Len(hosts') = Len(hosts)
    PROVE  HostsAreThere'
<1> PICK t : t = This
    OBVIOUS
<1>1. t \in DOMAIN tasks /\ tasks \in Seq(TaskRows) /\ hosts \in Seq(HostRows)
    BY ThisRuns DEF RevisionInv, RevisionsFit
<1>2. IsEnding(tasks, t, status, new, tasks')
    BY <1>1, TasksEnd
<1>3. /\ tasks' \in Seq(TaskRows) /\ Len(tasks') = Len(tasks) + Len(new)
      /\ \A u \in DOMAIN tasks : tasks'[u].host = tasks[u].host
      /\ \A u \in (Len(tasks) + 1)..Len(tasks') : tasks'[u] = new[1]
    BY <1>2 DEF IsEnding
<1>4. Len(hosts) \in Nat /\ tasks[t].host <= Len(hosts) /\ Host = tasks[t].host
    BY <1>1 DEF HostsAreThere, Host
<1>5. ASSUME NEW u \in DOMAIN tasks' PROVE tasks'[u].host <= Len(hosts)
    <2>1. u \in DOMAIN tasks \/ u \in (Len(tasks) + 1)..Len(tasks')
        BY <1>1, <1>3
    <2>2. CASE u \in DOMAIN tasks
        BY <1>3, <2>2 DEF HostsAreThere
    <2>3. CASE u \in (Len(tasks) + 1)..Len(tasks')
        <3>1. new # << >> /\ tasks'[u] = new[1]
            BY <1>1, <1>3, <2>3
        <3> QED BY <1>4, <3>1
    <2> QED BY <2>1, <2>2, <2>3
<1> QED BY <1>5 DEF HostsAreThere

LEMMA HostsStep ==
    RevisionInv /\ HostsAreThere /\ [RevisionNext]_revisionVars => HostsAreThere'
<1> SUFFICES ASSUME RevisionInv, HostsAreThere, [RevisionNext]_revisionVars
             PROVE  HostsAreThere'
    OBVIOUS
<1>0. /\ tasks \in Seq(TaskRows) /\ hosts \in Seq(HostRows) /\ Len(hosts) \in Nat
      /\ \A t \in DOMAIN tasks : tasks[t] \in TaskRows
    BY DEF RevisionInv, RevisionsFit
<1>1. ASSUME NEW q, q.host = 0, tasks' = Append(tasks, q), UNCHANGED hosts
      PROVE  HostsAreThere'
    <2>1. \A u \in DOMAIN tasks' : tasks'[u] = q \/ (u \in DOMAIN tasks /\ tasks'[u] = tasks[u])
        BY <1>0, <1>1
    <2> QED BY <1>0, <1>1, <2>1 DEF HostsAreThere
<1>2. CASE SubmitBuild \/ \E g \in DOMAIN tasks : ActivateBuild(g)
    <2>1. UNCHANGED hosts
        BY <1>2 DEF SubmitBuild, ActivateBuild
    <2>2. \E stage, b : tasks' = Append(tasks, Task(stage, b, 0))
        BY <1>2 DEF SubmitBuild, ActivateBuild
    <2>3. \A stage, b : Task(stage, b, 0).host = 0
        BY DEF Task
    <2> QED BY <1>1, <2>1, <2>2, <2>3
<1>3. CASE Claim
    <2>1. PICK t \in DOMAIN tasks : tasks' = [tasks EXCEPT ![t].status = "running"]
        BY <1>3 DEF Claim, Waiting
    <2>2. UNCHANGED hosts
        BY <1>3 DEF Claim
    <2> QED BY <1>0, <2>1, <2>2, StatusOnly DEF HostsAreThere
<1>4. CASE ChooseHost
    <2>0. Busy /\ This \in DOMAIN tasks
        BY <1>4, WhileDoing DEF ChooseHost
    <2>1. PICK h \in Provisioned \cup {Len(hosts) + 1} :
              /\ tasks' = [tasks EXCEPT ![This].host = h]
              /\ hosts' = IF h \in DOMAIN hosts THEN hosts
                          ELSE Append(hosts, [imported |-> {}, installed |-> 0, runs |-> 0])
        BY <1>4 DEF ChooseHost
    <2>2. h \in Nat /\ h <= Len(hosts) + 1 /\ (h <= Len(hosts) \/ h \notin DOMAIN hosts)
        <3>1. CASE h \in Provisioned
            <4>1. PICK t \in DOMAIN tasks : h = tasks[t].host
                BY <3>1 DEF Provisioned
            <4>2. h \in Nat /\ h <= Len(hosts)
                BY <1>0, <4>1 DEF TaskRows, HostsAreThere
            <4> QED BY <1>0, <4>2
        <3>2. CASE h = Len(hosts) + 1
            BY <1>0, <3>2
        <3> QED BY <3>1, <3>2
    <2>3. Len(hosts') \in Nat /\ Len(hosts) <= Len(hosts') /\ h <= Len(hosts')
        <3>1. CASE h \in DOMAIN hosts
            BY <1>0, <2>1, <3>1
        <3>2. CASE h \notin DOMAIN hosts
            <4>1. Len(hosts') = Len(hosts) + 1
                BY <1>0, <2>1, <3>2
            <4> QED BY <1>0, <2>2, <4>1
        <3> QED BY <3>1, <3>2
    <2>4. \A u \in DOMAIN tasks' :
              u \in DOMAIN tasks /\ (tasks'[u].host = h \/ tasks'[u].host = tasks[u].host)
        BY <1>0, <2>0, <2>1 DEF TaskRows
    <2>5. ASSUME NEW u \in DOMAIN tasks' PROVE tasks'[u].host <= Len(hosts')
        <3>1. u \in DOMAIN tasks /\ tasks[u].host \in Nat /\ tasks[u].host <= Len(hosts)
            BY <1>0, <2>4 DEF TaskRows, HostsAreThere
        <3> QED BY <1>0, <2>2, <2>3, <2>4, <3>1
    <2> QED BY <2>5 DEF HostsAreThere
<1>5. CASE UNCHANGED tasks /\ (UNCHANGED hosts \/ \E h, q : hosts' = [hosts EXCEPT ![h] = q])
    <2>1. Len(hosts') = Len(hosts)
        BY <1>0, <1>5
    <2> QED BY <1>5, <2>1 DEF HostsAreThere
<1>6. CASE _install_generated_artifact_in_sibling
    <2>0. Busy /\ This \in DOMAIN tasks
        BY <1>6, WhileDoing DEF _install_generated_artifact_in_sibling
    <2>1. PICK b : /\ hosts' = [hosts EXCEPT ![Host].installed = b]
                   /\ tasks' = [tasks EXCEPT ![This].installed = b]
        BY <1>6 DEF _install_generated_artifact_in_sibling
    <2>2. Len(hosts') = Len(hosts)
        BY <1>0, <2>1
    <2>3. \A u \in DOMAIN tasks' : u \in DOMAIN tasks /\ tasks'[u].host = tasks[u].host
        BY <1>0, <2>0, <2>1 DEF TaskRows
    <2> QED BY <2>2, <2>3 DEF HostsAreThere
<1>7. CASE Busy /\ EndFailed /\ Len(hosts') = Len(hosts)
    <2>1. tasks' = Ending(tasks, This, "failed", << >>)
        BY <1>7, FailureEnds
    <2>2. << >> \in Seq(TaskRows) /\ Len(<< >>) <= 1
        OBVIOUS
    <2> HIDE DEF Ending
    <2> QED BY <1>7, <2>1, <2>2, EndsKeepHosts
<1>8. ASSUME NEW new \in Seq(TaskRows), Len(new) <= 1, Busy, EndWith(new),
             new # << >> => new[1].host \in {0, Host}, UNCHANGED hosts
      PROVE  HostsAreThere'
    <2>1. tasks' = Ending(tasks, This, "succeeded", new)
        BY <1>8, Zenon DEF EndWith, Ending
    <2> HIDE DEF Ending
    <2> QED BY <1>8, <2>1, EndsKeepHosts
<1>9. CASE GenerateEnds \/ DeployEnds
    <2>1. PICK stage, q :
              /\ stage \in {"deploy", "provision"} /\ q = Task(stage, Build, 0) /\ EndWith(<<q>>) /\ UNCHANGED hosts
        BY <1>9 DEF GenerateEnds, DeployEnds
    <2>2. Busy /\ Build \in 1..MaxBuilds
        BY <1>9, WhileDoing DEF GenerateEnds, DeployEnds
    <2>3. <<q>> \in Seq(TaskRows) /\ Len(<<q>>) <= 1 /\ <<q>>[1] = q
        BY <2>1, <2>2, FollowUpFits
    <2>4. q.host = 0
        BY <2>1 DEF Task
    <2> QED BY <1>8, <2>1, <2>2, <2>3, <2>4
<1>10. CASE _register_sibling_runtime_target
    <2>1. PICK q : /\ EndWith(<<q>>) /\ UNCHANGED hosts
                   /\ q = [Task("smoke", Build, Host) EXCEPT !.installed = tasks[This].installed]
        BY <1>10 DEF _register_sibling_runtime_target
    <2>2. Busy /\ Build \in 1..MaxBuilds /\ tasks[This] \in TaskRows
        BY <1>10, WhileDoing DEF _register_sibling_runtime_target
    <2>3. Host \in Nat /\ tasks[This].installed \in 0..MaxBuilds
        BY <2>2 DEF Host, TaskRows
    <2>4. <<q>> \in Seq(TaskRows) /\ Len(<<q>>) <= 1 /\ <<q>>[1] = q
        BY <2>1, <2>2, <2>3, FollowUpFits
    <2>5. q.host = Host
        BY <2>1 DEF Task
    <2> QED BY <1>8, <2>1, <2>2, <2>4, <2>5
<1>11. CASE SmokeEnds
    <2>1. Busy /\ EndWith(<< >>) /\ UNCHANGED hosts
        BY <1>11 DEF SmokeEnds, Doing
    <2>2. << >> \in Seq(TaskRows) /\ Len(<< >>) <= 1
        OBVIOUS
    <2> QED BY <1>8, <2>1, <2>2
<1>12. CASE deploy_generated_runtime
    <2>1. PICK up \in BOOLEAN :
              /\ hosts' = [hosts EXCEPT ![Host].runs = IF up THEN Build ELSE 0]
              /\ IF up THEN step' = "deployed" /\ UNCHANGED tasks ELSE EndFailed
        BY <1>12 DEF deploy_generated_runtime
    <2>2. Len(hosts') = Len(hosts) /\ Busy
        BY <1>0, <1>12, <2>1 DEF deploy_generated_runtime, Doing
    <2>3. CASE UNCHANGED tasks
        BY <2>2, <2>3 DEF HostsAreThere
    <2> QED BY <1>7, <2>1, <2>2, <2>3
<1>13. CASE StartRoot
    <2>1. Busy /\ UNCHANGED hosts /\ (UNCHANGED tasks \/ EndFailed)
        BY <1>13 DEF StartRoot, Doing
    <2> QED BY <1>5, <1>7, <2>1
<1>14. CASE Setback
    BY <1>7, <1>14 DEF Setback
<1>15. CASE _import_generated_artifact_package_into_registry
    <2>1. \E h, q : hosts' = [hosts EXCEPT ![h] = q]
        BY <1>15 DEF _import_generated_artifact_package_into_registry
    <2> QED BY <1>5, <1>15, <2>1 DEF _import_generated_artifact_package_into_registry
<1> QED
    BY <1>2, <1>3, <1>4, <1>5, <1>6, <1>9, <1>10, <1>11, <1>12, <1>13, <1>14, <1>15
    DEF RevisionNext, revisionVars, _package_generated_app, _import_generated_artifact_package,
        ComposeDown, ComposeUp, RootAnswers, CatalogAgrees, HostAgrees, StopRoot, StageRaises,
        StopAndRecover

LEMMA ImportsStep ==
    RevisionInv /\ PackageIsThere /\ ImportsAreBuilds /\ [RevisionNext]_revisionVars
        => ImportsAreBuilds'
<1> SUFFICES ASSUME RevisionInv, PackageIsThere, ImportsAreBuilds, [RevisionNext]_revisionVars
             PROVE  ImportsAreBuilds'
    OBVIOUS
<1>0. hosts \in Seq(HostRows) /\ \A h \in DOMAIN hosts : hosts[h] \in HostRows
    BY DEF RevisionInv, RevisionsFit
<1>1. CASE UNCHANGED hosts
    BY <1>1 DEF ImportsAreBuilds
<1>2. CASE ChooseHost
    <2> DEFINE new == [imported |-> {}, installed |-> 0, runs |-> 0]
    <2>1. hosts' = hosts \/ hosts' = Append(hosts, new)
        BY <1>2 DEF ChooseHost
    <2>2. \A h \in DOMAIN hosts' :
              hosts'[h] = new \/ (h \in DOMAIN hosts /\ hosts'[h] = hosts[h])
        BY <1>0, <2>1
    <2>3. new.imported = {}
        OBVIOUS
    <2> HIDE DEF new
    <2> QED BY <2>2, <2>3 DEF ImportsAreBuilds
<1>3. CASE _import_generated_artifact_package_into_registry
    <2>1. /\ Doing("provision", "hosted")
          /\ hosts' = [hosts EXCEPT ![Host].imported = hosts[Host].imported \cup {package}]
        BY <1>3 DEF _import_generated_artifact_package_into_registry
    <2>2. This \in DOMAIN tasks /\ tasks[This].stage = "provision"
        BY <2>1, WhileDoing
    <2>3. package \in 1..MaxBuilds
        BY <2>2 DEF PackageIsThere
    <2>4. \A h \in DOMAIN hosts' : /\ h \in DOMAIN hosts
                                   /\ hosts'[h].imported \subseteq hosts[h].imported \cup {package}
        BY <1>0, <2>1 DEF HostRows
    <2> QED BY <2>3, <2>4 DEF ImportsAreBuilds
<1>4. CASE _install_generated_artifact_in_sibling \/ deploy_generated_runtime
    <2>1. \E b : \/ hosts' = [hosts EXCEPT ![Host].installed = b]
                 \/ hosts' = [hosts EXCEPT ![Host].runs = b]
        BY <1>4 DEF _install_generated_artifact_in_sibling, deploy_generated_runtime
    <2>2. \A h \in DOMAIN hosts' : h \in DOMAIN hosts /\ hosts'[h].imported = hosts[h].imported
        BY <1>0, <2>1 DEF HostRows
    <2> QED BY <2>2 DEF ImportsAreBuilds
<1> QED
    BY <1>1, <1>2, <1>3, <1>4
    DEF RevisionNext, revisionVars, SubmitBuild, ActivateBuild, Claim, _package_generated_app,
        _import_generated_artifact_package, GenerateEnds, ComposeDown, ComposeUp, DeployEnds,
        _register_sibling_runtime_target, RootAnswers, CatalogAgrees, HostAgrees, StopRoot,
        StartRoot, SmokeEnds, StageRaises, StopAndRecover, Setback

LEMMA RevisionRowsStep ==
    RevisionInv /\ RevisionRowsFit /\ [RevisionNext]_revisionVars => RevisionRowsFit'
BY PackageStep, HostsStep, ImportsStep DEF RevisionRowsFit

\* The types of the rows follow, and that one job runs at a time.
LEMMA RevisionTypes == RevisionInv /\ RevisionRowsFit => RevisionTypeOK
<1> SUFFICES ASSUME RevisionInv, RevisionRowsFit PROVE RevisionTypeOK
    OBVIOUS
<1>1. /\ \A t \in DOMAIN tasks : tasks[t] \in TaskRows /\ tasks[t].host <= Len(hosts)
      /\ \A h \in DOMAIN hosts : hosts[h] \in HostRows
      /\ Len(hosts) \in Nat
    BY DEF RevisionInv, RevisionsFit, RevisionRowsFit, HostsAreThere
<1>2. \A t \in DOMAIN tasks :
          /\ tasks[t].stage \in {"generate", "deploy", "provision", "smoke"}
          /\ tasks[t].build \in 1..MaxBuilds /\ tasks[t].installed \in 0..MaxBuilds
          /\ tasks[t].host \in 0..Len(hosts)
          /\ tasks[t].status \in {"queued", "running", "succeeded", "failed"}
    BY <1>1 DEF TaskRows
<1>3. Cardinality(InProgress) <= 1
    <2>1. CASE InProgress = {}
        BY <2>1, FS_EmptySet
    <2>2. CASE InProgress # {}
        <3>1. PICK t \in InProgress : TRUE
            BY <2>2
        <3>2. InProgress = {t}
            BY <3>1 DEF RevisionInv, RevisionsFit
        <3> QED BY <3>2, FS_Singleton
    <2> QED BY <2>1, <2>2
<1>4. /\ Busy <=> step # "idle"
      /\ package \in 0..MaxBuilds /\ catalog \in 0..MaxBuilds
      /\ root.build \in 0..MaxBuilds /\ root.by \in 0..Len(tasks)
      /\ deferred \in BOOLEAN /\ asked \in AskedRows
    BY DEF RevisionInv, RevisionsFit
<1>5. \A h \in DOMAIN hosts : /\ hosts[h].imported \subseteq 1..MaxBuilds
                              /\ hosts[h].installed \in 0..MaxBuilds
                              /\ hosts[h].runs \in 0..MaxBuilds
    BY <1>1 DEF HostRows, RevisionRowsFit, ImportsAreBuilds
<1> QED BY <1>2, <1>3, <1>4, <1>5 DEF RevisionTypeOK, AskedRows
=============================================================================
