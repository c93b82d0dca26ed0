-------------------------- MODULE ContractExercise --------------------------
(***************************************************************************)
(* The smoke test of a generated application                               *)
(* (core/runtime/contract_verification.py): for every entity of its        *)
(* contract it creates a record, reads it and updates it, entities whose   *)
(* relations are not served yet waiting for the next pass, and it moves a  *)
(* parent to a status that lets its child be created.  The policies that   *)
(* it reads are compiled from the application's description                *)
(* (core/policy_bundle/compiler.py): a gate on the status of a parent, and *)
(* a guard that lets a status only stay or go to the next option.          *)
(*                                                                         *)
(* The application runs in a container and enforces both policies; it is   *)
(* not part of the repository.  Statuses are their positions in the list   *)
(* of options.                                                             *)
(***************************************************************************)
EXTENDS Naturals, Sequences, SequencesExt, FiniteSets, FiniteSetsExt

CONSTANTS
    Contracts,      \* the entities, in the order of the manifest, each once
    Relations,      \* for each entity: the sets of entities it may relate to
    LastStatus,     \* the number of status options
    Gates           \* sets of statuses that a gate may name

ASSUME ExerciseAssumption ==
    /\ LastStatus \in Nat /\ LastStatus > 1
    /\ Contracts \in Seq(ToSet(Contracts)) /\ IsInjective(Contracts)
    /\ DOMAIN Relations = ToSet(Contracts)
    /\ \A S \in Gates : S # {} /\ S \subseteq 1..LastStatus

VARIABLES
    app,            \* the contract and the policies of the application
    pending,        \* entities left, and those left in this pass
    created_records,\* what the test remembers of each record: its status
    actual,         \* the status of each record in the application
    verdict         \* "running", "passed", "refused" or "unresolved"

exerciseVars == <<app, pending, created_records, actual, verdict>>

Entities == ToSet(Contracts)
Statuses == 1..LastStatus
NoRecord == 0

(* _compile_parent_status_gate_policies: a gate concerns one relation and  *)
(* lists the statuses that it allows, or those that it blocks.             *)
CompiledGates(deps, e) ==
    {[kind |-> "open", parent |-> e, statuses |-> {}]} \union
    [kind : {"allowed", "blocked"}, parent : deps[e], statuses : Gates]

(* _compile_transition_policies: each option leads to itself and the next. *)
AllowedTransitions(s) ==
    IF app.guarded THEN {s, s + 1} \cap Statuses ELSE Statuses

(* "updates" are the entities whose update payload changes the status.     *)
ExerciseInit ==
    /\ \E deps \in {f \in [Entities -> SUBSET Entities] :
                        \A e \in Entities : f[e] \in Relations[e]} :
       \E gate \in {g \in [Entities -> UNION {CompiledGates(deps, e) : e \in Entities}] :
                        \A e \in Entities : g[e] \in CompiledGates(deps, e)} :
       \E guarded \in BOOLEAN, updates \in SUBSET Entities :
           app = [deps |-> deps, gate |-> gate, guarded |-> guarded, updates |-> updates]
    /\ pending = [all |-> Contracts, pass |-> Contracts, progressed |-> FALSE, stage |-> "gate"]
    /\ created_records = [e \in Entities |-> NoRecord]
    /\ actual = [e \in Entities |-> NoRecord]
    /\ verdict = "running"

Current == Head(pending.pass)
At(stage) == verdict = "running" /\ pending.pass # <<>> /\ pending.stage = stage
Ready(e) == \A dep \in app.deps[e] : created_records[dep] # NoRecord

(* What the application enforces when a record is created or updated.      *)
GateOpen(e) ==
    CASE app.gate[e].kind = "open" -> TRUE
      [] app.gate[e].kind = "allowed" -> actual[app.gate[e].parent] \in app.gate[e].statuses
      [] app.gate[e].kind = "blocked" -> actual[app.gate[e].parent] \notin app.gate[e].statuses

Refused ==
    verdict' = "refused" /\ UNCHANGED <<app, pending, created_records, actual>>

-----------------------------------------------------------------------------
(* An entity that relates to one without a record waits.                   *)
Wait ==
    /\ At("gate") /\ ~Ready(Current)
    /\ pending' = [pending EXCEPT !.pass = Tail(@)]
    /\ UNCHANGED <<app, created_records, actual, verdict>>

\* Mutant: the parent is sent to the first allowed status at once.
DirectStatus(current, allowed) == Min(allowed)

(* The next status on the way to an allowed one.  In ordered transitions   *)
(* the shortest path goes through the options in between; where there is   *)
(* no path, the first allowed status is tried.                             *)
NextStatus(current, allowed) ==
    IF app.guarded /\ \E s \in allowed : s > current
    THEN current + 1 ELSE Min(allowed)

Steered(e) ==
    LET gate == app.gate[e]
    IN  gate.kind = "allowed" /\ created_records[gate.parent] \notin gate.statuses

ensure_parent_status_gate_prerequisites ==
    LET parent == app.gate[Current].parent
        next == NextStatus(created_records[parent], app.gate[Current].statuses)
    IN  /\ At("gate") /\ Ready(Current) /\ Steered(Current)
        /\ IF next \in AllowedTransitions(actual[parent]) /\ GateOpen(parent)
           THEN /\ actual' = [actual EXCEPT ![parent] = next]
                /\ created_records' = [created_records EXCEPT ![parent] = next]
                /\ UNCHANGED <<app, pending, verdict>>
           ELSE Refused

(* POST, with the first option as status.                                  *)
SeedEntity ==
    /\ At("gate") /\ Ready(Current) /\ ~Steered(Current)
    /\ IF GateOpen(Current)
       THEN /\ actual' = [actual EXCEPT ![Current] = 1]
            /\ created_records' = [created_records EXCEPT ![Current] = 1]
            /\ pending' = [pending EXCEPT !.stage = "update"]
            /\ UNCHANGED <<app, verdict>>
       ELSE Refused

(* PATCH, with the second option of the first field that has options.  The *)
(* record that the test remembers stays the one of the POST.               *)
UpdateEntity ==
    /\ At("update")
    /\ actual' = [actual EXCEPT ![Current] = IF Current \in app.updates THEN 2 ELSE @]
    /\ pending' = [all |-> RemoveFirst(pending.all, Current),
                   pass |-> Tail(pending.pass), progressed |-> TRUE, stage |-> "gate"]
    /\ UNCHANGED <<app, created_records, verdict>>

(* The end of a pass.                                                      *)
PassEnds ==
    /\ verdict = "running" /\ pending.pass = <<>>
    /\ verdict' = IF pending.all = <<>> THEN "passed"
                  ELSE IF pending.progressed THEN "running" ELSE "unresolved"
    /\ pending' = [pending EXCEPT !.pass = pending.all, !.progressed = FALSE]
    /\ UNCHANGED <<app, created_records, actual>>

exercise_runtime_contracts ==
    \/ Wait \/ ensure_parent_status_gate_prerequisites
    \/ SeedEntity \/ UpdateEntity \/ PassEnds

ExerciseNext == exercise_runtime_contracts

ExerciseSpec == ExerciseInit /\ [][ExerciseNext]_exerciseVars

-----------------------------------------------------------------------------
ExerciseTypeOK ==
    /\ app.deps \in [Entities -> SUBSET Entities]
    /\ ToSet(pending.pass) \subseteq ToSet(pending.all)
    /\ ToSet(pending.all) \subseteq Entities
    /\ created_records \in [Entities -> {NoRecord} \union Statuses]
    /\ actual \in [Entities -> {NoRecord} \union Statuses]
    /\ verdict \in {"running", "passed", "refused", "unresolved"}

(***************************************************************************)
(* An application that can pass does: if its relations have no cycle, its  *)
(* gates name what they allow, and can be reached, the smoke test does not *)
(* fail it, in whatever order the entities are listed.  A gate can be      *)
(* reached if it allows a status after the one that the update of the      *)
(* parent left, and not the one before it, which the test takes the parent *)
(* still to have; and if all gates on one parent allow the same statuses.  *)
(***************************************************************************)
Acyclic ==
    \A S \in SUBSET Entities \ {{}} : \E e \in S : app.deps[e] \cap S = {}

Gated == {e \in Entities : app.gate[e].kind # "open"}

Reachable(e) ==
    LET gate == app.gate[e]
    IN  /\ gate.kind = "allowed"
        /\ gate.parent \in app.updates => 1 \notin gate.statuses
        /\ \A f \in Gated : app.gate[f].parent = gate.parent =>
                                app.gate[f].statuses = gate.statuses

PassableAppsPass ==
    Acyclic /\ (\A e \in Gated : Reachable(e)) =>
        verdict \notin {"refused", "unresolved"}
=============================================================================
