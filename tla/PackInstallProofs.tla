-------------------------- MODULE PackInstallProofs --------------------------
(***************************************************************************)
(* Proofs about the legacy queue with the installation of a pack, for any  *)
(* workers, runs, keys and bounds.                                         *)
(*                                                                         *)
(* PackInv is inductive: the types, a spare identifier for every child not *)
(* yet spawned, keyed edges, served parents, executions that fit their     *)
(* rows, and tables that stand once a worker is past making them.  That a  *)
(* run is settled once is an action property and follows from the same     *)
(* invariant, step by step.                                                *)
(***************************************************************************)
EXTENDS PackInstall, FiniteSetTheorems, WellFoundedInduction, TLAPS

-----------------------------------------------------------------------------
(* The inductive invariant.                                                *)

\* A run that an orchestrator spawns always finds a free identifier.
IdsSuffice == IsFiniteSet(Unspawned) /\ Cardinality(Unspawned) <= Cardinality(Free)

\* The edges of an orchestrator carry its keys, each of them once.
EdgesAreKeyed ==
    \A r \in RunIds :
        /\ \A c \in Children(r) : queue[c].key \in Keys
        /\ \A c, d \in Children(r) : queue[c].key = queue[d].key => c = d

Completed(r) == {c \in Children(r) : queue[c].status = "COMPLETED"}

\* What the policy of an orchestrator asks of its children.
Served(r) ==
    /\ queue[r].kind = "all" => \A k \in Keys : \E c \in Completed(r) : queue[c].key = k
    /\ queue[r].kind = "any" => Completed(r) # {}

CompletedAreServed ==
    \A r \in RunIds : queue[r].status = "COMPLETED" => Served(r)

\* Where an execution stands, and what it holds, fits the run that it executes.
Fits(p) ==
    /\ queue[p.run].status # "ABSENT"
    /\ p.spawned \subseteq Children(p.run)
    /\ p.pc = "task" => queue[p.run].kind = "task"
    /\ p.pc \in {"spawn", "insert", "spawned", "wait"} => Spawns(queue[p.run].kind)
    /\ p.pc \in InstallPlaces => queue[p.run].kind = "install"
    /\ p.pc = "insert" => p.key \in Keys
    /\ p.pc = "wait" => \A k \in Keys : \E c \in p.spawned : queue[c].key = k
    /\ p.pc = "finish" => Served(p.run)

ExecutionsFit == \A w \in Workers : Executing(w) => Fits(at[w])

\* An installation that is past its nested run has its tables.
TablesStand ==
    /\ install.status = "INSTALLED" => schema = "tables"
    /\ \A w \in Workers : at[w].pc \in {"migrate", "stamp"} => schema = "tables"

QueueInv ==
    /\ QueueTypeOK /\ IdsSuffice /\ EdgesAreKeyed /\ CompletedAreServed /\ ExecutionsFit

PackInv == QueueInv /\ PackTypeOK /\ TablesStand

-----------------------------------------------------------------------------
(* What a step does to the table.                                          *)

\* No run is lost, none changes its kind or its edge, and none is settled anew.
Grows ==
    \A r \in RunIds : queue[r].status # "ABSENT" =>
        /\ queue'[r].status # "ABSENT"
        /\ queue'[r].kind = queue[r].kind
        /\ queue'[r].parent = queue[r].parent
        /\ queue'[r].key = queue[r].key
        /\ queue[r].status \in Settled => queue'[r].status = queue[r].status

\* And no run is added.
SameRuns ==
    /\ Grows
    /\ \A r \in RunIds : queue[r].status = "ABSENT" => queue'[r].status = "ABSENT"

\* A run is completed when its children give what its policy asks.
CompletesServed ==
    \A r \in RunIds :
        queue'[r].status = "COMPLETED" => queue[r].status = "COMPLETED" \/ Served(r)

\* While the table only grows, children stay children of their parent, under their
\* key, and what they gave to it stays given.
LEMMA GrowingKeeps ==
    ASSUME Grows
    PROVE  /\ \A r : Children(r) \subseteq Children(r)'
           /\ \A r : Completed(r) \subseteq Completed(r)'
           /\ \A r : \A c \in Children(r) : queue'[c].key = queue[c].key
           /\ \A r \in RunIds : queue[r].status # "ABSENT" /\ Served(r) => Served(r)'
<1>1. \A r : Children(r) \subseteq Children(r)'
  BY DEF Grows, Children
<1>2. \A r : Completed(r) \subseteq Completed(r)'
  BY DEF Grows, Children, Completed, Settled
<1>3. \A r : \A c \in Children(r) : queue'[c].key = queue[c].key
  BY DEF Grows, Children
<1>4. \A r : \A c \in Completed(r) : queue'[c].key = queue[c].key
  BY <1>3 DEF Completed
<1>5. ASSUME NEW r \in RunIds, queue[r].status # "ABSENT", Served(r)
      PROVE  Served(r)'
  <2>1. queue'[r].kind = queue[r].kind
    BY <1>5 DEF Grows
  <2>2. ASSUME queue'[r].kind = "all", NEW k \in Keys
        PROVE  \E c \in Completed(r)' : queue'[c].key = k
    <3>1. PICK c \in Completed(r) : queue[c].key = k
      BY <1>5, <2>1, <2>2 DEF Served
    <3>. QED
      BY <3>1, <1>2, <1>4
  <2>3. queue'[r].kind = "any" => Completed(r)' # {}
    BY <1>2, <1>5, <2>1 DEF Served
  <2>. QED
    BY <2>2, <2>3 DEF Served
<1>. QED
  BY <1>1, <1>2, <1>3, <1>5

\* An execution that stays where it is still fits its run.
LEMMA GrowingFits ==
    ASSUME Grows, NEW p, p.run \in RunIds, Fits(p)
    PROVE  Fits(p)'
<1>1. queue'[p.run].status # "ABSENT" /\ queue'[p.run].kind = queue[p.run].kind
  BY DEF Grows, Fits
<1>2. p.spawned \subseteq Children(p.run)'
  BY GrowingKeeps DEF Fits
<1>3. \A c \in p.spawned : queue'[c].key = queue[c].key
  BY GrowingKeeps DEF Fits
<1>4. p.pc = "finish" => Served(p.run)'
  BY GrowingKeeps DEF Fits
<1>. QED
  BY <1>1, <1>2, <1>3, <1>4 DEF Fits

\* The executions that a step leaves alone still fit.
LEMMA ExecutionsKept ==
    ASSUME QueueTypeOK, ExecutionsFit, Grows,
           \A w \in Workers : at'[w] = at[w] \/ (Executing(w)' => Fits(at[w])')
    PROVE  ExecutionsFit'
<1>. SUFFICES ASSUME NEW w \in Workers, Executing(w)' PROVE Fits(at[w])'
  BY DEF ExecutionsFit
<1>1. CASE at'[w] = at[w]
  <2>1. Executing(w) /\ at[w].run \in RunIds
    BY <1>1 DEF Executing, QueueTypeOK, Position
  <2>2. Fits(at[w])
    BY <2>1 DEF ExecutionsFit
  <2>. QED
    BY <1>1, <2>1, <2>2, GrowingFits DEF Fits
<1>. QED
  BY <1>1

\* A step that adds no run leaves the edges and the identifiers as they are.
LEMMA SameRunsKeep ==
    ASSUME SameRuns, CompletesServed, IdsSuffice, EdgesAreKeyed, CompletedAreServed,
           QueueTypeOK
    PROVE  IdsSuffice' /\ EdgesAreKeyed' /\ CompletedAreServed'
<1>1. \A r : Children(r)' = Children(r)
  BY DEF SameRuns, Grows, Children
<1>2. \A r : \A c \in Children(r) : queue'[c].key = queue[c].key
  BY GrowingKeeps DEF SameRuns
<1>3. Free' = Free
  BY DEF SameRuns, Grows, Free
<1>4. \A r \in RunIds : queue[r].status # "ABSENT" => queue'[r].kind = queue[r].kind
  BY DEF SameRuns, Grows
<1>5. \A r \in RunIds : queue[r].status = "ABSENT" <=> queue'[r].status = "ABSENT"
  BY DEF SameRuns, Grows
<1>6. Unspawned' = Unspawned
  BY <1>1, <1>2, <1>4, <1>5 DEF Unspawned
<1>7. IdsSuffice'
  BY <1>3, <1>6 DEF IdsSuffice
<1>8. EdgesAreKeyed'
  BY <1>1, <1>2 DEF EdgesAreKeyed
<1>9. ASSUME NEW r \in RunIds, queue'[r].status = "COMPLETED" PROVE Served(r)'
  <2>1. queue[r].status # "ABSENT"
    BY <1>9, <1>5
  <2>2. Served(r)
    BY <1>9 DEF CompletesServed, CompletedAreServed
  <2>. QED
    BY <2>1, <2>2, GrowingKeeps DEF SameRuns
<1>. QED
  BY <1>7, <1>8, <1>9 DEF CompletedAreServed
-----------------------------------------------------------------------------
(* The steps of a worker, by what they do to its position.                 *)

Places == QueuePlaces \cup InstallPlaces
Rests(pc) == pc \in {"idle", "down"}

\* A step moves one worker to a position that fits, and adds no run.
LEMMA MoveKeeps ==
    ASSUME QueueInv, NEW w \in Workers, NEW p \in Position,
           (p.run = NoRun) <=> Rests(p.pc), ~Rests(p.pc) => Fits(p)',
           at' = [at EXCEPT ![w] = p],
           queue' \in [RunIds -> Queued], SameRuns, CompletesServed,
           enqueued' = enqueued, mishaps' \in 0..MaxFaults
    PROVE  QueueInv'
<1>. USE DEF QueueInv
<1>1. QueueTypeOK'
  <2>1. at' \in [Workers -> Position]
    BY DEF QueueTypeOK
  <2>2. \A v \in Workers : at'[v] = IF v = w THEN p ELSE at[v]
    BY DEF QueueTypeOK
  <2>3. \A v \in Workers : (at'[v].run = NoRun) <=> (at'[v].pc \in {"idle", "down"})
    BY <2>2 DEF QueueTypeOK, Rests
  <2>. QED
    BY <2>1, <2>3 DEF QueueTypeOK
<1>2. at'[w] = p
  BY DEF QueueTypeOK
<1>3. Executing(w)' => Fits(at[w])'
  BY <1>2 DEF Executing, Rests
<1>4. \A v \in Workers : at'[v] = at[v] \/ (Executing(v)' => Fits(at[v])')
  BY <1>3 DEF QueueTypeOK
<1>5. ExecutionsFit'
  BY <1>4, ExecutionsKept DEF SameRuns
<1>6. IdsSuffice' /\ EdgesAreKeyed' /\ CompletedAreServed'
  BY SameRunsKeep
<1>. QED
  BY <1>1, <1>5, <1>6

\* A step that writes no run.
LEMMA NothingWritten ==
    ASSUME QueueTypeOK, UNCHANGED queue
    PROVE  SameRuns /\ CompletesServed /\ queue' \in [RunIds -> Queued]
BY DEF SameRuns, Grows, CompletesServed, QueueTypeOK

\* A worker that executes a run holds it.
LEMMA HoldsItsRun ==
    ASSUME QueueInv, NEW w \in Workers, ~Rests(at[w].pc)
    PROVE  at[w] \in Position /\ at[w].run \in RunIds /\ Fits(at[w])
BY DEF QueueInv, QueueTypeOK, Position, ExecutionsFit, Executing, Rests

\* A worker goes on to the next place of its execution and writes no run.
LEMMA GotoKeeps ==
    ASSUME QueueInv, NEW w \in Workers, ~Rests(at[w].pc),
           NEW pc \in Places, ~Rests(pc), Goto(w, pc),
           Fits([at[w] EXCEPT !.pc = pc]),
           UNCHANGED queue, enqueued' = enqueued, mishaps' \in 0..MaxFaults
    PROVE  QueueInv'
<1>1. at[w] \in Position /\ at[w].run \in RunIds
  BY HoldsItsRun
<1>2. [at[w] EXCEPT !.pc = pc] \in Position
  BY <1>1 DEF Position, Places
<1>3. PICK p \in Position : p = [at[w] EXCEPT !.pc = pc]
  BY <1>2
<1>4. p.run = at[w].run /\ p.pc = pc
  BY <1>1, <1>3 DEF Position
<1>5. at' = [at EXCEPT ![w] = p]
  BY <1>3 DEF Goto
<1>6. SameRuns /\ CompletesServed /\ queue' \in [RunIds -> Queued]
  BY NothingWritten DEF QueueInv
<1>7. (p.run = NoRun) <=> Rests(p.pc)
  BY <1>1, <1>4, QueueIdsAreOrdered
<1>8. Fits(p)'
  BY <1>1, <1>3, <1>4, <1>6, GrowingFits DEF SameRuns
<1>. QED
  BY <1>5, <1>6, <1>7, <1>8, MoveKeeps

\* A worker lets go of its run, or dies.
LEMMA LeavingKeeps ==
    ASSUME QueueInv, NEW w \in Workers, NEW pc \in {"idle", "down"},
           at' = [at EXCEPT ![w] = [Idle EXCEPT !.pc = pc]],
           queue' \in [RunIds -> Queued], SameRuns, CompletesServed,
           enqueued' = enqueued, mishaps' \in 0..MaxFaults
    PROVE  QueueInv'
<1>. DEFINE p == [Idle EXCEPT !.pc = pc]
<1>1. p \in Position /\ p.run = NoRun /\ p.pc = pc
  BY DEF Idle, Position, QueuePlaces
<1>2. (p.run = NoRun) <=> Rests(p.pc)
  BY <1>1 DEF Rests
<1>. HIDE DEF p
<1>. QED
  BY <1>1, <1>2, MoveKeeps DEF Rests, p

\* To the update that settles the run as FAILED one may go from everywhere.
LEMMA FailingKeeps ==
    ASSUME QueueInv, NEW w \in Workers, ~Rests(at[w].pc), Goto(w, "fail"),
           UNCHANGED queue, enqueued' = enqueued, mishaps' \in 0..MaxFaults
    PROVE  QueueInv'
<1>1. Fits([at[w] EXCEPT !.pc = "fail"])
  BY HoldsItsRun DEF Fits, Position, InstallPlaces
<1>2. "fail" \in Places /\ ~Rests("fail")
  BY DEF Places, QueuePlaces, Rests
<1>. QED
  BY <1>1, <1>2, GotoKeeps

\* A fault is counted.
LEMMA FaultIsCounted ==
    ASSUME QueueInv, Fault
    PROVE  mishaps' \in 0..MaxFaults
BY QueueBoundsAreNatural DEF QueueInv, QueueTypeOK, Fault

\* A worker goes on if it still owns its run, and else to the update as FAILED.
LEMMA AssertKeeps ==
    ASSUME QueueInv, NEW w \in Workers, ~Rests(at[w].pc),
           NEW pc \in Places, ~Rests(pc), Fits([at[w] EXCEPT !.pc = pc]),
           Goto(w, pc) \/ Goto(w, "fail"),
           UNCHANGED queue, enqueued' = enqueued, mishaps' \in 0..MaxFaults
    PROVE  QueueInv'
<1>1. CASE Goto(w, pc)
  BY <1>1, GotoKeeps
<1>2. CASE Goto(w, "fail")
  BY <1>2, FailingKeeps
<1>. QED
  BY <1>1, <1>2

\* An update that settles a run writes no other one.
LEMMA SettlingKeeps ==
    ASSUME QueueInv, NEW w \in Workers, ~Rests(at[w].pc), NEW status \in Settled,
           status = "COMPLETED" => Served(at[w].run), Settle(w, status)
    PROVE  SameRuns /\ CompletesServed /\ queue' \in [RunIds -> Queued]
<1>1. at[w].run \in RunIds /\ queue \in [RunIds -> Queued]
  BY HoldsItsRun DEF QueueInv, QueueTypeOK
<1>2. queue' \in [RunIds -> Queued]
  BY <1>1 DEF Settle, Queued, RunStatus
<1>3. \A r \in RunIds : r # at[w].run => queue'[r] = queue[r]
  BY <1>1 DEF Settle
<1>4. /\ queue'[at[w].run].kind = queue[at[w].run].kind
      /\ queue'[at[w].run].parent = queue[at[w].run].parent
      /\ queue'[at[w].run].key = queue[at[w].run].key
      /\ queue'[at[w].run].status =
             IF Owns(w, at[w].run) THEN status ELSE queue[at[w].run].status
  BY <1>1 DEF Settle, Queued
<1>5. queue[at[w].run].status # "ABSENT"
  BY HoldsItsRun DEF Fits
<1>6. SameRuns
  BY <1>1, <1>3, <1>4, <1>5 DEF SameRuns, Grows, Owns, Settled
<1>7. CompletesServed
  BY <1>1, <1>3, <1>4 DEF CompletesServed
<1>. QED
  BY <1>2, <1>6, <1>7

-----------------------------------------------------------------------------
(* The steps that only move a worker.                                      *)

LEMMA BeginKeeps ==
    ASSUME QueueInv, NEW w \in Workers, Begin(w) PROVE QueueInv'
<1>1. at[w].pc = "begin" /\ ~Rests(at[w].pc)
  BY DEF Begin, Rests
<1>2. at[w] \in Position /\ at[w].run \in RunIds /\ Fits(at[w])
  BY <1>1, HoldsItsRun
<1>3. PICK pc \in {"task", "lock", "spawn"} : pc = FirstPlace(queue[at[w].run].kind)
  BY DEF FirstPlace
<1>4. queue[at[w].run].kind \in Kind
  BY <1>2 DEF QueueInv, QueueTypeOK, Queued
<1>5. /\ pc = "task" => queue[at[w].run].kind = "task"
      /\ pc = "lock" => queue[at[w].run].kind = "install"
      /\ pc = "spawn" => Spawns(queue[at[w].run].kind)
  BY <1>3, <1>4 DEF FirstPlace, Kind, Spawns
<1>6. Fits([at[w] EXCEPT !.pc = pc])
  BY <1>2, <1>5 DEF Fits, Position, InstallPlaces
<1>7. pc \in Places /\ ~Rests(pc)
  BY DEF Places, QueuePlaces, InstallPlaces, Rests
<1>8. Goto(w, pc) \/ Goto(w, "fail")
  BY <1>3 DEF Begin, Assert
<1>9. mishaps' \in 0..MaxFaults /\ UNCHANGED <<queue, enqueued>>
  BY DEF Begin, QueueInv, QueueTypeOK
<1>. QED
  BY <1>1, <1>6, <1>7, <1>8, <1>9, AssertKeeps

LEMMA TaskStepKeeps ==
    ASSUME QueueInv, NEW w \in Workers, TaskStep(w) PROVE QueueInv'
<1>1. at[w].pc = "task" /\ ~Rests(at[w].pc)
  BY DEF TaskStep, Rests
<1>2. at[w] \in Position /\ at[w].run \in RunIds /\ Fits(at[w])
  BY <1>1, HoldsItsRun
<1>3. Served(at[w].run)
  BY <1>1, <1>2 DEF Fits, Served
<1>4. Fits([at[w] EXCEPT !.pc = "finish"])
  BY <1>2, <1>3 DEF Fits, Position, InstallPlaces
<1>5. "finish" \in Places /\ ~Rests("finish")
  BY DEF Places, QueuePlaces, Rests
<1>6. Goto(w, "finish") \/ Goto(w, "fail")
  BY DEF TaskStep, Assert
<1>7. mishaps' \in 0..MaxFaults /\ UNCHANGED <<queue, enqueued>>
  BY DEF TaskStep, QueueInv, QueueTypeOK
<1>. QED
  BY <1>1, <1>4, <1>5, <1>6, <1>7, AssertKeeps

LEMMA SpawnEventKeeps ==
    ASSUME QueueInv, NEW w \in Workers, SpawnEvent(w) PROVE QueueInv'
<1>1. at[w].pc = "spawned" /\ ~Rests(at[w].pc)
  BY DEF SpawnEvent, Rests
<1>2. at[w] \in Position /\ at[w].run \in RunIds /\ Fits(at[w])
  BY <1>1, HoldsItsRun
<1>3. Fits([at[w] EXCEPT !.pc = "spawn"])
  BY <1>1, <1>2 DEF Fits, Position, InstallPlaces
<1>4. "spawn" \in Places /\ ~Rests("spawn")
  BY DEF Places, QueuePlaces, Rests
<1>5. Goto(w, "spawn") \/ Goto(w, "fail")
  BY DEF SpawnEvent, Assert
<1>6. mishaps' \in 0..MaxFaults /\ UNCHANGED <<queue, enqueued>>
  BY DEF SpawnEvent, QueueInv, QueueTypeOK
<1>. QED
  BY <1>1, <1>3, <1>4, <1>5, <1>6, AssertKeeps

\* What the poll finds in the spawned children it finds in the children of the run.
LEMMA WaitRunsKeeps ==
    ASSUME QueueInv, NEW w \in Workers, WaitRuns(w) PROVE QueueInv'
<1>. DEFINE completed == {c \in at[w].spawned : queue[c].status = "COMPLETED"}
<1>1. at[w].pc = "wait" /\ ~Rests(at[w].pc)
  BY DEF WaitRuns, Rests
<1>2. at[w] \in Position /\ at[w].run \in RunIds /\ Fits(at[w])
  BY <1>1, HoldsItsRun
<1>3. mishaps' \in 0..MaxFaults /\ UNCHANGED <<queue, enqueued>>
  BY DEF WaitRuns, QueueInv, QueueTypeOK
<1>4. CASE Goto(w, "fail")
  BY <1>1, <1>3, <1>4, FailingKeeps
<1>5. CASE /\ Goto(w, "finish")
           /\ IF queue[at[w].run].kind = "all" THEN completed = at[w].spawned
                                               ELSE completed # {}
  <2>1. completed \subseteq Completed(at[w].run)
    BY <1>2 DEF Fits, Completed
  <2>2. queue[at[w].run].kind = "all" =>
            \A k \in Keys : \E c \in completed : queue[c].key = k
    BY <1>1, <1>2, <1>5 DEF Fits
  <2>3. Served(at[w].run)
    BY <1>5, <2>1, <2>2 DEF Served
  <2>4. Fits([at[w] EXCEPT !.pc = "finish"])
    BY <1>2, <2>3 DEF Fits, Position, InstallPlaces
  <2>5. "finish" \in Places /\ ~Rests("finish")
    BY DEF Places, QueuePlaces, Rests
  <2>. QED
    BY <1>1, <1>3, <1>5, <2>4, <2>5, GotoKeeps
<1>. QED
  BY <1>4, <1>5 DEF WaitRuns

LEMMA SpawnLookupKeeps ==
    ASSUME QueueInv, NEW w \in Workers, SpawnLookup(w) PROVE QueueInv'
<1>. DEFINE left == {k \in Keys : ~\E c \in at[w].spawned : queue[c].key = k}
            found(k) == {c \in Children(at[w].run) : queue[c].key = k}
<1>1. at[w].pc = "spawn" /\ ~Rests(at[w].pc)
  BY DEF SpawnLookup, Rests
<1>2. at[w] \in Position /\ at[w].run \in RunIds /\ Fits(at[w])
  BY <1>1, HoldsItsRun
<1>3. mishaps' \in 0..MaxFaults /\ UNCHANGED <<queue, enqueued>>
  BY DEF SpawnLookup, QueueInv, QueueTypeOK
<1>4. SameRuns /\ CompletesServed /\ queue' \in [RunIds -> Queued]
  BY <1>3, NothingWritten DEF QueueInv
<1>5. CASE left = {}
  <2>1. Fits([at[w] EXCEPT !.pc = "wait"])
    BY <1>1, <1>2, <1>5 DEF Fits, Position, InstallPlaces
  <2>2. "wait" \in Places /\ ~Rests("wait")
    BY DEF Places, QueuePlaces, Rests
  <2>3. Goto(w, "wait") \/ Goto(w, "fail")
    BY <1>5 DEF SpawnLookup, Assert
  <2>. QED
    BY <1>1, <1>3, <2>1, <2>2, <2>3, AssertKeeps
<1>6. ASSUME NEW k \in left, found(k) = {},
             at' = [at EXCEPT ![w].pc = "insert", ![w].key = k]
      PROVE  QueueInv'
  <2>1. [at[w] EXCEPT !.pc = "insert", !.key = k] \in Position
    BY <1>2 DEF Position, QueuePlaces
  <2>2. PICK p \in Position : p = [at[w] EXCEPT !.pc = "insert", !.key = k]
    BY <2>1
  <2>3. p.run = at[w].run /\ p.pc = "insert" /\ p.key = k /\ p.spawned = at[w].spawned
    BY <1>2, <2>2 DEF Position
  <2>4. Fits(p)
    BY <1>1, <1>2, <2>3 DEF Fits, InstallPlaces
  <2>5. Fits(p)'
    BY <1>2, <1>4, <2>3, <2>4, GrowingFits DEF SameRuns
  <2>6. ((p.run = NoRun) <=> Rests(p.pc)) /\ ~Rests(p.pc)
    BY <1>2, <2>3, QueueIdsAreOrdered DEF Rests
  <2>7. at' = [at EXCEPT ![w] = p]
    BY <1>6, <2>2
  <2>. QED
    BY <1>3, <1>4, <2>5, <2>6, <2>7, MoveKeeps
<1>7. ASSUME NEW k \in left,
             at' = [at EXCEPT ![w].spawned = @ \cup found(k)]
      PROVE  QueueInv'
  <2>1. found(k) \subseteq Children(at[w].run) /\ Children(at[w].run) \subseteq RunIds
    BY DEF Children
  <2>2. [at[w] EXCEPT !.spawned = @ \cup found(k)] \in Position
    BY <1>2, <2>1 DEF Position
  <2>3. PICK p \in Position : p = [at[w] EXCEPT !.spawned = @ \cup found(k)]
    BY <2>2
  <2>4. p.run = at[w].run /\ p.pc = "spawn" /\ p.spawned = at[w].spawned \cup found(k)
    BY <1>1, <1>2, <2>3 DEF Position
  <2>5. Fits(p)
    BY <1>1, <1>2, <2>1, <2>4 DEF Fits, InstallPlaces
  <2>6. Fits(p)'
    BY <1>2, <1>4, <2>4, <2>5, GrowingFits DEF SameRuns
  <2>7. ((p.run = NoRun) <=> Rests(p.pc)) /\ ~Rests(p.pc)
    BY <1>2, <2>4, QueueIdsAreOrdered DEF Rests
  <2>8. at' = [at EXCEPT ![w] = p]
    BY <1>7, <2>3
  <2>. QED
    BY <1>3, <1>4, <2>6, <2>7, <2>8, MoveKeeps
<1>. QED
  BY <1>5, <1>6, <1>7 DEF SpawnLookup

-----------------------------------------------------------------------------
(* Claims, leases and faults.                                              *)

LEMMA ClaimRunKeeps ==
    ASSUME QueueInv, NEW w \in Workers, ClaimRun(w) PROVE QueueInv' /\ Grows
<1>1. PICK r \in RunIds :
          /\ Claimable(r)
          /\ queue' = [queue EXCEPT ![r].status = "RUNNING", ![r].owner = w, ![r].lease = "live"]
          /\ at' = [at EXCEPT ![w] = [Idle EXCEPT !.pc = "begin", !.run = r, !.renewing = TRUE]]
  BY DEF ClaimRun
<1>2. queue \in [RunIds -> Queued]
  BY DEF QueueInv, QueueTypeOK
<1>3. queue' \in [RunIds -> Queued]
  <2>1. [queue[r] EXCEPT !.status = "RUNNING", !.owner = w, !.lease = "live"] \in Queued
    BY <1>2 DEF Queued, RunStatus
  <2>2. queue' = [queue EXCEPT ![r] = [queue[r] EXCEPT !.status = "RUNNING", !.owner = w,
                                                       !.lease = "live"]]
    BY <1>1, <1>2
  <2>. QED
    BY <1>2, <2>1, <2>2
<1>4. \A q \in RunIds : q # r => queue'[q] = queue[q]
  BY <1>1, <1>2
<1>5. /\ queue'[r].status = "RUNNING"
      /\ queue'[r].kind = queue[r].kind
      /\ queue'[r].parent = queue[r].parent
      /\ queue'[r].key = queue[r].key
  BY <1>1, <1>2 DEF Queued
<1>6. queue[r].status \in {"QUEUED", "RUNNING"}
  BY <1>1 DEF Claimable
<1>7. SameRuns
  BY <1>4, <1>5, <1>6 DEF SameRuns, Grows, Settled
<1>8. CompletesServed
  BY <1>4, <1>5 DEF CompletesServed
<1>9. [Idle EXCEPT !.pc = "begin", !.run = r, !.renewing = TRUE] \in Position
  BY DEF Idle, Position, QueuePlaces
<1>10. PICK p \in Position : p = [Idle EXCEPT !.pc = "begin", !.run = r, !.renewing = TRUE]
  BY <1>9
<1>11. p.run = r /\ p.pc = "begin" /\ p.spawned = {}
  BY <1>10 DEF Idle
<1>12. Fits(p)
  BY <1>6, <1>11 DEF Fits, InstallPlaces
<1>13. Fits(p)'
  BY <1>7, <1>11, <1>12, GrowingFits DEF SameRuns
<1>14. ((p.run = NoRun) <=> Rests(p.pc)) /\ ~Rests(p.pc)
  BY <1>11, QueueIdsAreOrdered DEF Rests
<1>15. mishaps' \in 0..MaxFaults /\ enqueued' = enqueued
  BY DEF ClaimRun, QueueInv, QueueTypeOK
<1>16. at' = [at EXCEPT ![w] = p]
  BY <1>1, <1>10
<1>. QED
  BY <1>3, <1>7, <1>8, <1>13, <1>14, <1>15, <1>16, MoveKeeps DEF SameRuns

\* A lease is renewed or expires.
LEMMA LeaseWritten ==
    ASSUME QueueTypeOK, NEW r \in RunIds, NEW lease \in {"live", "expired"},
           queue' = [queue EXCEPT ![r].lease = lease]
    PROVE  SameRuns /\ CompletesServed /\ queue' \in [RunIds -> Queued]
<1>1. queue \in [RunIds -> Queued]
  BY DEF QueueTypeOK
<1>2. queue' \in [RunIds -> Queued]
  BY <1>1 DEF Queued
<1>3. \A q \in RunIds : q # r => queue'[q] = queue[q]
  BY <1>1
<1>4. /\ queue'[r].status = queue[r].status
      /\ queue'[r].kind = queue[r].kind
      /\ queue'[r].parent = queue[r].parent
      /\ queue'[r].key = queue[r].key
  BY <1>1 DEF Queued
<1>. QED
  BY <1>2, <1>3, <1>4 DEF SameRuns, Grows, CompletesServed

LEMMA RenewLeaseKeeps ==
    ASSUME QueueInv, NEW w \in Workers, RenewLease(w) \/ RenewalFails(w) PROVE QueueInv' /\ Grows
<1>1. ~Rests(at[w].pc)
  BY DEF RenewLease, RenewalFails, Executing, Rests
<1>2. at[w] \in Position /\ at[w].run \in RunIds /\ Fits(at[w])
  BY <1>1, HoldsItsRun
<1>3. PICK on \in BOOLEAN : at' = [at EXCEPT ![w].renewing = on]
  BY DEF RenewLease, RenewalFails
<1>4. SameRuns /\ CompletesServed /\ queue' \in [RunIds -> Queued]
  <2>1. CASE UNCHANGED queue
    BY <2>1, NothingWritten DEF QueueInv
  <2>2. CASE queue' = [queue EXCEPT ![at[w].run].lease = "live"]
    BY <1>2, <2>2, LeaseWritten DEF QueueInv
  <2>. QED
    BY <2>1, <2>2 DEF RenewLease, RenewalFails
<1>5. [at[w] EXCEPT !.renewing = on] \in Position
  BY <1>2 DEF Position
<1>6. PICK p \in Position : p = [at[w] EXCEPT !.renewing = on]
  BY <1>5
<1>7. p.run = at[w].run /\ p.pc = at[w].pc /\ p.spawned = at[w].spawned /\ p.key = at[w].key
  BY <1>2, <1>6 DEF Position
<1>8. Fits(p)
  BY <1>2, <1>7 DEF Fits
<1>9. Fits(p)'
  BY <1>2, <1>4, <1>7, <1>8, GrowingFits DEF SameRuns
<1>10. (p.run = NoRun) <=> Rests(p.pc)
  BY <1>1, <1>2, <1>7, QueueIdsAreOrdered
<1>11. at' = [at EXCEPT ![w] = p]
  BY <1>3, <1>6
<1>12. mishaps' \in 0..MaxFaults /\ enqueued' = enqueued
  BY FaultIsCounted DEF RenewLease, RenewalFails, QueueInv, QueueTypeOK
<1>. QED
  BY <1>4, <1>9, <1>10, <1>11, <1>12, MoveKeeps DEF SameRuns

\* A step that writes runs and moves no worker.
LEMMA StayingKeeps ==
    ASSUME QueueInv, UNCHANGED at, queue' \in [RunIds -> Queued], SameRuns, CompletesServed,
           enqueued' = enqueued, mishaps' \in 0..MaxFaults
    PROVE  QueueInv'
<1>1. QueueTypeOK'
  BY DEF QueueInv, QueueTypeOK
<1>2. ExecutionsFit'
  BY ExecutionsKept DEF SameRuns, QueueInv
<1>3. IdsSuffice' /\ EdgesAreKeyed' /\ CompletedAreServed'
  BY SameRunsKeep DEF QueueInv
<1>. QED
  BY <1>1, <1>2, <1>3 DEF QueueInv

LEMMA LeaseExpiresKeeps ==
    ASSUME QueueInv, NEW r \in RunIds, LeaseExpires(r) PROVE QueueInv' /\ Grows
<1>1. SameRuns /\ CompletesServed /\ queue' \in [RunIds -> Queued]
  BY LeaseWritten DEF LeaseExpires, QueueInv
<1>2. UNCHANGED <<at, enqueued>> /\ mishaps' \in 0..MaxFaults
  BY DEF LeaseExpires, QueueInv, QueueTypeOK
<1>. QED
  BY <1>1, <1>2, StayingKeeps DEF SameRuns

LEMMA RenewalIsLateKeeps ==
    ASSUME QueueInv, NEW w \in Workers, RenewalIsLate(w) PROVE QueueInv' /\ Grows
<1>1. ~Rests(at[w].pc)
  BY DEF RenewalIsLate, Executing, Rests
<1>2. at[w].run \in RunIds
  BY <1>1, HoldsItsRun
<1>3. SameRuns /\ CompletesServed /\ queue' \in [RunIds -> Queued]
  BY <1>2, LeaseWritten DEF RenewalIsLate, QueueInv
<1>4. UNCHANGED <<at, enqueued>> /\ mishaps' \in 0..MaxFaults
  BY FaultIsCounted DEF RenewalIsLate
<1>. QED
  BY <1>3, <1>4, StayingKeeps DEF SameRuns

LEMMA QueueFaultKeeps ==
    ASSUME QueueInv, NEW w \in Workers, QueueFault(w) PROVE QueueInv' /\ Grows
<1>1. mishaps' \in 0..MaxFaults
  BY FaultIsCounted DEF QueueFault, RenewalFails, RenewalIsLate, BeginFails, FinishRaises,
                        FailRaises, Crash
<1>2. CASE BeginFails(w) \/ FailRaises(w) \/ Crash(w)
  <2>1. UNCHANGED <<queue, enqueued>>
    BY <1>2 DEF BeginFails, FailRaises, Crash
  <2>2. PICK pc \in {"idle", "down"} : at' = [at EXCEPT ![w] = [Idle EXCEPT !.pc = pc]]
    BY <1>2 DEF BeginFails, FailRaises, Crash, Leave, Idle
  <2>3. SameRuns /\ CompletesServed /\ queue' \in [RunIds -> Queued]
    BY <2>1, NothingWritten DEF QueueInv
  <2>. QED
    BY <1>1, <2>1, <2>2, <2>3, LeavingKeeps DEF SameRuns
<1>3. CASE FinishRaises(w)
  <2>1. ~Rests(at[w].pc) /\ Goto(w, "fail") /\ UNCHANGED <<queue, enqueued>>
    BY <1>3 DEF FinishRaises, Rests
  <2>. QED
    BY <1>1, <2>1, FailingKeeps, NothingWritten DEF QueueInv, SameRuns
<1>. QED
  BY <1>2, <1>3, RenewLeaseKeeps, RenewalIsLateKeeps DEF QueueFault

LEMMA FinishKeeps ==
    ASSUME QueueInv, NEW w \in Workers, Finish(w) \/ Fail(w) PROVE QueueInv' /\ Grows
<1>1. ~Rests(at[w].pc)
  BY DEF Finish, Fail, Rests
<1>2. at[w] \in Position /\ at[w].run \in RunIds /\ Fits(at[w])
  BY <1>1, HoldsItsRun
<1>3. enqueued' = enqueued /\ mishaps' \in 0..MaxFaults
  BY DEF Finish, Fail, QueueInv, QueueTypeOK
<1>4. PICK status \in Settled : /\ status = "COMPLETED" => at[w].pc = "finish"
                                /\ Settle(w, status)
  BY DEF Finish, Fail, Settled
<1>5. SameRuns /\ CompletesServed /\ queue' \in [RunIds -> Queued]
  BY <1>1, <1>2, <1>4, SettlingKeeps DEF Fits
<1>6. CASE Leave(w)
  <2>1. at' = [at EXCEPT ![w] = [Idle EXCEPT !.pc = "idle"]]
    BY <1>6 DEF Leave, Idle
  <2>. QED
    BY <1>3, <1>5, <2>1, LeavingKeeps DEF SameRuns
<1>7. CASE Goto(w, "fail")
  <2>1. Fits([at[w] EXCEPT !.pc = "fail"]) /\ [at[w] EXCEPT !.pc = "fail"] \in Position
    BY <1>2 DEF Fits, Position, InstallPlaces, QueuePlaces
  <2>2. PICK p \in Position : p = [at[w] EXCEPT !.pc = "fail"]
    BY <2>1
  <2>3. p.run = at[w].run /\ p.pc = "fail"
    BY <1>2, <2>2 DEF Position
  <2>4. Fits(p)'
    BY <1>2, <1>5, <2>1, <2>2, <2>3, GrowingFits DEF SameRuns
  <2>5. ((p.run = NoRun) <=> Rests(p.pc)) /\ ~Rests(p.pc)
    BY <1>2, <2>3, QueueIdsAreOrdered DEF Rests
  <2>6. at' = [at EXCEPT ![w] = p]
    BY <1>7, <2>2 DEF Goto
  <2>. QED
    BY <1>3, <1>5, <2>4, <2>5, <2>6, MoveKeeps DEF SameRuns
<1>. QED
  BY <1>6, <1>7 DEF Finish, Fail

-----------------------------------------------------------------------------
(* New runs and their identifiers.                                         *)

LEMMA FreeIsFinite ==
    IsFiniteSet(Free) /\ Cardinality(Free) \in Nat
BY QueueSetsAreFinite, FS_Subset, FS_CardinalityType DEF Free

\* The next identifier is free as long as one is: the free ones have a least, because
\* the sets of those up to one of them are finite.
LEMMA NextIdIsFree ==
    ASSUME Free # {}
    PROVE  NextId \in Free
<1>. DEFINE UpTo(r) == {q \in Free : q <= r}
            Sets == {UpTo(r) : r \in Free}
            R == StrictSubsetOrdering(Free)
<1>1. Free \subseteq Nat
  BY QueueIdsAreOrdered DEF Free
<1>2. IsWellFoundedOn(R, SUBSET Free)
  BY FreeIsFinite, FS_FiniteSubsetsOfFinite, FS_StrictSubsetOrderingWellFounded
<1>3. Sets \subseteq SUBSET Free /\ Sets # {}
  OBVIOUS
<1>. HIDE DEF Sets, R
<1>4. PICK X \in Sets : \A Y \in Sets : ~(<<Y, X>> \in R)
  BY <1>2, <1>3, WFMin
<1>5. PICK r \in Free : X = UpTo(r)
  BY <1>4 DEF Sets
<1>6. ASSUME NEW q \in Free, ~(r <= q) PROVE FALSE
  <2>1. UpTo(q) \in Sets
    BY DEF Sets
  <2>2. q \in Nat /\ r \in Nat /\ q < r
    BY <1>1, <1>6
  <2>3. \A x \in Free : x <= q => x <= r
    BY <1>1, <2>2
  <2>4. UpTo(q) \subseteq UpTo(r)
    BY <2>3
  <2>5. r \in UpTo(r) /\ r \notin UpTo(q)
    BY <2>2
  <2>6. UpTo(q) \in SUBSET Free /\ UpTo(r) \in SUBSET Free
    OBVIOUS
  <2>. HIDE DEF UpTo
  <2>7. <<UpTo(q), UpTo(r)>> \in R
    BY <2>4, <2>5, <2>6 DEF R, StrictSubsetOrdering
  <2>. QED
    BY <1>4, <1>5, <2>1, <2>7
<1>7. \E m \in Free : \A q \in Free : m <= q
  BY <1>6
<1>. QED
  BY <1>7, Zenon DEF NextId

\* The union of two finite sets has at most as many elements as both.
LEMMA UnionIsBounded ==
    ASSUME NEW S, NEW T, IsFiniteSet(S), IsFiniteSet(T)
    PROVE  /\ IsFiniteSet(S \cup T)
           /\ Cardinality(S \cup T) <= Cardinality(S) + Cardinality(T)
<1>1. Cardinality(S) \in Nat /\ Cardinality(T) \in Nat
  BY FS_CardinalityType
<1>2. IsFiniteSet(S \cap T)
  BY FS_Subset
<1>3. Cardinality(S \cap T) \in Nat
  BY <1>2, FS_CardinalityType
<1>4. /\ IsFiniteSet(S \cup T)
      /\ Cardinality(S \cup T) = Cardinality(S) + Cardinality(T) - Cardinality(S \cap T)
  BY FS_Union
<1>. QED
  BY <1>1, <1>3, <1>4

\* An orchestrator has as many children to spawn as there are keys.
LEMMA PairsOfOne ==
    ASSUME NEW n
    PROVE  /\ IsFiniteSet({n} \X Keys)
           /\ Cardinality({n} \X Keys) <= Cardinality(Keys)
<1>. DEFINE f == [k \in Keys |-> <<n, k>>]
<1>1. f \in Surjection(Keys, {n} \X Keys)
  <2>1. f \in [Keys -> {n} \X Keys]
    OBVIOUS
  <2>2. \A e \in {n} \X Keys : \E k \in Keys : f[k] = e
    OBVIOUS
  <2>. QED
    BY <2>1, <2>2 DEF Surjection
<1>. HIDE DEF f
<1>. QED
  BY <1>1, QueueSetsAreFinite, FS_Surjection

\* A run is added: one that a request brings, or the child of an orchestrator under a
\* key that it has no child for.
LEMMA InsertionKeeps ==
    ASSUME QueueInv, NEW n \in Free, NEW kind \in Kind,
           NEW parent \in RunIds \cup {NoRun}, NEW key \in Keys \cup {NoKey},
           queue' = [queue EXCEPT ![n] = NewQueued(kind, parent, key)],
           parent # NoRun => key \in Keys /\ ~\E c \in Children(parent) : queue[c].key = key
    PROVE  /\ queue' \in [RunIds -> Queued] /\ Grows
           /\ Free' = Free \ {n}
           /\ n \in Children(parent)'
           /\ EdgesAreKeyed' /\ CompletedAreServed'
           /\ Unspawned' \subseteq Unspawned \cup ({n} \X Keys)
           /\ ~Spawns(kind) => Unspawned' \subseteq Unspawned \ {<<parent, key>>}
<1>1. queue \in [RunIds -> Queued] /\ n \in RunIds /\ queue[n].status = "ABSENT"
  BY DEF QueueInv, QueueTypeOK, Free
<1>2. NewQueued(kind, parent, key) \in Queued
  BY DEF NewQueued, Queued, RunStatus
<1>3. queue' \in [RunIds -> Queued]
  BY <1>1, <1>2
<1>4. \A r \in RunIds : r # n => queue'[r] = queue[r]
  BY <1>1
<1>5. /\ queue'[n].status = "QUEUED" /\ queue'[n].kind = kind
      /\ queue'[n].parent = parent /\ queue'[n].key = key
  BY <1>1 DEF NewQueued
<1>6. Grows
  BY <1>1, <1>4 DEF Grows
<1>7. Free' = Free \ {n}
  BY <1>1, <1>4, <1>5 DEF Free
<1>8. \A r : Children(r)' = Children(r) \cup (IF r = parent THEN {n} ELSE {})
  BY <1>1, <1>4, <1>5 DEF Children
<1>9. \A r : \A c \in Children(r) : c # n /\ queue'[c].key = queue[c].key
  BY <1>1, <1>4 DEF Children
<1>10. EdgesAreKeyed'
  <2>1. ASSUME NEW r \in RunIds, NEW c \in Children(r)' PROVE queue'[c].key \in Keys
    BY <1>5, <1>8, <1>9, QueueIdsAreOrdered DEF QueueInv, EdgesAreKeyed
  <2>2. ASSUME NEW r \in RunIds, NEW c \in Children(r)', NEW d \in Children(r)',
               queue'[c].key = queue'[d].key
        PROVE  c = d
    BY <2>2, <1>5, <1>8, <1>9, QueueIdsAreOrdered DEF QueueInv, EdgesAreKeyed
  <2>. QED
    BY <2>1, <2>2 DEF EdgesAreKeyed
<1>11. CompletedAreServed'
  <2>1. ASSUME NEW r \in RunIds, queue'[r].status = "COMPLETED" PROVE Served(r)'
    <3>1. queue[r].status = "COMPLETED"
      BY <2>1, <1>4, <1>5
    <3>2. Served(r)
      BY <3>1 DEF QueueInv, CompletedAreServed
    <3>. QED
      BY <3>1, <3>2, <1>6, GrowingKeeps
  <2>. QED
    BY <2>1 DEF CompletedAreServed
<1>12. ASSUME NEW e \in Unspawned', e[1] # n PROVE e \in Unspawned /\ e # <<parent, key>>
  <2>1. e \in RunIds \X Keys /\ queue[e[1]] = queue'[e[1]]
    BY <1>12, <1>4 DEF Unspawned
  <2>2. \A c \in Children(e[1]) : queue[c].key # e[2]
    BY <1>8, <1>9 DEF Unspawned
  <2>3. queue[e[1]].status # "ABSENT" /\ Spawns(queue[e[1]].kind)
    BY <2>1 DEF Unspawned
  <2>4. ~(e[1] = parent /\ e[2] = key)
    BY <1>5, <1>8 DEF Unspawned
  <2>. QED
    BY <2>1, <2>2, <2>3, <2>4 DEF Unspawned
<1>13. ASSUME NEW e \in Unspawned', e[1] = n PROVE e \in {n} \X Keys /\ Spawns(kind)
  BY <1>13, <1>5 DEF Unspawned
<1>14. n \in Children(parent)'
  BY <1>8
<1>15. Unspawned' \subseteq Unspawned \cup ({n} \X Keys)
  BY <1>12, <1>13
<1>16. ~Spawns(kind) => Unspawned' \subseteq Unspawned \ {<<parent, key>>}
  BY <1>12, <1>13
<1>. QED
  BY <1>3, <1>6, <1>7, <1>10, <1>11, <1>14, <1>15, <1>16

\* A child takes the identifier that was kept for it.
LEMMA ChildTakesItsId ==
    ASSUME QueueInv, NEW e \in Unspawned, NEW n \in Free,
           Free' = Free \ {n}, Unspawned' \subseteq Unspawned \ {e}
    PROVE  IdsSuffice'
<1>1. IsFiniteSet(Unspawned) /\ Cardinality(Unspawned) <= Cardinality(Free)
  BY DEF QueueInv, IdsSuffice
<1>2. /\ IsFiniteSet(Unspawned \ {e})
      /\ Cardinality(Unspawned \ {e}) = Cardinality(Unspawned) - 1
  BY <1>1, FS_RemoveElement
<1>3. IsFiniteSet(Unspawned') /\ Cardinality(Unspawned') <= Cardinality(Unspawned \ {e})
  BY <1>2, FS_Subset
<1>4. Cardinality(Free \ {n}) = Cardinality(Free) - 1
  BY FreeIsFinite, FS_RemoveElement
<1>5. /\ Cardinality(Unspawned) \in Nat /\ Cardinality(Unspawned \ {e}) \in Nat
      /\ Cardinality(Unspawned') \in Nat /\ Cardinality(Free) \in Nat
  BY <1>1, <1>2, <1>3, FreeIsFinite, FS_CardinalityType
<1>6. Cardinality(Free') = Cardinality(Free) - 1
  BY <1>4
<1>. QED
  BY <1>1, <1>2, <1>3, <1>5, <1>6 DEF IdsSuffice

\* A request is admitted only if an identifier stays for each child that is to come.
LEMMA RequestLeavesIds ==
    ASSUME QueueInv, NEW kind \in Kind, NEW n \in Free,
           Cardinality(Free) > Reserved + (IF Spawns(kind) THEN Cardinality(Keys) ELSE 0),
           Free' = Free \ {n}, Unspawned' \subseteq Unspawned \cup ({n} \X Keys),
           ~Spawns(kind) => Unspawned' \subseteq Unspawned
    PROVE  IdsSuffice'
<1>1. IsFiniteSet(Unspawned) /\ Cardinality(Unspawned) \in Nat
  BY FS_CardinalityType DEF QueueInv, IdsSuffice
<1>2. Cardinality(Free') = Cardinality(Free) - 1 /\ Cardinality(Free) \in Nat
  BY FreeIsFinite, FS_RemoveElement
<1>3. Cardinality(Keys) \in Nat
  BY QueueSetsAreFinite, FS_CardinalityType
<1>4. CASE Spawns(kind)
  <2>1. IsFiniteSet({n} \X Keys) /\ Cardinality({n} \X Keys) <= Cardinality(Keys)
    BY PairsOfOne
  <2>2. PICK U : U = Unspawned \cup ({n} \X Keys)
    OBVIOUS
  <2>3. /\ IsFiniteSet(U)
        /\ Cardinality(U) <= Cardinality(Unspawned) + Cardinality({n} \X Keys)
    BY <1>1, <2>1, <2>2, UnionIsBounded
  <2>4. IsFiniteSet(Unspawned') /\ Cardinality(Unspawned') <= Cardinality(U)
    BY <2>2, <2>3, FS_Subset
  <2>5. /\ Cardinality(Unspawned') \in Nat /\ Cardinality(U) \in Nat
        /\ Cardinality({n} \X Keys) \in Nat
    BY <2>1, <2>3, <2>4, FS_CardinalityType
  <2>. QED
    BY <1>1, <1>2, <1>3, <1>4, <2>1, <2>3, <2>4, <2>5 DEF IdsSuffice, Reserved
<1>5. CASE ~Spawns(kind)
  <2>1. IsFiniteSet(Unspawned') /\ Cardinality(Unspawned') <= Cardinality(Unspawned)
    BY <1>1, <1>5, FS_Subset
  <2>2. Cardinality(Unspawned') \in Nat
    BY <2>1, FS_CardinalityType
  <2>. QED
    BY <1>1, <1>2, <1>5, <2>1, <2>2 DEF IdsSuffice, Reserved
<1>. QED
  BY <1>4, <1>5

LEMMA EnqueueKeeps ==
    ASSUME QueueInv, NEW kind \in Kinds, Enqueue(kind)
    PROVE  QueueInv' /\ Grows
<1>1. Cardinality(Free) > 0
  <2>1. Reserved \in Nat /\ Cardinality(Keys) \in Nat /\ Cardinality(Free) \in Nat
    BY QueueSetsAreFinite, FreeIsFinite, FS_CardinalityType
       DEF QueueInv, IdsSuffice, Reserved
  <2>. QED
    BY <2>1 DEF Enqueue
<1>2. Free # {}
  BY <1>1, FS_EmptySet
<1>3. PICK n \in Free : n = NextId
  BY <1>2, NextIdIsFree
<1>4. queue' = [queue EXCEPT ![n] = NewQueued(kind, NoRun, NoKey)]
  BY <1>3 DEF Enqueue
<1>5. kind \in Kind
  BY KindsAreKnown
<1>6. /\ queue' \in [RunIds -> Queued] /\ Grows
      /\ Free' = Free \ {n}
      /\ EdgesAreKeyed' /\ CompletedAreServed'
      /\ Unspawned' \subseteq Unspawned \cup ({n} \X Keys)
      /\ ~Spawns(kind) => Unspawned' \subseteq Unspawned \ {<<NoRun, NoKey>>}
  BY <1>4, <1>5, InsertionKeeps
<1>7. IdsSuffice'
  BY <1>5, <1>6, RequestLeavesIds DEF Enqueue
<1>8. UNCHANGED <<at, mishaps>> /\ enqueued' \in 0..MaxEnqueued
  BY QueueBoundsAreNatural DEF Enqueue, QueueInv, QueueTypeOK
<1>9. QueueTypeOK'
  BY <1>6, <1>8 DEF QueueInv, QueueTypeOK
<1>10. ExecutionsFit'
  BY <1>6, <1>8, ExecutionsKept DEF QueueInv
<1>. QED
  BY <1>6, <1>7, <1>9, <1>10 DEF QueueInv

LEMMA SpawnInsertKeeps ==
    ASSUME QueueInv, NEW w \in Workers, SpawnInsert(w)
    PROVE  QueueInv' /\ Grows
<1>. DEFINE r == at[w].run
            k == at[w].key
            found == {c \in Children(r) : queue[c].key = k}
            back == [at[w] EXCEPT !.key = NoKey]
<1>1. at[w].pc = "insert" /\ ~Rests(at[w].pc)
  BY DEF SpawnInsert, Rests
<1>2. at[w] \in Position /\ at[w].run \in RunIds /\ Fits(at[w])
  BY <1>1, HoldsItsRun
<1>3. k \in Keys /\ queue[r].status # "ABSENT" /\ Spawns(queue[r].kind)
  BY <1>1, <1>2 DEF Fits
<1>4. UNCHANGED <<enqueued, mishaps>> /\ mishaps' \in 0..MaxFaults
  BY DEF SpawnInsert, QueueInv, QueueTypeOK
<1>5. CASE found = {}
  <2>1. <<r, k>> \in Unspawned
    BY <1>2, <1>3, <1>5 DEF Unspawned
  <2>2. Free # {}
    BY <2>1, FreeIsFinite, FS_EmptySet, FS_CardinalityType DEF QueueInv, IdsSuffice
  <2>3. PICK n \in Free : n = NextId
    BY <2>2, NextIdIsFree
  <2>4. n \in RunIds
    BY DEF Free
  <2>5. PICK parent \in RunIds, key \in Keys : parent = r /\ key = k
    BY <1>2, <1>3
  <2>6. queue' = [queue EXCEPT ![n] = NewQueued("task", parent, key)]
    BY <1>5, <2>3, <2>5 DEF SpawnInsert
  <2>7. ~\E c \in Children(parent) : queue[c].key = key
    BY <1>5, <2>5
  <2>8. "task" \in Kind /\ ~Spawns("task")
    BY DEF Kind, Spawns
  <2>9. /\ queue' \in [RunIds -> Queued] /\ Grows
        /\ Free' = Free \ {n}
        /\ n \in Children(parent)'
        /\ EdgesAreKeyed' /\ CompletedAreServed'
        /\ Unspawned' \subseteq Unspawned \ {<<parent, key>>}
    BY <2>6, <2>7, <2>8, InsertionKeeps
  <2>10. IdsSuffice'
    BY <2>1, <2>5, <2>9, ChildTakesItsId
  <2>11. [back EXCEPT !.pc = "spawned", !.spawned = @ \cup {n}] \in Position
    BY <1>2, <2>4 DEF Position, QueuePlaces
  <2>12. PICK p \in Position : p = [back EXCEPT !.pc = "spawned", !.spawned = @ \cup {n}]
    BY <2>11
  <2>13. p.run = r /\ p.pc = "spawned" /\ p.spawned = at[w].spawned \cup {n}
    BY <1>2, <2>12 DEF Position
  <2>14. at' = [at EXCEPT ![w] = p]
    BY <1>5, <2>3, <2>12 DEF SpawnInsert
  <2>15. /\ queue'[r].status # "ABSENT" /\ Spawns(queue'[r].kind)
         /\ at[w].spawned \subseteq Children(parent)'
    BY <1>2, <1>3, <2>5, <2>9, GrowingKeeps DEF Grows, Fits
  <2>16. Fits(p)'
    BY <2>5, <2>9, <2>13, <2>15 DEF Fits, InstallPlaces
  <2>17. \A v \in Workers : at'[v] = IF v = w THEN p ELSE at[v]
    BY <2>14 DEF QueueInv, QueueTypeOK
  <2>18. at' \in [Workers -> Position]
    BY <2>14 DEF QueueInv, QueueTypeOK
  <2>19. \A v \in Workers : (at'[v].run = NoRun) <=> (at'[v].pc \in {"idle", "down"})
    BY <1>2, <2>13, <2>17, QueueIdsAreOrdered DEF QueueInv, QueueTypeOK
  <2>20. QueueTypeOK'
    BY <1>4, <2>9, <2>18, <2>19 DEF QueueInv, QueueTypeOK
  <2>21. at'[w] = p
    BY <2>17
  <2>22. \A v \in Workers : at'[v] = at[v] \/ (Executing(v)' => Fits(at[v])')
    BY <2>16, <2>17, <2>21
  <2>23. ExecutionsFit'
    BY <2>9, <2>22, ExecutionsKept DEF QueueInv
  <2>. QED
    BY <2>9, <2>10, <2>20, <2>23 DEF QueueInv
<1>6. CASE found # {}
  <2>1. found \subseteq RunIds
    BY DEF Children
  <2>2. [back EXCEPT !.pc = "spawn", !.spawned = @ \cup found] \in Position
    BY <1>2, <2>1 DEF Position, QueuePlaces
  <2>3. PICK p \in Position : p = [back EXCEPT !.pc = "spawn", !.spawned = @ \cup found]
    BY <2>2
  <2>4. p.run = r /\ p.pc = "spawn" /\ p.spawned = at[w].spawned \cup found
    BY <1>2, <2>3 DEF Position
  <2>5. Fits(p)
    BY <1>1, <1>2, <2>4 DEF Fits, InstallPlaces
  <2>6. UNCHANGED queue /\ at' = [at EXCEPT ![w] = p]
    BY <1>6, <2>3 DEF SpawnInsert
  <2>7. SameRuns /\ CompletesServed /\ queue' \in [RunIds -> Queued]
    BY <2>6, NothingWritten DEF QueueInv
  <2>8. Fits(p)'
    BY <1>2, <2>4, <2>5, <2>7, GrowingFits DEF SameRuns
  <2>9. ((p.run = NoRun) <=> Rests(p.pc)) /\ ~Rests(p.pc)
    BY <1>2, <2>4, QueueIdsAreOrdered DEF Rests
  <2>. QED
    BY <1>4, <2>6, <2>7, <2>8, <2>9, MoveKeeps DEF SameRuns
<1>. QED
  BY <1>5, <1>6

\* Every step of the queue keeps its invariant, and the table only grows.
LEMMA QueueStepKeeps ==
    ASSUME QueueInv, NEW w \in Workers, WorkerStep(w) \/ RenewLease(w) \/ QueueFault(w)
    PROVE  QueueInv' /\ Grows
<1>1. CASE Begin(w) \/ TaskStep(w) \/ SpawnLookup(w) \/ SpawnEvent(w) \/ WaitRuns(w)
  <2>1. UNCHANGED queue
    BY <1>1 DEF Begin, TaskStep, SpawnLookup, SpawnEvent, WaitRuns
  <2>2. Grows
    BY <2>1, NothingWritten DEF QueueInv, SameRuns
  <2>. QED
    BY <1>1, <2>2, BeginKeeps, TaskStepKeeps, SpawnLookupKeeps, SpawnEventKeeps, WaitRunsKeeps
<1>. QED
  BY <1>1, ClaimRunKeeps, SpawnInsertKeeps, FinishKeeps, RenewLeaseKeeps, QueueFaultKeeps
     DEF WorkerStep

-----------------------------------------------------------------------------
(* The steps of an installation.                                           *)

\* An installation goes on, fails or finishes, and writes no run.
LEMMA InstallMoveKeeps ==
    ASSUME QueueInv, NEW w \in Workers, at[w].pc \in InstallPlaces,
           NEW pc \in InstallPlaces \cup {"finish", "fail"}, Goto(w, pc),
           UNCHANGED <<queue, enqueued>>, mishaps' \in 0..MaxFaults
    PROVE  /\ QueueInv' /\ Grows
           /\ \A v \in Workers : at'[v].pc = IF v = w THEN pc ELSE at[v].pc
<1>1. ~Rests(at[w].pc) /\ pc \in Places /\ ~Rests(pc)
  BY DEF Rests, Places, QueuePlaces, InstallPlaces
<1>2. at[w] \in Position /\ at[w].run \in RunIds /\ Fits(at[w])
  BY <1>1, HoldsItsRun
<1>3. queue[at[w].run].kind = "install"
  BY <1>2 DEF Fits
<1>4. Served(at[w].run)
  BY <1>3 DEF Served
<1>5. Fits([at[w] EXCEPT !.pc = pc])
  BY <1>2, <1>3, <1>4 DEF Fits, Position, InstallPlaces
<1>6. QueueInv'
  BY <1>1, <1>5, GotoKeeps
<1>7. Grows
  BY NothingWritten DEF QueueInv, SameRuns
<1>8. \A v \in Workers : at'[v].pc = IF v = w THEN pc ELSE at[v].pc
  BY <1>2 DEF Goto, QueueInv, QueueTypeOK, Position
<1>. QED
  BY <1>6, <1>7, <1>8

\* What the three variables of the installation may become.
InstallTypes == /\ install \in Installation
                /\ schema \in Built
                /\ lock \in Workers \cup {NoWorker}

LEMMA InstallStepKeeps ==
    ASSUME PackInv, NEW w \in Workers, InstallStep(w) \/ SystemFails(w)
    PROVE  PackInv' /\ Grows
<1>. USE DEF PackInv
<1>1. InstallTypes
  BY DEF PackTypeOK, InstallTypes
<1>2. CASE BuildSchema(w)
  <2>1. UNCHANGED <<queue, at, enqueued, mishaps, install, lock>>
    BY <1>2 DEF BuildSchema, queueVars
  <2>2. QueueInv'
    BY <2>1, NothingWritten, StayingKeeps DEF QueueInv, QueueTypeOK
  <2>3. Grows
    BY <2>1, NothingWritten DEF QueueInv, SameRuns
  <2>4. InstallTypes'
    BY <1>1, <1>2, <2>1 DEF InstallTypes, BuildSchema, Built
  <2>5. TablesStand'
    BY <1>2, <2>1 DEF TablesStand, BuildSchema
  <2>. QED
    BY <2>2, <2>3, <2>4, <2>5 DEF PackTypeOK, InstallTypes, QueueInv
<1>3. CASE ConnectionsClose(w)
  <2>1. UNCHANGED <<queue, at, enqueued, mishaps, install, schema>>
    BY <1>3 DEF ConnectionsClose, queueVars
  <2>2. QueueInv'
    BY <2>1, NothingWritten, StayingKeeps DEF QueueInv, QueueTypeOK
  <2>3. Grows
    BY <2>1, NothingWritten DEF QueueInv, SameRuns
  <2>4. InstallTypes'
    BY <1>1, <1>3, <2>1 DEF InstallTypes, ConnectionsClose
  <2>5. TablesStand'
    BY <2>1 DEF TablesStand
  <2>. QED
    BY <2>2, <2>3, <2>4, <2>5 DEF PackTypeOK, InstallTypes, QueueInv
<1>4. CASE \/ TryLock(w) \/ ClaimInstall(w) \/ InstallClaimed(w) \/ SystemInstalled(w)
           \/ MigrationsApplied(w) \/ FinalizeInstall(w) \/ InstallStamped(w) \/ SystemFails(w)
  <2>1. mishaps' \in 0..MaxFaults
    BY <1>4, FaultIsCounted DEF TryLock, ClaimInstall, InstallClaimed, SystemInstalled,
       MigrationsApplied, FinalizeInstall, InstallStamped, SystemFails, QueueInv, QueueTypeOK
  <2>2. UNCHANGED <<queue, enqueued, schema>> /\ at[w].pc \in InstallPlaces
    BY <1>4 DEF TryLock, ClaimInstall, InstallClaimed, SystemInstalled, MigrationsApplied,
       FinalizeInstall, InstallStamped, SystemFails, InstallPlaces
  <2>3. PICK pc \in InstallPlaces \cup {"finish", "fail"} :
            /\ Goto(w, pc)
            /\ pc \in {"migrate", "stamp"} => schema = "tables"
            /\ install' # install =>
                  /\ install' \in Installation
                  /\ install'.status = "INSTALLED" => at[w].pc = "stamp"
            /\ lock' \in {lock, w, NoWorker}
    <3>1. CASE TryLock(w)
      BY <3>1 DEF TryLock, InstallPlaces
    <3>2. CASE ClaimInstall(w)
      <4>1. at[w].run \in RunIds
        BY <2>2, HoldsItsRun DEF Rests, InstallPlaces
      <4>. QED
        BY <3>2, <4>1 DEF ClaimInstall, Unlock, InstallPlaces, Installation
    <3>3. CASE \/ InstallClaimed(w) \/ SystemInstalled(w) \/ MigrationsApplied(w)
               \/ InstallStamped(w) \/ SystemFails(w)
      BY <3>3 DEF InstallClaimed, SystemInstalled, MigrationsApplied, InstallStamped,
         SystemFails, EndStep, Unlock, InstallPlaces, TablesStand
    <3>4. CASE FinalizeInstall(w)
      BY <1>1, <3>4 DEF FinalizeInstall, Unlock, InstallPlaces, InstallTypes, Installation
    <3>. QED
      BY <1>4, <3>1, <3>2, <3>3, <3>4
  <2>4. /\ QueueInv' /\ Grows
        /\ \A v \in Workers : at'[v].pc = IF v = w THEN pc ELSE at[v].pc
    BY <2>1, <2>2, <2>3, InstallMoveKeeps
  <2>5. InstallTypes'
    BY <1>1, <2>2, <2>3 DEF InstallTypes
  <2>6. TablesStand'
    BY <2>2, <2>3, <2>4 DEF TablesStand
  <2>. QED
    BY <2>4, <2>5, <2>6 DEF PackTypeOK, InstallTypes, QueueInv
<1>. QED
  BY <1>2, <1>3, <1>4 DEF InstallStep

-----------------------------------------------------------------------------
(* The theorems.                                                           *)

LEMMA PackInitInv ==
    PackInit => PackInv
<1>. SUFFICES ASSUME PackInit PROVE PackInv
  OBVIOUS
<1>1. /\ \A r \in RunIds : queue[r].status = "ABSENT"
      /\ queue \in [RunIds -> Queued]
  BY DEF PackInit, QueueInit, NewQueued, Queued, RunStatus, Kind
<1>2. /\ at \in [Workers -> Position]
      /\ \A w \in Workers : at[w].pc = "idle" /\ at[w].run = NoRun
  BY DEF PackInit, QueueInit, Idle, Position, QueuePlaces
<1>3. QueueTypeOK
  BY <1>1, <1>2, QueueBoundsAreNatural DEF PackInit, QueueInit, QueueTypeOK
<1>4. \A r : Children(r) = {}
  BY <1>1 DEF Children
<1>5. Unspawned = {}
  BY <1>1 DEF Unspawned
<1>6. IdsSuffice
  BY <1>5, FS_EmptySet, FreeIsFinite DEF IdsSuffice
<1>7. EdgesAreKeyed /\ CompletedAreServed
  BY <1>1, <1>4 DEF EdgesAreKeyed, CompletedAreServed
<1>8. ExecutionsFit
  BY <1>2 DEF ExecutionsFit, Executing, TablesStand
<1>9. install.status = "ABSENT"
  BY DEF PackInit
<1>10. TablesStand
  BY <1>2, <1>9 DEF TablesStand
<1>11. PackTypeOK
  BY <1>3 DEF PackTypeOK, PackInit, Installation, Built
<1>. QED
  BY <1>3, <1>6, <1>7, <1>8, <1>10, <1>11 DEF PackInv, QueueInv

LEMMA PackNextInv ==
    PackInv /\ [PackNext]_packVars => PackInv' /\ Grows
<1>. SUFFICES ASSUME PackInv, [PackNext]_packVars PROVE PackInv' /\ Grows
  OBVIOUS
<1>. USE DEF PackInv
<1>1. ASSUME QueueInv', Grows, UNCHANGED installVars,
             \A w \in Workers : at'[w].pc \in {"migrate", "stamp"} => at[w].pc = at'[w].pc
      PROVE  PackInv' /\ Grows
  <2>1. UNCHANGED <<install, schema, lock>>
    BY <1>1 DEF installVars
  <2>2. PackTypeOK'
    BY <1>1, <2>1 DEF PackTypeOK, QueueInv
  <2>3. TablesStand'
    BY <1>1, <2>1 DEF TablesStand
  <2>. QED
    BY <1>1, <2>2, <2>3
<1>2. ASSUME NEW kind \in Kinds, Enqueue(kind), UNCHANGED installVars
      PROVE  PackInv' /\ Grows
  <2>1. UNCHANGED at
    BY <1>2 DEF Enqueue
  <2>. QED
    BY <1>1, <1>2, <2>1, EnqueueKeeps
<1>3. ASSUME NEW r \in RunIds, LeaseExpires(r), UNCHANGED installVars
      PROVE  PackInv' /\ Grows
  <2>1. UNCHANGED at
    BY <1>3 DEF LeaseExpires
  <2>. QED
    BY <1>1, <1>3, <2>1, LeaseExpiresKeeps
<1>4. ASSUME NEW w \in Workers, WorkerStep(w) \/ RenewLease(w) \/ QueueFault(w),
             UNCHANGED installVars
      PROVE  PackInv' /\ Grows
  <2>1. QueueInv' /\ Grows
    BY <1>4, QueueStepKeeps
  <2>2. \A v \in Workers : at'[v].pc \in {"migrate", "stamp"} => at[v].pc = at'[v].pc
    <3>1. at \in [Workers -> Position]
      BY DEF QueueInv, QueueTypeOK
    <3>2. CASE WorkerStep(w)
      <4>1. CASE ClaimRun(w)
        BY <3>1, <4>1 DEF ClaimRun, Idle
      <4>2. CASE Begin(w)
        BY <3>1, <4>2 DEF Begin, Assert, Goto, Position, FirstPlace
      <4>3. CASE TaskStep(w) \/ SpawnEvent(w)
        BY <3>1, <4>3 DEF TaskStep, SpawnEvent, Assert, Goto, Position
      <4>4. CASE SpawnLookup(w)
        BY <3>1, <4>4 DEF SpawnLookup, Assert, Goto, Position
      <4>5. CASE SpawnInsert(w)
        BY <3>1, <4>5 DEF SpawnInsert, Position
      <4>6. CASE WaitRuns(w)
        BY <3>1, <4>6 DEF WaitRuns, Goto, Position
      <4>7. CASE Finish(w) \/ Fail(w)
        BY <3>1, <4>7 DEF Finish, Fail, Goto, Leave, Idle, Position
      <4>. QED
        BY <3>2, <4>1, <4>2, <4>3, <4>4, <4>5, <4>6, <4>7 DEF WorkerStep
    <3>3. CASE RenewLease(w) \/ QueueFault(w)
      BY <3>1, <3>3 DEF RenewLease, QueueFault, RenewalFails, RenewalIsLate, BeginFails,
         FinishRaises, FailRaises, Crash, Goto, Leave, Idle, Position
    <3>. QED
      BY <1>4, <3>2, <3>3
  <2>. QED
    BY <1>1, <1>4, <2>1, <2>2
<1>5. CASE UNCHANGED packVars
  <2>1. UNCHANGED <<queue, at, enqueued, mishaps, install, schema, lock>>
    BY <1>5 DEF packVars, queueVars, installVars
  <2>2. SameRuns /\ CompletesServed /\ queue' \in [RunIds -> Queued]
    BY <2>1, NothingWritten DEF QueueInv
  <2>3. mishaps' \in 0..MaxFaults
    BY <2>1 DEF QueueInv, QueueTypeOK
  <2>4. QueueInv' /\ Grows
    BY <2>1, <2>2, <2>3, StayingKeeps DEF SameRuns
  <2>. QED
    BY <1>1, <2>1, <2>4 DEF installVars
<1>6. CASE PackNext
  BY <1>2, <1>3, <1>4, <1>6, InstallStepKeeps
     DEF PackNext, RequestInstall, RequestRun, Progress
<1>. QED
  BY <1>5, <1>6

\* The invariant holds in every behaviour of the queue with the installation
\* (core/worker.py, core/blueprints/runner.py, core/blueprints/pack_install.py).
THEOREM PackInvariant == PackSpec => []PackInv
<1>1. PackInit => PackInv
  BY PackInitInv
<1>2. PackInv /\ [PackNext]_packVars => PackInv'
  BY PackNextInv
<1>. QED
  BY <1>1, <1>2, PTL DEF PackSpec

\* The tables keep the types of their columns, and every worker is where the code of
\* worker.py, runner.py and pack_install.py can be.
THEOREM PackTypesAreKept == PackSpec => []PackTypeOK
<1>1. PackInv => PackTypeOK
  BY DEF PackInv
<1>. QED
  BY <1>1, PackInvariant, PTL

\* A pack whose row says INSTALLED has its schema and its tables, however many workers
\* executed the installation, and wherever they died (core/blueprints/pack_install.py).
THEOREM InstalledPacksAreWhole == PackSpec => []InstalledIsWhole
<1>1. PackInv => InstalledIsWhole
  BY DEF PackInv, TablesStand, InstalledIsWhole
<1>. QED
  BY <1>1, PackInvariant, PTL

\* An orchestrator has one child for each child_key, and is COMPLETED only with the
\* children that its policy asks for (RunContext.spawn_run and wait_runs).
THEOREM OrchestratorsAreServed == PackSpec => []ChildrenServeTheirParent
<1>1. ASSUME PackInv PROVE ChildrenServeTheirParent
  <2>. USE DEF PackInv, QueueInv
  <2>1. ASSUME NEW r \in RunIds, queue[r].status = "COMPLETED"
        PROVE  LET served == {queue[c].key :
                                c \in {d \in Children(r) : queue[d].status = "COMPLETED"}}
               IN  /\ queue[r].kind = "all" => served = Keys
                   /\ queue[r].kind = "any" => served # {}
    <3>1. Served(r)
      BY <1>1, <2>1 DEF CompletedAreServed
    <3>2. \A c \in Completed(r) : queue[c].key \in Keys
      BY <1>1 DEF Completed, EdgesAreKeyed
    <3>3. Completed(r) = {d \in Children(r) : queue[d].status = "COMPLETED"}
      BY DEF Completed
    <3>4. PICK served : served = {queue[c].key : c \in Completed(r)}
      OBVIOUS
    <3>5. served \subseteq Keys
      BY <3>2, <3>4
    <3>6. ASSUME queue[r].kind = "all" PROVE Keys \subseteq served
      BY <3>1, <3>4, <3>6 DEF Served
    <3>7. ASSUME queue[r].kind = "any" PROVE served # {}
      BY <3>1, <3>4, <3>7 DEF Served
    <3>8. queue[r].kind = "all" => served = Keys
      BY <3>5, <3>6
    <3>. QED
      BY <3>3, <3>4, <3>7, <3>8, Zenon
  <2>2. \A r \in RunIds : \A c, d \in Children(r) : queue[c].key = queue[d].key => c = d
    BY <1>1 DEF EdgesAreKeyed
  <2>. QED
    BY <2>1, <2>2 DEF ChildrenServeTheirParent
<1>. QED
  BY <1>1, PackInvariant, PTL

-----------------------------------------------------------------------------
(* Who settles.                                                            *)

\* A step moves the worker that takes it and no other.
LEMMA OthersStay ==
    ASSUME PackInv, NEW w \in Workers, NEW v \in Workers, v # w,
           Progress(w) \/ RenewLease(w) \/ QueueFault(w) \/ SystemFails(w)
    PROVE  at'[v] = at[v]
<1>1. at \in [Workers -> Position]
  BY DEF PackInv, QueueInv, QueueTypeOK
<1>2. CASE WorkerStep(w)
  BY <1>1, <1>2 DEF WorkerStep, ClaimRun, Begin, TaskStep, SpawnLookup, SpawnInsert,
     SpawnEvent, WaitRuns, Finish, Fail, Assert, Goto, Leave
<1>3. CASE RenewLease(w) \/ QueueFault(w)
  BY <1>1, <1>3 DEF RenewLease, QueueFault, RenewalFails, RenewalIsLate, BeginFails,
     FinishRaises, FailRaises, Crash, Goto, Leave
<1>4. CASE InstallStep(w) \/ SystemFails(w)
  BY <1>1, <1>4 DEF InstallStep, SystemFails, TryLock, ClaimInstall, InstallClaimed,
     BuildSchema, SystemInstalled, MigrationsApplied, FinalizeInstall, InstallStamped,
     ConnectionsClose, EndStep, Goto, queueVars
<1>. QED
  BY <1>2, <1>3, <1>4 DEF Progress

\* A worker whose run is another's by now leaves the status as it is.
LEMMA NoStrangerSettles ==
    ASSUME PackInv, NEW w \in Workers, at[w].pc \in {"finish", "fail"},
           queue[at[w].run].owner # w,
           Progress(w) \/ RenewLease(w) \/ QueueFault(w) \/ SystemFails(w)
    PROVE  queue'[at[w].run].status = queue[at[w].run].status
<1>1. queue \in [RunIds -> Queued]
  BY DEF PackInv, QueueInv, QueueTypeOK
<1>2. at[w].run \in RunIds
  BY HoldsItsRun DEF PackInv, Rests
<1>3. ~Owns(w, at[w].run)
  BY DEF Owns
<1>4. CASE WorkerStep(w)
  <2>1. Finish(w) \/ Fail(w)
    BY <1>4 DEF WorkerStep, ClaimRun, Begin, TaskStep, SpawnLookup, SpawnInsert,
       SpawnEvent, WaitRuns
  <2>. QED
    BY <1>1, <1>2, <1>3, <2>1 DEF Finish, Fail, Settle, Queued
<1>5. CASE RenewLease(w)
  BY <1>1, <1>2, <1>5 DEF RenewLease, Queued
<1>6. CASE QueueFault(w)
  BY <1>1, <1>2, <1>6 DEF QueueFault, RenewalFails, RenewalIsLate, BeginFails,
     FinishRaises, FailRaises, Crash, Queued
<1>7. CASE InstallStep(w) \/ SystemFails(w)
  BY <1>7 DEF InstallStep, SystemFails, TryLock, ClaimInstall, InstallClaimed,
     BuildSchema, SystemInstalled, MigrationsApplied, FinalizeInstall, InstallStamped,
     ConnectionsClose, queueVars
<1>. QED
  BY <1>4, <1>5, <1>6, <1>7 DEF Progress

\* A run is settled once, and only by the worker that holds its row: one that lost its
\* lease to another never overwrites what the other made of the run (claim_run and the
\* WHERE clauses of execute_run in core/blueprints/runner.py).
THEOREM RunsAreSettledOnce == PackSpec => SettledOnceByItsOwner
<1>. DEFINE Kept == \A r \in RunIds :
                        queue[r].status \in Settled => queue'[r].status = queue[r].status
            Owned == \A w \in Workers :
                        at[w].pc \in {"finish", "fail"} /\ queue[at[w].run].owner # w
                        /\ at'[w] # at[w]
                            => queue'[at[w].run].status = queue[at[w].run].status
<1>1. ASSUME PackInv, [PackNext]_packVars PROVE Kept
  BY <1>1, PackNextInv DEF Grows, Settled
<1>2. ASSUME PackInv, [PackNext]_packVars PROVE Owned
  <2>. SUFFICES ASSUME NEW w \in Workers, at[w].pc \in {"finish", "fail"},
                       queue[at[w].run].owner # w, at'[w] # at[w]
                PROVE  queue'[at[w].run].status = queue[at[w].run].status
    OBVIOUS
  <2>1. PackNext /\ ~UNCHANGED at
    BY <1>2 DEF packVars, queueVars
  <2>2. PICK v \in Workers :
            Progress(v) \/ RenewLease(v) \/ QueueFault(v) \/ SystemFails(v)
    BY <2>1 DEF PackNext, RequestInstall, RequestRun, Enqueue, LeaseExpires
  <2>3. v = w
    BY <1>2, <2>2, OthersStay
  <2>. QED
    BY <1>2, <2>2, <2>3, NoStrangerSettles
<1>3. PackInv /\ [PackNext]_packVars => Kept /\ Owned
  BY <1>1, <1>2
<1>. QED
  BY <1>3, PackInvariant, PTL DEF PackSpec, SettledOnceByItsOwner
=============================================================================
