--------------------------- MODULE RequestProofs ----------------------------
(***************************************************************************)
(* Theorems about the two parts that consist of requests alone.            *)
(* ChangeEfforts, for any number of efforts, branches and callers: an      *)
(* effort never falls back, and what it says of its promotion is what the  *)
(* promotion rows say.  Locations, for any number of workspaces and        *)
(* locations: rows are rows, parents lie in the workspace of their         *)
(* children, and no request is shown the locations of another workspace    *)
(* than its own.                                                           *)
(***************************************************************************)
EXTENDS ChangeEfforts, Locations, FiniteSetTheorems, TLAPS

-----------------------------------------------------------------------------
(* Change efforts.                                                         *)

EffortRow ==
    [status : EffortStatuses, owner : Owners, base : Branches, target : Branches,
     branch : {NoValue} \union {Prefix[e] : e \in Efforts},
     worktree : {NoValue} \union (Roots \X Efforts)]

(* The rows, with the type of each field.                                  *)
RowsAreEfforts == efforts \in [Existing -> EffortRow]

(* A promotion names the branch that its effort has, and has had since.    *)
PromotionsNameBranches ==
    \A p \in promotions :
        /\ p.effort \in Existing /\ p.from # NoValue
        /\ p.from = efforts[p.effort].branch

(* An effort has one completed promotion if it is promoted and none else;  *)
(* a pending one makes it requested at least.                              *)
CompletedIsSingle ==
    \A e \in Existing :
        IF efforts[e].status = "promoted_to_develop"
        THEN \E p \in promotions : PromotionsOf(e, {"completed"}) = {p}
        ELSE PromotionsOf(e, {"completed"}) = {}
PendingIsRequested ==
    \A e \in Existing :
        /\ efforts[e].status = "promotion_requested" => PromotionsOf(e, PendingStates) # {}
        /\ PromotionsOf(e, PendingStates) # {} =>
               efforts[e].status \in {"promotion_requested", "promoted_to_develop"}
BranchesAreOwned ==
    \A e, f \in Existing :
        e # f /\ efforts[e].branch # NoValue => efforts[e].branch # efforts[f].branch
PendingIsSingle ==
    \A p, q \in promotions :
        p # q /\ p.from = q.from /\ {p.status, q.status} \subseteq PendingStates =>
            p.strategy # q.strategy

EffortInv ==
    /\ EffortTypeOK /\ RowsAreEfforts /\ PromotionsNameBranches
    /\ CompletedIsSingle /\ PendingIsRequested /\ BranchesAreOwned /\ PendingIsSingle

(* The statuses before any promotion was asked for.                        *)
Early == {"created", "source_resolved", "branch_allocated", "worktree_allocated"}

-----------------------------------------------------------------------------
\* What Save leaves and what it writes.
LEMMA SaveWrites ==
    ASSUME NEW e, NEW row, Save(e, row)
    PROVE  /\ Existing' = Existing \union {e} /\ efforts'[e] = row
           /\ \A f \in Existing \ {e} : efforts'[f] = efforts[f]
           /\ efforts' = [f \in Existing' |-> efforts'[f]]
BY DEF Save, Existing

\* A row that is saved for an effort leaves the rows typed.
LEMMA SaveTypes ==
    ASSUME RowsAreEfforts, NEW e \in Efforts, NEW row \in EffortRow, Save(e, row)
    PROVE  RowsAreEfforts'
<1>1. \A f \in Existing' : efforts'[f] \in EffortRow
  BY SaveWrites DEF RowsAreEfforts
<1>. QED
  BY <1>1, SaveWrites DEF RowsAreEfforts

(* An effort that exists is saved without a promotion: its status moves    *)
(* among the early ones, if at all, and its branch is filled in, if at     *)
(* all, with a name no other effort has.                                   *)
LEMMA EffortUpdated ==
    ASSUME EffortInv, NEW e \in Existing, NEW row \in EffortRow, Save(e, row),
           UNCHANGED <<promotions, declared>>,
           \/ row.status = efforts[e].status
           \/ efforts[e].status \in Early /\ row.status \in Early,
           \/ row.branch = efforts[e].branch
           \/ /\ efforts[e].branch = NoValue /\ row.branch = Prefix[e]
              /\ \A f \in Existing \ {e} : efforts[f].branch # Prefix[e]
    PROVE  EffortInv'
<1>1. e \in Efforts /\ Existing \subseteq Efforts
  BY DEF EffortInv, EffortTypeOK
<1>2. /\ Existing' = Existing /\ efforts'[e] = row
      /\ \A f \in Existing \ {e} : efforts'[f] = efforts[f]
  BY SaveWrites
<1>3. RowsAreEfforts'
  BY <1>1, SaveTypes DEF EffortInv
<1>4. EffortTypeOK'
  BY <1>1, <1>2 DEF EffortInv, EffortTypeOK, EffortRow
<1>5. PromotionsNameBranches'
  BY <1>2 DEF EffortInv, PromotionsNameBranches
<1>6. \A f, states : PromotionsOf(f, states)' = PromotionsOf(f, states)
  BY DEF PromotionsOf
<1>7. CompletedIsSingle'
  <2>. SUFFICES ASSUME NEW f \in Existing
                PROVE  IF efforts'[f].status = "promoted_to_develop"
                       THEN \E p \in promotions : PromotionsOf(f, {"completed"}) = {p}
                       ELSE PromotionsOf(f, {"completed"}) = {}
    BY <1>2, <1>6 DEF CompletedIsSingle, PromotionsOf
  <2>1. efforts'[f].status = "promoted_to_develop"
            <=> efforts[f].status = "promoted_to_develop"
    BY <1>2 DEF Early
  <2>. QED
    BY <2>1 DEF EffortInv, CompletedIsSingle
<1>8. PendingIsRequested'
  <2>. SUFFICES ASSUME NEW f \in Existing
                PROVE  /\ efforts'[f].status = "promotion_requested" =>
                              PromotionsOf(f, PendingStates) # {}
                       /\ PromotionsOf(f, PendingStates) # {} =>
                              efforts'[f].status \in
                                  {"promotion_requested", "promoted_to_develop"}
    BY <1>2, <1>6 DEF PendingIsRequested, PromotionsOf, PendingStates
  <2>1. \/ efforts'[f].status = efforts[f].status
        \/ efforts[f].status \in Early /\ efforts'[f].status \in Early
    BY <1>2
  <2>. QED
    BY <2>1 DEF EffortInv, PendingIsRequested, Early
<1>9. BranchesAreOwned'
  BY <1>2 DEF EffortInv, BranchesAreOwned
<1>10. PendingIsSingle'
  BY DEF EffortInv, PendingIsSingle
<1>. QED
  BY <1>3, <1>4, <1>5, <1>7, <1>8, <1>9, <1>10 DEF EffortInv

-----------------------------------------------------------------------------
LEMMA EffortInitInv ==
    EffortInit => EffortInv
<1>. SUFFICES ASSUME EffortInit PROVE EffortInv
  OBVIOUS
<1>1. Existing = {} /\ promotions = {} /\ declared = {}
  BY DEF EffortInit, Existing
<1>2. RowsAreEfforts
  BY <1>1 DEF EffortInit, RowsAreEfforts
<1>. QED
  BY <1>1, <1>2 DEF EffortInv, EffortTypeOK, PromotionsNameBranches, CompletedIsSingle,
     PendingIsRequested, BranchesAreOwned, PendingIsSingle

LEMMA EffortCreated ==
    ASSUME EffortInv, NEW e \in Efforts, NEW o \in Owners,
           NEW b \in Branches, NEW t \in Branches, create_change_effort(e, o, b, t)
    PROVE  EffortInv'
<1>. DEFINE row == [status |-> "created", owner |-> o, base |-> b, target |-> t,
                    branch |-> NoValue, worktree |-> NoValue]
<1>1. e \notin Existing /\ Save(e, row) /\ UNCHANGED <<promotions, declared>>
  BY DEF create_change_effort
<1>2. row \in EffortRow
  BY DEF EffortRow, EffortStatuses
<1>. HIDE DEF row
<1>3. /\ Existing' = Existing \union {e} /\ efforts'[e] = row
      /\ \A f \in Existing : efforts'[f] = efforts[f]
  BY <1>1, SaveWrites
<1>4. row.status = "created" /\ row.branch = NoValue
      /\ row.base \in Branches /\ row.target \in Branches
  BY DEF row
<1>5. \A p \in promotions : p.effort \in Existing
  BY DEF EffortInv, EffortTypeOK
<1>6. \A states : PromotionsOf(e, states)' = {}
  BY <1>1, <1>5 DEF PromotionsOf
<1>7. \A f, states : PromotionsOf(f, states)' = PromotionsOf(f, states)
  BY <1>1 DEF PromotionsOf
<1>8. RowsAreEfforts'
  BY <1>1, <1>2, SaveTypes DEF EffortInv
<1>9. EffortTypeOK'
  BY <1>1, <1>3, <1>4 DEF EffortInv, EffortTypeOK, EffortStatuses
<1>10. PromotionsNameBranches'
  BY <1>1, <1>3 DEF EffortInv, PromotionsNameBranches
<1>11. CompletedIsSingle'
  <2>1. PromotionsOf(e, {"completed"})' = {}
    BY <1>6
  <2>2. \A f \in Existing :
            PromotionsOf(f, {"completed"})' = PromotionsOf(f, {"completed"})
    BY <1>7
  <2>. QED
    BY <1>1, <1>3, <1>4, <2>1, <2>2 DEF EffortInv, CompletedIsSingle
<1>12. PendingIsRequested'
  BY <1>1, <1>3, <1>4, <1>6, <1>7 DEF EffortInv, PendingIsRequested, PromotionsOf, PendingStates
<1>13. BranchesAreOwned'
  BY <1>3, <1>4 DEF EffortInv, BranchesAreOwned
<1>14. PendingIsSingle'
  BY <1>1 DEF EffortInv, PendingIsSingle
<1>. QED
  BY <1>8, <1>9, <1>10, <1>11, <1>12, <1>13, <1>14 DEF EffortInv

LEMMA ResolveKeeps ==
    ASSUME EffortInv, NEW e \in Efforts, NEW h \in Branches \union {NoValue},
           resolve_change_effort_source(e, h)
    PROVE  EffortInv'
<1>. DEFINE old == efforts[e]
            row == [old EXCEPT
                      !.base = IF old.base = "develop" /\ h # NoValue THEN h ELSE @,
                      !.status = IF @ = "created" THEN "source_resolved" ELSE @]
<1>1. e \in Existing /\ Save(e, row) /\ UNCHANGED <<promotions, declared>>
  BY DEF resolve_change_effort_source
<1>2. old \in EffortRow
  BY <1>1 DEF EffortInv, RowsAreEfforts
<1>3. row \in EffortRow
  BY <1>2 DEF EffortRow, EffortStatuses
<1>4. /\ row.branch = old.branch
      /\ \/ row.status = old.status
         \/ old.status \in Early /\ row.status \in Early
  BY <1>2 DEF EffortRow, Early
<1>. HIDE DEF row
<1>. QED
  BY <1>1, <1>3, <1>4, EffortUpdated

LEMMA BranchKeeps ==
    ASSUME EffortInv, NEW e \in Efforts, NEW o \in Owners \union {NoValue},
           NEW b \in Branches \union {NoValue}, NEW t \in Branches \union {NoValue},
           allocate_change_effort_branch(e, o, b, t)
    PROVE  EffortInv'
<1>. DEFINE old == efforts[e]
            row == [old EXCEPT
                      !.base = IF b = NoValue THEN @ ELSE b,
                      !.target = IF t = NoValue THEN @ ELSE t,
                      !.branch = Prefix[e],
                      !.status = IF @ \in {"created", "source_resolved"}
                                 THEN "branch_allocated" ELSE @]
<1>1. /\ e \in Existing /\ Save(e, row) /\ UNCHANGED <<promotions, declared>>
      /\ old.branch \in {NoValue, Prefix[e]}
      /\ \A f \in Existing \ {e} : efforts[f].branch # Prefix[e]
  BY DEF allocate_change_effort_branch
<1>2. old \in EffortRow
  BY <1>1 DEF EffortInv, RowsAreEfforts
<1>3. row \in EffortRow
  <2>1. Prefix[e] \in {NoValue} \union {Prefix[f] : f \in Efforts}
    OBVIOUS
  <2>2. /\ (IF b = NoValue THEN old.base ELSE b) \in Branches
        /\ (IF t = NoValue THEN old.target ELSE t) \in Branches
    BY <1>2 DEF EffortRow
  <2>. QED
    BY <1>2, <2>1, <2>2 DEF EffortRow, EffortStatuses, Promotable
<1>4. /\ row.branch = Prefix[e]
      /\ \/ row.status = old.status
         \/ old.status \in Early /\ row.status \in Early
  BY <1>2 DEF EffortRow, Early
<1>. HIDE DEF row
<1>. QED
  BY <1>1, <1>3, <1>4, EffortUpdated

LEMMA WorktreeKeeps ==
    ASSUME EffortInv, NEW e \in Efforts, NEW o \in Owners \union {NoValue},
           NEW r \in Roots, allocate_change_effort_worktree(e, o, r)
    PROVE  EffortInv'
<1>. DEFINE old == efforts[e]
            row == [old EXCEPT
                      !.worktree = <<r, e>>,
                      !.status = IF @ \in {"created", "source_resolved", "branch_allocated"}
                                 THEN "worktree_allocated" ELSE @]
<1>1. e \in Existing /\ Save(e, row) /\ UNCHANGED <<promotions, declared>>
  BY DEF allocate_change_effort_worktree
<1>2. old \in EffortRow
  BY <1>1 DEF EffortInv, RowsAreEfforts
<1>3. row \in EffortRow
  <2>1. <<r, e>> \in {NoValue} \union (Roots \X Efforts)
    OBVIOUS
  <2>. QED
    BY <1>2, <2>1 DEF EffortRow, EffortStatuses, Promotable
<1>4. /\ row.branch = old.branch
      /\ \/ row.status = old.status
         \/ old.status \in Early /\ row.status \in Early
  BY <1>2 DEF EffortRow, Early
<1>. HIDE DEF row
<1>. QED
  BY <1>1, <1>3, <1>4, EffortUpdated

LEMMA PromoteKeeps ==
    ASSUME EffortInv, NEW e \in Efforts, NEW s \in Strategies, NEW m \in BOOLEAN,
           promote_change_effort(e, s, m)
    PROVE  EffortInv'
<1>. DEFINE old == efforts[e]
            new == [effort |-> e, from |-> old.branch, strategy |-> s,
                    nth |-> Cardinality(promotions),
                    status |-> IF m THEN "completed" ELSE "preflight_passed"]
            row == [old EXCEPT !.status = IF m THEN "promoted_to_develop"
                                               ELSE "promotion_requested"]
<1>1. /\ e \in Existing /\ old.branch # NoValue /\ old.status \in Promotable
      /\ ~PendingPromotion(e, s)
      /\ promotions' = promotions \union {new}
      /\ Save(e, row) /\ UNCHANGED declared
  BY DEF promote_change_effort
<1>2. old \in EffortRow
  BY <1>1 DEF EffortInv, RowsAreEfforts
<1>3. /\ row \in EffortRow /\ row.branch = old.branch
      /\ row.base = old.base /\ row.target = old.target
      /\ row.status = IF m THEN "promoted_to_develop" ELSE "promotion_requested"
  BY <1>2 DEF EffortRow, EffortStatuses, Promotable
<1>4. /\ new.effort = e /\ new.from = old.branch /\ new.strategy = s
      /\ new.status = IF m THEN "completed" ELSE "preflight_passed"
  OBVIOUS
<1>. HIDE DEF row, new
<1>5. /\ Existing' = Existing /\ efforts'[e] = row
      /\ \A f \in Existing \ {e} : efforts'[f] = efforts[f]
  BY <1>1, SaveWrites
<1>6. old.status # "promoted_to_develop"
  BY <1>1 DEF Promotable
<1>7. \A f, states : f # e => PromotionsOf(f, states)' = PromotionsOf(f, states)
  BY <1>1, <1>4 DEF PromotionsOf
<1>8. RowsAreEfforts'
  BY <1>1, <1>3, SaveTypes DEF EffortInv
<1>9. EffortTypeOK'
  <2>1. Existing' \subseteq Efforts /\ declared' \subseteq Existing'
    BY <1>1, <1>5 DEF EffortInv, EffortTypeOK
  <2>2. \A p \in promotions' : p.effort \in Existing' /\ p.strategy \in Strategies
    BY <1>1, <1>4, <1>5 DEF EffortInv, EffortTypeOK
  <2>3. \A f \in Existing' :
            /\ efforts'[f].branch \in {NoValue, Prefix[f]}
            /\ {efforts'[f].base, efforts'[f].target} \subseteq Branches
    BY <1>1, <1>3, <1>5 DEF EffortInv, EffortTypeOK
  <2>4. \A f \in Existing' : efforts'[f].status \in EffortStatuses
    BY <1>1, <1>3, <1>5 DEF EffortInv, EffortTypeOK, EffortStatuses, Promotable
  <2>. QED
    BY <2>1, <2>2, <2>3, <2>4 DEF EffortTypeOK
<1>10. PromotionsNameBranches'
  BY <1>1, <1>3, <1>4, <1>5 DEF EffortInv, PromotionsNameBranches
<1>11. CompletedIsSingle'
  <2>1. PromotionsOf(e, {"completed"}) = {}
    BY <1>1, <1>6 DEF EffortInv, CompletedIsSingle
  <2>2. CASE m
    <3>1. PromotionsOf(e, {"completed"})' = {new}
      BY <1>1, <1>4, <2>1, <2>2 DEF PromotionsOf
    <3>. QED
      BY <1>1, <1>3, <1>5, <1>7, <2>2, <3>1 DEF EffortInv, CompletedIsSingle
  <2>3. CASE ~m
    <3>1. PromotionsOf(e, {"completed"})' = {}
      BY <1>1, <1>4, <2>1, <2>3 DEF PromotionsOf
    <3>. QED
      BY <1>1, <1>3, <1>5, <1>7, <2>3, <3>1 DEF EffortInv, CompletedIsSingle
  <2>. QED
    BY <2>2, <2>3
<1>12. PendingIsRequested'
  <2>1. ~m => new \in PromotionsOf(e, PendingStates)'
    BY <1>1, <1>4 DEF PromotionsOf, PendingStates
  <2>2. \A f \in Existing \ {e} :
            PromotionsOf(f, PendingStates)' = PromotionsOf(f, PendingStates)
    BY <1>7 DEF PendingStates
  <2>. QED
    BY <1>3, <1>5, <2>1, <2>2 DEF EffortInv, PendingIsRequested, PendingStates
<1>13. BranchesAreOwned'
  BY <1>1, <1>3, <1>5 DEF EffortInv, BranchesAreOwned
\* A pending promotion of the same branch is one of the same effort, and
\* would have answered the request.
<1>14. \A q \in promotions :
           q.from = new.from /\ q.status \in PendingStates => q.strategy # new.strategy
  <2>. SUFFICES ASSUME NEW q \in promotions, q.from = old.branch,
                       q.status \in PendingStates, q.strategy = s
                PROVE  FALSE
    BY <1>4
  <2>1. q.effort \in Existing /\ efforts[q.effort].branch = old.branch
    BY DEF EffortInv, PromotionsNameBranches
  <2>2. q.effort = e
    BY <1>1, <2>1 DEF EffortInv, BranchesAreOwned
  <2>. QED
    BY <1>1, <2>2 DEF PendingPromotion
<1>15. PendingIsSingle'
  BY <1>1, <1>14 DEF EffortInv, PendingIsSingle
<1>. QED
  BY <1>8, <1>9, <1>10, <1>11, <1>12, <1>13, <1>15 DEF EffortInv

LEMMA DeclareKeeps ==
    ASSUME EffortInv, NEW e \in Efforts, declare_release(e)
    PROVE  EffortInv'
BY DEF declare_release, EffortInv, EffortTypeOK, RowsAreEfforts, PromotionsNameBranches,
   CompletedIsSingle, PendingIsRequested, BranchesAreOwned, PendingIsSingle,
   Existing, PromotionsOf

LEMMA StutterKeeps ==
    ASSUME EffortInv, UNCHANGED effortVars
    PROVE  EffortInv'
BY DEF effortVars, EffortInv, EffortTypeOK, RowsAreEfforts, PromotionsNameBranches,
   CompletedIsSingle, PendingIsRequested, BranchesAreOwned, PendingIsSingle,
   Existing, PromotionsOf

LEMMA EffortNextInv ==
    EffortInv /\ [EffortNext]_effortVars => EffortInv'
<1>. SUFFICES ASSUME EffortInv, [EffortNext]_effortVars PROVE EffortInv'
  OBVIOUS
<1>1. CASE EffortNext
  BY <1>1, EffortCreated, ResolveKeeps, BranchKeeps, WorktreeKeeps, PromoteKeeps,
     DeclareKeeps DEF EffortNext
<1>. QED
  BY <1>1, StutterKeeps

LEMMA EffortAlways == EffortSpec => []EffortInv
BY EffortInitInv, EffortNextInv, PTL DEF EffortSpec

-----------------------------------------------------------------------------
(***************************************************************************)
(* What an effort says of its promotion is what the promotion rows say,    *)
(* for any number of efforts: completed once if it is promoted, pending if *)
(* it is requested, one branch per effort, one pending promotion of a      *)
(* branch per strategy.  Two efforts whose ids share a prefix, and hence   *)
(* the name of a branch, are not excluded.                                 *)
(***************************************************************************)
THEOREM PromotionIsRecorded == EffortSpec => []PromotedIsRecorded
<1>1. ASSUME EffortInv PROVE PromotedIsRecorded
  <2>. USE <1>1 DEF EffortInv
  <2>1. ASSUME NEW e \in Existing
        PROVE  Cardinality(PromotionsOf(e, {"completed"})) =
                   IF efforts[e].status = "promoted_to_develop" THEN 1 ELSE 0
    <3>1. CASE efforts[e].status = "promoted_to_develop"
      <4>1. PICK p \in promotions : PromotionsOf(e, {"completed"}) = {p}
        BY <3>1 DEF CompletedIsSingle
      <4>. QED
        BY <3>1, <4>1, FS_Singleton
    <3>2. CASE efforts[e].status # "promoted_to_develop"
      <4>1. PromotionsOf(e, {"completed"}) = {}
        BY <3>2 DEF CompletedIsSingle
      <4>. QED
        BY <3>2, <4>1, FS_EmptySet
    <3>. QED
      BY <3>1, <3>2
  <2>. QED
    BY <2>1 DEF PromotedIsRecorded, PendingIsRequested, BranchesAreOwned, PendingIsSingle
<1>. QED
  BY <1>1, EffortAlways, PTL

\* The stages are numbers, in the order in which an effort goes through them.
LEMMA StageOrder ==
    /\ \A x \in EffortStatuses : Stage(x) \in 0..5
    /\ Stage("created") = 0 /\ Stage("source_resolved") = 1
    /\ Stage("branch_allocated") = 2 /\ Stage("worktree_allocated") = 3
    /\ Stage("promotion_requested") = 4 /\ Stage("promoted_to_develop") = 5
    /\ \A x \in Promotable : Stage(x) <= 4
BY DEF Stage, EffortStatuses, Promotable

(***************************************************************************)
(* No request moves an effort back behind a stage that it has reached,     *)
(* whatever the order of the requests: each handler of                     *)
(* api/change_efforts.py advances a status from earlier ones only.         *)
(***************************************************************************)
THEOREM EffortsNeverFallBack == EffortSpec => EffortsMoveForward
<1>. DEFINE Forward == \A e \in Existing : Stage(efforts[e].status) <= Stage(efforts'[e].status)
<1>1. ASSUME EffortInv, [EffortNext]_effortVars PROVE [Forward]_effortVars
  <2>1. \A e \in Existing : efforts[e] \in EffortRow
    BY <1>1 DEF EffortInv, RowsAreEfforts
  <2>2. ASSUME NEW f \in Efforts, NEW row, Save(f, row),
               f \in Existing => Stage(efforts[f].status) <= Stage(row.status)
        PROVE  Forward
    BY <2>1, <2>2, StageOrder, SaveWrites DEF EffortRow
  <2>3. ASSUME NEW f \in Efforts, NEW o \in Owners, NEW b \in Branches, NEW t \in Branches,
               create_change_effort(f, o, b, t)
        PROVE  Forward
    BY <2>2, <2>3 DEF create_change_effort
  <2>4. ASSUME NEW f \in Efforts, NEW h \in Branches \union {NoValue},
               resolve_change_effort_source(f, h)
        PROVE  Forward
    <3>. DEFINE row == [efforts[f] EXCEPT
                          !.base = IF efforts[f].base = "develop" /\ h # NoValue THEN h ELSE @,
                          !.status = IF @ = "created" THEN "source_resolved" ELSE @]
    <3>1. f \in Existing /\ Save(f, row)
      BY <2>4 DEF resolve_change_effort_source
    <3>2. Stage(efforts[f].status) <= Stage(row.status)
      BY <2>1, <3>1, StageOrder DEF EffortRow
    <3>. HIDE DEF row
    <3>. QED
      BY <2>2, <3>1, <3>2
  <2>5. ASSUME NEW f \in Efforts, NEW o \in Owners \union {NoValue},
               NEW b \in Branches \union {NoValue}, NEW t \in Branches \union {NoValue},
               allocate_change_effort_branch(f, o, b, t)
        PROVE  Forward
    <3>. DEFINE row == [efforts[f] EXCEPT
                          !.base = IF b = NoValue THEN @ ELSE b,
                          !.target = IF t = NoValue THEN @ ELSE t,
                          !.branch = Prefix[f],
                          !.status = IF @ \in {"created", "source_resolved"}
                                     THEN "branch_allocated" ELSE @]
    <3>1. f \in Existing /\ Save(f, row)
      BY <2>5 DEF allocate_change_effort_branch
    <3>2. Stage(efforts[f].status) <= Stage(row.status)
      BY <2>1, <3>1, StageOrder DEF EffortRow
    <3>. HIDE DEF row
    <3>. QED
      BY <2>2, <3>1, <3>2
  <2>6. ASSUME NEW f \in Efforts, NEW o \in Owners \union {NoValue}, NEW r \in Roots,
               allocate_change_effort_worktree(f, o, r)
        PROVE  Forward
    <3>. DEFINE row == [efforts[f] EXCEPT
                          !.worktree = <<r, f>>,
                          !.status = IF @ \in {"created", "source_resolved",
                                              "branch_allocated"}
                                     THEN "worktree_allocated" ELSE @]
    <3>1. f \in Existing /\ Save(f, row)
      BY <2>6 DEF allocate_change_effort_worktree
    <3>2. Stage(efforts[f].status) <= Stage(row.status)
      BY <2>1, <3>1, StageOrder DEF EffortRow
    <3>. HIDE DEF row
    <3>. QED
      BY <2>2, <3>1, <3>2
  <2>7. ASSUME NEW f \in Efforts, NEW s \in Strategies, NEW m \in BOOLEAN,
               promote_change_effort(f, s, m)
        PROVE  Forward
    <3>. DEFINE row == [efforts[f] EXCEPT
                          !.status = IF m THEN "promoted_to_develop"
                                          ELSE "promotion_requested"]
    <3>1. f \in Existing /\ efforts[f].status \in Promotable /\ Save(f, row)
      BY <2>7 DEF promote_change_effort
    <3>2. Stage(efforts[f].status) <= Stage(row.status)
      BY <2>1, <3>1, StageOrder DEF EffortRow
    <3>. HIDE DEF row
    <3>. QED
      BY <2>2, <3>1, <3>2
  <2>8. ASSUME NEW f \in Efforts, declare_release(f) PROVE UNCHANGED efforts
    BY <2>8 DEF declare_release
  <2>9. ASSUME UNCHANGED efforts PROVE Forward
    BY <2>1, <2>9, StageOrder DEF EffortRow
  <2>. QED
    BY <1>1, <2>3, <2>4, <2>5, <2>6, <2>7, <2>8, <2>9 DEF EffortNext
<1>. QED
  BY <1>1, EffortAlways, PTL DEF EffortSpec, EffortsMoveForward

-----------------------------------------------------------------------------
(* Locations.                                                              *)

LocationRow == [workspace : Workspaces, parent : Ids \union {NoId}]
LocationInv == LocationTypeOK /\ TenancyHolds

-----------------------------------------------------------------------------
(* What a request that is served says of its principal and its workspace,  *)
(* whatever it goes on to do.                                              *)

\* The workspace of a request exists afterwards, and none is ever lost.
LEMMA RequestAdmits ==
    ASSUME NEW p \in Principals, NEW w \in Workspaces, NEW required, NEW shown,
           Request(p, w, required, shown), workspaces \subseteq Workspaces
    PROVE  /\ w \in workspaces' /\ workspaces \subseteq workspaces'
           /\ workspaces' \subseteq Workspaces
           /\ answer'.shown = shown /\ answer'.workspace = w
           /\ answer'.principal.scope \in {NoId, w}
BY DEF Request, assert_access

\* An answer that shows locations of its workspace only is scoped, once the
\* request that gives it was admitted.
LEMMA AdmittedIsScoped ==
    ASSUME NEW p \in Principals, NEW w \in Workspaces, NEW required, NEW shown,
           Request(p, w, required, shown), workspaces \subseteq Workspaces,
           \A l \in shown \intersect Rows' : locations'[l].workspace = w
    PROVE  AnswersAreScoped'
<1>1. /\ answer'.shown = shown /\ answer'.workspace = w
      /\ answer'.principal.scope \in {NoId, w}
  BY RequestAdmits
<1>. QED
  BY <1>1 DEF AnswersAreScoped

\* A location that is created or moved has a parent in its workspace, so
\* that a row may be written if the parent was validated.
LEMMA ValidatedParentIsLocal ==
    ASSUME NEW w \in Workspaces, NEW parent \in Ids \union {NoId},
           _validate_parent_workspace(w, parent), parent # NoId
    PROVE  parent \in Rows /\ locations[parent].workspace = w
BY DEF _validate_parent_workspace

-----------------------------------------------------------------------------
LEMMA LocationInitInv ==
    LocationInit => LocationInv
<1>. SUFFICES ASSUME LocationInit PROVE LocationInv
  OBVIOUS
<1>1. DOMAIN locations = {}
  BY DEF LocationInit
<1>2. locations \in [{} -> LocationRow]
  BY <1>1 DEF LocationInit
<1>3. LocationTypeOK
  BY <1>1, <1>2 DEF LocationTypeOK, Rows, LocationRow, LocationInit
<1>4. TenancyHolds
  BY <1>1 DEF TenancyHolds, ParentsAreLocal, AnswersAreScoped, Rows, LocationInit
<1>. QED
  BY <1>3, <1>4 DEF LocationInv

\* A request that changes no location keeps all of it, if what it shows lies
\* in its workspace.
LEMMA ReadersKeep ==
    ASSUME LocationInv, NEW p \in Principals, NEW w \in Workspaces,
           NEW shown \in SUBSET InWorkspace(w),
           Request(p, w, Read, shown), UNCHANGED locations
    PROVE  LocationInv'
<1>1. workspaces \subseteq Workspaces
  BY DEF LocationInv, LocationTypeOK
<1>2. workspaces \subseteq workspaces' /\ workspaces' \subseteq Workspaces
  BY <1>1, RequestAdmits
<1>3. \A l \in shown \intersect Rows' : locations'[l].workspace = w
  BY DEF InWorkspace, Rows
<1>4. AnswersAreScoped'
  BY <1>1, <1>3, AdmittedIsScoped
<1>5. ParentsAreLocal'
  BY <1>2 DEF LocationInv, TenancyHolds, ParentsAreLocal, Rows
<1>. QED
  BY <1>2, <1>4, <1>5 DEF LocationInv, TenancyHolds, LocationTypeOK, Rows

LEMMA LocationCreated ==
    ASSUME LocationInv, NEW p \in Principals, NEW w \in Workspaces,
           NEW l \in Ids, NEW parent \in Ids \union {NoId},
           create_location(p, w, l, parent)
    PROVE  LocationInv'
<1>. DEFINE row == [workspace |-> w, parent |-> parent]
<1>. USE DEF create_location
<1>1. workspaces \subseteq Workspaces /\ Rows \subseteq Ids /\ l \notin Rows
  BY DEF LocationInv, LocationTypeOK
<1>2. /\ w \in workspaces' /\ workspaces \subseteq workspaces'
      /\ workspaces' \subseteq Workspaces
  BY <1>1, RequestAdmits
<1>3. /\ Rows' = Rows \union {l}
      /\ locations'[l] = row
      /\ \A m \in Rows : locations'[m] = locations[m]
  BY <1>1 DEF Rows
<1>4. LocationTypeOK'
  <2>1. \A m \in Rows' : locations'[m] \in LocationRow
    BY <1>1, <1>3 DEF LocationInv, LocationTypeOK, LocationRow
  <2>2. locations' \in [Rows' -> LocationRow]
    BY <1>3, <2>1
  <2>. QED
    BY <1>1, <1>2, <1>3, <2>2 DEF LocationTypeOK, LocationRow
<1>5. ParentsAreLocal'
  <2>. SUFFICES ASSUME NEW m \in Rows'
                PROVE  /\ locations'[m].workspace \in workspaces'
                       /\ locations'[m].parent # NoId =>
                              /\ locations'[m].parent \in Rows'
                              /\ locations'[locations'[m].parent].workspace
                                     = locations'[m].workspace
    BY DEF ParentsAreLocal
  <2>1. CASE m = l
    <3>1. parent # NoId => parent \in Rows /\ locations[parent].workspace = w
      BY ValidatedParentIsLocal
    <3>. QED
      BY <1>2, <1>3, <2>1, <3>1
  <2>2. CASE m \in Rows
    BY <1>2, <1>3, <2>2 DEF LocationInv, TenancyHolds, ParentsAreLocal
  <2>. QED
    BY <1>3, <2>1, <2>2
<1>6. AnswersAreScoped'
  BY <1>1, <1>3, AdmittedIsScoped
<1>. QED
  BY <1>4, <1>5, <1>6 DEF LocationInv, TenancyHolds

LEMMA PatchKeeps ==
    ASSUME LocationInv, NEW p \in Principals, NEW w \in Workspaces,
           NEW l \in Ids, NEW parent \in Ids \union {NoId},
           patch_location(p, w, l, parent)
    PROVE  LocationInv'
<1>. USE DEF patch_location
<1>1. /\ workspaces \subseteq Workspaces /\ Rows \subseteq Ids
      /\ l \in Rows /\ locations[l].workspace = w
      /\ locations \in [Rows -> LocationRow]
  BY DEF LocationInv, LocationTypeOK, InWorkspace, LocationRow
<1>2. workspaces \subseteq workspaces' /\ workspaces' \subseteq Workspaces
  BY <1>1, RequestAdmits
<1>3. /\ Rows' = Rows
      /\ locations'[l] = [locations[l] EXCEPT !.parent = parent]
      /\ \A m \in Rows \ {l} : locations'[m] = locations[m]
  BY <1>1 DEF Rows
<1>4. /\ locations'[l].parent = parent
      /\ \A m \in Rows : locations'[m].workspace = locations[m].workspace
  BY <1>1, <1>3 DEF LocationRow
<1>5. LocationTypeOK'
  <2>1. \A m \in Rows' : locations'[m] \in LocationRow
    BY <1>1, <1>3 DEF LocationRow
  <2>2. locations' \in [Rows' -> LocationRow]
    <3>1. locations' = [m \in Rows' |-> locations'[m]]
      BY <1>3 DEF Rows
    <3>. QED
      BY <2>1, <3>1
  <2>. QED
    BY <1>1, <1>2, <1>3, <2>2 DEF LocationTypeOK, LocationRow
<1>6. ParentsAreLocal'
  <2>. SUFFICES ASSUME NEW m \in Rows'
                PROVE  /\ locations'[m].workspace \in workspaces'
                       /\ locations'[m].parent # NoId =>
                              /\ locations'[m].parent \in Rows'
                              /\ locations'[locations'[m].parent].workspace
                                     = locations'[m].workspace
    BY DEF ParentsAreLocal
  <2>0. locations[m].workspace \in workspaces
    BY <1>3 DEF LocationInv, TenancyHolds, ParentsAreLocal
  <2>1. CASE m = l
    <3>1. parent # NoId => parent \in Rows /\ locations[parent].workspace = w
      BY ValidatedParentIsLocal
    <3>. QED
      BY <1>1, <1>2, <1>3, <1>4, <2>0, <2>1, <3>1
  <2>2. CASE m # l
    <3>1. locations[m].parent # NoId =>
              /\ locations[m].parent \in Rows
              /\ locations[locations[m].parent].workspace = locations[m].workspace
      BY <1>3 DEF LocationInv, TenancyHolds, ParentsAreLocal
    <3>. QED
      BY <1>2, <1>3, <1>4, <2>0, <2>2, <3>1
  <2>. QED
    BY <2>1, <2>2
<1>7. AnswersAreScoped'
  <2>1. \A m \in {l} \intersect Rows' : locations'[m].workspace = w
    BY <1>1, <1>4
  <2>. QED
    BY <1>1, <2>1, AdmittedIsScoped
<1>. QED
  BY <1>5, <1>6, <1>7 DEF LocationInv, TenancyHolds

LEMMA DeleteKeeps ==
    ASSUME LocationInv, NEW p \in Principals, NEW w \in Workspaces,
           NEW l \in Ids, delete_location(p, w, l)
    PROVE  LocationInv'
<1>. USE DEF delete_location
<1>1. /\ workspaces \subseteq Workspaces /\ Rows \subseteq Ids
      /\ l \in Rows /\ locations[l].workspace = w
      /\ locations \in [Rows -> LocationRow]
  BY DEF LocationInv, LocationTypeOK, InWorkspace, LocationRow
<1>2. workspaces \subseteq workspaces' /\ workspaces' \subseteq Workspaces
  BY <1>1, RequestAdmits
<1>3. /\ Rows' = Rows \ {l}
      /\ \A m \in Rows \ {l} : locations'[m] = locations[m]
  BY DEF Rows
<1>4. LocationTypeOK'
  <2>1. locations' \in [Rows' -> LocationRow]
    BY <1>1, <1>3
  <2>. QED
    BY <1>1, <1>2, <1>3, <2>1 DEF LocationTypeOK, LocationRow
\* A child would lie in the workspace of the request, where none was found.
<1>5. \A m \in Rows : l # NoId => locations[m].parent # l
  <2>. SUFFICES ASSUME NEW m \in Rows, l # NoId, locations[m].parent = l
                PROVE  FALSE
    OBVIOUS
  <2>1. locations[l].workspace = locations[m].workspace
    BY DEF LocationInv, TenancyHolds, ParentsAreLocal
  <2>. QED
    BY <1>1, <2>1 DEF InWorkspace
<1>6. ParentsAreLocal'
  BY <1>2, <1>3, <1>5 DEF LocationInv, TenancyHolds, ParentsAreLocal
<1>7. AnswersAreScoped'
  <2>1. \A m \in {l} \intersect Rows' : locations'[m].workspace = w
    BY <1>3
  <2>. QED
    BY <1>1, <2>1, AdmittedIsScoped
<1>. QED
  BY <1>4, <1>6, <1>7 DEF LocationInv, TenancyHolds

LEMMA LocationNextInv ==
    LocationInv /\ [LocationNext]_locationVars => LocationInv'
<1>. SUFFICES ASSUME LocationInv, [LocationNext]_locationVars
              PROVE  LocationInv'
  OBVIOUS
<1>1. CASE UNCHANGED locationVars
  BY <1>1 DEF locationVars, LocationInv, LocationTypeOK, TenancyHolds,
              ParentsAreLocal, AnswersAreScoped, Rows
<1>2. ASSUME NEW p \in Principals, NEW w \in Workspaces, list_locations(p, w)
      PROVE  LocationInv'
  BY <1>2, ReadersKeep DEF list_locations
<1>3. ASSUME NEW p \in Principals, NEW w \in Workspaces, NEW l \in Ids,
             get_location(p, w, l)
      PROVE  LocationInv'
  BY <1>3, ReadersKeep DEF get_location
<1>4. ASSUME NEW p \in Principals, NEW w \in Workspaces,
             NEW required \in {Read, Manage}, RefusedRequest(p, w, required)
      PROVE  LocationInv'
  <2>. USE <1>4 DEF RefusedRequest
  <2>1. LocationTypeOK'
    BY DEF LocationInv, LocationTypeOK, Rows
  <2>2. ParentsAreLocal'
    BY DEF LocationInv, TenancyHolds, ParentsAreLocal, Rows
  <2>3. AnswersAreScoped'
    BY DEF LocationInv, TenancyHolds, AnswersAreScoped, Rows
  <2>. QED
    BY <2>1, <2>2, <2>3 DEF LocationInv, TenancyHolds
<1>. QED
  BY <1>1, <1>2, <1>3, <1>4, LocationCreated, PatchKeeps, DeleteKeeps
     DEF LocationNext

(***************************************************************************)
(* The rows of locations are rows, of workspaces and locations that may    *)
(* exist, after any sequence of requests of api/locations.py.              *)
(***************************************************************************)
THEOREM LocationTypeCorrect == LocationSpec => []LocationTypeOK
<1>1. LocationInv => LocationTypeOK
  BY DEF LocationInv
<1>. QED
  BY <1>1, LocationInitInv, LocationNextInv, PTL DEF LocationSpec

(***************************************************************************)
(* Tenancy: validating the parent at creation and at every move, and       *)
(* looking for children in the workspace of a deletion, keeps parents and  *)
(* children together for any number of workspaces and locations, and no    *)
(* answer shows a location of a workspace its request was not admitted to. *)
(***************************************************************************)
THEOREM TenancyIsKept == LocationSpec => []TenancyHolds
<1>1. LocationInv => TenancyHolds
  BY DEF LocationInv
<1>. QED
  BY <1>1, LocationInitInv, LocationNextInv, PTL DEF LocationSpec
=============================================================================
