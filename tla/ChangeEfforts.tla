--------------------------- MODULE ChangeEfforts ----------------------------
(***************************************************************************)
(* Change efforts (core/api/change_efforts.py): one piece of work on an    *)
(* artifact, from its creation over a source, a branch and a worktree to   *)
(* the promotion of the branch to "develop", and the releases declared for *)
(* it.  Every handler runs to its end on the one event loop of the API and *)
(* commits once, so a request is one step; a request that is refused       *)
(* changes nothing and is no step.  Merges happen outside: a caller        *)
(* reports the commit of a merge with the promotion.                       *)
(*                                                                         *)
(* One workspace and one artifact.  The name of a work branch holds the    *)
(* first twelve digits of the effort's id, its Prefix; a worktree is the   *)
(* pair of its root and the effort.                                        *)
(***************************************************************************)
EXTENDS FiniteSets, Naturals

CONSTANTS
    Efforts,        \* ids of change efforts
    Prefix,         \* what the branch name keeps of an id
    Branches,       \* branch names that callers and artifacts use
    Owners, Roots,  \* callers, and the roots a caller may ask for
    NoValue         \* an empty field

ASSUME EffortsAssumption ==
    /\ DOMAIN Prefix = Efforts
    /\ "develop" \in Branches /\ NoValue \notin Branches

VARIABLES
    efforts,        \* the change_efforts rows that exist
    promotions,     \* the change_effort_promotions rows, a set
    declared        \* the efforts a release was declared for

effortVars == <<efforts, promotions, declared>>

Strategies == {"merge_commit", "squash", "rebase"}
PendingStates == {"requested", "preflight_passed", "merge_pending"}
Promotable == {"branch_allocated", "worktree_allocated",
               "ready_for_promotion", "promotion_requested"}
EffortStatuses ==
    Promotable \union {"created", "source_resolved", "promoted_to_develop"}

Existing == DOMAIN efforts
Save(e, row) ==
    efforts' = [f \in Existing \union {e} |-> IF f = e THEN row ELSE efforts[f]]

EffortInit ==
    /\ efforts = << >> /\ promotions = {} /\ declared = {}

create_change_effort(e, owner, base, target) ==
    /\ e \notin Existing
    /\ Save(e, [status |-> "created", owner |-> owner, base |-> base,
                target |-> target, branch |-> NoValue, worktree |-> NoValue])
    /\ UNCHANGED <<promotions, declared>>

(* The latest artifact names a repository, and a branch or none; that      *)
(* branch replaces a base that was left at the default.                    *)
resolve_change_effort_source(e, hint) ==
    LET row == efforts[e]
    IN  /\ e \in Existing
        /\ Save(e, [row EXCEPT
               !.base = IF row.base = "develop" /\ hint # NoValue THEN hint ELSE @,
               !.status = IF @ = "created" THEN "source_resolved" ELSE @])
        /\ UNCHANGED <<promotions, declared>>

OwnerMatches(e, owner) == owner \in {NoValue, efforts[e].owner}

\* Mutant: an allocation always sets the status.
AllocateBranchAnew(e, owner, base, target) ==
    /\ e \in Existing /\ OwnerMatches(e, owner)
    /\ efforts[e].branch \in {NoValue, Prefix[e]}
    /\ \A f \in Existing \ {e} : efforts[f].branch # Prefix[e]
    /\ Save(e, [efforts[e] EXCEPT !.branch = Prefix[e], !.status = "branch_allocated"])
    /\ UNCHANGED <<promotions, declared>>

(* The branch is named after the effort, and no other effort may have that *)
(* name.  The request may replace the base and the target at any time.     *)
allocate_change_effort_branch(e, owner, base, target) ==
    LET row == efforts[e]
    IN  /\ e \in Existing /\ OwnerMatches(e, owner)
        /\ row.branch \in {NoValue, Prefix[e]}
        /\ \A f \in Existing \ {e} : efforts[f].branch # Prefix[e]
        /\ Save(e, [row EXCEPT
               !.base = IF base = NoValue THEN @ ELSE base,
               !.target = IF target = NoValue THEN @ ELSE target,
               !.branch = Prefix[e],
               !.status = IF @ \in {"created", "source_resolved"}
                          THEN "branch_allocated" ELSE @])
        /\ UNCHANGED <<promotions, declared>>

(* A worktree needs a branch and is allocated once; asking for the same    *)
(* one again only makes sure that its directory is there.                  *)
allocate_change_effort_worktree(e, owner, root) ==
    LET row == efforts[e]
        candidate == <<root, e>>
    IN  /\ e \in Existing /\ OwnerMatches(e, owner)
        /\ row.branch # NoValue
        /\ row.worktree = NoValue
        /\ \A f \in Existing \ {e} : efforts[f].worktree # candidate
        /\ Save(e, [row EXCEPT
               !.worktree = candidate,
               !.status = IF @ \in {"created", "source_resolved", "branch_allocated"}
                          THEN "worktree_allocated" ELSE @])
        /\ UNCHANGED <<promotions, declared>>

(* A pending promotion of the same branch with the same strategy answers   *)
(* the request as it is, also when the request reports a merge.            *)
PendingPromotion(e, strategy) ==
    \E p \in promotions : /\ p.effort = e /\ p.from = efforts[e].branch
                          /\ p.strategy = strategy /\ p.status \in PendingStates

\* Mutant: a promotion that is done may be done again.
PromoteAgain(e, strategy, merged) ==
    LET row == efforts[e]
    IN  /\ e \in Existing
        /\ row.branch # NoValue
        /\ row.status \in Promotable \union {"promoted_to_develop"}
        /\ row.target = "develop" /\ ~PendingPromotion(e, strategy)
        /\ promotions' = promotions \union
               {[effort |-> e, from |-> row.branch, strategy |-> strategy,
                 nth |-> Cardinality(promotions),
                 status |-> IF merged THEN "completed" ELSE "preflight_passed"]}
        /\ Save(e, [row EXCEPT !.status = IF merged THEN "promoted_to_develop"
                                                    ELSE "promotion_requested"])
        /\ UNCHANGED declared

promote_change_effort(e, strategy, merged) ==
    LET row == efforts[e]
    IN  /\ e \in Existing
        /\ row.branch # NoValue /\ row.status \in Promotable
        /\ row.target = "develop"
        /\ ~PendingPromotion(e, strategy)
        /\ promotions' = promotions \union
               {[effort |-> e, from |-> row.branch, strategy |-> strategy,
                 nth |-> Cardinality(promotions),
                 status |-> IF merged THEN "completed" ELSE "preflight_passed"]}
        /\ Save(e, [row EXCEPT !.status = IF merged THEN "promoted_to_develop"
                                                    ELSE "promotion_requested"])
        /\ UNCHANGED declared

(* A release may name an effort of the workspace, in whatever state.       *)
declare_release(e) ==
    /\ e \in Existing
    /\ declared' = declared \union {e}
    /\ UNCHANGED <<efforts, promotions>>

EffortNext ==
    \E e \in Efforts :
        \/ \E o \in Owners, b, t \in Branches : create_change_effort(e, o, b, t)
        \/ \E h \in Branches \union {NoValue} : resolve_change_effort_source(e, h)
        \/ \E o \in Owners \union {NoValue}, b, t \in Branches \union {NoValue} :
               allocate_change_effort_branch(e, o, b, t)
        \/ \E o \in Owners \union {NoValue}, r \in Roots :
               allocate_change_effort_worktree(e, o, r)
        \/ \E s \in Strategies, m \in BOOLEAN : promote_change_effort(e, s, m)
        \/ declare_release(e)

EffortSpec == EffortInit /\ [][EffortNext]_effortVars

-----------------------------------------------------------------------------
EffortTypeOK ==
    /\ Existing \subseteq Efforts
    /\ \A e \in Existing :
           /\ efforts[e].status \in EffortStatuses
           /\ efforts[e].branch \in {NoValue, Prefix[e]}
           /\ {efforts[e].base, efforts[e].target} \subseteq Branches
    /\ \A p \in promotions : p.effort \in Existing /\ p.strategy \in Strategies
    /\ declared \subseteq Existing

(***************************************************************************)
(* The requests may come in any order and any number of times, and an      *)
(* effort never falls back behind a stage it reached.                      *)
(***************************************************************************)
Stage(status) ==
    CASE status = "created" -> 0
      [] status = "source_resolved" -> 1
      [] status = "branch_allocated" -> 2
      [] status = "worktree_allocated" -> 3
      [] status \in {"ready_for_promotion", "promotion_requested"} -> 4
      [] status = "promoted_to_develop" -> 5

EffortsMoveForward ==
    [][\A e \in Existing : Stage(efforts[e].status) <= Stage(efforts'[e].status)]_effortVars

(***************************************************************************)
(* What an effort says of its promotion is what the promotion rows say: it *)
(* is promoted if and only if one promotion of its branch was completed,   *)
(* and only one ever is, and otherwise it is requested if one is pending.  *)
(* A branch, whose name keeps only part of the effort's id, belongs to one *)
(* effort, and has one pending promotion per strategy at most.             *)
(***************************************************************************)
PromotionsOf(e, states) == {p \in promotions : p.effort = e /\ p.status \in states}

PromotedIsRecorded ==
    /\ \A e \in Existing :
           /\ Cardinality(PromotionsOf(e, {"completed"})) =
                  IF efforts[e].status = "promoted_to_develop" THEN 1 ELSE 0
           /\ efforts[e].status = "promotion_requested" =>
                  PromotionsOf(e, PendingStates) # {}
           /\ PromotionsOf(e, PendingStates) # {} =>
                  efforts[e].status \in {"promotion_requested", "promoted_to_develop"}
    /\ \A e, f \in Existing :
           e # f /\ efforts[e].branch # NoValue => efforts[e].branch # efforts[f].branch
    /\ \A p, q \in promotions :
           p # q /\ p.from = q.from /\ {p.status, q.status} \subseteq PendingStates =>
               p.strategy # q.strategy
=============================================================================
