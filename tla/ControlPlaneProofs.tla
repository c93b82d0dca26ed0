------------------------- MODULE ControlPlaneProofs -------------------------
(***************************************************************************)
(* The control plane as a whole, for any values of its constants.  The     *)
(* parts share no state, so the inductive invariants of the parts, side by *)
(* side, are one of the whole; a part that is not in focus rests, and does *)
(* not leave its invariant, except for the smoke test: what it rests in is *)
(* no state of a test that runs, and is named by itself.                   *)
(***************************************************************************)
EXTENDS MCControlPlane, ServiceProofs, DeploymentProofs, RequestProofs, TLAPS

ExercisePart == IF focus = "exercise" THEN ExerciseInv ELSE ExerciseRests

ControlInv ==
    /\ McpInv /\ EffortInv /\ ReleaseInv /\ InstanceInv /\ LocationInv /\ TrailInv
    /\ FeedInv /\ AnchorIsVisible
    /\ SourceInv /\ ScanIsLimited
    /\ ExercisePart
    /\ RevisionInv /\ RevisionRowsFit
    /\ StartupInv /\ StartupRowsFit
    /\ MountInv /\ MountedArePlanned

-----------------------------------------------------------------------------
(* A step of the whole is a step of every part, or leaves it alone.        *)
LEMMA PartsMove ==
    ASSUME [ControlNext]_controlVars
    PROVE  /\ [McpNext]_mcpVars /\ [EffortNext]_effortVars /\ [ReleaseNext]_releaseVars
           /\ [InstanceNext]_instanceVars /\ [LocationNext]_locationVars
           /\ [TrailNext]_trailVars /\ [FeedNext]_feedVars /\ [SourceNext]_sourceVars
           /\ [ExerciseNext]_exerciseVars /\ [RevisionNext]_revisionVars
           /\ [StartupNext]_startupVars /\ [MountNext]_mountVars
           /\ UNCHANGED focus /\ (focus # "exercise" => UNCHANGED exerciseVars)
BY DEF ControlNext, controlVars, Idles

(* A scan of nothing is one that begins.                                   *)
LEMMA SourcesAtRest == SourcesRest => SourceInit
<1> SUFFICES ASSUME SourcesRest PROVE SourceInit
  OBVIOUS
<1>1. dirs = {} /\ source.hints = <<>> /\ source.repo = "none"
  BY DEF SourcesRest
<1>2. Candidates = {}
  BY <1>1 DEF Candidates, Provenance, _candidate_provenance_roots, _candidate_source_roots
<1>3. <<".">> \in PathCandidates
  BY DEF PathCandidates
<1>4. source \in [repo : {"none", "repo_key", "repo_url"}, paths : PathCandidates,
                  hints : {<<>>} \union {<<d>> : d \in dirs}, packaged : BOOLEAN]
  BY <1>3 DEF SourcesRest
<1> QED
  BY <1>1, <1>2, <1>4 DEF SourcesRest, SourceInit

(* Without bindings nothing is routed.                                     *)
LEMMA MountsAtRest == MountsRest => MountInv /\ MountedArePlanned
<1> SUFFICES ASSUME MountsRest PROVE MountInv /\ MountedArePlanned
  OBVIOUS
<1>1. /\ bindings = <<>> /\ planned = {} /\ mounted = <<>> /\ DOMAIN mounted = {}
      /\ role_jobs = {} /\ loader = [at |-> "fetch", next |-> 1]
  BY DEF MountsRest
<1>2. bindings \in Seq(BindingSet) /\ mounted \in Seq(MountRow)
  BY <1>1
<1>3. MountsFit
  BY <1>1, <1>2 DEF MountsFit
<1> QED
  BY <1>1, <1>3 DEF MountInv, MountedArePlanned, RootUiHidesNothing, RootIsOfOneArtifact,
     RootUiComesLast

LEMMA ControlStart == ControlInit => ControlInv
<1> SUFFICES ASSUME ControlInit PROVE ControlInv
  OBVIOUS
<1>1. /\ McpInit /\ EffortInit /\ TrailInit /\ FeedInit /\ RevisionInit /\ ReleaseInit
      /\ InstanceInit /\ LocationInit /\ StartupInit
  BY DEF ControlInit
<1>2. /\ McpInv /\ EffortInv /\ ReleaseInv /\ InstanceInv /\ LocationInv /\ TrailInv
      /\ FeedInv /\ RevisionInv /\ RevisionRowsFit /\ StartupInv /\ StartupRowsFit
  BY <1>1, McpStart, EffortInitInv, ReleaseStart, InstanceStart, LocationInitInv, TrailStart,
     FeedInvInit, RevisionStart, RevisionRowsStart, StartupStart, StartupRowsStart
<1>3. AnchorIsVisible
  BY <1>1 DEF FeedInit, AnchorIsVisible
<1>4. SourceInv /\ ScanIsLimited
  BY SourcesAtRest, SourceInvInit, ScanStart DEF ControlInit
<1>5. ExercisePart
  BY ExerciseStart DEF ControlInit, ExercisePart
<1>6. MountInv /\ MountedArePlanned
  BY MountsAtRest, MountInvInit, MountedStart DEF ControlInit
<1> QED
  BY <1>2, <1>3, <1>4, <1>5, <1>6 DEF ControlInv

LEMMA ControlStep == ControlInv /\ [ControlNext]_controlVars => ControlInv'
<1> SUFFICES ASSUME ControlInv, [ControlNext]_controlVars PROVE ControlInv'
  OBVIOUS
<1>1. McpInv' /\ EffortInv' /\ ReleaseInv'
  BY PartsMove, McpStep, EffortNextInv, ReleaseStep DEF ControlInv
<1>2. InstanceInv' /\ LocationInv' /\ TrailInv'
  BY PartsMove, InstanceStep, LocationNextInv, TrailStep DEF ControlInv
<1>3. FeedInv' /\ AnchorIsVisible'
  BY PartsMove, FeedStep, AnchorStep DEF ControlInv
<1>4. SourceInv' /\ ScanIsLimited'
  BY PartsMove, SourceStep, ScanStep DEF ControlInv
<1>5. ExercisePart'
  <2>1. CASE focus = "exercise"
    <3>1. ExerciseInv /\ [ExerciseNext]_exerciseVars /\ UNCHANGED focus
      BY <2>1, PartsMove DEF ControlInv, ExercisePart
    <3> QED
      BY <2>1, <3>1, ExerciseStep DEF ExercisePart
  <2>2. CASE focus # "exercise"
    <3>1. ExerciseRests /\ UNCHANGED exerciseVars /\ UNCHANGED focus
      BY <2>2, PartsMove DEF ControlInv, ExercisePart
    <3>2. ExerciseRests'
      BY <3>1 DEF ExerciseRests, exerciseVars
    <3> QED
      BY <2>2, <3>1, <3>2 DEF ExercisePart
  <2> QED
    BY <2>1, <2>2
<1>6. RevisionInv' /\ RevisionRowsFit'
  BY PartsMove, RevisionStep, RevisionRowsStep DEF ControlInv
<1>7. StartupInv' /\ StartupRowsFit'
  BY PartsMove, StartupStep, StartupRowsStep DEF ControlInv
<1>8. MountInv' /\ MountedArePlanned'
  BY PartsMove, MountStep, MountedStep DEF ControlInv
<1> QED
  BY <1>1, <1>2, <1>3, <1>4, <1>5, <1>6, <1>7, <1>8 DEF ControlInv

(* The smoke test that rests has the types of one that runs.               *)
LEMMA ExerciseAtRest == ExerciseRests => ExerciseTypeOK
<1> SUFFICES ASSUME ExerciseRests PROVE ExerciseTypeOK
  OBVIOUS
<1>1. app.deps \in [Entities -> SUBSET Entities]
  BY DEF ExerciseRests
<1>2. ToSet(pending.pass) = {} /\ ToSet(pending.all) = {}
  BY DEF ExerciseRests, ToSet
<1>3. /\ created_records \in [Entities -> {NoRecord} \union Statuses]
      /\ actual \in [Entities -> {NoRecord} \union Statuses] /\ verdict = "running"
  BY DEF ExerciseRests
<1> QED
  BY <1>1, <1>2, <1>3 DEF ExerciseTypeOK

(* Type correctness of all parts, in every behaviour of the control plane  *)
(* and for any of its bounds: it follows from the parts' own invariants,   *)
(* so that it holds wherever a kernel ended, a compose command failed, a   *)
(* stream broke or a request overlapped another one.                       *)
THEOREM ControlTypesAreKept == ControlSpec => []ControlTypeOK
<1>1. ControlInv => ControlTypeOK
  <2> SUFFICES ASSUME ControlInv PROVE ControlTypeOK
    OBVIOUS
  <2>1. McpTypeOK /\ EffortTypeOK /\ ReleaseTypeOK /\ InstanceTypeOK /\ LocationTypeOK
    BY McpTypes, ReleaseTypes, InstanceTypes DEF ControlInv, EffortInv, LocationInv
  <2>2. TrailTypeOK /\ FeedTypeOK /\ SourceTypeOK
    BY TrailTypes, FeedTypes, SourceTypes DEF ControlInv
  <2>3. ExerciseTypeOK
    BY ExerciseTypes, ExerciseAtRest DEF ControlInv, ExercisePart
  <2>4. RevisionTypeOK /\ StartupTypeOK /\ MountTypeOK
    BY RevisionTypes, StartupTypes, MountTypes DEF ControlInv
  <2> QED
    BY <2>1, <2>2, <2>3, <2>4 DEF ControlTypeOK
<1> QED
  BY <1>1, ControlStart, ControlStep, PTL DEF ControlSpec

-----------------------------------------------------------------------------
(* What has no fairness runs as it does by itself.                         *)
LEMMA PartsRunAlone ==
    ControlSpec => /\ EffortSpec /\ InstanceSpec /\ LocationSpec /\ TrailSpec /\ SourceSpec
                   /\ RevisionSpec /\ StartupSpec
<1>1. ControlInit => /\ EffortInit /\ InstanceInit /\ LocationInit /\ TrailInit /\ SourceInit
                     /\ RevisionInit /\ StartupInit
  BY SourcesAtRest DEF ControlInit
<1>2. [ControlNext]_controlVars =>
          /\ [EffortNext]_effortVars /\ [InstanceNext]_instanceVars
          /\ [LocationNext]_locationVars /\ [TrailNext]_trailVars /\ [SourceNext]_sourceVars
          /\ [RevisionNext]_revisionVars /\ [StartupNext]_startupVars
  BY PartsMove
<1> QED
  BY <1>1, <1>2, PTL DEF ControlSpec, EffortSpec, InstanceSpec, LocationSpec, TrailSpec,
     SourceSpec, RevisionSpec, StartupSpec

(***************************************************************************)
(* Every safety property of a part holds in the behaviours of the whole,   *)
(* which are those that TLC runs: each part's invariant, and what no step  *)
(* of it does (the code that each is about is named beside the theorem of  *)
(* the part).                                                              *)
(***************************************************************************)
THEOREM ControlPlaneIsSafe ==
    ControlSpec =>
        /\ [](/\ ControlActionOnce /\ PromotedIsRecorded /\ PlansAreWhole /\ RuntimeIsBacked
              /\ TenancyHolds /\ TrailIsTrue /\ FeedIsOrdered /\ ProvenanceIsNotDenied
              /\ PassableAppsPass /\ RootDownIsAccounted /\ RootUiHidesNothing)
        /\ EffortsMoveForward /\ DestroyedStaysDown /\ SpawnUsesItsDatabase
        /\ NoOlderBuildReturns /\ SeedsAreWholeAndKept
<1>1. ControlSpec => []CallInv
  <2>1. ControlInit => CallInv
    BY CallStart DEF ControlInit
  <2>2. CallInv /\ [ControlNext]_controlVars => CallInv'
    BY PartsMove, CallStep
  <2> QED
    BY <2>1, <2>2, PTL DEF ControlSpec
<1>2. ControlSpec => []ControlInv
  BY ControlStart, ControlStep, PTL DEF ControlSpec
<1>3. CallInv => ControlActionOnce
  BY DEF CallInv
<1>4. ControlInv => PlansAreWhole /\ FeedIsOrdered /\ RootUiHidesNothing
  BY FeedFollows DEF ControlInv, ReleaseInv, MountInv
<1>5. ControlInv => PassableAppsPass
  <2>1. ExerciseInv => PassableAppsPass
    BY DEF ExerciseInv, Passable, PassableAppsPass
  <2>2. ExerciseRests => PassableAppsPass
    BY DEF ExerciseRests, PassableAppsPass
  <2> QED
    BY <2>1, <2>2 DEF ControlInv, ExercisePart
<1>6. ControlSpec => [](/\ PromotedIsRecorded /\ RuntimeIsBacked /\ TenancyHolds /\ TrailIsTrue
                        /\ ProvenanceIsNotDenied /\ RootDownIsAccounted)
  BY PartsRunAlone, PromotionIsRecorded, RuntimesAreBacked, TenancyIsKept, TrailsAreTrue,
     ProvenanceIsNeverDenied, RootsAreAccounted, PTL
<1>7. ControlSpec => /\ EffortsMoveForward /\ SpawnUsesItsDatabase /\ NoOlderBuildReturns
                     /\ SeedsAreWholeAndKept
  BY PartsRunAlone, EffortsNeverFallBack, SpawnsUseTheirDatabase, OlderBuildsStayAway,
     SeedsStayWhole, PTL
<1>8. ControlSpec => DestroyedStaysDown
  <2>1. ControlInv /\ [ControlNext]_controlVars =>
            [Gone => Gone' \/ lastOp' = "apply"]_releaseVars
    BY PartsMove, DestroyedStep DEF ControlInv
  <2> QED
    BY <1>2, <2>1, PTL DEF ControlSpec, DestroyedStaysDown
<1> QED
  BY <1>1, <1>2, <1>3, <1>4, <1>5, <1>6, <1>7, <1>8, PTL
=============================================================================
