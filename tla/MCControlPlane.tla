--------------------------- MODULE MCControlPlane ---------------------------
(***************************************************************************)
(* The parts of the control plane around the run and job queues.  They     *)
(* share no state, so a behaviour exercises one of them, its "focus", and  *)
(* the others rest in one fixed state: the states of the run are the sum   *)
(* of theirs and not the product.                                          *)
(***************************************************************************)
EXTENDS McpDelivery, ChangeEfforts, Releases, LocalInstances, Locations,
        RunTrail, EventFeed, SourceResolution, ContractExercise,
        AppRevisions, KernelStartup, ArtifactMounts

CONSTANTS b1, b2, b3, e1, e2, p1

VARIABLE focus

MCBases == <<b1, b2, b3>>
MCPrefix == [e \in {e1, e2} |-> p1]
MCRepoRoots == <<"mirror", "checkout">>
MCContracts == <<"poll", "member", "vote">>
MCRelations == [poll |-> {{}, {"member"}}, member |-> {{}, {"poll"}},
                vote |-> {{"poll"}, {"poll", "member"}}]
MCGates == {{1}, {3}}
MCConfigs == {[autoCreate |-> TRUE, strict |-> TRUE], [autoCreate |-> FALSE, strict |-> FALSE]}

Parts == {"mcp", "efforts", "releases", "instances", "locations", "trail",
          "feed", "sources", "exercise", "revisions", "startup", "mounts"}

Idles(part, vars) == focus # part /\ UNCHANGED vars

SourcesRest ==
    /\ dirs = {} /\ resolved = NoAnswer
    /\ source = [repo |-> "none", paths |-> <<".">>, hints |-> <<>>, packaged |-> FALSE]
    /\ scan = [left |-> {}, seen |-> {}, files |-> << >>, selected |-> <<>>,
               count |-> 0, truncated |-> FALSE]

ExerciseRests ==
    /\ app = [deps |-> [e \in Entities |-> {}],
              gate |-> [e \in Entities |->
                           [kind |-> "open", parent |-> e, statuses |-> {}]],
              guarded |-> FALSE, updates |-> {}]
    /\ pending = [all |-> <<>>, pass |-> <<>>, progressed |-> FALSE, stage |-> "gate"]
    /\ created_records = [e \in Entities |-> NoRecord]
    /\ actual = [e \in Entities |-> NoRecord] /\ verdict = "running"

MountsRest ==
    /\ bindings = <<>> /\ planned = {} /\ role_jobs = {} /\ mounted = <<>>
    /\ loader = [at |-> "fetch", next |-> 1]

ControlInit ==
    /\ focus \in Parts
    /\ McpInit /\ EffortInit /\ TrailInit /\ FeedInit /\ RevisionInit
    /\ ReleaseInit /\ (focus # "releases" => output = "array")
    /\ InstanceInit /\ (focus # "instances" => tags = {})
    /\ LocationInit /\ (focus # "locations" => workspaces = {})
    /\ IF focus = "sources" THEN SourceInit ELSE SourcesRest
    /\ IF focus = "exercise" THEN ExerciseInit ELSE ExerciseRests
    /\ StartupInit /\ config \in MCConfigs /\ (focus # "startup" => config.strict)
    /\ IF focus = "mounts" THEN MountInit ELSE MountsRest

ControlNext ==
    /\ UNCHANGED focus
    /\ (focus = "mcp" /\ McpNext) \/ Idles("mcp", mcpVars)
    /\ (focus = "efforts" /\ EffortNext) \/ Idles("efforts", effortVars)
    /\ (focus = "releases" /\ ReleaseNext) \/ Idles("releases", releaseVars)
    /\ (focus = "instances" /\ InstanceNext) \/ Idles("instances", instanceVars)
    /\ (focus = "locations" /\ LocationNext) \/ Idles("locations", locationVars)
    /\ (focus = "trail" /\ TrailNext) \/ Idles("trail", trailVars)
    /\ (focus = "feed" /\ FeedNext) \/ Idles("feed", feedVars)
    /\ (focus = "sources" /\ SourceNext) \/ Idles("sources", sourceVars)
    /\ (focus = "exercise" /\ ExerciseNext) \/ Idles("exercise", exerciseVars)
    /\ (focus = "revisions" /\ RevisionNext) \/ Idles("revisions", revisionVars)
    /\ (focus = "startup" /\ StartupNext) \/ Idles("startup", startupVars)
    /\ (focus = "mounts" /\ MountNext) \/ Idles("mounts", mountVars)

controlVars == <<focus, mcpVars, effortVars, releaseVars, instanceVars,
                 locationVars, trailVars, feedVars, sourceVars, exerciseVars,
                 revisionVars, startupVars, mountVars>>

(* The fairness of the three parts that have one, while they are in focus. *)
ControlSpec ==
    /\ ControlInit /\ [][ControlNext]_controlVars
    /\ WF_mcpVars(focus = "mcp" /\ Exchange)
    /\ WF_releaseVars(focus = "releases" /\ reconcile_once)
    /\ WF_feedVars(focus = "feed" /\ stream_events)
    /\ WF_feedVars(focus = "feed" /\ Reconnect)

(***************************************************************************)
(* Every part keeps the types of its state.                                *)
(***************************************************************************)
ControlTypeOK ==
    /\ McpTypeOK /\ EffortTypeOK /\ ReleaseTypeOK /\ InstanceTypeOK
    /\ LocationTypeOK /\ TrailTypeOK /\ FeedTypeOK /\ SourceTypeOK
    /\ ExerciseTypeOK /\ RevisionTypeOK /\ StartupTypeOK /\ MountTypeOK
=============================================================================
