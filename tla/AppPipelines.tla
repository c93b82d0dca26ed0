---------------------------- MODULE AppPipelines ----------------------------
(***************************************************************************)
(* What the kernel promises of the pipelines that build and roll out apps, *)
(* without jobs, transactions or a worker thread: a draft is built by one  *)
(* pipeline and an activation rolled out by one, an idempotency key has    *)
(* one activation, the stages of a pipeline follow one another without a   *)
(* gap or a repetition, and one stage runs at a time in all of them.       *)
(* JobPipeline is compared with this specification.                        *)
(***************************************************************************)
EXTENDS Sequences

CONSTANTS
    DraftIds,   \* identifiers a draft can be created under
    Keys,       \* the idempotency keys that clients send
    NoKey       \* what an activation has that none was sent for

VARIABLES
    builds,     \* the pipeline that builds each draft
    rollouts,   \* the pipeline that rolls out each activation
    keys        \* the idempotency key of each activation

pipelines == <<builds, rollouts, keys>>

Stages == {"generate_app_spec", "deploy_app_local", "provision_sibling_xyn",
           "smoke_test"}

After(stage) ==
    CASE stage = "generate_app_spec" -> {"deploy_app_local"}
      [] stage = "deploy_app_local" -> {"provision_sibling_xyn"}
      [] stage = "provision_sibling_xyn" -> {"smoke_test"}
      [] stage = "smoke_test" -> {}

\* A pipeline says of each stage whether it is "queued", "running", "succeeded" or
\* "failed"; before that it is "none".
Unused == [s \in Stages |-> "none"]

Started(stage) == [Unused EXCEPT ![stage] = "queued"]

PipelinesInit ==
    /\ builds = [d \in DraftIds |-> Unused]
    /\ rollouts = <<>> /\ keys = <<>>

-----------------------------------------------------------------------------
(* Requests.                                                               *)

\* A draft is submitted, and its build is queued.
Build(d) ==
    /\ builds[d] = Unused
    /\ builds' = [builds EXCEPT ![d] = Started("generate_app_spec")]
    /\ UNCHANGED <<rollouts, keys>>

\* An activation comes to be, with nothing queued for it yet.
Opens(key) ==
    /\ keys' = Append(keys, key)
    /\ rollouts' = Append(rollouts, Unused)

\* A client asks for one, with a key that none has, or with no key.
Activate(key) ==
    /\ key = NoKey \/ \A a \in DOMAIN keys : keys[a] # key
    /\ Opens(key)
    /\ UNCHANGED builds

\* The deployment of an activation is queued.
RollOut(a) ==
    /\ rollouts[a] = Unused
    /\ rollouts' = [rollouts EXCEPT ![a] = Started("deploy_app_local")]
    /\ UNCHANGED <<builds, keys>>

-----------------------------------------------------------------------------
(* Work.                                                                   *)

AllRest ==
    \A s \in Stages : /\ \A d \in DraftIds : builds[d][s] # "running"
                      /\ \A a \in DOMAIN rollouts : rollouts[a][s] # "running"

\* The pipeline p once its stage s has succeeded: the next stage is queued.
Advanced(p, s) ==
    [t \in Stages |-> IF t = s THEN "succeeded"
                     ELSE IF t \in After(s) THEN "queued" ELSE p[t]]

\* What work on the stage s makes of the pipeline p: it begins if nothing else runs,
\* and then fails, with nothing after it, or succeeds, with the next stage, which
\* nobody has queued, after it.
Worked(p, s) ==
    CASE p[s] = "queued" /\ AllRest -> {[p EXCEPT ![s] = "running"]}
      [] p[s] = "running" ->
             {[p EXCEPT ![s] = "failed"]}
               \cup {q \in {Advanced(p, s)} : \A t \in After(s) : p[t] = "none"}
      [] OTHER -> {}

\* A draft has no activation until the provisioning of its app reports to one.
WorkOnBuild(d, s) ==
    /\ \E p \in Worked(builds[d], s) : builds' = [builds EXCEPT ![d] = p]
    /\ \/ UNCHANGED <<rollouts, keys>>
       \/ s = "provision_sibling_xyn" /\ builds[d][s] = "running" /\ Opens(NoKey)

WorkOnRollout(a, s) ==
    /\ \E p \in Worked(rollouts[a], s) : rollouts' = [rollouts EXCEPT ![a] = p]
    /\ UNCHANGED <<builds, keys>>

-----------------------------------------------------------------------------
PipelinesNext ==
    \/ \E d \in DraftIds : Build(d) \/ \E s \in Stages : WorkOnBuild(d, s)
    \/ \E key \in Keys \cup {NoKey} : Activate(key)
    \/ \E a \in DOMAIN rollouts : RollOut(a) \/ \E s \in Stages : WorkOnRollout(a, s)

PipelinesSpec == PipelinesInit /\ [][PipelinesNext]_pipelines
=============================================================================
