--------------------------- MODULE LocalInstances ----------------------------
(***************************************************************************)
(* Local instances (core/provisioning_local.py) and the sibling requests   *)
(* on them (core/api/environments.py, core/sibling_runtime_control.py).    *)
(* An instance is a compose project named after the requested name: the    *)
(* siblings of that name in all environments, and the direct requests      *)
(* (POST /local-instance) for it, share one project, one directory with    *)
(* compose.yaml, .env and deployment_state.json, and one set of            *)
(* containers.  This is one name, with databases allocated per sibling     *)
(* (XYN_DB_MODE=external).                                                 *)
(*                                                                         *)
(* The sibling requests never suspend, so the event loop ("loop") serves   *)
(* one at a time; a direct request runs in the thread pool ("thread"),     *)
(* beside them.  Each docker command and each file write is a step.        *)
(***************************************************************************)
EXTENDS Naturals, FiniteSets

CONSTANTS
    Envs,           \* the environments that have a sibling of this name
    Prefer,         \* what provisioning prefers: "none", local "images", "sources"
    NoEnv,
    MaxRequests,    \* bound: requests that start a provisioning
    MaxTroubles     \* bound: commands that fail, crashes

ASSUME InstancesAssumption ==
    /\ NoEnv \notin Envs
    /\ Prefer \subseteq {"none", "images", "sources"}
    /\ MaxRequests \in Nat /\ MaxTroubles \in Nat

VARIABLES
    siblings,       \* per environment the row: its status and deployment
    passwords,      \* per environment how often its role's password was set
    files,          \* compose.yaml and .env: images and DATABASE_URL
    project,        \* what docker holds of the project
    deployed,       \* deployment_state.json: a deployment, 0 if there is none
    tags,           \* which of the two local images exist
    procs,          \* the provisionings under way
    requests, troubles,
    cameUp          \* the deployments whose "up" was successful (history)

instanceVars == <<siblings, passwords, files, project, deployed, tags,
                  procs, requests, troubles, cameUp>>

BothImages == {"api", "ui"}
Processes == {"loop", "thread"}

(* A DATABASE_URL: of an environment's role with one of its passwords, or  *)
(* the control plane's own.                                                *)
Url(env, password) == [env |-> env, password |-> password]
OwnUrl == Url(NoEnv, 0)

NoContainers == [state |-> "none", images |-> "", db |-> OwnUrl]
Free == [stage |-> "idle", id |-> 0, env |-> NoEnv, force |-> FALSE, images |-> ""]

InstanceInit ==
    /\ siblings = [e \in Envs |-> [status |-> "none", deployment |-> 0]]
    /\ passwords = [e \in Envs |-> 0]
    /\ files = [images |-> "", db |-> OwnUrl]
    /\ project = NoContainers
    /\ deployed = 0 /\ tags \in {{}, BothImages}
    /\ procs = [p \in Processes |-> Free]
    /\ requests = 0 /\ troubles = 0 /\ cameUp = {}

Goes(p, stage) == procs' = [procs EXCEPT ![p].stage = stage]
Raises(p) == procs' = [procs EXCEPT ![p] = Free]
Fault == troubles < MaxTroubles /\ troubles' = troubles + 1

Begins(p, env, force) ==
    /\ procs' = [procs EXCEPT ![p] = [Free EXCEPT !.stage = "images", !.env = env,
                                       !.id = requests + 1, !.force = force]]
    /\ UNCHANGED siblings

Record(e, deployment) ==
    siblings' = [siblings EXCEPT ![e] = [status |-> "ready", deployment |-> deployment]]

-----------------------------------------------------------------------------
(* A sibling is spawned: a ready or active one of the name in this         *)
(* environment is the answer unless the request forces a new one.  The     *)
(* allocator sets a new password, also for a role that exists, and an      *)
(* error in it leaves the new password behind.  Then a deployment on disk  *)
(* is reused, whether or not its containers still run.                     *)
spawn_environment_sibling(e, force) ==
    /\ procs["loop"].stage = "idle" /\ requests < MaxRequests
    /\ siblings[e].status \in {"ready", "active"} => force
    /\ requests' = requests + 1
    /\ passwords' = [passwords EXCEPT ![e] = @ + 1]
    /\ \/ /\ Fault
          /\ UNCHANGED <<procs, siblings>>
       \/ /\ deployed # 0 /\ ~force
          /\ Record(e, deployed)
          /\ UNCHANGED <<procs, troubles>>
       \/ /\ deployed = 0 \/ force
          /\ Begins("loop", e, force)
          /\ UNCHANGED troubles
    /\ UNCHANGED <<files, project, deployed, tags, cameUp>>

(* A direct request, which brings no DATABASE_URL.                         *)
local_instance(force) ==
    /\ procs["thread"].stage = "idle" /\ requests < MaxRequests
    /\ deployed = 0 \/ force
    /\ requests' = requests + 1
    /\ Begins("thread", NoEnv, force)
    /\ UNCHANGED <<passwords, files, project, deployed, tags, troubles, cameUp>>

(* What is chosen when there are the local images t: both of them, or the  *)
(* images of the platform's own containers, or those that can be built     *)
(* now, or the registry's; a registry that does not deliver raises.        *)
Chosen(t, chosen, after) ==
    \/ t = BothImages /\ chosen = "local" /\ after = t
    \/ t # BothImages /\ chosen = "running" /\ after = t
    \/ /\ t # BothImages
       /\ \E built \in SUBSET BothImages :
              /\ after = t \union built
              /\ chosen \in IF after = BothImages THEN {"local"} ELSE {"registry", "raise"}

(* With the preference for sources both images are built anew; if a build  *)
(* fails although the sources of both are there, that is an error.         *)
_resolve_images_for_provision(prefer, chosen, after) ==
    \/ prefer = "none" /\ chosen \in {"registry", "raise"} /\ after = tags
    \/ prefer = "images" /\ Chosen(tags, chosen, after)
    \/ /\ prefer = "sources"
       /\ \E built \in SUBSET BothImages :
              \/ built = BothImages /\ chosen = "local" /\ after = BothImages
              \/ built # BothImages /\ chosen = "raise" /\ after = tags \union built
              \/ built # BothImages /\ Chosen(tags \union built, chosen, after)

ResolveImages(p) ==
    /\ procs[p].stage = "images"
    /\ \E prefer \in Prefer, chosen \in {"local", "running", "registry", "raise"},
          after \in SUBSET BothImages :
           /\ _resolve_images_for_provision(prefer, chosen, after)
           /\ tags' = after
           /\ IF chosen = "raise" THEN Fault /\ Raises(p)
              ELSE /\ procs' = [procs EXCEPT ![p].stage = "write", ![p].images = chosen]
                   /\ UNCHANGED troubles
    /\ UNCHANGED <<siblings, passwords, files, project, deployed, requests, cameUp>>

(* The url that process p has for its commands: that of its sibling.       *)
UrlOf(p) == IF procs[p].env = NoEnv THEN OwnUrl
            ELSE Url(procs[p].env, passwords[procs[p].env])

(* compose.yaml and then .env: the other process may write between.        *)
WriteCompose(p) ==
    /\ procs[p].stage = "write" /\ Goes(p, "env")
    /\ files' = [files EXCEPT !.images = procs[p].images]
    /\ UNCHANGED <<siblings, passwords, project, deployed, tags, requests, troubles, cameUp>>

_write_compose_env_file(p) ==
    /\ procs[p].stage = "env"
    /\ files' = [files EXCEPT !.db = UrlOf(p)]
    /\ Goes(p, IF procs[p].force THEN "down" ELSE "up")
    /\ UNCHANGED <<siblings, passwords, project, deployed, tags, requests, troubles, cameUp>>

(* "down", whose exit code nobody looks at, and the pull of images that    *)
(* are not local, whose failure ends the request.                          *)
DownAndPull(p) ==
    /\ procs[p].stage = "down"
    /\ \/ project' = NoContainers /\ Goes(p, "up") /\ UNCHANGED troubles
       \/ Fault /\ Goes(p, "up") /\ UNCHANGED project
       \/ /\ procs[p].images = "registry"
          /\ Fault /\ Raises(p) /\ project' = NoContainers
    /\ UNCHANGED <<siblings, passwords, files, deployed, tags, requests, cameUp>>

\* Mutant: the command takes DATABASE_URL from the file, not from its own
\* environment.
UrlInForceFromFile(p) == files.db

(* The process environment of the command beats the .env file; a direct    *)
(* request sets none and leaves it to the file.                            *)
UrlInForce(p) == IF procs[p].env = NoEnv THEN files.db ELSE UrlOf(p)

\* Mutant: a failed "up" is only found out after the state was saved.
UpUnchecked(p) ==
    LET up == [state |-> "up", images |-> files.images, db |-> UrlInForce(p)]
    IN  /\ procs[p].stage = "up"
        /\ \/ /\ project' = up /\ Goes(p, "finish")
              /\ cameUp' = cameUp \union {procs[p].id}
              /\ UNCHANGED troubles
           \/ /\ project' = [up EXCEPT !.state = "partial"]
              /\ Fault /\ Goes(p, "finish")
              /\ UNCHANGED cameUp
        /\ UNCHANGED <<siblings, passwords, files, deployed, tags, requests>>

(* "up" on the files as they are now, then the default agent is set up     *)
(* inside; a failure of either is an error of the request.                 *)
Up(p) ==
    LET up == [state |-> "up", images |-> files.images, db |-> UrlInForce(p)]
    IN  /\ procs[p].stage = "up"
        /\ \/ /\ project' = up
              /\ cameUp' = cameUp \union {procs[p].id}
              /\ \/ Goes(p, "finish") /\ UNCHANGED troubles
                 \/ Fault /\ Raises(p)
           \/ /\ project' = [up EXCEPT !.state = "partial"]
              /\ Fault /\ Raises(p)
              /\ UNCHANGED cameUp
        /\ UNCHANGED <<siblings, passwords, files, deployed, tags, requests>>

(* The workspace is made inside the instance, with an error if that fails, *)
(* and the state is saved.                                                 *)
Finish(p) ==
    /\ procs[p].stage = "finish"
    /\ \/ /\ deployed' = procs[p].id
          /\ IF p = "loop" THEN Goes(p, "record") ELSE Raises(p)
          /\ UNCHANGED troubles
       \/ Fault /\ Raises(p) /\ UNCHANGED deployed
    /\ UNCHANGED <<siblings, passwords, files, project, tags, requests, cameUp>>

(* The sibling's row is written; one that this environment has for the     *)
(* project is used again.                                                  *)
upsert_sibling ==
    /\ procs["loop"].stage = "record"
    /\ Record(procs["loop"].env, procs["loop"].id)
    /\ Raises("loop")
    /\ UNCHANGED <<passwords, files, project, deployed, tags, requests, troubles, cameUp>>

-----------------------------------------------------------------------------
(* Restart and stop name the project of a row and work on its containers,  *)
(* whosever they are; without containers they are refused.                 *)
Controls(e) ==
    /\ procs["loop"].stage = "idle"
    /\ siblings[e].deployment # 0 /\ project.state # "none"
    /\ UNCHANGED <<passwords, files, deployed, tags, procs, requests, cameUp>>

restart_sibling(e) ==
    /\ Controls(e)
    /\ \/ /\ project' = [project EXCEPT !.state = IF @ = "exited" THEN "up" ELSE @]
          /\ siblings' = [siblings EXCEPT ![e].status = "active"]
          /\ UNCHANGED troubles
       \/ Fault /\ UNCHANGED <<siblings, project>>

(* With remove_volumes the containers are removed before the networks and  *)
(* volumes: if those fail the request does, and leaves no container.       *)
stop_sibling(e, remove) ==
    /\ Controls(e)
    /\ \/ /\ project' = IF remove THEN NoContainers
                           ELSE [project EXCEPT !.state = "exited"]
          /\ siblings' = [siblings EXCEPT ![e].status = "stopped"]
          /\ UNCHANGED troubles
       \/ remove /\ Fault /\ project' = NoContainers /\ UNCHANGED siblings

(* The process of the API dies with all its requests; a state file that is *)
(* half written counts as none.                                            *)
ApiCrash ==
    /\ \E p \in Processes : procs[p].stage # "idle"
    /\ Fault
    /\ procs' = [p \in Processes |-> Free]
    /\ \/ UNCHANGED deployed
       \/ deployed' = 0 /\ \E p \in Processes : procs[p].stage = "finish"
    /\ UNCHANGED <<siblings, passwords, files, project, tags, requests, cameUp>>

Provisioning(p) ==
    \/ ResolveImages(p) \/ WriteCompose(p) \/ _write_compose_env_file(p)
    \/ DownAndPull(p) \/ Up(p) \/ Finish(p)

InstanceNext ==
    \/ \E e \in Envs, force \in BOOLEAN : spawn_environment_sibling(e, force)
    \/ \E force \in BOOLEAN : local_instance(force)
    \/ \E p \in Processes : Provisioning(p)
    \/ upsert_sibling
    \/ \E e \in Envs : restart_sibling(e)
    \/ \E e \in Envs, remove \in BOOLEAN : stop_sibling(e, remove)
    \/ ApiCrash

InstanceSpec == InstanceInit /\ [][InstanceNext]_instanceVars

-----------------------------------------------------------------------------
InstanceTypeOK ==
    /\ \A e \in Envs : /\ siblings[e].status \in {"none", "ready", "active", "stopped"}
                       /\ siblings[e].deployment \in 0..MaxRequests
                       /\ passwords[e] \in 0..MaxRequests
    /\ project.state \in {"none", "up", "partial", "exited"}
    /\ deployed \in 0..MaxRequests /\ tags \subseteq BothImages
    /\ \A p \in Processes : procs[p].stage \in
           {"idle", "images", "write", "env", "down", "up", "finish", "record"}
    /\ procs["thread"].env = NoEnv
    /\ requests \in 0..MaxRequests /\ troubles \in 0..MaxTroubles

(***************************************************************************)
(* Whatever fails or crashes and whichever requests overlap, a saved state *)
(* (which later requests reuse unseen) and a sibling that is not "none"    *)
(* name a deployment that did come up; and the project is never put on     *)
(* local images of which one does not exist.                               *)
(***************************************************************************)
RuntimeIsBacked ==
    /\ deployed # 0 => deployed \in cameUp
    /\ \A e \in Envs : siblings[e].status # "none" => siblings[e].deployment \in cameUp
    /\ files.images = "local" => tags = BothImages

(***************************************************************************)
(* When a spawn has brought the containers up, they have the database of   *)
(* its own environment, with the password that was allocated for it, also  *)
(* if another request wrote the .env file of the shared project between.   *)
(***************************************************************************)
SpawnUsesItsDatabase ==
    [][LET p == procs["loop"]
       IN  p.stage = "up" /\ procs'["loop"].stage = "finish" =>
               project'.db = Url(p.env, passwords[p.env])]_instanceVars
=============================================================================
