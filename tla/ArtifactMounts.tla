---------------------------- MODULE ArtifactMounts ----------------------------
(***************************************************************************)
(* The kernel takes the artifacts installed in its workspace into the      *)
(* running application (core/kernel_loader.py): it fetches the bindings,   *)
(* reads the manifest of each, refuses two artifacts that both want "/",   *)
(* and registers the roles one by one, routers first and the user          *)
(* interface at "/" last, because the first route that matches a request   *)
(* answers it.  Anything that raises ends the start of the kernel.         *)
(***************************************************************************)
EXTENDS Naturals, Sequences, SequencesExt

CONSTANTS
    SubPaths,         \* paths that a role may ask for, besides "/" and "none"
    MaxArtifacts,   \* bound: bindings
    MaxRoles        \* bound: roles of all manifests together

VARIABLES
    bindings,   \* the bindings of the workspace, with their manifests
    planned,    \* indexes of the bindings whose manifest was read
    loader,     \* [at, next]: where the loading is
    role_jobs,  \* roles that are yet to be registered
    mounted     \* roles that are routed, in the order of the routes

mountVars == <<bindings, planned, loader, role_jobs, mounted>>

\* "form" is what the entrypoint or the ui role turns out to be.
RoleRecords ==
    [role : {"api_router"}, path : SubPaths \cup {"none", "/"}, form : {"router", "asgi"}]
    \cup [role : {"ui_mount"}, path : SubPaths \cup {"none", "/"}, form : {"served", "broken"}]
    \cup {[role |-> "worker", path |-> "none", form |-> "served"]}

\* Why a binding is passed over, or "none" if it is not.
Flaws == {"disabled", "not installed", "no manifest", "unreadable"}

BindingSet ==
    [flaw : {"none"}, roles : UNION {[1..n -> RoleRecords] : n \in 0..MaxRoles}]
    \cup [flaw : Flaws, roles : {<<>>}]

RoleCount == FoldLeft(LAMBDA n, b : n + Len(b.roles), 0, bindings)

MountInit ==
    /\ bindings \in UNION {[1..n -> BindingSet] : n \in 0..MaxArtifacts}
    /\ RoleCount <= MaxRoles
    /\ planned = {} /\ role_jobs = {} /\ mounted = <<>>
    /\ loader = [at |-> "fetch", next |-> 1]

-----------------------------------------------------------------------------
_role_mount_path(role) == IF role.role = "ui_mount" /\ role.path = "none" THEN "/" ELSE role.path

_role_priority(role) ==
    CASE role.role = "api_router" -> 0
      [] role.role = "ui_mount" /\ _role_mount_path(role) # "/" -> 1
      [] role.role = "ui_mount" /\ _role_mount_path(role) = "/" -> 2
      [] OTHER -> 3

\* The roles of the manifests that were read.
Jobs == UNION {{[artifact |-> a, place |-> i, role |-> bindings[a].roles[i]] :
                    i \in DOMAIN bindings[a].roles} : a \in planned}

\* In one manifest, roles of one priority keep their order.
InManifest(j, k) ==
    \/ _role_priority(j.role) < _role_priority(k.role)
    \/ _role_priority(j.role) = _role_priority(k.role) /\ j.place < k.place

\* Mutant: artifact by artifact, each in the order of its priorities.
ByArtifact(j, k) ==
    \/ j.artifact < k.artifact
    \/ j.artifact = k.artifact /\ InManifest(j, k)

\* By priority, then by the order of the bindings, then by that of the manifest.
Sorted(j, k) ==
    \/ _role_priority(j.role) < _role_priority(k.role)
    \/ _role_priority(j.role) = _role_priority(k.role) /\ j.artifact < k.artifact
    \/ j.artifact = k.artifact /\ InManifest(j, k)

LoadingRaises == loader' = [loader EXCEPT !.at = "raised"]

-----------------------------------------------------------------------------
_fetch_workspace_artifacts ==
    /\ loader.at = "fetch"
    /\ loader' = [loader EXCEPT !.at = "plan"] \/ LoadingRaises
    /\ UNCHANGED <<bindings, planned, role_jobs, mounted>>

PlanBinding ==
    /\ loader.at = "plan" /\ loader.next <= Len(bindings)
    /\ planned' = IF bindings[loader.next].flaw = "none" THEN planned \union {loader.next} ELSE planned
    /\ loader' = [loader EXCEPT !.next = @ + 1]
    /\ UNCHANGED <<bindings, role_jobs, mounted>>

RootArtifacts == {j.artifact : j \in {j \in Jobs : _role_mount_path(j.role) = "/"}}

_validate_root_mount_collisions ==
    /\ loader.at = "plan" /\ loader.next > Len(bindings)
    /\ IF \E a, b \in RootArtifacts : a # b THEN LoadingRaises /\ UNCHANGED role_jobs
       ELSE loader' = [loader EXCEPT !.at = "register"] /\ role_jobs' = Jobs
    /\ UNCHANGED <<bindings, planned, mounted>>

Registering(job, name) ==
    /\ loader.at = "register" /\ job \in role_jobs /\ job.role.role = name
    /\ \A other \in role_jobs \ {job} : Sorted(job, other)
    /\ UNCHANGED <<bindings, planned>>

Mount(job, path) ==
    /\ mounted' = Append(mounted, [artifact |-> job.artifact, role |-> job.role.role, path |-> path])
    /\ role_jobs' = role_jobs \ {job} /\ UNCHANGED loader

RegistrationRaises == LoadingRaises /\ UNCHANGED <<role_jobs, mounted>>

\* A router's routes come in under its prefix; another application takes the whole
\* path, "/" if it names none, or its entrypoint cannot be loaded.
_register_api_router(job) ==
    /\ Registering(job, "api_router")
    /\ \/ Mount(job, IF job.role.form = "asgi" /\ job.role.path = "none" THEN "/" ELSE job.role.path)
       \/ RegistrationRaises

\* Files or a proxy; a role that has neither ends the loading.
_register_ui_mount(job) ==
    /\ Registering(job, "ui_mount")
    /\ IF job.role.form = "served" THEN Mount(job, _role_mount_path(job.role))
       ELSE RegistrationRaises

\* Noted, and not activated.
AcknowledgeWorker(job) ==
    /\ Registering(job, "worker")
    /\ role_jobs' = role_jobs \ {job}
    /\ UNCHANGED <<loader, mounted>>

load_workspace_artifacts_into_app ==
    /\ loader.at = "register" /\ role_jobs = {}
    /\ loader' = [loader EXCEPT !.at = "loaded"]
    /\ UNCHANGED <<bindings, planned, role_jobs, mounted>>

MountNext ==
    \/ _fetch_workspace_artifacts \/ PlanBinding \/ _validate_root_mount_collisions
    \/ \E job \in role_jobs :
          _register_api_router(job) \/ _register_ui_mount(job) \/ AcknowledgeWorker(job)
    \/ load_workspace_artifacts_into_app

MountSpec == MountInit /\ [][MountNext]_mountVars

-----------------------------------------------------------------------------
MountTypeOK ==
    /\ bindings \in Seq(BindingSet)
    /\ planned \subseteq DOMAIN bindings /\ role_jobs \subseteq Jobs
    /\ loader.at \in {"fetch", "plan", "register", "raised", "loaded"}
    /\ \A i \in DOMAIN mounted : mounted[i].artifact \in planned

(***************************************************************************)
(* A user interface at "/" answers every request that comes to it, so only *)
(* a second one of the same artifact may stand behind it: the priorities   *)
(* and the check for two artifacts at "/" together see to that, whatever   *)
(* the order of the bindings and of the roles in a manifest.               *)
(***************************************************************************)
RootUiHidesNothing ==
    \A i, j \in DOMAIN mounted :
       i < j /\ mounted[i].role = "ui_mount" /\ mounted[i].path = "/" =>
          mounted[j].artifact = mounted[i].artifact /\ mounted[j].path = "/"
=============================================================================
