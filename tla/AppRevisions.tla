---------------------------- MODULE AppRevisions ----------------------------
(***************************************************************************)
(* What the jobs of the app-intent pipeline do outside the database when   *)
(* one app is built and activated more than once: core/app_jobs.py,        *)
(* core/runtime/deploy_local.py, core/runtime/provision_sibling.py and     *)
(* core/runtime/smoke_test.py.  All builds of an app share one package     *)
(* file, one entry in the catalog of the root platform and one root        *)
(* runtime, and provisionings may share a sibling; each build overwrites   *)
(* what the one before left, while the jobs of several chains take turns   *)
(* in the queue.  JobPipeline has the rows of these jobs; here are the     *)
(* steps inside a stage, between any two of which the process may stop.    *)
(*                                                                         *)
(* A build is a number, which stands for its revision id too; 0 is none.   *)
(***************************************************************************)
EXTENDS Naturals, Sequences, FiniteSets

CONSTANTS
    MaxBuilds,      \* bound: builds of the app
    MaxActivations, \* bound: builds that are activated once more
    MaxSetbacks     \* bound: stages that raise, imports let pass, stops of the process

ASSUME RevisionsAssumption ==
    MaxBuilds \in Nat /\ MaxActivations \in Nat /\ MaxSetbacks \in Nat

VARIABLES
    tasks,      \* the jobs, in the order of the queue
    step,       \* how far the stage of the running job is
    package,    \* the build whose package.zip lies on the disk
    catalog,    \* the build in the catalog of the root platform
    root,       \* the root runtime: build, up, and the job that last touched it
    hosts,      \* the siblings: what each imported, has installed, and runs
    deferred,   \* an import into the catalog failed and was let pass
    asked       \* builds, activations and setbacks so far

revisionVars == <<tasks, step, package, catalog, root, hosts, deferred, asked>>

-----------------------------------------------------------------------------
Task(stage, build, host) ==
    [stage |-> stage, build |-> build, host |-> host, installed |-> 0,
     status |-> "queued"]

InProgress == {t \in DOMAIN tasks : tasks[t].status = "running"}
Busy == InProgress # {}
This == CHOOSE t \in InProgress : TRUE
Build == tasks[This].build
Host == tasks[This].host

Doing(stage, where) == Busy /\ tasks[This].stage = stage /\ step = where

\* The job ends in one commit with its follow-up, or alone.
EndWith(followUps) ==
    /\ tasks' = [tasks EXCEPT ![This].status = "succeeded"] \o followUps
    /\ step' = "idle"

EndFailed ==
    /\ tasks' = [tasks EXCEPT ![This].status = "failed"]
    /\ step' = "idle"

RevisionInit ==
    /\ tasks = <<>> /\ step = "idle" /\ package = 0 /\ catalog = 0
    /\ root = [build |-> 0, up |-> FALSE, by |-> 0]
    /\ hosts = <<>> /\ deferred = FALSE
    /\ asked = [builds |-> 0, activations |-> 0, setbacks |-> 0]

-----------------------------------------------------------------------------
(* The queue.                                                              *)

SubmitBuild ==
    /\ asked.builds < MaxBuilds
    /\ asked' = [asked EXCEPT !.builds = @ + 1]
    /\ tasks' = Append(tasks, Task("generate", asked.builds + 1, 0))
    /\ UNCHANGED <<step, package, catalog, root, hosts, deferred>>

\* activate-artifact: the deployment of a build that succeeded is queued again.
ActivateBuild(g) ==
    /\ asked.activations < MaxActivations
    /\ tasks[g].stage = "generate" /\ tasks[g].status = "succeeded"
    /\ asked' = [asked EXCEPT !.activations = @ + 1]
    /\ tasks' = Append(tasks, Task("deploy", tasks[g].build, 0))
    /\ UNCHANGED <<step, package, catalog, root, hosts, deferred>>

Waiting == {t \in DOMAIN tasks : tasks[t].status = "queued"}

Claim ==
    /\ ~Busy
    /\ \E t \in Waiting :
          /\ \A u \in Waiting : t <= u
          /\ tasks' = [tasks EXCEPT ![t].status = "running"]
    /\ step' = "start"
    /\ UNCHANGED <<package, catalog, root, hosts, deferred, asked>>

-----------------------------------------------------------------------------
(* generate_app_spec.                                                      *)

_package_generated_app ==
    /\ Doing("generate", "start")
    /\ package' = Build /\ step' = "packaged"
    /\ UNCHANGED <<tasks, catalog, root, hosts, deferred, asked>>

\* The root platform takes the package in, or the failure is noted and let pass.
_import_generated_artifact_package ==
    /\ Doing("generate", "packaged")
    /\ \/ catalog' = package /\ UNCHANGED <<deferred, asked>>
       \/ /\ asked.setbacks < MaxSetbacks
          /\ asked' = [asked EXCEPT !.setbacks = @ + 1]
          /\ deferred' = TRUE /\ UNCHANGED catalog
    /\ step' = "imported"
    /\ UNCHANGED <<tasks, package, root, hosts>>

GenerateEnds ==
    /\ Doing("generate", "imported")
    /\ EndWith(<<Task("deploy", Build, 0)>>)
    /\ UNCHANGED <<package, catalog, root, hosts, deferred, asked>>

-----------------------------------------------------------------------------
(* deploy_app_local: "docker compose down --volumes", then "up", of the    *)
(* one project of the app.                                                 *)

ComposeDown ==
    /\ Doing("deploy", "start")
    /\ root' = [root EXCEPT !.up = FALSE, !.by = This] /\ step' = "down"
    /\ UNCHANGED <<tasks, package, catalog, hosts, deferred, asked>>

ComposeUp ==
    /\ Doing("deploy", "down")
    /\ root' = [build |-> Build, up |-> TRUE, by |-> This] /\ step' = "up"
    /\ UNCHANGED <<tasks, package, catalog, hosts, deferred, asked>>

DeployEnds ==
    /\ Doing("deploy", "up")
    /\ EndWith(<<Task("provision", Build, 0)>>)
    /\ UNCHANGED <<package, catalog, root, hosts, deferred, asked>>

-----------------------------------------------------------------------------
(* provision_sibling_xyn.                                                  *)

\* Siblings that a provisioning which succeeded has left; an anchored revision of
\* the app goes to one of them.
Provisioned ==
    {tasks[t].host : t \in {t \in DOMAIN tasks : tasks[t].stage = "provision"
                                                 /\ tasks[t].status = "succeeded"}}

ChooseHost ==
    /\ Doing("provision", "start")
    /\ \E h \in Provisioned \cup {Len(hosts) + 1} :
          /\ tasks' = [tasks EXCEPT ![This].host = h]
          /\ hosts' = IF h \in DOMAIN hosts THEN hosts
                      ELSE Append(hosts, [imported |-> {}, installed |-> 0, runs |-> 0])
    /\ step' = "hosted"
    /\ UNCHANGED <<package, catalog, root, deferred, asked>>

\* The sibling gets the package that lies on the disk by now.
_import_generated_artifact_package_into_registry ==
    /\ Doing("provision", "hosted")
    /\ hosts' = [hosts EXCEPT ![Host].imported = @ \cup {package}]
    /\ step' = "imported"
    /\ UNCHANGED <<tasks, package, catalog, root, deferred, asked>>

\* The revision is asked for; if the sibling refuses, the same artifact without a
\* revision, which is the one imported last.
_install_generated_artifact_in_sibling ==
    /\ Doing("provision", "imported")
    /\ \E b \in (hosts[Host].imported \cap {Build}) \cup {package} :
          /\ hosts' = [hosts EXCEPT ![Host].installed = b]
          /\ tasks' = [tasks EXCEPT ![This].installed = b]
    /\ step' = "installed"
    /\ UNCHANGED <<package, catalog, root, deferred, asked>>

\* The sibling's own runtime is taken down and up again, from the job's input.
deploy_generated_runtime ==
    /\ Doing("provision", "installed")
    /\ \E up \in BOOLEAN :
          /\ hosts' = [hosts EXCEPT ![Host].runs = IF up THEN Build ELSE 0]
          /\ IF up THEN step' = "deployed" /\ UNCHANGED tasks ELSE EndFailed
    /\ UNCHANGED <<package, catalog, root, deferred, asked>>

_register_sibling_runtime_target ==
    /\ Doing("provision", "deployed")
    /\ EndWith(<<[Task("smoke", Build, Host) EXCEPT !.installed = tasks[This].installed]>>)
    /\ UNCHANGED <<package, catalog, root, hosts, deferred, asked>>

-----------------------------------------------------------------------------
(* smoke_test.                                                             *)

RootAnswers ==
    /\ Doing("smoke", "start")
    /\ root.up /\ step' = "answered"
    /\ UNCHANGED <<tasks, package, catalog, root, hosts, deferred, asked>>

\* Mutant: what is installed is not looked at.
CatalogLists ==
    /\ Doing("smoke", "answered")
    /\ step' = "listed"
    /\ UNCHANGED <<tasks, package, catalog, root, hosts, deferred, asked>>

\* The catalog lists the revision; when it does not list the artifact at all, what
\* the provisioning installed is taken as the evidence.
CatalogAgrees ==
    /\ Doing("smoke", "answered")
    /\ Build = IF catalog # 0 THEN catalog ELSE tasks[This].installed
    /\ step' = "listed"
    /\ UNCHANGED <<tasks, package, catalog, root, hosts, deferred, asked>>

HostAgrees ==
    /\ Doing("smoke", "listed")
    /\ hosts[Host].runs # 0 /\ hosts[Host].installed = Build
    /\ step' = "agreed"
    /\ UNCHANGED <<tasks, package, catalog, root, hosts, deferred, asked>>

\* The root runtime is stopped, to see that the sibling does without it ...
StopRoot ==
    /\ Doing("smoke", "agreed")
    /\ root' = [root EXCEPT !.up = FALSE, !.by = This] /\ step' = "stopped"
    /\ UNCHANGED <<tasks, package, catalog, hosts, deferred, asked>>

\* Mutant: whether it came up is not looked at.
StartRootBlind ==
    /\ Doing("smoke", "stopped")
    /\ \E up \in BOOLEAN :
          root' = IF up THEN [root EXCEPT !.build = Build, !.up = TRUE] ELSE root
    /\ step' = "restarted" /\ UNCHANGED tasks
    /\ UNCHANGED <<package, catalog, hosts, deferred, asked>>

\* ... and started again whatever came out, from the compose file of this chain.
StartRoot ==
    /\ Doing("smoke", "stopped")
    /\ \E up, alone \in BOOLEAN :
          /\ root' = IF up THEN [root EXCEPT !.build = Build, !.up = TRUE] ELSE root
          /\ IF up /\ alone THEN step' = "restarted" /\ UNCHANGED tasks ELSE EndFailed
    /\ UNCHANGED <<package, catalog, hosts, deferred, asked>>

SmokeEnds ==
    /\ Doing("smoke", "restarted")
    /\ EndWith(<<>>)
    /\ UNCHANGED <<package, catalog, root, hosts, deferred, asked>>

-----------------------------------------------------------------------------
Setback ==
    /\ Busy /\ asked.setbacks < MaxSetbacks
    /\ asked' = [asked EXCEPT !.setbacks = @ + 1]
    /\ EndFailed
    /\ UNCHANGED <<package, catalog, root, hosts, deferred>>

\* A step of a stage raises; the restart of the root runtime is in a "finally".
StageRaises == step # "stopped" /\ Setback

\* The process stops, is started again, and fails the job that was running.
StopAndRecover == Setback

RevisionNext ==
    \/ SubmitBuild \/ \E g \in DOMAIN tasks : ActivateBuild(g)
    \/ Claim
    \/ _package_generated_app \/ _import_generated_artifact_package \/ GenerateEnds
    \/ ComposeDown \/ ComposeUp \/ DeployEnds
    \/ ChooseHost \/ _import_generated_artifact_package_into_registry
    \/ _install_generated_artifact_in_sibling \/ deploy_generated_runtime
    \/ _register_sibling_runtime_target
    \/ RootAnswers \/ CatalogAgrees \/ HostAgrees \/ StopRoot \/ StartRoot \/ SmokeEnds
    \/ StageRaises \/ StopAndRecover

RevisionSpec == RevisionInit /\ [][RevisionNext]_revisionVars

-----------------------------------------------------------------------------
RevisionTypeOK ==
    /\ \A t \in DOMAIN tasks :
          /\ tasks[t].stage \in {"generate", "deploy", "provision", "smoke"}
          /\ tasks[t].build \in 1..MaxBuilds /\ tasks[t].installed \in 0..MaxBuilds
          /\ tasks[t].host \in 0..Len(hosts)
          /\ tasks[t].status \in {"queued", "running", "succeeded", "failed"}
    /\ Cardinality(InProgress) <= 1 /\ (Busy <=> step # "idle")
    /\ package \in 0..MaxBuilds /\ catalog \in 0..MaxBuilds
    /\ root.build \in 0..MaxBuilds /\ root.by \in 0..Len(tasks)
    /\ \A h \in DOMAIN hosts : /\ hosts[h].imported \subseteq 1..MaxBuilds
                               /\ hosts[h].installed \in 0..MaxBuilds
                               /\ hosts[h].runs \in 0..MaxBuilds
    /\ deferred \in BOOLEAN
    /\ asked \in [builds : 0..MaxBuilds, activations : 0..MaxActivations,
                  setbacks : 0..MaxSetbacks]

(***************************************************************************)
(* The root runtime is down only while a job has it down, or after a job   *)
(* that failed: both a deployment (down, then up) and a smoke test (stop,  *)
(* then up) take it down on the way, and neither may report success and    *)
(* leave users without their application.                                  *)
(***************************************************************************)
RootDownIsAccounted ==
    ~root.up /\ root.by # 0 => tasks[root.by].status \in {"running", "failed"}

(***************************************************************************)
(* A smoke test restarts the root runtime from its own chain's compose     *)
(* file, whatever was deployed since.  As long as no import into the       *)
(* catalog was let pass, it never puts an older build there than the one   *)
(* it stopped: the catalog check refuses every chain but the newest.       *)
(***************************************************************************)
NoOlderBuildReturns ==
    [][~deferred /\ StartRoot => root'.build >= root.build]_revisionVars
=============================================================================
