---------------------------- MODULE JobPipeline -----------------------------
(***************************************************************************)
(* The app-intent pipeline of the kernel: drafts that are submitted, the   *)
(* queue of jobs they start, the one worker thread that executes the jobs  *)
(* and queues their follow-ups, and the activations, siblings and          *)
(* execution notes that the jobs leave behind.                             *)
(*                                                                         *)
(* Sources: core/app_jobs.py, core/runtime/deploy_local.py,                *)
(* core/runtime/provision_sibling.py, core/runtime/smoke_test.py,          *)
(* core/environment_state.py, core/execution_notes.py, core/api/jobs.py,   *)
(* core/api/drafts.py, core/api/environments.py, core/lifecycle/,          *)
(* core/database.py.                                                       *)
(*                                                                         *)
(* A stage writes all it writes in one transaction that commits with the   *)
(* status of its job, so each way a stage can end is one action.  Requests *)
(* are served one at a time by the event loop, while the worker thread     *)
(* goes on between what a request reads and what it commits.               *)
(***************************************************************************)
EXTENDS Naturals, Sequences, FiniteSets

CONSTANTS
    DraftIds,       \* identifiers a draft can be created under
    Apps,           \* the slugs of generated artifacts
    Keys,           \* the idempotency keys that clients send
    MaxPatches,     \* bound: how often the status of a job is patched
    MaxActivates,   \* bound: how many activations are requested
    MaxFaults,      \* bound: crashes of the process and deaths of the worker
    AutoCreate      \* whether XYN_AUTO_CREATE_SCHEMA is set, as compose.yml does

CONSTANTS NoDraft, NoApp, NoKey, Nothing
ASSUME NullsAreOutside ==
    NoDraft \notin DraftIds /\ NoApp \notin Apps /\ NoKey \notin Keys
ASSUME JobBoundsAreNatural ==
    MaxPatches \in Nat /\ MaxActivates \in Nat /\ MaxFaults \in Nat
ASSUME AutoCreateIsASwitch == AutoCreate \in BOOLEAN

VARIABLES
    drafts,     \* the table drafts
    jobs,       \* the table jobs, in the order of created_at
    acts,       \* the table activations
    siblings,   \* the table siblings of the one environment
    notes,      \* the status of every execution note
    worker,     \* where the worker thread is, and what it holds
    request,    \* the request that has read and not yet committed
    used        \* how many patches, activations and faults there have been

tables == <<drafts, jobs, acts, siblings, notes>>
vars == <<tables, worker, request, used>>

-----------------------------------------------------------------------------
(* Types.                                                                  *)

JobStatuses == {"queued", "running", "succeeded", "failed"}
DraftStatuses == {"draft", "ready", "submitted", "archived"}
Stages == {"generate_app_spec", "deploy_app_local", "provision_sibling_xyn",
           "smoke_test"}

\* What output_json and logs_text say of a failed job: where its stage stopped,
\* or that a restart interrupted it.
Causes == {"none", "stage", "allocation", "interrupted"}

Draft == [status : DraftStatuses \cup {"absent"}, app : Apps \cup {NoApp},
          anchored : BOOLEAN]

\* Rows name one another by their place in their table; 0 is no row.  note is
\* in input_json of every job but a generation, which has it in output_json.
\* sibling is the deployment that a provisioning made and a smoke test tests.
Job == [stage : Stages, status : JobStatuses, cause : Causes,
        draft : DraftIds \cup {NoDraft}, app : Apps, anchored : BOOLEAN,
        source : Nat, act : Nat, note : Nat, deployment : Nat]

Activation == [status : {"pending", "provisioning", "runtime_registered",
                         "smoke_passed", "failed"},
               key : Keys \cup {NoKey}, app : Apps, source : Nat, sibling : Nat]

\* deployment is compose_project, app is installed_artifact_slug and instance
\* is workspace_app_instance_id, of which each deployment has its own.
Sibling == [status : {"provisioning", "ready", "active", "failed"},
            deployment : Nat, app : Apps \cup {NoApp}, instance : Nat]

Worker == [phase : {"starting", "polling", "claiming", "claimed", "executing",
                    "dead"},
           job : Nat, loaded : JobStatuses]

Rest == [phase |-> "polling", job |-> 0, loaded |-> "queued"]

TypeOK ==
    /\ drafts \in [DraftIds -> Draft]
    /\ jobs \in Seq(Job)
    /\ acts \in Seq(Activation)
    /\ siblings \in Seq(Sibling)
    /\ notes \in Seq({"in_progress", "failed", "completed"})
    /\ worker \in Worker
    /\ request \in {Nothing} \cup [op : {"patch"}, job : DOMAIN jobs, to : JobStatuses]
                   \cup [op : {"activate"}, act : DOMAIN acts]
    /\ used \in [patches : 0..MaxPatches, activates : 0..MaxActivates,
                 faults : 0..MaxFaults]

-----------------------------------------------------------------------------
(* The lifecycle definitions.                                              *)

DraftTransitions ==
    [draft |-> {"ready", "submitted", "archived"},
     ready |-> {"draft", "submitted", "archived"},
     submitted |-> {"archived"},
     archived |-> {}]

JobTransitions ==
    [queued |-> {"running", "failed"},
     running |-> {"succeeded", "failed"},
     succeeded |-> {},
     failed |-> {"queued"}]

\* validate_transition: the definition lists the move.
Allows(transitions, from, to) == to \in transitions[from]

-----------------------------------------------------------------------------
(* Rows.                                                                   *)

NewJob(stage, app, anchored) ==
    [stage |-> stage, status |-> "queued", cause |-> "none", draft |-> NoDraft,
     app |-> app, anchored |-> anchored, source |-> 0, act |-> 0, note |-> 0,
     deployment |-> 0]

\* The job that _enqueue_job adds behind j, with what j passes on in input_json.
FollowUp(j, stage, act, note, deployment) ==
    [NewJob(stage, jobs[j].app, jobs[j].anchored) EXCEPT
        !.source = j, !.act = act, !.note = note, !.deployment = deployment]

\* Mutant of SiblingRows: the artifact is not looked up.
SiblingRowsByProject(rows, deployment, app, installed) ==
    LET byInstance == {s \in DOMAIN rows : installed /\ rows[s].instance = deployment}
        byProject == {s \in DOMAIN rows : rows[s].deployment = deployment}
    IN  IF byInstance # {} THEN byInstance
        ELSE IF byProject # {} THEN byProject ELSE {Len(rows) + 1}

\* The rows an upsert may take for the one it means: by the instance, else by
\* the artifact, else by the compose project; when there is none it adds a row.
SiblingRows(rows, deployment, app, installed) ==
    LET byInstance == {s \in DOMAIN rows : installed /\ rows[s].instance = deployment}
        byArtifact == {s \in DOMAIN rows : installed /\ rows[s].app = app}
        byProject == {s \in DOMAIN rows : rows[s].deployment = deployment}
    IN  IF byInstance # {} THEN byInstance
        ELSE IF byArtifact # {} THEN byArtifact
        ELSE IF byProject # {} THEN byProject
        ELSE {Len(rows) + 1}

\* rows once s stands for the deployment; before the artifact is installed there
\* neither the artifact nor the instance of the row is touched.
Upserted(rows, s, deployment, app, installed, status) ==
    LET row == IF s \in DOMAIN rows THEN rows[s]
               ELSE [status |-> status, deployment |-> 0, app |-> NoApp, instance |-> 0]
        new == [status |-> status, deployment |-> deployment,
                app |-> IF installed THEN app ELSE row.app,
                instance |-> IF installed THEN deployment ELSE row.instance]
    IN  IF s \in DOMAIN rows THEN [rows EXCEPT ![s] = new] ELSE Append(rows, new)

\* The activation that the provisioning of j reports to: the one of its input, or
\* one it creates.
ActivationOf(j) == IF jobs[j].act # 0 THEN jobs[j].act ELSE Len(acts) + 1

\* mark_activation_failed: the job that failed becomes the one reported last.
ActivationFailed(rows, a, j) == [rows EXCEPT ![a].status = "failed", ![a].source = j]

\* acts with the activation of the provisioning j in the given state.
Reported(j, status, sibling) ==
    LET new == [status |-> status, key |-> NoKey, app |-> jobs[j].app,
                source |-> j, sibling |-> sibling]
    IN  IF jobs[j].act = 0 THEN Append(acts, new)
        ELSE [acts EXCEPT ![jobs[j].act].status = status, ![jobs[j].act].source = j,
                          ![jobs[j].act].sibling = IF sibling = 0 THEN @ ELSE sibling]

\* The deployments that the provisioning j may reuse, and else the one it makes:
\* only a revision anchored to an installed app looks for one.
Reusable(j) ==
    {jobs[i].deployment : i \in {i \in DOMAIN jobs :
        /\ jobs[i].stage = "provision_sibling_xyn" /\ jobs[i].status = "succeeded"
        /\ jobs[i].app = jobs[j].app /\ jobs[i].deployment # 0}}

Deployments(j) == IF jobs[j].anchored /\ Reusable(j) # {} THEN Reusable(j) ELSE {j}

\* The builds of an app that an activation can deploy.
Builds(app) ==
    {g \in DOMAIN jobs : /\ jobs[g].stage = "generate_app_spec"
                         /\ jobs[g].status = "succeeded"
                         /\ jobs[g].app = app /\ jobs[g].note # 0}

\* The note of a pipeline: created by its first stage, written over by the others.
NoteBegun == Append(notes, "in_progress")

NoteSet(n, status) == [notes EXCEPT ![n] = status]

\* What the schema upgrade of a start leaves of a draft: the column status is
\* computed anew from its old upper-case names, and what is none of them is "draft".
UpgradedDrafts ==
    [d \in DraftIds |-> IF drafts[d].status = "absent" THEN drafts[d]
                       ELSE [drafts[d] EXCEPT !.status = "draft"]]

-----------------------------------------------------------------------------
(* Drafts.                                                                 *)

\* create_draft: a draft enters as "draft" and may move once at its creation.
CreateDraft(d) ==
    /\ request = Nothing
    /\ drafts[d].status = "absent"
    /\ \E status \in DraftStatuses, app \in Apps, anchored \in BOOLEAN :
          /\ status = "draft" \/ Allows(DraftTransitions, "draft", status)
          /\ drafts' = [drafts EXCEPT ![d] =
                           [status |-> status, app |-> app, anchored |-> anchored]]
    /\ UNCHANGED <<jobs, acts, siblings, notes, worker, request, used>>

\* transition_model_status: the status moves if the lifecycle lists the move.
Transition(d, status) ==
    /\ Allows(DraftTransitions, drafts[d].status, status)
    /\ drafts' = [drafts EXCEPT ![d].status = status]

PatchDraft(d) ==
    /\ request = Nothing
    /\ drafts[d].status # "absent"
    /\ \E status \in DraftStatuses : Transition(d, status)
    /\ UNCHANGED <<jobs, acts, siblings, notes, worker, request, used>>

\* Mutant of SubmitDraft: any draft that is not archived is submitted.
SubmitDraftAgain(d) ==
    /\ request = Nothing
    /\ drafts[d].status \in {"draft", "ready", "submitted"}
    /\ drafts' = [drafts EXCEPT ![d].status = "submitted"]
    /\ jobs' = Append(jobs, [NewJob("generate_app_spec", drafts[d].app, drafts[d].anchored)
                                EXCEPT !.draft = d])
    /\ UNCHANGED <<acts, siblings, notes, worker, request, used>>

\* submit_draft commits the draft and the first job of its pipeline together.
SubmitDraft(d) ==
    /\ request = Nothing
    /\ drafts[d].status # "absent"
    /\ Transition(d, "submitted")
    /\ jobs' = Append(jobs, [NewJob("generate_app_spec", drafts[d].app, drafts[d].anchored)
                                EXCEPT !.draft = d])
    /\ UNCHANGED <<acts, siblings, notes, worker, request, used>>

-----------------------------------------------------------------------------
(* Activations and patches of jobs: requests that read and commit apart.   *)

\* The first commit of activate_environment_artifact.  A key that has an
\* activation returns it and changes nothing.
RequestActivation(app, key) ==
    /\ request = Nothing
    /\ used.activates < MaxActivates
    /\ key # NoKey => \A a \in DOMAIN acts : acts[a].key # key
    /\ acts' = Append(acts, [status |-> "pending", key |-> key, app |-> app,
                             source |-> 0, sibling |-> 0])
    /\ request' = [op |-> "activate", act |-> Len(acts) + 1]
    /\ used' = [used EXCEPT !.activates = @ + 1]
    /\ UNCHANGED <<drafts, jobs, siblings, notes, worker>>

\* The second: the deployment of a build of the artifact is queued, anchored to
\* an installed app if the request names one ...
QueueActivation ==
    /\ request # Nothing /\ request.op = "activate"
    /\ \E g \in Builds(acts[request.act].app) :
          /\ \E anchored \in {jobs[g].anchored, TRUE} :
                jobs' = Append(jobs,
                               [FollowUp(g, "deploy_app_local", request.act, jobs[g].note, 0)
                                   EXCEPT !.anchored = anchored])
          /\ acts' = [acts EXCEPT ![request.act].source = Len(jobs) + 1]
    /\ request' = Nothing
    /\ UNCHANGED <<drafts, siblings, notes, worker, used>>

\* ... or no build matches, or the package of the build is gone from the disk.
RefuseActivation ==
    /\ request # Nothing /\ request.op = "activate"
    /\ acts' = [acts EXCEPT ![request.act].status = "failed"]
    /\ request' = Nothing
    /\ UNCHANGED <<drafts, jobs, siblings, notes, worker, used>>

\* patch_job reads the status and checks the transition from it ...
ReadPatch(j) ==
    /\ request = Nothing
    /\ used.patches < MaxPatches
    /\ \E to \in JobStatuses :
          /\ Allows(JobTransitions, jobs[j].status, to)
          /\ request' = [op |-> "patch", job |-> j, to |-> to]
    /\ used' = [used EXCEPT !.patches = @ + 1]
    /\ UNCHANGED <<tables, worker>>

\* ... and writes whatever the status has become.
CommitPatch ==
    /\ request # Nothing /\ request.op = "patch"
    /\ jobs' = [jobs EXCEPT ![request.job].status = request.to]
    /\ request' = Nothing
    /\ UNCHANGED <<drafts, acts, siblings, notes, worker, used>>

-----------------------------------------------------------------------------
(* The worker thread.                                                      *)

\* Mutants of Recover: the jobs get a status of their own, or are left alone.
RecoverAsInterrupted ==
    /\ worker.phase = "starting"
    /\ jobs' = [j \in DOMAIN jobs |->
                    IF jobs[j].status = "running"
                    THEN [jobs[j] EXCEPT !.status = "interrupted", !.cause = "interrupted"]
                    ELSE jobs[j]]
    /\ worker' = Rest
    /\ UNCHANGED <<drafts, acts, siblings, notes, request, used>>

RecoverNothing ==
    /\ worker.phase = "starting"
    /\ worker' = Rest
    /\ UNCHANGED <<tables, request, used>>

\* _recover_running_jobs: what the last process left RUNNING is FAILED.  It is
\* the first thing the thread does, while the kernel starts up.
Recover ==
    /\ worker.phase = "starting"
    /\ jobs' = [j \in DOMAIN jobs |->
                    IF jobs[j].status = "running"
                    THEN [jobs[j] EXCEPT !.status = "failed", !.cause = "interrupted"]
                    ELSE jobs[j]]
    /\ worker' = Rest
    /\ UNCHANGED <<drafts, acts, siblings, notes, request, used>>

Candidates == {j \in DOMAIN jobs : jobs[j].status = "queued"}

\* _claim_next_job reads the oldest queued job ...
ReadQueue ==
    /\ worker.phase = "polling"
    /\ \E j \in Candidates :
          /\ \A i \in Candidates : j <= i
          /\ worker' = [worker EXCEPT !.phase = "claiming", !.job = j]
    /\ UNCHANGED <<tables, request, used>>

\* ... and commits it as RUNNING, whatever its status has become.
ClaimJob ==
    /\ worker.phase = "claiming"
    /\ jobs' = [jobs EXCEPT ![worker.job].status = "running"]
    /\ worker' = [worker EXCEPT !.phase = "claimed"]
    /\ UNCHANGED <<drafts, acts, siblings, notes, request, used>>

\* _execute_job loads the job again, in a session of its own.
LoadJob ==
    /\ worker.phase = "claimed"
    /\ worker' = [worker EXCEPT !.phase = "executing", !.loaded = jobs[worker.job].status]
    /\ UNCHANGED <<tables, request, used>>

-----------------------------------------------------------------------------
(* How a stage ends: the one commit of _execute_job.                       *)

Executing(stage) == worker.phase = "executing" /\ jobs[worker.job].stage = stage

\* The status column after the job was set to status: an UPDATE leaves the
\* column out when the job was loaded with that status.
Written(status) ==
    IF worker.loaded = status THEN jobs[worker.job].status ELSE status

\* Mutant of Succeed: the follow-ups are not queued in the commit.
SucceedAlone(note, deployment, followUps) ==
    LET j == worker.job IN
    /\ jobs' = [jobs EXCEPT ![j].status = Written("succeeded"), ![j].cause = "none",
                            ![j].note = note, ![j].deployment = deployment]
    /\ worker' = Rest
    /\ UNCHANGED <<drafts, request, used>>

\* The job has succeeded and its follow-ups are queued.
Succeed(note, deployment, followUps) ==
    LET j == worker.job IN
    /\ jobs' = [jobs EXCEPT ![j].status = Written("succeeded"), ![j].cause = "none",
                            ![j].note = note, ![j].deployment = deployment] \o followUps
    /\ worker' = Rest
    /\ UNCHANGED <<drafts, request, used>>

\* The job has failed where cause says, after its stage had changed the tables
\* to newActs, newSiblings and newNotes: all of it commits.  The activation and
\* the note that are marked are those that input_json names, for the output of
\* a stage that raised is lost; a note that cannot be written stays as it is.
Fail(cause, newActs, newSiblings, newNotes) ==
    LET j == worker.job
        a == jobs[j].act
        generated == jobs[j].stage = "generate_app_spec"
        failedSibling == IF a = 0 THEN 0 ELSE newActs[a].sibling
    IN
    /\ jobs' = [jobs EXCEPT ![j].status = Written("failed"), ![j].cause = cause,
                    ![j].note = IF generated THEN 0 ELSE @,
                    ![j].deployment = IF jobs[j].stage = "smoke_test" THEN @ ELSE 0]
    /\ acts' = IF a = 0 THEN newActs ELSE ActivationFailed(newActs, a, j)
    /\ siblings' = IF failedSibling = 0 THEN newSiblings
                   ELSE [newSiblings EXCEPT ![failedSibling].status = "failed"]
    /\ IF generated \/ jobs[j].note = 0 THEN notes' = newNotes
       ELSE notes' \in {newNotes, [newNotes EXCEPT ![jobs[j].note] = "failed"]}
    /\ worker' = Rest
    /\ UNCHANGED <<drafts, request, used>>

GenerateSucceeds ==
    /\ Executing("generate_app_spec")
    /\ notes' = NoteBegun
    /\ Succeed(Len(notes) + 1, 0,
               <<FollowUp(worker.job, "deploy_app_local", 0, Len(notes) + 1, 0)>>)
    /\ UNCHANGED <<acts, siblings>>

\* The note is created before the specification is built and validated.
GenerateFails ==
    /\ Executing("generate_app_spec")
    /\ \E newNotes \in {notes, NoteBegun} :
          Fail("stage", acts, siblings, newNotes)

\* Mutant of DeploySucceeds: activation_id is not passed on.
DeployForgetsActivation ==
    /\ Executing("deploy_app_local")
    /\ LET job == jobs[worker.job] IN
          Succeed(job.note, 0, <<FollowUp(worker.job, "provision_sibling_xyn", 0, job.note, 0)>>)
    /\ UNCHANGED <<acts, siblings, notes>>

DeploySucceeds ==
    /\ Executing("deploy_app_local")
    /\ LET job == jobs[worker.job] IN
          Succeed(job.note, 0, <<FollowUp(worker.job, "provision_sibling_xyn",
                                          job.act, job.note, 0)>>)
    /\ UNCHANGED <<acts, siblings, notes>>

DeployFails ==
    /\ Executing("deploy_app_local")
    /\ Fail("stage", acts, siblings, notes)

\* No database or no deployment can be allocated; a provisioning that reuses a
\* deployment allocates nothing.
ProvisionAllocationFails ==
    /\ Executing("provision_sibling_xyn")
    /\ worker.job \in Deployments(worker.job)
    /\ Fail("allocation", Reported(worker.job, "provisioning", 0), siblings, notes)

\* ... or the artifact is not installed or the runtime not registered.
ProvisionInstallFails ==
    /\ Executing("provision_sibling_xyn")
    /\ LET j == worker.job IN
       \E d \in Deployments(j) : \E s \in SiblingRows(siblings, d, jobs[j].app, FALSE) :
          Fail("stage", Reported(j, "provisioning", 0),
               Upserted(siblings, s, d, jobs[j].app, FALSE, "provisioning"), notes)

\* The runtime is registered, and either the smoke test is queued or the note of
\* the pipeline cannot be written.
ProvisionRegisters ==
    /\ Executing("provision_sibling_xyn")
    /\ LET j == worker.job
           app == jobs[j].app IN
       \E d \in Deployments(j) : \E s \in SiblingRows(siblings, d, app, FALSE) :
          LET allocated == Upserted(siblings, s, d, app, FALSE, "provisioning") IN
          \E t \in SiblingRows(allocated, d, app, TRUE) :
             LET registered == Upserted(allocated, t, d, app, TRUE, "ready")
                 reported == Reported(j, "runtime_registered", t) IN
             \/ /\ siblings' = registered /\ acts' = reported
                /\ Succeed(jobs[j].note, d,
                           <<FollowUp(j, "smoke_test", ActivationOf(j), jobs[j].note, d)>>)
                /\ UNCHANGED notes
             \/ /\ jobs[j].note # 0
                /\ Fail("stage", reported, registered, notes)

SmokePasses ==
    /\ Executing("smoke_test")
    /\ LET j == worker.job
           d == jobs[j].deployment
           a == jobs[j].act IN
       \E s \in SiblingRows(siblings, d, jobs[j].app, TRUE) :
          /\ siblings' = Upserted(siblings, s, d, jobs[j].app, TRUE, "active")
          /\ acts' = [acts EXCEPT ![a].status = "smoke_passed", ![a].source = j,
                                  ![a].sibling = s]
          /\ notes' = IF jobs[j].note = 0 THEN notes ELSE NoteSet(jobs[j].note, "completed")
          /\ Succeed(jobs[j].note, d, <<>>)

\* Mutant of SmokeFails: the note is finalized before the checks are made.
SmokeFailsFinalized ==
    /\ Executing("smoke_test")
    /\ jobs[worker.job].note # 0
    /\ Fail("stage", acts, siblings, NoteSet(jobs[worker.job].note, "completed"))

SmokeFails ==
    /\ Executing("smoke_test")
    /\ Fail("stage", acts, siblings, notes)

StageEnds ==
    \/ GenerateSucceeds \/ GenerateFails
    \/ DeploySucceeds \/ DeployFails
    \/ ProvisionAllocationFails \/ ProvisionInstallFails
    \/ ProvisionRegisters
    \/ SmokePasses \/ SmokeFails

-----------------------------------------------------------------------------
(* Faults.                                                                 *)

\* An error of the database that a transaction cannot go on after: nothing in
\* _worker_loop catches it, and the thread ends while the process goes on.
WorkerDies ==
    /\ used.faults < MaxFaults
    /\ worker.phase \in {"starting", "polling", "claiming", "claimed", "executing"}
    /\ worker' = [Rest EXCEPT !.phase = "dead"]
    /\ used' = [used EXCEPT !.faults = @ + 1]
    /\ UNCHANGED <<tables, request>>

\* The process stops anywhere and is started again, with the schema upgrade of
\* init_db before the worker thread.
Restart ==
    /\ used.faults < MaxFaults
    /\ worker' = [Rest EXCEPT !.phase = "starting"]
    /\ request' = Nothing
    /\ used' = [used EXCEPT !.faults = @ + 1]
    /\ drafts' = IF AutoCreate THEN UpgradedDrafts ELSE drafts
    /\ UNCHANGED <<jobs, acts, siblings, notes>>

-----------------------------------------------------------------------------
Init ==
    /\ drafts = [d \in DraftIds |-> [status |-> "absent", app |-> NoApp, anchored |-> FALSE]]
    /\ jobs = <<>> /\ acts = <<>> /\ siblings = <<>> /\ notes = <<>>
    /\ worker = [Rest EXCEPT !.phase = "starting"]
    /\ request = Nothing
    /\ used = [patches |-> 0, activates |-> 0, faults |-> 0]

Requests ==
    \/ \E d \in DraftIds : CreateDraft(d) \/ PatchDraft(d) \/ SubmitDraft(d)
    \/ \E app \in Apps, key \in Keys \cup {NoKey} : RequestActivation(app, key)
    \/ \E j \in DOMAIN jobs : ReadPatch(j)

Replies == QueueActivation \/ RefuseActivation \/ CommitPatch

Work == Recover \/ ReadQueue \/ ClaimJob \/ LoadJob \/ StageEnds

Next == Requests \/ Replies \/ Work \/ WorkerDies \/ Restart

Spec == Init /\ [][Next]_vars

\* Every step of the worker thread and every reply ends: containers, polls and
\* commands all have time limits.
FairSpec == Spec /\ WF_vars(Work) /\ WF_vars(Replies)

-----------------------------------------------------------------------------
(* Properties.  Those on the order of the stages hold as long as no user     *)
(* patches the status of a job.                                            *)

After(stage) ==
    CASE stage = "generate_app_spec" -> {"deploy_app_local"}
      [] stage = "deploy_app_local" -> {"provision_sibling_xyn"}
      [] stage = "provision_sibling_xyn" -> {"smoke_test"}
      [] stage = "smoke_test" -> {}

\* The jobs that the end of j queued.  The deployment that an activation queued
\* names the build in its input too, and an activation that the build has not.
FollowUpsOf(j) ==
    {i \in DOMAIN jobs : /\ jobs[i].source = j /\ jobs[i].stage \in After(jobs[j].stage)
                         /\ jobs[j].stage = "generate_app_spec" => jobs[i].act = 0}

\* A stage is followed by the next stage exactly when it has succeeded, once,
\* wherever the worker or the process stops: a job that SUCCEEDED without its
\* follow-up would end the pipeline in silence, and one that FAILED with it, or
\* was executed twice, would deploy twice (_execute_job, one commit).
ChainAdvancesOnce ==
    \A j \in DOMAIN jobs : Cardinality(FollowUpsOf(j)) =
        IF jobs[j].status = "succeeded" THEN Cardinality(After(jobs[j].stage)) ELSE 0

\* What a pipeline says it reached it did reach: behind an activation that
\* smoke_passed and behind a completed note is a smoke test that succeeded, and
\* behind that every stage of its chain (create_or_update_activation,
\* finalize_stage_note).
ResultsAreEarned ==
    LET Earned(j) ==
            LET provision == jobs[j].source
                deploy == jobs[provision].source
                generate == jobs[deploy].source
            IN  /\ jobs[j].stage = "smoke_test"
                /\ \A i \in {j, provision, deploy, generate} : jobs[i].status = "succeeded"
    IN  /\ \A a \in DOMAIN acts : acts[a].status = "smoke_passed" =>
               Earned(acts[a].source) /\ jobs[acts[a].source].act = a
        /\ \A n \in DOMAIN notes : notes[n] = "completed" =>
               \E j \in DOMAIN jobs : jobs[j].note = n /\ Earned(j)

\* An activation that is neither passed nor failed is still being worked on: a
\* job that carries it is queued or running, or the request that queues the
\* first one is being served.  The exceptions are those of the code: a restart
\* failed the job or cut the request off, or the activation was created by the
\* provisioning that failed.  A failed activation has no job left to run.
ActivationFollowsItsChain ==
    \A a \in DOMAIN acts :
        LET chain == {j \in DOMAIN jobs : jobs[j].act = a}
            live == {j \in chain : jobs[j].status \in {"queued", "running"}}
        IN  IF acts[a].status \in {"smoke_passed", "failed"} THEN live = {}
            ELSE \/ live # {}
                 \/ acts[a].source = 0
                 \/ \E j \in chain : jobs[j].cause = "interrupted"
                 \/ jobs[acts[a].source].act # a /\ jobs[acts[a].source].cause # "none"

\* A draft is built once, a key is activated once and an activation deploys once,
\* however requests, worker and restarts interleave, unless a restart upgrades the
\* schema (submit_draft, activate_environment_artifact).
OneChainPerRequest ==
    /\ \A d \in DraftIds :
          Cardinality({j \in DOMAIN jobs : jobs[j].draft = d}) <= 1
    /\ \A a, b \in DOMAIN acts : acts[a].key = acts[b].key => a = b \/ acts[a].key = NoKey
    /\ \A a \in DOMAIN acts : Cardinality({j \in DOMAIN jobs :
          jobs[j].act = a /\ jobs[j].stage = "deploy_app_local"}) <= 1

\* The job with which the pipeline of j in the given table began: a generation, or
\* the deployment that an activation queued.
Root(rows, j) ==
    LET before == rows[j].source
        earlier == rows[before].source
    IN  CASE rows[j].stage = "generate_app_spec" -> j
          [] rows[j].stage = "deploy_app_local" ->
                 IF rows[j].act # 0 THEN j ELSE before
          [] rows[j].stage = "provision_sibling_xyn" ->
                 IF rows[j].act # 0 THEN before ELSE earlier
          [] rows[j].stage = "smoke_test" ->
                 IF rows[before].act # 0 THEN earlier ELSE rows[earlier].source

\* How far the pipeline with the given jobs is with each stage.
Progress(rows, members) ==
    [s \in Stages |->
        LET done == {j \in members : rows[j].stage = s}
        IN  IF done = {} THEN "none"
            ELSE IF \E j \in done : done = {j}
            THEN rows[CHOOSE j \in done : TRUE].status
            ELSE "repeated"]

BuildOf(rows, d) == {j \in DOMAIN rows : rows[Root(rows, j)].draft = d}

RolloutOf(rows, a) == {j \in DOMAIN rows : rows[Root(rows, j)].act = a}

\* The jobs, activations and commits amount to pipelines that are started once per
\* request and go from stage to stage, one at a time, wherever the worker thread or
\* the process stops, unless a start upgrades the schema or a user patches a job.
Pipelines == INSTANCE AppPipelines WITH
    builds <- [d \in DraftIds |-> Progress(jobs, BuildOf(jobs, d))],
    rollouts <- [a \in DOMAIN acts |-> Progress(jobs, RolloutOf(jobs, a))],
    keys <- [a \in DOMAIN acts |-> acts[a].key]
ImplementsPipelines == Pipelines!PipelinesSpec

\* At most one sibling has an artifact installed and at most one has an instance:
\* upsert_sibling_from_provision_output finds its row by them and takes the first.
InstalledSiblingIsUnique ==
    \A s, t \in DOMAIN siblings : s # t =>
        /\ siblings[s].app # siblings[t].app \/ siblings[s].app = NoApp
        /\ siblings[s].instance # siblings[t].instance \/ siblings[s].instance = 0

\* The status of a job moves along the lifecycle "job" and no other way
\* (core/lifecycle/definitions.py).
JobsFollowLifecycle ==
    [][\A j \in DOMAIN jobs : jobs'[j].status # jobs[j].status =>
           jobs'[j].status \in JobTransitions[jobs[j].status]]_jobs

\* The status of a draft moves along the lifecycle "draft" from its creation on
\* and no other way (core/lifecycle/definitions.py).
DraftsFollowLifecycle ==
    [][\A d \in DraftIds : drafts[d].status \notin {"absent", drafts'[d].status} =>
           Allows(DraftTransitions, drafts[d].status, drafts'[d].status)]_drafts

\* The queue drains: as there are only so many requests, every job is executed to
\* its end or failed by a restart, unless the worker thread has died, or a user has
\* patched a job, for one patched to RUNNING is executed by nobody.
QueueDrains ==
    []<>(\/ worker.phase = "dead"
         \/ used.patches > 0
         \/ \A j \in DOMAIN jobs : jobs[j].status \in {"succeeded", "failed"})

\* When the allocation for a sibling failed, so has the activation it was for
\* (docs/environments_rollout.md).
AllocationFailureFailsActivation ==
    \A a \in DOMAIN acts :
        acts[a].source # 0 /\ jobs[acts[a].source].cause = "allocation" =>
            acts[a].status = "failed"

\* A deployment is one sibling: a provisioning that is reported again updates the
\* row of the deployment (core/tests/test_environment_state.py).
OneSiblingPerDeployment ==
    \A s, t \in DOMAIN siblings : siblings[s].deployment = siblings[t].deployment => s = t
=============================================================================
