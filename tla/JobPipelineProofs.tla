------------------------- MODULE JobPipelineProofs --------------------------
(***************************************************************************)
(* Proofs about the job pipeline, for any drafts, apps, keys and bounds.   *)
(*                                                                         *)
(* TableInv is inductive by itself: the rows that the tables name exist,   *)
(* a source is older than what it queued, a deployment is of the app of    *)
(* the job that names it, and the siblings stand for one app and one       *)
(* deployment each.  ChainInv is inductive when no user patches the status *)
(* of a job: what the worker thread holds is as it believes, and each job  *)
(* has the source, the follow-up and the activation that its stage says.   *)
(*                                                                         *)
(* The nine ways a stage can end are first brought to three, StageFails,   *)
(* StageAdvances and TestPasses, and the invariants are proved from what   *)
(* those say of the tables.                                                *)
(*                                                                         *)
(* MapInv adds LineInv to them, which is inductive where they are: the     *)
(* jobs are lines that begin with a request, and one job runs at a time.   *)
(* Under it every step is one of AppPipelines, or none: what a step does   *)
(* to a job is brought to a job that is appended or one whose status       *)
(* changes, and these to one pipeline that starts or moves on.             *)
(***************************************************************************)
EXTENDS JobPipeline, SequenceTheorems, FiniteSetTheorems, TLAPS

-----------------------------------------------------------------------------
(* The inductive invariants.                                               *)

\* The rows that the columns of the job j name exist when there are so many
\* activations and notes, its source is older, and its deployment is one of its app.
JobFits(job, j, activations, pipelines) ==
    /\ job.source < j /\ job.act <= activations /\ job.note <= pipelines
    /\ job.deployment # 0 => /\ job.deployment \in DOMAIN jobs
                             /\ jobs[job.deployment].app = job.app
    /\ job.stage = "generate_app_spec" => job.act = 0
    /\ job.stage = "smoke_test" => job.act # 0 /\ job.deployment # 0

JobLinks ==
    \A j \in DOMAIN jobs : JobFits(jobs[j], j, Len(acts), Len(notes))

RowLinks ==
    /\ \A a \in DOMAIN acts : /\ acts[a].source <= Len(jobs)
                              /\ acts[a].sibling <= Len(siblings)
    /\ worker.phase \in {"claiming", "claimed", "executing"} => worker.job \in DOMAIN jobs

\* The instance of a sibling is the deployment of an app, and this app is what the
\* sibling has installed.
RowsFit(rows) ==
    \A s \in DOMAIN rows :
        IF rows[s].instance = 0 THEN rows[s].app = NoApp
        ELSE /\ rows[s].instance \in DOMAIN jobs
             /\ rows[s].app = jobs[rows[s].instance].app

RowsUnique(rows) ==
    \A s, t \in DOMAIN rows : s # t =>
        /\ rows[s].app # rows[t].app \/ rows[s].app = NoApp
        /\ rows[s].instance # rows[t].instance \/ rows[s].instance = 0

InstancesFit == RowsFit(siblings)

\* The activation whose request is being served has no job yet, a key has one
\* activation, and an activation has one deployment, for only requests queue one.
RequestsFit ==
    /\ request # Nothing /\ request.op = "activate" =>
           /\ acts[request.act].source = 0
           /\ acts[request.act].status = "pending"
           /\ \A j \in DOMAIN jobs : jobs[j].act # request.act
    /\ \A a, b \in DOMAIN acts : acts[a].key = acts[b].key => a = b \/ acts[a].key = NoKey
    /\ \A i, j \in DOMAIN jobs :
           (/\ jobs[i].act # 0 /\ jobs[j].act = jobs[i].act
            /\ jobs[i].stage = "deploy_app_local" /\ jobs[j].stage = "deploy_app_local")
               => i = j

\* A draft is of an app from its creation on.
DraftsHaveApps ==
    \A d \in DraftIds : drafts[d].status # "absent" => drafts[d].app \in Apps

TableInv ==
    /\ TypeOK /\ JobLinks /\ RowLinks /\ DraftsHaveApps
    /\ InstancesFit /\ InstalledSiblingIsUnique
    /\ RequestsFit

\* The rest holds as long as no user patches the status of a job.

\* The job that the worker has is in the state the worker believes it in.
WorkerHolds ==
    /\ request # Nothing => request.op = "activate"
    /\ worker.phase = "claiming" => jobs[worker.job].status = "queued"
    /\ worker.phase \in {"claimed", "executing"} => jobs[worker.job].status = "running"
    /\ worker.phase = "executing" => worker.loaded = "running"

\* The job that queued a job is of the stage before, and has succeeded.
Before(stage) == CASE stage = "deploy_app_local" -> "generate_app_spec"
                   [] stage = "provision_sibling_xyn" -> "deploy_app_local"
                   [] stage = "smoke_test" -> "provision_sibling_xyn"

SourcesSucceeded ==
    \A j \in DOMAIN jobs : jobs[j].stage # "generate_app_spec" =>
        /\ jobs[j].source # 0
        /\ jobs[jobs[j].source].status = "succeeded"
        /\ jobs[jobs[j].source].stage = Before(jobs[j].stage)

\* The job f continues the pipeline behind j, which was of the given stage.
Continues(f, j, stage) ==
    /\ f.source = j /\ f.stage \in After(stage)
    /\ stage = "generate_app_spec" => f.act = 0

\* A job has a follow-up if it has succeeded and was not the last stage, never two.
FollowUps ==
    \A j \in DOMAIN jobs :
        /\ (\E i \in DOMAIN jobs : Continues(jobs[i], j, jobs[j].stage))
               <=> (jobs[j].status = "succeeded" /\ jobs[j].stage # "smoke_test")
        /\ \A i, k \in DOMAIN jobs :
               Continues(jobs[i], j, jobs[j].stage) /\ Continues(jobs[k], j, jobs[j].stage)
                   => i = k

\* Behind a result is the smoke test that says so.
ResultsHaveTests ==
    /\ \A a \in DOMAIN acts : acts[a].status = "smoke_passed" =>
           /\ acts[a].source # 0
           /\ jobs[acts[a].source].stage = "smoke_test"
           /\ jobs[acts[a].source].status = "succeeded"
           /\ jobs[acts[a].source].act = a
    /\ \A n \in DOMAIN notes : notes[n] = "completed" =>
           \E j \in DOMAIN jobs : /\ jobs[j].note = n /\ jobs[j].stage = "smoke_test"
                                  /\ jobs[j].status = "succeeded"

Live(job) == job.status \in {"queued", "running"}

\* An activation has one live job at most.
ActivationsHaveOne ==
    \A i, j \in DOMAIN jobs :
        (/\ jobs[i].act # 0 /\ jobs[j].act = jobs[i].act
         /\ Live(jobs[i]) /\ Live(jobs[j])) => i = j

\* Only a job that has failed says where.
FailuresHaveCauses ==
    \A j \in DOMAIN jobs : Live(jobs[j]) => jobs[j].cause = "none"

ChainInv ==
    /\ WorkerHolds /\ SourcesSucceeded /\ FollowUps /\ ResultsHaveTests
    /\ ActivationsHaveOne /\ FailuresHaveCauses /\ ActivationFollowsItsChain

\* A draft that may still be submitted was not.
DraftsBuildOnce ==
    /\ \A d \in DraftIds : drafts[d].status \in {"absent", "draft", "ready"} =>
           \A j \in DOMAIN jobs : jobs[j].draft # d
    /\ \A d \in DraftIds : \A i, j \in DOMAIN jobs :
           jobs[i].draft = d /\ jobs[j].draft = d => i = j

-----------------------------------------------------------------------------
(* Sequences of rows.                                                      *)

LEMMA RowReplaced ==
    ASSUME NEW S, NEW s \in Seq(S), NEW i \in DOMAIN s, NEW e \in S
    PROVE  /\ [s EXCEPT ![i] = e] \in Seq(S)
           /\ Len([s EXCEPT ![i] = e]) = Len(s)
           /\ DOMAIN [s EXCEPT ![i] = e] = DOMAIN s
           /\ \A k \in DOMAIN s : [s EXCEPT ![i] = e][k] = IF k = i THEN e ELSE s[k]
BY ExceptSeq, LenProperties

LEMMA RowAdded ==
    ASSUME NEW S, NEW s \in Seq(S), NEW e \in S
    PROVE  /\ Append(s, e) \in Seq(S)
           /\ Len(Append(s, e)) = Len(s) + 1
           /\ DOMAIN Append(s, e) = 1 .. Len(s) + 1
           /\ \A k \in DOMAIN s : Append(s, e)[k] = s[k]
           /\ Append(s, e)[Len(s) + 1] = e
BY AppendProperties, LenProperties

LEMMA RowsAre ==
    ASSUME NEW S, NEW s \in Seq(S)
    PROVE  /\ Len(s) \in Nat
           /\ DOMAIN s = 1 .. Len(s)
           /\ \A i \in DOMAIN s : s[i] \in S
BY LenProperties, ElementOfSeq

\* A row replaced and a row added behind.
LEMMA RowReplacedAndAdded ==
    ASSUME NEW S, NEW s \in Seq(S), NEW i \in DOMAIN s, NEW e \in S, NEW f \in S,
           NEW t, t = [s EXCEPT ![i] = e] \o <<f>>
    PROVE  /\ t \in Seq(S)
           /\ Len(t) = Len(s) + 1
           /\ \A k \in DOMAIN s : t[k] = IF k = i THEN e ELSE s[k]
           /\ t[Len(s) + 1] = f
<1> DEFINE r == [s EXCEPT ![i] = e]
<1>1. /\ r \in Seq(S) /\ Len(r) = Len(s)
      /\ \A k \in DOMAIN s : r[k] = IF k = i THEN e ELSE s[k]
    BY RowReplaced
<1>2. <<f>> \in Seq(S) /\ Len(<<f>>) = 1 /\ <<f>>[1] = f
    OBVIOUS
<1>3. DOMAIN s = 1 .. Len(s) /\ Len(s) \in Nat
    BY RowsAre
<1> HIDE DEF r
<1>4. /\ t \in Seq(S)
      /\ Len(t) = Len(s) + 1
      /\ \A k \in 1 .. Len(s) + 1 : t[k] = IF k <= Len(s) THEN r[k] ELSE <<f>>[k - Len(s)]
    BY <1>1, <1>2, ConcatProperties DEF r
<1>5. t[Len(s) + 1] = f
    BY <1>4, <1>3, <1>2
<1> QED
    BY <1>1, <1>3, <1>4, <1>5

-----------------------------------------------------------------------------
(* The rows that the actions write.                                        *)

\* A job after its stage.
Ended(job, status, cause, note, deployment) ==
    [job EXCEPT !.status = status, !.cause = cause, !.note = note,
                !.deployment = deployment]

\* What no update of a job changes.
Identity(job) == <<job.stage, job.draft, job.app, job.source, job.act>>

LEMMA JobEnded ==
    ASSUME NEW job \in Job, NEW status \in JobStatuses, NEW cause \in Causes,
           NEW note \in Nat, NEW deployment \in Nat
    PROVE  /\ Ended(job, status, cause, note, deployment) \in Job
           /\ Ended(job, status, cause, note, deployment).status = status
           /\ Ended(job, status, cause, note, deployment).cause = cause
           /\ Ended(job, status, cause, note, deployment).note = note
           /\ Ended(job, status, cause, note, deployment).deployment = deployment
           /\ Ended(job, status, cause, note, deployment).anchored = job.anchored
           /\ Ended(job, status, cause, note, deployment).stage = job.stage
           /\ Ended(job, status, cause, note, deployment).draft = job.draft
           /\ Ended(job, status, cause, note, deployment).app = job.app
           /\ Ended(job, status, cause, note, deployment).source = job.source
           /\ Ended(job, status, cause, note, deployment).act = job.act
BY DEF Ended, Job

\* What a job passes on to the one it queues.
PassedOn(f, j, stage, act, note, deployment) ==
    /\ f \in Job
    /\ f.stage = stage /\ f.status = "queued" /\ f.cause = "none"
    /\ f.draft = NoDraft /\ f.app = jobs[j].app /\ f.anchored = jobs[j].anchored
    /\ f.source = j /\ f.act = act /\ f.note = note /\ f.deployment = deployment

LEMMA FollowUpFits ==
    ASSUME jobs \in Seq(Job), NEW j \in DOMAIN jobs, NEW stage \in Stages,
           NEW act \in Nat, NEW note \in Nat, NEW deployment \in Nat
    PROVE  PassedOn(FollowUp(j, stage, act, note, deployment), j, stage, act, note,
                    deployment)
<1>1. jobs[j] \in Job /\ j \in Nat
    BY RowsAre
<1> QED
    BY <1>1 DEF PassedOn, FollowUp, NewJob, Job, JobStatuses, Causes

LEMMA WrittenIsAStatus ==
    ASSUME TypeOK, worker.job \in DOMAIN jobs, NEW status \in JobStatuses
    PROVE  Written(status) \in JobStatuses
<1>1. jobs[worker.job] \in Job
    BY RowsAre DEF TypeOK
<1> QED
    BY <1>1 DEF Written, Job

\* The commit of a stage that succeeds.
LEMMA SucceedWrites ==
    ASSUME TypeOK, NEW j \in DOMAIN jobs, j = worker.job,
           NEW note \in Nat, NEW deployment \in Nat, NEW f \in Job,
           Succeed(note, deployment, <<f>>)
    PROVE  /\ jobs' \in Seq(Job) /\ Len(jobs') = Len(jobs) + 1
           /\ \A k \in DOMAIN jobs : jobs'[k] =
                  IF k = j THEN Ended(jobs[j], Written("succeeded"), "none", note, deployment)
                  ELSE jobs[k]
           /\ jobs'[Len(jobs) + 1] = f
           /\ Written("succeeded") \in JobStatuses
           /\ worker' = Rest /\ UNCHANGED <<drafts, request, used>>
<1> DEFINE new == Ended(jobs[j], Written("succeeded"), "none", note, deployment)
           t == [jobs EXCEPT ![j].status = Written("succeeded"), ![j].cause = "none",
                            ![j].note = note, ![j].deployment = deployment]
<1>1. Written("succeeded") \in JobStatuses
    BY WrittenIsAStatus DEF JobStatuses
<1>2. new \in Job /\ t = [jobs EXCEPT ![j] = new]
  <2>1. jobs[j] \in Job /\ "none" \in Causes
      BY RowsAre DEF TypeOK, Causes
  <2>2. new \in Job
      BY <1>1, <2>1, JobEnded
  <2>3. t = [jobs EXCEPT ![j] = new]
      BY DEF Ended
  <2> QED
      BY <2>2, <2>3
<1>3. jobs' = t \o <<f>> /\ worker' = Rest /\ UNCHANGED <<drafts, request, used>>
    BY DEF Succeed
<1> HIDE DEF new, t
<1>4. jobs' = [jobs EXCEPT ![j] = new] \o <<f>>
    BY <1>2, <1>3
<1>5. jobs \in Seq(Job)
    BY DEF TypeOK
<1>6. /\ jobs' \in Seq(Job) /\ Len(jobs') = Len(jobs) + 1
      /\ \A k \in DOMAIN jobs : jobs'[k] = IF k = j THEN new ELSE jobs[k]
      /\ jobs'[Len(jobs) + 1] = f
    BY <1>2, <1>4, <1>5, RowReplacedAndAdded
<1> QED
    BY <1>1, <1>3, <1>6 DEF new

LEMMA SucceedLast ==
    ASSUME TypeOK, NEW j \in DOMAIN jobs, j = worker.job,
           NEW note \in Nat, NEW deployment \in Nat,
           Succeed(note, deployment, <<>>)
    PROVE  /\ jobs' \in Seq(Job) /\ Len(jobs') = Len(jobs)
           /\ \A k \in DOMAIN jobs : jobs'[k] =
                  IF k = j THEN Ended(jobs[j], Written("succeeded"), "none", note, deployment)
                  ELSE jobs[k]
           /\ Written("succeeded") \in JobStatuses
           /\ worker' = Rest /\ UNCHANGED <<drafts, request, used>>
<1> DEFINE new == Ended(jobs[j], Written("succeeded"), "none", note, deployment)
           t == [jobs EXCEPT ![j].status = Written("succeeded"), ![j].cause = "none",
                            ![j].note = note, ![j].deployment = deployment]
<1>1. Written("succeeded") \in JobStatuses
    BY WrittenIsAStatus DEF JobStatuses
<1>2. new \in Job /\ t = [jobs EXCEPT ![j] = new]
  <2>1. jobs[j] \in Job /\ "none" \in Causes
      BY RowsAre DEF TypeOK, Causes
  <2>2. new \in Job
      BY <1>1, <2>1, JobEnded
  <2>3. t = [jobs EXCEPT ![j] = new]
      BY DEF Ended
  <2> QED
      BY <2>2, <2>3
<1>3. jobs' = t \o <<>> /\ worker' = Rest /\ UNCHANGED <<drafts, request, used>>
    BY DEF Succeed
<1> HIDE DEF new, t
<1>4. jobs \in Seq(Job)
    BY DEF TypeOK
<1>5. /\ t \in Seq(Job) /\ Len(t) = Len(jobs)
      /\ \A k \in DOMAIN jobs : t[k] = IF k = j THEN new ELSE jobs[k]
    BY <1>2, <1>4, RowReplaced
<1>6. jobs' = t
    BY <1>3, <1>5, ConcatEmptySeq
<1> QED
    BY <1>1, <1>3, <1>5, <1>6 DEF new

NoteStatuses == {"in_progress", "failed", "completed"}

\* What the failure of a job leaves of its note and its deployment.
FailedNote(job) == IF job.stage = "generate_app_spec" THEN 0 ELSE job.note
FailedDeployment(job) == IF job.stage = "smoke_test" THEN job.deployment ELSE 0

\* The commit of a stage that fails.
LEMMA FailWritesJob ==
    ASSUME TypeOK, NEW j \in DOMAIN jobs, j = worker.job, NEW cause \in Causes,
           NEW newActs, NEW newSiblings, NEW newNotes,
           Fail(cause, newActs, newSiblings, newNotes)
    PROVE  /\ jobs' \in Seq(Job) /\ Len(jobs') = Len(jobs)
           /\ \A k \in DOMAIN jobs : jobs'[k] =
                  IF k = j THEN Ended(jobs[j], Written("failed"), cause, FailedNote(jobs[j]),
                                      FailedDeployment(jobs[j]))
                  ELSE jobs[k]
           /\ Written("failed") \in JobStatuses
           /\ worker' = Rest /\ UNCHANGED <<drafts, request, used>>
<1> DEFINE new == Ended(jobs[j], Written("failed"), cause, FailedNote(jobs[j]),
                        FailedDeployment(jobs[j]))
           t == [jobs EXCEPT ![j].status = Written("failed"), ![j].cause = cause,
                             ![j].note = FailedNote(jobs[j]),
                             ![j].deployment = FailedDeployment(jobs[j])]
<1>1. jobs[j] \in Job
    BY RowsAre DEF TypeOK
<1>2. Written("failed") \in JobStatuses
    BY WrittenIsAStatus DEF JobStatuses
<1>3. new \in Job /\ t = [jobs EXCEPT ![j] = new]
  <2>1. FailedNote(jobs[j]) \in Nat /\ FailedDeployment(jobs[j]) \in Nat
      BY <1>1 DEF FailedNote, FailedDeployment, Job
  <2>2. new \in Job
      BY <1>1, <1>2, <2>1, JobEnded
  <2>3. t = [jobs EXCEPT ![j] = new]
      BY DEF Ended
  <2> QED
      BY <2>2, <2>3
<1>4. jobs' = [jobs EXCEPT ![j] = new] /\ worker' = Rest /\ UNCHANGED <<drafts, request, used>>
  <2>1. jobs' = t
      BY DEF Fail, FailedNote, FailedDeployment
  <2> QED
      BY <2>1, <1>3 DEF Fail
<1> HIDE DEF new, t
<1>5. jobs \in Seq(Job)
    BY DEF TypeOK
<1>6. /\ jobs' \in Seq(Job) /\ Len(jobs') = Len(jobs)
      /\ \A k \in DOMAIN jobs : jobs'[k] = IF k = j THEN new ELSE jobs[k]
    BY <1>3, <1>4, <1>5, RowReplaced
<1> QED
    BY <1>2, <1>4, <1>6 DEF new

\* What the failure of j makes of the rows that its stage leaves.
FailedRows(j, newActs, newSiblings, newNotes) ==
    /\ acts' \in Seq(Activation) /\ Len(acts') = Len(newActs)
    /\ \A a \in DOMAIN newActs : a # jobs[j].act => acts'[a] = newActs[a]
    /\ jobs[j].act # 0 =>
          acts'[jobs[j].act] = [newActs[jobs[j].act] EXCEPT !.status = "failed", !.source = j]
    /\ siblings' \in Seq(Sibling) /\ Len(siblings') = Len(newSiblings)
    /\ \A s \in DOMAIN newSiblings : /\ siblings'[s].deployment = newSiblings[s].deployment
                                     /\ siblings'[s].app = newSiblings[s].app
                                     /\ siblings'[s].instance = newSiblings[s].instance
    /\ notes' \in Seq(NoteStatuses) /\ Len(notes') = Len(newNotes)
    /\ \A n \in DOMAIN newNotes : notes'[n] \in {newNotes[n], "failed"}

LEMMA FailWritesRows ==
    ASSUME TypeOK, NEW j \in DOMAIN jobs, j = worker.job, NEW cause \in Causes,
           NEW newActs \in Seq(Activation), NEW newSiblings \in Seq(Sibling),
           NEW newNotes \in Seq(NoteStatuses),
           jobs[j].note <= Len(newNotes), jobs[j].act <= Len(newActs),
           \A a \in DOMAIN newActs : newActs[a].sibling <= Len(newSiblings),
           Fail(cause, newActs, newSiblings, newNotes)
    PROVE  FailedRows(j, newActs, newSiblings, newNotes)
<1> DEFINE a == jobs[j].act
           n == jobs[j].note
           new == [newActs[a] EXCEPT !.status = "failed", !.source = j]
           f == IF a = 0 THEN 0 ELSE newActs[a].sibling
           row == [newSiblings[f] EXCEPT !.status = "failed"]
<1>1. a \in Nat /\ n \in Nat /\ j \in Nat
  <2>1. jobs[j] \in Job
      BY RowsAre DEF TypeOK
  <2>2. j \in Nat
      BY RowsAre DEF TypeOK
  <2> QED
      BY <2>1, <2>2 DEF Job
<1>2. /\ acts' \in Seq(Activation) /\ Len(acts') = Len(newActs)
      /\ \A k \in DOMAIN newActs : k # a => acts'[k] = newActs[k]
      /\ a # 0 => acts'[a] = new
  <2>1. CASE a = 0
      BY <2>1 DEF Fail
  <2>2. CASE a # 0
    <3>1. a \in DOMAIN newActs
        BY <1>1, <2>2, RowsAre
    <3>2. newActs[a] \in Activation
        BY <3>1, RowsAre
    <3>3. new \in Activation
        BY <3>2, <1>1 DEF Activation
    <3>4. acts' = [newActs EXCEPT ![a] = new]
        BY <2>2 DEF Fail, ActivationFailed
    <3> HIDE DEF new
    <3> QED
        BY <3>1, <3>3, <3>4, RowReplaced
  <2> QED
      BY <2>1, <2>2
<1>3. /\ siblings' \in Seq(Sibling) /\ Len(siblings') = Len(newSiblings)
      /\ \A s \in DOMAIN newSiblings : /\ siblings'[s].deployment = newSiblings[s].deployment
                                       /\ siblings'[s].app = newSiblings[s].app
                                       /\ siblings'[s].instance = newSiblings[s].instance
  <2>1. CASE f = 0
      BY <2>1 DEF Fail
  <2>2. CASE f # 0
    <3>1. a \in DOMAIN newActs /\ f = newActs[a].sibling
        BY <1>1, <2>2, RowsAre
    <3>2. f \in DOMAIN newSiblings
      <4>1. newActs[a] \in Activation
          BY <3>1, RowsAre
      <4>2. f \in Nat /\ f <= Len(newSiblings)
          BY <3>1, <4>1 DEF Activation
      <4> QED
          BY <4>2, <2>2, RowsAre
    <3>3. newSiblings[f] \in Sibling
        BY <3>2, RowsAre
    <3>4. row \in Sibling /\ row.deployment = newSiblings[f].deployment
          /\ row.app = newSiblings[f].app /\ row.instance = newSiblings[f].instance
        BY <3>3 DEF Sibling
    <3>5. siblings' = [newSiblings EXCEPT ![f] = row]
        BY <2>2 DEF Fail
    <3> HIDE DEF row, f
    <3>6. /\ siblings' \in Seq(Sibling) /\ Len(siblings') = Len(newSiblings)
          /\ \A k \in DOMAIN newSiblings : siblings'[k] = IF k = f THEN row ELSE newSiblings[k]
        BY <3>2, <3>4, <3>5, RowReplaced
    <3> QED
        BY <3>6, <3>4
  <2> QED
      BY <2>1, <2>2
<1>4. /\ notes' \in Seq(NoteStatuses) /\ Len(notes') = Len(newNotes)
      /\ \A k \in DOMAIN newNotes : notes'[k] \in {newNotes[k], "failed"}
  <2>1. CASE notes' = newNotes
      BY <2>1
  <2>2. CASE n # 0 /\ notes' = [newNotes EXCEPT ![n] = "failed"]
    <3>1. n \in DOMAIN newNotes /\ "failed" \in NoteStatuses
        BY <1>1, <2>2, RowsAre DEF NoteStatuses
    <3> QED
        BY <2>2, <3>1, RowReplaced
  <2> QED
      BY <2>1, <2>2 DEF Fail
<1> QED
    BY <1>2, <1>3, <1>4 DEF FailedRows

-----------------------------------------------------------------------------
(* Siblings.                                                               *)

SiblingStatuses == {"provisioning", "ready", "active", "failed"}

\* The row that an upsert writes.
UpsertedRow(rows, s, deployment, app, installed, status) ==
    [status |-> status, deployment |-> deployment,
     app |-> IF installed THEN app ELSE IF s \in DOMAIN rows THEN rows[s].app ELSE NoApp,
     instance |-> IF installed THEN deployment
                  ELSE IF s \in DOMAIN rows THEN rows[s].instance ELSE 0]

\* An upsert writes one row, of the table or behind it.
LEMMA UpsertWrites ==
    ASSUME NEW rows \in Seq(Sibling), NEW d \in Nat, NEW app \in Apps,
           NEW installed \in BOOLEAN, NEW status \in SiblingStatuses,
           NEW s \in SiblingRows(rows, d, app, installed), NEW new,
           new = Upserted(rows, s, d, app, installed, status)
    PROVE  /\ s \in 1 .. Len(rows) + 1
           /\ new \in Seq(Sibling)
           /\ Len(new) = IF s = Len(rows) + 1 THEN Len(rows) + 1 ELSE Len(rows)
           /\ \A k \in DOMAIN rows : k # s => new[k] = rows[k]
           /\ new[s] = UpsertedRow(rows, s, d, app, installed, status)
<1> DEFINE row == UpsertedRow(rows, s, d, app, installed, status)
<1>1. s \in 1 .. Len(rows) + 1 /\ Len(rows) \in Nat /\ DOMAIN rows = 1 .. Len(rows)
  <2>1. Len(rows) \in Nat /\ DOMAIN rows = 1 .. Len(rows)
      BY RowsAre
  <2>2. s \in DOMAIN rows \/ s = Len(rows) + 1
      BY DEF SiblingRows
  <2> QED
      BY <2>1, <2>2
<1>2. row \in Sibling
  <2>1. s \in DOMAIN rows => rows[s] \in Sibling
      BY RowsAre
  <2> QED
      BY <2>1 DEF UpsertedRow, Sibling, SiblingStatuses
<1>3. new = IF s \in DOMAIN rows THEN [rows EXCEPT ![s] = row] ELSE Append(rows, row)
    BY DEF Upserted, UpsertedRow
<1> HIDE DEF row
<1>4. CASE s \in DOMAIN rows
  <2>1. new = [rows EXCEPT ![s] = row] /\ s # Len(rows) + 1
      BY <1>1, <1>3, <1>4
  <2>2. /\ new \in Seq(Sibling) /\ Len(new) = Len(rows)
        /\ \A k \in DOMAIN rows : new[k] = IF k = s THEN row ELSE rows[k]
      BY <1>2, <1>4, <2>1, RowReplaced
  <2> QED
      BY <1>1, <1>4, <2>1, <2>2 DEF row
<1>5. CASE s \notin DOMAIN rows
  <2>1. s = Len(rows) + 1
      BY <1>1, <1>5
  <2>2. s = Len(rows) + 1 /\ new = Append(rows, row)
      BY <2>1, <1>3, <1>5
  <2>3. /\ new \in Seq(Sibling) /\ Len(new) = Len(rows) + 1
        /\ \A k \in DOMAIN rows : new[k] = rows[k]
        /\ new[s] = row
      BY <1>2, <2>2, RowAdded
  <2> QED
      BY <1>1, <2>2, <2>3 DEF row
<1> QED
    BY <1>4, <1>5

\* new is a table of siblings as good as rows, with the row s in it.
RowsKept(rows, s, new) ==
    /\ new \in Seq(Sibling) /\ s \in 1 .. Len(new) /\ Len(rows) <= Len(new)
    /\ RowsFit(new) /\ RowsUnique(new)

LEMMA UpsertKeepsRows ==
    ASSUME jobs \in Seq(Job), NEW rows \in Seq(Sibling),
           RowsFit(rows), RowsUnique(rows),
           NEW d \in DOMAIN jobs, NEW app, app = jobs[d].app,
           NEW installed \in BOOLEAN, NEW status \in SiblingStatuses,
           NEW s \in SiblingRows(rows, d, app, installed)
    PROVE  RowsKept(rows, s, Upserted(rows, s, d, app, installed, status))
<1> DEFINE new == Upserted(rows, s, d, app, installed, status)
<1>1. d \in Nat /\ d # 0 /\ app \in Apps /\ app # NoApp
  <2>1. jobs[d] \in Job
      BY RowsAre
  <2>2. d \in Nat /\ d # 0
      BY RowsAre
  <2> QED
      BY <2>1, <2>2, NullsAreOutside DEF Job
<1>2. /\ s \in 1 .. Len(rows) + 1 /\ new \in Seq(Sibling)
      /\ Len(new) = IF s = Len(rows) + 1 THEN Len(rows) + 1 ELSE Len(rows)
      /\ \A k \in DOMAIN rows : k # s => new[k] = rows[k]
      /\ new[s] = UpsertedRow(rows, s, d, app, installed, status)
    BY <1>1, UpsertWrites
<1> HIDE DEF new
<1>3. /\ DOMAIN rows = 1 .. Len(rows) /\ Len(rows) \in Nat
      /\ DOMAIN new = 1 .. Len(new)
    BY <1>2, RowsAre
<1>4. DOMAIN new = DOMAIN rows \cup {s} /\ s \in 1 .. Len(new) /\ Len(rows) <= Len(new)
    BY <1>2, <1>3
<1>5. /\ installed => new[s].app = app /\ new[s].instance = d
      /\ ~ installed /\ s \in DOMAIN rows => /\ new[s].app = rows[s].app
                                             /\ new[s].instance = rows[s].instance
      /\ ~ installed /\ s \notin DOMAIN rows => new[s].app = NoApp /\ new[s].instance = 0
    BY <1>2 DEF UpsertedRow
<1>6. RowsFit(new)
    BY <1>1, <1>2, <1>4, <1>5 DEF RowsFit
<1>7. \A t \in DOMAIN rows : t # s /\ installed => rows[t].app # app /\ rows[t].instance # d
  <2> SUFFICES ASSUME NEW t \in DOMAIN rows, t # s, installed
               PROVE  rows[t].app # app /\ rows[t].instance # d
      OBVIOUS
  <2>1. CASE \E k \in DOMAIN rows : rows[k].instance = d
    <3>1. s \in DOMAIN rows /\ rows[s].instance = d
        BY <2>1 DEF SiblingRows
    <3>2. rows[s].app = app
        BY <3>1, <1>1 DEF RowsFit
    <3> QED
        BY <3>1, <3>2, <1>1 DEF RowsUnique
  <2>2. CASE ~ \E k \in DOMAIN rows : rows[k].instance = d
    <3>1. CASE \E k \in DOMAIN rows : rows[k].app = app
      <4>1. s \in DOMAIN rows /\ rows[s].app = app
          BY <2>2, <3>1 DEF SiblingRows
      <4> QED
          BY <4>1, <2>2, <1>1 DEF RowsUnique
    <3> QED
        BY <3>1, <2>2
  <2> QED
      BY <2>1, <2>2
<1>8. RowsUnique(new)
  <2> SUFFICES ASSUME NEW k \in DOMAIN new, NEW t \in DOMAIN new, k # t
               PROVE  /\ new[k].app # new[t].app \/ new[k].app = NoApp
                      /\ new[k].instance # new[t].instance \/ new[k].instance = 0
      BY DEF RowsUnique
  <2>1. CASE k # s /\ t # s
      BY <2>1, <1>2, <1>4 DEF RowsUnique
  <2>2. CASE installed /\ (k = s \/ t = s)
      BY <2>2, <1>2, <1>4, <1>5, <1>7
  <2>3. CASE ~ installed /\ s \in DOMAIN rows
      BY <2>3, <1>2, <1>4, <1>5 DEF RowsUnique
  <2>4. CASE ~ installed /\ s \notin DOMAIN rows /\ (k = s \/ t = s)
      BY <2>4, <1>2, <1>4, <1>5, <1>1
  <2> QED
      BY <2>1, <2>2, <2>3, <2>4
<1> QED
    BY <1>2, <1>4, <1>6, <1>8 DEF RowsKept, new

-----------------------------------------------------------------------------
(* Activations.                                                            *)

ActivationStatuses == {"pending", "provisioning", "runtime_registered",
                       "smoke_passed", "failed"}

LEMMA ReportWrites ==
    ASSUME TypeOK, JobLinks, NEW j \in DOMAIN jobs, NEW status \in ActivationStatuses,
           NEW s \in Nat, NEW new, new = Reported(j, status, s)
    PROVE  /\ new \in Seq(Activation)
           /\ Len(new) = IF jobs[j].act = 0 THEN Len(acts) + 1 ELSE Len(acts)
           /\ ActivationOf(j) \in 1 .. Len(new)
           /\ \A k \in DOMAIN acts : k # jobs[j].act => new[k] = acts[k]
           /\ new[ActivationOf(j)].status = status
           /\ new[ActivationOf(j)].source = j
           /\ new[ActivationOf(j)].key =
                  IF jobs[j].act = 0 THEN NoKey ELSE acts[jobs[j].act].key
           /\ new[ActivationOf(j)].sibling =
                  IF jobs[j].act # 0 /\ s = 0 THEN acts[jobs[j].act].sibling ELSE s
<1> DEFINE a == jobs[j].act
<1>1. jobs[j] \in Job /\ j \in Nat /\ Len(acts) \in Nat /\ DOMAIN acts = 1 .. Len(acts)
  <2>1. jobs[j] \in Job /\ j \in Nat
      BY RowsAre DEF TypeOK
  <2> QED
      BY <2>1, RowsAre DEF TypeOK
<1>2. a \in Nat /\ a <= Len(acts)
    BY <1>1 DEF Job, JobLinks, JobFits
<1>3. CASE a = 0
  <2> DEFINE row == [status |-> status, key |-> NoKey, app |-> jobs[j].app,
                     source |-> j, sibling |-> s]
  <2>1. row \in Activation
      BY <1>1 DEF Activation, ActivationStatuses, Job
  <2>2. new = Append(acts, row) /\ ActivationOf(j) = Len(acts) + 1
      BY <1>3 DEF Reported, ActivationOf
  <2> HIDE DEF row
  <2>3. acts \in Seq(Activation)
      BY DEF TypeOK
  <2>4. /\ new \in Seq(Activation) /\ Len(new) = Len(acts) + 1
        /\ \A k \in DOMAIN acts : new[k] = acts[k]
        /\ new[Len(acts) + 1] = row
      BY <2>1, <2>2, <2>3, RowAdded
  <2> QED
      BY <2>2, <2>4, <1>1, <1>3 DEF row
<1>4. CASE a # 0
  <2> DEFINE row == [acts[a] EXCEPT !.status = status, !.source = j,
                                    !.sibling = IF s = 0 THEN acts[a].sibling ELSE s]
  <2>1. a \in DOMAIN acts /\ acts[a] \in Activation
    <3>1. a \in DOMAIN acts
        BY <1>1, <1>2, <1>4
    <3> QED
        BY <3>1, RowsAre DEF TypeOK
  <2>2. row \in Activation
      BY <2>1, <1>1 DEF Activation, ActivationStatuses
  <2>3. new = [acts EXCEPT ![a] = row] /\ ActivationOf(j) = a
      BY <1>4 DEF Reported, ActivationOf
  <2>4. /\ row.status = status /\ row.source = j /\ row.key = acts[a].key
        /\ row.sibling = IF s = 0 THEN acts[a].sibling ELSE s
      BY <2>1 DEF Activation
  <2> HIDE DEF row
  <2>5. acts \in Seq(Activation)
      BY DEF TypeOK
  <2>6. /\ new \in Seq(Activation) /\ Len(new) = Len(acts)
        /\ \A k \in DOMAIN acts : new[k] = IF k = a THEN row ELSE acts[k]
      BY <2>1, <2>2, <2>3, <2>5, RowReplaced
  <2> QED
      BY <2>1, <2>3, <2>4, <2>6, <1>1, <1>4
<1> QED
    BY <1>3, <1>4

LEMMA DeploymentsAreOfTheApp ==
    ASSUME TypeOK, JobLinks, NEW j \in DOMAIN jobs, NEW d \in Deployments(j)
    PROVE  d \in DOMAIN jobs /\ d \in Nat /\ d # 0 /\ jobs[d].app = jobs[j].app
<1>1. d \in DOMAIN jobs /\ jobs[d].app = jobs[j].app
    BY DEF Deployments, Reusable, JobLinks, JobFits
<1> QED
    BY <1>1, RowsAre DEF TypeOK

-----------------------------------------------------------------------------
(* What a step does to the tables.                                         *)

\* No table loses a row, and every row stays well linked.
TablesGrow ==
    /\ jobs' \in Seq(Job) /\ acts' \in Seq(Activation)
    /\ siblings' \in Seq(Sibling) /\ notes' \in Seq(NoteStatuses)
    /\ Len(jobs) <= Len(jobs') /\ Len(acts) <= Len(acts') /\ Len(siblings) <= Len(siblings')
    /\ \A k \in DOMAIN jobs : Identity(jobs'[k]) = Identity(jobs[k])
    /\ \A k \in DOMAIN jobs' : JobFits(jobs'[k], k, Len(acts'), Len(notes'))
    /\ \A a \in DOMAIN acts' : /\ acts'[a].source <= Len(jobs')
                               /\ acts'[a].sibling <= Len(siblings')
    /\ RowsFit(siblings') /\ RowsUnique(siblings')

\* The only rows of jobs and activations that change are j and its activation, or
\* one that j creates.
OnlyOf(j) ==
    /\ \A k \in DOMAIN jobs : k # j => jobs'[k] = jobs[k]
    /\ \A k \in DOMAIN acts : k # jobs[j].act => acts'[k] = acts[k]
    /\ \A k \in DOMAIN acts : acts'[k].key = acts[k].key
    /\ \/ Len(acts') = Len(acts)
       \/ /\ jobs[j].act = 0 /\ jobs[j].stage = "provision_sibling_xyn"
          /\ Len(acts') = Len(acts) + 1 /\ acts'[Len(acts) + 1].key = NoKey
          /\ acts'[Len(acts) + 1].source = j
          /\ acts'[Len(acts) + 1].status \in {"provisioning", "runtime_registered"}

Frees == worker' = Rest /\ UNCHANGED <<drafts, request, used>>

StageFails(j) ==
    /\ TablesGrow /\ OnlyOf(j) /\ Frees
    /\ Len(jobs') = Len(jobs)
    /\ jobs'[j].status = Written("failed") /\ jobs'[j].cause # "none"
    /\ jobs[j].act # 0 => acts'[jobs[j].act].status = "failed"
    /\ \A n \in DOMAIN notes' : notes'[n] = "completed" =>
           n \in DOMAIN notes /\ notes[n] = "completed"

Follows(f, j) ==
    /\ f.stage \in After(jobs[j].stage) /\ f.status = "queued" /\ f.cause = "none"
    /\ f.draft = NoDraft /\ f.source = j
    /\ f.act = CASE jobs[j].stage = "generate_app_spec" -> 0
                 [] jobs[j].stage = "deploy_app_local" -> jobs[j].act
                 [] jobs[j].stage = "provision_sibling_xyn" -> ActivationOf(j)

StageAdvances(j) ==
    /\ TablesGrow /\ OnlyOf(j) /\ Frees
    /\ jobs[j].stage # "smoke_test"
    /\ Len(jobs') = Len(jobs) + 1
    /\ jobs'[j].status = Written("succeeded") /\ jobs'[j].cause = "none"
    /\ Follows(jobs'[Len(jobs) + 1], j)
    /\ jobs[j].act # 0 =>
           acts'[jobs[j].act].status \in {acts[jobs[j].act].status, "runtime_registered"}
    /\ \A n \in DOMAIN notes' : notes'[n] = "completed" =>
           n \in DOMAIN notes /\ notes[n] = "completed"

TestPasses(j) ==
    /\ TablesGrow /\ OnlyOf(j) /\ Frees
    /\ jobs[j].stage = "smoke_test"
    /\ Len(jobs') = Len(jobs)
    /\ jobs'[j].status = Written("succeeded") /\ jobs'[j].cause = "none"
    /\ jobs'[j].note = jobs[j].note
    /\ acts'[jobs[j].act].status = "smoke_passed" /\ acts'[jobs[j].act].source = j
    /\ \A n \in DOMAIN notes' : notes'[n] = "completed" =>
           n = jobs[j].note \/ (n \in DOMAIN notes /\ notes[n] = "completed")

\* The rows of the tables as they are.
LEMMA RowsOfTables ==
    ASSUME TypeOK
    PROVE  /\ Len(jobs) \in Nat /\ DOMAIN jobs = 1 .. Len(jobs)
           /\ \A j \in DOMAIN jobs : jobs[j] \in Job
           /\ Len(acts) \in Nat /\ DOMAIN acts = 1 .. Len(acts)
           /\ \A a \in DOMAIN acts : acts[a] \in Activation
           /\ Len(siblings) \in Nat /\ DOMAIN siblings = 1 .. Len(siblings)
           /\ \A s \in DOMAIN siblings : siblings[s] \in Sibling
           /\ Len(notes) \in Nat /\ DOMAIN notes = 1 .. Len(notes)
           /\ \A n \in DOMAIN notes : notes[n] \in NoteStatuses
<1>1. /\ jobs \in Seq(Job) /\ acts \in Seq(Activation) /\ siblings \in Seq(Sibling)
      /\ notes \in Seq(NoteStatuses)
    BY DEF TypeOK, NoteStatuses
<1> QED
    BY <1>1, RowsAre

\* The activations that the stage of j leaves, before its failure is marked, when
\* there are m siblings.
StagedActs(j, new, status, m) ==
    /\ new \in Seq(Activation) /\ Len(acts) <= Len(new) /\ jobs[j].act <= Len(new)
    /\ \/ Len(new) = Len(acts)
       \/ /\ jobs[j].act = 0 /\ jobs[j].stage = "provision_sibling_xyn"
          /\ Len(new) = Len(acts) + 1 /\ new[Len(acts) + 1].key = NoKey
          /\ new[Len(acts) + 1].source = j
          /\ new[Len(acts) + 1].status = status
    /\ \A k \in DOMAIN acts : k # jobs[j].act => new[k] = acts[k]
    /\ jobs[j].act # 0 => /\ jobs[j].act \in DOMAIN acts
                          /\ new[jobs[j].act].key = acts[jobs[j].act].key
                          /\ new[jobs[j].act].status \in {acts[jobs[j].act].status, status}
    /\ \A k \in DOMAIN new : new[k].sibling <= m /\ new[k].source <= Len(jobs)
    /\ new # acts => ActivationOf(j) \in 1 .. Len(new)

LEMMA StageActs ==
    ASSUME TypeOK, JobLinks, RowLinks, NEW j \in DOMAIN jobs,
           NEW status \in {"provisioning", "runtime_registered", "smoke_passed"},
           NEW s \in Nat, NEW m \in Nat, Len(siblings) <= m, s <= m,
           NEW new, new \in {acts, Reported(j, status, s)},
           jobs[j].stage = "provision_sibling_xyn" \/ jobs[j].act # 0 \/ new = acts
    PROVE  StagedActs(j, new, status, m)
<1> DEFINE a == jobs[j].act
<1>1. /\ Len(acts) \in Nat /\ DOMAIN acts = 1 .. Len(acts)
      /\ Len(jobs) \in Nat /\ j \in Nat /\ 0 < j /\ j <= Len(jobs)
      /\ Len(siblings) \in Nat
    BY RowsOfTables
<1>2. a \in Nat /\ a <= Len(acts)
  <2>1. jobs[j] \in Job
      BY RowsOfTables
  <2> QED
      BY <2>1 DEF Job, JobLinks, JobFits
<1> HIDE DEF a
<1>3. a = jobs[j].act
    BY DEF a
<1>4. \A k \in DOMAIN acts : acts[k].sibling <= m /\ acts[k].source <= Len(jobs)
  <2> SUFFICES ASSUME NEW k \in DOMAIN acts
               PROVE  acts[k].sibling <= m /\ acts[k].source <= Len(jobs)
      OBVIOUS
  <2>1. acts[k].sibling \in Nat
    <3>1. acts[k] \in Activation
        BY RowsOfTables
    <3> QED
        BY <3>1 DEF Activation
  <2> QED
      BY <1>1, <2>1 DEF RowLinks
<1>5. CASE new = acts
    BY <1>1, <1>2, <1>4, <1>5, <1>3 DEF TypeOK, StagedActs
<1>6. CASE new = Reported(j, status, s)
  <2>1. /\ new \in Seq(Activation)
        /\ Len(new) = IF a = 0 THEN Len(acts) + 1 ELSE Len(acts)
        /\ \A k \in DOMAIN acts : k # a => new[k] = acts[k]
        /\ new[ActivationOf(j)].status = status
        /\ new[ActivationOf(j)].source = j
        /\ new[ActivationOf(j)].key = IF a = 0 THEN NoKey ELSE acts[a].key
        /\ new[ActivationOf(j)].sibling = IF a # 0 /\ s = 0 THEN acts[a].sibling ELSE s
    <3>1. status \in ActivationStatuses
        BY DEF ActivationStatuses
    <3> QED
        BY <1>6, <1>3, <3>1, ReportWrites
  <2>2. ActivationOf(j) = IF a # 0 THEN a ELSE Len(acts) + 1
      BY <1>3 DEF ActivationOf
  <2>3. DOMAIN new = 1 .. Len(new)
      BY <2>1, RowsAre
  <2>4. CASE a = 0
    <3>1. /\ Len(new) = Len(acts) + 1
          /\ \A k \in DOMAIN acts : new[k] = acts[k]
          /\ new[Len(acts) + 1].status = status
          /\ new[Len(acts) + 1].source = j
          /\ new[Len(acts) + 1].key = NoKey
          /\ new[Len(acts) + 1].sibling = s
        BY <2>1, <2>2, <2>4, <1>1
    <3>2. \A k \in DOMAIN new : k \in DOMAIN acts \/ k = Len(acts) + 1
        BY <3>1, <2>3, <1>1
    <3>3. \A k \in DOMAIN new : new[k].sibling <= m /\ new[k].source <= Len(jobs)
        BY <3>1, <3>2, <1>1, <1>4
    <3>4. jobs[j].stage = "provision_sibling_xyn"
        BY <3>1, <2>4, <1>1, <1>3
    <3>5. /\ Len(acts) <= Len(new) /\ a <= Len(new)
          /\ ActivationOf(j) \in 1 .. Len(new)
        BY <3>1, <2>2, <2>4, <1>1
    <3> QED
        BY <3>1, <3>3, <3>4, <3>5, <2>1, <2>4, <1>3 DEF StagedActs
  <2>5. CASE a # 0
    <3>1. /\ Len(new) = Len(acts) /\ a \in DOMAIN acts
          /\ new[a].key = acts[a].key /\ new[a].status = status /\ new[a].source = j
          /\ new[a].sibling \in {acts[a].sibling, s}
        BY <2>1, <2>2, <2>5, <1>1, <1>2
    <3>2. \A k \in DOMAIN new : k \in DOMAIN acts
        BY <3>1, <2>3, <1>1
    <3>3. \A k \in DOMAIN new : new[k].sibling <= m /\ new[k].source <= Len(jobs)
        BY <3>1, <3>2, <2>1, <1>1, <1>4
    <3>4. /\ Len(acts) <= Len(new) /\ a <= Len(new)
          /\ ActivationOf(j) \in 1 .. Len(new)
        BY <3>1, <2>2, <2>5, <1>1
    <3> QED
        BY <3>1, <3>3, <3>4, <2>1, <1>3 DEF StagedActs
  <2> QED
      BY <2>4, <2>5
<1> QED
    BY <1>5, <1>6

\* The notes that a stage leaves, before its end is marked.
LEMMA StageNotes ==
    ASSUME TypeOK, NEW new, new \in {notes, NoteBegun}
    PROVE  /\ new \in Seq(NoteStatuses) /\ Len(notes) <= Len(new)
           /\ \A n \in DOMAIN new : new[n] = "completed" =>
                  n \in DOMAIN notes /\ notes[n] = "completed"
<1>1. /\ notes \in Seq(NoteStatuses) /\ "in_progress" \in NoteStatuses
      /\ Len(notes) \in Nat /\ DOMAIN notes = 1 .. Len(notes)
    BY RowsOfTables DEF TypeOK, NoteStatuses
<1>2. CASE new = notes
    BY <1>1, <1>2
<1>3. CASE new = Append(notes, "in_progress")
  <2>1. /\ new \in Seq(NoteStatuses) /\ Len(new) = Len(notes) + 1
        /\ DOMAIN new = 1 .. Len(notes) + 1
        /\ \A n \in DOMAIN notes : new[n] = notes[n]
        /\ new[Len(notes) + 1] = "in_progress"
    <3>1. PICK begun \in NoteStatuses : begun = "in_progress"
        BY <1>1
    <3>2. new = Append(notes, begun)
        BY <1>3, <3>1
    <3>3. notes \in Seq(NoteStatuses)
        BY <1>1
    <3>4. /\ new \in Seq(NoteStatuses) /\ Len(new) = Len(notes) + 1
          /\ DOMAIN new = 1 .. Len(notes) + 1
          /\ \A n \in DOMAIN notes : new[n] = notes[n]
          /\ new[Len(notes) + 1] = begun
        BY <3>2, <3>3, RowAdded
    <3> QED
        BY <3>1, <3>4
  <2>2. \A n \in DOMAIN new : n \in DOMAIN notes \/ n = Len(notes) + 1
      BY <1>1, <2>1
  <2>3. \A n \in DOMAIN new : new[n] = "completed" => n \in DOMAIN notes
      BY <2>1, <2>2
  <2> QED
      BY <1>1, <2>1, <2>3
<1> QED
    BY <1>2, <1>3 DEF NoteBegun

LEMMA FailEffect ==
    ASSUME TableInv, NEW j \in DOMAIN jobs, j = worker.job, NEW cause \in Causes,
           cause # "none",
           NEW newSiblings \in Seq(Sibling), Len(siblings) <= Len(newSiblings),
           NEW status \in {"provisioning", "runtime_registered"}, NEW t \in Nat,
           t <= Len(newSiblings), NEW newActs, newActs \in {acts, Reported(j, status, t)},
           jobs[j].stage = "provision_sibling_xyn" \/ newActs = acts,
           RowsFit(newSiblings), RowsUnique(newSiblings),
           NEW newNotes, newNotes \in {notes, NoteBegun},
           Fail(cause, newActs, newSiblings, newNotes)
    PROVE  StageFails(j)
<1> DEFINE a == jobs[j].act
<1>1. TypeOK /\ JobLinks /\ RowLinks
    BY DEF TableInv
<1>2. /\ Len(acts) \in Nat /\ DOMAIN acts = 1 .. Len(acts)
      /\ Len(jobs) \in Nat /\ DOMAIN jobs = 1 .. Len(jobs)
      /\ j \in Nat /\ 0 < j /\ j <= Len(jobs)
      /\ Len(notes) \in Nat /\ Len(siblings) \in Nat /\ Len(newSiblings) \in Nat
    BY <1>1, RowsOfTables, RowsAre
<1>3. jobs[j] \in Job /\ a \in Nat /\ a <= Len(acts)
      /\ jobs[j].note \in Nat /\ jobs[j].note <= Len(notes)
  <2>1. jobs[j] \in Job
      BY <1>1, RowsOfTables
  <2> QED
      BY <2>1, <1>1 DEF Job, JobLinks, JobFits
<1> HIDE DEF a
<1>4. a = jobs[j].act
    BY DEF a
<1>5. /\ newActs \in Seq(Activation) /\ Len(acts) <= Len(newActs) /\ a <= Len(newActs)
      /\ \/ Len(newActs) = Len(acts)
         \/ /\ a = 0 /\ jobs[j].stage = "provision_sibling_xyn"
            /\ Len(newActs) = Len(acts) + 1 /\ newActs[Len(acts) + 1].key = NoKey
            /\ newActs[Len(acts) + 1].source = j
            /\ newActs[Len(acts) + 1].status = status
      /\ \A k \in DOMAIN acts : k # a => newActs[k] = acts[k]
      /\ a # 0 => a \in DOMAIN acts /\ newActs[a].key = acts[a].key
      /\ \A k \in DOMAIN newActs : /\ newActs[k].sibling <= Len(newSiblings)
                                   /\ k # a => newActs[k].source <= Len(jobs)
  <2>1. PICK m \in Nat : m = Len(newSiblings)
      BY <1>2
  <2>2. status \in {"provisioning", "runtime_registered", "smoke_passed"}
      OBVIOUS
  <2>3. StagedActs(j, newActs, status, m)
      BY <1>1, <1>2, <2>1, <2>2, StageActs
  <2> QED
      BY <1>4, <2>1, <2>2, <2>3 DEF StagedActs
<1>6. /\ newNotes \in Seq(NoteStatuses) /\ Len(notes) <= Len(newNotes)
      /\ \A n \in DOMAIN newNotes : newNotes[n] = "completed" =>
             n \in DOMAIN notes /\ notes[n] = "completed"
    BY <1>1, StageNotes
<1>7. jobs[j].note <= Len(newNotes) /\ jobs[j].act <= Len(newActs)
  <2>1. Len(newNotes) \in Nat
      BY <1>6, RowsAre
  <2> QED
      BY <2>1, <1>2, <1>3, <1>4, <1>5, <1>6
<1>8. /\ newActs \in Seq(Activation) /\ newNotes \in Seq(NoteStatuses)
      /\ \A k \in DOMAIN newActs : newActs[k].sibling <= Len(newSiblings)
    BY <1>5, <1>6
<1>9. FailedRows(j, newActs, newSiblings, newNotes)
    BY <1>1, <1>7, <1>8, FailWritesRows
<1>10. /\ jobs' \in Seq(Job) /\ Len(jobs') = Len(jobs)
       /\ \A k \in DOMAIN jobs : k # j => jobs'[k] = jobs[k]
       /\ jobs'[j] = Ended(jobs[j], Written("failed"), cause, FailedNote(jobs[j]),
                            FailedDeployment(jobs[j]))
       /\ Written("failed") \in JobStatuses
       /\ worker' = Rest /\ UNCHANGED <<drafts, request, used>>
    BY <1>1, FailWritesJob
<1>11. /\ Identity(jobs'[j]) = Identity(jobs[j])
       /\ jobs'[j].status = Written("failed") /\ jobs'[j].cause = cause
       /\ jobs'[j].note = FailedNote(jobs[j])
       /\ jobs'[j].deployment = FailedDeployment(jobs[j])
  <2>1. PICK job, note, d : /\ job = jobs[j] /\ note = FailedNote(jobs[j])
                            /\ d = FailedDeployment(jobs[j])
      OBVIOUS
  <2>2. jobs'[j] = Ended(job, Written("failed"), cause, note, d)
      BY <1>10, <2>1
  <2>3. /\ jobs'[j].status = Written("failed") /\ jobs'[j].cause = cause
        /\ jobs'[j].note = note /\ jobs'[j].deployment = d
        /\ jobs'[j].stage = job.stage /\ jobs'[j].draft = job.draft
        /\ jobs'[j].app = job.app /\ jobs'[j].source = job.source
        /\ jobs'[j].act = job.act
      BY <1>3, <2>1, <2>2 DEF Ended, Job
  <2> QED
      BY <2>1, <2>3 DEF Identity
<1>12. /\ acts' \in Seq(Activation) /\ siblings' \in Seq(Sibling) /\ notes' \in Seq(NoteStatuses)
       /\ Len(acts') = Len(newActs) /\ Len(siblings') = Len(newSiblings)
       /\ Len(notes') = Len(newNotes)
       /\ DOMAIN acts' = 1 .. Len(acts') /\ DOMAIN newActs = 1 .. Len(acts')
       /\ DOMAIN siblings' = DOMAIN newSiblings /\ DOMAIN notes' = DOMAIN newNotes
       /\ DOMAIN jobs' = DOMAIN jobs
       /\ Len(acts') \in Nat /\ Len(notes') \in Nat /\ Len(siblings') \in Nat
       /\ Len(acts) <= Len(acts') /\ Len(notes) <= Len(notes')
  <2>1. DOMAIN siblings' = DOMAIN newSiblings
      BY <1>9, LenProperties DEF FailedRows
  <2>2. DOMAIN notes' = DOMAIN newNotes
      BY <1>9, <1>8, LenProperties DEF FailedRows
  <2>3. DOMAIN jobs' = DOMAIN jobs
      BY <1>2, <1>10, LenProperties
  <2>4. DOMAIN acts' = 1 .. Len(acts') /\ DOMAIN newActs = 1 .. Len(newActs)
      BY <1>9, <1>8, LenProperties DEF FailedRows
  <2>5. Len(acts') \in Nat /\ Len(notes') \in Nat /\ Len(siblings') \in Nat
      BY <1>9, LenProperties DEF FailedRows
  <2> QED
      BY <1>5, <1>6, <1>9, <2>1, <2>2, <2>3, <2>4, <2>5 DEF FailedRows
<1>13. a # 0 => /\ a \in DOMAIN newActs /\ a \in DOMAIN acts
                /\ acts'[a].status = "failed" /\ acts'[a].source = j
                /\ acts'[a].key = acts[a].key /\ acts'[a].sibling = newActs[a].sibling
  <2> SUFFICES ASSUME a # 0
               PROVE  /\ a \in DOMAIN newActs /\ a \in DOMAIN acts
                      /\ acts'[a].status = "failed" /\ acts'[a].source = j
                      /\ acts'[a].key = acts[a].key /\ acts'[a].sibling = newActs[a].sibling
      OBVIOUS
  <2>1. a \in DOMAIN newActs /\ a \in DOMAIN acts
      BY <1>2, <1>3, <1>5, <1>12
  <2>2. newActs[a] \in Activation
      BY <2>1, <1>8, RowsAre
  <2>3. acts'[a] = [newActs[a] EXCEPT !.status = "failed", !.source = j]
      BY <1>4, <1>9 DEF FailedRows
  <2> QED
      BY <2>1, <2>2, <2>3, <1>5 DEF Activation
<1>14. \A k \in DOMAIN newActs : k # a => acts'[k] = newActs[k]
    BY <1>4, <1>9 DEF FailedRows
<1>15. \A k \in DOMAIN acts' : acts'[k].source <= Len(jobs') /\ acts'[k].sibling <= Len(siblings')
  <2> SUFFICES ASSUME NEW k \in DOMAIN acts'
               PROVE  acts'[k].source <= Len(jobs') /\ acts'[k].sibling <= Len(siblings')
      OBVIOUS
  <2>1. k \in DOMAIN newActs /\ newActs[k].sibling <= Len(newSiblings)
        /\ (k # a => newActs[k].source <= Len(jobs))
      BY <1>5, <1>12
  <2>2. CASE k = a
    <3>1. a # 0
        BY <2>2, <1>12
    <3> QED
        BY <3>1, <2>1, <2>2, <1>2, <1>10, <1>12, <1>13
  <2>3. CASE k # a
      BY <2>1, <2>3, <1>10, <1>12, <1>14
  <2> QED
      BY <2>2, <2>3
<1>16. RowsFit(siblings') /\ RowsUnique(siblings')
  <2>1. \A s \in DOMAIN siblings' : /\ s \in DOMAIN newSiblings
                                    /\ siblings'[s].app = newSiblings[s].app
                                    /\ siblings'[s].instance = newSiblings[s].instance
      BY <1>9, <1>12 DEF FailedRows
  <2>2. RowsFit(siblings')
      BY <2>1 DEF RowsFit
  <2>3. RowsUnique(siblings')
      BY <2>1 DEF RowsUnique
  <2> QED
      BY <2>2, <2>3
<1>17. \A k \in DOMAIN jobs' : JobFits(jobs'[k], k, Len(acts'), Len(notes'))
  <2> SUFFICES ASSUME NEW k \in DOMAIN jobs
               PROVE  JobFits(jobs'[k], k, Len(acts'), Len(notes'))
      BY <1>12
  <2>1. jobs[k] \in Job /\ JobFits(jobs[k], k, Len(acts), Len(notes))
      BY <1>1, RowsOfTables DEF JobLinks
  <2>2. CASE k # j
    <3>1. jobs'[k] = jobs[k]
        BY <1>10, <2>2
    <3> QED
        BY <3>1, <2>1, <1>2, <1>12 DEF JobFits, Job
  <2>3. CASE k = j
    <3>1. /\ jobs'[j].stage = jobs[j].stage /\ jobs'[j].app = jobs[j].app
          /\ jobs'[j].source = jobs[j].source /\ jobs'[j].act = jobs[j].act
        BY <1>11 DEF Identity
    <3>2. jobs'[j].note = 0 \/ jobs'[j].note = jobs[j].note
        BY <1>11 DEF FailedNote
    <3>3. /\ jobs'[j].deployment = 0 \/ jobs'[j].deployment = jobs[j].deployment
          /\ jobs[j].stage = "smoke_test" => jobs'[j].deployment = jobs[j].deployment
        BY <1>11 DEF FailedDeployment
    <3> QED
        BY <2>1, <2>3, <3>1, <3>2, <3>3, <1>2, <1>12 DEF JobFits, Job
  <2> QED
      BY <2>2, <2>3
<1>18. TablesGrow
  <2>1. \A k \in DOMAIN jobs : Identity(jobs'[k]) = Identity(jobs[k])
      BY <1>10, <1>11
  <2> QED
      BY <1>2, <1>10, <1>12, <1>15, <1>16, <1>17, <2>1 DEF TablesGrow
<1>19. OnlyOf(j)
  <2>1. \A k \in DOMAIN acts : k \in DOMAIN newActs
      BY <1>2, <1>12
  <2>2. \A k \in DOMAIN acts : k # a => acts'[k] = acts[k]
      BY <2>1, <1>5, <1>14
  <2>3. \A k \in DOMAIN acts : acts'[k].key = acts[k].key
      BY <2>2, <1>2, <1>13
  <2>4. \/ Len(acts') = Len(acts)
        \/ /\ a = 0 /\ jobs[j].stage = "provision_sibling_xyn"
           /\ Len(acts') = Len(acts) + 1 /\ acts'[Len(acts) + 1].key = NoKey
           /\ acts'[Len(acts) + 1].source = j
           /\ acts'[Len(acts) + 1].status = status
    <3>1. CASE Len(newActs) = Len(acts)
        BY <3>1, <1>12
    <3>2. CASE Len(newActs) # Len(acts)
      <4>1. /\ a = 0 /\ jobs[j].stage = "provision_sibling_xyn"
            /\ Len(newActs) = Len(acts) + 1 /\ newActs[Len(acts) + 1].key = NoKey
            /\ newActs[Len(acts) + 1].source = j
            /\ newActs[Len(acts) + 1].status = status
          BY <3>2, <1>5
      <4>2. Len(acts) + 1 \in DOMAIN newActs /\ Len(acts) + 1 # a
          BY <4>1, <1>2, <1>12
      <4>3. acts'[Len(acts) + 1] = newActs[Len(acts) + 1]
          BY <4>2, <1>14
      <4> QED
          BY <4>1, <4>3, <1>12
    <3> QED
        BY <3>1, <3>2
  <2> QED
      BY <1>10, <1>4, <2>2, <2>3, <2>4 DEF OnlyOf
<1>20. \A n \in DOMAIN notes' : notes'[n] = "completed" =>
           n \in DOMAIN notes /\ notes[n] = "completed"
    BY <1>6, <1>9, <1>12 DEF FailedRows
<1> QED
    BY <1>4, <1>10, <1>11, <1>13, <1>18, <1>19, <1>20 DEF StageFails, Frees

LEMMA JobStillFits ==
    ASSUME NEW job \in Job, NEW k, NEW a \in Nat, NEW n \in Nat, NEW a2 \in Nat,
           NEW n2 \in Nat, a <= a2, n <= n2, JobFits(job, k, a, n)
    PROVE  JobFits(job, k, a2, n2)
BY DEF JobFits, Job

LEMMA JobFitsAgain ==
    ASSUME NEW job \in Job, NEW k, NEW a \in Nat, NEW n \in Nat, NEW a2 \in Nat,
           NEW n2 \in Nat, a <= a2, JobFits(job, k, a, n),
           NEW new, Identity(new) = Identity(job), new.note <= n2,
           new.deployment # 0 => /\ new.deployment \in DOMAIN jobs
                                 /\ jobs[new.deployment].app = job.app,
           job.stage = "smoke_test" => new.deployment # 0
    PROVE  JobFits(new, k, a2, n2)
<1>1. /\ new.stage = job.stage /\ new.app = job.app
      /\ new.source = job.source /\ new.act = job.act
    BY DEF Identity
<1> QED
    BY <1>1 DEF JobFits, Job

\* The tables after a stage that succeeds.
LEMMA SuccessTables ==
    ASSUME TableInv, NEW j \in DOMAIN jobs,
           NEW status \in {"provisioning", "runtime_registered", "smoke_passed"},
           StagedActs(j, acts', status, Len(siblings')),
           status = "smoke_passed" => jobs[j].act # 0,
           siblings' \in Seq(Sibling), Len(siblings) <= Len(siblings'),
           RowsFit(siblings'), RowsUnique(siblings'),
           notes' \in Seq(NoteStatuses), Len(notes) <= Len(notes'),
           NEW note \in Nat, note <= Len(notes'),
           NEW d \in Nat, d # 0 => d \in DOMAIN jobs /\ jobs[d].app = jobs[j].app,
           jobs[j].stage = "smoke_test" => d # 0,
           NEW st \in JobStatuses, jobs' \in Seq(Job), Len(jobs) <= Len(jobs'),
           \A k \in DOMAIN jobs : k # j => jobs'[k] = jobs[k],
           jobs'[j] = Ended(jobs[j], st, "none", note, d),
           \A k \in DOMAIN jobs' : k \notin DOMAIN jobs =>
               JobFits(jobs'[k], k, Len(acts'), Len(notes'))
    PROVE  TablesGrow /\ OnlyOf(j)
<1> DEFINE a == jobs[j].act
<1>1. TypeOK /\ JobLinks /\ RowLinks
    BY DEF TableInv
<1>2. /\ Len(acts) \in Nat /\ DOMAIN acts = 1 .. Len(acts)
      /\ Len(jobs) \in Nat /\ DOMAIN jobs = 1 .. Len(jobs)
      /\ Len(notes) \in Nat /\ Len(notes') \in Nat
      /\ Len(jobs') \in Nat /\ DOMAIN jobs' = 1 .. Len(jobs')
    BY <1>1, RowsOfTables, RowsAre
<1>3. /\ acts' \in Seq(Activation) /\ Len(acts) <= Len(acts')
      /\ Len(acts') \in Nat /\ DOMAIN acts' = 1 .. Len(acts')
      /\ \A k \in DOMAIN acts' : acts'[k].sibling <= Len(siblings')
                               /\ acts'[k].source <= Len(jobs)
    BY RowsAre DEF StagedActs
<1>4. PICK job \in Job : job = jobs[j]
    BY <1>1, RowsOfTables
<1>5. /\ Identity(jobs'[j]) = Identity(jobs[j])
      /\ jobs'[j].note = note /\ jobs'[j].deployment = d
  <2>1. "none" \in Causes
      BY DEF Causes
  <2>2. jobs'[j] = Ended(job, st, "none", note, d)
      BY <1>4
  <2>3. /\ jobs'[j].note = note /\ jobs'[j].deployment = d
        /\ jobs'[j].stage = job.stage /\ jobs'[j].draft = job.draft
        /\ jobs'[j].app = job.app /\ jobs'[j].source = job.source
        /\ jobs'[j].act = job.act
      BY <2>2 DEF Ended, Job
  <2> QED
      BY <1>4, <2>3 DEF Identity
<1>6. /\ Len(acts) \in Nat /\ Len(acts') \in Nat /\ Len(acts) <= Len(acts')
      /\ Len(notes) \in Nat /\ Len(notes') \in Nat /\ Len(notes) <= Len(notes')
    BY <1>2, <1>3
<1>7. \A k \in DOMAIN jobs' : JobFits(jobs'[k], k, Len(acts'), Len(notes'))
  <2> SUFFICES ASSUME NEW k \in DOMAIN jobs
               PROVE  JobFits(jobs'[k], k, Len(acts'), Len(notes'))
      OBVIOUS
  <2>1. jobs[k] \in Job /\ JobFits(jobs[k], k, Len(acts), Len(notes))
      BY <1>1, RowsOfTables DEF JobLinks
  <2>2. CASE k # j
    <3>1. jobs'[k] = jobs[k]
        BY <2>2
    <3> QED
        BY <3>1, <2>1, <1>6, JobStillFits
  <2>3. CASE k = j
    <3>1. PICK new : new = jobs'[j]
        OBVIOUS
    <3>2. JobFits(new, k, Len(acts'), Len(notes'))
        BY <2>1, <2>3, <3>1, <1>6, <1>5, JobFitsAgain
    <3> QED
        BY <2>3, <3>1, <3>2
  <2> QED
      BY <2>2, <2>3
<1>8. TablesGrow
  <2>1. \A k \in DOMAIN jobs : Identity(jobs'[k]) = Identity(jobs[k])
      BY <1>5
  <2>2. \A k \in DOMAIN acts' : /\ acts'[k].source <= Len(jobs')
                                /\ acts'[k].sibling <= Len(siblings')
    <3>1. \A k \in DOMAIN acts' : acts'[k].source \in Nat
      <4>1. \A k \in DOMAIN acts' : acts'[k] \in Activation
          BY <1>3, RowsAre
      <4> QED
          BY <4>1 DEF Activation
    <3> QED
        BY <3>1, <1>2, <1>3
  <2> QED
      BY <1>3, <1>7, <2>1, <2>2 DEF TablesGrow
<1>9. OnlyOf(j)
  <2>1. \A k \in DOMAIN acts : k # jobs[j].act => acts'[k] = acts[k]
      BY DEF StagedActs
  <2>2. \A k \in DOMAIN acts : acts'[k].key = acts[k].key
      BY <2>1 DEF StagedActs
  <2>3. \/ Len(acts') = Len(acts)
        \/ /\ jobs[j].act = 0 /\ jobs[j].stage = "provision_sibling_xyn"
           /\ Len(acts') = Len(acts) + 1 /\ acts'[Len(acts) + 1].key = NoKey
           /\ acts'[Len(acts) + 1].source = j
           /\ acts'[Len(acts) + 1].status \in {"provisioning", "runtime_registered"}
      BY DEF StagedActs
  <2> QED
      BY <2>1, <2>2, <2>3 DEF OnlyOf
<1> QED
    BY <1>8, <1>9

\* A stage that succeeds and queues f.
LEMMA AdvanceEffect ==
    ASSUME TableInv, NEW j \in DOMAIN jobs, j = worker.job,
           jobs[j].stage # "smoke_test",
           NEW t \in Nat, t <= Len(siblings'),
           acts' = IF jobs[j].stage = "provision_sibling_xyn"
                   THEN Reported(j, "runtime_registered", t) ELSE acts,
           siblings' \in Seq(Sibling), Len(siblings) <= Len(siblings'),
           RowsFit(siblings'), RowsUnique(siblings'), notes' \in {notes, NoteBegun},
           NEW note \in Nat, note <= Len(notes'),
           NEW d \in Nat, d # 0 => d \in DOMAIN jobs /\ jobs[d].app = jobs[j].app,
           NEW f \in Job, Follows(f, j), f.app = jobs[j].app, f.note = note,
           f.deployment \in {0, d}, f.stage = "smoke_test" => f.deployment # 0,
           Succeed(note, d, <<f>>)
    PROVE  StageAdvances(j)
<1>1. TypeOK /\ JobLinks /\ RowLinks
    BY DEF TableInv
<1>2. /\ jobs' \in Seq(Job) /\ Len(jobs') = Len(jobs) + 1
      /\ \A k \in DOMAIN jobs : jobs'[k] =
             IF k = j THEN Ended(jobs[j], Written("succeeded"), "none", note, d) ELSE jobs[k]
      /\ jobs'[Len(jobs) + 1] = f
      /\ Written("succeeded") \in JobStatuses
      /\ worker' = Rest /\ UNCHANGED <<drafts, request, used>>
    BY <1>1, SucceedWrites
<1>3. /\ Len(jobs) \in Nat /\ DOMAIN jobs = 1 .. Len(jobs) /\ Len(jobs') \in Nat
      /\ DOMAIN jobs' = 1 .. Len(jobs) + 1
      /\ Len(acts) \in Nat /\ Len(notes) \in Nat /\ Len(siblings) \in Nat
      /\ Len(siblings') \in Nat /\ j \in Nat /\ 0 < j /\ j <= Len(jobs)
    BY <1>1, <1>2, RowsOfTables, RowsAre
<1>4. PICK status \in {"provisioning", "runtime_registered", "smoke_passed"} :
          status = "runtime_registered"
    OBVIOUS
<1>5. StagedActs(j, acts', status, Len(siblings'))
  <2>1. PICK m, new : m \in Nat /\ m = Len(siblings') /\ new = acts'
      BY <1>3
  <2>2. new \in {acts, Reported(j, status, t)}
        /\ (jobs[j].stage = "provision_sibling_xyn" \/ new = acts)
      BY <1>4, <2>1
  <2>3. StagedActs(j, new, status, m)
      BY <1>1, <1>3, <2>1, <2>2, StageActs
  <2> QED
      BY <2>1, <2>3
<1>6. /\ notes' \in Seq(NoteStatuses) /\ Len(notes) <= Len(notes')
      /\ \A n \in DOMAIN notes' : notes'[n] = "completed" =>
             n \in DOMAIN notes /\ notes[n] = "completed"
    BY <1>1, StageNotes
<1>7. \A k \in DOMAIN jobs' : k \notin DOMAIN jobs =>
          JobFits(jobs'[k], k, Len(acts'), Len(notes'))
  <2>1. \A k \in DOMAIN jobs' : k \notin DOMAIN jobs => k = Len(jobs) + 1
      BY <1>3
  <2>2. f.act <= Len(acts')
    <3>1. jobs[j] \in Job
        BY <1>1, RowsOfTables
    <3>2. jobs[j].act <= Len(acts') /\ Len(acts') \in Nat
        BY <1>5, RowsAre DEF StagedActs
    <3>3. CASE jobs[j].stage = "provision_sibling_xyn"
      <4>1. f.act = ActivationOf(j)
          BY <3>3 DEF Follows
      <4>2. CASE acts' = acts
        <5>1. jobs[j].act # 0
          <6> SUFFICES ASSUME jobs[j].act = 0 PROVE FALSE
              OBVIOUS
          <6>1. PICK new : new = acts'
              OBVIOUS
          <6>2. Len(new) = Len(acts) + 1
              BY <1>1, <1>4, <3>3, <6>1, ReportWrites DEF ActivationStatuses
          <6> QED
              BY <1>3, <4>2, <6>1, <6>2
        <5> QED
            BY <3>2, <4>1, <5>1 DEF ActivationOf
      <4>3. CASE acts' # acts
          BY <3>2, <4>1, <4>3, <1>5 DEF StagedActs
      <4> QED
          BY <4>2, <4>3
    <3>4. CASE jobs[j].stage = "deploy_app_local"
        BY <3>2, <3>4 DEF Follows
    <3>5. CASE jobs[j].stage = "generate_app_spec"
        BY <3>2, <3>5 DEF Follows
    <3> QED
        BY <3>1, <3>3, <3>4, <3>5 DEF Job, Stages
  <2>3. f.stage # "generate_app_spec"
    <3>1. jobs[j] \in Job
        BY <1>1, RowsOfTables
    <3> QED
        BY <3>1 DEF Follows, After, Job, Stages
  <2>4. f.stage = "smoke_test" => f.act # 0
    <3>1. jobs[j] \in Job
        BY <1>1, RowsOfTables
    <3>2. ActivationOf(j) # 0
        BY <1>3 DEF ActivationOf
    <3> QED
        BY <3>1, <3>2 DEF Follows, After, Job, Stages
  <2>5. JobFits(f, Len(jobs) + 1, Len(acts'), Len(notes'))
    <3>1. f.source < Len(jobs) + 1
        BY <1>3 DEF Follows
    <3> QED
        BY <3>1, <2>2, <2>3, <2>4 DEF JobFits
  <2> QED
      BY <1>2, <2>1, <2>5
<1>8. /\ \A k \in DOMAIN jobs : k # j => jobs'[k] = jobs[k]
      /\ jobs'[j] = Ended(jobs[j], Written("succeeded"), "none", note, d)
      /\ Len(jobs) <= Len(jobs')
    BY <1>2, <1>3
<1>9. TablesGrow /\ OnlyOf(j)
  <2>1. PICK st \in JobStatuses : st = Written("succeeded")
      BY <1>2
  <2>2. jobs'[j] = Ended(jobs[j], st, "none", note, d)
      BY <1>8, <2>1
  <2>3. jobs' \in Seq(Job) /\ notes' \in Seq(NoteStatuses) /\ Len(notes) <= Len(notes')
      BY <1>2, <1>6
  <2>4. status # "smoke_passed"
      BY <1>4
  <2> QED
      BY <1>5, <1>7, <1>8, <2>2, <2>3, <2>4, SuccessTables
<1>10. jobs'[j].status = Written("succeeded") /\ jobs'[j].cause = "none"
  <2>1. jobs[j] \in Job
      BY <1>1, RowsOfTables
  <2> QED
      BY <1>8, <2>1 DEF Ended, Job
<1>11. jobs[j].act # 0 =>
          acts'[jobs[j].act].status \in {acts[jobs[j].act].status, "runtime_registered"}
    BY <1>4, <1>5 DEF StagedActs
<1> QED
    BY <1>2, <1>6, <1>9, <1>10, <1>11 DEF StageAdvances, Frees

\* The job that the worker executes.
LEMMA Executed ==
    ASSUME TableInv, NEW stage, Executing(stage)
    PROVE  /\ worker.job \in DOMAIN jobs /\ jobs[worker.job] \in Job
           /\ jobs[worker.job].stage = stage
           /\ JobFits(jobs[worker.job], worker.job, Len(acts), Len(notes))
<1>1. worker.job \in DOMAIN jobs
    BY DEF TableInv, RowLinks, Executing
<1> QED
    BY <1>1, RowsOfTables DEF TableInv, Executing, JobLinks

LEMMA SmokePassesEffect ==
    ASSUME TableInv, SmokePasses
    PROVE  TestPasses(worker.job)
<1>1. PICK j : j = worker.job
    OBVIOUS
<1>2. /\ j \in DOMAIN jobs /\ jobs[j] \in Job /\ jobs[j].stage = "smoke_test"
      /\ JobFits(jobs[j], j, Len(acts), Len(notes))
  <2>1. PICK stage : stage = "smoke_test"
      OBVIOUS
  <2>2. Executing(stage)
      BY <2>1 DEF SmokePasses
  <2> QED
      BY <1>1, <2>1, <2>2, Executed
<1>3. PICK d, a, note, app : /\ d = jobs[j].deployment /\ a = jobs[j].act
                             /\ note = jobs[j].note /\ app = jobs[j].app
    OBVIOUS
<1>4. PICK s \in SiblingRows(siblings, d, app, TRUE) :
         /\ siblings' = Upserted(siblings, s, d, app, TRUE, "active")
         /\ acts' = [acts EXCEPT ![a].status = "smoke_passed", ![a].source = j,
                                 ![a].sibling = s]
         /\ notes' = IF note = 0 THEN notes ELSE NoteSet(note, "completed")
         /\ Succeed(note, d, <<>>)
    BY <1>1, <1>3 DEF SmokePasses
<1>5. TypeOK /\ JobLinks /\ RowLinks /\ RowsFit(siblings) /\ RowsUnique(siblings)
    BY DEF TableInv, InstancesFit, InstalledSiblingIsUnique, RowsUnique
<1>6. /\ d \in DOMAIN jobs /\ d # 0 /\ d \in Nat /\ jobs[d].app = app /\ a \in Nat /\ a # 0
      /\ note \in Nat /\ note <= Len(notes) /\ a <= Len(acts)
    BY <1>2, <1>3 DEF JobFits, Job
<1>7. /\ siblings' \in Seq(Sibling) /\ s \in 1 .. Len(siblings')
      /\ Len(siblings) <= Len(siblings') /\ RowsFit(siblings') /\ RowsUnique(siblings')
  <2>1. siblings \in Seq(Sibling) /\ "active" \in SiblingStatuses /\ TRUE \in BOOLEAN
        /\ jobs \in Seq(Job)
      BY <1>5 DEF SiblingStatuses, TypeOK
  <2>2. RowsKept(siblings, s, Upserted(siblings, s, d, app, TRUE, "active"))
      BY <1>5, <1>6, <2>1, UpsertKeepsRows
  <2> QED
      BY <1>4, <2>2 DEF RowsKept
<1>8. /\ Len(jobs) \in Nat /\ Len(notes) \in Nat /\ DOMAIN notes = 1 .. Len(notes)
      /\ Len(acts) \in Nat /\ DOMAIN acts = 1 .. Len(acts)
      /\ Len(siblings') \in Nat /\ Len(siblings) \in Nat
      /\ s \in Nat /\ s # 0 /\ s <= Len(siblings')
      /\ a \in DOMAIN acts /\ acts[a] \in Activation
    BY <1>5, <1>6, <1>7, RowsOfTables, RowsAre
<1>9. PICK status \in {"provisioning", "runtime_registered", "smoke_passed"} :
          status = "smoke_passed"
    OBVIOUS
<1>10. acts' = Reported(j, status, s)
    BY <1>3, <1>4, <1>6, <1>8, <1>9 DEF Reported
<1>11. StagedActs(j, acts', status, Len(siblings'))
  <2>1. PICK m, new : m \in Nat /\ m = Len(siblings') /\ new = acts'
      BY <1>8
  <2>2. new \in {acts, Reported(j, status, s)} /\ jobs[j].act # 0
      BY <1>3, <1>6, <1>10, <2>1
  <2>3. StagedActs(j, new, status, m)
      BY <1>2, <1>5, <1>7, <1>8, <2>1, <2>2, StageActs
  <2> QED
      BY <2>1, <2>3
<1>12. /\ acts'[a].status = "smoke_passed" /\ acts'[a].source = j
    BY <1>4, <1>8 DEF Activation
<1>13. /\ notes' \in Seq(NoteStatuses) /\ Len(notes') = Len(notes)
       /\ \A n \in DOMAIN notes' : notes'[n] = "completed" =>
              n = note \/ (n \in DOMAIN notes /\ notes[n] = "completed")
  <2>1. PICK done \in NoteStatuses : done = "completed"
      BY DEF NoteStatuses
  <2>2. notes \in Seq(NoteStatuses)
      BY <1>5 DEF TypeOK, NoteStatuses
  <2>3. CASE note = 0
      BY <1>4, <2>2, <2>3
  <2>4. CASE note # 0
    <3>1. note \in DOMAIN notes
        BY <1>6, <1>8, <2>4
    <3>2. notes' = [notes EXCEPT ![note] = done]
        BY <1>4, <2>1, <2>4 DEF NoteSet
    <3>3. /\ notes' \in Seq(NoteStatuses) /\ Len(notes') = Len(notes)
          /\ DOMAIN notes' = DOMAIN notes
          /\ \A n \in DOMAIN notes : notes'[n] = IF n = note THEN done ELSE notes[n]
        BY <2>2, <3>1, <3>2, RowReplaced
    <3>4. \A n \in DOMAIN notes : n # note => notes'[n] = notes[n]
        BY <3>3
    <3>5. \A n \in DOMAIN notes' : notes'[n] = "completed" =>
              n = note \/ (n \in DOMAIN notes /\ notes[n] = "completed")
        BY <3>3, <3>4
    <3> QED
        BY <3>3, <3>5
  <2> QED
      BY <2>3, <2>4
<1>14. /\ jobs' \in Seq(Job) /\ Len(jobs') = Len(jobs)
       /\ \A k \in DOMAIN jobs : jobs'[k] =
              IF k = j THEN Ended(jobs[j], Written("succeeded"), "none", note, d) ELSE jobs[k]
       /\ Written("succeeded") \in JobStatuses
       /\ worker' = Rest /\ UNCHANGED <<drafts, request, used>>
    BY <1>1, <1>2, <1>4, <1>5, <1>6, SucceedLast
<1>15. PICK st \in JobStatuses : st = Written("succeeded")
    BY <1>14
<1>16. /\ jobs'[j] = Ended(jobs[j], st, "none", note, d) /\ DOMAIN jobs' = DOMAIN jobs
       /\ \A k \in DOMAIN jobs : k # j => jobs'[k] = jobs[k]
       /\ Len(jobs) <= Len(jobs') /\ Len(notes) <= Len(notes') /\ note <= Len(notes')
  <2>1. DOMAIN jobs' = DOMAIN jobs
      BY <1>5, <1>14, LenProperties DEF TypeOK
  <2> QED
      BY <1>2, <1>6, <1>8, <1>13, <1>14, <1>15, <2>1
<1>17. TablesGrow /\ OnlyOf(j)
  <2>1. \A k \in DOMAIN jobs' : k \notin DOMAIN jobs =>
            JobFits(jobs'[k], k, Len(acts'), Len(notes'))
      BY <1>16
  <2>2. status = "smoke_passed" => jobs[j].act # 0
      BY <1>3, <1>6
  <2>3. d # 0 => d \in DOMAIN jobs /\ jobs[d].app = jobs[j].app
      BY <1>3, <1>6
  <2> QED
      BY <1>2, <1>6, <1>7, <1>11, <1>13, <1>14, <1>16, <2>1, <2>2, <2>3, SuccessTables
<1>18. /\ jobs'[j].status = Written("succeeded") /\ jobs'[j].cause = "none"
       /\ jobs'[j].note = note
    BY <1>2, <1>15, <1>16 DEF Ended, Job
<1> QED
    BY <1>1, <1>2, <1>3, <1>12, <1>13, <1>14, <1>17, <1>18 DEF TestPasses, Frees

LEMMA GenerateSucceedsEffect ==
    ASSUME TableInv, GenerateSucceeds
    PROVE  StageAdvances(worker.job)
<1> DEFINE j == worker.job
           n == Len(notes) + 1
           f == FollowUp(j, "deploy_app_local", 0, n, 0)
<1>1. Executing("generate_app_spec")
    BY DEF GenerateSucceeds
<1>2. j \in DOMAIN jobs /\ jobs[j] \in Job /\ jobs[j].stage = "generate_app_spec"
    BY <1>1, Executed
<1>3. TypeOK /\ RowsFit(siblings) /\ RowsUnique(siblings)
    BY DEF TableInv, InstancesFit, InstalledSiblingIsUnique, RowsUnique
<1>4. /\ notes' = NoteBegun /\ acts' = acts /\ siblings' = siblings
      /\ Succeed(n, 0, <<f>>)
    BY DEF GenerateSucceeds
<1>5. /\ notes \in Seq(NoteStatuses) /\ Len(notes) \in Nat /\ n \in Nat /\ n <= Len(notes')
      /\ siblings \in Seq(Sibling) /\ Len(siblings) \in Nat /\ jobs \in Seq(Job)
  <2>1. /\ notes \in Seq(NoteStatuses) /\ Len(notes) \in Nat
        /\ siblings \in Seq(Sibling) /\ Len(siblings) \in Nat /\ jobs \in Seq(Job)
      BY <1>3, RowsOfTables DEF TypeOK, NoteStatuses
  <2>2. Len(notes') = Len(notes) + 1
      BY <1>4, <2>1, AppendProperties DEF NoteBegun, NoteStatuses
  <2> QED
      BY <2>1, <2>2
<1>6. /\ f \in Job /\ f.stage = "deploy_app_local" /\ f.status = "queued"
      /\ f.cause = "none" /\ f.draft = NoDraft /\ f.app = jobs[j].app
      /\ f.source = j /\ f.act = 0 /\ f.note = n /\ f.deployment = 0
  <2>1. "deploy_app_local" \in Stages
      BY DEF Stages
  <2> HIDE DEF n
  <2>2. PassedOn(f, j, "deploy_app_local", 0, n, 0)
      BY <1>2, <1>5, <2>1, FollowUpFits
  <2> QED
      BY <2>2 DEF PassedOn
<1>7. Follows(f, j)
    BY <1>2, <1>6 DEF Follows, After
<1> HIDE DEF f, n, j
<1>8. siblings' \in Seq(Sibling) /\ Len(siblings) <= Len(siblings') /\ 0 <= Len(siblings')
      /\ RowsFit(siblings') /\ RowsUnique(siblings') /\ notes' \in {notes, NoteBegun}
    BY <1>3, <1>4, <1>5
<1>9. acts' = IF jobs[j].stage = "provision_sibling_xyn"
              THEN Reported(j, "runtime_registered", 0) ELSE acts
    BY <1>2, <1>4
<1>10. jobs[j].stage # "smoke_test" /\ f.deployment \in {0}
       /\ (f.stage = "smoke_test" => f.deployment # 0)
    BY <1>2, <1>6
<1> QED
    BY <1>2, <1>4, <1>5, <1>6, <1>7, <1>8, <1>9, <1>10, AdvanceEffect DEF j

LEMMA DeploySucceedsEffect ==
    ASSUME TableInv, DeploySucceeds
    PROVE  StageAdvances(worker.job)
<1> DEFINE j == worker.job
           n == jobs[j].note
           f == FollowUp(j, "provision_sibling_xyn", jobs[j].act, n, 0)
<1>1. Executing("deploy_app_local")
    BY DEF DeploySucceeds
<1>2. /\ j \in DOMAIN jobs /\ jobs[j] \in Job /\ jobs[j].stage = "deploy_app_local"
      /\ JobFits(jobs[j], j, Len(acts), Len(notes))
    BY <1>1, Executed
<1>3. TypeOK /\ RowsFit(siblings) /\ RowsUnique(siblings)
    BY DEF TableInv, InstancesFit, InstalledSiblingIsUnique, RowsUnique
<1>4. /\ notes' = notes /\ acts' = acts /\ siblings' = siblings
      /\ Succeed(n, 0, <<f>>)
    BY DEF DeploySucceeds
<1>5. /\ n \in Nat /\ n <= Len(notes') /\ jobs[j].act \in Nat
      /\ siblings \in Seq(Sibling) /\ Len(siblings) \in Nat /\ jobs \in Seq(Job)
  <2>1. siblings \in Seq(Sibling) /\ Len(siblings) \in Nat /\ jobs \in Seq(Job)
      BY <1>3, RowsOfTables DEF TypeOK
  <2> QED
      BY <1>2, <1>4, <2>1 DEF Job, JobFits
<1>6. PassedOn(f, j, "provision_sibling_xyn", jobs[j].act, n, 0)
  <2>1. "provision_sibling_xyn" \in Stages
      BY DEF Stages
  <2> HIDE DEF n
  <2> QED
      BY <1>2, <1>5, <2>1, FollowUpFits
<1>7. Follows(f, j)
    BY <1>2, <1>6 DEF Follows, After, PassedOn
<1>8. f \in Job /\ f.app = jobs[j].app /\ f.note = n /\ f.deployment \in {0}
      /\ f.stage # "smoke_test" /\ jobs[j].stage # "smoke_test"
    BY <1>2, <1>6 DEF PassedOn
<1> HIDE DEF f, n, j
<1>9. siblings' \in Seq(Sibling) /\ Len(siblings) <= Len(siblings') /\ 0 <= Len(siblings')
      /\ RowsFit(siblings') /\ RowsUnique(siblings') /\ notes' \in {notes, NoteBegun}
    BY <1>3, <1>4, <1>5
<1>10. acts' = IF jobs[j].stage = "provision_sibling_xyn"
               THEN Reported(j, "runtime_registered", 0) ELSE acts
    BY <1>2, <1>4
<1> QED
    BY <1>2, <1>4, <1>5, <1>7, <1>8, <1>9, <1>10, AdvanceEffect DEF j

\* The siblings after an upsert for a deployment of the job.
LEMMA UpsertForJob ==
    ASSUME TableInv, NEW j \in DOMAIN jobs, NEW d \in Deployments(j),
           NEW rows \in Seq(Sibling), RowsFit(rows), RowsUnique(rows),
           NEW installed \in BOOLEAN, NEW status \in SiblingStatuses,
           NEW s \in SiblingRows(rows, d, jobs[j].app, installed)
    PROVE  RowsKept(rows, s, Upserted(rows, s, d, jobs[j].app, installed, status))
<1>1. TypeOK /\ JobLinks /\ jobs \in Seq(Job)
    BY DEF TableInv, TypeOK
<1>2. d \in DOMAIN jobs /\ jobs[d].app = jobs[j].app
    BY <1>1, DeploymentsAreOfTheApp
<1> QED
    BY <1>1, <1>2, UpsertKeepsRows

LEMMA ProvisionRegistersEffect ==
    ASSUME TableInv, ProvisionRegisters
    PROVE  StageAdvances(worker.job) \/ StageFails(worker.job)
<1>1. PICK j, app : j = worker.job /\ app = jobs[j].app
    OBVIOUS
<1>2. /\ j \in DOMAIN jobs /\ jobs[j] \in Job /\ jobs[j].stage = "provision_sibling_xyn"
      /\ JobFits(jobs[j], j, Len(acts), Len(notes))
  <2>1. Executing("provision_sibling_xyn")
      BY DEF ProvisionRegisters
  <2> QED
      BY <1>1, <2>1, Executed
<1>3. TypeOK /\ JobLinks /\ RowsFit(siblings) /\ RowsUnique(siblings)
    BY DEF TableInv, InstancesFit, InstalledSiblingIsUnique, RowsUnique
<1>4. PICK d \in Deployments(j) : \E s \in SiblingRows(siblings, d, app, FALSE) :
         \E allocated :
         /\ allocated = Upserted(siblings, s, d, app, FALSE, "provisioning")
         /\ \E t \in SiblingRows(allocated, d, app, TRUE) :
              \/ /\ siblings' = Upserted(allocated, t, d, app, TRUE, "ready")
                 /\ acts' = Reported(j, "runtime_registered", t)
                 /\ Succeed(jobs[j].note, d,
                        <<FollowUp(j, "smoke_test", ActivationOf(j), jobs[j].note, d)>>)
                 /\ notes' = notes
              \/ Fail("stage", Reported(j, "runtime_registered", t),
                      Upserted(allocated, t, d, app, TRUE, "ready"), notes)
    BY <1>1 DEF ProvisionRegisters
<1>5. PICK s \in SiblingRows(siblings, d, app, FALSE) :
         \E allocated :
         /\ allocated = Upserted(siblings, s, d, app, FALSE, "provisioning")
         /\ \E t \in SiblingRows(allocated, d, app, TRUE) :
              \/ /\ siblings' = Upserted(allocated, t, d, app, TRUE, "ready")
                 /\ acts' = Reported(j, "runtime_registered", t)
                 /\ Succeed(jobs[j].note, d,
                        <<FollowUp(j, "smoke_test", ActivationOf(j), jobs[j].note, d)>>)
                 /\ notes' = notes
              \/ Fail("stage", Reported(j, "runtime_registered", t),
                      Upserted(allocated, t, d, app, TRUE, "ready"), notes)
    BY <1>4
<1>6. PICK allocated :
         /\ allocated = Upserted(siblings, s, d, app, FALSE, "provisioning")
         /\ \E t \in SiblingRows(allocated, d, app, TRUE) :
              \/ /\ siblings' = Upserted(allocated, t, d, app, TRUE, "ready")
                 /\ acts' = Reported(j, "runtime_registered", t)
                 /\ Succeed(jobs[j].note, d,
                        <<FollowUp(j, "smoke_test", ActivationOf(j), jobs[j].note, d)>>)
                 /\ notes' = notes
              \/ Fail("stage", Reported(j, "runtime_registered", t),
                      Upserted(allocated, t, d, app, TRUE, "ready"), notes)
    BY <1>5
<1>7. RowsKept(siblings, s, allocated)
  <2>1. FALSE \in BOOLEAN /\ "provisioning" \in SiblingStatuses /\ siblings \in Seq(Sibling)
      BY <1>3 DEF SiblingStatuses, TypeOK
  <2>2. RowsKept(siblings, s, Upserted(siblings, s, d, jobs[j].app, FALSE, "provisioning"))
      BY <1>1, <1>2, <1>3, <2>1, UpsertForJob
  <2> QED
      BY <1>1, <1>6, <2>2
<1>8. PICK t \in SiblingRows(allocated, d, app, TRUE) :
              \/ /\ siblings' = Upserted(allocated, t, d, app, TRUE, "ready")
                 /\ acts' = Reported(j, "runtime_registered", t)
                 /\ Succeed(jobs[j].note, d,
                        <<FollowUp(j, "smoke_test", ActivationOf(j), jobs[j].note, d)>>)
                 /\ notes' = notes
              \/ Fail("stage", Reported(j, "runtime_registered", t),
                      Upserted(allocated, t, d, app, TRUE, "ready"), notes)
    BY <1>6
<1>9. PICK registered : registered = Upserted(allocated, t, d, app, TRUE, "ready")
    OBVIOUS
<1>10. RowsKept(allocated, t, registered)
  <2>1. TRUE \in BOOLEAN /\ "ready" \in SiblingStatuses
      BY DEF SiblingStatuses
  <2>2. RowsKept(allocated, t, Upserted(allocated, t, d, jobs[j].app, TRUE, "ready"))
      BY <1>1, <1>2, <1>7, <1>8, <2>1, UpsertForJob DEF RowsKept
  <2> QED
      BY <1>1, <1>9, <2>2
<1>11. /\ registered \in Seq(Sibling) /\ Len(siblings) <= Len(registered)
       /\ RowsFit(registered) /\ RowsUnique(registered)
       /\ t \in Nat /\ t <= Len(registered)
  <2>1. Len(siblings) \in Nat /\ Len(allocated) \in Nat /\ Len(registered) \in Nat
      BY <1>3, <1>7, <1>10, RowsAre DEF RowsKept, TypeOK
  <2> QED
      BY <1>7, <1>10, <2>1 DEF RowsKept
<1>12. /\ d \in DOMAIN jobs /\ d \in Nat /\ d # 0 /\ jobs[d].app = jobs[j].app
       /\ jobs[j].note \in Nat /\ jobs[j].note <= Len(notes)
       /\ ActivationOf(j) \in Nat /\ jobs \in Seq(Job)
  <2>1. Len(acts) \in Nat /\ jobs \in Seq(Job)
      BY <1>3, RowsOfTables DEF TypeOK
  <2>2. d \in DOMAIN jobs /\ d \in Nat /\ d # 0 /\ jobs[d].app = jobs[j].app
      BY <1>2, <1>3, DeploymentsAreOfTheApp
  <2> QED
      BY <1>2, <2>1, <2>2 DEF Job, JobFits, ActivationOf
<1>13. CASE /\ siblings' = registered /\ notes' = notes
            /\ acts' = Reported(j, "runtime_registered", t)
            /\ Succeed(jobs[j].note, d,
                       <<FollowUp(j, "smoke_test", ActivationOf(j), jobs[j].note, d)>>)
  <2> DEFINE note == jobs[j].note
             f == FollowUp(j, "smoke_test", ActivationOf(j), note, d)
  <2>1. PassedOn(f, j, "smoke_test", ActivationOf(j), note, d)
    <3>1. "smoke_test" \in Stages
        BY DEF Stages
    <3> QED
        BY <1>2, <1>12, <3>1, FollowUpFits
  <2>2. Follows(f, j)
      BY <1>2, <2>1 DEF Follows, After, PassedOn
  <2>3. f \in Job /\ f.app = jobs[j].app /\ f.note = note /\ f.deployment \in {0, d}
        /\ f.deployment # 0 /\ jobs[j].stage # "smoke_test"
      BY <1>2, <1>12, <2>1 DEF PassedOn
  <2>4. note \in Nat /\ note <= Len(notes') /\ Succeed(note, d, <<f>>)
        /\ notes' \in {notes, NoteBegun}
      BY <1>12, <1>13
  <2> HIDE DEF f, note
  <2>5. acts' = IF jobs[j].stage = "provision_sibling_xyn"
                THEN Reported(j, "runtime_registered", t) ELSE acts
      BY <1>2, <1>13
  <2>6. siblings' \in Seq(Sibling) /\ Len(siblings) <= Len(siblings') /\ t <= Len(siblings')
        /\ RowsFit(siblings') /\ RowsUnique(siblings')
      BY <1>11, <1>13
  <2>7. StageAdvances(j)
      BY <1>1, <1>2, <1>11, <1>12, <2>2, <2>3, <2>4, <2>5, <2>6, AdvanceEffect
  <2> QED
      BY <1>1, <2>7
<1>14. CASE Fail("stage", Reported(j, "runtime_registered", t), registered, notes)
  <2>1. PICK newActs, newNotes : newActs = Reported(j, "runtime_registered", t)
                                 /\ newNotes = notes
      OBVIOUS
  <2>2. "stage" \in Causes /\ "stage" # "none"
      BY DEF Causes
  <2>3. Fail("stage", newActs, registered, newNotes)
      BY <1>14, <2>1
  <2>4. PICK status \in {"provisioning", "runtime_registered"} : status = "runtime_registered"
      OBVIOUS
  <2>5. newActs \in {acts, Reported(j, status, t)} /\ newNotes \in {notes, NoteBegun}
      BY <2>1, <2>4
  <2>6. StageFails(j)
      BY <1>1, <1>2, <1>11, <2>2, <2>3, <2>5, FailEffect
  <2> QED
      BY <1>1, <2>6
<1> QED
    BY <1>8, <1>9, <1>13, <1>14

\* The failures that leave the activations and the siblings to the commit.
LEMMA PlainFailEffect ==
    ASSUME TableInv, NEW stage, Executing(stage),
           NEW newNotes \in {notes, NoteBegun}, Fail("stage", acts, siblings, newNotes)
    PROVE  StageFails(worker.job)
<1>1. worker.job \in DOMAIN jobs
    BY Executed
<1>2. PICK j : j = worker.job
    OBVIOUS
<1>3. TypeOK /\ RowsFit(siblings) /\ RowsUnique(siblings)
    BY DEF TableInv, InstancesFit, InstalledSiblingIsUnique, RowsUnique
<1>4. PICK newActs, newSiblings : newActs = acts /\ newSiblings = siblings
    OBVIOUS
<1>5. newSiblings \in Seq(Sibling) /\ Len(siblings) <= Len(newSiblings)
      /\ 0 <= Len(newSiblings) /\ RowsFit(newSiblings) /\ RowsUnique(newSiblings)
    BY <1>3, <1>4, RowsOfTables DEF TypeOK
<1>6. PICK status \in {"provisioning", "runtime_registered"} : TRUE
    OBVIOUS
<1>7. newActs \in {acts, Reported(j, status, 0)} /\ newActs = acts
    BY <1>4
<1>8. "stage" \in Causes /\ "stage" # "none" /\ Fail("stage", newActs, newSiblings, newNotes)
    BY <1>4 DEF Causes
<1>9. StageFails(j)
    BY <1>1, <1>2, <1>5, <1>7, <1>8, FailEffect
<1> QED
    BY <1>2, <1>9

LEMMA AllocationFailsEffect ==
    ASSUME TableInv, ProvisionAllocationFails
    PROVE  StageFails(worker.job)
<1>1. PICK j, newActs, newSiblings, newNotes :
         /\ j = worker.job /\ newActs = Reported(j, "provisioning", 0)
         /\ newSiblings = siblings /\ newNotes = notes
    OBVIOUS
<1>2. j \in DOMAIN jobs /\ jobs[j].stage = "provision_sibling_xyn"
  <2>1. Executing("provision_sibling_xyn")
      BY DEF ProvisionAllocationFails
  <2> QED
      BY <1>1, <2>1, Executed
<1>3. TypeOK /\ RowsFit(siblings) /\ RowsUnique(siblings)
    BY DEF TableInv, InstancesFit, InstalledSiblingIsUnique, RowsUnique
<1>4. newSiblings \in Seq(Sibling) /\ Len(siblings) <= Len(newSiblings)
      /\ 0 <= Len(newSiblings) /\ RowsFit(newSiblings) /\ RowsUnique(newSiblings)
    BY <1>1, <1>3, RowsOfTables DEF TypeOK
<1>5. PICK status \in {"provisioning", "runtime_registered"} : status = "provisioning"
    OBVIOUS
<1>6. newActs \in {acts, Reported(j, status, 0)} /\ newNotes \in {notes, NoteBegun}
    BY <1>1, <1>5
<1>7. /\ "allocation" \in Causes /\ "allocation" # "none"
      /\ Fail("allocation", newActs, newSiblings, newNotes)
    BY <1>1 DEF Causes, ProvisionAllocationFails
<1>8. StageFails(j)
    BY <1>1, <1>2, <1>4, <1>6, <1>7, FailEffect
<1> QED
    BY <1>1, <1>8

LEMMA InstallFailsEffect ==
    ASSUME TableInv, ProvisionInstallFails
    PROVE  StageFails(worker.job)
<1>1. PICK j, newActs, newNotes :
         /\ j = worker.job /\ newActs = Reported(j, "provisioning", 0) /\ newNotes = notes
    OBVIOUS
<1>2. j \in DOMAIN jobs /\ jobs[j].stage = "provision_sibling_xyn"
  <2>1. Executing("provision_sibling_xyn")
      BY DEF ProvisionInstallFails
  <2> QED
      BY <1>1, <2>1, Executed
<1>3. TypeOK /\ RowsFit(siblings) /\ RowsUnique(siblings)
    BY DEF TableInv, InstancesFit, InstalledSiblingIsUnique, RowsUnique
<1>4. PICK d \in Deployments(j) : \E s \in SiblingRows(siblings, d, jobs[j].app, FALSE) :
         Fail("stage", newActs,
              Upserted(siblings, s, d, jobs[j].app, FALSE, "provisioning"), newNotes)
    BY <1>1 DEF ProvisionInstallFails
<1>5. PICK s \in SiblingRows(siblings, d, jobs[j].app, FALSE) :
         Fail("stage", newActs,
              Upserted(siblings, s, d, jobs[j].app, FALSE, "provisioning"), newNotes)
    BY <1>4
<1>6. PICK newSiblings :
         newSiblings = Upserted(siblings, s, d, jobs[j].app, FALSE, "provisioning")
    OBVIOUS
<1>7. RowsKept(siblings, s, newSiblings)
  <2>1. FALSE \in BOOLEAN /\ "provisioning" \in SiblingStatuses /\ siblings \in Seq(Sibling)
      BY <1>3 DEF SiblingStatuses, TypeOK
  <2>2. RowsKept(siblings, s, Upserted(siblings, s, d, jobs[j].app, FALSE, "provisioning"))
      BY <1>2, <1>3, <2>1, UpsertForJob
  <2> QED
      BY <1>6, <2>2
<1>8. newSiblings \in Seq(Sibling) /\ Len(siblings) <= Len(newSiblings)
      /\ 0 <= Len(newSiblings) /\ RowsFit(newSiblings) /\ RowsUnique(newSiblings)
  <2>1. newSiblings \in Seq(Sibling) /\ Len(newSiblings) \in Nat
      BY <1>7, RowsAre DEF RowsKept
  <2> QED
      BY <1>7, <2>1 DEF RowsKept
<1>9. PICK status \in {"provisioning", "runtime_registered"} : status = "provisioning"
    OBVIOUS
<1>10. newActs \in {acts, Reported(j, status, 0)} /\ newNotes \in {notes, NoteBegun}
    BY <1>1, <1>9
<1>11. /\ "stage" \in Causes /\ "stage" # "none"
       /\ Fail("stage", newActs, newSiblings, newNotes)
    BY <1>5, <1>6 DEF Causes
<1>12. StageFails(j)
    BY <1>1, <1>2, <1>8, <1>10, <1>11, FailEffect
<1> QED
    BY <1>1, <1>12

\* A stage ends in one of three ways.
LEMMA StageEndsEffect ==
    ASSUME TableInv, StageEnds
    PROVE  /\ worker.phase = "executing" /\ worker.job \in DOMAIN jobs
           /\ \/ StageFails(worker.job)
              \/ StageAdvances(worker.job)
              \/ TestPasses(worker.job)
<1>1. worker.phase = "executing"
    BY DEF StageEnds, GenerateSucceeds, GenerateFails, DeploySucceeds, DeployFails,
           ProvisionAllocationFails, ProvisionInstallFails, ProvisionRegisters,
           SmokePasses, SmokeFails, Executing
<1>2. worker.job \in DOMAIN jobs
    BY <1>1 DEF TableInv, RowLinks
<1>3. CASE GenerateFails
  <2>1. PICK newNotes \in {notes, NoteBegun} : Fail("stage", acts, siblings, newNotes)
      BY <1>3 DEF GenerateFails
  <2> QED
      BY <1>1, <1>2, <1>3, <2>1, PlainFailEffect DEF GenerateFails
<1>4. CASE DeployFails
  <2>1. PICK newNotes \in {notes, NoteBegun} : Fail("stage", acts, siblings, newNotes)
      BY <1>4 DEF DeployFails
  <2> QED
      BY <1>1, <1>2, <1>4, <2>1, PlainFailEffect DEF DeployFails
<1>5. CASE SmokeFails
  <2>1. PICK newNotes \in {notes, NoteBegun} : Fail("stage", acts, siblings, newNotes)
      BY <1>5 DEF SmokeFails
  <2> QED
      BY <1>1, <1>2, <1>5, <2>1, PlainFailEffect DEF SmokeFails
<1> QED
    BY <1>1, <1>2, <1>3, <1>4, <1>5, GenerateSucceedsEffect, DeploySucceedsEffect,
       AllocationFailsEffect, InstallFailsEffect, ProvisionRegistersEffect,
       SmokePassesEffect DEF StageEnds

-----------------------------------------------------------------------------
(* What the other steps do to the tables.                                  *)

\* A request to activate has been read and not yet answered.
Activating == request # Nothing /\ request.op = "activate"

RequestTyped ==
    request \in {Nothing} \cup [op : {"patch"}, job : DOMAIN jobs, to : JobStatuses]
                \cup [op : {"activate"}, act : DOMAIN acts]

LEMMA GrownDomains ==
    ASSUME TypeOK, TablesGrow
    PROVE  /\ DOMAIN jobs \subseteq DOMAIN jobs' /\ DOMAIN acts \subseteq DOMAIN acts'
           /\ DOMAIN jobs = 1 .. Len(jobs) /\ DOMAIN acts = 1 .. Len(acts)
           /\ DOMAIN jobs' = 1 .. Len(jobs') /\ DOMAIN acts' = 1 .. Len(acts')
           /\ Len(jobs) \in Nat /\ Len(acts) \in Nat
           /\ Len(jobs') \in Nat /\ Len(acts') \in Nat
<1>1. jobs' \in Seq(Job) /\ acts' \in Seq(Activation)
      /\ Len(jobs) <= Len(jobs') /\ Len(acts) <= Len(acts')
    BY DEF TablesGrow
<1>2. /\ DOMAIN jobs = 1 .. Len(jobs) /\ DOMAIN acts = 1 .. Len(acts)
      /\ Len(jobs) \in Nat /\ Len(acts) \in Nat
    BY RowsOfTables
<1>3. /\ DOMAIN jobs' = 1 .. Len(jobs') /\ DOMAIN acts' = 1 .. Len(acts')
      /\ Len(jobs') \in Nat /\ Len(acts') \in Nat
    BY <1>1, RowsAre
<1> QED
    BY <1>1, <1>2, <1>3

\* Tables that have grown keep the invariant if the rest of the state does.
LEMMA GrownTables ==
    ASSUME TableInv, TablesGrow,
           drafts' \in [DraftIds -> Draft], DraftsHaveApps', worker' \in Worker, RequestTyped',
           used' \in [patches : 0..MaxPatches, activates : 0..MaxActivates,
                      faults : 0..MaxFaults],
           worker'.phase \in {"claiming", "claimed", "executing"} =>
               worker'.job \in DOMAIN jobs',
           RequestsFit'
    PROVE  TableInv'
<1>1. TypeOK'
    BY DEF TypeOK, TablesGrow, RequestTyped, NoteStatuses
<1>2. DOMAIN jobs \subseteq DOMAIN jobs'
    BY GrownDomains DEF TableInv
<1>3. \A k \in DOMAIN jobs : jobs'[k].app = jobs[k].app
    BY DEF TablesGrow, Identity
<1>4. JobLinks'
  <2>1. \A k \in DOMAIN jobs' : JobFits(jobs'[k], k, Len(acts'), Len(notes'))
      BY DEF TablesGrow
  <2>2. \A k \in DOMAIN jobs' :
            /\ jobs'[k].source < k /\ jobs'[k].act <= Len(acts') /\ jobs'[k].note <= Len(notes')
            /\ jobs'[k].deployment # 0 =>
                   /\ jobs'[k].deployment \in DOMAIN jobs'
                   /\ jobs'[jobs'[k].deployment].app = jobs'[k].app
            /\ jobs'[k].stage = "generate_app_spec" => jobs'[k].act = 0
            /\ jobs'[k].stage = "smoke_test" => jobs'[k].act # 0 /\ jobs'[k].deployment # 0
      BY <2>1, <1>2, <1>3 DEF JobFits
  <2> QED
      BY <2>2 DEF JobLinks, JobFits
<1>5. RowLinks'
    BY DEF RowLinks, TablesGrow
<1>6. InstancesFit'
  <2>1. RowsFit(siblings')
      BY DEF TablesGrow
  <2> QED
      BY <2>1, <1>2, <1>3 DEF InstancesFit, RowsFit
<1>7. InstalledSiblingIsUnique'
    BY DEF InstalledSiblingIsUnique, TablesGrow, RowsUnique
<1> QED
    BY <1>1, <1>4, <1>5, <1>6, <1>7 DEF TableInv

\* The request that is served and the keys are kept by steps that let them alone.
LEMMA RequestsKept ==
    ASSUME TableInv, TablesGrow,
           \/ request' = request \/ request' = Nothing
           \/ request' \in [op : {"patch"}, job : DOMAIN jobs, to : JobStatuses],
           \A k \in DOMAIN jobs' : k \in DOMAIN jobs
               \/ jobs'[k].act = 0
               \/ (jobs'[k].stage # "deploy_app_local"
                      /\ (Activating => jobs'[k].act # request.act)),
           Activating => /\ acts'[request.act].source = acts[request.act].source
                         /\ acts'[request.act].status = acts[request.act].status,
           \A k \in DOMAIN acts : acts'[k].key = acts[k].key,
           \A k \in DOMAIN acts' : k \in DOMAIN acts \/ acts'[k].key = NoKey
    PROVE  RequestsFit' /\ RequestTyped'
<1>1. DOMAIN jobs \subseteq DOMAIN jobs' /\ DOMAIN acts \subseteq DOMAIN acts'
    BY GrownDomains DEF TableInv
<1>2. RequestsFit /\ RequestTyped
    BY DEF TableInv, TypeOK, RequestTyped
<1>3. \A k \in DOMAIN jobs : jobs'[k].act = jobs[k].act /\ jobs'[k].stage = jobs[k].stage
    BY DEF TablesGrow, Identity
<1>4. RequestTyped'
    BY <1>1, <1>2 DEF RequestTyped
<1>5. Activating' => /\ Activating /\ request' = request /\ request.act \in DOMAIN acts
                     /\ request.act # 0
  <2> SUFFICES ASSUME Activating' PROVE request.act \in DOMAIN acts /\ request.act # 0
                                        /\ Activating /\ request' = request
      OBVIOUS
  <2>1. Activating /\ request' = request
      BY DEF Activating
  <2>2. request.act \in DOMAIN acts
      BY <2>1, <1>2 DEF Activating, RequestTyped
  <2> QED
      BY <2>1, <2>2, RowsOfTables DEF TableInv
<1>6. Activating' => /\ acts'[request'.act].source = 0 /\ acts'[request'.act].status = "pending"
                     /\ \A k \in DOMAIN jobs' : jobs'[k].act # request'.act
  <2> SUFFICES ASSUME Activating'
               PROVE  /\ acts'[request'.act].source = 0
                      /\ acts'[request'.act].status = "pending"
                      /\ \A k \in DOMAIN jobs' : jobs'[k].act # request'.act
      OBVIOUS
  <2>1. /\ acts[request.act].source = 0 /\ acts[request.act].status = "pending"
        /\ \A k \in DOMAIN jobs : jobs[k].act # request.act
      BY <1>2, <1>5 DEF RequestsFit, Activating
  <2> QED
      BY <2>1, <1>3, <1>5
<1>7. \A a, b \in DOMAIN acts' : acts'[a].key = acts'[b].key => a = b \/ acts'[a].key = NoKey
    BY <1>2 DEF RequestsFit
<1>8. \A i, k \in DOMAIN jobs' :
          (/\ jobs'[i].act # 0 /\ jobs'[k].act = jobs'[i].act
           /\ jobs'[i].stage = "deploy_app_local" /\ jobs'[k].stage = "deploy_app_local")
              => i = k
  <2> SUFFICES ASSUME NEW i \in DOMAIN jobs', NEW k \in DOMAIN jobs',
                      jobs'[i].act # 0, jobs'[k].act = jobs'[i].act,
                      jobs'[i].stage = "deploy_app_local",
                      jobs'[k].stage = "deploy_app_local"
               PROVE  i = k
      OBVIOUS
  <2>1. i \in DOMAIN jobs /\ k \in DOMAIN jobs
      OBVIOUS
  <2> QED
      BY <2>1, <1>2, <1>3 DEF RequestsFit
<1> QED
    BY <1>4, <1>6, <1>7, <1>8 DEF RequestsFit, Activating

\* The jobs change in their status and its cause at most.
OnlyStatuses ==
    /\ jobs' \in Seq(Job) /\ Len(jobs') = Len(jobs)
    /\ \A k \in DOMAIN jobs : /\ Identity(jobs'[k]) = Identity(jobs[k])
                              /\ jobs'[k].note = jobs[k].note
                              /\ jobs'[k].deployment = jobs[k].deployment
    /\ UNCHANGED <<acts, siblings, notes>>

LEMMA StatusesGrow ==
    ASSUME TableInv, OnlyStatuses
    PROVE  TablesGrow
<1>1. TypeOK /\ JobLinks /\ RowLinks /\ RowsFit(siblings) /\ RowsUnique(siblings)
    BY DEF TableInv, InstancesFit, InstalledSiblingIsUnique, RowsUnique
<1>2. /\ jobs' \in Seq(Job) /\ Len(jobs') = Len(jobs) /\ DOMAIN jobs' = DOMAIN jobs
      /\ Len(acts) \in Nat /\ Len(notes) \in Nat /\ Len(siblings) \in Nat /\ Len(jobs) \in Nat
  <2>1. jobs' \in Seq(Job) /\ Len(jobs') = Len(jobs)
      BY DEF OnlyStatuses
  <2> QED
      BY <2>1, <1>1, RowsAre, RowsOfTables
<1>3. \A k \in DOMAIN jobs' : JobFits(jobs'[k], k, Len(acts'), Len(notes'))
  <2> SUFFICES ASSUME NEW k \in DOMAIN jobs
               PROVE  JobFits(jobs'[k], k, Len(acts), Len(notes))
      BY <1>2 DEF OnlyStatuses
  <2>1. JobFits(jobs[k], k, Len(acts), Len(notes))
      BY <1>1 DEF JobLinks
  <2>2. /\ Identity(jobs'[k]) = Identity(jobs[k]) /\ jobs'[k].note = jobs[k].note
        /\ jobs'[k].deployment = jobs[k].deployment
      BY DEF OnlyStatuses
  <2> QED
      BY <2>1, <2>2 DEF JobFits, Identity
<1>4. \A a \in DOMAIN acts' : acts'[a].source <= Len(jobs') /\ acts'[a].sibling <= Len(siblings')
    BY <1>1, <1>2 DEF RowLinks, OnlyStatuses
<1>5. \A k \in DOMAIN jobs : Identity(jobs'[k]) = Identity(jobs[k])
    BY DEF OnlyStatuses
<1>6. /\ acts' = acts /\ siblings' = siblings /\ notes' = notes
      /\ acts \in Seq(Activation) /\ siblings \in Seq(Sibling) /\ notes \in Seq(NoteStatuses)
    BY <1>1 DEF OnlyStatuses, TypeOK, NoteStatuses
<1> QED
    BY <1>1, <1>2, <1>3, <1>4, <1>5, <1>6 DEF TablesGrow

\* What every step must leave right besides the tables.
RestTyped ==
    /\ drafts \in [DraftIds -> Draft] /\ DraftsHaveApps /\ worker \in Worker
    /\ used \in [patches : 0..MaxPatches, activates : 0..MaxActivates, faults : 0..MaxFaults]
    /\ worker.phase \in {"claiming", "claimed", "executing"} => worker.job \in DOMAIN jobs

LEMMA RestIsTyped ==
    ASSUME TableInv
    PROVE  RestTyped /\ RequestTyped
BY DEF TableInv, TypeOK, RowLinks, RestTyped, RequestTyped

LEMMA StatusesKeepTables ==
    ASSUME TableInv, OnlyStatuses, RestTyped',
           \/ request' = request \/ request' = Nothing
           \/ request' \in [op : {"patch"}, job : DOMAIN jobs, to : JobStatuses]
    PROVE  TableInv'
<1>1. TablesGrow
    BY StatusesGrow
<1>2. TypeOK /\ DOMAIN jobs' = DOMAIN jobs
  <2>1. jobs' \in Seq(Job) /\ Len(jobs') = Len(jobs) /\ TypeOK
      BY DEF OnlyStatuses, TableInv
  <2> QED
      BY <2>1, RowsAre, RowsOfTables
<1>3. RequestsFit' /\ RequestTyped'
  <2>1. acts' = acts
      BY DEF OnlyStatuses
  <2> QED
      BY <1>1, <1>2, <2>1, RequestsKept
<1> QED
    BY <1>1, <1>3, GrownTables DEF RestTyped

-----------------------------------------------------------------------------
(* The tables stand: one lemma per kind of step.                           *)

LEMMA NothingRestated ==
    ASSUME TypeOK, UNCHANGED <<jobs, acts, siblings, notes>>
    PROVE  OnlyStatuses
BY DEF TypeOK, OnlyStatuses

LEMMA DraftFits ==
    ASSUME TypeOK, NEW d \in DraftIds, NEW status \in DraftStatuses,
           NEW app \in Apps \cup {NoApp}, NEW anchored \in BOOLEAN
    PROVE  /\ [drafts EXCEPT ![d] = [status |-> status, app |-> app, anchored |-> anchored]]
                  \in [DraftIds -> Draft]
           /\ [drafts EXCEPT ![d].status = status] \in [DraftIds -> Draft]
<1>1. drafts \in [DraftIds -> Draft] /\ drafts[d] \in Draft
    BY DEF TypeOK
<1>2. [status |-> status, app |-> app, anchored |-> anchored] \in Draft
    BY DEF Draft
<1>3. [drafts[d] EXCEPT !.status = status] \in Draft
    BY <1>1 DEF Draft
<1> QED
    BY <1>1, <1>2, <1>3

LEMMA DraftStepsKeepTables ==
    ASSUME TableInv, NEW d \in DraftIds, CreateDraft(d) \/ PatchDraft(d)
    PROVE  TableInv'
<1>1. TypeOK /\ UNCHANGED <<jobs, acts, siblings, notes, worker, request, used>>
    BY DEF CreateDraft, PatchDraft, TableInv
<1>2. drafts' \in [DraftIds -> Draft] /\ DraftsHaveApps'
  <2>1. DraftsHaveApps /\ drafts \in [DraftIds -> Draft]
      BY DEF TableInv, TypeOK
  <2>2. CASE CreateDraft(d)
    <3>1. PICK status \in DraftStatuses, app \in Apps, anchored \in BOOLEAN :
              drafts' = [drafts EXCEPT ![d] =
                             [status |-> status, app |-> app, anchored |-> anchored]]
        BY <2>2 DEF CreateDraft
    <3>2. drafts' \in [DraftIds -> Draft]
        BY <1>1, <3>1, DraftFits
    <3> QED
        BY <2>1, <3>1, <3>2 DEF DraftsHaveApps
  <2>3. CASE PatchDraft(d)
    <3>1. PICK status \in DraftStatuses : drafts' = [drafts EXCEPT ![d].status = status]
        BY <2>3 DEF PatchDraft, Transition
    <3>2. drafts' \in [DraftIds -> Draft]
        BY <1>1, <3>1, DraftFits
    <3>3. drafts[d].status # "absent"
        BY <2>3 DEF PatchDraft
    <3> QED
        BY <2>1, <3>1, <3>2, <3>3 DEF DraftsHaveApps, Draft
  <2> QED
      BY <2>2, <2>3
<1>3. RestTyped'
    BY <1>1, <1>2, RestIsTyped DEF RestTyped
<1> QED
    BY <1>1, <1>3, NothingRestated, StatusesKeepTables

\* A job is added behind the others; the activations may be marked with it.
LEMMA JobAdded ==
    ASSUME TableInv, NEW f \in Job, jobs' = Append(jobs, f),
           JobFits(f, Len(jobs) + 1, Len(acts), Len(notes)),
           acts' \in Seq(Activation), Len(acts') = Len(acts),
           \A a \in DOMAIN acts : /\ acts'[a].source <= Len(jobs) + 1
                                  /\ acts'[a].sibling = acts[a].sibling,
           UNCHANGED <<siblings, notes>>
    PROVE  /\ TablesGrow
           /\ Len(jobs') = Len(jobs) + 1 /\ DOMAIN acts' = DOMAIN acts
           /\ DOMAIN jobs' = DOMAIN jobs \cup {Len(jobs) + 1}
           /\ Len(jobs) + 1 \notin DOMAIN jobs
           /\ jobs'[Len(jobs) + 1] = f
           /\ \A k \in DOMAIN jobs : jobs'[k] = jobs[k]
<1>1. TypeOK /\ JobLinks /\ RowLinks /\ RowsFit(siblings) /\ RowsUnique(siblings)
    BY DEF TableInv, InstancesFit, InstalledSiblingIsUnique, RowsUnique
<1>2. /\ Len(jobs) \in Nat /\ DOMAIN jobs = 1 .. Len(jobs)
      /\ Len(acts) \in Nat /\ DOMAIN acts = 1 .. Len(acts)
      /\ Len(notes) \in Nat /\ Len(siblings) \in Nat
    BY <1>1, RowsOfTables
<1>3. /\ jobs' \in Seq(Job) /\ Len(jobs') = Len(jobs) + 1
      /\ DOMAIN jobs' = 1 .. Len(jobs) + 1
      /\ \A k \in DOMAIN jobs : jobs'[k] = jobs[k]
      /\ jobs'[Len(jobs) + 1] = f
    BY <1>1, RowAdded DEF TypeOK
<1>4. DOMAIN acts' = DOMAIN acts
    BY <1>2, RowsAre
<1>5. \A k \in DOMAIN jobs' : JobFits(jobs'[k], k, Len(acts'), Len(notes'))
  <2> SUFFICES ASSUME NEW k \in DOMAIN jobs' PROVE JobFits(jobs'[k], k, Len(acts), Len(notes))
      OBVIOUS
  <2>1. CASE k \in DOMAIN jobs
      BY <1>1, <1>3, <2>1 DEF JobLinks
  <2>2. CASE k = Len(jobs) + 1
      BY <1>3, <2>2
  <2> QED
      BY <2>1, <2>2, <1>2, <1>3
<1>6. \A a \in DOMAIN acts' : acts'[a].source <= Len(jobs') /\ acts'[a].sibling <= Len(siblings')
    BY <1>1, <1>3, <1>4 DEF RowLinks
<1>7. siblings' \in Seq(Sibling) /\ notes' \in Seq(NoteStatuses)
    BY <1>1 DEF TypeOK, NoteStatuses
<1>8. TablesGrow
    BY <1>1, <1>2, <1>3, <1>5, <1>6, <1>7 DEF TablesGrow
<1> QED
    BY <1>2, <1>3, <1>4, <1>8

\* What the submission of a draft writes.
Submitted(d, f) ==
    /\ f.stage = "generate_app_spec" /\ f.status = "queued" /\ f.cause = "none"
    /\ f.draft = d /\ f.act = 0 /\ f.source = 0
    /\ TablesGrow /\ UNCHANGED <<acts, siblings, notes, worker, request, used>>
    /\ drafts' \in [DraftIds -> Draft] /\ DraftsHaveApps'
    /\ drafts[d].status \in {"draft", "ready"}
    /\ \A e \in DraftIds : drafts'[e].status =
           IF e = d THEN "submitted" ELSE drafts[e].status
    /\ DOMAIN jobs' = DOMAIN jobs \cup {Len(jobs) + 1}
    /\ Len(jobs) + 1 \notin DOMAIN jobs
    /\ jobs'[Len(jobs) + 1] = f
    /\ \A k \in DOMAIN jobs : jobs'[k] = jobs[k]

LEMMA SubmitEffect ==
    ASSUME TableInv, NEW d \in DraftIds, SubmitDraft(d)
    PROVE  \E f : Submitted(d, f)
<1> DEFINE f == [NewJob("generate_app_spec", drafts[d].app, drafts[d].anchored)
                                EXCEPT !.draft = d]
<1>1. TypeOK /\ UNCHANGED <<acts, siblings, notes, worker, request, used>> /\ RowLinks
      /\ jobs' = Append(jobs, f)
    BY DEF SubmitDraft, TableInv
<1>2. /\ drafts' \in [DraftIds -> Draft] /\ DraftsHaveApps' /\ drafts[d].app \in Apps
      /\ drafts[d].status \in {"draft", "ready"}
      /\ \A e \in DraftIds : drafts'[e].status =
             IF e = d THEN "submitted" ELSE drafts[e].status
  <2>1. /\ DraftsHaveApps /\ drafts \in [DraftIds -> Draft] /\ drafts[d].status # "absent"
        /\ drafts' = [drafts EXCEPT ![d].status = "submitted"]
      BY DEF TableInv, TypeOK, SubmitDraft, Transition
  <2>2. drafts' \in [DraftIds -> Draft]
      BY <1>1, <2>1, DraftFits DEF DraftStatuses
  <2>3. drafts[d].status \in {"draft", "ready"}
    <3>1. drafts[d].status \in DraftStatuses
        BY <2>1 DEF Draft
    <3> QED
        BY <3>1 DEF SubmitDraft, Transition, Allows, DraftTransitions, DraftStatuses
  <2> QED
      BY <2>1, <2>2, <2>3 DEF DraftsHaveApps, Draft
<1>3. f \in Job /\ f.act = 0 /\ f.source = 0 /\ f.note = 0 /\ f.deployment = 0
      /\ f.stage = "generate_app_spec" /\ f.status = "queued" /\ f.cause = "none"
      /\ f.draft = d
  <2>1. drafts[d].anchored \in BOOLEAN
      BY <1>1 DEF TypeOK, Draft
  <2> QED
      BY <1>2, <2>1 DEF NewJob, Job, Stages, JobStatuses, Causes
<1>4. Len(jobs) \in Nat /\ Len(acts) \in Nat /\ Len(notes) \in Nat
    BY <1>1, RowsOfTables
<1>5. JobFits(f, Len(jobs) + 1, Len(acts), Len(notes))
    BY <1>3, <1>4 DEF JobFits
<1> HIDE DEF f
<1>6. /\ acts' \in Seq(Activation)
      /\ \A a \in DOMAIN acts : acts'[a].source <= Len(jobs) + 1
  <2>1. \A a \in DOMAIN acts : acts[a].source \in Nat /\ acts[a].source <= Len(jobs)
      BY <1>1, RowsOfTables DEF RowLinks, Activation
  <2> QED
      BY <2>1, <1>1, <1>4 DEF TypeOK
<1>7. /\ TablesGrow
      /\ DOMAIN jobs' = DOMAIN jobs \cup {Len(jobs) + 1}
      /\ Len(jobs) + 1 \notin DOMAIN jobs
      /\ jobs'[Len(jobs) + 1] = f
      /\ \A k \in DOMAIN jobs : jobs'[k] = jobs[k]
    BY <1>1, <1>3, <1>5, <1>6, JobAdded
<1>8. Submitted(d, f)
    BY <1>1, <1>2, <1>3, <1>7 DEF Submitted
<1> QED
    BY <1>8

LEMMA SubmitKeepsTables ==
    ASSUME TableInv, NEW d \in DraftIds, SubmitDraft(d)
    PROVE  TableInv'
<1>1. PICK f : Submitted(d, f)
    BY SubmitEffect
<1>2. RequestsFit' /\ RequestTyped'
    BY <1>1, RequestsKept DEF Submitted
<1>3. RestTyped'
    BY <1>1, RestIsTyped DEF RestTyped, Submitted
<1>4. TablesGrow
    BY <1>1 DEF Submitted
<1> QED
    BY <1>2, <1>3, <1>4, GrownTables DEF RestTyped

\* The jobs stay and the activations change or are added to.
LEMMA ActivationsGrow ==
    ASSUME TableInv, UNCHANGED <<jobs, siblings, notes>>,
           acts' \in Seq(Activation), Len(acts) <= Len(acts'),
           \A a \in DOMAIN acts' : /\ acts'[a].source <= Len(jobs)
                                   /\ acts'[a].sibling <= Len(siblings)
    PROVE  TablesGrow
<1>1. TypeOK /\ JobLinks /\ RowsFit(siblings) /\ RowsUnique(siblings)
    BY DEF TableInv, InstancesFit, InstalledSiblingIsUnique, RowsUnique
<1>2. /\ jobs \in Seq(Job) /\ siblings \in Seq(Sibling) /\ notes \in Seq(NoteStatuses)
      /\ Len(jobs) \in Nat /\ Len(siblings) \in Nat /\ Len(notes) \in Nat /\ Len(acts) \in Nat
      /\ Len(acts') \in Nat /\ \A k \in DOMAIN jobs : jobs[k] \in Job
    BY <1>1, RowsOfTables, RowsAre DEF TypeOK, NoteStatuses
<1>3. \A k \in DOMAIN jobs : JobFits(jobs[k], k, Len(acts'), Len(notes))
  <2> SUFFICES ASSUME NEW k \in DOMAIN jobs PROVE JobFits(jobs[k], k, Len(acts'), Len(notes))
      OBVIOUS
  <2>1. JobFits(jobs[k], k, Len(acts), Len(notes))
      BY <1>1 DEF JobLinks
  <2> QED
      BY <2>1, <1>2, JobStillFits
<1> QED
    BY <1>1, <1>2, <1>3 DEF TablesGrow

LEMMA RequestActivationKeepsTables ==
    ASSUME TableInv, NEW app \in Apps, NEW key \in Keys \cup {NoKey},
           RequestActivation(app, key)
    PROVE  TableInv'
<1> DEFINE new == [status |-> "pending", key |-> key, app |-> app, source |-> 0, sibling |-> 0]
           n == Len(acts) + 1
<1>1. /\ TypeOK /\ RowLinks /\ JobLinks /\ RequestsFit
      /\ UNCHANGED <<drafts, jobs, siblings, notes, worker>>
      /\ acts' = Append(acts, new) /\ request' = [op |-> "activate", act |-> n]
      /\ key # NoKey => \A a \in DOMAIN acts : acts[a].key # key
    BY DEF RequestActivation, TableInv
<1>2. /\ Len(jobs) \in Nat /\ Len(siblings) \in Nat
      /\ Len(acts) \in Nat /\ DOMAIN acts = 1 .. Len(acts)
      /\ \A k \in DOMAIN jobs : jobs[k] \in Job
    BY <1>1, RowsOfTables
<1>3. new \in Activation /\ new.source = 0 /\ new.status = "pending" /\ new.sibling = 0
      /\ new.key = key
    BY DEF Activation
<1> HIDE DEF new
<1>4. /\ acts' \in Seq(Activation) /\ Len(acts') = n /\ DOMAIN acts' = 1 .. n
      /\ \A a \in DOMAIN acts : acts'[a] = acts[a]
      /\ acts'[n] = new
    BY <1>1, <1>3, RowAdded DEF TypeOK
<1>5. TablesGrow
  <2>1. \A a \in DOMAIN acts' : acts'[a].source <= Len(jobs) /\ acts'[a].sibling <= Len(siblings)
      BY <1>1, <1>2, <1>3, <1>4 DEF RowLinks
  <2> QED
      BY <2>1, <1>1, <1>2, <1>4, ActivationsGrow
<1>6. RequestTyped'
    BY <1>1, <1>2, <1>4 DEF RequestTyped
<1>7. RequestsFit'
  <2>1. \A j \in DOMAIN jobs : jobs[j].act # n
      BY <1>1, <1>2 DEF JobLinks, JobFits, Job
  <2>2. /\ request'.act = n /\ acts'[n].source = 0 /\ acts'[n].status = "pending"
      BY <1>1, <1>3, <1>4
  <2>3. \A a, b \in DOMAIN acts' : acts'[a].key = acts'[b].key => a = b \/ acts'[a].key = NoKey
    <3>1. \A a, b \in DOMAIN acts : acts[a].key = acts[b].key => a = b \/ acts[a].key = NoKey
        BY <1>1 DEF RequestsFit
    <3> QED
        BY <3>1, <1>1, <1>2, <1>3, <1>4
  <2>4. \A i, j \in DOMAIN jobs :
           (/\ jobs[i].act # 0 /\ jobs[j].act = jobs[i].act
            /\ jobs[i].stage = "deploy_app_local" /\ jobs[j].stage = "deploy_app_local")
               => i = j
      BY <1>1 DEF RequestsFit
  <2> QED
      BY <1>1, <2>1, <2>2, <2>3, <2>4 DEF RequestsFit
<1>8. RestTyped'
  <2>1. RestTyped
      BY RestIsTyped
  <2>2. used' \in [patches : 0..MaxPatches, activates : 0..MaxActivates, faults : 0..MaxFaults]
      BY <2>1, JobBoundsAreNatural DEF RestTyped, RequestActivation
  <2> QED
      BY <2>1, <2>2, <1>1 DEF RestTyped, DraftsHaveApps
<1> QED
    BY <1>5, <1>6, <1>7, <1>8, GrownTables DEF RestTyped

LEMMA RefuseActivationKeepsTables ==
    ASSUME TableInv, RefuseActivation
    PROVE  TableInv'
<1> DEFINE a == request.act
           new == [acts[a] EXCEPT !.status = "failed"]
<1>1. /\ TypeOK /\ RowLinks /\ RequestsFit /\ RequestTyped
      /\ UNCHANGED <<drafts, jobs, siblings, notes, worker, used>>
      /\ Activating /\ request' = Nothing
    BY RestIsTyped DEF RefuseActivation, TableInv, Activating
<1>2. /\ a \in DOMAIN acts /\ acts[a] \in Activation /\ acts \in Seq(Activation)
  <2>1. a \in DOMAIN acts
      BY <1>1 DEF Activating, RequestTyped
  <2> QED
      BY <2>1, <1>1, RowsOfTables DEF TypeOK
<1>3. new \in Activation /\ new.key = acts[a].key /\ new.source = acts[a].source
      /\ new.sibling = acts[a].sibling
    BY <1>2 DEF Activation
<1>4. acts' = [acts EXCEPT ![a] = new]
    BY DEF RefuseActivation
<1> HIDE DEF new, a
<1>5. /\ acts' \in Seq(Activation) /\ Len(acts') = Len(acts) /\ DOMAIN acts' = DOMAIN acts
      /\ \A k \in DOMAIN acts : acts'[k] = IF k = a THEN new ELSE acts[k]
    BY <1>2, <1>3, <1>4, RowReplaced
<1>6. TablesGrow
  <2>1. \A k \in DOMAIN acts' : acts'[k].source <= Len(jobs) /\ acts'[k].sibling <= Len(siblings)
      BY <1>1, <1>2, <1>3, <1>5 DEF RowLinks
  <2>2. Len(acts) <= Len(acts')
      BY <1>1, <1>5, RowsOfTables
  <2> QED
      BY <2>1, <2>2, <1>1, <1>5, ActivationsGrow
<1>7. RequestsFit' /\ RequestTyped'
  <2>1. RequestTyped'
      BY <1>1 DEF RequestTyped
  <2>2. \A k \in DOMAIN acts : acts'[k].key = acts[k].key
      BY <1>3, <1>5
  <2> QED
      BY <2>1, <2>2, <1>1, <1>5 DEF RequestsFit
<1>8. RestTyped'
    BY <1>1, RestIsTyped DEF RestTyped, DraftsHaveApps
<1> QED
    BY <1>6, <1>7, <1>8, GrownTables DEF RestTyped

\* What queueing the deployment of an activation writes.
Queued(f, a, g) ==
    /\ a \in DOMAIN acts /\ g \in DOMAIN jobs
    /\ a # 0 /\ acts[a].source = 0 /\ acts[a].status = "pending"
    /\ \A k \in DOMAIN jobs : jobs[k].act # a
    /\ f \in Job /\ f.stage = "deploy_app_local" /\ f.status = "queued" /\ f.cause = "none"
    /\ f.draft = NoDraft /\ f.source = g /\ f.act = a
    /\ jobs[g].stage = "generate_app_spec" /\ jobs[g].status = "succeeded"
    /\ TablesGrow /\ UNCHANGED <<drafts, siblings, notes, worker, used>> /\ request' = Nothing
    /\ Len(jobs') = Len(jobs) + 1
    /\ DOMAIN jobs' = DOMAIN jobs \cup {Len(jobs) + 1}
    /\ Len(jobs) + 1 \notin DOMAIN jobs
    /\ jobs'[Len(jobs) + 1] = f
    /\ \A k \in DOMAIN jobs : jobs'[k] = jobs[k]
    /\ DOMAIN acts' = DOMAIN acts
    /\ acts'[a].source = Len(jobs) + 1
    /\ \A k \in DOMAIN acts : /\ k # a => acts'[k] = acts[k]
                              /\ acts'[k].key = acts[k].key
                              /\ acts'[k].status = acts[k].status

LEMMA QueueActivationEffect ==
    ASSUME TableInv, QueueActivation
    PROVE  \E f, a, g : Queued(f, a, g)
<1>1. /\ TypeOK /\ RowLinks /\ JobLinks /\ RequestsFit /\ RequestTyped /\ Activating
      /\ UNCHANGED <<drafts, siblings, notes, worker, used>> /\ request' = Nothing
    BY RestIsTyped DEF QueueActivation, TableInv, Activating
<1>2. /\ Len(jobs) \in Nat /\ DOMAIN jobs = 1 .. Len(jobs)
      /\ Len(acts) \in Nat /\ DOMAIN acts = 1 .. Len(acts)
      /\ Len(notes) \in Nat
      /\ \A k \in DOMAIN jobs : jobs[k] \in Job
      /\ \A k \in DOMAIN acts : acts[k] \in Activation
    BY <1>1, RowsOfTables
<1>3. PICK a \in DOMAIN acts : a = request.act
    BY <1>1 DEF Activating, RequestTyped
<1>4. PICK g \in DOMAIN jobs, anchored \in BOOLEAN :
          /\ jobs[g].stage = "generate_app_spec" /\ jobs[g].status = "succeeded"
          /\ jobs' = Append(jobs,
                            [FollowUp(g, "deploy_app_local", a, jobs[g].note, 0)
                                EXCEPT !.anchored = anchored])
          /\ acts' = [acts EXCEPT ![a].source = Len(jobs) + 1]
    BY <1>2, <1>3 DEF QueueActivation, Builds, Job
<1>5. PICK f : f = [FollowUp(g, "deploy_app_local", a, jobs[g].note, 0)
                        EXCEPT !.anchored = anchored]
    OBVIOUS
<1>6. /\ f \in Job /\ f.stage = "deploy_app_local" /\ f.status = "queued" /\ f.cause = "none"
      /\ f.draft = NoDraft /\ f.source = g /\ f.act = a /\ f.note = jobs[g].note
      /\ f.deployment = 0
  <2>1. /\ jobs[g].note \in Nat /\ a \in Nat /\ jobs \in Seq(Job)
    <3>1. jobs \in Seq(Job)
        BY <1>1 DEF TypeOK
    <3>2. jobs[g] \in Job
        BY <1>2
    <3> QED
        BY <1>2, <3>1, <3>2 DEF Job
  <2>2. PassedOn(FollowUp(g, "deploy_app_local", a, jobs[g].note, 0), g,
                 "deploy_app_local", a, jobs[g].note, 0)
      BY <2>1, FollowUpFits DEF Stages
  <2> QED
      BY <2>1, <2>2, <1>5 DEF PassedOn, Job
<1>7. JobFits(f, Len(jobs) + 1, Len(acts), Len(notes))
  <2>1. jobs[g].note <= Len(notes)
      BY <1>1 DEF JobLinks, JobFits
  <2> QED
      BY <2>1, <1>2, <1>6 DEF JobFits
<1>8. /\ acts' \in Seq(Activation) /\ Len(acts') = Len(acts)
      /\ acts'[a].source = Len(jobs) + 1
      /\ \A k \in DOMAIN acts : /\ k # a => acts'[k] = acts[k]
                                /\ acts'[k].key = acts[k].key
                                /\ acts'[k].status = acts[k].status
                                /\ acts'[k].sibling = acts[k].sibling
  <2> DEFINE new == [acts[a] EXCEPT !.source = Len(jobs) + 1]
  <2>1. new \in Activation /\ new.key = acts[a].key /\ new.status = acts[a].status
        /\ new.sibling = acts[a].sibling /\ new.source = Len(jobs) + 1
      BY <1>2 DEF Activation
  <2>2. acts' = [acts EXCEPT ![a] = new] /\ acts \in Seq(Activation)
      BY <1>1, <1>4 DEF TypeOK
  <2> HIDE DEF new
  <2> QED
      BY <2>1, <2>2, RowReplaced
<1>9. \A k \in DOMAIN acts : acts'[k].source <= Len(jobs) + 1
  <2>1. \A k \in DOMAIN acts : acts[k].source <= Len(jobs) /\ acts[k].source \in Nat
      BY <1>1, <1>2 DEF RowLinks, Activation
  <2> QED
      BY <2>1, <1>2, <1>8
<1>10. /\ TablesGrow
       /\ Len(jobs') = Len(jobs) + 1 /\ DOMAIN acts' = DOMAIN acts
       /\ DOMAIN jobs' = DOMAIN jobs \cup {Len(jobs) + 1}
       /\ Len(jobs) + 1 \notin DOMAIN jobs
       /\ jobs'[Len(jobs) + 1] = f
       /\ \A k \in DOMAIN jobs : jobs'[k] = jobs[k]
    BY <1>1, <1>4, <1>5, <1>6, <1>7, <1>8, <1>9, JobAdded
<1>11. acts[a].source = 0 /\ acts[a].status = "pending" /\ \A k \in DOMAIN jobs : jobs[k].act # a
    BY <1>1, <1>3 DEF RequestsFit, Activating
<1>12. a # 0
    BY <1>2
<1>13. Queued(f, a, g)
    BY <1>1, <1>4, <1>6, <1>8, <1>10, <1>11, <1>12 DEF Queued
<1> QED
    BY <1>13

LEMMA QueueActivationKeepsTables ==
    ASSUME TableInv, QueueActivation
    PROVE  TableInv'
<1>1. PICK f, a, g : Queued(f, a, g)
    BY QueueActivationEffect
<1>2. RequestsFit /\ RestTyped
    BY RestIsTyped DEF TableInv
<1>3. RequestTyped'
    BY <1>1 DEF RequestTyped, Queued
<1>4. RequestsFit'
  <2>1. \A b, c \in DOMAIN acts' : acts'[b].key = acts'[c].key => b = c \/ acts'[b].key = NoKey
      BY <1>1, <1>2 DEF Queued, RequestsFit
  <2>2. \A i, j \in DOMAIN jobs' :
           (/\ jobs'[i].act # 0 /\ jobs'[j].act = jobs'[i].act
            /\ jobs'[i].stage = "deploy_app_local" /\ jobs'[j].stage = "deploy_app_local")
               => i = j
      BY <1>1, <1>2 DEF Queued, RequestsFit
  <2> QED
      BY <1>1, <2>1, <2>2 DEF RequestsFit, Queued
<1>5. RestTyped'
    BY <1>1, <1>2 DEF RestTyped, DraftsHaveApps, Queued
<1>6. TablesGrow
    BY <1>1 DEF Queued
<1> QED
    BY <1>3, <1>4, <1>5, <1>6, GrownTables DEF RestTyped

\* One job gets another status.
LEMMA StatusSet ==
    ASSUME TypeOK, NEW j \in DOMAIN jobs, NEW status \in JobStatuses,
           jobs' = [jobs EXCEPT ![j].status = status], UNCHANGED <<acts, siblings, notes>>
    PROVE  /\ OnlyStatuses
           /\ \A k \in DOMAIN jobs : k # j => jobs'[k] = jobs[k]
           /\ jobs'[j].status = status /\ jobs'[j].cause = jobs[j].cause
<1> DEFINE new == [jobs[j] EXCEPT !.status = status]
<1>1. jobs[j] \in Job /\ jobs \in Seq(Job)
    BY RowsAre DEF TypeOK
<1>2. /\ new \in Job /\ Identity(new) = Identity(jobs[j]) /\ new.note = jobs[j].note
      /\ new.deployment = jobs[j].deployment /\ new.status = status /\ new.cause = jobs[j].cause
    BY <1>1 DEF Job, Identity
<1>3. jobs' = [jobs EXCEPT ![j] = new]
    OBVIOUS
<1> HIDE DEF new
<1>4. /\ jobs' \in Seq(Job) /\ Len(jobs') = Len(jobs)
      /\ \A k \in DOMAIN jobs : jobs'[k] = IF k = j THEN new ELSE jobs[k]
    BY <1>1, <1>2, <1>3, RowReplaced
<1> QED
    BY <1>2, <1>4 DEF OnlyStatuses

LEMMA PatchStepsKeepTables ==
    ASSUME TableInv, (\E j \in DOMAIN jobs : ReadPatch(j)) \/ CommitPatch
    PROVE  TableInv'
<1>1. TypeOK /\ RestTyped /\ RequestTyped
    BY RestIsTyped DEF TableInv
<1>2. CASE \E j \in DOMAIN jobs : ReadPatch(j)
  <2>1. PICK j \in DOMAIN jobs : ReadPatch(j)
      BY <1>2
  <2>2. UNCHANGED <<drafts, jobs, acts, siblings, notes, worker>>
      BY <2>1 DEF ReadPatch, tables
  <2>3. request' \in [op : {"patch"}, job : DOMAIN jobs, to : JobStatuses]
      BY <2>1 DEF ReadPatch
  <2>4. used' \in [patches : 0..MaxPatches, activates : 0..MaxActivates, faults : 0..MaxFaults]
      BY <1>1, <2>1, JobBoundsAreNatural DEF RestTyped, ReadPatch
  <2>5. RestTyped'
      BY <1>1, <2>2, <2>4 DEF RestTyped, DraftsHaveApps
  <2> QED
      BY <1>1, <2>2, <2>3, <2>5, NothingRestated, StatusesKeepTables
<1>3. CASE CommitPatch
  <2>1. /\ request.job \in DOMAIN jobs /\ request.to \in JobStatuses
        /\ jobs' = [jobs EXCEPT ![request.job].status = request.to]
        /\ request' = Nothing /\ UNCHANGED <<drafts, acts, siblings, notes, worker, used>>
      BY <1>1, <1>3 DEF CommitPatch, RequestTyped
  <2>2. OnlyStatuses
      BY <1>1, <2>1, StatusSet
  <2>3. DOMAIN jobs' = DOMAIN jobs
      BY <2>1
  <2>4. RestTyped'
      BY <1>1, <2>1, <2>3 DEF RestTyped, DraftsHaveApps
  <2> QED
      BY <2>1, <2>2, <2>4, StatusesKeepTables
<1> QED
    BY <1>2, <1>3

\* The steps of the worker thread between two stages, and its end.
LEMMA RestIsAWorker ==
    ASSUME NEW phase \in {"starting", "dead"}
    PROVE  /\ [Rest EXCEPT !.phase = phase] \in Worker /\ Rest \in Worker
           /\ [Rest EXCEPT !.phase = phase].phase = phase /\ Rest.phase = "polling"
BY DEF Rest, Worker, JobStatuses

\* A start fails every running job as interrupted and leaves the others.
LEMMA RecoverEffect ==
    ASSUME TypeOK, Recover
    PROVE  /\ OnlyStatuses /\ worker' = Rest /\ UNCHANGED <<drafts, request, used>>
           /\ \A k \in DOMAIN jobs : jobs[k].status # "running" => jobs'[k] = jobs[k]
           /\ \A k \in DOMAIN jobs : jobs[k].status = "running" =>
                  jobs'[k].status = "failed" /\ jobs'[k].cause = "interrupted"
<1>1. /\ jobs \in Seq(Job) /\ Len(jobs) \in Nat /\ DOMAIN jobs = 1 .. Len(jobs)
      /\ \A k \in DOMAIN jobs : jobs[k] \in Job
    BY RowsOfTables DEF TypeOK
<1> DEFINE new(k) == IF jobs[k].status = "running"
                     THEN [jobs[k] EXCEPT !.status = "failed", !.cause = "interrupted"]
                     ELSE jobs[k]
<1>2. \A k \in DOMAIN jobs :
          /\ new(k) \in Job /\ Identity(new(k)) = Identity(jobs[k])
          /\ new(k).note = jobs[k].note /\ new(k).deployment = jobs[k].deployment
          /\ jobs[k].status # "running" => new(k) = jobs[k]
          /\ jobs[k].status = "running" =>
                 new(k).status = "failed" /\ new(k).cause = "interrupted"
    BY <1>1 DEF Job, Identity, JobStatuses, Causes
<1>3. /\ jobs' = [k \in DOMAIN jobs |-> new(k)]
      /\ worker' = Rest /\ UNCHANGED <<drafts, acts, siblings, notes, request, used>>
    BY DEF Recover
<1> HIDE DEF new
<1>4. jobs' \in [1 .. Len(jobs) -> Job]
    BY <1>1, <1>2, <1>3
<1>5. jobs' \in Seq(Job) /\ Len(jobs') = Len(jobs)
    BY <1>1, <1>4, SeqDef, LenProperties
<1> QED
    BY <1>2, <1>3, <1>5 DEF OnlyStatuses

LEMMA WorkerStepsKeepTables ==
    ASSUME TableInv, Recover \/ ReadQueue \/ ClaimJob \/ LoadJob
    PROVE  TableInv'
<1>1. TypeOK /\ RestTyped
    BY RestIsTyped DEF TableInv
<1>2. CASE Recover
  <2>1. OnlyStatuses /\ worker' = Rest /\ UNCHANGED <<drafts, request, used>>
      BY <1>1, <1>2, RecoverEffect
  <2>2. RestTyped'
      BY <1>1, <2>1, RestIsAWorker DEF RestTyped, DraftsHaveApps
  <2> QED
      BY <2>1, <2>2, StatusesKeepTables
<1>3. CASE ReadQueue
  <2>1. PICK j \in DOMAIN jobs : worker' = [worker EXCEPT !.phase = "claiming", !.job = j]
      BY <1>3 DEF ReadQueue, Candidates
  <2>2. UNCHANGED <<drafts, jobs, acts, siblings, notes, request, used>>
      BY <1>3 DEF ReadQueue, tables
  <2>3. worker' \in Worker /\ worker'.job = j
    <3>1. j \in Nat /\ worker \in Worker
        BY <1>1, RowsOfTables DEF RestTyped
    <3> QED
        BY <2>1, <3>1 DEF Worker
  <2>4. RestTyped'
      BY <1>1, <2>2, <2>3 DEF RestTyped, DraftsHaveApps
  <2> QED
      BY <1>1, <2>2, <2>4, NothingRestated, StatusesKeepTables
<1>4. CASE ClaimJob
  <2>1. /\ worker.job \in DOMAIN jobs
        /\ jobs' = [jobs EXCEPT ![worker.job].status = "running"]
        /\ worker' = [worker EXCEPT !.phase = "claimed"]
        /\ UNCHANGED <<drafts, acts, siblings, notes, request, used>>
      BY <1>1, <1>4 DEF ClaimJob, RestTyped
  <2>2. OnlyStatuses
      BY <1>1, <2>1, StatusSet DEF JobStatuses
  <2>3. worker' \in Worker /\ worker'.job \in DOMAIN jobs'
      BY <1>1, <2>1 DEF Worker, RestTyped
  <2>4. RestTyped'
      BY <1>1, <2>1, <2>3 DEF RestTyped, DraftsHaveApps
  <2> QED
      BY <2>1, <2>2, <2>4, StatusesKeepTables
<1>5. CASE LoadJob
  <2>1. /\ worker.job \in DOMAIN jobs
        /\ worker' = [worker EXCEPT !.phase = "executing", !.loaded = jobs[worker.job].status]
        /\ UNCHANGED <<drafts, jobs, acts, siblings, notes, request, used>>
      BY <1>1, <1>5 DEF LoadJob, RestTyped, tables
  <2>2. worker' \in Worker /\ worker'.job \in DOMAIN jobs
    <3>1. jobs[worker.job].status \in JobStatuses /\ worker \in Worker
        BY <1>1, <2>1, RowsOfTables DEF RestTyped, Job
    <3> QED
        BY <2>1, <3>1 DEF Worker
  <2>3. RestTyped'
      BY <1>1, <2>1, <2>2 DEF RestTyped, DraftsHaveApps
  <2> QED
      BY <1>1, <2>1, <2>3, NothingRestated, StatusesKeepTables
<1> QED
    BY <1>2, <1>3, <1>4, <1>5

LEMMA FaultsKeepTables ==
    ASSUME TableInv, WorkerDies \/ Restart
    PROVE  TableInv'
<1>1. TypeOK /\ RestTyped /\ UNCHANGED <<jobs, acts, siblings, notes>>
      /\ (request' = request \/ request' = Nothing)
    BY RestIsTyped DEF TableInv, WorkerDies, Restart, tables
<1>2. /\ worker' \in Worker /\ worker'.phase \notin {"claiming", "claimed", "executing"}
    BY RestIsAWorker DEF WorkerDies, Restart
<1>3. used' \in [patches : 0..MaxPatches, activates : 0..MaxActivates, faults : 0..MaxFaults]
    BY <1>1, JobBoundsAreNatural DEF RestTyped, WorkerDies, Restart
<1>4. drafts' \in [DraftIds -> Draft] /\ DraftsHaveApps'
  <2>1. drafts \in [DraftIds -> Draft] /\ DraftsHaveApps
      BY <1>1 DEF RestTyped
  <2>2. CASE drafts' = drafts
      BY <2>1, <2>2 DEF DraftsHaveApps
  <2>3. CASE drafts' = UpgradedDrafts
    <3>1. \A d \in DraftIds : [drafts[d] EXCEPT !.status = "draft"] \in Draft
        BY <2>1 DEF Draft, DraftStatuses
    <3>2. drafts' \in [DraftIds -> Draft]
        BY <2>1, <2>3, <3>1 DEF UpgradedDrafts
    <3>3. \A d \in DraftIds : drafts'[d] = IF drafts[d].status = "absent" THEN drafts[d]
                                           ELSE [drafts[d] EXCEPT !.status = "draft"]
        BY <2>3 DEF UpgradedDrafts
    <3>4. \A d \in DraftIds : /\ drafts'[d].app = drafts[d].app
                              /\ drafts[d].status = "absent" => drafts'[d].status = "absent"
        BY <2>1, <3>3 DEF Draft
    <3> QED
        BY <2>1, <3>2, <3>4 DEF DraftsHaveApps
  <2> QED
      BY <2>2, <2>3 DEF WorkerDies, Restart, tables
<1>5. RestTyped'
    BY <1>2, <1>3, <1>4 DEF RestTyped
<1> QED
    BY <1>1, <1>5, NothingRestated, StatusesKeepTables

LEMMA LastOfMore ==
    ASSUME NEW n \in Nat, NEW m \in Nat, m = n \/ m = n + 1, NEW k \in 1 .. m,
           k \notin 1 .. n
    PROVE  k = n + 1 /\ m = n + 1
OBVIOUS

\* The end of a stage lets the request and the keys alone.
LEMMA StageEndsKeepTables ==
    ASSUME TableInv, StageEnds
    PROVE  TableInv'
<1> DEFINE j == worker.job
<1>1. /\ j \in DOMAIN jobs
      /\ StageFails(j) \/ StageAdvances(j) \/ TestPasses(j)
    BY StageEndsEffect
<1> HIDE DEF j
<1>2. TypeOK /\ RestTyped /\ RequestsFit /\ RequestTyped /\ JobLinks
    BY RestIsTyped DEF TableInv
<1>3. TablesGrow /\ OnlyOf(j) /\ Frees
    BY <1>1 DEF StageFails, StageAdvances, TestPasses
<1>4. /\ DOMAIN jobs = 1 .. Len(jobs) /\ DOMAIN jobs' = 1 .. Len(jobs')
      /\ DOMAIN acts = 1 .. Len(acts) /\ DOMAIN acts' = 1 .. Len(acts')
      /\ Len(jobs) \in Nat /\ Len(acts) \in Nat /\ Len(jobs') \in Nat /\ Len(acts') \in Nat
    BY <1>2, <1>3, GrownDomains
<1>5. Activating => /\ request.act \in DOMAIN acts /\ request.act # 0
                    /\ \A k \in DOMAIN jobs : jobs[k].act # request.act
    BY <1>2, <1>4 DEF Activating, RequestTyped, RequestsFit
<1>6. \A k \in DOMAIN jobs' : k \in DOMAIN jobs
               \/ jobs'[k].act = 0
               \/ (jobs'[k].stage # "deploy_app_local"
                      /\ (Activating => jobs'[k].act # request.act))
  <2>1. CASE Len(jobs') = Len(jobs)
      BY <1>4, <2>1
  <2>2. CASE StageAdvances(j)
    <3>1. /\ Len(jobs') = Len(jobs) + 1 /\ Follows(jobs'[Len(jobs) + 1], j)
          /\ jobs[j].stage # "smoke_test"
        BY <2>2 DEF StageAdvances
    <3>2. jobs[j] \in Job /\ j \in Nat
        BY <1>1, <1>2, <1>4, RowsOfTables
    <3>3. CASE jobs[j].stage = "generate_app_spec"
        BY <1>4, <3>1, <3>3 DEF Follows
    <3>4. CASE jobs[j].stage = "deploy_app_local"
        BY <1>1, <1>4, <1>5, <3>1, <3>4 DEF Follows, After
    <3>5. CASE jobs[j].stage = "provision_sibling_xyn"
      <4>1. /\ jobs'[Len(jobs) + 1].stage = "smoke_test"
            /\ jobs'[Len(jobs) + 1].act = ActivationOf(j)
          BY <3>1, <3>5 DEF Follows, After
      <4>2. Activating => ActivationOf(j) # request.act
          BY <1>1, <1>4, <1>5 DEF ActivationOf
      <4> QED
          BY <1>4, <3>1, <4>1, <4>2
    <3> QED
        BY <3>1, <3>2, <3>3, <3>4, <3>5 DEF Job, Stages
  <2> QED
      BY <1>1, <2>1, <2>2 DEF StageFails, TestPasses
<1>7. /\ Activating => acts'[request.act] = acts[request.act]
      /\ \A k \in DOMAIN acts : acts'[k].key = acts[k].key
      /\ \A k \in DOMAIN acts' : k \in DOMAIN acts \/ acts'[k].key = NoKey
  <2>1. Activating => acts'[request.act] = acts[request.act]
      BY <1>1, <1>3, <1>5 DEF OnlyOf
  <2>2. \A k \in DOMAIN acts : acts'[k].key = acts[k].key
      BY <1>3 DEF OnlyOf
  <2>3. \/ Len(acts') = Len(acts)
        \/ Len(acts') = Len(acts) + 1 /\ acts'[Len(acts) + 1].key = NoKey
      BY <1>3 DEF OnlyOf
  <2>4. \A k \in DOMAIN acts' : k \in DOMAIN acts \/ acts'[k].key = NoKey
    <3> SUFFICES ASSUME NEW k \in DOMAIN acts', k \notin DOMAIN acts
                 PROVE  acts'[k].key = NoKey
        OBVIOUS
    <3>1. k \in 1 .. Len(acts') /\ k \notin 1 .. Len(acts)
        BY <1>4
    <3>2. k = Len(acts) + 1 /\ Len(acts') = Len(acts) + 1
        BY <1>4, <2>3, <3>1, LastOfMore
    <3> QED
        BY <1>4, <2>3, <3>2
  <2> QED
      BY <2>1, <2>2, <2>4
<1>8. RequestsFit' /\ RequestTyped'
  <2>1. request' = request
      BY <1>3 DEF Frees
  <2> QED
      BY <1>3, <1>6, <1>7, <2>1, RequestsKept
<1>9. RestTyped'
    BY <1>2, <1>3, RestIsAWorker DEF RestTyped, DraftsHaveApps, Frees
<1> QED
    BY <1>3, <1>8, <1>9, GrownTables DEF RestTyped

LEMMA StepsKeepTables ==
    ASSUME TableInv, [Next]_vars
    PROVE  TableInv'
<1>1. CASE UNCHANGED vars
  <2>1. UNCHANGED <<drafts, jobs, acts, siblings, notes, worker, request, used>>
      BY <1>1 DEF vars, tables
  <2>2. RestTyped'
      BY <2>1, RestIsTyped DEF RestTyped, DraftsHaveApps
  <2> QED
      BY <2>1, <2>2, NothingRestated, StatusesKeepTables DEF TableInv
<1>2. CASE Requests
    BY <1>2, DraftStepsKeepTables, SubmitKeepsTables, RequestActivationKeepsTables,
       PatchStepsKeepTables DEF Requests
<1>3. CASE Replies
    BY <1>3, QueueActivationKeepsTables, RefuseActivationKeepsTables, PatchStepsKeepTables
       DEF Replies
<1>4. CASE Work
    BY <1>4, WorkerStepsKeepTables, StageEndsKeepTables DEF Work
<1>5. CASE WorkerDies \/ Restart
    BY <1>5, FaultsKeepTables
<1> QED
    BY <1>1, <1>2, <1>3, <1>4, <1>5 DEF Next

LEMMA TablesStart ==
    ASSUME Init
    PROVE  TableInv
<1>1. TypeOK
  <2>1. drafts \in [DraftIds -> Draft]
      BY DEF Init, Draft
  <2>2. worker \in Worker
      BY RestIsAWorker DEF Init
  <2>3. used \in [patches : 0..MaxPatches, activates : 0..MaxActivates, faults : 0..MaxFaults]
      BY JobBoundsAreNatural DEF Init
  <2>4. jobs = <<>> /\ acts = <<>> /\ siblings = <<>> /\ notes = <<>> /\ request = Nothing
      BY DEF Init
  <2>5. \A S : <<>> \in Seq(S)
      OBVIOUS
  <2> QED
      BY <2>1, <2>2, <2>3, <2>4, <2>5 DEF TypeOK
<1>2. DraftsHaveApps
    BY DEF Init, DraftsHaveApps
<1>3. DOMAIN jobs = {} /\ DOMAIN acts = {} /\ DOMAIN siblings = {}
    BY DEF Init
<1>4. RowLinks
    BY <1>3, RestIsAWorker DEF RowLinks, Init
<1>5. JobLinks /\ InstancesFit /\ InstalledSiblingIsUnique
    BY <1>3 DEF JobLinks, InstancesFit, RowsFit, InstalledSiblingIsUnique
<1>6. RequestsFit
    BY <1>3 DEF RequestsFit, Init
<1> QED
    BY <1>1, <1>2, <1>4, <1>5, <1>6 DEF TableInv

\* Every row that a job, an activation, a sibling or the worker names exists, and is
\* of the app it is named for, whatever users patch and whenever the process stops
\* (_enqueue_job, create_or_update_activation, upsert_sibling_from_provision_output).
THEOREM TablesAreSound == Spec => []TableInv
<1>1. Init => TableInv
    BY TablesStart
<1>2. TableInv /\ [Next]_vars => TableInv'
    BY StepsKeepTables
<1> QED
    BY <1>1, <1>2, PTL DEF Spec

-----------------------------------------------------------------------------
(* The pipelines stand when no user patches the status of a job.           *)

\* The ways in which a job enters the queue: with the submission of a draft, with
\* an activation that has no job yet, and behind a job that ends.
Enters(f) == f.stage = "generate_app_spec" /\ f.source = 0 /\ f.act = 0

Activates(f, g) ==
    /\ jobs[g].stage = "generate_app_spec" /\ jobs[g].status = "succeeded"
    /\ f.stage = "deploy_app_local" /\ f.source = g /\ f.act # 0
    /\ \A k \in DOMAIN jobs : jobs[k].act # f.act

Advances(f, j) ==
    /\ Live(jobs[j]) /\ jobs'[j].status = "succeeded"
    /\ Continues(f, j, jobs[j].stage)
    /\ f.act # 0 => \A k \in DOMAIN jobs :
           k # j /\ jobs[k].act = f.act => ~Live(jobs[k])

\* What a step does to the jobs and to what they report.
JobsProgress ==
    /\ \A k \in DOMAIN jobs :
          /\ ~Live(jobs[k]) => jobs'[k] = jobs[k]
          /\ Live(jobs'[k]) => jobs'[k].cause = "none"
          /\ Live(jobs[k]) /\ jobs'[k].status = "succeeded" =>
                \/ jobs[k].stage = "smoke_test"
                \/ \E n \in DOMAIN jobs' : Continues(jobs'[n], k, jobs[k].stage)
    /\ \A n, m \in DOMAIN jobs' : n \in DOMAIN jobs \/ m \in DOMAIN jobs \/ n = m
    /\ \A n \in DOMAIN jobs' : n \in DOMAIN jobs \/
          /\ jobs'[n].status = "queued" /\ jobs'[n].cause = "none"
          /\ \/ Enters(jobs'[n])
             \/ \E j \in DOMAIN jobs : Activates(jobs'[n], j) \/ Advances(jobs'[n], j)

ResultsProgress ==
    /\ \A a \in DOMAIN acts' : acts'[a].status = "smoke_passed" =>
          \/ a \in DOMAIN acts /\ acts[a] = acts'[a]
          \/ \E j \in DOMAIN jobs : /\ acts'[a].source = j /\ jobs[j].stage = "smoke_test"
                                    /\ jobs'[j].status = "succeeded" /\ jobs[j].act = a
    /\ \A n \in DOMAIN notes' : notes'[n] = "completed" =>
          \/ n \in DOMAIN notes /\ notes[n] = "completed"
          \/ \E j \in DOMAIN jobs : /\ jobs'[j].note = n /\ jobs[j].stage = "smoke_test"
                                    /\ jobs'[j].status = "succeeded"

LEMMA StagesAreKept ==
    ASSUME TableInv, TablesGrow
    PROVE  /\ \A k \in DOMAIN jobs : /\ k \in DOMAIN jobs' /\ k # 0
                                     /\ jobs'[k].stage = jobs[k].stage
                                     /\ jobs'[k].source = jobs[k].source
                                     /\ jobs'[k].act = jobs[k].act
                                     /\ jobs'[k].draft = jobs[k].draft
                                     /\ jobs[k].stage \in Stages
                                     /\ jobs[k].status \in JobStatuses
           /\ \A k \in DOMAIN jobs' : jobs'[k].stage \in Stages /\ jobs'[k].status \in JobStatuses
<1>1. TypeOK /\ jobs' \in Seq(Job)
    BY DEF TableInv, TablesGrow
<1>2. /\ \A k \in DOMAIN jobs : jobs[k] \in Job /\ k # 0
      /\ \A k \in DOMAIN jobs' : jobs'[k] \in Job
    BY <1>1, RowsAre, RowsOfTables
<1>3. DOMAIN jobs \subseteq DOMAIN jobs'
    BY <1>1, GrownDomains
<1> QED
    BY <1>2, <1>3 DEF TablesGrow, Identity, Job

LEMMA SourcesStaySucceeded ==
    ASSUME TableInv, TablesGrow, ChainInv, JobsProgress
    PROVE  SourcesSucceeded'
<1>1. SourcesSucceeded /\ JobLinks /\ TypeOK
    BY DEF ChainInv, TableInv
<1> SUFFICES ASSUME NEW n \in DOMAIN jobs', jobs'[n].stage # "generate_app_spec"
             PROVE  /\ jobs'[n].source # 0
                    /\ jobs'[jobs'[n].source].status = "succeeded"
                    /\ jobs'[jobs'[n].source].stage = Before(jobs'[n].stage)
    BY DEF SourcesSucceeded
<1>2. CASE n \in DOMAIN jobs
  <2>1. /\ jobs[n].source # 0 /\ jobs[jobs[n].source].status = "succeeded"
        /\ jobs[jobs[n].source].stage = Before(jobs[n].stage)
      BY <1>1, <1>2, StagesAreKept DEF SourcesSucceeded
  <2>2. jobs[n].source \in DOMAIN jobs
    <3>1. jobs[n].source < n /\ jobs[n].source \in Nat /\ n \in 1 .. Len(jobs) /\ Len(jobs) \in Nat
          /\ DOMAIN jobs = 1 .. Len(jobs)
        BY <1>1, <1>2, RowsOfTables DEF JobLinks, JobFits, Job
    <3> QED
        BY <2>1, <3>1
  <2>3. jobs'[jobs[n].source] = jobs[jobs[n].source]
      BY <2>1, <2>2 DEF JobsProgress, Live
  <2> QED
      BY <1>2, <2>1, <2>2, <2>3, StagesAreKept
<1>3. CASE n \notin DOMAIN jobs
  <2>1. \E j \in DOMAIN jobs : Activates(jobs'[n], j) \/ Advances(jobs'[n], j)
      BY <1>3 DEF JobsProgress, Enters
  <2>2. PICK j \in DOMAIN jobs : Activates(jobs'[n], j) \/ Advances(jobs'[n], j)
      BY <2>1
  <2>3. j # 0 /\ jobs'[j].stage = jobs[j].stage /\ jobs[j].stage \in Stages
      BY StagesAreKept
  <2>4. CASE Activates(jobs'[n], j)
    <3>1. jobs'[j] = jobs[j]
        BY <2>4 DEF Activates, JobsProgress, Live
    <3> QED
        BY <2>3, <2>4, <3>1 DEF Activates, Before
  <2>5. CASE Advances(jobs'[n], j)
    <3>1. jobs'[n].stage \in After(jobs[j].stage) /\ jobs'[n].source = j
          /\ jobs'[j].status = "succeeded"
        BY <2>5 DEF Advances, Continues
    <3>2. jobs[j].stage = Before(jobs'[n].stage)
        BY <2>3, <3>1 DEF After, Before, Stages
    <3> QED
        BY <2>3, <3>1, <3>2
  <2> QED
      BY <2>2, <2>4, <2>5
<1> QED
    BY <1>2, <1>3

\* A job continues a job that was there only if it did before or has just been
\* queued behind it.
LEMMA WhoContinues ==
    ASSUME TableInv, TablesGrow, JobsProgress, NEW j \in DOMAIN jobs, NEW n \in DOMAIN jobs',
           Continues(jobs'[n], j, jobs[j].stage)
    PROVE  \/ n \in DOMAIN jobs /\ Continues(jobs[n], j, jobs[j].stage)
           \/ n \notin DOMAIN jobs /\ Advances(jobs'[n], j)
<1>1. CASE n \in DOMAIN jobs
    BY <1>1, StagesAreKept DEF Continues
<1>2. CASE n \notin DOMAIN jobs
  <2>1. jobs'[n].source = j /\ j # 0
      BY StagesAreKept DEF Continues
  <2>2. CASE Enters(jobs'[n])
      BY <2>1, <2>2 DEF Enters
  <2>3. CASE \E g \in DOMAIN jobs : Activates(jobs'[n], g)
    <3>1. PICK g \in DOMAIN jobs : Activates(jobs'[n], g)
        BY <2>3
    <3>2. g = j /\ jobs[g].stage = "generate_app_spec" /\ jobs'[n].act # 0
        BY <2>1, <3>1 DEF Activates
    <3> QED
        BY <3>2 DEF Continues
  <2>4. CASE \E g \in DOMAIN jobs : Advances(jobs'[n], g)
    <3>1. PICK g \in DOMAIN jobs : Advances(jobs'[n], g)
        BY <2>4
    <3>2. g = j
        BY <2>1, <3>1 DEF Advances, Continues
    <3> QED
        BY <1>2, <3>1, <3>2
  <2> QED
      BY <1>2, <2>2, <2>3, <2>4 DEF JobsProgress
<1> QED
    BY <1>1, <1>2

LEMMA FollowUpsStayOne ==
    ASSUME TableInv, TablesGrow, ChainInv, JobsProgress
    PROVE  FollowUps'
<1>1. FollowUps /\ TypeOK
    BY DEF ChainInv, TableInv
<1>2. \A k \in DOMAIN jobs : jobs'[k].stage = jobs[k].stage /\ k \in DOMAIN jobs'
    BY StagesAreKept
<1>3. ASSUME NEW j \in DOMAIN jobs', j \notin DOMAIN jobs, NEW i \in DOMAIN jobs'
      PROVE  ~Continues(jobs'[i], j, jobs'[j].stage)
  <2>1. /\ DOMAIN jobs = 1 .. Len(jobs) /\ DOMAIN jobs' = 1 .. Len(jobs')
        /\ Len(jobs) \in Nat /\ Len(jobs') \in Nat
      BY <1>1, GrownDomains
  <2>2. jobs'[i].source < i
      BY DEF TablesGrow, JobFits
  <2>3. i \in DOMAIN jobs \/ i = j
      BY <1>3 DEF JobsProgress
  <2> SUFFICES ASSUME jobs'[i].source = j PROVE FALSE
      BY DEF Continues
  <2>4. j < i
      BY <2>2
  <2>5. i \in 1 .. Len(jobs)
      BY <2>1, <2>3, <2>4
  <2>6. j \in 1 .. Len(jobs')  /\ j \notin 1 .. Len(jobs)
      BY <1>3, <2>1
  <2> QED
      BY <2>1, <2>4, <2>5, <2>6
<1>4. ASSUME NEW j \in DOMAIN jobs', j \notin DOMAIN jobs
      PROVE  jobs'[j].status # "succeeded"
    BY <1>4 DEF JobsProgress
<1>5. ASSUME NEW j \in DOMAIN jobs
      PROVE  (\E i \in DOMAIN jobs' : Continues(jobs'[i], j, jobs[j].stage))
                 <=> (jobs'[j].status = "succeeded" /\ jobs[j].stage # "smoke_test")
  <2>1. CASE ~Live(jobs[j])
    <3>1. jobs'[j] = jobs[j]
        BY <2>1 DEF JobsProgress
    <3>2. ASSUME NEW i \in DOMAIN jobs', Continues(jobs'[i], j, jobs[j].stage)
          PROVE  i \in DOMAIN jobs /\ Continues(jobs[i], j, jobs[j].stage)
        BY <2>1, <3>2, WhoContinues DEF Advances
    <3>3. ASSUME NEW i \in DOMAIN jobs, Continues(jobs[i], j, jobs[j].stage)
          PROVE  Continues(jobs'[i], j, jobs[j].stage)
        BY <3>3, StagesAreKept DEF Continues
    <3> QED
        BY <1>1, <1>2, <3>1, <3>2, <3>3 DEF FollowUps
  <2>2. CASE Live(jobs[j])
    <3>1. jobs[j].status # "succeeded"
        BY <2>2 DEF Live
    <3>2. \A i \in DOMAIN jobs : ~Continues(jobs[i], j, jobs[j].stage)
        BY <1>1, <3>1 DEF FollowUps
    <3>3. ASSUME NEW i \in DOMAIN jobs', Continues(jobs'[i], j, jobs[j].stage)
          PROVE  jobs'[j].status = "succeeded" /\ jobs[j].stage # "smoke_test"
      <4>1. Advances(jobs'[i], j)
          BY <3>2, <3>3, WhoContinues
      <4>2. jobs[j].stage # "smoke_test"
          BY <3>3 DEF Continues, After
      <4> QED
          BY <4>1, <4>2 DEF Advances
    <3>4. ASSUME jobs'[j].status = "succeeded", jobs[j].stage # "smoke_test"
          PROVE  \E i \in DOMAIN jobs' : Continues(jobs'[i], j, jobs[j].stage)
        BY <2>2, <3>4 DEF JobsProgress
    <3> QED
        BY <3>3, <3>4
  <2> QED
      BY <2>1, <2>2
<1>6. ASSUME NEW j \in DOMAIN jobs, NEW i \in DOMAIN jobs', NEW k \in DOMAIN jobs',
             Continues(jobs'[i], j, jobs[j].stage), Continues(jobs'[k], j, jobs[j].stage)
      PROVE  i = k
  <2>1. CASE ~Live(jobs[j])
    <3>1. /\ i \in DOMAIN jobs /\ Continues(jobs[i], j, jobs[j].stage)
          /\ k \in DOMAIN jobs /\ Continues(jobs[k], j, jobs[j].stage)
        BY <2>1, <1>6, WhoContinues DEF Advances
    <3> QED
        BY <1>1, <3>1 DEF FollowUps
  <2>2. CASE Live(jobs[j])
    <3>1. \A x \in DOMAIN jobs : ~Continues(jobs[x], j, jobs[j].stage)
        BY <1>1, <2>2 DEF FollowUps, Live
    <3>2. i \notin DOMAIN jobs /\ k \notin DOMAIN jobs
        BY <3>1, <1>6, WhoContinues
    <3> QED
        BY <3>2 DEF JobsProgress
  <2> QED
      BY <2>1, <2>2
<1>7. \A j \in DOMAIN jobs' :
        /\ (\E i \in DOMAIN jobs' : Continues(jobs'[i], j, jobs'[j].stage))
               <=> (jobs'[j].status = "succeeded" /\ jobs'[j].stage # "smoke_test")
        /\ \A i, k \in DOMAIN jobs' :
               Continues(jobs'[i], j, jobs'[j].stage) /\ Continues(jobs'[k], j, jobs'[j].stage)
                   => i = k
  <2> SUFFICES ASSUME NEW j \in DOMAIN jobs'
               PROVE  /\ (\E i \in DOMAIN jobs' : Continues(jobs'[i], j, jobs'[j].stage))
                             <=> (jobs'[j].status = "succeeded" /\ jobs'[j].stage # "smoke_test")
                      /\ \A i, k \in DOMAIN jobs' :
                             (/\ Continues(jobs'[i], j, jobs'[j].stage)
                              /\ Continues(jobs'[k], j, jobs'[j].stage)) => i = k
      OBVIOUS
  <2>1. CASE j \notin DOMAIN jobs
      BY <1>3, <1>4, <2>1
  <2>2. CASE j \in DOMAIN jobs
      BY <1>2, <1>5, <1>6, <2>2
  <2> QED
      BY <2>1, <2>2
<1> QED
    BY <1>7 DEF FollowUps, Continues

LEMMA ResultsStayTested ==
    ASSUME TableInv, TablesGrow, ChainInv, JobsProgress, ResultsProgress
    PROVE  ResultsHaveTests'
<1>1. ResultsHaveTests /\ RowLinks /\ TypeOK
    BY DEF ChainInv, TableInv
<1>2. ASSUME NEW j \in DOMAIN jobs, jobs[j].status = "succeeded"
      PROVE  jobs'[j] = jobs[j]
    BY <1>2 DEF JobsProgress, Live
<1>3. ASSUME NEW a \in DOMAIN acts', acts'[a].status = "smoke_passed"
      PROVE  /\ acts'[a].source # 0
             /\ jobs'[acts'[a].source].stage = "smoke_test"
             /\ jobs'[acts'[a].source].status = "succeeded"
             /\ jobs'[acts'[a].source].act = a
  <2>1. CASE a \in DOMAIN acts /\ acts[a] = acts'[a]
    <3>1. /\ acts[a].source # 0
          /\ jobs[acts[a].source].stage = "smoke_test"
          /\ jobs[acts[a].source].status = "succeeded"
          /\ jobs[acts[a].source].act = a
        BY <1>1, <1>3, <2>1 DEF ResultsHaveTests
    <3>2. acts[a].source \in DOMAIN jobs
      <4>1. acts[a].source \in Nat /\ acts[a].source <= Len(jobs) /\ DOMAIN jobs = 1 .. Len(jobs)
            /\ Len(jobs) \in Nat
          BY <1>1, <2>1, RowsOfTables DEF RowLinks, Activation
      <4> QED
          BY <3>1, <4>1
    <3> QED
        BY <1>2, <2>1, <3>1, <3>2
  <2>2. CASE \E j \in DOMAIN jobs : /\ acts'[a].source = j /\ jobs[j].stage = "smoke_test"
                                    /\ jobs'[j].status = "succeeded" /\ jobs[j].act = a
      BY <2>2, StagesAreKept
  <2> QED
      BY <1>3, <2>1, <2>2 DEF ResultsProgress
<1>4. ASSUME NEW n \in DOMAIN notes', notes'[n] = "completed"
      PROVE  \E j \in DOMAIN jobs' : /\ jobs'[j].note = n /\ jobs'[j].stage = "smoke_test"
                                     /\ jobs'[j].status = "succeeded"
  <2>1. CASE n \in DOMAIN notes /\ notes[n] = "completed"
    <3>1. PICK j \in DOMAIN jobs : /\ jobs[j].note = n /\ jobs[j].stage = "smoke_test"
                                   /\ jobs[j].status = "succeeded"
        BY <1>1, <2>1 DEF ResultsHaveTests
    <3> QED
        BY <1>2, <3>1, StagesAreKept
  <2>2. CASE \E j \in DOMAIN jobs : /\ jobs'[j].note = n /\ jobs[j].stage = "smoke_test"
                                    /\ jobs'[j].status = "succeeded"
      BY <2>2, StagesAreKept
  <2> QED
      BY <1>4, <2>1, <2>2 DEF ResultsProgress
<1> QED
    BY <1>3, <1>4 DEF ResultsHaveTests

LEMMA ActivationsStayOne ==
    ASSUME TableInv, TablesGrow, ChainInv, JobsProgress
    PROVE  ActivationsHaveOne' /\ FailuresHaveCauses'
<1>1. ActivationsHaveOne
    BY DEF ChainInv
<1>2. ASSUME NEW k \in DOMAIN jobs, Live(jobs'[k])
      PROVE  Live(jobs[k])
    BY <1>2 DEF JobsProgress
<1>3. ASSUME NEW n \in DOMAIN jobs', n \notin DOMAIN jobs, NEW k \in DOMAIN jobs,
             jobs'[n].act # 0, jobs'[n].act = jobs[k].act, Live(jobs'[k])
      PROVE  FALSE
  <2>1. \E j \in DOMAIN jobs : Activates(jobs'[n], j) \/ Advances(jobs'[n], j)
      BY <1>3 DEF JobsProgress, Enters
  <2>2. PICK j \in DOMAIN jobs : Activates(jobs'[n], j) \/ Advances(jobs'[n], j)
      BY <2>1
  <2>3. CASE Activates(jobs'[n], j)
      BY <1>3, <2>3 DEF Activates
  <2>4. CASE Advances(jobs'[n], j)
      BY <1>2, <1>3, <2>4 DEF Advances, Live
  <2> QED
      BY <2>2, <2>3, <2>4
<1>4. ASSUME NEW i \in DOMAIN jobs', NEW k \in DOMAIN jobs', jobs'[i].act # 0,
             jobs'[k].act = jobs'[i].act, Live(jobs'[i]), Live(jobs'[k])
      PROVE  i = k
  <2>1. CASE i \in DOMAIN jobs /\ k \in DOMAIN jobs
      BY <1>1, <1>2, <1>4, <2>1, StagesAreKept DEF ActivationsHaveOne
  <2>2. CASE i \notin DOMAIN jobs /\ k \notin DOMAIN jobs
      BY <2>2 DEF JobsProgress
  <2>3. CASE i \notin DOMAIN jobs /\ k \in DOMAIN jobs
      BY <1>3, <1>4, <2>3, StagesAreKept
  <2>4. CASE i \in DOMAIN jobs /\ k \notin DOMAIN jobs
      BY <1>3, <1>4, <2>4, StagesAreKept
  <2> QED
      BY <2>1, <2>2, <2>3, <2>4
<1>5. \A k \in DOMAIN jobs' : Live(jobs'[k]) => jobs'[k].cause = "none"
    BY DEF JobsProgress
<1> QED
    BY <1>4, <1>5 DEF ActivationsHaveOne, FailuresHaveCauses, Live

\* Whether the activation a is still worked on when its status says so.
Pursued(a) ==
    IF acts[a].status \in {"smoke_passed", "failed"}
    THEN \A k \in DOMAIN jobs : jobs[k].act = a => ~Live(jobs[k])
    ELSE \/ \E k \in DOMAIN jobs : jobs[k].act = a /\ Live(jobs[k])
         \/ acts[a].source = 0
         \/ \E k \in DOMAIN jobs : jobs[k].act = a /\ jobs[k].cause = "interrupted"
         \/ jobs[acts[a].source].act # a /\ jobs[acts[a].source].cause # "none"

LEMMA FollowingIsPursuing ==
    ASSUME ActivationFollowsItsChain
    PROVE  \A a \in DOMAIN acts : Pursued(a)
BY DEF ActivationFollowsItsChain, Pursued, Live

LEMMA PursuingIsFollowing ==
    ASSUME \A a \in DOMAIN acts' : Pursued(a)'
    PROVE  ActivationFollowsItsChain'
BY DEF ActivationFollowsItsChain, Pursued, Live

\* An activation that a step does not touch.
LEMMA StaysPursued ==
    ASSUME TableInv, TablesGrow, ChainInv, JobsProgress,
           NEW a \in DOMAIN acts, acts'[a] = acts[a],
           \A k \in DOMAIN jobs' : jobs'[k].act = a => k \in DOMAIN jobs,
           \A k \in DOMAIN jobs : jobs[k].act = a /\ Live(jobs[k]) =>
               Live(jobs'[k]) \/ jobs'[k].cause = "interrupted"
    PROVE  Pursued(a)'
<1>1. Pursued(a)
    BY FollowingIsPursuing DEF ChainInv
<1>2. ASSUME NEW k \in DOMAIN jobs, ~Live(jobs[k]) \/ jobs[k].cause # "none"
      PROVE  jobs'[k] = jobs[k]
    BY <1>2 DEF ChainInv, FailuresHaveCauses, JobsProgress
<1>3. CASE acts[a].status \in {"smoke_passed", "failed"}
  <2>1. \A k \in DOMAIN jobs : jobs[k].act = a => ~Live(jobs[k])
      BY <1>1, <1>3 DEF Pursued
  <2>2. \A k \in DOMAIN jobs' : jobs'[k].act = a => ~Live(jobs'[k])
      BY <1>2, <2>1, StagesAreKept
  <2> QED
      BY <1>3, <2>2 DEF Pursued, Live
<1>4. CASE acts[a].status \notin {"smoke_passed", "failed"}
  <2> SUFFICES \/ \E k \in DOMAIN jobs' : jobs'[k].act = a /\ Live(jobs'[k])
               \/ acts'[a].source = 0
               \/ \E k \in DOMAIN jobs' : jobs'[k].act = a /\ jobs'[k].cause = "interrupted"
               \/ jobs'[acts'[a].source].act # a /\ jobs'[acts'[a].source].cause # "none"
      BY <1>4 DEF Pursued, Live
  <2>1. CASE \E k \in DOMAIN jobs : jobs[k].act = a /\ Live(jobs[k])
      BY <2>1, StagesAreKept
  <2>2. CASE acts[a].source = 0
      BY <2>2
  <2>3. CASE \E k \in DOMAIN jobs : jobs[k].act = a /\ jobs[k].cause = "interrupted"
      BY <1>2, <2>3, StagesAreKept
  <2>4. CASE /\ acts[a].source # 0
             /\ jobs[acts[a].source].act # a /\ jobs[acts[a].source].cause # "none"
    <3>1. acts[a].source \in DOMAIN jobs
      <4>1. /\ acts[a].source \in Nat /\ acts[a].source <= Len(jobs)
            /\ DOMAIN jobs = 1 .. Len(jobs) /\ Len(jobs) \in Nat
          BY RowsOfTables DEF TableInv, RowLinks, Activation
      <4> QED
          BY <2>4, <4>1
    <3> QED
        BY <1>2, <2>4, <3>1
  <2> QED
      BY <1>1, <1>4, <2>1, <2>2, <2>3, <2>4 DEF Pursued
<1> QED
    BY <1>3, <1>4

\* What the worker believes stays true when it does not move and its job does not.
LEMMA WorkerStillHolds ==
    ASSUME TableInv, ChainInv, request' = request \/ request' = Nothing,
           \/ worker' = worker /\ \A k \in DOMAIN jobs : jobs'[k].status = jobs[k].status
           \/ worker'.phase \notin {"claiming", "claimed", "executing"}
    PROVE  WorkerHolds'
<1>1. worker.phase \in {"claiming", "claimed", "executing"} => worker.job \in DOMAIN jobs
    BY DEF TableInv, RowLinks
<1>2. WorkerHolds
    BY DEF ChainInv
<1>3. CASE worker' = worker /\ \A k \in DOMAIN jobs : jobs'[k].status = jobs[k].status
    BY <1>1, <1>2, <1>3 DEF WorkerHolds
<1>4. CASE worker'.phase \notin {"claiming", "claimed", "executing"}
    BY <1>2, <1>4 DEF WorkerHolds
<1> QED
    BY <1>3, <1>4

\* What each step shows.
LEMMA ChainKept ==
    ASSUME TableInv, ChainInv, TablesGrow, JobsProgress, ResultsProgress, WorkerHolds',
           \A a \in DOMAIN acts' : Pursued(a)'
    PROVE  ChainInv'
BY SourcesStaySucceeded, FollowUpsStayOne, ResultsStayTested, ActivationsStayOne,
   PursuingIsFollowing DEF ChainInv

\* The steps that change no job, no activation and no note.
LEMMA IdleKeepsChain ==
    ASSUME TableInv, ChainInv, UNCHANGED <<jobs, acts, siblings, notes>>, WorkerHolds'
    PROVE  ChainInv'
<1>1. TablesGrow
    BY NothingRestated, StatusesGrow DEF TableInv
<1>2. JobsProgress
  <2>1. \A k \in DOMAIN jobs : Live(jobs[k]) => jobs[k].status # "succeeded"
      BY DEF Live
  <2> QED
      BY <2>1 DEF JobsProgress, ChainInv, FailuresHaveCauses
<1>3. ResultsProgress
    BY DEF ResultsProgress
<1>4. \A a \in DOMAIN acts' : Pursued(a)'
    BY <1>1, <1>2, StaysPursued
<1> QED
    BY <1>1, <1>2, <1>3, <1>4, ChainKept

\* No user patches the status of a job.
NoPatches == MaxPatches = 0

\* The steps between the stages that touch nothing a pipeline consists of.
LEMMA RestingStepsKeepChain ==
    ASSUME TableInv, ChainInv,
           \/ UNCHANGED vars \/ ReadQueue \/ LoadJob \/ WorkerDies \/ Restart
           \/ \E d \in DraftIds : CreateDraft(d) \/ PatchDraft(d)
    PROVE  ChainInv'
<1>1. WorkerHolds /\ RowLinks
    BY DEF ChainInv, TableInv
<1>2. CASE ReadQueue
  <2>1. PICK j \in DOMAIN jobs : /\ jobs[j].status = "queued"
                                 /\ worker' = [worker EXCEPT !.phase = "claiming", !.job = j]
      BY <1>2 DEF ReadQueue, Candidates
  <2>2. UNCHANGED <<jobs, acts, siblings, notes, request>>
      BY <1>2 DEF ReadQueue, tables
  <2>3. worker'.phase = "claiming" /\ worker'.job = j
      BY <2>1 DEF TableInv, TypeOK, Worker
  <2>4. WorkerHolds'
      BY <1>1, <2>1, <2>2, <2>3 DEF WorkerHolds
  <2> QED
      BY <2>2, <2>4, IdleKeepsChain
<1>3. CASE LoadJob
  <2>1. /\ worker.phase = "claimed"
        /\ worker' = [worker EXCEPT !.phase = "executing", !.loaded = jobs[worker.job].status]
        /\ UNCHANGED <<jobs, acts, siblings, notes, request>>
      BY <1>3 DEF LoadJob, tables
  <2>2. /\ worker'.phase = "executing" /\ worker'.job = worker.job
        /\ worker'.loaded = jobs[worker.job].status
      BY <2>1 DEF TableInv, TypeOK, Worker
  <2>3. WorkerHolds'
      BY <1>1, <2>1, <2>2 DEF WorkerHolds
  <2> QED
      BY <2>1, <2>3, IdleKeepsChain
<1>4. CASE WorkerDies \/ Restart
  <2>1. /\ worker'.phase \notin {"claiming", "claimed", "executing"}
        /\ request' = request \/ request' = Nothing
        /\ UNCHANGED <<jobs, acts, siblings, notes>>
      BY <1>4, RestIsAWorker DEF WorkerDies, Restart, tables
  <2> QED
      BY <2>1, WorkerStillHolds, IdleKeepsChain
<1>5. CASE \/ UNCHANGED vars
           \/ \E d \in DraftIds : CreateDraft(d) \/ PatchDraft(d)
  <2>1. UNCHANGED <<jobs, acts, siblings, notes, worker, request>>
      BY <1>5 DEF vars, tables, CreateDraft, PatchDraft
  <2> QED
      BY <2>1, WorkerStillHolds, IdleKeepsChain
<1> QED
    BY <1>2, <1>3, <1>4, <1>5

\* The claim of a job and the recovery at a start change statuses of live jobs.
LEMMA ClaimKeepsChain ==
    ASSUME TableInv, ChainInv, ClaimJob
    PROVE  ChainInv'
<1>1. /\ TypeOK /\ WorkerHolds /\ worker.job \in DOMAIN jobs /\ worker \in Worker
      /\ FailuresHaveCauses
    BY DEF ChainInv, TableInv, RowLinks, ClaimJob, TypeOK
<1>2. PICK j \in DOMAIN jobs : j = worker.job
    BY <1>1
<1>3. /\ jobs' = [jobs EXCEPT ![j].status = "running"]
      /\ worker' = [worker EXCEPT !.phase = "claimed"]
      /\ UNCHANGED <<drafts, acts, siblings, notes, request, used>>
      /\ jobs[j].status = "queued"
    BY <1>1, <1>2 DEF ClaimJob, WorkerHolds
<1>4. /\ OnlyStatuses /\ \A k \in DOMAIN jobs : k # j => jobs'[k] = jobs[k]
      /\ jobs'[j].status = "running" /\ jobs'[j].cause = "none"
  <2>1. jobs[j].cause = "none"
      BY <1>1, <1>3 DEF FailuresHaveCauses, Live
  <2> QED
      BY <1>1, <1>3, <2>1, StatusSet DEF JobStatuses
<1>5. TablesGrow /\ DOMAIN jobs' = DOMAIN jobs
    BY <1>3, <1>4, StatusesGrow
<1>6. JobsProgress
    BY <1>1, <1>3, <1>4, <1>5 DEF JobsProgress, FailuresHaveCauses, Live
<1>7. ResultsProgress
    BY <1>3 DEF ResultsProgress
<1>8. WorkerHolds'
  <2>1. worker'.phase = "claimed" /\ worker'.job = j
      BY <1>1, <1>2, <1>3 DEF Worker
  <2> QED
      BY <1>1, <1>3, <1>4, <2>1 DEF WorkerHolds
<1>9. \A a \in DOMAIN acts' : Pursued(a)'
  <2>1. \A k \in DOMAIN jobs : Live(jobs[k]) => Live(jobs'[k])
      BY <1>4 DEF Live
  <2> QED
      BY <1>3, <1>5, <1>6, <2>1, StaysPursued
<1> QED
    BY <1>5, <1>6, <1>7, <1>8, <1>9, ChainKept

LEMMA RecoverKeepsChain ==
    ASSUME TableInv, ChainInv, Recover
    PROVE  ChainInv'
<1>1. TypeOK /\ FailuresHaveCauses
    BY DEF ChainInv, TableInv
<1>2. /\ OnlyStatuses /\ worker' = Rest /\ UNCHANGED <<drafts, request, used>>
      /\ \A k \in DOMAIN jobs : jobs[k].status # "running" => jobs'[k] = jobs[k]
      /\ \A k \in DOMAIN jobs : jobs[k].status = "running" =>
             jobs'[k].status = "failed" /\ jobs'[k].cause = "interrupted"
    BY <1>1, RecoverEffect
<1>3. TablesGrow /\ DOMAIN jobs' = DOMAIN jobs /\ UNCHANGED <<acts, siblings, notes>>
  <2>1. DOMAIN jobs' = DOMAIN jobs
      BY DEF Recover
  <2> QED
      BY <1>2, <2>1, StatusesGrow DEF OnlyStatuses
<1>4. JobsProgress
    BY <1>1, <1>2, <1>3 DEF JobsProgress, FailuresHaveCauses, Live
<1>5. ResultsProgress
    BY <1>3 DEF ResultsProgress
<1>6. WorkerHolds'
    BY <1>2, RestIsAWorker, WorkerStillHolds
<1>7. \A a \in DOMAIN acts' : Pursued(a)'
  <2>1. \A k \in DOMAIN jobs : Live(jobs[k]) =>
            Live(jobs'[k]) \/ jobs'[k].cause = "interrupted"
      BY <1>2
  <2> QED
      BY <1>3, <1>4, <2>1, StaysPursued
<1> QED
    BY <1>3, <1>4, <1>5, <1>6, <1>7, ChainKept

LEMMA SubmitKeepsChain ==
    ASSUME TableInv, ChainInv, NEW d \in DraftIds, SubmitDraft(d)
    PROVE  ChainInv'
<1>1. PICK f : Submitted(d, f)
    BY SubmitEffect
<1>2. PICK n : n = Len(jobs) + 1
    OBVIOUS
<1>3. /\ TablesGrow /\ UNCHANGED <<acts, siblings, notes, worker, request>>
      /\ DOMAIN jobs' = DOMAIN jobs \cup {n} /\ n \notin DOMAIN jobs
      /\ jobs'[n] = f /\ \A k \in DOMAIN jobs : jobs'[k] = jobs[k]
      /\ f.stage = "generate_app_spec" /\ f.status = "queued" /\ f.cause = "none"
      /\ f.act = 0 /\ f.source = 0
    BY <1>1, <1>2 DEF Submitted
<1>4. JobsProgress
  <2>1. Enters(jobs'[n])
      BY <1>3 DEF Enters
  <2>2. FailuresHaveCauses
      BY DEF ChainInv
  <2> QED
      BY <1>3, <2>1, <2>2 DEF JobsProgress, FailuresHaveCauses, Live
<1>5. ResultsProgress
    BY <1>3 DEF ResultsProgress
<1>6. WorkerHolds'
    BY <1>3, WorkerStillHolds
<1>7. \A a \in DOMAIN acts' : Pursued(a)'
  <2>1. \A a \in DOMAIN acts : a # 0
      BY RowsOfTables DEF TableInv
  <2> QED
      BY <1>3, <1>4, <2>1, StaysPursued
<1> QED
    BY <1>3, <1>4, <1>5, <1>6, <1>7, ChainKept

\* The activation that a request creates has no job to follow.
LEMMA RequestActivationKeepsChain ==
    ASSUME TableInv, ChainInv, NEW app \in Apps, NEW key \in Keys \cup {NoKey},
           RequestActivation(app, key)
    PROVE  ChainInv'
<1> DEFINE new == [status |-> "pending", key |-> key, app |-> app, source |-> 0, sibling |-> 0]
<1>1. /\ acts' = Append(acts, new) /\ request'.op = "activate"
      /\ UNCHANGED <<jobs, siblings, notes, worker>>
    BY DEF RequestActivation
<1>2. new \in Activation /\ new.source = 0 /\ new.status = "pending" /\ new.sibling = 0
    BY DEF Activation
<1> HIDE DEF new
<1>3. PICK n : n = Len(acts) + 1
    OBVIOUS
<1>4. /\ acts' \in Seq(Activation) /\ Len(acts') = n /\ DOMAIN acts' = DOMAIN acts \cup {n}
      /\ \A a \in DOMAIN acts : acts'[a] = acts[a]
      /\ acts'[n] = new /\ Len(acts) <= n
  <2>1. acts \in Seq(Activation) /\ Len(acts) \in Nat /\ DOMAIN acts = 1 .. Len(acts)
      BY RowsOfTables DEF TableInv, TypeOK
  <2>2. /\ acts' \in Seq(Activation) /\ Len(acts') = Len(acts) + 1
        /\ DOMAIN acts' = 1 .. Len(acts) + 1
        /\ \A a \in DOMAIN acts : acts'[a] = acts[a] /\ acts'[Len(acts) + 1] = new
      BY <1>1, <1>2, <2>1, RowAdded
  <2>3. acts'[Len(acts) + 1] = new
      BY <1>1, <1>2, <2>1, RowAdded
  <2>4. DOMAIN acts' = DOMAIN acts \cup {n}
      BY <1>3, <2>1, <2>2
  <2> QED
      BY <1>3, <2>1, <2>2, <2>3, <2>4
<1>5. TablesGrow
  <2>1. \A a \in DOMAIN acts' : acts'[a].source <= Len(jobs) /\ acts'[a].sibling <= Len(siblings)
      BY <1>2, <1>4, RowsOfTables DEF TableInv, RowLinks
  <2> QED
      BY <1>1, <1>4, <2>1, ActivationsGrow
<1>6. JobsProgress
  <2>1. FailuresHaveCauses
      BY DEF ChainInv
  <2> QED
      BY <1>1, <2>1 DEF JobsProgress, FailuresHaveCauses, Live
<1>7. ResultsProgress
    BY <1>1, <1>2, <1>4 DEF ResultsProgress
<1>8. WorkerHolds'
    BY <1>1 DEF ChainInv, WorkerHolds
<1>9. ASSUME NEW a \in DOMAIN acts' PROVE Pursued(a)'
  <2>1. CASE a \in DOMAIN acts
      BY <1>1, <1>4, <1>5, <1>6, <2>1, StaysPursued
  <2>2. CASE a = n
      BY <1>2, <1>4, <2>2 DEF Pursued
  <2> QED
      BY <1>4, <2>1, <2>2
<1> QED
    BY <1>5, <1>6, <1>7, <1>8, <1>9, ChainKept

LEMMA RefuseActivationKeepsChain ==
    ASSUME TableInv, ChainInv, RefuseActivation
    PROVE  ChainInv'
<1>1. /\ TypeOK /\ RequestsFit /\ RowLinks
      /\ UNCHANGED <<drafts, jobs, siblings, notes, worker, used>>
      /\ Activating /\ request' = Nothing
    BY DEF RefuseActivation, TableInv, Activating
<1>2. PICK a \in DOMAIN acts : a = request.act
    BY <1>1, RestIsTyped DEF Activating, RequestTyped
<1>3. acts[a] \in Activation /\ acts \in Seq(Activation) /\ Len(acts) \in Nat
    BY <1>1, RowsOfTables DEF TypeOK
<1> DEFINE new == [acts[a] EXCEPT !.status = "failed"]
<1>4. new \in Activation /\ new.status = "failed" /\ new.source = acts[a].source
      /\ new.sibling = acts[a].sibling
    BY <1>3 DEF Activation
<1>5. acts' = [acts EXCEPT ![a] = new]
    BY <1>2 DEF RefuseActivation
<1> HIDE DEF new
<1>6. /\ acts' \in Seq(Activation) /\ Len(acts') = Len(acts) /\ DOMAIN acts' = DOMAIN acts
      /\ \A k \in DOMAIN acts : acts'[k] = IF k = a THEN new ELSE acts[k]
    BY <1>3, <1>4, <1>5, RowReplaced
<1>7. TablesGrow
  <2>1. \A k \in DOMAIN acts' : acts'[k].source <= Len(jobs) /\ acts'[k].sibling <= Len(siblings)
      BY <1>1, <1>4, <1>6 DEF RowLinks
  <2>2. Len(acts) <= Len(acts')
      BY <1>3, <1>6
  <2> QED
      BY <1>1, <1>6, <2>1, <2>2, ActivationsGrow
<1>8. JobsProgress
  <2>1. FailuresHaveCauses
      BY DEF ChainInv
  <2> QED
      BY <1>1, <2>1 DEF JobsProgress, FailuresHaveCauses, Live
<1>9. ResultsProgress
    BY <1>1, <1>4, <1>6 DEF ResultsProgress
<1>10. WorkerHolds'
    BY <1>1, WorkerStillHolds
<1>11. ASSUME NEW k \in DOMAIN acts' PROVE Pursued(k)'
  <2>1. CASE k # a
      BY <1>1, <1>6, <1>7, <1>8, <2>1, StaysPursued
  <2>2. CASE k = a
    <3>1. \A j \in DOMAIN jobs' : jobs'[j].act # a
        BY <1>1, <1>2 DEF RequestsFit, Activating
    <3> QED
        BY <1>4, <1>6, <2>2, <3>1 DEF Pursued
  <2> QED
      BY <2>1, <2>2
<1> QED
    BY <1>7, <1>8, <1>9, <1>10, <1>11, ChainKept

LEMMA QueueActivationKeepsChain ==
    ASSUME TableInv, ChainInv, QueueActivation
    PROVE  ChainInv'
<1>1. PICK f, a, g : Queued(f, a, g)
    BY QueueActivationEffect
<1>2. PICK n : n = Len(jobs) + 1
    OBVIOUS
<1>3. /\ a \in DOMAIN acts /\ g \in DOMAIN jobs /\ a # 0 /\ acts[a].status = "pending"
      /\ \A k \in DOMAIN jobs : jobs[k].act # a
      /\ f.stage = "deploy_app_local" /\ f.status = "queued" /\ f.cause = "none"
      /\ f.source = g /\ f.act = a
      /\ jobs[g].stage = "generate_app_spec" /\ jobs[g].status = "succeeded"
      /\ TablesGrow /\ UNCHANGED <<siblings, notes, worker>> /\ request' = Nothing
      /\ DOMAIN jobs' = DOMAIN jobs \cup {n} /\ n \notin DOMAIN jobs /\ jobs'[n] = f
      /\ \A k \in DOMAIN jobs : jobs'[k] = jobs[k]
      /\ DOMAIN acts' = DOMAIN acts
      /\ \A k \in DOMAIN acts : (k # a => acts'[k] = acts[k]) /\ acts'[k].status = acts[k].status
    BY <1>1, <1>2 DEF Queued
<1>4. JobsProgress
  <2>1. Activates(jobs'[n], g)
      BY <1>3 DEF Activates
  <2>2. FailuresHaveCauses
      BY DEF ChainInv
  <2> QED
      BY <1>3, <2>1, <2>2 DEF JobsProgress, FailuresHaveCauses, Live
<1>5. ResultsProgress
    BY <1>3 DEF ResultsProgress
<1>6. WorkerHolds'
    BY <1>3, WorkerStillHolds
<1>7. ASSUME NEW k \in DOMAIN acts' PROVE Pursued(k)'
  <2>1. CASE k # a
      BY <1>3, <1>4, <2>1, StaysPursued
  <2>2. CASE k = a
    <3>1. n \in DOMAIN jobs' /\ jobs'[n].act = a /\ Live(jobs'[n])
        BY <1>3 DEF Live
    <3>2. acts'[a].status \notin {"smoke_passed", "failed"}
        BY <1>3
    <3> QED
        BY <2>2, <3>1, <3>2 DEF Pursued, Live
  <2> QED
      BY <2>1, <2>2
<1> QED
    BY <1>3, <1>4, <1>5, <1>6, <1>7, ChainKept

\* The ends of a stage, of the job j that the worker has: it is running, and is
\* the only live job of its activation.
StageOf(j) ==
    /\ j \in DOMAIN jobs /\ worker.job = j /\ worker.phase = "executing"
    /\ TablesGrow /\ OnlyOf(j) /\ Frees

LEMMA StageFrame ==
    ASSUME TableInv, ChainInv, NEW j, StageOf(j)
    PROVE  /\ jobs[j].status = "running" /\ jobs[j].cause = "none" /\ Live(jobs[j])
           /\ \A status \in {"succeeded", "failed"} : Written(status) = status
           /\ \A k \in DOMAIN jobs : jobs[k].act = jobs[j].act /\ jobs[j].act # 0 /\ k # j
                  => ~Live(jobs[k])
           /\ jobs[j].act # 0 => /\ jobs[j].act \in DOMAIN acts
                                 /\ acts[jobs[j].act].status \notin {"smoke_passed", "failed"}
           /\ \A k \in DOMAIN jobs : jobs[k].act \in Nat /\ jobs[k].act <= Len(acts)
           /\ jobs'[j].act = jobs[j].act /\ jobs'[j].stage = jobs[j].stage
           /\ jobs[j].stage \in Stages
           /\ WorkerHolds'
<1>1. TypeOK /\ JobLinks /\ WorkerHolds /\ ActivationsHaveOne /\ FailuresHaveCauses
    BY DEF ChainInv, TableInv
<1>2. jobs[j].status = "running" /\ worker.loaded = "running" /\ j \in DOMAIN jobs
    BY <1>1 DEF StageOf, WorkerHolds
<1>3. Live(jobs[j]) /\ jobs[j].cause = "none"
    BY <1>1, <1>2 DEF FailuresHaveCauses, Live
<1>4. \A status \in {"succeeded", "failed"} : Written(status) = status
    BY <1>2 DEF Written
<1>5. \A k \in DOMAIN jobs : jobs[k].act = jobs[j].act /\ jobs[j].act # 0 /\ k # j
                  => ~Live(jobs[k])
    BY <1>1, <1>2, <1>3 DEF ActivationsHaveOne
<1>6. \A k \in DOMAIN jobs : jobs[k].act \in Nat /\ jobs[k].act <= Len(acts)
    BY <1>1, RowsOfTables DEF JobLinks, JobFits, Job
<1>7. jobs[j].act # 0 => /\ jobs[j].act \in DOMAIN acts
                         /\ acts[jobs[j].act].status \notin {"smoke_passed", "failed"}
  <2> SUFFICES ASSUME jobs[j].act # 0
               PROVE  /\ jobs[j].act \in DOMAIN acts
                      /\ acts[jobs[j].act].status \notin {"smoke_passed", "failed"}
      OBVIOUS
  <2>1. jobs[j].act \in DOMAIN acts
      BY <1>1, <1>2, <1>6, RowsOfTables
  <2>2. Pursued(jobs[j].act)
      BY <2>1, FollowingIsPursuing DEF ChainInv
  <2> QED
      BY <1>2, <1>3, <2>1, <2>2 DEF Pursued
<1>8. /\ jobs'[j].act = jobs[j].act /\ jobs'[j].stage = jobs[j].stage /\ jobs[j].stage \in Stages
    BY <1>2, StagesAreKept DEF StageOf
<1>9. WorkerHolds'
    BY RestIsAWorker, WorkerStillHolds DEF StageOf, Frees
<1> QED
    BY <1>2, <1>3, <1>4, <1>5, <1>6, <1>7, <1>8, <1>9

\* What the end of a stage shows of the activations that are not its own.
LEMMA OthersStayPursued ==
    ASSUME TableInv, ChainInv, JobsProgress, NEW j, StageOf(j),
           NEW a \in DOMAIN acts, a # jobs[j].act,
           \A n \in DOMAIN jobs' : n \in DOMAIN jobs \/ jobs'[n].act # a
    PROVE  Pursued(a)'
<1>1. /\ TablesGrow /\ acts'[a] = acts[a] /\ j \in DOMAIN jobs
      /\ \A k \in DOMAIN jobs : k # j => jobs'[k] = jobs[k]
    BY DEF StageOf, OnlyOf
<1> QED
    BY <1>1, StaysPursued

\* An activation that a stage creates is that of a provisioning without one.
LEMMA AddedActivation ==
    ASSUME TypeOK, TablesGrow, NEW j, OnlyOf(j), NEW a \in DOMAIN acts', a \notin DOMAIN acts
    PROVE  /\ jobs[j].act = 0 /\ acts'[a].source = j /\ a # 0
           /\ acts'[a].status \in {"provisioning", "runtime_registered"}
           /\ a = Len(acts) + 1 /\ jobs[j].stage = "provision_sibling_xyn"
<1>1. PICK n, m : n = Len(acts) /\ m = Len(acts')
    OBVIOUS
<1>2. n \in Nat /\ m \in Nat /\ a \in 1 .. m /\ a \notin 1 .. n
    BY <1>1, GrownDomains
<1>3. m = n \/ m = n + 1
    BY <1>1 DEF OnlyOf
<1>4. a = n + 1 /\ m = n + 1
    BY <1>2, <1>3, LastOfMore
<1>5. Len(acts') # Len(acts)
    BY <1>1, <1>2, <1>4
<1>6. /\ jobs[j].act = 0 /\ jobs[j].stage = "provision_sibling_xyn"
      /\ acts'[Len(acts) + 1].source = j
      /\ acts'[Len(acts) + 1].status \in {"provisioning", "runtime_registered"}
    BY <1>5 DEF OnlyOf
<1> QED
    BY <1>1, <1>2, <1>4, <1>6

LEMMA StageFailsKeepsChain ==
    ASSUME TableInv, ChainInv, NEW j, StageOf(j), StageFails(j)
    PROVE  ChainInv'
<1>1. /\ TablesGrow /\ OnlyOf(j) /\ Frees /\ j \in DOMAIN jobs
      /\ jobs'[j].status = "failed" /\ jobs'[j].cause # "none"
    BY StageFrame DEF StageOf, StageFails
<1>2. DOMAIN jobs' = DOMAIN jobs /\ DOMAIN acts = 1 .. Len(acts) /\ DOMAIN acts' = 1 .. Len(acts')
      /\ Len(acts) \in Nat /\ Len(acts') \in Nat
    BY <1>1, GrownDomains DEF StageFails, TableInv
<1>3. JobsProgress
  <2>1. FailuresHaveCauses /\ Live(jobs[j])
      BY StageFrame DEF ChainInv
  <2> QED
      BY <1>1, <1>2, <2>1 DEF JobsProgress, FailuresHaveCauses, Live, OnlyOf
<1>4. ASSUME NEW a \in DOMAIN acts', a \notin DOMAIN acts
      PROVE  /\ jobs[j].act = 0 /\ acts'[a].source = j /\ a # 0
             /\ acts'[a].status \in {"provisioning", "runtime_registered"}
             /\ a = Len(acts) + 1 /\ jobs[j].stage = "provision_sibling_xyn"
    BY <1>1, <1>4, AddedActivation DEF TableInv
<1>5. jobs[j].act # 0 => acts'[jobs[j].act].status = "failed"
    BY DEF StageFails
<1>6. ResultsProgress
  <2>1. \A n \in DOMAIN notes' : notes'[n] = "completed" =>
           n \in DOMAIN notes /\ notes[n] = "completed"
      BY DEF StageFails
  <2>2. \A a \in DOMAIN acts : a = jobs[j].act \/ acts'[a] = acts[a]
      BY <1>1 DEF OnlyOf
  <2>3. \A a \in DOMAIN acts : a # 0
      BY <1>2
  <2> QED
      BY <1>4, <1>5, <2>1, <2>2, <2>3 DEF ResultsProgress
<1>7. ASSUME NEW a \in DOMAIN acts' PROVE Pursued(a)'
  <2>1. CASE a \in DOMAIN acts /\ a # jobs[j].act
      BY <1>2, <1>3, <2>1, OthersStayPursued
  <2>2. CASE a \in DOMAIN acts /\ a = jobs[j].act
    <3>1. acts'[a].status = "failed"
        BY <1>2, <1>5, <2>2
    <3>2. \A k \in DOMAIN jobs : jobs[k].act = a /\ k # j => ~Live(jobs[k])
        BY <1>2, <2>2, StageFrame
    <3>3. \A k \in DOMAIN jobs : jobs'[k].act = a => ~Live(jobs'[k])
        BY <1>1, <3>2 DEF OnlyOf, Live
    <3> QED
        BY <1>2, <3>1, <3>3 DEF Pursued, Live
  <2>3. CASE a \notin DOMAIN acts
    <3>1. /\ acts'[a].source = j /\ acts'[a].status \notin {"smoke_passed", "failed"}
          /\ jobs'[j].act # a /\ jobs'[j].cause # "none"
        BY <1>1, <1>4, <2>3, StageFrame
    <3> QED
        BY <3>1 DEF Pursued
  <2> QED
      BY <2>1, <2>2, <2>3
<1>8. WorkerHolds'
    BY StageFrame
<1> QED
    BY <1>1, <1>3, <1>6, <1>7, <1>8, ChainKept

LEMMA TestPassesKeepsChain ==
    ASSUME TableInv, ChainInv, NEW j, StageOf(j), TestPasses(j)
    PROVE  ChainInv'
<1>1. /\ TablesGrow /\ OnlyOf(j) /\ Frees /\ j \in DOMAIN jobs
      /\ jobs'[j].status = "succeeded" /\ jobs'[j].cause = "none"
      /\ jobs[j].stage = "smoke_test" /\ jobs'[j].note = jobs[j].note
      /\ acts'[jobs[j].act].status = "smoke_passed" /\ acts'[jobs[j].act].source = j
    BY StageFrame DEF StageOf, TestPasses
<1>2. /\ DOMAIN jobs' = DOMAIN jobs /\ DOMAIN acts' = DOMAIN acts
  <2>1. Len(acts') = Len(acts)
      BY <1>1 DEF OnlyOf
  <2> QED
      BY <1>1, <2>1, GrownDomains DEF TestPasses, TableInv
<1>3. JobsProgress
  <2>1. FailuresHaveCauses /\ Live(jobs[j])
      BY StageFrame DEF ChainInv
  <2> QED
      BY <1>1, <1>2, <2>1 DEF JobsProgress, FailuresHaveCauses, Live, OnlyOf
<1>4. \A a \in DOMAIN acts : a = jobs[j].act \/ acts'[a] = acts[a]
    BY <1>1 DEF OnlyOf
<1>5. ResultsProgress
  <2>1. \A n \in DOMAIN notes' : notes'[n] = "completed" =>
           n = jobs[j].note \/ (n \in DOMAIN notes /\ notes[n] = "completed")
      BY DEF TestPasses
  <2> QED
      BY <1>1, <1>2, <1>4, <2>1 DEF ResultsProgress
<1>6. ASSUME NEW a \in DOMAIN acts' PROVE Pursued(a)'
  <2>1. CASE a # jobs[j].act
      BY <1>2, <1>3, <2>1, OthersStayPursued
  <2>2. CASE a = jobs[j].act
    <3>1. acts'[a].status = "smoke_passed"
        BY <1>1, <2>2
    <3>2. \A k \in DOMAIN jobs : jobs[k].act = a /\ k # j => ~Live(jobs[k])
      <4>1. a # 0
          BY <1>2, RowsOfTables DEF TableInv
      <4> QED
          BY <2>2, <4>1, StageFrame
    <3>3. \A k \in DOMAIN jobs : jobs'[k].act = a => ~Live(jobs'[k])
        BY <1>1, <3>2 DEF OnlyOf, Live
    <3> QED
        BY <1>2, <3>1, <3>3 DEF Pursued, Live
  <2> QED
      BY <2>1, <2>2
<1>7. WorkerHolds'
    BY StageFrame
<1> QED
    BY <1>1, <1>3, <1>5, <1>6, <1>7, ChainKept

\* The job that a stage which advances queues behind itself.
LEMMA FollowUpAdvances ==
    ASSUME TableInv, ChainInv, NEW j, StageOf(j), StageAdvances(j),
           NEW n, n = Len(jobs) + 1
    PROVE  /\ DOMAIN jobs' = DOMAIN jobs \cup {n} /\ n \notin DOMAIN jobs
           /\ jobs'[n].status = "queued" /\ jobs'[n].cause = "none"
           /\ Advances(jobs'[n], j)
           /\ jobs'[n].act = IF jobs[j].stage = "generate_app_spec" THEN 0
                             ELSE IF jobs[j].act # 0 THEN jobs[j].act
                             ELSE IF jobs[j].stage = "deploy_app_local" THEN 0
                             ELSE Len(acts) + 1
<1>1. /\ TablesGrow /\ j \in DOMAIN jobs /\ jobs[j].stage # "smoke_test"
      /\ jobs'[j].status = "succeeded" /\ Live(jobs[j]) /\ jobs[j].stage \in Stages
      /\ Len(jobs') = Len(jobs) + 1 /\ Follows(jobs'[n], j)
    BY StageFrame DEF StageOf, StageAdvances
<1>2. /\ DOMAIN jobs' = DOMAIN jobs \cup {n} /\ n \notin DOMAIN jobs
  <2>1. /\ DOMAIN jobs = 1 .. Len(jobs) /\ DOMAIN jobs' = 1 .. Len(jobs')
        /\ Len(jobs) \in Nat
      BY <1>1, GrownDomains DEF TableInv
  <2>2. DOMAIN jobs' = 1 .. n
      BY <1>1, <2>1
  <2> QED
      BY <2>1, <2>2
<1>3. /\ jobs'[n].stage \in After(jobs[j].stage) /\ jobs'[n].source = j
      /\ jobs'[n].status = "queued" /\ jobs'[n].cause = "none"
    BY <1>1 DEF Follows
<1>4. jobs'[n].act = IF jobs[j].stage = "generate_app_spec" THEN 0
                     ELSE IF jobs[j].act # 0 THEN jobs[j].act
                     ELSE IF jobs[j].stage = "deploy_app_local" THEN 0
                     ELSE Len(acts) + 1
    BY <1>1 DEF Follows, ActivationOf, Stages
<1>5. jobs'[n].act # 0 => \A k \in DOMAIN jobs :
           k # j /\ jobs[k].act = jobs'[n].act => ~Live(jobs[k])
  <2>1. \A k \in DOMAIN jobs : jobs[k].act # Len(acts) + 1
    <3>1. Len(acts) \in Nat /\ \A k \in DOMAIN jobs : jobs[k].act \in Nat /\ jobs[k].act <= Len(acts)
        BY StageFrame, RowsOfTables DEF TableInv
    <3> QED
        BY <3>1
  <2> QED
      BY <1>4, <2>1, StageFrame
<1>6. Advances(jobs'[n], j)
    BY <1>1, <1>3, <1>4, <1>5 DEF Advances, Continues
<1> QED
    BY <1>2, <1>3, <1>4, <1>6

LEMMA StageAdvancesKeepsChain ==
    ASSUME TableInv, ChainInv, NEW j, StageOf(j), StageAdvances(j)
    PROVE  ChainInv'
<1>1. /\ TablesGrow /\ OnlyOf(j) /\ Frees /\ j \in DOMAIN jobs
      /\ jobs'[j].status = "succeeded" /\ jobs'[j].cause = "none"
      /\ jobs[j].act # 0 =>
           acts'[jobs[j].act].status \in {acts[jobs[j].act].status, "runtime_registered"}
    BY StageFrame DEF StageOf, StageAdvances
<1>2. PICK n : n = Len(jobs) + 1
    OBVIOUS
<1>3. /\ DOMAIN jobs' = DOMAIN jobs \cup {n} /\ n \notin DOMAIN jobs
      /\ jobs'[n].status = "queued" /\ jobs'[n].cause = "none"
      /\ Advances(jobs'[n], j)
      /\ jobs'[n].act = IF jobs[j].stage = "generate_app_spec" THEN 0
                        ELSE IF jobs[j].act # 0 THEN jobs[j].act
                        ELSE IF jobs[j].stage = "deploy_app_local" THEN 0
                        ELSE Len(acts) + 1
    BY <1>2, FollowUpAdvances
<1>4. \A k \in DOMAIN jobs : k # j => jobs'[k] = jobs[k]
    BY <1>1 DEF OnlyOf
<1>5. JobsProgress
  <2>1. FailuresHaveCauses /\ Live(jobs[j])
      BY StageFrame DEF ChainInv
  <2>2. \A k \in DOMAIN jobs :
          /\ ~Live(jobs[k]) => jobs'[k] = jobs[k]
          /\ Live(jobs'[k]) => jobs'[k].cause = "none"
      BY <1>1, <1>4, <2>1 DEF FailuresHaveCauses
  <2>3. \A k \in DOMAIN jobs : Live(jobs[k]) /\ jobs'[k].status = "succeeded" => k = j
      BY <1>4 DEF Live
  <2>4. Continues(jobs'[n], j, jobs[j].stage) /\ n \in DOMAIN jobs'
      BY <1>3 DEF Advances
  <2> QED
      BY <1>1, <1>3, <2>2, <2>3, <2>4 DEF JobsProgress
<1>6. \A a \in DOMAIN acts : a = jobs[j].act \/ acts'[a] = acts[a]
    BY <1>1 DEF OnlyOf
<1>7. /\ DOMAIN acts = 1 .. Len(acts) /\ Len(acts) \in Nat /\ DOMAIN acts \subseteq DOMAIN acts'
    BY <1>1, GrownDomains DEF TableInv
<1>8. ASSUME NEW a \in DOMAIN acts', a \notin DOMAIN acts
      PROVE  /\ jobs[j].act = 0 /\ a = Len(acts) + 1
             /\ acts'[a].status \in {"provisioning", "runtime_registered"}
             /\ jobs[j].stage = "provision_sibling_xyn"
    BY <1>1, <1>8, AddedActivation DEF TableInv
<1>9. ASSUME NEW a \in DOMAIN acts, a = jobs[j].act
      PROVE  acts'[a].status \notin {"smoke_passed", "failed"} /\ a # 0
    BY <1>1, <1>7, <1>9, StageFrame
<1>10. ResultsProgress
  <2>1. \A n1 \in DOMAIN notes' : notes'[n1] = "completed" =>
           n1 \in DOMAIN notes /\ notes[n1] = "completed"
      BY DEF StageAdvances
  <2>2. ASSUME NEW a \in DOMAIN acts', acts'[a].status = "smoke_passed"
        PROVE  a \in DOMAIN acts /\ acts[a] = acts'[a]
      BY <1>6, <1>8, <1>9, <2>2
  <2> QED
      BY <2>1, <2>2 DEF ResultsProgress
<1>11. ASSUME NEW a \in DOMAIN acts' PROVE Pursued(a)'
  <2>1. CASE a \in DOMAIN acts /\ a # jobs[j].act
    <3>1. jobs'[n].act # a
        BY <1>3, <1>7, <2>1
    <3> QED
        BY <1>3, <1>5, <2>1, <3>1, OthersStayPursued
  <2>2. CASE a \in DOMAIN acts /\ a = jobs[j].act
    <3>1. jobs[j].stage # "generate_app_spec"
        BY <1>1, <1>9, <2>2 DEF TableInv, JobLinks, JobFits
    <3>2. n \in DOMAIN jobs' /\ jobs'[n].act = a /\ Live(jobs'[n])
        BY <1>3, <1>9, <2>2, <3>1 DEF Live
    <3> QED
        BY <1>9, <2>2, <3>2 DEF Pursued, Live
  <2>3. CASE a \notin DOMAIN acts
    <3>1. n \in DOMAIN jobs' /\ jobs'[n].act = a /\ Live(jobs'[n])
        BY <1>3, <1>8, <2>3 DEF Live
    <3>2. acts'[a].status \notin {"smoke_passed", "failed"}
        BY <1>8, <2>3
    <3> QED
        BY <3>1, <3>2 DEF Pursued, Live
  <2> QED
      BY <2>1, <2>2, <2>3
<1>12. WorkerHolds'
    BY StageFrame
<1> QED
    BY <1>1, <1>5, <1>10, <1>11, <1>12, ChainKept

LEMMA StageEndsKeepsChain ==
    ASSUME TableInv, ChainInv, StageEnds
    PROVE  ChainInv'
<1> PICK j : j = worker.job
    OBVIOUS
<1>1. /\ worker.phase = "executing" /\ j \in DOMAIN jobs
      /\ StageFails(j) \/ StageAdvances(j) \/ TestPasses(j)
    BY StageEndsEffect
<1>2. StageOf(j)
    BY <1>1 DEF StageOf, StageFails, StageAdvances, TestPasses
<1> QED
    BY <1>1, <1>2, StageFailsKeepsChain, StageAdvancesKeepsChain, TestPassesKeepsChain

LEMMA StepsKeepChain ==
    ASSUME TableInv, ChainInv, NoPatches, [Next]_vars
    PROVE  ChainInv'
<1>1. \A j \in DOMAIN jobs : ~ReadPatch(j)
  <2>1. used.patches \in 0 .. MaxPatches /\ MaxPatches = 0
      BY DEF TableInv, TypeOK, NoPatches
  <2> QED
      BY <2>1 DEF ReadPatch
<1>2. ~CommitPatch
    BY DEF CommitPatch, ChainInv, WorkerHolds
<1> QED
    BY <1>1, <1>2, RestingStepsKeepChain, SubmitKeepsChain, RequestActivationKeepsChain,
       RefuseActivationKeepsChain, QueueActivationKeepsChain, ClaimKeepsChain,
       RecoverKeepsChain, StageEndsKeepsChain
       DEF Next, Requests, Replies, Work

LEMMA ChainStarts ==
    ASSUME Init
    PROVE  ChainInv
<1>1. DOMAIN jobs = {} /\ DOMAIN acts = {} /\ DOMAIN notes = {} /\ request = Nothing
    BY DEF Init
<1>2. WorkerHolds
    BY <1>1, RestIsAWorker DEF Init, WorkerHolds
<1>3. SourcesSucceeded /\ FollowUps /\ ResultsHaveTests
    BY <1>1 DEF SourcesSucceeded, FollowUps, ResultsHaveTests
<1>4. ActivationsHaveOne /\ FailuresHaveCauses /\ ActivationFollowsItsChain
    BY <1>1 DEF ActivationsHaveOne, FailuresHaveCauses, ActivationFollowsItsChain
<1> QED
    BY <1>2, <1>3, <1>4 DEF ChainInv

LEMMA ChainsStand ==
    ASSUME NoPatches
    PROVE  Spec => [](TableInv /\ ChainInv)
<1>1. Init => TableInv /\ ChainInv
    BY TablesStart, ChainStarts
<1>2. TableInv /\ ChainInv /\ [Next]_vars => (TableInv /\ ChainInv)'
    BY StepsKeepTables, StepsKeepChain
<1> QED
    BY <1>1, <1>2, PTL DEF Spec

LEMMA FollowUpsAreCounted ==
    ASSUME TableInv, ChainInv
    PROVE  ChainAdvancesOnce
<1>1. FollowUps /\ TypeOK
    BY DEF ChainInv, TableInv
<1> SUFFICES ASSUME NEW j \in DOMAIN jobs
             PROVE  Cardinality(FollowUpsOf(j)) =
                        IF jobs[j].status = "succeeded"
                        THEN Cardinality(After(jobs[j].stage)) ELSE 0
    BY DEF ChainAdvancesOnce
<1>2. FollowUpsOf(j) = {i \in DOMAIN jobs : Continues(jobs[i], j, jobs[j].stage)}
    BY DEF FollowUpsOf, Continues
<1>3. Cardinality({}) = 0 /\ \A e : Cardinality({e}) = 1
    BY FS_EmptySet, FS_Singleton
<1>4. jobs[j].stage \in Stages
    BY <1>1, RowsOfTables DEF Job
<1>5. Cardinality(After(jobs[j].stage)) = IF jobs[j].stage = "smoke_test" THEN 0 ELSE 1
    BY <1>3, <1>4 DEF After, Stages
<1>6. CASE jobs[j].status = "succeeded" /\ jobs[j].stage # "smoke_test"
  <2>1. PICK i \in DOMAIN jobs : Continues(jobs[i], j, jobs[j].stage)
      BY <1>1, <1>6 DEF FollowUps
  <2>2. FollowUpsOf(j) = {i}
      BY <1>1, <1>2, <2>1 DEF FollowUps
  <2> QED
      BY <1>3, <1>5, <1>6, <2>2
<1>7. CASE ~(jobs[j].status = "succeeded" /\ jobs[j].stage # "smoke_test")
  <2>1. FollowUpsOf(j) = {}
      BY <1>1, <1>2, <1>7 DEF FollowUps
  <2> QED
      BY <1>3, <1>5, <1>7, <2>1
<1> QED
    BY <1>6, <1>7

\* Behind a smoke test that succeeded is a whole chain that did.
LEMMA TestsHaveChains ==
    ASSUME TableInv, ChainInv, NEW j \in DOMAIN jobs,
           jobs[j].stage = "smoke_test", jobs[j].status = "succeeded"
    PROVE  /\ jobs[jobs[j].source].status = "succeeded"
           /\ jobs[jobs[jobs[j].source].source].status = "succeeded"
           /\ jobs[jobs[jobs[jobs[j].source].source].source].status = "succeeded"
<1>1. ASSUME NEW k \in DOMAIN jobs, jobs[k].stage # "generate_app_spec"
      PROVE  /\ jobs[k].source \in DOMAIN jobs
             /\ jobs[jobs[k].source].status = "succeeded"
             /\ jobs[jobs[k].source].stage = Before(jobs[k].stage)
  <2>1. /\ jobs[k].source # 0 /\ jobs[jobs[k].source].status = "succeeded"
        /\ jobs[jobs[k].source].stage = Before(jobs[k].stage)
      BY <1>1 DEF ChainInv, SourcesSucceeded
  <2>2. jobs[k].source < k
      BY DEF TableInv, JobLinks, JobFits
  <2>3. /\ jobs[k].source \in Nat /\ k \in 1 .. Len(jobs) /\ Len(jobs) \in Nat
        /\ DOMAIN jobs = 1 .. Len(jobs)
      BY RowsOfTables DEF TableInv, Job
  <2>4. jobs[k].source \in DOMAIN jobs
      BY <2>1, <2>2, <2>3
  <2> QED
      BY <2>1, <2>4
<1>2. PICK p \in DOMAIN jobs : p = jobs[j].source
    BY <1>1
<1>3. jobs[p].status = "succeeded" /\ jobs[p].stage = "provision_sibling_xyn"
    BY <1>1, <1>2 DEF Before
<1>4. PICK q \in DOMAIN jobs : q = jobs[p].source
    BY <1>1, <1>3
<1>5. jobs[q].status = "succeeded" /\ jobs[q].stage = "deploy_app_local"
    BY <1>1, <1>3, <1>4 DEF Before
<1>6. jobs[jobs[q].source].status = "succeeded"
    BY <1>1, <1>5
<1> QED
    BY <1>2, <1>3, <1>4, <1>5, <1>6

LEMMA TestedResultsAreEarned ==
    ASSUME TableInv, ChainInv
    PROVE  ResultsAreEarned
<1>1. ResultsHaveTests
    BY DEF ChainInv
<1> DEFINE Earned(j) ==
            LET provision == jobs[j].source
                deploy == jobs[provision].source
                generate == jobs[deploy].source
            IN  /\ jobs[j].stage = "smoke_test"
                /\ \A i \in {j, provision, deploy, generate} : jobs[i].status = "succeeded"
<1>2. ASSUME NEW j \in DOMAIN jobs, jobs[j].stage = "smoke_test", jobs[j].status = "succeeded"
      PROVE  Earned(j)
    BY <1>2, TestsHaveChains
<1>3. ASSUME NEW a \in DOMAIN acts, acts[a].status = "smoke_passed"
      PROVE  Earned(acts[a].source) /\ jobs[acts[a].source].act = a
  <2>1. /\ acts[a].source # 0 /\ jobs[acts[a].source].stage = "smoke_test"
        /\ jobs[acts[a].source].status = "succeeded" /\ jobs[acts[a].source].act = a
      BY <1>1, <1>3 DEF ResultsHaveTests
  <2>2. acts[a].source \in DOMAIN jobs
    <3>1. /\ acts[a].source \in Nat /\ acts[a].source <= Len(jobs)
          /\ DOMAIN jobs = 1 .. Len(jobs) /\ Len(jobs) \in Nat
        BY RowsOfTables DEF TableInv, RowLinks, Activation
    <3> QED
        BY <2>1, <3>1
  <2> QED
      BY <1>2, <2>1, <2>2
<1>4. ASSUME NEW n \in DOMAIN notes, notes[n] = "completed"
      PROVE  \E j \in DOMAIN jobs : jobs[j].note = n /\ Earned(j)
  <2>1. PICK j \in DOMAIN jobs : /\ jobs[j].note = n /\ jobs[j].stage = "smoke_test"
                                 /\ jobs[j].status = "succeeded"
      BY <1>1, <1>4 DEF ResultsHaveTests
  <2>2. Earned(j)
      BY <1>2, <2>1
  <2> QED
      BY <2>1, <2>2
<1> QED
    BY <1>3, <1>4 DEF ResultsAreEarned

\* Without patches a stage is followed by the next one exactly when it has succeeded,
\* and once, wherever the worker or the process stops (_execute_job).
THEOREM StagesAdvanceOnce ==
    ASSUME NoPatches
    PROVE  Spec => []ChainAdvancesOnce
BY ChainsStand, FollowUpsAreCounted, PTL

\* Without patches an activation that smoke_passed and a completed note have behind
\* them a smoke test that succeeded, and a chain of stages that all did.
THEOREM ResultsWereEarned ==
    ASSUME NoPatches
    PROVE  Spec => []ResultsAreEarned
BY ChainsStand, TestedResultsAreEarned, PTL

\* Without patches an activation that is neither passed nor failed is still worked
\* on, but for the exceptions that the property names, and one that is has no job left.
THEOREM ActivationsFollowTheirChains ==
    ASSUME NoPatches
    PROVE  Spec => []ActivationFollowsItsChain
<1>1. ChainInv => ActivationFollowsItsChain
    BY DEF ChainInv
<1> QED
    BY <1>1, ChainsStand, PTL

\* The tables, the worker thread and the pending request keep their types in every
\* behaviour, patches, crashes and schema upgrades included.
THEOREM PipelineTypesAreKept == Spec => []TypeOK
<1>1. TableInv => TypeOK
    BY DEF TableInv
<1> QED
    BY <1>1, TablesAreSound, PTL

\* No two siblings ever have the same installed artifact or the same instance,
\* so that the first row upsert_sibling_from_provision_output finds is the only one.
THEOREM SiblingsStayUnique == Spec => []InstalledSiblingIsUnique
<1>1. TableInv => InstalledSiblingIsUnique
    BY DEF TableInv
<1> QED
    BY <1>1, TablesAreSound, PTL

-----------------------------------------------------------------------------
(* A request starts one chain when no start upgrades the schema.           *)

\* XYN_AUTO_CREATE_SCHEMA is not set.
NoUpgrades == AutoCreate = FALSE

Open == {"absent", "draft", "ready"}

\* A step that queues no build and opens no draft again.
LEMMA BuildsKept ==
    ASSUME DraftsBuildOnce,
           \A k \in DOMAIN jobs' : \/ k \in DOMAIN jobs /\ jobs'[k].draft = jobs[k].draft
                                   \/ jobs'[k].draft = NoDraft,
           \A d \in DraftIds : drafts'[d].status \in Open => drafts[d].status \in Open
    PROVE  DraftsBuildOnce'
BY NullsAreOutside DEF DraftsBuildOnce, Open

\* Drafts are closed for good.
LEMMA DraftStepsClose ==
    ASSUME TableInv, NEW d \in DraftIds, CreateDraft(d) \/ PatchDraft(d)
    PROVE  /\ UNCHANGED jobs
           /\ \A e \in DraftIds : drafts'[e].status \in Open => drafts[e].status \in Open
           /\ \A e \in DraftIds : drafts[e].status \notin {"absent", drafts'[e].status} =>
                  Allows(DraftTransitions, drafts[e].status, drafts'[e].status)
<1>1. drafts \in [DraftIds -> Draft]
    BY DEF TableInv, TypeOK
<1>2. CASE CreateDraft(d)
  <2>1. UNCHANGED jobs /\ drafts[d].status = "absent"
        /\ \A e \in DraftIds : e # d => drafts'[e] = drafts[e]
      BY <1>1, <1>2 DEF CreateDraft
  <2> QED
      BY <2>1 DEF Open
<1>3. CASE PatchDraft(d)
  <2>1. PICK status \in DraftStatuses : Transition(d, status)
      BY <1>3 DEF PatchDraft
  <2>2. /\ UNCHANGED jobs /\ Allows(DraftTransitions, drafts[d].status, status)
        /\ drafts'[d].status = status
        /\ \A e \in DraftIds : e # d => drafts'[e] = drafts[e]
        /\ drafts[d].status \in DraftStatuses
      BY <1>1, <1>3, <2>1 DEF PatchDraft, Transition, Draft
  <2>3. status \in Open => drafts[d].status \in Open
      BY <2>2 DEF Allows, DraftTransitions, Open, DraftStatuses
  <2> QED
      BY <2>2, <2>3
<1> QED
    BY <1>2, <1>3

\* Only the submission of a draft queues a job for it.
LEMMA OthersBuildNothing ==
    ASSUME TableInv, NoUpgrades, Replies \/ Work \/ WorkerDies \/ Restart \/ UNCHANGED vars
           \/ (\E app \in Apps, key \in Keys \cup {NoKey} : RequestActivation(app, key))
           \/ (\E j \in DOMAIN jobs : ReadPatch(j))
    PROVE  /\ UNCHANGED drafts
           /\ \A k \in DOMAIN jobs' : \/ k \in DOMAIN jobs /\ jobs'[k].draft = jobs[k].draft
                                      \/ jobs'[k].draft = NoDraft
<1>1. TypeOK
    BY DEF TableInv
<1>2. CASE QueueActivation
  <2>1. PICK f, a, g : Queued(f, a, g)
      BY <1>2, QueueActivationEffect
  <2> QED
      BY <2>1 DEF Queued
<1>3. CASE CommitPatch \/ ClaimJob
  <2>1. CASE CommitPatch
    <3>1. /\ request.job \in DOMAIN jobs /\ request.to \in JobStatuses
          /\ jobs' = [jobs EXCEPT ![request.job].status = request.to]
          /\ UNCHANGED <<drafts, acts, siblings, notes>>
        BY <2>1, RestIsTyped DEF CommitPatch, RequestTyped
    <3> QED
        BY <1>1, <3>1, StatusSet DEF OnlyStatuses, Identity
  <2>2. CASE ClaimJob
    <3>1. /\ worker.job \in DOMAIN jobs
          /\ jobs' = [jobs EXCEPT ![worker.job].status = "running"]
          /\ UNCHANGED <<drafts, acts, siblings, notes>>
        BY <2>2, RestIsTyped DEF ClaimJob, RestTyped
    <3> QED
        BY <1>1, <3>1, StatusSet DEF OnlyStatuses, Identity, JobStatuses
  <2> QED
      BY <1>3, <2>1, <2>2
<1>4. CASE Recover
  <2>1. DOMAIN jobs' = DOMAIN jobs
      BY <1>4 DEF Recover
  <2> QED
      BY <1>1, <1>4, <2>1, RecoverEffect DEF OnlyStatuses, Identity
<1>5. CASE StageEnds
  <2>1. PICK j : j = worker.job
      OBVIOUS
  <2>2. /\ j \in DOMAIN jobs
        /\ StageFails(j) \/ StageAdvances(j) \/ TestPasses(j)
      BY <1>5, <2>1, StageEndsEffect
  <2>3. TablesGrow /\ UNCHANGED drafts
      BY <2>2 DEF StageFails, StageAdvances, TestPasses, Frees
  <2>4. \A k \in DOMAIN jobs : jobs'[k].draft = jobs[k].draft
      BY <2>3 DEF TablesGrow, Identity
  <2>5. PICK n, m : n = Len(jobs) /\ m = Len(jobs')
      OBVIOUS
  <2>6. n \in Nat /\ m \in Nat /\ DOMAIN jobs = 1 .. n /\ DOMAIN jobs' = 1 .. m
      BY <1>1, <2>3, <2>5, GrownDomains
  <2>7. m = n \/ m = n + 1
      BY <2>2, <2>5 DEF StageFails, StageAdvances, TestPasses
  <2>8. m # n => jobs'[n + 1].draft = NoDraft
      BY <2>2, <2>5 DEF StageFails, StageAdvances, TestPasses, Follows
  <2>9. ASSUME NEW k \in DOMAIN jobs', k \notin DOMAIN jobs
        PROVE  jobs'[k].draft = NoDraft
    <3>1. k = n + 1 /\ m = n + 1
        BY <2>6, <2>7, <2>9, LastOfMore
    <3> QED
        BY <2>6, <2>8, <3>1
  <2> QED
      BY <2>3, <2>4, <2>9
<1>6. CASE \/ RefuseActivation \/ ReadQueue \/ LoadJob \/ WorkerDies \/ Restart \/ UNCHANGED vars
           \/ (\E app \in Apps, key \in Keys \cup {NoKey} : RequestActivation(app, key))
           \/ (\E j \in DOMAIN jobs : ReadPatch(j))
    BY <1>6 DEF RefuseActivation, ReadQueue, LoadJob, WorkerDies, Restart, vars, tables,
       RequestActivation, ReadPatch, NoUpgrades
<1> QED
    BY <1>2, <1>3, <1>4, <1>5, <1>6 DEF Replies, Work

LEMMA StepsKeepBuilds ==
    ASSUME TableInv, DraftsBuildOnce, NoUpgrades, [Next]_vars
    PROVE  DraftsBuildOnce'
<1>1. CASE \E d \in DraftIds : CreateDraft(d) \/ PatchDraft(d)
    BY <1>1, DraftStepsClose, BuildsKept
<1>2. CASE \E d \in DraftIds : SubmitDraft(d)
  <2>1. PICK d \in DraftIds : SubmitDraft(d)
      BY <1>2
  <2>2. PICK f : Submitted(d, f)
      BY <2>1, SubmitEffect
  <2>3. PICK n : n = Len(jobs) + 1
      OBVIOUS
  <2>4. /\ DOMAIN jobs' = DOMAIN jobs \cup {n} /\ n \notin DOMAIN jobs
        /\ jobs'[n].draft = d /\ \A k \in DOMAIN jobs : jobs'[k] = jobs[k]
        /\ drafts[d].status \in Open
        /\ \A e \in DraftIds : drafts'[e].status =
               IF e = d THEN "submitted" ELSE drafts[e].status
      BY <2>2, <2>3 DEF Submitted, Open
  <2>5. \A k \in DOMAIN jobs : jobs[k].draft # d
      BY <2>4 DEF DraftsBuildOnce, Open
  <2>6. \A e \in DraftIds : drafts'[e].status \in Open =>
            \A k \in DOMAIN jobs' : jobs'[k].draft # e
    <3>1. \A e \in DraftIds : drafts'[e].status \in Open =>
              e # d /\ drafts[e].status \in Open
        BY <2>4 DEF Open
    <3>2. \A e \in DraftIds : drafts[e].status \in Open =>
              \A k \in DOMAIN jobs : jobs[k].draft # e
        BY DEF DraftsBuildOnce, Open
    <3> QED
        BY <2>4, <3>1, <3>2
  <2>7. \A e \in DraftIds : \A i, k \in DOMAIN jobs' :
            jobs'[i].draft = e /\ jobs'[k].draft = e => i = k
    <3>1. \A e \in DraftIds : \A i, k \in DOMAIN jobs :
              jobs[i].draft = e /\ jobs[k].draft = e => i = k
        BY DEF DraftsBuildOnce
    <3> QED
        BY <2>4, <2>5, <3>1
  <2> QED
      BY <2>6, <2>7 DEF DraftsBuildOnce, Open
<1>3. CASE \/ Replies \/ Work \/ WorkerDies \/ Restart \/ UNCHANGED vars
           \/ (\E app \in Apps, key \in Keys \cup {NoKey} : RequestActivation(app, key))
           \/ (\E j \in DOMAIN jobs : ReadPatch(j))
    BY <1>3, OthersBuildNothing, BuildsKept
<1> QED
    BY <1>1, <1>2, <1>3 DEF Next, Requests

LEMMA AtMostOne ==
    ASSUME NEW S, \A x, y \in S : x = y
    PROVE  Cardinality(S) <= 1
<1>1. CASE S = {}
    BY <1>1, FS_EmptySet
<1>2. CASE S # {}
  <2>1. PICK x \in S : TRUE
      BY <1>2
  <2>2. S = {x}
      BY <2>1
  <2> QED
      BY <2>2, FS_Singleton
<1> QED
    BY <1>1, <1>2

LEMMA BuildsAreCounted ==
    ASSUME TableInv, DraftsBuildOnce
    PROVE  OneChainPerRequest
<1>1. RequestsFit /\ TypeOK
    BY DEF TableInv
<1>2. ASSUME NEW d \in DraftIds
      PROVE  Cardinality({j \in DOMAIN jobs : jobs[j].draft = d}) <= 1
    BY AtMostOne DEF DraftsBuildOnce
<1>3. \A a, b \in DOMAIN acts : acts[a].key = acts[b].key => a = b \/ acts[a].key = NoKey
    BY <1>1 DEF RequestsFit
<1>4. ASSUME NEW a \in DOMAIN acts
      PROVE  Cardinality({j \in DOMAIN jobs :
                 jobs[j].act = a /\ jobs[j].stage = "deploy_app_local"}) <= 1
  <2>1. a # 0
      BY <1>1, RowsOfTables
  <2> DEFINE S == {j \in DOMAIN jobs : jobs[j].act = a /\ jobs[j].stage = "deploy_app_local"}
  <2>2. \A x, y \in S : x = y
      BY <1>1, <2>1 DEF RequestsFit
  <2> HIDE DEF S
  <2>3. Cardinality(S) <= 1
      BY <2>2, AtMostOne
  <2> QED
      BY <2>3 DEF S
<1> QED
    BY <1>2, <1>3, <1>4 DEF OneChainPerRequest

\* Where no start upgrades the schema a draft is built once, a key is activated once
\* and an activation deploys once (submit_draft, activate_environment_artifact).
THEOREM RequestsStartOneChain ==
    ASSUME NoUpgrades
    PROVE  Spec => []OneChainPerRequest
<1>1. Init => TableInv /\ DraftsBuildOnce
  <2>1. Init => DraftsBuildOnce
      BY DEF Init, DraftsBuildOnce
  <2> QED
      BY <2>1, TablesStart
<1>2. TableInv /\ DraftsBuildOnce /\ [Next]_vars => (TableInv /\ DraftsBuildOnce)'
    BY StepsKeepTables, StepsKeepBuilds
<1>3. TableInv /\ DraftsBuildOnce => OneChainPerRequest
    BY BuildsAreCounted
<1> QED
    BY <1>1, <1>2, <1>3, PTL DEF Spec

-----------------------------------------------------------------------------
(* The lifecycles, where nothing goes around them.                         *)

LEMMA StepsFollowJobs ==
    ASSUME TableInv, ChainInv, NoPatches, [Next]_vars, NEW k \in DOMAIN jobs,
           jobs'[k].status # jobs[k].status
    PROVE  jobs'[k].status \in JobTransitions[jobs[k].status]
<1>1. TypeOK /\ WorkerHolds
    BY DEF TableInv, ChainInv
<1>2. /\ JobTransitions["queued"] = {"running", "failed"}
      /\ JobTransitions["running"] = {"succeeded", "failed"}
    BY DEF JobTransitions
<1>3. CASE Recover
    BY <1>1, <1>2, <1>3, RecoverEffect
<1>4. CASE ClaimJob
  <2>1. /\ worker.job \in DOMAIN jobs
        /\ jobs' = [jobs EXCEPT ![worker.job].status = "running"]
        /\ UNCHANGED <<acts, siblings, notes>> /\ jobs[worker.job].status = "queued"
      BY <1>1, <1>4, RestIsTyped DEF ClaimJob, RestTyped, WorkerHolds
  <2>2. /\ \A i \in DOMAIN jobs : i # worker.job => jobs'[i] = jobs[i]
        /\ jobs'[worker.job].status = "running"
      BY <1>1, <2>1, StatusSet DEF JobStatuses
  <2> QED
      BY <1>2, <2>1, <2>2
<1>5. CASE StageEnds
  <2>1. PICK j : j = worker.job
      OBVIOUS
  <2>2. /\ worker.phase = "executing" /\ j \in DOMAIN jobs
        /\ StageFails(j) \/ StageAdvances(j) \/ TestPasses(j)
      BY <1>5, <2>1, StageEndsEffect
  <2>3. StageOf(j)
      BY <2>1, <2>2 DEF StageOf, StageFails, StageAdvances, TestPasses
  <2>4. jobs[j].status = "running" /\ jobs'[j].status \in {"succeeded", "failed"}
      BY <2>2, <2>3, StageFrame DEF StageFails, StageAdvances, TestPasses
  <2>5. k = j
      BY <2>3 DEF StageOf, OnlyOf
  <2> QED
      BY <1>2, <2>4, <2>5
<1>6. CASE QueueActivation
  <2>1. PICK f, a, g : Queued(f, a, g)
      BY <1>6, QueueActivationEffect
  <2> QED
      BY <2>1 DEF Queued
<1>7. CASE \E d \in DraftIds : SubmitDraft(d)
  <2>1. PICK d \in DraftIds : SubmitDraft(d)
      BY <1>7
  <2>2. PICK f : Submitted(d, f)
      BY <2>1, SubmitEffect
  <2> QED
      BY <2>2 DEF Submitted
<1>8. ~CommitPatch
    BY <1>1 DEF CommitPatch, WorkerHolds
<1>9. CASE \/ \E d \in DraftIds : CreateDraft(d) \/ PatchDraft(d)
           \/ \E app \in Apps, key \in Keys \cup {NoKey} : RequestActivation(app, key)
           \/ \E j \in DOMAIN jobs : ReadPatch(j)
           \/ RefuseActivation \/ ReadQueue \/ LoadJob \/ WorkerDies \/ Restart
           \/ UNCHANGED vars
    BY <1>9 DEF CreateDraft, PatchDraft, RequestActivation, ReadPatch, RefuseActivation,
       ReadQueue, LoadJob, WorkerDies, Restart, vars, tables
<1> QED
    BY <1>3, <1>4, <1>5, <1>6, <1>7, <1>8, <1>9 DEF Next, Requests, Replies, Work

\* The writes of the worker thread follow the lifecycle "job": what breaks it in the
\* run PipelineLifecycle is the patch, and nothing else does.
THEOREM JobsMoveAlongTheirLifecycle ==
    ASSUME NoPatches
    PROVE  Spec => JobsFollowLifecycle
<1>1. TableInv /\ ChainInv /\ [Next]_vars =>
          [\A j \in DOMAIN jobs : jobs'[j].status # jobs[j].status =>
               jobs'[j].status \in JobTransitions[jobs[j].status]]_jobs
    BY StepsFollowJobs
<1> QED
    BY <1>1, ChainsStand, PTL DEF Spec, JobsFollowLifecycle

LEMMA StepsFollowDrafts ==
    ASSUME TableInv, NoUpgrades, [Next]_vars, NEW d \in DraftIds,
           drafts[d].status \notin {"absent", drafts'[d].status}
    PROVE  Allows(DraftTransitions, drafts[d].status, drafts'[d].status)
<1>1. CASE \E e \in DraftIds : CreateDraft(e) \/ PatchDraft(e)
    BY <1>1, DraftStepsClose
<1>2. CASE \E e \in DraftIds : SubmitDraft(e)
  <2>1. PICK e \in DraftIds : SubmitDraft(e)
      BY <1>2
  <2>2. PICK f : Submitted(e, f)
      BY <2>1, SubmitEffect
  <2>3. /\ drafts[e].status \in {"draft", "ready"}
        /\ drafts'[d].status = IF d = e THEN "submitted" ELSE drafts[d].status
      BY <2>2 DEF Submitted
  <2> QED
      BY <2>3 DEF Allows, DraftTransitions
<1>3. CASE \/ Replies \/ Work \/ WorkerDies \/ Restart \/ UNCHANGED vars
           \/ (\E app \in Apps, key \in Keys \cup {NoKey} : RequestActivation(app, key))
           \/ (\E j \in DOMAIN jobs : ReadPatch(j))
    BY <1>3, OthersBuildNothing
<1> QED
    BY <1>1, <1>2, <1>3 DEF Next, Requests

\* The writes of the requests follow the lifecycle "draft": what breaks it in the run
\* PipelineSchema is the upgrade at a start, and nothing else does.
THEOREM DraftsMoveAlongTheirLifecycle ==
    ASSUME NoUpgrades
    PROVE  Spec => DraftsFollowLifecycle
<1>1. TableInv /\ [Next]_vars =>
          [\A d \in DraftIds : drafts[d].status \notin {"absent", drafts'[d].status} =>
               Allows(DraftTransitions, drafts[d].status, drafts'[d].status)]_drafts
    BY StepsFollowDrafts
<1> QED
    BY <1>1, TablesAreSound, PTL DEF Spec, DraftsFollowLifecycle

-----------------------------------------------------------------------------
(* The pipelines of AppPipelines that the jobs amount to.                  *)

\* A pipeline begins with a generation, or with a deployment for an activation.
Heads(job) == \/ job.stage = "generate_app_spec"
              \/ job.stage = "deploy_app_local" /\ job.act # 0

\* Only generations have a draft, and what a job passes on of its activation is
\* what its follow-up has.
DraftsHead ==
    \A j \in DOMAIN jobs : IF jobs[j].stage = "generate_app_spec"
                           THEN jobs[j].draft \in DraftIds /\ jobs[j].act = 0
                           ELSE jobs[j].draft = NoDraft

ActsPassedOn ==
    \A j \in DOMAIN jobs : jobs[j].stage = "provision_sibling_xyn" =>
        jobs[jobs[j].source].act = jobs[j].act

\* One job runs at a time, and none while the worker thread looks for one.
OneRuns ==
    /\ \A i, j \in DOMAIN jobs :
           jobs[i].status = "running" /\ jobs[j].status = "running" => i = j
    /\ worker.phase \in {"polling", "claiming"} =>
           \A j \in DOMAIN jobs : jobs[j].status # "running"

LineInv == DraftsHead /\ ActsPassedOn /\ OneRuns

\* What the tables must be for the mapping to be one.
MapInv == TableInv /\ ChainInv /\ DraftsBuildOnce /\ LineInv

\* The queue of jobs as far as the mapping looks at it: the source of a job that
\* heads no pipeline is of the stage before ...
Linked(rows) ==
    \A j \in DOMAIN rows :
        /\ rows[j].stage \in Stages
        /\ ~Heads(rows[j]) =>
              /\ rows[j].source \in DOMAIN rows
              /\ rows[rows[j].source].stage = Before(rows[j].stage)
              /\ rows[j].stage = "provision_sibling_xyn" =>
                    rows[rows[j].source].act = rows[j].act

\* ... and no two follow one job, or head the pipeline of one draft or activation.
Single(rows) ==
    \A i, j \in DOMAIN rows : i # j =>
        /\ Heads(rows[i]) /\ Heads(rows[j]) =>
              /\ rows[i].draft # rows[j].draft \/ rows[i].draft = NoDraft
              /\ rows[i].act # rows[j].act \/ rows[i].act = 0
        /\ ~Heads(rows[i]) /\ ~Heads(rows[j]) => rows[i].source # rows[j].source

LEMMA TablesAreLinked ==
    ASSUME MapInv
    PROVE  Linked(jobs) /\ Single(jobs)
<1>1. TypeOK /\ JobLinks /\ SourcesSucceeded /\ FollowUps /\ RequestsFit /\ DraftsBuildOnce
      /\ DraftsHead /\ ActsPassedOn
    BY DEF MapInv, TableInv, ChainInv, LineInv
<1>2. /\ \A j \in DOMAIN jobs : jobs[j].stage \in Stages
      /\ Len(jobs) \in Nat /\ DOMAIN jobs = 1 .. Len(jobs)
      /\ \A j \in DOMAIN jobs : jobs[j].source \in Nat
    BY <1>1, RowsOfTables DEF Job
<1>3. ASSUME NEW j \in DOMAIN jobs, ~Heads(jobs[j])
      PROVE  /\ jobs[j].source \in DOMAIN jobs
             /\ jobs[jobs[j].source].stage = Before(jobs[j].stage)
  <2>1. /\ jobs[j].source # 0 /\ jobs[jobs[j].source].stage = Before(jobs[j].stage)
      BY <1>1, <1>3 DEF Heads, SourcesSucceeded
  <2>2. jobs[j].source < j
      BY <1>1 DEF JobLinks, JobFits
  <2> QED
      BY <1>2, <2>1, <2>2
<1>4. Linked(jobs)
    BY <1>1, <1>2, <1>3 DEF Linked, ActsPassedOn
<1>5. ASSUME NEW j \in DOMAIN jobs, ~Heads(jobs[j])
      PROVE  Continues(jobs[j], jobs[j].source, jobs[jobs[j].source].stage)
    BY <1>2, <1>3, <1>5 DEF Continues, Heads, Before, After, Stages
<1>6. ASSUME NEW i \in DOMAIN jobs, NEW j \in DOMAIN jobs, i # j,
             ~Heads(jobs[i]), ~Heads(jobs[j])
      PROVE  jobs[i].source # jobs[j].source
    BY <1>1, <1>3, <1>5, <1>6 DEF FollowUps
<1>7. ASSUME NEW i \in DOMAIN jobs, NEW j \in DOMAIN jobs, i # j,
             Heads(jobs[i]), Heads(jobs[j])
      PROVE  /\ jobs[i].draft # jobs[j].draft \/ jobs[i].draft = NoDraft
             /\ jobs[i].act # jobs[j].act \/ jobs[i].act = 0
  <2>1. jobs[i].draft = NoDraft \/ jobs[i].draft \in DraftIds
      BY <1>1 DEF DraftsHead
  <2>2. jobs[i].draft # jobs[j].draft \/ jobs[i].draft = NoDraft
      BY <1>1, <1>7, <2>1 DEF DraftsBuildOnce
  <2>3. jobs[i].act # jobs[j].act \/ jobs[i].act = 0
      BY <1>1, <1>7 DEF RequestsFit, Heads, DraftsHead
  <2> QED
      BY <2>2, <2>3
<1> QED
    BY <1>4, <1>6, <1>7 DEF Single

\* The pipeline of a job begins where that of its source does.
LEMMA RootsAre ==
    ASSUME NEW rows, Linked(rows), NEW j \in DOMAIN rows
    PROVE  /\ Root(rows, j) \in DOMAIN rows /\ Heads(rows[Root(rows, j)])
           /\ Root(rows, j) = IF Heads(rows[j]) THEN j ELSE Root(rows, rows[j].source)
<1>1. ASSUME NEW i \in DOMAIN rows, Heads(rows[i])
      PROVE  Root(rows, i) = i
    BY <1>1 DEF Root, Heads
<1>2. ASSUME NEW i \in DOMAIN rows, rows[i].stage = "deploy_app_local"
      PROVE  /\ Root(rows, i) \in DOMAIN rows /\ Heads(rows[Root(rows, i)])
             /\ Root(rows, i) = IF rows[i].act # 0 THEN i ELSE rows[i].source
             /\ rows[i].act = 0 => /\ rows[i].source \in DOMAIN rows
                                   /\ Heads(rows[rows[i].source])
    BY <1>2 DEF Root, Heads, Linked, Before
<1>3. ASSUME NEW i \in DOMAIN rows, rows[i].stage = "provision_sibling_xyn"
      PROVE  /\ Root(rows, i) = Root(rows, rows[i].source)
             /\ rows[i].source \in DOMAIN rows
             /\ rows[rows[i].source].stage = "deploy_app_local"
             /\ Root(rows, i) = IF rows[i].act # 0 THEN rows[i].source
                                ELSE rows[rows[i].source].source
  <2>1. /\ rows[i].source \in DOMAIN rows
        /\ rows[rows[i].source].stage = "deploy_app_local"
        /\ rows[rows[i].source].act = rows[i].act
      BY <1>3 DEF Linked, Heads, Before
  <2>2. Root(rows, i) = IF rows[i].act # 0 THEN rows[i].source
                        ELSE rows[rows[i].source].source
      BY <1>3 DEF Root
  <2> QED
      BY <1>2, <2>1, <2>2
<1>4. ASSUME NEW i \in DOMAIN rows, rows[i].stage = "smoke_test"
      PROVE  /\ Root(rows, i) = Root(rows, rows[i].source)
             /\ rows[i].source \in DOMAIN rows
             /\ rows[rows[i].source].stage = "provision_sibling_xyn"
  <2>1. /\ rows[i].source \in DOMAIN rows
        /\ rows[rows[i].source].stage = "provision_sibling_xyn"
      BY <1>4 DEF Linked, Heads, Before
  <2>2. Root(rows, i) = IF rows[rows[i].source].act # 0 THEN rows[rows[i].source].source
                        ELSE rows[rows[rows[i].source].source].source
      BY <1>4 DEF Root
  <2> QED
      BY <1>3, <2>1, <2>2
<1>5. rows[j].stage \in Stages
    BY DEF Linked
<1>6. CASE Heads(rows[j])
    BY <1>1, <1>6
<1>7. CASE ~Heads(rows[j]) /\ rows[j].stage = "deploy_app_local"
    BY <1>1, <1>2, <1>7 DEF Heads
<1>8. CASE rows[j].stage = "provision_sibling_xyn"
    BY <1>2, <1>3, <1>8 DEF Heads
<1>9. CASE rows[j].stage = "smoke_test"
    BY <1>2, <1>3, <1>4, <1>9 DEF Heads
<1> QED
    BY <1>5, <1>6, <1>7, <1>8, <1>9 DEF Stages, Heads

\* A pipeline has one job for each stage.
LEMMA StagesAreSingle ==
    ASSUME NEW rows, Linked(rows), Single(rows),
           NEW i \in DOMAIN rows, NEW j \in DOMAIN rows,
           Root(rows, i) = Root(rows, j), rows[i].stage = rows[j].stage
    PROVE  i = j
<1>1. ASSUME NEW k \in DOMAIN rows, NEW l \in DOMAIN rows,
             Root(rows, k) = Root(rows, l), rows[k].stage = rows[l].stage, Heads(rows[k])
      PROVE  k = l
  <2>1. CASE Heads(rows[l])
      BY <1>1, <2>1, RootsAre
  <2>2. CASE ~Heads(rows[l])
    <3>1. /\ rows[l].stage = "deploy_app_local" /\ rows[l].act = 0
          /\ rows[l].source \in DOMAIN rows
          /\ rows[rows[l].source].stage = "generate_app_spec"
        BY <1>1, <2>2 DEF Heads, Linked, Before
    <3>2. Root(rows, k) = k /\ Root(rows, l) = rows[l].source
        BY <1>1, <2>2, <3>1, RootsAre DEF Heads
    <3> QED
        BY <1>1, <3>1, <3>2
  <2> QED
      BY <2>1, <2>2
<1>2. ASSUME NEW k \in DOMAIN rows, NEW l \in DOMAIN rows,
             Root(rows, k) = Root(rows, l), rows[k].stage = rows[l].stage,
             ~Heads(rows[k]), ~Heads(rows[l]),
             rows[k].source = rows[l].source
      PROVE  k = l
    BY <1>2 DEF Single
<1>3. ASSUME NEW k \in DOMAIN rows, ~Heads(rows[k])
      PROVE  /\ rows[k].source \in DOMAIN rows /\ Root(rows, k) = Root(rows, rows[k].source)
             /\ rows[rows[k].source].stage = Before(rows[k].stage)
    BY <1>3, RootsAre DEF Linked
<1>4. ASSUME NEW k \in DOMAIN rows, NEW l \in DOMAIN rows,
             Root(rows, k) = Root(rows, l), rows[k].stage = rows[l].stage,
             rows[k].stage = "deploy_app_local"
      PROVE  k = l
  <2>1. CASE Heads(rows[k]) \/ Heads(rows[l])
      BY <1>1, <1>4, <2>1
  <2>2. CASE ~Heads(rows[k]) /\ ~Heads(rows[l])
    <3>1. /\ rows[rows[k].source].stage = "generate_app_spec"
          /\ rows[rows[l].source].stage = "generate_app_spec"
        BY <1>3, <1>4, <2>2 DEF Before
    <3>2. rows[k].source = rows[l].source
        BY <1>1, <1>3, <1>4, <2>2, <3>1 DEF Heads
    <3> QED
        BY <1>2, <1>4, <2>2, <3>2
  <2> QED
      BY <2>1, <2>2
<1>5. ASSUME NEW k \in DOMAIN rows, NEW l \in DOMAIN rows,
             Root(rows, k) = Root(rows, l), rows[k].stage = rows[l].stage,
             rows[k].stage = "provision_sibling_xyn"
      PROVE  k = l
  <2>1. ~Heads(rows[k]) /\ ~Heads(rows[l])
      BY <1>5 DEF Heads
  <2>2. /\ rows[rows[k].source].stage = "deploy_app_local"
        /\ rows[rows[l].source].stage = "deploy_app_local"
      BY <1>3, <1>5, <2>1 DEF Before
  <2>3. rows[k].source = rows[l].source
      BY <1>3, <1>4, <1>5, <2>1, <2>2
  <2> QED
      BY <1>2, <1>5, <2>1, <2>3
<1>6. CASE rows[i].stage = "smoke_test"
  <2>1. ~Heads(rows[i]) /\ ~Heads(rows[j])
      BY <1>6 DEF Heads
  <2>2. /\ rows[rows[i].source].stage = "provision_sibling_xyn"
        /\ rows[rows[j].source].stage = "provision_sibling_xyn"
      BY <1>3, <1>6, <2>1 DEF Before
  <2>3. rows[i].source = rows[j].source
      BY <1>3, <1>5, <2>1, <2>2
  <2> QED
      BY <1>2, <2>1, <2>3
<1>7. CASE rows[i].stage = "generate_app_spec"
    BY <1>1, <1>7 DEF Heads
<1> QED
    BY <1>4, <1>5, <1>6, <1>7 DEF Linked, Stages

\* The jobs keep what they are in the table more, which has all rows of the table rows.
LEMMA RootsStay ==
    ASSUME NEW rows, Linked(rows), NEW more, DOMAIN rows \subseteq DOMAIN more,
           \A k \in DOMAIN rows : Identity(more[k]) = Identity(rows[k]),
           NEW j \in DOMAIN rows
    PROVE  Root(more, j) = Root(rows, j)
<1>1. \A k \in DOMAIN rows : /\ more[k].stage = rows[k].stage /\ more[k].act = rows[k].act
                             /\ more[k].source = rows[k].source
    BY DEF Identity
<1>2. \A k \in DOMAIN rows :
          /\ rows[k].stage \in {"provision_sibling_xyn", "smoke_test"} =>
                 rows[k].source \in DOMAIN rows
          /\ rows[k].stage = "smoke_test" =>
                 rows[rows[k].source].stage = "provision_sibling_xyn"
          /\ rows[k].stage = "provision_sibling_xyn" =>
                 rows[rows[k].source].stage = "deploy_app_local"
    BY DEF Linked, Heads, Before
<1>3. rows[j].stage \in Stages
    BY DEF Linked
<1>4. CASE rows[j].stage = "generate_app_spec"
    BY <1>1, <1>4 DEF Root
<1>5. CASE rows[j].stage = "deploy_app_local"
    BY <1>1, <1>5 DEF Root
<1>6. CASE rows[j].stage = "provision_sibling_xyn"
    BY <1>1, <1>2, <1>6 DEF Root
<1>7. CASE rows[j].stage = "smoke_test"
  <2>1. PICK k \in DOMAIN rows : k = rows[j].source
      BY <1>2, <1>7
  <2>2. PICK l \in DOMAIN rows : l = rows[k].source
      BY <1>2, <1>7, <2>1
  <2> QED
      BY <1>1, <1>7, <2>1, <2>2 DEF Root
<1> QED
    BY <1>3, <1>4, <1>5, <1>6, <1>7 DEF Stages

\* So the pipelines keep their jobs, and a job that continues one is of that one.
LEMMA MembersStay ==
    ASSUME NEW rows, Linked(rows), NEW more, DOMAIN rows \subseteq DOMAIN more,
           \A k \in DOMAIN rows : Identity(more[k]) = Identity(rows[k]),
           NEW d, NEW a
    PROVE  /\ \A j \in DOMAIN rows : /\ j \in BuildOf(more, d) <=> j \in BuildOf(rows, d)
                                     /\ j \in RolloutOf(more, a) <=> j \in RolloutOf(rows, a)
           /\ DOMAIN more = DOMAIN rows =>
                 BuildOf(more, d) = BuildOf(rows, d) /\ RolloutOf(more, a) = RolloutOf(rows, a)
<1>1. \A j \in DOMAIN rows : Root(more, j) = Root(rows, j) /\ Root(rows, j) \in DOMAIN rows
    BY RootsStay, RootsAre
<1>2. \A k \in DOMAIN rows : more[k].draft = rows[k].draft /\ more[k].act = rows[k].act
    BY DEF Identity
<1>3. \A j \in DOMAIN rows : /\ j \in BuildOf(more, d) <=> j \in BuildOf(rows, d)
                             /\ j \in RolloutOf(more, a) <=> j \in RolloutOf(rows, a)
    BY <1>1, <1>2 DEF BuildOf, RolloutOf
<1>4. /\ BuildOf(more, d) \subseteq DOMAIN more /\ BuildOf(rows, d) \subseteq DOMAIN rows
      /\ RolloutOf(more, a) \subseteq DOMAIN more /\ RolloutOf(rows, a) \subseteq DOMAIN rows
    BY DEF BuildOf, RolloutOf
<1> QED
    BY <1>3, <1>4

\* A job that is added behind another is of its pipeline, and one that heads a
\* pipeline of its own.
LEMMA MembersAdded ==
    ASSUME NEW rows, Linked(rows), NEW more, Linked(more),
           \A k \in DOMAIN rows : Identity(more[k]) = Identity(rows[k]),
           NEW n, n \notin DOMAIN rows, DOMAIN more = DOMAIN rows \cup {n},
           NEW d, NEW a
    PROVE  /\ Heads(more[n]) =>
                 /\ BuildOf(more, d) = BuildOf(rows, d) \cup (IF more[n].draft = d THEN {n} ELSE {})
                 /\ RolloutOf(more, a) = RolloutOf(rows, a) \cup (IF more[n].act = a THEN {n} ELSE {})
           /\ ~Heads(more[n]) /\ more[n].source \in DOMAIN rows =>
                 /\ BuildOf(more, d) = BuildOf(rows, d) \cup
                       (IF more[n].source \in BuildOf(rows, d) THEN {n} ELSE {})
                 /\ RolloutOf(more, a) = RolloutOf(rows, a) \cup
                       (IF more[n].source \in RolloutOf(rows, a) THEN {n} ELSE {})
<1>1. /\ BuildOf(more, d) \subseteq DOMAIN more /\ BuildOf(rows, d) \subseteq DOMAIN rows
      /\ RolloutOf(more, a) \subseteq DOMAIN more /\ RolloutOf(rows, a) \subseteq DOMAIN rows
    BY DEF BuildOf, RolloutOf
<1>2. \A j \in DOMAIN rows : /\ j \in BuildOf(more, d) <=> j \in BuildOf(rows, d)
                             /\ j \in RolloutOf(more, a) <=> j \in RolloutOf(rows, a)
    BY MembersStay
<1>3. /\ n \in BuildOf(more, d) <=> more[Root(more, n)].draft = d
      /\ n \in RolloutOf(more, a) <=> more[Root(more, n)].act = a
    BY DEF BuildOf, RolloutOf
<1>4. CASE Heads(more[n])
  <2>1. Root(more, n) = n
      BY <1>4, RootsAre
  <2> QED
      BY <1>1, <1>2, <1>3, <1>4, <2>1
<1>5. CASE ~Heads(more[n]) /\ more[n].source \in DOMAIN rows
  <2>1. Root(more, n) = Root(more, more[n].source)
      BY <1>5, RootsAre
  <2>2. /\ n \in BuildOf(more, d) <=> more[n].source \in BuildOf(more, d)
        /\ n \in RolloutOf(more, a) <=> more[n].source \in RolloutOf(more, a)
      BY <1>3, <1>5, <2>1 DEF BuildOf, RolloutOf
  <2> QED
      BY <1>1, <1>2, <1>5, <2>2
<1> QED
    BY <1>4, <1>5

-----------------------------------------------------------------------------
(* How far pipelines are.                                                  *)

Distinct(rows, S) ==
    \A i, j \in S : /\ rows[i].stage \in Stages
                    /\ rows[i].stage = rows[j].stage => i = j

\* The jobs of a draft or of an activation are of stages of their own.
LEMMA MembersAreDistinct ==
    ASSUME NEW rows, Linked(rows), Single(rows), NEW d, d # NoDraft, NEW a, a # 0
    PROVE  Distinct(rows, BuildOf(rows, d)) /\ Distinct(rows, RolloutOf(rows, a))
<1>1. \A j \in DOMAIN rows : /\ rows[j].stage \in Stages
                             /\ Root(rows, j) \in DOMAIN rows /\ Heads(rows[Root(rows, j)])
    BY RootsAre DEF Linked
<1>2. ASSUME NEW i \in BuildOf(rows, d), NEW j \in BuildOf(rows, d),
             rows[i].stage = rows[j].stage
      PROVE  i = j
  <2>1. /\ i \in DOMAIN rows /\ j \in DOMAIN rows
        /\ rows[Root(rows, i)].draft = d /\ rows[Root(rows, j)].draft = d
      BY DEF BuildOf
  <2>2. Root(rows, i) = Root(rows, j)
      BY <1>1, <2>1 DEF Single
  <2> QED
      BY <1>2, <2>1, <2>2, StagesAreSingle
<1>3. ASSUME NEW i \in RolloutOf(rows, a), NEW j \in RolloutOf(rows, a),
             rows[i].stage = rows[j].stage
      PROVE  i = j
  <2>1. /\ i \in DOMAIN rows /\ j \in DOMAIN rows
        /\ rows[Root(rows, i)].act = a /\ rows[Root(rows, j)].act = a
      BY DEF RolloutOf
  <2>2. Root(rows, i) = Root(rows, j)
      BY <1>1, <2>1 DEF Single
  <2> QED
      BY <1>3, <2>1, <2>2, StagesAreSingle
<1> QED
    BY <1>1, <1>2, <1>3 DEF Distinct, BuildOf, RolloutOf

LEMMA ProgressIs ==
    ASSUME NEW rows, NEW S, Distinct(rows, S)
    PROVE  /\ Progress(rows, S) = [s \in Stages |-> Progress(rows, S)[s]]
           /\ \A j \in S : Progress(rows, S)[rows[j].stage] = rows[j].status
           /\ \A s \in Stages : (\A j \in S : rows[j].stage # s) => Progress(rows, S)[s] = "none"
<1>1. Progress(rows, S) = [s \in Stages |-> Progress(rows, S)[s]]
    BY DEF Progress
<1>2. ASSUME NEW j \in S
      PROVE  Progress(rows, S)[rows[j].stage] = rows[j].status
  <2>1. rows[j].stage \in Stages /\ {i \in S : rows[i].stage = rows[j].stage} = {j}
      BY DEF Distinct
  <2>2. (CHOOSE i \in {j} : TRUE) = j
      OBVIOUS
  <2> QED
      BY <2>1, <2>2 DEF Progress
<1>3. ASSUME NEW s \in Stages, \A j \in S : rows[j].stage # s
      PROVE  Progress(rows, S)[s] = "none"
  <2>1. {i \in S : rows[i].stage = s} = {}
      BY <1>3
  <2> QED
      BY <2>1 DEF Progress
<1> QED
    BY <1>1, <1>2, <1>3

\* A pipeline whose jobs keep their statuses is as far as it was, and a job whose
\* status moves moves its stage.
LEMMA ProgressMoves ==
    ASSUME NEW rows, NEW S, Distinct(rows, S), NEW more, NEW j,
           \A i \in S : more[i].stage = rows[i].stage,
           \A i \in S : i # j => more[i].status = rows[i].status
    PROVE  /\ j \notin S \/ more[j].status = rows[j].status =>
                  Progress(more, S) = Progress(rows, S)
           /\ j \in S => Progress(more, S) =
                  [Progress(rows, S) EXCEPT ![rows[j].stage] = more[j].status]
<1>1. Distinct(more, S)
    BY DEF Distinct
<1>2. /\ Progress(rows, S) = [s \in Stages |-> Progress(rows, S)[s]]
      /\ Progress(more, S) = [s \in Stages |-> Progress(more, S)[s]]
      /\ \A i \in S : /\ Progress(rows, S)[rows[i].stage] = rows[i].status
                      /\ Progress(more, S)[rows[i].stage] = more[i].status
                      /\ rows[i].stage \in Stages
      /\ \A s \in Stages : (\A i \in S : rows[i].stage # s) =>
             Progress(rows, S)[s] = "none" /\ Progress(more, S)[s] = "none"
    BY <1>1, ProgressIs DEF Distinct
<1> DEFINE p == Progress(rows, S)  q == Progress(more, S)
<1>3. ASSUME j \notin S \/ more[j].status = rows[j].status
      PROVE  q = p
  <2>1. \A s \in Stages : q[s] = p[s]
      BY <1>2, <1>3
  <2> QED
      BY <1>2, <2>1
<1>4. ASSUME j \in S
      PROVE  q = [p EXCEPT ![rows[j].stage] = more[j].status]
  <2>1. \A s \in Stages : q[s] = IF s = rows[j].stage THEN more[j].status ELSE p[s]
      BY <1>2, <1>4
  <2> QED
      BY <1>2, <1>4, <2>1
<1> QED
    BY <1>3, <1>4

\* A job that is queued behind the end of its source advances the pipeline.
LEMMA ProgressGrows ==
    ASSUME NEW rows, NEW S, Distinct(rows, S), NEW more, NEW j \in S, NEW n, n \notin S,
           Distinct(more, S \cup {n}),
           \A i \in S : more[i].stage = rows[i].stage,
           \A i \in S : i # j => more[i].status = rows[i].status,
           more[j].status = "succeeded", more[n].status = "queued",
           more[n].stage \in After(rows[j].stage)
    PROVE  /\ \A t \in Pipelines!After(rows[j].stage) : Progress(rows, S)[t] = "none"
           /\ Progress(more, S \cup {n}) =
                  Pipelines!Advanced(Progress(rows, S), rows[j].stage)
<1> DEFINE p == Progress(rows, S)  q == Progress(more, S \cup {n})  m == more[n].stage
<1>1. /\ rows[j].stage \in Stages /\ m \in Stages /\ m # rows[j].stage
      /\ \A t \in Pipelines!After(rows[j].stage) : t = m
      /\ m \in Pipelines!After(rows[j].stage)
      /\ Pipelines!Stages = Stages
    BY DEF Distinct, After, Stages, Pipelines!After, Pipelines!Stages
<1>2. \A i \in S : rows[i].stage # m
    BY DEF Distinct
<1>3. /\ q = [s \in Stages |-> q[s]]
      /\ \A i \in S : /\ p[rows[i].stage] = rows[i].status
                      /\ q[rows[i].stage] = more[i].status
      /\ q[m] = "queued" /\ p[m] = "none"
      /\ \A s \in Stages : (\A i \in S : rows[i].stage # s) => p[s] = "none"
      /\ \A s \in Stages : (\A i \in S : rows[i].stage # s) /\ s # m => q[s] = "none"
  <2>1. \A i \in S \cup {n} : q[more[i].stage] = more[i].status
      BY ProgressIs
  <2>2. \A s \in Stages : (\A i \in S \cup {n} : more[i].stage # s) => q[s] = "none"
      BY ProgressIs
  <2>3. q = [s \in Stages |-> q[s]]
      BY ProgressIs
  <2>4. /\ \A i \in S : p[rows[i].stage] = rows[i].status
        /\ \A s \in Stages : (\A i \in S : rows[i].stage # s) => p[s] = "none"
      BY ProgressIs
  <2> QED
      BY <1>1, <1>2, <2>1, <2>2, <2>3, <2>4
<1>4. \A s \in Stages : q[s] = IF s = rows[j].stage THEN "succeeded"
                              ELSE IF s \in Pipelines!After(rows[j].stage) THEN "queued"
                              ELSE p[s]
    BY <1>1, <1>2, <1>3, ProgressIs
<1> HIDE DEF p, q, m
<1>5. q = Pipelines!Advanced(p, rows[j].stage)
    BY <1>1, <1>3, <1>4 DEF Pipelines!Advanced
<1> QED
    BY <1>1, <1>3, <1>5 DEF p, q

\* A pipeline without jobs is unused, and one with a job that is queued has started.
LEMMA ProgressStarts ==
    /\ \A rows : Progress(rows, {}) = Pipelines!Unused
    /\ \A rows, n : rows[n].stage \in Stages /\ rows[n].status = "queued" =>
           Progress(rows, {n}) = Pipelines!Started(rows[n].stage)
<1>1. Pipelines!Stages = Stages
    BY DEF Stages, Pipelines!Stages
<1>2. ASSUME NEW rows PROVE Progress(rows, {}) = Pipelines!Unused
    BY <1>1 DEF Progress, Pipelines!Unused
<1>3. ASSUME NEW rows, NEW n, rows[n].stage \in Stages, rows[n].status = "queued"
      PROVE  Progress(rows, {n}) = Pipelines!Started(rows[n].stage)
  <2> DEFINE p == Progress(rows, {n})
  <2>1. Distinct(rows, {n})
      BY <1>3 DEF Distinct
  <2>2. /\ p = [s \in Stages |-> p[s]]
        /\ p[rows[n].stage] = "queued"
        /\ \A s \in Stages : s # rows[n].stage => p[s] = "none"
      BY <1>3, <2>1, ProgressIs
  <2> HIDE DEF p
  <2> QED
      BY <1>1, <1>3, <2>2 DEF Pipelines!Started, Pipelines!Unused, p
<1> QED
    BY <1>2, <1>3


-----------------------------------------------------------------------------
(* The pipelines stay lines of jobs.                                       *)

\* What a job that is added must be.
JoinsLine(f) ==
    /\ IF f.stage = "generate_app_spec" THEN f.draft \in DraftIds /\ f.act = 0
       ELSE f.draft = NoDraft
    /\ f.stage = "provision_sibling_xyn" =>
          f.source \in DOMAIN jobs /\ jobs[f.source].act = f.act

LEMMA LinesStay ==
    ASSUME MapInv, TablesGrow,
           \A n \in DOMAIN jobs' : n \in DOMAIN jobs \/ JoinsLine(jobs'[n])
    PROVE  DraftsHead' /\ ActsPassedOn'
<1>1. DraftsHead /\ ActsPassedOn /\ TableInv /\ Linked(jobs)
    BY TablesAreLinked DEF MapInv, LineInv
<1>2. \A k \in DOMAIN jobs : /\ jobs'[k].stage = jobs[k].stage /\ jobs'[k].act = jobs[k].act
                             /\ jobs'[k].source = jobs[k].source
                             /\ jobs'[k].draft = jobs[k].draft
    BY <1>1, StagesAreKept
<1>3. DraftsHead'
    BY <1>1, <1>2 DEF DraftsHead, JoinsLine
<1>4. \A k \in DOMAIN jobs : jobs[k].stage = "provision_sibling_xyn" =>
          jobs[k].source \in DOMAIN jobs /\ jobs[jobs[k].source].act = jobs[k].act
    BY <1>1 DEF Linked, Heads
<1>5. ActsPassedOn'
    BY <1>2, <1>4 DEF ActsPassedOn, JoinsLine
<1> QED
    BY <1>3, <1>5

\* No job starts to run while the worker thread does not look for one.
LEMMA OneStillRuns ==
    ASSUME OneRuns, DOMAIN jobs \subseteq DOMAIN jobs',
           \A k \in DOMAIN jobs : jobs'[k].status = "running" => jobs[k].status = "running",
           \A n \in DOMAIN jobs' : n \in DOMAIN jobs \/ jobs'[n].status # "running",
           \/ worker' = worker
           \/ worker'.phase \notin {"polling", "claiming"}
           \/ worker.phase = "polling"
           \/ \A k \in DOMAIN jobs : jobs'[k].status # "running"
    PROVE  OneRuns'
<1>1. \A k \in DOMAIN jobs' : jobs'[k].status = "running" =>
          k \in DOMAIN jobs /\ jobs[k].status = "running"
    OBVIOUS
<1>2. \A i, j \in DOMAIN jobs' :
          jobs'[i].status = "running" /\ jobs'[j].status = "running" => i = j
    BY <1>1 DEF OneRuns
<1>3. worker'.phase \in {"polling", "claiming"} =>
          \A j \in DOMAIN jobs' : jobs'[j].status # "running"
    BY <1>1 DEF OneRuns
<1> QED
    BY <1>2, <1>3 DEF OneRuns

LEMMA IdleKeepsLines ==
    ASSUME MapInv, \A k \in DOMAIN jobs : jobs'[k] = jobs[k], DOMAIN jobs' = DOMAIN jobs,
           \/ worker' = worker
           \/ worker'.phase \notin {"polling", "claiming"}
           \/ worker.phase = "polling"
    PROVE  LineInv'
<1>1. DraftsHead /\ ActsPassedOn /\ OneRuns /\ Linked(jobs)
    BY TablesAreLinked DEF MapInv, LineInv
<1>2. OneRuns'
    BY <1>1, OneStillRuns
<1>3. DraftsHead'
    BY <1>1 DEF DraftsHead
<1>4. \A k \in DOMAIN jobs : jobs[k].stage = "provision_sibling_xyn" =>
          jobs[k].source \in DOMAIN jobs /\ jobs[jobs[k].source].act = jobs[k].act
    BY <1>1 DEF Linked, Heads
<1>5. ActsPassedOn'
    BY <1>4 DEF ActsPassedOn
<1> QED
    BY <1>2, <1>3, <1>5 DEF LineInv

LEMMA RequestsKeepLines ==
    ASSUME MapInv, (\E d \in DraftIds : SubmitDraft(d)) \/ QueueActivation
    PROVE  LineInv'
<1>1. TableInv /\ OneRuns
    BY DEF MapInv, LineInv
<1>2. PICK n : n = Len(jobs) + 1
    OBVIOUS
<1>3. CASE \E d \in DraftIds : SubmitDraft(d)
  <2>1. PICK d \in DraftIds : SubmitDraft(d)
      BY <1>3
  <2>2. PICK f : Submitted(d, f)
      BY <1>1, <2>1, SubmitEffect
  <2>3. /\ TablesGrow /\ worker' = worker /\ DOMAIN jobs' = DOMAIN jobs \cup {n}
        /\ n \notin DOMAIN jobs /\ \A k \in DOMAIN jobs : jobs'[k] = jobs[k]
        /\ jobs'[n].stage = "generate_app_spec" /\ jobs'[n].status = "queued"
        /\ jobs'[n].draft = d /\ jobs'[n].act = 0
      BY <1>2, <2>2 DEF Submitted
  <2>4. JoinsLine(jobs'[n])
      BY <2>3 DEF JoinsLine
  <2>5. OneRuns'
      BY <1>1, <2>3, OneStillRuns
  <2> QED
      BY <2>3, <2>4, <2>5, LinesStay DEF LineInv
<1>4. CASE QueueActivation
  <2>1. PICK f, a, g : Queued(f, a, g)
      BY <1>1, <1>4, QueueActivationEffect
  <2>2. /\ TablesGrow /\ worker' = worker /\ DOMAIN jobs' = DOMAIN jobs \cup {n}
        /\ n \notin DOMAIN jobs /\ \A k \in DOMAIN jobs : jobs'[k] = jobs[k]
        /\ jobs'[n].stage = "deploy_app_local" /\ jobs'[n].status = "queued"
        /\ jobs'[n].draft = NoDraft
      BY <1>2, <2>1 DEF Queued
  <2>3. JoinsLine(jobs'[n])
      BY <2>2 DEF JoinsLine
  <2>4. OneRuns'
      BY <1>1, <2>2, OneStillRuns
  <2> QED
      BY <2>2, <2>3, <2>4, LinesStay DEF LineInv
<1> QED
    BY <1>3, <1>4

LEMMA WorkKeepsLines ==
    ASSUME MapInv, Recover \/ ClaimJob
    PROVE  LineInv'
<1>1. TableInv /\ TypeOK /\ OneRuns /\ WorkerHolds
    BY DEF MapInv, LineInv, TableInv, ChainInv
<1>2. CASE Recover
  <2>1. /\ OnlyStatuses /\ worker' = Rest /\ DOMAIN jobs' = DOMAIN jobs
        /\ \A k \in DOMAIN jobs : jobs'[k].status # "running"
    <3>1. DOMAIN jobs' = DOMAIN jobs
        BY <1>2 DEF Recover
    <3> QED
        BY <1>1, <1>2, <3>1, RecoverEffect
  <2>2. TablesGrow
      BY <1>1, <2>1, StatusesGrow
  <2>3. OneRuns'
      BY <1>1, <2>1, OneStillRuns
  <2> QED
      BY <2>1, <2>2, <2>3, LinesStay DEF LineInv
<1>3. CASE ClaimJob
  <2>1. PICK j \in DOMAIN jobs : j = worker.job
      BY <1>1, <1>3, RestIsTyped DEF ClaimJob, RestTyped
  <2>2. /\ jobs' = [jobs EXCEPT ![j].status = "running"]
        /\ worker.phase = "claiming" /\ worker' = [worker EXCEPT !.phase = "claimed"]
        /\ UNCHANGED <<acts, siblings, notes>>
      BY <1>3, <2>1 DEF ClaimJob
  <2>3. OnlyStatuses /\ \A k \in DOMAIN jobs : k # j => jobs'[k] = jobs[k]
      BY <1>1, <2>2, StatusSet DEF JobStatuses
  <2>4. TablesGrow /\ DOMAIN jobs' = DOMAIN jobs
      BY <1>1, <2>2, <2>3, StatusesGrow
  <2>5. worker'.phase = "claimed"
      BY <1>1, <2>2 DEF TypeOK, Worker
  <2>6. OneRuns'
      BY <1>1, <2>2, <2>3, <2>4, <2>5 DEF OneRuns
  <2> QED
      BY <2>4, <2>6, LinesStay DEF LineInv
<1> QED
    BY <1>2, <1>3


\* What the end of the stage of j does to the queue: j moves, and when its stage was
\* not the last and has succeeded, one job is added behind it.
JobMoves(j) ==
    /\ j \in DOMAIN jobs /\ TablesGrow
    /\ \A k \in DOMAIN jobs : k # j => jobs'[k] = jobs[k]
    /\ DOMAIN jobs' = DOMAIN jobs

JobAdvances(j, n) ==
    /\ j \in DOMAIN jobs /\ TablesGrow
    /\ \A k \in DOMAIN jobs : k # j => jobs'[k] = jobs[k]
    /\ DOMAIN jobs' = DOMAIN jobs \cup {n} /\ n \notin DOMAIN jobs
    /\ jobs'[j].status = "succeeded" /\ jobs'[n].status = "queued"
    /\ jobs'[n].stage \in After(jobs[j].stage) /\ jobs'[n].source = j
    /\ ~Heads(jobs'[n]) /\ jobs'[n].draft = NoDraft
    /\ jobs'[n].stage = "provision_sibling_xyn" => jobs'[n].act = jobs[j].act

\* The activations keep their keys, and one that a build adds has none.
ActsKept(j) ==
    /\ \A a \in DOMAIN acts : acts'[a].key = acts[a].key
    /\ \/ DOMAIN acts' = DOMAIN acts
       \/ /\ jobs[j].act = 0 /\ jobs[j].stage = "provision_sibling_xyn"
          /\ DOMAIN acts' = DOMAIN acts \cup {Len(acts) + 1}
          /\ acts'[Len(acts) + 1].key = NoKey

LEMMA StageEndsMoves ==
    ASSUME MapInv, StageEnds
    PROVE  \E j \in DOMAIN jobs :
              /\ jobs[j].status = "running" /\ worker' = Rest /\ ActsKept(j)
              /\ \/ JobMoves(j) /\ jobs'[j].status = "failed"
                 \/ /\ JobMoves(j) /\ jobs'[j].status = "succeeded"
                    /\ jobs[j].stage = "smoke_test"
                 \/ \E n : JobAdvances(j, n)
<1>1. TableInv /\ TypeOK /\ ChainInv
    BY DEF MapInv, TableInv
<1>2. PICK j : j = worker.job
    OBVIOUS
<1>3. /\ worker.phase = "executing" /\ j \in DOMAIN jobs
      /\ StageFails(j) \/ StageAdvances(j) \/ TestPasses(j)
    BY <1>1, <1>2, StageEndsEffect
<1>4. StageOf(j)
    BY <1>2, <1>3 DEF StageOf, StageFails, StageAdvances, TestPasses
<1>5. /\ TablesGrow /\ OnlyOf(j) /\ Frees /\ jobs[j].status = "running"
      /\ jobs[j].stage \in Stages
      /\ \A status \in {"succeeded", "failed"} : Written(status) = status
    BY <1>1, <1>4, StageFrame DEF StageOf
<1>6. ActsKept(j)
  <2>1. /\ DOMAIN acts = 1 .. Len(acts) /\ DOMAIN acts' = 1 .. Len(acts')
        /\ Len(acts) \in Nat
      BY <1>1, <1>5, GrownDomains
  <2>2. Len(acts') = Len(acts) + 1 => DOMAIN acts' = DOMAIN acts \cup {Len(acts) + 1}
      BY <2>1
  <2> QED
      BY <1>5, <2>1, <2>2 DEF OnlyOf, ActsKept
<1>7. Len(jobs') = Len(jobs) => DOMAIN jobs' = DOMAIN jobs
    BY <1>1, <1>5, GrownDomains
<1>8. CASE StageFails(j)
    BY <1>3, <1>5, <1>6, <1>7, <1>8 DEF StageFails, OnlyOf, JobMoves, Frees
<1>9. CASE TestPasses(j)
    BY <1>3, <1>5, <1>6, <1>7, <1>9 DEF TestPasses, OnlyOf, JobMoves, Frees
<1>10. CASE StageAdvances(j)
  <2>1. PICK n : n = Len(jobs) + 1
      OBVIOUS
  <2>2. /\ DOMAIN jobs' = DOMAIN jobs \cup {n} /\ n \notin DOMAIN jobs
        /\ jobs'[n].act = IF jobs[j].stage = "generate_app_spec" THEN 0
                          ELSE IF jobs[j].act # 0 THEN jobs[j].act
                          ELSE IF jobs[j].stage = "deploy_app_local" THEN 0
                          ELSE Len(acts) + 1
      BY <1>1, <1>4, <1>10, <2>1, FollowUpAdvances
  <2>3. /\ jobs'[j].status = "succeeded" /\ Follows(jobs'[n], j)
        /\ \A k \in DOMAIN jobs : k # j => jobs'[k] = jobs[k]
      BY <1>5, <1>10, <2>1 DEF StageAdvances, OnlyOf
  <2>4. /\ jobs'[n].status = "queued" /\ jobs'[n].stage \in After(jobs[j].stage)
        /\ jobs'[n].source = j /\ jobs'[n].draft = NoDraft
      BY <2>3 DEF Follows
  <2>5. /\ ~Heads(jobs'[n])
        /\ jobs'[n].stage = "provision_sibling_xyn" => jobs[j].stage = "deploy_app_local"
      BY <1>5, <2>2, <2>4 DEF After, Stages, Heads
  <2>6. JobAdvances(j, n)
      BY <1>3, <1>5, <2>2, <2>3, <2>4, <2>5 DEF JobAdvances
  <2> QED
      BY <1>3, <1>5, <1>6, <2>6 DEF Frees
<1> QED
    BY <1>3, <1>8, <1>9, <1>10

LEMMA StageEndsKeepLines ==
    ASSUME MapInv, StageEnds
    PROVE  LineInv'
<1>1. OneRuns
    BY DEF MapInv, LineInv
<1>2. PICK j \in DOMAIN jobs :
          /\ jobs[j].status = "running" /\ worker' = Rest
          /\ \/ JobMoves(j) /\ jobs'[j].status # "running"
             \/ \E n : JobAdvances(j, n)
    BY StageEndsMoves
<1>3. \A k \in DOMAIN jobs : k # j => jobs[k].status # "running"
    BY <1>1, <1>2 DEF OneRuns
<1>4. CASE JobMoves(j) /\ jobs'[j].status # "running"
  <2>1. OneRuns'
      BY <1>1, <1>3, <1>4, OneStillRuns DEF JobMoves
  <2> QED
      BY <1>4, <2>1, LinesStay DEF LineInv, JobMoves
<1>5. CASE \E n : JobAdvances(j, n)
  <2>1. PICK n : JobAdvances(j, n)
      BY <1>5
  <2>2. /\ \A k \in DOMAIN jobs : jobs'[k].status # "running"
        /\ jobs'[n].status # "running" /\ DOMAIN jobs' = DOMAIN jobs \cup {n}
      BY <1>3, <2>1 DEF JobAdvances
  <2>3. OneRuns'
      BY <1>1, <2>2, OneStillRuns
  <2>4. jobs'[n].stage # "generate_app_spec"
      BY <2>1 DEF JobAdvances, Heads
  <2>5. JoinsLine(jobs'[n])
      BY <2>1, <2>4 DEF JoinsLine, JobAdvances
  <2> QED
      BY <2>1, <2>3, <2>5, LinesStay DEF LineInv, JobAdvances
<1> QED
    BY <1>2, <1>4, <1>5

LEMMA StepsKeepLines ==
    ASSUME MapInv, NoPatches, [Next]_vars
    PROVE  LineInv'
<1>1. TableInv /\ ChainInv
    BY DEF MapInv
<1>2. \A j \in DOMAIN jobs : ~ReadPatch(j)
  <2>1. used.patches \in 0 .. MaxPatches /\ MaxPatches = 0
      BY <1>1 DEF TableInv, TypeOK, NoPatches
  <2> QED
      BY <2>1 DEF ReadPatch
<1>3. ~CommitPatch
    BY <1>1 DEF CommitPatch, ChainInv, WorkerHolds
<1>4. CASE \/ RefuseActivation \/ UNCHANGED vars
           \/ \E d \in DraftIds : CreateDraft(d) \/ PatchDraft(d)
           \/ \E app \in Apps, key \in Keys \cup {NoKey} : RequestActivation(app, key)
  <2>1. UNCHANGED <<jobs, worker>>
      BY <1>4 DEF RefuseActivation, vars, tables, CreateDraft, PatchDraft, RequestActivation
  <2> QED
      BY <2>1, IdleKeepsLines
<1>5. CASE ReadQueue \/ LoadJob \/ WorkerDies \/ Restart
  <2>1. UNCHANGED jobs
      BY <1>5 DEF ReadQueue, LoadJob, WorkerDies, Restart, tables
  <2>2. CASE LoadJob
    <3>1. worker'.phase = "executing"
        BY <1>1, <2>2 DEF LoadJob, TableInv, TypeOK, Worker
    <3> QED
        BY <2>1, <3>1, IdleKeepsLines
  <2>3. CASE WorkerDies \/ Restart
    <3>1. worker'.phase \in {"dead", "starting"}
        BY <2>3, RestIsAWorker DEF WorkerDies, Restart
    <3> QED
        BY <2>1, <3>1, IdleKeepsLines
  <2>4. CASE ReadQueue
      BY <2>1, <2>4, IdleKeepsLines DEF ReadQueue
  <2> QED
      BY <1>5, <2>2, <2>3, <2>4
<1> QED
    BY <1>2, <1>3, <1>4, <1>5, RequestsKeepLines, WorkKeepsLines, StageEndsKeepLines
       DEF Next, Requests, Replies, Work

\* The tables are lines of jobs in every reachable state, as long as no user patches
\* the status of a job and no start upgrades the schema.
LEMMA LinesStand ==
    ASSUME NoPatches, NoUpgrades
    PROVE  Spec => []MapInv
<1>1. Init => MapInv
  <2>1. Init => DraftsBuildOnce
      BY DEF Init, DraftsBuildOnce
  <2>2. Init => LineInv
      BY DEF Init, LineInv, DraftsHead, ActsPassedOn, OneRuns
  <2> QED
      BY <2>1, <2>2, TablesStart, ChainStarts DEF MapInv
<1>2. MapInv /\ [Next]_vars => MapInv'
    BY StepsKeepTables, StepsKeepChain, StepsKeepBuilds, StepsKeepLines DEF MapInv
<1> QED
    BY <1>1, <1>2, PTL DEF Spec


-----------------------------------------------------------------------------
(* What a step on a job makes of the pipelines.                            *)

BuildsNow == [d \in DraftIds |-> Progress(jobs, BuildOf(jobs, d))]
RolloutsNow == [a \in DOMAIN acts |-> Progress(jobs, RolloutOf(jobs, a))]
KeysNow == [a \in DOMAIN acts |-> acts[a].key]

\* The pipelines of drafts and activations, and how each may move with the job j.
PipelinesDistinct ==
    /\ Linked(jobs)
    /\ \A d \in DraftIds : Distinct(jobs, BuildOf(jobs, d))
    /\ \A a \in Nat \ {0} : Distinct(jobs, RolloutOf(jobs, a))

LEMMA PipelinesAreDistinct == MapInv => PipelinesDistinct
BY TablesAreLinked, MembersAreDistinct, NullsAreOutside DEF PipelinesDistinct

\* The pipeline that the job j is of: only one is.
LEMMA JobHasPipeline ==
    ASSUME MapInv, NEW j \in DOMAIN jobs
    PROVE  \/ /\ \E d \in DraftIds : /\ j \in BuildOf(jobs, d)
                                     /\ \A e \in DraftIds : j \in BuildOf(jobs, e) => e = d
              /\ \A a \in Nat \ {0} : j \notin RolloutOf(jobs, a)
           \/ /\ \E a \in DOMAIN acts : /\ a # 0 /\ j \in RolloutOf(jobs, a)
                                        /\ \A b : j \in RolloutOf(jobs, b) => b = a
              /\ \A d \in DraftIds : j \notin BuildOf(jobs, d)
              /\ jobs[j].stage = "provision_sibling_xyn" => jobs[j].act # 0
<1>1. Linked(jobs) /\ DraftsHead /\ TypeOK /\ JobLinks
    BY TablesAreLinked DEF MapInv, LineInv, TableInv
<1>2. PICK r \in DOMAIN jobs : r = Root(jobs, j) /\ Heads(jobs[r])
    BY <1>1, RootsAre
<1>3. /\ \A d : j \in BuildOf(jobs, d) <=> jobs[r].draft = d
      /\ \A a : j \in RolloutOf(jobs, a) <=> jobs[r].act = a
    BY <1>2 DEF BuildOf, RolloutOf
<1>4. CASE jobs[r].stage = "generate_app_spec"
    BY <1>1, <1>3, <1>4 DEF DraftsHead
<1>5. CASE jobs[r].stage # "generate_app_spec"
  <2>1. jobs[r].stage = "deploy_app_local" /\ jobs[r].act # 0 /\ jobs[r].draft = NoDraft
      BY <1>1, <1>2, <1>5 DEF Heads, DraftsHead
  <2>2. jobs[r].act \in DOMAIN acts
    <3>1. /\ jobs[r].act \in Nat /\ jobs[r].act <= Len(acts)
          /\ DOMAIN acts = 1 .. Len(acts) /\ Len(acts) \in Nat
        BY <1>1, RowsOfTables DEF JobLinks, JobFits, Job
    <3> QED
        BY <2>1, <3>1
  <2>3. ASSUME jobs[j].stage = "provision_sibling_xyn", jobs[j].act = 0
        PROVE  FALSE
    <3>1. PICK k \in DOMAIN jobs : /\ k = jobs[j].source /\ jobs[k].act = 0
                                   /\ jobs[k].stage = "deploy_app_local"
        BY <1>1, <2>3 DEF Linked, Heads, Before
    <3>2. /\ jobs[k].source \in DOMAIN jobs
          /\ jobs[jobs[k].source].stage = "generate_app_spec"
        BY <1>1, <3>1 DEF Linked, Heads, Before
    <3>3. r = jobs[k].source
        BY <1>2, <2>3, <3>1 DEF Root
    <3> QED
        BY <1>5, <3>2, <3>3
  <2> QED
      BY <1>3, <2>1, <2>2, <2>3, NullsAreOutside
<1> QED
    BY <1>4, <1>5

LEMMA WorkedIs ==
    ASSUME NEW p, NEW s
    PROVE  /\ p[s] = "queued" /\ Pipelines!AllRest =>
                  [p EXCEPT ![s] = "running"] \in Pipelines!Worked(p, s)
           /\ p[s] = "running" => [p EXCEPT ![s] = "failed"] \in Pipelines!Worked(p, s)
           /\ p[s] = "running" /\ (\A t \in Pipelines!After(s) : p[t] = "none") =>
                  Pipelines!Advanced(p, s) \in Pipelines!Worked(p, s)
BY DEF Pipelines!Worked

\* The ways in which a step works on the job j.
Claims(j) ==
    JobMoves(j) /\ jobs[j].status = "queued" /\ jobs'[j].status = "running" /\ Pipelines!AllRest

Ends(j) ==
    /\ jobs[j].status = "running"
    /\ \/ JobMoves(j) /\ jobs'[j].status = "failed"
       \/ JobMoves(j) /\ jobs'[j].status = "succeeded" /\ jobs[j].stage = "smoke_test"
       \/ \E n : JobAdvances(j, n)

\* The pipeline with the jobs S, which becomes the one with the jobs T: it is worked
\* on when j is one of S, and else left as it is.
LEMMA LineWorks ==
    ASSUME NEW j, Claims(j) \/ Ends(j), NEW S, NEW T,
           S \subseteq DOMAIN jobs, Distinct(jobs, S), Distinct(jobs', T),
           JobMoves(j) => T = S,
           \A n : JobAdvances(j, n) => T = S \cup (IF j \in S THEN {n} ELSE {})
    PROVE  /\ j \notin S => Progress(jobs', T) = Progress(jobs, S)
           /\ j \in S =>
                 /\ Progress(jobs, S)[jobs[j].stage] = jobs[j].status
                 /\ Progress(jobs', T) \in Pipelines!Worked(Progress(jobs, S), jobs[j].stage)
<1> DEFINE p == Progress(jobs, S)  q == Progress(jobs', T)  s == jobs[j].stage
<1>1. TablesGrow /\ \A k \in DOMAIN jobs : k # j => jobs'[k] = jobs[k]
    BY DEF Claims, Ends, JobMoves, JobAdvances
<1>2. /\ \A k \in S : jobs'[k].stage = jobs[k].stage
      /\ \A k \in S : k # j => jobs'[k].status = jobs[k].status
    BY <1>1 DEF TablesGrow, Identity
<1>3. /\ j \notin S => Progress(jobs', S) = p
      /\ j \in S => Progress(jobs', S) = [p EXCEPT ![s] = jobs'[j].status]
    BY <1>2, ProgressMoves
<1>4. j \in S => p[s] = jobs[j].status /\ s \in Stages
    BY ProgressIs DEF Distinct
<1>5. CASE j \notin S
  <2>1. CASE JobMoves(j)
      BY <1>3, <1>5, <2>1
  <2>2. CASE \E n : JobAdvances(j, n)
      BY <1>3, <1>5, <2>2
  <2> QED
      BY <1>5, <2>1, <2>2 DEF Claims, Ends
<1>6. p = [t \in Stages |-> p[t]]
    BY ProgressIs
<1>7. JobMoves(j) /\ j \in S => q = [p EXCEPT ![s] = jobs'[j].status]
    BY <1>3
<1>8. ASSUME NEW n, JobAdvances(j, n), j \in S
      PROVE  /\ \A t \in Pipelines!After(s) : p[t] = "none"
             /\ q = Pipelines!Advanced(p, s)
  <2>1. T = S \cup {n} /\ n \notin S
      BY <1>8 DEF JobAdvances
  <2> QED
      BY <1>2, <1>8, <2>1, ProgressGrows DEF JobAdvances
<1> HIDE DEF p, q, s
<1>9. ASSUME j \in S
      PROVE  q \in Pipelines!Worked(p, s)
  <2>1. CASE Claims(j)
    <3>1. q = [p EXCEPT ![s] = "running"] /\ p[s] = "queued" /\ Pipelines!AllRest
        BY <1>4, <1>7, <1>9, <2>1 DEF Claims
    <3> QED
        BY <3>1, WorkedIs
  <2>2. CASE Ends(j) /\ JobMoves(j) /\ jobs'[j].status = "failed"
    <3>1. q = [p EXCEPT ![s] = "failed"] /\ p[s] = "running"
        BY <1>4, <1>7, <1>9, <2>2 DEF Ends
    <3> QED
        BY <3>1, WorkedIs
  <2>3. CASE Ends(j) /\ JobMoves(j) /\ jobs'[j].status = "succeeded" /\ s = "smoke_test"
    <3>1. Pipelines!After(s) = {} /\ Pipelines!Stages = Stages
        BY <2>3 DEF Pipelines!After, Stages, Pipelines!Stages
    <3>2. [p EXCEPT ![s] = "succeeded"] = Pipelines!Advanced(p, s)
        BY <1>4, <1>6, <1>9, <3>1 DEF Pipelines!Advanced
    <3>3. q = Pipelines!Advanced(p, s) /\ p[s] = "running"
        BY <1>4, <1>7, <1>9, <2>3, <3>2 DEF Ends
    <3> QED
        BY <3>1, <3>3, WorkedIs
  <2>4. CASE Ends(j) /\ \E n : JobAdvances(j, n)
    <3>1. /\ \A t \in Pipelines!After(s) : p[t] = "none"
          /\ q = Pipelines!Advanced(p, s) /\ p[s] = "running"
        BY <1>4, <1>8, <1>9, <2>4 DEF Ends
    <3> QED
        BY <3>1, WorkedIs
  <2> QED
      BY <2>1, <2>2, <2>3, <2>4 DEF Ends, s
<1> QED
    BY <1>4, <1>5, <1>9 DEF p, q, s

\* So every pipeline is worked on or left as it is.
WorksOn(j) ==
    LET s == jobs[j].stage IN
    /\ \A d \in DraftIds :
          IF j \in BuildOf(jobs, d)
          THEN /\ BuildsNow[d][s] = jobs[j].status
               /\ BuildsNow'[d] \in Pipelines!Worked(BuildsNow[d], s)
          ELSE BuildsNow'[d] = BuildsNow[d]
    /\ \A a \in Nat \ {0} :
          LET p == Progress(jobs, RolloutOf(jobs, a))
              q == Progress(jobs', RolloutOf(jobs', a))
          IN  IF j \in RolloutOf(jobs, a) THEN q \in Pipelines!Worked(p, s) ELSE q = p

LEMMA JobsWork ==
    ASSUME MapInv, MapInv', NEW j, Claims(j) \/ Ends(j)
    PROVE  WorksOn(j)
<1>1. /\ Linked(jobs) /\ Linked(jobs')
      /\ \A d \in DraftIds : Distinct(jobs, BuildOf(jobs, d)) /\ Distinct(jobs', BuildOf(jobs', d))
      /\ \A a \in Nat \ {0} : /\ Distinct(jobs, RolloutOf(jobs, a))
                              /\ Distinct(jobs', RolloutOf(jobs', a))
  <2>1. PipelinesDistinct /\ PipelinesDistinct'
      BY PipelinesAreDistinct, PTL
  <2> QED
      BY <2>1 DEF PipelinesDistinct
<1>2. ASSUME JobMoves(j), NEW d, NEW a
      PROVE  BuildOf(jobs', d) = BuildOf(jobs, d) /\ RolloutOf(jobs', a) = RolloutOf(jobs, a)
    BY <1>1, <1>2, MembersStay DEF JobMoves, TablesGrow
<1>3. ASSUME NEW n, JobAdvances(j, n), NEW d, NEW a
      PROVE  /\ BuildOf(jobs', d) = BuildOf(jobs, d) \cup
                    (IF j \in BuildOf(jobs, d) THEN {n} ELSE {})
             /\ RolloutOf(jobs', a) = RolloutOf(jobs, a) \cup
                    (IF j \in RolloutOf(jobs, a) THEN {n} ELSE {})
  <2>1. /\ \A k \in DOMAIN jobs : Identity(jobs'[k]) = Identity(jobs[k])
        /\ n \notin DOMAIN jobs /\ DOMAIN jobs' = DOMAIN jobs \cup {n}
        /\ ~Heads(jobs'[n]) /\ jobs'[n].source = j /\ j \in DOMAIN jobs
      BY <1>3 DEF JobAdvances, TablesGrow
  <2> QED
      BY <1>1, <2>1, MembersAdded
<1>4. ASSUME NEW d \in DraftIds
      PROVE  IF j \in BuildOf(jobs, d)
             THEN /\ BuildsNow[d][jobs[j].stage] = jobs[j].status
                  /\ BuildsNow'[d] \in Pipelines!Worked(BuildsNow[d], jobs[j].stage)
             ELSE BuildsNow'[d] = BuildsNow[d]
  <2> DEFINE S == BuildOf(jobs, d)  T == BuildOf(jobs', d)
  <2>1. S \subseteq DOMAIN jobs
      BY DEF BuildOf
  <2>2. /\ BuildsNow[d] = Progress(jobs, S) /\ BuildsNow'[d] = Progress(jobs', T)
      BY DEF BuildsNow
  <2>3. Distinct(jobs, S) /\ Distinct(jobs', T)
      BY <1>1
  <2>4. /\ JobMoves(j) => T = S
        /\ \A n : JobAdvances(j, n) => T = S \cup (IF j \in S THEN {n} ELSE {})
      BY <1>2, <1>3
  <2> HIDE DEF S, T
  <2>5. /\ j \notin S => Progress(jobs', T) = Progress(jobs, S)
        /\ j \in S =>
              /\ Progress(jobs, S)[jobs[j].stage] = jobs[j].status
              /\ Progress(jobs', T) \in Pipelines!Worked(Progress(jobs, S), jobs[j].stage)
      BY <2>1, <2>3, <2>4, LineWorks
  <2> QED
      BY <2>2, <2>5 DEF S
<1>5. ASSUME NEW a \in Nat \ {0}
      PROVE  LET p == Progress(jobs, RolloutOf(jobs, a))
                 q == Progress(jobs', RolloutOf(jobs', a))
             IN  IF j \in RolloutOf(jobs, a) THEN q \in Pipelines!Worked(p, jobs[j].stage)
                 ELSE q = p
  <2> DEFINE S == RolloutOf(jobs, a)  T == RolloutOf(jobs', a)
  <2>1. S \subseteq DOMAIN jobs
      BY DEF RolloutOf
  <2>2. Distinct(jobs, S) /\ Distinct(jobs', T)
      BY <1>1
  <2>3. /\ JobMoves(j) => T = S
        /\ \A n : JobAdvances(j, n) => T = S \cup (IF j \in S THEN {n} ELSE {})
      BY <1>2, <1>3
  <2> HIDE DEF S, T
  <2>4. /\ j \notin S => Progress(jobs', T) = Progress(jobs, S)
        /\ j \in S =>
              /\ Progress(jobs, S)[jobs[j].stage] = jobs[j].status
              /\ Progress(jobs', T) \in Pipelines!Worked(Progress(jobs, S), jobs[j].stage)
      BY <2>1, <2>2, <2>3, LineWorks
  <2> QED
      BY <2>4 DEF S, T
<1> QED
    BY <1>4, <1>5 DEF WorksOn


-----------------------------------------------------------------------------
(* Every step is one of AppPipelines, or changes no pipeline.              *)

\* A function on 1 .. n + 1 whose first n values are those of the function s.
LEMMA OneAppended ==
    ASSUME NEW n \in Nat, NEW s, s = [i \in 1 .. n |-> s[i]],
           NEW t, t = [i \in 1 .. n + 1 |-> t[i]], \A i \in 1 .. n : t[i] = s[i]
    PROVE  t = Append(s, t[n + 1])
<1> DEFINE S == {t[i] : i \in 1 .. n + 1}  e == t[n + 1]
<1>1. s \in [1 .. n -> S] /\ e \in S
  <2>1. \A i \in 1 .. n : i \in 1 .. n + 1 /\ s[i] \in S
      OBVIOUS
  <2>2. n + 1 \in 1 .. n + 1
      OBVIOUS
  <2> QED
      BY <2>1, <2>2
<1> HIDE DEF S, e
<1>2. s \in Seq(S) /\ Len(s) = n
    BY <1>1, SeqDef, LenProperties
<1>3. /\ Append(s, e) \in Seq(S) /\ Len(Append(s, e)) = n + 1
      /\ \A k \in DOMAIN s : Append(s, e)[k] = s[k]
      /\ Append(s, e)[n + 1] = e
    BY <1>1, <1>2, RowAdded
<1>4. Append(s, e) \in [1 .. n + 1 -> S]
    BY <1>3, LenProperties
<1>5. \A i \in 1 .. n + 1 : Append(s, e)[i] = t[i]
  <2>1. DOMAIN s = 1 .. n /\ \A i \in 1 .. n + 1 : i \in 1 .. n \/ i = n + 1
      OBVIOUS
  <2> QED
      BY <1>3, <2>1 DEF e
<1>6. Append(s, e) = [i \in 1 .. n + 1 |-> Append(s, e)[i]]
    BY <1>4
<1>7. t = Append(s, e)
    BY <1>5, <1>6
<1> QED
    BY <1>7 DEF e

\* No job is of the pipeline of an activation that is not there.
LEMMA NothingRollsOut ==
    ASSUME MapInv, NEW a \in Nat, a = 0 \/ a > Len(acts)
    PROVE  a # 0 => RolloutOf(jobs, a) = {}
<1>1. Linked(jobs) /\ TypeOK /\ JobLinks
    BY TablesAreLinked DEF MapInv, TableInv
<1>2. \A j \in DOMAIN jobs : jobs[j].act \in Nat /\ jobs[j].act <= Len(acts) /\ Len(acts) \in Nat
    BY <1>1, RowsOfTables DEF JobLinks, JobFits, Job
<1> QED
    BY <1>1, <1>2, RootsAre DEF RolloutOf

\* An activation is added while the pipelines of the others are left alone.
LEMMA ActivationOpens ==
    ASSUME TypeOK, DOMAIN acts' = DOMAIN acts \cup {Len(acts) + 1},
           NEW key, key = acts'[Len(acts) + 1].key,
           \A a \in DOMAIN acts : acts'[a].key = acts[a].key,
           \A a \in DOMAIN acts : RolloutsNow'[a] = RolloutsNow[a],
           RolloutsNow'[Len(acts) + 1] = Pipelines!Unused
    PROVE  Pipelines!Opens(key)
<1>1. PICK n \in Nat : n = Len(acts) /\ DOMAIN acts = 1 .. n
    BY RowsOfTables
<1>2. DOMAIN acts' = 1 .. n + 1
    BY <1>1
<1>3. /\ RolloutsNow = [a \in 1 .. n |-> RolloutsNow[a]]
      /\ RolloutsNow' = [a \in 1 .. n + 1 |-> RolloutsNow'[a]]
    BY <1>1, <1>2 DEF RolloutsNow
<1>4. /\ KeysNow = [a \in 1 .. n |-> KeysNow[a]]
      /\ KeysNow' = [a \in 1 .. n + 1 |-> KeysNow'[a]]
      /\ \A a \in 1 .. n : KeysNow'[a] = KeysNow[a]
      /\ KeysNow'[n + 1] = acts'[n + 1].key
    BY <1>1, <1>2 DEF KeysNow
<1>5. RolloutsNow' = Append(RolloutsNow, RolloutsNow'[n + 1])
    BY <1>1, <1>3, OneAppended
<1>6. KeysNow' = Append(KeysNow, KeysNow'[n + 1])
    BY <1>4, OneAppended
<1> QED
    BY <1>1, <1>4, <1>5, <1>6 DEF Pipelines!Opens, RolloutsNow, KeysNow

\* A step that changes no job and no key changes no pipeline.
LEMMA NothingMoves ==
    ASSUME UNCHANGED jobs, DOMAIN acts' = DOMAIN acts,
           \A a \in DOMAIN acts : acts'[a].key = acts[a].key
    PROVE  UNCHANGED Pipelines!pipelines
BY DEF Pipelines!pipelines

LEMMA SubmissionsBuild ==
    ASSUME MapInv, MapInv', NEW d \in DraftIds, SubmitDraft(d)
    PROVE  Pipelines!Build(d)
<1>1. TableInv /\ DraftsBuildOnce /\ PipelinesDistinct /\ PipelinesDistinct' /\ TypeOK
  <2>1. PipelinesDistinct /\ PipelinesDistinct'
      BY PipelinesAreDistinct, PTL
  <2> QED
      BY <2>1 DEF MapInv, TableInv
<1>2. PICK f : Submitted(d, f)
    BY <1>1, SubmitEffect
<1>3. PICK n : n = Len(jobs) + 1
    OBVIOUS
<1>4. /\ TablesGrow /\ UNCHANGED acts /\ DOMAIN jobs' = DOMAIN jobs \cup {n}
      /\ n \notin DOMAIN jobs /\ \A k \in DOMAIN jobs : jobs'[k] = jobs[k]
      /\ jobs'[n].stage = "generate_app_spec" /\ jobs'[n].status = "queued"
      /\ jobs'[n].draft = d /\ jobs'[n].act = 0 /\ drafts[d].status \in Open
    BY <1>2, <1>3 DEF Submitted, Open
<1>5. Linked(jobs) /\ Linked(jobs') /\ Heads(jobs'[n])
    BY <1>1, <1>4 DEF PipelinesDistinct, Heads
<1>6. /\ \A k \in DOMAIN jobs : Identity(jobs'[k]) = Identity(jobs[k])
      /\ \A k \in DOMAIN jobs : /\ jobs'[k].stage = jobs[k].stage
                                /\ jobs'[k].status = jobs[k].status
    BY <1>4
<1>7. /\ \A e : BuildOf(jobs', e) = BuildOf(jobs, e) \cup (IF e = d THEN {n} ELSE {})
      /\ \A a : RolloutOf(jobs', a) = RolloutOf(jobs, a) \cup (IF a = 0 THEN {n} ELSE {})
    BY <1>4, <1>5, <1>6, MembersAdded
<1>8. BuildOf(jobs, d) = {}
    BY <1>1, <1>4, <1>5, RootsAre DEF BuildOf, DraftsBuildOnce, Open
<1>9. \A a \in DOMAIN acts : a \in Nat \ {0}
    BY <1>1, RowsOfTables
<1>10. ASSUME NEW e \in DraftIds, e # d
       PROVE  Progress(jobs', BuildOf(jobs', e)) = Progress(jobs, BuildOf(jobs, e))
  <2>1. BuildOf(jobs', e) = BuildOf(jobs, e) /\ BuildOf(jobs, e) \subseteq DOMAIN jobs
      BY <1>7, <1>10 DEF BuildOf
  <2>2. Distinct(jobs, BuildOf(jobs, e))
      BY <1>1 DEF PipelinesDistinct
  <2> QED
      BY <1>4, <1>6, <2>1, <2>2, ProgressMoves
<1>11. ASSUME NEW a \in DOMAIN acts
       PROVE  Progress(jobs', RolloutOf(jobs', a)) = Progress(jobs, RolloutOf(jobs, a))
  <2>1. RolloutOf(jobs', a) = RolloutOf(jobs, a) /\ RolloutOf(jobs, a) \subseteq DOMAIN jobs
      BY <1>7, <1>9 DEF RolloutOf
  <2>2. Distinct(jobs, RolloutOf(jobs, a))
      BY <1>1, <1>9 DEF PipelinesDistinct
  <2> QED
      BY <1>4, <1>6, <2>1, <2>2, ProgressMoves
<1>12. /\ Progress(jobs, BuildOf(jobs, d)) = Pipelines!Unused
       /\ Progress(jobs', BuildOf(jobs', d)) = Pipelines!Started("generate_app_spec")
  <2>1. BuildOf(jobs', d) = {n} /\ jobs'[n].stage \in Stages
      BY <1>4, <1>7, <1>8 DEF Stages
  <2> QED
      BY <1>4, <1>8, <2>1, ProgressStarts
<1>13. BuildsNow' = [BuildsNow EXCEPT ![d] = Pipelines!Started("generate_app_spec")]
    BY <1>10, <1>12 DEF BuildsNow
<1>14. RolloutsNow' = RolloutsNow
    BY <1>4, <1>11 DEF RolloutsNow
<1>15. BuildsNow[d] = Pipelines!Unused
    BY <1>12 DEF BuildsNow
<1> QED
    BY <1>4, <1>13, <1>14, <1>15 DEF Pipelines!Build, BuildsNow, RolloutsNow


LEMMA RequestsActivate ==
    ASSUME MapInv, NEW app \in Apps, NEW key \in Keys \cup {NoKey}, RequestActivation(app, key)
    PROVE  Pipelines!Activate(key)
<1>1. TypeOK /\ PipelinesDistinct
    BY PipelinesAreDistinct DEF MapInv, TableInv
<1>2. PICK n : n = Len(acts) + 1
    OBVIOUS
<1>3. /\ UNCHANGED jobs /\ acts'[n].key = key /\ DOMAIN acts' = DOMAIN acts \cup {n}
      /\ \A a \in DOMAIN acts : acts'[a] = acts[a]
      /\ key # NoKey => \A a \in DOMAIN acts : acts[a].key # key
  <2> DEFINE new == [status |-> "pending", key |-> key, app |-> app,
                     source |-> 0, sibling |-> 0]
  <2>1. acts' = Append(acts, new) /\ new \in Activation /\ new.key = key
      BY DEF RequestActivation, Activation
  <2> HIDE DEF new
  <2>2. /\ DOMAIN acts' = 1 .. Len(acts) + 1
        /\ \A a \in DOMAIN acts : acts'[a] = acts[a]
        /\ acts'[Len(acts) + 1] = new
      BY <1>1, <2>1, RowAdded DEF TypeOK
  <2>3. DOMAIN acts = 1 .. Len(acts) /\ Len(acts) \in Nat
      BY <1>1, RowsOfTables
  <2> QED
      BY <1>2, <2>1, <2>2, <2>3 DEF RequestActivation
<1>4. n \in Nat /\ n > Len(acts) /\ n # 0
    BY <1>1, <1>2, RowsOfTables
<1>5. RolloutOf(jobs, n) = {}
    BY <1>4, NothingRollsOut
<1>6. \A a \in DOMAIN acts : RolloutsNow'[a] = RolloutsNow[a]
    BY <1>3 DEF RolloutsNow
<1>7. RolloutsNow'[n] = Pipelines!Unused
    BY <1>3, <1>5, ProgressStarts DEF RolloutsNow
<1>8. Pipelines!Opens(key)
    BY <1>1, <1>2, <1>3, <1>6, <1>7, ActivationOpens
<1>9. BuildsNow' = BuildsNow
    BY <1>3 DEF BuildsNow
<1>10. key = NoKey \/ \A a \in DOMAIN KeysNow : KeysNow[a] # key
    BY <1>3 DEF KeysNow
<1> QED
    BY <1>8, <1>9, <1>10 DEF Pipelines!Activate, BuildsNow, KeysNow

LEMMA ActivationsRollOut ==
    ASSUME MapInv, MapInv', QueueActivation
    PROVE  \E a \in DOMAIN RolloutsNow : Pipelines!RollOut(a)
<1>1. TableInv /\ PipelinesDistinct /\ PipelinesDistinct' /\ TypeOK
  <2>1. PipelinesDistinct /\ PipelinesDistinct'
      BY PipelinesAreDistinct, PTL
  <2> QED
      BY <2>1 DEF MapInv, TableInv
<1>2. PICK f, a, g : Queued(f, a, g)
    BY <1>1, QueueActivationEffect
<1>3. PICK n : n = Len(jobs) + 1
    OBVIOUS
<1>4. /\ a \in DOMAIN acts /\ DOMAIN acts' = DOMAIN acts
      /\ \A k \in DOMAIN acts : acts'[k].key = acts[k].key
      /\ DOMAIN jobs' = DOMAIN jobs \cup {n} /\ n \notin DOMAIN jobs
      /\ \A k \in DOMAIN jobs : jobs'[k] = jobs[k] /\ jobs[k].act # a
      /\ jobs'[n].stage = "deploy_app_local" /\ jobs'[n].status = "queued"
      /\ jobs'[n].draft = NoDraft /\ jobs'[n].act = a /\ a # 0
    BY <1>2, <1>3 DEF Queued
<1>5. Linked(jobs) /\ Linked(jobs') /\ Heads(jobs'[n])
    BY <1>1, <1>4 DEF PipelinesDistinct, Heads
<1>6. /\ \A k \in DOMAIN jobs : Identity(jobs'[k]) = Identity(jobs[k])
      /\ \A k \in DOMAIN jobs : /\ jobs'[k].stage = jobs[k].stage
                                /\ jobs'[k].status = jobs[k].status
    BY <1>4
<1>7. /\ \A d : BuildOf(jobs', d) = BuildOf(jobs, d) \cup (IF d = NoDraft THEN {n} ELSE {})
      /\ \A b : RolloutOf(jobs', b) = RolloutOf(jobs, b) \cup (IF b = a THEN {n} ELSE {})
    BY <1>4, <1>5, <1>6, MembersAdded
<1>8. RolloutOf(jobs, a) = {}
    BY <1>4, <1>5, RootsAre DEF RolloutOf
<1>9. \A b \in DOMAIN acts : b \in Nat \ {0}
    BY <1>1, RowsOfTables
<1>10. ASSUME NEW d \in DraftIds
       PROVE  Progress(jobs', BuildOf(jobs', d)) = Progress(jobs, BuildOf(jobs, d))
  <2>1. BuildOf(jobs', d) = BuildOf(jobs, d) /\ BuildOf(jobs, d) \subseteq DOMAIN jobs
      BY <1>7, NullsAreOutside DEF BuildOf
  <2>2. Distinct(jobs, BuildOf(jobs, d))
      BY <1>1 DEF PipelinesDistinct
  <2> QED
      BY <1>4, <1>6, <2>1, <2>2, ProgressMoves
<1>11. ASSUME NEW b \in DOMAIN acts, b # a
       PROVE  Progress(jobs', RolloutOf(jobs', b)) = Progress(jobs, RolloutOf(jobs, b))
  <2>1. RolloutOf(jobs', b) = RolloutOf(jobs, b) /\ RolloutOf(jobs, b) \subseteq DOMAIN jobs
      BY <1>7, <1>11 DEF RolloutOf
  <2>2. Distinct(jobs, RolloutOf(jobs, b))
      BY <1>1, <1>9 DEF PipelinesDistinct
  <2> QED
      BY <1>4, <1>6, <2>1, <2>2, ProgressMoves
<1>12. /\ Progress(jobs, RolloutOf(jobs, a)) = Pipelines!Unused
       /\ Progress(jobs', RolloutOf(jobs', a)) = Pipelines!Started("deploy_app_local")
  <2>1. RolloutOf(jobs', a) = {n} /\ jobs'[n].stage \in Stages
      BY <1>4, <1>7, <1>8 DEF Stages
  <2> QED
      BY <1>4, <1>8, <2>1, ProgressStarts
<1>13. RolloutsNow' = [RolloutsNow EXCEPT ![a] = Pipelines!Started("deploy_app_local")]
    BY <1>4, <1>11, <1>12 DEF RolloutsNow
<1>14. BuildsNow' = BuildsNow
    BY <1>10 DEF BuildsNow
<1>15. RolloutsNow[a] = Pipelines!Unused /\ a \in DOMAIN RolloutsNow
    BY <1>4, <1>12 DEF RolloutsNow
<1>16. KeysNow' = KeysNow
    BY <1>4 DEF KeysNow
<1>17. Pipelines!RollOut(a)
    BY <1>13, <1>14, <1>15, <1>16 DEF Pipelines!RollOut, BuildsNow, RolloutsNow, KeysNow
<1> QED
    BY <1>15, <1>17

\* A step that works on a job works on its pipeline.
LEMMA WorkIsWork ==
    ASSUME MapInv, NEW j \in DOMAIN jobs, WorksOn(j), ActsKept(j),
           DOMAIN acts' # DOMAIN acts => jobs[j].status = "running"
    PROVE  \/ \E d \in DraftIds, s \in Pipelines!Stages : Pipelines!WorkOnBuild(d, s)
           \/ \E a \in DOMAIN RolloutsNow, s \in Pipelines!Stages : Pipelines!WorkOnRollout(a, s)
<1>1. TypeOK /\ Linked(jobs)
    BY TablesAreLinked DEF MapInv, TableInv
<1>2. PICK s \in Pipelines!Stages : s = jobs[j].stage
    BY <1>1 DEF Linked, Stages, Pipelines!Stages
<1>3. /\ \A a \in DOMAIN acts : a \in Nat \ {0}
      /\ Len(acts) \in Nat /\ DOMAIN acts = 1 .. Len(acts)
    BY <1>1, RowsOfTables
<1>4. /\ \A a \in DOMAIN acts : acts'[a].key = acts[a].key /\ a \in DOMAIN acts'
    BY DEF ActsKept
<1>5. ASSUME NEW a \in DOMAIN acts, j \notin RolloutOf(jobs, a)
      PROVE  RolloutsNow'[a] = RolloutsNow[a]
    BY <1>3, <1>4, <1>5 DEF WorksOn, RolloutsNow
<1>6. CASE /\ \E d \in DraftIds : /\ j \in BuildOf(jobs, d)
                                  /\ \A e \in DraftIds : j \in BuildOf(jobs, e) => e = d
           /\ \A a \in Nat \ {0} : j \notin RolloutOf(jobs, a)
  <2>1. PICK d \in DraftIds : /\ j \in BuildOf(jobs, d)
                              /\ \A e \in DraftIds : j \in BuildOf(jobs, e) => e = d
      BY <1>6
  <2>2. PICK p : p = BuildsNow'[d]
      OBVIOUS
  <2>3. p \in Pipelines!Worked(BuildsNow[d], s) /\ BuildsNow[d][s] = jobs[j].status
      BY <1>2, <2>1, <2>2 DEF WorksOn
  <2>4. \A e \in DraftIds : e # d => BuildsNow'[e] = BuildsNow[e]
      BY <2>1 DEF WorksOn
  <2>5. BuildsNow' = [BuildsNow EXCEPT ![d] = p]
    <3>1. /\ BuildsNow = [e \in DraftIds |-> BuildsNow[e]]
          /\ BuildsNow' = [e \in DraftIds |-> BuildsNow'[e]]
        BY DEF BuildsNow
    <3> QED
        BY <2>2, <2>4, <3>1
  <2>6. CASE DOMAIN acts' = DOMAIN acts
    <3>1. KeysNow' = KeysNow
        BY <1>4, <2>6 DEF KeysNow
    <3>2. RolloutsNow' = RolloutsNow
      <4>1. /\ RolloutsNow = [a \in DOMAIN acts |-> RolloutsNow[a]]
            /\ RolloutsNow' = [a \in DOMAIN acts |-> RolloutsNow'[a]]
          BY <2>6 DEF RolloutsNow
      <4>2. \A a \in DOMAIN acts : RolloutsNow'[a] = RolloutsNow[a]
          BY <1>3, <1>5, <1>6
      <4> QED
          BY <4>1, <4>2
    <3>3. Pipelines!WorkOnBuild(d, s)
        BY <2>3, <2>5, <3>1, <3>2 DEF Pipelines!WorkOnBuild, BuildsNow, RolloutsNow, KeysNow
    <3> QED
        BY <3>3
  <2>7. CASE DOMAIN acts' # DOMAIN acts
    <3>1. PICK n : n = Len(acts) + 1
        OBVIOUS
    <3>2. /\ s = "provision_sibling_xyn" /\ BuildsNow[d][s] = "running"
          /\ DOMAIN acts' = DOMAIN acts \cup {n} /\ acts'[n].key = NoKey
        BY <1>2, <2>3, <2>7, <3>1 DEF ActsKept
    <3>3. n \in Nat \ {0} /\ n > Len(acts)
        BY <1>3, <3>1
    <3>4. RolloutsNow'[n] = Pipelines!Unused
      <4>1. RolloutOf(jobs, n) = {}
          BY <3>3, NothingRollsOut
      <4>2. Progress(jobs', RolloutOf(jobs', n)) = Progress(jobs, RolloutOf(jobs, n))
          BY <1>6, <3>3 DEF WorksOn
      <4> QED
          BY <3>2, <4>1, <4>2, ProgressStarts DEF RolloutsNow
    <3>5. \A a \in DOMAIN acts : RolloutsNow'[a] = RolloutsNow[a]
        BY <1>3, <1>5, <1>6
    <3>6. Pipelines!Opens(NoKey)
        BY <1>1, <1>4, <3>1, <3>2, <3>4, <3>5, ActivationOpens
    <3>7. Pipelines!WorkOnBuild(d, s)
        BY <2>3, <2>5, <3>2, <3>6 DEF Pipelines!WorkOnBuild, BuildsNow
    <3> QED
        BY <3>7
  <2> QED
      BY <2>6, <2>7
<1>7. CASE /\ \E a \in DOMAIN acts : /\ a # 0 /\ j \in RolloutOf(jobs, a)
                                     /\ \A b : j \in RolloutOf(jobs, b) => b = a
           /\ \A d \in DraftIds : j \notin BuildOf(jobs, d)
           /\ jobs[j].stage = "provision_sibling_xyn" => jobs[j].act # 0
  <2>1. PICK a \in DOMAIN acts : j \in RolloutOf(jobs, a) /\ \A b : j \in RolloutOf(jobs, b) => b = a
      BY <1>7
  <2>2. DOMAIN acts' = DOMAIN acts
      BY <1>7 DEF ActsKept
  <2>3. KeysNow' = KeysNow
      BY <1>4, <2>2 DEF KeysNow
  <2>4. BuildsNow' = BuildsNow
    <3>1. \A d \in DraftIds : BuildsNow'[d] = BuildsNow[d]
        BY <1>7 DEF WorksOn
    <3>2. /\ BuildsNow = [e \in DraftIds |-> BuildsNow[e]]
          /\ BuildsNow' = [e \in DraftIds |-> BuildsNow'[e]]
        BY DEF BuildsNow
    <3> QED
        BY <3>1, <3>2
  <2>5. PICK p : p = RolloutsNow'[a]
      OBVIOUS
  <2>6. p \in Pipelines!Worked(RolloutsNow[a], s)
      BY <1>2, <1>3, <2>1, <2>2, <2>5 DEF WorksOn, RolloutsNow
  <2>7. RolloutsNow' = [RolloutsNow EXCEPT ![a] = p]
    <3>1. /\ RolloutsNow = [b \in DOMAIN acts |-> RolloutsNow[b]]
          /\ RolloutsNow' = [b \in DOMAIN acts |-> RolloutsNow'[b]]
        BY <2>2 DEF RolloutsNow
    <3>2. \A b \in DOMAIN acts : b # a => RolloutsNow'[b] = RolloutsNow[b]
        BY <1>5, <2>1
    <3> QED
        BY <2>5, <3>1, <3>2
  <2>8. Pipelines!WorkOnRollout(a, s) /\ a \in DOMAIN RolloutsNow
      BY <2>3, <2>4, <2>6, <2>7 DEF Pipelines!WorkOnRollout, BuildsNow, RolloutsNow, KeysNow
  <2> QED
      BY <2>8
<1> QED
    BY <1>6, <1>7, JobHasPipeline


LEMMA NothingRunning ==
    ASSUME MapInv, \A k \in DOMAIN jobs : jobs[k].status # "running"
    PROVE  Pipelines!AllRest
<1>1. PipelinesDistinct /\ TypeOK
    BY PipelinesAreDistinct DEF MapInv, TableInv
<1>2. ASSUME NEW S, S \subseteq DOMAIN jobs, Distinct(jobs, S), NEW s \in Stages
      PROVE  Progress(jobs, S)[s] # "running"
    BY <1>2, ProgressIs
<1>3. \A d \in DraftIds, s \in Stages : BuildsNow[d][s] # "running"
  <2>1. \A d : BuildOf(jobs, d) \subseteq DOMAIN jobs
      BY DEF BuildOf
  <2> QED
      BY <1>1, <1>2, <2>1 DEF PipelinesDistinct, BuildsNow
<1>4. \A a \in DOMAIN acts, s \in Stages : RolloutsNow[a][s] # "running"
  <2>1. \A a : RolloutOf(jobs, a) \subseteq DOMAIN jobs
      BY DEF RolloutOf
  <2>2. \A a \in DOMAIN acts : a \in Nat \ {0}
      BY <1>1, RowsOfTables
  <2> QED
      BY <1>1, <1>2, <2>1, <2>2 DEF PipelinesDistinct, RolloutsNow
<1>5. Pipelines!Stages = Stages /\ DOMAIN RolloutsNow = DOMAIN acts
    BY DEF Pipelines!Stages, Stages, RolloutsNow
<1> QED
    BY <1>3, <1>4, <1>5 DEF Pipelines!AllRest, BuildsNow, RolloutsNow

LEMMA WorkRefines ==
    ASSUME MapInv, MapInv', Recover \/ ClaimJob \/ StageEnds
    PROVE  \/ UNCHANGED Pipelines!pipelines
           \/ \E d \in DraftIds, s \in Pipelines!Stages : Pipelines!WorkOnBuild(d, s)
           \/ \E a \in DOMAIN RolloutsNow, s \in Pipelines!Stages : Pipelines!WorkOnRollout(a, s)
<1>1. TableInv /\ TypeOK /\ WorkerHolds /\ OneRuns
    BY DEF MapInv, LineInv, TableInv, ChainInv
<1>2. CASE Recover
  <2>1. /\ OnlyStatuses /\ UNCHANGED acts /\ DOMAIN jobs' = DOMAIN jobs
        /\ \A k \in DOMAIN jobs : jobs[k].status # "running" => jobs'[k] = jobs[k]
        /\ \A k \in DOMAIN jobs : jobs[k].status = "running" => jobs'[k].status = "failed"
    <3>1. DOMAIN jobs' = DOMAIN jobs /\ UNCHANGED acts
        BY <1>2 DEF Recover
    <3> QED
        BY <1>1, <1>2, <3>1, RecoverEffect
  <2>2. TablesGrow
      BY <1>1, <2>1, StatusesGrow
  <2>3. CASE \E j \in DOMAIN jobs : jobs[j].status = "running"
    <3>1. PICK j \in DOMAIN jobs : jobs[j].status = "running"
        BY <2>3
    <3>2. \A k \in DOMAIN jobs : k # j => jobs[k].status # "running"
        BY <1>1, <3>1 DEF OneRuns
    <3>3. Ends(j)
        BY <2>1, <2>2, <3>1, <3>2 DEF Ends, JobMoves
    <3>4. ActsKept(j)
        BY <2>1 DEF ActsKept
    <3> QED
        BY <2>1, <3>1, <3>3, <3>4, JobsWork, WorkIsWork
  <2>4. CASE \A j \in DOMAIN jobs : jobs[j].status # "running"
    <3>1. /\ \A k \in DOMAIN jobs : jobs'[k] = jobs[k]
          /\ jobs = [k \in DOMAIN jobs |-> jobs[k]]
          /\ jobs' = [k \in DOMAIN jobs |-> jobs'[k]]
      <4>1. jobs \in Seq(Job) /\ jobs' \in Seq(Job)
          BY <1>1, <2>1 DEF TypeOK, OnlyStatuses
      <4>2. /\ jobs \in [1 .. Len(jobs) -> Job] /\ jobs' \in [1 .. Len(jobs') -> Job]
            /\ DOMAIN jobs = 1 .. Len(jobs) /\ DOMAIN jobs' = 1 .. Len(jobs')
          BY <4>1, LenProperties
      <4> QED
          BY <2>1, <2>4, <4>2
    <3>2. UNCHANGED jobs
        BY <3>1
    <3> QED
        BY <2>1, <3>2, NothingMoves
  <2> QED
      BY <2>3, <2>4
<1>3. CASE ClaimJob
  <2>1. PICK j \in DOMAIN jobs : j = worker.job
      BY <1>1, <1>3, RestIsTyped DEF ClaimJob, RestTyped
  <2>2. /\ jobs' = [jobs EXCEPT ![j].status = "running"]
        /\ worker.phase = "claiming" /\ UNCHANGED <<acts, siblings, notes>>
        /\ jobs[j].status = "queued"
      BY <1>1, <1>3, <2>1 DEF ClaimJob, WorkerHolds
  <2>3. /\ OnlyStatuses /\ \A k \in DOMAIN jobs : k # j => jobs'[k] = jobs[k]
        /\ jobs'[j].status = "running"
      BY <1>1, <2>2, StatusSet DEF JobStatuses
  <2>4. TablesGrow /\ DOMAIN jobs' = DOMAIN jobs
      BY <1>1, <2>2, <2>3, StatusesGrow
  <2>5. Pipelines!AllRest
      BY <1>1, <2>2, NothingRunning DEF OneRuns
  <2>6. Claims(j)
      BY <2>2, <2>3, <2>4, <2>5 DEF Claims, JobMoves
  <2>7. ActsKept(j)
      BY <2>2 DEF ActsKept
  <2> QED
      BY <2>2, <2>6, <2>7, JobsWork, WorkIsWork
<1>4. CASE StageEnds
  <2>1. PICK j \in DOMAIN jobs : jobs[j].status = "running" /\ Ends(j) /\ ActsKept(j)
      BY <1>4, StageEndsMoves DEF Ends
  <2> QED
      BY <2>1, JobsWork, WorkIsWork
<1> QED
    BY <1>2, <1>3, <1>4

LEMMA StepsRefine ==
    ASSUME MapInv, MapInv', NoPatches, [Next]_vars
    PROVE  [Pipelines!PipelinesNext]_(Pipelines!pipelines)
<1>1. TableInv /\ ChainInv /\ TypeOK
    BY DEF MapInv, TableInv
<1>2. \A j \in DOMAIN jobs : ~ReadPatch(j)
  <2>1. used.patches \in 0 .. MaxPatches /\ MaxPatches = 0
      BY <1>1 DEF TypeOK, NoPatches
  <2> QED
      BY <2>1 DEF ReadPatch
<1>3. ~CommitPatch
    BY <1>1 DEF CommitPatch, ChainInv, WorkerHolds
<1>4. CASE \E d \in DraftIds : SubmitDraft(d)
    BY <1>4, SubmissionsBuild DEF Pipelines!PipelinesNext
<1>5. CASE \E app \in Apps, key \in Keys \cup {NoKey} : RequestActivation(app, key)
    BY <1>5, RequestsActivate DEF Pipelines!PipelinesNext
<1>6. CASE QueueActivation
    BY <1>6, ActivationsRollOut DEF Pipelines!PipelinesNext, RolloutsNow
<1>7. CASE Recover \/ ClaimJob \/ StageEnds
    BY <1>7, WorkRefines DEF Pipelines!PipelinesNext, RolloutsNow
<1>8. CASE RefuseActivation
  <2>1. /\ UNCHANGED jobs /\ DOMAIN acts' = DOMAIN acts
        /\ \A a \in DOMAIN acts : acts'[a].key = acts[a].key
    <3>1. acts' = [acts EXCEPT ![request.act].status = "failed"] /\ UNCHANGED jobs
        BY <1>8 DEF RefuseActivation
    <3>2. \A a \in DOMAIN acts : acts[a] \in Activation
        BY <1>1, RowsOfTables
    <3> QED
        BY <3>1, <3>2 DEF Activation
  <2> QED
      BY <2>1, NothingMoves
<1>9. CASE \/ ReadQueue \/ LoadJob \/ WorkerDies \/ Restart \/ UNCHANGED vars
           \/ \E d \in DraftIds : CreateDraft(d) \/ PatchDraft(d)
  <2>1. UNCHANGED <<jobs, acts>>
      BY <1>9 DEF ReadQueue, LoadJob, WorkerDies, Restart, vars, tables, CreateDraft, PatchDraft
  <2> QED
      BY <2>1, NothingMoves
<1> QED
    BY <1>2, <1>3, <1>4, <1>5, <1>6, <1>7, <1>8, <1>9 DEF Next, Requests, Replies, Work

LEMMA NoPipelineAtFirst ==
    ASSUME Init
    PROVE  Pipelines!PipelinesInit
<1>1. DOMAIN jobs = {} /\ DOMAIN acts = {} /\ acts = <<>>
    BY DEF Init
<1>2. \A d : BuildOf(jobs, d) = {}
    BY <1>1 DEF BuildOf
<1>3. BuildsNow = [d \in DraftIds |-> Pipelines!Unused]
    BY <1>2, ProgressStarts DEF BuildsNow
<1>4. RolloutsNow = <<>> /\ KeysNow = <<>>
    BY <1>1 DEF RolloutsNow, KeysNow
<1> QED
    BY <1>3, <1>4 DEF Pipelines!PipelinesInit, BuildsNow, RolloutsNow, KeysNow

\* The jobs are pipelines of AppPipelines: whatever requests, the worker thread,
\* crashes and restarts do, a draft and an activation have one pipeline each, its
\* stages run in their order, one at a time over all pipelines, and none is skipped,
\* repeated or queued before the one before it has succeeded.
THEOREM PipelinesAreImplemented ==
    ASSUME NoPatches, NoUpgrades
    PROVE  Spec => ImplementsPipelines
<1>1. Init => Pipelines!PipelinesInit
    BY NoPipelineAtFirst
<1>2. MapInv /\ MapInv' /\ [Next]_vars => [Pipelines!PipelinesNext]_(Pipelines!pipelines)
    BY StepsRefine
<1> QED
    BY <1>1, <1>2, LinesStand, PTL DEF Spec, ImplementsPipelines, Pipelines!PipelinesSpec
=============================================================================
