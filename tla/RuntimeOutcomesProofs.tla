------------------------ MODULE RuntimeOutcomesProofs ------------------------
(***************************************************************************)
(* Theorems about what becomes of a run, for any number of runs, workers,  *)
(* steps and faults, with one runtime loop as the kernel is deployed: how  *)
(* often it is started and completed, that its executor owns it, that a    *)
(* block says why, and that its status moves as RunLifecycle promises.     *)
(***************************************************************************)
EXTENDS RuntimeExecutionProofs

Pending(row) == row.status \in {"QUEUED", "RUNNING"}

-----------------------------------------------------------------------------
(* Starts and completions.  RetryBudget and CompletedOnceAndWhole are not  *)
(* inductive: a run that is read as queued is started however many starts  *)
(* it had.  What makes them hold is that whoever queues a run again has    *)
(* looked at its attempts, or is the user, whom the budget counts; and     *)
(* that only the loop writes attempts, so what it read of them is true     *)
(* still when it writes, whatever users do to the status in between.       *)

(* The account of one run: its row, the events of its starts and ends, how *)
(* often it was continued, and its steps.                                  *)
Sound(row, event, n, plan) ==
    /\ event.started = row.attempt
    /\ row.attempt <= 1 + row.policy.maxRetries + n
    /\ row.status = "QUEUED" => row.attempt <= row.policy.maxRetries + n
    /\ row.status = Absent => row.attempt = 0 /\ event.completed = 0
    /\ event.completed <= 1 + n
    /\ Pending(row) => event.completed <= n
    /\ row.status = "COMPLETED" =>
          event.completed > 0 /\ \A k \in 1..LastStep : plan[k] = "completed"

RunsAreSound ==
    \A r \in Runs : Sound(runs[r], events[r], continues[r], steps[r])

(* What a cycle has read of the runs it may settle or dispatch.            *)
CycleCounts ==
    \A w \in Loops : pc[w] = "cycle" =>
        \A r \in Runs :
            LET seen == view[w].runs[r]
            IN  Pending(seen) =>
                    /\ runs[r].status # Absent
                    /\ seen.attempt = runs[r].attempt /\ seen.policy = runs[r].policy
                    /\ seen.status = "QUEUED" =>
                           runs[r].attempt <= runs[r].policy.maxRetries + continues[r]
                    /\ events[r].completed <= continues[r]

(* The run that a loop executes: it has not been completed in this attempt *)
(* and the steps behind it are done.                                       *)
ExecutionCounts ==
    \A w \in Loops : pc[w] \in Executing =>
        LET r == job[w].run
        IN  /\ runs[r].status \notin {Absent, "COMPLETED"}
            /\ events[r].completed <= continues[r]
            /\ \A k \in 1..LastStep :
                   k < job[w].step \/ pc[w] = "complete" => steps[r][k] = "completed"
            /\ pc[w] \in Settling =>
                   view[w].attempt = runs[r].attempt /\ view[w].policy = runs[r].policy

OutcomeInv == RunsAreSound /\ CycleCounts /\ ExecutionCounts

LEMMA FlushColumns ==
    ASSUME NEW c \in Run, NEW s \in Run, NEW n \in Run
    PROVE  LET f == Flush(c, s, n)
           IN  /\ f.status = IF n.status = s.status THEN c.status ELSE n.status
               /\ f.worker = IF n.worker = s.worker THEN c.worker ELSE n.worker
               /\ f.attempt = IF n.attempt = s.attempt THEN c.attempt ELSE n.attempt
               /\ f.escalation = IF n.escalation = s.escalation THEN c.escalation
                                 ELSE n.escalation
               /\ f.policy = c.policy
BY DEF Flush

LEMMA RunColumns ==
    ASSUME NEW row \in Run
    PROVE  /\ row.attempt \in Nat /\ row.policy.maxRetries \in Nat
           /\ row.policy.review \in BOOLEAN
BY PoliciesAreTyped DEF Run

\* A flush that counts no attempt leaves the account sound, if it completes and starts
\* nothing and queues the run only within the budget.
LEMMA SoundFlush ==
    ASSUME NEW c \in Run, NEW s \in Run, NEW n \in Run,
           NEW event \in [started : Nat, completed : Nat], NEW k \in Nat, NEW m \in Nat,
           NEW plan, Sound(c, event, k, plan), k <= m,
           n.attempt = s.attempt,
           n.status # s.status => n.status \in {"QUEUED", "FAILED", "BLOCKED", "CANCELLED"},
           n.status # s.status /\ n.status = "QUEUED" =>
               c.attempt <= c.policy.maxRetries + m /\ event.completed <= m
    PROVE  Sound(Flush(c, s, n), event, m, plan)
<1>1. /\ Flush(c, s, n).status = IF n.status = s.status THEN c.status ELSE n.status
      /\ Flush(c, s, n).attempt = c.attempt /\ Flush(c, s, n).policy = c.policy
  BY FlushColumns
<1>2. c.attempt \in Nat /\ c.policy.maxRetries \in Nat /\ event.completed \in Nat
  BY RunColumns
<1>. QED
  BY <1>1, <1>2 DEF Sound, Pending, Absent

\* The start of a run that was seen queued.
LEMMA SoundDispatch ==
    ASSUME NEW c \in Run, NEW s \in Run, NEW x \in Workers,
           NEW event \in [started : Nat, completed : Nat], NEW k \in Nat,
           NEW plan, NEW plan2, Sound(c, event, k, plan),
           s.status = "QUEUED", s.attempt = c.attempt,
           c.attempt <= c.policy.maxRetries + k, event.completed <= k
    PROVE  /\ Sound(FlushDispatch(c, s, x), [event EXCEPT !.started = @ + 1], k, plan2)
           /\ FlushDispatch(c, s, x).status = "RUNNING"
           /\ FlushDispatch(c, s, x).attempt = c.attempt + 1
           /\ FlushDispatch(c, s, x).policy = c.policy
<1>. DEFINE d == Dispatched(s, x)
            g == FlushDispatch(c, s, x)
<1>1. d \in Run /\ d.status = "RUNNING" /\ d.attempt = s.attempt + 1
  BY DispatchedType DEF Dispatched, Run
<1>2. c.attempt \in Nat /\ c.policy.maxRetries \in Nat /\ event.completed \in Nat
      /\ event.started \in Nat
  BY RunColumns
<1>3. /\ g.status = Flush(c, s, d).status /\ g.attempt = Flush(c, s, d).attempt
      /\ g.policy = Flush(c, s, d).policy
  BY DEF FlushDispatch, Flush
<1>4. g.status = "RUNNING" /\ g.attempt = c.attempt + 1 /\ g.policy = c.policy
  BY <1>1, <1>2, <1>3, FlushColumns
<1>. QED
  BY <1>2, <1>4 DEF Sound, Pending, Absent

-----------------------------------------------------------------------------
(* What a cycle does to the accounts.                                      *)

LEMMA RetriesLeftBounds ==
    ASSUME NEW row \in Run, RetriesLeft(row)
    PROVE  row.attempt <= row.policy.maxRetries
BY RunColumns DEF RetriesLeft

LEMMA OutcomeColumns ==
    ASSUME NEW row \in Run
    PROVE  /\ StaleOutcome(row).attempt = row.attempt
           /\ StaleOutcome(row).policy = row.policy
           /\ StaleOutcome(row).status \in {"QUEUED", "FAILED", "BLOCKED"}
           /\ StaleOutcome(row).status = "QUEUED" => RetriesLeft(row)
           /\ FailureOutcome(row).attempt = row.attempt
           /\ FailureOutcome(row).policy = row.policy
           /\ FailureOutcome(row).status \in {"QUEUED", "FAILED"}
           /\ FailureOutcome(row).status = "QUEUED" => RetriesLeft(row)
<1>1. CASE RetriesLeft(row)
  BY <1>1 DEF StaleOutcome, FailureOutcome, Requeued, Run
<1>2. CASE ~RetriesLeft(row)
  BY <1>2 DEF StaleOutcome, FailureOutcome, Run
<1>. QED
  BY <1>1, <1>2

\* The settling of stale runs keeps the accounts sound.
LEMMA StaleSound ==
    ASSUME TypeOK, OutcomeInv, NEW w \in Loops, pc[w] = "cycle", NEW r \in Runs
    PROVE  LET c == StaleSettled(view[w])[r]
           IN  /\ c \in Run /\ c.attempt = runs[r].attempt /\ c.policy = runs[r].policy
               /\ Sound(c, events[r], continues[r], steps[r])
<1>. DEFINE v == view[w]
            s == v.runs[r]
<1>1. /\ v \in View /\ s \in Run /\ runs[r] \in Run /\ StaleOutcome(s) \in Run
      /\ events[r] \in [started : Nat, completed : Nat] /\ continues[r] \in Nat
      /\ Sound(runs[r], events[r], continues[r], steps[r])
  BY OutcomeTypes DEF TypeOK, View, OutcomeInv, RunsAreSound
<1>2. CASE r \in StaleRuns(v)
  <2>1. StaleSettled(v)[r] = Flush(runs[r], s, StaleOutcome(s)) /\ s.status = "RUNNING"
    BY <1>2 DEF StaleSettled, StaleRuns
  <2>2. /\ s.attempt = runs[r].attempt /\ s.policy = runs[r].policy
        /\ events[r].completed <= continues[r]
    BY <2>1 DEF OutcomeInv, CycleCounts, Pending
  <2>3. /\ StaleOutcome(s).attempt = s.attempt
        /\ StaleOutcome(s).status \in {"QUEUED", "FAILED", "BLOCKED"}
        /\ StaleOutcome(s).status = "QUEUED" =>
              runs[r].attempt <= runs[r].policy.maxRetries + continues[r]
    <3>1. RetriesLeft(s) => runs[r].attempt <= runs[r].policy.maxRetries
      BY <1>1, <2>2, RetriesLeftBounds
    <3>2. runs[r].attempt \in Nat /\ runs[r].policy.maxRetries \in Nat
      BY <1>1, RunColumns
    <3>. QED
      BY <1>1, <3>1, <3>2, OutcomeColumns
  <2>4. Sound(Flush(runs[r], s, StaleOutcome(s)), events[r], continues[r], steps[r])
    BY <1>1, <2>1, <2>2, <2>3, SoundFlush
  <2>5. /\ Flush(runs[r], s, StaleOutcome(s)) \in Run
        /\ Flush(runs[r], s, StaleOutcome(s)).attempt = runs[r].attempt
        /\ Flush(runs[r], s, StaleOutcome(s)).policy = runs[r].policy
    <3>1. Flush(runs[r], s, StaleOutcome(s)) \in Run
      BY <1>1, FlushType
    <3>. QED
      BY <1>1, <2>3, <3>1, FlushColumns
  <2>6. /\ StaleSettled(v)[r] \in Run
        /\ StaleSettled(v)[r].attempt = runs[r].attempt
        /\ StaleSettled(v)[r].policy = runs[r].policy
    BY <2>1, <2>5
  <2>7. Sound(StaleSettled(v)[r], events[r], continues[r], steps[r])
    BY <2>1, <2>4, Zenon
  <2>. QED
    BY <2>6, <2>7
<1>3. CASE r \notin StaleRuns(v)
  BY <1>1, <1>3 DEF StaleSettled
<1>. QED
  BY <1>2, <1>3

\* A run that is dispatched has a start left.
LEMMA CandidateCounts ==
    ASSUME TypeOK, OutcomeInv, NEW w \in Loops, pc[w] = "cycle",
           NEW r \in Candidates(view[w])
    PROVE  LET c == StaleSettled(view[w])[r]
               s == RunsSeen(view[w])[r]
           IN  /\ s.status = "QUEUED" /\ s.attempt = c.attempt /\ s.policy = c.policy
               /\ c.attempt <= c.policy.maxRetries + continues[r]
               /\ events[r].completed <= continues[r]
<1>. DEFINE v == view[w]
            s == v.runs[r]
<1>1. /\ r \in Runs /\ v \in View /\ s \in Run /\ runs[r] \in Run
      /\ RunsSeen(v)[r].status = "QUEUED" /\ continues[r] \in Nat
  BY DEF TypeOK, View, Candidates
<1>2. /\ StaleSettled(v)[r].attempt = runs[r].attempt
      /\ StaleSettled(v)[r].policy = runs[r].policy
  BY <1>1, StaleSound
<1>3. runs[r].attempt \in Nat /\ runs[r].policy.maxRetries \in Nat
  BY <1>1, RunColumns
<1>4. CASE r \in StaleRuns(v)
  <2>1. RunsSeen(v)[r] = StaleOutcome(s) /\ s.status = "RUNNING"
    BY <1>1, <1>4 DEF RunsSeen, StaleRuns
  <2>2. RetriesLeft(s)
    BY <1>1, <2>1, OutcomeColumns
  <2>3. /\ s.attempt = runs[r].attempt /\ s.policy = runs[r].policy
        /\ events[r].completed <= continues[r]
    BY <1>1, <2>1 DEF OutcomeInv, CycleCounts, Pending
  <2>4. runs[r].attempt <= runs[r].policy.maxRetries
    BY <1>1, <2>2, <2>3, RetriesLeftBounds
  <2>. QED
    BY <1>1, <1>2, <1>3, <2>1, <2>3, <2>4, OutcomeColumns
<1>5. CASE r \notin StaleRuns(v)
  <2>1. RunsSeen(v)[r] = s
    BY <1>1, <1>5 DEF RunsSeen
  <2>. QED
    BY <1>1, <1>2, <2>1 DEF OutcomeInv, CycleCounts, Pending
<1>. QED
  BY <1>4, <1>5

LEMMA OutcomeCycle ==
    ASSUME TypeOK, OutcomeInv, OneLoop, NEW w \in Loops,
           \/ CycleBegin(w) \/ CycleIdle(w) \/ CycleDispatch(w) \/ CycleDeadlock(w)
           \/ CycleUnavailable(w) \/ RegisterOffline(w)
    PROVE  OutcomeInv'
<1>. DEFINE v == view[w]
<1>1. /\ \A u \in Loops : u = w
      /\ pc \in [Loops -> Places] /\ runs \in [Runs -> Run]
      /\ view \in [Loops -> View \cup Run \cup {Nothing}]
      /\ events \in [Runs -> [started : Nat, completed : Nat]]
      /\ continues \in [Runs -> Nat]
      /\ pc[w] = "cycle" => v \in View
  BY DEF OneLoop, TypeOK
<1>2. CASE CycleBegin(w)
  <2>1. /\ UNCHANGED <<runs, events, continues, steps>> /\ pc'[w] = "cycle"
        /\ view'[w].runs = runs
    BY <1>1, <1>2 DEF CycleBegin, Goto, Sees, tables
  <2>2. \A r \in Runs : runs[r].policy = runs[r].policy /\ Sound(runs[r], events[r],
                            continues[r], steps[r])
    BY DEF OutcomeInv, RunsAreSound
  <2>. QED
    BY <1>1, <2>1, <2>2
    DEF OutcomeInv, RunsAreSound, CycleCounts, ExecutionCounts, Sound, Pending, Executing,
        Settling, Absent
<1>3. CASE RegisterOffline(w)
  BY <1>3
  DEF RegisterOffline, OutcomeInv, RunsAreSound, CycleCounts, ExecutionCounts
<1>4. CASE CycleIdle(w) \/ CycleDeadlock(w)
  <2>1. pc[w] = "cycle" /\ pc'[w] = "idle" /\ UNCHANGED <<events, continues, steps>>
    BY <1>1, <1>4
    DEF CycleIdle, CycleDeadlock, WaitsFor, EndIteration, Goto, tables
  <2>2. runs' = runs \/ runs' = StaleSettled(v)
    BY <1>4 DEF CycleIdle, CycleDeadlock, tables
  <2>3. RunsAreSound'
    BY <2>1, <2>2, StaleSound DEF OutcomeInv, RunsAreSound
  <2>. QED
    BY <1>1, <2>1, <2>3
    DEF OutcomeInv, CycleCounts, ExecutionCounts, Executing, Settling
<1>5. CASE CycleDispatch(w)
  <2>1. PICK x \in FirstIdle(v), r \in Candidates(v) :
              /\ runs' = [StaleSettled(v) EXCEPT ![r] = FlushDispatch(@, RunsSeen(v)[r], x)]
              /\ events' = [events EXCEPT ![r].started = @ + 1]
              /\ steps' = [steps EXCEPT ![r][1] = "running"]
              /\ job' = [job EXCEPT ![w] = [run |-> r, as |-> x, step |-> 1]]
    BY <1>5 DEF CycleDispatch
  <2>2. /\ pc[w] = "cycle" /\ pc'[w] = "body" /\ UNCHANGED continues
        /\ v \in View /\ x \in Workers /\ r \in Runs
        /\ StaleSettled(v) \in [Runs -> Run] /\ RunsSeen(v)[r] \in Run
    BY <1>1, <1>5, CycleTypes DEF CycleDispatch, Goto
  <2>. DEFINE c == StaleSettled(v)[r]
              s == RunsSeen(v)[r]
  <2>3. /\ Sound(FlushDispatch(c, s, x), [events[r] EXCEPT !.started = @ + 1], continues[r],
                 steps'[r])
        /\ FlushDispatch(c, s, x).status = "RUNNING"
        /\ events[r].completed <= continues[r]
    <3>1. c \in Run /\ Sound(c, events[r], continues[r], steps[r])
      BY <2>2, StaleSound
    <3>2. /\ s.status = "QUEUED" /\ s.attempt = c.attempt
          /\ c.attempt <= c.policy.maxRetries + continues[r]
          /\ events[r].completed <= continues[r]
      BY <2>2, CandidateCounts
    <3>3. events[r] \in [started : Nat, completed : Nat] /\ continues[r] \in Nat
      BY <1>1, <2>2
    <3>. QED
      BY <2>2, <3>1, <3>2, <3>3, SoundDispatch
  <2>4. /\ runs'[r] = FlushDispatch(c, s, x)
        /\ events'[r] = [events[r] EXCEPT !.started = @ + 1]
        /\ \A q \in Runs \ {r} : /\ runs'[q] = StaleSettled(v)[q] /\ events'[q] = events[q]
                                 /\ steps'[q] = steps[q]
    BY <1>1, <2>1, <2>2 DEF TypeOK
  <2>5. RunsAreSound'
    BY <2>2, <2>3, <2>4, StaleSound DEF RunsAreSound
  <2>6. ExecutionCounts'
    <3>1. job'[w] = [run |-> r, as |-> x, step |-> 1]
      BY <2>1 DEF TypeOK
    <3>2. events'[r].completed = events[r].completed
      BY <2>4
    <3>. QED
      BY <1>1, <2>2, <2>3, <2>4, <3>1, <3>2 DEF ExecutionCounts, Settling, Absent
  <2>. QED
    BY <1>1, <2>2, <2>5, <2>6 DEF OutcomeInv, CycleCounts
<1>6. CASE CycleUnavailable(w)
  <2>1. PICK x \in FirstIdle(v), r \in Candidates(v) :
             LET seen == Dispatched(RunsSeen(v)[r], x)
             IN  /\ runs' = [StaleSettled(v) EXCEPT
                       ![r] = Flush(FlushDispatch(@, RunsSeen(v)[r], x), seen,
                                    FailureOutcome(seen))]
                 /\ events' = [events EXCEPT ![r].started = @ + 1]
    BY <1>6 DEF CycleUnavailable
  <2>2. /\ pc[w] = "cycle" /\ pc'[w] = "idle" /\ UNCHANGED <<continues, steps>>
        /\ v \in View /\ x \in Workers /\ r \in Runs
        /\ StaleSettled(v) \in [Runs -> Run] /\ RunsSeen(v)[r] \in Run
    BY <1>1, <1>6, CycleTypes DEF CycleUnavailable, EndIteration, Goto
  <2>. DEFINE c == StaleSettled(v)[r]
              s == RunsSeen(v)[r]
              d == Dispatched(s, x)
              g == FlushDispatch(c, s, x)
              event == [events[r] EXCEPT !.started = @ + 1]
  <2>3. /\ Sound(g, event, continues[r], steps[r])
        /\ g.attempt = c.attempt + 1 /\ g.policy = c.policy /\ g \in Run
        /\ event \in [started : Nat, completed : Nat]
        /\ event.completed <= continues[r]
    <3>1. c \in Run /\ Sound(c, events[r], continues[r], steps[r])
      BY <2>2, StaleSound
    <3>2. /\ s.status = "QUEUED" /\ s.attempt = c.attempt
          /\ c.attempt <= c.policy.maxRetries + continues[r]
          /\ events[r].completed <= continues[r]
      BY <2>2, CandidateCounts
    <3>3. events[r] \in [started : Nat, completed : Nat] /\ continues[r] \in Nat
      BY <1>1, <2>2
    <3>4. event.completed = events[r].completed /\ event \in [started : Nat, completed : Nat]
      BY <3>3
    <3>. QED
      BY <2>2, <3>1, <3>2, <3>3, <3>4, SoundDispatch, FlushDispatchType
  <2>4. /\ d \in Run /\ d.status = "RUNNING" /\ d.attempt = g.attempt /\ d.policy = g.policy
    <3>1. /\ d.status = "RUNNING" /\ d.attempt = s.attempt + 1 /\ d.policy = s.policy
      BY <2>2 DEF Dispatched, Run
    <3>. QED
      BY <2>2, <2>3, <3>1, CandidateCounts, DispatchedType
  <2>5. Sound(Flush(g, d, FailureOutcome(d)), event, continues[r], steps[r])
    <3>1. /\ FailureOutcome(d) \in Run
          /\ FailureOutcome(d).attempt = d.attempt
          /\ FailureOutcome(d).status \in {"QUEUED", "FAILED"}
          /\ FailureOutcome(d).status = "QUEUED" => d.attempt <= d.policy.maxRetries
      BY <2>4, OutcomeTypes, OutcomeColumns, RetriesLeftBounds
    <3>2. /\ g.attempt \in Nat /\ g.policy.maxRetries \in Nat /\ continues[r] \in Nat
      BY <1>1, <2>2, <2>3, RunColumns
    <3>3. FailureOutcome(d).status = "QUEUED" =>
              g.attempt <= g.policy.maxRetries + continues[r]
      BY <2>4, <3>1, <3>2
    <3>. HIDE DEF g, d, event
    <3>. QED
      BY <2>3, <2>4, <3>1, <3>2, <3>3, SoundFlush
  <2>6. /\ runs'[r] = Flush(g, d, FailureOutcome(d)) /\ events'[r] = event
        /\ \A q \in Runs \ {r} : runs'[q] = StaleSettled(v)[q] /\ events'[q] = events[q]
    BY <1>1, <2>1, <2>2
  <2>7. RunsAreSound'
    <3>. HIDE DEF g, d, event
    <3>. QED
      BY <2>2, <2>5, <2>6, StaleSound DEF RunsAreSound
  <2>. QED
    BY <1>1, <2>2, <2>7 DEF OutcomeInv, CycleCounts, ExecutionCounts, Executing, Settling
<1>. QED
  BY <1>2, <1>3, <1>4, <1>5, <1>6

-----------------------------------------------------------------------------
(* What the execution of a run does to its account.                        *)

\* A heartbeat touches no other column of any run.
LEMMA HeartbeatColumns ==
    ASSUME TypeOK, NEW w \in Loops, Heartbeat(w), NEW q \in Runs
    PROVE  /\ runs'[q].status = runs[q].status /\ runs'[q].worker = runs[q].worker
           /\ runs'[q].attempt = runs[q].attempt /\ runs'[q].policy = runs[q].policy
           /\ runs'[q].escalation = runs[q].escalation
<1>1. runs[q] \in Run /\ runs \in [Runs -> Run]
  BY DEF TypeOK
<1>. QED
  BY <1>1 DEF Heartbeat, Run

\* Only of a completed run does the account look at the steps.
LEMMA SoundKept ==
    ASSUME NEW row, NEW row2, NEW event, NEW n, NEW plan, NEW plan2,
           Sound(row, event, n, plan),
           row2.status = row.status, row2.attempt = row.attempt, row2.policy = row.policy,
           row.status = "COMPLETED" => plan2 = plan
    PROVE  Sound(row2, event, n, plan2)
BY DEF Sound, Pending

\* A step row is reported by the executor of the run, and only of that run.
LEMMA ReportKeeps ==
    ASSUME TypeOK, OutcomeInv, NEW w \in Loops, pc[w] \in Executing, Heartbeat(w),
           NEW status, ReportStep(w, status), UNCHANGED <<events, continues>>
    PROVE  /\ RunsAreSound'
           /\ runs'[job[w].run].status \notin {Absent, "COMPLETED"}
           /\ \A k \in 1..LastStep : k < job[w].step =>
                 steps'[job[w].run][k] = "completed"
           /\ steps'[job[w].run][job[w].step] = status
<1>. DEFINE r == job[w].run
<1>1. /\ r \in Runs /\ job[w].step \in 1..LastStep
      /\ steps' = [steps EXCEPT ![r][job[w].step] = status]
      /\ steps \in [Runs -> [1..LastStep -> {"none", "running", "completed", "failed"}]]
  BY DEF TypeOK, Job, ReportStep
<1>2. /\ runs[r].status \notin {Absent, "COMPLETED"}
      /\ \A k \in 1..LastStep : k < job[w].step => steps[r][k] = "completed"
  BY DEF OutcomeInv, ExecutionCounts
<1>3. \A k \in 1..LastStep : k < job[w].step => steps'[r][k] = steps[r][k]
  BY <1>1
<1>4. ASSUME NEW q \in Runs
      PROVE  Sound(runs'[q], events'[q], continues'[q], steps'[q])
  <2>1. Sound(runs[q], events[q], continues[q], steps[q])
    BY DEF OutcomeInv, RunsAreSound
  <2>2. runs[q].status = "COMPLETED" => steps'[q] = steps[q]
    BY <1>1, <1>2
  <2>3. /\ runs'[q].status = runs[q].status /\ runs'[q].attempt = runs[q].attempt
        /\ runs'[q].policy = runs[q].policy
    BY HeartbeatColumns
  <2>. QED
    BY <2>1, <2>2, <2>3, SoundKept
<1>5. runs'[r].status \notin {Absent, "COMPLETED"}
  BY <1>1, <1>2, HeartbeatColumns
<1>6. steps'[r][job[w].step] = status
  BY <1>1
<1>. QED
  BY <1>2, <1>3, <1>4, <1>5, <1>6 DEF RunsAreSound

LEMMA OutcomeExecution ==
    ASSUME TypeOK, TypeOK', OutcomeInv, OneLoop, NEW w \in Loops,
           \/ StartStep(w) \/ FinishStep(w) \/ RefuseStep(w) \/ FailStep(w) \/ BlockStep(w)
           \/ CompleteRun(w) \/ CompleteRefused(w) \/ HandleFailure(w) \/ MarkBlocked(w)
    PROVE  OutcomeInv'
<1>. DEFINE r == job[w].run
<1>1. /\ pc[w] \in Executing
      /\ \A u \in Loops : u = w
      /\ pc \in [Loops -> Places] /\ view \in [Loops -> View \cup Run \cup {Nothing}]
      /\ job \in [Loops -> Job \cup {Nothing}] /\ runs \in [Runs -> Run]
      /\ job[w] \in Job /\ r \in Runs /\ runs[r] \in Run
      /\ events \in [Runs -> [started : Nat, completed : Nat]]
      /\ events[r] \in [started : Nat, completed : Nat] /\ continues[r] \in Nat
  BY DEF StartStep, FinishStep, RefuseStep, FailStep, BlockStep, StepEnds, CompleteRun,
         CompleteRefused, HandleFailure, MarkBlocked, TypeOK, Job, Executing, Settling,
         OneLoop
<1>2. /\ Sound(runs[r], events[r], continues[r], steps[r])
      /\ events[r].completed <= continues[r]
      /\ runs[r].status \notin {Absent, "COMPLETED"}
      /\ pc[w] \in Settling => /\ view[w] \in Run
                               /\ view[w].attempt = runs[r].attempt
                               /\ view[w].policy = runs[r].policy
  BY <1>1 DEF OutcomeInv, RunsAreSound, ExecutionCounts, TypeOK
<1>3. CASE StartStep(w)
  <2>1. /\ pc'[w] = "body" /\ UNCHANGED <<events, continues, job>>
        /\ Heartbeat(w) /\ ReportStep(w, "running")
    BY <1>1, <1>3 DEF StartStep, Goto
  <2>2. ExecutionCounts'
    BY <1>1, <1>2, <2>1, ReportKeeps DEF ExecutionCounts, Settling
  <2>. QED
    BY <1>1, <2>1, <2>2, ReportKeeps DEF OutcomeInv, CycleCounts
<1>4. CASE FinishStep(w)
  <2>1. /\ UNCHANGED <<events, continues>> /\ Heartbeat(w) /\ ReportStep(w, "completed")
        /\ job'[w].run = r /\ pc'[w] \in {"start", "complete"}
        /\ pc'[w] = "start" => job'[w].step = job[w].step + 1
        /\ pc'[w] = "complete" => job' = job /\ job[w].step = LastStep /\ view'[w] = runs'[r]
    BY <1>1, <1>4, LastStepIsPositive DEF FinishStep, Goto, Sees, Job
  <2>2. /\ RunsAreSound' /\ runs'[r].status \notin {Absent, "COMPLETED"}
        /\ \A k \in 1..LastStep : k <= job[w].step => steps'[r][k] = "completed"
    <3>1. job[w].step \in 1..LastStep
      BY <1>1 DEF Job
    <3>2. /\ RunsAreSound' /\ runs'[r].status \notin {Absent, "COMPLETED"}
          /\ \A k \in 1..LastStep : k < job[w].step => steps'[r][k] = "completed"
          /\ steps'[r][job[w].step] = "completed"
      BY <1>1, <2>1, ReportKeeps
    <3>. QED
      BY <3>1, <3>2, LastStepIsPositive
  <2>3. ExecutionCounts'
    <3>1. job[w].step \in 1..LastStep /\ job[w].step \in Nat
      BY <1>1, LastStepIsPositive DEF Job
    <3>2. \A k \in 1..LastStep :
             k < job'[w].step \/ pc'[w] = "complete" => steps'[r][k] = "completed"
      BY <2>1, <2>2, <3>1, LastStepIsPositive
    <3>. QED
      BY <1>1, <1>2, <2>1, <2>2, <3>2 DEF ExecutionCounts, Settling
  <2>. QED
    BY <1>1, <2>1, <2>2, <2>3 DEF OutcomeInv, CycleCounts
<1>5. CASE RefuseStep(w) \/ CompleteRefused(w)
  <2>1. /\ UNCHANGED <<runs, events, continues, steps, job>>
        /\ pc'[w] = "fail" /\ view'[w] = runs[r]
    BY <1>1, <1>5 DEF RefuseStep, CompleteRefused, BeginFailure, Goto, Sees, tables
  <2>2. ExecutionCounts'
    BY <1>1, <2>1 DEF OutcomeInv, ExecutionCounts
  <2>. QED
    BY <1>1, <2>1, <2>2 DEF OutcomeInv, RunsAreSound, CycleCounts
<1>6. CASE FailStep(w) \/ BlockStep(w)
  <2>1. /\ pc'[w] \in {"fail", "block"} /\ view'[w] = runs'[r]
        /\ UNCHANGED <<events, continues, job>>
        /\ \/ Heartbeat(w) /\ ReportStep(w, "failed")
           \/ UNCHANGED <<runs, steps>>
    BY <1>1, <1>6 DEF FailStep, BlockStep, StepEnds, Goto, Sees
  <2>2. CASE Heartbeat(w) /\ ReportStep(w, "failed")
    <3>1. ExecutionCounts'
      BY <1>1, <1>2, <2>1, <2>2, ReportKeeps DEF ExecutionCounts
    <3>. QED
      BY <1>1, <2>1, <2>2, <3>1, ReportKeeps DEF OutcomeInv, CycleCounts
  <2>3. CASE UNCHANGED <<runs, steps>>
    <3>1. ExecutionCounts'
      BY <1>1, <2>1, <2>3 DEF OutcomeInv, ExecutionCounts
    <3>. QED
      BY <1>1, <2>1, <2>3, <3>1 DEF OutcomeInv, RunsAreSound, CycleCounts
  <2>. QED
    BY <2>1, <2>2, <2>3
<1>7. ASSUME NEW row, pc'[w] = "idle", UNCHANGED <<continues, steps>>,
             runs' = [runs EXCEPT ![r] = row],
             \A q \in Runs \ {r} : events'[q] = events[q],
             Sound(row, events'[r], continues[r], steps[r])
      PROVE  OutcomeInv'
  <2>1. RunsAreSound'
    BY <1>1, <1>7 DEF OutcomeInv, RunsAreSound
  <2>. QED
    BY <1>1, <1>7, <2>1 DEF OutcomeInv, CycleCounts, ExecutionCounts, Executing, Settling
<1>8. CASE CompleteRun(w)
  <2>1. /\ pc[w] = "complete" /\ pc'[w] = "idle" /\ UNCHANGED <<continues, steps>>
        /\ view[w].status = "RUNNING"
        /\ runs' = [runs EXCEPT ![r] = Flush(@, view[w], Completed(view[w]))]
        /\ events' = [events EXCEPT ![r].completed = @ + 1]
    BY <1>1, <1>8 DEF CompleteRun, CanComplete, Settle, EndIteration, Goto
  <2>. DEFINE done == Completed(view[w])
              f == Flush(runs[r], view[w], done)
  <2>2. /\ done \in Run /\ done.status = "COMPLETED" /\ done.attempt = view[w].attempt
        /\ view[w] \in Run
    BY <1>2, <2>1, OutcomeTypes DEF Completed, Run, Settling
  <2>3. /\ f.status = "COMPLETED" /\ f.attempt = runs[r].attempt
        /\ f.policy = runs[r].policy
    BY <1>1, <2>1, <2>2, FlushColumns
  <2>4. \A k \in 1..LastStep : steps[r][k] = "completed"
    BY <1>1, <2>1 DEF OutcomeInv, ExecutionCounts
  <2>5. /\ events'[r].started = events[r].started
        /\ events'[r].completed = events[r].completed + 1
        /\ \A q \in Runs \ {r} : events'[q] = events[q]
    BY <1>1, <2>1
  <2>6. Sound(f, events'[r], continues[r], steps[r])
    <3>1. events[r].completed \in Nat /\ continues[r] \in Nat
      BY <1>1
    <3>. QED
      BY <1>2, <2>3, <2>4, <2>5, <3>1 DEF Sound, Pending, Absent
  <2>. QED
    BY <1>7, <2>1, <2>5, <2>6
<1>9. ASSUME NEW n \in Run, pc[w] \in Settling, n.attempt = view[w].attempt,
             n.status \in {"QUEUED", "FAILED", "BLOCKED"},
             n.status = "QUEUED" => RetriesLeft(view[w])
      PROVE  Sound(Flush(runs[r], view[w], n), events[r], continues[r], steps[r])
  <2>1. view[w] \in Run /\ view[w].attempt = runs[r].attempt
        /\ view[w].policy = runs[r].policy
    BY <1>2, <1>9
  <2>2. RetriesLeft(view[w]) => runs[r].attempt <= runs[r].policy.maxRetries
    BY <2>1, RetriesLeftBounds
  <2>3. n.status = "QUEUED" => runs[r].attempt <= runs[r].policy.maxRetries + continues[r]
    BY <1>1, <1>9, <2>2, RunColumns
  <2>. QED
    BY <1>1, <1>2, <1>9, <2>1, <2>3, SoundFlush
<1>10. CASE HandleFailure(w)
  <2>1. /\ pc[w] = "fail" /\ pc'[w] = "idle" /\ UNCHANGED <<continues, steps, events>>
        /\ runs' = [runs EXCEPT ![r] = Flush(runs[r], view[w], FailureOutcome(view[w]))]
    BY <1>1, <1>10 DEF HandleFailure, Settle, EndIteration, Goto
  <2>2. pc[w] \in Settling /\ view[w] \in Run
    BY <1>2, <2>1 DEF Settling
  <2>3. Sound(Flush(runs[r], view[w], FailureOutcome(view[w])), events[r], continues[r],
              steps[r])
    BY <1>9, <2>2, OutcomeTypes, OutcomeColumns
  <2>. QED
    BY <1>7, <2>1, <2>3
<1>11. CASE MarkBlocked(w)
  <2>1. /\ pc[w] = "block" /\ pc'[w] = "idle" /\ UNCHANGED <<continues, steps, events>>
        /\ runs' = [runs EXCEPT ![r] = Flush(runs[r], view[w], BlockedOutcome(view[w]))]
    BY <1>1, <1>11 DEF MarkBlocked, Settle, EndIteration, Goto
  <2>2. pc[w] \in Settling /\ view[w] \in Run
    BY <1>2, <2>1 DEF Settling
  <2>3. /\ BlockedOutcome(view[w]).attempt = view[w].attempt
        /\ BlockedOutcome(view[w]).status = "BLOCKED"
    BY <2>2 DEF BlockedOutcome, Run
  <2>4. Sound(Flush(runs[r], view[w], BlockedOutcome(view[w])), events[r], continues[r],
              steps[r])
    BY <1>9, <2>2, <2>3, OutcomeTypes
  <2>. QED
    BY <1>7, <2>1, <2>4
<1>. QED
  BY <1>3, <1>4, <1>5, <1>6, <1>8, <1>10, <1>11

-----------------------------------------------------------------------------
(* Faults, time and users leave the accounts as they are, but for one more *)
(* start and completion that a user who continues a run allows.            *)

LEMMA OutcomeInit == Init => OutcomeInv
<1>. SUFFICES ASSUME Init PROVE OutcomeInv
  OBVIOUS
<1>1. \A w \in Loops : pc[w] = "idle"
  BY DEF Init
<1>2. PICK policy \in Policies :
          runs = [r \in Runs |-> [NewRun(policy) EXCEPT !.status = Absent]]
  BY DEF Init
<1>3. policy.maxRetries \in Nat
  BY PoliciesAreTyped
<1>4. RunsAreSound
  <2>. SUFFICES ASSUME NEW r \in Runs
                PROVE  Sound(runs[r], events[r], continues[r], steps[r])
    BY DEF RunsAreSound
  <2>1. /\ runs[r].status = Absent /\ runs[r].attempt = 0
        /\ runs[r].policy = policy
    BY <1>2 DEF NewRun
  <2>2. events[r].started = 0 /\ events[r].completed = 0 /\ continues[r] = 0
    BY DEF Init
  <2>. QED
    BY <1>3, <2>1, <2>2 DEF Sound, Pending, Absent
<1>. QED
  BY <1>1, <1>4 DEF OutcomeInv, CycleCounts, ExecutionCounts, Executing, Settling

\* What a step outside the loops must respect.
Respectful ==
    \A q \in Runs :
        /\ continues'[q] \in Nat /\ continues[q] <= continues'[q]
        /\ runs[q].status # Absent => /\ runs'[q].status # Absent
                                      /\ runs'[q].attempt = runs[q].attempt
                                      /\ runs'[q].policy = runs[q].policy
        /\ runs[q].status # "COMPLETED" => runs'[q].status # "COMPLETED"
        /\ Sound(runs'[q], events[q], continues'[q], steps[q])

LEMMA RespectfulKeeps ==
    ASSUME TypeOK, OutcomeInv, Respectful, UNCHANGED <<pc, view, job, steps, events>>
    PROVE  OutcomeInv'
<1>1. RunsAreSound'
  BY DEF Respectful, RunsAreSound
<1>2. \A q \in Runs : /\ runs[q].attempt \in Nat /\ runs[q].policy.maxRetries \in Nat
                      /\ events[q].completed \in Nat /\ continues[q] \in Nat
  BY RunColumns DEF TypeOK
<1>3. CycleCounts'
  <2>. SUFFICES ASSUME NEW w \in Loops, pc[w] = "cycle", NEW r \in Runs,
                       Pending(view[w].runs[r])
                PROVE  LET seen == view[w].runs[r]
                       IN  /\ runs'[r].status # Absent
                           /\ seen.attempt = runs'[r].attempt /\ seen.policy = runs'[r].policy
                           /\ seen.status = "QUEUED" =>
                                  runs'[r].attempt
                                      <= runs'[r].policy.maxRetries + continues'[r]
                           /\ events[r].completed <= continues'[r]
    BY DEF CycleCounts
  <2>1. LET seen == view[w].runs[r]
        IN  /\ runs[r].status # Absent
            /\ seen.attempt = runs[r].attempt /\ seen.policy = runs[r].policy
            /\ seen.status = "QUEUED" =>
                   runs[r].attempt <= runs[r].policy.maxRetries + continues[r]
            /\ events[r].completed <= continues[r]
    BY DEF OutcomeInv, CycleCounts
  <2>2. /\ continues'[r] \in Nat /\ continues[r] <= continues'[r]
        /\ runs'[r].status # Absent /\ runs'[r].attempt = runs[r].attempt
        /\ runs'[r].policy = runs[r].policy
    BY <2>1 DEF Respectful
  <2>. QED
    BY <1>2, <2>1, <2>2
<1>4. ExecutionCounts'
  <2>. SUFFICES ASSUME NEW w \in Loops, pc[w] \in Executing
                PROVE  LET r == job[w].run
                       IN  /\ runs'[r].status \notin {Absent, "COMPLETED"}
                           /\ events[r].completed <= continues'[r]
                           /\ runs'[r].attempt = runs[r].attempt
                           /\ runs'[r].policy = runs[r].policy
    BY DEF OutcomeInv, ExecutionCounts
  <2>1. job[w].run \in Runs
    BY DEF TypeOK, Job
  <2>2. /\ runs[job[w].run].status \notin {Absent, "COMPLETED"}
        /\ events[job[w].run].completed <= continues[job[w].run]
    BY DEF OutcomeInv, ExecutionCounts
  <2>. QED
    BY <1>2, <2>1, <2>2 DEF Respectful
<1>. QED
  BY <1>1, <1>3, <1>4 DEF OutcomeInv

LEMMA OutcomeRest ==
    ASSUME TypeOK, TypeOK', OutcomeInv, OneLoop,
           \/ \E w \in Loops : Abort(w) \/ Crash(w) \/ Restart(w)
           \/ Environment
           \/ Users
    PROVE  OutcomeInv'
<1>1. /\ runs \in [Runs -> Run] /\ continues \in [Runs -> Nat]
      /\ events \in [Runs -> [started : Nat, completed : Nat]]
      /\ pc \in [Loops -> Places]
      /\ \A q \in Runs : /\ Sound(runs[q], events[q], continues[q], steps[q])
                         /\ continues[q] \in Nat /\ runs[q] \in Run
                         /\ events[q] \in [started : Nat, completed : Nat]
  BY DEF TypeOK, OutcomeInv, RunsAreSound
<1>2. ASSUME NEW w \in Loops, Abort(w)
      PROVE  OutcomeInv'
  <2>1. UNCHANGED <<runs, events, continues, steps>> /\ \A u \in Loops : u = w
    BY <1>2 DEF Abort, tables, OneLoop
  <2>2. CASE pc[w] \in {"start", "body", "complete"} /\ BeginFailure(w) /\ job' = job
    <3>1. pc'[w] = "fail" /\ view'[w] = runs[job[w].run] /\ pc[w] \in Executing
      BY <1>1, <2>2 DEF BeginFailure, Goto, Sees, TypeOK, Executing, Settling
    <3>2. ExecutionCounts'
      BY <2>1, <2>2, <3>1 DEF OutcomeInv, ExecutionCounts
    <3>. QED
      BY <2>1, <3>1, <3>2 DEF OutcomeInv, RunsAreSound, CycleCounts
  <2>3. CASE pc[w] \in {"cycle", "fail", "block"} /\ EndIteration(w)
    <3>1. pc'[w] = "idle"
      BY <1>1, <2>3 DEF EndIteration, Goto
    <3>. QED
      BY <2>1, <3>1
      DEF OutcomeInv, RunsAreSound, CycleCounts, ExecutionCounts, Executing, Settling
  <2>. QED
    BY <1>2, <2>2, <2>3 DEF Abort
<1>3. ASSUME NEW w \in Loops, Crash(w) \/ Restart(w)
      PROVE  OutcomeInv'
  <2>1. /\ UNCHANGED <<runs, events, continues, steps>> /\ \A u \in Loops : u = w
        /\ pc'[w] \in {"down", "idle"}
    BY <1>1, <1>3 DEF Crash, Restart, Goto, tables, OneLoop
  <2>. QED
    BY <2>1 DEF OutcomeInv, RunsAreSound, CycleCounts, ExecutionCounts, Executing, Settling
<1>4. CASE \/ CodexFails \/ CodexRecovers \/ \E x \in Workers : WorkerAges(x)
           \/ \E op \in {"pause", "continue", "cancel"}, r \in Runs : ReceiveRequest(op, r)
  <2>1. UNCHANGED <<runs, events, continues, steps, pc, view, job>>
    BY <1>4 DEF CodexFails, CodexRecovers, WorkerAges, ReceiveRequest, tables
  <2>2. Respectful
    BY <1>1, <2>1 DEF Respectful
  <2>. QED
    BY <2>1, <2>2, RespectfulKeeps
<1>5. ASSUME NEW r \in Runs, RunAges(r)
      PROVE  OutcomeInv'
  <2>1. /\ UNCHANGED <<events, continues, steps, pc, view, job>>
        /\ runs' = [runs EXCEPT ![r].heartbeat = "stale"]
    BY <1>5 DEF RunAges
  <2>2. \A q \in Runs : /\ runs'[q].status = runs[q].status
                        /\ runs'[q].attempt = runs[q].attempt
                        /\ runs'[q].policy = runs[q].policy
    BY <1>1, <2>1 DEF Run
  <2>3. \A q \in Runs : Sound(runs'[q], events[q], continues[q], steps[q])
    BY <1>1, <2>2, SoundKept
  <2>4. Respectful
    <3>1. \A q \in Runs : continues'[q] \in Nat /\ continues[q] <= continues'[q]
      BY <1>1, <2>1
    <3>2. \A q \in Runs : Sound(runs'[q], events[q], continues'[q], steps[q])
      BY <2>1, <2>3
    <3>. QED
      BY <2>2, <3>1, <3>2 DEF Respectful
  <2>. QED
    BY <2>1, <2>4, RespectfulKeeps
<1>6. ASSUME NEW r \in Runs, NEW policy \in Policies, Insert(r, policy)
      PROVE  OutcomeInv'
  <2>1. /\ UNCHANGED <<events, continues, steps, pc, view, job>>
        /\ runs[r].status = Absent /\ runs' = [runs EXCEPT ![r] = NewRun(policy)]
    BY <1>6 DEF Insert
  <2>2. Sound(NewRun(policy), events[r], continues[r], steps[r])
    <3>1. policy.maxRetries \in Nat /\ continues[r] \in Nat
      BY <1>1, PoliciesAreTyped
    <3>2. /\ NewRun(policy).status = "QUEUED" /\ NewRun(policy).attempt = 0
          /\ NewRun(policy).policy = policy
      BY DEF NewRun
    <3>3. events[r].started = 0 /\ events[r].completed = 0
      BY <1>1, <2>1 DEF Sound
    <3>. QED
      BY <3>1, <3>2, <3>3 DEF Sound, Pending, Absent
  <2>3. Respectful
    BY <1>1, <2>1, <2>2 DEF Respectful, NewRun, Absent
  <2>. QED
    BY <2>1, <2>3, RespectfulKeeps
<1>7. CASE PauseRun \/ CancelRun \/ ContinueRun
  <2>. DEFINE r == request.run
              s == request.seen
  <2>1. /\ request \in Request /\ r \in Runs /\ s \in Run /\ runs[r] \in Run
        /\ UNCHANGED <<events, steps, pc, view, job>>
    BY <1>7 DEF TypeOK, PauseRun, CancelRun, ContinueRun, ServeRequest, Request
  <2>2. PICK n \in Run :
           /\ runs' = [runs EXCEPT ![r] = Flush(@, s, n)]
           /\ n.attempt = s.attempt
           /\ n.status # s.status => n.status \in {"QUEUED", "BLOCKED", "CANCELLED"}
           /\ n.status = "QUEUED" /\ n.status # s.status =>
                 continues' = [continues EXCEPT ![r] = @ + 1]
           /\ \/ continues' = [continues EXCEPT ![r] = @ + 1]
              \/ continues' = continues
    <3>1. CASE PauseRun
      <4>1. /\ Paused(s).attempt = s.attempt
            /\ Paused(s).status # s.status => Paused(s).status = "BLOCKED"
        BY <2>1 DEF Paused, Run
      <4>2. runs' = [runs EXCEPT ![r] = Flush(@, s, Paused(s))] /\ continues' = continues
        BY <3>1 DEF PauseRun, ServeRequest
      <4>. QED
        BY <2>1, <4>1, <4>2, OutcomeTypes
    <3>2. CASE CancelRun
      <4>1. Cancelled(s).attempt = s.attempt /\ Cancelled(s).status = "CANCELLED"
        BY <2>1 DEF Cancelled, Run
      <4>2. runs' = [runs EXCEPT ![r] = Flush(@, s, Cancelled(s))] /\ continues' = continues
        BY <3>2 DEF CancelRun, ServeRequest
      <4>. QED
        BY <2>1, <4>1, <4>2, OutcomeTypes
    <3>3. CASE ContinueRun
      <4>1. Continued(s).attempt = s.attempt /\ Continued(s).status = "QUEUED"
        BY <2>1 DEF Continued, Run
      <4>2. /\ runs' = [runs EXCEPT ![r] = Flush(@, s, Continued(s))]
            /\ continues' = [continues EXCEPT ![r] = @ + 1]
        BY <3>3 DEF ContinueRun, ServeRequest
      <4>. QED
        BY <2>1, <4>1, <4>2, OutcomeTypes
    <3>. QED
      BY <1>7, <3>1, <3>2, <3>3
  <2>. DEFINE f == Flush(runs[r], s, n)
  <2>3. /\ f.status = IF n.status = s.status THEN runs[r].status ELSE n.status
        /\ f.attempt = runs[r].attempt /\ f.policy = runs[r].policy
    BY <2>1, <2>2, FlushColumns
  <2>4. /\ \A q \in Runs : continues'[q] \in Nat /\ continues[q] <= continues'[q]
        /\ \A q \in Runs \ {r} : runs'[q] = runs[q] /\ continues'[q] = continues[q]
        /\ runs'[r] = f
        /\ n.status # s.status /\ n.status = "QUEUED" => continues'[r] = continues[r] + 1
    <3>1. \A q \in Runs : continues'[q] \in Nat /\ continues[q] <= continues'[q]
      BY <1>1, <2>1, <2>2
    <3>. QED
      BY <1>1, <2>1, <2>2, <3>1
  <2>5. Sound(f, events[r], continues'[r], steps[r])
    <3>1. /\ runs[r].attempt \in Nat /\ runs[r].policy.maxRetries \in Nat
          /\ events[r].completed \in Nat
      BY <1>1, <2>1, RunColumns
    <3>2. n.status # s.status /\ n.status = "QUEUED" =>
              /\ runs[r].attempt <= runs[r].policy.maxRetries + continues'[r]
              /\ events[r].completed <= continues'[r]
      BY <1>1, <2>1, <2>4, <3>1 DEF Sound
    <3>. QED
      BY <1>1, <2>1, <2>2, <2>4, <3>2, SoundFlush
  <2>6. Respectful
    BY <1>1, <2>2, <2>3, <2>4, <2>5 DEF Respectful, Absent
  <2>. QED
    BY <2>1, <2>6, RespectfulKeeps
<1>8. CASE \E r, copy \in Runs : RetryRun(r, copy)
  <2>1. PICK r \in Runs, copy \in Runs : RetryRun(r, copy)
    BY <1>8
  <2>2. runs[r].policy \in Policies
    BY DEF TypeOK, Run
  <2>. QED
    BY <1>6, <2>1, <2>2 DEF RetryRun
<1>. QED
  BY <1>2, <1>3, <1>4, <1>5, <1>6, <1>7, <1>8 DEF Environment, Users, SubmitRun

LEMMA OutcomeInvariant ==
    ASSUME OneLoop
    PROVE  Spec => []OutcomeInv
<1>1. TypeOK /\ TypeOK' /\ OutcomeInv /\ [Next]_vars => OutcomeInv'
  <2>. SUFFICES ASSUME TypeOK, TypeOK', OutcomeInv, [Next]_vars
                PROVE  OutcomeInv'
    OBVIOUS
  <2>1. ASSUME NEW w \in Loops,
               LoopStep(w) \/ RegisterOffline(w) \/ Restart(w) \/ Fault(w)
        PROVE  OutcomeInv'
    BY <2>1, OneLoop, OutcomeCycle, OutcomeExecution, OutcomeRest DEF LoopStep, Fault
  <2>2. CASE UNCHANGED vars
    BY <2>2 DEF vars, tables, OutcomeInv, RunsAreSound, CycleCounts, ExecutionCounts
  <2>. QED
    BY <2>1, <2>2, OneLoop, OutcomeRest DEF Next
<1>. QED
  BY <1>1, OutcomeInit, TypeCorrect, PTL DEF Spec

\* With one runtime loop no run is started more often than its policy allows and its
\* user asks for: _handle_failure, handle_stale_heartbeats and continue_blocked_run
\* together keep dispatch_queued_run within the budget.
THEOREM RetriesStayInBudget ==
    ASSUME OneLoop
    PROVE  Spec => []RetryBudget
<1>1. TypeOK /\ OutcomeInv => RetryBudget
  BY DEF TypeOK, OutcomeInv, RunsAreSound, Sound, RetryBudget
<1>. QED
  BY <1>1, TypeCorrect, OutcomeInvariant, PTL

\* With one runtime loop complete_run publishes run.completed at most once, and once more
\* for each continuation, and a COMPLETED run has done every step of its plan.
THEOREM CompletionIsOnceAndWhole ==
    ASSUME OneLoop
    PROVE  Spec => []CompletedOnceAndWhole
<1>1. OutcomeInv => CompletedOnceAndWhole
  BY DEF OutcomeInv, RunsAreSound, Sound, CompletedOnceAndWhole
<1>. QED
  BY <1>1, OutcomeInvariant, PTL

-----------------------------------------------------------------------------
(* Ownership.  ExecutorOwnsRun and BlockedIsEscalated rest on one fact:    *)
(* what a loop or a request has read of a run that it may write is still   *)
(* true of the run when it writes, but for a cancellation.  A request to   *)
(* pause breaks that, for it blocks a run that the loop has dispatched     *)
(* since; so the theorems suppose that users do not pause.                 *)

NobodyPauses == "pause" \notin Ops

Fitting(row) == /\ Pending(row) => row.escalation = "none"
                /\ row.status = "BLOCKED" => row.escalation # "none"

EscalationsFit == \A r \in Runs : Fitting(runs[r])

\* What can have become of a status since it was read.
Stays(status, row) ==
    \/ row.status = status
    \/ row.status = "CANCELLED" /\ "cancel" \in Ops

CycleReads ==
    \A w \in Loops : pc[w] = "cycle" =>
        \A r \in Runs :
            LET seen == view[w].runs[r]
            IN  Pending(seen) =>
                    /\ Stays(seen.status, runs[r]) /\ runs[r].worker = seen.worker
                    /\ seen.escalation = "none" /\ runs[r].escalation = "none"

ExecutionReads ==
    \A w \in Loops : pc[w] \in Executing =>
        LET r == job[w].run
        IN  /\ Stays("RUNNING", runs[r])
            /\ runs[r].worker = job[w].as /\ runs[r].escalation = "none"
            /\ workers[job[w].as].status = "BUSY" /\ workers[job[w].as].active = r
            /\ pc[w] \in Settling =>
                   /\ view[w].status \in {"RUNNING", "CANCELLED"}
                   /\ Stays(view[w].status, runs[r]) /\ view[w].escalation = "none"

RequestReads ==
    request # Nothing =>
        /\ request.op \in Ops
        /\ request.op = "continue" =>
               /\ request.seen.status = "BLOCKED" /\ request.seen.escalation # "none"
               /\ runs[request.run].status = "BLOCKED"

OwnerInv == EscalationsFit /\ CycleReads /\ ExecutionReads /\ RequestReads

LEMMA OwnerInit == Init => OwnerInv
BY DEF Init, NewRun, OwnerInv, EscalationsFit, Fitting, Pending, CycleReads, ExecutionReads,
       RequestReads, Absent, Executing, Settling

\* The settling of stale runs keeps the escalations fitting, and the cycle's picture of
\* the runs that it leaves queued is true.
LEMMA StaleOwner ==
    ASSUME TypeOK, OwnerInv, NEW w \in Loops, pc[w] = "cycle", NEW r \in Runs
    PROVE  LET c == StaleSettled(view[w])[r]
               s == RunsSeen(view[w])[r]
           IN  /\ Fitting(c)
               /\ s.status = "QUEUED" => /\ c.worker = s.worker /\ c.escalation = "none"
                                         /\ s.escalation = "none"
                                         /\ runs[r].status # "BLOCKED"
               /\ runs[r].status = "BLOCKED" => c = runs[r]
<1>. DEFINE v == view[w]
            s == v.runs[r]
            n == StaleOutcome(s)
            f == Flush(runs[r], s, n)
<1>1. /\ v \in View /\ s \in Run /\ runs[r] \in Run /\ n \in Run /\ Fitting(runs[r])
      /\ Pending(s) => /\ Stays(s.status, runs[r]) /\ runs[r].worker = s.worker
                       /\ s.escalation = "none" /\ runs[r].escalation = "none"
  BY OutcomeTypes DEF TypeOK, View, OwnerInv, EscalationsFit, CycleReads
<1>2. CASE r \in StaleRuns(v)
  <2>1. StaleSettled(v)[r] = f /\ RunsSeen(v)[r] = n /\ s.status = "RUNNING"
    BY <1>2 DEF StaleSettled, RunsSeen, StaleRuns
  <2>2. /\ runs[r].worker = s.worker /\ s.escalation = "none"
        /\ runs[r].escalation = "none" /\ runs[r].status # "BLOCKED"
    BY <1>1, <2>1 DEF Pending, Stays
  <2>3. /\ n.status \in {"QUEUED", "FAILED", "BLOCKED"}
        /\ n.status = "BLOCKED" => n.escalation # "none"
        /\ n.status = "QUEUED" => n.escalation = "none"
    <3>1. CASE RetriesLeft(s)
      BY <1>1, <2>2, <3>1 DEF StaleOutcome, Requeued, Run
    <3>2. CASE ~RetriesLeft(s)
      BY <1>1, <2>2, <3>2 DEF StaleOutcome, Run
    <3>. QED
      BY <3>1, <3>2
  <2>4. /\ f.status = n.status /\ f.worker = n.worker /\ f.escalation = n.escalation
    BY <1>1, <2>1, <2>2, <2>3, FlushColumns
  <2>5. Fitting(f)
    BY <2>3, <2>4 DEF Fitting, Pending
  <2>6. /\ Fitting(StaleSettled(v)[r])
        /\ RunsSeen(v)[r].status = "QUEUED" =>
              /\ StaleSettled(v)[r].worker = RunsSeen(v)[r].worker
              /\ StaleSettled(v)[r].escalation = "none"
              /\ RunsSeen(v)[r].escalation = "none"
    <3>. HIDE DEF f, n
    <3>. QED
      BY <2>1, <2>3, <2>4, <2>5
  <2>. QED
    BY <2>2, <2>6
<1>3. CASE r \notin StaleRuns(v)
  BY <1>1, <1>3 DEF StaleSettled, RunsSeen, Pending, Stays
<1>. QED
  BY <1>2, <1>3

\* A dispatch assigns the run to its worker whatever is committed in the row.
LEMMA DispatchOwner ==
    ASSUME NEW c \in Run, NEW s \in Run, NEW x \in Workers,
           s.status = "QUEUED", c.worker = s.worker, c.escalation = "none"
    PROVE  /\ FlushDispatch(c, s, x).status = "RUNNING"
           /\ FlushDispatch(c, s, x).worker = x
           /\ FlushDispatch(c, s, x).escalation = "none"
<1>. DEFINE d == Dispatched(s, x)
            g == FlushDispatch(c, s, x)
<1>1. /\ d \in Run /\ d.status = "RUNNING" /\ d.worker = x /\ d.escalation = s.escalation
  BY DispatchedType DEF Dispatched, Run
<1>2. /\ g.status = Flush(c, s, d).status /\ g.worker = Flush(c, s, d).worker
      /\ g.escalation = Flush(c, s, d).escalation
  BY DEF FlushDispatch, Flush
<1>. QED
  BY <1>1, <1>2, FlushColumns

\* A failure that queues the run again leaves the escalation alone.
LEMMA FailureEscalation ==
    ASSUME NEW row \in Run
    PROVE  /\ FailureOutcome(row).status \in {"QUEUED", "FAILED"}
           /\ FailureOutcome(row).status = "QUEUED" =>
                 FailureOutcome(row).escalation = row.escalation
<1>1. CASE RetriesLeft(row)
  BY <1>1 DEF FailureOutcome, Requeued, Run
<1>2. CASE ~RetriesLeft(row)
  BY <1>2 DEF FailureOutcome, Run
<1>. QED
  BY <1>1, <1>2

LEMMA OwnerCycle ==
    ASSUME TypeOK, OwnerInv, OneLoop, NEW w \in Loops,
           \/ CycleBegin(w) \/ CycleIdle(w) \/ CycleDispatch(w) \/ CycleDeadlock(w)
           \/ CycleUnavailable(w) \/ RegisterOffline(w)
    PROVE  OwnerInv'
<1>. DEFINE v == view[w]
<1>1. /\ \A u \in Loops : u = w
      /\ pc \in [Loops -> Places] /\ runs \in [Runs -> Run]
      /\ view \in [Loops -> View \cup Run \cup {Nothing}]
      /\ job \in [Loops -> Job \cup {Nothing}]
      /\ pc[w] = "cycle" => v \in View
      /\ UNCHANGED request
      /\ request # Nothing => request \in Request /\ request.run \in Runs
  BY DEF OneLoop, TypeOK, CycleBegin, CycleIdle, CycleDispatch, CycleDeadlock,
         CycleUnavailable, RegisterOffline, Request
<1>2. CASE CycleBegin(w)
  <2>1. /\ runs' = runs /\ pc'[w] = "cycle" /\ view'[w].runs = runs
    BY <1>1, <1>2 DEF CycleBegin, Goto, Sees, tables
  <2>2. CycleReads'
    BY <1>1, <2>1 DEF OwnerInv, EscalationsFit, Fitting, CycleReads, Stays
  <2>. QED
    BY <1>1, <2>1, <2>2
    DEF OwnerInv, EscalationsFit, ExecutionReads, RequestReads, Executing, Settling
<1>3. CASE RegisterOffline(w)
  BY <1>1, <1>3
  DEF RegisterOffline, OwnerInv, EscalationsFit, CycleReads, ExecutionReads, RequestReads,
      Executing, Settling
<1>4. ASSUME pc[w] = "cycle"
      PROVE  /\ \A q \in Runs : Fitting(StaleSettled(v)[q])
             /\ \A q \in Runs : runs[q].status = "BLOCKED" =>
                   StaleSettled(v)[q] = runs[q] /\ RunsSeen(v)[q].status # "QUEUED"
  BY <1>4, StaleOwner
<1>5. CASE CycleIdle(w) \/ CycleDeadlock(w)
  <2>1. pc[w] = "cycle" /\ pc'[w] = "idle" /\ (runs' = runs \/ runs' = StaleSettled(v))
    BY <1>1, <1>5 DEF CycleIdle, CycleDeadlock, WaitsFor, EndIteration, Goto, tables
  <2>2. EscalationsFit'
    BY <1>4, <2>1 DEF OwnerInv, EscalationsFit
  <2>3. RequestReads'
    BY <1>1, <1>4, <2>1 DEF OwnerInv, RequestReads
  <2>. QED
    BY <1>1, <2>1, <2>2, <2>3
    DEF OwnerInv, CycleReads, ExecutionReads, Executing, Settling
<1>6. ASSUME NEW x \in FirstIdle(v), NEW r \in Candidates(v), pc[w] = "cycle"
      PROVE  LET f == FlushDispatch(StaleSettled(v)[r], RunsSeen(v)[r], x)
             IN  /\ r \in Runs /\ x \in Workers /\ f \in Run /\ RunsSeen(v)[r] \in Run
                 /\ f.status = "RUNNING" /\ f.worker = x /\ f.escalation = "none"
                 /\ RunsSeen(v)[r].escalation = "none" /\ RunsSeen(v)[r].status = "QUEUED"
                 /\ StaleSettled(v) \in [Runs -> Run] /\ StaleFreed(w, v) \in [Workers -> Worker]
  <2>1. /\ r \in Runs /\ x \in Workers /\ RunsSeen(v)[r] \in Run
        /\ StaleSettled(v) \in [Runs -> Run] /\ StaleSettled(v)[r] \in Run
        /\ StaleFreed(w, v) \in [Workers -> Worker]
    BY <1>1, <1>6, CycleTypes
  <2>2. RunsSeen(v)[r].status = "QUEUED"
    BY DEF Candidates
  <2>3. /\ StaleSettled(v)[r].worker = RunsSeen(v)[r].worker
        /\ StaleSettled(v)[r].escalation = "none" /\ RunsSeen(v)[r].escalation = "none"
    BY <1>6, <2>1, <2>2, StaleOwner
  <2>. DEFINE f == FlushDispatch(StaleSettled(v)[r], RunsSeen(v)[r], x)
  <2>4. f \in Run
    BY <2>1, FlushDispatchType
  <2>5. f.status = "RUNNING" /\ f.worker = x /\ f.escalation = "none"
    BY <2>1, <2>2, <2>3, DispatchOwner
  <2>. QED
    BY <2>1, <2>2, <2>3, <2>4, <2>5
<1>7. CASE CycleDispatch(w)
  <2>1. PICK x \in FirstIdle(v), r \in Candidates(v) :
              /\ runs' = [StaleSettled(v) EXCEPT ![r] = FlushDispatch(@, RunsSeen(v)[r], x)]
              /\ workers' = [StaleFreed(w, v) EXCEPT ![x] = Busy(@, r)]
              /\ job' = [job EXCEPT ![w] = [run |-> r, as |-> x, step |-> 1]]
    BY <1>7 DEF CycleDispatch
  <2>2. pc[w] = "cycle" /\ pc'[w] = "body"
    BY <1>1, <1>7 DEF CycleDispatch, Goto
  <2>. DEFINE f == FlushDispatch(StaleSettled(v)[r], RunsSeen(v)[r], x)
  <2>3. /\ r \in Runs /\ x \in Workers /\ RunsSeen(v)[r].status = "QUEUED"
        /\ f.status = "RUNNING" /\ f.worker = x /\ f.escalation = "none"
        /\ StaleSettled(v) \in [Runs -> Run] /\ StaleFreed(w, v) \in [Workers -> Worker]
    BY <1>6, <2>2
  <2>4. /\ runs'[r] = f /\ \A q \in Runs \ {r} : runs'[q] = StaleSettled(v)[q]
        /\ job'[w] = [run |-> r, as |-> x, step |-> 1]
        /\ workers'[x] = Busy(StaleFreed(w, v)[x], r)
    BY <1>1, <2>1, <2>3
  <2>5. workers'[x].status = "BUSY" /\ workers'[x].active = r
    BY <2>3, <2>4 DEF Busy, Worker
  <2>6. EscalationsFit'
    BY <1>4, <2>2, <2>3, <2>4 DEF EscalationsFit, Fitting, Pending
  <2>7. ExecutionReads'
    BY <1>1, <2>2, <2>3, <2>4, <2>5 DEF ExecutionReads, Stays, Settling
  <2>8. RequestReads'
    BY <1>1, <1>4, <2>2, <2>3, <2>4 DEF OwnerInv, RequestReads
  <2>. QED
    BY <1>1, <2>2, <2>6, <2>7, <2>8 DEF OwnerInv, CycleReads
<1>8. CASE CycleUnavailable(w)
  <2>. DEFINE seen(r, x) == Dispatched(RunsSeen(v)[r], x)
  <2>1. PICK x \in FirstIdle(v), r \in Candidates(v) :
            runs' = [StaleSettled(v) EXCEPT
                   ![r] = Flush(FlushDispatch(@, RunsSeen(v)[r], x), seen(r, x),
                                FailureOutcome(seen(r, x)))]
    BY <1>8 DEF CycleUnavailable
  <2>2. pc[w] = "cycle" /\ pc'[w] = "idle"
    BY <1>1, <1>8 DEF CycleUnavailable, EndIteration, Goto
  <2>. DEFINE f == FlushDispatch(StaleSettled(v)[r], RunsSeen(v)[r], x)
              d == Dispatched(RunsSeen(v)[r], x)
              n == FailureOutcome(d)
  <2>3. /\ r \in Runs /\ x \in Workers /\ RunsSeen(v)[r].status = "QUEUED"
        /\ RunsSeen(v)[r] \in Run /\ RunsSeen(v)[r].escalation = "none"
        /\ f \in Run /\ f.status = "RUNNING" /\ f.escalation = "none"
        /\ StaleSettled(v) \in [Runs -> Run]
    BY <1>6, <2>2
  <2>4. /\ d \in Run /\ d.status = "RUNNING" /\ d.escalation = "none"
    BY <2>3, DispatchedType DEF Dispatched, Run
  <2>5. /\ n \in Run /\ n.status \in {"QUEUED", "FAILED"}
        /\ n.status = "QUEUED" => n.escalation = "none"
    <3>. HIDE DEF d
    <3>. QED
      BY <2>4, OutcomeTypes, FailureEscalation
  <2>6. runs'[r] = Flush(f, d, n) /\ \A q \in Runs \ {r} : runs'[q] = StaleSettled(v)[q]
    BY <2>1, <2>3
  <2>7. Fitting(runs'[r])
    <3>. HIDE DEF f, d, n
    <3>. QED
      BY <2>3, <2>4, <2>5, <2>6, FlushColumns DEF Fitting, Pending
  <2>8. EscalationsFit'
    BY <1>4, <2>2, <2>6, <2>7 DEF EscalationsFit
  <2>9. RequestReads'
    BY <1>1, <1>4, <2>2, <2>3, <2>6 DEF OwnerInv, RequestReads
  <2>. QED
    BY <1>1, <2>2, <2>8, <2>9 DEF OwnerInv, CycleReads, ExecutionReads, Executing, Settling
<1>. QED
  BY <1>2, <1>3, <1>5, <1>7, <1>8

\* A heartbeat leaves the owner of every run as it is.
LEMMA HeartbeatOwner ==
    ASSUME TypeOK, NEW w \in Loops, pc[w] \in Executing, Heartbeat(w)
    PROVE  workers[job[w].as].status = "BUSY" =>
              /\ workers'[job[w].as].status = "BUSY"
              /\ workers'[job[w].as].active = workers[job[w].as].active
<1>1. job[w].as \in Workers /\ workers[job[w].as] \in Worker
  BY DEF TypeOK, Job
<1>2. workers'[job[w].as] = Beating(workers[job[w].as])
  BY <1>1 DEF Heartbeat, TypeOK
<1>. QED
  BY <1>1, <1>2 DEF Beating, Worker

LEMMA OwnerExecution ==
    ASSUME TypeOK, TypeOK', OwnerInv, OneLoop, NEW w \in Loops,
           \/ StartStep(w) \/ FinishStep(w) \/ RefuseStep(w) \/ FailStep(w) \/ BlockStep(w)
           \/ CompleteRun(w) \/ CompleteRefused(w) \/ HandleFailure(w) \/ MarkBlocked(w)
    PROVE  OwnerInv'
<1>. DEFINE r == job[w].run
            x == job[w].as
<1>1. /\ pc[w] \in Executing
      /\ \A u \in Loops : u = w
      /\ pc \in [Loops -> Places] /\ view \in [Loops -> View \cup Run \cup {Nothing}]
      /\ job \in [Loops -> Job \cup {Nothing}] /\ runs \in [Runs -> Run]
      /\ job[w] \in Job /\ r \in Runs /\ x \in Workers /\ runs[r] \in Run
      /\ UNCHANGED request
      /\ request # Nothing => request \in Request /\ request.run \in Runs
  BY DEF StartStep, FinishStep, RefuseStep, FailStep, BlockStep, StepEnds, CompleteRun,
         CompleteRefused, HandleFailure, MarkBlocked, TypeOK, Job, Executing, Settling,
         OneLoop, Request
<1>2. /\ Stays("RUNNING", runs[r]) /\ runs[r].worker = x /\ runs[r].escalation = "none"
      /\ workers[x].status = "BUSY" /\ workers[x].active = r
      /\ runs[r].status \in {"RUNNING", "CANCELLED"}
      /\ pc[w] \in Settling => /\ view[w] \in Run
                               /\ view[w].status \in {"RUNNING", "CANCELLED"}
                               /\ Stays(view[w].status, runs[r])
                               /\ view[w].escalation = "none"
  BY <1>1 DEF OwnerInv, ExecutionReads, Stays, TypeOK
\* A step that keeps the columns of every run, and its own worker.
<1>. DEFINE Kept == /\ \A q \in Runs : /\ runs'[q].status = runs[q].status
                                       /\ runs'[q].worker = runs[q].worker
                                       /\ runs'[q].escalation = runs[q].escalation
                    /\ workers'[x].status = "BUSY" /\ workers'[x].active = r
<1>3. Heartbeat(w) => Kept
  BY <1>1, <1>2, HeartbeatColumns, HeartbeatOwner
<1>4. UNCHANGED <<runs, workers>> => Kept
  BY <1>2
<1>5. ASSUME Kept, job'[w].run = r, job'[w].as = x, pc'[w] \in Executing,
             pc'[w] \in Settling => view'[w] = runs'[r]
      PROVE  OwnerInv'
  <2>1. EscalationsFit' /\ RequestReads'
    BY <1>1, <1>5
    DEF OwnerInv, EscalationsFit, Fitting, Pending, RequestReads
  <2>2. ExecutionReads'
    BY <1>1, <1>2, <1>5 DEF ExecutionReads, Stays
  <2>. QED
    BY <1>1, <1>5, <2>1, <2>2 DEF OwnerInv, CycleReads, Executing, Settling
<1>6. CASE StartStep(w) \/ FinishStep(w)
  <2>1. /\ Heartbeat(w) /\ job'[w].run = r /\ job'[w].as = x /\ pc'[w] \in Executing
        /\ pc'[w] \in Settling => view'[w] = runs'[r]
    BY <1>1, <1>6 DEF StartStep, FinishStep, Goto, Sees, Job, Executing, Settling
  <2>. QED
    BY <1>3, <1>5, <2>1
<1>7. CASE RefuseStep(w) \/ CompleteRefused(w)
  <2>1. /\ UNCHANGED <<runs, workers>> /\ job'[w].run = r /\ job'[w].as = x
        /\ pc'[w] \in Executing /\ view'[w] = runs'[r]
    BY <1>1, <1>7
    DEF RefuseStep, CompleteRefused, BeginFailure, Goto, Sees, tables, Executing, Settling
  <2>. QED
    BY <1>4, <1>5, <2>1
<1>8. CASE FailStep(w) \/ BlockStep(w)
  <2>1. /\ Heartbeat(w) \/ UNCHANGED <<runs, workers>>
        /\ job'[w].run = r /\ job'[w].as = x
        /\ pc'[w] \in Executing /\ view'[w] = runs'[r]
    BY <1>1, <1>8 DEF FailStep, BlockStep, StepEnds, Goto, Sees, Executing, Settling
  <2>. QED
    BY <1>3, <1>4, <1>5, <2>1
<1>9. ASSUME NEW row, Fitting(row), pc'[w] = "idle", runs' = [runs EXCEPT ![r] = row]
      PROVE  OwnerInv'
  <2>1. EscalationsFit'
    BY <1>1, <1>9 DEF OwnerInv, EscalationsFit
  <2>2. RequestReads'
    BY <1>1, <1>2, <1>9 DEF OwnerInv, RequestReads
  <2>. QED
    BY <1>1, <1>9, <2>1, <2>2 DEF OwnerInv, CycleReads, ExecutionReads, Executing, Settling
<1>10. CASE CompleteRun(w)
  <2>1. /\ pc[w] = "complete" /\ pc'[w] = "idle" /\ view[w].status = "RUNNING"
        /\ runs' = [runs EXCEPT ![r] = Flush(runs[r], view[w], Completed(view[w]))]
    BY <1>1, <1>10 DEF CompleteRun, CanComplete, Settle, EndIteration, Goto
  <2>2. Completed(view[w]) \in Run /\ Completed(view[w]).status = "COMPLETED" /\ view[w] \in Run
    BY <1>2, <2>1, OutcomeTypes DEF Completed, Run, Settling
  <2>3. Fitting(Flush(runs[r], view[w], Completed(view[w])))
    BY <1>1, <2>1, <2>2, FlushColumns DEF Fitting, Pending
  <2>. QED
    BY <1>9, <2>1, <2>3
<1>11. CASE HandleFailure(w)
  <2>1. /\ pc[w] = "fail" /\ pc'[w] = "idle"
        /\ runs' = [runs EXCEPT ![r] = Flush(runs[r], view[w], FailureOutcome(view[w]))]
    BY <1>1, <1>11 DEF HandleFailure, Settle, EndIteration, Goto
  <2>2. pc[w] \in Settling /\ view[w] \in Run /\ FailureOutcome(view[w]) \in Run
    BY <1>2, <2>1, OutcomeTypes DEF Settling
  <2>3. Fitting(Flush(runs[r], view[w], FailureOutcome(view[w])))
    BY <1>1, <1>2, <2>2, FlushColumns, FailureEscalation DEF Fitting, Pending
  <2>. QED
    BY <1>9, <2>1, <2>3
<1>12. CASE MarkBlocked(w)
  <2>1. /\ pc[w] = "block" /\ pc'[w] = "idle"
        /\ runs' = [runs EXCEPT ![r] = Flush(runs[r], view[w], BlockedOutcome(view[w]))]
    BY <1>1, <1>12 DEF MarkBlocked, Settle, EndIteration, Goto
  <2>2. /\ pc[w] \in Settling /\ view[w] \in Run /\ BlockedOutcome(view[w]) \in Run
        /\ BlockedOutcome(view[w]).status = "BLOCKED"
        /\ BlockedOutcome(view[w]).escalation = "blocked"
    <3>1. pc[w] \in Settling /\ view[w] \in Run
      BY <1>2, <2>1 DEF Settling
    <3>2. /\ BlockedOutcome(view[w]).status = "BLOCKED"
          /\ BlockedOutcome(view[w]).escalation = "blocked"
      BY <3>1 DEF BlockedOutcome, Run
    <3>. QED
      BY <3>1, <3>2, OutcomeTypes
  <2>3. Fitting(Flush(runs[r], view[w], BlockedOutcome(view[w])))
    BY <1>1, <1>2, <2>2, FlushColumns DEF Fitting, Pending
  <2>. QED
    BY <1>9, <2>1, <2>3
<1>. QED
  BY <1>6, <1>7, <1>8, <1>10, <1>11, <1>12

LEMMA OwnerRest ==
    ASSUME TypeOK, TypeOK', OwnerInv, OneLoop, NobodyPauses,
           \/ \E w \in Loops : Abort(w) \/ Crash(w) \/ Restart(w)
           \/ Environment
           \/ Users
    PROVE  OwnerInv'
<1>1. /\ runs \in [Runs -> Run] /\ workers \in [Workers -> Worker]
      /\ pc \in [Loops -> Places] /\ view \in [Loops -> View \cup Run \cup {Nothing}]
      /\ job \in [Loops -> Job \cup {Nothing}]
      /\ \A q \in Runs : runs[q] \in Run
      /\ \A w \in Loops : pc[w] \in Executing =>
            job[w] \in Job /\ job[w].run \in Runs /\ job[w].as \in Workers
      /\ request # Nothing =>
            request \in Request /\ request.run \in Runs /\ request.seen \in Run
  BY DEF TypeOK, Job, Request
<1>2. ASSUME NEW w \in Loops, Abort(w)
      PROVE  OwnerInv'
  <2>1. UNCHANGED <<runs, workers, request>> /\ \A u \in Loops : u = w
    BY <1>2 DEF Abort, tables, OneLoop
  <2>2. EscalationsFit' /\ RequestReads'
    BY <2>1 DEF OwnerInv, EscalationsFit, RequestReads
  <2>3. CASE pc[w] \in {"start", "body", "complete"} /\ BeginFailure(w) /\ job' = job
    <3>1. pc'[w] = "fail" /\ view'[w] = runs[job[w].run] /\ pc[w] \in Executing
      BY <1>1, <2>3 DEF BeginFailure, Goto, Sees, Executing, Settling
    <3>2. ExecutionReads'
      BY <2>1, <2>3, <3>1 DEF OwnerInv, ExecutionReads, Stays
    <3>. QED
      BY <2>1, <2>2, <3>1, <3>2 DEF OwnerInv, CycleReads
  <2>4. CASE pc[w] \in {"cycle", "fail", "block"} /\ EndIteration(w)
    <3>1. pc'[w] = "idle"
      BY <1>1, <2>4 DEF EndIteration, Goto
    <3>. QED
      BY <2>1, <2>2, <3>1 DEF OwnerInv, CycleReads, ExecutionReads, Executing, Settling
  <2>. QED
    BY <1>2, <2>3, <2>4 DEF Abort
<1>3. ASSUME NEW w \in Loops, Crash(w) \/ Restart(w)
      PROVE  OwnerInv'
  <2>1. /\ UNCHANGED <<runs, workers, request>> /\ \A u \in Loops : u = w
        /\ pc'[w] \in {"down", "idle"}
    BY <1>1, <1>3 DEF Crash, Restart, Goto, tables, OneLoop
  <2>. QED
    BY <2>1
    DEF OwnerInv, EscalationsFit, RequestReads, CycleReads, ExecutionReads, Executing, Settling
<1>4. CASE CodexFails \/ CodexRecovers
  BY <1>4
  DEF CodexFails, CodexRecovers, tables, OwnerInv, EscalationsFit, RequestReads, CycleReads,
      ExecutionReads
<1>5. ASSUME NEW x \in Workers, WorkerAges(x)
      PROVE  OwnerInv'
  <2>1. /\ UNCHANGED <<runs, pc, view, job, request>>
        /\ \A y \in Workers : workers'[y].status = workers[y].status
                              /\ workers'[y].active = workers[y].active
    BY <1>1, <1>5 DEF WorkerAges, Worker
  <2>. QED
    BY <1>1, <2>1 DEF OwnerInv, EscalationsFit, RequestReads, CycleReads, ExecutionReads
<1>6. ASSUME NEW r \in Runs, RunAges(r)
      PROVE  OwnerInv'
  <2>1. /\ UNCHANGED <<workers, pc, view, job, request>>
        /\ \A q \in Runs : /\ runs'[q].status = runs[q].status
                           /\ runs'[q].worker = runs[q].worker
                           /\ runs'[q].escalation = runs[q].escalation
    BY <1>1, <1>6 DEF RunAges, Run
  <2>. QED
    BY <1>1, <2>1
    DEF OwnerInv, EscalationsFit, Fitting, Pending, RequestReads, CycleReads, ExecutionReads,
        Stays
\* A step that rewrites a run which no loop and no request has read as its own.
<1>7. ASSUME NEW r \in Runs, NEW row, Fitting(row), runs' = [runs EXCEPT ![r] = row],
             runs[r].status \notin {"QUEUED", "RUNNING", "CANCELLED"},
             UNCHANGED <<workers, pc, view, job>>,
             \/ request' = Nothing
             \/ UNCHANGED request /\ runs[r].status # "BLOCKED"
      PROVE  OwnerInv'
  <2>1. EscalationsFit'
    BY <1>1, <1>7 DEF OwnerInv, EscalationsFit
  <2>2. RequestReads'
    BY <1>1, <1>7 DEF OwnerInv, RequestReads
  <2>3. CycleReads'
    BY <1>1, <1>7 DEF OwnerInv, CycleReads, Stays, Pending
  <2>4. ExecutionReads'
    BY <1>1, <1>7 DEF OwnerInv, ExecutionReads, Stays
  <2>. QED
    BY <2>1, <2>2, <2>3, <2>4 DEF OwnerInv
<1>8. ASSUME NEW r \in Runs, NEW policy \in Policies, Insert(r, policy)
      PROVE  OwnerInv'
  <2>1. Fitting(NewRun(policy))
    BY DEF NewRun, Fitting, Pending
  <2>. QED
    BY <1>7, <1>8, <2>1 DEF Insert, Absent
<1>9. ASSUME NEW op \in {"pause", "continue", "cancel"}, NEW r \in Runs, ReceiveRequest(op, r)
      PROVE  OwnerInv'
  <2>1. /\ UNCHANGED <<runs, workers, pc, view, job>>
        /\ op \in Ops /\ request' = [op |-> op, run |-> r, seen |-> runs[r]]
        /\ op = "continue" => runs[r].status = "BLOCKED"
    BY <1>9 DEF ReceiveRequest, tables
  <2>2. RequestReads'
    BY <2>1 DEF OwnerInv, EscalationsFit, Fitting, RequestReads
  <2>. QED
    BY <2>1, <2>2 DEF OwnerInv, EscalationsFit, CycleReads, ExecutionReads
<1>10. ~PauseRun
  BY DEF PauseRun, ServeRequest, OwnerInv, RequestReads, NobodyPauses
<1>11. CASE CancelRun
  <2>. DEFINE r == request.run
              s == request.seen
  <2>1. /\ r \in Runs /\ s \in Run /\ runs[r] \in Run /\ "cancel" \in Ops
        /\ UNCHANGED <<workers, pc, view, job>> /\ request' = Nothing
        /\ runs' = [runs EXCEPT ![r] = Flush(@, s, Cancelled(s))]
    BY <1>1, <1>11 DEF CancelRun, ServeRequest, OwnerInv, RequestReads
  <2>2. /\ Cancelled(s) \in Run /\ Cancelled(s).status = "CANCELLED"
        /\ Cancelled(s).worker = s.worker /\ Cancelled(s).escalation = s.escalation
    BY <2>1, OutcomeTypes DEF Cancelled, Run
  <2>3. /\ runs'[r].status \in {"CANCELLED", runs[r].status}
        /\ runs'[r].worker = runs[r].worker /\ runs'[r].escalation = runs[r].escalation
        /\ \A q \in Runs \ {r} : runs'[q] = runs[q]
    BY <1>1, <2>1, <2>2, FlushColumns
  <2>4. EscalationsFit' /\ RequestReads'
    BY <2>1, <2>3 DEF OwnerInv, EscalationsFit, Fitting, Pending, RequestReads
  <2>5. CycleReads'
    BY <2>1, <2>3 DEF OwnerInv, CycleReads, Stays
  <2>6. ExecutionReads'
    BY <1>1, <2>1, <2>3 DEF OwnerInv, ExecutionReads, Stays
  <2>. QED
    BY <2>4, <2>5, <2>6 DEF OwnerInv
<1>12. CASE ContinueRun
  <2>. DEFINE r == request.run
              s == request.seen
  <2>1. /\ r \in Runs /\ s \in Run /\ runs[r] \in Run
        /\ s.status = "BLOCKED" /\ s.escalation # "none" /\ runs[r].status = "BLOCKED"
        /\ UNCHANGED <<workers, pc, view, job>> /\ request' = Nothing
        /\ runs' = [runs EXCEPT ![r] = Flush(runs[r], s, Continued(s))]
    BY <1>1, <1>12 DEF ContinueRun, ServeRequest, OwnerInv, RequestReads
  <2>2. /\ Continued(s) \in Run /\ Continued(s).status = "QUEUED"
        /\ Continued(s).escalation = "none"
    <3>1. Continued(s).status = "QUEUED" /\ Continued(s).escalation = "none"
      BY <2>1 DEF Continued, Run
    <3>. QED
      BY <2>1, <3>1, OutcomeTypes
  <2>3. Fitting(Flush(runs[r], s, Continued(s)))
    BY <2>1, <2>2, FlushColumns DEF Fitting, Pending
  <2>. QED
    BY <1>7, <2>1, <2>3
<1>13. CASE \E r, copy \in Runs : RetryRun(r, copy)
  <2>1. PICK r \in Runs, copy \in Runs : RetryRun(r, copy)
    BY <1>13
  <2>2. runs[r].policy \in Policies
    BY <1>1 DEF Run
  <2>. QED
    BY <1>8, <2>1, <2>2 DEF RetryRun
<1>. QED
  BY <1>2, <1>3, <1>4, <1>5, <1>6, <1>8, <1>9, <1>10, <1>11, <1>12, <1>13
  DEF Environment, Users, SubmitRun

LEMMA OwnerInvariant ==
    ASSUME OneLoop, NobodyPauses
    PROVE  Spec => []OwnerInv
<1>1. TypeOK /\ TypeOK' /\ OwnerInv /\ [Next]_vars => OwnerInv'
  <2>. SUFFICES ASSUME TypeOK, TypeOK', OwnerInv, [Next]_vars
                PROVE  OwnerInv'
    OBVIOUS
  <2>1. ASSUME NEW w \in Loops,
               LoopStep(w) \/ RegisterOffline(w) \/ Restart(w) \/ Fault(w)
        PROVE  OwnerInv'
    BY <2>1, OneLoop, NobodyPauses, OwnerCycle, OwnerExecution, OwnerRest
    DEF LoopStep, Fault
  <2>2. CASE UNCHANGED vars
    BY <2>2 DEF vars, tables, OwnerInv, EscalationsFit, CycleReads, ExecutionReads,
                RequestReads
  <2>. QED
    BY <2>1, <2>2, OneLoop, NobodyPauses, OwnerRest DEF Next
<1>. QED
  BY <1>1, OwnerInit, TypeCorrect, PTL DEF Spec

\* With one runtime loop and users who do not pause, the run that the loop executes is
\* RUNNING or cancelled, assigned to the worker that is BUSY with it, until the loop
\* settles it: no stale heartbeat, crash, outage or continuation takes it away.
THEOREM ExecutorOwnsItsRun ==
    ASSUME OneLoop, NobodyPauses
    PROVE  Spec => []ExecutorOwnsRun
<1>1. OwnerInv => ExecutorOwnsRun
  BY DEF OwnerInv, ExecutionReads, ExecutorOwnsRun, Stays
<1>. QED
  BY <1>1, OwnerInvariant, PTL

\* With one runtime loop and users who do not pause, every BLOCKED run has an
\* escalation_reason, whichever of handle_stale_heartbeats and _mark_blocked wrote it.
THEOREM BlockedRunsAreEscalated ==
    ASSUME OneLoop, NobodyPauses
    PROVE  Spec => []BlockedIsEscalated
<1>1. OwnerInv => BlockedIsEscalated
  BY DEF OwnerInv, EscalationsFit, Fitting, BlockedIsEscalated
<1>. QED
  BY <1>1, OwnerInvariant, PTL

-----------------------------------------------------------------------------
(* The refinement of RunLifecycle.  A cancellation or a pause that lands   *)
(* after its run has moved on writes a status that the table does not      *)
(* allow from there; without them every status that is written replaces    *)
(* the one that was read.                                                  *)

NobodyInterrupts == Ops \subseteq {"continue", "retry"}

Moves(row, new) ==
    \/ new.status = row.status
    \/ new.status \in Lifecycle!CommittedTransitions(row.status)

\* A step that moves every run along an edge is a step of the lifecycle.
LEMMA EveryRunMoves ==
    ASSUME TypeOK', \A q \in Runs : Moves(runs[q], runs'[q])
    PROVE  Lifecycle!LifecycleNext
<1>1. [q \in Runs |-> runs'[q].status] \in [Runs -> Lifecycle!Statuses \cup {Lifecycle!Absent}]
  BY DEF TypeOK, Run, Statuses, Absent, Lifecycle!Statuses, Lifecycle!Absent
<1>2. Lifecycle!MoveRuns
  BY <1>1 DEF Moves, Lifecycle!MoveRuns
<1>. QED
  BY <1>2 DEF Lifecycle!LifecycleNext

\* What a cycle settles was RUNNING, and what it dispatches was QUEUED or is RUNNING again.
LEMMA StaleMoves ==
    ASSUME TypeOK, OwnerInv, NobodyInterrupts, NEW w \in Loops, pc[w] = "cycle",
           NEW r \in Runs
    PROVE  /\ Moves(runs[r], StaleSettled(view[w])[r])
           /\ RunsSeen(view[w])[r].status = "QUEUED" => runs[r].status \in {"QUEUED", "RUNNING"}
<1>. DEFINE v == view[w]
            s == v.runs[r]
            n == StaleOutcome(s)
<1>1. /\ v \in View /\ s \in Run /\ runs[r] \in Run /\ n \in Run
      /\ Pending(s) => runs[r].status = s.status
  BY OutcomeTypes DEF TypeOK, View, OwnerInv, CycleReads, Stays, NobodyInterrupts
<1>2. CASE r \in StaleRuns(v)
  <2>1. StaleSettled(v)[r] = Flush(runs[r], s, n) /\ s.status = "RUNNING"
    BY <1>2 DEF StaleSettled, StaleRuns
  <2>2. n.status \in {"QUEUED", "FAILED", "BLOCKED"}
    BY <1>1, OutcomeColumns
  <2>3. runs[r].status = "RUNNING"
    BY <1>1, <2>1 DEF Pending
  <2>4. StaleSettled(v)[r].status = n.status
    BY <1>1, <2>1, <2>2, FlushColumns
  <2>. QED
    BY <2>2, <2>3, <2>4
    DEF Moves, Lifecycle!CommittedTransitions, Lifecycle!RunStatusTransitions
<1>3. CASE r \notin StaleRuns(v)
  BY <1>1, <1>3 DEF StaleSettled, RunsSeen, Pending, Moves
<1>. QED
  BY <1>2, <1>3

LEMMA CycleRefines ==
    ASSUME TypeOK, TypeOK', OwnerInv, NobodyInterrupts, NEW w \in Loops,
           \/ CycleBegin(w) \/ CycleIdle(w) \/ CycleDispatch(w) \/ CycleDeadlock(w)
           \/ CycleUnavailable(w) \/ RegisterOffline(w)
    PROVE  \A q \in Runs : Moves(runs[q], runs'[q])
<1>. DEFINE v == view[w]
<1>1. pc[w] = "cycle" => v \in View
  BY DEF TypeOK
<1>2. CASE CycleBegin(w) \/ CycleIdle(w) \/ CycleDeadlock(w) \/ RegisterOffline(w)
  <2>1. runs' = runs \/ (pc[w] = "cycle" /\ runs' = StaleSettled(v))
    BY <1>2 DEF CycleBegin, CycleIdle, CycleDeadlock, RegisterOffline, tables
  <2>. QED
    BY <2>1, StaleMoves DEF Moves
<1>3. ASSUME NEW x \in FirstIdle(v), NEW r \in Candidates(v), pc[w] = "cycle",
             NEW row, runs' = [StaleSettled(v) EXCEPT ![r] = row],
             row.status \in {"RUNNING", "FAILED", "QUEUED"}
      PROVE  \A q \in Runs : Moves(runs[q], runs'[q])
  <2>1. r \in Runs /\ StaleSettled(v) \in [Runs -> Run] /\ RunsSeen(v)[r].status = "QUEUED"
    BY <1>1, <1>3, CycleTypes DEF Candidates
  <2>2. Moves(runs[r], row)
    <3>1. runs[r].status \in {"QUEUED", "RUNNING"}
      BY <1>3, <2>1, StaleMoves
    <3>. QED
      BY <1>3, <3>1
      DEF Moves, Lifecycle!CommittedTransitions, Lifecycle!RunStatusTransitions
  <2>. QED
    BY <1>3, <2>1, <2>2, StaleMoves
<1>4. CASE CycleDispatch(w)
  <2>1. PICK x \in FirstIdle(v), r \in Candidates(v) :
            runs' = [StaleSettled(v) EXCEPT ![r] = FlushDispatch(@, RunsSeen(v)[r], x)]
    BY <1>4 DEF CycleDispatch
  <2>2. pc[w] = "cycle"
    BY <1>4 DEF CycleDispatch
  <2>. DEFINE f == FlushDispatch(StaleSettled(v)[r], RunsSeen(v)[r], x)
  <2>3. f.status = "RUNNING"
    <3>1. /\ RunsSeen(v)[r] \in Run /\ StaleSettled(v)[r] \in Run /\ x \in Workers
          /\ RunsSeen(v)[r].status = "QUEUED"
      BY <1>1, <2>2, CycleTypes DEF Candidates
    <3>2. /\ Dispatched(RunsSeen(v)[r], x) \in Run
          /\ Dispatched(RunsSeen(v)[r], x).status = "RUNNING"
      BY <3>1, DispatchedType DEF Dispatched, Run
    <3>. QED
      BY <3>1, <3>2 DEF FlushDispatch, Flush
  <2>4. runs' = [StaleSettled(v) EXCEPT ![r] = f]
    BY <2>1
  <2>. QED
    BY <1>3, <2>2, <2>3, <2>4
<1>5. CASE CycleUnavailable(w)
  <2>. DEFINE seen(r, x) == Dispatched(RunsSeen(v)[r], x)
  <2>1. PICK x \in FirstIdle(v), r \in Candidates(v) :
            runs' = [StaleSettled(v) EXCEPT
                   ![r] = Flush(FlushDispatch(@, RunsSeen(v)[r], x), seen(r, x),
                                FailureOutcome(seen(r, x)))]
    BY <1>5 DEF CycleUnavailable
  <2>2. pc[w] = "cycle"
    BY <1>5 DEF CycleUnavailable
  <2>. DEFINE d == Dispatched(RunsSeen(v)[r], x)
              g == FlushDispatch(StaleSettled(v)[r], RunsSeen(v)[r], x)
              f == Flush(g, d, FailureOutcome(d))
  <2>3. f.status \in {"QUEUED", "FAILED"}
    <3>1. RunsSeen(v)[r] \in Run /\ StaleSettled(v)[r] \in Run /\ x \in Workers
      BY <1>1, <2>2, CycleTypes
    <3>2. d \in Run /\ d.status = "RUNNING"
      BY <3>1, DispatchedType DEF Dispatched, Run
    <3>3. FailureOutcome(d).status \in {"QUEUED", "FAILED"}
      BY <3>2, OutcomeColumns
    <3>. QED
      BY <3>2, <3>3 DEF Flush
  <2>4. runs' = [StaleSettled(v) EXCEPT ![r] = f]
    BY <2>1
  <2>. QED
    BY <1>3, <2>2, <2>3, <2>4
<1>. QED
  BY <1>2, <1>4, <1>5

LEMMA ExecutionRefines ==
    ASSUME TypeOK, TypeOK', OwnerInv, NobodyInterrupts, NEW w \in Loops,
           \/ StartStep(w) \/ FinishStep(w) \/ RefuseStep(w) \/ FailStep(w) \/ BlockStep(w)
           \/ CompleteRun(w) \/ CompleteRefused(w) \/ HandleFailure(w) \/ MarkBlocked(w)
    PROVE  \A q \in Runs : Moves(runs[q], runs'[q])
<1>. DEFINE r == job[w].run
<1>1. /\ pc[w] \in Executing /\ r \in Runs /\ runs[r] \in Run /\ runs \in [Runs -> Run]
      /\ runs[r].status = "RUNNING"
      /\ pc[w] \in Settling => view[w] \in Run /\ view[w].status = "RUNNING"
  BY DEF StartStep, FinishStep, RefuseStep, FailStep, BlockStep, StepEnds, CompleteRun,
         CompleteRefused, HandleFailure, MarkBlocked, TypeOK, Job, Executing, Settling,
         OwnerInv, ExecutionReads, Stays, NobodyInterrupts
<1>2. CASE StartStep(w) \/ FinishStep(w) \/ FailStep(w) \/ BlockStep(w)
  <2>1. Heartbeat(w) \/ UNCHANGED runs
    BY <1>2 DEF StartStep, FinishStep, FailStep, BlockStep, StepEnds
  <2>. QED
    BY <2>1, HeartbeatColumns DEF Moves
<1>3. CASE RefuseStep(w) \/ CompleteRefused(w)
  BY <1>3 DEF RefuseStep, CompleteRefused, tables, Moves
<1>4. ASSUME NEW n \in Run, pc[w] \in Settling,
             n.status \in {"COMPLETED", "FAILED", "BLOCKED", "QUEUED"},
             runs' = [runs EXCEPT ![r] = Flush(runs[r], view[w], n)]
      PROVE  \A q \in Runs : Moves(runs[q], runs'[q])
  <2>1. runs'[r].status = n.status
    BY <1>1, <1>4 DEF Flush
  <2>2. Moves(runs[r], runs'[r])
    BY <1>1, <1>4, <2>1
    DEF Moves, Lifecycle!CommittedTransitions, Lifecycle!RunStatusTransitions
  <2>. QED
    BY <1>1, <1>4, <2>2 DEF Moves
<1>5. CASE CompleteRun(w)
  <2>1. /\ pc[w] \in Settling
        /\ runs' = [runs EXCEPT ![r] = Flush(runs[r], view[w], Completed(view[w]))]
    BY <1>5 DEF CompleteRun, Settling
  <2>2. Completed(view[w]).status = "COMPLETED"
    BY <1>1, <2>1 DEF Completed, Run
  <2>. QED
    BY <1>1, <1>4, <2>1, <2>2, OutcomeTypes
<1>6. CASE HandleFailure(w)
  <2>1. /\ pc[w] \in Settling
        /\ runs' = [runs EXCEPT ![r] = Flush(runs[r], view[w], FailureOutcome(view[w]))]
    BY <1>6 DEF HandleFailure, Settling
  <2>2. FailureOutcome(view[w]).status \in {"QUEUED", "FAILED"}
    BY <1>1, <2>1, OutcomeColumns
  <2>. QED
    BY <1>1, <1>4, <2>1, <2>2, OutcomeTypes
<1>7. CASE MarkBlocked(w)
  <2>1. /\ pc[w] \in Settling
        /\ runs' = [runs EXCEPT ![r] = Flush(runs[r], view[w], BlockedOutcome(view[w]))]
    BY <1>7 DEF MarkBlocked, Settling
  <2>2. BlockedOutcome(view[w]).status = "BLOCKED"
    BY <1>1, <2>1 DEF BlockedOutcome, Run
  <2>. QED
    BY <1>1, <1>4, <2>1, <2>2, OutcomeTypes
<1>. QED
  BY <1>2, <1>3, <1>5, <1>6, <1>7

LEMMA RestRefines ==
    ASSUME TypeOK, TypeOK', OwnerInv, NobodyInterrupts,
           \/ \E w \in Loops : Abort(w) \/ Crash(w) \/ Restart(w)
           \/ Environment
           \/ Users
    PROVE  Lifecycle!LifecycleNext
<1>1. ASSUME UNCHANGED runs
      PROVE  Lifecycle!LifecycleNext
  BY <1>1, EveryRunMoves DEF Moves
<1>2. CASE \/ \E w \in Loops : Abort(w) \/ Crash(w) \/ Restart(w)
           \/ CodexFails \/ CodexRecovers \/ \E x \in Workers : WorkerAges(x)
           \/ \E op \in {"pause", "continue", "cancel"}, r \in Runs : ReceiveRequest(op, r)
  BY <1>1, <1>2
  DEF Abort, Crash, Restart, CodexFails, CodexRecovers, WorkerAges, ReceiveRequest, tables
<1>3. ASSUME NEW r \in Runs, RunAges(r)
      PROVE  Lifecycle!LifecycleNext
  <2>1. \A q \in Runs : runs'[q].status = runs[q].status
    BY <1>3 DEF RunAges, TypeOK, Run
  <2>. QED
    BY <2>1, EveryRunMoves DEF Moves
<1>4. ASSUME NEW r \in Runs, NEW policy \in Policies, Insert(r, policy)
      PROVE  Lifecycle!LifecycleNext
  <2>1. /\ runs[r].status = "ABSENT" /\ runs' = [runs EXCEPT ![r] = NewRun(policy)]
        /\ NewRun(policy).status = "QUEUED" /\ runs \in [Runs -> Run]
    BY <1>4 DEF Insert, NewRun, TypeOK, Absent
  <2>2. [q \in Runs |-> runs'[q].status] =
            [[q \in Runs |-> runs[q].status] EXCEPT ![r] = "QUEUED"]
    BY <2>1
  <2>3. Lifecycle!SubmitRun(r)
    BY <2>1, <2>2 DEF Lifecycle!SubmitRun, Lifecycle!Absent
  <2>. QED
    BY <2>3 DEF Lifecycle!LifecycleNext
<1>5. ~PauseRun /\ ~CancelRun
  BY DEF PauseRun, CancelRun, ServeRequest, OwnerInv, RequestReads, NobodyInterrupts
<1>6. CASE ContinueRun
  <2>. DEFINE r == request.run
              s == request.seen
  <2>1. /\ request \in Request /\ r \in Runs /\ s \in Run /\ runs \in [Runs -> Run]
        /\ s.status = "BLOCKED" /\ runs[r].status = "BLOCKED"
        /\ runs' = [runs EXCEPT ![r] = Flush(runs[r], s, Continued(s))]
    BY <1>6 DEF ContinueRun, ServeRequest, OwnerInv, RequestReads, TypeOK, Request
  <2>2. Continued(s).status = "QUEUED"
    BY <2>1 DEF Continued, Run
  <2>3. runs'[r].status = "QUEUED" /\ \A q \in Runs \ {r} : runs'[q] = runs[q]
    BY <2>1, <2>2 DEF Flush
  <2>4. \A q \in Runs : Moves(runs[q], runs'[q])
    BY <2>1, <2>3
    DEF Moves, Lifecycle!CommittedTransitions, Lifecycle!RunStatusTransitions
  <2>. QED
    BY <2>4, EveryRunMoves
<1>7. CASE \E r, copy \in Runs : RetryRun(r, copy)
  <2>1. PICK r \in Runs, copy \in Runs : RetryRun(r, copy)
    BY <1>7
  <2>2. runs[r].policy \in Policies
    BY DEF TypeOK, Run
  <2>. QED
    BY <1>4, <2>1, <2>2 DEF RetryRun
<1>. QED
  BY <1>2, <1>3, <1>4, <1>5, <1>6, <1>7 DEF Environment, Users, SubmitRun

\* With one runtime loop and users who neither pause nor cancel, the committed statuses
\* move along RUN_STATUS_TRANSITIONS only, although _handle_failure and the stale
\* handling assign them without transition_run_status.
THEOREM StatusesFollowTheLifecycle ==
    ASSUME OneLoop, NobodyInterrupts
    PROVE  Spec => StatusTransitionsAllowed
<1>1. Init => Lifecycle!LifecycleInit
  BY DEF Init, NewRun, Lifecycle!LifecycleInit, Absent, Lifecycle!Absent
<1>2. TypeOK /\ TypeOK' /\ OwnerInv /\ [Next]_vars =>
          [Lifecycle!LifecycleNext]_([r \in Runs |-> runs[r].status])
  <2>. SUFFICES ASSUME TypeOK, TypeOK', OwnerInv, [Next]_vars
                PROVE  \/ Lifecycle!LifecycleNext
                       \/ UNCHANGED [r \in Runs |-> runs[r].status]
    OBVIOUS
  <2>1. ASSUME NEW w \in Loops,
               LoopStep(w) \/ RegisterOffline(w) \/ Restart(w) \/ Fault(w)
        PROVE  Lifecycle!LifecycleNext
    BY <2>1, NobodyInterrupts, CycleRefines, ExecutionRefines, RestRefines, EveryRunMoves
    DEF LoopStep, Fault
  <2>2. CASE UNCHANGED vars
    BY <2>2 DEF vars, tables
  <2>. QED
    BY <2>1, <2>2, NobodyInterrupts, RestRefines DEF Next
<1>3. NobodyPauses
  BY NobodyInterrupts DEF NobodyInterrupts, NobodyPauses
<1>. QED
  BY <1>1, <1>2, <1>3, OneLoop, TypeCorrect, OwnerInvariant, PTL
  DEF Spec, StatusTransitionsAllowed, Lifecycle!LifecycleSpec
=============================================================================
