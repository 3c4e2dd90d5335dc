---------------------------- MODULE MissionStore ----------------------------
(***************************************************************************)
(* One mission of the Cloudflare coordinator: the Durable Object           *)
(* AriaMissionStore of src/cloudflare-autonomy/worker.mjs, as it runs when *)
(* mission execution is not paused, with its workers, the remote planner,  *)
(* the people who decide, and its alarm.                                   *)
(*                                                                         *)
(* exclusive() runs one handler at a time, so a handler is one action.     *)
(* But every storage.put of a handler is durable on its own: a crash may   *)
(* cut it short after any of them.  A handler is therefore described by    *)
(* the storage it leaves at its end and by the set of storages a crash can *)
(* leave behind (Done, Then, Both).                                        *)
(*                                                                         *)
(* createJob returns the active job of the same operation and task if      *)
(* there is one, and recovery looks at the newest job of a task only, so   *)
(* the store keeps the newest job of each operation and task.  A call      *)
(* under any lease but the last one of its job is refused and changes      *)
(* nothing, so only the holder of the last lease is kept.                  *)
(***************************************************************************)
EXTENDS Integers, FiniteSets

CONSTANTS
    NumTasks,      \* tasks the mission can have, in the order of mission.tasks
    NumPlanned,    \* the first of them are planned, the others replace failed ones
    DependsOn,     \* DependsOn[t]: the tasks t waits for
    Gated,         \* tasks that requiresApproval: irreversible, or beyond the policy
    Idempotent,    \* tasks planned as idempotent
    ReadBack,      \* ReadBack[t]: the task that reads what t writes, or NoTask
    MaxAttempts,   \* max_attempts of every task
    MaxLeases,     \* bound: leases granted on one job
    MaxResumes,    \* bound: resume requests
    MaxCrashes     \* bound: handlers cut short

Task == 1 .. NumTasks
Planned == 1 .. NumPlanned
NoTask == 0
MaxReplans == 2

\* The jobs: one of each task, and those of the mission itself.
Plan == NumTasks + 1
Replan == NumTasks + 2
Verify == NumTasks + 3
Key == Task \cup {Plan, Replan, Verify}

ASSUME MissionStoreAssumption ==
    /\ NumTasks \in Nat \ {0}
    /\ NumPlanned \in 1 .. NumTasks
    /\ DependsOn \in [Task -> SUBSET Planned]
    /\ \A t \in Task : \A d \in DependsOn[t] : d < t
    /\ Gated \subseteq Task
    /\ Idempotent \subseteq Task
    /\ ReadBack \in [Task -> Task \cup {NoTask}]
    /\ MaxAttempts \in 1 .. 3
    /\ MaxLeases \in Nat
    /\ MaxResumes \in Nat
    /\ MaxCrashes \in Nat

VARIABLES
    store,      \* the storage: the mission, its newest jobs, the alarm
    holders,    \* jobs whose last lease is in the hands of a worker
    replays,    \* history: replays[t] replays of t that people authorized
    resumes,
    crashes

vars == <<store, holders, replays, resumes, crashes>>

TaskRecord ==
    [status : {"absent", "pending", "running", "waiting_human", "succeeded", "failed", "skipped"},
     attempts : Nat, evidence : BOOLEAN, approved : BOOLEAN, rejected : BOOLEAN,
     ambiguous : BOOLEAN, replacement : Task \cup {NoTask},
     readback : {"none", "failed", "read"}]

JobRecord ==
    [status : {"absent", "queued", "leased", "completed", "failed", "cancelled"},
     attempts : 0 .. MaxLeases, expired : BOOLEAN,
     result : {"none", "proven", "bare", "transient", "permanent"}]

Storage ==
    [status : {"absent", "planning", "running", "waiting_human", "succeeded"},
     task : [Task -> TaskRecord], current : Task \cup {NoTask}, replans : 0 .. MaxReplans,
     approval : Task \cup {NoTask}, job : [Key -> JobRecord], alarm : BOOLEAN]

TypeOK ==
    /\ store \in Storage
    /\ holders \subseteq Key
    /\ replays \in [Task -> 0 .. MaxResumes]
    /\ resumes \in 0 .. MaxResumes
    /\ crashes \in 0 .. MaxCrashes

NewTask == [status |-> "pending", attempts |-> 0, evidence |-> FALSE, approved |-> FALSE,
            rejected |-> FALSE, ambiguous |-> FALSE, replacement |-> NoTask, readback |-> "none"]
NoJob == [status |-> "absent", attempts |-> 0, expired |-> FALSE, result |-> "none"]

Init ==
    /\ store = [status |-> "absent", task |-> [t \in Task |-> [NewTask EXCEPT !.status = "absent"]],
                current |-> NoTask, replans |-> 0, approval |-> NoTask,
                job |-> [k \in Key |-> NoJob], alarm |-> FALSE]
    /\ holders = {}
    /\ replays = [t \in Task |-> 0]
    /\ resumes = 0
    /\ crashes = 0

-----------------------------------------------------------------------------
(* Handlers: where they end, and where a crash can cut them. *)

Done(s) == [end |-> s, cuts |-> {}]
Then(s, h) == [end |-> h.end, cuts |-> h.cuts \cup {s}]         \* s is written, h goes on
Both(g, h) == [end |-> h.end, cuts |-> g.cuts \cup {g.end} \cup h.cuts]

Active == {"queued", "leased"}
ActiveJobs(s) == {k \in Key : s.job[k].status \in Active}
TasksIn(s, statuses) == {t \in Task : s.task[t].status \in statuses}
Present(s) == {t \in Task : s.task[t].status # "absent"}
Failed(s) == TasksIn(s, {"failed"})

\* The alarm is set when anything is left to do; a set alarm stays set.
WithAlarm(s) == [s EXCEPT !.alarm = @ \/ s.status \in {"planning", "running"} \/ ActiveJobs(s) # {}]
ScheduleAlarm(h) == Both(h, Done(WithAlarm(h.end)))

CreateJob(s, k) ==
    LET q == [s EXCEPT !.job[k] = [NoJob EXCEPT !.status = "queued"]]
    IN  IF s.job[k].status \notin Active THEN Then(q, Done([q EXCEPT !.alarm = TRUE])) ELSE Done(s)

\* plan_kind of a mission that is planning: replanning starts from a failed task.
PlanKind(s) == IF Present(s) = {} THEN Plan ELSE Replan

-----------------------------------------------------------------------------
(* scheduleNext: one task at a time. *)

Busy(s) == s.current # NoTask /\ s.task[s.current].status \in {"running", "pending"}

DependencySatisfied(s, d) ==
    \/ s.task[d].status = "succeeded"
    \/ s.task[d].status = "skipped" /\ s.task[s.task[d].replacement].status = "succeeded"

Ready(s) == {t \in TasksIn(s, {"pending"}) : \A d \in DependsOn[t] : DependencySatisfied(s, d)}

RequiresApproval(s, t) == t \in Gated /\ ~s.task[t].approved

First(S) == CHOOSE t \in S : \A u \in S : t <= u

StartTask(s, t) ==
    LET r == [s EXCEPT !.task[t].status = "running", !.task[t].attempts = @ + 1, !.current = t]
    IN  Then(r, CreateJob(r, t))

ScheduleNext(s) ==
    LET gated == {t \in Ready(s) : RequiresApproval(s, t)}
        free == Ready(s) \ gated
        asked == [s EXCEPT !.task[First(gated)].status = "waiting_human",
                           !.approval = First(gated), !.current = NoTask]
    IN  IF s.status # "running" \/ Busy(s) THEN Done(s)
        ELSE IF gated # {} /\ s.approval = NoTask
        THEN Then(asked, IF free # {} THEN StartTask(asked, First(free))
                         ELSE Done([asked EXCEPT !.status = "waiting_human"]))
        ELSE IF free # {} THEN StartTask(s, First(free))
        ELSE IF Present(s) \subseteq TasksIn(s, {"succeeded", "skipped"}) THEN CreateJob(s, Verify)
        ELSE IF TasksIn(s, {"pending", "failed", "waiting_human"}) # {}
        THEN Done([s EXCEPT !.status = "waiting_human", !.current = NoTask])
        ELSE Done(s)

\* The mission is saved, then the next task is looked for.
SaveAndSchedule(s) == Then(s, ScheduleNext(s))

-----------------------------------------------------------------------------
(* A task that failed: again, replan, or ask a human. *)

\* The worker's job is closed; of what it leaves behind only the result of a task is read.
Closed(s, k, status, result) ==
    [s EXCEPT !.job[k] = [NoJob EXCEPT !.status = status,
                                       !.result = IF k \in Task THEN result ELSE "none"]]

Retries(s, t, retryable) ==
    t \in Idempotent /\ retryable /\ s.task[t].attempts < MaxAttempts

\* mutant: one more replan than allowed
ReplansOneMore(s, t) == t \in Idempotent /\ s.replans <= MaxReplans

Replans(s, t) == t \in Idempotent /\ s.replans < MaxReplans

HandleTaskFailure(s, t, retryable) ==
    LET f == Closed(s, t, "failed", IF retryable THEN "transient" ELSE "permanent")
        m == [f EXCEPT !.current = NoTask, !.task[t].readback = "failed"]
        planning == [m EXCEPT !.task[t].status = "failed", !.status = "planning"]
        ambiguous == t \notin Idempotent /\ retryable
    IN  Then(f,
          IF Retries(s, t, retryable)
          THEN SaveAndSchedule([m EXCEPT !.task[t].status = "pending"])
          ELSE IF Replans(s, t)
          THEN Then(planning, CreateJob(planning, Replan))
          ELSE SaveAndSchedule([m EXCEPT !.status = "running", !.task[t].ambiguous = ambiguous,
                   !.task[t].status = IF ambiguous THEN "waiting_human" ELSE "failed"]))

\* A result that makes no sense, or a job that is no task and failed: a human looks at it.
GiveUp(s) == [s EXCEPT !.status = "waiting_human", !.current = NoTask]

FailAfterResult(s, k) ==
    LET f == Closed(s, k, "failed", "permanent")
    IN  Then(f, Done(GiveUp(f)))

-----------------------------------------------------------------------------
(* Plans. *)

PlanAdopted(s) == [s EXCEPT !.status = "running", !.current = NoTask,
                     !.task = [t \in Task |-> IF t \in Planned THEN NewTask ELSE @[t]]]

\* The new tasks of a replan: one for each failed task, appended to the mission.
NewTasks(s) ==
    LET absent == Task \ Present(s)
    IN  {t \in absent : Cardinality({u \in absent : u < t}) < Cardinality(Failed(s))}

\* Every failed task is replaced, by a task of its own.
Replacements(s) ==
    {m \in [Failed(s) -> NewTasks(s)] : \A t, u \in Failed(s) : m[t] = m[u] => t = u}

ReplanAdopted(s, m) ==
    [s EXCEPT !.status = "running", !.current = NoTask, !.replans = @ + 1,
       !.task = [t \in Task |-> IF t \in NewTasks(s) THEN NewTask
                                ELSE IF t \in Failed(s) THEN [@[t] EXCEPT !.replacement = m[t]]
                                ELSE @[t]]]

\* What the mission becomes when a valid plan of this kind is accepted.
Adopted(s, kind) == IF kind = Plan THEN {PlanAdopted(s)}
                    ELSE {ReplanAdopted(s, m) : m \in Replacements(s)}

-----------------------------------------------------------------------------
(* Results. *)

Superseded(s, t) == {f \in Failed(s) : s.task[f].replacement = t}

\* A passed result; only proven evidence supersedes the task it replaces.
TaskSucceeded(s, t, proven) ==
    [s EXCEPT !.current = NoTask,
       !.task = [u \in Task |->
          IF u = t THEN [@[u] EXCEPT !.status = "succeeded", !.evidence = proven]
          ELSE IF proven /\ u \in Superseded(s, t) THEN [@[u] EXCEPT !.status = "skipped"]
          ELSE IF proven /\ ReadBack[u] = t /\ @[u].readback = "failed"
          THEN [@[u] EXCEPT !.readback = "read"]
          ELSE @[u]]]

\* mutant: tasks that ended are enough
InvariantsPassedAny(s) ==
    /\ \A t \in Present(s) : s.task[t].status \in {"succeeded", "skipped", "failed"}
    /\ ActiveJobs(s) = {}

\* completionInvariantsPassed
InvariantsPassed(s) ==
    /\ \A t \in Present(s) :
          /\ DependencySatisfied(s, t)
          /\ s.task[t].status = "succeeded" => s.task[t].evidence
    /\ ActiveJobs(s) = {}

\* The worker's verifier refuses missions without tasks.
Verdict(s, passed) ==
    [s EXCEPT !.status = IF passed /\ Present(s) # {} /\ InvariantsPassed(s)
                         THEN "succeeded" ELSE "waiting_human"]

\* complete: what a report with this result can make of the job and the mission.
\* Of a task that did not pass the reason is not kept with the completed job.
CompleteTask(s, t, result) ==
    LET c == Closed(s, t, "completed", IF result = "transient" THEN "permanent" ELSE result)
    IN  Then(c, IF result \in {"proven", "bare"}
                THEN SaveAndSchedule(TaskSucceeded(c, t, result = "proven"))
                ELSE HandleTaskFailure(c, t, result = "transient"))

CompletePlan(s, kind, result) ==
    LET c == Closed(s, kind, "completed", result)
    IN  IF result = "proven" THEN {Then(c, SaveAndSchedule(p)) : p \in Adopted(c, kind)}
        ELSE {Then(c, FailAfterResult(c, kind))}

CompleteVerify(s, result) ==
    LET c == Closed(s, Verify, "completed", result)
    IN  Then(c, Done(Verdict(c, result = "proven")))

Completions(s, k, result) ==
    IF k \in Task THEN {CompleteTask(s, k, result)}
    ELSE IF k = Verify THEN {CompleteVerify(s, result)}
    ELSE CompletePlan(s, k, result)

\* fail
Failure(s, k, result) ==
    LET f == Closed(s, k, "failed", result)
    IN  Then(f, IF k \in Task THEN HandleTaskFailure(f, k, result = "transient")
                ELSE Done(GiveUp(f)))

-----------------------------------------------------------------------------
(* The actions. *)

\* A handler runs to its end, or is cut short by a crash.
Run(h) == \/ /\ store' = h.end
             /\ UNCHANGED crashes
          \/ /\ crashes < MaxCrashes
             /\ store' \in h.cuts
             /\ crashes' = crashes + 1

CreateMission ==
    /\ store.status = "absent"
    /\ LET m == [store EXCEPT !.status = "planning"]
       IN  Run(ScheduleAlarm(Then(m, CreateJob(m, Plan))))
    /\ UNCHANGED <<holders, replays, resumes>>

\* The client repeats the request with its Idempotency-Key.
CreateMissionAgain ==
    /\ store.status # "absent"
    /\ Run(ScheduleAlarm(
          IF store.status = "planning" /\ \A k \in {Plan, Replan} : store.job[k].status = "absent"
          THEN CreateJob(store, PlanKind(store)) ELSE Done(store)))
    /\ UNCHANGED <<holders, replays, resumes>>

\* mutant: planner jobs on their way are left alone
CancelledNone(s) == s

\* Planner jobs on their way are cancelled.
Cancelled(s) == [s EXCEPT !.job = [k \in Key |-> IF k \in ActiveJobs(s) \cap {Plan, Replan}
                                                 THEN [NoJob EXCEPT !.status = "cancelled"]
                                                 ELSE @[k]]]

\* The remote planner's plan arrives.
SubmitPlan ==
    LET cancelled == Cancelled(store)
    IN
    /\ store.status = "planning"
    /\ \E p \in Adopted(cancelled, PlanKind(store)) :
          Run(ScheduleAlarm(Then(cancelled, SaveAndSchedule(p))))
    /\ UNCHANGED <<holders, replays, resumes>>

Claimable(k) == /\ \/ store.job[k].status = "queued"
                   \/ store.job[k].status = "leased" /\ store.job[k].expired
                /\ store.job[k].attempts < MaxLeases

\* claim, by some worker with the capability.  Whoever had the job has lost it;
\* the reply reaches the worker unless it is lost.
Claim(k, delivered) ==
    /\ Claimable(k)
    /\ Run(ScheduleAlarm(Done([store EXCEPT !.job[k].status = "leased", !.job[k].expired = FALSE,
                                            !.job[k].attempts = @ + 1])))
    /\ holders' = IF delivered THEN holders \cup {k} ELSE holders \ {k}
    /\ UNCHANGED <<replays, resumes>>

\* mutant: whoever was given the job may report
HoldsLeaseOnce(k) == k \in holders

\* The lease check of heartbeat, complete and fail: the last lease, expired or not.
HoldsLease(k) == k \in holders /\ store.job[k].status = "leased"

Heartbeat(k) ==
    /\ HoldsLease(k)
    /\ store' = [store EXCEPT !.job[k].expired = FALSE, !.alarm = TRUE]
    /\ UNCHANGED <<holders, replays, resumes, crashes>>

Results == {"proven", "bare", "transient", "permanent"}

Complete(k) ==
    /\ HoldsLease(k)
    /\ \E result \in Results : \E h \in Completions(store, k, result) : Run(ScheduleAlarm(h))
    /\ holders' = holders \ {k}
    /\ UNCHANGED <<replays, resumes>>

Fail(k) ==
    /\ HoldsLease(k)
    /\ \E result \in {"transient", "permanent"} : Run(ScheduleAlarm(Failure(store, k, result)))
    /\ holders' = holders \ {k}
    /\ UNCHANGED <<replays, resumes>>

\* The worker stops, or is refused: lease_mismatch.
WorkerGone(k) ==
    /\ k \in holders
    /\ holders' = holders \ {k}
    /\ UNCHANGED <<store, replays, resumes, crashes>>

LeaseExpires(k) ==
    /\ store.job[k].status = "leased"
    /\ ~store.job[k].expired
    /\ store' = [store EXCEPT !.job[k].expired = TRUE]
    /\ UNCHANGED <<holders, replays, resumes, crashes>>

-----------------------------------------------------------------------------
(* People. *)

DecideApproval ==
    LET t == store.approval
        decided == [store EXCEPT !.approval = NoTask, !.status = "running"]
    IN
    /\ t # NoTask
    /\ store.status \in {"running", "waiting_human"}
    /\ \/ Run(ScheduleAlarm(SaveAndSchedule(
             [decided EXCEPT !.task[t].status = "pending", !.task[t].approved = TRUE])))
       \/ Run(ScheduleAlarm(SaveAndSchedule(
             [decided EXCEPT !.task[t].status = "failed", !.task[t].rejected = TRUE])))
    /\ UNCHANGED <<holders, replays, resumes>>

Ambiguous == {t \in Task : store.task[t].ambiguous}

\* verifyAmbiguousWriteReadback: the file was read after the failure was recorded.
Reconcilable(t) == /\ ReadBack[t] # NoTask
                   /\ store.task[t].readback = "read"
                   /\ store.task[ReadBack[t]].status = "succeeded"
                   /\ ReadBack[t] \in Idempotent

\* mutant: a rejection is resumed like any other failure
ResumesRejected(t) == /\ store.task[t].status \in {"waiting_human", "failed"}
                      /\ ~store.task[t].ambiguous
                      /\ store.task[t].status = "failed" => t \in Idempotent

\* mutant: an ambiguous result is resumed like any other wait
ResumesAmbiguous(t) == /\ store.task[t].status \in {"waiting_human", "failed"}
                       /\ ~store.task[t].rejected
                       /\ store.task[t].status = "failed" => t \in Idempotent

\* The tasks a resume puts back whether they are named or not.
ResumesAlways(t) == /\ store.task[t].status \in {"waiting_human", "failed"}
                    /\ ~store.task[t].ambiguous
                    /\ ~store.task[t].rejected
                    /\ store.task[t].status = "failed" => t \in Idempotent

\* A person names the ambiguous tasks that were done after all and those to be done again.
Resume ==
    /\ store.status = "waiting_human"
    /\ store.approval = NoTask
    /\ resumes < MaxResumes
    /\ resumes' = resumes + 1
    /\ \E done \in SUBSET {t \in Ambiguous : Reconcilable(t)} :
       \E replay \in SUBSET ((Ambiguous \ Idempotent) \ done) :
          /\ Run(ScheduleAlarm(SaveAndSchedule(
                [store EXCEPT !.status = "running", !.current = NoTask,
                   !.task = [t \in Task |->
                      IF t \in done
                      THEN [@[t] EXCEPT !.status = "succeeded", !.evidence = TRUE, !.ambiguous = FALSE]
                      ELSE IF t \in replay THEN [@[t] EXCEPT !.status = "pending", !.ambiguous = FALSE]
                      ELSE IF ResumesAlways(t) THEN [@[t] EXCEPT !.status = "pending"]
                      ELSE @[t]]])))
          /\ replays' = [t \in Task |-> IF t \in replay THEN replays[t] + 1 ELSE replays[t]]
    /\ UNCHANGED holders

-----------------------------------------------------------------------------
(* alarm: what reconcile repairs. *)

Requeued(s) == [s EXCEPT !.job = [k \in Key |->
                   IF @[k].status = "leased" /\ @[k].expired
                   THEN [@[k] EXCEPT !.status = "queued", !.expired = FALSE] ELSE @[k]]]

\* mutant: only missions are looked at
ReconcileNoTask(s) == Done(s)

\* The task of the mission has no active job: its newest job tells what happened.
ReconcileCurrentTask(s) ==
    LET t == s.current
        job == s.job[t]
    IN  IF ~Busy(s) \/ job.status \in Active THEN Done(s)
        ELSE IF job.status = "completed" /\ job.result = "proven"
        THEN Done([s EXCEPT !.task[t].status = "succeeded", !.task[t].evidence = TRUE,
                            !.current = NoTask])
        ELSE IF job.status \in {"completed", "failed"}
        THEN HandleTaskFailure(s, t, job.status = "failed" /\ job.result = "transient")
        ELSE IF t \in Idempotent /\ s.task[t].attempts < MaxAttempts
        THEN Done([s EXCEPT !.task[t].status = "pending", !.current = NoTask])
        ELSE Done([s EXCEPT !.task[t].status = "waiting_human", !.task[t].ambiguous = TRUE,
                            !.current = NoTask])

Reconcile(s) ==
    LET q == Requeued(s)
        r == ReconcileCurrentTask(q)
    IN  Then(q, IF q.status = "planning" THEN CreateJob(q, PlanKind(q))
                ELSE IF q.status = "running" THEN Both(r, ScheduleNext(r.end))
                ELSE Done(q))

\* The alarm is delivered until a run of it gets through.
Alarm ==
    LET h == Reconcile(store)
    IN
    /\ store.alarm
    /\ \/ /\ store' = WithAlarm([h.end EXCEPT !.alarm = FALSE])
          /\ UNCHANGED crashes
       \/ /\ crashes < MaxCrashes
          /\ store' \in h.cuts
          /\ crashes' = crashes + 1
    /\ UNCHANGED <<holders, replays, resumes>>

-----------------------------------------------------------------------------
Next == \/ CreateMission
        \/ CreateMissionAgain
        \/ SubmitPlan
        \/ \E k \in Key : \/ \E delivered \in BOOLEAN : Claim(k, delivered)
                         \/ Heartbeat(k) \/ Complete(k) \/ Fail(k)
                         \/ WorkerGone(k) \/ LeaseExpires(k)
        \/ DecideApproval
        \/ Resume
        \/ Alarm

Spec == Init /\ [][Next]_vars

\* Workers poll and report what they were given, leases run out, a set alarm is delivered.
Fairness == /\ WF_vars(Alarm)
            /\ \A k \in Key : /\ WF_vars(\E delivered \in BOOLEAN : Claim(k, delivered))
                              /\ WF_vars(LeaseExpires(k))
                              /\ WF_vars(Complete(k) \/ Fail(k))

FairSpec == Spec /\ Fairness

-----------------------------------------------------------------------------
(* Properties. *)

\* The mission waits for at most one job, and that job is what the mission file
\* says it is doing.  Job and mission are written one after the other, late
\* reports are accepted after their lease ran out, and complete does not look
\* at the mission's status: this is what makes that safe.
OneThingAtATime ==
    \A k \in ActiveJobs(store) :
        /\ ActiveJobs(store) = {k}
        /\ k \in {Plan, Replan} => store.status = "planning" /\ k = PlanKind(store)
        /\ k = Verify => /\ store.status = "running"
                           /\ Present(store) = TasksIn(store, {"succeeded", "skipped"})
        /\ k \in Task => /\ store.status = "running"
                         /\ store.current = k
                         /\ store.task[k].status = "running"

\* A mission succeeds with every task done with evidence, or superseded by one
\* that is, with nothing left in the queue.
CompletionIsEarned ==
    store.status = "succeeded" =>
        /\ Present(store) # {}
        /\ ActiveJobs(store) = {}
        /\ \A t \in Present(store) :
              LET r == store.task[t].replacement
              IN  \/ store.task[t].status = "succeeded" /\ store.task[t].evidence
                  \/ /\ store.task[t].status = "skipped"
                     /\ store.task[r].status = "succeeded" /\ store.task[r].evidence

\* Nothing that arrives late reopens or changes a mission that succeeded.
SucceededIsFinal ==
    [][store.status = "succeeded" => store' = [store EXCEPT !.alarm = store'.alarm]]_vars

\* What people decide holds: a gated task is not started before it was approved,
\* and a rejected one is never put back, by retries, replans, resumes or recovery.
DecisionsHold ==
    \A t \in Task :
        /\ t \in Gated /\ store.task[t].attempts > 0 => store.task[t].approved
        /\ store.task[t].rejected =>
              store.task[t].status \in {"failed", "skipped"} /\ store.task[t].attempts = 0

\* A task that is not idempotent is started once, and once more for each replay
\* that a person authorized by name.
StartedOncePerDecision ==
    \A t \in Task \ Idempotent : store.task[t].attempts <= 1 + replays[t]

Settled == \/ store.status \in {"waiting_human", "succeeded"}
           \/ \E k \in Key : store.job[k].attempts = MaxLeases

\* Left to its workers and its alarm, a mission comes to its end or to a person,
\* wherever a handler was cut short: recovery finds what is missing.
Settles == store.alarm /\ store.status \in {"planning", "running"} ~> Settled

=============================================================================
