-------------------------- MODULE ProbeScopeProofs --------------------------
(***************************************************************************)
(* Theorems about the scoped probes, for any probes, starts, leases,       *)
(* requests and crashes.                                                   *)
(*                                                                         *)
(* A handler works on the records of one probe and can be cut after each   *)
(* write.  So the invariant is a predicate of a storage, Good, of which    *)
(* the part about one probe, Sound, is a predicate of what a handler       *)
(* works on; each handler has a lemma that whatever it leaves, end and     *)
(* cuts, is sound if what it found was.                                    *)
(***************************************************************************)
EXTENDS ProbeScope, FiniteSetTheorems, TLAPS

Views == [own : ProbeRecord, alarm : BOOLEAN, pilot : Pilot \cup {None}]

\* A probe has an idempotency record before it has a mission, jobs or a window.
ReservedFirst(x) ==
    /\ x.mission # "absent" => x.reserved
    /\ \A k \in Kind : x.job[k].status # "absent" => x.reserved
    /\ x.scope = "active" => x.reserved

\* Workers have jobs of the kinds and on the list of the scope only.
LeasesAreListed(x) ==
    \A k \in Kind : x.job[k].status = "leased" => k \in x.allowed \cap WorkerKind

\* The recovery probes whose task has been executed again.  They do not get fewer.
Repeated == {p \in Recovery : executions[p].count >= 2}

\* The task has succeeded when its job is completed, of a recovery probe not the
\* first time.
WorkHasJob(p, x) ==
    x.work = "succeeded" => /\ x.job["task"].status = "completed"
                            /\ p \in Recovery => p \in Repeated

AttemptsLeft(p, x) ==
    /\ x.attempts <= MaxAttempts(p)
    /\ x.work = "pending" => x.attempts < MaxAttempts(p)

SuccessIsDone(p, w) ==
    w.own.mission = "succeeded" => w.own.work = "succeeded" /\ Visible(w, p) = {}

ClosedIsDone(p, w) ==
    w.own.scope = "closed" => /\ w.own.mission \in {"absent", "succeeded", "cancelled"}
                              /\ Visible(w, p) = {}

Sound(p, w) ==
    /\ w \in Views
    /\ w.own.scope = "none" => w.own = Unused
    /\ ReservedFirst(w.own)
    /\ LeasesAreListed(w.own)
    /\ WorkHasJob(p, w.own)
    /\ AttemptsLeft(p, w.own)
    /\ SuccessIsDone(p, w)
    /\ ClosedIsDone(p, w)

\* The records of a probe that has been started and has not ended.
Alive(p, x) ==
    /\ x \in ProbeRecord
    /\ x.scope \notin {"none", "closed"}
    /\ x.reserved
    /\ x.mission # "succeeded"
    /\ LeasesAreListed(x)
    /\ WorkHasJob(p, x)
    /\ AttemptsLeft(p, x)

Going(p, w) == w \in Views /\ Alive(p, w.own)

LEMMA GoingIsSound == \A p, w : Going(p, w) => Sound(p, w)
BY DEF Going, Alive, Sound, ReservedFirst, SuccessIsDone, ClosedIsDone

Outcomes(h) == h.cuts \cup {h.end}

\* A handler between opening and closing moves neither scope nor pointer.
Keeps(w, v) == v.own.scope = w.own.scope /\ v.pilot = w.pilot

Goes(p, w, h) == \A v \in Outcomes(h) : Going(p, v) /\ Keeps(w, v)

-----------------------------------------------------------------------------
(***************************************************************************)
(* Handlers of a probe that goes on                                        *)
(***************************************************************************)

LEMMA GoesDone ==
    \A p, w, v : Going(p, v) /\ Keeps(w, v) => Goes(p, w, Done(v))
BY DEF Goes, Outcomes, Done

LEMMA GoesThen ==
    \A p, w, v, h : Going(p, v) /\ Keeps(w, v) /\ Goes(p, v, h) => Goes(p, w, Then(v, h))
<1> SUFFICES ASSUME NEW p, NEW w, NEW v, NEW h, Going(p, v), Keeps(w, v), Goes(p, v, h)
             PROVE  Goes(p, w, Then(v, h))
  OBVIOUS
<1>1. Outcomes(Then(v, h)) = Outcomes(h) \cup {v}
  BY DEF Outcomes, Then
<1>2. \A u : Keeps(v, u) => Keeps(w, u)
  BY DEF Keeps
<1> QED
  BY <1>1, <1>2 DEF Goes

LEMMA GoesBoth ==
    \A p, w, g, h : Goes(p, w, g) /\ Goes(p, g.end, h) => Goes(p, w, Both(g, h))
<1> SUFFICES ASSUME NEW p, NEW w, NEW g, NEW h, Goes(p, w, g), Goes(p, g.end, h)
             PROVE  Goes(p, w, Both(g, h))
  OBVIOUS
<1>1. /\ Outcomes(Both(g, h)) = Outcomes(g) \cup Outcomes(h)
      /\ g.end \in Outcomes(g)
  BY DEF Outcomes, Both
<1>2. \A u : Keeps(g.end, u) => Keeps(w, u)
  BY <1>1 DEF Goes, Keeps
<1> QED
  BY <1>1, <1>2 DEF Goes

LEMMA EndGoes == \A p, w, h : Goes(p, w, h) => Going(p, h.end) /\ Keeps(w, h.end)
BY DEF Goes, Outcomes

\* What a write of a probe's own records does to what the handler works on.
WithOwn(w, y) == [w EXCEPT !.own = y]

LEMMA OwnWritten ==
    ASSUME NEW w \in Views, NEW y \in ProbeRecord
    PROVE  /\ WithOwn(w, y) \in Views
           /\ WithOwn(w, y).own = y
           /\ WithOwn(w, y).alarm = w.alarm
           /\ WithOwn(w, y).pilot = w.pilot
BY DEF Views, WithOwn

LEMMA OwnGoes ==
    ASSUME NEW p, NEW w, Going(p, w), NEW y, Alive(p, y), y.scope = w.own.scope
    PROVE  Going(p, WithOwn(w, y)) /\ Keeps(w, WithOwn(w, y)) /\ WithOwn(w, y).own = y
BY OwnWritten DEF Going, Alive, Keeps

\* A write of other fields than those the invariant of a probe that goes on is about.
LEMMA SameAlive ==
    ASSUME NEW p, NEW x, Alive(p, x), NEW y \in ProbeRecord,
           y.scope = x.scope, y.reserved = x.reserved, y.job = x.job, y.work = x.work,
           y.attempts = x.attempts, y.mission # "succeeded", x.allowed \subseteq y.allowed
    PROVE  Alive(p, y)
BY DEF Alive, LeasesAreListed, WorkHasJob, AttemptsLeft

\* The same of a write of how far the work is.
LEMMA WorkAlive ==
    ASSUME NEW p, NEW x, Alive(p, x), NEW y \in ProbeRecord,
           y.scope = x.scope, y.reserved = x.reserved, y.job = x.job, y.attempts = x.attempts,
           y.allowed = x.allowed, y.mission # "succeeded",
           WorkHasJob(p, y), y.work = "pending" => x.attempts < MaxAttempts(p)
    PROVE  Alive(p, y)
<1>1. LeasesAreListed(y)
  BY DEF Alive, LeasesAreListed
<1>2. AttemptsLeft(p, y)
  BY DEF Alive, AttemptsLeft
<1> QED
  BY <1>1, <1>2 DEF Alive

WithJob(x, k, j, L) == [x EXCEPT !.job[k] = j, !.allowed = L]

\* Any other job but that of a task that has succeeded, and the list with it.
LEMMA JobWritten ==
    ASSUME NEW p, NEW x, Alive(p, x), NEW k \in Kind, NEW j \in Job, NEW L \in SUBSET Kind,
           j.status = "leased" => k \in L \cap WorkerKind,
           x.allowed \subseteq L \cup {k},
           k = "task" => x.work # "succeeded"
    PROVE  /\ Alive(p, WithJob(x, k, j, L))
           /\ WithJob(x, k, j, L).scope = x.scope
           /\ WithJob(x, k, j, L).work = x.work
           /\ WithJob(x, k, j, L).attempts = x.attempts
           /\ WithJob(x, k, j, L).job[k] = j
<1> DEFINE jobs == [x.job EXCEPT ![k] = j]
           y == [x EXCEPT !.job = jobs, !.allowed = L]
<1>1. x \in ProbeRecord /\ x.job \in [Kind -> Job]
  BY DEF Alive, ProbeRecord
<1>2. /\ jobs \in [Kind -> Job]
      /\ jobs[k] = j
      /\ \A i \in Kind \ {k} : jobs[i] = x.job[i]
  BY <1>1
<1> HIDE DEF jobs
<1>3. /\ y \in ProbeRecord
      /\ y.job = jobs /\ y.allowed = L
      /\ y.scope = x.scope /\ y.reserved = x.reserved /\ y.mission = x.mission
      /\ y.work = x.work /\ y.attempts = x.attempts
  BY <1>1, <1>2 DEF ProbeRecord
<1>4. y = WithJob(x, k, j, L)
  BY <1>1 DEF jobs, WithJob
<1> HIDE DEF y
<1>5. LeasesAreListed(y)
  BY <1>2, <1>3 DEF LeasesAreListed, Alive
<1>6. WorkHasJob(p, y)
  BY <1>2, <1>3 DEF WorkHasJob, Alive, Kind
<1>7. Alive(p, y)
  BY <1>3, <1>5, <1>6 DEF Alive, AttemptsLeft
<1> QED
  BY <1>2, <1>3, <1>4, <1>7

LEMMA JobTypes ==
    /\ \A status \in {"absent", "queued", "completed", "failed", "cancelled"} :
          /\ [NoJob EXCEPT !.status = status] \in Job
          /\ [NoJob EXCEPT !.status = status].status = status
    /\ \A status \in {"absent", "queued", "leased", "completed", "failed", "cancelled"}, j \in Job :
          /\ [j EXCEPT !.status = status, !.expired = FALSE] \in Job
          /\ [j EXCEPT !.status = status, !.expired = FALSE].status = status
<1>1. 0 \in 0 .. MaxLeases
  BY ProbeAssumption
<1> QED
  BY <1>1 DEF NoJob, Job

LEMMA UnusedFields ==
    /\ Unused \in ProbeRecord
    /\ Unused.scope = "none" /\ Unused.known = FALSE /\ Unused.reserved = FALSE
    /\ Unused.allowed = {} /\ Unused.mission = "absent" /\ Unused.work = "absent"
    /\ Unused.attempts = 0 /\ Unused.current = FALSE
    /\ \A k \in Kind : Unused.job[k].status = "absent"
<1>1. NoJob \in Job /\ NoJob.status = "absent"
  BY ProbeAssumption DEF NoJob, Job
<1> DEFINE jobs == [k \in Kind |-> NoJob]
<1>2. jobs \in [Kind -> Job] /\ \A k \in Kind : jobs[k].status = "absent"
  BY <1>1
<1>3. Unused = [scope |-> "none", known |-> FALSE, reserved |-> FALSE, allowed |-> {},
                mission |-> "absent", work |-> "absent", attempts |-> 0, current |-> FALSE,
                job |-> jobs]
  BY DEF Unused
<1> HIDE DEF jobs
<1> QED
  BY <1>2, <1>3 DEF ProbeRecord

LEMMA CreateJobGoes ==
    ASSUME NEW p, NEW w, Going(p, w), NEW k \in Kind, k = "task" => w.own.work # "succeeded"
    PROVE  Goes(p, w, CreateJob(w, k))
<1> DEFINE j == [NoJob EXCEPT !.status = "queued"]
           queued == [w EXCEPT !.own.job[k] = [NoJob EXCEPT !.status = "queued"],
                               !.own.allowed = @ \ {k}]
           listed == [queued EXCEPT !.own.allowed = @ \cup {k}, !.own.known = TRUE]
           set == [listed EXCEPT !.alarm = TRUE]
<1>1. j \in Job /\ j.status = "queued"
  BY JobTypes
<1>2. w \in Views /\ w.own \in ProbeRecord /\ w.own.allowed \in SUBSET Kind
  BY DEF Going, Alive, ProbeRecord
<1>3. Going(p, queued) /\ Keeps(w, queued) /\ queued.own.work = w.own.work
  <2> DEFINE L == w.own.allowed \ {k}
  <2>1. Alive(p, WithJob(w.own, k, j, L)) /\ WithJob(w.own, k, j, L).scope = w.own.scope
        /\ WithJob(w.own, k, j, L).work = w.own.work
    <3> HIDE DEF j
    <3>1. L \in SUBSET Kind /\ w.own.allowed \subseteq L \cup {k} /\ Alive(p, w.own)
      BY <1>2 DEF Going
    <3> HIDE DEF L
    <3> QED
      BY <1>1, <3>1, JobWritten
  <2>2. queued = WithOwn(w, WithJob(w.own, k, j, L))
    BY <1>2 DEF Views, WithOwn, WithJob
  <2> HIDE DEF L, j, queued
  <2> QED
    BY <2>1, <2>2, OwnGoes
<1> HIDE DEF queued
<1>4. Going(p, listed) /\ Keeps(queued, listed)
  <2> DEFINE y == [queued.own EXCEPT !.allowed = @ \cup {k}, !.known = TRUE]
  <2>1. queued \in Views /\ queued.own \in ProbeRecord /\ Alive(p, queued.own)
    BY <1>3 DEF Going, Alive
  <2>2. y \in ProbeRecord
    BY <2>1 DEF ProbeRecord
  <2>3. /\ y.scope = queued.own.scope /\ y.reserved = queued.own.reserved
        /\ y.job = queued.own.job /\ y.work = queued.own.work
        /\ y.attempts = queued.own.attempts /\ y.mission = queued.own.mission
        /\ queued.own.allowed \subseteq y.allowed
    BY <2>1 DEF ProbeRecord
  <2>4. listed = WithOwn(queued, y)
    BY <2>1 DEF Views, WithOwn
  <2> HIDE DEF y
  <2>5. Alive(p, y)
    <3>1. queued.own.mission # "succeeded"
      BY <2>1 DEF Alive
    <3> QED
      BY <2>1, <2>2, <2>3, <3>1, SameAlive
  <2> QED
    BY <1>3, <2>3, <2>4, <2>5, OwnGoes
<1> HIDE DEF listed
<1>5. Going(p, set) /\ Keeps(listed, set)
  BY <1>4 DEF Going, Views, Keeps
<1> HIDE DEF set
<1>6. Goes(p, w, Then(queued, Then(listed, Done(set))))
  BY <1>3, <1>4, <1>5, GoesDone, GoesThen
<1>7. Goes(p, w, Done(w))
  BY GoesDone DEF Keeps
<1> QED
  BY <1>6, <1>7 DEF CreateJob, queued, listed, set

LEMMA StartTaskGoes ==
    ASSUME NEW p \in Probe, NEW w, Going(p, w), w.own.work = "pending"
    PROVE  Goes(p, w, StartTask(w))
<1> DEFINE running == [w EXCEPT !.own.work = "running", !.own.attempts = @ + 1,
                                !.own.current = TRUE]
           y == [w.own EXCEPT !.work = "running", !.attempts = @ + 1, !.current = TRUE]
<1>1. w \in Views /\ w.own \in ProbeRecord
  BY DEF Going, Alive
<1>2. w.own.attempts \in 0 .. 1 /\ w.own.attempts + 1 \in 0 .. 2 /\ w.own.attempts + 1 <= MaxAttempts(p)
  BY <1>1 DEF Going, Alive, AttemptsLeft, MaxAttempts, ProbeRecord
<1>3. y \in ProbeRecord
  <2> DEFINE n == w.own.attempts + 1
  <2>1. n \in 0 .. 2
    BY <1>2
  <2> HIDE DEF n
  <2>2. [w.own EXCEPT !.work = "running", !.attempts = n, !.current = TRUE] \in ProbeRecord
    BY <1>1, <2>1 DEF ProbeRecord
  <2> QED
    BY <2>2 DEF n
<1>4. /\ y.work = "running" /\ y.attempts = w.own.attempts + 1
      /\ y.scope = w.own.scope /\ y.reserved = w.own.reserved /\ y.mission = w.own.mission
      /\ y.job = w.own.job /\ y.allowed = w.own.allowed
  BY <1>1 DEF ProbeRecord
<1>5. running = WithOwn(w, y)
  BY <1>1 DEF Views, WithOwn
<1> HIDE DEF y, running
<1>6. Alive(p, y)
  BY <1>2, <1>3, <1>4 DEF Going, Alive, LeasesAreListed, WorkHasJob, AttemptsLeft
<1>7. Going(p, running) /\ Keeps(w, running) /\ running.own.work = "running"
  BY <1>4, <1>5, <1>6, OwnGoes
<1>8. Goes(p, running, CreateJob(running, "task"))
  BY <1>7, CreateJobGoes DEF Kind
<1> QED
  BY <1>7, <1>8, GoesThen DEF StartTask, running

LEMMA GiveUpGoes ==
    ASSUME NEW p, NEW w, Going(p, w)
    PROVE  Going(p, GiveUp(w)) /\ Keeps(w, GiveUp(w))
<1> DEFINE y == [w.own EXCEPT !.mission = "waiting_human", !.current = FALSE]
<1>1. w \in Views /\ w.own \in ProbeRecord /\ Alive(p, w.own)
  BY DEF Going, Alive
<1>2. y \in ProbeRecord
  BY <1>1 DEF ProbeRecord
<1>3. /\ y.scope = w.own.scope /\ y.reserved = w.own.reserved /\ y.job = w.own.job
      /\ y.work = w.own.work /\ y.attempts = w.own.attempts /\ y.allowed = w.own.allowed
      /\ y.mission = "waiting_human"
  BY <1>1 DEF ProbeRecord
<1>4. GiveUp(w) = WithOwn(w, y)
  BY <1>1 DEF Views, WithOwn, GiveUp
<1> HIDE DEF y
<1>5. Alive(p, y)
  BY <1>1, <1>2, <1>3, SameAlive
<1> QED
  BY <1>3, <1>4, <1>5, OwnGoes

LEMMA ScheduleNextGoes ==
    ASSUME NEW p \in Probe, NEW w, Going(p, w)
    PROVE  Goes(p, w, ScheduleNext(w))
<1>1. Goes(p, w, Done(w))
  BY GoesDone DEF Keeps
<1>2. w.own.work = "pending" => Goes(p, w, StartTask(w))
  BY StartTaskGoes
<1>3. Goes(p, w, CreateJob(w, "verify"))
  BY CreateJobGoes DEF Kind
<1>4. Goes(p, w, Done(GiveUp(w)))
  BY GiveUpGoes, GoesDone
<1> QED
  BY <1>1, <1>2, <1>3, <1>4 DEF ScheduleNext

LEMMA ScheduleAlarmGoes ==
    ASSUME NEW p, NEW w, Going(p, w)
    PROVE  Going(p, ScheduleAlarm(w, p)) /\ Keeps(w, ScheduleAlarm(w, p))
BY DEF ScheduleAlarm, Going, Views, Keeps

\* A job that fails, but that of a task that has succeeded.
LEMMA JobFailsGoes ==
    ASSUME NEW p, NEW w, Going(p, w), NEW k \in Kind, k = "task" => w.own.work # "succeeded"
    PROVE  /\ Going(p, JobFails(w, k)) /\ Keeps(w, JobFails(w, k))
           /\ JobFails(w, k).own.work = w.own.work
           /\ JobFails(w, k).own.attempts = w.own.attempts
<1> DEFINE j == [NoJob EXCEPT !.status = "failed"]
           L == w.own.allowed
           y == WithJob(w.own, k, j, L)
<1>1. j \in Job /\ j.status = "failed"
  BY JobTypes
<1>2. w \in Views /\ w.own \in ProbeRecord /\ Alive(p, w.own) /\ L \in SUBSET Kind
  BY DEF Going, Alive, ProbeRecord
<1>3. JobFails(w, k) = WithOwn(w, y)
  BY <1>2 DEF Views, ProbeRecord, JobFails, WithOwn, WithJob
<1> HIDE DEF j
<1>4. /\ Alive(p, y) /\ y.scope = w.own.scope
      /\ y.work = w.own.work /\ y.attempts = w.own.attempts
  BY <1>1, <1>2, JobWritten
<1> HIDE DEF y
<1> QED
  BY <1>3, <1>4, OwnGoes

LEMMA HandleTaskFailureGoes ==
    ASSUME NEW p \in Probe, NEW w, Going(p, w), w.own.work # "succeeded", NEW transient \in BOOLEAN
    PROVE  Goes(p, w, HandleTaskFailure(w, p, transient))
<1> DEFINE failed == JobFails(w, "task")
           again == [failed EXCEPT !.own.current = FALSE, !.own.work = "pending"]
           replan == [failed EXCEPT !.own.current = FALSE, !.own.work = "failed",
                                    !.own.mission = "planning"]
<1>1. Going(p, failed) /\ Keeps(w, failed) /\ failed.own.attempts = w.own.attempts
  BY JobFailsGoes DEF Kind
<1> HIDE DEF failed
<1>2. failed \in Views /\ failed.own \in ProbeRecord /\ Alive(p, failed.own)
  BY <1>1 DEF Going, Alive
<1>3. ASSUME Retries(w, p, transient)
      PROVE  Goes(p, w, Then(failed, Then(again, ScheduleNext(again))))
  <2> DEFINE y == [failed.own EXCEPT !.current = FALSE, !.work = "pending"]
  <2>1. Alive(p, y) /\ y.scope = failed.own.scope
    <3>1. /\ y \in ProbeRecord /\ y.work = "pending" /\ y.allowed = failed.own.allowed
          /\ y.scope = failed.own.scope /\ y.reserved = failed.own.reserved
          /\ y.job = failed.own.job /\ y.attempts = failed.own.attempts /\ y.mission = failed.own.mission
      BY <1>2 DEF ProbeRecord
    <3> HIDE DEF y
    <3>2. WorkHasJob(p, y)
      BY <3>1 DEF WorkHasJob
    <3>3. y.work = "pending" => failed.own.attempts < MaxAttempts(p)
      BY <1>1, <1>3, <3>1 DEF Retries
    <3>4. y.mission # "succeeded"
      BY <1>2, <3>1 DEF Alive
    <3> QED
      BY <1>2, <3>1, <3>2, <3>3, <3>4, WorkAlive
  <2>2. again = WithOwn(failed, y)
    BY <1>2 DEF Views, WithOwn
  <2>3. Going(p, again) /\ Keeps(failed, again)
    <3> HIDE DEF y
    <3> QED
      BY <1>1, <2>1, <2>2, OwnGoes
  <2> HIDE DEF again
  <2> QED
    BY <1>1, <2>3, ScheduleNextGoes, GoesThen
<1>4. Goes(p, w, Then(failed, Then(replan, CreateJob(replan, "replan"))))
  <2> DEFINE y == [failed.own EXCEPT !.current = FALSE, !.work = "failed", !.mission = "planning"]
  <2>1. Alive(p, y) /\ y.scope = failed.own.scope
    <3>1. /\ y \in ProbeRecord /\ y.work = "failed" /\ y.allowed = failed.own.allowed
          /\ y.scope = failed.own.scope /\ y.reserved = failed.own.reserved
          /\ y.job = failed.own.job /\ y.attempts = failed.own.attempts /\ y.mission = "planning"
      BY <1>2 DEF ProbeRecord
    <3> HIDE DEF y
    <3>2. WorkHasJob(p, y)
      BY <3>1 DEF WorkHasJob
    <3>3. y.work = "pending" => failed.own.attempts < MaxAttempts(p)
      BY <3>1
    <3>4. y.mission # "succeeded"
      BY <1>2, <3>1 DEF Alive
    <3> QED
      BY <1>2, <3>1, <3>2, <3>3, <3>4, WorkAlive
  <2>2. replan = WithOwn(failed, y)
    BY <1>2 DEF Views, WithOwn
  <2>3. Going(p, replan) /\ Keeps(failed, replan)
    <3> HIDE DEF y
    <3> QED
      BY <1>1, <2>1, <2>2, OwnGoes
  <2> HIDE DEF replan
  <2>4. Goes(p, replan, CreateJob(replan, "replan"))
    BY <2>3, CreateJobGoes DEF Kind
  <2> QED
    BY <1>1, <2>3, <2>4, GoesThen
<1> QED
  BY <1>3, <1>4 DEF HandleTaskFailure, failed, again, replan

\* A task that is reported done, with what a recovery probe asks of it.
LEMMA TaskSucceededGoes ==
    ASSUME NEW p, NEW w, Going(p, w), w.own.job["task"].status = "completed",
           p \in Recovery => p \in Repeated
    PROVE  Going(p, TaskSucceeded(w)) /\ Keeps(w, TaskSucceeded(w))
<1> DEFINE y == [w.own EXCEPT !.work = "succeeded", !.current = FALSE]
<1>1. w \in Views /\ w.own \in ProbeRecord /\ Alive(p, w.own)
  BY DEF Going, Alive
<1>2. Alive(p, y) /\ y.scope = w.own.scope
  <2>1. /\ y \in ProbeRecord /\ y.work = "succeeded"
        /\ y.scope = w.own.scope /\ y.reserved = w.own.reserved /\ y.job = w.own.job
        /\ y.attempts = w.own.attempts /\ y.mission = w.own.mission
        /\ y.allowed = w.own.allowed
    BY <1>1 DEF ProbeRecord
  <2> HIDE DEF y
  <2>2. WorkHasJob(p, y)
    BY <2>1 DEF WorkHasJob
  <2> QED
    BY <1>1, <2>1, <2>2, WorkAlive DEF Alive
<1>3. TaskSucceeded(w) = WithOwn(w, y)
  BY <1>1 DEF Views, WithOwn, TaskSucceeded
<1> HIDE DEF y
<1> QED
  BY <1>2, <1>3, OwnGoes

\* A job whose status is written, but that of a task that has succeeded.
LEMMA JobIsGoes ==
    ASSUME NEW p, NEW w, Going(p, w), NEW k \in Kind,
           NEW status \in {"queued", "completed"}, k = "task" => w.own.work # "succeeded"
    PROVE  /\ Going(p, JobIs(w, k, status)) /\ Keeps(w, JobIs(w, k, status))
           /\ JobIs(w, k, status).own.work = w.own.work
           /\ JobIs(w, k, status).own.job[k].status = status
<1> DEFINE j == [w.own.job[k] EXCEPT !.status = status, !.expired = FALSE]
           L == w.own.allowed
           y == WithJob(w.own, k, j, L)
<1>1. w \in Views /\ w.own \in ProbeRecord /\ Alive(p, w.own) /\ L \in SUBSET Kind
      /\ w.own.job[k] \in Job /\ w.own.job \in [Kind -> Job]
  BY DEF Going, Alive, ProbeRecord
<1>2. j \in Job /\ j.status = status
  BY <1>1 DEF Job
<1>3. JobIs(w, k, status) = WithOwn(w, y)
  BY <1>1 DEF Views, ProbeRecord, Job, JobIs, WithOwn, WithJob
<1> HIDE DEF j
<1>4. Alive(p, y) /\ y.scope = w.own.scope /\ y.work = w.own.work /\ y.job[k] = j
  BY <1>1, <1>2, JobWritten
<1> HIDE DEF y
<1> QED
  BY <1>2, <1>3, <1>4, OwnGoes

\* What the workers' file has counted.
Counted ==
    /\ executions \in [Recovery -> ExecutionRecord]
    /\ \A p \in Recovery : executions[p].attempt <= executions[p].count

LEMMA CompleteTaskGoes ==
    ASSUME Counted, NEW p \in Probe, NEW w, Going(p, w), w.own.job["task"].status = "leased",
           NEW result \in {"passed", "unproven", "transient", "permanent"}
    PROVE  Goes(p, w, CompleteTask(w, p, result))
<1> DEFINE c == JobIs(w, "task", "completed")
           done == [c EXCEPT !.own.job["task"].passed = (result = "passed")]
           rejected == JobFails(done, "task")
<1>1. w.own.work # "succeeded"
  BY DEF Going, Alive, WorkHasJob
<1>2. /\ Going(p, c) /\ Keeps(w, c) /\ c.own.work # "succeeded"
      /\ c.own.job["task"].status = "completed"
  BY <1>1, JobIsGoes DEF Kind
<1> HIDE DEF c
<1>3. /\ Going(p, done) /\ Keeps(w, done)
      /\ done.own.work # "succeeded" /\ done.own.job["task"].status = "completed"
  <2> DEFINE b == (result = "passed")
             j == [c.own.job["task"] EXCEPT !.passed = b]
             L == c.own.allowed
             y == WithJob(c.own, "task", j, L)
  <2>1. c \in Views /\ c.own \in ProbeRecord /\ Alive(p, c.own) /\ L \in SUBSET Kind
        /\ c.own.job["task"] \in Job /\ c.own.job \in [Kind -> Job] /\ "task" \in Kind
    BY <1>2 DEF Going, Alive, ProbeRecord, Kind
  <2>2. b \in BOOLEAN
    OBVIOUS
  <2>3. done = [c EXCEPT !.own.job["task"].passed = b]
    OBVIOUS
  <2> HIDE DEF b, done
  <2>4. j \in Job /\ j.status = "completed"
    BY <1>2, <2>1, <2>2 DEF Job
  <2>5. done = WithOwn(c, y)
    BY <2>1, <2>3 DEF Views, ProbeRecord, Job, WithOwn, WithJob
  <2> HIDE DEF j
  <2>6. Alive(p, y) /\ y.scope = c.own.scope /\ y.work = c.own.work /\ y.job["task"] = j
    BY <1>2, <2>1, <2>4, JobWritten
  <2> HIDE DEF y
  <2> QED
    BY <1>2, <2>4, <2>5, <2>6, OwnGoes DEF Keeps
<1> HIDE DEF done
<1>4. Goes(p, done, HandleTaskFailure(done, p, result = "transient"))
  BY <1>3, HandleTaskFailureGoes
<1>5. Recovered(p) => Goes(p, done, Then(TaskSucceeded(done), ScheduleNext(TaskSucceeded(done))))
  <2>1. Recovered(p) /\ p \in Recovery => p \in Repeated
    BY DEF Counted, Recovered, Repeated, ExecutionRecord
  <2> QED
    BY <1>3, <2>1, TaskSucceededGoes, ScheduleNextGoes, GoesThen
<1>6. Goes(p, done, Then(rejected, Done(GiveUp(rejected))))
  <2>1. Going(p, rejected) /\ Keeps(done, rejected)
    BY <1>3, JobFailsGoes DEF Kind
  <2> HIDE DEF rejected
  <2> QED
    BY <2>1, GiveUpGoes, GoesDone, GoesThen
<1> QED
  BY <1>3, <1>4, <1>5, <1>6, GoesThen DEF CompleteTask, done, rejected, c

\* A handler that may end the mission.
Stays(p, w, h) == \A v \in Outcomes(h) : Sound(p, v) /\ Keeps(w, v)

LEMMA GoesStays == \A p, w, h : Goes(p, w, h) => Stays(p, w, h)
BY GoingIsSound DEF Goes, Stays

LEMMA StaysDone ==
    \A p, w, v : Sound(p, v) /\ Keeps(w, v) => Stays(p, w, Done(v))
BY DEF Stays, Outcomes, Done

LEMMA StaysThen ==
    \A p, w, v, h : Sound(p, v) /\ Keeps(w, v) /\ Stays(p, v, h) => Stays(p, w, Then(v, h))
<1> SUFFICES ASSUME NEW p, NEW w, NEW v, NEW h, Sound(p, v), Keeps(w, v), Stays(p, v, h)
             PROVE  Stays(p, w, Then(v, h))
  OBVIOUS
<1>1. Outcomes(Then(v, h)) = Outcomes(h) \cup {v}
  BY DEF Outcomes, Then
<1>2. \A u : Keeps(v, u) => Keeps(w, u)
  BY DEF Keeps
<1> QED
  BY <1>1, <1>2 DEF Stays

LEMMA StaysBoth ==
    \A p, w, g, h : Stays(p, w, g) /\ Stays(p, g.end, h) => Stays(p, w, Both(g, h))
<1> SUFFICES ASSUME NEW p, NEW w, NEW g, NEW h, Stays(p, w, g), Stays(p, g.end, h)
             PROVE  Stays(p, w, Both(g, h))
  OBVIOUS
<1>1. /\ Outcomes(Both(g, h)) = Outcomes(g) \cup Outcomes(h)
      /\ g.end \in Outcomes(g)
  BY DEF Outcomes, Both
<1>2. \A u : Keeps(g.end, u) => Keeps(w, u)
  BY <1>1 DEF Stays, Keeps
<1> QED
  BY <1>1, <1>2 DEF Stays

LEMMA SameOwnIsSound ==
    \A p, w, v : Sound(p, w) /\ v \in Views /\ v.own = w.own => Sound(p, v)
BY DEF Sound, SuccessIsDone, ClosedIsDone, Visible, Listed, Active

LEMMA CompleteVerifyStays ==
    ASSUME NEW p \in Probe, NEW w, Going(p, w),
           NEW result \in {"passed", "unproven", "transient", "permanent"}
    PROVE  Stays(p, w, CompleteVerify(w, p, result))
<1> DEFINE done == JobIs(w, "verify", "completed")
           proven == result = "passed" /\ w.own.work = "succeeded" /\ Visible(done, p) = {}
           m == IF proven THEN "succeeded" ELSE "waiting_human"
           end == [done EXCEPT !.own.mission = m]
           y == [done.own EXCEPT !.mission = m]
<1>1. Going(p, done) /\ Keeps(w, done) /\ done.own.work = w.own.work
  BY JobIsGoes DEF Kind
<1>2. m \in {"succeeded", "waiting_human"}
      /\ (m = "succeeded" => w.own.work = "succeeded" /\ Visible(done, p) = {})
  OBVIOUS
<1>3. CompleteVerify(w, p, result) = Then(done, Done(end))
  BY DEF CompleteVerify
<1> HIDE DEF done, m
<1>4. done \in Views /\ done.own \in ProbeRecord /\ Alive(p, done.own)
  BY <1>1 DEF Going, Alive
<1>5. y \in ProbeRecord
  BY <1>2, <1>4 DEF ProbeRecord
<1>6. /\ y.scope = done.own.scope /\ y.reserved = done.own.reserved /\ y.job = done.own.job
      /\ y.work = done.own.work /\ y.attempts = done.own.attempts
      /\ y.allowed = done.own.allowed /\ y.mission = m
  BY <1>4 DEF ProbeRecord
<1>7. end = WithOwn(done, y)
  BY <1>4 DEF Views, WithOwn
<1> HIDE DEF y, end
<1>8. end \in Views /\ end.own = y /\ end.pilot = done.pilot
  BY <1>4, <1>5, <1>7, OwnWritten
<1>9. Visible(end, p) = Visible(done, p)
  BY <1>6, <1>8 DEF Visible, Listed, Active
<1>10. Sound(p, end)
  BY <1>1, <1>2, <1>4, <1>6, <1>8, <1>9 DEF Sound, Alive, ReservedFirst, LeasesAreListed,
     WorkHasJob, AttemptsLeft, SuccessIsDone, ClosedIsDone
<1>11. Keeps(w, end)
  BY <1>1, <1>6, <1>8 DEF Keeps
<1> QED
  <2>1. Stays(p, done, Done(end))
    BY <1>1, <1>10, <1>11, StaysDone DEF Keeps
  <2> QED
    BY <1>1, <1>3, <2>1, GoingIsSound, StaysThen

-----------------------------------------------------------------------------
(***************************************************************************)
(* The alarm's handler of a pilot                                          *)
(***************************************************************************)

LEMMA RequeueGoes ==
    ASSUME NEW p, NEW w, Going(p, w), NEW k \in Kind
    PROVE  Going(p, Requeue(w, k)) /\ Keeps(w, Requeue(w, k))
<1>1. k \in Listed(w) => (k = "task" => w.own.work # "succeeded")
  BY DEF Listed, Active, Going, Alive, WorkHasJob
<1> QED
  BY <1>1, JobIsGoes DEF Requeue, Keeps

LEMMA ReconcileTaskGoes ==
    ASSUME NEW p \in Pilot, NEW w, Going(p, w)
    PROVE  Goes(p, w, ReconcileTask(w, p))
<1> DEFINE lost == [w EXCEPT !.own.work = "waiting_human", !.own.current = FALSE]
<1>1. p \in Probe /\ p \notin Recovery
  BY ProbeAssumption DEF Probe
<1>2. Goes(p, w, Done(w))
  BY GoesDone DEF Keeps
<1>3. w.own.job["task"].status = "completed" => Goes(p, w, Done(TaskSucceeded(w)))
  BY <1>1, TaskSucceededGoes, GoesDone
<1>4. Busy(w) => Goes(p, w, HandleTaskFailure(w, p, FALSE))
  BY <1>1, HandleTaskFailureGoes DEF Busy
<1>5. Goes(p, w, Done(lost))
  <2> DEFINE y == [w.own EXCEPT !.work = "waiting_human", !.current = FALSE]
  <2>1. w \in Views /\ w.own \in ProbeRecord /\ Alive(p, w.own)
    BY DEF Going, Alive
  <2>2. Alive(p, y) /\ y.scope = w.own.scope
    <3>1. /\ y \in ProbeRecord /\ y.work = "waiting_human" /\ y.allowed = w.own.allowed
          /\ y.scope = w.own.scope /\ y.reserved = w.own.reserved
          /\ y.job = w.own.job /\ y.attempts = w.own.attempts /\ y.mission = w.own.mission
      BY <2>1 DEF ProbeRecord
    <3> HIDE DEF y
    <3>2. WorkHasJob(p, y)
      BY <3>1 DEF WorkHasJob
    <3>3. y.work = "pending" => w.own.attempts < MaxAttempts(p)
      BY <3>1
    <3>4. y.mission # "succeeded"
      BY <2>1, <3>1 DEF Alive
    <3> QED
      BY <2>1, <3>1, <3>2, <3>3, <3>4, WorkAlive
  <2>3. lost = WithOwn(w, y)
    BY <2>1 DEF Views, WithOwn
  <2> HIDE DEF y, lost
  <2> QED
    BY <2>2, <2>3, OwnGoes, GoesDone
<1> QED
  BY <1>2, <1>3, <1>4, <1>5 DEF ReconcileTask

LEMMA ReconcileGoes ==
    ASSUME NEW p \in Pilot, NEW w, Going(p, w)
    PROVE  Goes(p, w, Reconcile(w, p))
<1> DEFINE t == Requeue(w, "task")
           q == Requeue(t, "verify")
           r == ReconcileTask(q, p)
<1>1. Going(p, t) /\ Keeps(w, t)
  BY RequeueGoes DEF Kind
<1> HIDE DEF t
<1>2. Going(p, q) /\ Keeps(t, q)
  BY <1>1, RequeueGoes DEF Kind
<1> HIDE DEF q
<1>3. Goes(p, q, r)
  BY <1>2, ReconcileTaskGoes
<1> HIDE DEF r
<1>4. Goes(p, r.end, ScheduleNext(r.end))
  BY <1>3, EndGoes, ScheduleNextGoes DEF Probe
<1>5. Goes(p, q, Both(r, ScheduleNext(r.end)))
  BY <1>3, <1>4, GoesBoth
<1> QED
  BY <1>1, <1>2, <1>5, GoesThen DEF Reconcile, t, q, r

\* Of a mission that has succeeded, nothing is left for it to do.
LEMMA ReconcileStays ==
    ASSUME NEW p \in Pilot, NEW w, Sound(p, w), w.own.scope = "active"
    PROVE  Stays(p, w, Reconcile(w, p))
<1>1. CASE w.own.mission # "succeeded"
  <2>1. Going(p, w)
    BY <1>1 DEF Sound, Going, Alive, ReservedFirst, Views
  <2> QED
    BY <2>1, ReconcileGoes, GoesStays
<1>2. CASE w.own.mission = "succeeded"
  <2>1. Listed(w) = {}
    BY <1>2 DEF Sound, SuccessIsDone, Visible
  <2>2. Requeue(w, "task") = w /\ Requeue(w, "verify") = w
    BY <2>1 DEF Requeue
  <2>3. ReconcileTask(w, p) = Done(w) /\ ScheduleNext(w) = Done(w)
    BY <1>2 DEF ReconcileTask, ScheduleNext
  <2>4. Reconcile(w, p) = Then(w, Then(w, Both(Done(w), Done(w))))
    BY <2>2, <2>3 DEF Reconcile, Done
  <2>5. Stays(p, w, Done(w)) /\ Done(w).end = w
    BY StaysDone DEF Keeps, Done
  <2>6. Stays(p, w, Both(Done(w), Done(w)))
    BY <2>5, StaysBoth
  <2> QED
    BY <2>4, <2>6, StaysThen DEF Keeps
<1> QED
  BY <1>1, <1>2

-----------------------------------------------------------------------------
(***************************************************************************)
(* The workers' handlers                                                   *)
(***************************************************************************)

\* A job that can be claimed or that a worker has belongs to a probe that goes on.
LEMMA ListedIsGoing ==
    ASSUME NEW p \in Probe, NEW w, Sound(p, w), NEW k \in Listed(w)
    PROVE  /\ Going(p, w)
           /\ k = "task" => w.own.work # "succeeded"
<1>1. k \in Active(w) /\ k \in Kind
  BY DEF Listed, Active
<1>2. Visible(w, p) # {}
  BY <1>1 DEF Visible
<1>3. w.own.mission # "succeeded"
  BY <1>2 DEF Sound, SuccessIsDone
<1>4. Going(p, w)
  <2>1. w.own.job[k].status # "absent"
    BY <1>1 DEF Active
  <2>2. w.own.scope \notin {"none", "closed"} /\ w.own.reserved
    BY <1>1, <1>2, <2>1, UnusedFields DEF Sound, ClosedIsDone, ReservedFirst
  <2> QED
    BY <1>3, <2>2 DEF Sound, Going, Alive, Views
<1>5. k = "task" => w.own.work # "succeeded"
  BY <1>1 DEF Sound, WorkHasJob, Active
<1> QED
  BY <1>4, <1>5

LEMMA ServedStays ==
    ASSUME NEW p \in Probe, NEW w, NEW h, Stays(p, w, h)
    PROVE  Stays(p, w, Both(h, Done(ScheduleAlarm(h.end, p))))
<1> DEFINE e == h.end
           a == ScheduleAlarm(e, p)
<1>1. Sound(p, e)
  BY DEF Stays, Outcomes
<1> HIDE DEF e
<1>2. a \in Views /\ a.own = e.own /\ a.pilot = e.pilot
  BY <1>1 DEF Sound, Views, ScheduleAlarm
<1> HIDE DEF a
<1>3. Sound(p, a) /\ Keeps(e, a)
  BY <1>1, <1>2, SameOwnIsSound DEF Keeps
<1>4. Stays(p, e, Done(a))
  BY <1>3, StaysDone
<1> QED
  BY <1>4, StaysBoth DEF a, e

\* One job is written, and the alarm may be set.
LEMMA OneJobStays ==
    ASSUME NEW p \in Probe, NEW w, Going(p, w), NEW k \in Kind, NEW j \in Job,
           j.status = "leased" => k \in w.own.allowed \cap WorkerKind,
           k = "task" => w.own.work # "succeeded",
           NEW v \in Views, v.own = WithJob(w.own, k, j, w.own.allowed), v.pilot = w.pilot
    PROVE  Stays(p, w, Done(v))
<1>1. Alive(p, w.own) /\ w.own.allowed \in SUBSET Kind
  BY DEF Going, Alive, ProbeRecord
<1>2. Alive(p, v.own) /\ v.own.scope = w.own.scope
  BY <1>1, JobWritten
<1>3. Going(p, v) /\ Keeps(w, v)
  BY <1>2 DEF Going, Keeps
<1> QED
  BY <1>3, GoesDone, GoesStays

LEMMA ClaimStays ==
    ASSUME NEW p \in Probe, NEW w, Sound(p, w), NEW k \in WorkerKind,
           k \in w.own.allowed, w.own.job[k].status \in {"queued", "leased"},
           w.own.job[k].leases < MaxLeases
    PROVE  Stays(p, w, Done([w EXCEPT !.own.job[k] =
               [w.own.job[k] EXCEPT !.status = "leased", !.leases = @ + 1, !.expired = FALSE]]))
<1> DEFINE n == w.own.job[k].leases + 1
           j == [w.own.job[k] EXCEPT !.status = "leased", !.leases = @ + 1, !.expired = FALSE]
           v == [w EXCEPT !.own.job[k] = j]
<1>1. k \in Kind /\ k \in Listed(w)
  BY DEF Kind, WorkerKind, Listed, Active
<1>2. Going(p, w) /\ (k = "task" => w.own.work # "succeeded")
  BY <1>1, ListedIsGoing
<1>3. w \in Views /\ w.own \in ProbeRecord /\ w.own.job[k] \in Job
  BY <1>1, <1>2 DEF Going, Alive, ProbeRecord
<1>4. n \in 0 .. MaxLeases
  BY <1>3, ProbeAssumption DEF Job
<1>5. j \in Job /\ j.status = "leased"
  <2>1. j = [w.own.job[k] EXCEPT !.status = "leased", !.leases = n, !.expired = FALSE]
    OBVIOUS
  <2> HIDE DEF n, j
  <2> QED
    BY <1>3, <1>4, <2>1 DEF Job
<1> HIDE DEF j
<1>6. v = WithOwn(w, WithJob(w.own, k, j, w.own.allowed))
  BY <1>3 DEF WithOwn, WithJob, Views, ProbeRecord
<1>7. WithJob(w.own, k, j, w.own.allowed) \in ProbeRecord
  BY <1>1, <1>2, <1>3, <1>5, JobWritten DEF Going, Alive, ProbeRecord
<1> HIDE DEF v
<1>8. v \in Views /\ v.own = WithJob(w.own, k, j, w.own.allowed) /\ v.pilot = w.pilot
  BY <1>3, <1>6, <1>7, OwnWritten
<1>9. Stays(p, w, Done(v))
  BY <1>1, <1>2, <1>5, <1>8, OneJobStays
<1> QED
  BY <1>9 DEF v, j

\* What holds of a job while a worker has it.
Leased(p, w, k) == Sound(p, w) /\ k \in WorkerKind /\ w.own.job[k].status = "leased"

LEMMA LeasedIsGoing ==
    ASSUME NEW p \in Probe, NEW w, NEW k, Leased(p, w, k)
    PROVE  Going(p, w) /\ k \in Kind /\ (k = "task" => w.own.work # "succeeded")
<1>1. k \in Listed(w)
  BY DEF Leased, Sound, LeasesAreListed, Listed, Active, Kind, WorkerKind
<1> QED
  BY <1>1, ListedIsGoing DEF Leased, Kind, WorkerKind

LEMMA HeartbeatStays ==
    ASSUME NEW p \in Probe, NEW w, NEW k, Leased(p, w, k)
    PROVE  Stays(p, w, Done([w EXCEPT !.own.job[k].expired = FALSE, !.alarm = TRUE]))
<1> DEFINE j == [w.own.job[k] EXCEPT !.expired = FALSE]
           u == [w EXCEPT !.own.job[k] = j]
           v == [w EXCEPT !.own.job[k].expired = FALSE, !.alarm = TRUE]
<1>1. Going(p, w) /\ k \in Kind /\ (k = "task" => w.own.work # "succeeded")
  BY LeasedIsGoing
<1>2. w \in Views /\ w.own \in ProbeRecord /\ w.own.job[k] \in Job /\ k \in w.own.allowed \cap WorkerKind
  BY <1>1 DEF Going, Alive, ProbeRecord, Leased, Sound, LeasesAreListed
<1>3. j \in Job
  BY <1>2 DEF Job
<1>4. WithJob(w.own, k, j, w.own.allowed) \in ProbeRecord
  <2> HIDE DEF j
  <2> QED
    BY <1>1, <1>2, <1>3, JobWritten DEF Going, Alive, ProbeRecord
<1>5. u = WithOwn(w, WithJob(w.own, k, j, w.own.allowed)) /\ v = [u EXCEPT !.alarm = TRUE]
  BY <1>2 DEF WithOwn, WithJob, Views, ProbeRecord, Job
<1> HIDE DEF j, u, v
<1>6. u \in Views /\ u.own = WithJob(w.own, k, j, w.own.allowed) /\ u.pilot = w.pilot
  BY <1>2, <1>4, <1>5, OwnWritten
<1>7. v \in Views /\ v.own = WithJob(w.own, k, j, w.own.allowed) /\ v.pilot = w.pilot
  BY <1>5, <1>6 DEF Views
<1>8. Stays(p, w, Done(v))
  BY <1>1, <1>2, <1>3, <1>7, OneJobStays
<1> QED
  BY <1>8 DEF v

LEMMA CompleteStays ==
    ASSUME Counted, NEW p \in Probe, NEW w, NEW k, Leased(p, w, k),
           NEW result \in {"passed", "unproven", "transient", "permanent"}
    PROVE  Stays(p, w, IF k = "task" THEN CompleteTask(w, p, result)
                       ELSE CompleteVerify(w, p, result))
<1>1. Going(p, w)
  BY LeasedIsGoing
<1>2. k = "task" => Stays(p, w, CompleteTask(w, p, result))
  BY <1>1, CompleteTaskGoes, GoesStays DEF Leased
<1> QED
  BY <1>1, <1>2, CompleteVerifyStays

LEMMA FailStays ==
    ASSUME NEW p \in Probe, NEW w, NEW k, Leased(p, w, k), NEW transient \in BOOLEAN
    PROVE  LET failed == JobFails(w, k)
           IN  Stays(p, w, Then(failed, IF k = "task" THEN HandleTaskFailure(failed, p, transient)
                                        ELSE Done(GiveUp(failed))))
<1> DEFINE failed == JobFails(w, k)
<1>1. Going(p, w) /\ k \in Kind /\ (k = "task" => w.own.work # "succeeded")
  BY LeasedIsGoing
<1>2. Going(p, failed) /\ Keeps(w, failed) /\ failed.own.work = w.own.work
  BY <1>1, JobFailsGoes
<1> HIDE DEF failed
<1>3. k = "task" => Goes(p, failed, HandleTaskFailure(failed, p, transient))
  BY <1>1, <1>2, HandleTaskFailureGoes
<1>4. Goes(p, failed, Done(GiveUp(failed)))
  BY <1>2, GiveUpGoes, GoesDone
<1>5. Goes(p, w, Then(failed, IF k = "task" THEN HandleTaskFailure(failed, p, transient)
                              ELSE Done(GiveUp(failed))))
  BY <1>2, <1>3, <1>4, GoesThen
<1> QED
  BY <1>5, GoesStays DEF failed

LEMMA LeaseExpiresStays ==
    ASSUME NEW p \in Probe, NEW w, NEW k, Leased(p, w, k)
    PROVE  Stays(p, w, Done([w EXCEPT !.own.job[k].expired = TRUE]))
<1> DEFINE j == [w.own.job[k] EXCEPT !.expired = TRUE]
           v == [w EXCEPT !.own.job[k].expired = TRUE]
<1>1. Going(p, w) /\ k \in Kind /\ (k = "task" => w.own.work # "succeeded")
  BY LeasedIsGoing
<1>2. w \in Views /\ w.own \in ProbeRecord /\ w.own.job[k] \in Job /\ k \in w.own.allowed \cap WorkerKind
  BY <1>1 DEF Going, Alive, ProbeRecord, Leased, Sound, LeasesAreListed
<1>3. j \in Job
  BY <1>2 DEF Job
<1>4. v = WithOwn(w, WithJob(w.own, k, j, w.own.allowed))
  BY <1>2 DEF WithOwn, WithJob, Views, ProbeRecord, Job
<1> HIDE DEF j, v
<1>5. WithJob(w.own, k, j, w.own.allowed) \in ProbeRecord
  BY <1>1, <1>2, <1>3, JobWritten DEF Going, Alive, ProbeRecord
<1>6. v \in Views /\ v.own = WithJob(w.own, k, j, w.own.allowed) /\ v.pilot = w.pilot
  BY <1>2, <1>4, <1>5, OwnWritten
<1>7. Stays(p, w, Done(v))
  BY <1>1, <1>2, <1>3, <1>6, OneJobStays
<1> QED
  BY <1>7 DEF v

-----------------------------------------------------------------------------
(***************************************************************************)
(* Closing                                                                 *)
(***************************************************************************)

\* A mission and its jobs are cancelled or left alone.
Quiet(x, y) ==
    /\ y.mission \in {x.mission, "cancelled"}
    /\ y.work = x.work /\ y.attempts = x.attempts
    /\ \A k \in Kind : y.job[k].status \in {x.job[k].status, "cancelled"}

LEMMA CancelledJobs ==
    ASSUME NEW w \in Views, NEW K \in SUBSET Kind
    PROVE  LET v == Cancelled(w, K)
           IN  /\ v \in Views
               /\ v.pilot = w.pilot /\ v.alarm = w.alarm
               /\ v.own.scope = w.own.scope /\ v.own.known = w.own.known
               /\ v.own.reserved = w.own.reserved /\ v.own.allowed = w.own.allowed
               /\ v.own.mission = w.own.mission /\ v.own.work = w.own.work
               /\ v.own.attempts = w.own.attempts
               /\ \A k \in Kind \ K : v.own.job[k] = w.own.job[k]
               /\ \A k \in K : v.own.job[k].status = "cancelled"
<1> DEFINE j == [NoJob EXCEPT !.status = "cancelled"]
           jobs == [k \in Kind |-> IF k \in K THEN j ELSE w.own.job[k]]
           y == [w.own EXCEPT !.job = jobs]
           v == Cancelled(w, K)
<1>1. w.own \in ProbeRecord /\ w.own.job \in [Kind -> Job]
  BY DEF Views, ProbeRecord
<1>2. j \in Job /\ j.status = "cancelled"
  BY JobTypes
<1>3. v = WithOwn(w, y)
  BY <1>1 DEF Cancelled, WithOwn, Views, ProbeRecord
<1> HIDE DEF j, v
<1>4. /\ jobs \in [Kind -> Job]
      /\ \A k \in Kind \ K : jobs[k] = w.own.job[k]
      /\ \A k \in K : jobs[k].status = "cancelled"
  BY <1>1, <1>2
<1> HIDE DEF jobs
<1>5. /\ y \in ProbeRecord /\ y.job = jobs
      /\ y.scope = w.own.scope /\ y.known = w.own.known
      /\ y.reserved = w.own.reserved /\ y.allowed = w.own.allowed
      /\ y.mission = w.own.mission /\ y.work = w.own.work
      /\ y.attempts = w.own.attempts
  BY <1>1, <1>4 DEF ProbeRecord
<1> HIDE DEF y
<1>6. v \in Views /\ v.own = y /\ v.alarm = w.alarm /\ v.pilot = w.pilot
  BY <1>3, <1>5, OwnWritten
<1>7. /\ v \in Views
      /\ v.pilot = w.pilot /\ v.alarm = w.alarm
      /\ v.own.scope = w.own.scope /\ v.own.known = w.own.known
      /\ v.own.reserved = w.own.reserved /\ v.own.allowed = w.own.allowed
      /\ v.own.mission = w.own.mission /\ v.own.work = w.own.work
      /\ v.own.attempts = w.own.attempts
      /\ \A k \in Kind \ K : v.own.job[k] = w.own.job[k]
      /\ \A k \in K : v.own.job[k].status = "cancelled"
  BY <1>4, <1>5, <1>6
<1> QED
  BY <1>7 DEF v

\* What is left of a probe's job list: nothing that was not there before.
LEMMA CancelledIsSound ==
    ASSUME NEW p, NEW w, Sound(p, w), w.own.scope # "none", NEW K \in SUBSET Active(w)
    PROVE  /\ Sound(p, Cancelled(w, K))
           /\ Quiet(w.own, Cancelled(w, K).own)
           /\ Visible(Cancelled(w, K), p) = Visible(w, p) \ K
<1> DEFINE v == Cancelled(w, K)
<1>1. w \in Views /\ K \in SUBSET Kind
  BY DEF Sound, Active
<1>2. /\ v \in Views
      /\ v.own.scope = w.own.scope
      /\ v.own.reserved = w.own.reserved /\ v.own.allowed = w.own.allowed
      /\ v.own.mission = w.own.mission /\ v.own.work = w.own.work
      /\ v.own.attempts = w.own.attempts
      /\ \A k \in Kind \ K : v.own.job[k] = w.own.job[k]
      /\ \A k \in K : v.own.job[k].status = "cancelled"
  BY <1>1, CancelledJobs
<1> HIDE DEF v
<1>3. Active(v) = Active(w) \ K
  BY <1>2 DEF Active
<1>4. Visible(v, p) = Visible(w, p) \ K
  BY <1>2, <1>3 DEF Visible, Listed
<1>5. Quiet(w.own, v.own)
  BY <1>2 DEF Quiet
<1>6. ReservedFirst(v.own)
  <2>1. \A k \in K : w.own.job[k].status # "absent"
    BY DEF Active
  <2> QED
    BY <1>1, <1>2, <2>1 DEF Sound, ReservedFirst
<1>7. LeasesAreListed(v.own)
  BY <1>1, <1>2 DEF Sound, LeasesAreListed
<1>8. WorkHasJob(p, v.own)
  <2>1. w.own.work = "succeeded" => "task" \notin K
    BY DEF Sound, WorkHasJob, Active
  <2> QED
    BY <1>2, <2>1 DEF Sound, WorkHasJob, Kind
<1>9. AttemptsLeft(p, v.own) /\ SuccessIsDone(p, v) /\ ClosedIsDone(p, v)
  BY <1>2, <1>4 DEF Sound, AttemptsLeft, SuccessIsDone, ClosedIsDone
<1>10. Sound(p, v)
  BY <1>2, <1>6, <1>7, <1>8, <1>9 DEF Sound
<1> QED
  BY <1>4, <1>5, <1>10 DEF v

Shut(p, w, v) ==
    /\ Sound(p, v)
    /\ v.own.scope \in {w.own.scope, "closed"}
    /\ v.pilot \in {w.pilot, None}
    /\ v.own.scope = "closed" => v.pilot # p
    /\ Quiet(w.own, v.own)

\* A close keeps a sound probe sound wherever it is cut, and leaves a closed one.
LEMMA CloseShuts ==
    ASSUME NEW p \in Probe, NEW w, Sound(p, w), w.own.scope \notin {"none", "closed"}
    PROVE  /\ \A v \in Outcomes(Close(w, p)) : Shut(p, w, v)
           /\ Close(w, p).end.own.scope = "closed"
<1> DEFINE doomed == IF MissionKnown(w) THEN Visible(w, p) ELSE {}
           c == Cancelled(w, doomed)
           unnamed == [c EXCEPT !.pilot = IF @ = p THEN None ELSE @]
           b == MissionKnown(w) /\ w.own.mission \in {"planning", "running", "waiting_human"}
           cancelled == [unnamed EXCEPT !.own.mission = "cancelled", !.own.current = FALSE]
           ended == IF b THEN cancelled ELSE unnamed
           end == [ended EXCEPT !.own.scope = "closed", !.own.known = MissionKnown(w)]
<1>1. doomed \in SUBSET Active(w) /\ doomed \in SUBSET Kind /\ MissionKnown(w) \in BOOLEAN
      /\ w \in Views
  <2>1. w \in Views /\ w.own.known \in BOOLEAN /\ w.own.reserved \in BOOLEAN
    BY DEF Sound, Views, ProbeRecord
  <2> QED
    BY <2>1 DEF Visible, Listed, Active, MissionKnown
<1>2. \A K \in SUBSET doomed : Shut(p, w, Cancelled(w, K))
  <2> SUFFICES ASSUME NEW K \in SUBSET doomed PROVE Shut(p, w, Cancelled(w, K))
    OBVIOUS
  <2>1. K \in SUBSET Active(w) /\ K \in SUBSET Kind
    BY <1>1
  <2>2. Cancelled(w, K).own.scope = w.own.scope /\ Cancelled(w, K).pilot = w.pilot
    BY <1>1, <2>1, CancelledJobs
  <2> QED
    BY <2>1, <2>2, CancelledIsSound DEF Shut
<1>3. Sound(p, c) /\ Quiet(w.own, c.own) /\ Visible(c, p) = Visible(w, p) \ doomed
  BY <1>1, CancelledIsSound
<1>4. /\ c \in Views
      /\ c.own.scope = w.own.scope /\ c.own.reserved = w.own.reserved
      /\ c.own.mission = w.own.mission /\ c.pilot = w.pilot
  BY <1>1, CancelledJobs
<1>5. Visible(c, p) = {} /\ (~MissionKnown(w) => c.own.mission = "absent")
  <2>1. CASE MissionKnown(w)
    BY <1>3, <2>1
  <2>2. CASE ~MissionKnown(w)
    <3>1. ~w.own.reserved
      BY <2>2 DEF MissionKnown
    <3>2. w.own.mission = "absent" /\ \A k \in Kind : w.own.job[k].status = "absent"
      BY <3>1 DEF Sound, ReservedFirst
    <3>3. Visible(w, p) = {}
      BY <3>2 DEF Visible, Listed, Active
    <3> QED
      BY <1>3, <1>4, <3>2, <3>3
  <2> QED
    BY <2>1, <2>2
<1> HIDE DEF doomed, c
<1>6. /\ unnamed \in Views /\ unnamed.own = c.own
      /\ unnamed.pilot \in {w.pilot, None} /\ unnamed.pilot # p
  <2>1. None # p /\ None \in Pilot \cup {None}
    BY ProbeAssumption
  <2> QED
    BY <1>4, <2>1 DEF Views
<1> HIDE DEF unnamed
<1>7. Shut(p, w, unnamed)
  BY <1>3, <1>4, <1>6, SameOwnIsSound DEF Shut
<1>8. Visible(unnamed, p) = {}
  BY <1>5, <1>6 DEF Visible, Listed, Active
<1>9. Shut(p, w, ended) /\ ended.own.mission \in {"absent", "succeeded", "cancelled"}
      /\ ended \in Views /\ ended.pilot = unnamed.pilot
      /\ Visible(ended, p) = {}
      /\ ended.own.scope = w.own.scope
  <2>1. CASE b
    <3> DEFINE y == [c.own EXCEPT !.mission = "cancelled", !.current = FALSE]
    <3>1. c.own \in ProbeRecord
      BY <1>4 DEF Views
    <3>2. y \in ProbeRecord
      BY <3>1 DEF ProbeRecord
    <3>3. /\ y.scope = c.own.scope /\ y.reserved = c.own.reserved
          /\ y.allowed = c.own.allowed /\ y.job = c.own.job /\ y.mission = "cancelled"
          /\ y.work = c.own.work /\ y.attempts = c.own.attempts
      BY <3>1 DEF ProbeRecord
    <3>4. cancelled = WithOwn(unnamed, y)
      BY <1>6, <3>1 DEF Views, WithOwn
    <3> HIDE DEF y, cancelled
    <3>5. cancelled \in Views /\ cancelled.own = y /\ cancelled.pilot = unnamed.pilot
      BY <1>6, <3>2, <3>4, OwnWritten
    <3>6. Visible(cancelled, p) = {}
      BY <1>6, <1>8, <3>3, <3>5 DEF Visible, Listed, Active
    <3>7. c.own.reserved
      <4>1. w.own.mission # "absent"
        BY <2>1
      <4> QED
        BY <1>4, <4>1 DEF Sound, ReservedFirst
    <3>8. Sound(p, cancelled)
      BY <1>3, <1>4, <3>3, <3>5, <3>6, <3>7 DEF Sound, ReservedFirst, LeasesAreListed,
         WorkHasJob, AttemptsLeft, SuccessIsDone, ClosedIsDone
    <3>9. Quiet(w.own, cancelled.own)
      BY <1>3, <3>3, <3>5 DEF Quiet
    <3> QED
      BY <1>4, <1>6, <2>1, <3>3, <3>5, <3>6, <3>8, <3>9 DEF Shut
  <2>2. CASE ~b
    <3>1. unnamed.own.mission \in {"absent", "succeeded", "cancelled"}
      <4>1. w.own.mission \in {"absent", "planning", "running", "waiting_human", "succeeded",
                               "cancelled"}
        BY <1>1 DEF Views, ProbeRecord
      <4> QED
        BY <1>4, <1>5, <1>6, <2>2, <4>1
    <3> QED
      BY <1>4, <1>6, <1>7, <1>8, <2>2, <3>1
  <2> QED
    BY <2>1, <2>2
<1> HIDE DEF ended
<1>10. Shut(p, w, end) /\ end.own.scope = "closed"
  <2> DEFINE m == MissionKnown(w)
             y == [ended.own EXCEPT !.scope = "closed", !.known = m]
  <2>1. ended.own \in ProbeRecord /\ m \in BOOLEAN
    BY <1>1, <1>9 DEF Views
  <2>2. end = WithOwn(ended, y)
    BY <1>9 DEF Views, WithOwn
  <2> HIDE DEF m, end
  <2>3. y \in ProbeRecord
    BY <2>1 DEF ProbeRecord
  <2>4. /\ y.scope = "closed" /\ y.reserved = ended.own.reserved
        /\ y.allowed = ended.own.allowed /\ y.job = ended.own.job
        /\ y.mission = ended.own.mission
        /\ y.work = ended.own.work /\ y.attempts = ended.own.attempts
    BY <2>1 DEF ProbeRecord
  <2> HIDE DEF y
  <2>5. end \in Views /\ end.own = y /\ end.pilot = ended.pilot
    BY <1>9, <2>2, <2>3, OwnWritten
  <2>6. Visible(end, p) = {}
    BY <1>9, <2>4, <2>5 DEF Visible, Listed, Active
  <2>7. Sound(p, end)
    BY <1>9, <2>4, <2>5, <2>6 DEF Shut, Sound, ReservedFirst, LeasesAreListed,
       WorkHasJob, AttemptsLeft, SuccessIsDone, ClosedIsDone
  <2>8. Quiet(w.own, end.own)
    BY <1>9, <2>4, <2>5 DEF Shut, Quiet
  <2> QED
    BY <1>6, <1>9, <2>4, <2>5, <2>7, <2>8 DEF Shut
<1> HIDE DEF end
<1>11. Close(w, p) = [end |-> end,
                      cuts |-> {Cancelled(w, K) : K \in SUBSET doomed} \cup {unnamed, ended}]
  BY DEF Close, end, ended, cancelled, b, unnamed, c, doomed
<1> QED
  BY <1>2, <1>7, <1>9, <1>10, <1>11 DEF Outcomes

-----------------------------------------------------------------------------
(***************************************************************************)
(* Starting                                                                *)
(***************************************************************************)

\* What a start leaves, to its end or cut, of a probe that w has no record of.
Opened(p, w, v) ==
    /\ Sound(p, v)
    /\ v.own.scope \in {"preparing", "active"}
    /\ v.own.mission # "succeeded"
    /\ v.pilot \in {w.pilot, p}

Opens(p, w, h) == \A v \in Outcomes(h) : Opened(p, w, v)

LEMMA OpensDone == \A p, w, v : Opened(p, w, v) => Opens(p, w, Done(v))
BY DEF Opens, Outcomes, Done

LEMMA OpensThen ==
    \A p, w, v, h : Opened(p, w, v) /\ Opens(p, w, h) => Opens(p, w, Then(v, h))
BY DEF Opens, Outcomes, Then

LEMMA OpensBoth ==
    \A p, w, g, h : Opens(p, w, g) /\ Opens(p, w, h) => Opens(p, w, Both(g, h))
BY DEF Opens, Outcomes, Both

LEMMA GoesOpens ==
    ASSUME NEW p, NEW w, NEW x, NEW h, Opened(p, w, x), Goes(p, x, h)
    PROVE  Opens(p, w, h)
BY GoingIsSound DEF Goes, Opens, Opened, Keeps, Going, Alive

\* The probe's records when its plan is fixed: nothing was tried yet.
Fresh(x) == x.work = "absent" /\ x.attempts = 0

LEMMA CreateJobIsFresh ==
    ASSUME NEW p, NEW w, Going(p, w), Fresh(w.own), NEW k \in Kind
    PROVE  Fresh(CreateJob(w, k).end.own)
<1> DEFINE queued == [w EXCEPT !.own.job[k] = [NoJob EXCEPT !.status = "queued"],
                               !.own.allowed = @ \ {k}]
           listed == [queued EXCEPT !.own.allowed = @ \cup {k}, !.own.known = TRUE]
           set == [listed EXCEPT !.alarm = TRUE]
<1>1. w \in Views /\ w.own \in ProbeRecord
  BY DEF Going, Alive
<1>2. queued.own.work = w.own.work /\ queued.own.attempts = w.own.attempts
  BY <1>1 DEF Views, ProbeRecord
<1>3. DOMAIN queued.own = DOMAIN w.own /\ DOMAIN queued = DOMAIN w
  BY <1>1 DEF Views, ProbeRecord
<1> HIDE DEF queued
<1>4. listed.own.work = queued.own.work /\ listed.own.attempts = queued.own.attempts
      /\ DOMAIN listed = DOMAIN w
  BY <1>1, <1>3 DEF Views, ProbeRecord
<1> HIDE DEF listed
<1>5. set.own = listed.own
  BY <1>1, <1>4 DEF Views
<1> HIDE DEF set
<1>6. CreateJob(w, k) = IF k \in Listed(w) THEN Done(w)
                        ELSE Then(queued, Then(listed, Done(set)))
  BY DEF CreateJob, queued, listed, set
<1>7. CreateJob(w, k).end \in {w, set}
  <2>1. CASE k \in Listed(w)
    <3>1. CreateJob(w, k) = Done(w)
      BY <1>6, <2>1
    <3> QED
      BY <3>1 DEF Done
  <2>2. CASE k \notin Listed(w)
    <3>1. CreateJob(w, k) = Then(queued, Then(listed, Done(set)))
      BY <1>6, <2>2
    <3> QED
      BY <3>1 DEF Then, Done
  <2> QED
    BY <2>1, <2>2
<1> QED
  BY <1>2, <1>4, <1>5, <1>7 DEF Fresh

LEMMA BeginOpens ==
    ASSUME NEW p \in Probe, NEW w \in Views, w.own = Unused
    PROVE  Opens(p, w, Begin(w, p))
<1> DEFINE preparing == [w EXCEPT !.own.scope = "preparing"]
           reserved == [preparing EXCEPT !.own.reserved = TRUE]
           created == [reserved EXCEPT !.own.mission = "planning"]
           planner == CreateJob(created, "plan")
           opened == [planner.end EXCEPT !.own.scope = "active"]
           named == [opened EXCEPT !.pilot = IF p \in Pilot THEN p ELSE @]
           unplanned == Cancelled(named, {"plan"})
           planned == [unplanned EXCEPT !.own.mission = "running", !.own.work = "pending"]
           task == ScheduleNext(planned)
           set == ScheduleAlarm(task.end, p)
           listed == [set EXCEPT !.own.allowed = Listed(task.end) \cap WorkerKind]
<1>1. Opened(p, w, preparing) /\ Opened(p, w, reserved)
  <2> DEFINE y == [Unused EXCEPT !.scope = "preparing"]
             z == [y EXCEPT !.reserved = TRUE]
  <2>1. y \in ProbeRecord /\ z \in ProbeRecord
    BY UnusedFields DEF ProbeRecord
  <2>2. /\ y.scope = "preparing" /\ y.reserved = FALSE /\ y.mission = "absent"
        /\ y.work = "absent" /\ y.attempts = 0
        /\ \A k \in Kind : y.job[k].status = "absent"
    BY UnusedFields DEF ProbeRecord
  <2>3. /\ z.scope = "preparing" /\ z.reserved = TRUE /\ z.mission = "absent"
        /\ z.work = "absent" /\ z.attempts = 0
        /\ \A k \in Kind : z.job[k].status = "absent"
    BY UnusedFields DEF ProbeRecord
  <2>4. preparing = WithOwn(w, y)
    BY DEF Views, WithOwn
  <2>5. reserved = WithOwn(w, z)
    BY DEF Views, WithOwn
  <2> HIDE DEF y, z, preparing, reserved
  <2>6. /\ preparing \in Views /\ preparing.own = y /\ preparing.pilot = w.pilot
        /\ reserved \in Views /\ reserved.own = z /\ reserved.pilot = w.pilot
    BY <2>1, <2>4, <2>5, OwnWritten
  <2>7. AttemptsLeft(p, y) /\ AttemptsLeft(p, z)
    BY <2>2, <2>3 DEF AttemptsLeft, MaxAttempts
  <2>8. Sound(p, preparing)
    BY <2>2, <2>6, <2>7 DEF Sound, ReservedFirst, LeasesAreListed, WorkHasJob,
       SuccessIsDone, ClosedIsDone
  <2>9. Sound(p, reserved)
    BY <2>3, <2>6, <2>7 DEF Sound, ReservedFirst, LeasesAreListed, WorkHasJob,
       SuccessIsDone, ClosedIsDone
  <2> QED
    BY <2>2, <2>3, <2>6, <2>8, <2>9 DEF Opened
<1>2. Opened(p, w, created) /\ Going(p, created) /\ Fresh(created.own)
  <2> DEFINE y == [Unused EXCEPT !.scope = "preparing", !.reserved = TRUE, !.mission = "planning"]
  <2>1. y \in ProbeRecord
    BY UnusedFields DEF ProbeRecord
  <2>2. /\ y.scope = "preparing" /\ y.reserved = TRUE /\ y.mission = "planning"
        /\ y.work = "absent" /\ y.attempts = 0
        /\ \A k \in Kind : y.job[k].status = "absent"
    BY UnusedFields DEF ProbeRecord
  <2>3. created = WithOwn(w, y)
    BY UnusedFields DEF Views, WithOwn, ProbeRecord
  <2> HIDE DEF y, created
  <2>4. created \in Views /\ created.own = y /\ created.pilot = w.pilot
    BY <2>1, <2>3, OwnWritten
  <2>5. 0 <= MaxAttempts(p)
    BY DEF MaxAttempts
  <2>6. Going(p, created)
    BY <2>1, <2>2, <2>4, <2>5 DEF Going, Alive, LeasesAreListed, WorkHasJob, AttemptsLeft
  <2> QED
    BY <2>2, <2>4, <2>6, GoingIsSound DEF Opened, Fresh
<1> HIDE DEF preparing, reserved, created
<1>3. /\ Opens(p, w, planner)
      /\ Going(p, planner.end) /\ Keeps(created, planner.end) /\ Fresh(planner.end.own)
  <2>1. Goes(p, created, planner)
    BY <1>2, CreateJobGoes DEF Kind
  <2>2. Fresh(planner.end.own)
    BY <1>2, CreateJobIsFresh DEF Kind
  <2> HIDE DEF planner
  <2> QED
    BY <1>2, <2>1, <2>2, GoesOpens, EndGoes
<1>4. planner.end.pilot \in {w.pilot, p}
  BY <1>2, <1>3 DEF Opened, Keeps
<1> HIDE DEF planner
<1>5. /\ Going(p, opened) /\ Fresh(opened.own) /\ opened.own.scope = "active"
      /\ opened.pilot \in {w.pilot, p}
  <2> DEFINE e == planner.end
             y == [e.own EXCEPT !.scope = "active"]
  <2>1. e \in Views /\ e.own \in ProbeRecord /\ Alive(p, e.own)
    BY <1>3 DEF Going, Alive
  <2>2. y \in ProbeRecord
    BY <2>1 DEF ProbeRecord
  <2>3. /\ y.scope = "active" /\ y.reserved = e.own.reserved /\ y.mission = e.own.mission
        /\ y.work = e.own.work /\ y.attempts = e.own.attempts
        /\ y.job = e.own.job /\ y.allowed = e.own.allowed
    BY <2>1 DEF ProbeRecord
  <2>4. opened = WithOwn(e, y)
    BY <2>1 DEF Views, WithOwn
  <2> HIDE DEF e, y, opened
  <2>5. opened \in Views /\ opened.own = y /\ opened.pilot = e.pilot
    BY <2>1, <2>2, <2>4, OwnWritten
  <2>6. Alive(p, y)
    BY <2>1, <2>2, <2>3 DEF Alive, LeasesAreListed, WorkHasJob, AttemptsLeft
  <2> QED
    BY <1>3, <1>4, <2>3, <2>5, <2>6 DEF Going, Fresh, e
<1> HIDE DEF opened
<1>6. /\ Going(p, named) /\ Fresh(named.own) /\ named.own.scope = "active"
      /\ named.pilot \in {w.pilot, p}
  <2>1. opened \in Views
    BY <1>5 DEF Going
  <2>2. named \in Views /\ named.own = opened.own /\ named.pilot \in {opened.pilot, p}
    BY <2>1 DEF Views
  <2> HIDE DEF named
  <2> QED
    BY <1>5, <2>2 DEF Going
<1> HIDE DEF named
<1>7. /\ Going(p, unplanned) /\ Fresh(unplanned.own) /\ unplanned.own.scope = "active"
      /\ unplanned.pilot \in {w.pilot, p}
  <2>1. named \in Views /\ Alive(p, named.own) /\ {"plan"} \in SUBSET Kind
    BY <1>6 DEF Going, Kind
  <2>2. /\ unplanned \in Views
        /\ unplanned.pilot = named.pilot
        /\ unplanned.own.scope = named.own.scope
        /\ unplanned.own.reserved = named.own.reserved /\ unplanned.own.allowed = named.own.allowed
        /\ unplanned.own.mission = named.own.mission /\ unplanned.own.work = named.own.work
        /\ unplanned.own.attempts = named.own.attempts
        /\ \A k \in Kind \ {"plan"} : unplanned.own.job[k] = named.own.job[k]
        /\ unplanned.own.job["plan"].status = "cancelled"
    BY <2>1, CancelledJobs
  <2> HIDE DEF unplanned
  <2>3. unplanned.own \in ProbeRecord
    BY <2>2 DEF Views
  <2>4. LeasesAreListed(unplanned.own)
    BY <2>1, <2>2 DEF Alive, LeasesAreListed
  <2>5. WorkHasJob(p, unplanned.own) /\ AttemptsLeft(p, unplanned.own)
    BY <1>6, <2>1, <2>2 DEF Alive, Fresh, WorkHasJob, AttemptsLeft
  <2> QED
    BY <1>6, <2>1, <2>2, <2>3, <2>4, <2>5 DEF Going, Alive, Fresh
<1> HIDE DEF unplanned
<1>8. /\ Going(p, planned) /\ planned.own.scope = "active"
      /\ planned.pilot \in {w.pilot, p}
  <2> DEFINE y == [unplanned.own EXCEPT !.mission = "running", !.work = "pending"]
  <2>1. unplanned \in Views /\ unplanned.own \in ProbeRecord /\ Alive(p, unplanned.own)
    BY <1>7 DEF Going, Alive
  <2>2. y \in ProbeRecord
    BY <2>1 DEF ProbeRecord
  <2>3. /\ y.scope = "active" /\ y.reserved = unplanned.own.reserved /\ y.mission = "running"
        /\ y.work = "pending" /\ y.attempts = 0
        /\ y.job = unplanned.own.job /\ y.allowed = unplanned.own.allowed
    BY <1>7, <2>1 DEF ProbeRecord, Fresh
  <2>4. planned = WithOwn(unplanned, y)
    BY <2>1 DEF Views, WithOwn
  <2> HIDE DEF y, planned
  <2>5. planned \in Views /\ planned.own = y /\ planned.pilot = unplanned.pilot
    BY <2>1, <2>2, <2>4, OwnWritten
  <2>6. AttemptsLeft(p, y)
    BY <2>3 DEF AttemptsLeft, MaxAttempts
  <2>7. Alive(p, y)
    BY <2>1, <2>2, <2>3, <2>6 DEF Alive, LeasesAreListed, WorkHasJob
  <2> QED
    BY <1>7, <2>3, <2>5, <2>7 DEF Going
<1> HIDE DEF planned
<1>9. Goes(p, planned, task)
  BY <1>8, ScheduleNextGoes
<1> HIDE DEF task
<1>10. /\ Going(p, set) /\ set.own = task.end.own /\ set.own.scope = "active"
       /\ set.pilot \in {w.pilot, p}
  <2>1. Going(p, task.end) /\ Keeps(planned, task.end)
    BY <1>9, EndGoes
  <2>2. set.own = task.end.own
    BY <2>1 DEF Going, Views, ScheduleAlarm
  <2> QED
    BY <1>8, <2>1, <2>2, ScheduleAlarmGoes DEF Keeps
<1>11. /\ Going(p, listed) /\ listed.own.scope = "active"
       /\ listed.pilot \in {w.pilot, p}
  <2> DEFINE L == Listed(task.end) \cap WorkerKind
             y == [set.own EXCEPT !.allowed = L]
  <2>1. \A k \in Kind : set.own.job[k].status = "leased" => k \in L \cap WorkerKind
    BY <1>10 DEF Going, Alive, LeasesAreListed, Listed, Active
  <2>2. L \in SUBSET Kind
    BY DEF WorkerKind, Kind
  <2>3. set \in Views /\ set.own \in ProbeRecord /\ Alive(p, set.own)
    BY <1>10 DEF Going, Alive
  <2>4. listed = WithOwn(set, y)
    BY <2>3 DEF Views, WithOwn
  <2> HIDE DEF L, set, listed
  <2>5. y \in ProbeRecord
    BY <2>2, <2>3 DEF ProbeRecord
  <2>6. /\ y.scope = set.own.scope /\ y.reserved = set.own.reserved
        /\ y.mission = set.own.mission /\ y.work = set.own.work
        /\ y.attempts = set.own.attempts /\ y.job = set.own.job /\ y.allowed = L
    BY <2>3 DEF ProbeRecord
  <2> HIDE DEF y
  <2>7. Alive(p, y)
    BY <2>1, <2>3, <2>5, <2>6 DEF Alive, LeasesAreListed, WorkHasJob, AttemptsLeft
  <2>8. listed \in Views /\ listed.own = y /\ listed.pilot = set.pilot
    BY <2>3, <2>4, <2>5, OwnWritten
  <2> QED
    BY <1>10, <2>6, <2>7, <2>8 DEF Going
<1>12. \A v : Going(p, v) /\ v.own.scope = "active" /\ v.pilot \in {w.pilot, p} => Opened(p, w, v)
  BY GoingIsSound DEF Opened, Going, Alive
<1> HIDE DEF set, listed
<1>13. Opens(p, w, Both(task, Done(listed)))
  BY <1>8, <1>9, <1>11, <1>12, GoesOpens, OpensDone, OpensBoth
<1>14. Opens(p, w, Then(opened, Then(named, Then(unplanned, Then(planned, Both(task, Done(listed)))))))
  BY <1>5, <1>6, <1>7, <1>8, <1>12, <1>13, OpensThen
<1>15. Opens(p, w, Then(preparing, Then(reserved, Then(created, Both(planner,
          Then(opened, Then(named, Then(unplanned, Then(planned, Both(task, Done(listed)))))))))))
  BY <1>1, <1>2, <1>3, <1>14, OpensThen, OpensBoth
<1> QED
  BY <1>15 DEF Begin, preparing, reserved, created, planner, opened, named, unplanned,
     planned, task, set, listed

\* A start that failed, instead of being cut, leaves a scope that says so.
LEMMA FailedOpens ==
    ASSUME NEW p \in Probe, NEW w \in Views, w.own = Unused, NEW v \in Failures(w, p)
    PROVE  Sound(p, v) /\ v.own.scope = "failed" /\ v.pilot \in {w.pilot, p}
<1>1. PICK u \in Begin(w, p).cuts : v = Failed(u) \/ v = FailedListing(u)
  BY DEF Failures
<1>2. Opened(p, w, u)
  BY <1>1, BeginOpens DEF Opens, Outcomes
<1>3. u \in Views /\ u.own \in ProbeRecord /\ Sound(p, u)
  BY <1>2 DEF Opened, Sound, Views
<1> DEFINE L == IF v = Failed(u) THEN u.own.allowed ELSE u.own.allowed \cup Active(u)
           b == IF v = Failed(u) THEN u.own.known ELSE u.own.known \/ Active(u) # {}
           y == [u.own EXCEPT !.scope = "failed", !.allowed = L, !.known = b]
<1>4. L \in SUBSET Kind /\ b \in BOOLEAN
  BY <1>3 DEF ProbeRecord, Active
<1>5. v = WithOwn(u, y)
  <2> DEFINE z == [u.own EXCEPT !.scope = "failed"]
             c == u.own.known \/ Active(u) # {}
  <2>1. Failed(u) = WithOwn(u, z) /\ z \in ProbeRecord
    BY <1>3 DEF Failed, Views, ProbeRecord, WithOwn
  <2>2. z.allowed = u.own.allowed /\ z.known = u.own.known
    BY <1>3 DEF ProbeRecord
  <2>3. c \in BOOLEAN
    OBVIOUS
  <2>4. FailedListing(u) = [WithOwn(u, z) EXCEPT !.own.allowed = u.own.allowed \cup Active(u),
                                                !.own.known = c]
    <3>1. WithOwn(u, z).own = z
      BY <1>3, <2>1, OwnWritten
    <3> QED
      BY <2>1, <2>2, <3>1 DEF FailedListing
  <2>5. FailedListing(u) = WithOwn(u, [u.own EXCEPT !.scope = "failed",
                                          !.allowed = u.own.allowed \cup Active(u), !.known = c])
    <3> HIDE DEF c
    <3> QED
      BY <1>3, <2>3, <2>4 DEF Views, ProbeRecord, WithOwn
  <2>6. v = Failed(u) => z = y
    BY <1>3 DEF ProbeRecord
  <2>7. v # Failed(u) => L = u.own.allowed \cup Active(u) /\ b = c
    OBVIOUS
  <2> HIDE DEF z, c, L, b
  <2> QED
    BY <1>1, <2>1, <2>5, <2>6, <2>7
<1>6. u.own.allowed \subseteq L
  OBVIOUS
<1> HIDE DEF L, b
<1>7. y \in ProbeRecord
  BY <1>3, <1>4 DEF ProbeRecord
<1>8. /\ y.scope = "failed" /\ y.reserved = u.own.reserved
      /\ y.mission = u.own.mission /\ y.work = u.own.work
      /\ y.attempts = u.own.attempts /\ y.job = u.own.job /\ y.allowed = L
  BY <1>3 DEF ProbeRecord
<1> HIDE DEF y
<1>9. v \in Views /\ v.own = y /\ v.pilot = u.pilot
  BY <1>3, <1>5, <1>7, OwnWritten
<1>10. Sound(p, v)
  BY <1>2, <1>3, <1>6, <1>8, <1>9 DEF Opened, Sound, ReservedFirst, LeasesAreListed, WorkHasJob,
     AttemptsLeft, SuccessIsDone, ClosedIsDone
<1> QED
  BY <1>2, <1>8, <1>9, <1>10 DEF Opened

-----------------------------------------------------------------------------
(***************************************************************************)
(* The storage                                                             *)
(***************************************************************************)

Good(s) ==
    /\ s \in Storage
    /\ \A p \in Probe : Sound(p, View(s, p))
    /\ \A p, q \in Started(s) : p = q
    /\ \A p \in Probe : Open(s, p) /\ s.named # None => s.presence[s.named] # "active"
    /\ \A p \in Probe : s.probe[p].scope = "closed" => s.pilot # p

\* Of a storage t that follows s: it is good, and what was outside of its window in
\* s is cancelled or left alone.
Follows(s, t) ==
    /\ Good(t)
    /\ \A p \in Probe :
          s.probe[p].scope \notin {"none", "active"} => Quiet(s.probe[p], t.probe[p])

LEMMA QuietSame == \A x : Quiet(x, x)
BY DEF Quiet

LEMMA FollowsSame == \A s : Good(s) => Follows(s, s)
BY QuietSame DEF Follows

LEMMA Viewed ==
    ASSUME NEW s \in Storage, NEW p \in Probe
    PROVE  /\ View(s, p) \in Views
           /\ View(s, p).own = s.probe[p]
           /\ View(s, p).alarm = s.alarm
           /\ View(s, p).pilot = s.pilot
BY DEF View, Views, Storage

LEMMA PutBack ==
    ASSUME NEW s \in Storage, NEW p \in Probe, NEW w \in Views
    PROVE  /\ Put(s, p, w) \in Storage
           /\ Put(s, p, w).probe[p] = w.own
           /\ \A q \in Probe \ {p} : Put(s, p, w).probe[q] = s.probe[q]
           /\ Put(s, p, w).pilot = w.pilot
           /\ Put(s, p, w).presence = s.presence
           /\ Put(s, p, w).named = s.named
<1> DEFINE f == [s.probe EXCEPT ![p] = w.own]
           t == [s EXCEPT !.probe = f, !.alarm = w.alarm, !.pilot = w.pilot]
<1>1. w.own \in ProbeRecord /\ w.alarm \in BOOLEAN /\ w.pilot \in Pilot \cup {None}
  BY DEF Views
<1>2. s.probe \in [Probe -> ProbeRecord]
  BY DEF Storage
<1>3. f \in [Probe -> ProbeRecord] /\ f[p] = w.own /\ \A q \in Probe \ {p} : f[q] = s.probe[q]
  BY <1>1, <1>2
<1>4. Put(s, p, w) = t
  BY DEF Put, Storage
<1> HIDE DEF f
<1>5. t \in Storage /\ t.probe = f /\ t.pilot = w.pilot /\ t.presence = s.presence
      /\ t.named = s.named
  BY <1>1, <1>3 DEF Storage
<1> QED
  BY <1>3, <1>4, <1>5

LEMMA OutcomesOf ==
    ASSUME NEW s, NEW p, NEW h, NEW t \in Outcomes(Of(s, p, h))
    PROVE  \E v \in Outcomes(h) : t = Put(s, p, v)
BY DEF Outcomes, Of

\* A storage is good when what was written of one probe is sound and opens no second
\* window.
LEMMA PutIsGood ==
    ASSUME NEW s, Good(s), NEW p \in Probe, NEW w, Sound(p, w),
           w.pilot \in {s.pilot, None, p},
           w.own.scope = "closed" => w.pilot # p,
           w.own.scope \in {"preparing", "active", "lapsed"} => \A q \in Started(s) : q = p,
           w.own.scope = "active" /\ s.named # None => s.presence[s.named] # "active"
    PROVE  Good(Put(s, p, w))
<1> DEFINE t == Put(s, p, w)
<1>1. s \in Storage /\ w \in Views
  BY DEF Good, Sound
<1>2. /\ t \in Storage
      /\ t.probe[p] = w.own
      /\ \A q \in Probe \ {p} : t.probe[q] = s.probe[q]
      /\ t.pilot = w.pilot /\ t.presence = s.presence /\ t.named = s.named
  BY <1>1, PutBack
<1> HIDE DEF t
<1>3. \A q \in Probe : Sound(q, View(t, q))
  <2> SUFFICES ASSUME NEW q \in Probe PROVE Sound(q, View(t, q))
    OBVIOUS
  <2>1. View(t, q) \in Views /\ View(t, q).own = t.probe[q]
    BY <1>2, Viewed
  <2>2. CASE q = p
    BY <1>2, <2>1, <2>2, SameOwnIsSound
  <2>3. CASE q # p
    <3>1. Sound(q, View(s, q)) /\ View(s, q).own = s.probe[q]
      BY <1>1, Viewed DEF Good
    <3> QED
      BY <1>2, <2>1, <2>3, <3>1, SameOwnIsSound
  <2> QED
    BY <2>2, <2>3
<1>4. \A q, r \in Started(t) : q = r
  BY <1>2 DEF Good, Started
<1>5. \A q \in Probe : Open(t, q) /\ t.named # None => t.presence[t.named] # "active"
  BY <1>2 DEF Good, Open
<1>6. \A q \in Probe : t.probe[q].scope = "closed" => t.pilot # q
  BY <1>2, ProbeAssumption DEF Good
<1> QED
  BY <1>2, <1>3, <1>4, <1>5, <1>6 DEF Good, t

LEMMA SameProbesIsGood ==
    ASSUME NEW s, Good(s), NEW t \in Storage, t.probe = s.probe, t.pilot = s.pilot,
           \A p \in Probe : Open(t, p) /\ t.named # None => t.presence[t.named] # "active"
    PROVE  Follows(s, t)
<1>1. \A q \in Probe : Sound(q, View(t, q))
  BY Viewed, SameOwnIsSound DEF Good
<1>2. Good(t)
  BY <1>1 DEF Good, Started
<1> QED
  BY <1>2, QuietSame DEF Follows

\* The handler of a request that has the object to itself.
LEMMA ServedFollows ==
    ASSUME NEW s, Good(s), NEW p \in Probe, Open(s, p), NEW h, Stays(p, View(s, p), h)
    PROVE  \A t \in Outcomes(Of(s, p, h)) : Follows(s, t)
<1> SUFFICES ASSUME NEW t \in Outcomes(Of(s, p, h)) PROVE Follows(s, t)
  OBVIOUS
<1>1. PICK v \in Outcomes(h) : t = Put(s, p, v)
  BY OutcomesOf
<1>2. s \in Storage /\ View(s, p).own = s.probe[p] /\ View(s, p).pilot = s.pilot
  BY Viewed DEF Good
<1>3. Sound(p, v) /\ v.own.scope = "active" /\ v.pilot = s.pilot
  BY <1>2 DEF Stays, Keeps, Open
<1>4. \A q \in Started(s) : q = p
  BY DEF Good, Started, Open
<1>5. Good(t)
  <2>1. s.named # None => s.presence[s.named] # "active"
    BY DEF Good
  <2> QED
    BY <1>1, <1>3, <1>4, <2>1, PutIsGood
<1>6. \A q \in Probe \ {p} : t.probe[q] = s.probe[q]
  BY <1>1, <1>2, <1>3, PutBack DEF Sound
<1> QED
  BY <1>5, <1>6, QuietSame DEF Follows, Open

LEMMA CloseFollows ==
    ASSUME NEW s, Good(s), NEW p \in Probe, s.probe[p].scope \notin {"none", "closed"}
    PROVE  LET h == Of(s, p, Close(View(s, p), p))
           IN  /\ \A t \in Outcomes(h) :
                     /\ Follows(s, t)
                     /\ \A q \in Probe \ {p} : t.probe[q] = s.probe[q]
                     /\ t.presence = s.presence /\ t.named = s.named
               /\ h.end.probe[p].scope = "closed"
<1> DEFINE c == Close(View(s, p), p)
           h == Of(s, p, c)
<1>1. /\ s \in Storage
      /\ View(s, p).own = s.probe[p] /\ View(s, p).pilot = s.pilot
      /\ Sound(p, View(s, p))
  BY Viewed DEF Good
<1>2. (\A v \in Outcomes(c) : Shut(p, View(s, p), v)) /\ c.end.own.scope = "closed"
  BY <1>1, CloseShuts
<1> HIDE DEF c
<1>3. ASSUME NEW t \in Outcomes(h)
      PROVE  /\ Follows(s, t)
             /\ \A q \in Probe \ {p} : t.probe[q] = s.probe[q]
             /\ t.presence = s.presence /\ t.named = s.named
  <2>1. PICK v \in Outcomes(c) : t = Put(s, p, v)
    BY OutcomesOf
  <2>2. /\ Sound(p, v) /\ v.own.scope \in {s.probe[p].scope, "closed"}
        /\ v.pilot \in {s.pilot, None}
        /\ v.own.scope = "closed" => v.pilot # p
        /\ Quiet(s.probe[p], v.own)
    BY <1>1, <1>2 DEF Shut
  <2>3. v.own.scope \in {"preparing", "active", "lapsed"} => \A q \in Started(s) : q = p
    BY <2>2 DEF Good, Started
  <2>4. v.own.scope = "active" /\ s.named # None => s.presence[s.named] # "active"
    BY <2>2 DEF Good, Open
  <2>5. Good(t)
    BY <2>1, <2>2, <2>3, <2>4, PutIsGood
  <2>6. /\ t.probe[p] = v.own
        /\ \A q \in Probe \ {p} : t.probe[q] = s.probe[q]
        /\ t.presence = s.presence /\ t.named = s.named
    BY <1>1, <2>1, <2>2, PutBack DEF Sound
  <2>7. Follows(s, t)
    BY <2>2, <2>5, <2>6, QuietSame DEF Follows
  <2> QED
    BY <2>6, <2>7
<1>4. h.end.probe[p].scope = "closed"
  <2>1. h.end = Put(s, p, c.end)
    BY DEF Of
  <2>2. c.end \in Views
    BY <1>2 DEF Outcomes, Shut, Sound
  <2> QED
    BY <1>1, <1>2, <2>1, <2>2, PutBack
<1> QED
  BY <1>3, <1>4 DEF c

\* A start finds the storage with nothing started in it.
LEMMA CloseLapsedFollows ==
    ASSUME NEW s, Good(s), AllLapsed(s)
    PROVE  /\ \A t \in Outcomes(CloseLapsed(s)) :
                 /\ Follows(s, t)
                 /\ \A q \in Probe : s.probe[q].scope = "none" => t.probe[q] = s.probe[q]
                 /\ t.presence = s.presence /\ t.named = s.named
           /\ Started(CloseLapsed(s).end) = {}
<1>1. CASE Started(s) = {}
  <2>1. CloseLapsed(s) = Done(s)
    BY <1>1 DEF CloseLapsed
  <2>2. Outcomes(Done(s)) = {s} /\ Done(s).end = s
    BY DEF Outcomes, Done
  <2> QED
    BY <1>1, <2>1, <2>2, FollowsSame
<1>2. CASE Started(s) # {}
  <2> DEFINE p == CHOOSE q \in Started(s) : TRUE
             h == Of(s, p, Close(View(s, p), p))
  <2>1. p \in Started(s)
    BY <1>2
  <2>2. CloseLapsed(s) = h
    BY <1>2 DEF CloseLapsed
  <2> HIDE DEF p
  <2>3. p \in Probe /\ s.probe[p].scope = "lapsed"
    BY <2>1 DEF Started, AllLapsed
  <2>4. /\ \A t \in Outcomes(h) :
              /\ Follows(s, t)
              /\ \A q \in Probe \ {p} : t.probe[q] = s.probe[q]
              /\ t.presence = s.presence /\ t.named = s.named
        /\ h.end.probe[p].scope = "closed"
    BY <2>3, CloseFollows
  <2> HIDE DEF h
  <2>5. Started(h.end) = {}
    <3>1. h.end \in Outcomes(h)
      BY DEF Outcomes
    <3>2. \A q \in Probe \ {p} : h.end.probe[q] = s.probe[q]
      BY <2>4, <3>1
    <3>3. \A q \in Started(s) : q = p
      BY <2>1 DEF Good
    <3> QED
      BY <2>4, <3>2, <3>3 DEF Started
  <2> QED
    BY <2>2, <2>3, <2>4, <2>5
<1> QED
  BY <1>1, <1>2

\* One more probe is written into a storage with nothing started.
LEMMA NewProbeFollows ==
    ASSUME NEW s, Good(s), NEW c, Follows(s, c), Started(c) = {}, NEW p \in Probe,
           s.probe[p].scope = "none",
           c.named # None => c.presence[c.named] # "active",
           NEW v, Sound(p, v), v.own.scope # "closed", v.pilot \in {c.pilot, p}
    PROVE  Follows(s, Put(c, p, v))
<1>1. Good(c) /\ c \in Storage /\ v \in Views
  BY DEF Follows, Good, Sound
<1>2. Good(Put(c, p, v))
  BY <1>1, PutIsGood
<1>3. \A q \in Probe \ {p} : Put(c, p, v).probe[q] = c.probe[q]
  BY <1>1, PutBack
<1> QED
  BY <1>2, <1>3 DEF Follows

-----------------------------------------------------------------------------
(***************************************************************************)
(* The invariant, step by step                                             *)
(***************************************************************************)

Requests == Probe \X (WorkerKind \cup {"claim"})
Holdings == Probe \X WorkerKind

IInv ==
    /\ Good(store)
    /\ alarmed \in Pilot \cup Presence \cup {None}
    /\ admitted \in SUBSET Requests
    /\ held \in SUBSET Holdings
    /\ Counted
    /\ crashes \in 0 .. MaxCrashes
    /\ \A p \in Probe, k \in WorkerKind :
          <<p, k>> \in held => store.probe[p].job[k].status = "leased"

LEMMA InitIsGood == Init => IInv
<1> SUFFICES ASSUME Init PROVE IInv
  OBVIOUS
<1>1. store \in Storage /\ \A p \in Probe : store.probe[p] = Unused
  BY UnusedFields DEF Init, Storage
<1>2. \A p \in Probe : Sound(p, View(store, p))
  <2> SUFFICES ASSUME NEW p \in Probe PROVE Sound(p, View(store, p))
    OBVIOUS
  <2>1. View(store, p) \in Views /\ View(store, p).own = Unused
    BY <1>1, Viewed
  <2>2. AttemptsLeft(p, Unused)
    BY UnusedFields DEF AttemptsLeft, MaxAttempts
  <2> QED
    BY <2>1, <2>2, UnusedFields DEF Sound, ReservedFirst, LeasesAreListed, WorkHasJob,
       SuccessIsDone, ClosedIsDone
<1>3. Good(store)
  BY <1>1, <1>2, UnusedFields DEF Good, Started, Open
<1>4. Counted
  BY DEF Init, Counted, ExecutionRecord
<1> QED
  BY <1>3, <1>4, ProbeAssumption DEF Init, IInv

\* A step that leaves the count right and forgets no execution.
Counting == Counted' /\ Repeated \subseteq Repeated'

LEMMA NotCounted ==
    ASSUME IInv, UNCHANGED executions
    PROVE  Counting
BY DEF IInv, Counting, Counted, Repeated

\* Good looks at the count too: what is good by an earlier one is by a later one.
LEMMA GoodGrows ==
    ASSUME Good(store'), Counting
    PROVE  Good(store)'
BY DEF Good, Sound, WorkHasJob, Counting, View, Started, Open, Storage

LEMMA AlarmSetFollows ==
    ASSUME NEW s, NEW t, Follows(s, t), NEW b \in BOOLEAN
    PROVE  Follows(s, [t EXCEPT !.alarm = b])
<1> DEFINE u == [t EXCEPT !.alarm = b]
<1>1. t \in Storage /\ Good(t)
  BY DEF Follows, Good
<1>2. u \in Storage /\ u.probe = t.probe /\ u.pilot = t.pilot
      /\ u.named = t.named /\ u.presence = t.presence
  BY <1>1 DEF Storage
<1> HIDE DEF u
<1>3. Follows(t, u)
  BY <1>1, <1>2, SameProbesIsGood DEF Good, Open
<1>4. Follows(s, u)
  BY <1>2, <1>3 DEF Follows
<1> QED
  BY <1>4 DEF u

\* What a handler leaves, to its end or cut, follows what it found.
LEMMA HandledFollows ==
    ASSUME IInv, Counting, NEW h, \A t \in Outcomes(h) : Follows(store, t),
           NEW waiting \in SUBSET Requests, NEW alarming \in Pilot \cup Presence \cup {None},
           NEW holding \in SUBSET Holdings, Handle(h, waiting, alarming, holding)
    PROVE  IInv' /\ Follows(store, store')
<1>1. /\ Follows(store, store')
      /\ alarmed' \in Pilot \cup Presence \cup {None}
      /\ admitted' \in SUBSET Requests
      /\ crashes' \in 0 .. MaxCrashes
  <2>1. CASE /\ store' = h.end
             /\ admitted' = waiting
             /\ alarmed' = alarming
             /\ UNCHANGED crashes
    BY <2>1 DEF Outcomes, IInv
  <2>2. CASE /\ crashes < MaxCrashes
             /\ crashes' = crashes + 1
             /\ \E s \in h.cuts : store' = [s EXCEPT !.alarm = @ \/ alarmed # None]
             /\ admitted' = {}
             /\ alarmed' = None
    <3>1. PICK s \in h.cuts : store' = [s EXCEPT !.alarm = @ \/ alarmed # None]
      BY <2>2
    <3>2. Follows(store, s) /\ s \in Storage
      BY DEF Outcomes, Follows, Good
    <3>3. (s.alarm \/ alarmed # None) \in BOOLEAN
      OBVIOUS
    <3>4. Follows(store, store')
      BY <3>1, <3>2, <3>3, AlarmSetFollows
    <3>5. crashes' \in 0 .. MaxCrashes
      BY <2>2, ProbeAssumption DEF IInv
    <3> QED
      BY <2>2, <3>4, <3>5
  <2> QED
    BY <2>1, <2>2 DEF Handle
<1>2. held' = {j \in holding : store'.probe[j[1]].job[j[2]].status = "leased"}
  BY DEF Handle
<1>3. \A p \in Probe, k \in WorkerKind :
         <<p, k>> \in held' => store'.probe[p].job[k].status = "leased"
  BY <1>2
<1>4. held' \in SUBSET Holdings
  BY <1>2
<1>5. Good(store)'
  BY <1>1, GoodGrows DEF Follows
<1> QED
  BY <1>1, <1>3, <1>4, <1>5 DEF IInv, Counting

LEMMA StartProbeFollows ==
    ASSUME IInv, NEW p \in Probe, StartProbe(p)
    PROVE  IInv' /\ Follows(store, store')
<1> DEFINE cleared == CloseLapsed(store)
           s == cleared.end
<1>1. /\ Good(store) /\ AllLapsed(store) /\ store.probe[p].scope = "none"
      /\ store.named # None => store.presence[store.named] # "active"
  BY DEF IInv, StartProbe
<1>2. /\ \A t \in Outcomes(cleared) :
            /\ Follows(store, t)
            /\ \A q \in Probe : store.probe[q].scope = "none" => t.probe[q] = store.probe[q]
            /\ t.presence = store.presence /\ t.named = store.named
      /\ Started(s) = {}
  BY <1>1, CloseLapsedFollows
<1>3. (\E w \in Failures(View(s, p), p) : Handle(Done(Put(s, p, w)), admitted, alarmed, held))
      \/ Handle(Both(cleared, Of(s, p, Begin(View(s, p), p))), admitted, alarmed, held)
  BY DEF StartProbe
<1> HIDE DEF cleared
<1>4. /\ Follows(store, s) /\ s \in Storage /\ s.probe[p].scope = "none"
      /\ s.named # None => s.presence[s.named] # "active"
  BY <1>1, <1>2 DEF Outcomes, Follows, Good
<1> HIDE DEF s
<1>5. View(s, p) \in Views /\ View(s, p).own = Unused /\ View(s, p).pilot = s.pilot
  BY <1>4, Viewed DEF Follows, Good, Sound
<1>6. \A v : Sound(p, v) /\ v.own.scope # "closed" /\ v.pilot \in {s.pilot, p}
             => Follows(store, Put(s, p, v))
  BY <1>1, <1>2, <1>4, NewProbeFollows
<1>7. admitted \in SUBSET Requests /\ alarmed \in Pilot \cup Presence \cup {None}
      /\ held \in SUBSET Holdings /\ Counting
  BY NotCounted DEF IInv, StartProbe
<1>8. CASE \E w \in Failures(View(s, p), p) : Handle(Done(Put(s, p, w)), admitted, alarmed, held)
  <2>1. PICK w \in Failures(View(s, p), p) : Handle(Done(Put(s, p, w)), admitted, alarmed, held)
    BY <1>8
  <2>2. Sound(p, w) /\ w.own.scope = "failed" /\ w.pilot \in {s.pilot, p}
    BY <1>5, FailedOpens
  <2>3. Follows(store, Put(s, p, w))
    BY <1>6, <2>2
  <2>4. \A t \in Outcomes(Done(Put(s, p, w))) : Follows(store, t)
    BY <2>3 DEF Outcomes, Done
  <2> QED
    BY <1>7, <2>1, <2>4, HandledFollows
<1>9. CASE Handle(Both(cleared, Of(s, p, Begin(View(s, p), p))), admitted, alarmed, held)
  <2> DEFINE g == Of(s, p, Begin(View(s, p), p))
             h == Both(cleared, g)
  <2>1. \A t \in Outcomes(g) : Follows(store, t)
    <3> SUFFICES ASSUME NEW t \in Outcomes(g) PROVE Follows(store, t)
      OBVIOUS
    <3>1. PICK v \in Outcomes(Begin(View(s, p), p)) : t = Put(s, p, v)
      BY OutcomesOf
    <3>2. Opened(p, View(s, p), v)
      BY <1>5, BeginOpens DEF Opens
    <3> QED
      BY <1>5, <1>6, <3>1, <3>2 DEF Opened
  <2> HIDE DEF g
  <2>2. \A t \in Outcomes(h) : Follows(store, t)
    BY <1>2, <2>1 DEF Outcomes, Both
  <2>3. Handle(h, admitted, alarmed, held)
    BY <1>9 DEF g
  <2> HIDE DEF h
  <2> QED
    BY <1>7, <2>2, <2>3, HandledFollows
<1> QED
  BY <1>3, <1>8, <1>9 DEF s

LEMMA CloseProbeFollows ==
    ASSUME IInv, NEW p \in Probe, CloseProbe(p)
    PROVE  IInv' /\ Follows(store, store')
<1> DEFINE h == Of(store, p, Close(View(store, p), p))
<1>1. \A t \in Outcomes(h) : Follows(store, t)
  BY CloseFollows DEF IInv, CloseProbe
<1>2. Handle(h, admitted, alarmed, held) /\ Counting
  BY NotCounted DEF CloseProbe
<1> HIDE DEF h
<1> QED
  BY <1>1, <1>2, HandledFollows DEF IInv

\* A request that is served.
LEMMA ServeFollows ==
    ASSUME IInv, Counting, NEW p \in Probe, NEW r, NEW h, NEW holding \in SUBSET Holdings,
           Serve(p, r, h, holding),
           Stays(p, View(store, p), h)
    PROVE  IInv' /\ Follows(store, store')
<1> DEFINE g == Both(h, Done(ScheduleAlarm(h.end, p)))
<1>1. Good(store) /\ Open(store, p)
  BY DEF IInv, Serve, Admits
<1>2. Stays(p, View(store, p), g)
  BY ServedStays
<1>3. Handle(Of(store, p, g), admitted \ {<<p, r>>}, alarmed, holding)
  BY DEF Serve
<1> HIDE DEF g
<1>4. \A t \in Outcomes(Of(store, p, g)) : Follows(store, t)
  BY <1>1, <1>2, ServedFollows
<1>5. admitted \ {<<p, r>>} \in SUBSET Requests /\ alarmed \in Pilot \cup Presence \cup {None}
  BY DEF IInv
<1> QED
  BY <1>3, <1>4, <1>5, HandledFollows

\* What a worker has is leased.
LEMMA HeldIsLeased ==
    ASSUME IInv, NEW p \in Probe, NEW k \in WorkerKind, <<p, k>> \in held
    PROVE  Leased(p, View(store, p), k)
BY Viewed DEF IInv, Good, Leased

LEMMA Counts ==
    ASSUME Counted, NEW p \in Recovery, NEW c \in ExecutionRecord,
           c.attempt <= c.count, executions[p].count <= c.count,
           executions' = [executions EXCEPT ![p] = c]
    PROVE  Counting
<1>1. executions' \in [Recovery -> ExecutionRecord] /\ executions'[p] = c
      /\ \A q \in Recovery \ {p} : executions'[q] = executions[q]
  BY DEF Counted
<1>2. \A q \in Recovery : executions'[q].attempt <= executions'[q].count
  BY <1>1 DEF Counted
<1>3. \A q \in Recovery : executions[q].count >= 2 => executions'[q].count >= 2
  BY <1>1 DEF Counted, ExecutionRecord
<1> QED
  BY <1>1, <1>2, <1>3 DEF Counting, Counted, Repeated

\* A claim resets what is known of the last lease's execution, never the count.
LEMMA ClaimCounts ==
    ASSUME IInv, NEW p \in Probe, NEW k \in WorkerKind, Claim(p, k)
    PROVE  Counting
<1> DEFINE x == executions[p]
           late == IF Unexecuted(p) THEN x.late + 1 ELSE x.late
           c == [x EXCEPT !.attempt = 0, !.late = late]
<1>1. Counted
  BY DEF IInv
<1>2. CASE UNCHANGED executions
  BY <1>2, NotCounted
<1>3. CASE p \in Recovery /\ executions' = [executions EXCEPT ![p].attempt = 0, ![p].late = late]
  <2>1. x \in ExecutionRecord /\ late \in Nat
    BY <1>1, <1>3 DEF Counted, ExecutionRecord
  <2> HIDE DEF late
  <2>2. c \in ExecutionRecord /\ c.attempt <= c.count /\ x.count <= c.count
    <3> HIDE DEF x
    <3>1. c \in ExecutionRecord /\ c.count = x.count /\ c.attempt = 0
      BY <2>1 DEF ExecutionRecord
    <3> HIDE DEF c
    <3> QED
      BY <2>1, <3>1 DEF ExecutionRecord
  <2>3. executions' = [executions EXCEPT ![p] = c]
    BY <1>1, <1>3, <2>1 DEF Counted, ExecutionRecord
  <2> HIDE DEF c
  <2> QED
    BY <1>1, <1>3, <2>2, <2>3, Counts
<1> QED
  BY <1>2, <1>3 DEF Claim

LEMMA WorkersFollow ==
    ASSUME IInv, NEW p \in Probe, NEW k \in WorkerKind,
           Claim(p, k) \/ Heartbeat(p, k) \/ Complete(p, k) \/ Fail(p, k)
    PROVE  IInv' /\ Follows(store, store')
<1> DEFINE w == View(store, p)
<1>1. Sound(p, w) /\ held \in SUBSET Holdings
  BY DEF IInv, Good
<1>2. CASE Claim(p, k)
  <2> DEFINE h == Done([w EXCEPT !.own.job[k] =
                      [w.own.job[k] EXCEPT !.status = "leased", !.leases = @ + 1, !.expired = FALSE]])
  <2>1. /\ k \in w.own.allowed
        /\ w.own.job[k].status \in {"queued", "leased"}
        /\ w.own.job[k].leases < MaxLeases
        /\ Serve(p, "claim", h, held \cup {<<p, k>>})
    BY <1>2 DEF Claim
  <2> HIDE DEF w
  <2>2. Stays(p, w, h)
    BY <1>1, <2>1, ClaimStays
  <2> HIDE DEF h
  <2>3. held \cup {<<p, k>>} \in SUBSET Holdings
    BY <1>1 DEF Holdings
  <2>4. Counting
    BY <1>2, ClaimCounts
  <2> QED
    BY <2>1, <2>2, <2>3, <2>4, ServeFollows DEF w
<1>3. CASE Heartbeat(p, k)
  <2> DEFINE h == Done([w EXCEPT !.own.job[k].expired = FALSE, !.alarm = TRUE])
  <2>1. Leased(p, w, k) /\ Serve(p, k, h, held) /\ Counting
    BY <1>3, HeldIsLeased, NotCounted DEF Heartbeat
  <2> HIDE DEF w
  <2>2. Stays(p, w, h)
    BY <2>1, HeartbeatStays
  <2> HIDE DEF h
  <2> QED
    BY <1>1, <2>1, <2>2, ServeFollows DEF w
<1>4. CASE Complete(p, k)
  <2>1. PICK result \in {"passed", "unproven", "transient", "permanent"} :
           Serve(p, k, IF k = "task" THEN CompleteTask(w, p, result)
                       ELSE CompleteVerify(w, p, result), held)
    BY <1>4 DEF Complete
  <2>2. Leased(p, w, k) /\ Counting /\ Counted
    BY <1>4, HeldIsLeased, NotCounted DEF Complete, IInv
  <2> HIDE DEF w
  <2> DEFINE h == IF k = "task" THEN CompleteTask(w, p, result) ELSE CompleteVerify(w, p, result)
  <2>3. Stays(p, w, h)
    BY <2>2, CompleteStays
  <2>4. Serve(p, k, h, held)
    BY <2>1
  <2> HIDE DEF h
  <2> QED
    BY <1>1, <2>2, <2>3, <2>4, ServeFollows DEF w
<1>5. CASE Fail(p, k)
  <2> DEFINE failed == JobFails(w, k)
             h(transient) == Then(failed, IF k = "task" THEN HandleTaskFailure(failed, p, transient)
                                          ELSE Done(GiveUp(failed)))
  <2>1. PICK transient \in BOOLEAN : Serve(p, k, h(transient), held)
    BY <1>5 DEF Fail
  <2>2. Leased(p, w, k) /\ Counting
    BY <1>5, HeldIsLeased, NotCounted DEF Fail
  <2> HIDE DEF w
  <2>3. Stays(p, w, h(transient))
    BY <2>2, FailStays
  <2> HIDE DEF h
  <2> QED
    BY <1>1, <2>1, <2>2, <2>3, ServeFollows DEF w
<1> QED
  BY <1>2, <1>3, <1>4, <1>5

\* Steps that write nothing but requests and leases in hand.
LEMMA StorageUntouched ==
    ASSUME IInv, Counting, UNCHANGED <<store, crashes>>, admitted' \in SUBSET Requests, held' \subseteq held,
           alarmed' = alarmed
    PROVE  IInv' /\ Follows(store, store')
<1>1. Good(store)' /\ Follows(store, store')
  BY FollowsSame, GoodGrows DEF IInv
<1>2. \A p \in Probe, k \in WorkerKind :
         <<p, k>> \in held' => store'.probe[p].job[k].status = "leased"
  BY DEF IInv
<1>3. crashes' \in 0 .. MaxCrashes /\ held' \in SUBSET Holdings
      /\ alarmed' \in Pilot \cup Presence \cup {None}
  BY DEF IInv
<1> QED
  BY <1>1, <1>2, <1>3 DEF IInv, Counting

LEMMA AdmitFollows ==
    ASSUME IInv, NEW p \in Probe, NEW r \in WorkerKind \cup {"claim"}, Admit(p, r) \/ Refuse(p, r)
    PROVE  IInv' /\ Follows(store, store')
<1>1. admitted' \in SUBSET Requests
  BY DEF IInv, Admit, Refuse, Requests
<1> QED
  BY <1>1, StorageUntouched, NotCounted DEF Admit, Refuse

LEMMA WorkerGoneFollows ==
    ASSUME IInv, NEW p \in Probe, NEW k \in WorkerKind, WorkerGone(p, k)
    PROVE  IInv' /\ Follows(store, store')
<1>1. held' \subseteq held /\ admitted' \in SUBSET Requests
  BY DEF IInv, WorkerGone
<1> QED
  BY <1>1, StorageUntouched, NotCounted DEF WorkerGone

LEMMA ExecuteFollows ==
    ASSUME IInv, NEW p \in Probe, Execute(p)
    PROVE  IInv' /\ Follows(store, store')
<1> DEFINE x == executions[p]
           n == x.count + 1
           m == x.late - 1
           c == [x EXCEPT !.count = n, !.attempt = n]
           d == [x EXCEPT !.count = n, !.late = m]
<1>1. /\ p \in Recovery /\ Counted /\ x \in ExecutionRecord /\ x.attempt <= x.count
      /\ x.count \in Nat /\ n \in Nat /\ x.late \in Nat /\ x.attempt \in Nat
  BY DEF Execute, IInv, Counted, ExecutionRecord
<1>2. ASSUME executions' = [executions EXCEPT ![p].count = @ + 1, ![p].attempt = x.count + 1]
      PROVE  Counting
  <2>1. c \in ExecutionRecord /\ c.attempt <= c.count /\ x.count <= c.count
    <3> HIDE DEF x, n
    <3>1. c \in ExecutionRecord /\ c.count = n /\ c.attempt = n
      BY <1>1 DEF ExecutionRecord
    <3> HIDE DEF c
    <3> QED
      BY <1>1, <3>1 DEF n
  <2>2. executions' = [executions EXCEPT ![p] = c]
    BY <1>1, <1>2 DEF Counted, ExecutionRecord
  <2> HIDE DEF c
  <2> QED
    BY <1>1, <2>1, <2>2, Counts
<1>3. ASSUME x.late > 0, executions' = [executions EXCEPT ![p].count = @ + 1, ![p].late = @ - 1]
      PROVE  Counting
  <2>1. d \in ExecutionRecord /\ d.attempt <= d.count /\ x.count <= d.count
    <3>1. m \in Nat
      BY <1>1, <1>3
    <3> HIDE DEF x, n, m
    <3>2. d \in ExecutionRecord /\ d.count = n /\ d.attempt = x.attempt
      BY <1>1, <3>1 DEF ExecutionRecord
    <3> HIDE DEF d
    <3> QED
      BY <1>1, <3>2 DEF n
  <2>2. executions' = [executions EXCEPT ![p] = d]
    BY <1>1, <1>3 DEF Counted, ExecutionRecord
  <2> HIDE DEF d
  <2> QED
    BY <1>1, <2>1, <2>2, Counts
<1>4. Counting
  BY <1>2, <1>3 DEF Execute
<1>5. admitted' \in SUBSET Requests
  BY DEF IInv, Execute
<1> QED
  BY <1>4, <1>5, StorageUntouched DEF Execute

\* Steps of time, and of the alarm that fires: no handler, and every lease stays one.
LEMMA TimeFollows ==
    ASSUME IInv, Follows(store, store'), UNCHANGED <<admitted, held, executions, crashes>>,
           alarmed' \in Pilot \cup Presence \cup {None},
           \A p \in Probe, k \in WorkerKind :
              store.probe[p].job[k].status = "leased" => store'.probe[p].job[k].status = "leased"
    PROVE  IInv'
<1>1. Counting
  BY NotCounted
<1>2. Good(store)'
  BY <1>1, GoodGrows DEF Follows
<1>3. \A p \in Probe, k \in WorkerKind :
         <<p, k>> \in held' => store'.probe[p].job[k].status = "leased"
  BY DEF IInv
<1> QED
  BY <1>1, <1>2, <1>3 DEF IInv, Counting

LEMMA ScopeExpiresFollows ==
    ASSUME IInv, NEW p \in Probe, ScopeExpires(p)
    PROVE  IInv' /\ Follows(store, store')
<1> DEFINE x == store.probe[p]
           y == [x EXCEPT !.scope = "lapsed"]
           w == View(store, p)
           v == WithOwn(w, y)
<1>1. Good(store) /\ store \in Storage /\ x.scope \in {"preparing", "active"}
  BY DEF IInv, Good, ScopeExpires
<1>2. w \in Views /\ w.own = x /\ w.pilot = store.pilot /\ w.alarm = store.alarm /\ Sound(p, w)
  BY <1>1, Viewed DEF Good
<1>3. x \in ProbeRecord
  BY <1>1 DEF Storage
<1>4. y \in ProbeRecord
  BY <1>3 DEF ProbeRecord
<1>5. /\ y.scope = "lapsed" /\ y.reserved = x.reserved /\ y.allowed = x.allowed
      /\ y.mission = x.mission /\ y.work = x.work /\ y.attempts = x.attempts /\ y.job = x.job
  BY <1>3 DEF ProbeRecord
<1>6. store' = [store EXCEPT !.probe = [@ EXCEPT ![p] = y]]
  BY <1>1 DEF ScopeExpires, Storage
<1> HIDE DEF w, x, y
<1>7. v \in Views /\ v.own = y /\ v.pilot = store.pilot /\ v.alarm = store.alarm
  BY <1>2, <1>4, OwnWritten
<1> HIDE DEF v
<1>8. Visible(v, p) = Visible(w, p)
  BY <1>2, <1>5, <1>7 DEF Visible, Listed, Active
<1>9. Sound(p, v)
  BY <1>2, <1>5, <1>7, <1>8 DEF Sound, ReservedFirst, LeasesAreListed, WorkHasJob, AttemptsLeft,
     SuccessIsDone, ClosedIsDone
<1>10. store' = Put(store, p, v)
  BY <1>1, <1>6, <1>7 DEF Put, Storage
<1>11. \A q \in Started(store) : q = p
  BY <1>1 DEF Good, Started, x
<1>12. Good(Put(store, p, v))
  BY <1>1, <1>5, <1>7, <1>9, <1>11, PutIsGood
<1>13. /\ store'.probe[p] = y
       /\ \A q \in Probe \ {p} : store'.probe[q] = store.probe[q]
  BY <1>1, <1>7, <1>10, PutBack
<1>14. Follows(store, store')
  <2>1. Quiet(x, y)
    BY <1>5 DEF Quiet
  <2> QED
    BY <1>10, <1>12, <1>13, <2>1, QuietSame DEF Follows, x
<1>15. \A q \in Probe, k \in WorkerKind :
          store.probe[q].job[k].status = "leased" => store'.probe[q].job[k].status = "leased"
  BY <1>5, <1>13 DEF x
<1>16. UNCHANGED <<alarmed, admitted, held, executions, crashes>>
  BY DEF ScopeExpires
<1>17. alarmed' \in Pilot \cup Presence \cup {None}
  BY <1>16 DEF IInv
<1> QED
  BY <1>14, <1>15, <1>16, <1>17, TimeFollows

LEMMA LeaseExpiresFollows ==
    ASSUME IInv, NEW p \in Probe, NEW k \in WorkerKind, LeaseExpires(p, k)
    PROVE  IInv' /\ Follows(store, store')
<1> DEFINE w == View(store, p)
           v == [w EXCEPT !.own.job[k].expired = TRUE]
           x == store.probe[p]
<1>1. Good(store) /\ store \in Storage /\ x.job[k].status = "leased" /\ k \in Kind
  BY DEF IInv, Good, LeaseExpires, WorkerKind, Kind
<1>2. w \in Views /\ w.own = x /\ w.pilot = store.pilot /\ w.alarm = store.alarm /\ Sound(p, w)
  BY <1>1, Viewed DEF Good
<1>3. Leased(p, w, k)
  BY <1>1, <1>2 DEF Leased
<1>4. x \in ProbeRecord /\ x.job \in [Kind -> Job] /\ x.job[k] \in Job
  BY <1>1 DEF Storage, ProbeRecord
<1>5. store' = Put(store, p, v)
  <2> DEFINE y == [x EXCEPT !.job[k].expired = TRUE]
  <2>1. store' = [store EXCEPT !.probe = [@ EXCEPT ![p] = y]]
    BY <1>1 DEF LeaseExpires, Storage
  <2>2. v = WithOwn(w, y)
    BY <1>2 DEF Views, WithOwn
  <2>3. y \in ProbeRecord
    <3> DEFINE j == [x.job[k] EXCEPT !.expired = TRUE]
               jobs == [x.job EXCEPT ![k] = j]
    <3>1. j \in Job
      BY <1>4 DEF Job
    <3> HIDE DEF j
    <3>2. jobs \in [Kind -> Job]
      BY <1>1, <1>4, <3>1
    <3>3. y = [x EXCEPT !.job = jobs]
      BY <1>4 DEF ProbeRecord, j
    <3> HIDE DEF jobs, y
    <3> QED
      BY <1>4, <3>2, <3>3 DEF ProbeRecord
  <2> HIDE DEF w, x, v, y
  <2>4. v.own = y /\ v.alarm = store.alarm /\ v.pilot = store.pilot
    BY <1>2, <2>2, <2>3, OwnWritten
  <2> QED
    BY <1>1, <2>1, <2>4 DEF Put, Storage
<1>6. Stays(p, w, Done(v))
  BY <1>3, LeaseExpiresStays
<1>7. /\ Sound(p, v) /\ v.own.scope = x.scope /\ v.pilot = store.pilot
  BY <1>2, <1>6 DEF Stays, Keeps, Outcomes, Done
<1>8. v.own.mission = x.mission /\ v.own.work = x.work /\ v.own.attempts = x.attempts
      /\ \A i \in Kind : v.own.job[i].status = x.job[i].status
  BY <1>1, <1>2, <1>4 DEF Views, ProbeRecord, Job
<1> HIDE DEF w, v, x
<1>9. x.scope # "closed" /\ x.scope # "none"
  <2>1. Going(p, w)
    BY <1>3, LeasedIsGoing
  <2> QED
    BY <1>2, <2>1 DEF Going, Alive
<1>10. Good(store')
  <2>1. x.scope \in {"preparing", "active", "lapsed"} => \A q \in Started(store) : q = p
    BY <1>1 DEF Good, Started, x
  <2>2. x.scope = "active" /\ store.named # None => store.presence[store.named] # "active"
    BY <1>1 DEF Good, Open, x
  <2> QED
    BY <1>1, <1>5, <1>7, <1>9, <2>1, <2>2, PutIsGood
<1>11. /\ store'.probe[p] = v.own
       /\ \A q \in Probe \ {p} : store'.probe[q] = store.probe[q]
  BY <1>1, <1>5, <1>7, PutBack DEF Sound
<1>12. Quiet(x, v.own)
  BY <1>8 DEF Quiet
<1>13. Follows(store, store')
  BY <1>10, <1>11, <1>12, QuietSame DEF Follows, x
<1>14. \A q \in Probe, i \in WorkerKind :
          store.probe[q].job[i].status = "leased" => store'.probe[q].job[i].status = "leased"
  BY <1>8, <1>11 DEF x, WorkerKind, Kind
<1>15. UNCHANGED <<alarmed, admitted, held, executions, crashes>>
  BY DEF LeaseExpires
<1>16. alarmed' \in Pilot \cup Presence \cup {None}
  BY <1>15 DEF IInv
<1> QED
  BY <1>13, <1>14, <1>15, <1>16, TimeFollows

-----------------------------------------------------------------------------
(* Presence probes and the alarm. *)

\* A close of a presence probe opens no window.
LEMMA ClosePresenceFollows ==
    ASSUME NEW s, Good(s), NEW a \in Presence
    PROVE  \A t \in Outcomes(ClosePresence(s, a)) : Follows(s, t)
<1> DEFINE c == [s EXCEPT !.presence[a] = "closed"]
           e == [c EXCEPT !.named = IF @ = a THEN None ELSE @]
<1>1. s \in Storage
  BY DEF Good
<1>2. /\ c \in Storage /\ c.probe = s.probe /\ c.pilot = s.pilot /\ c.named = s.named
      /\ c.presence = [s.presence EXCEPT ![a] = "closed"]
  <2> DEFINE f == [s.presence EXCEPT ![a] = "closed"]
  <2>1. f \in [Presence -> {"none", "active", "lapsed", "closed"}]
    BY <1>1 DEF Storage
  <2>2. c = [s EXCEPT !.presence = f]
    BY <1>1 DEF Storage
  <2> HIDE DEF f, c
  <2>3. c \in Storage /\ c.probe = s.probe /\ c.pilot = s.pilot /\ c.named = s.named
        /\ c.presence = f
    BY <1>1, <2>1, <2>2 DEF Storage
  <2> QED
    BY <2>3 DEF f
<1> HIDE DEF c
<1>3. /\ e \in Storage /\ e.probe = s.probe /\ e.pilot = s.pilot /\ e.named \in {s.named, None}
      /\ e.presence = c.presence
  BY <1>2 DEF Storage
<1> HIDE DEF e
<1>4. \A b \in Presence : c.presence[b] \in {s.presence[b], "closed"}
  BY <1>1, <1>2 DEF Storage
<1>5. s.named \in Presence \cup {None}
  BY <1>1 DEF Storage
<1>6. Follows(s, c)
  <2>1. \A p \in Probe : Open(c, p) /\ c.named # None => c.presence[c.named] # "active"
    BY <1>2, <1>4, <1>5 DEF Good, Open
  <2> QED
    BY <1>2, <2>1, SameProbesIsGood
<1>7. Follows(s, e)
  <2>1. \A p \in Probe : Open(e, p) /\ e.named # None => e.presence[e.named] # "active"
    BY <1>3, <1>4, <1>5 DEF Good, Open
  <2> QED
    BY <1>3, <2>1, SameProbesIsGood
<1> QED
  BY <1>6, <1>7 DEF ClosePresence, Outcomes, Then, Done, c, e

LEMMA StartPresenceFollows ==
    ASSUME IInv, NEW a \in Presence, StartPresence(a)
    PROVE  IInv' /\ Follows(store, store')
<1> DEFINE b == store.named
           lapsed == IF b # None /\ store.presence[b] = "lapsed"
                     THEN [store EXCEPT !.presence[b] = "closed"] ELSE store
           unnamed == [lapsed EXCEPT !.named = None]
           scoped == [unnamed EXCEPT !.presence[a] = "active"]
           marked == [scoped EXCEPT !.named = a]
           set == [marked EXCEPT !.alarm = TRUE]
           h == Then(lapsed, Then(unnamed, Then(scoped, Then(marked, Done(set)))))
           Same(t) == t \in Storage /\ t.probe = store.probe /\ t.pilot = store.pilot
<1>1. Good(store) /\ store \in Storage /\ b \in Presence \cup {None}
  BY DEF IInv, Good, Storage
<1>2. \A p \in Probe : ~Open(store, p)
  BY DEF StartPresence
<1>3. Handle(h, admitted, alarmed, held) /\ Counting
  BY NotCounted DEF StartPresence
<1>4. Same(lapsed)
  <2>1. ASSUME b \in Presence PROVE Same([store EXCEPT !.presence[b] = "closed"])
    <3> DEFINE f == [store.presence EXCEPT ![b] = "closed"]
    <3>1. f \in [Presence -> {"none", "active", "lapsed", "closed"}]
      BY <1>1, <2>1 DEF Storage
    <3>2. [store EXCEPT !.presence[b] = "closed"] = [store EXCEPT !.presence = f]
      BY <1>1 DEF Storage
    <3> HIDE DEF f, b
    <3> QED
      BY <1>1, <3>1, <3>2 DEF Storage
  <2> QED
    BY <1>1, <2>1
<1> HIDE DEF b, lapsed
<1>5. Same(unnamed)
  BY <1>4 DEF Storage
<1> HIDE DEF unnamed
<1>6. Same(scoped)
  <2> DEFINE f == [unnamed.presence EXCEPT ![a] = "active"]
  <2>1. f \in [Presence -> {"none", "active", "lapsed", "closed"}]
    BY <1>5 DEF Storage
  <2>2. scoped = [unnamed EXCEPT !.presence = f]
    BY <1>5 DEF Storage
  <2> HIDE DEF f, scoped
  <2> QED
    BY <1>5, <2>1, <2>2 DEF Storage
<1> HIDE DEF scoped
<1>7. Same(marked)
  BY <1>6 DEF Storage
<1> HIDE DEF marked
<1>8. Same(set)
  BY <1>7 DEF Storage
<1> HIDE DEF set
<1>9. \A t : Same(t) => Follows(store, t)
  <2> SUFFICES ASSUME NEW t, Same(t) PROVE Follows(store, t)
    OBVIOUS
  <2>1. \A p \in Probe : ~Open(t, p)
    BY <1>2 DEF Open
  <2> QED
    BY <1>1, <2>1, SameProbesIsGood
<1> HIDE DEF Same
<1>10. \A t \in Outcomes(h) : Same(t)
  BY <1>4, <1>5, <1>6, <1>7, <1>8 DEF Outcomes, Then, Done
<1> HIDE DEF h
<1> QED
  BY <1>3, <1>9, <1>10, HandledFollows DEF IInv

LEMMA EndPresenceFollows ==
    ASSUME IInv, NEW a \in Presence, EndPresence(a)
    PROVE  IInv' /\ Follows(store, store')
<1>1. \A t \in Outcomes(ClosePresence(store, a)) : Follows(store, t)
  BY ClosePresenceFollows DEF IInv
<1> QED
  BY <1>1, HandledFollows, NotCounted DEF EndPresence, IInv

LEMMA PresenceExpiresFollows ==
    ASSUME IInv, NEW a \in Presence, PresenceExpires(a)
    PROVE  IInv' /\ Follows(store, store')
<1> DEFINE f == [store.presence EXCEPT ![a] = "lapsed"]
           t == [store EXCEPT !.presence = f]
<1>1. Good(store) /\ store \in Storage /\ store.named \in Presence \cup {None}
  BY DEF IInv, Good, Storage
<1>2. f \in [Presence -> {"none", "active", "lapsed", "closed"}]
      /\ \A b \in Presence : f[b] \in {store.presence[b], "lapsed"}
  BY <1>1 DEF Storage
<1>3. store' = t
  BY <1>1 DEF PresenceExpires, Storage
<1> HIDE DEF f
<1>4. /\ t \in Storage /\ t.probe = store.probe /\ t.pilot = store.pilot /\ t.named = store.named
      /\ t.presence = f
  BY <1>1, <1>2 DEF Storage
<1> HIDE DEF t
<1>5. \A p \in Probe : Open(t, p) /\ t.named # None => t.presence[t.named] # "active"
  BY <1>1, <1>2, <1>4 DEF Good, Open
<1>6. Follows(store, store')
  BY <1>1, <1>3, <1>4, <1>5, SameProbesIsGood
<1>7. UNCHANGED <<alarmed, admitted, held, executions, crashes>>
  BY DEF PresenceExpires
<1>8. alarmed' \in Pilot \cup Presence \cup {None}
  BY <1>7 DEF IInv
<1>9. \A p \in Probe, k \in WorkerKind :
         store.probe[p].job[k].status = "leased" => store'.probe[p].job[k].status = "leased"
  BY <1>3, <1>4
<1> QED
  BY <1>6, <1>7, <1>8, <1>9, TimeFollows

LEMMA AlarmFiresFollows ==
    ASSUME IInv, AlarmFires
    PROVE  IInv' /\ Follows(store, store')
<1>1. Good(store) /\ store \in Storage
  BY DEF IInv, Good
<1>2. Follows(store, store')
  BY <1>1, AlarmSetFollows, FollowsSame DEF AlarmFires
<1>3. alarmed' \in Pilot \cup Presence \cup {None}
  BY <1>1 DEF AlarmFires, Storage
<1>4. store'.probe = store.probe
  BY <1>1 DEF AlarmFires, Storage
<1>5. UNCHANGED <<admitted, held, executions, crashes>>
  BY DEF AlarmFires
<1> QED
  BY <1>2, <1>3, <1>4, <1>5, TimeFollows

LEMMA AlarmPresenceFollows ==
    ASSUME IInv, AlarmPresence
    PROVE  IInv' /\ Follows(store, store')
<1> DEFINE set == [store EXCEPT !.alarm = TRUE]
           h == IF store.presence[alarmed] \notin {"active", "lapsed"} THEN Done(store)
                ELSE IF Lapsed(store, alarmed) THEN ClosePresence(store, alarmed)
                ELSE Done(set)
<1>1. Good(store) /\ store \in Storage /\ alarmed \in Presence
  BY DEF IInv, Good, AlarmPresence
<1>2. \A t \in Outcomes(ClosePresence(store, alarmed)) : Follows(store, t)
  BY <1>1, ClosePresenceFollows
<1>3. Follows(store, store) /\ Follows(store, set)
  BY <1>1, FollowsSame, AlarmSetFollows
<1>4. Handle(h, admitted, None, held) /\ Counting
  BY NotCounted DEF AlarmPresence
<1> HIDE DEF set
<1>5. \A t \in Outcomes(h) : Follows(store, t)
  BY <1>2, <1>3 DEF Outcomes, Done
<1> HIDE DEF h
<1> QED
  BY <1>4, <1>5, HandledFollows DEF IInv

LEMMA AlarmPilotFollows ==
    ASSUME IInv, AlarmPilot
    PROVE  IInv' /\ Follows(store, store')
<1> DEFINE p == alarmed
           r == Reconcile(View(store, p), p)
           g == Of(store, p, Both(r, Done(ScheduleAlarm(r.end, p))))
           h == IF Admits(store, p) THEN g ELSE Done(store)
<1>1. Good(store) /\ p \in Pilot /\ p \in Probe /\ store \in Storage
  BY DEF IInv, Good, AlarmPilot, Probe
<1>2. Handle(h, admitted, None, held) /\ Counting
  BY NotCounted DEF AlarmPilot
<1> HIDE DEF p
<1>3. ASSUME Admits(store, p) PROVE \A t \in Outcomes(g) : Follows(store, t)
  <2>1. Open(store, p) /\ View(store, p).own.scope = "active" /\ Sound(p, View(store, p))
    BY <1>1, <1>3, Viewed DEF Good, Open, Admits
  <2>2. Stays(p, View(store, p), r)
    BY <1>1, <2>1, ReconcileStays
  <2> HIDE DEF r
  <2>3. Stays(p, View(store, p), Both(r, Done(ScheduleAlarm(r.end, p))))
    BY <1>1, <2>2, ServedStays
  <2> QED
    BY <1>1, <2>1, <2>3, ServedFollows
<1> HIDE DEF g
<1>4. \A t \in Outcomes(h) : Follows(store, t)
  BY <1>1, <1>3, FollowsSame DEF Outcomes, Done
<1> HIDE DEF h
<1> QED
  BY <1>2, <1>4, HandledFollows DEF IInv

LEMMA Inductive ==
    ASSUME IInv, [Next]_vars
    PROVE  IInv' /\ Follows(store, store')
<1>1. ASSUME NEW p \in Probe, ProbeStep(p) PROVE IInv' /\ Follows(store, store')
  BY <1>1, StartProbeFollows, CloseProbeFollows, ScopeExpiresFollows DEF ProbeStep
<1>2. ASSUME NEW p \in Probe, WorkerStep(p) PROVE IInv' /\ Follows(store, store')
  BY <1>2, AdmitFollows, WorkersFollow, WorkerGoneFollows, LeaseExpiresFollows, ExecuteFollows
     DEF WorkerStep
<1>3. ASSUME NEW a \in Presence, PresenceStep(a) PROVE IInv' /\ Follows(store, store')
  BY <1>3, StartPresenceFollows, EndPresenceFollows, PresenceExpiresFollows DEF PresenceStep
<1>4. ASSUME UNCHANGED vars PROVE IInv' /\ Follows(store, store')
  <2>1. admitted' \in SUBSET Requests /\ held' \subseteq held /\ UNCHANGED <<store, crashes>>
        /\ alarmed' = alarmed /\ Counting
    BY <1>4, NotCounted DEF vars, IInv
  <2> QED
    BY <2>1, StorageUntouched
<1> QED
  BY <1>1, <1>2, <1>3, <1>4, AlarmFiresFollows, AlarmPresenceFollows, AlarmPilotFollows DEF Next

-----------------------------------------------------------------------------
(***************************************************************************)
(* The theorems                                                            *)
(***************************************************************************)

\* The inductive invariant: types, and the records, windows and pointers of every
\* probe as the handlers and their cuts leave them (worker.mjs 359-917, 1182-2391).
THEOREM ScopesAreGood == Spec => []IInv
<1>1. IInv /\ [Next]_vars => IInv'
  BY Inductive
<1> QED
  BY <1>1, InitIsGood, PTL DEF Spec

\* The variables have their types, no task is tried more often than it may be, and the
\* number of an execution is one that was counted.
THEOREM ScopeTypes == Spec => []TypeOK
<1>1. IInv => TypeOK
  <2> SUFFICES ASSUME IInv PROVE TypeOK
    OBVIOUS
  <2>1. \A p \in Probe : store.probe[p].attempts <= MaxAttempts(p)
    BY Viewed DEF IInv, Good, Sound, AttemptsLeft
  <2> QED
    BY <2>1 DEF IInv, Good, Counted, TypeOK, Requests, Holdings
<1> QED
  BY <1>1, ScopesAreGood, PTL

\* One probe at most is started and not closed, wherever a start or a close was cut,
\* and none has its window open while a presence probe is watching.
THEOREM OneWindowIsOpen == Spec => []OneWindow
<1>1. IInv => OneWindow
  <2> SUFFICES ASSUME IInv PROVE OneWindow
    OBVIOUS
  <2>1. Cardinality(Started(store)) <= 1
    <3>1. CASE Started(store) = {}
      BY <3>1, FS_EmptySet
    <3>2. CASE Started(store) # {}
      <4>1. PICK p \in Started(store) : TRUE
        BY <3>2
      <4>2. Started(store) = {p}
        BY <4>1 DEF IInv, Good
      <4>3. Cardinality({p}) = 1
        BY FS_Singleton
      <4> QED
        BY <4>2, <4>3
    <3> QED
      BY <3>1, <3>2
  <2> QED
    BY <2>1 DEF OneWindow, IInv, Good
<1> QED
  BY <1>1, ScopesAreGood, PTL

\* A closed probe leaves nothing behind that could go on.
THEOREM ClosedProbesAreOver == Spec => []ClosedIsOver
<1>1. IInv => ClosedIsOver
  <2> SUFFICES ASSUME IInv, NEW p \in Probe, store.probe[p].scope = "closed"
      PROVE  /\ store.probe[p].mission \in {"absent", "succeeded", "cancelled"}
             /\ Visible(View(store, p), p) = {}
             /\ store.pilot # p
    BY DEF ClosedIsOver
  <2>1. ClosedIsDone(p, View(store, p)) /\ View(store, p).own = store.probe[p]
    BY Viewed DEF IInv, Good, Sound
  <2> QED
    BY <2>1 DEF ClosedIsDone, IInv, Good
<1> QED
  BY <1>1, ScopesAreGood, PTL

\* A recovery probe succeeds on a task that was executed at least twice, whichever
\* leases and jobs these were, and verified.
THEOREM RecoveryIsProven == Spec => []SuccessIsRecovery
<1>1. IInv => SuccessIsRecovery
  <2> SUFFICES ASSUME IInv, NEW p \in Probe, store.probe[p].mission = "succeeded"
      PROVE  /\ store.probe[p].work = "succeeded"
             /\ store.probe[p].job["task"].status = "completed"
             /\ p \in Recovery => executions[p].count >= 2
             /\ Visible(View(store, p), p) = {}
    BY DEF SuccessIsRecovery
  <2>1. /\ SuccessIsDone(p, View(store, p)) /\ WorkHasJob(p, View(store, p).own)
        /\ View(store, p).own = store.probe[p]
    BY Viewed DEF IInv, Good, Sound
  <2> QED
    BY <2>1 DEF SuccessIsDone, WorkHasJob, Repeated
<1> QED
  BY <1>1, ScopesAreGood, PTL

\* Outside of its window a probe's mission and jobs are cancelled or left alone.
THEOREM WindowsAreKept == Spec => NothingAfterTheWindow
<1>1. IInv /\ [Next]_vars =>
        [\A p \in Probe :
           LET x == store.probe[p]
               y == store'.probe[p]
           IN  x.scope \notin {"none", "active"} =>
                   /\ y.mission \in {x.mission, "cancelled"}
                   /\ y.work = x.work /\ y.attempts = x.attempts
                   /\ \A k \in Kind : y.job[k].status \in {x.job[k].status, "cancelled"}]_vars
  BY Inductive DEF Follows, Quiet
<1> QED
  BY <1>1, ScopesAreGood, PTL DEF Spec, NothingAfterTheWindow
=============================================================================
