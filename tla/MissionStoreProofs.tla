-------------------------- MODULE MissionStoreProofs --------------------------
(***************************************************************************)
(* Theorems about the Cloudflare mission store, for any tasks,             *)
(* dependencies, gates, attempts, leases, resumes and crashes.             *)
(*                                                                         *)
(* One invariant, Good, holds of every storage that a handler writes, of   *)
(* the last one and of each one at which a crash can cut it short: so each *)
(* handler needs one argument for both, and recovery starts from a storage *)
(* like any other.  Good(s, n) relates a storage to the replays n that     *)
(* people have authorized.                                                 *)
(***************************************************************************)
EXTENDS MissionStore, FiniteSetTheorems, WellFoundedInduction, TLAPS

\* What holds of a task and of the replays authorized for it.
TaskIsSound(t, r, n) ==
    /\ t \in Gated /\ r.attempts > 0 => r.approved
    /\ r.rejected => r.status \in {"failed", "skipped"} /\ r.attempts = 0
    /\ r.ambiguous => r.status = "waiting_human"
    /\ r.status = "waiting_human" /\ ~r.ambiguous => r.attempts = 0
    /\ r.status = "skipped" => r.replacement \in Task
    /\ t \notin Idempotent => r.attempts <= IF r.status = "pending" THEN n ELSE 1 + n

\* The mission says which task it works on, and does so while it is running.
Focused(s) ==
    /\ \A t \in Task : s.task[t].status = "running" <=> s.current = t
    /\ s.current # NoTask => s.status = "running"

\* The approval that is open is of a task that waits for it.
Asked(s) ==
    s.approval # NoTask =>
        /\ s.task[s.approval].status = "waiting_human"
        /\ ~s.task[s.approval].ambiguous
        /\ ~s.task[s.approval].approved
        /\ s.approval \in Gated

\* A mission that replans has a replan left.
Budgeted(s) == s.status = "planning" /\ Present(s) # {} => s.replans < MaxReplans

OneThing(s) ==
    \A k \in ActiveJobs(s) :
        /\ ActiveJobs(s) = {k}
        /\ k \in {Plan, Replan} => s.status = "planning" /\ k = PlanKind(s)
        /\ k = Verify => /\ s.status = "running"
                         /\ Present(s) = TasksIn(s, {"succeeded", "skipped"})
        /\ k \in Task => /\ s.status = "running"
                         /\ s.current = k
                         /\ s.task[k].status = "running"

Earned(s) ==
    s.status = "succeeded" =>
        /\ Present(s) # {}
        /\ ActiveJobs(s) = {}
        /\ \A t \in Present(s) :
              LET r == s.task[t].replacement
              IN  \/ s.task[t].status = "succeeded" /\ s.task[t].evidence
                  \/ /\ s.task[t].status = "skipped"
                     /\ s.task[r].status = "succeeded" /\ s.task[r].evidence

NewMission(s) == s.status = "absent" => Present(s) = {} /\ ActiveJobs(s) = {}

Good(s, n) ==
    /\ s \in Storage
    /\ \A t \in Task : TaskIsSound(t, s.task[t], n[t])
    /\ Focused(s)
    /\ Asked(s)
    /\ Budgeted(s)
    /\ OneThing(s)
    /\ Earned(s)
    /\ NewMission(s)

-----------------------------------------------------------------------------
(***************************************************************************)
(* Handlers                                                                *)
(***************************************************************************)

\* Wherever a handler ends or is cut short, the storage is good.
Safe(h, n) == Good(h.end, n) /\ \A c \in h.cuts : Good(c, n)

\* A handler that ends at once.
LEMMA DoneSafe ==
    ASSUME NEW s, NEW n, Good(s, n)
    PROVE  Safe(Done(s), n)
BY DEF Safe, Done

\* A write before the rest.
LEMMA ThenSafe ==
    ASSUME NEW s, NEW h, NEW n, Good(s, n), Safe(h, n)
    PROVE  Safe(Then(s, h), n)
BY DEF Safe, Then

\* One handler after the other.
LEMMA BothSafe ==
    ASSUME NEW g, NEW h, NEW n, Safe(g, n), Safe(h, n)
    PROVE  Safe(Both(g, h), n)
BY DEF Safe, Both

-----------------------------------------------------------------------------
(***************************************************************************)
(* Storages                                                                *)
(***************************************************************************)

\* The first task of a set is one of them.
LEMMA FirstIsMember ==
    ASSUME NEW S, S \subseteq Task, S # {}
    PROVE  First(S) \in S
<1> DEFINE Below(x) == {y \in S : y < x}
           T == {Below(x) : x \in S}
           R == StrictSubsetOrdering(S)
<1>1. S \subseteq Nat /\ IsFiniteSet(S)
  <2>1. NumTasks \in Int /\ 1 \in Int
    BY MissionStoreAssumption
  <2>2. IsFiniteSet(Task)
    BY <2>1, FS_Interval DEF Task
  <2>3. IsFiniteSet(S)
    BY <2>2, FS_Subset
  <2> QED
    BY <2>1, <2>3 DEF Task
<1>2. T \subseteq FiniteSubsetsOf(S)
  BY <1>1, FS_FiniteSubsetsOfFinite
<1>3. T # {}
  OBVIOUS
<1>4. PICK B \in T : \A C \in T : <<C, B>> \notin R
  <2>1. IsWellFoundedOn(R, FiniteSubsetsOf(S))
    BY FS_StrictSubsetOrderingWellFounded
  <2> HIDE DEF T, R
  <2> QED
    BY <1>2, <1>3, <2>1, WFMin
<1>5. PICK x \in S : B = Below(x)
  BY <1>4
<1>6. \A y \in S : x <= y
  <2> SUFFICES ASSUME NEW y \in S, y < x PROVE FALSE
    BY <1>1
  <2>1. Below(y) \subseteq Below(x)
    <3> SUFFICES ASSUME NEW z \in S, z < y PROVE z < x
      OBVIOUS
    <3>1. z \in Nat /\ y \in Nat /\ x \in Nat
      BY <1>1
    <3> QED
      BY <3>1
  <2>2. y \in Below(x) /\ y \notin Below(y)
    BY <1>1
  <2>3. <<Below(y), B>> \in R
    BY <2>1, <2>2, <1>5 DEF StrictSubsetOrdering
  <2> QED
    BY <1>4, <2>3
<1> QED
  BY <1>6 DEF First

\* The keys of jobs.
LEMMA Keys ==
    /\ Task \subseteq Key /\ {Plan, Replan, Verify} \subseteq Key
    /\ Plan \notin Task /\ Replan \notin Task /\ Verify \notin Task /\ NoTask \notin Task
    /\ Plan # Replan /\ Verify \notin {Plan, Replan}
BY MissionStoreAssumption DEF Task, Key, Plan, Replan, Verify, NoTask

\* Jobs may change as long as no other becomes active.
LEMMA JobsOnly ==
    ASSUME NEW s, NEW n, Good(s, n), NEW q \in Storage,
           q.status = s.status, q.task = s.task, q.current = s.current,
           q.replans = s.replans, q.approval = s.approval,
           ActiveJobs(q) \subseteq ActiveJobs(s)
    PROVE  Good(q, n)
<1> USE DEF Good, Present, TasksIn
<1>1. Focused(q) /\ Asked(q) /\ Budgeted(q)
  BY DEF Focused, Asked, Budgeted
<1>2. OneThing(q)
  <2> SUFFICES ASSUME NEW k \in ActiveJobs(q)
               PROVE  /\ ActiveJobs(q) = {k}
                      /\ k \in {Plan, Replan} => q.status = "planning" /\ k = PlanKind(q)
                      /\ k = Verify => /\ q.status = "running"
                                       /\ Present(q) = TasksIn(q, {"succeeded", "skipped"})
                      /\ k \in Task => /\ q.status = "running"
                                       /\ q.current = k
                                       /\ q.task[k].status = "running"
    BY DEF OneThing
  <2>1. k \in ActiveJobs(s) /\ PlanKind(q) = PlanKind(s)
    BY DEF PlanKind
  <2> QED
    BY <2>1 DEF OneThing
<1>3. Earned(q) /\ NewMission(q)
  BY DEF Earned, NewMission
<1> QED
  BY <1>1, <1>2, <1>3

\* A storage with no active job, of a mission in progress.
LEMMA IdleGood ==
    ASSUME NEW q \in Storage, NEW n, ActiveJobs(q) = {},
           q.status \in {"planning", "running", "waiting_human"},
           \A t \in Task : TaskIsSound(t, q.task[t], n[t]),
           Focused(q), Asked(q), Budgeted(q)
    PROVE  Good(q, n)
BY DEF Good, OneThing, Earned, NewMission

\* The alarm.
LEMMA AlarmGood ==
    ASSUME NEW s, NEW n, Good(s, n), NEW a \in BOOLEAN
    PROVE  Good([s EXCEPT !.alarm = a], n)
<1>1. [s EXCEPT !.alarm = a] \in Storage
  BY DEF Good, Storage
<1> QED
  BY <1>1, JobsOnly DEF Good, Storage, ActiveJobs

\* Setting the alarm at the end of a handler.
LEMMA ScheduleAlarmSafe ==
    ASSUME NEW h, NEW n, Safe(h, n)
    PROVE  Safe(ScheduleAlarm(h), n)
<1>1. Good(h.end, n)
  BY DEF Safe
<1>2. (h.end.alarm \/ h.end.status \in {"planning", "running"} \/ ActiveJobs(h.end) # {})
          \in BOOLEAN
  OBVIOUS
<1>3. Good(WithAlarm(h.end), n)
  BY <1>1, <1>2, AlarmGood DEF WithAlarm
<1> QED
  BY <1>3, DoneSafe, BothSafe DEF ScheduleAlarm

\* A job is created for what the mission does, when nothing else is active.
LEMMA CreateJobSafe ==
    ASSUME NEW s, NEW n, Good(s, n), NEW k \in Key,
           s.job[k].status \in Active \/ ActiveJobs(s) = {},
           k \in {Plan, Replan} => s.status = "planning" /\ k = PlanKind(s),
           k = Verify => /\ s.status = "running"
                         /\ Present(s) = TasksIn(s, {"succeeded", "skipped"}),
           k \in Task => s.status = "running" /\ s.current = k /\ s.task[k].status = "running"
    PROVE  Safe(CreateJob(s, k), n)
<1> DEFINE q == [s EXCEPT !.job[k] = [NoJob EXCEPT !.status = "queued"]]
<1>1. CASE s.job[k].status \in Active
  BY <1>1, DoneSafe DEF CreateJob
<1>2. CASE s.job[k].status \notin Active
  <2>1. /\ s \in Storage
        /\ ActiveJobs(s) = {}
    BY <1>2 DEF Good
  <2>2. [NoJob EXCEPT !.status = "queued"] \in JobRecord
    <3>1. NoJob \in JobRecord
      <4>1. 0 \in 0 .. MaxLeases
        BY MissionStoreAssumption
      <4> QED
        BY <4>1 DEF NoJob, JobRecord
    <3> QED
      BY <3>1 DEF JobRecord
  <2>3. /\ q \in Storage
        /\ q.status = s.status /\ q.task = s.task /\ q.current = s.current
        /\ q.replans = s.replans /\ q.approval = s.approval
        /\ q.job = [s.job EXCEPT ![k] = [NoJob EXCEPT !.status = "queued"]]
    BY <2>1, <2>2 DEF Storage
  <2> HIDE DEF q
  <2>4. ActiveJobs(q) = {k}
    BY <2>1, <2>2, <2>3 DEF ActiveJobs, Active, NoJob, Storage
  <2>5. OneThing(q)
    BY <2>3, <2>4 DEF OneThing, PlanKind, Present, TasksIn
  <2>6. Good(q, n)
    BY <2>3, <2>4, <2>5, Keys DEF Good, Focused, Asked, Budgeted, Earned, NewMission, Present, Key
  <2>7. Good([q EXCEPT !.alarm = TRUE], n)
    BY <2>6, AlarmGood
  <2> QED
    BY <1>2, <2>6, <2>7, DoneSafe, ThenSafe DEF CreateJob, q
<1> QED
  BY <1>1, <1>2

-----------------------------------------------------------------------------
(***************************************************************************)
(* scheduleNext                                                            *)
(***************************************************************************)

\* A running mission that is not busy works on no task, and all that can be
\* active is its verification.
LEMMA NotBusy ==
    ASSUME NEW s, NEW n, Good(s, n), s.status = "running", ~Busy(s)
    PROVE  /\ s.current = NoTask
           /\ \A t \in Task : s.task[t].status # "running"
           /\ ActiveJobs(s) \subseteq {Verify}
           /\ TasksIn(s, {"pending", "failed", "waiting_human"}) # {} => ActiveJobs(s) = {}
<1>1. s.current \in Task \cup {NoTask}
  BY DEF Good, Storage
<1>2. s.current = NoTask
  BY <1>1, Keys DEF Good, Focused, Busy
<1>3. \A t \in Task : s.task[t].status # "running"
  BY <1>2, Keys DEF Good, Focused
<1>4. \A k \in ActiveJobs(s) :
          k = Verify /\ Present(s) = TasksIn(s, {"succeeded", "skipped"})
  BY <1>2, Keys DEF Good, OneThing, ActiveJobs, Key
<1>5. ASSUME NEW t \in Task, s.task[t].status \in {"pending", "failed", "waiting_human"}
      PROVE  ActiveJobs(s) = {}
  BY <1>4, <1>5 DEF Present, TasksIn
<1> QED
  BY <1>2, <1>3, <1>4, <1>5 DEF TasksIn

\* One task of a storage is given another record.
LEMMA TaskPut ==
    ASSUME NEW f \in [Task -> TaskRecord], NEW t \in Task, NEW r \in TaskRecord
    PROVE  /\ [f EXCEPT ![t] = r] \in [Task -> TaskRecord]
           /\ [f EXCEPT ![t] = r][t] = r
           /\ \A u \in Task : u # t => [f EXCEPT ![t] = r][u] = f[u]
OBVIOUS

\* A task is started when nothing is going on.
LEMMA StartTaskSafe ==
    ASSUME NEW s, NEW n \in [Task -> Nat], Good(s, n), ActiveJobs(s) = {}, NEW t \in Task,
           s.status = "running", s.current = NoTask,
           s.task[t].status = "pending", ~RequiresApproval(s, t)
    PROVE  Safe(StartTask(s, t), n)
<1> DEFINE e == [s.task[t] EXCEPT !.status = "running", !.attempts = @ + 1]
           r == [s EXCEPT !.task[t].status = "running", !.task[t].attempts = @ + 1, !.current = t]
<1>1. s \in Storage /\ s.task \in [Task -> TaskRecord] /\ s.task[t] \in TaskRecord
  BY DEF Good, Storage
<1>2. /\ e \in TaskRecord
      /\ e.status = "running"
      /\ e.attempts = s.task[t].attempts + 1
      /\ e.approved = s.task[t].approved /\ e.rejected = s.task[t].rejected
      /\ e.ambiguous = s.task[t].ambiguous
  <2> DEFINE x == s.task[t]
             y == [x EXCEPT !.status = "running"]
             a == x.attempts + 1
  <2>1. x \in TaskRecord
    BY <1>1
  <2> HIDE DEF x
  <2>2. a \in Nat
    BY <2>1 DEF TaskRecord
  <2>3. e = [y EXCEPT !.attempts = a]
    BY <2>1 DEF TaskRecord, x, e
  <2> HIDE DEF a
  <2>4. /\ y \in TaskRecord /\ y.status = "running"
        /\ y.approved = x.approved /\ y.rejected = x.rejected /\ y.ambiguous = x.ambiguous
    BY <2>1 DEF TaskRecord
  <2> HIDE DEF y, e
  <2>5. /\ e \in TaskRecord
        /\ e.status = y.status /\ e.attempts = a /\ e.approved = y.approved
        /\ e.rejected = y.rejected /\ e.ambiguous = y.ambiguous
    BY <2>2, <2>3, <2>4 DEF TaskRecord
  <2> QED
    BY <2>4, <2>5 DEF a, x
<1>3. r = [s EXCEPT !.task = [s.task EXCEPT ![t] = e], !.current = t]
  BY <1>1 DEF Storage, TaskRecord
<1> HIDE DEF e
<1>4. /\ [s.task EXCEPT ![t] = e] \in [Task -> TaskRecord]
      /\ [s.task EXCEPT ![t] = e][t] = e
      /\ \A u \in Task : u # t => [s.task EXCEPT ![t] = e][u] = s.task[u]
  BY <1>1, <1>2, TaskPut
<1> DEFINE f == [s.task EXCEPT ![t] = e]
<1> HIDE DEF f
<1>5. /\ r \in Storage
      /\ r.status = "running" /\ r.task = f /\ r.current = t
      /\ r.approval = s.approval /\ r.job = s.job
  BY <1>1, <1>3, <1>4 DEF Storage, f
<1>6. /\ f[t] = e
      /\ \A u \in Task : u # t => f[u] = s.task[u]
  BY <1>4 DEF f
<1> HIDE DEF r
<1>7. ActiveJobs(r) = {}
  BY <1>5 DEF ActiveJobs
<1>8. TaskIsSound(t, e, n[t])
  <2>1. TaskIsSound(t, s.task[t], n[t])
    BY DEF Good
  <2>2. s.task[t].attempts \in Nat /\ n[t] \in Nat
    BY <1>1 DEF TaskRecord
  <2> QED
    BY <1>2, <2>1, <2>2 DEF TaskIsSound, RequiresApproval
<1>9. \A u \in Task : TaskIsSound(u, r.task[u], n[u])
  BY <1>5, <1>6, <1>8 DEF Good
<1>10. Focused(r)
  BY <1>2, <1>5, <1>6, Keys DEF Good, Focused
<1>11. Asked(r)
  <2>1. s.approval # t
    BY Keys DEF Good, Asked
  <2>2. s.approval \in Task \cup {NoTask}
    BY <1>1 DEF Storage
  <2> QED
    BY <1>5, <1>6, <2>1, <2>2 DEF Good, Asked
<1>12. Good(r, n)
  BY <1>5, <1>7, <1>9, <1>10, <1>11, IdleGood DEF Budgeted
<1>13. Safe(CreateJob(r, t), n)
  BY <1>2, <1>5, <1>6, <1>7, <1>12, Keys, CreateJobSafe
<1> QED
  BY <1>12, <1>13, ThenSafe DEF StartTask, r

\* A gated task asks for its approval.
LEMMA AskedGood ==
    ASSUME NEW s, NEW n \in [Task -> Nat], Good(s, n), ActiveJobs(s) = {}, NEW t \in Task,
           s.status = "running", s.current = NoTask, s.approval = NoTask,
           s.task[t].status = "pending", RequiresApproval(s, t)
    PROVE  LET q == [s EXCEPT !.task[t].status = "waiting_human", !.approval = t,
                              !.current = NoTask]
           IN  /\ Good(q, n)
               /\ Good([q EXCEPT !.status = "waiting_human"], n)
               /\ ActiveJobs(q) = {}
               /\ q.status = "running" /\ q.current = NoTask
               /\ \A u \in Task : u # t => q.task[u] = s.task[u]
<1> DEFINE e == [s.task[t] EXCEPT !.status = "waiting_human"]
           q == [s EXCEPT !.task[t].status = "waiting_human", !.approval = t, !.current = NoTask]
           w == [q EXCEPT !.status = "waiting_human"]
<1>1. s \in Storage /\ s.task \in [Task -> TaskRecord] /\ s.task[t] \in TaskRecord
  BY DEF Good, Storage
<1>2. /\ e \in TaskRecord
      /\ e.status = "waiting_human"
      /\ e.attempts = s.task[t].attempts
      /\ e.approved = s.task[t].approved /\ e.rejected = s.task[t].rejected
      /\ e.ambiguous = s.task[t].ambiguous
  BY <1>1 DEF TaskRecord
<1>3. q = [s EXCEPT !.task = [s.task EXCEPT ![t] = e], !.approval = t, !.current = NoTask]
  BY <1>1 DEF Storage, TaskRecord
<1> HIDE DEF e
<1> DEFINE f == [s.task EXCEPT ![t] = e]
<1>4. /\ f \in [Task -> TaskRecord]
      /\ f[t] = e
      /\ \A u \in Task : u # t => f[u] = s.task[u]
  BY <1>1, <1>2, TaskPut
<1>5. q = [s EXCEPT !.task = f, !.approval = t, !.current = NoTask]
  BY <1>3
<1> HIDE DEF f
<1>6. /\ q \in Storage
      /\ q.status = "running" /\ q.task = f /\ q.current = NoTask
      /\ q.approval = t /\ q.job = s.job
  BY <1>1, <1>4, <1>5 DEF Storage
<1> HIDE DEF q
<1>7. /\ w \in Storage
      /\ w.status = "waiting_human" /\ w.task = f /\ w.current = NoTask
      /\ w.approval = t /\ w.job = s.job
  BY <1>6 DEF Storage
<1> HIDE DEF w
<1>8. ActiveJobs(q) = {} /\ ActiveJobs(w) = {}
  BY <1>6, <1>7 DEF ActiveJobs
<1>9. TaskIsSound(t, e, n[t]) /\ ~e.ambiguous /\ ~e.approved /\ t \in Gated
  <2>1. TaskIsSound(t, s.task[t], n[t])
    BY DEF Good
  <2>2. s.task[t].attempts \in Nat /\ n[t] \in Nat
    BY <1>1 DEF TaskRecord
  <2> QED
    BY <1>2, <2>1, <2>2 DEF TaskIsSound, RequiresApproval
<1>10. \A u \in Task : TaskIsSound(u, f[u], n[u])
  BY <1>4, <1>9 DEF Good
<1>11. \A u \in Task : f[u].status # "running"
  <2>1. \A u \in Task : s.task[u].status # "running"
    BY Keys DEF Good, Focused
  <2> QED
    BY <1>2, <1>4, <2>1
<1>12. Good(q, n)
  <2>1. Focused(q) /\ Asked(q) /\ Budgeted(q)
    BY <1>2, <1>4, <1>6, <1>9, <1>11, Keys DEF Focused, Asked, Budgeted
  <2> QED
    BY <1>6, <1>8, <1>10, <2>1, IdleGood
<1>13. Good(w, n)
  <2>1. Focused(w) /\ Asked(w) /\ Budgeted(w)
    BY <1>2, <1>4, <1>7, <1>9, <1>11, Keys DEF Focused, Asked, Budgeted
  <2> QED
    BY <1>7, <1>8, <1>10, <2>1, IdleGood
<1> QED
  BY <1>4, <1>6, <1>8, <1>12, <1>13 DEF q, w

\* A mission on which nothing is going on waits for a person.
LEMMA GiveUpGood ==
    ASSUME NEW s, NEW n, Good(s, n), ActiveJobs(s) = {}, s.current = NoTask
    PROVE  Good([s EXCEPT !.status = "waiting_human", !.current = NoTask], n)
<1> DEFINE q == [s EXCEPT !.status = "waiting_human", !.current = NoTask]
<1>1. /\ q \in Storage
      /\ q.status = "waiting_human" /\ q.task = s.task /\ q.current = NoTask
      /\ q.approval = s.approval /\ q.job = s.job
  BY DEF Good, Storage
<1> HIDE DEF q
<1>2. ActiveJobs(q) = {}
  BY <1>1 DEF ActiveJobs
<1>3. Focused(q) /\ Asked(q) /\ Budgeted(q)
  BY <1>1, Keys DEF Good, Focused, Asked, Budgeted
<1>4. Good(q, n)
  BY <1>1, <1>2, <1>3, IdleGood DEF Good
<1> QED
  BY <1>4 DEF q

\* scheduleNext.
LEMMA ScheduleNextSafe ==
    ASSUME NEW s, NEW n \in [Task -> Nat], Good(s, n)
    PROVE  Safe(ScheduleNext(s), n)
<1> DEFINE gated == {t \in Ready(s) : RequiresApproval(s, t)}
           free == Ready(s) \ gated
           g == First(gated)
           asked == [s EXCEPT !.task[g].status = "waiting_human", !.approval = g,
                              !.current = NoTask]
<1>0. /\ gated \subseteq Task /\ free \subseteq Task
      /\ \A t \in gated : s.task[t].status = "pending" /\ RequiresApproval(s, t)
      /\ \A t \in free : s.task[t].status = "pending" /\ ~RequiresApproval(s, t)
      /\ gated \cap free = {}
  BY DEF Ready, TasksIn
<1>a. gated # {} \/ free # {} => TasksIn(s, {"pending", "failed", "waiting_human"}) # {}
  BY <1>0 DEF TasksIn
<1>1. CASE s.status # "running" \/ Busy(s)
  BY <1>1, DoneSafe DEF ScheduleNext
<1>2. CASE ~(s.status # "running" \/ Busy(s))
  <2>1. /\ s.status = "running"
        /\ s.current = NoTask
        /\ ActiveJobs(s) \subseteq {Verify}
        /\ TasksIn(s, {"pending", "failed", "waiting_human"}) # {} => ActiveJobs(s) = {}
    BY <1>2, NotBusy
  <2>2. free # {} => First(free) \in free
    <3> HIDE DEF free, gated
    <3> QED
      BY <1>0, FirstIsMember
  <2>3. gated # {} => g \in gated
    <3> HIDE DEF free, gated
    <3> QED
      BY <1>0, FirstIsMember
  <2>4. CASE gated # {} /\ s.approval = NoTask
    <3> HIDE DEF free, gated, g
    <3>1. /\ g \in Task /\ g \in gated
          /\ s.task[g].status = "pending" /\ RequiresApproval(s, g)
          /\ ActiveJobs(s) = {}
      BY <1>0, <1>a, <2>1, <2>3, <2>4
    <3>2. /\ Good(asked, n)
          /\ Good([asked EXCEPT !.status = "waiting_human"], n)
          /\ ActiveJobs(asked) = {}
          /\ asked.status = "running" /\ asked.current = NoTask
          /\ \A u \in Task : u # g => asked.task[u] = s.task[u]
      BY ZenonT(30), <2>1, <2>4, <3>1, AskedGood
    <3> HIDE DEF asked
    <3>3. CASE free # {}
      <4>1. /\ First(free) \in Task
            /\ First(free) # g
            /\ asked.task[First(free)] = s.task[First(free)]
            /\ s.task[First(free)].status = "pending"
            /\ ~RequiresApproval(s, First(free))
        BY <1>0, <2>2, <3>1, <3>2, <3>3
      <4>2. ~RequiresApproval(asked, First(free))
        BY <4>1 DEF RequiresApproval
      <4>3. Safe(StartTask(asked, First(free)), n)
        BY <3>2, <4>1, <4>2, StartTaskSafe
      <4>4. Safe(Then(asked, StartTask(asked, First(free))), n)
        BY <3>2, <4>3, ThenSafe
      <4> QED
        BY <1>2, <2>4, <3>3, <4>4 DEF ScheduleNext, free, gated, g, asked
    <3>4. CASE free = {}
      <4>1. Safe(Then(asked, Done([asked EXCEPT !.status = "waiting_human"])), n)
        BY <3>2, DoneSafe, ThenSafe
      <4> QED
        BY <1>2, <2>4, <3>4, <4>1 DEF ScheduleNext, free, gated, g, asked
    <3> QED
      BY <3>3, <3>4
  <2>5. CASE ~(gated # {} /\ s.approval = NoTask) /\ free # {}
    <3> HIDE DEF free, gated, g, asked
    <3>1. Safe(StartTask(s, First(free)), n)
      BY <1>0, <1>a, <2>1, <2>2, <2>5, StartTaskSafe
    <3> QED
      BY <1>2, <2>5, <3>1 DEF ScheduleNext, free, gated, g, asked
  <2>6. CASE ~(gated # {} /\ s.approval = NoTask) /\ free = {}
    <3>1. CASE Present(s) \subseteq TasksIn(s, {"succeeded", "skipped"})
      <4>1. Present(s) = TasksIn(s, {"succeeded", "skipped"})
        BY <3>1 DEF Present, TasksIn
      <4>2. s.job[Verify].status \in Active \/ ActiveJobs(s) = {}
        BY <2>1 DEF ActiveJobs
      <4>3. Safe(CreateJob(s, Verify), n)
        BY <2>1, <4>1, <4>2, Keys, CreateJobSafe
      <4> QED
        BY <1>2, <2>6, <3>1, <4>3 DEF ScheduleNext
    <3>2. CASE /\ ~(Present(s) \subseteq TasksIn(s, {"succeeded", "skipped"}))
               /\ TasksIn(s, {"pending", "failed", "waiting_human"}) # {}
      <4>1. Safe(Done([s EXCEPT !.status = "waiting_human", !.current = NoTask]), n)
        BY <2>1, <3>2, GiveUpGood, DoneSafe
      <4> QED
        BY <1>2, <2>6, <3>2, <4>1 DEF ScheduleNext
    <3>3. CASE /\ ~(Present(s) \subseteq TasksIn(s, {"succeeded", "skipped"}))
               /\ ~(TasksIn(s, {"pending", "failed", "waiting_human"}) # {})
      BY <1>2, <2>6, <3>3, DoneSafe DEF ScheduleNext
    <3> QED
      BY <3>1, <3>2, <3>3
  <2> QED
    BY <2>4, <2>5, <2>6
<1> QED
  BY <1>1, <1>2

\* The mission is saved, then the next task is looked for.
LEMMA SaveAndScheduleSafe ==
    ASSUME NEW s, NEW n \in [Task -> Nat], Good(s, n)
    PROVE  Safe(SaveAndSchedule(s), n)
BY ScheduleNextSafe, ThenSafe DEF SaveAndSchedule

-----------------------------------------------------------------------------
(***************************************************************************)
(* Failures                                                                *)
(***************************************************************************)

TaskStatus == {"absent", "pending", "running", "waiting_human", "succeeded", "failed", "skipped"}

\* Two storages that differ in one task only.
AllBut(q, s, t) ==
    /\ q.status = s.status /\ q.current = s.current /\ q.replans = s.replans
    /\ q.approval = s.approval /\ q.job = s.job
    /\ \A u \in Task : u # t => q.task[u] = s.task[u]

\* Two records of a task that agree on what nobody but people changes.
SameDecisions(e, r) == e.approved = r.approved /\ e.rejected = r.rejected

\* One task of a storage is replaced.
LEMMA PutTask ==
    ASSUME NEW s \in Storage, NEW t \in Task, NEW e \in TaskRecord
    PROVE  LET q == [s EXCEPT !.task = [s.task EXCEPT ![t] = e]]
           IN  q \in Storage /\ q.task[t] = e /\ AllBut(q, s, t)
<1> DEFINE f == [s.task EXCEPT ![t] = e]
<1>1. s.task \in [Task -> TaskRecord]
  BY DEF Storage
<1>2. f \in [Task -> TaskRecord] /\ f[t] = e /\ \A u \in Task : u # t => f[u] = s.task[u]
  BY <1>1, TaskPut
<1> HIDE DEF f
<1>3. [s EXCEPT !.task = f] \in Storage
  BY <1>2 DEF Storage
<1>4. /\ [s EXCEPT !.task = f].task = f
      /\ [s EXCEPT !.task = f].status = s.status /\ [s EXCEPT !.task = f].current = s.current
      /\ [s EXCEPT !.task = f].replans = s.replans /\ [s EXCEPT !.task = f].job = s.job
      /\ [s EXCEPT !.task = f].approval = s.approval
  BY DEF Storage
<1> QED
  BY <1>2, <1>3, <1>4 DEF AllBut, f

\* The status of a task.
LEMMA PutStatus ==
    ASSUME NEW s \in Storage, NEW t \in Task, NEW v \in TaskStatus
    PROVE  LET q == [s EXCEPT !.task[t].status = v]
           IN  /\ q \in Storage /\ AllBut(q, s, t)
               /\ q.task[t].status = v /\ SameDecisions(q.task[t], s.task[t])
               /\ q.task[t].attempts = s.task[t].attempts
               /\ q.task[t].ambiguous = s.task[t].ambiguous
               /\ q.task[t].evidence = s.task[t].evidence
<1> DEFINE e == [s.task[t] EXCEPT !.status = v]
<1>1. s.task[t] \in TaskRecord
  BY DEF Storage
<1>2. /\ e \in TaskRecord /\ e.status = v /\ e.attempts = s.task[t].attempts
      /\ e.ambiguous = s.task[t].ambiguous /\ e.evidence = s.task[t].evidence
      /\ SameDecisions(e, s.task[t])
  BY <1>1 DEF TaskRecord, TaskStatus, SameDecisions
<1> DEFINE q == [s EXCEPT !.task = [s.task EXCEPT ![t] = e]]
<1>3. [s EXCEPT !.task[t].status = v] = q
  BY <1>1 DEF Storage, TaskRecord
<1> HIDE DEF e
<1>4. q \in Storage /\ q.task[t] = e /\ AllBut(q, s, t)
  BY <1>2, PutTask
<1> HIDE DEF q
<1> QED
  BY <1>2, <1>3, <1>4

\* Whether the result of a task is ambiguous.
LEMMA PutAmbiguous ==
    ASSUME NEW s \in Storage, NEW t \in Task, NEW v \in BOOLEAN
    PROVE  LET q == [s EXCEPT !.task[t].ambiguous = v]
           IN  /\ q \in Storage /\ AllBut(q, s, t)
               /\ q.task[t].ambiguous = v /\ SameDecisions(q.task[t], s.task[t])
               /\ q.task[t].attempts = s.task[t].attempts
               /\ q.task[t].status = s.task[t].status
<1> DEFINE e == [s.task[t] EXCEPT !.ambiguous = v]
<1>1. s.task[t] \in TaskRecord
  BY DEF Storage
<1>2. /\ e \in TaskRecord /\ e.ambiguous = v /\ e.attempts = s.task[t].attempts
      /\ e.status = s.task[t].status /\ SameDecisions(e, s.task[t])
  BY <1>1 DEF TaskRecord, SameDecisions
<1> DEFINE q == [s EXCEPT !.task = [s.task EXCEPT ![t] = e]]
<1>3. [s EXCEPT !.task[t].ambiguous = v] = q
  BY <1>1 DEF Storage, TaskRecord
<1> HIDE DEF e
<1>4. q \in Storage /\ q.task[t] = e /\ AllBut(q, s, t)
  BY <1>2, PutTask
<1> HIDE DEF q
<1> QED
  BY <1>2, <1>3, <1>4

\* The evidence of a task.
LEMMA PutEvidence ==
    ASSUME NEW s \in Storage, NEW t \in Task, NEW v \in BOOLEAN
    PROVE  LET q == [s EXCEPT !.task[t].evidence = v]
           IN  /\ q \in Storage /\ AllBut(q, s, t)
               /\ q.task[t].evidence = v /\ SameDecisions(q.task[t], s.task[t])
               /\ q.task[t].attempts = s.task[t].attempts
               /\ q.task[t].status = s.task[t].status
               /\ q.task[t].ambiguous = s.task[t].ambiguous
<1> DEFINE e == [s.task[t] EXCEPT !.evidence = v]
<1>1. s.task[t] \in TaskRecord
  BY DEF Storage
<1>2. /\ e \in TaskRecord /\ e.evidence = v /\ e.attempts = s.task[t].attempts
      /\ e.status = s.task[t].status /\ e.ambiguous = s.task[t].ambiguous
      /\ SameDecisions(e, s.task[t])
  BY <1>1 DEF TaskRecord, SameDecisions
<1> DEFINE q == [s EXCEPT !.task = [s.task EXCEPT ![t] = e]]
<1>3. [s EXCEPT !.task[t].evidence = v] = q
  BY <1>1 DEF Storage, TaskRecord
<1> HIDE DEF e
<1>4. q \in Storage /\ q.task[t] = e /\ AllBut(q, s, t)
  BY <1>2, PutTask
<1> HIDE DEF q
<1> QED
  BY <1>2, <1>3, <1>4

\* The read-back of a failed write.
LEMMA PutReadback ==
    ASSUME NEW s \in Storage, NEW t \in Task
    PROVE  LET q == [s EXCEPT !.task[t].readback = "failed"]
           IN  /\ q \in Storage /\ AllBut(q, s, t)
               /\ SameDecisions(q.task[t], s.task[t])
               /\ q.task[t].attempts = s.task[t].attempts
               /\ q.task[t].status = s.task[t].status
               /\ q.task[t].ambiguous = s.task[t].ambiguous
<1> DEFINE e == [s.task[t] EXCEPT !.readback = "failed"]
<1>1. s.task[t] \in TaskRecord
  BY DEF Storage
<1>2. /\ e \in TaskRecord /\ e.attempts = s.task[t].attempts
      /\ e.status = s.task[t].status /\ e.ambiguous = s.task[t].ambiguous
      /\ SameDecisions(e, s.task[t])
  BY <1>1 DEF TaskRecord, SameDecisions
<1> DEFINE q == [s EXCEPT !.task = [s.task EXCEPT ![t] = e]]
<1>3. [s EXCEPT !.task[t].readback = "failed"] = q
  BY <1>1 DEF Storage, TaskRecord
<1> HIDE DEF e
<1>4. q \in Storage /\ q.task[t] = e /\ AllBut(q, s, t)
  BY <1>2, PutTask
<1> HIDE DEF q
<1> QED
  BY <1>2, <1>3, <1>4

\* The task of the mission is put aside: done, failed, to be done again, or in
\* the hands of a person.
LEMMA TaskEnds ==
    ASSUME NEW s, NEW n \in [Task -> Nat], Good(s, n), ActiveJobs(s) = {},
           NEW t \in Task, s.current = t, NEW q \in Storage,
           q.job = s.job, q.approval = s.approval, q.replans = s.replans,
           q.current = NoTask, q.status \in {"planning", "running"},
           q.status = "planning" => s.replans < MaxReplans,
           q.task[t].status # "running", TaskIsSound(t, q.task[t], n[t]),
           \A u \in Task : u # t => q.task[u] = s.task[u]
    PROVE  Good(q, n) /\ ActiveJobs(q) = {}
<1>1. ActiveJobs(q) = {}
  BY DEF ActiveJobs
<1>2. \A u \in Task : TaskIsSound(u, q.task[u], n[u])
  BY DEF Good
<1>3. Focused(q)
  BY Keys DEF Good, Focused
<1>4. Asked(q)
  <2>1. s.approval \in Task \cup {NoTask} /\ s.approval # t
    <3>1. s.task[t].status = "running"
      BY DEF Good, Focused
    <3> QED
      BY <3>1, Keys DEF Good, Asked, Storage
  <2> QED
    BY <2>1 DEF Good, Asked
<1> QED
  BY <1>1, <1>2, <1>3, <1>4, IdleGood DEF Budgeted

\* A job is closed.
LEMMA ClosedGood ==
    ASSUME NEW s, NEW n, Good(s, n), NEW k \in Key, ActiveJobs(s) \subseteq {k},
           NEW c \in {"completed", "failed"},
           NEW v \in {"proven", "bare", "transient", "permanent"}
    PROVE  LET q == Closed(s, k, c, v)
           IN  /\ Good(q, n)
               /\ ActiveJobs(q) = {}
               /\ q.status = s.status /\ q.task = s.task /\ q.current = s.current
               /\ q.replans = s.replans /\ q.approval = s.approval
<1> DEFINE w == IF k \in Task THEN v ELSE "none"
           j == [NoJob EXCEPT !.status = c, !.result = w]
           q == Closed(s, k, c, v)
<1>1. j \in JobRecord /\ j.status = c
  <2>1. NoJob \in JobRecord
    <3>1. 0 \in 0 .. MaxLeases
      BY MissionStoreAssumption
    <3> QED
      BY <3>1 DEF NoJob, JobRecord
  <2>2. w \in {"none", "proven", "bare", "transient", "permanent"}
    OBVIOUS
  <2> HIDE DEF w
  <2> QED
    BY <2>1, <2>2 DEF JobRecord
<1>2. q = [s EXCEPT !.job[k] = j]
  BY DEF Closed
<1> HIDE DEF j
<1>3. s \in Storage
  BY DEF Good
<1>4. /\ q \in Storage
      /\ q.job = [s.job EXCEPT ![k] = j]
      /\ q.status = s.status /\ q.task = s.task /\ q.current = s.current
      /\ q.replans = s.replans /\ q.approval = s.approval
  BY <1>1, <1>2, <1>3 DEF Storage
<1> HIDE DEF q
<1>5. ActiveJobs(q) = {}
  BY <1>1, <1>3, <1>4 DEF ActiveJobs, Active, Storage
<1>6. Good(q, n)
  BY <1>4, <1>5, JobsOnly
<1> QED
  BY <1>4, <1>5, <1>6 DEF q

\* handleTaskFailure.
LEMMA HandleTaskFailureSafe ==
    ASSUME NEW s, NEW n \in [Task -> Nat], Good(s, n), NEW t \in Task,
           s.task[t].status = "running",
           ActiveJobs(s) \subseteq {t}, NEW retryable \in BOOLEAN
    PROVE  Safe(HandleTaskFailure(s, t, retryable), n)
<1> DEFINE f == Closed(s, t, "failed", IF retryable THEN "transient" ELSE "permanent")
           c == [f EXCEPT !.current = NoTask]
           m == [f EXCEPT !.current = NoTask, !.task[t].readback = "failed"]
           pending == [m EXCEPT !.task[t].status = "pending"]
           planning == [m EXCEPT !.task[t].status = "failed", !.status = "planning"]
           ambiguous == t \notin Idempotent /\ retryable
           st == IF ambiguous THEN "waiting_human" ELSE "failed"
           last == [m EXCEPT !.status = "running", !.task[t].ambiguous = ambiguous,
                             !.task[t].status = st]
<1>1. /\ Good(f, n) /\ ActiveJobs(f) = {}
      /\ f.status = s.status /\ f.task = s.task /\ f.current = s.current
      /\ f.replans = s.replans /\ f.approval = s.approval
  <2> HIDE DEF c, m, pending, planning, last, ambiguous, st
  <2>1. /\ t \in Key /\ "failed" \in {"completed", "failed"}
        /\ "transient" \in {"proven", "bare", "transient", "permanent"}
        /\ "permanent" \in {"proven", "bare", "transient", "permanent"}
    BY Keys
  <2>2. CASE retryable
    <3> DEFINE q == Closed(s, t, "failed", "transient")
    <3>1. f = q
      BY <2>2
    <3> HIDE DEF f
    <3>2. /\ Good(q, n)
          /\ ActiveJobs(q) = {}
          /\ q.status = s.status /\ q.task = s.task /\ q.current = s.current
          /\ q.replans = s.replans /\ q.approval = s.approval
      BY <2>1, ClosedGood
    <3> QED
      BY <3>1, <3>2
  <2>3. CASE ~retryable
    <3> DEFINE q == Closed(s, t, "failed", "permanent")
    <3>1. f = q
      BY <2>3
    <3> HIDE DEF f
    <3>2. /\ Good(q, n)
          /\ ActiveJobs(q) = {}
          /\ q.status = s.status /\ q.task = s.task /\ q.current = s.current
          /\ q.replans = s.replans /\ q.approval = s.approval
      BY <2>1, ClosedGood
    <3> QED
      BY <3>1, <3>2
  <2> QED
    BY <2>2, <2>3
<1>2. /\ f.current = t /\ f.status = "running"
      /\ f.task[t].status = "running" /\ TaskIsSound(t, f.task[t], n[t])
  BY <1>1, Keys DEF Good, Focused
<1>3. /\ f \in Storage /\ n[t] \in Nat /\ f.task[t].attempts \in Nat
  BY <1>1 DEF Good, Storage, TaskRecord
<1> HIDE DEF f
<1>4. /\ c \in Storage /\ AllBut(c, [f EXCEPT !.current = NoTask], t) /\ c.task = f.task
      /\ c.current = NoTask /\ c.status = f.status /\ c.replans = f.replans
      /\ c.approval = f.approval /\ c.job = f.job
  BY <1>3 DEF Storage, AllBut
<1>5. m = [c EXCEPT !.task[t].readback = "failed"]
  OBVIOUS
<1> HIDE DEF c, m
<1>6. /\ m \in Storage /\ AllBut(m, c, t)
      /\ SameDecisions(m.task[t], c.task[t])
      /\ m.task[t].attempts = c.task[t].attempts
      /\ m.task[t].status = c.task[t].status
      /\ m.task[t].ambiguous = c.task[t].ambiguous
  BY <1>4, <1>5, PutReadback
<1>7. /\ m.current = NoTask /\ m.status = "running" /\ m.replans = f.replans
      /\ m.approval = f.approval /\ m.job = f.job
      /\ \A u \in Task : u # t => m.task[u] = f.task[u]
      /\ SameDecisions(m.task[t], f.task[t])
      /\ m.task[t].attempts = f.task[t].attempts
      /\ m.task[t].status = "running" /\ ~m.task[t].ambiguous
      /\ ~m.task[t].rejected
      /\ t \in Gated /\ m.task[t].attempts > 0 => m.task[t].approved
      /\ t \notin Idempotent => m.task[t].attempts <= 1 + n[t]
  BY <1>2, <1>3, <1>4, <1>6 DEF AllBut, SameDecisions, TaskIsSound
<1> HIDE DEF c, m
<1>8. CASE Retries(s, t, retryable)
  <2>0. "pending" \in TaskStatus
    BY DEF TaskStatus
  <2>1. /\ pending \in Storage /\ AllBut(pending, m, t)
        /\ pending.task[t].status = "pending" /\ SameDecisions(pending.task[t], m.task[t])
        /\ pending.task[t].attempts = m.task[t].attempts
        /\ pending.task[t].ambiguous = m.task[t].ambiguous
    BY <1>6, <2>0, PutStatus
  <2> HIDE DEF pending
  <2>2. t \in Idempotent
    BY <1>8 DEF Retries
  <2>3. TaskIsSound(t, pending.task[t], n[t])
    BY <1>7, <2>1, <2>2 DEF TaskIsSound, SameDecisions
  <2>4. Good(pending, n)
    BY <1>1, <1>2, <1>7, <2>1, <2>3, TaskEnds DEF AllBut
  <2>5. Safe(Then(f, SaveAndSchedule(pending)), n)
    BY <1>1, <2>4, SaveAndScheduleSafe, ThenSafe
  <2> QED
    BY <1>8, <2>5 DEF HandleTaskFailure, f, m, pending
<1>9. CASE ~Retries(s, t, retryable) /\ Replans(s, t)
  <2> DEFINE p == [m EXCEPT !.task[t].status = "failed"]
  <2>0. "failed" \in TaskStatus
    BY DEF TaskStatus
  <2>1. /\ p \in Storage /\ AllBut(p, m, t)
        /\ p.task[t].status = "failed" /\ SameDecisions(p.task[t], m.task[t])
        /\ p.task[t].attempts = m.task[t].attempts
        /\ p.task[t].ambiguous = m.task[t].ambiguous
    BY <1>6, <2>0, PutStatus
  <2>2. planning = [p EXCEPT !.status = "planning"]
    OBVIOUS
  <2> HIDE DEF p, planning
  <2>3. /\ planning \in Storage
        /\ planning.status = "planning" /\ planning.task = p.task
        /\ planning.current = p.current /\ planning.replans = p.replans
        /\ planning.approval = p.approval /\ planning.job = p.job
    BY <2>1, <2>2 DEF Storage
  <2>4. t \in Idempotent /\ s.replans < MaxReplans
    BY <1>9 DEF Replans
  <2>5. TaskIsSound(t, planning.task[t], n[t])
    BY <1>7, <2>1, <2>3, <2>4 DEF TaskIsSound, SameDecisions
  <2>6. Good(planning, n) /\ ActiveJobs(planning) = {}
    BY <1>1, <1>2, <1>7, <2>1, <2>3, <2>4, <2>5, TaskEnds DEF AllBut
  <2>7. t \in Present(planning)
    BY <2>1, <2>3 DEF Present
  <2>8. Replan = PlanKind(planning)
    BY <2>7 DEF PlanKind
  <2>9. Safe(CreateJob(planning, Replan), n)
    BY <2>3, <2>6, <2>8, Keys, CreateJobSafe
  <2>10. Safe(Then(f, Then(planning, CreateJob(planning, Replan))), n)
    BY <1>1, <2>6, <2>9, ThenSafe
  <2> QED
    BY <1>9, <2>10 DEF HandleTaskFailure, f, m, planning
<1>10. CASE ~Retries(s, t, retryable) /\ ~Replans(s, t)
  <2> DEFINE o == [m EXCEPT !.status = "running"]
             a == [o EXCEPT !.task[t].ambiguous = ambiguous]
  <2>1. /\ o \in Storage /\ o.status = "running" /\ o.task = m.task /\ o.current = m.current
        /\ o.replans = m.replans /\ o.approval = m.approval /\ o.job = m.job
    BY <1>6 DEF Storage
  <2>2. ambiguous \in BOOLEAN /\ st \in TaskStatus
    BY DEF TaskStatus
  <2>a. last = [a EXCEPT !.task[t].status = st]
    OBVIOUS
  <2> HIDE DEF o, ambiguous
  <2>3. /\ a \in Storage /\ AllBut(a, o, t)
        /\ a.task[t].ambiguous = ambiguous /\ SameDecisions(a.task[t], o.task[t])
        /\ a.task[t].attempts = o.task[t].attempts
    <3> DEFINE yes == [o EXCEPT !.task[t].ambiguous = TRUE]
               no == [o EXCEPT !.task[t].ambiguous = FALSE]
    <3>1. o \in Storage
      BY <2>1
    <3>2. /\ yes \in Storage /\ AllBut(yes, o, t)
          /\ yes.task[t].ambiguous = TRUE /\ SameDecisions(yes.task[t], o.task[t])
          /\ yes.task[t].attempts = o.task[t].attempts
      BY <3>1, PutAmbiguous
    <3>3. /\ no \in Storage /\ AllBut(no, o, t)
          /\ no.task[t].ambiguous = FALSE /\ SameDecisions(no.task[t], o.task[t])
          /\ no.task[t].attempts = o.task[t].attempts
      BY <3>1, PutAmbiguous
    <3>4. ambiguous => a = yes
      OBVIOUS
    <3>5. ~ambiguous => a = no
      BY <2>2
    <3> HIDE DEF a, yes, no
    <3> QED
      BY <2>2, <3>2, <3>3, <3>4, <3>5
  <2> HIDE DEF a, last
  <2>4. /\ last \in Storage /\ AllBut(last, a, t)
        /\ last.task[t].status = st /\ SameDecisions(last.task[t], a.task[t])
        /\ last.task[t].attempts = a.task[t].attempts
        /\ last.task[t].ambiguous = a.task[t].ambiguous
    BY <2>2, <2>3, <2>a, PutStatus
  <2>5. TaskIsSound(t, last.task[t], n[t])
    BY <1>7, <2>1, <2>3, <2>4 DEF TaskIsSound, SameDecisions
  <2>6. Good(last, n)
    <3>1. last.task[t].status # "running"
      BY <2>4
    <3>2. /\ last.status = "running" /\ last.current = NoTask /\ last.replans = f.replans
          /\ last.approval = f.approval /\ last.job = f.job
          /\ \A u \in Task : u # t => last.task[u] = f.task[u]
      BY <1>7, <2>1, <2>3, <2>4 DEF AllBut
    <3> QED
      BY <1>1, <1>2, <2>4, <2>5, <3>1, <3>2, TaskEnds
  <2>7. Safe(Then(f, SaveAndSchedule(last)), n)
    BY <1>1, <2>6, SaveAndScheduleSafe, ThenSafe
  <2> QED
    BY <1>10, <2>7 DEF HandleTaskFailure, f, m, last, ambiguous
<1> QED
  BY <1>8, <1>9, <1>10

\* A job that is not a task's fails, and a person is asked.
LEMMA FailAfterResultSafe ==
    ASSUME NEW s, NEW n, Good(s, n), NEW k \in Key, ActiveJobs(s) \subseteq {k},
           s.current = NoTask
    PROVE  Safe(FailAfterResult(s, k), n)
<1> DEFINE f == Closed(s, k, "failed", "permanent")
<1>1. /\ Good(f, n)
      /\ ActiveJobs(f) = {}
      /\ f.current = s.current
  <2>1. "permanent" \in {"proven", "bare", "transient", "permanent"}
        /\ "failed" \in {"completed", "failed"}
    OBVIOUS
  <2> QED
    BY <2>1, ClosedGood
<1> HIDE DEF f
<1>2. Good(GiveUp(f), n)
  BY <1>1, GiveUpGood DEF GiveUp
<1> QED
  BY <1>1, <1>2, DoneSafe, ThenSafe DEF FailAfterResult, f

-----------------------------------------------------------------------------
(***************************************************************************)
(* Plans                                                                   *)
(***************************************************************************)

\* A task that was never started, as a plan brings it.
LEMMA NewTaskSound ==
    ASSUME NEW t \in Task, NEW n \in [Task -> Nat]
    PROVE  NewTask \in TaskRecord /\ TaskIsSound(t, NewTask, n[t]) /\ NewTask.status = "pending"
<1>1. n[t] \in Nat
  OBVIOUS
<1> QED
  BY <1>1 DEF NewTask, TaskRecord, TaskIsSound

\* The first plan is adopted.
LEMMA PlanAdoptedGood ==
    ASSUME NEW s, NEW n \in [Task -> Nat], Good(s, n), ActiveJobs(s) = {},
           s.status = "planning", Present(s) = {}
    PROVE  Good(PlanAdopted(s), n)
<1> DEFINE f == [t \in Task |-> IF t \in Planned THEN NewTask ELSE s.task[t]]
           q == PlanAdopted(s)
<1>1. s \in Storage /\ s.task \in [Task -> TaskRecord] /\ s.current = NoTask
  BY DEF Good, Storage, Focused
<1>2. f \in [Task -> TaskRecord]
  BY <1>1, NewTaskSound
<1>3. \A t \in Task : /\ f[t] = NewTask \/ f[t] = s.task[t]
                      /\ TaskIsSound(t, f[t], n[t])
                      /\ f[t].status \in {"pending", "absent"}
  <2>1. \A t \in Task : s.task[t].status = "absent"
    BY DEF Present
  <2> QED
    BY <2>1, NewTaskSound DEF Good
<1>4. q = [s EXCEPT !.status = "running", !.current = NoTask, !.task = f]
  BY <1>1 DEF PlanAdopted, Storage
<1> HIDE DEF f, q
<1>5. /\ q \in Storage
      /\ q.status = "running" /\ q.current = NoTask /\ q.task = f
      /\ q.approval = s.approval /\ q.job = s.job
  BY <1>1, <1>2, <1>4 DEF Storage
<1>6. ActiveJobs(q) = {}
  BY <1>5 DEF ActiveJobs
<1>7. Focused(q)
  BY <1>3, <1>5, Keys DEF Focused
<1>8. Asked(q)
  <2>1. s.approval \in Task => s.task[s.approval].status = "absent"
    BY DEF Present
  <2>2. s.approval = NoTask
    BY <1>1, <2>1, Keys DEF Good, Asked, Storage
  <2> QED
    BY <1>5, <2>2 DEF Asked
<1> QED
  BY <1>3, <1>5, <1>6, <1>7, <1>8, IdleGood DEF Budgeted, q

\* A replan is adopted: its tasks replace those that failed.
LEMMA ReplanAdoptedGood ==
    ASSUME NEW s, NEW n \in [Task -> Nat], Good(s, n), ActiveJobs(s) = {},
           s.status = "planning", Present(s) # {}, NEW m \in Replacements(s)
    PROVE  Good(ReplanAdopted(s, m), n)
<1> DEFINE e(t) == [s.task[t] EXCEPT !.replacement = m[t]]
           f == [t \in Task |-> IF t \in NewTasks(s) THEN NewTask
                                ELSE IF t \in Failed(s) THEN e(t) ELSE s.task[t]]
           a == s.replans + 1
           q == ReplanAdopted(s, m)
<1>1. s \in Storage /\ s.task \in [Task -> TaskRecord] /\ s.current = NoTask
  BY DEF Good, Storage, Focused
<1>2. /\ m \in [Failed(s) -> NewTasks(s)]
      /\ NewTasks(s) \subseteq Task \ Present(s)
      /\ Failed(s) \subseteq Task
  BY DEF Replacements, NewTasks, Failed, TasksIn
<1>3. ASSUME NEW t \in Failed(s)
      PROVE  /\ e(t) \in TaskRecord
             /\ e(t).status = "failed"
             /\ TaskIsSound(t, e(t), n[t])
  <2>1. t \in Task /\ s.task[t] \in TaskRecord /\ m[t] \in Task \cup {NoTask}
    BY <1>1, <1>2
  <2>2. s.task[t].status = "failed"
    BY DEF Failed, TasksIn
  <2>3. /\ e(t) \in TaskRecord
        /\ e(t).status = s.task[t].status /\ e(t).attempts = s.task[t].attempts
        /\ e(t).approved = s.task[t].approved /\ e(t).rejected = s.task[t].rejected
        /\ e(t).ambiguous = s.task[t].ambiguous
    BY <2>1 DEF TaskRecord
  <2>4. TaskIsSound(t, s.task[t], n[t])
    BY <2>1 DEF Good
  <2> HIDE DEF e
  <2> QED
    BY <2>2, <2>3, <2>4 DEF TaskIsSound
<1> HIDE DEF e
<1>4. f \in [Task -> TaskRecord]
  BY <1>1, <1>3, NewTaskSound
<1>5. \A t \in Task : /\ TaskIsSound(t, f[t], n[t])
                      /\ f[t].status # "running"
                      /\ s.task[t].status = "waiting_human" => f[t] = s.task[t]
  <2>1. \A t \in Task : s.task[t].status # "running"
    BY <1>1, Keys DEF Good, Focused
  <2>2. \A t \in Task : s.task[t].status = "waiting_human"
                          => t \notin NewTasks(s) /\ t \notin Failed(s)
    BY <1>2 DEF Present, Failed, TasksIn
  <2> QED
    BY <1>3, <2>1, <2>2, NewTaskSound DEF Good
<1>6. a \in 0 .. MaxReplans
  BY <1>1 DEF Good, Budgeted, Storage, MaxReplans
<1>7. q = [s EXCEPT !.status = "running", !.current = NoTask, !.replans = a, !.task = f]
  BY <1>1 DEF ReplanAdopted, Storage, e
<1> HIDE DEF f, q, a
<1>8. /\ q \in Storage
      /\ q.status = "running" /\ q.current = NoTask /\ q.task = f
      /\ q.approval = s.approval /\ q.job = s.job
  BY <1>1, <1>4, <1>6, <1>7 DEF Storage
<1>9. ActiveJobs(q) = {}
  BY <1>8 DEF ActiveJobs
<1>10. Focused(q)
  BY <1>5, <1>8, Keys DEF Focused
<1>11. Asked(q)
  <2>1. s.approval \in Task \cup {NoTask}
    BY <1>1 DEF Storage
  <2> QED
    BY <1>5, <1>8, <2>1 DEF Good, Asked
<1> QED
  BY <1>5, <1>8, <1>9, <1>10, <1>11, IdleGood DEF Budgeted, q

\* Whatever plan is adopted.
LEMMA AdoptedGood ==
    ASSUME NEW s, NEW n \in [Task -> Nat], Good(s, n), ActiveJobs(s) = {},
           s.status = "planning", NEW k, k = PlanKind(s), NEW p \in Adopted(s, k)
    PROVE  Good(p, n)
<1>1. CASE Present(s) = {}
  <2>1. k = Plan
    BY <1>1 DEF PlanKind
  <2>2. p = PlanAdopted(s)
    BY <2>1 DEF Adopted
  <2> QED
    BY <1>1, <2>2, PlanAdoptedGood
<1>2. CASE Present(s) # {}
  <2>1. k # Plan
    BY <1>2, Keys DEF PlanKind
  <2>2. PICK m \in Replacements(s) : p = ReplanAdopted(s, m)
    BY <2>1 DEF Adopted
  <2> QED
    BY <1>2, <2>2, ReplanAdoptedGood
<1> QED
  BY <1>1, <1>2

-----------------------------------------------------------------------------
(***************************************************************************)
(* Results                                                                 *)
(***************************************************************************)

\* The task of the mission succeeded, and with evidence what it replaces is
\* superseded.
LEMMA TaskSucceededGood ==
    ASSUME NEW s, NEW n \in [Task -> Nat], Good(s, n), ActiveJobs(s) = {}, NEW t \in Task,
           s.task[t].status = "running", NEW proven \in BOOLEAN
    PROVE  Good(TaskSucceeded(s, t, proven), n)
<1> DEFINE e == [s.task[t] EXCEPT !.status = "succeeded", !.evidence = proven]
           sk(u) == [s.task[u] EXCEPT !.status = "skipped"]
           rb(u) == [s.task[u] EXCEPT !.readback = "read"]
           f == [u \in Task |->
                   IF u = t THEN e
                   ELSE IF proven /\ u \in Superseded(s, t) THEN sk(u)
                   ELSE IF proven /\ ReadBack[u] = t /\ s.task[u].readback = "failed" THEN rb(u)
                   ELSE s.task[u]]
           q == TaskSucceeded(s, t, proven)
<1>1. s \in Storage /\ s.task \in [Task -> TaskRecord] /\ s.current = t /\ s.status = "running"
  BY Keys DEF Good, Storage, Focused
<1>2. /\ e \in TaskRecord /\ e.status = "succeeded" /\ TaskIsSound(t, e, n[t])
  <2>1. s.task[t] \in TaskRecord /\ TaskIsSound(t, s.task[t], n[t])
    BY <1>1 DEF Good
  <2>2. /\ e \in TaskRecord /\ e.status = "succeeded"
        /\ e.attempts = s.task[t].attempts /\ e.approved = s.task[t].approved
        /\ e.rejected = s.task[t].rejected /\ e.ambiguous = s.task[t].ambiguous
    BY <2>1 DEF TaskRecord
  <2> HIDE DEF e
  <2> QED
    BY <2>1, <2>2 DEF TaskIsSound
<1>3. ASSUME NEW u \in Task, u \in Superseded(s, t)
      PROVE  /\ sk(u) \in TaskRecord /\ sk(u).status = "skipped"
             /\ TaskIsSound(u, sk(u), n[u])
             /\ s.task[u].status = "failed"
  <2>1. /\ s.task[u] \in TaskRecord /\ TaskIsSound(u, s.task[u], n[u])
        /\ s.task[u].status = "failed" /\ s.task[u].replacement = t
    BY <1>1, <1>3 DEF Good, Superseded, Failed, TasksIn
  <2>2. /\ sk(u) \in TaskRecord /\ sk(u).status = "skipped"
        /\ sk(u).attempts = s.task[u].attempts /\ sk(u).approved = s.task[u].approved
        /\ sk(u).rejected = s.task[u].rejected /\ sk(u).ambiguous = s.task[u].ambiguous
        /\ sk(u).replacement = s.task[u].replacement
    BY <2>1 DEF TaskRecord
  <2> HIDE DEF sk
  <2> QED
    BY <2>1, <2>2 DEF TaskIsSound
<1>4. ASSUME NEW u \in Task
      PROVE  /\ rb(u) \in TaskRecord /\ rb(u).status = s.task[u].status
             /\ rb(u).ambiguous = s.task[u].ambiguous /\ rb(u).approved = s.task[u].approved
             /\ TaskIsSound(u, rb(u), n[u])
  <2>1. s.task[u] \in TaskRecord /\ TaskIsSound(u, s.task[u], n[u])
    BY <1>1 DEF Good
  <2>2. /\ rb(u) \in TaskRecord /\ rb(u).status = s.task[u].status
        /\ rb(u).attempts = s.task[u].attempts /\ rb(u).approved = s.task[u].approved
        /\ rb(u).rejected = s.task[u].rejected /\ rb(u).ambiguous = s.task[u].ambiguous
        /\ rb(u).replacement = s.task[u].replacement
    BY <2>1 DEF TaskRecord
  <2> HIDE DEF rb
  <2> QED
    BY <2>1, <2>2 DEF TaskIsSound
<1>5. q = [s EXCEPT !.current = NoTask, !.task = f]
  BY <1>1 DEF TaskSucceeded, Storage
<1> HIDE DEF e, sk, rb, q
<1>6. f \in [Task -> TaskRecord]
  BY <1>1, <1>2, <1>3, <1>4
<1>7. \A u \in Task : /\ TaskIsSound(u, f[u], n[u])
                      /\ f[u].status # "running"
                      /\ s.task[u].status = "waiting_human" =>
                            /\ f[u].status = "waiting_human"
                            /\ f[u].ambiguous = s.task[u].ambiguous
                            /\ f[u].approved = s.task[u].approved
  <2> SUFFICES ASSUME NEW u \in Task
               PROVE  /\ TaskIsSound(u, f[u], n[u])
                      /\ f[u].status # "running"
                      /\ s.task[u].status = "waiting_human" =>
                            /\ f[u].status = "waiting_human"
                            /\ f[u].ambiguous = s.task[u].ambiguous
                            /\ f[u].approved = s.task[u].approved
    OBVIOUS
  <2>1. CASE u = t
    BY <1>2, <2>1
  <2>2. CASE u # t
    <3>1. s.task[u].status # "running" /\ TaskIsSound(u, s.task[u], n[u])
      BY <1>1, <2>2 DEF Good, Focused
    <3>2. \/ f[u] = s.task[u]
          \/ f[u] = sk(u) /\ u \in Superseded(s, t)
          \/ f[u] = rb(u)
      BY <2>2
    <3> HIDE DEF f
    <3> QED
      BY <1>3, <1>4, <3>1, <3>2
  <2> QED
    BY <2>1, <2>2
<1> HIDE DEF f
<1>8. /\ q \in Storage
      /\ q.status = "running" /\ q.current = NoTask /\ q.task = f
      /\ q.approval = s.approval /\ q.job = s.job
  BY <1>1, <1>5, <1>6 DEF Storage
<1>9. ActiveJobs(q) = {}
  BY <1>8 DEF ActiveJobs
<1>10. Focused(q)
  BY <1>7, <1>8, Keys DEF Focused
<1>11. Asked(q)
  <2>1. s.approval \in Task \cup {NoTask}
    BY <1>1 DEF Storage
  <2> QED
    BY <1>7, <1>8, <2>1 DEF Good, Asked
<1> QED
  BY <1>7, <1>8, <1>9, <1>10, <1>11, IdleGood DEF Budgeted, q

\* The verdict on a mission whose verification has ended.
LEMMA VerdictGood ==
    ASSUME NEW s, NEW n, Good(s, n), ActiveJobs(s) = {}, s.current = NoTask, NEW passed
    PROVE  Good(Verdict(s, passed), n)
<1> DEFINE ok == passed /\ Present(s) # {} /\ InvariantsPassed(s)
           q == Verdict(s, passed)
<1>1. CASE ~ok
  <2>1. q = [s EXCEPT !.status = "waiting_human"]
    BY <1>1 DEF Verdict
  <2>2. [s EXCEPT !.status = "waiting_human"]
            = [s EXCEPT !.status = "waiting_human", !.current = NoTask]
    BY DEF Good, Storage
  <2> QED
    BY ZenonT(30), <2>1, <2>2, GiveUpGood
<1>2. CASE ok
  <2>1. q = [s EXCEPT !.status = "succeeded"]
    BY <1>2 DEF Verdict
  <2> HIDE DEF q
  <2>2. /\ q \in Storage
        /\ q.status = "succeeded" /\ q.task = s.task /\ q.current = NoTask
        /\ q.approval = s.approval /\ q.job = s.job
    BY <2>1 DEF Good, Storage
  <2>3. ActiveJobs(q) = {} /\ Present(q) = Present(s)
    BY <2>2 DEF ActiveJobs, Present
  <2>4. Focused(q) /\ Asked(q) /\ Budgeted(q)
    BY <2>2, Keys DEF Good, Focused, Asked, Budgeted
  <2>5. Earned(q)
    <3> SUFFICES ASSUME NEW t \in Present(s)
                 PROVE  LET r == s.task[t].replacement
                        IN  \/ s.task[t].status = "succeeded" /\ s.task[t].evidence
                            \/ /\ s.task[t].status = "skipped"
                               /\ s.task[r].status = "succeeded" /\ s.task[r].evidence
      BY <1>2, <2>2, <2>3 DEF Earned
    <3> DEFINE r == s.task[t].replacement
    <3>1. /\ t \in Task
          /\ DependencySatisfied(s, t)
          /\ \A u \in Present(s) : s.task[u].status = "succeeded" => s.task[u].evidence
      BY <1>2 DEF InvariantsPassed, Present
    <3>2. CASE s.task[t].status = "succeeded"
      BY <3>1, <3>2
    <3>3. CASE s.task[t].status # "succeeded"
      <4>1. s.task[t].status = "skipped" /\ s.task[r].status = "succeeded"
        BY <3>1, <3>3 DEF DependencySatisfied
      <4>2. r \in Task
        BY <3>1, <4>1 DEF Good, TaskIsSound
      <4>3. r \in Present(s)
        BY <4>1, <4>2 DEF Present
      <4> QED
        BY <3>1, <4>1, <4>3
    <3> QED
      BY <3>2, <3>3
  <2>6. Good(q, n)
    BY <2>2, <2>3, <2>4, <2>5 DEF Good, OneThing, NewMission
  <2> QED
    BY <2>6 DEF q
<1> QED
  BY <1>1, <1>2

-----------------------------------------------------------------------------
(***************************************************************************)
(* Reports of workers                                                      *)
(***************************************************************************)

\* What is active is the only thing that is.
LEMMA OnlyActive ==
    ASSUME NEW s, NEW n, Good(s, n), NEW k \in ActiveJobs(s)
    PROVE  /\ k \in Key /\ ActiveJobs(s) = {k}
           /\ k \in Task => s.task[k].status = "running"
           /\ k \notin Task => s.current = NoTask
           /\ k \in {Plan, Replan} => s.status = "planning" /\ k = PlanKind(s)
<1>1. s.current \in Task \cup {NoTask}
  BY DEF Good, Storage
<1>2. /\ k \in Key /\ ActiveJobs(s) = {k}
      /\ k \in {Plan, Replan} => s.status = "planning" /\ k = PlanKind(s)
      /\ k = Verify => Present(s) = TasksIn(s, {"succeeded", "skipped"})
      /\ k \in Task => s.task[k].status = "running"
  BY DEF Good, OneThing, ActiveJobs
<1>3. k \in {Plan, Replan} => s.current = NoTask
  BY <1>2 DEF Good, Focused
<1>4. k = Verify => s.current = NoTask
  <2> SUFFICES ASSUME k = Verify, s.current \in Task PROVE FALSE
    BY <1>1
  <2>1. s.task[s.current].status = "running"
    BY DEF Good, Focused
  <2>2. s.current \in Present(s) /\ s.current \notin TasksIn(s, {"succeeded", "skipped"})
    BY <2>1 DEF Present, TasksIn
  <2> QED
    BY <1>2, <2>2
<1> QED
  BY <1>2, <1>3, <1>4 DEF Key

\* complete.
LEMMA CompletionsSafe ==
    ASSUME NEW s, NEW n \in [Task -> Nat], Good(s, n), NEW k \in ActiveJobs(s),
           NEW result \in Results, NEW h \in Completions(s, k, result)
    PROVE  Safe(h, n)
<1>1. /\ k \in Key /\ ActiveJobs(s) = {k}
      /\ k \in Task => s.task[k].status = "running"
      /\ k \notin Task => s.current = NoTask
      /\ k \in {Plan, Replan} => s.status = "planning" /\ k = PlanKind(s)
  BY OnlyActive
<1>2. ASSUME NEW v \in Results
      PROVE  LET c == Closed(s, k, "completed", v)
             IN  /\ Good(c, n) /\ ActiveJobs(c) = {}
                 /\ c.status = s.status /\ c.task = s.task /\ c.current = s.current
  <2>1. v \in {"proven", "bare", "transient", "permanent"} /\ "completed" \in {"completed", "failed"}
    BY DEF Results
  <2> DEFINE c == Closed(s, k, "completed", v)
  <2>0. k \in Key /\ ActiveJobs(s) \subseteq {k}
    BY <1>1
  <2>2. /\ Good(c, n) /\ ActiveJobs(c) = {}
        /\ c.status = s.status /\ c.task = s.task /\ c.current = s.current
    BY <2>0, <2>1, ClosedGood
  <2> HIDE DEF c
  <2> QED
    BY <1>1, <2>2 DEF c
<1>3. CASE k \in Task
  <2> DEFINE v == IF result = "transient" THEN "permanent" ELSE result
             c == Closed(s, k, "completed", v)
  <2>1. v \in Results
    BY DEF Results
  <2>2. Good(c, n) /\ ActiveJobs(c) = {} /\ c.task[k].status = "running"
    <3> HIDE DEF v
    <3> QED
      BY <1>1, <1>2, <1>3, <2>1
  <2>3. h = CompleteTask(s, k, result)
    BY <1>3 DEF Completions
  <2> HIDE DEF c, v
  <2>4. CASE result \in {"proven", "bare"}
    <3> DEFINE p == TaskSucceeded(c, k, result = "proven")
    <3>1. (result = "proven") \in BOOLEAN
      OBVIOUS
    <3>2. Good(p, n)
      BY <1>3, <2>2, <3>1, TaskSucceededGood
    <3> HIDE DEF p
    <3>3. Safe(Then(c, SaveAndSchedule(p)), n)
      BY <2>2, <3>2, SaveAndScheduleSafe, ThenSafe
    <3> QED
      BY <2>3, <2>4, <3>3 DEF CompleteTask, c, v, p
  <2>5. CASE result \notin {"proven", "bare"}
    <3>1. (result = "transient") \in BOOLEAN
      OBVIOUS
    <3>2. ActiveJobs(c) \subseteq {k}
      BY <2>2
    <3>3. Safe(HandleTaskFailure(c, k, result = "transient"), n)
      BY <1>3, <2>2, <3>1, <3>2, HandleTaskFailureSafe
    <3>4. Safe(Then(c, HandleTaskFailure(c, k, result = "transient")), n)
      BY <2>2, <3>3, ThenSafe
    <3> QED
      BY <2>3, <2>5, <3>4 DEF CompleteTask, c, v
  <2> QED
    BY <2>4, <2>5
<1>4. CASE k = Verify
  <2> DEFINE c == Closed(s, k, "completed", result)
             p == Verdict(c, result = "proven")
  <2>1. Good(c, n) /\ ActiveJobs(c) = {} /\ c.current = NoTask
    BY <1>1, <1>2, <1>4, Keys
  <2>2. h = CompleteVerify(s, result)
    BY <1>4, Keys DEF Completions
  <2> HIDE DEF c
  <2>3. Good(p, n)
    BY <2>1, VerdictGood
  <2> HIDE DEF p
  <2>4. Safe(Then(c, Done(p)), n)
    BY <2>1, <2>3, DoneSafe, ThenSafe
  <2> QED
    BY <1>4, <2>2, <2>4 DEF CompleteVerify, c, p
<1>5. CASE k \in {Plan, Replan}
  <2> DEFINE c == Closed(s, k, "completed", result)
  <2>1. /\ Good(c, n) /\ ActiveJobs(c) = {} /\ c.current = NoTask
        /\ c.status = "planning" /\ c.task = s.task
    BY <1>1, <1>2, <1>5, Keys
  <2>2. h \in CompletePlan(s, k, result) /\ k \notin Task
    BY <1>5, Keys DEF Completions
  <2> HIDE DEF c
  <2>3. k = PlanKind(c)
    BY <1>1, <1>5, <2>1 DEF PlanKind, Present
  <2>4. CASE result = "proven"
    <3>1. PICK p \in Adopted(c, k) : h = Then(c, SaveAndSchedule(p))
      BY <2>2, <2>4 DEF CompletePlan, c
    <3>2. Good(p, n)
      BY <2>1, <2>3, AdoptedGood
    <3> QED
      BY <2>1, <3>1, <3>2, SaveAndScheduleSafe, ThenSafe
  <2>5. CASE result # "proven"
    <3>1. h = Then(c, FailAfterResult(c, k))
      BY <2>2, <2>5 DEF CompletePlan, c
    <3>2. ActiveJobs(c) \subseteq {k}
      BY <2>1
    <3>3. Safe(FailAfterResult(c, k), n)
      BY <1>1, <2>1, <3>2, FailAfterResultSafe
    <3> QED
      BY <2>1, <3>1, <3>3, ThenSafe
  <2> QED
    BY <2>4, <2>5
<1> QED
  BY <1>1, <1>3, <1>4, <1>5 DEF Key

\* fail.
LEMMA FailureSafe ==
    ASSUME NEW s, NEW n \in [Task -> Nat], Good(s, n), NEW k \in ActiveJobs(s),
           NEW result \in {"transient", "permanent"}
    PROVE  Safe(Failure(s, k, result), n)
<1> DEFINE f == Closed(s, k, "failed", result)
<1>1. /\ k \in Key /\ ActiveJobs(s) = {k}
      /\ k \in Task => s.task[k].status = "running"
      /\ k \notin Task => s.current = NoTask
  BY OnlyActive
<1>2. /\ Good(f, n) /\ ActiveJobs(f) = {}
      /\ f.task = s.task /\ f.current = s.current
  <2>1. result \in {"proven", "bare", "transient", "permanent"} /\ "failed" \in {"completed", "failed"}
    OBVIOUS
  <2>2. k \in Key /\ ActiveJobs(s) \subseteq {k}
    BY <1>1
  <2> QED
    BY <2>1, <2>2, ClosedGood
<1> HIDE DEF f
<1>3. ActiveJobs(f) = {}
  BY <1>1, <1>2
<1>4. CASE k \in Task
  <2>1. (result = "transient") \in BOOLEAN /\ ActiveJobs(f) \subseteq {k}
        /\ f.task[k].status = "running"
    BY <1>1, <1>2, <1>3, <1>4
  <2>2. Safe(HandleTaskFailure(f, k, result = "transient"), n)
    BY <1>2, <1>4, <2>1, HandleTaskFailureSafe
  <2>3. Safe(Then(f, HandleTaskFailure(f, k, result = "transient")), n)
    BY <1>2, <2>2, ThenSafe
  <2> QED
    BY <1>4, <2>3 DEF Failure, f
<1>5. CASE k \notin Task
  <2>1. Good(GiveUp(f), n)
    BY <1>1, <1>2, <1>3, <1>5, GiveUpGood DEF GiveUp
  <2>2. Safe(Then(f, Done(GiveUp(f))), n)
    BY <1>2, <2>1, DoneSafe, ThenSafe
  <2> QED
    BY <1>5, <2>2 DEF Failure, f
<1> QED
  BY <1>4, <1>5

-----------------------------------------------------------------------------
(***************************************************************************)
(* Recovery                                                                *)
(***************************************************************************)

\* Leases that ran out are taken back.
LEMMA RequeuedGood ==
    ASSUME NEW s, NEW n, Good(s, n)
    PROVE  /\ Good(Requeued(s), n)
           /\ ActiveJobs(Requeued(s)) = ActiveJobs(s)
<1> DEFINE e(k) == [s.job[k] EXCEPT !.status = "queued", !.expired = FALSE]
           f == [k \in Key |-> IF s.job[k].status = "leased" /\ s.job[k].expired
                               THEN e(k) ELSE s.job[k]]
           q == Requeued(s)
<1>1. s \in Storage /\ s.job \in [Key -> JobRecord]
  BY DEF Good, Storage
<1>2. \A k \in Key : e(k) \in JobRecord /\ e(k).status = "queued"
  BY <1>1 DEF JobRecord
<1>3. q = [s EXCEPT !.job = f]
  BY <1>1 DEF Requeued, Storage
<1> HIDE DEF e
<1>4. f \in [Key -> JobRecord]
  BY <1>1, <1>2
<1>5. \A k \in Key : f[k].status \in Active <=> s.job[k].status \in Active
  BY <1>2 DEF Active
<1> HIDE DEF f, q
<1>6. /\ q \in Storage /\ q.job = f
      /\ q.status = s.status /\ q.task = s.task /\ q.current = s.current
      /\ q.replans = s.replans /\ q.approval = s.approval
  BY <1>1, <1>3, <1>4 DEF Storage
<1>7. ActiveJobs(q) = ActiveJobs(s)
  BY <1>5, <1>6 DEF ActiveJobs
<1>8. Good(q, n)
  BY <1>6, <1>7, JobsOnly
<1> QED
  BY <1>7, <1>8 DEF q

\* A busy mission whose task has no active job has none at all.
LEMMA BusyAlone ==
    ASSUME NEW s, NEW n, Good(s, n), Busy(s), s.job[s.current].status \notin Active
    PROVE  /\ s.current \in Task /\ s.task[s.current].status = "running"
           /\ ActiveJobs(s) = {} /\ s.status = "running"
<1>1. s.current \in Task /\ s.task[s.current].status = "running" /\ s.status = "running"
  BY DEF Busy, Good, Focused, Storage
<1>2. s.current \in Present(s) /\ s.current \notin TasksIn(s, {"succeeded", "skipped"})
  BY <1>1 DEF Present, TasksIn
<1>3. ASSUME NEW k \in ActiveJobs(s) PROVE FALSE
  <2>1. /\ k \in {Plan, Replan} => s.status = "planning"
        /\ k = Verify => Present(s) = TasksIn(s, {"succeeded", "skipped"})
        /\ k \in Task => s.current = k
        /\ k \in Key /\ s.job[k].status \in Active
    BY DEF Good, OneThing, ActiveJobs
  <2> QED
    BY <1>1, <1>2, <2>1 DEF Key
<1> QED
  BY <1>1, <1>3

\* The task of a mission is recovered from its newest job.
LEMMA ReconcileCurrentTaskSafe ==
    ASSUME NEW s, NEW n \in [Task -> Nat], Good(s, n)
    PROVE  Safe(ReconcileCurrentTask(s), n)
<1> DEFINE t == s.current
           job == s.job[t]
<1>1. CASE ~Busy(s) \/ job.status \in Active
  BY <1>1, DoneSafe DEF ReconcileCurrentTask
<1>2. CASE ~(~Busy(s) \/ job.status \in Active)
  <2>1. /\ t \in Task /\ s.task[t].status = "running"
        /\ ActiveJobs(s) = {} /\ s.status = "running"
    BY <1>2, BusyAlone
  <2>2. /\ s \in Storage /\ TaskIsSound(t, s.task[t], n[t])
        /\ s.task[t].attempts \in Nat /\ n[t] \in Nat
    BY <2>1 DEF Good, Storage, TaskRecord
  <2>3. CASE job.status = "completed" /\ job.result = "proven"
    <3> DEFINE a == [s EXCEPT !.task[t].status = "succeeded"]
               b == [a EXCEPT !.task[t].evidence = TRUE]
               q == [s EXCEPT !.task[t].status = "succeeded", !.task[t].evidence = TRUE,
                              !.current = NoTask]
    <3>1. "succeeded" \in TaskStatus /\ TRUE \in BOOLEAN
      BY DEF TaskStatus
    <3>2. /\ a \in Storage /\ AllBut(a, s, t)
          /\ a.task[t].status = "succeeded" /\ SameDecisions(a.task[t], s.task[t])
          /\ a.task[t].attempts = s.task[t].attempts
          /\ a.task[t].ambiguous = s.task[t].ambiguous
      BY <2>1, <2>2, <3>1, PutStatus
    <3> HIDE DEF a
    <3>3. /\ b \in Storage /\ AllBut(b, a, t)
          /\ SameDecisions(b.task[t], a.task[t])
          /\ b.task[t].attempts = a.task[t].attempts
          /\ b.task[t].status = a.task[t].status
          /\ b.task[t].ambiguous = a.task[t].ambiguous
      BY <2>1, <3>2, <3>1, PutEvidence
    <3>4. q = [b EXCEPT !.current = NoTask]
      BY DEF a
    <3> HIDE DEF b, q
    <3>5. /\ q \in Storage /\ q.task = b.task /\ q.current = NoTask /\ q.status = "running"
          /\ q.job = s.job /\ q.approval = s.approval /\ q.replans = s.replans
      BY <2>1, <3>2, <3>3, <3>4 DEF Storage, AllBut
    <3>6. /\ \A u \in Task : u # t => q.task[u] = s.task[u]
          /\ q.task[t].status = "succeeded" /\ SameDecisions(q.task[t], s.task[t])
          /\ q.task[t].attempts = s.task[t].attempts
          /\ q.task[t].ambiguous = s.task[t].ambiguous
      BY <3>2, <3>3, <3>5 DEF AllBut, SameDecisions
    <3>7. TaskIsSound(t, q.task[t], n[t])
      BY <2>1, <2>2, <3>6 DEF TaskIsSound, SameDecisions
    <3>8. Good(q, n)
      BY <2>1, <3>5, <3>6, <3>7, TaskEnds
    <3> QED
      BY <1>2, <2>3, <3>8, DoneSafe DEF ReconcileCurrentTask, q
  <2>4. CASE ~(job.status = "completed" /\ job.result = "proven") /\ job.status \in {"completed", "failed"}
    <3>1. (job.status = "failed" /\ job.result = "transient") \in BOOLEAN
          /\ ActiveJobs(s) \subseteq {t}
      BY <2>1
    <3>2. Safe(HandleTaskFailure(s, t, job.status = "failed" /\ job.result = "transient"), n)
      BY <2>1, <3>1, HandleTaskFailureSafe
    <3> QED
      BY <1>2, <2>4, <3>2 DEF ReconcileCurrentTask
  <2>5. CASE /\ job.status \notin {"completed", "failed"}
             /\ t \in Idempotent /\ s.task[t].attempts < MaxAttempts
    <3> DEFINE a == [s EXCEPT !.task[t].status = "pending"]
               q == [s EXCEPT !.task[t].status = "pending", !.current = NoTask]
    <3>1. "pending" \in TaskStatus
      BY DEF TaskStatus
    <3>2. /\ a \in Storage /\ AllBut(a, s, t)
          /\ a.task[t].status = "pending" /\ SameDecisions(a.task[t], s.task[t])
          /\ a.task[t].attempts = s.task[t].attempts
          /\ a.task[t].ambiguous = s.task[t].ambiguous
      BY <2>1, <2>2, <3>1, PutStatus
    <3>3. q = [a EXCEPT !.current = NoTask]
      OBVIOUS
    <3> HIDE DEF a, q
    <3>4. /\ q \in Storage /\ q.task = a.task /\ q.current = NoTask /\ q.status = "running"
          /\ q.job = s.job /\ q.approval = s.approval /\ q.replans = s.replans
      BY <2>1, <3>2, <3>3 DEF Storage, AllBut
    <3>5. TaskIsSound(t, q.task[t], n[t]) /\ q.task[t].status = "pending"
      BY <2>1, <2>2, <2>5, <3>2, <3>4 DEF TaskIsSound, SameDecisions
    <3>6. Good(q, n)
      BY <2>1, <3>2, <3>4, <3>5, TaskEnds DEF AllBut
    <3> QED
      BY <1>2, <2>5, <3>6, DoneSafe DEF ReconcileCurrentTask, q
  <2>6. CASE /\ job.status \notin {"completed", "failed"}
             /\ ~(t \in Idempotent /\ s.task[t].attempts < MaxAttempts)
    <3> DEFINE a == [s EXCEPT !.task[t].status = "waiting_human"]
               b == [a EXCEPT !.task[t].ambiguous = TRUE]
               q == [s EXCEPT !.task[t].status = "waiting_human", !.task[t].ambiguous = TRUE,
                              !.current = NoTask]
    <3>1. "waiting_human" \in TaskStatus /\ TRUE \in BOOLEAN
      BY DEF TaskStatus
    <3>2. /\ a \in Storage /\ AllBut(a, s, t)
          /\ a.task[t].status = "waiting_human" /\ SameDecisions(a.task[t], s.task[t])
          /\ a.task[t].attempts = s.task[t].attempts
      BY <2>1, <2>2, <3>1, PutStatus
    <3> HIDE DEF a
    <3>3. /\ b \in Storage /\ AllBut(b, a, t)
          /\ SameDecisions(b.task[t], a.task[t])
          /\ b.task[t].attempts = a.task[t].attempts
          /\ b.task[t].status = a.task[t].status
          /\ b.task[t].ambiguous = TRUE
      BY <2>1, <3>2, PutAmbiguous
    <3>4. q = [b EXCEPT !.current = NoTask]
      BY DEF a
    <3> HIDE DEF b, q
    <3>5. /\ q \in Storage /\ q.task = b.task /\ q.current = NoTask /\ q.status = "running"
          /\ q.job = s.job /\ q.approval = s.approval /\ q.replans = s.replans
      BY <2>1, <3>2, <3>3, <3>4 DEF Storage, AllBut
    <3>6. /\ \A u \in Task : u # t => q.task[u] = s.task[u]
          /\ q.task[t].status = "waiting_human" /\ SameDecisions(q.task[t], s.task[t])
          /\ q.task[t].attempts = s.task[t].attempts
          /\ q.task[t].ambiguous
      BY <3>2, <3>3, <3>5 DEF AllBut, SameDecisions
    <3>7. TaskIsSound(t, q.task[t], n[t])
      BY <2>1, <2>2, <3>6 DEF TaskIsSound, SameDecisions
    <3>8. Good(q, n)
      BY <2>1, <3>5, <3>6, <3>7, TaskEnds
    <3> QED
      BY <1>2, <2>6, <3>8, DoneSafe DEF ReconcileCurrentTask, q
  <2> QED
    BY <2>3, <2>4, <2>5, <2>6
<1> QED
  BY <1>1, <1>2

\* The planner's job of a mission that is planning.
LEMMA PlanJobSafe ==
    ASSUME NEW s, NEW n, Good(s, n), s.status = "planning"
    PROVE  Safe(CreateJob(s, PlanKind(s)), n)
<1> DEFINE k == PlanKind(s)
<1>1. k \in {Plan, Replan} /\ k \in Key /\ k \notin Task /\ k # Verify
  BY Keys DEF PlanKind
<1>2. s.job[k].status \in Active \/ ActiveJobs(s) = {}
  <2> SUFFICES ASSUME NEW j \in ActiveJobs(s) PROVE j = k
    BY DEF ActiveJobs
  <2>1. j \in Key /\ j \notin Task /\ j # Verify /\ (j \in {Plan, Replan} => j = k)
    BY DEF Good, OneThing, ActiveJobs
  <2> QED
    BY <2>1 DEF Key
<1> HIDE DEF k
<1>3. k = PlanKind(s)
  BY DEF k
<1>4. Safe(CreateJob(s, k), n)
  BY <1>1, <1>2, <1>3, CreateJobSafe
<1> QED
  BY <1>4 DEF k

\* reconcile.
LEMMA ReconcileSafe ==
    ASSUME NEW s, NEW n \in [Task -> Nat], Good(s, n)
    PROVE  Safe(Reconcile(s), n)
<1> DEFINE q == Requeued(s)
           r == ReconcileCurrentTask(q)
           h == IF q.status = "planning" THEN CreateJob(q, PlanKind(q))
                ELSE IF q.status = "running" THEN Both(r, ScheduleNext(r.end))
                ELSE Done(q)
<1>1. Good(q, n)
  BY RequeuedGood
<1> HIDE DEF q
<1>2. Safe(r, n)
  BY <1>1, ReconcileCurrentTaskSafe
<1> HIDE DEF r
<1>3. Good(r.end, n)
  BY <1>2 DEF Safe
<1>4. Safe(ScheduleNext(r.end), n)
  BY <1>3, ScheduleNextSafe
<1>5. Safe(Both(r, ScheduleNext(r.end)), n)
  BY <1>2, <1>4, BothSafe
<1>6. q.status = "planning" => Safe(CreateJob(q, PlanKind(q)), n)
  BY <1>1, PlanJobSafe
<1>7. Safe(h, n)
  BY <1>1, <1>5, <1>6, DoneSafe
<1> HIDE DEF h
<1>8. Safe(Then(q, h), n)
  BY <1>1, <1>7, ThenSafe
<1> QED
  BY <1>8 DEF Reconcile, q, r, h

-----------------------------------------------------------------------------
(***************************************************************************)
(* Workers and people                                                      *)
(***************************************************************************)

\* The job that is active changes hands, or its lease is renewed or runs out.
LEMMA JobPut ==
    ASSUME NEW s, NEW n, Good(s, n), NEW k \in ActiveJobs(s),
           NEW e \in JobRecord, NEW a \in BOOLEAN
    PROVE  Good([s EXCEPT !.job = [s.job EXCEPT ![k] = e], !.alarm = a], n)
<1> DEFINE f == [s.job EXCEPT ![k] = e]
           q == [s EXCEPT !.job = f, !.alarm = a]
<1>1. s \in Storage /\ s.job \in [Key -> JobRecord] /\ k \in Key
  BY DEF Good, Storage, ActiveJobs
<1>2. f \in [Key -> JobRecord] /\ \A j \in Key : j # k => f[j] = s.job[j]
  BY <1>1
<1> HIDE DEF f
<1>3. /\ q \in Storage /\ q.job = f
      /\ q.status = s.status /\ q.task = s.task /\ q.current = s.current
      /\ q.replans = s.replans /\ q.approval = s.approval
  BY <1>1, <1>2 DEF Storage
<1> HIDE DEF q
<1>4. ActiveJobs(q) \subseteq ActiveJobs(s)
  BY <1>2, <1>3 DEF ActiveJobs
<1>5. Good(q, n)
  BY <1>3, <1>4, JobsOnly
<1> QED
  BY <1>5 DEF q, f

\* claim.
LEMMA ClaimedGood ==
    ASSUME NEW s, NEW n, Good(s, n), NEW k \in ActiveJobs(s), s.job[k].attempts < MaxLeases
    PROVE  Good([s EXCEPT !.job[k].status = "leased", !.job[k].expired = FALSE,
                          !.job[k].attempts = @ + 1], n)
<1> DEFINE x == s.job[k]
           a == x.attempts + 1
           e == [[[x EXCEPT !.status = "leased"] EXCEPT !.expired = FALSE] EXCEPT !.attempts = a]
           q == [s EXCEPT !.job[k].status = "leased", !.job[k].expired = FALSE,
                          !.job[k].attempts = @ + 1]
<1>1. s \in Storage /\ s.job \in [Key -> JobRecord] /\ k \in Key /\ x \in JobRecord
  BY DEF Good, Storage, ActiveJobs
<1>2. a \in 0 .. MaxLeases
  BY <1>1, MissionStoreAssumption DEF JobRecord
<1>3. q = [s EXCEPT !.job = [s.job EXCEPT ![k] = e], !.alarm = s.alarm]
  BY <1>1 DEF Storage, JobRecord
<1>4. s.alarm \in BOOLEAN
  BY <1>1 DEF Storage
<1> HIDE DEF a, x, q
<1>5. e \in JobRecord
  BY <1>1, <1>2 DEF JobRecord
<1> HIDE DEF e
<1>6. Good(q, n)
  BY <1>3, <1>4, <1>5, JobPut
<1> QED
  BY <1>6 DEF q

\* Whether a lease has run out.
LEMMA ExpiredGood ==
    ASSUME NEW s, NEW n, Good(s, n), NEW k \in ActiveJobs(s), NEW x \in BOOLEAN,
           NEW a \in BOOLEAN
    PROVE  Good([s EXCEPT !.job[k].expired = x, !.alarm = a], n)
<1> DEFINE e == [s.job[k] EXCEPT !.expired = x]
           q == [s EXCEPT !.job[k].expired = x, !.alarm = a]
<1>1. s \in Storage /\ s.job \in [Key -> JobRecord] /\ k \in Key /\ s.job[k] \in JobRecord
  BY DEF Good, Storage, ActiveJobs
<1>2. e \in JobRecord
  BY <1>1 DEF JobRecord
<1>3. q = [s EXCEPT !.job = [s.job EXCEPT ![k] = e], !.alarm = a]
  BY <1>1 DEF Storage
<1> HIDE DEF e, q
<1>4. Good(q, n)
  BY <1>2, <1>3, JobPut
<1> QED
  BY <1>4 DEF q

\* The planner's jobs are cancelled.
LEMMA CancelledGood ==
    ASSUME NEW s, NEW n, Good(s, n), s.status = "planning"
    PROVE  /\ Good(Cancelled(s), n) /\ ActiveJobs(Cancelled(s)) = {}
           /\ Cancelled(s).status = "planning" /\ PlanKind(Cancelled(s)) = PlanKind(s)
<1> DEFINE e == [NoJob EXCEPT !.status = "cancelled"]
           f == [k \in Key |-> IF k \in ActiveJobs(s) \cap {Plan, Replan} THEN e ELSE s.job[k]]
           q == Cancelled(s)
<1>1. s \in Storage /\ s.job \in [Key -> JobRecord]
  BY DEF Good, Storage
<1>2. e \in JobRecord /\ e.status = "cancelled"
  <2>1. NoJob \in JobRecord
    <3>1. 0 \in 0 .. MaxLeases
      BY MissionStoreAssumption
    <3> QED
      BY <3>1 DEF NoJob, JobRecord
  <2> QED
    BY <2>1 DEF JobRecord
<1>3. ActiveJobs(s) \subseteq {Plan, Replan}
  <2> SUFFICES ASSUME NEW k \in ActiveJobs(s) PROVE k \in {Plan, Replan}
    OBVIOUS
  <2>1. k \in Key /\ k # Verify /\ k \notin Task
    BY DEF Good, OneThing, ActiveJobs
  <2> QED
    BY <2>1 DEF Key
<1>4. q = [s EXCEPT !.job = f]
  BY <1>1 DEF Cancelled, Storage
<1> HIDE DEF e
<1>5. f \in [Key -> JobRecord]
  BY <1>1, <1>2
<1>6. \A k \in Key : f[k].status \notin Active
  BY <1>2, <1>3 DEF Active, ActiveJobs
<1> HIDE DEF f, q
<1>7. /\ q \in Storage /\ q.job = f
      /\ q.status = s.status /\ q.task = s.task /\ q.current = s.current
      /\ q.replans = s.replans /\ q.approval = s.approval
  BY <1>1, <1>4, <1>5 DEF Storage
<1>8. ActiveJobs(q) = {}
  BY <1>6, <1>7 DEF ActiveJobs
<1>9. Good(q, n)
  BY <1>7, <1>8, JobsOnly
<1>10. PlanKind(q) = PlanKind(s)
  BY <1>7 DEF PlanKind, Present
<1> QED
  BY <1>7, <1>8, <1>9, <1>10 DEF q

\* What people decide: the task that waits for approval goes on or fails for good.
LEMMA DecidedGood ==
    ASSUME NEW s, NEW n \in [Task -> Nat], Good(s, n), NEW t \in Task, s.approval = t,
           s.status \in {"running", "waiting_human"},
           NEW q \in Storage, q.status = "running", q.approval = NoTask,
           q.current = s.current, q.job = s.job,
           \A u \in Task : u # t => q.task[u] = s.task[u],
           q.task[t].status # "running", TaskIsSound(t, q.task[t], n[t])
    PROVE  Good(q, n)
<1>1. s.task[t].status = "waiting_human"
  BY Keys DEF Good, Asked
<1>2. s.current # t
  BY <1>1 DEF Good, Focused
<1>3. \A u \in Task : TaskIsSound(u, q.task[u], n[u])
  BY DEF Good
<1>4. Focused(q)
  <2>1. \A u \in Task : u # t => (q.task[u].status = "running" <=> q.current = u)
    BY DEF Good, Focused
  <2> QED
    BY <1>2, <2>1 DEF Focused
<1>5. OneThing(q)
  <2>1. ActiveJobs(q) = ActiveJobs(s)
    BY DEF ActiveJobs
  <2>2. t \in Present(s) /\ t \notin TasksIn(s, {"succeeded", "skipped"})
    BY <1>1 DEF Present, TasksIn
  <2>3. ASSUME NEW k \in ActiveJobs(s)
        PROVE  /\ ActiveJobs(s) = {k} /\ k \in Task
               /\ s.current = k /\ s.task[k].status = "running"
    <3>1. /\ ActiveJobs(s) = {k}
          /\ k \in {Plan, Replan} => s.status = "planning"
          /\ k = Verify => Present(s) = TasksIn(s, {"succeeded", "skipped"})
          /\ k \in Task => s.current = k /\ s.task[k].status = "running"
          /\ k \in Key
      BY DEF Good, OneThing, ActiveJobs
    <3> QED
      BY <2>2, <3>1 DEF Key
  <2>4. ASSUME NEW k \in ActiveJobs(q)
        PROVE  /\ ActiveJobs(q) = {k} /\ k \in Task
               /\ q.current = k /\ q.task[k].status = "running"
    BY <1>2, <2>1, <2>3
  <2> QED
    BY <2>4, Keys DEF OneThing
<1> QED
  BY <1>3, <1>4, <1>5 DEF Good, Asked, Budgeted, Earned, NewMission

\* decideApproval.
LEMMA DecideApprovalKeeps ==
    ASSUME TypeOK, Good(store, replays), DecideApproval
    PROVE  \E h : Safe(h, replays) /\ Run(h)
<1> DEFINE t == store.approval
           d == [store EXCEPT !.approval = NoTask, !.status = "running"]
           yes == [d EXCEPT !.task[t].status = "pending", !.task[t].approved = TRUE]
           no == [d EXCEPT !.task[t].status = "failed", !.task[t].rejected = TRUE]
<1>1. /\ store \in Storage /\ replays \in [Task -> Nat]
      /\ t \in Task /\ store.status \in {"running", "waiting_human"}
  <2>1. replays \in [Task -> Nat]
    BY MissionStoreAssumption DEF TypeOK
  <2> QED
    BY <2>1 DEF DecideApproval, TypeOK, Storage
<1>2. /\ store.task[t] \in TaskRecord
      /\ store.task[t].status = "waiting_human" /\ ~store.task[t].ambiguous
      /\ TaskIsSound(t, store.task[t], replays[t])
      /\ replays[t] \in Nat
  BY <1>1, Keys DEF Good, Asked, Storage
<1>3. /\ d \in Storage /\ d.status = "running" /\ d.approval = NoTask
      /\ d.current = store.current /\ d.job = store.job /\ d.task = store.task
  BY <1>1 DEF Storage
<1>4. \/ Run(ScheduleAlarm(SaveAndSchedule(yes)))
      \/ Run(ScheduleAlarm(SaveAndSchedule(no)))
  BY DEF DecideApproval
<1> HIDE DEF d
<1>5. Good(yes, replays)
  <2> DEFINE e == [store.task[t] EXCEPT !.status = "pending", !.approved = TRUE]
  <2>1. /\ e \in TaskRecord /\ e.status = "pending" /\ e.approved
        /\ e.attempts = store.task[t].attempts /\ e.rejected = store.task[t].rejected
        /\ e.ambiguous = store.task[t].ambiguous
    BY <1>2 DEF TaskRecord
  <2>2. yes = [d EXCEPT !.task = [d.task EXCEPT ![t] = e]]
    BY <1>1, <1>3 DEF Storage, TaskRecord
  <2> HIDE DEF e, yes, t
  <2> DEFINE q == [d EXCEPT !.task = [d.task EXCEPT ![t] = e]]
  <2>3. q \in Storage /\ q.task[t] = e /\ AllBut(q, d, t)
    BY <1>1, <1>3, <2>1, PutTask
  <2> HIDE DEF q
  <2>4. TaskIsSound(t, e, replays[t])
    BY <1>2, <2>1 DEF TaskIsSound
  <2>5. Good(q, replays)
    BY <1>1, <1>3, <2>1, <2>3, <2>4, DecidedGood DEF AllBut, t
  <2> QED
    BY <2>2, <2>5 DEF q
<1>6. Good(no, replays)
  <2> DEFINE e == [store.task[t] EXCEPT !.status = "failed", !.rejected = TRUE]
  <2>1. /\ e \in TaskRecord /\ e.status = "failed"
        /\ e.attempts = store.task[t].attempts /\ e.approved = store.task[t].approved
        /\ e.ambiguous = store.task[t].ambiguous
    BY <1>2 DEF TaskRecord
  <2>2. no = [d EXCEPT !.task = [d.task EXCEPT ![t] = e]]
    BY <1>1, <1>3 DEF Storage, TaskRecord
  <2> HIDE DEF e, no, t
  <2> DEFINE q == [d EXCEPT !.task = [d.task EXCEPT ![t] = e]]
  <2>3. q \in Storage /\ q.task[t] = e /\ AllBut(q, d, t)
    BY <1>1, <1>3, <2>1, PutTask
  <2> HIDE DEF q
  <2>4. TaskIsSound(t, e, replays[t])
    BY <1>2, <2>1 DEF TaskIsSound
  <2>5. Good(q, replays)
    BY <1>1, <1>3, <2>1, <2>3, <2>4, DecidedGood DEF AllBut, t
  <2> QED
    BY <2>2, <2>5 DEF q
<1> HIDE DEF yes, no
<1>7. /\ Safe(ScheduleAlarm(SaveAndSchedule(yes)), replays)
      /\ Safe(ScheduleAlarm(SaveAndSchedule(no)), replays)
  BY <1>1, <1>5, <1>6, SaveAndScheduleSafe, ScheduleAlarmSafe
<1> QED
  BY <1>4, <1>7

\* Each replay was authorized by a resume of its own.
Authorized == \A t \in Task : replays[t] <= resumes

\* The invariant.
Inv == TypeOK /\ Good(store, replays) /\ Authorized

\* resume: the replays it authorizes are what its replayed tasks need.
LEMMA ResumeKeeps ==
    ASSUME Inv, Resume
    PROVE  /\ replays' \in [Task -> 0 .. MaxResumes]
           /\ resumes' \in 0 .. MaxResumes
           /\ Authorized'
           /\ \E h : Safe(h, replays') /\ Run(h)
<1> USE DEF Inv
<1>1. /\ store \in Storage /\ store.task \in [Task -> TaskRecord]
      /\ replays \in [Task -> 0 .. MaxResumes] /\ resumes \in 0 .. MaxResumes
      /\ MaxResumes \in Nat
      /\ store.status = "waiting_human" /\ store.approval = NoTask
      /\ resumes < MaxResumes /\ resumes' = resumes + 1
  BY MissionStoreAssumption DEF TypeOK, Storage, Resume
<1>2. ActiveJobs(store) = {} /\ store.current = NoTask
  <2>1. store.current = NoTask
    BY <1>1 DEF Good, Focused
  <2>2. ASSUME NEW k \in ActiveJobs(store) PROVE FALSE
    <3>1. k \in Key /\ k \notin {Plan, Replan} /\ k # Verify /\ k \notin Task
      BY <1>1 DEF Good, OneThing, ActiveJobs
    <3> QED
      BY <3>1 DEF Key
  <2> QED
    BY <2>1, <2>2
<1> DEFINE do(t) == [store.task[t] EXCEPT !.status = "succeeded", !.evidence = TRUE,
                                          !.ambiguous = FALSE]
           re(t) == [store.task[t] EXCEPT !.status = "pending", !.ambiguous = FALSE]
           pe(t) == [store.task[t] EXCEPT !.status = "pending"]
           f(done, replay) == [t \in Task |->
                      IF t \in done THEN do(t)
                      ELSE IF t \in replay THEN re(t)
                      ELSE IF ResumesAlways(t) THEN pe(t)
                      ELSE store.task[t]]
           p(done, replay) == [store EXCEPT !.status = "running", !.current = NoTask,
                                            !.task = f(done, replay)]
<1>3. PICK done \in SUBSET {t \in Ambiguous : Reconcilable(t)} :
      \E replay \in SUBSET ((Ambiguous \ Idempotent) \ done) :
          /\ Run(ScheduleAlarm(SaveAndSchedule(p(done, replay))))
          /\ replays' = [t \in Task |-> IF t \in replay THEN replays[t] + 1 ELSE replays[t]]
  BY <1>1 DEF Resume, Storage
<1>4. PICK replay \in SUBSET ((Ambiguous \ Idempotent) \ done) :
          /\ Run(ScheduleAlarm(SaveAndSchedule(p(done, replay))))
          /\ replays' = [t \in Task |-> IF t \in replay THEN replays[t] + 1 ELSE replays[t]]
  BY <1>3
<1> DEFINE g == f(done, replay)
           q == p(done, replay)
<1>5. /\ \A t \in Task : replays[t] \in Nat /\ replays[t] <= resumes
      /\ resumes \in Nat
  BY <1>1 DEF Authorized
<1>6. /\ replays' \in [Task -> 0 .. MaxResumes]
      /\ \A t \in Task : /\ replays'[t] \in Nat
                         /\ replays'[t] <= resumes + 1
                         /\ replays'[t] = IF t \in replay THEN replays[t] + 1 ELSE replays[t]
  <2>1. \A t \in Task : replays'[t] = IF t \in replay THEN replays[t] + 1 ELSE replays[t]
    BY <1>4
  <2>2. \A t \in Task : (IF t \in replay THEN replays[t] + 1 ELSE replays[t]) \in 0 .. MaxResumes
    BY <1>1, <1>5
  <2>3. replays' \in [Task -> 0 .. MaxResumes]
    BY <1>4, <2>2
  <2>4. \A t \in Task : replays'[t] \in Nat /\ replays'[t] <= resumes + 1
    BY <1>5, <2>1
  <2> QED
    BY <2>1, <2>3, <2>4
<1>7. done \subseteq Ambiguous /\ replay \subseteq Ambiguous \ Idempotent /\ Ambiguous \subseteq Task
  BY DEF Ambiguous
<1>8. ASSUME NEW t \in Task
      PROVE  /\ store.task[t] \in TaskRecord
             /\ TaskIsSound(t, store.task[t], replays[t])
             /\ store.task[t].attempts \in Nat
             /\ store.task[t].status # "running"
  BY <1>1, <1>2, Keys DEF Good, Focused, TaskRecord
<1>9. ASSUME NEW t \in Ambiguous
      PROVE  store.task[t].ambiguous /\ store.task[t].status = "waiting_human"
  BY <1>7, <1>8 DEF Ambiguous, TaskIsSound
<1>10. ASSUME NEW t \in done
       PROVE  /\ do(t) \in TaskRecord /\ do(t).status = "succeeded"
              /\ TaskIsSound(t, do(t), replays'[t])
  <2>1. t \in Task /\ t \in Ambiguous /\ t \notin replay
    BY <1>7
  <2>2. /\ do(t) \in TaskRecord /\ do(t).status = "succeeded" /\ do(t).ambiguous = FALSE
        /\ do(t).attempts = store.task[t].attempts /\ do(t).approved = store.task[t].approved
        /\ do(t).rejected = store.task[t].rejected
    BY <1>8, <2>1 DEF TaskRecord
  <2>3. replays'[t] = replays[t]
    BY <1>6, <2>1
  <2> HIDE DEF do
  <2> QED
    BY <1>8, <1>9, <2>1, <2>2, <2>3 DEF TaskIsSound
<1>11. ASSUME NEW t \in replay
       PROVE  /\ re(t) \in TaskRecord /\ re(t).status = "pending"
              /\ TaskIsSound(t, re(t), replays'[t])
  <2>1. t \in Task /\ t \in Ambiguous
    BY <1>7
  <2>2. /\ re(t) \in TaskRecord /\ re(t).status = "pending" /\ re(t).ambiguous = FALSE
        /\ re(t).attempts = store.task[t].attempts /\ re(t).approved = store.task[t].approved
        /\ re(t).rejected = store.task[t].rejected
    BY <1>8, <2>1 DEF TaskRecord
  <2>3. replays'[t] = replays[t] + 1
    BY <1>6, <2>1
  <2> HIDE DEF re
  <2> QED
    BY <1>5, <1>8, <1>9, <2>1, <2>2, <2>3 DEF TaskIsSound
<1>12. ASSUME NEW t \in Task, ResumesAlways(t), t \notin replay
       PROVE  /\ pe(t) \in TaskRecord /\ pe(t).status = "pending"
              /\ TaskIsSound(t, pe(t), replays'[t])
  <2>1. /\ store.task[t].status \in {"waiting_human", "failed"}
        /\ ~store.task[t].ambiguous /\ ~store.task[t].rejected
        /\ store.task[t].status = "failed" => t \in Idempotent
    BY <1>12 DEF ResumesAlways
  <2>2. /\ pe(t) \in TaskRecord /\ pe(t).status = "pending"
        /\ pe(t).ambiguous = store.task[t].ambiguous
        /\ pe(t).attempts = store.task[t].attempts /\ pe(t).approved = store.task[t].approved
        /\ pe(t).rejected = store.task[t].rejected
    BY <1>8 DEF TaskRecord
  <2>3. replays'[t] = replays[t]
    BY <1>6, <1>12
  <2> HIDE DEF pe
  <2> QED
    BY <1>5, <1>8, <2>1, <2>2, <2>3 DEF TaskIsSound
<1>13. \A t \in Task : \/ g[t] = do(t) /\ t \in done
                       \/ g[t] = re(t) /\ t \in replay
                       \/ g[t] = pe(t) /\ ResumesAlways(t) /\ t \notin replay
                       \/ g[t] = store.task[t] /\ t \notin replay
  OBVIOUS
<1> HIDE DEF do, re, pe
<1>14. g \in [Task -> TaskRecord]
  BY <1>8, <1>10, <1>11, <1>12
<1>15. q = [store EXCEPT !.status = "running", !.current = NoTask, !.task = g]
  OBVIOUS
<1>a. /\ Run(ScheduleAlarm(SaveAndSchedule(q)))
  BY <1>4
<1> HIDE DEF f, g, p, q
<1>16. \A t \in Task : TaskIsSound(t, g[t], replays'[t]) /\ g[t].status # "running"
  <2> SUFFICES ASSUME NEW t \in Task
               PROVE  TaskIsSound(t, g[t], replays'[t]) /\ g[t].status # "running"
    OBVIOUS
  <2>1. t \notin replay => replays'[t] = replays[t]
    BY <1>6
  <2> QED
    BY <1>8, <1>10, <1>11, <1>12, <1>13, <2>1
<1>17. /\ q \in Storage
       /\ q.status = "running" /\ q.current = NoTask /\ q.task = g
       /\ q.approval = NoTask /\ q.job = store.job
  BY <1>1, <1>14, <1>15 DEF Storage
<1>18. ActiveJobs(q) = {}
  BY <1>2, <1>17 DEF ActiveJobs
<1>19. Focused(q) /\ Asked(q) /\ Budgeted(q)
  BY <1>16, <1>17, Keys DEF Focused, Asked, Budgeted
<1>20. Good(q, replays')
  BY <1>16, <1>17, <1>18, <1>19, IdleGood
<1>21. replays' \in [Task -> Nat]
  BY <1>6
<1>22. Safe(ScheduleAlarm(SaveAndSchedule(q)), replays')
  BY <1>20, <1>21, SaveAndScheduleSafe, ScheduleAlarmSafe
<1>23. Authorized'
  BY <1>1, <1>6 DEF Authorized
<1>24. resumes' \in 0 .. MaxResumes
  BY <1>1
<1> QED
  BY <1>6, <1>22, <1>23, <1>24, <1>a

-----------------------------------------------------------------------------
(***************************************************************************)
(* The invariant                                                           *)
(***************************************************************************)

\* A handler that is safe wherever it ends keeps the invariant.
LEMMA RunKeeps ==
    ASSUME Inv, NEW h, Safe(h, replays), Run(h),
           holders' \subseteq Key, UNCHANGED <<replays, resumes>>
    PROVE  Inv'
<1>1. Good(store', replays)
  BY DEF Safe, Run
<1>2. store' \in Storage
  BY <1>1 DEF Good
<1>3. crashes' \in 0 .. MaxCrashes
  BY MissionStoreAssumption DEF Inv, TypeOK, Run
<1>4. TypeOK'
  BY <1>2, <1>3 DEF Inv, TypeOK
<1>5. Good(store, replays)'
  BY <1>1
<1>6. Authorized'
  BY DEF Inv, Authorized
<1> QED
  BY <1>4, <1>5, <1>6 DEF Inv

\* Initially there is nothing.
LEMMA InitGood == Init => Inv
<1> SUFFICES ASSUME Init PROVE Inv
  OBVIOUS
<1> DEFINE r == [NewTask EXCEPT !.status = "absent"]
<1>1. 0 \in 0 .. MaxLeases /\ 0 \in 0 .. MaxResumes /\ 0 \in 0 .. MaxCrashes /\ 0 \in 0 .. MaxReplans
  BY MissionStoreAssumption DEF MaxReplans
<1>2. NoJob \in JobRecord /\ NoJob.status = "absent"
  BY <1>1 DEF NoJob, JobRecord
<1>3. /\ r \in TaskRecord /\ r.status = "absent" /\ r.attempts = 0
      /\ r.rejected = FALSE /\ r.ambiguous = FALSE
  BY DEF NewTask, TaskRecord
<1> HIDE DEF r
<1>4. /\ store.task = [t \in Task |-> r] /\ store.job = [k \in Key |-> NoJob]
      /\ store.status = "absent" /\ store.current = NoTask /\ store.approval = NoTask
      /\ store = [status |-> "absent", task |-> [t \in Task |-> r], current |-> NoTask,
                  replans |-> 0, approval |-> NoTask, job |-> [k \in Key |-> NoJob],
                  alarm |-> FALSE]
  BY DEF Init, r
<1>5. store \in Storage
  BY <1>1, <1>2, <1>3, <1>4 DEF Storage
<1>6. ActiveJobs(store) = {} /\ Present(store) = {}
  BY <1>2, <1>3, <1>4 DEF ActiveJobs, Active, Present
<1>7. \A t \in Task : TaskIsSound(t, store.task[t], replays[t])
  <2> SUFFICES ASSUME NEW t \in Task PROVE TaskIsSound(t, r, 0)
    BY <1>4 DEF Init
  <2> QED
    BY <1>3 DEF TaskIsSound
<1>8. Focused(store) /\ Asked(store) /\ Budgeted(store)
  BY <1>3, <1>4, Keys DEF Focused, Asked, Budgeted
<1>9. Good(store, replays)
  BY <1>4, <1>5, <1>6, <1>7, <1>8 DEF Good, OneThing, Earned, NewMission
<1>10. TypeOK
  BY <1>1, <1>5 DEF TypeOK, Init
<1>11. Authorized
  BY DEF Authorized, Init
<1> QED
  BY <1>9, <1>10, <1>11 DEF Inv

\* What a worker holds is active.
LEMMA LeaseIsActive ==
    ASSUME NEW k \in Key
    PROVE  /\ HoldsLease(k) => k \in ActiveJobs(store)
           /\ Claimable(k) => k \in ActiveJobs(store) /\ store.job[k].attempts < MaxLeases
           /\ store.job[k].status = "leased" => k \in ActiveJobs(store)
BY DEF HoldsLease, Claimable, ActiveJobs, Active

\* Every step keeps the invariant.
LEMMA InvStep == Inv /\ [Next]_vars => Inv'
<1> SUFFICES ASSUME Inv, [Next]_vars PROVE Inv'
  OBVIOUS
<1>0. /\ Good(store, replays) /\ holders \subseteq Key
      /\ replays \in [Task -> Nat]
  BY MissionStoreAssumption DEF Inv, TypeOK
<1>1. CASE CreateMission
  <2> DEFINE m == [store EXCEPT !.status = "planning"]
             h == ScheduleAlarm(Then(m, CreateJob(m, Plan)))
  <2>1. /\ store \in Storage /\ Present(store) = {} /\ ActiveJobs(store) = {}
        /\ store.current = NoTask
    BY <1>0, <1>1 DEF Good, NewMission, Focused, CreateMission
  <2>2. /\ m \in Storage /\ m.status = "planning" /\ m.task = store.task /\ m.job = store.job
        /\ m.current = store.current /\ m.approval = store.approval
    BY <2>1 DEF Storage
  <2> HIDE DEF m
  <2>3. ActiveJobs(m) = {} /\ Present(m) = {}
    BY <2>1, <2>2 DEF ActiveJobs, Present
  <2>4. Focused(m) /\ Asked(m) /\ Budgeted(m)
    BY <1>0, <2>1, <2>2, <2>3, Keys DEF Good, Focused, Asked, Budgeted
  <2>5. Good(m, replays)
    BY <1>0, <2>2, <2>3, <2>4, IdleGood DEF Good
  <2>6. Plan = PlanKind(m)
    BY <2>3 DEF PlanKind
  <2>7. Safe(CreateJob(m, Plan), replays)
    BY <2>2, <2>5, <2>6, PlanJobSafe
  <2>8. Safe(h, replays)
    BY <2>5, <2>7, ThenSafe, ScheduleAlarmSafe
  <2>9. Run(h) /\ UNCHANGED <<holders, replays, resumes>>
    BY <1>1 DEF CreateMission, m
  <2> HIDE DEF h
  <2> QED
    BY <1>0, <2>8, <2>9, RunKeeps
<1>2. CASE CreateMissionAgain
  <2> DEFINE again == store.status = "planning" /\ \A k \in {Plan, Replan} : store.job[k].status = "absent"
             g == IF again THEN CreateJob(store, PlanKind(store)) ELSE Done(store)
             h == ScheduleAlarm(g)
  <2>1. Safe(g, replays)
    BY <1>0, PlanJobSafe, DoneSafe
  <2>2. Run(h) /\ UNCHANGED <<holders, replays, resumes>>
    BY <1>2 DEF CreateMissionAgain
  <2> HIDE DEF g
  <2>3. Safe(h, replays)
    BY <2>1, ScheduleAlarmSafe
  <2> HIDE DEF h
  <2> QED
    BY <1>0, <2>2, <2>3, RunKeeps
<1>3. CASE SubmitPlan
  <2> DEFINE c == Cancelled(store)
  <2>1. /\ store.status = "planning"
        /\ \E p \in Adopted(c, PlanKind(store)) : Run(ScheduleAlarm(Then(c, SaveAndSchedule(p))))
        /\ UNCHANGED <<holders, replays, resumes>>
    BY <1>3 DEF SubmitPlan
  <2>2. /\ Good(c, replays) /\ ActiveJobs(c) = {} /\ c.status = "planning"
        /\ PlanKind(c) = PlanKind(store)
    BY <1>0, <2>1, CancelledGood
  <2> HIDE DEF c
  <2>3. PICK p \in Adopted(c, PlanKind(store)) : Run(ScheduleAlarm(Then(c, SaveAndSchedule(p))))
    BY <2>1
  <2>4. Good(p, replays)
    BY <1>0, <2>2, AdoptedGood
  <2>5. Safe(ScheduleAlarm(Then(c, SaveAndSchedule(p))), replays)
    BY <1>0, <2>2, <2>4, SaveAndScheduleSafe, ThenSafe, ScheduleAlarmSafe
  <2> QED
    BY <1>0, <2>1, <2>3, <2>5, RunKeeps
<1>4. ASSUME NEW k \in Key, NEW delivered \in BOOLEAN, Claim(k, delivered) PROVE Inv'
  <2> DEFINE q == [store EXCEPT !.job[k].status = "leased", !.job[k].expired = FALSE,
                                !.job[k].attempts = @ + 1]
             h == ScheduleAlarm(Done(q))
  <2>1. k \in ActiveJobs(store) /\ store.job[k].attempts < MaxLeases
    BY <1>4, LeaseIsActive DEF Claim
  <2>2. Good(q, replays)
    BY <1>0, <2>1, ClaimedGood
  <2>3. /\ Run(h) /\ UNCHANGED <<replays, resumes>>
        /\ holders' = IF delivered THEN holders \cup {k} ELSE holders \ {k}
    BY <1>4 DEF Claim
  <2> HIDE DEF q
  <2>4. Safe(h, replays)
    BY <2>2, DoneSafe, ScheduleAlarmSafe
  <2>5. holders' \subseteq Key
    BY <1>0, <2>3
  <2> HIDE DEF h
  <2> QED
    BY <2>3, <2>4, <2>5, RunKeeps
<1>5. ASSUME NEW k \in Key, Heartbeat(k) PROVE Inv'
  <2>1. k \in ActiveJobs(store) /\ TRUE \in BOOLEAN /\ FALSE \in BOOLEAN
    BY <1>5, LeaseIsActive DEF Heartbeat
  <2>2. store' = [store EXCEPT !.job[k].expired = FALSE, !.alarm = TRUE]
        /\ UNCHANGED <<holders, replays, resumes, crashes>>
    BY <1>5 DEF Heartbeat
  <2> DEFINE q == [store EXCEPT !.job[k].expired = FALSE, !.alarm = TRUE]
  <2>3. Good(q, replays)
    BY <1>0, <2>1, ExpiredGood
  <2> HIDE DEF q
  <2>4. Good(store', replays)
    BY <2>2, <2>3 DEF q
  <2> QED
    BY <2>2, <2>4 DEF Inv, TypeOK, Good, Authorized
<1>6. ASSUME NEW k \in Key, Complete(k) PROVE Inv'
  <2>1. k \in ActiveJobs(store)
    BY <1>6, LeaseIsActive DEF Complete
  <2>2. PICK result \in Results : \E h \in Completions(store, k, result) : Run(ScheduleAlarm(h))
    BY <1>6 DEF Complete
  <2>3. PICK h \in Completions(store, k, result) : Run(ScheduleAlarm(h))
    BY <2>2
  <2>4. Safe(h, replays)
    BY <1>0, <2>1, CompletionsSafe
  <2>5. Safe(ScheduleAlarm(h), replays)
    BY <2>4, ScheduleAlarmSafe
  <2>6. holders' \subseteq Key /\ UNCHANGED <<replays, resumes>>
    BY <1>0, <1>6 DEF Complete
  <2> QED
    BY <2>3, <2>5, <2>6, RunKeeps
<1>7. ASSUME NEW k \in Key, Fail(k) PROVE Inv'
  <2>1. k \in ActiveJobs(store)
    BY <1>7, LeaseIsActive DEF Fail
  <2>2. PICK result \in {"transient", "permanent"} : Run(ScheduleAlarm(Failure(store, k, result)))
    BY <1>7 DEF Fail
  <2>3. Safe(Failure(store, k, result), replays)
    BY <1>0, <2>1, FailureSafe
  <2>4. Safe(ScheduleAlarm(Failure(store, k, result)), replays)
    BY <2>3, ScheduleAlarmSafe
  <2>5. holders' \subseteq Key /\ UNCHANGED <<replays, resumes>>
    BY <1>0, <1>7 DEF Fail
  <2> QED
    BY <2>2, <2>4, <2>5, RunKeeps
<1>8. ASSUME NEW k \in Key, WorkerGone(k) PROVE Inv'
  BY <1>8 DEF WorkerGone, Inv, TypeOK, Authorized
<1>9. ASSUME NEW k \in Key, LeaseExpires(k) PROVE Inv'
  <2>1. k \in ActiveJobs(store) /\ TRUE \in BOOLEAN /\ store.alarm \in BOOLEAN
    BY <1>0, <1>9, LeaseIsActive DEF LeaseExpires, Good, Storage
  <2> DEFINE q == [store EXCEPT !.job[k].expired = TRUE, !.alarm = store.alarm]
  <2>2. store' = q /\ UNCHANGED <<holders, replays, resumes, crashes>>
    BY <1>0, <1>9 DEF LeaseExpires, Good, Storage
  <2>3. Good(q, replays)
    BY <1>0, <2>1, ExpiredGood
  <2> HIDE DEF q
  <2>4. Good(store', replays)
    BY <2>2, <2>3
  <2> QED
    BY <2>2, <2>4 DEF Inv, TypeOK, Good, Authorized
<1>10. CASE DecideApproval
  <2>1. PICK h : Safe(h, replays) /\ Run(h)
    BY <1>0, <1>10, DecideApprovalKeeps DEF Inv
  <2>2. UNCHANGED <<holders, replays, resumes>>
    BY <1>10 DEF DecideApproval
  <2> QED
    BY <1>0, <2>1, <2>2, RunKeeps
<1>11. CASE Resume
  <2>1. /\ replays' \in [Task -> 0 .. MaxResumes]
        /\ resumes' \in 0 .. MaxResumes
        /\ Authorized'
        /\ \E h : Safe(h, replays') /\ Run(h)
    BY <1>11, ResumeKeeps
  <2>2. PICK h : Safe(h, replays') /\ Run(h)
    BY <2>1
  <2>3. Good(store', replays') /\ holders' = holders /\ crashes' \in 0 .. MaxCrashes
    <3>1. Good(store', replays')
      BY <2>2 DEF Safe, Run
    <3>2. holders' = holders
      BY <1>11 DEF Resume
    <3>3. crashes' \in 0 .. MaxCrashes
      BY <2>2, MissionStoreAssumption DEF Run, Inv, TypeOK
    <3> QED
      BY <3>1, <3>2, <3>3
  <2>4. TypeOK'
    BY <1>0, <2>1, <2>3 DEF TypeOK, Good
  <2> QED
    BY <2>1, <2>3, <2>4 DEF Inv
<1>12. CASE Alarm
  <2> DEFINE h == Reconcile(store)
             q == [h.end EXCEPT !.alarm = FALSE]
  <2>1. Safe(h, replays)
    BY <1>0, ReconcileSafe
  <2>2. /\ \/ store' = WithAlarm(q) /\ UNCHANGED crashes
           \/ crashes < MaxCrashes /\ store' \in h.cuts /\ crashes' = crashes + 1
        /\ UNCHANGED <<holders, replays, resumes>>
    BY <1>12 DEF Alarm
  <2> HIDE DEF h
  <2>3. Good(h.end, replays) /\ FALSE \in BOOLEAN
    BY <2>1 DEF Safe
  <2>4. Good(q, replays)
    BY <2>3, AlarmGood
  <2> HIDE DEF q
  <2>5. (q.alarm \/ q.status \in {"planning", "running"} \/ ActiveJobs(q) # {}) \in BOOLEAN
    OBVIOUS
  <2>6. Good(WithAlarm(q), replays)
    BY <2>4, <2>5, AlarmGood DEF WithAlarm
  <2>7. Good(store', replays) /\ crashes' \in 0 .. MaxCrashes
    <3>1. Good(store', replays)
      BY <2>1, <2>2, <2>6 DEF Safe
    <3>2. crashes' \in 0 .. MaxCrashes
      BY <2>2, MissionStoreAssumption DEF Inv, TypeOK
    <3> QED
      BY <3>1, <3>2
  <2> QED
    BY <2>2, <2>7 DEF Inv, TypeOK, Good, Authorized
<1>13. CASE UNCHANGED vars
  BY <1>13 DEF vars, Inv, TypeOK, Good, Authorized
<1> QED
  BY <1>1, <1>2, <1>3, <1>4, <1>5, <1>6, <1>7, <1>8, <1>9, <1>10, <1>11, <1>12, <1>13 DEF Next

\* A storage that differs by its alarm at most.
LEMMA SameButAlarm ==
    ASSUME NEW s \in Storage, NEW a
    PROVE  /\ s = [s EXCEPT !.alarm = s.alarm]
           /\ [s EXCEPT !.alarm = a] = [s EXCEPT !.alarm = [s EXCEPT !.alarm = a].alarm]
BY DEF Storage

\* Of a mission that succeeded only the alarm changes.
LEMMA SucceededStep ==
    Inv /\ [Next]_vars => (store.status = "succeeded" => store' = [store EXCEPT !.alarm = store'.alarm])
<1> SUFFICES ASSUME Inv, [Next]_vars, store.status = "succeeded"
             PROVE  store' = [store EXCEPT !.alarm = store'.alarm]
  OBVIOUS
<1>1. store \in Storage /\ ActiveJobs(store) = {}
  BY DEF Inv, Good, Earned
<1>2. \A k \in Key : ~HoldsLease(k) /\ ~Claimable(k) /\ store.job[k].status # "leased"
  BY <1>1, LeaseIsActive
<1>3. Requeued(store) = store
  <2> DEFINE f == [k \in Key |-> IF store.job[k].status = "leased" /\ store.job[k].expired
                                 THEN [store.job[k] EXCEPT !.status = "queued", !.expired = FALSE]
                                 ELSE store.job[k]]
  <2>1. store.job \in [Key -> JobRecord]
    BY <1>1 DEF Storage
  <2>2. f = store.job
    BY <1>2, <2>1
  <2>3. Requeued(store) = [store EXCEPT !.job = f]
    BY <1>1 DEF Requeued, Storage
  <2> HIDE DEF f
  <2> QED
    BY <1>1, <2>2, <2>3 DEF Storage
<1>4. CASE CreateMissionAgain
  <2> DEFINE h == Done(store)
  <2>1. Run(ScheduleAlarm(h))
    BY <1>4 DEF CreateMissionAgain
  <2>2. h.end = store /\ h.cuts = {}
    BY DEF Done
  <2> HIDE DEF h
  <2>3. ScheduleAlarm(h).end = WithAlarm(store) /\ ScheduleAlarm(h).cuts = {store}
    BY <2>2 DEF ScheduleAlarm, Both, Done
  <2>4. store' = WithAlarm(store) \/ store' = store
    BY <2>1, <2>3 DEF Run
  <2> DEFINE a == store.alarm \/ store.status \in {"planning", "running"} \/ ActiveJobs(store) # {}
  <2>5. WithAlarm(store) = [store EXCEPT !.alarm = a]
    BY DEF WithAlarm
  <2> HIDE DEF a
  <2> QED
    BY <1>1, <2>4, <2>5, SameButAlarm
<1>5. CASE Alarm
  <2> DEFINE h == Reconcile(store)
  <2>1. h = Then(store, Done(store))
    BY <1>3 DEF Reconcile
  <2>2. h.end = store /\ h.cuts = {store}
    BY <2>1 DEF Then, Done
  <2> DEFINE off == [store EXCEPT !.alarm = FALSE]
             a == off.alarm \/ off.status \in {"planning", "running"} \/ ActiveJobs(off) # {}
  <2>3. store' = WithAlarm(off) \/ store' = store
    BY <1>5, <2>2 DEF Alarm
  <2>4. WithAlarm(off) = [off EXCEPT !.alarm = a]
    BY DEF WithAlarm
  <2> HIDE DEF a
  <2>5. [off EXCEPT !.alarm = a] = [store EXCEPT !.alarm = a]
    BY <1>1 DEF Storage
  <2> QED
    BY <1>1, <2>3, <2>4, <2>5, SameButAlarm
<1>6. ASSUME NEW k \in Key, WorkerGone(k) PROVE store' = store
  BY <1>6 DEF WorkerGone
<1>7. CASE UNCHANGED vars
  BY <1>1, <1>7, SameButAlarm DEF vars
<1>8. ~CreateMission /\ ~SubmitPlan /\ ~Resume
  BY DEF CreateMission, SubmitPlan, Resume
<1>9. ~DecideApproval
  BY DEF DecideApproval
<1>10. ASSUME NEW k \in Key
       PROVE  /\ \A delivered \in BOOLEAN : ~Claim(k, delivered)
              /\ ~Heartbeat(k) /\ ~Complete(k) /\ ~Fail(k) /\ ~LeaseExpires(k)
  BY <1>2 DEF Claim, Heartbeat, Complete, Fail, LeaseExpires
<1> QED
  BY <1>1, <1>4, <1>5, <1>6, <1>7, <1>8, <1>9, <1>10, SameButAlarm DEF Next

\* The invariant always holds.
LEMMA InvAlways == Spec => []Inv
BY InitGood, InvStep, PTL DEF Spec

-----------------------------------------------------------------------------
(***************************************************************************)
(* Theorems                                                                *)
(***************************************************************************)

\* The storage keeps its types, whatever handler is cut short and wherever.
THEOREM StoreTypes == Spec => []TypeOK
<1>1. Inv => TypeOK
  BY DEF Inv
<1> QED
  BY <1>1, InvAlways, PTL

\* The mission never waits for more than one job, and that job is what the
\* mission says it is doing (scheduleNext, complete, reconcile).
THEOREM OneThingOnly == Spec => []OneThingAtATime
<1>1. Inv => OneThingAtATime
  BY DEF Inv, Good, OneThing, OneThingAtATime
<1> QED
  BY <1>1, InvAlways, PTL

\* A mission that succeeded is done with evidence, task by task
\* (completionInvariantsPassed).
THEOREM SuccessIsEarned == Spec => []CompletionIsEarned
<1>1. Inv => CompletionIsEarned
  BY DEF Inv, Good, Earned, CompletionIsEarned
<1> QED
  BY <1>1, InvAlways, PTL

\* No gated task starts unapproved and no rejected task starts at all
\* (requiresApproval, decideApproval).
THEOREM DecisionsStand == Spec => []DecisionsHold
<1>1. Inv => DecisionsHold
  BY DEF Inv, Good, TaskIsSound, DecisionsHold
<1> QED
  BY <1>1, InvAlways, PTL

\* A task that must not be repeated is not, but where a person asked for it by
\* name (resume with replay).
THEOREM StartedOnce == Spec => []StartedOncePerDecision
<1>1. Inv => StartedOncePerDecision
  <2> SUFFICES ASSUME Inv, NEW t \in Task \ Idempotent
               PROVE  store.task[t].attempts <= 1 + replays[t]
    BY DEF StartedOncePerDecision
  <2>1. TaskIsSound(t, store.task[t], replays[t])
    BY DEF Inv, Good
  <2>2. store.task[t].attempts \in Nat /\ replays[t] \in Nat
    BY MissionStoreAssumption DEF Inv, TypeOK, Storage, TaskRecord
  <2> QED
    BY <2>1, <2>2 DEF TaskIsSound
<1> QED
  BY <1>1, InvAlways, PTL

\* Nothing that arrives after success changes the mission.
THEOREM SuccessIsFinal == Spec => SucceededIsFinal
<1>1. Inv /\ [Next]_vars =>
        [store.status = "succeeded" => store' = [store EXCEPT !.alarm = store'.alarm]]_vars
  BY SucceededStep
<1> QED
  BY <1>1, InvAlways, PTL DEF Spec, SucceededIsFinal
=============================================================================
