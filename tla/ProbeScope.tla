----------------------------- MODULE ProbeScope -----------------------------
(***************************************************************************)
(* The scoped probes of the Cloudflare coordinator while mission execution *)
(* is paused, as it is at this commit: everything but these is refused.    *)
(* A readonly pilot or a recovery probe is one mission with one task and a *)
(* window of time in which its own workers may claim and report its jobs.  *)
(* A presence probe (A3) lets workers say that they are there, nothing     *)
(* else.  Each can be started once, and closed.                            *)
(*                                                                         *)
(* As in MissionStore, a handler is the storage at its end and the         *)
(* storages a crash can leave behind.  Here the check of a worker's        *)
(* request comes before the handler has the object to itself, so it is an  *)
(* action of its own, and so is the alarm's look at what is active.  The   *)
(* newest job of each kind is kept, and the holder of its last lease.      *)
(*                                                                         *)
(* What a worker does between its claim and its report is outside of the   *)
(* coordinator, except that a recovery probe is about it: its workers      *)
(* count in a file of their own how often they have executed the task, and *)
(* report the number of their execution.                                   *)
(***************************************************************************)
EXTENDS Integers, FiniteSets

CONSTANTS
    Pilot,         \* probes of type readonly_git_status
    Recovery,      \* probes of type package3_write_recovery
    Presence,      \* A3 presence probes
    None,
    MaxStarts,     \* bound: probes that are started
    MaxLeases,     \* bound: leases granted on one job
    MaxExecutions, \* bound: executions of a recovery probe's task
    MaxRequests,   \* bound: requests of workers that wait at one time
    MaxCrashes     \* bound: handlers cut short

Probe == Pilot \cup Recovery

ASSUME ProbeAssumption ==
    /\ Pilot \cap Recovery = {}
    /\ Probe \cap Presence = {}
    /\ None \notin Probe \cup Presence
    /\ MaxStarts \in Nat
    /\ MaxLeases \in Nat
    /\ MaxExecutions \in Nat
    /\ MaxRequests \in Nat
    /\ MaxCrashes \in Nat

Kind == {"plan", "replan", "task", "verify"}

\* PACKAGE3_PROBE_ALLOWED_JOB_OPERATIONS
WorkerKind == {"task", "verify"}

MaxAttempts(p) == IF p \in Pilot THEN 1 ELSE 2

VARIABLES
    store,      \* the storage
    alarmed,    \* what the alarm that is running has found active, or None
    admitted,   \* requests of workers that were let in and wait for the object
    held,       \* leased jobs whose last lease is in the hands of a worker
    executions, \* of the task of each recovery probe, as its workers count them
    crashes

vars == <<store, alarmed, admitted, held, executions, crashes>>

Job == [status : {"absent", "queued", "leased", "completed", "failed", "cancelled"},
        leases : 0 .. MaxLeases, expired : BOOLEAN, passed : BOOLEAN]

\* A probe on record.  Its scope has "lapsed" when it is preparing or active and its
\* time is over.
ProbeRecord ==
    [scope : {"none", "preparing", "active", "lapsed", "failed", "closed"},
     known : BOOLEAN,        \* the scope names the mission
     reserved : BOOLEAN,     \* the idempotency record does
     allowed : SUBSET Kind,  \* the jobs that the scope lists
     mission : {"absent", "planning", "running", "waiting_human", "succeeded", "cancelled"},
     work : {"absent", "pending", "running", "waiting_human", "succeeded", "failed"},
     attempts : 0 .. 2,
     current : BOOLEAN,
     job : [Kind -> Job]]

Storage ==
    [alarm : BOOLEAN,
     probe : [Probe -> ProbeRecord],
     pilot : Pilot \cup {None},           \* package3:readonly-pilot:active-probe
     presence : [Presence -> {"none", "active", "lapsed", "closed"}],
     named : Presence \cup {None}]        \* mw2:a3:presence:active-probe

\* How many executions the workers' file has counted, which one of them is that of
\* the last lease's worker, 0 before he executes the task, and how many workers have
\* lost their lease to another one and may still execute.
ExecutionRecord == [count : Nat, attempt : Nat, late : Nat]

TypeOK ==
    /\ store \in Storage
    /\ alarmed \in Pilot \cup Presence \cup {None}
    /\ admitted \subseteq Probe \X (WorkerKind \cup {"claim"})
    /\ held \subseteq Probe \X WorkerKind
    /\ executions \in [Recovery -> ExecutionRecord]
    /\ crashes \in 0 .. MaxCrashes
    /\ \A p \in Probe : store.probe[p].attempts <= MaxAttempts(p)
    /\ \A p \in Recovery : executions[p].attempt <= executions[p].count

NoJob == [status |-> "absent", leases |-> 0, expired |-> FALSE, passed |-> FALSE]

Unused == [scope |-> "none", known |-> FALSE, reserved |-> FALSE, allowed |-> {},
           mission |-> "absent", work |-> "absent", attempts |-> 0, current |-> FALSE,
           job |-> [k \in Kind |-> NoJob]]

Init ==
    /\ store = [alarm |-> FALSE, probe |-> [p \in Probe |-> Unused], pilot |-> None,
                presence |-> [a \in Presence |-> "none"], named |-> None]
    /\ alarmed = None
    /\ admitted = {}
    /\ held = {}
    /\ executions = [p \in Recovery |-> [count |-> 0, attempt |-> 0, late |-> 0]]
    /\ crashes = 0

-----------------------------------------------------------------------------
(* Handlers: where they end, and where a crash can cut them. *)

Done(s) == [end |-> s, cuts |-> {}]
Then(s, h) == [end |-> h.end, cuts |-> h.cuts \cup {s}]         \* s is written, h goes on
Both(g, h) == [end |-> h.end, cuts |-> g.cuts \cup {g.end} \cup h.cuts]

\* What the handlers of a probe work on: its own records, the alarm, the pointer to
\* the pilot.
View(s, p) == [own |-> s.probe[p], alarm |-> s.alarm, pilot |-> s.pilot]
Put(s, p, w) == [s EXCEPT !.probe[p] = w.own, !.alarm = w.alarm, !.pilot = w.pilot]
Of(s, p, h) == [end |-> Put(s, p, h.end), cuts |-> {Put(s, p, w) : w \in h.cuts}]

\* h is handled to its end, or cut.  A crash forgets the requests that wait,
\* and an alarm that was cut is delivered again.
Handle(h, waiting, alarming, holding) ==
    /\ \/ /\ store' = h.end
          /\ admitted' = waiting
          /\ alarmed' = alarming
          /\ UNCHANGED crashes
       \/ /\ crashes < MaxCrashes
          /\ crashes' = crashes + 1
          /\ \E s \in h.cuts : store' = [s EXCEPT !.alarm = @ \/ alarmed # None]
          /\ admitted' = {}
          /\ alarmed' = None
    /\ held' = {j \in holding : store'.probe[j[1]].job[j[2]].status = "leased"}

Started(s) == {p \in Probe : s.probe[p].scope \in {"preparing", "active", "lapsed"}}
Open(s, p) == s.probe[p].scope = "active"

Active(w) == {k \in Kind : w.own.job[k].status \in {"queued", "leased"}}
Listed(w) == Active(w) \cap w.own.allowed

\* What the checks of a mission see of its jobs: a pilot's are read by the list.
Visible(w, p) == IF p \in Pilot THEN Listed(w) ELSE Active(w)

\* While paused, the alarm is set for a pilot only.
ScheduleAlarm(w, p) ==
    [w EXCEPT !.alarm = \/ @
                        \/ /\ p \in Pilot /\ w.own.scope = "active"
                           /\ \/ w.own.mission \in {"planning", "running"}
                              \/ Listed(w) \cap WorkerKind # {}]

\* createJob: the job is written, then the scope that lists it.
CreateJob(w, k) ==
    LET queued == [w EXCEPT !.own.job[k] = [NoJob EXCEPT !.status = "queued"],
                            !.own.allowed = @ \ {k}]
        listed == [queued EXCEPT !.own.allowed = @ \cup {k}, !.own.known = TRUE]
    IN  IF k \in Listed(w) THEN Done(w)
        ELSE Then(queued, Then(listed, Done([listed EXCEPT !.alarm = TRUE])))

-----------------------------------------------------------------------------
(* The mission of a probe: a task, then its verification. *)

Busy(w) == w.own.current /\ w.own.work \in {"running", "pending"}

StartTask(w) ==
    LET running == [w EXCEPT !.own.work = "running", !.own.attempts = @ + 1, !.own.current = TRUE]
    IN  Then(running, CreateJob(running, "task"))

GiveUp(w) == [w EXCEPT !.own.mission = "waiting_human", !.own.current = FALSE]

ScheduleNext(w) ==
    IF w.own.mission # "running" \/ Busy(w) THEN Done(w)
    ELSE IF w.own.work = "pending" THEN StartTask(w)
    ELSE IF w.own.work = "succeeded" THEN CreateJob(w, "verify")
    ELSE Done(GiveUp(w))

JobIs(w, k, status) ==
    [w EXCEPT !.own.job[k] = [@ EXCEPT !.status = status, !.expired = FALSE]]

JobFails(w, k) == [w EXCEPT !.own.job[k] = [NoJob EXCEPT !.status = "failed"]]

\* mutant: the task is tried once more than max_attempts
RetriesOnceMore(w, p, transient) == transient /\ w.own.attempts <= MaxAttempts(p)

Retries(w, p, transient) == transient /\ w.own.attempts < MaxAttempts(p)

\* Again, or a replan, for which no worker is let in.
HandleTaskFailure(w, p, transient) ==
    LET failed == JobFails(w, "task")
        again == [failed EXCEPT !.own.current = FALSE, !.own.work = "pending"]
        replan == [failed EXCEPT !.own.current = FALSE, !.own.work = "failed",
                                 !.own.mission = "planning"]
    IN  Then(failed, IF Retries(w, p, transient)
                     THEN Then(again, ScheduleNext(again))
                     ELSE Then(replan, CreateJob(replan, "replan")))

\* mutant: a first execution is accepted
EvidenceOfAny(p) == TRUE

\* The worker reports which execution his was, execution_attempt; a recovery probe
\* accepts the second only.  Whatever else the evidence must say, as that the
\* second found the artifact of the first, is in the result.
Recovered(p) == p \in Recovery => executions[p].attempt = 2

TaskSucceeded(w) == [w EXCEPT !.own.work = "succeeded", !.own.current = FALSE]

CompleteTask(w, p, result) ==
    LET done == [JobIs(w, "task", "completed") EXCEPT !.own.job["task"].passed = (result = "passed")]
        rejected == JobFails(done, "task")
    IN  Then(done, IF result \in {"transient", "permanent"}
                   THEN HandleTaskFailure(done, p, result = "transient")
                   ELSE IF result = "passed" /\ Recovered(p)
                   THEN Then(TaskSucceeded(done), ScheduleNext(TaskSucceeded(done)))
                   ELSE Then(rejected, Done(GiveUp(rejected))))

CompleteVerify(w, p, result) ==
    LET done == JobIs(w, "verify", "completed")
        proven == result = "passed" /\ w.own.work = "succeeded" /\ Visible(done, p) = {}
    IN  Then(done, Done([done EXCEPT !.own.mission = IF proven THEN "succeeded" ELSE "waiting_human"]))

-----------------------------------------------------------------------------
(* Closing and starting. *)

\* mutant: only the scope is asked for its mission
KnownByScope(w) == w.own.known

\* A start that was cut has left the mission's id in its idempotency record.
MissionKnown(w) == w.own.known \/ w.own.reserved

Cancelled(w, K) ==
    [w EXCEPT !.own.job = [k \in Kind |-> IF k \in K THEN [NoJob EXCEPT !.status = "cancelled"]
                                          ELSE @[k]]]

\* closePackage3Probe: jobs, pointer, mission, scope.
Close(w, p) ==
    LET doomed == IF MissionKnown(w) THEN Visible(w, p) ELSE {}
        unnamed == [Cancelled(w, doomed) EXCEPT !.pilot = IF @ = p THEN None ELSE @]
        ended == IF MissionKnown(w) /\ w.own.mission \in {"planning", "running", "waiting_human"}
                 THEN [unnamed EXCEPT !.own.mission = "cancelled", !.own.current = FALSE]
                 ELSE unnamed
    IN  [end |-> [ended EXCEPT !.own.scope = "closed", !.own.known = MissionKnown(w)],
         cuts |-> {Cancelled(w, K) : K \in SUBSET doomed} \cup {unnamed, ended}]

\* mutant: a scope that lapsed is left as it is
LeavesLapsed(s) == Done(s)

\* A scope that lapsed is closed before another one is opened.  There is one at most.
CloseLapsed(s) == IF Started(s) = {} THEN Done(s)
                  ELSE LET p == CHOOSE q \in Started(s) : TRUE IN Of(s, p, Close(View(s, p), p))

\* startPackage3Probe: the scope, the mission with its plan job, the window, the
\* fixed plan, which cancels the plan job, and the list of the one job there is.
Begin(w, p) ==
    LET preparing == [w EXCEPT !.own.scope = "preparing"]
        reserved == [preparing EXCEPT !.own.reserved = TRUE]
        created == [reserved EXCEPT !.own.mission = "planning"]
        planner == CreateJob(created, "plan")
        opened == [planner.end EXCEPT !.own.scope = "active"]
        named == [opened EXCEPT !.pilot = IF p \in Pilot THEN p ELSE @]
        unplanned == Cancelled(named, {"plan"})
        planned == [unplanned EXCEPT !.own.mission = "running", !.own.work = "pending"]
        task == ScheduleNext(planned)
        listed == [ScheduleAlarm(task.end, p) EXCEPT !.own.allowed = Listed(task.end) \cap WorkerKind]
    IN  Then(preparing, Then(reserved, Then(created, Both(planner,
          Then(opened, Then(named, Then(unplanned, Then(planned, Both(task, Done(listed))))))))))

\* A storage error after the scope was written: the scope in memory is marked as
\* failed and written.  It lists a job whose scope could not be written, and does
\* not list one whose scope could not even be read again.
Failed(w) == [w EXCEPT !.own.scope = "failed"]
FailedListing(w) == [Failed(w) EXCEPT !.own.allowed = @ \cup Active(w),
                                      !.own.known = @ \/ Active(w) # {}]
Failures(w, p) == UNION {{Failed(v), FailedListing(v)} : v \in Begin(w, p).cuts}

\* package3_probe_already_active
AllLapsed(s) == \A p \in Started(s) : s.probe[p].scope = "lapsed"

Starts == Cardinality({p \in Probe : store.probe[p].scope # "none"})
          + Cardinality({a \in Presence : store.presence[a] # "none"})

StartProbe(p) ==
    /\ store.probe[p].scope = "none"
    /\ Starts < MaxStarts
    /\ store.named # None => store.presence[store.named] # "active"
    /\ AllLapsed(store)
    /\ LET cleared == CloseLapsed(store)
           s == cleared.end
       IN  \/ Handle(Both(cleared, Of(s, p, Begin(View(s, p), p))), admitted, alarmed, held)
           \/ \E w \in Failures(View(s, p), p) : Handle(Done(Put(s, p, w)), admitted, alarmed, held)
    /\ UNCHANGED executions

CloseProbe(p) ==
    /\ store.probe[p].scope \notin {"none", "closed"}
    /\ Handle(Of(store, p, Close(View(store, p), p)), admitted, alarmed, held)
    /\ UNCHANGED executions

-----------------------------------------------------------------------------
(* Presence probes. *)

\* The scope, then the pointer to it, if it is this one.
ClosePresence(s, a) ==
    LET c == [s EXCEPT !.presence[a] = "closed"]
    IN  Then(c, Done([c EXCEPT !.named = IF @ = a THEN None ELSE @]))

StartPresence(a) ==
    LET b == store.named
        lapsed == IF b # None /\ store.presence[b] = "lapsed"
                  THEN [store EXCEPT !.presence[b] = "closed"] ELSE store
        unnamed == [lapsed EXCEPT !.named = None]
        scoped == [unnamed EXCEPT !.presence[a] = "active"]
        marked == [scoped EXCEPT !.named = a]
    IN
    /\ store.presence[a] = "none"
    /\ Starts < MaxStarts
    /\ \A p \in Probe : ~Open(store, p)
    /\ b # None => store.presence[b] # "active"
    /\ Handle(Then(lapsed, Then(unnamed, Then(scoped, Then(marked, Done([marked EXCEPT !.alarm = TRUE]))))),
              admitted, alarmed, held)
    /\ UNCHANGED executions

EndPresence(a) ==
    /\ store.presence[a] \in {"active", "lapsed"}
    /\ Handle(ClosePresence(store, a), admitted, alarmed, held)
    /\ UNCHANGED executions

-----------------------------------------------------------------------------
(* Workers. *)

\* resolvePackage3ProbeWorkerScope, before the handler waits for the object.
Admit(p, k) ==
    /\ Open(store, p)
    /\ k # "claim" => k \in store.probe[p].allowed /\ <<p, k>> \in held
    /\ Cardinality(admitted) < MaxRequests
    /\ admitted' = admitted \cup {<<p, k>>}
    /\ UNCHANGED <<store, alarmed, held, executions, crashes>>

\* mutant: what was let in once is not asked again
StillAdmitted(s, p) == TRUE

\* exclusive() with probeScope
Admits(s, p) == Open(s, p)

\* The request r has the object to itself; it does h, or is refused.
Serve(p, r, h, holding) ==
    /\ <<p, r>> \in admitted
    /\ Admits(store, p)
    /\ Handle(Of(store, p, Both(h, Done(ScheduleAlarm(h.end, p)))), admitted \ {<<p, r>>},
              alarmed, holding)

\* The window is closed by now, the lease is another one, or there is nothing to claim.
Refuse(p, r) ==
    /\ <<p, r>> \in admitted
    /\ r = "claim" \/ ~Admits(store, p) \/ <<p, r>> \notin held
    /\ admitted' = admitted \ {<<p, r>>}
    /\ UNCHANGED <<store, alarmed, held, executions, crashes>>

\* The worker of the last lease of the task has not executed it.
Unexecuted(p) == store.probe[p].job["task"].leases > 0 /\ executions[p].attempt = 0

Claim(p, k) ==
    LET w == View(store, p)
        job == w.own.job[k]
    IN  /\ k \in w.own.allowed
        /\ job.status = "queued" \/ (job.status = "leased" /\ job.expired)
        /\ job.leases < MaxLeases
        /\ Serve(p, "claim",
                 Done([w EXCEPT !.own.job[k] = [job EXCEPT !.status = "leased", !.leases = @ + 1,
                                                           !.expired = FALSE]]),
                 held \cup {<<p, k>>})
        /\ executions' = IF k = "task" /\ p \in Recovery
                         THEN [executions EXCEPT ![p].attempt = 0,
                                                 ![p].late = IF Unexecuted(p) THEN @ + 1 ELSE @]
                         ELSE executions

Heartbeat(p, k) ==
    LET w == View(store, p)
    IN  /\ <<p, k>> \in held
        /\ Serve(p, k, Done([w EXCEPT !.own.job[k].expired = FALSE, !.alarm = TRUE]), held)
        /\ UNCHANGED executions

Complete(p, k) ==
    LET w == View(store, p)
    IN  /\ <<p, k>> \in held
        /\ \E result \in {"passed", "unproven", "transient", "permanent"} :
              /\ result = "passed" /\ k = "task" /\ p \in Recovery => executions[p].attempt > 0
              /\ Serve(p, k, IF k = "task" THEN CompleteTask(w, p, result)
                             ELSE CompleteVerify(w, p, result), held)
        /\ UNCHANGED executions

Fail(p, k) ==
    LET failed == JobFails(View(store, p), k)
    IN  /\ <<p, k>> \in held
        /\ \E transient \in BOOLEAN :
              Serve(p, k, Then(failed, IF k = "task" THEN HandleTaskFailure(failed, p, transient)
                                       ELSE Done(GiveUp(failed))), held)
        /\ UNCHANGED executions

\* executeTask of the adapter that the probe's workers run.  The count is in a file
\* they share, whatever lease or job they have; each of them executes the task once
\* for each time it was given to him, whether or not the coordinator still hears of
\* him.  When the task or the window is over nobody asks for the count any more.
Execute(p) ==
    /\ p \in Recovery
    /\ Open(store, p)
    /\ Busy(View(store, p))
    /\ executions[p].count < MaxExecutions
    /\ \/ /\ Unexecuted(p)
          /\ executions' = [executions EXCEPT ![p].count = @ + 1,
                                              ![p].attempt = executions[p].count + 1]
       \/ /\ executions[p].late > 0
          /\ executions' = [executions EXCEPT ![p].count = @ + 1, ![p].late = @ - 1]
    /\ UNCHANGED <<store, alarmed, admitted, held, crashes>>

\* Nothing more is heard of the worker, or the reply to its claim is lost.
WorkerGone(p, k) ==
    /\ <<p, k>> \in held
    /\ held' = held \ {<<p, k>>}
    /\ UNCHANGED <<store, alarmed, admitted, executions, crashes>>

-----------------------------------------------------------------------------
(* The alarm. *)

\* mutant: only leases are looked at
ReconcileNoTask(w, p) == Done(w)

\* The pilot's task has no listed job that is active: the listed one tells what happened.
ReconcileTask(w, p) ==
    LET job == w.own.job["task"]
        listed == "task" \in w.own.allowed
        lost == [w EXCEPT !.own.work = "waiting_human", !.own.current = FALSE]
    IN  IF w.own.mission # "running" \/ ~Busy(w) \/ "task" \in Listed(w) THEN Done(w)
        ELSE IF listed /\ job.status = "completed" /\ job.passed THEN Done(TaskSucceeded(w))
        ELSE IF listed /\ job.status \in {"completed", "failed"} THEN HandleTaskFailure(w, p, FALSE)
        ELSE Done(lost)

Requeue(w, k) ==
    IF k \in Listed(w) /\ w.own.job[k].expired THEN JobIs(w, k, "queued") ELSE w

Reconcile(w, p) ==
    LET t == Requeue(w, "task")
        q == Requeue(t, "verify")
        r == ReconcileTask(q, p)
    IN  Then(t, Then(q, Both(r, ScheduleNext(r.end))))

\* alarm(): it looks at the pointers, a presence probe's first, ...
AlarmFires ==
    /\ store.alarm
    /\ alarmed = None
    /\ store' = [store EXCEPT !.alarm = FALSE]
    /\ alarmed' = IF store.named # None THEN store.named
                  ELSE IF store.pilot # None /\ store.probe[store.pilot].scope \in {"active", "lapsed"}
                  THEN store.pilot ELSE None
    /\ UNCHANGED <<admitted, held, executions, crashes>>

\* mutant: a presence probe that lapsed is only noted
NeverLapses(s, a) == FALSE

Lapsed(s, a) == s.presence[a] = "lapsed"

\* ... and has the object to itself later.
AlarmPresence ==
    /\ alarmed \in Presence
    /\ Handle(IF store.presence[alarmed] \notin {"active", "lapsed"} THEN Done(store)
              ELSE IF Lapsed(store, alarmed) THEN ClosePresence(store, alarmed)
              ELSE Done([store EXCEPT !.alarm = TRUE]), admitted, None, held)
    /\ UNCHANGED executions

AlarmPilot ==
    LET h == Reconcile(View(store, alarmed), alarmed)
    IN
    /\ alarmed \in Pilot
    /\ Handle(IF Admits(store, alarmed)
              THEN Of(store, alarmed, Both(h, Done(ScheduleAlarm(h.end, alarmed))))
              ELSE Done(store), admitted, None, held)
    /\ UNCHANGED executions

-----------------------------------------------------------------------------
(* Time. *)

ScopeExpires(p) ==
    /\ store.probe[p].scope \in {"preparing", "active"}
    /\ store' = [store EXCEPT !.probe[p].scope = "lapsed"]
    /\ UNCHANGED <<alarmed, admitted, held, executions, crashes>>

PresenceExpires(a) ==
    /\ store.presence[a] = "active"
    /\ store' = [store EXCEPT !.presence[a] = "lapsed"]
    /\ UNCHANGED <<alarmed, admitted, held, executions, crashes>>

LeaseExpires(p, k) ==
    /\ store.probe[p].job[k].status = "leased"
    /\ ~store.probe[p].job[k].expired
    /\ store' = [store EXCEPT !.probe[p].job[k].expired = TRUE]
    /\ UNCHANGED <<alarmed, admitted, held, executions, crashes>>

ProbeStep(p) == StartProbe(p) \/ CloseProbe(p) \/ ScopeExpires(p)

WorkerStep(p) ==
    \/ \E r \in WorkerKind \cup {"claim"} : Admit(p, r) \/ Refuse(p, r)
    \/ \E k \in WorkerKind : \/ Claim(p, k) \/ Heartbeat(p, k) \/ Complete(p, k) \/ Fail(p, k)
                             \/ WorkerGone(p, k) \/ LeaseExpires(p, k)
    \/ Execute(p)

PresenceStep(a) == StartPresence(a) \/ EndPresence(a) \/ PresenceExpires(a)

Next ==
    \/ \E p \in Probe : ProbeStep(p) \/ WorkerStep(p)
    \/ \E a \in Presence : PresenceStep(a)
    \/ AlarmFires \/ AlarmPresence \/ AlarmPilot

Spec == Init /\ [][Next]_vars

\* An alarm that runs has come to its end, or a crash has ended it.
AlarmEnds == alarmed # None /\ alarmed' = None

\* The platform delivers an alarm that is set and runs what it started; time passes.
Fairness ==
    /\ WF_vars(AlarmFires)
    /\ WF_alarmed(AlarmEnds)
    /\ \A a \in Presence : WF_vars(PresenceExpires(a))

FairSpec == Spec /\ Fairness

-----------------------------------------------------------------------------
(* Properties. *)

\* "A single exact-scope Package 3 probe may run while every general mutation
\* stays frozen": wherever a start or a close was cut, one probe at most is
\* started and not closed, and none has its window open while the presence
\* probe that the pointer names is watching.
OneWindow ==
    /\ Cardinality(Started(store)) <= 1
    /\ \A p \in Probe : Open(store, p) /\ store.named # None => store.presence[store.named] # "active"

\* A closed probe leaves nothing behind that could go on: no mission, even if
\* its start was cut before the scope knew of it, no job a worker could be
\* given, no pointer for the alarm.
ClosedIsOver ==
    \A p \in Probe : store.probe[p].scope = "closed" =>
        /\ store.probe[p].mission \in {"absent", "succeeded", "cancelled"}
        /\ Visible(View(store, p), p) = {}
        /\ store.pilot # p

\* Outside of its window a probe's mission and jobs are cancelled or left alone,
\* whatever was let in before the window closed: requests are checked, then wait,
\* and the window may lapse or be closed, by a person or by the next start, in
\* between.
NothingAfterTheWindow ==
    [][\A p \in Probe :
        LET x == store.probe[p]
            y == store'.probe[p]
        IN  x.scope \notin {"none", "active"} =>
                /\ y.mission \in {x.mission, "cancelled"}
                /\ y.work = x.work /\ y.attempts = x.attempts
                /\ \A k \in Kind : y.job[k].status \in {x.job[k].status, "cancelled"}]_vars

\* A recovery probe succeeds on what it is for: a task whose first execution came to
\* nothing and that was executed again, under another lease or as a retry's new
\* job, whatever leases were lost before and between; then verified, with nothing
\* open.
SuccessIsRecovery ==
    \A p \in Probe : store.probe[p].mission = "succeeded" =>
        /\ store.probe[p].work = "succeeded"
        /\ store.probe[p].job["task"].status = "completed"
        /\ p \in Recovery => executions[p].count >= 2
        /\ Visible(View(store, p), p) = {}

\* tests/mission-wonder-2-step3-a3-presence.test.mjs:159: "TTL expiry closes and
\* revokes a scope even if no operator sends close", once the alarm was set for it.
PresenceIsClosed ==
    \A a \in Presence :
        store.alarm /\ store.named = a /\ store.presence[a] \in {"active", "lapsed"}
            ~> store.presence[a] = "closed"

Stuck(p) == /\ Open(store, p)
            /\ store.probe[p].mission = "running"
            /\ Listed(View(store, p)) = {}

\* A pilot that waits for a job nobody can be given, because a handler was cut
\* before it created or listed the job, is repaired by the alarm or handed to a
\* person, while its window is open, the pointer names it and no presence probe
\* stands in the alarm's way.
PilotIsRepaired ==
    \A p \in Pilot :
        (Stuck(p) /\ store.pilot = p /\ store.named = None /\ store.alarm /\ alarmed = None)
            ~> ~Stuck(p)

=============================================================================
