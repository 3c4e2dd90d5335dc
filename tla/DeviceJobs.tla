------------------------------ MODULE DeviceJobs ------------------------------
(***************************************************************************)
(* Device jobs of a mission.  The mission runner turns a step into a job   *)
(* row that a device's agent claims, starts, executes and completes, and   *)
(* parks the mission meanwhile.  A fence in the database keeps a job alive *)
(* only while its mission authorizes it.  The module follows one mission:  *)
(* the mission's row, the runner invocations that hold or held its lease,  *)
(* the rows of execution_jobs and the Windows agents.                      *)
(*                                                                         *)
(* The steps are the numbers of Step and become ready in that order.  The  *)
(* id of a job is made of the mission, the step and the attempt, so a job  *)
(* is the pair of the last two.  Time is left out: a lease that is held    *)
(* may run out at any moment.  The kill switch MISSION_EXECUTION_PAUSED is *)
(* off and the one-shot scopes A4, A5 and A6 are absent.                   *)
(***************************************************************************)
EXTENDS Integers, FiniteSets

CONSTANTS
    Step,           \* the steps of a plan
    BatchSize,      \* 2 when steps are read-only model steps, else 1
    RetryLimit,     \* max_attempts of a step
    Attempts,       \* bound: attempts begun under one plan
    MaxPlan,        \* bound: how often the mission is planned
    Runner,         \* invocations of the runner
    Worker, V,      \* isolates of the edge function; the one of an invocation
    Device,
    None

ASSUME JobsAssumption ==
    /\ Step \subseteq Nat
    /\ IsFiniteSet(Step)
    /\ BatchSize \in {1, 2}
    /\ Attempts \in Nat \ {0}
    /\ RetryLimit \in Nat
    /\ MaxPlan \in Nat \ {0}
    /\ V \in [Runner -> Worker]
    /\ None \notin Worker \cup Device \cup (Step \X Nat)

VARIABLES
    mission,    \* the mission's row of mission_state
    runner,     \* what each invocation has in memory
    job,        \* execution_jobs
    agent,      \* what the agent of each device does
    online      \* device_registry: the devices with status online

vars == <<mission, runner, job, agent, online>>

Job == Step \X (1 .. Attempts)

Active == {"queued", "claimed", "running"}
Terminal == {"succeeded", "failed", "timeout", "cancelled", "blocked"}
Reported == {"succeeded", "failed", "timeout", "cancelled"}

(***************************************************************************)
(* pending[s] is the attempt whose job the mission waits for, attempts[s]  *)
(* the attempts begun under the present plan; 0 is none.  A step of a      *)
(* runner's batch is untouched, has its attempt recorded, has its job      *)
(* enqueued or found, and then waits, passed or failed.                    *)
(***************************************************************************)
Counts == [Step -> 0 .. Attempts]
Outcomes == {"none", "begun", "sent", "waiting", "passed", "failed"}

MissionRecord ==
    [status : {"queued", "running", "waiting", "paused", "failed", "ended"},
     recovery : {"none", "async"}, owner : Worker \cup {None},
     plan : 1 .. MaxPlan, pending : Counts, attempts : Counts,
     completed : SUBSET Step]

RunnerRecord ==
    [on : BOOLEAN, plan : 1 .. MaxPlan, pending : Counts, attempts : Counts,
     completed : SUBSET Step, outcome : [Step -> Outcomes]]

\* begun and plan are history: how often a device began to execute the job,
\* and the plan it was enqueued for.
JobRecord ==
    [status : {"absent"} \cup Active \cup Terminal, device : Device \cup {None},
     expired : BOOLEAN, plan : 0 .. MaxPlan, begun : Nat]

AgentRecord ==
    [phase : {"idle", "claimed", "started", "executing", "finished"},
     job : Job \cup {None}, result : Reported \cup {None}]

TypeOK ==
    /\ mission \in MissionRecord
    /\ runner \in [Runner -> RunnerRecord]
    /\ job \in [Job -> JobRecord]
    /\ agent \in [Device -> AgentRecord]
    /\ online \subseteq Device

Zero == [s \in Step |-> 0]
Untouched == [s \in Step |-> "none"]
Off == [on |-> FALSE, plan |-> 1, pending |-> Zero, attempts |-> Zero,
        completed |-> {}, outcome |-> Untouched]
Idle == [phase |-> "idle", job |-> None, result |-> None]

Init ==
    /\ mission = [status |-> "queued", recovery |-> "none", owner |-> None,
                  plan |-> 1, pending |-> Zero, attempts |-> Zero,
                  completed |-> {}]
    /\ runner = [r \in Runner |-> Off]
    /\ job = [j \in Job |-> [status |-> "absent", device |-> None,
                             expired |-> FALSE, plan |-> 0, begun |-> 0]]
    /\ agent = [d \in Device |-> Idle]
    /\ online = Device

-----------------------------------------------------------------------------
(***************************************************************************)
(* The authorization of a job and the fence                                *)
(***************************************************************************)

\* mission_job_authorization_allowed
Authorized(m, j) ==
    \/ m.status = "running"
    \/ /\ m.status \in {"paused", "waiting"}
       /\ m.recovery = "async"
       /\ m.pending[j[1]] = j[2]

Over(row, status) == [row EXCEPT !.status = status, !.expired = FALSE]

\* cancel_unauthorized_pending_jobs
Revoked(row) == Over(row, IF row.status = "queued" THEN "blocked" ELSE "cancelled")

\* mutant: the fence lets jobs run on that have started
FencedBeforeStart(rows, m) ==
    [j \in Job |-> IF rows[j].status \in {"queued", "claimed"} /\ ~Authorized(m, j)
                   THEN Revoked(rows[j]) ELSE rows[j]]

\* enforce_mission_job_authorization_fence: what becomes of the rows when the
\* mission's row becomes m.
Fenced(rows, m) ==
    [j \in Job |-> IF rows[j].status \in Active /\ ~Authorized(m, j)
                   THEN Revoked(rows[j]) ELSE rows[j]]

\* An update of the mission's row after the rows of the jobs have become rows;
\* the trigger fires only when the status changes.
Update(rows, m) ==
    /\ mission' = m
    /\ job' = IF m.status # mission.status THEN Fenced(rows, m) ELSE rows

SetMission(m) == Update(job, m)

-----------------------------------------------------------------------------
(***************************************************************************)
(* The runner                                                              *)
(***************************************************************************)

\* readyBatch: the first steps that are not completed.
Batch(r) ==
    LET todo == Step \ runner[r].completed
    IN  {s \in todo : Cardinality({t \in todo : t < s}) < BatchSize}

Settled(r) ==
    /\ runner[r].on
    /\ \A s \in Batch(r) : runner[r].outcome[s] \in {"waiting", "passed", "failed"}

With(r, outcome) == \E s \in Batch(r) : runner[r].outcome[s] = outcome

Completed(r) ==
    runner[r].completed \cup {s \in Batch(r) : runner[r].outcome[s] = "passed"}

\* aria_mission_update_lease with the checkpoint of the batch; it finds the
\* row only while r holds the lease.
Save(r, status, recovery, owner) ==
    /\ mission.owner = V[r]
    /\ SetMission([mission EXCEPT
            !.status = status, !.recovery = recovery, !.owner = owner,
            !.pending = runner[r].pending, !.attempts = runner[r].attempts,
            !.completed = Completed(r)])

SwitchOff(r) == runner' = [runner EXCEPT ![r] = Off]

\* aria_mission_claim_by_id_lease.  A mission that waits for a device job is
\* not claimable; one whose lease is held by this invocation's own isolate is.
\* The batch starts from the checkpoint of the row.
Take(r) ==
    /\ ~runner[r].on
    /\ \/ /\ mission.owner = None
          /\ mission.status \in {"queued", "running", "paused", "failed"}
       \/ /\ mission.owner = V[r]
          /\ mission.status \in {"running", "paused"}
    /\ SetMission([mission EXCEPT !.status = "running", !.owner = V[r]])
    /\ runner' = [runner EXCEPT ![r] =
            [on |-> TRUE, plan |-> mission.plan, pending |-> mission.pending,
             attempts |-> mission.attempts, completed |-> mission.completed,
             outcome |-> Untouched]]
    /\ UNCHANGED <<agent, online>>

\* mutant: a job that ended without success counts as well
OutcomeOfAny(status) == {"passed", "failed"}

\* What succeeded may still fail the step's verification.
Outcome(status) ==
    IF status = "succeeded" THEN {"passed", "failed"} ELSE {"failed"}

\* A step whose job is pending: the job is read, and its result taken when
\* it is terminal.
Reconcile(r) ==
    \E s \in Batch(r) :
      LET a == runner[r].pending[s]
      IN  /\ runner[r].on
          /\ runner[r].outcome[s] = "none"
          /\ a # 0
          /\ \/ /\ job[<<s, a>>].status \in Terminal
                /\ \E o \in Outcome(job[<<s, a>>].status) :
                     runner' = [runner EXCEPT ![r] = [@ EXCEPT !.outcome[s] = o,
                                    !.pending[s] = 0, !.attempts[s] = a]]
             \/ /\ job[<<s, a>>].status \in Active
                /\ runner' = [runner EXCEPT ![r] = [@ EXCEPT !.outcome[s] = "waiting"]]
          /\ UNCHANGED <<mission, job, agent, online>>

\* A new attempt is recorded in the row before the step is executed.
Begin(r) ==
    \E s \in Batch(r) :
      LET a == runner[r].attempts[s] + 1
      IN  /\ runner[r].on
          /\ mission.owner = V[r]
          /\ runner[r].outcome[s] = "none"
          /\ runner[r].pending[s] = 0
          /\ a \in 1 .. Attempts
          /\ runner' = [runner EXCEPT ![r] = [@ EXCEPT !.outcome[s] = "begun",
                                                       !.attempts[s] = a]]
          /\ mission' = [mission EXCEPT !.attempts = runner'[r].attempts]
          /\ UNCHANGED <<job, agent, online>>

\* deviceExecute up to enqueue_execution_job_gateway: a row with the job's id
\* is left as it is; a new one is made only while the mission runs, for a
\* device that is online.  The gateway does not ask who holds the lease.
Enqueue(r) ==
    \E s \in Batch(r) :
      LET j == <<s, runner[r].attempts[s]>>
          Sent == runner' = [runner EXCEPT ![r] = [@ EXCEPT !.outcome[s] = "sent"]]
      IN  /\ runner[r].on
          /\ runner[r].outcome[s] = "begun"
          /\ \/ job[j].status # "absent" /\ Sent /\ UNCHANGED job
             \/ /\ job[j].status = "absent"
                /\ mission.status = "running"
                /\ \E d \in online :
                     job' = [job EXCEPT ![j] = [@ EXCEPT !.status = "queued",
                                          !.device = d, !.plan = runner[r].plan]]
                /\ Sent
             \/ /\ job[j].status = "absent"
                /\ mission.status # "running" \/ online = {}
                /\ runner' = [runner EXCEPT ![r] = [@ EXCEPT !.outcome[s] = "failed"]]
                /\ UNCHANGED job
          /\ UNCHANGED <<mission, agent, online>>

\* deviceExecute reads the row back: a terminal one is the step's result.
Look(r) ==
    \E s \in Batch(r) :
      LET a == runner[r].attempts[s]
      IN  /\ runner[r].on
          /\ runner[r].outcome[s] = "sent"
          /\ \/ /\ job[<<s, a>>].status \in Terminal
                /\ \E o \in Outcome(job[<<s, a>>].status) :
                     runner' = [runner EXCEPT ![r] = [@ EXCEPT !.outcome[s] = o]]
             \/ /\ job[<<s, a>>].status \in Active
                /\ runner' = [runner EXCEPT ![r] = [@ EXCEPT !.outcome[s] = "waiting",
                                                            !.pending[s] = a]]
          /\ UNCHANGED <<mission, job, agent, online>>

\* Some step waits: the mission is parked with the jobs it waits for.
Park(r) ==
    /\ Settled(r)
    /\ With(r, "waiting")
    /\ Save(r, "waiting", "async", None)
    /\ SwitchOff(r)
    /\ UNCHANGED <<agent, online>>

\* A failed step has attempts left: the lease is given back for the retry.
Retry(r) ==
    /\ Settled(r)
    /\ ~With(r, "waiting")
    /\ \E s \in Batch(r) : /\ runner[r].outcome[s] = "failed"
                           /\ runner[r].attempts[s] < RetryLimit
    /\ Save(r, "running", "none", None)
    /\ SwitchOff(r)
    /\ UNCHANGED <<agent, online>>

\* The plan is discarded: what is completed is kept, everything else forgotten.
Replan(r) ==
    /\ Settled(r)
    /\ ~With(r, "waiting")
    /\ With(r, "failed")
    /\ mission.owner = V[r]
    /\ mission.plan < MaxPlan
    /\ SetMission([mission EXCEPT
            !.status = "queued", !.recovery = "none", !.owner = None,
            !.plan = @ + 1, !.pending = Zero, !.completed = Completed(r),
            !.attempts = [s \in Step |-> IF s \in Completed(r)
                                         THEN runner[r].attempts[s] ELSE 0]])
    /\ SwitchOff(r)
    /\ UNCHANGED <<agent, online>>

\* A failure that no retry can help: a human gate, all routes exhausted, or the
\* same strategy for the fifth time.
GiveUp(r) ==
    /\ Settled(r)
    /\ ~With(r, "waiting")
    /\ With(r, "failed")
    /\ \E status \in {"paused", "failed", "ended"} : Save(r, status, "none", None)
    /\ SwitchOff(r)
    /\ UNCHANGED <<agent, online>>

\* The batch passed: the lease is given back for the next one, or the mission
\* is finalized.
Continue(r) ==
    /\ Settled(r)
    /\ \A s \in Batch(r) : runner[r].outcome[s] = "passed"
    /\ Save(r, IF Completed(r) = Step THEN "ended" ELSE "running", "none", None)
    /\ SwitchOff(r)
    /\ UNCHANGED <<agent, online>>

\* The exception path writes no checkpoint.
Throw(r) ==
    /\ runner[r].on
    /\ mission.owner = V[r]
    /\ \E status \in {"paused", "ended"} :
         SetMission([mission EXCEPT !.status = status, !.owner = None])
    /\ SwitchOff(r)
    /\ UNCHANGED <<agent, online>>

\* The invocation is cut off, or finds that it has lost the lease.
Cut(r) ==
    /\ runner[r].on
    /\ SwitchOff(r)
    /\ UNCHANGED <<mission, job, agent, online>>

\* Fifteen minutes pass without a renewal.
MissionLeaseExpires ==
    /\ mission.owner # None
    /\ mission' = [mission EXCEPT !.owner = None]
    /\ UNCHANGED <<runner, job, agent, online>>

\* recover_stale_missions_heavy_v1: a row not updated for two minutes is queued
\* as it is, whoever holds its lease; a mission that failed, was recovered three
\* times or has a duplicate loses its plan and all its progress.
RecoverStale ==
    /\ \/ /\ mission.status \in {"running", "paused"}
          /\ SetMission([mission EXCEPT !.status = "queued", !.owner = None])
       \/ /\ mission.status \in {"running", "paused", "failed"}
          /\ mission.plan < MaxPlan
          /\ \E status \in {"failed"} \cup
                (IF mission.status = "failed" THEN {"queued"} ELSE {}) :
               SetMission([mission EXCEPT
                  !.status = status, !.owner = None, !.plan = @ + 1,
                  !.pending = Zero, !.attempts = Zero, !.completed = {}])
    /\ UNCHANGED <<runner, agent, online>>

\* mission_human_gate_decide: approved, or rejected or cancelled.
Decide ==
    /\ mission.status = "paused"
    /\ \E status \in {"queued", "ended"} :
         SetMission([mission EXCEPT !.status = status, !.owner = None])
    /\ UNCHANGED <<runner, agent, online>>

-----------------------------------------------------------------------------
(***************************************************************************)
(* Claims, leases and the watchdog                                         *)
(***************************************************************************)

\* mutant: only claims that ran out are recovered
SweptClaims(row) ==
    IF row.status = "claimed" /\ row.expired THEN Over(row, "queued") ELSE row

\* mutant: a running job whose lease ran out is handed out again
SweptAll(row) ==
    IF row.status \in {"claimed", "running"} /\ row.expired
    THEN Over(row, "queued") ELSE row

\* A claim that ran out before the start is queued again, a running job whose
\* lease ran out has timed out.
Swept(row) ==
    CASE row.status = "claimed" /\ row.expired -> Over(row, "queued")
      [] row.status = "running" /\ row.expired -> Over(row, "timeout")
      [] OTHER -> row

Sweep == [j \in Job |-> Swept(job[j])]

\* A queued job goes to the device it names, or to any other when that one is
\* not online.
Claimable(row, d) ==
    row.status = "queued" /\ (row.device = d \/ row.device \notin online)

\* claim_execution_job_gateway: the sweep, the claim, the first check of the
\* authorization; the reply may be lost.
Claim(d) ==
    /\ agent[d].phase = "idle"
    /\ d \in online
    /\ \E j \in Job :
         /\ Claimable(Sweep[j], d)
         /\ IF Authorized(mission, j)
            THEN /\ job' = [Sweep EXCEPT ![j].status = "claimed", ![j].device = d]
                 /\ \E reply \in {[Idle EXCEPT !.phase = "claimed", !.job = j], Idle} :
                      agent' = [agent EXCEPT ![d] = reply]
            ELSE /\ job' = [Sweep EXCEPT ![j] = Over(@, "cancelled")]
                 /\ UNCHANGED agent
    /\ UNCHANGED <<mission, runner, online>>

JobLeaseExpires(j) ==
    /\ job[j].status \in {"claimed", "running"}
    /\ ~job[j].expired
    /\ job' = [job EXCEPT ![j].expired = TRUE]
    /\ UNCHANGED <<mission, runner, agent, online>>

\* execution_jobs_watchdog
Watchdog ==
    /\ Sweep # job
    /\ job' = Sweep
    /\ UNCHANGED <<mission, runner, agent, online>>

\* A heartbeat arrives, or none has for too long.
Heartbeat(d) ==
    /\ online' = IF d \in online THEN online \ {d} ELSE online \cup {d}
    /\ UNCHANGED <<mission, runner, job, agent>>

-----------------------------------------------------------------------------
(***************************************************************************)
(* The agent of a device                                                   *)
(***************************************************************************)

OwnRow(d, status) == LET row == job[agent[d].job]
                     IN  row.device = d /\ row.status \in status

\* start_execution_job_gateway: only a claimed row of this device starts, and
\* only with the mission's authorization.  The reply may be lost.
Start(d) ==
    /\ agent[d].phase = "claimed"
    /\ LET j == agent[d].job
           ok == OwnRow(d, {"claimed"}) /\ Authorized(mission, j)
       IN  /\ job' = IF OwnRow(d, {"claimed"})
                     THEN [job EXCEPT ![j] = IF ok THEN [@ EXCEPT !.status = "running"]
                                             ELSE Over(@, "cancelled")]
                     ELSE job
           /\ \E next \in {Idle} \cup
                          (IF ok THEN {[agent[d] EXCEPT !.phase = "started"]} ELSE {}) :
                agent' = [agent EXCEPT ![d] = next]
    /\ UNCHANGED <<mission, runner, online>>

\* rejectClaimedJob: an unsupported payload is reported without a start.
Reject(d) ==
    /\ agent[d].phase = "claimed"
    /\ agent' = [agent EXCEPT ![d].phase = "finished", ![d].result = "failed"]
    /\ UNCHANGED <<mission, runner, job, online>>

\* execution_job_authorization_status_gateway; it also revokes.
StatusRead(d) ==
    LET j == agent[d].job
    IN  job' = IF OwnRow(d, Active) /\ ~Authorized(mission, j)
               THEN [job EXCEPT ![j] = Revoked(@)] ELSE job

MayRun(d) == OwnRow(d, {"running"}) /\ Authorized(mission, agent[d].job)

\* startJobAuthorizationMonitor: one check before the execution begins; a
\* check that fails for any reason aborts it.
Monitor(d) ==
    /\ agent[d].phase = "started"
    /\ \/ /\ MayRun(d)
          /\ agent' = [agent EXCEPT ![d].phase = "executing"]
          /\ job' = [job EXCEPT ![agent[d].job].begun = @ + 1]
       \/ /\ agent' = [agent EXCEPT ![d].phase = "finished", ![d].result = "cancelled"]
          /\ StatusRead(d)
    /\ UNCHANGED <<mission, runner, online>>

\* A check during the execution that finds it revoked, or is not answered.
Abort(d) ==
    /\ agent[d].phase = "executing"
    /\ agent' = [agent EXCEPT ![d].phase = "finished", ![d].result = "cancelled"]
    /\ StatusRead(d)
    /\ UNCHANGED <<mission, runner, online>>

Execute(d) ==
    /\ agent[d].phase = "executing"
    /\ \E result \in {"succeeded", "failed", "timeout"} :
         agent' = [agent EXCEPT ![d].phase = "finished", ![d].result = result]
    /\ UNCHANGED <<mission, runner, job, online>>

\* schedule_mission_runner_after_execution_job: the mission's row after j has
\* ended with status; only a mission parked on exactly this job is resumed.
Resumed(j, status) ==
    IF /\ status \in {"succeeded", "failed", "timeout"}
       /\ mission.status \in {"waiting", "paused"}
       /\ mission.recovery = "async"
       /\ mission.pending[j[1]] = j[2]
    THEN [mission EXCEPT !.status = "queued", !.recovery = "none", !.owner = None]
    ELSE mission

\* mutant: a result is taken whatever has become of the row
ReportAny(d) ==
    /\ agent[d].phase = "finished"
    /\ job' = [job EXCEPT ![agent[d].job] = Over(@, agent[d].result)]
    /\ agent' = [agent EXCEPT ![d] = Idle]
    /\ UNCHANGED <<mission, runner, online>>

\* complete_execution_job_gateway: a result is taken for a row of this device
\* that is still claimed or running; the fence fires if the mission resumes.
Report(d) ==
    /\ agent[d].phase = "finished"
    /\ agent' = [agent EXCEPT ![d] = Idle]
    /\ LET j == agent[d].job
       IN  IF ~OwnRow(d, {"claimed", "running"})
           THEN UNCHANGED <<mission, job>>
           ELSE IF ~Authorized(mission, j)
           THEN job' = [job EXCEPT ![j] = Over(@, "cancelled")] /\ UNCHANGED mission
           ELSE Update([job EXCEPT ![j] = Over(@, agent[d].result)],
                       Resumed(j, agent[d].result))
    /\ UNCHANGED <<runner, online>>

\* The agent is restarted, or its request is lost on the way; it asks for the
\* next job and posts no result.
Drop(d) ==
    /\ agent[d].phase # "idle"
    /\ agent' = [agent EXCEPT ![d] = Idle]
    /\ UNCHANGED <<mission, runner, job, online>>

-----------------------------------------------------------------------------
RunnerStep(r) ==
    Take(r) \/ Reconcile(r) \/ Begin(r) \/ Enqueue(r) \/ Look(r) \/ Park(r)
    \/ Retry(r) \/ Replan(r) \/ GiveUp(r) \/ Continue(r) \/ Throw(r) \/ Cut(r)

AgentStep(d) ==
    Claim(d) \/ Start(d) \/ Reject(d) \/ Monitor(d) \/ Abort(d) \/ Execute(d)
    \/ Report(d) \/ Drop(d) \/ Heartbeat(d)

Next ==
    \/ \E r \in Runner : RunnerStep(r)
    \/ \E d \in Device : AgentStep(d)
    \/ \E j \in Job : JobLeaseExpires(j)
    \/ Watchdog \/ MissionLeaseExpires \/ RecoverStale \/ Decide

Spec == Init /\ [][Next]_vars

(***************************************************************************)
(* Leases run out when nobody renews them, and the watchdog is a cron job. *)
(* FairSpec asks nothing of runners and agents, which may stop for good.   *)
(***************************************************************************)
FairSpec ==
    /\ Spec
    /\ \A j \in Job : WF_vars(JobLeaseExpires(j))
    /\ WF_vars(Watchdog)

-----------------------------------------------------------------------------
(***************************************************************************)
(* Properties                                                              *)
(***************************************************************************)

\* Whatever the mission does (it pauses at a gate, is taken over, replanned,
\* recovered or parked on other jobs), a job that could still be claimed,
\* started or completed is one that the mission authorizes at this moment.
ActiveJobsAreAuthorized ==
    \A j \in Job : job[j].status \in Active => Authorized(mission, j)

\* A job is executed by at most one device and at most once, although claims
\* and replies are lost, leases run out, jobs move to other devices and two
\* runners enqueue the same attempt.
ExecutedOnce == \A j \in Job : job[j].begun <= 1

\* A step counts as completed only on the evidence of a job of that step that
\* has succeeded and was executed for it: no lost start, rejected payload or
\* late report, and no runner that lost its lease, makes one.
CompletionHasEvidence ==
    \A s \in mission.completed : \E a \in 1 .. Attempts :
        job[<<s, a>>].status = "succeeded" /\ job[<<s, a>>].begun = 1

\* The row of a job that is over never changes again: late reports, sweeps and
\* the fence leave it alone, and the same attempt is not enqueued twice.
OverIsOver ==
    [][\A j \in Job : job[j].status \in Terminal => job'[j] = job[j]]_job

\* A job that has started is over some time later, whatever becomes of its
\* device and of its mission.
StartedJobsEnd ==
    \A j \in Job : job[j].status = "running" ~> job[j].status \in Terminal

=============================================================================
