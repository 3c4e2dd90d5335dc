# A TLA+ model of ARIA's autonomy core

ARIA is a personal assistant that works off *missions*: a goal is planned into
tasks, workers on other machines execute them, a verifier decides whether the
goal is reached, and people approve what is risky and are asked when something
went wrong. The repository holds many generations of that idea and a lot around
it. This project models the part in which the hard behaviour of the current
generation lives: the durable mission state machines, the job queues between the
coordinators and their workers, the gates at which people decide, the
accounting of what the model providers allow, the lock that keeps a second
worker from running, and the probes that run while everything else is paused.

All paths below are under `src/`.

## 1. The system

| component | state it keeps | operations | how it interacts |
|---|---|---|---|
| **JSON worker bridge** `autonomy/persistent-worker-bridge-v1.js`, `scripts/aria-persistent-windows-worker-v1.js` | one JSON file per job: status, worker, lease token, lease end, attempts, result | enqueue, claimNext, heartbeat, complete, waitForResult, getOrEnqueueWorkerJob | the control plane's planner, executor, replanner and verifier put jobs in and wait; workers claim over HTTP, execute, heartbeat and report |
| **Persistent control plane** `autonomy/persistent-control-plane-v1.js`, routes of `autonomy/persistent-http-server-v1.js` | one JSON file per mission, one per approval, an event journal | start, tick, resume, requestApproval, resolveApproval, the polling supervisor | the supervisor ticks missions; people approve and resume through HTTP; a tick calls the bridge's services |
| **Cloudflare mission store** `cloudflare-autonomy/worker.mjs` | a Durable Object's storage: missions, jobs, notifications, idempotency records, probe scopes, an alarm | createMission, submitPlan, claim, heartbeat, complete, fail, decideApproval, resume, alarm | the same roles as the two above in one object: clients, a remote planner, workers and people call it over HTTP, its alarm repairs |
| **Probes** (in the same file) | probe scopes with an expiry, two pointers for the alarm | start, claim, report, close, presence, alarm | while execution is paused, one mission at a time and its own workers are let through for some minutes |
| **Notification outboxes** `autonomy/persistent-notifications-v1.js`, `notify` in `worker.mjs` | one record per notification | notify, flush, deliver | webhook or Telegram, at least once |
| **Single-instance lock** `autonomy/worker-single-instance-lock-v1.js` | a lock file, empty until its owner's record is written | acquire with takeover of an abandoned file, release | every start of the Windows worker competes for the file; a crash leaves it behind |
| **Execution missions and device jobs** `supabase/functions/aria-mission-runner-v22`, `supabase/functions/aria-device-gateway`, migrations `20261017190000`, `20261017200000` and the ones they replace, `windows-agent/` | the rows of `mission_state`, `execution_jobs`, `device_registry`; what a runner invocation and an agent have in memory | the runner takes a mission, plans a batch, enqueues, looks, parks, retries, replans; agents claim, start, execute, report; a trigger fences jobs; watchdog and stale recovery | the runner writes job rows and parks the mission, agents poll the gateway, a completed job schedules the mission again, a change of the mission's status revokes its jobs |
| **Human gates** the same runner, `supabase/functions/aria-execution-runtime-v1`, `aria-app-api-v3`, `mission_human_gate_decide`, the confirmation on the device, the trigger on closing (migration `20260918032100`) | one slot in the mission's checkpoint, copied by every runner; an event for a confirmation on the device | ask, approve, refuse, answer in the app, confirm, cancel, consume, authorize an execution, close | runner and people write the same slot; the execution runtime reads it before a protected model call, the trigger before a mission succeeds |
| **Provider quota accounting** migration `20261102000000`, `supabase/functions/aria-execution-runtime-v1` | an account row, a row per model, a table of reservations | snapshot of the provider's counter, reserve, call, settle | calls of the runtime compete for the rows; the provider counts by itself |
| **Approval store** `approvals/` | approval records | create, decide, canExecute | the in-process execution library |
| everything else | | | listed with the reason it is not modelled in `PROJECT.json` |

What is hard here, and hardly reached by the repository's tests, is the order of
steps: a reply that arrives after its lease ran out; a restart between two writes
that belong together; a person who decides while the supervisor runs the same
mission; a handler that decides on what it read before an await. `PROJECT.json`
lists these places under `hazards`, each at its line.

What makes each component correct:

- the bridge: of everybody who ever held a lease on a job, only the holder of the
  last one decides it, once; a restarted coordinator finds the plan job it already
  asked for; no job is forgotten;
- the control plane: a gated task runs with an approval on file for that very
  task; dependencies come first; what is done stays done; interrupted work is
  found again and, unless idempotent, not repeated behind people's backs; a
  mission comes to its end or to someone's attention;
- the mission store: one job at a time, and the one the mission says; success is
  earned and final; approvals and rejections hold through every recovery; work
  that is not idempotent starts once per human decision; wherever a handler is cut
  short, the alarm finds what is missing;
- device jobs: a job that could still be claimed, started or completed is one the
  mission authorizes at this moment; a job is executed once and final when it is
  over; a step counts as completed only on a job that succeeded; a started job is
  over some time, and the mission that waits for it goes on;
- the lock: one worker runs on a machine, a dead worker's lock keeps nobody out,
  and whoever is started later leaves the running one alone;
- human gates: a protected action runs only with an approval of that very action,
  and a protected model call not after a refusal; a mission that asks for
  confirmation is closed only on a person's word, and one of source
  `meditation-ia-v1` only on the confirmation on its device;
- quota: no day's quota is given away twice, one reservation key pays for one
  call, and nothing is refused that the account still had;
- probes: one window is open at a time, nothing goes on outside of it, a closed
  probe leaves nothing behind, whatever was cut, and a recovery probe succeeds on a
  task that was executed again, whatever leases and jobs it took.

## 2. The modules

| module | what it is |
|---|---|
| `LeasedJobs` | abstract: what a queue of leased jobs promises |
| `WorkerBridge` | the JSON worker bridge, coordinator side and worker side; `ImplementsQueue` is its refinement of `LeasedJobs` |
| `WorkerBridgeProofs` | theorems about `WorkerBridge`, the refinement among them |
| `ControlPlane`, `MCControlPlane`, `ControlPlaneProofs` | one mission of the control plane; its dependency graphs; theorems |
| `MissionStore`, `MCMissionStore`, `MissionStoreProofs` | one mission of the Cloudflare store; its graphs and readback pairs; theorems |
| `DeviceJobs`, `MCDeviceJobs`, `DeviceJobsProofs` | the device jobs of one mission, its runners and the Windows agents; isolates; theorems |
| `HumanGate`, `MCHumanGate`, `HumanGateProofs` | the gates of one mission and the people who answer them; plans and views; theorems |
| `ProviderQuota`, `MCProviderQuota`, `ProviderQuotaProofs` | reservations of one provider account; symmetry; theorems |
| `InstanceLock`, `MCInstanceLock`, `InstanceLockProofs` | the lock file of the workers of one machine; symmetry; theorems |
| `ProbeScope`, `MCProbeScope`, `ProbeScopeProofs` | the probes of the Cloudflare store while execution is paused; their instance; theorems |

Operators whose comment begins with `mutant:` are not part of a specification.
Each stands beside the definition it is a faulty variant of (a dropped guard, a
missing reset); putting it in that definition's place makes a run fail, which
shows that the run's property depends on the definition.

### WorkerBridge

Every read-modify-write of a job file happens under `serialize('job:' + id)`, so
it is one action. `claimNext` lists the directory under another key first, reads
the time only after that, and takes the key of the job it picks later still. So it
is three actions, `ClaimNextList`, `ClaimNextPick` and `ClaimNextLease` (or
`ClaimNextNull`, when nothing is picked or the pick is taken); heartbeats and
completions happen between them, and a lease that was renewed or a job that was
closed meanwhile can still be picked, though not leased. `getOrEnqueueWorkerJob` lists before it enqueues, also as two
actions. HTTP calls are members of `calls`: they may be delivered late, after
the worker went on, or never (`CallFails`), and a reply may be lost. Workers and
the coordinator crash and forget what they had in memory (`slot`, `workers`,
`waiting`); the files remain.

Abstractions: a lease token is a fresh UUID per claim, modelled as the number of
the claim, which the job also counts as `attempts`; `lease_until` is the time
left, so that time is not a counter that grows; a result is that the task passed
or not.

### ControlPlane

The mission file and the approval files survive a restart; the tick and the
requests in progress do not. `store.update` is one action. Whatever lies between
two awaits is a step of its own on what was read before: the gate of a task is
checked (`LoopPicksTask`, `MayRun`) before it is started (`StartTask`), an approval
file is read (`ResolveRead`) before it is written (`ResolveFile`) and before the
mission is (`ResolveMission`), `resume` decides (`ResumeRead`) before it writes
(`ResumeWrite`). `activeTicks` admits one tick; nothing orders people against it.
Planner, executor, replanner and verifier answer as they like. The event
journal, progress figures and texts are left out. The supervisor tries missions
over and over; one mission is modelled, as ticks of different missions share
nothing.

### MissionStore

`exclusive()` runs one handler at a time, so a handler is one action; but every
`storage.put` is awaited, and durable, on its own. A handler is therefore a record
`[end, cuts]`: the storage at its end, and the storages a crash can leave behind.
`Then(s, h)` is "s has been written, h goes on", `Both(g, h)` runs one after the
other, and `Run(h)` either ends the handler or cuts it short. The order of the
puts is the code's.

Abstractions, each of which the module's comment or this list names:

- one mission. The store's handlers look at other missions only to keep the alarm
  going, and a claim takes the oldest job of all; the model lets any claimable job
  be claimed.
- Jobs of the same operation and task replace each other: `createJob` returns the
  active one, recovery looks at the newest one only.
- A report under any but the last lease of a job is refused and changes nothing;
  only the holder of the last lease is kept (`holders`). It is accepted after the
  lease ran out as long as nobody else was granted one, as in the code.
- `plan_kind` is derived: a mission that plans with tasks replans.
- `failure_fingerprint_counts` never exceeds `attempts` (each failure counted
  belongs to a start), so the comparison of `attempts` decides.
- A result is `proven` (passed, with the evidence its operation requires), `bare`
  (passed without), `transient` or `permanent`, which is what `hasTaskEvidence` and
  `classifyTaskFailure` make of it. Of a task that did not pass, `complete` keeps
  no retryable reason with the job; recovery sees it as permanent (line 1729).
- `readback` of a task says whether the designated read of the same file finished
  after the task's recorded failure, which is what `verifyAmbiguousWriteReadback`
  compares event numbers for.
- Left out: probes (`ProbeScope`), events, the workspace planner call, the idempotency record
  (which only names the mission) and notifications. An undelivered notification
  keeps the alarm going as well; the model is of the time after it is delivered.
- `MISSION_EXECUTION_PAUSED` is `true` at this commit: the deployed object refuses
  all of this but probes. What is modelled is the code behind that switch, the
  class as the tests run it (`UnpausedTestMissionStore` in
  `tests/cloudflare-autonomy-worker.test.js`).

That a crash can separate two puts is an assumption about the platform: Durable
Objects submit puts as one only when nothing is awaited between them, and here
every put is awaited. The repository's tests make the same assumption: they
build the states a handler cut short leaves, and expect the alarm to repair them.

### DeviceJobs

The mission's row, the memory of each runner invocation, the rows of
`execution_jobs` and the agents. One SQL function or one trigger is one action,
since it is one transaction; whatever a runner or an agent does between two calls
is a step on what it has in memory. A runner takes the mission with its
checkpoint (`Take`), works off the first steps that are not completed (`Begin`,
`Enqueue`, `Look`, `Reconcile`) and ends the batch in one write that needs the
lease (`Park`, `Retry`, `Replan`, `GiveUp`, `Continue`). `SetMission` is every
update of the row: when the status changes, `Fenced` revokes the jobs that the new
row does not authorize, in the same transaction. An agent claims, starts, executes
and reports; every reply and every report may be lost, its monitor may find the
authorization gone, it may restart.

Abstractions: one mission; a job is the pair of step and attempt its id is made
of; `begun` and `plan` in a job's row are history. Time is left out: a lease that
is held may run out at any moment, stale recovery may come at any moment. What a
device does is that it succeeds or not, and a job that succeeded may still fail
the step's verification. `MISSION_EXECUTION_PAUSED` is off and the one-shot
scopes A4, A5 and A6 are absent.

### HumanGate

The same runner, followed for its gates instead of its jobs. The gate of a step
and the confirmation of a mission live in one slot, `checkpoint.human_gate`.
Runners copy it when they take the mission, decide on the copy (`MayRun`), and
write it back with whatever they save; people answer on the row in three ways: by
the hash of the action (`Approve`, `Refuse`), in the app, which reads the row and
writes the checkpoint it read in a later step (`AppReads`, `AppWrites`), and by
the confirmation on the mission's device (`Confirm`). `Authorized` is the second
check, which the execution runtime makes on the row for protected model calls.
Closing is the runner's decision on its copy (`Close`) and then the database's on
the row: `Finalize` is `aria_mission_finalize_verified_lease`, and `GateEnforced`
the trigger that lets no mission of source `meditation-ia-v1` succeed without the
event of a confirmation on its device (`verified`). What they refuse ends in the
runner's exception path (`Throw`).

The code writes `completed` on two occasions, which the model tells apart:
`confirmed` is a gate that people have completed, in the app or on the device,
`completed` the approval of a step that a runner has consumed. For the code both
are a completed gate (`Completed`).

Abstractions: `Source` stands for the prefix that `Confirm` asks for and the exact
value that the trigger asks for; an action is a step and the operation the plan puts there, and its
hash is that pair; retries and parking are choices here (they are `DeviceJobs`'s);
`approved` and `refused` are history. A token is a fresh random value: `Fresh` is
one nobody remembers, and a token is forgotten as soon as its gate is no longer
approved, since nobody looks at it then.

### ProviderQuota

A call of the execution runtime reads the provider's own counter (`Snapshot`),
enters the reserve function, which computes the time before it waits for row locks
(`Enter`), and holds the locks from there to its commit (`Reserve`); then it calls
the provider (`Send`) and settles (`Settle`). It can be cut after any step. Two
calls may carry the same reservation key, which is what a retry of a request that
timed out does. Calls with the same provider key made elsewhere move the
provider's counter (`ExternalCall`). Time is the UTC day.

Abstractions: token counts, the identity checks every caller passes and rows
switched off by an administrator are left out. A free model shares the account
row, which follows the provider's counter; any other model has its own row.

### InstanceLock

Nothing but the file system orders the workers, so each of its calls is an action:
`Open` creates the file exclusively and `Write` fills it; a worker that finds the
file asks for its age (`Stat`), reads it (`Read`), looks for the owner's process
(`Check`), reads it once more (`Again`) and removes it (`Unlink`). A worker may
crash anywhere, the disk may refuse the record, and the two removals of
`release` go by the path, whatever file is there by then. Every interleaving and every delay is a behaviour.
The history variable `calm` says whether, so far, nobody has acted between another
worker's last look at the file and its removal, and nobody has taken the ten
seconds after which an empty file counts as abandoned; `Exclusion` is what holds
as long as that is so.

Abstractions: one machine, each worker starts once, process ids are not used again;
a record is its token, made of the worker and its attempt; of time there is only
whether a file is ten seconds old. `rivals`, `alone` and `calm` are history. A record that
is not JSON is an unwritten one.

### ProbeScope

The Cloudflare store as it is deployed at this commit, paused. A start
(`StartProbe`) writes a scope, a mission with its plan job, the window, the fixed
plan of one task, and the list of the jobs its workers may have. Workers are let in
by the scope and then wait for their turn (`Admit`), are asked again when it comes
(`Serve`) and claim, renew, complete or fail (`Claim`, `Heartbeat`, `Complete`,
`Fail`) or are refused (`Refuse`). `CloseProbe` is the operator's close; the same
`Close` is run by the next start on a scope that has lapsed (`CloseLapsed`). The
alarm looks at the two pointers first (`AlarmFires`) and has the object to itself
later (`AlarmPresence`, `AlarmPilot`); between the two, anything may happen.
`ScopeExpires`, `PresenceExpires` and `LeaseExpires` are time.

A recovery probe asks its worker for `execution_attempt === 2` (`Recovered`), and
that number is the worker's, not the lease's: the adapter the probe's workers run
(`scripts/mission-wonder-2-package3-live-e2e.cjs`) counts executions in a file they
share, and the worker hands it no lease count. `executions` is that file, with what
is needed to know who reports which number: `attempt` is the execution of the last
lease's worker, 0 before he executes, and `late` counts the workers that lost their
lease before they executed and may still do so. `Execute` is the adapter; the report
that follows is `Complete`. So the second execution may come under the first lease
of a retry's job, under the second lease, or under a later one when leases were
lost before anything was executed; and a second lease may be the first execution.

Handlers are records `[end, cuts]`, as in `MissionStore`. Those of one probe work
on a `View`: its records, the alarm, and the pointer to the pilot. What differs from
`MissionStore` is what the code does differently for a probe: a pilot's jobs are
found by the list of its scope, a recovery probe's by scanning all jobs; only a
pilot keeps the alarm going; a worker is given task and verification, so a replan
ends the probe.

Abstractions: the newest job of each kind; the one task of the fixed plan; the
figures a worker's presence writes into a scope are left out, and so are tokens and
worker names, which a start fixes and every request repeats. A probe's id is used
once (573). `reserved` is the idempotency record. A start that fails does so at a
write, and marks its scope as failed; the scope then lists a job that had been
created (`FailedListing`), or does not, when it could not be read again after the
job was put (`Failed`). `Execute` reads and writes the count in one step, and is not
followed once the task or the window is over, when nobody asks for the count. Whatever else the
evidence of an execution must say, such as that the second found the artifact of
the first, makes the difference between the results `passed` and `unproven`. The
model lets the first execution report, where this adapter hangs on purpose.

## 3. The runs

| run | instance | what it shows |
|---|---|---|
| `bridge_leases` | 2 workers, 1 job, 2 leases of 2 ticks, 1 crash, with fairness | leases fence each other (`TokenNamesHolder`), closed files are not written again, the queue implements `LeasedJobs`, a queued job is closed or uses up its leases |
| `bridge_reuse` | 1 worker, a planner request and a task request, 3 job files, 1 crash | a planner request never has two good jobs (`OneGoodJob`) |
| `plane_mission` | 3 tasks in a row, the first two gated, the first idempotent, the last added by replanning; 2 people who resume, 1 of whom decides; 2 attempts, 1 resume besides the one that follows an approval, 1 restart, with fairness | `CompletionIsEarned`, `GatedRunsApproved`, `DependenciesFirst`, `DoneStaysDone`; the coordinator by itself never starts work again that is not idempotent and was cut short (`NoUnattendedRepeat`); the mission comes to its end or to someone's attention (`MissionSettles`) |
| `store_mission` | 1 planned task and room for 4 replacements, one of them gated, 2 leases per job, 1 resume, 1 crash | types with the replan budget, `OneThingAtATime`, `CompletionIsEarned`, `DecisionsHold`, `SucceededIsFinal` |
| `store_review` | 2 tasks in any order: a gated write that is not idempotent, and the idempotent read of the same file; 2 attempts, 2 leases, 1 resume, 1 crash, with fairness | the write starts once, and once more per authorized replay (`StartedOncePerDecision`); a mission whose alarm is set comes to its end or to a person (`Settles`) |
| `quota_day` | 3 calls, 3 keys, a free model with an account limit of 2 and a directly billed one with a limit of 1, 2 days, 1 call made elsewhere | `QuotaHolds`, `OneCallPerKey`, `RefusalIsJustified` |
| `jobs_takeover` | 1 step with 1 attempt under each of 2 plans, 2 runner invocations in one isolate, 2 devices that may take each other's jobs | `ActiveJobsAreAuthorized`, `ExecutedOnce`, `OverIsOver` |
| `jobs_retry` | 1 step with 2 attempts under each of 2 plans, 1 runner, 1 device, with fairness of leases and watchdog | a completed step has a job that succeeded (`CompletionHasEvidence`), a started job ends (`StartedJobsEnd`) |
| `lock_starts` | 3 workers, every interleaving, crashes, failed writes, slow ones | nobody else's file is at the path of a holder while the starts are `calm` (`Exclusion`); whatever overlaps, a lock is taken away only by a worker that was there when it was granted (`OnlyRivalsReplace`); a worker by itself is refused only because of a file created seconds ago and never written (`RefusedForCause`) |
| `gate_approvals` | 1 step whose action depends on the plan, 2 invocations in isolates of their own, 3 tokens, a mission of source `meditation-ia-v1` that asks for confirmation | `NothingRunsUnapproved`, `RefusalStopsModelCalls`; the mission is closed only on a person's word, and only confirmed on its device (`ClosedOnAnswer`) |
| `probe_windows` | 2 of a pilot, a recovery probe and a presence probe are started; 2 leases per job, 1 request that waits, 1 crash, no executions, with fairness | `OneWindow`, `ClosedIsOver`, `NothingAfterTheWindow`; the alarm repairs a pilot whose job got lost (`PilotIsRepaired`) and closes a presence probe that nobody closes (`PresenceIsClosed`) |
| `probe_recovery` | 1 pilot or recovery probe is started; 3 leases per job, 4 executions, 1 request that waits, 1 crash | types with the attempts of a task; a recovery that succeeds was executed at least twice (`SuccessIsRecovery`), through lost leases, late executions, lost reports and retries |

The configurations switch deadlock checking off because the
modelled systems do come to rest: a mission that succeeded, a bound that is used up.
Type invariants are checked where they say more than types; those of `ControlPlane`,
`DeviceJobs`, `HumanGate`, `ProviderQuota` and `InstanceLock` are proved (section 4).

**Bounds.** They are in the guards and named: `MaxJobs`, `MaxClaims`, `MaxCrashes`,
`MaxApprovals`, `MaxResumes`, `MaxLeases`, `Attempts`, `MaxPlan`, `MaxDay`,
`MaxExternal`, `MaxStarts`, `MaxRequests`, `MaxExecutions`; `MaxAttempts` and `RetryLimit` are the
code's own. Two
leases are the least that can conflict, and the theorems below hold for any
number. One crash suffices for every state a single cut can leave, with all
further steps after it. In `store_mission` a replan replaces every task that has failed, so that
two replans use three of the four replacements and a third one, beyond the budget
of two, would find its task. In `store_review` the read is the readback of the
write, so that a write of unknown outcome is also decided without a person.
`plane_mission` has two people, as many as a race between requests takes, and four
approvals, one more than it needs: with fewer, a mission would stop for want of one.

In `jobs_takeover` two invocations share an isolate and therefore the lease, which
is the stronger case: everything one of them may save, the other may. One step
suffices there because jobs meet in the fence and in the sweep only, each by
itself; batches of two, where one job's end revokes the other, are covered by the
proofs. In `quota_day` three calls are the least in which two compete for the last
request of the account while a third one has already been counted; two days make
every row's period end once. `gate_approvals` has three tokens because the row and
two runners can remember three. There, `VIEW Seen` hides what an invocation has in
memory once it has lost its lease and has begun nothing: such an invocation can
only end (its isolate has no other invocation that could win the lease back for
it, and every action of it but `Cut` needs the lease or a step begun), so what it
remembers makes no difference to any step. In `lock_starts` an abandoned file and the two that find it are the case that
matters, which takes three workers; the three attempts are the code's. In `probe_windows` there is one probe of
each type, as an id is used once; of two starts the second meets whatever the first
has left, and one request that waits is enough to be overtaken by a close and a
start. Nothing in its properties depends on the evidence of a recovery, so that its workers
do not execute there and its missions end otherwise. `probe_recovery` has one start,
and three leases, so that the two executions can be those of the last two after one
was lost, or of a retry's first; four executions are two more than are asked for, which
late workers can use up. `gate_approvals` has the source for which the trigger
exists; what is left of `ClosedOnAnswer` for the others is proved. `SYMMETRY` exchanges devices, workers of the lock,
calls and keys, or the two runners together with their isolates; none of the properties of
these runs, nor a fairness condition, names one of them.

**Fairness.** The loops of the code justify it. `WorkerBridge`: a worker polls for
ever (strong fairness of `ClaimNextList`, since the polls of others hold the claim
queue), `serialize` runs what it has queued, a worker reports what it executed;
time passes. Nothing is assumed of the delivery of calls, of heartbeats, or of the
coordinator. `ControlPlane`: the supervisor's interval and the steps of a tick;
planner, replanner and verifier answer in the end, if not each time (strong
fairness); a request that has begun goes on. Nobody is assumed to decide or
resume. `MissionStore`: the platform delivers a set alarm until a run of it gets
through, workers poll and report, leases run out. No person and no planner call is
assumed. `Settles` and `EveryJobIsClosed` also end when a job has used up its
`MaxLeases` or `MaxClaims`: there the model stops, not the code. `DeviceJobs`:
`FairSpec` assumes that a lease nobody renews runs out and that the watchdog, a
cron job, keeps running, and nothing of runners and agents, which may stop for
good. `ProbeScope`: the platform delivers an alarm that is set and runs it to its
end, unless a crash ends it, after which it is delivered again; a presence probe's
time passes. Nothing is assumed of workers, operators, or leases. `HumanGate`, `ProviderQuota` and `InstanceLock` make no claim
that something happens, and assume nothing.

## 4. What is proved

Every theorem is of the form `Spec => []Inv` or `Spec => [][A]_vars` and holds for
every value of the constants that the module's named assumption admits: any number
of workers, jobs, tasks, steps, devices, attempts, crashes, and so on. Each proof
rests on an inductive invariant, a conjunction of named parts, and has one lemma
per action (or per group of actions that write the same things) that says the
action preserves it. The properties follow from the invariant.

**WorkerBridge**, from `WorkerBridgeAssumption`: `TypeCorrect`,
`TokensAreUnambiguous` (`TokenNamesHolder`), `PlannedOnce` (`OneGoodJob`),
`DeliveredResultsAreCommitted` (what a waiting caller is told is what the file
holds), `ClosedJobsStayClosed`. `OneGoodJob` is not
inductive: between listing and enqueueing a planner request remembers nothing but
that it found no good job. `EnqueueingSawNone` says that this is still true when it
enqueues, since only the request itself creates jobs for it and no failed job
becomes good again. `TokenNamesHolder` needs the references of slots, workers and
promises to be to existing files (`References`) and files not created yet to be
blank (`Blanks`), so that a first claim's token is new.

`BridgeImplementsQueue` is the refinement `Spec => ImplementsQueue`, proved as a
step simulation under `RInv == IInv /\ LeasesHaveOneHolder`. A claim, a completion
and an enqueue are the queue's own steps, everything else stutters. The point is
that closing a job takes exactly one of the reports under way: all reports under
one lease are one worker's.

**ControlPlane**, from `ControlPlaneAssumption`: `PlaneTypes`; for any number of
people who resume, at most one of whom decides approvals (`OneApprover`, see section
5), `CompletionHolds`, `GatedTasksAreApproved`, `DependenciesComeFirst`,
`RepeatsAreAttended` and `VerifiedWorkStays`; and with one person (`OnePerson`),
`InterruptedIsFound`, which no run checks, as two resumes can break it.
A tick and a decision act on what they read some awaits ago; the invariant says that
nothing they read is stale when they act on it. A tick past its first look never
works on a mission that waits for people (`StoppedStands`, `TickIsFresh`), a decision
always does (`DecisionsAreOwn`), so the two exclude each other although no lock does.
A resume is different: it is written on whatever the mission has become. What makes
it harmless is that it puts back only tasks that wait or failed, which no tick has in
hand, and never an approval a tick relies on. The other parts: the approval the
mission carries is on file (`ApprovalIsFiled`), a mission is planned before anything
else happens to it (`PlanningIsFirst`), work nobody has reviewed is not in line
(`UnreviewedRests`). `InterruptedIsFound` adds that a resume finds the mission still
waiting (`ResumesWait`), and that a running task is its tick's or in a mission that
recovery looks at (`RunningIsKnown`).

**MissionStore**, from `MissionStoreAssumption`: `StoreTypes`, `OneThingOnly`,
`SuccessIsEarned`, `DecisionsStand`, `StartedOnce`, `SuccessIsFinal`. The state is
one storage, and a handler writes it at its end and at each cut. So the invariant
is a predicate `Good` of a storage, and each handler has a lemma that all storages
it can leave, end and cuts, are good if the one it found was. Its parts: every
task's record is sound (`TaskIsSound`), the mission's status names the one job
there is (`Focused`, `OneThing`), a task that waits has been asked about
(`Asked`), budgets (`Budgeted`), success (`Earned`), a mission just created
(`NewMission`). `Authorized` adds that replays never exceed the decisions that
allow them.

**DeviceJobs**, from `JobsAssumption`: `JobTypes`, `JobsExecutedOnce`,
`OverJobsStayOver`, `FenceHolds` (`ActiveJobsAreAuthorized`), `CompletionIsProved`
(`CompletionHasEvidence`), for batches of one and of two, each with an invariant of
its own on top of the types. The fence fires only when the status changes, so the
proof has to show that an update which keeps the status takes no job's
authorization away: it does because a lease is held only while the mission runs
(`Fence`). `Begins` says in which phases a job has been begun and that two agents
never have started the same one. `Evidence` follows a step's outcome from the job's
row into runners' memories and the checkpoint, with or without the lease.

**HumanGate**, from `GateAssumption`: `GateTypes`; `OnlyApprovedRuns`
(`NothingRunsUnapproved`) and `NothingClosesUnanswered` (`ClosedOnAnswer`), for any
assignment of runners to isolates and any source; and `RefusalHolds` (`RefusalStopsModelCalls`), where every runner has an isolate of its
own (`OneRunnerPerIsolate`). The first rests on `Sane`: an approved gate, in the row
or in a memory, is one somebody gave, and so is one that was consumed, and whatever
a runner has begun its memory lets it run; since no gate's status becomes approved
but by a person, no copying and writing back can make one up. The second follows
from `Sane` too: only `Finalize` lets a mission succeed, on the row's gate and event,
and nothing touches either afterwards. The third rests on `Stands`: the row's approval
has not been refused since, nor has the one that the holder of the lease may still
write back, because every refusal takes the lease away.

**ProviderQuota**, from `QuotaAssumption`: `QuotaTypes` and `OneCallPerKeyHolds`
always, by `KInv`; `QuotaIsKept` and `RefusalsAreJustified` when no reservation waits across
midnight (`~SpansMidnight`), by `QInv`. The account row holds at least the reservations of its
day and at most what the provider counts together with the reservations of the day
it has not seen; the first bound gives `QuotaHolds`, the second
`RefusalIsJustified`. Counting uses the library's theorems on finite sets.

**InstanceLock**, from `LockAssumption`: `LockTypes`; `LaterStartsAreHarmless`
(`OnlyRivalsReplace`) whatever overlaps; `HolderHasTheFile` (`Exclusion`), and from it
`OneHolder`: while starts are `calm`, one worker holds the lock. These share
`LockInv`: nobody knows a token before it is created (`Fresh`, `OffFirst`); and while
`calm`, a worker that is about to write its record, or holds the lock, has its own
file at the path, and while one is about to remove an abandoned file nobody holds
the lock or is creating it (`Place`). For `LaterStartsAreHarmless`, `Latecomers` says that while a worker has its lock, whoever has come
later has seen that worker's record or nothing, and is nowhere near a removal.
`LoneWorkerIsRefusedForCause` (`RefusedForCause`) has an invariant of its own,
`AloneInv`: while one worker is the only one there, the file is its own, or fresh and
unwritten, or of somebody gone; and `Way` says which attempt it is at in each state
of the file it has met, so that three attempts are enough to take an abandoned lock.

**ProbeScope**, from `ProbeAssumption`: `ScopeTypes`, `OneWindowIsOpen`
(`OneWindow`), `ClosedProbesAreOver` (`ClosedIsOver`), `RecoveryIsProven`
(`SuccessIsRecovery`), `WindowsAreKept` (`NothingAfterTheWindow`). As in
`MissionStore` the invariant is a predicate of a storage, `Good`, which a crash may
leave in the middle of any handler. Its part about one probe, `Sound`, is about what
a handler of that probe works on: a probe has its idempotency record before it has a
mission or a job, which is why a close finds what the scope does not name
(`ReservedFirst`); leased jobs are on the list (`LeasesAreListed`), so nothing a
worker has in hand escapes a close; and the success of the task is that of its job
and, of a recovery probe, of an execution that was not the first (`WorkHasJob`). The
number that a worker reports never exceeds the count (`Counted`), and the count never
falls, so that a probe that has been executed again stays `Repeated`: what is good
by one count is good by every later one (`GoodGrows`). While a probe goes on (`Going`), no handler moves its scope or
the pointer (`Keeps`). `Follows` relates a storage to the one before, and is what
`WindowsAreKept` rests on: outside of a window the only handler that touches a probe
is its close (`Quiet`).

Only model-checked: everything that must eventually happen (`EveryJobIsClosed`,
`MissionSettles`, `Settles`, `StartedJobsEnd`, `PilotIsRepaired`, `PresenceIsClosed`),
because temporal proofs under
fairness and `ENABLED` are outside what the prover supports. Recursive operators and induction
over data do not occur.

## 5. Known behaviour for which nothing is claimed

The models do all of this, as the code does; the properties are stated so that
they are about the rest.

Worker bridge and mission store:

- A lease that runs out while its worker still executes is granted to the next
  worker whatever the task is (`persistent-worker-bridge-v1.js:86`,
  `worker.mjs:1644`): leases protect the result of a job, not its execution.

Control plane (`persistent-control-plane-v1.js`):

- `resolveApproval` has no lock between its check and its write (189): two people
  who decide at once are both taken, and the later one is written over whatever
  the task has become. With two people deciding, `GatedRunsApproved`,
  `DoneStaysDone` and `CompletionIsEarned` fail. Hence `OneApprover`.
- A restart between the approval file and the mission file (191) leaves a mission
  that waits for a decision that has been made; nobody can make it again.
- Two resumes at once and a restart (394) can leave a task running in a queued
  mission, which recovery does not look at: `InterruptedIsRecoverable` is about one
  person. A stale resume can also put a mission
  that has succeeded back to queued; its tasks stay succeeded and the verifier is
  asked again.
- Replanning appends tasks without `validateTaskGraph` (321). It can add a task
  only with a task left running as above, as long as the graph is valid:
  otherwise some task is runnable, failed or waiting.
- A mission whose planning failed has no tasks, and resume queues it (402).
- Approving a task and the resume in the same HTTP request are two steps; a tick in
  between may run the task to a failure that the resume then puts back.
  `NoUnattendedRepeat` takes any decision or resume for a word from people.

Mission store (`worker.mjs`):

- A decision is saved before the alarm is set (2248); cut there, the mission is
  running and nothing wakes it. `Settles` is about missions whose alarm is set.
- Recovery of a completed job forgets to skip the task it replaces (2274).
- A creation cut before its idempotency record is complete (1333) refuses its
  repetition.
- A task that passed without evidence is not put back by a resume (1811); a
  transient reason of a task that is not idempotent is lost when the report is cut
  (1729); the newest job of a task may be the one of an earlier try, whose failure
  is then counted twice (2270).
- An idempotent task at its last attempt whose job got lost is marked ambiguous
  (2303); a replay is only accepted for tasks that are not idempotent, so only a
  readback could release it.
- A plan job that failed and a resume make a running mission without tasks (2091).

Device jobs (`aria-mission-runner-v22/index.ts` unless named):

- A replan resets the attempts, and the id of a job names no plan (5034): the
  first attempt under the new plan finds the terminal row of the old plan and takes
  its result.
- The gateway does not ask who holds the lease when a job is enqueued, and a runner
  that is cut between enqueueing and parking leaves a live job nobody waits for
  (1077): the next attempt can be executed beside it.
- Of two jobs in a batch, the first that ends queues the mission, and the fence
  revokes the other (4646).
- A job's lease may run out while the device executes; the device's effects stay,
  its report is refused. Stale recovery takes a mission from a runner with a live
  lease after two minutes without an update.
- A parked mission can stay `waiting` for ever (1077), for three causes: watchdog
  and claim put jobs to timeout without scheduling the mission, a job that ends
  cancelled schedules nothing, and a job that ends between the runner's last look
  and the parking finds the mission still running.

Human gates:

- The approve button of the app writes `completed` where the runner requires
  `approved` for a step (`aria-app-api-v3/index.ts:3928`, runner 4333): the gate of
  an action is asked again.
- In a batch of two with two protected reads, each gate overwrites the other in the
  one slot there is (4349), and neither ever runs.
- The app's late write can revive a mission that was rejected meanwhile, with an
  older checkpoint. `Refuse` does not ask whether the gate is still pending. A retry
  of a failed step runs under the same approval.
- A gate for a permission that a provider denied names no action, so
  `mission_human_gate_decide` cannot answer it. Stale recovery puts a paused gate
  back in the queue, and until a runner asks again decisions are refused.
- Both gates have the one slot, so for missions of other sources than
  `meditation-ia-v1` the consumed approval of a protected step (4607), or the app's answer
  to any gate, is the mission's confirmation too: the runner closes without asking
  again (984, 5307). `.github/workflows/e2e-human-gate-safe-autonomy.yml:180-217`
  expects a mission with `metadata.human_gate` to succeed on the approval of its step.
- For source `meditation-ia-v1` the trigger refuses the same close (migration
  `20260918032100`:50-54), but the runner, which sees a completed gate, still asks
  nobody: the mission pauses or blocks with an exception until somebody confirms it on the
  device unasked. The app's answer to the final gate of such a mission does not
  count for the trigger either; it writes another event.
- A confirmation on the device may be given before anything has run: `Confirm` asks
  for the mission's status, not for a request.
- Two invocations in one isolate share the lease: a late one can write a refused
  approval back, and `RefusalStopsModelCalls` fails. Hence `OneRunnerPerIsolate`.

Quota (migration `20261102000000`):

- The day is computed before the locks are waited for (116): a call that entered
  before midnight and gets its locks after the new day was opened books on the old
  day; `QuotaHolds` fails. A snapshot read before midnight and reserved after it
  makes yesterday's count the new day's (196), and the account refuses until the
  next day. Hence `~SpansMidnight`.
- A call that was cut leaves its reservation `reserved` for ever. Token usage is
  never reset, and usage reported late is dropped; tokens are not modelled.

Single-instance lock (`worker-single-instance-lock-v1.js`):

- The look at the file and its removal are two calls (77 and 83, 98 and 99), and the
  removal goes by the path. Two workers that find the same abandoned file can both
  end up running, and so can two of which one needs ten seconds to write its
  record. The failed writer (65) and `release` (55) remove by the path as well.
- After a crash between creation and record, the next worker is refused for ten
  seconds; a file that is emptied between the two reads ends it with a syntax error.

Probes (`worker.mjs`):

- The alarm closes an expired readonly pilot through `exclusive` with the pilot's
  own scope (2374), and `exclusive` refuses an expired scope (236): the pilot is
  closed only by the operator or by the next start.
- While the pointer of the presence probes names one, every alarm is that probe's
  (2350). If it has lapsed, a pilot may be started beside it (577); the alarm that the
  start has set closes the presence probe and is not set again (2357), so the pilot
  is without one until a worker calls. Hence the conditions of `PilotIsRepaired`.
- A presence start that is cut between the scope and the pointer to it (452) leaves
  an active scope that no alarm closes, and the next start of any kind does not see
  it. A close that is cut in the same place (524) leaves a pointer to a closed scope,
  and each alarm ends there (2354). `OneWindow` is about the probe that is named.
- A start that fails marks its scope (770) and leaves mission, jobs and pointer to
  an operator's close; the next start passes over it (583).
- A close that is cut after it cleared the pointer (892) leaves a window that is
  open, with nothing left in it, and that no alarm looks at.
- A presence start asks for active scopes only (424), and begins
  beside one that was cut while it was preparing.
- `createJob` writes the job before the scope that lists it (1247, 1257), and the
  close of a pilot cancels the listed jobs only: a job written by a start that was cut
  stays queued. No worker is let in for it.

## 6. Plan and what is not modelled

Done: `LeasedJobs`, `WorkerBridge` with its proofs and its refinement,
`ControlPlane`, `MissionStore`, `ProviderQuota`, `DeviceJobs`, `HumanGate`,
`InstanceLock`, `ProbeScope`, each with its proofs.

Next, in this order:

1. `MissionLife`: the abstract life of a mission (planning, running, waiting,
   succeeded, with decisions that hold), implemented by `ControlPlane` and
   `MissionStore`; composition of `ControlPlane` with `WorkerBridge` in place of
   services that answer as they like, and of `DeviceJobs` with `HumanGate`, which
   follow the same runner.
2. `NotificationOutbox`: notify, flush, delivery and its timeout, as at-least-once
   delivery and its implementation.
3. `ApprovalStore` with the adapter's conditional update.

### Not modelled

`components` in `PROJECT.json` lists every part with its reason. Most of the
repository keeps no state that steps of several actors change: the user interface
(`pwa/`, dashboards), input and output on devices, speech, analysis and
generation of text, prompts and routing tables, stateless look-ups, earlier
versions of functions that are deployed in a later one, vendored code, and scripts
of operations and certification. Within the modelled files the same holds of the
larger part of the lines: the runner's planning prompts, validation and repair of
model answers, and evidence checks are taken as choices (a plan of some kind, a
step that passes or fails). That is why the models stand for a small share of the
repository's lines, and for most of the code that writes a mission, a job, a gate
or a quota row in its current generation.
