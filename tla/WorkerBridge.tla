---------------------------- MODULE WorkerBridge ----------------------------
(***************************************************************************)
(* The durable job queue between the persistent coordinator and the        *)
(* Windows workers: src/autonomy/persistent-worker-bridge-v1.js, with the  *)
(* claim/execute/report loop of                                            *)
(* src/scripts/aria-persistent-windows-worker-v1.js on the other side.     *)
(*                                                                         *)
(* One JSON file per job; every read-modify-write of a file runs under the *)
(* 'job:' key of serialize(), so it is one action here.  claimNext lists   *)
(* the directory under 'claim-queue' and takes the job's key only          *)
(* afterwards.  It compares what it listed with a time it reads only after *)
(* the listing: heartbeats and completions land in between, and a lease    *)
(* listed in time may look expired although it was renewed or the job      *)
(* closed.  Three actions, the last on the job read again.                 *)
(*                                                                         *)
(* lease_until is kept as the time left on it, so that time is unbounded;  *)
(* a lease token (a fresh UUID per claim) is the number of that claim,     *)
(* which is also the job's attempts.                                       *)
(***************************************************************************)
EXTENDS Integers, FiniteSets

CONSTANTS
    Worker,       \* Windows workers
    Request,      \* the coordinator's calls: one per task, plan or verification
    Reusing,      \* requests of the planner, replanner and verifier, which reuse a job
    MaxJobs,      \* bound: job files ever created
    MaxClaims,    \* bound: leases granted on one job
    MaxCrashes,   \* bound: crashes, of workers and of the coordinator together
    LeaseTicks,   \* length of a lease
    None          \* no request, no worker

ASSUME WorkerBridgeAssumption ==
    /\ Reusing \subseteq Request
    /\ MaxJobs \in Nat \ {0}
    /\ MaxClaims \in Nat
    /\ MaxCrashes \in Nat
    /\ LeaseTicks \in Nat \ {0}
    /\ None \notin Request \cup Worker

Job == 1 .. MaxJobs                    \* in the order of created_at
NoJob == 0

VARIABLES
    jobs,      \* jobs[j]: the job file
    slot,      \* the claim between its listing and its lease
    workers,   \* workers[w]: the worker's loop
    calls,     \* heartbeat and complete requests on their way
    waiting,   \* waiting[r]: the coordinator's promise for request r
    crashes    \* how many crashes there have been

vars == <<jobs, slot, workers, calls, waiting, crashes>>

JobStatus == {"absent", "queued", "leased", "succeeded", "failed"}
Closed == {"succeeded", "failed"}

Absent == [status |-> "absent", request |-> None, worker |-> None,
           attempts |-> 0, left |-> 0]
Queued(r) == [status |-> "queued", request |-> r, worker |-> None,
              attempts |-> 0, left |-> 0]
NotListed == -1
Nothing == [j \in Job |-> NotListed]
NoClaim == [worker |-> None, job |-> NoJob, awaited |-> FALSE, listed |-> Nothing]
Idle == [phase |-> "idle", job |-> NoJob, token |-> 0]
Ready == [phase |-> "ready", job |-> NoJob]

JobFile == [status : JobStatus, request : Request \cup {None}, worker : Worker \cup {None},
            attempts : 0 .. MaxClaims, left : 0 .. LeaseTicks]
ClaimSlot == [worker : Worker \cup {None}, job : Job \cup {NoJob}, awaited : BOOLEAN,
              listed : [Job -> {NotListed} \cup 0 .. LeaseTicks]]
WorkerLoop == [phase : {"idle", "claiming", "executing", "reporting", "reportingError"},
               job : Job \cup {NoJob}, token : 0 .. MaxClaims]
Call == [op : {"heartbeat", "succeeded", "failed"}, worker : Worker,
         job : Job, token : 1 .. MaxClaims]
Promise == [phase : {"ready", "enqueueing", "waiting", "delivered", "done"},
            job : Job \cup {NoJob}]

TypeOK ==
    /\ jobs \in [Job -> JobFile]
    /\ slot \in ClaimSlot
    /\ workers \in [Worker -> WorkerLoop]
    /\ calls \in SUBSET Call
    /\ waiting \in [Request -> Promise]
    /\ crashes \in 0 .. MaxCrashes

Init ==
    /\ jobs = [j \in Job |-> Absent]
    /\ slot = NoClaim
    /\ workers = [w \in Worker |-> Idle]
    /\ calls = {}
    /\ waiting = [r \in Request |-> Ready]
    /\ crashes = 0

-----------------------------------------------------------------------------
(* The job files. *)

\* mutant: an expired lease is never taken over
ClaimableQueued(j) == jobs[j].status = "queued" /\ jobs[j].attempts < MaxClaims

\* Queued, or leased with lease_until <= now.
Claimable(j) == /\ \/ jobs[j].status = "queued"
                   \/ jobs[j].status = "leased" /\ jobs[j].left = 0
                /\ jobs[j].attempts < MaxClaims

\* mutant: the candidate is leased as the listing showed it
EligibleUnread(j) == jobs[j].attempts < MaxClaims

\* The candidate, read again under its own lock.
Eligible(j) == Claimable(j)

\* mutant: a claim that takes over an expired lease keeps its token
KeptToken(j) == IF jobs[j].attempts = 0 THEN 1 ELSE jobs[j].attempts

\* Every claim makes a new token.
NewToken(j) == jobs[j].attempts + 1

\* mutant: the renewal is added to what is left
Extended(j) == jobs[j].left + LeaseTicks

\* A heartbeat renews the lease from now on.
Renewed(j) == LeaseTicks

\* mutant: the token is not compared
HoldsLeaseByName(c) == /\ jobs[c.job].status = "leased"
                       /\ jobs[c.job].worker = c.worker
                       /\ jobs[c.job].left > 0

\* The lease checks of heartbeat and complete: the caller holds the lease, unexpired.
HoldsLease(c) == /\ jobs[c.job].status = "leased"
                 /\ jobs[c.job].worker = c.worker
                 /\ jobs[c.job].attempts = c.token
                 /\ jobs[c.job].left > 0

JobsOf(r) == {j \in Job : jobs[j].request = r}

\* mutant: a job some worker is busy with is not found
ReusableIdle(r) == {j \in JobsOf(r) : jobs[j].status \in {"queued", "succeeded"}}

\* What getOrEnqueueWorkerJob accepts as an answer on its way.
Reusable(r) == {j \in JobsOf(r) : jobs[j].status \in {"queued", "leased", "succeeded"}}

\* waitForResult returns the result, or else throws the job's error.
Passed(j) == jobs[j].status = "succeeded"

EnqueueFor(r) ==
    \E j \in Job :
        /\ jobs[j].status = "absent"
        /\ \A k \in Job : k < j => jobs[k].status # "absent"
        /\ jobs' = [jobs EXCEPT ![j] = Queued(r)]
        /\ waiting' = [waiting EXCEPT ![r] = [phase |-> "waiting", job |-> j]]

-----------------------------------------------------------------------------
(* The coordinator: one promise per request. *)

\* The executor enqueues a new job every time it is called.
ExecuteTask(r) ==
    /\ r \notin Reusing
    /\ waiting[r].phase = "ready"
    /\ EnqueueFor(r)
    /\ UNCHANGED <<slot, workers, calls, crashes>>

\* The planner, replanner and verifier list the jobs first and take the newest
\* that is still good; with none they go on to enqueue one.
GetOrEnqueueList(r) ==
    /\ r \in Reusing
    /\ waiting[r].phase = "ready"
    /\ \/ /\ Reusable(r) = {}
          /\ waiting' = [waiting EXCEPT ![r].phase = "enqueueing"]
       \/ \E j \in Reusable(r) :
             /\ \A k \in Reusable(r) : k <= j
             /\ waiting' = [waiting EXCEPT ![r] = [phase |-> "waiting", job |-> j]]
    /\ UNCHANGED <<jobs, slot, workers, calls, crashes>>

GetOrEnqueueEnqueue(r) ==
    /\ waiting[r].phase = "enqueueing"
    /\ EnqueueFor(r)
    /\ UNCHANGED <<slot, workers, calls, crashes>>

\* One poll of waitForResult that finds the job closed: the result is handed to
\* the caller, or the error thrown and the caller may ask again.
WaitForResult(r) ==
    /\ waiting[r].phase = "waiting"
    /\ jobs[waiting[r].job].status \in Closed
    /\ waiting' = [waiting EXCEPT ![r] =
                      IF Passed(@.job)
                      THEN [@ EXCEPT !.phase = "delivered"] ELSE Ready]
    /\ UNCHANGED <<jobs, slot, workers, calls, crashes>>

\* The deadline passes, or the caller's signal aborts; the job is left as it is.
WaitTimesOut(r) ==
    /\ waiting[r].phase = "waiting"
    /\ waiting' = [waiting EXCEPT ![r] = Ready]
    /\ UNCHANGED <<jobs, slot, workers, calls, crashes>>

\* The caller writes what it got into the mission file and never asks again.
ResultSaved(r) ==
    /\ waiting[r].phase = "delivered"
    /\ waiting' = [waiting EXCEPT ![r].phase = "done"]
    /\ UNCHANGED <<jobs, slot, workers, calls, crashes>>

\* The coordinator process stops and is started again: promises and locks are
\* gone, the files stay.  A result that was not saved is asked for again.
CoordinatorCrash ==
    /\ crashes < MaxCrashes
    /\ crashes' = crashes + 1
    /\ slot' = NoClaim
    /\ workers' = [w \in Worker |->
                      IF workers[w].phase = "claiming" THEN Idle ELSE workers[w]]
    /\ waiting' = [r \in Request |->
                      IF waiting[r].phase = "done" THEN waiting[r] ELSE Ready]
    /\ UNCHANGED <<jobs, calls>>

-----------------------------------------------------------------------------
(* Claims. *)

\* Of the files that are queued or leased, the time that is left.
Listing ==
    [j \in Job |-> IF jobs[j].status \in {"queued", "leased"} /\ jobs[j].attempts < MaxClaims
                   THEN jobs[j].left ELSE NotListed]

\* claimNext, under 'claim-queue', reads the files.  Polls that find none are left out.
ClaimNextList(w) ==
    /\ workers[w].phase = "idle"
    /\ slot = NoClaim
    /\ Listing # Nothing
    /\ slot' = [worker |-> w, job |-> NoJob, awaited |-> TRUE, listed |-> Listing]
    /\ workers' = [workers EXCEPT ![w] = [Idle EXCEPT !.phase = "claiming"]]
    /\ UNCHANGED <<jobs, calls, waiting, crashes>>

Expired == {j \in Job : slot.listed[j] = 0}

\* The first job, in order of creation, that was queued or whose lease is over by now.
ClaimNextPick ==
    /\ slot.worker # None
    /\ slot.job = NoJob
    /\ \E j \in Expired :
          /\ \A k \in Expired : j <= k
          /\ slot' = [slot EXCEPT !.job = j, !.listed = Nothing]
    /\ UNCHANGED <<jobs, workers, calls, waiting, crashes>>

\* claimNext returns null: nothing to pick, or what was picked is not free (any more).
ClaimNextNull ==
    /\ slot.worker # None
    /\ IF slot.job = NoJob THEN Expired = {} ELSE ~Eligible(slot.job)
    /\ workers' = IF slot.awaited THEN [workers EXCEPT ![slot.worker] = Idle] ELSE workers
    /\ slot' = NoClaim
    /\ UNCHANGED <<jobs, calls, waiting, crashes>>

\* claimNext, under 'job:': the candidate is read again before it is leased.
\* The reply reaches the worker or is lost on the way.
ClaimNextLease ==
    LET j == slot.job
        w == slot.worker
    IN
    /\ j # NoJob
    /\ Eligible(j)
    /\ jobs' = [jobs EXCEPT ![j].status = "leased", ![j].worker = w,
                            ![j].attempts = NewToken(j), ![j].left = LeaseTicks]
    /\ \E delivered \in BOOLEAN :
          workers' = IF ~slot.awaited THEN workers
                     ELSE [workers EXCEPT ![w] =
                             IF delivered
                             THEN [phase |-> "executing", job |-> j,
                                   token |-> NewToken(j)]
                             ELSE Idle]
    /\ slot' = NoClaim
    /\ UNCHANGED <<calls, waiting, crashes>>

-----------------------------------------------------------------------------
(* The worker. *)

CallOf(w, op) == [op |-> op, worker |-> w, job |-> workers[w].job, token |-> workers[w].token]

Engaged(w) == workers[w].phase \in {"executing", "reporting", "reportingError"}

\* The heartbeat timer runs until the report is through.
SendHeartbeat(w) ==
    /\ Engaged(w)
    /\ calls' = calls \cup {CallOf(w, "heartbeat")}
    /\ UNCHANGED <<jobs, slot, workers, waiting, crashes>>

\* The task returned, verified or not: the result is reported.
ReportResult(w) ==
    /\ workers[w].phase = "executing"
    /\ \E op \in {"succeeded", "failed"} : calls' = calls \cup {CallOf(w, op)}
    /\ workers' = [workers EXCEPT ![w].phase = "reporting"]
    /\ UNCHANGED <<jobs, slot, waiting, crashes>>

\* The task threw, or the report did (refused, timed out, lost): the worker
\* reports an error instead, even when the first report is still on its way.
ReportError(w) ==
    /\ workers[w].phase \in {"executing", "reporting"}
    /\ calls' = calls \cup {CallOf(w, "failed")}
    /\ workers' = [workers EXCEPT ![w].phase = "reportingError"]
    /\ UNCHANGED <<jobs, slot, waiting, crashes>>

\* The error report came back or failed: either way the worker takes the next job.
ErrorReported(w) ==
    /\ workers[w].phase = "reportingError"
    /\ workers' = [workers EXCEPT ![w] = Idle]
    /\ UNCHANGED <<jobs, slot, calls, waiting, crashes>>

WorkerCrash(w) ==
    /\ workers[w].phase # "idle"
    /\ crashes < MaxCrashes
    /\ crashes' = crashes + 1
    /\ workers' = [workers EXCEPT ![w] = Idle]
    /\ slot' = IF slot.worker = w THEN [slot EXCEPT !.awaited = FALSE] ELSE slot
    /\ UNCHANGED <<jobs, calls, waiting>>

-----------------------------------------------------------------------------
(* What the coordinator does with a request that arrives. *)

Heartbeat(c) ==
    /\ c \in calls
    /\ c.op = "heartbeat"
    /\ HoldsLease(c)
    /\ jobs' = [jobs EXCEPT ![c.job].left = Renewed(c.job)]
    /\ calls' = calls \ {c}
    /\ UNCHANGED <<slot, workers, waiting, crashes>>

\* The reply ends the worker's turn unless it is lost or no longer awaited.
Complete(c) ==
    /\ c \in calls
    /\ c.op \in Closed
    /\ HoldsLease(c)
    /\ jobs' = [jobs EXCEPT ![c.job].status = c.op, ![c.job].left = 0]
    /\ calls' = calls \ {c}
    /\ workers' \in {workers} \cup
          {[workers EXCEPT ![w] = Idle] : w \in {v \in Worker :
              /\ v = c.worker
              /\ workers[v] = [phase |-> "reporting", job |-> c.job, token |-> c.token]}}
    /\ UNCHANGED <<slot, waiting, crashes>>

\* worker_lease_mismatch, worker_lease_expired, or the network lost the request.
CallFails(c) ==
    /\ c \in calls
    /\ calls' = calls \ {c}
    /\ UNCHANGED <<jobs, slot, workers, waiting, crashes>>

\* Time passes on every lease, in the files and in the listing.
Tick ==
    LET OneLess(n) == IF n > 0 THEN n - 1 ELSE n
    IN
    /\ \E j \in Job : jobs[j].left > 0 \/ slot.listed[j] > 0
    /\ jobs' = [j \in Job |-> [jobs[j] EXCEPT !.left = OneLess(@)]]
    /\ slot' = [slot EXCEPT !.listed = [j \in Job |-> OneLess(@[j])]]
    /\ UNCHANGED <<workers, calls, waiting, crashes>>

-----------------------------------------------------------------------------
Coordinator(r) == \/ ExecuteTask(r)
                  \/ GetOrEnqueueList(r)
                  \/ GetOrEnqueueEnqueue(r)
                  \/ WaitForResult(r)
                  \/ WaitTimesOut(r)
                  \/ ResultSaved(r)

WorkerStep(w) == \/ ClaimNextList(w)
                 \/ SendHeartbeat(w)
                 \/ ReportResult(w)
                 \/ ReportError(w)
                 \/ ErrorReported(w)
                 \/ WorkerCrash(w)

Next == \/ \E r \in Request : Coordinator(r)
        \/ CoordinatorCrash
        \/ \E w \in Worker : WorkerStep(w)
        \/ ClaimNextPick
        \/ ClaimNextLease
        \/ ClaimNextNull
        \/ \E c \in calls : Heartbeat(c) \/ Complete(c) \/ CallFails(c)
        \/ Tick

Spec == Init /\ [][Next]_vars

\* The coordinator's event loop ends the claim it listed for; a worker polls
\* again after every turn and ends every task; leases run out.
Fairness == /\ WF_vars(ClaimNextPick)
            /\ WF_vars(ClaimNextLease)
            /\ WF_vars(ClaimNextNull)
            /\ WF_vars(Tick)
            /\ \A w \in Worker : /\ SF_vars(ClaimNextList(w))
                                 /\ WF_vars(ReportResult(w) \/ ReportError(w))
                                 /\ WF_vars(ErrorReported(w))

FairSpec == Spec /\ Fairness

-----------------------------------------------------------------------------
(* Properties. *)

\* A lease token names one worker: whoever works with the token of the last
\* claim is the worker the job file names, and an earlier token is never
\* confused with it (the fencing that heartbeat and complete rest on).
TokenNamesHolder ==
    \A w \in Worker : Engaged(w) =>
        /\ workers[w].token <= jobs[workers[w].job].attempts
        /\ workers[w].token = jobs[workers[w].job].attempts
              => jobs[workers[w].job].worker = w

\* Planner, replanner and verifier never have two jobs for one request that may
\* both produce a result, whatever times out or restarts in between: listing
\* and enqueueing are separate awaits.
OneGoodJob ==
    \A r \in Reusing : \A j, k \in JobsOf(r) :
        jobs[j].status # "failed" /\ jobs[k].status # "failed" => j = k

\* The coordinator only acts on a result that the job file holds, and holds for
\* good: a job that a caller was told succeeded is not re-leased or overwritten.
DeliveredIsCommitted ==
    \A r \in Request : waiting[r].phase \in {"delivered", "done"} =>
        /\ jobs[waiting[r].job].status = "succeeded"
        /\ jobs[waiting[r].job].request = r

\* A closed job file is never written again, although a claim decides on it
\* from a listing it read before it got the job's lock.
ClosedStaysClosed ==
    [][\A j \in Job : jobs[j].status \in Closed => jobs'[j] = jobs[j]]_vars

\* Every job is closed by a report made under the last lease granted on it, and
\* the jobs live through the states that LeasedJobs allows.
Queue == INSTANCE LeasedJobs WITH
    lease <- [j \in Job |-> jobs[j].attempts],
    outcome <- [j \in Job |-> IF jobs[j].status \in {"queued", "leased"}
                              THEN "open" ELSE jobs[j].status],
    reports <- {<<c.job, c.token, c.op>> : c \in {d \in calls : d.op \in Closed}}

ImplementsQueue == Queue!Spec

\* A queued job is not forgotten: workers that crash, replies and reports that
\* are lost lead to another claim, until it is closed (or the bound is reached).
EveryJobIsClosed ==
    \A j \in Job : jobs[j].status = "queued"
        ~> jobs[j].status \in Closed \/ jobs[j].attempts = MaxClaims

=============================================================================
