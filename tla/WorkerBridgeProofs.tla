------------------------- MODULE WorkerBridgeProofs -------------------------
(***************************************************************************)
(* Theorems about the JSON worker bridge, for any number of workers,       *)
(* requests, jobs, claims and crashes.  The inductive invariant adds to    *)
(* the invariants of WorkerBridge what its processes know about each       *)
(* other: which job a slot, a worker or a promise refers to, and that a    *)
(* planner about to enqueue has seen no good job since.                    *)
(***************************************************************************)
EXTENDS WorkerBridge, TLAPS

\* An engaged worker and a promise refer to job files that exist, and the claim
\* slot is free or some worker's.
References ==
    /\ slot.worker = None => slot = NoClaim
    /\ \A w \in Worker : Engaged(w) =>
          workers[w].job \in Job /\ workers[w].token \in 1 .. MaxClaims
    /\ \A r \in Request : waiting[r].phase \in {"waiting", "delivered", "done"} =>
          waiting[r].job \in Job /\ jobs[waiting[r].job].request = r

\* Files not yet created are blank, and only a lease has time left.
Blanks ==
    /\ \A j \in Job : jobs[j].status = "absent" =>
          jobs[j].attempts = 0 /\ jobs[j].request = None
    /\ \A j \in Job : jobs[j].status # "leased" => jobs[j].left = 0

EnqueueingSawNone ==
    \A r \in Request : waiting[r].phase = "enqueueing" =>
        r \in Reusing /\ \A j \in JobsOf(r) : jobs[j].status = "failed"

Committed ==
    \A r \in Request : waiting[r].phase \in {"delivered", "done"} =>
        jobs[waiting[r].job].status = "succeeded"

LEMMA NothingIsAListing == Nothing \in [Job -> {NotListed} \cup 0 .. LeaseTicks]
BY DEF Nothing

LEMMA NoClaimIsASlot == NoClaim \in ClaimSlot
BY NothingIsAListing DEF NoClaim, ClaimSlot

LEMMA LeftUpdate ==
    ASSUME NEW f \in JobFile, NEW l \in 0 .. LeaseTicks
    PROVE  [f EXCEPT !.left = l] \in JobFile
BY WorkerBridgeAssumption DEF JobFile, JobStatus

LEMMA LeaseUpdate ==
    ASSUME NEW f \in JobFile, NEW w \in Worker, NEW n \in 0 .. MaxClaims,
           NEW l \in 0 .. LeaseTicks
    PROVE  [f EXCEPT !.status = "leased", !.worker = w, !.attempts = n,
                     !.left = l] \in JobFile
BY WorkerBridgeAssumption DEF JobFile, JobStatus

IInv == TypeOK /\ References /\ Blanks /\ EnqueueingSawNone
        /\ TokenNamesHolder /\ OneGoodJob /\ Committed

LEMMA ExecuteTaskKeeps ==
    ASSUME NEW r \in Request, IInv, ExecuteTask(r)
    PROVE  IInv'
<1> USE WorkerBridgeAssumption DEF Job, NoJob
<1>1. jobs' \in [Job -> JobFile]
  <2>1. PICK j \in Job : jobs' = [jobs EXCEPT ![j] = Queued(r)]
    BY DEF ExecuteTask, EnqueueFor
  <2>2. Queued(r) \in JobFile
    BY DEF JobFile, JobStatus, Queued
  <2> QED
    BY <2>1, <2>2 DEF IInv, TypeOK
<1>2. waiting' \in [Request -> Promise]
  BY DEF IInv, TypeOK, Promise, ExecuteTask, EnqueueFor, Queued
<1>3. References'
  <2>1. PICK j \in Job : /\ jobs[j].status = "absent"
                        /\ jobs' = [jobs EXCEPT ![j] = Queued(r)]
                        /\ waiting' = [waiting EXCEPT ![r] = [phase |-> "waiting", job |-> j]]
    BY DEF ExecuteTask, EnqueueFor
  <2>2. /\ \A k \in Job : k # j => jobs'[k] = jobs[k]
        /\ jobs'[j].request = r
    BY <2>1 DEF IInv, TypeOK, Queued
  <2>3. \A s \in Request : waiting[s].phase \in {"waiting", "delivered", "done"} =>
                               waiting[s].job # j
    BY <2>1 DEF IInv, References, Blanks
  <2> QED
    BY <2>1, <2>2, <2>3 DEF IInv, TypeOK, Promise, References, Engaged, NoClaim, ExecuteTask
<1>4. Blanks'
  BY DEF IInv, TypeOK, JobFile, JobStatus, Promise, WorkerLoop, Blanks, ExecuteTask, EnqueueFor, Queued
<1>5. EnqueueingSawNone'
  BY DEF IInv, TypeOK, JobFile, JobStatus, Promise, WorkerLoop, EnqueueingSawNone, JobsOf, Blanks, ExecuteTask, EnqueueFor, Queued
<1>6. TokenNamesHolder'
  BY DEF IInv, TypeOK, JobFile, JobStatus, Promise, WorkerLoop, References, Blanks, TokenNamesHolder, Engaged, ExecuteTask, EnqueueFor, Queued
<1>7. OneGoodJob'
  BY SMTT(30) DEF IInv, TypeOK, JobFile, JobStatus, Promise, WorkerLoop, OneGoodJob, JobsOf, EnqueueingSawNone, Blanks, ExecuteTask, EnqueueFor, Queued
<1>8. Committed'
  BY DEF IInv, TypeOK, JobFile, JobStatus, Promise, WorkerLoop, References, Committed, ExecuteTask, EnqueueFor, Queued
<1> QED
  BY <1>1, <1>2, <1>3, <1>4, <1>5, <1>6, <1>7, <1>8 DEF IInv, TypeOK, ExecuteTask

LEMMA GetOrEnqueueListKeeps ==
    ASSUME NEW r \in Request, IInv, GetOrEnqueueList(r)
    PROVE  IInv'
<1> USE WorkerBridgeAssumption DEF Job, NoJob
<1>1. waiting' \in [Request -> Promise]
  <2>1. CASE waiting' = [waiting EXCEPT ![r].phase = "enqueueing"]
    BY <2>1 DEF IInv, TypeOK, Promise
  <2>2. ASSUME NEW j \in Job,
               waiting' = [waiting EXCEPT ![r] = [phase |-> "waiting", job |-> j]]
        PROVE  waiting' \in [Request -> Promise]
    BY <2>2 DEF IInv, TypeOK, Promise
  <2> QED
    BY <2>1, <2>2 DEF GetOrEnqueueList, Reusable, JobsOf
<1>2. References'
  <2>1. CASE /\ Reusable(r) = {}
             /\ waiting' = [waiting EXCEPT ![r].phase = "enqueueing"]
    BY <2>1 DEF IInv, TypeOK, Promise, References, Engaged, NoClaim, GetOrEnqueueList
  <2>2. ASSUME NEW j \in Reusable(r),
               waiting' = [waiting EXCEPT ![r] = [phase |-> "waiting", job |-> j]]
        PROVE  References'
    BY <2>2 DEF IInv, TypeOK, Promise, References, Engaged, NoClaim, GetOrEnqueueList, Reusable, JobsOf
  <2> QED
    BY <2>1, <2>2 DEF GetOrEnqueueList
<1>3. EnqueueingSawNone'
  <2>1. CASE /\ Reusable(r) = {}
             /\ waiting' = [waiting EXCEPT ![r].phase = "enqueueing"]
    <3>1. \A j \in JobsOf(r) : jobs[j].status = "failed"
      BY <2>1 DEF IInv, TypeOK, JobFile, JobStatus, Blanks, Reusable, JobsOf
    <3> QED
      BY <2>1, <3>1 DEF IInv, TypeOK, Promise, EnqueueingSawNone, JobsOf, GetOrEnqueueList
  <2>2. ASSUME NEW j \in Reusable(r),
               waiting' = [waiting EXCEPT ![r] = [phase |-> "waiting", job |-> j]]
        PROVE  EnqueueingSawNone'
    BY <2>2 DEF IInv, TypeOK, Promise, EnqueueingSawNone, GetOrEnqueueList, Reusable, JobsOf
  <2> QED
    BY <2>1, <2>2 DEF GetOrEnqueueList
<1>4. Committed'
  <2>1. CASE /\ Reusable(r) = {}
             /\ waiting' = [waiting EXCEPT ![r].phase = "enqueueing"]
    BY <2>1 DEF IInv, TypeOK, Promise, Committed, GetOrEnqueueList
  <2>2. ASSUME NEW j \in Reusable(r),
               waiting' = [waiting EXCEPT ![r] = [phase |-> "waiting", job |-> j]]
        PROVE  Committed'
    BY <2>2 DEF IInv, TypeOK, Promise, Committed, GetOrEnqueueList, Reusable, JobsOf
  <2> QED
    BY <2>1, <2>2 DEF GetOrEnqueueList
<1> QED
  BY <1>1, <1>2, <1>3, <1>4 DEF IInv, TypeOK, GetOrEnqueueList, Blanks, References, TokenNamesHolder, Engaged, OneGoodJob, JobsOf, EnqueueingSawNone

LEMMA GetOrEnqueueEnqueueKeeps ==
    ASSUME NEW r \in Request, IInv, GetOrEnqueueEnqueue(r)
    PROVE  IInv'
<1> USE WorkerBridgeAssumption DEF Job, NoJob
<1>1. jobs' \in [Job -> JobFile]
  <2>1. PICK j \in Job : jobs' = [jobs EXCEPT ![j] = Queued(r)]
    BY DEF GetOrEnqueueEnqueue, EnqueueFor
  <2>2. Queued(r) \in JobFile
    BY DEF JobFile, JobStatus, Queued
  <2> QED
    BY <2>1, <2>2 DEF IInv, TypeOK
<1>2. waiting' \in [Request -> Promise]
  BY DEF IInv, TypeOK, Promise, GetOrEnqueueEnqueue, EnqueueFor, Queued
<1>3. References'
  <2>1. PICK j \in Job : /\ jobs[j].status = "absent"
                        /\ jobs' = [jobs EXCEPT ![j] = Queued(r)]
                        /\ waiting' = [waiting EXCEPT ![r] = [phase |-> "waiting", job |-> j]]
    BY DEF GetOrEnqueueEnqueue, EnqueueFor
  <2>2. /\ \A k \in Job : k # j => jobs'[k] = jobs[k]
        /\ jobs'[j].request = r
    BY <2>1 DEF IInv, TypeOK, Queued
  <2>3. \A s \in Request : waiting[s].phase \in {"waiting", "delivered", "done"} =>
                               waiting[s].job # j
    BY <2>1 DEF IInv, References, Blanks
  <2> QED
    BY <2>1, <2>2, <2>3 DEF IInv, TypeOK, Promise, References, Engaged, NoClaim, GetOrEnqueueEnqueue
<1>4. Blanks'
  BY DEF IInv, TypeOK, JobFile, JobStatus, Promise, WorkerLoop, Blanks, GetOrEnqueueEnqueue, EnqueueFor, Queued
<1>5. EnqueueingSawNone'
  BY DEF IInv, TypeOK, JobFile, JobStatus, Promise, WorkerLoop, EnqueueingSawNone, JobsOf, Blanks, GetOrEnqueueEnqueue, EnqueueFor, Queued
<1>6. TokenNamesHolder'
  BY DEF IInv, TypeOK, JobFile, JobStatus, Promise, WorkerLoop, References, Blanks, TokenNamesHolder, Engaged, GetOrEnqueueEnqueue, EnqueueFor, Queued
<1>7. OneGoodJob'
  BY SMTT(30) DEF IInv, TypeOK, JobFile, JobStatus, Promise, WorkerLoop, OneGoodJob, JobsOf, EnqueueingSawNone, Blanks, GetOrEnqueueEnqueue, EnqueueFor, Queued
<1>8. Committed'
  BY DEF IInv, TypeOK, JobFile, JobStatus, Promise, WorkerLoop, References, Committed, GetOrEnqueueEnqueue, EnqueueFor, Queued
<1> QED
  BY <1>1, <1>2, <1>3, <1>4, <1>5, <1>6, <1>7, <1>8 DEF IInv, TypeOK, GetOrEnqueueEnqueue

LEMMA WaitForResultKeeps ==
    ASSUME NEW r \in Request, IInv, WaitForResult(r)
    PROVE  IInv'
<1> USE WorkerBridgeAssumption DEF Job, NoJob
<1>1. waiting' \in [Request -> Promise]
  BY DEF IInv, TypeOK, Promise, WaitForResult, Passed, Ready, Closed
<1>2. References'
  BY DEF IInv, TypeOK, JobFile, JobStatus, Promise, WorkerLoop, References, Engaged, NoClaim, WaitForResult, Passed, Ready, Closed
<1>3. EnqueueingSawNone'
  BY DEF IInv, TypeOK, JobFile, JobStatus, Promise, WorkerLoop, EnqueueingSawNone, JobsOf, Blanks, WaitForResult, Passed, Ready, Closed
<1>4. Committed'
  BY DEF IInv, TypeOK, JobFile, JobStatus, Promise, WorkerLoop, References, Committed, WaitForResult, Passed, Ready, Closed
<1> QED
  BY <1>1, <1>2, <1>3, <1>4 DEF IInv, TypeOK, WaitForResult, Blanks, References, TokenNamesHolder, Engaged, OneGoodJob, JobsOf, EnqueueingSawNone

LEMMA WaitTimesOutKeeps ==
    ASSUME NEW r \in Request, IInv, WaitTimesOut(r)
    PROVE  IInv'
<1> USE WorkerBridgeAssumption DEF Job, NoJob
<1>1. waiting' \in [Request -> Promise]
  BY DEF IInv, TypeOK, Promise, WaitTimesOut, Ready
<1>2. References'
  BY DEF IInv, TypeOK, JobFile, JobStatus, Promise, WorkerLoop, References, Engaged, NoClaim, WaitTimesOut, Ready
<1>3. EnqueueingSawNone'
  BY DEF IInv, TypeOK, JobFile, JobStatus, Promise, WorkerLoop, EnqueueingSawNone, JobsOf, Blanks, WaitTimesOut, Ready
<1>4. Committed'
  BY DEF IInv, TypeOK, JobFile, JobStatus, Promise, WorkerLoop, References, Committed, WaitTimesOut, Ready
<1> QED
  BY <1>1, <1>2, <1>3, <1>4 DEF IInv, TypeOK, WaitTimesOut, Blanks, References, TokenNamesHolder, Engaged, OneGoodJob, JobsOf, EnqueueingSawNone

LEMMA ResultSavedKeeps ==
    ASSUME NEW r \in Request, IInv, ResultSaved(r)
    PROVE  IInv'
<1> USE WorkerBridgeAssumption DEF Job, NoJob
<1>1. waiting' \in [Request -> Promise]
  BY DEF IInv, TypeOK, Promise, ResultSaved
<1>2. References'
  BY DEF IInv, TypeOK, JobFile, JobStatus, Promise, WorkerLoop, References, Engaged, NoClaim, ResultSaved
<1>3. EnqueueingSawNone'
  BY DEF IInv, TypeOK, JobFile, JobStatus, Promise, WorkerLoop, EnqueueingSawNone, JobsOf, Blanks, ResultSaved
<1>4. Committed'
  BY DEF IInv, TypeOK, JobFile, JobStatus, Promise, WorkerLoop, References, Committed, ResultSaved
<1> QED
  BY <1>1, <1>2, <1>3, <1>4 DEF IInv, TypeOK, ResultSaved, Blanks, References, TokenNamesHolder, Engaged, OneGoodJob, JobsOf, EnqueueingSawNone

LEMMA CoordinatorCrashKeeps ==
    ASSUME IInv, CoordinatorCrash
    PROVE  IInv'
<1> USE WorkerBridgeAssumption DEF Job, NoJob
<1>1. slot' \in ClaimSlot
  BY NoClaimIsASlot DEF CoordinatorCrash
<1>2. workers' \in [Worker -> WorkerLoop]
  BY DEF IInv, TypeOK, WorkerLoop, CoordinatorCrash, Ready, NoClaim, Idle, References, Engaged
<1>3. waiting' \in [Request -> Promise]
  BY DEF IInv, TypeOK, Promise, CoordinatorCrash, Ready, NoClaim, Idle
<1>4. crashes' \in 0 .. MaxCrashes
  BY DEF IInv, TypeOK, CoordinatorCrash, Ready, NoClaim, Idle
<1>5. References'
  BY DEF IInv, TypeOK, JobFile, JobStatus, Promise, WorkerLoop, References, Engaged, NoClaim, CoordinatorCrash, Ready, Idle
<1>6. EnqueueingSawNone'
  BY DEF IInv, TypeOK, JobFile, JobStatus, Promise, WorkerLoop, EnqueueingSawNone, JobsOf, Blanks, CoordinatorCrash, Ready, NoClaim, Idle
<1>7. TokenNamesHolder'
  BY DEF IInv, TypeOK, JobFile, JobStatus, Promise, WorkerLoop, References, Blanks, TokenNamesHolder, Engaged, CoordinatorCrash, Ready, NoClaim, Idle
<1>8. Committed'
  BY DEF IInv, TypeOK, JobFile, JobStatus, Promise, WorkerLoop, References, Committed, CoordinatorCrash, Ready, NoClaim, Idle
<1> QED
  BY <1>1, <1>2, <1>3, <1>4, <1>5, <1>6, <1>7, <1>8 DEF IInv, TypeOK, CoordinatorCrash, Blanks, OneGoodJob, JobsOf, EnqueueingSawNone

LEMMA ClaimNextListKeeps ==
    ASSUME NEW w \in Worker, IInv, ClaimNextList(w)
    PROVE  IInv'
<1> USE WorkerBridgeAssumption DEF Job, NoJob
<1>1. slot' \in ClaimSlot
  <2>1. Listing \in [Job -> {NotListed} \cup 0 .. LeaseTicks]
    BY DEF Listing, IInv, TypeOK, JobFile
  <2> QED
    BY <2>1 DEF ClaimSlot, ClaimNextList, IInv, TypeOK
<1>2. workers' \in [Worker -> WorkerLoop]
  <2>1. [Idle EXCEPT !.phase = "claiming"] \in WorkerLoop
    BY DEF WorkerLoop, Idle
  <2> QED
    BY <2>1 DEF IInv, TypeOK, ClaimNextList
<1>3. slot'.worker # None
  BY DEF ClaimNextList
<1>4. \A v \in Worker : Engaged(v)' => Engaged(v) /\ workers'[v] = workers[v]
  BY DEF IInv, TypeOK, Engaged, Idle, ClaimNextList
<1>5. UNCHANGED <<jobs, calls, waiting, crashes>>
  BY DEF ClaimNextList
<1>6. References'
  BY <1>3, <1>4, <1>5 DEF IInv, References
<1>7. TokenNamesHolder'
  BY <1>4, <1>5 DEF IInv, TokenNamesHolder
<1> QED
  BY <1>1, <1>2, <1>5, <1>6, <1>7 DEF IInv, TypeOK, Blanks, EnqueueingSawNone, JobsOf,
     OneGoodJob, Committed

LEMMA ClaimNextPickKeeps ==
    ASSUME IInv, ClaimNextPick
    PROVE  IInv'
<1> USE WorkerBridgeAssumption DEF Job, NoJob
<1>1. slot' \in ClaimSlot
  BY NothingIsAListing DEF IInv, TypeOK, ClaimSlot, ClaimNextPick, Expired
<1>2. slot'.worker # None
  BY DEF IInv, TypeOK, ClaimSlot, ClaimNextPick
<1> QED
  BY <1>1, <1>2 DEF IInv, TypeOK, ClaimNextPick, References, Engaged, Blanks,
     EnqueueingSawNone, JobsOf, TokenNamesHolder, OneGoodJob, Committed

LEMMA SendHeartbeatKeeps ==
    ASSUME NEW w \in Worker, IInv, SendHeartbeat(w)
    PROVE  IInv'
<1> USE WorkerBridgeAssumption DEF Job, NoJob
<1>1. calls' \in SUBSET Call
  BY DEF IInv, TypeOK, Call, SendHeartbeat, CallOf, References, Engaged
<1> QED
  BY <1>1 DEF IInv, TypeOK, SendHeartbeat, References, Engaged, NoClaim, Blanks, EnqueueingSawNone, JobsOf, TokenNamesHolder, OneGoodJob, Committed

LEMMA ReportResultKeeps ==
    ASSUME NEW w \in Worker, IInv, ReportResult(w)
    PROVE  IInv'
<1> USE WorkerBridgeAssumption DEF Job, NoJob
<1>1. calls' \in SUBSET Call
  BY DEF IInv, TypeOK, Call, ReportResult, CallOf, References, Engaged
<1>2. workers' \in [Worker -> WorkerLoop]
  BY DEF IInv, TypeOK, WorkerLoop, ReportResult, CallOf, References, Engaged
<1>3. References'
  BY DEF IInv, TypeOK, JobFile, JobStatus, Promise, WorkerLoop, References, Engaged, NoClaim, ReportResult, CallOf
<1>4. TokenNamesHolder'
  BY DEF IInv, TypeOK, JobFile, JobStatus, Promise, WorkerLoop, References, Blanks, TokenNamesHolder, Engaged, ReportResult, CallOf
<1> QED
  BY <1>1, <1>2, <1>3, <1>4 DEF IInv, TypeOK, ReportResult, Blanks, EnqueueingSawNone, JobsOf, OneGoodJob, Committed

LEMMA ReportErrorKeeps ==
    ASSUME NEW w \in Worker, IInv, ReportError(w)
    PROVE  IInv'
<1> USE WorkerBridgeAssumption DEF Job, NoJob
<1>1. calls' \in SUBSET Call
  BY DEF IInv, TypeOK, Call, ReportError, CallOf, References, Engaged
<1>2. workers' \in [Worker -> WorkerLoop]
  BY DEF IInv, TypeOK, WorkerLoop, ReportError, CallOf, References, Engaged
<1>3. References'
  BY DEF IInv, TypeOK, JobFile, JobStatus, Promise, WorkerLoop, References, Engaged, NoClaim, ReportError, CallOf
<1>4. TokenNamesHolder'
  BY DEF IInv, TypeOK, JobFile, JobStatus, Promise, WorkerLoop, References, Blanks, TokenNamesHolder, Engaged, ReportError, CallOf
<1> QED
  BY <1>1, <1>2, <1>3, <1>4 DEF IInv, TypeOK, ReportError, Blanks, EnqueueingSawNone, JobsOf, OneGoodJob, Committed

LEMMA ErrorReportedKeeps ==
    ASSUME NEW w \in Worker, IInv, ErrorReported(w)
    PROVE  IInv'
<1> USE WorkerBridgeAssumption DEF Job, NoJob
<1>1. workers' \in [Worker -> WorkerLoop]
  BY DEF IInv, TypeOK, WorkerLoop, ErrorReported, Idle, References, Engaged
<1>2. References'
  BY DEF IInv, TypeOK, JobFile, JobStatus, Promise, WorkerLoop, References, Engaged, NoClaim, ErrorReported, Idle
<1>3. TokenNamesHolder'
  BY DEF IInv, TypeOK, JobFile, JobStatus, Promise, WorkerLoop, References, Blanks, TokenNamesHolder, Engaged, ErrorReported, Idle
<1> QED
  BY <1>1, <1>2, <1>3 DEF IInv, TypeOK, ErrorReported, Blanks, EnqueueingSawNone, JobsOf, OneGoodJob, Committed

LEMMA WorkerCrashKeeps ==
    ASSUME NEW w \in Worker, IInv, WorkerCrash(w)
    PROVE  IInv'
<1> USE WorkerBridgeAssumption DEF Job, NoJob
<1>1. slot' \in ClaimSlot
  BY DEF IInv, TypeOK, ClaimSlot, WorkerCrash, Idle, NoClaim, References, Engaged
<1>2. workers' \in [Worker -> WorkerLoop]
  BY DEF IInv, TypeOK, WorkerLoop, WorkerCrash, Idle, NoClaim, References, Engaged
<1>3. crashes' \in 0 .. MaxCrashes
  BY DEF IInv, TypeOK, WorkerCrash, Idle, NoClaim
<1>4. References'
  <2>1. slot'.worker = None => slot' = NoClaim
    BY DEF IInv, TypeOK, ClaimSlot, References, WorkerCrash
  <2>2. \A v \in Worker : Engaged(v)' => Engaged(v) /\ workers'[v] = workers[v]
    BY DEF IInv, TypeOK, Engaged, Idle, WorkerCrash
  <2> QED
    BY <2>1, <2>2 DEF IInv, References, WorkerCrash
<1>5. TokenNamesHolder'
  BY DEF IInv, TypeOK, JobFile, JobStatus, Promise, WorkerLoop, References, Blanks, TokenNamesHolder, Engaged, WorkerCrash, Idle, NoClaim
<1> QED
  BY <1>1, <1>2, <1>3, <1>4, <1>5 DEF IInv, TypeOK, WorkerCrash, Blanks, EnqueueingSawNone, JobsOf, OneGoodJob, Committed

LEMMA ClaimNextLeaseKeeps ==
    ASSUME IInv, ClaimNextLease
    PROVE  IInv'
<1> USE WorkerBridgeAssumption DEF Job, NoJob
<1>1. jobs' \in [Job -> JobFile]
  <2>1. slot.worker \in Worker /\ slot.job \in Job
    BY DEF IInv, TypeOK, ClaimSlot, References, ClaimNextLease, NoClaim
  <2>2. NewToken(slot.job) \in 0 .. MaxClaims /\ LeaseTicks \in 0 .. LeaseTicks
    BY <2>1 DEF IInv, TypeOK, JobFile, ClaimNextLease, Eligible, Claimable, NewToken
  <2>3. [jobs[slot.job] EXCEPT !.status = "leased", !.worker = slot.worker,
                               !.attempts = NewToken(slot.job), !.left = LeaseTicks] \in JobFile
    BY <2>1, <2>2, LeaseUpdate DEF IInv, TypeOK
  <2> QED
    BY <2>1, <2>3 DEF IInv, TypeOK, ClaimNextLease
<1>2. workers' \in [Worker -> WorkerLoop]
  <2>1. slot.worker \in Worker /\ slot.job \in Job
    BY DEF IInv, TypeOK, ClaimSlot, References, ClaimNextLease, NoClaim
  <2>2. NewToken(slot.job) \in 1 .. MaxClaims
    BY <2>1 DEF IInv, TypeOK, JobFile, ClaimNextLease, Eligible, Claimable, NewToken
  <2>3. /\ Idle \in WorkerLoop
        /\ [phase |-> "executing", job |-> slot.job, token |-> NewToken(slot.job)] \in WorkerLoop
    BY <2>1, <2>2 DEF WorkerLoop, Idle
  <2> QED
    BY <2>1, <2>3 DEF IInv, TypeOK, ClaimNextLease
<1>3. slot' \in ClaimSlot
  BY NoClaimIsASlot DEF ClaimNextLease
<1>4. References'
  <2>1. slot.worker \in Worker /\ slot.job \in Job
    BY DEF IInv, TypeOK, ClaimSlot, References, ClaimNextLease, NoClaim
  <2>2. /\ jobs'[slot.job].attempts = NewToken(slot.job)
        /\ jobs'[slot.job].worker = slot.worker
        /\ \A k \in Job : /\ k # slot.job => jobs'[k] = jobs[k]
                          /\ jobs'[k].request = jobs[k].request
    BY <2>1 DEF IInv, TypeOK, JobFile, ClaimNextLease
  <2>3. NewToken(slot.job) \in 1 .. MaxClaims /\ NewToken(slot.job) > jobs[slot.job].attempts
    BY <2>1 DEF IInv, TypeOK, JobFile, ClaimNextLease, Eligible, Claimable, NewToken
  <2>4. \A v \in Worker : Engaged(v)' =>
           \/ Engaged(v) /\ workers'[v] = workers[v]
           \/ v = slot.worker /\ workers'[v].job = slot.job /\ workers'[v].token = NewToken(slot.job)
    BY <2>1 DEF IInv, TypeOK, Engaged, Idle, ClaimNextLease
  <2>5. slot' = NoClaim /\ waiting' = waiting
    BY DEF ClaimNextLease
  <2> QED
    BY <2>1, <2>2, <2>3, <2>4, <2>5 DEF IInv, References
<1>a. /\ slot.job \in Job
      /\ jobs[slot.job].status \in {"queued", "leased"}
      /\ jobs'[slot.job].status = "leased"
      /\ \A k \in Job : /\ k # slot.job => jobs'[k] = jobs[k]
                        /\ jobs'[k].request = jobs[k].request
  <2>1. slot.job \in Job
    BY DEF IInv, TypeOK, ClaimSlot, ClaimNextLease
  <2>2. jobs[slot.job].status \in {"queued", "leased"}
    BY DEF ClaimNextLease, Eligible, Claimable
  <2>3. /\ jobs'[slot.job].status = "leased"
        /\ \A k \in Job : /\ k # slot.job => jobs'[k] = jobs[k]
                          /\ jobs'[k].request = jobs[k].request
    BY <2>1 DEF IInv, TypeOK, JobFile, ClaimNextLease
  <2> QED
    BY <2>1, <2>2, <2>3
<1>5. Blanks'
  BY <1>a DEF IInv, Blanks
<1>6. EnqueueingSawNone'
  BY SMTT(30) DEF IInv, TypeOK, JobFile, JobStatus, Promise, WorkerLoop, EnqueueingSawNone, JobsOf, Blanks, ClaimNextLease, Eligible, Claimable, NewToken, Idle, NoClaim
<1>7. TokenNamesHolder'
  <2>1. slot.worker \in Worker /\ slot.job \in Job
    BY DEF IInv, TypeOK, ClaimSlot, References, ClaimNextLease, NoClaim
  <2>2. /\ jobs'[slot.job].attempts = NewToken(slot.job)
        /\ jobs'[slot.job].worker = slot.worker
        /\ \A k \in Job : /\ k # slot.job => jobs'[k] = jobs[k]
                          /\ jobs'[k].request = jobs[k].request
    BY <2>1 DEF IInv, TypeOK, JobFile, ClaimNextLease
  <2>3. NewToken(slot.job) \in 1 .. MaxClaims /\ NewToken(slot.job) > jobs[slot.job].attempts
    BY <2>1 DEF IInv, TypeOK, JobFile, ClaimNextLease, Eligible, Claimable, NewToken
  <2>4. \A v \in Worker : Engaged(v)' =>
           \/ Engaged(v) /\ workers'[v] = workers[v]
           \/ v = slot.worker /\ workers'[v].job = slot.job /\ workers'[v].token = NewToken(slot.job)
    BY <2>1 DEF IInv, TypeOK, Engaged, Idle, ClaimNextLease
  <2>5. \A v \in Worker : Engaged(v) => workers[v].token <= jobs[workers[v].job].attempts
                                      /\ workers[v].job \in Job /\ workers[v].token \in Nat
    BY DEF IInv, References, TokenNamesHolder
  <2>6. jobs[slot.job].attempts \in Nat
    BY <2>1 DEF IInv, TypeOK, JobFile
  <2> QED
    BY <2>1, <2>2, <2>3, <2>4, <2>5, <2>6 DEF IInv, TokenNamesHolder
<1>8. OneGoodJob'
  <2>1. \A r : JobsOf(r)' = JobsOf(r)
    BY <1>a DEF JobsOf
  <2>2. \A j \in Job : jobs'[j].status # "failed" => jobs[j].status # "failed"
    BY <1>a
  <2>3. \A r : JobsOf(r) \subseteq Job
    BY DEF JobsOf
  <2>4. OneGoodJob
    BY DEF IInv
  <2> QED
    BY <2>1, <2>2, <2>3, <2>4 DEF OneGoodJob
<1>9. Committed'
  <2>1. \A j \in Job : jobs[j].status = "succeeded" => jobs'[j] = jobs[j]
    BY DEF IInv, TypeOK, ClaimNextLease, Eligible, Claimable
  <2>2. waiting' = waiting
    BY DEF ClaimNextLease
  <2> QED
    BY <2>1, <2>2 DEF IInv, References, Committed
<1> QED
  BY <1>1, <1>2, <1>3, <1>4, <1>5, <1>6, <1>7, <1>8, <1>9 DEF IInv, TypeOK, ClaimNextLease

LEMMA ClaimNextNullKeeps ==
    ASSUME IInv, ClaimNextNull
    PROVE  IInv'
<1> USE WorkerBridgeAssumption DEF Job, NoJob
<1>1. workers' \in [Worker -> WorkerLoop]
  <2>1. Idle \in WorkerLoop
    BY DEF WorkerLoop, Idle
  <2> QED
    BY <2>1 DEF IInv, TypeOK, ClaimNextNull
<1>2. slot' \in ClaimSlot
  BY NoClaimIsASlot DEF ClaimNextNull
<1>3. \A v \in Worker : Engaged(v)' => Engaged(v) /\ workers'[v] = workers[v]
  BY DEF IInv, TypeOK, Engaged, Idle, ClaimNextNull
<1>4. slot' = NoClaim /\ UNCHANGED <<jobs, calls, waiting, crashes>>
  BY DEF ClaimNextNull
<1>5. References'
  BY <1>3, <1>4 DEF IInv, References
<1>6. TokenNamesHolder'
  BY <1>3, <1>4 DEF IInv, TokenNamesHolder
<1> QED
  BY <1>1, <1>2, <1>4, <1>5, <1>6 DEF IInv, TypeOK, Blanks, EnqueueingSawNone, JobsOf,
     OneGoodJob, Committed

LEMMA HeartbeatKeeps ==
    ASSUME NEW c \in calls, IInv, Heartbeat(c)
    PROVE  IInv'
<1> USE WorkerBridgeAssumption DEF Job, NoJob
<1>1. jobs' \in [Job -> JobFile]
  <2>1. c.job \in Job
    BY DEF IInv, TypeOK, Call, Heartbeat
  <2>2. jobs[c.job] \in JobFile /\ LeaseTicks \in 0 .. LeaseTicks
    BY <2>1 DEF IInv, TypeOK
  <2> QED
    BY <2>1, <2>2, LeftUpdate DEF IInv, TypeOK, Heartbeat, Renewed
<1>2. calls' \in SUBSET Call
  BY DEF IInv, TypeOK, Call, Heartbeat, HoldsLease, Renewed, References, Engaged
<1>3. References'
  BY DEF IInv, TypeOK, JobFile, JobStatus, Promise, WorkerLoop, References, Engaged, NoClaim, Heartbeat, HoldsLease, Renewed, Call
<1>4. Blanks'
  BY DEF IInv, TypeOK, JobFile, JobStatus, Promise, WorkerLoop, Blanks, Heartbeat, HoldsLease, Renewed, Call
<1>5. EnqueueingSawNone'
  BY DEF IInv, TypeOK, JobFile, JobStatus, Promise, WorkerLoop, EnqueueingSawNone, JobsOf, Blanks, Heartbeat, HoldsLease, Renewed, Call
<1>6. TokenNamesHolder'
  BY DEF IInv, TypeOK, JobFile, JobStatus, Promise, WorkerLoop, References, Blanks, TokenNamesHolder, Engaged, Heartbeat, HoldsLease, Renewed, Call
<1>7. OneGoodJob'
  BY SMTT(30) DEF IInv, TypeOK, JobFile, JobStatus, Promise, WorkerLoop, OneGoodJob, JobsOf, EnqueueingSawNone, Blanks, Heartbeat, HoldsLease, Renewed, Call
<1>8. Committed'
  BY DEF IInv, TypeOK, JobFile, JobStatus, Promise, WorkerLoop, References, Committed, Heartbeat, HoldsLease, Renewed, Call
<1> QED
  BY <1>1, <1>2, <1>3, <1>4, <1>5, <1>6, <1>7, <1>8 DEF IInv, TypeOK, Heartbeat

LEMMA CompleteKeeps ==
    ASSUME NEW c \in calls, IInv, Complete(c)
    PROVE  IInv'
<1> USE WorkerBridgeAssumption DEF Job, NoJob
<1>1. jobs' \in [Job -> JobFile]
  BY DEF IInv, TypeOK, JobFile, JobStatus, Complete, HoldsLease, Closed, Call, Idle
<1>2. calls' \in SUBSET Call
  BY DEF IInv, TypeOK, Call, Complete, HoldsLease, Closed, Idle, References, Engaged
<1>3. workers' \in [Worker -> WorkerLoop]
  BY DEF IInv, TypeOK, WorkerLoop, Complete, HoldsLease, Closed, Call, Idle, References, Engaged
<1>4. References'
  <2>1. \A j \in Job : /\ jobs'[j].attempts = jobs[j].attempts
                       /\ jobs'[j].worker = jobs[j].worker
                       /\ jobs'[j].request = jobs[j].request
                       /\ jobs'[j].status # jobs[j].status => jobs[j].status = "leased"
    BY DEF IInv, TypeOK, JobFile, Call, Complete, HoldsLease
  <2>2. \A v \in Worker : Engaged(v)' => Engaged(v) /\ workers'[v] = workers[v]
    BY DEF IInv, TypeOK, Engaged, Idle, Complete
  <2>3. slot' = slot /\ waiting' = waiting
    BY DEF Complete
  <2> QED
    BY <2>1, <2>2, <2>3 DEF IInv, References
<1>5. Blanks'
  BY DEF IInv, TypeOK, JobFile, JobStatus, Promise, WorkerLoop, Blanks, Complete, HoldsLease, Closed, Call, Idle
<1>6. EnqueueingSawNone'
  BY DEF IInv, TypeOK, JobFile, JobStatus, Promise, WorkerLoop, EnqueueingSawNone, JobsOf, Blanks, Complete, HoldsLease, Closed, Call, Idle
<1>7. TokenNamesHolder'
  <2>1. \A j \in Job : /\ jobs'[j].attempts = jobs[j].attempts
                       /\ jobs'[j].worker = jobs[j].worker
                       /\ jobs'[j].request = jobs[j].request
                       /\ jobs'[j].status # jobs[j].status => jobs[j].status = "leased"
    BY DEF IInv, TypeOK, JobFile, Call, Complete, HoldsLease
  <2>2. \A v \in Worker : Engaged(v)' => Engaged(v) /\ workers'[v] = workers[v]
    BY DEF IInv, TypeOK, Engaged, Idle, Complete
  <2>3. slot' = slot /\ waiting' = waiting
    BY DEF Complete
  <2> QED
    BY <2>1, <2>2 DEF IInv, References, TokenNamesHolder
<1>8. OneGoodJob'
  <2>1. \A j \in Job : /\ jobs'[j].attempts = jobs[j].attempts
                       /\ jobs'[j].worker = jobs[j].worker
                       /\ jobs'[j].request = jobs[j].request
                       /\ jobs'[j].status # jobs[j].status => jobs[j].status = "leased"
    BY DEF IInv, TypeOK, JobFile, Call, Complete, HoldsLease
  <2>2. \A v \in Worker : Engaged(v)' => Engaged(v) /\ workers'[v] = workers[v]
    BY DEF IInv, TypeOK, Engaged, Idle, Complete
  <2>3. slot' = slot /\ waiting' = waiting
    BY DEF Complete
  <2> QED
    BY <2>1 DEF IInv, OneGoodJob, JobsOf
<1>9. Committed'
  BY DEF IInv, TypeOK, JobFile, JobStatus, Promise, WorkerLoop, References, Committed, Complete, HoldsLease, Closed, Call, Idle
<1> QED
  BY <1>1, <1>2, <1>3, <1>4, <1>5, <1>6, <1>7, <1>8, <1>9 DEF IInv, TypeOK, Complete

LEMMA CallFailsKeeps ==
    ASSUME NEW c \in calls, IInv, CallFails(c)
    PROVE  IInv'
<1> USE WorkerBridgeAssumption DEF Job, NoJob
<1>1. calls' \in SUBSET Call
  BY DEF IInv, TypeOK, Call, CallFails, References, Engaged
<1> QED
  BY <1>1 DEF IInv, TypeOK, CallFails, References, Engaged, NoClaim, Blanks, EnqueueingSawNone, JobsOf, TokenNamesHolder, OneGoodJob, Committed

LEMMA TickKeeps ==
    ASSUME IInv, Tick
    PROVE  IInv'
<1> USE WorkerBridgeAssumption DEF Job, NoJob
<1>1. jobs' \in [Job -> JobFile]
  <2>1. \A j \in Job : [jobs[j] EXCEPT !.left = IF @ > 0 THEN @ - 1 ELSE @] \in JobFile
    <3>1. ASSUME NEW j \in Job
          PROVE  (IF jobs[j].left > 0 THEN jobs[j].left - 1 ELSE jobs[j].left) \in 0 .. LeaseTicks
      BY <3>1 DEF IInv, TypeOK, JobFile
    <3> QED
      BY <3>1, LeftUpdate DEF IInv, TypeOK
  <2> QED
    BY <2>1 DEF Tick
<1>2. References'
  <2>1. slot'.worker = None => slot' = NoClaim
    <3>1. slot = NoClaim => slot'.listed = Nothing
      BY DEF Tick, NoClaim, Nothing, NotListed
    <3>2. /\ slot'.worker = slot.worker
          /\ slot' = [slot EXCEPT !.listed = slot'.listed]
      BY DEF IInv, TypeOK, ClaimSlot, Tick
    <3> QED
      BY <3>1, <3>2 DEF IInv, References, NoClaim
  <2>2. \A j \in Job : jobs'[j].request = jobs[j].request
    BY DEF IInv, TypeOK, JobFile, Tick
  <2> QED
    BY <2>1, <2>2 DEF IInv, References, Engaged, Tick
<1>3. Blanks'
  <2>1. ASSUME NEW j \in Job
        PROVE  /\ jobs'[j].status = jobs[j].status
               /\ jobs'[j].attempts = jobs[j].attempts
               /\ jobs'[j].request = jobs[j].request
               /\ jobs[j].left = 0 => jobs'[j].left = 0
    BY <2>1 DEF IInv, TypeOK, JobFile, Tick
  <2> QED
    BY <2>1 DEF IInv, Blanks
<1>4. EnqueueingSawNone'
  BY DEF IInv, TypeOK, JobFile, JobStatus, Promise, WorkerLoop, EnqueueingSawNone, JobsOf, Blanks, Tick
<1>5. TokenNamesHolder'
  BY DEF IInv, TypeOK, JobFile, JobStatus, Promise, WorkerLoop, References, Blanks, TokenNamesHolder, Engaged, Tick
<1>6. OneGoodJob'
  <2>1. \A j \in Job : /\ jobs'[j].status = jobs[j].status
                       /\ jobs'[j].request = jobs[j].request
    BY DEF IInv, TypeOK, JobFile, Tick
  <2> QED
    BY <2>1 DEF IInv, OneGoodJob, JobsOf
<1>7. Committed'
  BY DEF IInv, TypeOK, JobFile, JobStatus, Promise, WorkerLoop, References, Committed, Tick
<1>8. slot' \in ClaimSlot
  <2> DEFINE Later == [j \in Job |-> IF slot.listed[j] > 0 THEN slot.listed[j] - 1
                                                           ELSE slot.listed[j]]
  <2>1. ASSUME NEW j \in Job
        PROVE  Later[j] \in {NotListed} \cup 0 .. LeaseTicks
    <3>1. slot.listed[j] \in {NotListed} \cup 0 .. LeaseTicks
      BY DEF IInv, TypeOK, ClaimSlot
    <3> QED
      BY <3>1 DEF NotListed
  <2>2. Later \in [Job -> {NotListed} \cup 0 .. LeaseTicks]
    BY <2>1
  <2>3. slot' = [slot EXCEPT !.listed = Later]
    BY DEF Tick
  <2> QED
    BY <2>2, <2>3 DEF IInv, TypeOK, ClaimSlot
<1> QED
  BY <1>1, <1>2, <1>3, <1>4, <1>5, <1>6, <1>7, <1>8 DEF IInv, TypeOK, Tick

LEMMA InitIInv == Init => IInv
BY WorkerBridgeAssumption, NoClaimIsASlot
   DEF Init, IInv, TypeOK, JobFile, JobStatus, ClaimSlot, WorkerLoop, Promise, Absent, NoClaim,
       Idle, Ready, NoJob, Job, References, Blanks, EnqueueingSawNone, JobsOf, TokenNamesHolder,
       OneGoodJob, Committed, Engaged

LEMMA NextIInv == IInv /\ [Next]_vars => IInv'
<1> SUFFICES ASSUME IInv, [Next]_vars PROVE IInv'
  OBVIOUS
<1>1. CASE \E r \in Request : Coordinator(r)
  BY <1>1, ExecuteTaskKeeps, GetOrEnqueueListKeeps, GetOrEnqueueEnqueueKeeps,
     WaitForResultKeeps, WaitTimesOutKeeps, ResultSavedKeeps DEF Coordinator
<1>2. CASE \E w \in Worker : WorkerStep(w)
  BY <1>2, ClaimNextListKeeps, SendHeartbeatKeeps, ReportResultKeeps, ReportErrorKeeps,
     ErrorReportedKeeps, WorkerCrashKeeps DEF WorkerStep
<1>3. CASE CoordinatorCrash \/ ClaimNextPick \/ ClaimNextLease \/ ClaimNextNull \/ Tick
  BY <1>3, CoordinatorCrashKeeps, ClaimNextPickKeeps, ClaimNextLeaseKeeps, ClaimNextNullKeeps,
     TickKeeps
<1>4. CASE \E c \in calls : Heartbeat(c) \/ Complete(c) \/ CallFails(c)
  BY <1>4, HeartbeatKeeps, CompleteKeeps, CallFailsKeeps
<1>5. CASE UNCHANGED vars
  BY <1>5 DEF vars, IInv, TypeOK, References, Blanks, EnqueueingSawNone, JobsOf,
     TokenNamesHolder, OneGoodJob, Committed, Engaged
<1> QED
  BY <1>1, <1>2, <1>3, <1>4, <1>5 DEF Next

\* The invariant holds in every reachable state of the bridge.
THEOREM Invariance == Spec => []IInv
BY InitIInv, NextIInv, PTL DEF Spec

\* The variables keep their types, whatever the constants.
THEOREM TypeCorrect == Spec => []TypeOK
BY Invariance, PTL DEF IInv

\* A token names one worker: the fencing of heartbeat and complete is sound for
\* any number of workers and claims.
THEOREM TokensAreUnambiguous == Spec => []TokenNamesHolder
BY Invariance, PTL DEF IInv

\* getOrEnqueueWorkerJob never leaves two good jobs for one request.
THEOREM PlannedOnce == Spec => []OneGoodJob
BY Invariance, PTL DEF IInv

\* What a caller was told is what the job file holds.
THEOREM DeliveredResultsAreCommitted == Spec => []DeliveredIsCommitted
<1>1. IInv => DeliveredIsCommitted
  BY DEF IInv, DeliveredIsCommitted, References, Committed
<1> QED
  BY <1>1, Invariance, PTL

\* claimNext, heartbeat and complete never write a closed job file again.
THEOREM ClosedJobsStayClosed == Spec => ClosedStaysClosed
<1>1. ASSUME IInv, [Next]_vars, NEW j \in Job, jobs[j].status \in Closed
      PROVE  jobs'[j] = jobs[j]
  <2> USE <1>1
  <2>1. CASE \E r \in Request : Coordinator(r)
    <3>1. CASE \E r \in Request : EnqueueFor(r)
      BY <3>1 DEF EnqueueFor, Closed, IInv, TypeOK
    <3>2. CASE jobs' = jobs
      BY <3>2
    <3> QED
      BY <2>1, <3>1, <3>2 DEF Coordinator, ExecuteTask, GetOrEnqueueList, GetOrEnqueueEnqueue,
         WaitForResult, WaitTimesOut, ResultSaved
  <2>2. CASE \E w \in Worker : WorkerStep(w)
    BY <2>2 DEF WorkerStep, ClaimNextList, SendHeartbeat, ReportResult, ReportError,
       ErrorReported, WorkerCrash
  <2>3. CASE CoordinatorCrash \/ ClaimNextPick \/ ClaimNextNull
    BY <2>3 DEF CoordinatorCrash, ClaimNextPick, ClaimNextNull
  <2>4. CASE ClaimNextLease
    BY <2>4 DEF ClaimNextLease, Eligible, Claimable, Closed, IInv, TypeOK
  <2>5. CASE \E c \in calls : Heartbeat(c) \/ Complete(c) \/ CallFails(c)
    BY <2>5 DEF Heartbeat, Complete, CallFails, HoldsLease, Closed, IInv, TypeOK
  <2>6. CASE Tick
    <3>1. jobs[j].left = 0
      BY DEF IInv, Blanks, Closed
    <3>2. jobs[j] = [jobs[j] EXCEPT !.left = 0]
      BY <3>1 DEF IInv, TypeOK, JobFile
    <3> QED
      BY <2>6, <3>1, <3>2 DEF Tick
  <2>7. CASE UNCHANGED vars
    BY <2>7 DEF vars
  <2> QED
    BY <2>1, <2>2, <2>3, <2>4, <2>5, <2>6, <2>7 DEF Next
<1>2. IInv /\ [Next]_vars
        => [\A j \in Job : jobs[j].status \in Closed => jobs'[j] = jobs[j]]_vars
  BY <1>1
<1> QED
  BY <1>2, Invariance, PTL DEF Spec, ClosedStaysClosed

-----------------------------------------------------------------------------
(***************************************************************************)
(* The bridge implements LeasedJobs: every step of it is a step of the     *)
(* abstract queue, or none.  A report on its way is a report of the        *)
(* abstract queue, which knows leases and no workers; so closing a job     *)
(* takes exactly one report away only because no two workers ever report   *)
(* under one lease.  That is the invariant to be added here.               *)
(***************************************************************************)


\* Whoever has a lease, and what was reported under it.
Holds(w, j, t) == Engaged(w) /\ workers[w].job = j /\ workers[w].token = t

\* No report is on its way under a lease that was not granted yet, and all that
\* is done and said under one lease is one worker's.
LeasesHaveOneHolder ==
    /\ \A c \in calls : c.token <= jobs[c.job].attempts
    /\ \A c, d \in calls :
          c.job = d.job /\ c.token = d.token => c.worker = d.worker
    /\ \A c \in calls, w \in Worker :
          Holds(w, c.job, c.token) => c.worker = w
    /\ \A v, w \in Worker, j \in Job, t \in 1 .. MaxClaims :
          Holds(v, j, t) /\ Holds(w, j, t) => v = w

RInv == IInv /\ LeasesHaveOneHolder

\* Nobody gains a lease, no call is made, and no lease is forgotten.
LEMMA FewerHolders ==
    ASSUME RInv, calls' \subseteq calls,
           \A j \in Job : jobs'[j].attempts = jobs[j].attempts,
           \A w \in Worker : Engaged(w)' => /\ Engaged(w)
                                            /\ workers'[w].job = workers[w].job
                                            /\ workers'[w].token = workers[w].token
    PROVE  LeasesHaveOneHolder'
<1>1. \A c \in calls : c.job \in Job /\ c.token \in 1 .. MaxClaims /\ c.worker \in Worker
  BY DEF RInv, IInv, TypeOK, Call
<1>2. \A w \in Worker : \A j, t : Holds(w, j, t)' => Holds(w, j, t)
  BY DEF Holds
<1> QED
  BY <1>1, <1>2 DEF RInv, LeasesHaveOneHolder

\* A worker that has a lease makes a call under it.
LEMMA OneMoreCall ==
    ASSUME RInv, NEW w \in Worker, Engaged(w), NEW op \in {"heartbeat", "succeeded", "failed"},
           calls' = calls \cup {CallOf(w, op)}, jobs' = jobs,
           \A v \in Worker : Engaged(v)' => /\ Engaged(v)
                                            /\ workers'[v].job = workers[v].job
                                            /\ workers'[v].token = workers[v].token
    PROVE  LeasesHaveOneHolder'
<1> DEFINE new == CallOf(w, op)
<1>1. /\ workers[w].job \in Job
      /\ workers[w].token \in 1 .. MaxClaims
      /\ workers[w].token <= jobs[workers[w].job].attempts
  BY DEF RInv, IInv, References, TokenNamesHolder
<1>2. /\ new.job = workers[w].job
      /\ new.token = workers[w].token
      /\ new.worker = w
  BY DEF CallOf
<1>3. Holds(w, new.job, new.token)
  BY <1>2 DEF Holds
<1>4. \A v \in Worker : \A j, t : Holds(v, j, t)' => Holds(v, j, t)
  BY DEF Holds
<1>5. \A c \in calls' : c.token <= jobs'[c.job].attempts
  BY <1>1, <1>2 DEF RInv, LeasesHaveOneHolder
<1>6. ASSUME NEW c \in calls', NEW d \in calls', c.job = d.job, c.token = d.token
      PROVE  c.worker = d.worker
  <2>1. CASE c \in calls /\ d \in calls
    BY <2>1, <1>6 DEF RInv, LeasesHaveOneHolder
  <2>2. CASE c = new /\ d \in calls
    BY <2>2, <1>2, <1>3, <1>6 DEF RInv, LeasesHaveOneHolder
  <2>3. CASE c \in calls /\ d = new
    BY <2>3, <1>2, <1>3, <1>6 DEF RInv, LeasesHaveOneHolder
  <2>4. CASE c = new /\ d = new
    BY <2>4
  <2> QED
    BY <2>1, <2>2, <2>3, <2>4
<1>7. ASSUME NEW c \in calls', NEW v \in Worker, Holds(v, c.job, c.token)'
      PROVE  c.worker = v
  <2>1. Holds(v, c.job, c.token)
    BY <1>4, <1>7 DEF Holds
  <2>2. CASE c \in calls
    BY <2>1, <2>2 DEF RInv, LeasesHaveOneHolder
  <2>3. CASE c = new
    BY <2>1, <2>3, <1>1, <1>2, <1>3 DEF RInv, LeasesHaveOneHolder
  <2> QED
    BY <2>2, <2>3
<1>8. \A u, v \in Worker, j \in Job, t \in 1 .. MaxClaims :
          Holds(u, j, t)' /\ Holds(v, j, t)' => u = v
  BY <1>4 DEF RInv, LeasesHaveOneHolder
<1> QED
  BY <1>5, <1>6, <1>7, <1>8 DEF LeasesHaveOneHolder

\* A new lease has a new token: nobody has done or said anything under it.
LEMMA OneMoreLease ==
    ASSUME RInv, ClaimNextLease
    PROVE  LeasesHaveOneHolder'
<1> DEFINE j == slot.job
           w == slot.worker
<1>1. /\ j \in Job
      /\ w \in Worker
      /\ jobs[j].attempts \in 0 .. MaxClaims
      /\ jobs[j].attempts < MaxClaims
  <2>1. w # None
    BY DEF ClaimNextLease, RInv, IInv, References, NoClaim
  <2> QED
    BY <2>1, WorkerBridgeAssumption
       DEF ClaimNextLease, RInv, IInv, TypeOK, ClaimSlot, Eligible, Claimable, JobFile
<1>2. /\ jobs'[j].attempts = jobs[j].attempts + 1
      /\ \A k \in Job : k # j => jobs'[k].attempts = jobs[k].attempts
      /\ calls' = calls
  BY <1>1 DEF ClaimNextLease, NewToken, RInv, IInv, TypeOK
<1>3. \A k \in Job : jobs[k].attempts \in Nat
  BY WorkerBridgeAssumption DEF RInv, IInv, TypeOK, JobFile
<1>4. \A c \in calls : c.job \in Job /\ c.token \in 1 .. MaxClaims /\ c.worker \in Worker
  BY DEF RInv, IInv, TypeOK, Call
<1>5. ASSUME NEW v \in Worker, NEW k, NEW t, Holds(v, k, t)'
      PROVE  Holds(v, k, t) \/ (v = w /\ k = j /\ t = jobs[j].attempts + 1)
  BY <1>1, <1>5 DEF Holds, Engaged, ClaimNextLease, NewToken, Idle, RInv, IInv, TypeOK
<1>6. \A v \in Worker : \A k, t : Holds(v, k, t) =>
          k \in Job /\ t \in 1 .. MaxClaims /\ t <= jobs[k].attempts
  BY DEF Holds, RInv, IInv, References, TokenNamesHolder
<1>7. \A c \in calls : c.token <= jobs'[c.job].attempts
  <2> SUFFICES ASSUME NEW c \in calls PROVE c.token <= jobs'[c.job].attempts
    OBVIOUS
  <2>1. c.token <= jobs[c.job].attempts
    BY DEF RInv, LeasesHaveOneHolder
  <2> QED
    BY <2>1, <1>1, <1>2, <1>3, <1>4
<1>8. ASSUME NEW c \in calls, NEW v \in Worker, Holds(v, c.job, c.token)'
      PROVE  c.worker = v
  <2>1. c.token <= jobs[c.job].attempts
    BY DEF RInv, LeasesHaveOneHolder
  <2>2. ~(c.job = j /\ c.token = jobs[j].attempts + 1)
    BY <2>1, <1>1, <1>3, <1>4
  <2>3. Holds(v, c.job, c.token)
    BY <2>2, <1>5, <1>8 DEF Holds
  <2> QED
    BY <2>3 DEF RInv, LeasesHaveOneHolder
<1>9. ASSUME NEW u \in Worker, NEW v \in Worker, NEW k \in Job, NEW t \in 1 .. MaxClaims,
             Holds(u, k, t)', Holds(v, k, t)'
      PROVE  u = v
  <2>1. Holds(u, k, t) \/ (u = w /\ k = j /\ t = jobs[j].attempts + 1)
    BY <1>5, <1>9
  <2>2. Holds(v, k, t) \/ (v = w /\ k = j /\ t = jobs[j].attempts + 1)
    BY <1>5, <1>9
  <2>3. CASE k = j /\ t = jobs[j].attempts + 1
    <3>1. ~(t <= jobs[k].attempts)
      BY <2>3, <1>1
    <3> QED
      BY <2>1, <2>2, <3>1, <1>6
  <2>4. CASE ~(k = j /\ t = jobs[j].attempts + 1)
    BY <2>1, <2>2, <2>4 DEF RInv, LeasesHaveOneHolder
  <2> QED
    BY <2>3, <2>4
<1>10. \A c, d \in calls :
           c.job = d.job /\ c.token = d.token => c.worker = d.worker
  BY DEF RInv, LeasesHaveOneHolder
<1> QED
  BY <1>2, <1>7, <1>8, <1>9, <1>10 DEF LeasesHaveOneHolder

\* At first there are no calls and nobody is engaged.
LEMMA RInvInit == Init => RInv
BY InitIInv DEF Init, RInv, LeasesHaveOneHolder, Holds, Engaged, Idle

\* Every step keeps every lease one worker's.
LEMMA RInvNext == RInv /\ [Next]_vars => RInv'
<1> SUFFICES ASSUME RInv, [Next]_vars PROVE LeasesHaveOneHolder'
  BY NextIInv DEF RInv
<1>1. CASE \E r \in Request : Coordinator(r)
  <2>1. workers' = workers /\ calls' = calls
    BY <1>1 DEF Coordinator, ExecuteTask, GetOrEnqueueList, GetOrEnqueueEnqueue,
       WaitForResult, WaitTimesOut, ResultSaved
  <2>2. \A j \in Job : jobs'[j].attempts = jobs[j].attempts
    <3>1. CASE \E r \in Request : EnqueueFor(r)
      BY <3>1 DEF EnqueueFor, Queued, RInv, IInv, TypeOK, Blanks
    <3>2. CASE jobs' = jobs
      BY <3>2
    <3> QED
      BY <1>1, <3>1, <3>2 DEF Coordinator, ExecuteTask, GetOrEnqueueList,
         GetOrEnqueueEnqueue, WaitForResult, WaitTimesOut, ResultSaved
  <2> QED
    BY <2>1, <2>2, FewerHolders DEF Engaged
<1>2. CASE CoordinatorCrash
  <2>1. \A w \in Worker : Engaged(w)' => Engaged(w) /\ workers'[w] = workers[w]
    BY <1>2 DEF CoordinatorCrash, Engaged, Idle
  <2> QED
    BY <1>2, <2>1, FewerHolders DEF CoordinatorCrash
<1>3. ASSUME NEW w \in Worker, WorkerStep(w)
      PROVE  LeasesHaveOneHolder'
  <2>1. CASE SendHeartbeat(w)
    BY <2>1, OneMoreCall DEF SendHeartbeat, Engaged
  <2>2. CASE ReportResult(w)
    <3>1. PICK op \in {"succeeded", "failed"} : calls' = calls \cup {CallOf(w, op)}
      BY <2>2 DEF ReportResult
    <3>2. \A v \in Worker : Engaged(v)' => /\ Engaged(v)
                                           /\ workers'[v].job = workers[v].job
                                           /\ workers'[v].token = workers[v].token
      BY <2>2 DEF ReportResult, Engaged, RInv, IInv, TypeOK, WorkerLoop
    <3>3. Engaged(w) /\ jobs' = jobs
      BY <2>2 DEF ReportResult, Engaged
    <3> QED
      BY <3>1, <3>2, <3>3, OneMoreCall
  <2>3. CASE ReportError(w)
    <3>1. calls' = calls \cup {CallOf(w, "failed")}
      BY <2>3 DEF ReportError
    <3>2. \A v \in Worker : Engaged(v)' => /\ Engaged(v)
                                           /\ workers'[v].job = workers[v].job
                                           /\ workers'[v].token = workers[v].token
      BY <2>3 DEF ReportError, Engaged, RInv, IInv, TypeOK, WorkerLoop
    <3>3. Engaged(w) /\ jobs' = jobs
      BY <2>3 DEF ReportError, Engaged
    <3> QED
      BY <3>1, <3>2, <3>3, OneMoreCall
  <2>4. CASE ClaimNextList(w) \/ ErrorReported(w) \/ WorkerCrash(w)
    <3>1. jobs' = jobs /\ calls' = calls
      BY <2>4 DEF ClaimNextList, ErrorReported, WorkerCrash
    <3>2. \A v \in Worker : Engaged(v)' => Engaged(v) /\ workers'[v] = workers[v]
      BY <2>4 DEF ClaimNextList, ErrorReported, WorkerCrash, Engaged, Idle,
         RInv, IInv, TypeOK
    <3> QED
      BY <3>1, <3>2, FewerHolders
  <2> QED
    BY <1>3, <2>1, <2>2, <2>3, <2>4 DEF WorkerStep
<1>4. CASE ClaimNextPick
  BY <1>4, FewerHolders DEF ClaimNextPick, Engaged
<1>5. CASE ClaimNextLease
  BY <1>5, OneMoreLease
<1>6. CASE ClaimNextNull
  <2>1. \A w \in Worker : Engaged(w)' => Engaged(w) /\ workers'[w] = workers[w]
    BY <1>6 DEF ClaimNextNull, Engaged, Idle, RInv, IInv, TypeOK
  <2> QED
    BY <1>6, <2>1, FewerHolders DEF ClaimNextNull
<1>7. ASSUME NEW c \in calls, Heartbeat(c) \/ Complete(c) \/ CallFails(c)
      PROVE  LeasesHaveOneHolder'
  <2>1. \A j \in Job : jobs'[j].attempts = jobs[j].attempts
    <3>1. c.job \in Job /\ jobs \in [Job -> JobFile]
      BY DEF RInv, IInv, TypeOK, Call
    <3>2. CASE Heartbeat(c)
      BY <3>1, <3>2 DEF Heartbeat, JobFile
    <3>3. CASE Complete(c)
      BY <3>1, <3>3 DEF Complete, JobFile
    <3>4. CASE CallFails(c)
      BY <3>4 DEF CallFails
    <3> QED
      BY <1>7, <3>2, <3>3, <3>4
  <2>2. \A w \in Worker : Engaged(w)' => Engaged(w) /\ workers'[w] = workers[w]
    BY <1>7 DEF Heartbeat, Complete, CallFails, Engaged, Idle, RInv, IInv, TypeOK
  <2>3. calls' \subseteq calls
    BY <1>7 DEF Heartbeat, Complete, CallFails
  <2> QED
    BY <2>1, <2>2, <2>3, FewerHolders
<1>8. CASE Tick
  <2>1. \A j \in Job : jobs'[j].attempts = jobs[j].attempts
    BY <1>8 DEF Tick, RInv, IInv, TypeOK, JobFile
  <2>2. calls' = calls /\ workers' = workers
    BY <1>8 DEF Tick
  <2> QED
    BY <2>1, <2>2, FewerHolders DEF Engaged
<1>9. CASE UNCHANGED vars
  BY <1>9 DEF vars, RInv, LeasesHaveOneHolder, Holds, Engaged
<1> QED
  BY <1>1, <1>2, <1>3, <1>4, <1>5, <1>6, <1>7, <1>8, <1>9 DEF Next

-----------------------------------------------------------------------------
(* Every step is a step of the queue, or none. *)

Leases == [j \in Job |-> jobs[j].attempts]
Outcomes == [j \in Job |-> IF jobs[j].status \in {"queued", "leased"}
                          THEN "open" ELSE jobs[j].status]
Reports == {<<c.job, c.token, c.op>> : c \in {d \in calls : d.op \in Closed}}

\* The initial states.
LEMMA QueueInit == Init => Queue!Init
BY DEF Init, Absent, Queue!Init

\* A job is created: the queue opens it.
LEMMA EnqueueOpens ==
    ASSUME RInv, NEW r \in Request, EnqueueFor(r), UNCHANGED calls
    PROVE  Queue!Next
<1>1. PICK j \in Job : /\ jobs[j].status = "absent"
                       /\ jobs' = [jobs EXCEPT ![j] = Queued(r)]
  BY DEF EnqueueFor
<1>2. /\ jobs[j].attempts = 0
      /\ jobs \in [Job -> JobFile]
  BY <1>1 DEF RInv, IInv, Blanks, TypeOK
<1>3. Queue!Open(j)
  <2>1. Outcomes' = [Outcomes EXCEPT ![j] = "open"]
    BY <1>1, <1>2 DEF Outcomes, Queued
  <2>2. Leases' = Leases
    BY <1>1, <1>2 DEF Leases, Queued
  <2> QED
    BY <1>1, <2>1, <2>2 DEF Queue!Open, Outcomes, Leases
<1> QED
  BY <1>3 DEF Queue!Next

\* A lease is granted.
LEMMA ClaimGrants ==
    ASSUME RInv, ClaimNextLease
    PROVE  Queue!Next
<1>1. /\ slot.job \in Job
      /\ jobs \in [Job -> JobFile]
      /\ jobs[slot.job].attempts \in Nat
      /\ jobs[slot.job].status \in {"queued", "leased"}
  BY WorkerBridgeAssumption
     DEF ClaimNextLease, RInv, IInv, TypeOK, ClaimSlot, Eligible, Claimable, JobFile
<1>2. PICK j \in Job : j = slot.job
  BY <1>1
<1>3. jobs' = [jobs EXCEPT ![j].status = "leased", ![j].worker = slot.worker,
                           ![j].attempts = jobs[j].attempts + 1, ![j].left = LeaseTicks]
  BY <1>2 DEF ClaimNextLease, NewToken
<1>4. Leases' = [Leases EXCEPT ![j] = @ + 1]
  BY <1>1, <1>2, <1>3 DEF Leases, JobFile
<1>5. Outcomes' = Outcomes
  BY <1>1, <1>2, <1>3 DEF Outcomes, JobFile
<1>6. Reports' = Reports
  BY DEF ClaimNextLease, Reports
<1>7. Outcomes[j] = "open"
  BY <1>1, <1>2 DEF Outcomes
<1>8. Queue!Grant(j)
  BY <1>4, <1>5, <1>6, <1>7 DEF Queue!Grant, Leases, Outcomes, Reports
<1> QED
  BY <1>8 DEF Queue!Next

\* A worker that has a lease reports under it.
LEMMA CallReports ==
    ASSUME RInv, NEW w \in Worker, Engaged(w), NEW op \in Closed,
           calls' = calls \cup {CallOf(w, op)}, jobs' = jobs
    PROVE  Queue!Next
<1> DEFINE j == workers[w].job
           t == workers[w].token
<1>1. /\ j \in Job
      /\ t \in 1 .. MaxClaims
      /\ t <= jobs[j].attempts
      /\ jobs[j].attempts \in Nat
  BY WorkerBridgeAssumption DEF RInv, IInv, References, TokenNamesHolder, TypeOK, JobFile
<1>2. t \in 1 .. Leases[j]
  BY <1>1, WorkerBridgeAssumption DEF Leases
<1>3. Reports' = Reports \cup {<<j, t, op>>}
  <2> DEFINE new == CallOf(w, op)
  <2>1. calls' = calls \cup {new} /\ new.job = j /\ new.token = t /\ new.op = op
    BY DEF CallOf
  <2> HIDE DEF new, j, t
  <2>2. Reports' = {<<d.job, d.token, d.op>> : d \in {e \in calls' : e.op \in Closed}}
    BY DEF Reports
  <2>3. Reports = {<<d.job, d.token, d.op>> : d \in {e \in calls : e.op \in Closed}}
    BY DEF Reports
  <2>4. Reports \subseteq Reports'
    BY <2>1, <2>2, <2>3
  <2>5. <<j, t, op>> \in Reports'
    BY <2>1, <2>2
  <2>6. Reports' \subseteq Reports \cup {<<j, t, op>>}
    BY <2>1, <2>2, <2>3
  <2> QED
    BY <2>4, <2>5, <2>6
<1>4. Leases' = Leases /\ Outcomes' = Outcomes
  BY DEF Leases, Outcomes
<1>5. Queue!Report(j, t, op)
  BY <1>2, <1>3, <1>4 DEF Queue!Report, Leases, Outcomes, Reports
<1>6. op \in Queue!Verdict
  BY DEF Closed, Queue!Verdict
<1> QED
  BY <1>1, <1>2, <1>5, <1>6 DEF Queue!Next, Leases

\* A job is closed with the report made under its last lease; under that lease
\* there is one report of this outcome, whoever made it.
LEMMA CompleteFinishes ==
    ASSUME RInv, NEW c \in calls, Complete(c)
    PROVE  Queue!Next
<1>1. /\ c.job \in Job
      /\ c.token \in 1 .. MaxClaims
      /\ c.op \in Closed
      /\ jobs \in [Job -> JobFile]
      /\ jobs[c.job].status = "leased"
      /\ jobs[c.job].attempts = c.token
      /\ jobs' = [jobs EXCEPT ![c.job].status = c.op, ![c.job].left = 0]
      /\ calls' = calls \ {c}
  BY DEF RInv, IInv, TypeOK, Call, Complete, HoldsLease
<1>2. ASSUME NEW d \in calls, d.job = c.job, d.token = c.token, d.op = c.op
      PROVE  d = c
  <2>1. d.worker = c.worker
    BY <1>2 DEF RInv, LeasesHaveOneHolder
  <2>2. c \in Call /\ d \in Call
    BY DEF RInv, IInv, TypeOK
  <2> QED
    BY <1>2, <2>1, <2>2 DEF Call
<1>3. <<c.job, Leases[c.job], c.op>> \in Reports
  BY <1>1 DEF Leases, Reports
<1>4. Reports' = Reports \ {<<c.job, Leases[c.job], c.op>>}
  <2>1. Leases[c.job] = c.token
    BY <1>1 DEF Leases
  <2>2. ASSUME NEW d \in calls, d.op \in Closed,
               <<d.job, d.token, d.op>> # <<c.job, c.token, c.op>>
        PROVE  <<d.job, d.token, d.op>> \in Reports'
    BY <1>1, <2>2 DEF Reports
  <2>3. ASSUME NEW d \in calls', d.op \in Closed
        PROVE  /\ <<d.job, d.token, d.op>> \in Reports
               /\ <<d.job, d.token, d.op>> # <<c.job, c.token, c.op>>
    BY <1>1, <1>2, <2>3 DEF Reports
  <2>4. Reports' = {<<d.job, d.token, d.op>> : d \in {e \in calls' : e.op \in Closed}}
    BY DEF Reports
  <2>5. Reports = {<<d.job, d.token, d.op>> : d \in {e \in calls : e.op \in Closed}}
    BY DEF Reports
  <2> QED
    BY <2>1, <2>2, <2>3, <2>4, <2>5
<1>5. Outcomes[c.job] = "open" /\ Outcomes' = [Outcomes EXCEPT ![c.job] = c.op]
  BY <1>1 DEF Outcomes, Closed, JobFile
<1>6. Leases' = Leases
  BY <1>1 DEF Leases, JobFile
<1>7. Queue!Finish(c.job, c.op)
  BY <1>3, <1>4, <1>5, <1>6 DEF Queue!Finish, Leases, Outcomes, Reports
<1> QED
  BY <1>1, <1>7 DEF Queue!Next, Queue!Verdict, Closed

\* A report that is refused or lost is lost, unless it was made twice.
LEMMA CallFailsLoses ==
    ASSUME RInv, NEW c \in calls, CallFails(c)
    PROVE  [Queue!Next]_(Queue!ljvars)
<1>1. Leases' = Leases /\ Outcomes' = Outcomes
  BY DEF CallFails, Leases, Outcomes
<1>2. calls' = calls \ {c}
  BY DEF CallFails
<1> DEFINE x == <<c.job, c.token, c.op>>
<1>3. Reports' = Reports \/ (x \in Reports /\ Reports' = Reports \ {x})
  <2>1. CASE c.op \notin Closed
    BY <1>2, <2>1 DEF Reports
  <2>2. CASE c.op \in Closed
    <3>1. x \in Reports /\ Reports' \subseteq Reports
      BY <1>2, <2>2 DEF Reports
    <3>2. Reports \ {x} \subseteq Reports'
      <4>1. ASSUME NEW d \in calls, d.op \in Closed, <<d.job, d.token, d.op>> # x
            PROVE  <<d.job, d.token, d.op>> \in Reports'
        BY <1>2, <4>1 DEF Reports
      <4>2. Reports = {<<d.job, d.token, d.op>> : d \in {e \in calls : e.op \in Closed}}
        BY DEF Reports
      <4> QED
        BY <4>1, <4>2
    <3> QED
      BY <3>1, <3>2
  <2> QED
    BY <2>1, <2>2
<1>4. CASE Reports' = Reports
  BY <1>1, <1>4 DEF Queue!ljvars, Leases, Outcomes, Reports
<1>5. CASE x \in Reports /\ Reports' = Reports \ {x}
  <2>1. Queue!Lose(x)
    BY <1>1, <1>5 DEF Queue!Lose, Leases, Outcomes, Reports
  <2> QED
    BY <1>5, <2>1 DEF Queue!Next, Reports
<1> QED
  BY <1>3, <1>4, <1>5

\* Everything else is nothing to the queue.
LEMMA Stutters ==
    ASSUME Leases' = Leases, Outcomes' = Outcomes, Reports' = Reports
    PROVE  UNCHANGED Queue!ljvars
BY DEF Queue!ljvars, Leases, Outcomes, Reports

\* Every step of the bridge is a step of the queue or leaves it as it is.
LEMMA StepSimulation == RInv /\ [Next]_vars => [Queue!Next]_(Queue!ljvars)
<1> SUFFICES ASSUME RInv, [Next]_vars PROVE [Queue!Next]_(Queue!ljvars)
  OBVIOUS
<1>1. ASSUME jobs' = jobs, calls' = calls
      PROVE  UNCHANGED Queue!ljvars
  BY <1>1, Stutters DEF Leases, Outcomes, Reports
<1>2. ASSUME NEW r \in Request, Coordinator(r)
      PROVE  [Queue!Next]_(Queue!ljvars)
  <2>1. CASE EnqueueFor(r) /\ UNCHANGED calls
    BY <2>1, EnqueueOpens
  <2>2. CASE jobs' = jobs /\ calls' = calls
    BY <2>2, <1>1
  <2> QED
    BY <1>2, <2>1, <2>2 DEF Coordinator, ExecuteTask, GetOrEnqueueList,
       GetOrEnqueueEnqueue, WaitForResult, WaitTimesOut, ResultSaved
<1>3. ASSUME NEW w \in Worker, WorkerStep(w)
      PROVE  [Queue!Next]_(Queue!ljvars)
  <2>1. CASE SendHeartbeat(w)
    <3>1. Reports' = Reports
      BY <2>1 DEF SendHeartbeat, Reports, CallOf, Closed
    <3> QED
      BY <2>1, <3>1, Stutters DEF SendHeartbeat, Leases, Outcomes
  <2>2. CASE ReportResult(w)
    BY <2>2, CallReports DEF ReportResult, Engaged, Closed
  <2>3. CASE ReportError(w)
    BY <2>3, CallReports DEF ReportError, Engaged, Closed
  <2>4. CASE ClaimNextList(w) \/ ErrorReported(w) \/ WorkerCrash(w)
    BY <2>4, <1>1 DEF ClaimNextList, ErrorReported, WorkerCrash
  <2> QED
    BY <1>3, <2>1, <2>2, <2>3, <2>4 DEF WorkerStep
<1>4. CASE CoordinatorCrash \/ ClaimNextPick \/ ClaimNextNull
  BY <1>4, <1>1 DEF CoordinatorCrash, ClaimNextPick, ClaimNextNull
<1>5. CASE ClaimNextLease
  BY <1>5, ClaimGrants
<1>6. ASSUME NEW c \in calls, Heartbeat(c) \/ Complete(c) \/ CallFails(c)
      PROVE  [Queue!Next]_(Queue!ljvars)
  <2>1. CASE Heartbeat(c)
    <3>1. /\ c.job \in Job
          /\ jobs \in [Job -> JobFile]
          /\ jobs' = [jobs EXCEPT ![c.job].left = Renewed(c.job)]
      BY <2>1 DEF Heartbeat, RInv, IInv, TypeOK, Call
    <3>2. Leases' = Leases /\ Outcomes' = Outcomes
      BY <3>1 DEF Leases, Outcomes, JobFile
    <3>3. Reports' = Reports
      BY <2>1 DEF Heartbeat, Reports, Closed
    <3> QED
      BY <3>2, <3>3, Stutters
  <2> QED
    BY <1>6, <2>1, CompleteFinishes, CallFailsLoses
<1>7. CASE Tick
  <2>1. \A j \in Job : /\ jobs'[j].attempts = jobs[j].attempts
                       /\ jobs'[j].status = jobs[j].status
    BY <1>7 DEF Tick, RInv, IInv, TypeOK, JobFile
  <2>2. Reports' = Reports
    BY <1>7 DEF Tick, Reports
  <2> QED
    BY <2>1, <2>2, Stutters DEF Leases, Outcomes
<1>8. CASE UNCHANGED vars
  BY <1>8, <1>1 DEF vars
<1> QED
  BY <1>2, <1>3, <1>4, <1>5, <1>6, <1>7, <1>8 DEF Next

\* The job files, the claims and the calls of the bridge implement a queue of
\* leased jobs, for any number of workers, jobs, leases and crashes.
THEOREM BridgeImplementsQueue == Spec => ImplementsQueue
<1>1. Spec => []RInv
  BY RInvInit, RInvNext, PTL DEF Spec
<1> QED
  BY <1>1, QueueInit, StepSimulation, PTL DEF Spec, ImplementsQueue, Queue!Spec

=============================================================================
