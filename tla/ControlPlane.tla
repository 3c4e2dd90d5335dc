---------------------------- MODULE ControlPlane ----------------------------
(***************************************************************************)
(* One mission of the persistent control plane:                            *)
(* src/autonomy/persistent-control-plane-v1.js, with the routes of         *)
(* src/autonomy/persistent-http-server-v1.js through which people decide.  *)
(*                                                                         *)
(* What survives a restart is files: the mission, and one file per         *)
(* approval.  store.update reads, changes and renames the mission file     *)
(* under serialize(), so it is one action; everything a tick or a request  *)
(* does between two awaits on a file is a step of its own, taken on what   *)
(* it read before.  activeTicks admits one tick; nothing orders the        *)
(* requests of people against it or against each other.                    *)
(***************************************************************************)
EXTENDS Integers, FiniteSets

CONSTANTS
    NumTasks,      \* tasks the mission can have, in the order of mission.tasks
    Planned,       \* those the planner returns; the others come from replanning
    DependsOn,     \* DependsOn[t]: the tasks t waits for
    Gated,         \* irreversible, or riskier than the policy lets run unattended
    Idempotent,    \* declared idempotent
    Human,         \* sessions of people, who resume the mission
    Approver,      \* those of them who decide approvals
    MaxAttempts,   \* max_attempts of every task
    MaxApprovals,  \* bound: approval files ever created
    MaxResumes,    \* bound: resume requests of people
    MaxCrashes     \* bound: restarts of the coordinator

Task == 1 .. NumTasks
Approval == 1 .. MaxApprovals
NoTask == 0
NoApproval == 0

\* validateTaskGraph: known dependencies, none on itself, no cycle.  A graph has no
\* cycle exactly when every set of its tasks has one that waits for none of them.
ValidTaskGraph(tasks, deps) ==
    /\ \A t \in tasks : deps[t] \subseteq tasks \ {t}
    /\ \A S \in SUBSET tasks : S # {} => \E t \in S : deps[t] \cap S = {}

ASSUME ControlPlaneAssumption ==
    /\ NumTasks \in Nat \ {0}
    /\ Planned \subseteq Task /\ Planned # {}
    /\ DependsOn \in [Task -> SUBSET Task]
    /\ ValidTaskGraph(Planned, DependsOn)
    /\ Gated \subseteq Task
    /\ Idempotent \subseteq Task
    /\ Approver \subseteq Human
    /\ MaxAttempts \in 1 .. 10
    /\ MaxApprovals \in Nat
    /\ MaxResumes \in Nat
    /\ MaxCrashes \in Nat

VARIABLES
    mission,     \* the mission file
    approvals,   \* approvals[a]: the approval file
    tick,        \* the running tick, if any, and what it read
    people,      \* people[h]: the request of session h
    unreviewed,  \* history: tasks not idempotent that were cut short, until a decision or resume
    resumes,
    crashes

vars == <<mission, approvals, tick, people, unreviewed, resumes, crashes>>

MissionStatus == {"planning", "queued", "running", "waiting_human", "succeeded"}
TaskStatus == {"absent", "pending", "running", "waiting_human", "succeeded", "failed"}
Decision == {"approved", "rejected"}

MissionFile == [status : MissionStatus,
                task : [Task -> TaskStatus],
                attempts : [Task -> 0 .. MaxAttempts],
                planning : 0 .. 3,
                approval : [id : Approval \cup {NoApproval}, task : Task \cup {NoTask},
                            status : {"none", "pending"} \cup Decision]]

Off == [pc |-> "off", task |-> NoTask, unsafe |-> FALSE]
Away == [pc |-> "away", approval |-> NoApproval, decision |-> "rejected"]
NoRequest == [id |-> NoApproval, task |-> NoTask, status |-> "none"]

TypeOK ==
    /\ mission \in MissionFile
    /\ approvals \in [Approval -> [task : Task \cup {NoTask},
                                   status : {"absent", "pending"} \cup Decision]]
    /\ tick \in [pc : {"off", "plan", "recover", "recovering", "loop", "gate", "gated",
                       "start", "execute", "verify", "replan", "blocked"},
                 task : Task \cup {NoTask} \cup Approval, unsafe : BOOLEAN]
    /\ people \in [Human -> [pc : {"away", "deciding", "decided", "resuming", "resume", "tick"},
                             approval : Approval \cup {NoApproval}, decision : Decision]]
    /\ unreviewed \in SUBSET (Task \ Idempotent)
    /\ resumes \in 0 .. MaxResumes
    /\ crashes \in 0 .. MaxCrashes

\* start(): with deferPlanning the mission is stored before it is planned.
Init ==
    /\ \E deferPlanning \in BOOLEAN :
          mission = [status |-> IF deferPlanning THEN "planning" ELSE "queued",
                     task |-> [t \in Task |-> IF deferPlanning \/ t \notin Planned
                                              THEN "absent" ELSE "pending"],
                     attempts |-> [t \in Task |-> 0],
                     planning |-> 0,
                     approval |-> NoRequest]
    /\ approvals = [a \in Approval |-> [task |-> NoTask, status |-> "absent"]]
    /\ tick = Off
    /\ people = [h \in Human |-> Away]
    /\ unreviewed = {}
    /\ resumes = 0
    /\ crashes = 0

Goto(pc) == tick' = [tick EXCEPT !.pc = pc]

-----------------------------------------------------------------------------
(* tick(): one at a time, started by the supervisor or by a resume. *)

BeginTick == IF mission.status = "planning" THEN Goto("plan") ELSE Goto("recover")

SupervisorTick ==
    /\ tick.pc = "off"
    /\ mission.status \in {"planning", "queued", "running"}
    /\ BeginTick
    /\ UNCHANGED <<mission, approvals, people, unreviewed, resumes, crashes>>

\* planMission: the plan is stored unless the mission left 'planning' meanwhile.
PlanReturns ==
    /\ tick.pc = "plan"
    /\ mission' = IF mission.status = "planning"
                  THEN [mission EXCEPT !.status = "queued",
                          !.task = [t \in Task |-> IF t \in Planned THEN "pending" ELSE "absent"]]
                  ELSE mission
    /\ Goto("recover")
    /\ UNCHANGED <<approvals, people, unreviewed, resumes, crashes>>

\* A transient failure is retried for ever; of the others the third waits for someone.
PlanFails ==
    /\ tick.pc = "plan"
    /\ \E transient \in BOOLEAN :
          LET n == IF mission.planning < 3 THEN mission.planning + 1 ELSE 3
          IN  mission' = [mission EXCEPT !.planning = n,
                            !.status = IF transient \/ n < 3 THEN "planning" ELSE "waiting_human"]
    /\ tick' = Off
    /\ UNCHANGED <<approvals, people, unreviewed, resumes, crashes>>

RunningTasks == {t \in Task : mission.task[t] = "running"}

RecoverRead ==
    /\ tick.pc = "recover"
    /\ IF mission.status = "running" /\ RunningTasks # {}
       THEN tick' = [tick EXCEPT !.pc = "recovering", !.unsafe = ~(RunningTasks \subseteq Idempotent)]
       ELSE Goto("loop")
    /\ UNCHANGED <<mission, approvals, people, unreviewed, resumes, crashes>>

\* What becomes of a task found running by a tick that did not start it.
Recovered(t) == IF t \in Idempotent THEN "pending" ELSE "waiting_human"

RecoverWrite ==
    /\ tick.pc = "recovering"
    /\ mission' = [mission EXCEPT
                     !.task = [t \in Task |-> IF @[t] = "running" THEN Recovered(t) ELSE @[t]],
                     !.status = IF tick.unsafe THEN "waiting_human" ELSE "queued"]
    /\ tick' = IF tick.unsafe THEN Off ELSE [Off EXCEPT !.pc = "loop"]
    /\ UNCHANGED <<approvals, people, unreviewed, resumes, crashes>>

-----------------------------------------------------------------------------
(* The loop of a tick. *)

Present == {t \in Task : mission.task[t] # "absent"}
Resolved == {t \in Task : mission.task[t] = "succeeded"}

\* mutant: failed tasks are no obstacle to completion
AllEnded == \A t \in Present : mission.task[t] \notin {"pending", "running"}

AllResolved == Present \subseteq Resolved

\* mutant: dependencies are not waited for
RunnablePending == {t \in Task : mission.task[t] = "pending"}

Runnable == {t \in Task : mission.task[t] = "pending" /\ DependsOn[t] \subseteq Resolved}

\* mutant: an approval lets every task of the mission pass
MayRunAny(t) == t \in Gated => mission.approval.status = "approved"

\* The approval the mission carries must be for this very task.
MayRun(t) == \/ t \notin Gated
             \/ mission.approval.task = t /\ mission.approval.status = "approved"

Stopped == mission.status \in {"succeeded", "waiting_human"}

LoopPicksTask ==
    /\ tick.pc = "loop"
    /\ ~Stopped
    /\ \E t \in Runnable :
          /\ \A u \in Runnable : t <= u
          /\ tick' = [tick EXCEPT !.pc = IF MayRun(t) THEN "start" ELSE "gate", !.task = t]
    /\ UNCHANGED <<mission, approvals, people, unreviewed, resumes, crashes>>

LoopFindsNone ==
    /\ tick.pc = "loop"
    /\ ~Stopped
    /\ Runnable = {}
    /\ Goto(IF AllResolved THEN "verify"
            ELSE IF \A t \in Present : mission.task[t] \notin {"failed", "waiting_human"}
                 THEN "replan" ELSE "blocked")
    /\ UNCHANGED <<mission, approvals, people, unreviewed, resumes, crashes>>

\* The mission waits or is over, or the tick has used up its steps or its time.
LoopEnds ==
    /\ tick.pc = "loop"
    /\ tick' = Off
    /\ UNCHANGED <<mission, approvals, people, unreviewed, resumes, crashes>>

\* Replanning without result is a mission blocked.
Replan ==
    /\ tick.pc = "replan"
    /\ \/ Goto("blocked") /\ UNCHANGED mission
       \/ /\ Task \ Present # {}
          /\ mission' = [mission EXCEPT !.status = "queued",
                           !.task = [t \in Task |-> IF @[t] = "absent" THEN "pending" ELSE @[t]]]
          /\ Goto("loop")
    /\ UNCHANGED <<approvals, people, unreviewed, resumes, crashes>>

\* mutant: the supervisor is left to try again
BlockedRunning == "running"

BlockedStatus == "waiting_human"

Blocked ==
    /\ tick.pc = "blocked"
    /\ mission' = [mission EXCEPT !.status = BlockedStatus]
    /\ tick' = Off
    /\ UNCHANGED <<approvals, people, unreviewed, resumes, crashes>>

\* The worker's verifier never passes a mission without tasks.
VerifyCompletion ==
    /\ tick.pc = "verify"
    /\ \E passed \in BOOLEAN :
          /\ passed => Present # {}
          /\ mission' = [mission EXCEPT !.status = IF passed THEN "succeeded" ELSE "waiting_human"]
    /\ tick' = Off
    /\ UNCHANGED <<approvals, people, unreviewed, resumes, crashes>>

\* Replanner or verifier threw (its worker timed out or failed): so does the tick.
TickThrows ==
    /\ tick.pc \in {"replan", "verify"}
    /\ tick' = Off
    /\ UNCHANGED <<mission, approvals, people, unreviewed, resumes, crashes>>

\* requestApproval writes the approval file first, then the mission.
RequestApprovalFile ==
    /\ tick.pc = "gate"
    /\ \E a \in Approval :
          /\ approvals[a].status = "absent"
          /\ \A b \in Approval : b < a => approvals[b].status # "absent"
          /\ approvals' = [approvals EXCEPT ![a] = [task |-> tick.task, status |-> "pending"]]
          /\ tick' = [tick EXCEPT !.pc = "gated", !.task = a]
    /\ UNCHANGED <<mission, people, unreviewed, resumes, crashes>>

RequestApprovalMission ==
    LET a == tick.task
        t == approvals[a].task
    IN
    /\ tick.pc = "gated"
    /\ mission' = [mission EXCEPT !.status = "waiting_human", !.task[t] = "waiting_human",
                                  !.approval = [id |-> a, task |-> t, status |-> "pending"]]
    /\ tick' = Off
    /\ UNCHANGED <<approvals, people, unreviewed, resumes, crashes>>

\* Attempts beyond max_attempts, which recovery does not limit, count as max_attempts.
StartTask ==
    /\ tick.pc = "start"
    /\ mission' = [mission EXCEPT !.status = "running", !.task[tick.task] = "running",
                                  !.attempts[tick.task] = IF @ < MaxAttempts THEN @ + 1 ELSE @]
    /\ Goto("execute")
    /\ UNCHANGED <<approvals, people, unreviewed, resumes, crashes>>

TaskVerified ==
    /\ tick.pc = "execute"
    /\ mission' = [mission EXCEPT !.status = "running", !.task[tick.task] = "succeeded"]
    /\ Goto("loop")
    /\ UNCHANGED <<approvals, people, unreviewed, resumes, crashes>>

\* mutant: every error is worth another attempt
CanRetryAny(t, retryable) == TRUE

CanRetry(t, retryable) == t \in Idempotent \/ retryable

\* The executor threw, or its result is not verified.
TaskAttemptFailed ==
    LET t == tick.task IN
    /\ tick.pc = "execute"
    /\ \E retryable \in BOOLEAN :
          /\ mission' = [mission EXCEPT !.task[t] =
                           IF CanRetry(t, retryable) /\ mission.attempts[t] < MaxAttempts
                           THEN "pending" ELSE "failed"]
          /\ unreviewed' = IF t \in Idempotent \/ retryable THEN unreviewed
                           ELSE unreviewed \cup {t}
    /\ Goto("loop")
    /\ UNCHANGED <<approvals, people, resumes, crashes>>

-----------------------------------------------------------------------------
(* People. *)

\* POST /api/approvals/:id reads the approval file the mission shows.
ResolveRead(h) ==
    LET a == mission.approval.id IN
    /\ h \in Approver
    /\ people[h].pc = "away"
    /\ a # NoApproval
    /\ approvals[a].status = "pending"
    /\ \E d \in Decision : people' = [people EXCEPT ![h] = [pc |-> "deciding", approval |-> a,
                                                           decision |-> d]]
    /\ UNCHANGED <<mission, approvals, tick, unreviewed, resumes, crashes>>

ResolveFile(h) ==
    /\ people[h].pc = "deciding"
    /\ approvals' = [approvals EXCEPT ![people[h].approval].status = people[h].decision]
    /\ people' = [people EXCEPT ![h].pc = "decided"]
    /\ UNCHANGED <<mission, tick, unreviewed, resumes, crashes>>

\* With another approval on the mission by now: approval_mismatch, nothing written.
\* The route resumes the mission after an approval.
ResolveMission(h) ==
    LET a == people[h].approval
        approved == people[h].decision = "approved"
        matches == mission.approval.id = a
    IN
    /\ people[h].pc = "decided"
    /\ mission' = IF matches
                  THEN [mission EXCEPT
                          !.approval.status = people[h].decision,
                          !.task[approvals[a].task] = IF approved THEN "pending" ELSE "failed",
                          !.status = IF approved THEN "queued" ELSE "running"]
                  ELSE mission
    /\ people' = [people EXCEPT ![h] = IF matches /\ approved
                                       THEN [Away EXCEPT !.pc = "resuming"] ELSE Away]
    /\ unreviewed' = IF matches THEN {} ELSE unreviewed
    /\ UNCHANGED <<approvals, tick, resumes, crashes>>

\* POST /api/missions/:id/resume.
RequestResume(h) ==
    /\ people[h].pc = "away"
    /\ resumes < MaxResumes
    /\ resumes' = resumes + 1
    /\ people' = [people EXCEPT ![h].pc = "resuming"]
    /\ UNCHANGED <<mission, approvals, tick, unreviewed, crashes>>

Resumable == mission.status = "waiting_human"

ResumeRead(h) ==
    /\ people[h].pc = "resuming"
    /\ people' = [people EXCEPT ![h] =
                    IF ~Resumable THEN [Away EXCEPT !.pc = "tick"]
                    ELSE IF mission.approval.status \in {"pending", "rejected"} THEN Away
                    ELSE [Away EXCEPT !.pc = "resume"]]
    /\ UNCHANGED <<mission, approvals, tick, unreviewed, resumes, crashes>>

\* mutant: every task that was tried is done again
AgainAll == {t \in Task : mission.task[t] \in {"waiting_human", "failed", "succeeded"}}

Again == {t \in Task : mission.task[t] \in {"waiting_human", "failed"}}

\* Written on whatever the mission has become since it was read.
ResumeWrite(h) ==
    /\ people[h].pc = "resume"
    /\ mission' = [mission EXCEPT
                     !.status = "queued",
                     !.task = [t \in Task |-> IF t \in Again THEN "pending" ELSE @[t]],
                     !.attempts = [t \in Task |-> IF t \in Again THEN 0 ELSE @[t]],
                     !.approval = IF @.status = "approved" THEN @ ELSE NoRequest]
    /\ people' = [people EXCEPT ![h].pc = "tick"]
    /\ unreviewed' = {}
    /\ UNCHANGED <<approvals, tick, resumes, crashes>>

\* The resume ends in a tick, unless one is active.
ResumeTick(h) ==
    /\ people[h].pc = "tick"
    /\ people' = [people EXCEPT ![h] = Away]
    /\ IF tick.pc = "off" THEN BeginTick ELSE UNCHANGED tick
    /\ UNCHANGED <<mission, approvals, unreviewed, resumes, crashes>>

\* The coordinator stops anywhere and is started again; files stay.
Crash ==
    /\ crashes < MaxCrashes
    /\ crashes' = crashes + 1
    /\ tick' = Off
    /\ people' = [h \in Human |-> Away]
    /\ unreviewed' = unreviewed \cup
                       (IF tick.pc = "execute" THEN {tick.task} \ Idempotent ELSE {})
    /\ UNCHANGED <<mission, approvals, resumes>>

-----------------------------------------------------------------------------
TickStep == \/ PlanReturns \/ PlanFails
            \/ RecoverRead \/ RecoverWrite
            \/ LoopPicksTask \/ LoopFindsNone \/ LoopEnds
            \/ Replan \/ Blocked \/ VerifyCompletion \/ TickThrows
            \/ RequestApprovalFile \/ RequestApprovalMission
            \/ StartTask \/ TaskVerified \/ TaskAttemptFailed

HumanStep(h) == \/ ResolveRead(h) \/ ResolveFile(h) \/ ResolveMission(h)
                \/ RequestResume(h) \/ ResumeRead(h) \/ ResumeWrite(h) \/ ResumeTick(h)

Next == \/ SupervisorTick
        \/ TickStep
        \/ \E h \in Human : HumanStep(h)
        \/ Crash

Spec == Init /\ [][Next]_vars

\* The supervisor keeps polling and a tick keeps going: planning and execution end,
\* and planner, replanner and verifier answer in the end; a tick ends its loop for want of
\* steps or time only after some work.
FairSpec == /\ Spec
            /\ WF_vars(SupervisorTick)
            /\ WF_vars(TickStep)
            /\ SF_vars(PlanReturns)
            /\ SF_vars(LoopPicksTask)
            /\ SF_vars(LoopFindsNone)
            /\ SF_vars(Replan)
            /\ SF_vars(VerifyCompletion)
            /\ \A h \in Human : WF_vars(ResolveFile(h) \/ ResolveMission(h) \/ ResumeRead(h)
                                      \/ ResumeWrite(h) \/ ResumeTick(h))

-----------------------------------------------------------------------------
(* Properties. *)

StartsTask(t) == mission.task[t] # "running" /\ mission'.task[t] = "running"

\* An irreversible or risky task is only started with an approval on file for
\* that very task, however old the tick's reading of the mission is.
GatedRunsApproved ==
    [][\A t \in Gated : StartsTask(t) =>
          \E a \in Approval : approvals[a] = [task |-> t, status |-> "approved"]]_vars

\* A task starts after what it depends on, also when it was recovered, retried,
\* resumed or added by replanning.
DependenciesFirst ==
    [][\A t \in Task : StartsTask(t) => DependsOn[t] \subseteq Resolved]_vars

\* The verifier's verdict is stored after an await: a mission is only called
\* succeeded when every task of it is.
CompletionIsEarned ==
    mission.status = "succeeded" => \A t \in Present : mission.task[t] = "succeeded"

\* Work that was verified is never put back in line.
DoneStaysDone ==
    [][\A t \in Task : mission.task[t] = "succeeded" => mission'.task[t] = "succeeded"]_vars

\* A task left running by an interrupted tick is found by the next one, which looks
\* for it only in missions whose status is running.  Two resumes that overtake each
\* other can queue a mission again that runs already: this is about one person.
InterruptedIsRecoverable ==
    tick.pc = "off" /\ RunningTasks # {} => mission.status = "running"

\* The coordinator never starts work again by itself that is not idempotent and was
\* cut short or failed: not by recovery, retry or replanning, nor after another
\* restart, unless someone's decision or resume was written to the mission since.
NoUnattendedRepeat ==
    [][\A t \in Task : StartsTask(t) => t \notin unreviewed]_vars

\* A mission that can go on by itself comes to an end or to someone's attention.
MissionSettles ==
    mission.status \in {"planning", "queued", "running"}
        ~> mission.status \in {"waiting_human", "succeeded"}

=============================================================================
