------------------------- MODULE ControlPlaneProofs -------------------------
(***************************************************************************)
(* Theorems about the control plane, for any tasks, dependencies, numbers  *)
(* of attempts, approvals, resumes and restarts, and any number of people  *)
(* who resume.  At most one of them decides approvals: the decisions of    *)
(* two overtake each other (see README).                                   *)
(*                                                                         *)
(* What carries all of them is that what a tick or a decision has read is  *)
(* still so when it is acted on, although nothing orders them: a tick past *)
(* its first look never works on a mission that waits for someone, and a   *)
(* decision always does.  A resume may be written on anything, but puts    *)
(* back only tasks that wait or failed, which no tick has in hand.         *)
(***************************************************************************)
EXTENDS ControlPlane, TLAPS

OneApprover == \A g, h \in Approver : g = h
OnePerson == \A g, h \in Human : g = h

Deciding(h) == people[h].pc \in {"deciding", "decided"}

\* A tick past its choice has the task or the approval it chose.
TicksHaveTheirTask ==
    /\ tick.pc \in {"gate", "start", "execute"} => tick.task \in Task
    /\ tick.pc = "gated" => tick.task \in Approval

Typed == TypeOK /\ TicksHaveTheirTask

\* Only people release a mission that waits, or touch one that succeeded; a tick that
\* meets such a mission has yet to look at it.
StoppedStands == Stopped => tick.pc \in {"off", "recover", "loop"}

\* A decision on its way is the only one on its approval: the file is as it left it,
\* and the mission, if it still carries the approval, waits for it.
DecisionsAreOwn ==
    \A h \in Human : Deciding(h) =>
        LET a == people[h].approval IN
        /\ h \in Approver
        /\ a \in Approval
        /\ approvals[a].status = IF people[h].pc = "deciding" THEN "pending"
                                 ELSE people[h].decision
        /\ mission.approval.id = a => mission.approval.status = "pending"

\* The approval that the mission carries, its file and its task.
ApprovalIsFiled ==
    LET q == mission.approval IN
    /\ q.id = NoApproval => q = NoRequest
    /\ q.id # NoApproval => /\ q.task \in Task
                            /\ q.status # "none"
                            /\ approvals[q.id].task = q.task
                            /\ approvals[q.id].status # "absent"
    /\ q.status = "pending" => /\ mission.status = "waiting_human"
                               /\ mission.task[q.task] = "waiting_human"
    /\ q.status \in Decision => approvals[q.id].status = q.status

\* What a tick has read is still true when it acts on it.
TickIsFresh ==
    /\ tick.pc \in {"gate", "start"} => /\ mission.task[tick.task] = "pending"
                                        /\ DependsOn[tick.task] \subseteq Resolved
    /\ tick.pc = "start" => MayRun(tick.task)
    /\ tick.pc = "gated" => /\ approvals[tick.task].task \in Task
                            /\ approvals[tick.task].status = "pending"
                            /\ mission.task[approvals[tick.task].task] = "pending"
                            /\ mission.approval.id # tick.task
                            /\ \A h \in Human : Deciding(h) => people[h].approval # tick.task
    /\ tick.pc = "execute" => mission.task[tick.task] = "running"
    /\ tick.pc = "verify" => AllResolved

\* A mission is planned while it has no task, before anything is asked or resumed.
PlanningIsFirst ==
    /\ mission.status = "planning" =>
          /\ Present = {}
          /\ mission.approval = NoRequest
          /\ \A h \in Human : people[h].pc \in {"away", "resuming", "tick"}
    /\ tick.pc = "plan" => mission.status = "planning"

\* Work nobody has reviewed is not in line, and is not what the tick executes.
UnreviewedRests ==
    /\ \A t \in unreviewed : mission.task[t] \in {"running", "waiting_human", "failed"}
    /\ tick.pc = "execute" => tick.task \notin unreviewed

Sound == /\ StoppedStands
         /\ DecisionsAreOwn
         /\ ApprovalIsFiled
         /\ TickIsFresh
         /\ PlanningIsFirst
         /\ CompletionIsEarned
         /\ UnreviewedRests

Inv == Typed /\ Sound

-----------------------------------------------------------------------------
(***************************************************************************)
(* Types, with any number of people                                        *)
(***************************************************************************)
Files == [Approval -> [task : Task \cup {NoTask},
                       status : {"absent", "pending"} \cup Decision]]
Ticks == [pc : {"off", "plan", "recover", "recovering", "loop", "gate", "gated",
                "start", "execute", "verify", "replan", "blocked"},
          task : Task \cup {NoTask} \cup Approval, unsafe : BOOLEAN]
Sessions == [Human -> [pc : {"away", "deciding", "decided", "resuming", "resume", "tick"},
                       approval : Approval \cup {NoApproval}, decision : Decision]]

\* No task, no approval: the numbers below the first ones.
LEMMA Numbers == NoTask \notin Task /\ NoApproval \notin Approval
BY DEF Task, Approval, NoTask, NoApproval

\* A tick that is over, and one that goes on after recovery.
LEMMA OffIsTick ==
    /\ Off \in Ticks /\ Off.pc = "off"
    /\ [Off EXCEPT !.pc = "loop"] \in Ticks /\ [Off EXCEPT !.pc = "loop"].pc = "loop"
<1>1. Off \in [pc : {"off"}, task : {NoTask}, unsafe : BOOLEAN]
  BY DEF Off
<1> QED
  BY <1>1 DEF Ticks

\* Steps of a tick that write nothing.
Reads == SupervisorTick \/ RecoverRead \/ LoopPicksTask \/ LoopFindsNone \/ LoopEnds \/ TickThrows

LEMMA ReadsLeaveFiles ==
    Reads => UNCHANGED <<mission, approvals, people, unreviewed, resumes, crashes>>
BY DEF Reads, SupervisorTick, RecoverRead, LoopPicksTask, LoopFindsNone, LoopEnds, TickThrows

LEMMA BeginTyped ==
    ASSUME Typed, BeginTick
    PROVE  /\ tick' \in Ticks
           /\ tick'.pc = IF mission.status = "planning" THEN "plan" ELSE "recover"
BY DEF Typed, TypeOK, BeginTick, Goto, Ticks

LEMMA ReadsTyped ==
    ASSUME Typed, Reads
    PROVE  Typed'
<1>1. tick' \in Ticks /\ TicksHaveTheirTask'
  <2>1. CASE SupervisorTick
    BY <2>1, BeginTyped DEF SupervisorTick, TicksHaveTheirTask
  <2>2. CASE RecoverRead \/ LoopFindsNone
    BY <2>2 DEF RecoverRead, LoopFindsNone, Goto, Typed, TypeOK, Ticks, TicksHaveTheirTask
  <2>3. CASE LoopPicksTask
    BY <2>3 DEF LoopPicksTask, Runnable, Typed, TypeOK, Ticks, TicksHaveTheirTask
  <2>4. CASE LoopEnds \/ TickThrows
    BY <2>4, OffIsTick DEF LoopEnds, TickThrows, TicksHaveTheirTask
  <2> QED
    BY <2>1, <2>2, <2>3, <2>4 DEF Reads
<1> QED
  BY <1>1, ReadsLeaveFiles DEF Typed, TypeOK, Ticks

\* What the writes of a tick make of the mission.
LEMMA MissionTyped ==
    ASSUME mission \in MissionFile
    PROVE  /\ \A status \in MissionStatus : [mission EXCEPT !.status = status] \in MissionFile
           /\ \A status \in MissionStatus, f \in [Task -> TaskStatus] :
                 [mission EXCEPT !.status = status, !.task = f] \in MissionFile
           /\ \A t, ts : ts \in TaskStatus =>
                 [mission.task EXCEPT ![t] = ts] \in [Task -> TaskStatus]
BY DEF MissionFile

LEMMA PlanningTyped ==
    ASSUME Typed, PlanReturns \/ PlanFails
    PROVE  Typed'
<1>1. CASE PlanReturns
  BY <1>1 DEF PlanReturns, Goto, Typed, TypeOK, TicksHaveTheirTask, MissionFile, MissionStatus,
              TaskStatus
<1>2. CASE PlanFails
  <2>1. PICK transient \in BOOLEAN :
            LET n == IF mission.planning < 3 THEN mission.planning + 1 ELSE 3
            IN  mission' = [mission EXCEPT !.planning = n,
                              !.status = IF transient \/ n < 3 THEN "planning" ELSE "waiting_human"]
    BY <1>2 DEF PlanFails
  <2>2. mission' \in MissionFile
    <3> DEFINE n == IF mission.planning < 3 THEN mission.planning + 1 ELSE 3
    <3>1. n \in 0 .. 3
      BY DEF Typed, TypeOK, MissionFile
    <3> HIDE DEF n
    <3>2. \E status \in MissionStatus :
              mission' = [mission EXCEPT !.planning = n, !.status = status]
      BY <2>1 DEF n, MissionStatus
    <3> QED
      BY <3>1, <3>2 DEF Typed, TypeOK, MissionFile
  <2>3. tick' \in Ticks /\ tick'.pc = "off"
    BY <1>2, OffIsTick DEF PlanFails
  <2> QED
    BY <1>2, <2>2, <2>3 DEF PlanFails, Typed, TypeOK, TicksHaveTheirTask, Ticks
<1> QED
  BY <1>1, <1>2

\* Steps that write the mission, and end the tick or lead back to the loop.
LEMMA RoundsTyped ==
    ASSUME Typed, RecoverWrite \/ Replan \/ Blocked \/ VerifyCompletion \/ TaskVerified
    PROVE  Typed'
<1>1. mission' \in MissionFile
  <2>1. CASE RecoverWrite
    BY <2>1 DEF RecoverWrite, Recovered, Typed, TypeOK, MissionFile, MissionStatus, TaskStatus
  <2>2. CASE Replan
    <3>1. \/ mission' = mission
          \/ mission' = [mission EXCEPT !.status = "queued",
                           !.task = [t \in Task |-> IF mission.task[t] = "absent" THEN "pending"
                                                    ELSE mission.task[t]]]
      BY <2>2 DEF Replan, Typed, TypeOK, MissionFile
    <3>2. [t \in Task |-> IF mission.task[t] = "absent" THEN "pending" ELSE mission.task[t]]
             \in [Task -> TaskStatus]
      BY DEF Typed, TypeOK, MissionFile, TaskStatus
    <3> QED
      BY <3>1, <3>2 DEF Typed, TypeOK, MissionFile, MissionStatus
  <2>3. CASE Blocked \/ VerifyCompletion
    BY <2>3 DEF Blocked, BlockedStatus, VerifyCompletion, Typed, TypeOK, MissionFile, MissionStatus
  <2>4. CASE TaskVerified
    BY <2>4 DEF TaskVerified, Typed, TypeOK, MissionFile, MissionStatus, TaskStatus
  <2> QED
    BY <2>1, <2>2, <2>3, <2>4
<1>2. tick' \in Ticks /\ tick'.pc \in {"off", "loop", "blocked"}
  <2>1. CASE tick' = Off \/ tick' = [Off EXCEPT !.pc = "loop"]
    BY <2>1, OffIsTick
  <2>2. CASE Goto("loop") \/ Goto("blocked")
    BY <2>2 DEF Goto, Typed, TypeOK, Ticks
  <2> QED
    BY <2>1, <2>2 DEF RecoverWrite, Replan, Blocked, VerifyCompletion, TaskVerified
<1>3. UNCHANGED <<approvals, people, unreviewed, resumes, crashes>>
  BY DEF RecoverWrite, Replan, Blocked, VerifyCompletion, TaskVerified
<1> QED
  BY <1>1, <1>2, <1>3 DEF Typed, TypeOK, TicksHaveTheirTask, Ticks

LEMMA RequestsTyped ==
    ASSUME Typed, RequestApprovalFile \/ RequestApprovalMission
    PROVE  Typed'
<1>1. CASE RequestApprovalFile
  <2>1. tick.task \in Task
    BY <1>1 DEF RequestApprovalFile, Typed, TicksHaveTheirTask
  <2>2. PICK a \in Approval :
            /\ approvals' = [approvals EXCEPT ![a] = [task |-> tick.task, status |-> "pending"]]
            /\ tick' = [tick EXCEPT !.pc = "gated", !.task = a]
    BY <1>1 DEF RequestApprovalFile
  <2>3. approvals' \in Files
    BY <2>1, <2>2 DEF Typed, TypeOK, Files
  <2>4. tick' \in Ticks /\ tick'.pc = "gated" /\ tick'.task \in Approval
    BY <2>2 DEF Typed, TypeOK, Ticks
  <2> QED
    BY <1>1, <2>3, <2>4 DEF RequestApprovalFile, Typed, TypeOK, TicksHaveTheirTask, Files, Ticks
<1>2. CASE RequestApprovalMission
  <2> DEFINE a == tick.task
             t == approvals[a].task
  <2>1. a \in Approval /\ t \in Task \cup {NoTask}
    BY <1>2 DEF RequestApprovalMission, Typed, TypeOK, TicksHaveTheirTask
  <2> HIDE DEF a, t
  <2>2. mission' = [mission EXCEPT !.status = "waiting_human", !.task[t] = "waiting_human",
                       !.approval = [id |-> a, task |-> t, status |-> "pending"]]
    BY <1>2 DEF RequestApprovalMission, a, t
  <2>3. [mission.task EXCEPT ![t] = "waiting_human"] \in [Task -> TaskStatus]
    BY DEF Typed, TypeOK, MissionFile, TaskStatus
  <2>4. mission' \in MissionFile
    BY <2>1, <2>2, <2>3 DEF Typed, TypeOK, MissionFile, MissionStatus
  <2>5. tick' \in Ticks /\ tick'.pc = "off"
    BY <1>2, OffIsTick DEF RequestApprovalMission
  <2> QED
    BY <1>2, <2>4, <2>5 DEF RequestApprovalMission, Typed, TypeOK, TicksHaveTheirTask, Ticks
<1> QED
  BY <1>1, <1>2

LEMMA AttemptsTyped ==
    ASSUME Typed, StartTask \/ TaskAttemptFailed
    PROVE  Typed'
<1> DEFINE t == tick.task
<1>1. t \in Task
  BY DEF StartTask, TaskAttemptFailed, Typed, TicksHaveTheirTask
<1> HIDE DEF t
<1>2. CASE StartTask
  <2>1. PICK n \in 0 .. MaxAttempts :
            mission' = [mission EXCEPT !.status = "running", !.task[t] = "running",
                                       !.attempts[t] = n]
    <3>1. mission.attempts[t] \in 0 .. MaxAttempts
      BY <1>1 DEF Typed, TypeOK, MissionFile
    <3>2. (IF mission.attempts[t] < MaxAttempts THEN mission.attempts[t] + 1
           ELSE mission.attempts[t]) \in 0 .. MaxAttempts
      BY <3>1, ControlPlaneAssumption
    <3> QED
      BY <1>2, <3>2 DEF StartTask, t
  <2>2. mission' \in MissionFile
    BY <2>1 DEF Typed, TypeOK, MissionFile, MissionStatus, TaskStatus
  <2>3. tick' \in Ticks /\ tick'.pc = "execute" /\ tick'.task \in Task
    BY <1>1, <1>2 DEF StartTask, Goto, Typed, TypeOK, Ticks, t
  <2> QED
    BY <1>2, <2>2, <2>3 DEF StartTask, Typed, TypeOK, TicksHaveTheirTask, Ticks
<1>3. CASE TaskAttemptFailed
  <2>1. mission' \in MissionFile
    <3>1. PICK ts \in {"pending", "failed"} : mission' = [mission EXCEPT !.task[t] = ts]
      BY <1>3 DEF TaskAttemptFailed, t
    <3> QED
      BY <3>1 DEF Typed, TypeOK, MissionFile, TaskStatus
  <2>2. unreviewed' \in SUBSET (Task \ Idempotent)
    BY <1>1, <1>3 DEF TaskAttemptFailed, Typed, TypeOK, t
  <2>3. tick' \in Ticks /\ tick'.pc = "loop"
    BY <1>3 DEF TaskAttemptFailed, Goto, Typed, TypeOK, Ticks
  <2> QED
    BY <1>3, <2>1, <2>2, <2>3 DEF TaskAttemptFailed, Typed, TypeOK, TicksHaveTheirTask, Ticks
<1> QED
  BY <1>2, <1>3

\* A request in this step that has nothing in mind.
AwayAt(pc) == [pc |-> pc, approval |-> NoApproval, decision |-> "rejected"]

LEMMA AwayIsAwayAt == Away = AwayAt("away") /\ \A pc : [Away EXCEPT !.pc = pc] = AwayAt(pc)
BY DEF Away, AwayAt

\* Requests: what becomes of the one that acts.
LEMMA RequestsMove ==
    ASSUME Typed, NEW h \in Human, HumanStep(h)
    PROVE  /\ people' \in Sessions
           /\ \A g \in Human \ {h} : people'[g] = people[g]
           /\ ResolveRead(h) => people'[h].pc = "deciding"
                                /\ people'[h].approval = mission.approval.id
           /\ ResolveFile(h) => /\ people'[h].pc = "decided"
                                /\ people'[h].approval = people[h].approval
                                /\ people'[h].decision = people[h].decision
           /\ ~ResolveRead(h) /\ ~ResolveFile(h) =>
                 people'[h].pc \in {"away", "resuming", "resume", "tick"}
<1> USE DEF Typed, TypeOK, Sessions
<1>1. CASE ResolveRead(h) \/ ResolveFile(h)
  <2>1. CASE ResolveRead(h)
    <3>1. mission.approval.id \in Approval \cup {NoApproval}
      BY DEF MissionFile
    <3>2. PICK d \in Decision :
              people' = [people EXCEPT ![h] = [pc |-> "deciding", approval |-> mission.approval.id,
                                               decision |-> d]]
      BY <2>1 DEF ResolveRead
    <3>3. ~ResolveFile(h)
      BY <2>1 DEF ResolveRead, ResolveFile
    <3> QED
      BY <2>1, <3>1, <3>2, <3>3
  <2>2. CASE ResolveFile(h)
    BY <2>2 DEF ResolveRead, ResolveFile
  <2> QED
    BY <1>1, <2>1, <2>2
<1>2. CASE ~ResolveRead(h) /\ ~ResolveFile(h)
  <2>1. \/ \E pc \in {"away", "resuming", "resume", "tick"} : people' = [people EXCEPT ![h] = AwayAt(pc)]
        \/ people[h].pc = "away" /\ people' = [people EXCEPT ![h].pc = "resuming"]
        \/ people[h].pc = "resume" /\ people' = [people EXCEPT ![h].pc = "tick"]
    <3>1. CASE ResolveMission(h)
      BY <3>1, AwayIsAwayAt DEF ResolveMission
    <3>2. CASE RequestResume(h) \/ ResumeWrite(h)
      BY <3>2 DEF RequestResume, ResumeWrite
    <3>3. CASE ResumeRead(h)
      BY <3>3, AwayIsAwayAt DEF ResumeRead
    <3>4. CASE ResumeTick(h)
      BY <3>4, AwayIsAwayAt DEF ResumeTick
    <3> QED
      BY <1>2, <3>1, <3>2, <3>3, <3>4 DEF HumanStep
  <2> QED
    BY <1>2, <2>1 DEF AwayAt, Decision
<1> QED
  BY <1>1, <1>2

LEMMA HumanTyped ==
    ASSUME Typed, NEW h \in Human, HumanStep(h)
    PROVE  Typed'
<1> USE DEF Typed, TypeOK
<1>1. people' \in Sessions
  BY RequestsMove
<1>2. mission' \in MissionFile
  <2>1. CASE ResolveMission(h)
    <3> DEFINE t == approvals[people[h].approval].task
    <3>1. PICK ts \in {"pending", "failed"}, ms \in {"queued", "running"} :
              \/ mission' = mission
              \/ mission' = [mission EXCEPT !.approval.status = people[h].decision,
                                            !.task[t] = ts, !.status = ms]
      BY <2>1 DEF ResolveMission
    <3>2. [mission.task EXCEPT ![t] = ts] \in [Task -> TaskStatus]
      BY DEF MissionFile, TaskStatus
    <3>3. [mission.approval EXCEPT !.status = people[h].decision] \in
             [id : Approval \cup {NoApproval}, task : Task \cup {NoTask},
              status : {"none", "pending"} \cup Decision]
      BY DEF MissionFile
    <3>4. [mission EXCEPT !.approval = [mission.approval EXCEPT !.status = people[h].decision],
                          !.task = [mission.task EXCEPT ![t] = ts], !.status = ms] \in MissionFile
      BY <3>2, <3>3 DEF MissionFile, MissionStatus
    <3> QED
      BY <3>1, <3>4
  <2>2. CASE ResumeWrite(h)
    <3>1. [t \in Task |-> IF t \in Again THEN "pending" ELSE mission.task[t]]
               \in [Task -> TaskStatus]
      BY DEF MissionFile, TaskStatus
    <3>2. [t \in Task |-> IF t \in Again THEN 0 ELSE mission.attempts[t]]
               \in [Task -> 0 .. MaxAttempts]
      BY ControlPlaneAssumption DEF MissionFile
    <3> QED
      BY <2>2, <3>1, <3>2 DEF ResumeWrite, MissionFile, MissionStatus, NoRequest
  <2> QED
    BY <2>1, <2>2 DEF HumanStep, ResolveRead, ResolveFile, RequestResume, ResumeRead, ResumeTick
<1>3. approvals' \in Files
  <2>1. CASE ResolveFile(h)
    <3> DEFINE a == people[h].approval
               d == people[h].decision
    <3>1. d \in Decision
      OBVIOUS
    <3> HIDE DEF a, d
    <3>2. approvals' = [approvals EXCEPT ![a] = [@ EXCEPT !.status = d]]
      BY <2>1 DEF ResolveFile, a, d
    <3>3. a \in Approval => [approvals[a] EXCEPT !.status = d] \in
             [task : Task \cup {NoTask}, status : {"absent", "pending"} \cup Decision]
      BY <3>1
    <3> QED
      BY <3>2, <3>3 DEF Files
  <2> QED
    BY <2>1 DEF HumanStep, ResolveRead, ResolveMission, RequestResume, ResumeRead, ResumeWrite,
                ResumeTick, Files
<1>4. tick' \in Ticks /\ TicksHaveTheirTask'
  <2>1. CASE BeginTick
    BY <2>1, BeginTyped DEF TicksHaveTheirTask
  <2>2. CASE UNCHANGED tick
    BY <2>2 DEF TicksHaveTheirTask, Ticks
  <2> QED
    BY <2>1, <2>2 DEF HumanStep, ResolveRead, ResolveFile, ResolveMission, RequestResume,
                      ResumeRead, ResumeWrite, ResumeTick
<1>5. /\ unreviewed' \in SUBSET (Task \ Idempotent)
      /\ resumes' \in 0 .. MaxResumes
      /\ crashes' \in 0 .. MaxCrashes
  BY ControlPlaneAssumption DEF HumanStep, ResolveRead, ResolveFile, ResolveMission,
     RequestResume, ResumeRead, ResumeWrite, ResumeTick
<1> HIDE DEF Typed, TypeOK
<1> QED
  BY <1>1, <1>2, <1>3, <1>4, <1>5 DEF Typed, TypeOK, Files, Ticks, Sessions

LEMMA CrashTyped ==
    ASSUME Typed, Crash
    PROVE  Typed'
<1>1. tick.pc = "execute" => tick.task \in Task
  BY DEF Typed, TicksHaveTheirTask
<1>2. unreviewed' \in SUBSET (Task \ Idempotent)
  BY <1>1 DEF Crash, Typed, TypeOK
<1>3. people' \in Sessions
  BY DEF Crash, Away, Sessions, Decision
<1>4. tick' \in Ticks /\ tick'.pc = "off"
  BY OffIsTick DEF Crash
<1>5. crashes' \in 0 .. MaxCrashes
  BY ControlPlaneAssumption DEF Crash, Typed, TypeOK
<1> QED
  BY <1>2, <1>3, <1>4, <1>5 DEF Crash, Typed, TypeOK, TicksHaveTheirTask, Ticks, Sessions

LEMMA TypedStep == Typed /\ [Next]_vars => Typed'
<1> SUFFICES ASSUME Typed, [Next]_vars PROVE Typed'
  OBVIOUS
<1>1. CASE SupervisorTick \/ TickStep
  BY <1>1, ReadsTyped, PlanningTyped, RoundsTyped, RequestsTyped, AttemptsTyped
     DEF TickStep, Reads
<1>2. ASSUME NEW h \in Human, HumanStep(h) PROVE Typed'
  BY <1>2, HumanTyped
<1>3. CASE Crash
  BY <1>3, CrashTyped
<1>4. CASE UNCHANGED vars
  BY <1>4 DEF vars, Typed, TypeOK, TicksHaveTheirTask
<1> QED
  BY <1>1, <1>2, <1>3, <1>4 DEF Next

LEMMA TypedInit == Init => Typed
<1> SUFFICES ASSUME Init PROVE Typed
  OBVIOUS
<1>1. mission \in MissionFile
  BY ControlPlaneAssumption DEF Init, NoRequest, MissionFile, MissionStatus, TaskStatus
<1>2. tick \in Ticks /\ tick.pc = "off" /\ people \in Sessions
  BY DEF Init, Off, Away, Ticks, Sessions, Decision
<1> QED
  BY <1>1, <1>2, ControlPlaneAssumption DEF Init, Typed, TypeOK, TicksHaveTheirTask, Ticks,
     Sessions

\* Every reachable state is well typed, whoever decides and resumes.
THEOREM PlaneTypes == Spec => []TypeOK
<1>1. Typed => TypeOK
  BY DEF Typed
<1> QED
  BY TypedInit, TypedStep, <1>1, PTL DEF Spec

-----------------------------------------------------------------------------
(***************************************************************************)
(* The steps of a tick                                                     *)
(***************************************************************************)

\* A tick that is past its first look has the mission to itself.
LEMMA TickWritesAlone ==
    ASSUME Inv, tick.pc \notin {"off", "recover", "loop"}
    PROVE  ~Stopped
BY DEF Inv, Sound, StoppedStands

\* While the mission waits for nobody, the approval it carries has been decided, and
\* stays filed whatever becomes of the tasks.
LEMMA ApprovalsStand ==
    ASSUME Inv, mission.status # "waiting_human",
           mission'.approval = mission.approval, UNCHANGED <<approvals, people>>
    PROVE  DecisionsAreOwn' /\ ApprovalIsFiled'
BY DEF Inv, Sound, DecisionsAreOwn, Deciding, ApprovalIsFiled

\* A tick begins in planning or in recovery.
LEMMA BeginKeeps ==
    ASSUME Inv, BeginTick, UNCHANGED <<mission, approvals, unreviewed>>
    PROVE  /\ StoppedStands' /\ TickIsFresh' /\ UnreviewedRests'
           /\ tick'.pc = "plan" => mission.status = "planning"
<1>1. tick'.pc = IF mission.status = "planning" THEN "plan" ELSE "recover"
  BY BeginTyped DEF Inv
<1>2. StoppedStands' /\ UnreviewedRests'
  BY <1>1 DEF Inv, Sound, StoppedStands, Stopped, UnreviewedRests
<1>3. TickIsFresh'
  BY <1>1 DEF TickIsFresh
<1> QED
  BY <1>1, <1>2, <1>3

\* What a look at the mission leads to is so.
LEMMA ReadsKeep ==
    ASSUME Inv, Reads
    PROVE  Sound'
<1> USE DEF Inv, Sound
<1>1. UNCHANGED <<mission, approvals, people, unreviewed>>
  BY ReadsLeaveFiles
<1>2. DecisionsAreOwn' /\ ApprovalIsFiled' /\ CompletionIsEarned'
  BY <1>1 DEF DecisionsAreOwn, Deciding, ApprovalIsFiled, CompletionIsEarned, Present
<1>3. StoppedStands' /\ TickIsFresh' /\ UnreviewedRests'
      /\ (tick'.pc = "plan" => mission.status = "planning")
  <2>1. CASE SupervisorTick
    BY <1>1, <2>1, BeginKeeps DEF SupervisorTick
  <2>2. CASE RecoverRead
    <3>1. tick'.pc \in {"recovering", "loop"} /\ (tick'.pc = "recovering" => ~Stopped)
      BY <2>2 DEF RecoverRead, Goto, Typed, TypeOK, Stopped
    <3> QED
      BY <1>1, <3>1 DEF StoppedStands, Stopped, TickIsFresh, UnreviewedRests
  <2>3. CASE LoopPicksTask
    <3>1. /\ tick'.task \in Runnable
          /\ tick'.pc = IF MayRun(tick'.task) THEN "start" ELSE "gate"
          /\ ~Stopped
      BY <2>3 DEF LoopPicksTask, Typed, TypeOK
    <3>2. tick'.pc \in {"start", "gate"} /\ (tick'.pc = "start" => MayRun(tick'.task))
      BY <3>1
    <3>3. MayRun(tick'.task) => (tick'.task \in Gated =>
              mission'.approval.task = tick'.task /\ mission'.approval.status = "approved")
      BY <1>1 DEF MayRun
    <3>4. TickIsFresh'
      BY <1>1, <3>1, <3>2, <3>3 DEF TickIsFresh, Runnable, Resolved, MayRun
    <3> QED
      BY <1>1, <3>1, <3>2, <3>4 DEF StoppedStands, Stopped, UnreviewedRests
  <2>4. CASE LoopFindsNone
    <3>1. /\ tick'.pc \in {"verify", "replan", "blocked"}
          /\ tick'.pc = "verify" => AllResolved
          /\ ~Stopped
      BY <2>4 DEF LoopFindsNone, Goto, Typed, TypeOK
    <3> QED
      BY <1>1, <3>1 DEF StoppedStands, Stopped, TickIsFresh, AllResolved, Present, Resolved,
                        UnreviewedRests
  <2>5. CASE LoopEnds \/ TickThrows
    <3>1. tick'.pc = "off"
      BY <2>5, OffIsTick DEF LoopEnds, TickThrows
    <3> QED
      BY <1>1, <3>1 DEF StoppedStands, TickIsFresh, UnreviewedRests
  <2> QED
    BY <2>1, <2>2, <2>3, <2>4, <2>5 DEF Reads
<1>4. PlanningIsFirst'
  BY <1>1, <1>3 DEF PlanningIsFirst, Present
<1> QED
  BY <1>2, <1>3, <1>4

\* Planning begins with no task on file, so no work is lost in it.
LEMMA PlanReturnsKeeps ==
    ASSUME Inv, PlanReturns
    PROVE  Sound'
<1> USE DEF Inv, Sound, PlanReturns, Goto, Typed, TypeOK
<1>1. ~Stopped /\ mission.status = "planning" /\ Present = {} /\ tick'.pc = "recover"
  BY TickWritesAlone DEF PlanningIsFirst
<1>2. mission'.status = "queued" /\ mission'.approval = mission.approval
  BY <1>1 DEF MissionFile
<1>3. DecisionsAreOwn' /\ ApprovalIsFiled'
  BY <1>1, <1>2, ApprovalsStand DEF Stopped
<1>4. StoppedStands' /\ TickIsFresh' /\ PlanningIsFirst' /\ CompletionIsEarned'
  BY <1>1, <1>2 DEF StoppedStands, TickIsFresh, PlanningIsFirst, CompletionIsEarned
<1>5. unreviewed' = {}
  BY <1>1 DEF UnreviewedRests, Present
<1> QED
  BY <1>1, <1>3, <1>4, <1>5 DEF UnreviewedRests

\* A failure of the planner is counted, and perhaps shown to someone.
LEMMA PlanFailsKeeps ==
    ASSUME Inv, PlanFails
    PROVE  Sound'
<1> USE DEF Inv, Sound, PlanFails
<1>1. ~Stopped /\ mission.status = "planning" /\ tick'.pc = "off"
  BY TickWritesAlone, OffIsTick DEF PlanningIsFirst
<1>2. /\ mission'.status \in {"planning", "waiting_human"}
      /\ mission'.task = mission.task
      /\ mission'.approval = mission.approval
  BY DEF Typed, TypeOK, MissionFile
<1>3. DecisionsAreOwn' /\ ApprovalIsFiled'
  BY <1>1, <1>2, ApprovalsStand DEF Stopped
<1>4. StoppedStands' /\ TickIsFresh' /\ PlanningIsFirst' /\ CompletionIsEarned'
  BY <1>1, <1>2 DEF StoppedStands, TickIsFresh, PlanningIsFirst, CompletionIsEarned, Present
<1> QED
  BY <1>1, <1>2, <1>3, <1>4 DEF UnreviewedRests

\* What must not be repeated waits, as the mission does.
LEMMA RecoverWriteKeeps ==
    ASSUME Inv, RecoverWrite
    PROVE  Sound'
<1> USE DEF Inv, Sound
<1>1. ~Stopped /\ tick.pc = "recovering"
  BY TickWritesAlone DEF RecoverWrite
<1>2. /\ mission'.status \in {"queued", "waiting_human"}
      /\ mission'.approval = mission.approval
      /\ \A t \in Task : mission'.task[t] = IF mission.task[t] = "running" THEN Recovered(t)
                                            ELSE mission.task[t]
  BY DEF RecoverWrite, Typed, TypeOK, MissionFile
<1>3. tick'.pc = IF mission'.status = "waiting_human" THEN "off" ELSE "loop"
  BY OffIsTick DEF RecoverWrite, Typed, TypeOK, MissionFile
<1>4. UNCHANGED <<approvals, people, unreviewed>>
  BY DEF RecoverWrite
<1>5. DecisionsAreOwn' /\ ApprovalIsFiled'
  BY <1>1, <1>2, <1>4, ApprovalsStand DEF Stopped
<1>6. StoppedStands' /\ TickIsFresh' /\ PlanningIsFirst' /\ CompletionIsEarned'
  BY <1>2, <1>3 DEF StoppedStands, TickIsFresh, PlanningIsFirst, CompletionIsEarned
<1>7. UnreviewedRests'
  BY <1>2, <1>3, <1>4 DEF UnreviewedRests, Recovered, Typed, TypeOK
<1> QED
  BY <1>5, <1>6, <1>7

\* Replanning adds tasks and touches none.
LEMMA ReplanAdds ==
    ASSUME Typed, Replan
    PROVE  /\ UNCHANGED mission \/ mission'.status = "queued"
           /\ mission'.approval = mission.approval
           /\ \A t \in Task : mission'.task[t] # mission.task[t] =>
                  mission.task[t] = "absent" /\ mission'.task[t] = "pending"
<1>1. CASE UNCHANGED mission
  BY <1>1
<1>2. CASE mission' = [mission EXCEPT !.status = "queued",
              !.task = [t \in Task |-> IF mission.task[t] = "absent" THEN "pending"
                                       ELSE mission.task[t]]]
  BY <1>2 DEF Typed, TypeOK, MissionFile
<1> QED
  BY <1>1, <1>2 DEF Replan, Typed, TypeOK, MissionFile

LEMMA ReplanKeeps ==
    ASSUME Inv, Replan
    PROVE  Sound'
<1> USE DEF Inv, Sound
<1>1. ~Stopped /\ tick.pc = "replan"
  BY TickWritesAlone DEF Replan
<1>2. tick'.pc \in {"blocked", "loop"}
  BY DEF Replan, Goto, Typed, TypeOK
<1>3. UNCHANGED <<approvals, people, unreviewed>>
  BY DEF Replan
<1>4. /\ UNCHANGED mission \/ mission'.status = "queued"
      /\ mission'.approval = mission.approval
      /\ \A t \in Task : mission'.task[t] # mission.task[t] =>
             mission.task[t] = "absent" /\ mission'.task[t] = "pending"
  BY ReplanAdds
<1>5. DecisionsAreOwn' /\ ApprovalIsFiled'
  BY <1>1, <1>3, <1>4, ApprovalsStand DEF Stopped
<1>6. StoppedStands' /\ TickIsFresh' /\ CompletionIsEarned'
  BY <1>1, <1>2, <1>4 DEF StoppedStands, Stopped, TickIsFresh, CompletionIsEarned
<1>7. PlanningIsFirst'
  BY <1>2, <1>3, <1>4 DEF PlanningIsFirst, Present
<1>8. UnreviewedRests'
  BY <1>2, <1>3, <1>4 DEF UnreviewedRests, Typed, TypeOK
<1> QED
  BY <1>5, <1>6, <1>7, <1>8

\* A mission is shown to someone, or it succeeds because everything is resolved.
LEMMA VerdictKeeps ==
    ASSUME Inv, Blocked \/ VerifyCompletion
    PROVE  Sound'
<1> USE DEF Inv, Sound
<1>1. ~Stopped
  BY TickWritesAlone DEF Blocked, VerifyCompletion
<1>2. /\ mission'.status \in {"waiting_human", "succeeded"}
      /\ mission'.task = mission.task
      /\ mission'.approval = mission.approval
      /\ mission'.status = "succeeded" => AllResolved
  BY DEF Blocked, BlockedStatus, VerifyCompletion, TickIsFresh, Typed, TypeOK, MissionFile
<1>3. tick'.pc = "off" /\ UNCHANGED <<approvals, people, unreviewed>>
  BY OffIsTick DEF Blocked, VerifyCompletion
<1>4. DecisionsAreOwn' /\ ApprovalIsFiled'
  BY <1>1, <1>2, <1>3, ApprovalsStand DEF Stopped
<1>5. StoppedStands' /\ TickIsFresh' /\ PlanningIsFirst' /\ UnreviewedRests'
  BY <1>2, <1>3 DEF StoppedStands, TickIsFresh, PlanningIsFirst, UnreviewedRests
<1>6. CompletionIsEarned'
  BY <1>2 DEF CompletionIsEarned, AllResolved, Present, Resolved
<1> QED
  BY <1>4, <1>5, <1>6

\* The file of a new approval is not the one that the mission carries, and nobody is
\* deciding on it.
LEMMA RequestApprovalFileKeeps ==
    ASSUME Inv, RequestApprovalFile
    PROVE  Sound'
<1> USE DEF Inv, Sound
<1>1. ~Stopped /\ tick.task \in Task /\ mission.task[tick.task] = "pending"
  BY TickWritesAlone DEF RequestApprovalFile, TickIsFresh, Typed, TicksHaveTheirTask
<1>2. PICK a \in Approval :
          /\ approvals[a].status = "absent"
          /\ approvals' = [approvals EXCEPT ![a] = [task |-> tick.task, status |-> "pending"]]
          /\ tick' = [tick EXCEPT !.pc = "gated", !.task = a]
  BY DEF RequestApprovalFile
<1>3. /\ approvals'[a].task = tick.task /\ approvals'[a].status = "pending"
      /\ \A b \in Approval \ {a} : approvals'[b] = approvals[b]
      /\ tick'.pc = "gated" /\ tick'.task = a
  BY <1>2 DEF Typed, TypeOK
<1>4. UNCHANGED <<mission, people, unreviewed>>
  BY DEF RequestApprovalFile
<1>5. mission.approval.id # a /\ \A h \in Human : Deciding(h) => people[h].approval # a
  BY <1>2, Numbers DEF DecisionsAreOwn, Deciding, ApprovalIsFiled, Decision, Typed, TypeOK,
                       MissionFile
<1>6. DecisionsAreOwn'
  BY <1>3, <1>4, <1>5 DEF DecisionsAreOwn, Deciding
<1>7. ApprovalIsFiled'
  <2>1. mission.approval.id # NoApproval => mission.approval.id \in Approval \ {a}
    BY <1>5 DEF Typed, TypeOK, MissionFile
  <2>2. mission.approval.id = NoApproval => mission.approval.status \notin Decision
    BY DEF ApprovalIsFiled, NoRequest, Decision
  <2> QED
    BY <1>3, <1>4, <2>1, <2>2 DEF ApprovalIsFiled
<1>8. TickIsFresh'
  BY <1>1, <1>3, <1>4, <1>5 DEF TickIsFresh, Deciding
<1>9. StoppedStands' /\ PlanningIsFirst' /\ CompletionIsEarned' /\ UnreviewedRests'
  BY <1>1, <1>3, <1>4 DEF StoppedStands, Stopped, PlanningIsFirst, CompletionIsEarned, Present,
                          UnreviewedRests
<1> QED
  BY <1>6, <1>7, <1>8, <1>9

\* Then the mission carries it, and its task waits.
LEMMA RequestApprovalMissionKeeps ==
    ASSUME Inv, RequestApprovalMission
    PROVE  Sound'
<1> USE DEF Inv, Sound
<1>1. PICK a \in Approval, t \in Task :
          /\ a = tick.task
          /\ t = approvals[a].task
          /\ approvals[a].status = "pending"
          /\ mission.task[t] = "pending"
          /\ \A h \in Human : Deciding(h) => people[h].approval # a
          /\ mission' = [mission EXCEPT !.status = "waiting_human", !.task[t] = "waiting_human",
                             !.approval = [id |-> a, task |-> t, status |-> "pending"]]
  BY DEF RequestApprovalMission, TickIsFresh, Typed, TicksHaveTheirTask
<1>2. /\ mission'.status = "waiting_human"
      /\ mission'.task[t] = "waiting_human"
      /\ \A u \in Task \ {t} : mission'.task[u] = mission.task[u]
      /\ mission'.approval = [id |-> a, task |-> t, status |-> "pending"]
  BY <1>1 DEF Typed, TypeOK, MissionFile
<1>3. tick'.pc = "off" /\ UNCHANGED <<approvals, people, unreviewed>>
  BY OffIsTick DEF RequestApprovalMission
<1>4. DecisionsAreOwn'
  BY <1>1, <1>2, <1>3 DEF DecisionsAreOwn, Deciding
<1>5. ApprovalIsFiled'
  BY <1>1, <1>2, <1>3, Numbers DEF ApprovalIsFiled, Decision
<1>6. StoppedStands' /\ TickIsFresh' /\ PlanningIsFirst' /\ CompletionIsEarned'
  BY <1>2, <1>3 DEF StoppedStands, TickIsFresh, PlanningIsFirst, CompletionIsEarned
<1>7. UnreviewedRests'
  BY <1>1, <1>2, <1>3 DEF UnreviewedRests, Typed, TypeOK
<1> QED
  BY <1>4, <1>5, <1>6, <1>7

\* A write of a tick that gives the task it has in hand another status.
LEMMA OneTaskKeeps ==
    ASSUME Inv, tick.pc \in {"start", "execute"},
           NEW t \in Task, t = tick.task, NEW ts \in TaskStatus,
           mission'.status \in {"running", mission.status},
           mission'.approval = mission.approval,
           mission'.task = [mission.task EXCEPT ![t] = ts],
           UNCHANGED <<approvals, people>>,
           tick'.pc \in {"execute", "loop"},
           tick'.pc = "execute" => tick'.task = t /\ ts = "running"
    PROVE  StoppedStands' /\ DecisionsAreOwn' /\ ApprovalIsFiled' /\ TickIsFresh'
           /\ PlanningIsFirst' /\ CompletionIsEarned'
<1>1. ~Stopped
  BY TickWritesAlone
<1>2. DecisionsAreOwn' /\ ApprovalIsFiled'
  BY <1>1, ApprovalsStand DEF Stopped
<1>3. mission'.task[t] = ts
  BY DEF Inv, Typed, TypeOK, MissionFile
<1>4. mission.status # "planning"
  BY DEF Inv, Sound, TickIsFresh, PlanningIsFirst, Present
<1> QED
  BY <1>1, <1>2, <1>3, <1>4 DEF StoppedStands, Stopped, TickIsFresh, PlanningIsFirst,
                                CompletionIsEarned

\* What is started was pending: nothing waits for a review of it.
LEMMA StartTaskKeeps ==
    ASSUME Inv, StartTask
    PROVE  Sound'
<1> DEFINE t == tick.task
<1>1. t \in Task /\ mission.task[t] = "pending" /\ tick.pc = "start"
  BY DEF StartTask, Inv, Sound, TickIsFresh, Typed, TicksHaveTheirTask
<1>2. /\ mission'.status = "running"
      /\ mission'.approval = mission.approval
      /\ mission'.task = [mission.task EXCEPT ![t] = "running"]
  BY DEF StartTask, Inv, Typed, TypeOK, MissionFile
<1>3. tick'.pc = "execute" /\ tick'.task = t /\ UNCHANGED <<approvals, people, unreviewed>>
  BY DEF StartTask, Goto, Inv, Typed, TypeOK
<1>4. UnreviewedRests'
  <2>1. t \notin unreviewed
    BY <1>1 DEF Inv, Sound, UnreviewedRests
  <2>2. \A u \in unreviewed : mission'.task[u] = mission.task[u]
    BY <1>2, <2>1 DEF Inv, Typed, TypeOK, MissionFile
  <2> QED
    BY <1>3, <2>1, <2>2 DEF Inv, Sound, UnreviewedRests
<1>5. "running" \in TaskStatus
  BY DEF TaskStatus
<1> QED
  BY <1>1, <1>2, <1>3, <1>4, <1>5, OneTaskKeeps DEF Sound

\* The task was executed, and verified or not; what failed for good and must not be
\* repeated is out of line.
LEMMA AttemptEndsKeeps ==
    ASSUME Inv, TaskVerified \/ TaskAttemptFailed
    PROVE  Sound'
<1> DEFINE t == tick.task
<1>1. /\ tick.pc = "execute" /\ t \in Task /\ t \notin unreviewed
      /\ mission.task[t] = "running" 
  BY DEF TaskVerified, TaskAttemptFailed, Inv, Sound, TickIsFresh, UnreviewedRests, Typed,
         TicksHaveTheirTask
<1>2. tick'.pc = "loop" /\ UNCHANGED <<approvals, people>>
  BY DEF TaskVerified, TaskAttemptFailed, Goto, Inv, Typed, TypeOK
<1>3. /\ mission'.status \in {"running", mission.status}
      /\ mission'.approval = mission.approval
  BY DEF TaskVerified, TaskAttemptFailed, Inv, Typed, TypeOK, MissionFile
<1>4. PICK ts \in {"succeeded", "pending", "failed"} :
          /\ mission'.task = [mission.task EXCEPT ![t] = ts]
          /\ unreviewed' = unreviewed \/ (unreviewed' = unreviewed \cup {t} /\ ts = "failed")
  <2>1. CASE TaskVerified
    BY <2>1 DEF TaskVerified, Inv, Typed, TypeOK, MissionFile
  <2>2. CASE TaskAttemptFailed
    <3>1. PICK retryable \in BOOLEAN :
              /\ mission' = [mission EXCEPT !.task[t] =
                     IF CanRetry(t, retryable) /\ mission.attempts[t] < MaxAttempts
                     THEN "pending" ELSE "failed"]
              /\ unreviewed' = IF t \in Idempotent \/ retryable THEN unreviewed
                               ELSE unreviewed \cup {t}
      BY <2>2 DEF TaskAttemptFailed
    <3>2. PICK ts \in {"pending", "failed"} :
              /\ mission' = [mission EXCEPT !.task[t] = ts]
              /\ ~(t \in Idempotent \/ retryable) => ts = "failed"
      BY <3>1 DEF CanRetry
    <3>3. mission'.task = [mission.task EXCEPT ![t] = ts]
      BY <3>2 DEF Inv, Typed, TypeOK, MissionFile
    <3> QED
      BY <3>1, <3>2, <3>3
  <2> QED
    BY <2>1, <2>2
<1>5. UnreviewedRests'
  <2>1. mission'.task[t] = ts /\ \A u \in Task \ {t} : mission'.task[u] = mission.task[u]
    BY <1>1, <1>4 DEF Inv, Typed, TypeOK, MissionFile
  <2>2. \A u \in unreviewed : u \in Task \ {t}
    BY <1>1 DEF Inv, Typed, TypeOK
  <2> QED
    BY <1>2, <1>4, <2>1, <2>2 DEF Inv, Sound, UnreviewedRests
<1>6. ts \in TaskStatus
  BY DEF TaskStatus
<1> QED
  BY <1>1, <1>2, <1>3, <1>4, <1>5, <1>6, OneTaskKeeps DEF Sound

-----------------------------------------------------------------------------
(***************************************************************************)
(* People, and restarts                                                    *)
(***************************************************************************)

\* A request that only reads, and decides nothing new.
LEMMA RequestKeeps ==
    ASSUME Inv, UNCHANGED <<mission, approvals, tick, unreviewed>>,
           \A g \in Human : Deciding(g)' => people'[g] = people[g],
           mission.status = "planning" => \A g \in Human : people'[g].pc \in {people[g].pc, "away",
                                                              "resuming", "tick"}
    PROVE  Sound'
<1> USE DEF Inv, Sound
<1>1. StoppedStands' /\ ApprovalIsFiled' /\ CompletionIsEarned' /\ UnreviewedRests'
  BY DEF StoppedStands, Stopped, ApprovalIsFiled, CompletionIsEarned, Present, UnreviewedRests
<1>2. DecisionsAreOwn' /\ PlanningIsFirst'
  BY DEF DecisionsAreOwn, Deciding, PlanningIsFirst, Present
<1>3. TickIsFresh'
  BY DEF TickIsFresh, Resolved, MayRun, AllResolved, Present, Deciding
<1> QED
  BY <1>1, <1>2, <1>3

\* The approval that is read is pending, so the mission waits for it.
LEMMA ResolveReadKeeps ==
    ASSUME Inv, NEW h \in Human, ResolveRead(h)
    PROVE  Sound'
<1> USE DEF Inv, Sound
<1> DEFINE a == mission.approval.id
<1>1. /\ h \in Approver
      /\ a \in Approval
      /\ approvals[a].status = "pending"
      /\ mission.approval.status = "pending"
      /\ mission.status # "planning"
  BY DEF ResolveRead, ApprovalIsFiled, PlanningIsFirst, NoRequest, Decision, Typed, TypeOK,
         MissionFile
<1>2. /\ people'[h].pc = "deciding" /\ people'[h].approval = a
      /\ \A g \in Human \ {h} : people'[g] = people[g]
  BY RequestsMove DEF HumanStep
<1>3. UNCHANGED <<mission, approvals, tick, unreviewed>>
  BY DEF ResolveRead
<1>4. DecisionsAreOwn'
  BY <1>1, <1>2, <1>3 DEF DecisionsAreOwn, Deciding
<1>5. TickIsFresh'
  BY <1>1, <1>2, <1>3 DEF TickIsFresh, Resolved, MayRun, AllResolved, Present, Deciding
<1>6. PlanningIsFirst'
  BY <1>1, <1>3 DEF PlanningIsFirst
<1>7. StoppedStands' /\ ApprovalIsFiled' /\ CompletionIsEarned' /\ UnreviewedRests'
  BY <1>3 DEF StoppedStands, Stopped, ApprovalIsFiled, CompletionIsEarned, Present,
              UnreviewedRests
<1> QED
  BY <1>4, <1>5, <1>6, <1>7

\* The file is decided, while no tick is about to show it and nobody else decides.
LEMMA ResolveFileKeeps ==
    ASSUME OneApprover, Inv, NEW h \in Human, ResolveFile(h)
    PROVE  Sound'
<1> USE DEF Inv, Sound
<1> DEFINE a == people[h].approval
           d == people[h].decision
<1>1. /\ h \in Approver /\ a \in Approval /\ d \in Decision
      /\ mission.approval.id = a => mission.approval.status = "pending"
      /\ \A g \in Human : Deciding(g) => g = h
      /\ tick.pc = "gated" => tick.task # a
  BY DEF ResolveFile, DecisionsAreOwn, Deciding, OneApprover, TickIsFresh, Typed, TypeOK
<1>2. /\ people'[h].pc = "decided" /\ people'[h].approval = a /\ people'[h].decision = d
      /\ \A g \in Human \ {h} : people'[g] = people[g]
  BY RequestsMove DEF HumanStep
<1>3. UNCHANGED <<mission, tick, unreviewed>>
  BY DEF ResolveFile
<1>4. /\ approvals'[a].status = d /\ approvals'[a].task = approvals[a].task
      /\ \A b \in Approval \ {a} : approvals'[b] = approvals[b]
  <2>1. approvals' = [approvals EXCEPT ![a] = [@ EXCEPT !.status = d]]
    BY DEF ResolveFile
  <2> HIDE DEF a, d
  <2> QED
    BY <1>1, <2>1 DEF Typed, TypeOK
<1> HIDE DEF a, d
<1>5. DecisionsAreOwn'
  BY <1>1, <1>2, <1>3, <1>4 DEF DecisionsAreOwn, Deciding
<1>6. ApprovalIsFiled'
  <2>1. mission.approval.id # NoApproval => mission.approval.id \in Approval
    BY DEF Typed, TypeOK, MissionFile
  <2>2. mission.approval.id = NoApproval => mission.approval.status \notin Decision
    BY DEF ApprovalIsFiled, NoRequest, Decision
  <2> QED
    BY <1>1, <1>3, <1>4, <2>1, <2>2 DEF ApprovalIsFiled, Decision
<1>7. TickIsFresh'
  <2>1. tick.pc = "gated" => tick.task \in Approval \ {a}
    BY <1>1 DEF Typed, TicksHaveTheirTask
  <2>2. tick.pc = "gated" => approvals'[tick.task] = approvals[tick.task]
    BY <1>4, <2>1
  <2>3. tick.pc = "gated" => \A g \in Human : Deciding(g)' => people'[g].approval # tick.task
    BY <1>1, <1>2 DEF Deciding
  <2> QED
    BY <1>3, <2>2, <2>3 DEF TickIsFresh, Resolved, MayRun, AllResolved, Present
<1>8. PlanningIsFirst'
  BY <1>2, <1>3 DEF PlanningIsFirst, Present, ResolveFile
<1>9. StoppedStands' /\ CompletionIsEarned' /\ UnreviewedRests'
  BY <1>3 DEF StoppedStands, Stopped, CompletionIsEarned, Present, UnreviewedRests
<1> QED
  BY <1>5, <1>6, <1>7, <1>8, <1>9

\* The decision reaches the mission if it still carries the approval: then it waits
\* for it, and no tick is past its first look.
LEMMA ResolveMissionKeeps ==
    ASSUME OneApprover, Inv, NEW h \in Human, ResolveMission(h)
    PROVE  Sound'
<1> USE DEF Inv, Sound
<1> DEFINE a == people[h].approval
           d == people[h].decision
<1>1. /\ a \in Approval /\ d \in Decision /\ approvals[a].status = d
      /\ mission.approval.id = a => mission.approval.status = "pending"
      /\ \A g \in Human : Deciding(g) => g = h
  BY DEF ResolveMission, DecisionsAreOwn, Deciding, OneApprover, Typed, TypeOK
<1>2. \A g \in Human : /\ ~Deciding(g)'
                      /\ \/ people'[g] = people[g]
                         \/ people'[g].pc \in {"away", "resuming"}
  <2>1. people'[h].pc \in {"away", "resuming"}
    BY AwayIsAwayAt DEF ResolveMission, AwayAt, Typed, TypeOK
  <2>2. \A g \in Human \ {h} : people'[g] = people[g]
    BY RequestsMove DEF HumanStep
  <2> QED
    BY <1>1, <2>1, <2>2 DEF Deciding
<1>3. UNCHANGED <<approvals, tick>>
  BY DEF ResolveMission
<1>4. CASE mission.approval.id # a
  <2>1. UNCHANGED <<mission, unreviewed>>
    BY <1>4 DEF ResolveMission
  <2> QED
    BY <1>2, <1>3, <2>1, RequestKeeps DEF Deciding
<1>5. CASE mission.approval.id = a
  <2> DEFINE t == mission.approval.task
  <2>1. /\ mission.status = "waiting_human" /\ t \in Task
        /\ mission.task[t] = "waiting_human" /\ approvals[a].task = t
        /\ tick.pc \in {"off", "recover", "loop"}
    BY <1>1, <1>5, Numbers DEF ApprovalIsFiled, StoppedStands, Stopped
  <2>2. PICK ts \in {"pending", "failed"}, ms \in {"queued", "running"} :
            mission' = [mission EXCEPT !.approval.status = d, !.task[t] = ts, !.status = ms]
    BY <1>5, <2>1 DEF ResolveMission
  <2> HIDE DEF a, d, t
  <2>3. /\ mission'.status \in {"queued", "running"}
        /\ mission'.approval = [mission.approval EXCEPT !.status = d]
        /\ mission'.task = [mission.task EXCEPT ![t] = ts]
    BY <2>2 DEF Typed, TypeOK, MissionFile
  <2>4. /\ mission'.approval.id = a /\ mission'.approval.task = t /\ mission'.approval.status = d
    BY <1>5, <2>3 DEF Typed, TypeOK, MissionFile, t
  <2>5. unreviewed' = {}
    BY <1>5 DEF ResolveMission, a
  <2>6. ApprovalIsFiled'
    BY <1>1, <1>3, <2>1, <2>4, Numbers DEF ApprovalIsFiled, Decision
  <2>7. DecisionsAreOwn'
    BY <1>2 DEF DecisionsAreOwn, Deciding
  <2>8. StoppedStands' /\ TickIsFresh' /\ PlanningIsFirst' /\ CompletionIsEarned'
        /\ UnreviewedRests'
    BY <1>3, <2>1, <2>3, <2>5 DEF StoppedStands, Stopped, TickIsFresh, PlanningIsFirst,
       CompletionIsEarned, UnreviewedRests
  <2> QED
    BY <2>6, <2>7, <2>8
<1> QED
  BY <1>4, <1>5

\* A resume is asked for; it is refused, or goes on for a mission that waits.
LEMMA ResumeReadsKeep ==
    ASSUME Inv, NEW h \in Human, RequestResume(h) \/ ResumeRead(h)
    PROVE  Sound'
<1>1. /\ people'[h].pc \in {"away", "resuming", "resume", "tick"}
      /\ \A g \in Human \ {h} : people'[g] = people[g]
  <2>1. HumanStep(h) /\ Typed
    BY DEF HumanStep, Inv
  <2>2. ~ResolveRead(h) /\ ~ResolveFile(h)
    <3>1. CASE RequestResume(h)
      BY <2>1, <3>1 DEF RequestResume, ResolveRead, ResolveFile, Typed, TypeOK
    <3>2. CASE ResumeRead(h)
      BY <3>2 DEF ResumeRead, ResolveRead, ResolveFile
    <3> QED
      BY <3>1, <3>2
  <2> QED
    BY <2>1, <2>2, RequestsMove
<1>2. mission.status = "planning" => people'[h].pc # "resume"
  BY AwayIsAwayAt DEF RequestResume, ResumeRead, Resumable, AwayAt, Inv, Typed, TypeOK
<1>3. UNCHANGED <<mission, approvals, tick, unreviewed>>
  BY DEF RequestResume, ResumeRead
<1> QED
  BY <1>1, <1>2, <1>3, RequestKeeps DEF Deciding

\* It puts back what waited or failed.  No tick has such a task in hand, and if the
\* mission carries an approval that nobody has given, it forgets it.
LEMMA ResumeWrites ==
    ASSUME Typed, NEW h \in Human, ResumeWrite(h)
    PROVE  /\ mission'.status = "queued"
           /\ \A t \in Task : mission'.task[t] = IF t \in Again THEN "pending"
                                                ELSE mission.task[t]
           /\ mission'.approval = IF mission.approval.status = "approved"
                                  THEN mission.approval ELSE NoRequest
           /\ unreviewed' = {}
           /\ people'[h].pc = "tick"
           /\ \A g \in Human \ {h} : people'[g] = people[g]
           /\ UNCHANGED <<approvals, tick>>
BY DEF ResumeWrite, Typed, TypeOK, MissionFile

LEMMA ResumeWriteKeeps ==
    ASSUME Inv, NEW h \in Human, ResumeWrite(h)
    PROVE  Sound'
<1> USE ResumeWrites DEF Inv, Sound
<1>1. StoppedStands' /\ CompletionIsEarned' /\ UnreviewedRests'
  BY DEF StoppedStands, Stopped, CompletionIsEarned, UnreviewedRests, TickIsFresh
<1>2. mission.status # "planning"
  BY DEF PlanningIsFirst, ResumeWrite
<1>3. PlanningIsFirst'
  BY <1>2 DEF PlanningIsFirst
<1>4. DecisionsAreOwn'
  BY Numbers DEF DecisionsAreOwn, Deciding, NoRequest
<1>5. ApprovalIsFiled'
  BY Numbers DEF ApprovalIsFiled, NoRequest, Decision
<1>6. \A t \in Task : mission'.task[t] # mission.task[t] =>
                          mission.task[t] \in {"waiting_human", "failed"}
  BY DEF Again
<1>7. Present' = Present /\ Resolved \subseteq Resolved' /\ (Again = {} => Resolved' = Resolved)
  BY <1>6 DEF Present, Resolved, Again
<1>8. AllResolved => AllResolved'
  BY <1>7 DEF AllResolved
<1>9. \A t \in Task : MayRun(t) => t \notin Gated \/ (mission'.approval.task = t
                                                  /\ mission'.approval.status = "approved")
  BY DEF MayRun
<1>10. tick.pc = "gated" => mission'.approval.id # tick.task
  BY Numbers DEF TickIsFresh, NoRequest, Typed, TicksHaveTheirTask
<1>11. \A g \in Human : Deciding(g)' => Deciding(g) /\ people'[g] = people[g]
  BY DEF Deciding
<1>12. TickIsFresh'
  BY <1>6, <1>7, <1>8, <1>9, <1>10, <1>11 DEF TickIsFresh, MayRun, Typed, TicksHaveTheirTask
<1> QED
  BY <1>1, <1>3, <1>4, <1>5, <1>12

\* A resume ends in a tick, unless there is one.
LEMMA ResumeTickKeeps ==
    ASSUME Inv, NEW h \in Human, ResumeTick(h)
    PROVE  Sound'
<1>1. /\ people'[h].pc = "away"
      /\ \A g \in Human \ {h} : people'[g] = people[g]
      /\ UNCHANGED <<mission, approvals, unreviewed>>
  BY DEF ResumeTick, Away, Inv, Typed, TypeOK
<1>2. CASE UNCHANGED tick
  BY <1>1, <1>2, RequestKeeps DEF Deciding
<1>3. CASE BeginTick
  <2>1. StoppedStands' /\ TickIsFresh' /\ UnreviewedRests'
        /\ (tick'.pc = "plan" => mission.status = "planning")
    BY <1>1, <1>3, BeginKeeps
  <2>2. DecisionsAreOwn' /\ ApprovalIsFiled' /\ CompletionIsEarned'
    BY <1>1 DEF Inv, Sound, DecisionsAreOwn, Deciding, ApprovalIsFiled, CompletionIsEarned,
                Present
  <2>3. PlanningIsFirst'
    BY <1>1, <2>1 DEF Inv, Sound, PlanningIsFirst, Present
  <2> QED
    BY <2>1, <2>2, <2>3 DEF Sound
<1> QED
  BY <1>2, <1>3 DEF ResumeTick

\* A restart: files stay, and what is cut short is unreviewed.
LEMMA CrashKeeps ==
    ASSUME Inv, Crash
    PROVE  Sound'
<1> USE DEF Inv, Sound
<1>1. tick'.pc = "off" /\ \A h \in Human : people'[h].pc = "away"
  BY OffIsTick DEF Crash, Away
<1>2. UNCHANGED <<mission, approvals>>
  BY DEF Crash
<1>3. \A t \in unreviewed' : t \in unreviewed \/ mission.task[t] = "running"
  BY DEF Crash, TickIsFresh
<1>4. DecisionsAreOwn' /\ StoppedStands' /\ TickIsFresh' /\ ApprovalIsFiled'
  BY <1>1, <1>2 DEF DecisionsAreOwn, Deciding, StoppedStands, TickIsFresh, ApprovalIsFiled
<1>5. PlanningIsFirst' /\ CompletionIsEarned' /\ UnreviewedRests'
  BY <1>1, <1>2, <1>3 DEF PlanningIsFirst, CompletionIsEarned, Present, UnreviewedRests
<1> QED
  BY <1>4, <1>5

-----------------------------------------------------------------------------
(***************************************************************************)
(* The invariant                                                           *)
(***************************************************************************)

\* A mission begins with nothing running, nothing asked and nobody at work.
LEMMA InvInit == Init => Inv
<1> SUFFICES ASSUME Init PROVE Sound
  BY TypedInit DEF Inv
<1> USE DEF Init, Off, Away, NoRequest
<1>1. StoppedStands /\ DecisionsAreOwn /\ ApprovalIsFiled /\ TickIsFresh
  BY DEF StoppedStands, DecisionsAreOwn, Deciding, ApprovalIsFiled, TickIsFresh, Decision
<1>2. PlanningIsFirst /\ CompletionIsEarned /\ UnreviewedRests
  BY DEF PlanningIsFirst, Present, CompletionIsEarned, UnreviewedRests
<1> QED
  BY <1>1, <1>2 DEF Sound

\* Every step keeps the invariant.
LEMMA InvStep == OneApprover /\ Inv /\ [Next]_vars => Inv'
<1> SUFFICES ASSUME OneApprover, Inv, [Next]_vars PROVE Sound'
  BY TypedStep DEF Inv
<1>1. CASE SupervisorTick \/ TickStep
  BY <1>1, ReadsKeep, PlanReturnsKeeps, PlanFailsKeeps, RecoverWriteKeeps, ReplanKeeps,
     VerdictKeeps, RequestApprovalFileKeeps, RequestApprovalMissionKeeps, StartTaskKeeps,
     AttemptEndsKeeps DEF TickStep, Reads
<1>2. ASSUME NEW h \in Human, HumanStep(h)
      PROVE  Sound'
  BY <1>2, ResolveReadKeeps, ResolveFileKeeps, ResolveMissionKeeps, ResumeReadsKeep,
     ResumeWriteKeeps, ResumeTickKeeps DEF HumanStep
<1>3. CASE Crash
  BY <1>3, CrashKeeps
<1>4. CASE UNCHANGED vars
  BY <1>4, RequestKeeps DEF vars
<1> QED
  BY <1>1, <1>2, <1>3, <1>4 DEF Next
-----------------------------------------------------------------------------
(***************************************************************************)
(* One person at most: nothing is written on what a request has read       *)
(***************************************************************************)

\* A resume about to be written found the mission waiting, and so it is.
ResumesWait == \A h \in Human : people[h].pc = "resume" => mission.status = "waiting_human"

\* A task is running while its tick executes it, or was left so by a restart.
RunningIsKnown ==
    /\ RunningTasks # {} => mission.status = "running"
    /\ tick.pc \notin {"off", "recover", "recovering", "execute"} => RunningTasks = {}
    /\ tick.pc = "execute" => RunningTasks = {tick.task}

LoneInv == Inv /\ ResumesWait /\ RunningIsKnown

\* A tick that writes leaves requests alone, and none of them is a resume about to be
\* written.
LEMMA TicksFindNoResume ==
    ASSUME LoneInv, SupervisorTick \/ TickStep
    PROVE  ResumesWait'
<1>1. CASE Reads
  BY <1>1, ReadsLeaveFiles DEF LoneInv, ResumesWait
<1>2. CASE ~Reads
  <2>1. tick.pc \notin {"off", "recover", "loop"} /\ UNCHANGED people
    BY <1>2 DEF Reads, TickStep, PlanReturns, PlanFails, RecoverWrite, Replan, Blocked,
       VerifyCompletion, RequestApprovalFile, RequestApprovalMission, StartTask, TaskVerified,
       TaskAttemptFailed
  <2>2. \A h \in Human : people[h].pc # "resume"
    BY <2>1, TickWritesAlone DEF LoneInv, ResumesWait, Stopped
  <2> QED
    BY <2>1, <2>2 DEF ResumesWait
<1> QED
  BY <1>1, <1>2

LEMMA ReadsKnow ==
    ASSUME LoneInv, Reads
    PROVE  RunningIsKnown'
<1> USE DEF LoneInv, Inv, RunningIsKnown
<1>1. UNCHANGED mission /\ RunningTasks' = RunningTasks
  BY ReadsLeaveFiles DEF RunningTasks
<1>2. CASE SupervisorTick
  <2>1. mission.status = "planning" => RunningTasks = {}
    BY DEF Sound, PlanningIsFirst, Present, RunningTasks
  <2> QED
    BY <1>1, <1>2, <2>1, BeginTyped DEF SupervisorTick
<1>3. CASE RecoverRead
  BY <1>1, <1>3 DEF RecoverRead, Goto, Typed, TypeOK
<1>4. CASE LoopPicksTask \/ LoopFindsNone
  <2>1. tick.pc = "loop" /\ tick'.pc \in {"start", "gate", "verify", "replan", "blocked"}
    <3>1. CASE LoopPicksTask
      <4>1. PICK t \in Runnable :
                tick' = [tick EXCEPT !.pc = IF MayRun(t) THEN "start" ELSE "gate", !.task = t]
        BY <3>1 DEF LoopPicksTask
      <4> QED
        BY <3>1, <4>1 DEF LoopPicksTask, Typed, TypeOK
    <3>2. CASE LoopFindsNone
      BY <3>2 DEF LoopFindsNone, Goto, Typed, TypeOK
    <3> QED
      BY <1>4, <3>1, <3>2
  <2> QED
    BY <1>1, <2>1
<1>5. CASE LoopEnds \/ TickThrows
  BY <1>1, <1>5, OffIsTick DEF LoopEnds, TickThrows
<1> QED
  BY <1>2, <1>3, <1>4, <1>5 DEF Reads

\* What a write of a tick leaves running: what it starts, if anything.
LEMMA WritesKnow ==
    ASSUME LoneInv, TickStep, ~Reads
    PROVE  RunningIsKnown'
<1> USE DEF LoneInv, Inv, RunningIsKnown
<1>1. CASE PlanReturns \/ PlanFails
  <2>1. Present = {}
    BY <1>1 DEF PlanReturns, PlanFails, Sound, PlanningIsFirst
  <2>2. RunningTasks' = {}
    <3>1. CASE PlanReturns
      BY <2>1, <3>1 DEF PlanReturns, Present, RunningTasks, Typed, TypeOK, MissionFile
    <3>2. CASE PlanFails
      BY <2>1, <3>2 DEF PlanFails, Present, RunningTasks, Typed, TypeOK, MissionFile
    <3> QED
      BY <1>1, <3>1, <3>2
  <2>3. tick'.pc \in {"recover", "off"}
    BY <1>1, OffIsTick DEF PlanReturns, PlanFails, Goto, Typed, TypeOK
  <2> QED
    BY <2>2, <2>3
<1>2. CASE RecoverWrite
  <2>1. RunningTasks' = {}
    BY <1>2 DEF RecoverWrite, Recovered, RunningTasks, Typed, TypeOK, MissionFile
  <2>2. tick'.pc \in {"loop", "off"}
    BY <1>2, OffIsTick DEF RecoverWrite
  <2> QED
    BY <2>1, <2>2
<1>3. CASE Replan
  <2>1. RunningTasks' = {}
    BY <1>3, ReplanAdds DEF Replan, RunningTasks
  <2>2. tick'.pc \in {"loop", "blocked"}
    BY <1>3 DEF Replan, Goto, Typed, TypeOK
  <2> QED
    BY <2>1, <2>2
<1>4. CASE Blocked \/ VerifyCompletion
  <2>1. mission'.task = mission.task /\ tick'.pc = "off" /\ RunningTasks = {}
    BY <1>4, OffIsTick DEF Blocked, VerifyCompletion, Typed, TypeOK, MissionFile
  <2> QED
    BY <2>1 DEF RunningTasks
<1>5. CASE RequestApprovalFile \/ RequestApprovalMission
  <2>1. RunningTasks = {} /\ tick'.pc \in {"gated", "off"}
    BY <1>5, OffIsTick DEF RequestApprovalFile, RequestApprovalMission, Typed, TypeOK
  <2>2. \A t \in Task : mission'.task[t] \in {mission.task[t], "waiting_human"}
    <3>1. CASE RequestApprovalFile
      BY <3>1 DEF RequestApprovalFile
    <3>2. CASE RequestApprovalMission
      BY <3>2 DEF RequestApprovalMission, Typed, TypeOK, MissionFile
    <3> QED
      BY <1>5, <3>1, <3>2
  <2> QED
    BY <2>1, <2>2 DEF RunningTasks
<1>6. CASE StartTask
  <2>1. RunningTasks = {} /\ tick.task \in Task
    BY <1>6 DEF StartTask, Typed, TicksHaveTheirTask
  <2>2. RunningTasks' = {tick.task} /\ mission'.status = "running"
    BY <1>6, <2>1 DEF StartTask, RunningTasks, Typed, TypeOK, MissionFile
  <2>3. tick'.pc = "execute" /\ tick'.task = tick.task
    BY <1>6 DEF StartTask, Goto, Typed, TypeOK
  <2> QED
    BY <2>2, <2>3
<1>7. CASE TaskVerified \/ TaskAttemptFailed
  <2>1. RunningTasks = {tick.task} /\ tick.task \in Task /\ tick'.pc = "loop"
    BY <1>7 DEF TaskVerified, TaskAttemptFailed, Goto, Typed, TypeOK, TicksHaveTheirTask
  <2>2. \E ts \in {"succeeded", "pending", "failed"} :
            mission'.task = [mission.task EXCEPT ![tick.task] = ts]
    BY <1>7 DEF TaskVerified, TaskAttemptFailed, Typed, TypeOK, MissionFile
  <2>3. RunningTasks' = {}
    BY <2>1, <2>2 DEF RunningTasks, Typed, TypeOK, MissionFile
  <2> QED
    BY <2>1, <2>3
<1> QED
  BY <1>1, <1>2, <1>3, <1>4, <1>5, <1>6, <1>7 DEF TickStep, Reads

LEMMA PeopleKnow ==
    ASSUME OnePerson, LoneInv, NEW h \in Human, HumanStep(h)
    PROVE  ResumesWait' /\ RunningIsKnown'
<1> USE DEF LoneInv, Inv
<1>1. \A g \in Human : g = h
  BY DEF OnePerson
<1>2. CASE ResolveMission(h)
  <2>1. people'[h].pc \in {"away", "resuming"}
    BY <1>2, AwayIsAwayAt DEF ResolveMission, AwayAt, Typed, TypeOK
  <2>2. CASE UNCHANGED mission
    BY <1>1, <1>2, <2>1, <2>2 DEF ResolveMission, ResumesWait, RunningIsKnown, RunningTasks
  <2>3. CASE mission.approval.id = people[h].approval
    <3>1. mission.status = "waiting_human"
      BY <1>2, <2>3 DEF ResolveMission, Sound, DecisionsAreOwn, Deciding, ApprovalIsFiled
    <3>2. RunningTasks = {} /\ tick.pc \in {"off", "recover", "loop"}
      BY <3>1 DEF RunningIsKnown, Sound, StoppedStands, Stopped
    <3>3. \A t \in Task : mission'.task[t] \in {mission.task[t], "pending", "failed"}
      BY <1>2, <2>3 DEF ResolveMission, Typed, TypeOK, MissionFile
    <3>4. RunningTasks' = {}
      BY <3>2, <3>3 DEF RunningTasks
    <3> QED
      BY <1>1, <1>2, <2>1, <3>2, <3>4 DEF ResolveMission, ResumesWait, RunningIsKnown
  <2> QED
    BY <1>2, <2>2, <2>3 DEF ResolveMission
<1>3. CASE ResumeWrite(h)
  <2>1. mission.status = "waiting_human"
    BY <1>3 DEF ResumeWrite, ResumesWait
  <2>2. RunningTasks = {} /\ tick.pc \in {"off", "recover", "loop"}
    BY <2>1 DEF RunningIsKnown, Sound, StoppedStands, Stopped
  <2>3. RunningTasks' = {}
    BY <1>3, <2>2, ResumeWrites DEF RunningTasks
  <2> QED
    BY <1>1, <1>3, <2>2, <2>3, ResumeWrites DEF ResumesWait, RunningIsKnown
<1>4. CASE UNCHANGED mission
  <2>1. ResumesWait'
    <3>1. people'[h].pc = "resume" => people[h].pc = "resume" \/ mission.status = "waiting_human"
      <4>1. CASE ResolveRead(h) \/ ResolveFile(h) \/ ResumeTick(h)
        BY <4>1 DEF ResolveRead, ResolveFile, ResumeTick, Away, Typed, TypeOK
      <4>2. CASE RequestResume(h) \/ ResumeWrite(h)
        BY <4>2 DEF RequestResume, ResumeWrite, Typed, TypeOK
      <4>3. CASE ResolveMission(h)
        BY <4>3, AwayIsAwayAt DEF ResolveMission, AwayAt, Typed, TypeOK
      <4>4. CASE ResumeRead(h)
        BY <4>4 DEF ResumeRead, Resumable, Away, Typed, TypeOK
      <4> QED
        BY <4>1, <4>2, <4>3, <4>4 DEF HumanStep
    <3> QED
      BY <1>1, <1>4, <3>1 DEF ResumesWait
  <2>2. UNCHANGED tick \/ BeginTick
    BY DEF HumanStep, ResolveRead, ResolveFile, ResolveMission, RequestResume, ResumeRead,
           ResumeWrite, ResumeTick
  <2>3. mission.status = "planning" => RunningTasks = {}
    BY DEF Sound, PlanningIsFirst, Present, RunningTasks
  <2>4. BeginTick => tick'.pc \in {"plan", "recover"} /\ (tick'.pc = "plan" => RunningTasks = {})
    BY <2>3, BeginTyped
  <2> QED
    BY <1>4, <2>1, <2>2, <2>4 DEF RunningIsKnown, RunningTasks
<1> QED
  BY <1>2, <1>3, <1>4 DEF HumanStep, ResolveRead, ResolveFile, RequestResume, ResumeRead,
     ResumeTick

LEMMA LoneStep == OnePerson /\ LoneInv /\ [Next]_vars => LoneInv'
<1> SUFFICES ASSUME OnePerson, LoneInv, [Next]_vars PROVE LoneInv'
  OBVIOUS
<1>1. Inv'
  BY InvStep, ControlPlaneAssumption DEF LoneInv, OnePerson, OneApprover
<1>2. CASE SupervisorTick \/ TickStep
  BY <1>1, <1>2, TicksFindNoResume, ReadsKnow, WritesKnow DEF LoneInv, Reads
<1>3. ASSUME NEW h \in Human, HumanStep(h)
      PROVE  LoneInv'
  BY <1>1, <1>3, PeopleKnow DEF LoneInv
<1>4. CASE Crash
  BY <1>1, <1>4, OffIsTick DEF Crash, Away, LoneInv, ResumesWait, RunningIsKnown, RunningTasks
<1>5. CASE UNCHANGED vars
  BY <1>1, <1>5 DEF vars, LoneInv, ResumesWait, RunningIsKnown, RunningTasks
<1> QED
  BY <1>2, <1>3, <1>4, <1>5 DEF Next

-----------------------------------------------------------------------------
(***************************************************************************)
(* The theorems                                                            *)
(***************************************************************************)

\* A task is started by StartTask only, and then it was pending with its
\* dependencies resolved, free of a gate or approved, and reviewed.
LEMMA StartsAreChecked ==
    ASSUME Inv, Next, NEW t \in Task, StartsTask(t)
    PROVE  DependsOn[t] \subseteq Resolved /\ MayRun(t) /\ mission.task[t] = "pending"
<1>1. CASE StartTask
  <2>1. /\ mission.task[tick.task] = "pending"
        /\ DependsOn[tick.task] \subseteq Resolved
        /\ MayRun(tick.task)
    BY <1>1 DEF StartTask, Inv, Sound, TickIsFresh
  <2>2. t = tick.task
    BY <1>1 DEF StartTask, StartsTask, Inv, Typed, TypeOK, MissionFile
  <2> QED
    BY <2>1, <2>2
<1>2. CASE SupervisorTick \/ Crash
  BY <1>2 DEF SupervisorTick, Crash, StartsTask
<1>3. ASSUME NEW h \in Human, HumanStep(h)
      PROVE  FALSE
  <2>1. CASE ResolveMission(h)
    BY <2>1 DEF ResolveMission, StartsTask, Inv, Typed, TypeOK, MissionFile
  <2>2. CASE UNCHANGED mission
    BY <2>2 DEF StartsTask
  <2>3. CASE ResumeWrite(h)
    BY <2>3 DEF ResumeWrite, Again, StartsTask, Inv, Typed, TypeOK, MissionFile
  <2> QED
    BY <1>3, <2>1, <2>2, <2>3 DEF HumanStep, ResolveRead, ResolveFile, RequestResume, ResumeRead,
       ResumeTick
<1>4. CASE TickStep /\ ~StartTask
  <2>1. CASE UNCHANGED mission
    BY <2>1 DEF StartsTask
  <2>2. CASE PlanReturns \/ PlanFails \/ RecoverWrite \/ Replan
    <3>1. CASE PlanReturns
      BY <3>1 DEF PlanReturns, StartsTask, Inv, Typed, TypeOK, MissionFile
    <3>2. CASE PlanFails
      BY <3>2 DEF PlanFails, StartsTask, Inv, Typed, TypeOK, MissionFile
    <3>3. CASE RecoverWrite
      BY <3>3 DEF RecoverWrite, Recovered, StartsTask, Inv, Typed, TypeOK, MissionFile
    <3>4. CASE Replan
      <4>1. \/ UNCHANGED mission
            \/ mission'.task = [u \in Task |-> IF mission.task[u] = "absent" THEN "pending"
                                               ELSE mission.task[u]]
        BY <3>4 DEF Replan, Inv, Typed, TypeOK, MissionFile
      <4> QED
        BY <4>1 DEF StartsTask
    <3> QED
      BY <2>2, <3>1, <3>2, <3>3, <3>4
  <2>3. CASE Blocked \/ VerifyCompletion \/ TaskVerified \/ TaskAttemptFailed
    <3>1. CASE Blocked \/ VerifyCompletion
      BY <3>1 DEF Blocked, VerifyCompletion, StartsTask, Inv, Typed, TypeOK, MissionFile
    <3>2. CASE TaskVerified
      BY <3>2 DEF TaskVerified, StartsTask, Inv, Typed, TypeOK, MissionFile
    <3>3. CASE TaskAttemptFailed
      BY <3>3 DEF TaskAttemptFailed, StartsTask, Inv, Typed, TypeOK, MissionFile
    <3> QED
      BY <2>3, <3>1, <3>2, <3>3
  <2>4. CASE RequestApprovalMission
    BY <2>4 DEF RequestApprovalMission, StartsTask, Inv, Typed, TypeOK, MissionFile
  <2> QED
    BY <1>4, <2>1, <2>2, <2>3, <2>4 DEF TickStep, RecoverRead, LoopPicksTask, LoopFindsNone,
       LoopEnds, TickThrows, RequestApprovalFile
<1> QED
  BY <1>1, <1>2, <1>3, <1>4 DEF Next

\* A mission is only called succeeded when every task of it is, whatever people
\* and restarts did since the verifier was asked.
THEOREM CompletionHolds == OneApprover => (Spec => []CompletionIsEarned)
<1> SUFFICES ASSUME OneApprover PROVE Spec => []CompletionIsEarned
  OBVIOUS
<1>1. Inv /\ [Next]_vars => Inv'
  BY InvStep
<1>2. Inv => CompletionIsEarned
  BY DEF Inv, Sound
<1> QED
  BY InvInit, <1>1, <1>2, PTL DEF Spec

\* A task that a restart left running is in a mission that says it runs, where the
\* next tick looks for it.
THEOREM InterruptedIsFound == OnePerson => (Spec => []InterruptedIsRecoverable)
<1> SUFFICES ASSUME OnePerson PROVE Spec => []InterruptedIsRecoverable
  OBVIOUS
<1>1. Init => LoneInv
  <2> SUFFICES ASSUME Init PROVE ResumesWait /\ RunningIsKnown
    BY InvInit DEF LoneInv
  <2> QED
    BY DEF Init, Off, Away, ResumesWait, RunningIsKnown, RunningTasks
<1>2. LoneInv /\ [Next]_vars => LoneInv'
  BY LoneStep
<1>3. LoneInv => InterruptedIsRecoverable
  BY DEF LoneInv, RunningIsKnown, InterruptedIsRecoverable
<1> QED
  BY <1>1, <1>2, <1>3, PTL DEF Spec

\* A gated task is started only with an approval on file for that very task.
THEOREM GatedTasksAreApproved == OneApprover => (Spec => GatedRunsApproved)
<1> SUFFICES ASSUME OneApprover PROVE Spec => GatedRunsApproved
  OBVIOUS
<1>1. Inv /\ [Next]_vars => Inv'
  BY InvStep
<1>2. Inv /\ [Next]_vars =>
        [\A t \in Gated : StartsTask(t) =>
           \E a \in Approval : approvals[a] = [task |-> t, status |-> "approved"]]_vars
  <2> SUFFICES ASSUME Inv, Next, NEW t \in Gated, StartsTask(t)
               PROVE  \E a \in Approval : approvals[a] = [task |-> t, status |-> "approved"]
    OBVIOUS
  <2>1. t \in Task
    BY ControlPlaneAssumption
  <2>2. mission.approval.task = t /\ mission.approval.status = "approved"
    BY <2>1, StartsAreChecked DEF MayRun
  <2>3. /\ mission.approval.id \in Approval
        /\ approvals[mission.approval.id].task = t
        /\ approvals[mission.approval.id].status = "approved"
    BY <2>2 DEF Inv, Sound, ApprovalIsFiled, Typed, TypeOK, MissionFile, NoRequest, Decision
  <2>4. approvals[mission.approval.id] = [task |-> t, status |-> "approved"]
    BY <2>3 DEF Inv, Typed, TypeOK
  <2> QED
    BY <2>3, <2>4
<1> QED
  BY InvInit, <1>1, <1>2, PTL DEF Spec, GatedRunsApproved

\* A task starts after everything it depends on, also when it was recovered,
\* retried, resumed or added by replanning.
THEOREM DependenciesComeFirst == OneApprover => (Spec => DependenciesFirst)
<1> SUFFICES ASSUME OneApprover PROVE Spec => DependenciesFirst
  OBVIOUS
<1>1. Inv /\ [Next]_vars => Inv'
  BY InvStep
<1>2. Inv /\ [Next]_vars =>
        [\A t \in Task : StartsTask(t) => DependsOn[t] \subseteq Resolved]_vars
  BY StartsAreChecked
<1> QED
  BY InvInit, <1>1, <1>2, PTL DEF Spec, DependenciesFirst

\* The coordinator never starts work by itself that is not idempotent and was cut
\* short or failed.
THEOREM RepeatsAreAttended == OneApprover => (Spec => NoUnattendedRepeat)
<1> SUFFICES ASSUME OneApprover PROVE Spec => NoUnattendedRepeat
  OBVIOUS
<1>1. Inv /\ [Next]_vars => Inv'
  BY InvStep
<1>2. Inv /\ [Next]_vars => [\A t \in Task : StartsTask(t) => t \notin unreviewed]_vars
  <2> SUFFICES ASSUME Inv, Next, NEW t \in Task, StartsTask(t)
               PROVE  t \notin unreviewed
    OBVIOUS
  <2>1. mission.task[t] = "pending"
    BY StartsAreChecked
  <2> QED
    BY <2>1 DEF Inv, Sound, UnreviewedRests
<1> QED
  BY InvInit, <1>1, <1>2, PTL DEF Spec, NoUnattendedRepeat

\* Verified work is never put back in line, by recovery, people or replanning.
THEOREM VerifiedWorkStays == OneApprover => (Spec => DoneStaysDone)
<1> SUFFICES ASSUME OneApprover PROVE Spec => DoneStaysDone
  OBVIOUS
<1>1. Inv /\ [Next]_vars => Inv'
  BY InvStep
<1>2. Inv /\ [Next]_vars =>
        [\A t \in Task : mission.task[t] = "succeeded" => mission'.task[t] = "succeeded"]_vars
  <2> SUFFICES ASSUME Inv, Next, NEW t \in Task, mission.task[t] = "succeeded"
               PROVE  mission'.task[t] = "succeeded"
    OBVIOUS
  <2> USE DEF Inv, Sound, Typed, TypeOK, MissionFile
  <2>1. CASE UNCHANGED mission
    BY <2>1
  <2>2. CASE StartTask \/ RequestApprovalMission
    <3>1. CASE StartTask
      BY <3>1 DEF StartTask, TickIsFresh
    <3>2. CASE RequestApprovalMission
      BY <3>2 DEF RequestApprovalMission, TickIsFresh
    <3> QED
      BY <2>2, <3>1, <3>2
  <2>3. CASE TaskVerified \/ TaskAttemptFailed
    <3>1. t # tick.task
      BY <2>3 DEF TaskVerified, TaskAttemptFailed, TickIsFresh
    <3>2. CASE TaskVerified
      BY <3>1, <3>2 DEF TaskVerified
    <3>3. CASE TaskAttemptFailed
      BY <3>1, <3>3 DEF TaskAttemptFailed
    <3> QED
      BY <2>3, <3>2, <3>3
  <2>4. CASE PlanReturns \/ PlanFails \/ RecoverWrite \/ Replan
    <3>1. CASE PlanReturns
      BY <3>1 DEF PlanReturns, PlanningIsFirst, Present
    <3>2. CASE PlanFails
      BY <3>2 DEF PlanFails
    <3>3. CASE RecoverWrite
      BY <3>3 DEF RecoverWrite
    <3>4. CASE Replan
      <4>1. \/ UNCHANGED mission
            \/ mission'.task = [u \in Task |-> IF mission.task[u] = "absent" THEN "pending"
                                               ELSE mission.task[u]]
        BY <3>4 DEF Replan
      <4> QED
        BY <4>1
    <3> QED
      BY <2>4, <3>1, <3>2, <3>3, <3>4
  <2>5. CASE Blocked \/ VerifyCompletion
    BY <2>5 DEF Blocked, VerifyCompletion
  <2>6. ASSUME NEW h \in Human, ResolveMission(h)
        PROVE  mission'.task[t] = "succeeded"
    <3> DEFINE a == people[h].approval
    <3>1. CASE mission.approval.id = a
      <4>1. a \in Approval /\ mission.approval.status = "pending"
        BY <2>6, <3>1 DEF ResolveMission, DecisionsAreOwn, Deciding
      <4>2. mission.task[approvals[a].task] = "waiting_human"
        BY <3>1, <4>1, Numbers DEF ApprovalIsFiled
      <4> QED
        BY <2>6, <3>1, <4>2 DEF ResolveMission
    <3>2. CASE mission.approval.id # a
      BY <2>6, <3>2 DEF ResolveMission
    <3> QED
      BY <3>1, <3>2
  <2>7. ASSUME NEW h \in Human, ResumeWrite(h)
        PROVE  mission'.task[t] = "succeeded"
    BY <2>7 DEF ResumeWrite, Again
  <2> QED
    BY <2>1, <2>2, <2>3, <2>4, <2>5, <2>6, <2>7 DEF Next, TickStep, HumanStep, SupervisorTick,
       Crash, RecoverRead, LoopPicksTask, LoopFindsNone, LoopEnds, TickThrows,
       RequestApprovalFile, ResolveRead, ResolveFile, RequestResume, ResumeRead, ResumeTick
<1> QED
  BY InvInit, <1>1, <1>2, PTL DEF Spec, DoneStaysDone
=============================================================================
