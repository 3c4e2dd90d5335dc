--------------------------- MODULE DeviceJobsProofs ---------------------------
(***************************************************************************)
(* Theorems about the device jobs of a mission, for any number of steps,   *)
(* attempts, plans, runner invocations, isolates and devices: a job that   *)
(* can still act is authorized, a job is executed once, what is over stays *)
(* over, and a completed step has its evidence.                            *)
(***************************************************************************)
EXTENDS DeviceJobs, TLAPS

\* Who works has a job, and a result when it is done.
Busy ==
    \A d \in Device : /\ agent[d].phase # "idle" => agent[d].job \in Job
                      /\ agent[d].phase = "finished" => agent[d].result \in Reported

Typed == TypeOK /\ Busy

-----------------------------------------------------------------------------
(***************************************************************************)
(* Types                                                                   *)
(***************************************************************************)

LEMMA OverTyped ==
    ASSUME NEW row \in JobRecord, NEW status \in Terminal \cup {"queued"}
    PROVE  Over(row, status) \in JobRecord
BY DEF Over, JobRecord, Active, Terminal

LEMMA RevokedTyped ==
    ASSUME NEW row \in JobRecord
    PROVE  Revoked(row) \in JobRecord
BY OverTyped DEF Revoked, Terminal

LEMMA FencedTyped ==
    ASSUME NEW rows \in [Job -> JobRecord], NEW m
    PROVE  Fenced(rows, m) \in [Job -> JobRecord]
BY RevokedTyped DEF Fenced

LEMMA SetMissionTyped ==
    ASSUME job \in [Job -> JobRecord], NEW m \in MissionRecord, SetMission(m)
    PROVE  mission' \in MissionRecord /\ job' \in [Job -> JobRecord]
BY FencedTyped DEF SetMission, Update

LEMMA SweepTyped ==
    ASSUME job \in [Job -> JobRecord]
    PROVE  Sweep \in [Job -> JobRecord]
<1>1. \A row \in JobRecord : Swept(row) \in JobRecord
  BY OverTyped DEF Swept, Terminal
<1> QED
  BY <1>1 DEF Sweep

LEMMA BatchInStep == \A r \in Runner : Batch(r) \subseteq Step
BY DEF Batch

LEMMA CompletedTyped ==
    ASSUME TypeOK, NEW r \in Runner
    PROVE  Completed(r) \subseteq Step
BY BatchInStep DEF Completed, TypeOK, RunnerRecord

LEMMA OffTyped ==
    /\ Zero \in Counts
    /\ Off \in RunnerRecord
BY JobsAssumption DEF Zero, Off, RunnerRecord, Counts, Untouched, Outcomes

LEMMA SwitchOffTyped ==
    ASSUME TypeOK, NEW r \in Runner, SwitchOff(r)
    PROVE  runner' \in [Runner -> RunnerRecord]
BY OffTyped DEF TypeOK, SwitchOff

LEMMA SaveTyped ==
    ASSUME TypeOK, NEW r \in Runner,
           NEW status \in {"queued", "running", "waiting", "paused", "failed", "ended"},
           NEW recovery \in {"none", "async"}, NEW owner \in Worker \cup {None},
           Save(r, status, recovery, owner)
    PROVE  mission' \in MissionRecord /\ job' \in [Job -> JobRecord]
<1> DEFINE m == [mission EXCEPT
            !.status = status, !.recovery = recovery, !.owner = owner,
            !.pending = runner[r].pending, !.attempts = runner[r].attempts,
            !.completed = Completed(r)]
<1>1. runner[r].pending \in Counts /\ runner[r].attempts \in Counts
  BY DEF TypeOK, RunnerRecord
<1>2. m \in MissionRecord
  BY <1>1, CompletedTyped DEF TypeOK, MissionRecord
<1> QED
  BY <1>2, SetMissionTyped DEF Save, TypeOK

\* The row, the rows of the jobs and what a runner has in memory.
RunnersTyped == 
    /\ mission' \in MissionRecord
    /\ job' \in [Job -> JobRecord]
    /\ runner' \in [Runner -> RunnerRecord]

LEMMA TakeTyped ==
    ASSUME TypeOK, NEW r \in Runner, Take(r)
    PROVE  RunnersTyped
<1>1. V[r] \in Worker
  BY JobsAssumption
<1>2. [mission EXCEPT !.status = "running", !.owner = V[r]] \in MissionRecord
  BY <1>1 DEF TypeOK, MissionRecord
<1>3. mission' \in MissionRecord /\ job' \in [Job -> JobRecord]
  BY <1>2, SetMissionTyped DEF Take, TypeOK
<1>4. [on |-> TRUE, plan |-> mission.plan, pending |-> mission.pending,
       attempts |-> mission.attempts, completed |-> mission.completed,
       outcome |-> Untouched] \in RunnerRecord
  BY DEF TypeOK, MissionRecord, RunnerRecord, Untouched, Outcomes
<1>5. runner' \in [Runner -> RunnerRecord]
  BY <1>4 DEF Take, TypeOK
<1> QED
  BY <1>3, <1>5 DEF RunnersTyped

LEMMA RunnerUpdates ==
    ASSUME NEW q \in RunnerRecord, NEW s \in Step, NEW o \in Outcomes,
           NEW p \in 0 .. Attempts, NEW a \in 0 .. Attempts
    PROVE  /\ [q EXCEPT !.outcome[s] = o] \in RunnerRecord
           /\ [q EXCEPT !.outcome[s] = o, !.pending[s] = p] \in RunnerRecord
           /\ [q EXCEPT !.outcome[s] = o, !.attempts[s] = a] \in RunnerRecord
           /\ [q EXCEPT !.outcome[s] = o, !.pending[s] = p, !.attempts[s] = a]
                \in RunnerRecord
BY DEF RunnerRecord, Counts

LEMMA OutcomesTyped ==
    /\ {"none", "begun", "sent", "waiting", "passed", "failed"} \subseteq Outcomes
    /\ \A status : Outcome(status) \subseteq Outcomes
BY DEF Outcomes, Outcome

LEMMA ReconcileTyped ==
    ASSUME TypeOK, NEW r \in Runner, Reconcile(r)
    PROVE  RunnersTyped
<1>1. PICK s \in Batch(r) :
        \/ \E o \in Outcomes :
             runner' = [runner EXCEPT ![r] = [@ EXCEPT !.outcome[s] = o,
                            !.pending[s] = 0, !.attempts[s] = runner[r].pending[s]]]
        \/ runner' = [runner EXCEPT ![r] = [@ EXCEPT !.outcome[s] = "waiting"]]
  BY OutcomesTyped DEF Reconcile
<1>2. s \in Step /\ runner[r] \in RunnerRecord /\ runner[r].pending[s] \in 0 .. Attempts
  BY BatchInStep DEF TypeOK, RunnerRecord, Counts
<1>3. 0 \in 0 .. Attempts
  BY JobsAssumption
<1>4. \A o \in Outcomes :
        [runner[r] EXCEPT !.outcome[s] = o, !.pending[s] = 0,
                          !.attempts[s] = runner[r].pending[s]] \in RunnerRecord
  BY <1>2, <1>3, RunnerUpdates
<1>5. [runner[r] EXCEPT !.outcome[s] = "waiting"] \in RunnerRecord
  BY <1>2, <1>3, RunnerUpdates, OutcomesTyped
<1>6. \E q \in RunnerRecord : runner' = [runner EXCEPT ![r] = q]
  BY <1>1, <1>4, <1>5
<1>7. runner' \in [Runner -> RunnerRecord]
  BY <1>6 DEF TypeOK
<1> QED
  BY <1>7 DEF Reconcile, RunnersTyped, TypeOK

LEMMA BeginTyped ==
    ASSUME TypeOK, NEW r \in Runner, Begin(r)
    PROVE  RunnersTyped
<1>1. PICK s \in Batch(r) :
        LET a == runner[r].attempts[s] + 1
        IN  /\ a \in 1 .. Attempts
            /\ runner' = [runner EXCEPT ![r] = [@ EXCEPT !.outcome[s] = "begun",
                                                         !.attempts[s] = a]]
            /\ mission' = [mission EXCEPT !.attempts = runner'[r].attempts]
            /\ UNCHANGED <<job, agent, online>>
  BY DEF Begin
<1>2. s \in Step /\ runner[r] \in RunnerRecord
  BY BatchInStep DEF TypeOK
<1> DEFINE a == runner[r].attempts[s] + 1
<1>3. a \in 0 .. Attempts
  BY <1>1
<1> HIDE DEF a
<1>4. [runner[r] EXCEPT !.outcome[s] = "begun", !.attempts[s] = a] \in RunnerRecord
  BY <1>2, <1>3, RunnerUpdates, OutcomesTyped
<1>5. runner' \in [Runner -> RunnerRecord]
  BY <1>1, <1>4 DEF TypeOK, a
<1>6. runner'[r].attempts \in Counts
  BY <1>5 DEF RunnerRecord
<1>7. mission' \in MissionRecord
  BY <1>1, <1>6 DEF TypeOK, MissionRecord
<1> QED
  BY <1>1, <1>5, <1>7 DEF RunnersTyped, TypeOK

LEMMA QueuedTyped ==
    ASSUME NEW row \in JobRecord, NEW d \in Device, NEW p \in 0 .. MaxPlan
    PROVE  [row EXCEPT !.status = "queued", !.device = d, !.plan = p] \in JobRecord
BY DEF JobRecord, Active

LEMMA EnqueueTyped ==
    ASSUME TypeOK, NEW r \in Runner, Enqueue(r)
    PROVE  RunnersTyped
<1>1. PICK s \in Batch(r) :
        LET j == <<s, runner[r].attempts[s]>>
        IN  /\ runner[r].outcome[s] = "begun"
            /\ \/ UNCHANGED job
               \/ \E d \in online :
                    job' = [job EXCEPT ![j] = [@ EXCEPT !.status = "queued",
                                         !.device = d, !.plan = runner[r].plan]]
            /\ \E o \in {"sent", "failed"} :
                 runner' = [runner EXCEPT ![r] = [@ EXCEPT !.outcome[s] = o]]
  BY DEF Enqueue
<1>2. s \in Step /\ runner[r] \in RunnerRecord
  BY BatchInStep DEF TypeOK
<1>3. runner' \in [Runner -> RunnerRecord]
  <2>1. 0 \in 0 .. Attempts
    BY JobsAssumption
  <2>2. \A o \in {"sent", "failed"} : [runner[r] EXCEPT !.outcome[s] = o] \in RunnerRecord
    BY <1>2, <2>1, RunnerUpdates, OutcomesTyped
  <2>3. \E q \in RunnerRecord : runner' = [runner EXCEPT ![r] = q]
    BY <1>1, <2>2
  <2> QED
    BY <2>3 DEF TypeOK
<1>4. runner[r].plan \in 0 .. MaxPlan
  BY <1>2 DEF RunnerRecord
<1>5. job' \in [Job -> JobRecord]
  <2>1. CASE UNCHANGED job
    BY <2>1 DEF TypeOK
  <2>2. ASSUME NEW d \in online, NEW j,
               job' = [job EXCEPT ![j] = [@ EXCEPT !.status = "queued",
                                    !.device = d, !.plan = runner[r].plan]]
        PROVE  job' \in [Job -> JobRecord]
    <3> DEFINE row == [job[j] EXCEPT !.status = "queued", !.device = d,
                                     !.plan = runner[r].plan]
    <3>1. job' = [job EXCEPT ![j] = row]
      BY <2>2
    <3>2. j \in Job => row \in JobRecord
      BY <1>4, QueuedTyped DEF TypeOK
    <3> HIDE DEF row
    <3>3. \A x \in Job : job'[x] \in JobRecord
      BY <3>1, <3>2 DEF TypeOK
    <3> QED
      BY <2>2, <3>3 DEF TypeOK
  <2> QED
    BY <1>1, <2>1, <2>2
<1> QED
  BY <1>3, <1>5 DEF Enqueue, RunnersTyped, TypeOK

LEMMA LookTyped ==
    ASSUME TypeOK, NEW r \in Runner, Look(r)
    PROVE  RunnersTyped
<1>1. PICK s \in Batch(r) :
        \/ \E o \in Outcomes : runner' = [runner EXCEPT ![r] = [@ EXCEPT !.outcome[s] = o]]
        \/ runner' = [runner EXCEPT ![r] = [@ EXCEPT !.outcome[s] = "waiting",
                                    !.pending[s] = runner[r].attempts[s]]]
  BY OutcomesTyped DEF Look
<1>2. s \in Step /\ runner[r] \in RunnerRecord /\ runner[r].attempts[s] \in 0 .. Attempts
  BY BatchInStep DEF TypeOK, RunnerRecord, Counts
<1>3. \A o \in Outcomes : [runner[r] EXCEPT !.outcome[s] = o] \in RunnerRecord
  BY <1>2, RunnerUpdates
<1>4. [runner[r] EXCEPT !.outcome[s] = "waiting",
                        !.pending[s] = runner[r].attempts[s]] \in RunnerRecord
  BY <1>2, RunnerUpdates, OutcomesTyped
<1>5. \E q \in RunnerRecord : runner' = [runner EXCEPT ![r] = q]
  BY <1>1, <1>3, <1>4
<1>6. runner' \in [Runner -> RunnerRecord]
  BY <1>5 DEF TypeOK
<1> QED
  BY <1>6 DEF Look, RunnersTyped, TypeOK

LEMMA ReplanTyped ==
    ASSUME TypeOK, NEW r \in Runner, Replan(r)
    PROVE  RunnersTyped
<1> DEFINE counts == [s \in Step |-> IF s \in Completed(r)
                                     THEN runner[r].attempts[s] ELSE 0]
           m == [mission EXCEPT
            !.status = "queued", !.recovery = "none", !.owner = None,
            !.plan = @ + 1, !.pending = Zero, !.completed = Completed(r),
            !.attempts = counts]
<1>1. counts \in Counts
  BY JobsAssumption DEF TypeOK, RunnerRecord, Counts
<1>2. mission.plan + 1 \in 1 .. MaxPlan
  BY JobsAssumption DEF Replan, TypeOK, MissionRecord
<1>3. m \in MissionRecord
  BY <1>1, <1>2, OffTyped, CompletedTyped DEF TypeOK, MissionRecord
<1>4. SetMission(m)
  BY DEF Replan
<1>5. mission' \in MissionRecord /\ job' \in [Job -> JobRecord]
  BY <1>3, <1>4, SetMissionTyped DEF TypeOK
<1> QED
  BY <1>5, SwitchOffTyped DEF Replan, RunnersTyped

LEMMA RunnerTyped ==
    ASSUME TypeOK, NEW r \in Runner, RunnerStep(r)
    PROVE  RunnersTyped
<1> USE DEF RunnersTyped
<1>1. CASE Take(r)
  BY <1>1, TakeTyped
<1>2. CASE Reconcile(r)
  BY <1>2, ReconcileTyped
<1>3. CASE Begin(r)
  BY <1>3, BeginTyped
<1>4. CASE Enqueue(r)
  BY <1>4, EnqueueTyped
<1>5. CASE Look(r)
  BY <1>5, LookTyped
<1>6. CASE Park(r)
  BY <1>6, SaveTyped, SwitchOffTyped DEF Park
<1>7. CASE Retry(r)
  BY <1>7, SaveTyped, SwitchOffTyped DEF Retry
<1>8. CASE Replan(r)
  BY <1>8, ReplanTyped
<1>9. CASE GiveUp(r)
  BY <1>9, SaveTyped, SwitchOffTyped DEF GiveUp
<1>10. CASE Continue(r)
  <2>1. Save(r, IF Completed(r) = Step THEN "ended" ELSE "running", "none", None)
    BY <1>10 DEF Continue
  <2>2. mission' \in MissionRecord /\ job' \in [Job -> JobRecord]
    BY <2>1, SaveTyped
  <2> QED
    BY <1>10, <2>2, SwitchOffTyped DEF Continue
<1>11. CASE Throw(r)
  <2>1. PICK status \in {"paused", "ended"} :
          SetMission([mission EXCEPT !.status = status, !.owner = None])
    BY <1>11 DEF Throw
  <2>2. [mission EXCEPT !.status = status, !.owner = None] \in MissionRecord
    BY DEF TypeOK, MissionRecord
  <2>3. mission' \in MissionRecord /\ job' \in [Job -> JobRecord]
    BY <2>1, <2>2, SetMissionTyped DEF TypeOK
  <2> QED
    BY <1>11, <2>3, SwitchOffTyped DEF Throw
<1>12. CASE Cut(r)
  BY <1>12, SwitchOffTyped DEF Cut, TypeOK
<1> QED
  BY <1>1, <1>2, <1>3, <1>4, <1>5, <1>6, <1>7, <1>8, <1>9, <1>10, <1>11, <1>12
     DEF RunnerStep

-----------------------------------------------------------------------------
\* What the agents of the devices change.
AgentsTyped ==
    /\ mission' \in MissionRecord
    /\ job' \in [Job -> JobRecord]
    /\ agent' \in [Device -> AgentRecord]
    /\ online' \subseteq Device
    /\ Busy'

LEMMA AgentUpdates ==
    ASSUME NEW q \in AgentRecord,
           NEW p \in {"idle", "claimed", "started", "executing", "finished"},
           NEW result \in Reported
    PROVE  /\ [q EXCEPT !.phase = p] \in AgentRecord
           /\ [q EXCEPT !.phase = p, !.result = result] \in AgentRecord
BY DEF AgentRecord

LEMMA IdleTyped == Idle \in AgentRecord
BY DEF Idle, AgentRecord

\* An agent that is busy goes on with the job it has, or becomes idle.
LEMMA BusyKept ==
    ASSUME Typed, NEW d \in Device, NEW q,
           q \in AgentRecord, q.phase = "idle" \/ q.job \in Job,
           q.phase = "finished" => q.result \in Reported,
           agent' = [agent EXCEPT ![d] = q]
    PROVE  agent' \in [Device -> AgentRecord] /\ Busy'
BY DEF Typed, TypeOK, Busy

LEMMA ClaimTyped ==
    ASSUME Typed, NEW d \in Device, Claim(d)
    PROVE  AgentsTyped
<1>1. PICK j \in Job :
        IF Authorized(mission, j)
        THEN /\ job' = [Sweep EXCEPT ![j].status = "claimed", ![j].device = d]
             /\ \E reply \in {[Idle EXCEPT !.phase = "claimed", !.job = j], Idle} :
                  agent' = [agent EXCEPT ![d] = reply]
        ELSE /\ job' = [Sweep EXCEPT ![j] = Over(@, "cancelled")]
             /\ UNCHANGED agent
  BY DEF Claim
<1>2. Sweep \in [Job -> JobRecord]
  BY SweepTyped DEF Typed, TypeOK
<1>3. CASE Authorized(mission, j)
  <2>1. \A row \in JobRecord : [row EXCEPT !.status = "claimed", !.device = d] \in JobRecord
    BY DEF JobRecord, Active
  <2>2. job' = [Sweep EXCEPT ![j] = [Sweep[j] EXCEPT !.status = "claimed", !.device = d]]
    BY <1>1, <1>3
  <2>3. job' \in [Job -> JobRecord]
    BY <1>2, <2>1, <2>2
  <2>4. [Idle EXCEPT !.phase = "claimed", !.job = j] \in AgentRecord
    BY DEF Idle, AgentRecord
  <2>5. /\ [Idle EXCEPT !.phase = "claimed", !.job = j].job = j
        /\ [Idle EXCEPT !.phase = "claimed", !.job = j].phase = "claimed"
        /\ Idle.phase = "idle"
    BY DEF Idle
  <2>6. \E q \in AgentRecord : /\ q.phase = "idle" \/ q.job \in Job
                               /\ q.phase # "finished"
                               /\ agent' = [agent EXCEPT ![d] = q]
    BY <1>1, <1>3, <2>4, <2>5, IdleTyped
  <2>7. agent' \in [Device -> AgentRecord] /\ Busy'
    BY <2>6, BusyKept
  <2> QED
    BY <2>3, <2>7 DEF Claim, AgentsTyped, Typed, TypeOK
<1>4. CASE ~Authorized(mission, j)
  <2>1. Over(Sweep[j], "cancelled") \in JobRecord
    BY <1>2, OverTyped DEF Terminal
  <2>2. job' \in [Job -> JobRecord]
    BY <1>1, <1>2, <1>4, <2>1
  <2> QED
    BY <1>1, <1>4, <2>2 DEF Claim, AgentsTyped, Typed, TypeOK, Busy
<1> QED
  BY <1>3, <1>4

LEMMA StartTyped ==
    ASSUME Typed, NEW d \in Device, Start(d)
    PROVE  AgentsTyped
<1> DEFINE j == agent[d].job
<1>1. j \in Job /\ job[j] \in JobRecord /\ agent[d] \in AgentRecord
  BY DEF Start, Typed, TypeOK, Busy
<1>2. \A row \in JobRecord : [row EXCEPT !.status = "running"] \in JobRecord
  BY DEF JobRecord, Active
<1>3. Over(job[j], "cancelled") \in JobRecord
  BY <1>1, OverTyped DEF Terminal
<1>4. \E row \in JobRecord : job' = [job EXCEPT ![j] = row] \/ job' = job
  BY <1>1, <1>2, <1>3 DEF Start
<1>5. job' \in [Job -> JobRecord]
  BY <1>4 DEF Typed, TypeOK
<1>6. [agent[d] EXCEPT !.phase = "started"] \in AgentRecord
  BY <1>1, AgentUpdates DEF Reported
<1>7. /\ [agent[d] EXCEPT !.phase = "started"].job = j
      /\ [agent[d] EXCEPT !.phase = "started"].phase = "started"
      /\ Idle.phase = "idle"
  BY <1>1 DEF Idle, AgentRecord
<1>8. \E next \in {Idle, [agent[d] EXCEPT !.phase = "started"]} :
        agent' = [agent EXCEPT ![d] = next]
  BY DEF Start
<1>9. agent' \in [Device -> AgentRecord] /\ Busy'
  BY <1>1, <1>6, <1>7, <1>8, IdleTyped, BusyKept
<1> QED
  BY <1>5, <1>9 DEF Start, AgentsTyped, Typed, TypeOK

LEMMA StatusReadTyped ==
    ASSUME Typed, NEW d \in Device, agent[d].phase # "idle", StatusRead(d)
    PROVE  job' \in [Job -> JobRecord]
<1>1. agent[d].job \in Job
  BY DEF Typed, Busy
<1>2. Revoked(job[agent[d].job]) \in JobRecord
  BY <1>1, RevokedTyped DEF Typed, TypeOK
<1> QED
  BY <1>1, <1>2 DEF StatusRead, Typed, TypeOK

\* The execution ends, or never begins, with a result.
LEMMA FinishTyped ==
    ASSUME Typed, NEW d \in Device, agent[d].phase # "idle", NEW result \in Reported,
           agent' = [agent EXCEPT ![d].phase = "finished", ![d].result = result]
    PROVE  agent' \in [Device -> AgentRecord] /\ Busy'
<1> DEFINE q == [agent[d] EXCEPT !.phase = "finished", !.result = result]
<1>1. agent[d] \in AgentRecord /\ agent[d].job \in Job
  BY DEF Typed, TypeOK, Busy
<1>2. q \in AgentRecord /\ q.job = agent[d].job /\ q.result \in Reported
  BY <1>1, AgentUpdates DEF AgentRecord
<1>3. agent' = [agent EXCEPT ![d] = q]
  BY DEF Typed, TypeOK
<1> QED
  BY <1>1, <1>2, <1>3, BusyKept

LEMMA MonitorTyped ==
    ASSUME Typed, NEW d \in Device, Monitor(d)
    PROVE  AgentsTyped
<1> DEFINE j == agent[d].job
<1>1. j \in Job /\ job[j] \in JobRecord /\ agent[d] \in AgentRecord
  BY DEF Monitor, Typed, TypeOK, Busy
<1>2. CASE /\ agent' = [agent EXCEPT ![d].phase = "executing"]
           /\ job' = [job EXCEPT ![agent[d].job].begun = @ + 1]
  <2>1. [job[j] EXCEPT !.begun = @ + 1] \in JobRecord
    BY <1>1 DEF JobRecord
  <2>2. job' = [job EXCEPT ![j] = [job[j] EXCEPT !.begun = @ + 1]]
    BY <1>2
  <2>3. job' \in [Job -> JobRecord]
    BY <2>1, <2>2 DEF Typed, TypeOK
  <2>4. [agent[d] EXCEPT !.phase = "executing"] \in AgentRecord
    BY <1>1, AgentUpdates DEF Reported
  <2>5. /\ [agent[d] EXCEPT !.phase = "executing"].job = j
        /\ [agent[d] EXCEPT !.phase = "executing"].phase = "executing"
    BY <1>1 DEF AgentRecord
  <2>6. agent' \in [Device -> AgentRecord] /\ Busy'
    BY <1>1, <1>2, <2>4, <2>5, BusyKept
  <2> QED
    BY <2>3, <2>6 DEF Monitor, AgentsTyped, Typed, TypeOK
<1>3. CASE /\ agent' = [agent EXCEPT ![d].phase = "finished", ![d].result = "cancelled"]
           /\ StatusRead(d)
  <2>1. agent[d].phase # "idle" /\ "cancelled" \in Reported
    BY DEF Monitor, Reported
  <2>2. job' \in [Job -> JobRecord]
    BY <1>3, <2>1, StatusReadTyped
  <2>3. agent' \in [Device -> AgentRecord] /\ Busy'
    BY <1>3, <2>1, FinishTyped
  <2> QED
    BY <2>2, <2>3 DEF Monitor, AgentsTyped, Typed, TypeOK
<1> QED
  BY <1>2, <1>3 DEF Monitor

LEMMA ReportTyped ==
    ASSUME Typed, NEW d \in Device, Report(d)
    PROVE  AgentsTyped
<1> DEFINE j == agent[d].job
           result == agent[d].result
<1>1. j \in Job /\ job[j] \in JobRecord /\ agent[d] \in AgentRecord
  BY DEF Report, Typed, TypeOK, Busy
<1>2. agent' \in [Device -> AgentRecord] /\ Busy'
  <2>1. Idle.phase = "idle"
    BY DEF Idle
  <2> QED
    BY <2>1, IdleTyped, BusyKept DEF Report
<1>3. CASE UNCHANGED <<mission, job>>
  BY <1>2, <1>3 DEF Report, AgentsTyped, Typed, TypeOK
<1>4. CASE job' = [job EXCEPT ![j] = Over(@, "cancelled")] /\ UNCHANGED mission
  <2>1. Over(job[j], "cancelled") \in JobRecord
    BY <1>1, OverTyped DEF Terminal
  <2> QED
    BY <1>2, <1>4, <2>1 DEF Report, AgentsTyped, Typed, TypeOK
<1>5. CASE /\ result \in Reported
           /\ Update([job EXCEPT ![j] = Over(@, result)], Resumed(j, result))
  <2>1. Over(job[j], result) \in JobRecord
    BY <1>1, <1>5, OverTyped DEF Terminal, Reported
  <2>2. [job EXCEPT ![j] = Over(@, result)] \in [Job -> JobRecord]
    BY <2>1 DEF Typed, TypeOK
  <2>3. Resumed(j, result) \in MissionRecord
    BY DEF Resumed, Typed, TypeOK, MissionRecord
  <2>4. mission' \in MissionRecord /\ job' \in [Job -> JobRecord]
    BY <1>5, <2>2, <2>3, FencedTyped DEF Update
  <2> QED
    BY <1>2, <2>4 DEF Report, AgentsTyped, Typed, TypeOK
<1>6. result \in Reported
  BY DEF Report, Typed, Busy
<1> QED
  BY <1>3, <1>4, <1>5, <1>6 DEF Report

LEMMA AgentTyped ==
    ASSUME Typed, NEW d \in Device, AgentStep(d)
    PROVE  AgentsTyped
<1> USE DEF AgentsTyped
<1>1. CASE Claim(d)
  BY <1>1, ClaimTyped
<1>2. CASE Start(d)
  BY <1>2, StartTyped
<1>3. CASE Reject(d)
  BY <1>3, FinishTyped DEF Reject, Reported, Typed, TypeOK
<1>4. CASE Monitor(d)
  BY <1>4, MonitorTyped
<1>5. CASE Abort(d)
  <2>1. job' \in [Job -> JobRecord]
    BY <1>5, StatusReadTyped DEF Abort
  <2> QED
    BY <1>5, <2>1, FinishTyped DEF Abort, Reported, Typed, TypeOK
<1>6. CASE Execute(d)
  <2>1. PICK result \in {"succeeded", "failed", "timeout"} :
          agent' = [agent EXCEPT ![d].phase = "finished", ![d].result = result]
    BY <1>6 DEF Execute
  <2>2. agent' \in [Device -> AgentRecord] /\ Busy'
    BY <1>6, <2>1, FinishTyped DEF Execute, Reported
  <2> QED
    BY <1>6, <2>2 DEF Execute, Typed, TypeOK
<1>7. CASE Report(d)
  BY <1>7, ReportTyped
<1>8. CASE Drop(d)
  <2>1. agent' \in [Device -> AgentRecord] /\ Busy'
    BY <1>8, IdleTyped, BusyKept DEF Drop, Idle
  <2> QED
    BY <1>8, <2>1 DEF Drop, Typed, TypeOK
<1>9. CASE Heartbeat(d)
  BY <1>9 DEF Heartbeat, Typed, TypeOK, Busy
<1> QED
  BY <1>1, <1>2, <1>3, <1>4, <1>5, <1>6, <1>7, <1>8, <1>9 DEF AgentStep

LEMMA MissionTyped ==
    ASSUME Typed, MissionLeaseExpires \/ RecoverStale \/ Decide
    PROVE  mission' \in MissionRecord /\ job' \in [Job -> JobRecord]
<1> USE DEF Typed, TypeOK
<1>1. CASE MissionLeaseExpires
  BY <1>1 DEF MissionLeaseExpires, MissionRecord
<1>2. CASE RecoverStale
  <2>1. CASE SetMission([mission EXCEPT !.status = "queued", !.owner = None])
    <3>1. [mission EXCEPT !.status = "queued", !.owner = None] \in MissionRecord
      BY DEF MissionRecord
    <3> QED
      BY <2>1, <3>1, SetMissionTyped
  <2>2. ASSUME mission.plan < MaxPlan, NEW status \in {"failed", "queued"},
               SetMission([mission EXCEPT
                  !.status = status, !.owner = None, !.plan = @ + 1,
                  !.pending = Zero, !.attempts = Zero, !.completed = {}])
        PROVE  mission' \in MissionRecord /\ job' \in [Job -> JobRecord]
    <3>1. mission.plan + 1 \in 1 .. MaxPlan
      BY <2>2, JobsAssumption DEF MissionRecord
    <3>2. [mission EXCEPT !.status = status, !.owner = None, !.plan = @ + 1,
             !.pending = Zero, !.attempts = Zero, !.completed = {}] \in MissionRecord
      BY <3>1, OffTyped DEF MissionRecord
    <3> QED
      BY <2>2, <3>2, SetMissionTyped
  <2> QED
    BY <1>2, <2>1, <2>2 DEF RecoverStale
<1>3. CASE Decide
  <2>1. PICK status \in {"queued", "ended"} :
          SetMission([mission EXCEPT !.status = status, !.owner = None])
    BY <1>3 DEF Decide
  <2>2. [mission EXCEPT !.status = status, !.owner = None] \in MissionRecord
    BY DEF MissionRecord
  <2> QED
    BY <2>1, <2>2, SetMissionTyped
<1> QED
  BY <1>1, <1>2, <1>3

LEMMA NextTyped ==
    ASSUME Typed, [Next]_vars
    PROVE  Typed'
<1>1. ASSUME NEW r \in Runner, RunnerStep(r) PROVE Typed'
  <2>1. UNCHANGED <<agent, online>>
    BY <1>1 DEF RunnerStep, Take, Reconcile, Begin, Enqueue, Look, Park, Retry,
                Replan, GiveUp, Continue, Throw, Cut
  <2> QED
    BY <1>1, <2>1, RunnerTyped DEF RunnersTyped, Typed, TypeOK, Busy
<1>2. ASSUME NEW d \in Device, AgentStep(d) PROVE Typed'
  <2>1. UNCHANGED runner
    BY <1>2 DEF AgentStep, Claim, Start, Reject, Monitor, Abort, Execute, Report,
                Drop, Heartbeat
  <2> QED
    BY <1>2, <2>1, AgentTyped DEF AgentsTyped, Typed, TypeOK
<1>3. ASSUME NEW j \in Job, JobLeaseExpires(j) PROVE Typed'
  <2>1. [job[j] EXCEPT !.expired = TRUE] \in JobRecord
    BY DEF Typed, TypeOK, JobRecord
  <2> QED
    BY <1>3, <2>1 DEF JobLeaseExpires, Typed, TypeOK, Busy
<1>4. CASE Watchdog
  BY <1>4, SweepTyped DEF Watchdog, Typed, TypeOK, Busy
<1>5. CASE MissionLeaseExpires \/ RecoverStale \/ Decide
  <2>1. UNCHANGED <<runner, agent, online>>
    BY <1>5 DEF MissionLeaseExpires, RecoverStale, Decide
  <2> QED
    BY <1>5, <2>1, MissionTyped DEF Typed, TypeOK, Busy
<1>6. CASE UNCHANGED vars
  BY <1>6 DEF vars, Typed, TypeOK, Busy
<1> QED
  BY <1>1, <1>2, <1>3, <1>4, <1>5, <1>6 DEF Next

LEMMA InitTyped == Init => Typed
<1> SUFFICES ASSUME Init PROVE Typed
  OBVIOUS
<1>1. mission \in MissionRecord
  BY JobsAssumption, OffTyped DEF Init, MissionRecord
<1>2. runner \in [Runner -> RunnerRecord]
  BY OffTyped DEF Init
<1>3. job \in [Job -> JobRecord]
  BY JobsAssumption DEF Init, JobRecord
<1> QED
  BY <1>1, <1>2, <1>3, IdleTyped DEF Init, Typed, TypeOK, Busy, Idle

\* Rows, memories and agents are of their types in every reachable state, for
\* any number of runners, devices, steps, attempts and plans.
THEOREM JobTypes == Spec => []TypeOK
<1>1. Typed /\ [Next]_vars => Typed'
  BY NextTyped
<1>2. Typed => TypeOK
  BY DEF Typed
<1> QED
  BY <1>1, <1>2, InitTyped, PTL DEF Spec

-----------------------------------------------------------------------------
(***************************************************************************)
(* What most steps do to the rows of the jobs: nothing is executed, nothing *)
(* succeeds, nothing comes back to life.                                   *)
(***************************************************************************)
Before == {"absent", "queued", "claimed"}

Follows(new, old) ==
    /\ old.status \in Terminal => new = old
    /\ new.status \in Before => old.status \in Before
    /\ new.status = "succeeded" => old.status = "succeeded"
    /\ new.begun = old.begun

Quiet == \A j \in Job : Follows(job'[j], job[j])

LEMMA FollowsItself == \A row : Follows(row, row)
BY DEF Follows

LEMMA OverFollows ==
    ASSUME NEW row \in JobRecord, row.status \in Active,
           NEW status \in Terminal \ {"succeeded"}
    PROVE  /\ Follows(Over(row, status), row)
           /\ Over(row, status).status = status
BY DEF JobRecord, Active, Terminal, Over, Follows, Before

LEMMA RevokedFollows ==
    ASSUME NEW row \in JobRecord, row.status \in Active
    PROVE  Follows(Revoked(row), row) /\ Revoked(row).status \in {"blocked", "cancelled"}
BY OverFollows DEF Revoked, Terminal

LEMMA FencedFollows ==
    ASSUME NEW rows \in [Job -> JobRecord], NEW m, NEW j \in Job
    PROVE  /\ Follows(Fenced(rows, m)[j], rows[j])
           /\ Fenced(rows, m)[j].status \in Active =>
                Authorized(m, j) /\ Fenced(rows, m)[j] = rows[j]
BY RevokedFollows, FollowsItself DEF Fenced, Active

LEMMA SetMissionQuiet ==
    ASSUME TypeOK, NEW m, SetMission(m)
    PROVE  Quiet
BY FencedFollows, FollowsItself DEF SetMission, Update, Quiet, TypeOK

LEMMA SweptFollows ==
    ASSUME TypeOK, NEW j \in Job
    PROVE  /\ Follows(Sweep[j], job[j])
           /\ Sweep[j].status \in Active => job[j].status \in Active
           /\ Sweep[j].status = "queued" => job[j].status \in Before
<1>1. job[j] \in JobRecord
  BY DEF TypeOK
<1>2. Sweep[j] = Swept(job[j])
  BY DEF Sweep
<1> QED
  BY <1>1, <1>2 DEF Swept, Over, JobRecord, Active, Terminal, Follows, Before

LEMMA RunnerQuiet ==
    ASSUME TypeOK, NEW r \in Runner, RunnerStep(r)
    PROVE  Quiet
<1>1. CASE Take(r) \/ Park(r) \/ Retry(r) \/ Replan(r) \/ GiveUp(r) \/ Continue(r) \/ Throw(r)
  BY <1>1, SetMissionQuiet
     DEF Take, Park, Retry, Replan, GiveUp, Continue, Throw, Save
<1>2. CASE Reconcile(r) \/ Begin(r) \/ Look(r) \/ Cut(r)
  BY <1>2, FollowsItself DEF Reconcile, Begin, Look, Cut, Quiet
<1>3. CASE Enqueue(r)
  <2>1. CASE UNCHANGED job
    BY <2>1, FollowsItself DEF Quiet
  <2>2. ASSUME NEW j, NEW d, job[j].status = "absent",
               job' = [job EXCEPT ![j] = [@ EXCEPT !.status = "queued",
                                    !.device = d, !.plan = runner[r].plan]]
        PROVE  Quiet
    <3>1. ASSUME NEW x \in Job PROVE Follows(job'[x], job[x])
      BY <2>2, <3>1, FollowsItself DEF TypeOK, JobRecord, Follows, Before, Terminal
    <3> QED
      BY <3>1 DEF Quiet
  <2> QED
    BY <1>3, <2>1, <2>2 DEF Enqueue
<1> QED
  BY <1>1, <1>2, <1>3 DEF RunnerStep

\* An agent that has executed its job, or is at it.
Ran(a) ==
    a.phase = "executing" \/ (a.phase = "finished" /\ a.result = "succeeded")

\* An agent has nothing in hand that it did not have before.
Calm ==
    \A d \in Device :
        /\ agent'[d].phase = "started" => agent'[d] = agent[d]
        /\ Ran(agent'[d]) => Ran(agent[d]) /\ agent'[d].job = agent[d].job

LEMMA ClaimQuiet ==
    ASSUME Typed, NEW d \in Device, Claim(d)
    PROVE  Quiet /\ Calm
<1>1. PICK j \in Job :
        /\ Claimable(Sweep[j], d)
        /\ IF Authorized(mission, j)
           THEN /\ job' = [Sweep EXCEPT ![j].status = "claimed", ![j].device = d]
                /\ \E reply \in {[Idle EXCEPT !.phase = "claimed", !.job = j], Idle} :
                     agent' = [agent EXCEPT ![d] = reply]
           ELSE /\ job' = [Sweep EXCEPT ![j] = Over(@, "cancelled")]
                /\ UNCHANGED agent
  BY DEF Claim
<1>2. Sweep[j].status = "queued" /\ Sweep \in [Job -> JobRecord]
  BY <1>1, SweepTyped DEF Claimable, Typed, TypeOK
<1>3. Calm
  <2> DEFINE got == [Idle EXCEPT !.phase = "claimed", !.job = j]
  <2>1. got.phase = "claimed" /\ Idle.phase = "idle"
    BY DEF Idle
  <2>2. \/ UNCHANGED agent
        \/ agent' = [agent EXCEPT ![d] = got]
        \/ agent' = [agent EXCEPT ![d] = Idle]
    BY <1>1
  <2> HIDE DEF got
  <2> QED
    BY <2>1, <2>2 DEF Calm, Ran, Typed, TypeOK
<1>4. ASSUME NEW x \in Job PROVE Follows(job'[x], job[x])
  <2>1. CASE x # j
    BY <1>1, <1>2, <2>1, SweptFollows DEF Typed
  <2>2. CASE x = j
    <3>1. job'[j].status \in {"claimed", "cancelled"} /\ job'[j].begun = Sweep[j].begun
      BY ZenonT(30), <1>1, <1>2 DEF JobRecord, Over
    <3>2. job[j].status \in Before /\ Sweep[j].begun = job[j].begun
      BY <1>2, SweptFollows DEF Typed, Follows
    <3> QED
      BY <2>2, <3>1, <3>2 DEF Follows, Before, Terminal
  <2> QED
    BY <2>1, <2>2
<1> QED
  BY <1>3, <1>4 DEF Quiet

LEMMA StatusReadQuiet ==
    ASSUME Typed, NEW d \in Device, agent[d].phase # "idle", StatusRead(d)
    PROVE  Quiet
<1>1. agent[d].job \in Job
  BY DEF Typed, Busy
<1> QED
  BY <1>1, RevokedFollows, FollowsItself DEF StatusRead, OwnRow, Quiet, Typed, TypeOK

\* The steps of an agent that begin nothing and report nothing.
LEMMA AgentQuiet ==
    ASSUME Typed, NEW d \in Device,
           \/ Claim(d) \/ Reject(d) \/ Abort(d) \/ Execute(d) \/ Drop(d) \/ Heartbeat(d)
           \/ agent[d].phase = "started" /\ StatusRead(d)
                /\ agent' = [agent EXCEPT ![d].phase = "finished", ![d].result = "cancelled"]
    PROVE  Quiet /\ Calm
<1> USE DEF Typed, TypeOK
<1>1. CASE Claim(d)
  BY <1>1, ClaimQuiet
<1>2. CASE Reject(d)
  BY <1>2, FollowsItself DEF Reject, Quiet, Calm, Ran, AgentRecord
<1>3. CASE Abort(d)
  BY <1>3, StatusReadQuiet DEF Abort, Calm, Ran, AgentRecord
<1>4. CASE Execute(d)
  BY <1>4, FollowsItself DEF Execute, Quiet, Calm, Ran, AgentRecord
<1>5. CASE Drop(d) \/ Heartbeat(d)
  BY <1>5, FollowsItself DEF Drop, Heartbeat, Idle, Quiet, Calm, Ran
<1>6. CASE agent[d].phase = "started" /\ StatusRead(d)
             /\ agent' = [agent EXCEPT ![d].phase = "finished", ![d].result = "cancelled"]
  BY <1>6, StatusReadQuiet DEF Calm, Ran, AgentRecord
<1> QED
  BY <1>1, <1>2, <1>3, <1>4, <1>5, <1>6

LEMMA OthersQuiet ==
    ASSUME TypeOK,
           \/ \E j \in Job : JobLeaseExpires(j)
           \/ Watchdog \/ MissionLeaseExpires \/ RecoverStale \/ Decide
    PROVE  Quiet
<1>1. ASSUME NEW j \in Job, JobLeaseExpires(j) PROVE Quiet
  BY <1>1, FollowsItself
     DEF JobLeaseExpires, Quiet, Follows, TypeOK, JobRecord, Before, Terminal
<1>2. CASE Watchdog
  BY <1>2, SweptFollows DEF Watchdog, Quiet
<1>3. CASE MissionLeaseExpires
  BY <1>3, FollowsItself DEF MissionLeaseExpires, Quiet
<1>4. CASE RecoverStale \/ Decide
  BY <1>4, SetMissionQuiet DEF RecoverStale, Decide
<1> QED
  BY <1>1, <1>2, <1>3, <1>4

-----------------------------------------------------------------------------
(***************************************************************************)
(* A job is executed once                                                  *)
(***************************************************************************)

\* What has not been started has not been executed; the agent that started it
\* is the only one that may begin; success means that somebody did.
Begins ==
    /\ \A j \in Job :
         /\ job[j].begun \in {0, 1}
         /\ job[j].status \in Before => job[j].begun = 0
         /\ job[j].status = "succeeded" => job[j].begun = 1
    /\ \A d \in Device :
         /\ agent[d].phase = "started" =>
              job[agent[d].job].begun = 0 /\ job[agent[d].job].status \notin Before
         /\ Ran(agent[d]) => job[agent[d].job].begun = 1
    /\ \A d, e \in Device :
         agent[d].phase = "started" /\ agent[e].phase = "started"
         /\ agent[d].job = agent[e].job => d = e

LEMMA QuietKeepsBegins ==
    ASSUME Typed, Typed', Begins, Quiet, Calm
    PROVE  Begins'
<1>1. \A j \in Job :
         /\ job'[j].begun \in {0, 1}
         /\ job'[j].status \in Before => job'[j].begun = 0
         /\ job'[j].status = "succeeded" => job'[j].begun = 1
  BY DEF Begins, Quiet, Follows
<1>2. ASSUME NEW d \in Device, agent'[d].phase = "started"
      PROVE  job'[agent'[d].job].begun = 0 /\ job'[agent'[d].job].status \notin Before
  <2>1. agent'[d] = agent[d] /\ agent[d].job \in Job
    BY <1>2 DEF Calm, Typed, Busy
  <2> QED
    BY <1>2, <2>1 DEF Begins, Quiet, Follows
<1>3. ASSUME NEW d \in Device, Ran(agent'[d])
      PROVE  job'[agent'[d].job].begun = 1
  <2>1. agent'[d].job = agent[d].job /\ Ran(agent[d]) /\ agent[d].job \in Job
    BY <1>3 DEF Calm, Typed, Busy, Ran
  <2> QED
    BY <2>1 DEF Begins, Quiet, Follows
<1>4. \A d, e \in Device :
         agent'[d].phase = "started" /\ agent'[e].phase = "started"
         /\ agent'[d].job = agent'[e].job => d = e
  BY DEF Begins, Calm
<1> QED
  BY <1>1, <1>2, <1>3, <1>4 DEF Begins

LEMMA StartKeepsBegins ==
    ASSUME Typed, Begins, NEW d \in Device, Start(d)
    PROVE  Begins'
<1> DEFINE j == agent[d].job
<1> USE DEF Typed, TypeOK
<1>1. j \in Job /\ job[j] \in JobRecord
  BY DEF Start, Busy
<1>2. CASE OwnRow(d, {"claimed"}) /\ Authorized(mission, j)
           /\ agent' = [agent EXCEPT ![d] = [agent[d] EXCEPT !.phase = "started"]]
  <2>1. job[j].status = "claimed"
    BY <1>2 DEF OwnRow
  <2>2. job' = [job EXCEPT ![j] = [job[j] EXCEPT !.status = "running"]]
    BY <1>2 DEF Start
  <2>3. \A x \in Job \ {j} : job'[x] = job[x]
    BY <2>2
  <2>4. job'[j].status = "running" /\ job'[j].begun = 0
    BY <1>1, <2>1, <2>2 DEF Begins, Before, JobRecord
  <2>5. agent'[d].phase = "started" /\ agent'[d].job = j
    BY <1>2 DEF AgentRecord
  <2>6. \A e \in Device \ {d} : agent'[e] = agent[e]
    BY <1>2
  <2>7. \A e \in Device \ {d} : agent[e].phase = "started" => agent[e].job # j
    BY <2>1 DEF Begins, Before
  <2>8. \A e \in Device \ {d} : Ran(agent[e]) => agent[e].job # j
    BY <1>1, <2>1 DEF Begins, Before
  <2>9. \A x \in Job :
         /\ job'[x].begun \in {0, 1}
         /\ job'[x].status \in Before => job'[x].begun = 0
         /\ job'[x].status = "succeeded" => job'[x].begun = 1
    BY <2>3, <2>4 DEF Begins, Before
  <2>10. \A e \in Device : agent[e].phase # "idle" => agent[e].job \in Job
    BY DEF Busy
  <2>11. \A e \in Device :
         /\ agent'[e].phase = "started" =>
              job'[agent'[e].job].begun = 0 /\ job'[agent'[e].job].status \notin Before
         /\ Ran(agent'[e]) => job'[agent'[e].job].begun = 1
    BY <2>3, <2>4, <2>5, <2>6, <2>7, <2>8, <2>10 DEF Begins, Before, Ran
  <2>12. \A c, e \in Device :
         agent'[c].phase = "started" /\ agent'[e].phase = "started"
         /\ agent'[c].job = agent'[e].job => c = e
    BY <2>5, <2>6, <2>7 DEF Begins
  <2> QED
    BY <2>9, <2>11, <2>12 DEF Begins
<1>3. CASE agent' = [agent EXCEPT ![d] = Idle]
  <2>1. Calm
    BY <1>3 DEF Calm, Ran, Idle
  <2>2. ASSUME NEW x \in Job PROVE Follows(job'[x], job[x])
    <3>1. CASE x # j
      BY <3>1, FollowsItself DEF Start
    <3>2. CASE x = j /\ OwnRow(d, {"claimed"})
      BY <1>1, <3>2 DEF Start, OwnRow, Over, JobRecord, Follows, Before, Terminal
    <3>3. CASE ~OwnRow(d, {"claimed"})
      BY <3>3, FollowsItself DEF Start
    <3> QED
      BY <3>1, <3>2, <3>3
  <2> QED
    BY <2>1, <2>2, NextTyped, QuietKeepsBegins DEF Quiet, Next, AgentStep
<1> QED
  BY <1>2, <1>3 DEF Start

LEMMA MonitorKeepsBegins ==
    ASSUME Typed, Begins, NEW d \in Device, MayRun(d), agent[d].phase = "started",
           agent' = [agent EXCEPT ![d].phase = "executing"],
           job' = [job EXCEPT ![agent[d].job].begun = @ + 1]
    PROVE  Begins'
<1> DEFINE j == agent[d].job
<1> USE DEF Typed, TypeOK
<1>1. j \in Job /\ job[j] \in JobRecord
  BY DEF Busy
<1>2. job[j].status = "running" /\ job[j].begun = 0
  BY DEF MayRun, OwnRow, Begins
<1>3. \A x \in Job \ {j} : job'[x] = job[x]
  BY <1>1
<1>4. job'[j].status = "running" /\ job'[j].begun = 1
  BY <1>1, <1>2 DEF JobRecord
<1>5. agent'[d].phase = "executing" /\ agent'[d].job = j
  BY DEF AgentRecord
<1>6. \A e \in Device \ {d} : agent'[e] = agent[e]
  OBVIOUS
<1>7. \A e \in Device \ {d} : agent[e].phase = "started" => agent[e].job # j
  BY DEF Begins
<1>8. \A x \in Job :
         /\ job'[x].begun \in {0, 1}
         /\ job'[x].status \in Before => job'[x].begun = 0
         /\ job'[x].status = "succeeded" => job'[x].begun = 1
  BY <1>3, <1>4 DEF Begins, Before
<1>9. \A e \in Device : agent[e].phase # "idle" => agent[e].job \in Job
  BY DEF Busy
<1>10. \A e \in Device :
         /\ agent'[e].phase = "started" =>
              job'[agent'[e].job].begun = 0 /\ job'[agent'[e].job].status \notin Before
         /\ Ran(agent'[e]) => job'[agent'[e].job].begun = 1
  BY <1>3, <1>4, <1>5, <1>6, <1>7, <1>9 DEF Begins, Before, Ran
<1>11. \A c, e \in Device :
         agent'[c].phase = "started" /\ agent'[e].phase = "started"
         /\ agent'[c].job = agent'[e].job => c = e
  BY <1>5, <1>6 DEF Begins
<1> QED
  BY <1>8, <1>10, <1>11 DEF Begins

LEMMA ReportKeepsBegins ==
    ASSUME Typed, Typed', Begins, NEW d \in Device, Report(d)
    PROVE  Begins'
<1> DEFINE j == agent[d].job
           result == agent[d].result
<1> USE DEF Typed, TypeOK
<1>1. j \in Job /\ job[j] \in JobRecord /\ result \in Reported
  BY DEF Report, Busy
<1>2. Calm
  BY DEF Report, Calm, Ran, Idle
<1>3. CASE UNCHANGED <<mission, job>>
  BY <1>2, <1>3, FollowsItself, QuietKeepsBegins DEF Quiet
<1>4. ASSUME OwnRow(d, {"claimed", "running"}), NEW status \in Reported,
             status = "succeeded" => result = "succeeded", NEW m,
             Update([job EXCEPT ![j] = Over(@, status)], m)
      PROVE  Begins'
  <2> DEFINE rows == [job EXCEPT ![j] = Over(@, status)]
  <2>1. Over(job[j], status) \in JobRecord
    BY <1>1, OverTyped DEF Terminal, Reported
  <2>2. rows \in [Job -> JobRecord]
    BY <2>1
  <2>3. rows[j].begun = job[j].begun /\ rows[j].status = status
    BY <1>1 DEF Over, JobRecord
  <2>4. \A x \in Job \ {j} : rows[x] = job[x]
    OBVIOUS
  <2>5. job' = Fenced(rows, m) \/ job' = rows
    BY <1>4 DEF Update
  <2> HIDE DEF rows
  <2>6. \A x \in Job : Follows(job'[x], rows[x])
    BY <2>2, <2>5, FencedFollows, FollowsItself
  <2>7. status = "succeeded" => job[j].begun = 1
    BY <1>4 DEF Report, Begins, Ran
  <2>8. \A x \in Job :
         /\ job'[x].begun \in {0, 1}
         /\ job'[x].status \in Before => job'[x].begun = 0
         /\ job'[x].status = "succeeded" => job'[x].begun = 1
    BY <1>1, <2>3, <2>4, <2>6, <2>7 DEF Begins, Follows, Before, Reported
  <2>9. \A x \in Job : job'[x].begun = job[x].begun
                    /\ (job'[x].status \in Before => job[x].status \in Before)
    BY <1>1, <2>3, <2>4, <2>6 DEF Follows, Before, Reported
  <2>10. \A e \in Device : /\ agent'[e].phase = "started" \/ Ran(agent'[e]) =>
                                 agent'[e].job = agent[e].job /\ agent[e].job \in Job
                           /\ agent'[e].phase = "started" => agent[e].phase = "started"
                           /\ Ran(agent'[e]) => Ran(agent[e])
    BY <1>2 DEF Calm, Ran, Busy
  <2>11. \A e \in Device :
         /\ agent'[e].phase = "started" =>
              job'[agent'[e].job].begun = 0 /\ job'[agent'[e].job].status \notin Before
         /\ Ran(agent'[e]) => job'[agent'[e].job].begun = 1
    BY <2>9, <2>10 DEF Begins
  <2>12. \A c, e \in Device :
         agent'[c].phase = "started" /\ agent'[e].phase = "started"
         /\ agent'[c].job = agent'[e].job => c = e
    BY <2>10 DEF Begins
  <2> QED
    BY <2>8, <2>11, <2>12 DEF Begins
<1>5. CASE OwnRow(d, {"claimed", "running"}) /\ UNCHANGED mission
             /\ job' = [job EXCEPT ![j] = Over(@, "cancelled")]
  BY <1>4, <1>5 DEF Reported, Update
<1>6. CASE OwnRow(d, {"claimed", "running"})
             /\ Update([job EXCEPT ![j] = Over(@, result)], Resumed(j, result))
  BY <1>1, <1>4, <1>6
<1> QED
  BY <1>3, <1>5, <1>6 DEF Report

LEMMA NextKeepsBegins ==
    ASSUME Typed, Begins, [Next]_vars
    PROVE  Begins'
<1>1. Typed'
  BY NextTyped
<1>2. UNCHANGED agent => Calm
  BY DEF Calm
<1>3. ASSUME NEW r \in Runner, RunnerStep(r) PROVE Begins'
  <2>1. UNCHANGED agent
    BY <1>3 DEF RunnerStep, Take, Reconcile, Begin, Enqueue, Look, Park, Retry,
                Replan, GiveUp, Continue, Throw, Cut
  <2> QED
    BY <1>1, <1>2, <1>3, <2>1, RunnerQuiet, QuietKeepsBegins DEF Typed
<1>4. ASSUME NEW d \in Device, AgentStep(d) PROVE Begins'
  <2>1. CASE Claim(d) \/ Reject(d) \/ Abort(d) \/ Execute(d) \/ Drop(d) \/ Heartbeat(d)
    BY <1>1, <2>1, AgentQuiet, QuietKeepsBegins
  <2>2. CASE Start(d)
    BY <2>2, StartKeepsBegins
  <2>3. CASE Monitor(d)
    <3>1. CASE /\ MayRun(d)
               /\ agent' = [agent EXCEPT ![d].phase = "executing"]
               /\ job' = [job EXCEPT ![agent[d].job].begun = @ + 1]
      BY <2>3, <3>1, MonitorKeepsBegins DEF Monitor
    <3>2. CASE StatusRead(d) /\ agent' = [agent EXCEPT ![d].phase = "finished",
                                                     ![d].result = "cancelled"]
      <4>1. agent[d].phase = "started"
        BY <2>3 DEF Monitor
      <4> QED
        BY <1>1, <3>2, <4>1, AgentQuiet, QuietKeepsBegins
    <3> QED
      BY <2>3, <3>1, <3>2 DEF Monitor
  <2>4. CASE Report(d)
    BY <1>1, <2>4, ReportKeepsBegins
  <2> QED
    BY <1>4, <2>1, <2>2, <2>3, <2>4 DEF AgentStep
<1>5. CASE \/ \E j \in Job : JobLeaseExpires(j)
           \/ Watchdog \/ MissionLeaseExpires \/ RecoverStale \/ Decide
  <2>1. UNCHANGED agent
    BY <1>5 DEF JobLeaseExpires, Watchdog, MissionLeaseExpires, RecoverStale, Decide
  <2> QED
    BY <1>1, <1>2, <1>5, <2>1, OthersQuiet, QuietKeepsBegins DEF Typed
<1>6. CASE UNCHANGED vars
  BY <1>6 DEF vars, Begins
<1> QED
  BY <1>3, <1>4, <1>5, <1>6 DEF Next

LEMMA InitBegins == Init => Begins
BY DEF Init, Begins, Ran, Idle

\* A job is executed by one device at most and once at most, however claims,
\* replies, leases and runners are lost, for any number of each.
THEOREM JobsExecutedOnce == Spec => []ExecutedOnce
<1>1. Typed /\ Begins /\ [Next]_vars => Typed' /\ Begins'
  BY NextTyped, NextKeepsBegins
<1>2. Typed /\ Begins => ExecutedOnce
  BY DEF Begins, ExecutedOnce
<1> QED
  BY <1>1, <1>2, InitTyped, InitBegins, PTL DEF Spec

-----------------------------------------------------------------------------
(***************************************************************************)
(* What is over stays over                                                 *)
(***************************************************************************)
Kept == \A j \in Job : job[j].status \in Terminal => job'[j] = job[j]

LEMMA QuietKeeps == Quiet => Kept
BY DEF Quiet, Follows, Kept

LEMMA StartKept ==
    ASSUME Typed, NEW d \in Device, Start(d)
    PROVE  Kept
BY DEF Start, OwnRow, Kept, Terminal, Typed, TypeOK

LEMMA ReportKept ==
    ASSUME Typed, NEW d \in Device, Report(d)
    PROVE  Kept
<1> DEFINE j == agent[d].job
           result == agent[d].result
<1> USE DEF Typed, TypeOK
<1>1. j \in Job /\ job[j] \in JobRecord /\ result \in Reported
  BY DEF Report, Busy
<1>2. CASE UNCHANGED job
  BY <1>2 DEF Kept
<1>3. CASE OwnRow(d, {"claimed", "running"})
             /\ job' = [job EXCEPT ![j] = Over(@, "cancelled")]
  BY <1>3 DEF Kept, OwnRow, Terminal
<1>4. CASE OwnRow(d, {"claimed", "running"})
             /\ Update([job EXCEPT ![j] = Over(@, result)], Resumed(j, result))
  <2> DEFINE rows == [job EXCEPT ![j] = Over(@, result)]
  <2>1. rows \in [Job -> JobRecord]
    BY <1>1, OverTyped DEF Terminal, Reported
  <2>2. \A x \in Job : job[x].status \in Terminal => rows[x] = job[x]
    BY <1>4 DEF OwnRow, Terminal
  <2>3. job' = Fenced(rows, Resumed(j, result)) \/ job' = rows
    BY <1>4 DEF Update
  <2> HIDE DEF rows
  <2>4. \A x \in Job : Follows(job'[x], rows[x])
    BY <2>1, <2>3, FencedFollows, FollowsItself
  <2> QED
    BY <2>2, <2>4 DEF Kept, Follows
<1> QED
  BY <1>2, <1>3, <1>4 DEF Report

LEMMA NextKept ==
    ASSUME Typed, [Next]_vars
    PROVE  Kept
<1>1. ASSUME NEW r \in Runner, RunnerStep(r) PROVE Kept
  BY <1>1, RunnerQuiet, QuietKeeps DEF Typed
<1>2. ASSUME NEW d \in Device, AgentStep(d) PROVE Kept
  <2>1. CASE Claim(d) \/ Reject(d) \/ Abort(d) \/ Execute(d) \/ Drop(d) \/ Heartbeat(d)
    BY <2>1, AgentQuiet, QuietKeeps
  <2>2. CASE Start(d)
    BY <2>2, StartKept
  <2>3. CASE Monitor(d)
    <3>1. CASE MayRun(d) /\ job' = [job EXCEPT ![agent[d].job].begun = @ + 1]
      BY <3>1 DEF MayRun, OwnRow, Kept, Terminal, Typed, TypeOK
    <3>2. CASE StatusRead(d)
      <4>1. agent[d].phase = "started"
        BY <2>3 DEF Monitor
      <4> QED
        BY <3>2, <4>1, StatusReadQuiet, QuietKeeps
    <3> QED
      BY <2>3, <3>1, <3>2 DEF Monitor
  <2>4. CASE Report(d)
    BY <2>4, ReportKept
  <2> QED
    BY <1>2, <2>1, <2>2, <2>3, <2>4 DEF AgentStep
<1>3. CASE \/ \E j \in Job : JobLeaseExpires(j)
           \/ Watchdog \/ MissionLeaseExpires \/ RecoverStale \/ Decide
  BY <1>3, OthersQuiet, QuietKeeps DEF Typed
<1>4. CASE UNCHANGED vars
  BY <1>4 DEF vars, Kept
<1> QED
  BY <1>1, <1>2, <1>3, <1>4 DEF Next

\* The row of a job that is over never changes again, whatever reports, sweeps,
\* fences and runners come late.
THEOREM OverJobsStayOver == Spec => OverIsOver
<1>1. Typed /\ [Next]_vars => Typed'
  BY NextTyped
<1>2. Typed /\ [Next]_vars => [Kept]_job
  BY NextKept
<1>3. Spec => [][Kept]_job
  BY <1>1, <1>2, InitTyped, PTL DEF Spec
<1> QED
  BY <1>3 DEF OverIsOver, Kept

-----------------------------------------------------------------------------
(***************************************************************************)
(* Whoever may act is authorized                                           *)
(***************************************************************************)

\* The lease of a mission is held only while it runs, so an update that leaves
\* it in another status changes the status, and the fence fires.
Fence ==
    /\ ActiveJobsAreAuthorized
    /\ mission.owner # None => mission.status = "running"

\* An update of the mission's row keeps the fence when it changes the status,
\* or authorizes what was authorized.
LEMMA UpdateKeepsFence ==
    ASSUME NEW rows \in [Job -> JobRecord], NEW m, Update(rows, m),
           \A j \in Job : rows[j].status \in Active => Authorized(mission, j),
           m.status # mission.status \/
             (\A j \in Job : Authorized(mission, j) => Authorized(m, j))
    PROVE  ActiveJobsAreAuthorized'
<1>1. mission' = m
  BY DEF Update
<1>2. \A j \in Job : job'[j].status \in Active => Authorized(m, j)
  BY FencedFollows DEF Update
<1>3. \A j \in Job : Authorized(m, j) => Authorized(mission, j)'
  BY <1>1 DEF Authorized
<1> QED
  BY <1>2, <1>3 DEF ActiveJobsAreAuthorized

LEMMA SetMissionKeepsFence ==
    ASSUME TypeOK, Fence, NEW m, SetMission(m), m.status # mission.status
    PROVE  ActiveJobsAreAuthorized'
BY UpdateKeepsFence DEF SetMission, Fence, ActiveJobsAreAuthorized, TypeOK

\* Nobody else writes the mission's row and no row comes to life.
LEMMA SameMissionKeepsFence ==
    ASSUME Fence, UNCHANGED mission,
           \A j \in Job : job'[j].status \in Active =>
               job[j].status \in Active \/ Authorized(mission, j)
    PROVE  Fence'
<1>1. \A j \in Job : Authorized(mission, j) => Authorized(mission, j)'
  BY DEF Authorized
<1> QED
  BY <1>1 DEF Fence, ActiveJobsAreAuthorized

LEMMA SaveKeepsFence ==
    ASSUME TypeOK, Fence, NEW r \in Runner,
           NEW status, NEW recovery, NEW owner,
           status = "running" \/ owner = None, Save(r, status, recovery, owner)
    PROVE  Fence'
<1> DEFINE m == [mission EXCEPT
            !.status = status, !.recovery = recovery, !.owner = owner,
            !.pending = runner[r].pending, !.attempts = runner[r].attempts,
            !.completed = Completed(r)]
<1>1. V[r] # None
  BY JobsAssumption
<1>2. mission.status = "running" /\ SetMission(m) /\ mission \in MissionRecord
  BY <1>1 DEF Save, Fence, TypeOK
<1>3. m.status = status /\ m.owner = owner
  BY <1>2 DEF MissionRecord
<1>4. m.status # mission.status \/ \A j \in Job : Authorized(m, j)
  BY <1>2, <1>3 DEF Authorized
<1> HIDE DEF m
<1>5. ActiveJobsAreAuthorized'
  BY <1>2, <1>4, UpdateKeepsFence DEF SetMission, Fence, ActiveJobsAreAuthorized, TypeOK
<1>6. mission' = m
  BY <1>2 DEF SetMission, Update
<1> QED
  BY <1>3, <1>5, <1>6 DEF Fence

LEMMA TakeKeepsFence ==
    ASSUME TypeOK, Fence, NEW r \in Runner, Take(r)
    PROVE  Fence'
<1> DEFINE m == [mission EXCEPT !.status = "running", !.owner = V[r]]
<1>1. m.status = "running" /\ SetMission(m)
  BY DEF Take, TypeOK, MissionRecord
<1>2. \A j \in Job : Authorized(m, j)
  BY <1>1 DEF Authorized
<1> HIDE DEF m
<1>3. ActiveJobsAreAuthorized'
  BY <1>1, <1>2, UpdateKeepsFence DEF SetMission, Fence, ActiveJobsAreAuthorized, TypeOK
<1>4. mission' = m
  BY <1>1 DEF SetMission, Update
<1> QED
  BY <1>1, <1>3, <1>4 DEF Fence

\* The mission is given up by whoever holds it, or by nobody.
LEMMA ReleaseKeepsFence ==
    ASSUME TypeOK, Fence, NEW m, SetMission(m), m.owner = None,
           m.status # mission.status
    PROVE  Fence'
<1>1. ActiveJobsAreAuthorized'
  BY SetMissionKeepsFence
<1>2. mission' = m
  BY DEF SetMission, Update
<1> QED
  BY <1>1, <1>2 DEF Fence

LEMMA RunnerKeepsFence ==
    ASSUME TypeOK, Fence, NEW r \in Runner, RunnerStep(r)
    PROVE  Fence'
<1> USE DEF TypeOK
<1>1. V[r] # None
  BY JobsAssumption
<1>2. CASE Take(r)
  BY <1>2, TakeKeepsFence
<1>3. CASE Reconcile(r) \/ Look(r) \/ Cut(r)
  BY <1>3, SameMissionKeepsFence DEF Reconcile, Look, Cut
<1>4. CASE Begin(r)
  <2>1. UNCHANGED job /\ \E c : mission' = [mission EXCEPT !.attempts = c]
    BY <1>4 DEF Begin
  <2>2. /\ mission'.status = mission.status /\ mission'.recovery = mission.recovery
        /\ mission'.pending = mission.pending /\ mission'.owner = mission.owner
    BY <2>1 DEF MissionRecord
  <2>3. \A j \in Job : Authorized(mission, j) => Authorized(mission, j)'
    BY <2>2 DEF Authorized
  <2> QED
    BY <2>1, <2>2, <2>3 DEF Fence, ActiveJobsAreAuthorized
<1>5. CASE Enqueue(r)
  <2>1. UNCHANGED mission /\ (UNCHANGED job \/ mission.status = "running")
    BY <1>5 DEF Enqueue
  <2> QED
    BY <2>1, SameMissionKeepsFence DEF Authorized
<1>6. CASE Park(r)
  BY <1>6, SaveKeepsFence DEF Park
<1>7. CASE Retry(r)
  BY <1>7, SaveKeepsFence DEF Retry
<1>8. CASE Replan(r)
  <2>1. mission.status = "running"
    BY <1>1, <1>8 DEF Replan, Fence
  <2> DEFINE m == [mission EXCEPT
            !.status = "queued", !.recovery = "none", !.owner = None,
            !.plan = @ + 1, !.pending = Zero, !.completed = Completed(r),
            !.attempts = [s \in Step |-> IF s \in Completed(r)
                                         THEN runner[r].attempts[s] ELSE 0]]
  <2>2. SetMission(m)
    BY <1>8 DEF Replan
  <2>3. m.status = "queued" /\ m.owner = None
    BY DEF MissionRecord
  <2> HIDE DEF m
  <2> QED
    BY <2>1, <2>2, <2>3, ReleaseKeepsFence
<1>9. CASE GiveUp(r)
  BY <1>9, SaveKeepsFence DEF GiveUp
<1>10. CASE Continue(r)
  <2>1. PICK status : Save(r, status, "none", None)
    BY <1>10 DEF Continue
  <2> QED
    BY <2>1, SaveKeepsFence
<1>11. CASE Throw(r)
  <2>1. mission.status = "running"
    BY <1>1, <1>11 DEF Throw, Fence
  <2>2. PICK status \in {"paused", "ended"} :
          SetMission([mission EXCEPT !.status = status, !.owner = None])
    BY <1>11 DEF Throw
  <2> DEFINE m == [mission EXCEPT !.status = status, !.owner = None]
  <2>3. m.status = status /\ m.owner = None
    BY DEF MissionRecord
  <2> HIDE DEF m
  <2> QED
    BY <2>1, <2>2, <2>3, ReleaseKeepsFence DEF m
<1> QED
  BY <1>2, <1>3, <1>4, <1>5, <1>6, <1>7, <1>8, <1>9, <1>10, <1>11 DEF RunnerStep

LEMMA ReportKeepsFence ==
    ASSUME Typed, Fence, NEW d \in Device, Report(d)
    PROVE  Fence'
<1> DEFINE j == agent[d].job
           result == agent[d].result
<1> USE DEF Typed, TypeOK
<1>1. j \in Job /\ job[j] \in JobRecord /\ result \in Reported
  BY DEF Report, Busy
<1>2. CASE UNCHANGED <<mission, job>>
  BY <1>2, SameMissionKeepsFence
<1>3. CASE UNCHANGED mission /\ job' = [job EXCEPT ![j] = Over(@, "cancelled")]
  <2>1. job'[j].status = "cancelled"
    BY <1>1, <1>3 DEF Over, JobRecord
  <2> QED
    BY <1>3, <2>1, SameMissionKeepsFence DEF Active
<1>4. CASE Update([job EXCEPT ![j] = Over(@, result)], Resumed(j, result))
  <2> DEFINE rows == [job EXCEPT ![j] = Over(@, result)]
             m == Resumed(j, result)
  <2>1. rows \in [Job -> JobRecord]
    BY <1>1, OverTyped DEF Terminal, Reported
  <2>2. rows[j].status \notin Active
    BY <1>1 DEF Over, JobRecord, Active, Reported
  <2>3. \A x \in Job : rows[x].status \in Active => Authorized(mission, x)
    BY <2>2 DEF Fence, ActiveJobsAreAuthorized
  <2>4. m = mission \/ (m.status = "queued" /\ m.status # mission.status /\ m.owner = None)
    BY DEF Resumed, MissionRecord
  <2> HIDE DEF rows, m
  <2>5. Update(rows, m)
    BY <1>4 DEF rows, m
  <2>6. ActiveJobsAreAuthorized'
    BY <2>1, <2>3, <2>4, <2>5, UpdateKeepsFence
  <2>7. mission' = m
    BY <2>5 DEF Update
  <2> QED
    BY <2>4, <2>6, <2>7 DEF Fence
<1> QED
  BY <1>2, <1>3, <1>4 DEF Report

LEMMA AgentKeepsFence ==
    ASSUME Typed, Fence, NEW d \in Device, AgentStep(d)
    PROVE  Fence'
<1> USE DEF Typed, TypeOK
<1>1. CASE Claim(d)
  <2>1. PICK j \in Job :
        IF Authorized(mission, j)
        THEN job' = [Sweep EXCEPT ![j].status = "claimed", ![j].device = d]
        ELSE job' = [Sweep EXCEPT ![j] = Over(@, "cancelled")]
    BY <1>1 DEF Claim
  <2>2. Sweep \in [Job -> JobRecord]
    BY SweepTyped
  <2>3. \A x \in Job \ {j} : job'[x] = Sweep[x]
    BY <2>1, <2>2
  <2>4. ~Authorized(mission, j) => job'[j].status = "cancelled"
    BY <2>1, <2>2 DEF Over, JobRecord
  <2>5. \A x \in Job : job'[x].status \in Active =>
            job[x].status \in Active \/ Authorized(mission, x)
    BY <2>3, <2>4, SweptFollows DEF Active
  <2> QED
    BY <1>1, <2>5, SameMissionKeepsFence DEF Claim
<1>2. CASE Start(d)
  <2>1. agent[d].job \in Job
    BY <1>2 DEF Start, Busy
  <2>2. \A x \in Job : job'[x].status \in Active => job[x].status \in Active
    BY <1>2, <2>1 DEF Start, OwnRow, Over, JobRecord, Active
  <2> QED
    BY <1>2, <2>2, SameMissionKeepsFence DEF Start
<1>3. CASE Monitor(d) \/ Abort(d)
  <2>1. agent[d].job \in Job /\ agent[d].phase # "idle"
    BY <1>3 DEF Monitor, Abort, Busy
  <2>2. CASE MayRun(d) /\ job' = [job EXCEPT ![agent[d].job].begun = @ + 1]
    BY <1>3, <2>1, <2>2, SameMissionKeepsFence
       DEF Monitor, Abort, MayRun, OwnRow, JobRecord, Active
  <2>3. CASE StatusRead(d)
    <3>1. \A x \in Job : job'[x].status \in Active => job[x].status \in Active
      BY <2>1, <2>3, RevokedFollows DEF StatusRead, OwnRow, Active
    <3> QED
      BY <1>3, <3>1, SameMissionKeepsFence DEF Monitor, Abort
  <2> QED
    BY <1>3, <2>2, <2>3 DEF Monitor, Abort
<1>4. CASE Reject(d) \/ Execute(d) \/ Drop(d) \/ Heartbeat(d)
  BY <1>4, SameMissionKeepsFence DEF Reject, Execute, Drop, Heartbeat
<1>5. CASE Report(d)
  BY <1>5, ReportKeepsFence
<1> QED
  BY <1>1, <1>2, <1>3, <1>4, <1>5 DEF AgentStep

LEMMA RecoverKeepsFence ==
    ASSUME Typed, Fence, RecoverStale
    PROVE  Fence'
<1> USE DEF Typed, TypeOK
<1>1. CASE /\ mission.status \in {"running", "paused"}
           /\ SetMission([mission EXCEPT !.status = "queued", !.owner = None])
  <2> DEFINE m == [mission EXCEPT !.status = "queued", !.owner = None]
  <2>1. m.status = "queued" /\ m.owner = None
    BY DEF MissionRecord
  <2> HIDE DEF m
  <2> QED
    BY <1>1, <2>1, ReleaseKeepsFence DEF m
<1>2. ASSUME NEW status \in {"failed", "queued"},
             status = "queued" => mission.status = "failed",
             SetMission([mission EXCEPT
                  !.status = status, !.owner = None, !.plan = @ + 1,
                  !.pending = Zero, !.attempts = Zero, !.completed = {}])
      PROVE  Fence'
  <2> DEFINE m == [mission EXCEPT
                  !.status = status, !.owner = None, !.plan = @ + 1,
                  !.pending = Zero, !.attempts = Zero, !.completed = {}]
  <2>1. m.status = status /\ m.owner = None
    BY DEF MissionRecord
  <2>2. SetMission(m)
    BY <1>2
  <2> HIDE DEF m
  <2>3. mission' = m
    BY <2>2 DEF SetMission, Update
  <2>4. CASE mission.status = "failed"
    <3>1. \A j \in Job : ~Authorized(mission, j)
      BY <2>4 DEF Authorized
    <3>2. ActiveJobsAreAuthorized'
      BY <2>2, <3>1, UpdateKeepsFence DEF SetMission, Fence, ActiveJobsAreAuthorized
    <3> QED
      BY <2>1, <2>3, <3>2 DEF Fence
  <2>5. CASE mission.status # "failed"
    BY <1>2, <2>1, <2>2, <2>5, ReleaseKeepsFence
  <2> QED
    BY <2>4, <2>5
<1> QED
  BY <1>1, <1>2 DEF RecoverStale

LEMMA NextKeepsFence ==
    ASSUME Typed, Fence, [Next]_vars
    PROVE  Fence'
<1>1. ASSUME NEW r \in Runner, RunnerStep(r) PROVE Fence'
  BY <1>1, RunnerKeepsFence DEF Typed
<1>2. ASSUME NEW d \in Device, AgentStep(d) PROVE Fence'
  BY <1>2, AgentKeepsFence
<1>3. ASSUME NEW j \in Job, JobLeaseExpires(j) PROVE Fence'
  <2>1. \A x \in Job : job'[x].status = job[x].status
    BY <1>3 DEF JobLeaseExpires, Typed, TypeOK, JobRecord
  <2> QED
    BY <1>3, <2>1, SameMissionKeepsFence DEF JobLeaseExpires
<1>4. CASE Watchdog
  BY <1>4, SweptFollows, SameMissionKeepsFence DEF Watchdog, Typed
<1>5. CASE MissionLeaseExpires
  <2>1. /\ mission'.status = mission.status /\ mission'.recovery = mission.recovery
        /\ mission'.pending = mission.pending /\ mission'.owner = None
    BY <1>5 DEF MissionLeaseExpires, Typed, TypeOK, MissionRecord
  <2>2. \A j \in Job : Authorized(mission, j) => Authorized(mission, j)'
    BY <2>1 DEF Authorized
  <2> QED
    BY <1>5, <2>1, <2>2 DEF MissionLeaseExpires, Fence, ActiveJobsAreAuthorized
<1>6. CASE RecoverStale
  BY <1>6, RecoverKeepsFence
<1>7. CASE Decide
  <2>1. PICK status \in {"queued", "ended"} :
          SetMission([mission EXCEPT !.status = status, !.owner = None])
    BY <1>7 DEF Decide
  <2> DEFINE m == [mission EXCEPT !.status = status, !.owner = None]
  <2>2. m.status # mission.status /\ m.owner = None
    BY <1>7 DEF Decide, Typed, TypeOK, MissionRecord
  <2> HIDE DEF m
  <2> QED
    BY <2>1, <2>2, ReleaseKeepsFence DEF m, Typed
<1>8. CASE UNCHANGED vars
  BY <1>8, SameMissionKeepsFence DEF vars
<1> QED
  BY <1>1, <1>2, <1>3, <1>4, <1>5, <1>6, <1>7, <1>8 DEF Next

LEMMA InitFence == Init => Fence
BY DEF Init, Fence, ActiveJobsAreAuthorized, Active

\* A job that could be claimed, started or completed is one that the mission
\* authorizes at this moment, through every pause, takeover, replan, recovery
\* and resumption.
THEOREM FenceHolds == Spec => []ActiveJobsAreAuthorized
<1>1. Typed /\ Fence /\ [Next]_vars => Typed' /\ Fence'
  BY NextTyped, NextKeepsFence
<1>2. Fence => ActiveJobsAreAuthorized
  BY DEF Fence
<1> QED
  BY <1>1, <1>2, InitTyped, InitFence, PTL DEF Spec

-----------------------------------------------------------------------------
(***************************************************************************)
(* A completed step has its evidence                                       *)
(***************************************************************************)
Has(s) == \E a \in 1 .. Attempts :
              job[<<s, a>>].status = "succeeded" /\ job[<<s, a>>].begun = 1

\* The row, and what runners hold in memory with or without the lease, count
\* only steps that have evidence; an attempt that was begun has a number.
Evidence ==
    /\ \A s \in mission.completed : Has(s)
    /\ \A r \in Runner :
         /\ \A s \in runner[r].completed : Has(s)
         /\ \A s \in Step :
              /\ runner[r].outcome[s] = "passed" => Has(s)
              /\ runner[r].outcome[s] \in {"begun", "sent"} =>
                   runner[r].attempts[s] \in 1 .. Attempts

LEMMA HasKept ==
    ASSUME Kept, NEW s \in Step, Has(s)
    PROVE  Has(s)'
<1>1. PICK a \in 1 .. Attempts :
        job[<<s, a>>].status = "succeeded" /\ job[<<s, a>>].begun = 1
  BY DEF Has
<1>2. <<s, a>> \in Job
  BY DEF Job
<1>3. job'[<<s, a>>] = job[<<s, a>>]
  BY <1>1, <1>2 DEF Kept, Terminal
<1> QED
  BY <1>1, <1>3 DEF Has

LEMMA CompletedHas ==
    ASSUME TypeOK, Evidence, NEW r \in Runner
    PROVE  \A s \in Completed(r) : s \in Step /\ Has(s)
BY BatchInStep DEF Completed, Evidence, TypeOK, RunnerRecord

\* Steps that write nothing but what has evidence.
LEMMA EvidenceKept ==
    ASSUME TypeOK, Evidence, Kept,
           \A s \in mission'.completed :
               s \in mission.completed \/ \E r \in Runner : s \in Completed(r),
           \A r \in Runner : runner'[r] = runner[r] \/ runner'[r] = Off
    PROVE  Evidence'
<1>1. ASSUME NEW s \in mission'.completed PROVE Has(s)'
  <2>1. s \in Step /\ Has(s)
    BY <1>1, CompletedHas DEF Evidence, TypeOK, MissionRecord
  <2> QED
    BY <2>1, HasKept
<1>2. ASSUME NEW r \in Runner, runner'[r] = runner[r]
      PROVE  /\ \A s \in runner'[r].completed : Has(s)'
             /\ \A s \in Step :
                  /\ runner'[r].outcome[s] = "passed" => Has(s)'
                  /\ runner'[r].outcome[s] \in {"begun", "sent"} =>
                       runner'[r].attempts[s] \in 1 .. Attempts
  <2>1. runner[r].completed \subseteq Step
    BY DEF TypeOK, RunnerRecord
  <2> QED
    BY <1>2, <2>1, HasKept DEF Evidence
<1>3. ASSUME NEW r \in Runner, runner'[r] = Off
      PROVE  /\ \A s \in runner'[r].completed : Has(s)'
             /\ \A s \in Step :
                  /\ runner'[r].outcome[s] = "passed" => Has(s)'
                  /\ runner'[r].outcome[s] \in {"begun", "sent"} =>
                       runner'[r].attempts[s] \in 1 .. Attempts
  BY <1>3 DEF Off, Untouched
<1> QED
  BY <1>1, <1>2, <1>3 DEF Evidence

\* A step of a runner that works on one step of its batch.
LEMMA WorkKeepsEvidence ==
    ASSUME TypeOK, Evidence, Kept, NEW r \in Runner, NEW s \in Step,
           NEW q \in RunnerRecord,
           runner' = [runner EXCEPT ![r] = q],
           mission'.completed = mission.completed,
           q.completed = runner[r].completed,
           \A t \in Step \ {s} : q.outcome[t] = runner[r].outcome[t]
                              /\ q.attempts[t] = runner[r].attempts[t],
           q.outcome[s] = "passed" => Has(s),
           q.outcome[s] \in {"begun", "sent"} => q.attempts[s] \in 1 .. Attempts
    PROVE  Evidence'
<1>1. ASSUME NEW t \in mission'.completed PROVE Has(t)'
  BY <1>1, HasKept DEF Evidence, TypeOK, MissionRecord
<1>2. ASSUME NEW t \in runner'[r].completed PROVE Has(t)'
  BY <1>2, HasKept DEF Evidence, TypeOK, RunnerRecord
<1>3. ASSUME NEW t \in Step
      PROVE  /\ runner'[r].outcome[t] = "passed" => Has(t)'
             /\ runner'[r].outcome[t] \in {"begun", "sent"} =>
                  runner'[r].attempts[t] \in 1 .. Attempts
  BY <1>3, HasKept DEF Evidence, TypeOK
<1>4. ASSUME NEW p \in Runner \ {r}
      PROVE  /\ \A t \in runner'[p].completed : Has(t)'
             /\ \A t \in Step :
                  /\ runner'[p].outcome[t] = "passed" => Has(t)'
                  /\ runner'[p].outcome[t] \in {"begun", "sent"} =>
                       runner'[p].attempts[t] \in 1 .. Attempts
  <2>1. runner'[p] = runner[p] /\ runner[p].completed \subseteq Step
    BY DEF TypeOK, RunnerRecord
  <2> QED
    BY <2>1, HasKept DEF Evidence
<1> QED
  BY <1>1, <1>2, <1>3, <1>4 DEF Evidence

LEMMA PassedHas ==
    ASSUME Begins, NEW s \in Step, NEW a \in 1 .. Attempts,
           "passed" \in Outcome(job[<<s, a>>].status)
    PROVE  Has(s)
<1>1. job[<<s, a>>].status = "succeeded"
  BY DEF Outcome
<1> QED
  BY <1>1 DEF Begins, Has, Job

LEMMA ReconcileKeepsEvidence ==
    ASSUME TypeOK, Begins, Evidence, Kept, NEW r \in Runner, Reconcile(r)
    PROVE  Evidence'
<1>1. PICK s \in Batch(r) :
        LET a == runner[r].pending[s]
        IN  /\ a # 0
            /\ \/ \E o \in Outcome(job[<<s, a>>].status) :
                    runner' = [runner EXCEPT ![r] = [@ EXCEPT !.outcome[s] = o,
                                   !.pending[s] = 0, !.attempts[s] = a]]
               \/ runner' = [runner EXCEPT ![r] = [@ EXCEPT !.outcome[s] = "waiting"]]
  BY DEF Reconcile
<1> DEFINE a == runner[r].pending[s]
<1>2. s \in Step /\ runner[r] \in RunnerRecord /\ a \in 1 .. Attempts
  <2>1. s \in Step /\ runner[r] \in RunnerRecord
    BY BatchInStep DEF TypeOK
  <2>2. a \in 0 .. Attempts
    BY <2>1 DEF RunnerRecord, Counts
  <2>3. a # 0
    BY <1>1
  <2> QED
    BY <2>1, <2>2, <2>3, JobsAssumption
<1>3. ASSUME NEW o \in Outcome(job[<<s, a>>].status),
             runner' = [runner EXCEPT ![r] = [@ EXCEPT !.outcome[s] = o,
                                   !.pending[s] = 0, !.attempts[s] = a]]
      PROVE  Evidence'
  <2> DEFINE q == [runner[r] EXCEPT !.outcome[s] = o, !.pending[s] = 0, !.attempts[s] = a]
  <2>1. o \in {"passed", "failed"} /\ (o = "passed" => Has(s))
    BY <1>2, PassedHas DEF Outcome
  <2>2. /\ q.completed = runner[r].completed
        /\ q.outcome = [runner[r].outcome EXCEPT ![s] = o]
        /\ q.attempts = [runner[r].attempts EXCEPT ![s] = a]
    BY <1>2 DEF RunnerRecord
  <2>3. q \in RunnerRecord
    <3>1. o \in Outcomes /\ 0 \in 0 .. Attempts /\ a \in 0 .. Attempts
      BY <1>2, <2>1, JobsAssumption DEF Outcomes
    <3> HIDE DEF a
    <3> QED
      BY <1>2, <3>1, RunnerUpdates
  <2>4. runner' = [runner EXCEPT ![r] = q]
    BY <1>3
  <2>5. /\ \A t \in Step \ {s} : q.outcome[t] = runner[r].outcome[t]
                              /\ q.attempts[t] = runner[r].attempts[t]
        /\ q.outcome[s] = o
    BY <1>2, <2>2 DEF RunnerRecord, Counts
  <2> HIDE DEF q
  <2> QED
    BY <1>2, <2>1, <2>2, <2>3, <2>4, <2>5, WorkKeepsEvidence DEF Reconcile
<1>4. CASE runner' = [runner EXCEPT ![r] = [@ EXCEPT !.outcome[s] = "waiting"]]
  <2> DEFINE q == [runner[r] EXCEPT !.outcome[s] = "waiting"]
  <2>1. /\ q.completed = runner[r].completed
        /\ q.outcome = [runner[r].outcome EXCEPT ![s] = "waiting"]
        /\ q.attempts = runner[r].attempts
    BY <1>2 DEF RunnerRecord
  <2>2. q \in RunnerRecord
    BY <1>2 DEF RunnerRecord, Counts, Outcomes
  <2>3. runner' = [runner EXCEPT ![r] = q]
    BY <1>4
  <2>4. /\ \A t \in Step \ {s} : q.outcome[t] = runner[r].outcome[t]
                              /\ q.attempts[t] = runner[r].attempts[t]
        /\ q.outcome[s] = "waiting"
    BY <1>2, <2>1 DEF RunnerRecord
  <2> HIDE DEF q
  <2> QED
    BY <1>2, <2>1, <2>2, <2>3, <2>4, WorkKeepsEvidence DEF Reconcile
<1> QED
  BY <1>1, <1>3, <1>4

LEMMA LookKeepsEvidence ==
    ASSUME TypeOK, Begins, Evidence, Kept, NEW r \in Runner, Look(r)
    PROVE  Evidence'
<1>1. PICK s \in Batch(r) :
        LET a == runner[r].attempts[s]
        IN  /\ runner[r].outcome[s] = "sent"
            /\ \/ \E o \in Outcome(job[<<s, a>>].status) :
                    runner' = [runner EXCEPT ![r] = [@ EXCEPT !.outcome[s] = o]]
               \/ runner' = [runner EXCEPT ![r] = [@ EXCEPT !.outcome[s] = "waiting",
                                                            !.pending[s] = a]]
  BY DEF Look
<1> DEFINE a == runner[r].attempts[s]
<1>2. s \in Step /\ runner[r] \in RunnerRecord /\ a \in 1 .. Attempts
  BY <1>1, BatchInStep DEF TypeOK, Evidence
<1>3. ASSUME NEW o \in Outcome(job[<<s, a>>].status),
             runner' = [runner EXCEPT ![r] = [@ EXCEPT !.outcome[s] = o]]
      PROVE  Evidence'
  <2> DEFINE q == [runner[r] EXCEPT !.outcome[s] = o]
  <2>1. o \in {"passed", "failed"} /\ (o = "passed" => Has(s))
    BY <1>2, PassedHas DEF Outcome
  <2>2. /\ q.completed = runner[r].completed
        /\ q.outcome = [runner[r].outcome EXCEPT ![s] = o]
        /\ q.attempts = runner[r].attempts
    BY <1>2 DEF RunnerRecord
  <2>3. q \in RunnerRecord
    BY <1>2, <2>1 DEF RunnerRecord, Counts, Outcomes
  <2>4. runner' = [runner EXCEPT ![r] = q]
    BY <1>3
  <2>5. /\ \A t \in Step \ {s} : q.outcome[t] = runner[r].outcome[t]
                              /\ q.attempts[t] = runner[r].attempts[t]
        /\ q.outcome[s] = o
    BY <1>2, <2>2 DEF RunnerRecord
  <2> HIDE DEF q
  <2> QED
    BY <1>2, <2>1, <2>2, <2>3, <2>4, <2>5, WorkKeepsEvidence DEF Look
<1>4. CASE runner' = [runner EXCEPT ![r] = [@ EXCEPT !.outcome[s] = "waiting",
                                                     !.pending[s] = a]]
  <2> DEFINE q == [runner[r] EXCEPT !.outcome[s] = "waiting", !.pending[s] = a]
  <2>1. /\ q.completed = runner[r].completed
        /\ q.outcome = [runner[r].outcome EXCEPT ![s] = "waiting"]
        /\ q.attempts = runner[r].attempts
    BY <1>2 DEF RunnerRecord
  <2>2. q \in RunnerRecord
    BY <1>2 DEF RunnerRecord, Counts, Outcomes
  <2>3. runner' = [runner EXCEPT ![r] = q]
    BY <1>4
  <2>4. /\ \A t \in Step \ {s} : q.outcome[t] = runner[r].outcome[t]
                              /\ q.attempts[t] = runner[r].attempts[t]
        /\ q.outcome[s] = "waiting"
    BY <1>2, <2>1 DEF RunnerRecord
  <2> HIDE DEF q
  <2> QED
    BY <1>2, <2>1, <2>2, <2>3, <2>4, WorkKeepsEvidence DEF Look
<1> QED
  BY <1>1, <1>3, <1>4

LEMMA BeginKeepsEvidence ==
    ASSUME TypeOK, Evidence, Kept, NEW r \in Runner, Begin(r)
    PROVE  Evidence'
<1>1. PICK s \in Batch(r) :
        LET a == runner[r].attempts[s] + 1
        IN  /\ a \in 1 .. Attempts
            /\ runner' = [runner EXCEPT ![r] = [@ EXCEPT !.outcome[s] = "begun",
                                                         !.attempts[s] = a]]
            /\ mission' = [mission EXCEPT !.attempts = runner'[r].attempts]
  BY DEF Begin
<1> DEFINE a == runner[r].attempts[s] + 1
           q == [runner[r] EXCEPT !.outcome[s] = "begun", !.attempts[s] = a]
<1>2. s \in Step /\ runner[r] \in RunnerRecord /\ a \in 1 .. Attempts
  BY <1>1, BatchInStep DEF TypeOK
<1>3. runner' = [runner EXCEPT ![r] = q]
  BY <1>1
<1>4. mission'.completed = mission.completed
  BY <1>1 DEF TypeOK, MissionRecord
<1> HIDE DEF a
<1>5. /\ q.completed = runner[r].completed
      /\ q.outcome = [runner[r].outcome EXCEPT ![s] = "begun"]
      /\ q.attempts = [runner[r].attempts EXCEPT ![s] = a]
  BY <1>2 DEF RunnerRecord
<1>6. q \in RunnerRecord
  <2>1. a \in 0 .. Attempts /\ 0 \in 0 .. Attempts
    BY <1>2, JobsAssumption
  <2> QED
    BY <1>2, <2>1, RunnerUpdates, OutcomesTyped
<1>7. /\ \A t \in Step \ {s} : q.outcome[t] = runner[r].outcome[t]
                            /\ q.attempts[t] = runner[r].attempts[t]
      /\ q.outcome[s] = "begun" /\ q.attempts[s] = a
  BY <1>2, <1>5 DEF RunnerRecord, Counts
<1> HIDE DEF q
<1> QED
  BY ZenonT(30), <1>2, <1>3, <1>4, <1>5, <1>6, <1>7, WorkKeepsEvidence

LEMMA EnqueueKeepsEvidence ==
    ASSUME TypeOK, Evidence, Kept, NEW r \in Runner, Enqueue(r)
    PROVE  Evidence'
<1>1. PICK s \in Batch(r), o \in {"sent", "failed"} :
        /\ runner[r].outcome[s] = "begun"
        /\ runner' = [runner EXCEPT ![r] = [@ EXCEPT !.outcome[s] = o]]
  BY DEF Enqueue
<1> DEFINE q == [runner[r] EXCEPT !.outcome[s] = o]
<1>2. s \in Step /\ runner[r] \in RunnerRecord
  BY BatchInStep DEF TypeOK
<1>3. runner' = [runner EXCEPT ![r] = q]
  BY <1>1
<1>4. /\ q.completed = runner[r].completed
      /\ q.outcome = [runner[r].outcome EXCEPT ![s] = o]
      /\ q.attempts = runner[r].attempts
  BY <1>2 DEF RunnerRecord
<1>5. q \in RunnerRecord
  BY <1>2 DEF RunnerRecord, Outcomes
<1>6. /\ \A t \in Step \ {s} : q.outcome[t] = runner[r].outcome[t]
                            /\ q.attempts[t] = runner[r].attempts[t]
      /\ q.outcome[s] = o
  BY <1>2, <1>4 DEF RunnerRecord
<1>7. q.attempts[s] \in 1 .. Attempts
  BY <1>1, <1>2, <1>4 DEF Evidence
<1> HIDE DEF q
<1> QED
  BY <1>2, <1>3, <1>4, <1>5, <1>6, <1>7, WorkKeepsEvidence DEF Enqueue

LEMMA TakeKeepsEvidence ==
    ASSUME TypeOK, Evidence, Kept, NEW r \in Runner, Take(r)
    PROVE  Evidence'
<1> DEFINE q == [on |-> TRUE, plan |-> mission.plan, pending |-> mission.pending,
                 attempts |-> mission.attempts, completed |-> mission.completed,
                 outcome |-> Untouched]
<1>1. runner' = [runner EXCEPT ![r] = q]
  BY DEF Take
<1>2. q.completed = mission.completed /\ q.outcome = [s \in Step |-> "none"]
  BY DEF Untouched
<1>3. mission'.completed = mission.completed
  BY DEF Take, SetMission, Update, TypeOK, MissionRecord
<1>4. mission.completed \subseteq Step
  BY DEF TypeOK, MissionRecord
<1>5. \A s \in mission.completed : Has(s)'
  BY <1>4, HasKept DEF Evidence
<1> HIDE DEF q
<1>6. /\ \A s \in runner'[r].completed : Has(s)'
      /\ \A s \in Step : runner'[r].outcome[s] = "none"
  BY <1>1, <1>2, <1>5 DEF TypeOK
<1>7. ASSUME NEW p \in Runner \ {r}
      PROVE  /\ \A t \in runner'[p].completed : Has(t)'
             /\ \A t \in Step :
                  /\ runner'[p].outcome[t] = "passed" => Has(t)'
                  /\ runner'[p].outcome[t] \in {"begun", "sent"} =>
                       runner'[p].attempts[t] \in 1 .. Attempts
  <2>1. runner'[p] = runner[p] /\ runner[p].completed \subseteq Step
    BY <1>1 DEF TypeOK, RunnerRecord
  <2> QED
    BY <2>1, HasKept DEF Evidence
<1> QED
  BY <1>3, <1>5, <1>6, <1>7 DEF Evidence

\* The steps that end an invocation.
LEMMA EndKeepsEvidence ==
    ASSUME TypeOK, Evidence, Kept, NEW r \in Runner, SwitchOff(r),
           mission'.completed \subseteq mission.completed \cup Completed(r)
    PROVE  Evidence'
<1>1. \A p \in Runner : runner'[p] = runner[p] \/ runner'[p] = Off
  BY DEF SwitchOff, TypeOK
<1> QED
  BY <1>1, EvidenceKept

LEMMA SaveCompletes ==
    ASSUME TypeOK, NEW r \in Runner, NEW status, NEW recovery, NEW owner,
           Save(r, status, recovery, owner)
    PROVE  mission'.completed = Completed(r)
BY DEF Save, SetMission, Update, TypeOK, MissionRecord

LEMMA RunnerKeepsEvidence ==
    ASSUME TypeOK, Begins, Evidence, Kept, NEW r \in Runner, RunnerStep(r)
    PROVE  Evidence'
<1>1. CASE Take(r)
  BY <1>1, TakeKeepsEvidence
<1>2. CASE Reconcile(r)
  BY <1>2, ReconcileKeepsEvidence
<1>3. CASE Begin(r)
  BY <1>3, BeginKeepsEvidence
<1>4. CASE Enqueue(r)
  BY <1>4, EnqueueKeepsEvidence
<1>5. CASE Look(r)
  BY <1>5, LookKeepsEvidence
<1>6. CASE Park(r) \/ Retry(r) \/ GiveUp(r) \/ Continue(r)
  <2>1. SwitchOff(r) /\ \E status, recovery, owner : Save(r, status, recovery, owner)
    BY <1>6 DEF Park, Retry, GiveUp, Continue
  <2> QED
    BY <2>1, SaveCompletes, EndKeepsEvidence
<1>7. CASE Replan(r)
  <2>1. mission'.completed = Completed(r)
    BY <1>7 DEF Replan, SetMission, Update, TypeOK, MissionRecord
  <2> QED
    BY <1>7, <2>1, EndKeepsEvidence DEF Replan
<1>8. CASE Throw(r)
  <2>1. mission'.completed = mission.completed
    BY <1>8 DEF Throw, SetMission, Update, TypeOK, MissionRecord
  <2> QED
    BY <1>8, <2>1, EndKeepsEvidence DEF Throw
<1>9. CASE Cut(r)
  BY <1>9, EndKeepsEvidence DEF Cut
<1> QED
  BY <1>1, <1>2, <1>3, <1>4, <1>5, <1>6, <1>7, <1>8, <1>9 DEF RunnerStep

LEMMA NextKeepsEvidence ==
    ASSUME Typed, Begins, Evidence, [Next]_vars
    PROVE  Evidence'
<1>1. Kept /\ TypeOK
  BY NextKept DEF Typed
<1>2. ASSUME NEW r \in Runner, RunnerStep(r) PROVE Evidence'
  BY <1>1, <1>2, RunnerKeepsEvidence
<1>3. ASSUME UNCHANGED runner, mission'.completed \subseteq mission.completed
      PROVE  Evidence'
  BY <1>1, <1>3, EvidenceKept
<1>4. ASSUME NEW d \in Device, AgentStep(d) PROVE Evidence'
  <2>1. UNCHANGED runner
    BY <1>4 DEF AgentStep, Claim, Start, Reject, Monitor, Abort, Execute, Report,
                Drop, Heartbeat
  <2>2. mission'.completed = mission.completed
    BY <1>1, <1>4 DEF AgentStep, Claim, Start, Reject, Monitor, Abort, Execute, Report,
                Drop, Heartbeat, Update, Resumed, TypeOK, MissionRecord
  <2> QED
    BY <1>3, <2>1, <2>2
<1>5. CASE \/ \E j \in Job : JobLeaseExpires(j)
           \/ Watchdog \/ MissionLeaseExpires \/ Decide
  <2>1. UNCHANGED runner /\ mission'.completed = mission.completed
    BY <1>1, <1>5 DEF JobLeaseExpires, Watchdog, MissionLeaseExpires, Decide,
                      SetMission, Update, TypeOK, MissionRecord
  <2> QED
    BY <1>3, <2>1
<1>6. CASE RecoverStale
  <2>1. UNCHANGED runner /\ mission'.completed \in {mission.completed, {}}
    BY <1>1, <1>6 DEF RecoverStale, SetMission, Update, TypeOK, MissionRecord
  <2> QED
    BY <1>3, <2>1
<1>7. CASE UNCHANGED vars
  BY <1>3, <1>7 DEF vars
<1> QED
  BY <1>2, <1>4, <1>5, <1>6, <1>7 DEF Next

LEMMA InitEvidence == Init => Evidence
BY DEF Init, Evidence, Off, Untouched

\* A step counts as completed only when a job of that step has succeeded and
\* was executed, whoever recorded it and however stale its memory was.
THEOREM CompletionIsProved == Spec => []CompletionHasEvidence
<1>1. Typed /\ Begins /\ Evidence /\ [Next]_vars => Typed' /\ Begins' /\ Evidence'
  BY NextTyped, NextKeepsBegins, NextKeepsEvidence
<1>2. Evidence => CompletionHasEvidence
  BY DEF Evidence, Has, CompletionHasEvidence
<1> QED
  BY <1>1, <1>2, InitTyped, InitBegins, InitEvidence, PTL DEF Spec

=============================================================================
