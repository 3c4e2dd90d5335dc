--------------------------- MODULE HumanGateProofs ---------------------------
(***************************************************************************)
(* Theorems about the human gates, for any number of steps, operations,    *)
(* plans and runner invocations, with one step or two in a batch: nothing  *)
(* protected is executed without an approval of exactly this action, and   *)
(* nothing that asks for a person's word is closed without it, whichever   *)
(* isolates the invocations share; and, when no two of them share one, no  *)
(* protected model call is executed after a refusal.                       *)
(***************************************************************************)
EXTENDS HumanGate, TLAPS

\* A runner past Prepare has a plan.
Planned == \A r \in Runner : runner[r].phase \in {"batch", "closing"} => runner[r].plan \in Plan

Typed == TypeOK /\ Planned

\* What a step of the system may do to the row and the runners' memories.
RowsTyped == mission' \in MissionRecord /\ runner' \in [Runner -> RunnerRecord]

-----------------------------------------------------------------------------
(***************************************************************************)
(* Types                                                                   *)
(***************************************************************************)

LEMMA GateTyped ==
    /\ NoGate \in GateRecord
    /\ \A of \in Hash \cup {Final, None}, status \in {"pending", "refused", "completed", "confirmed"} :
          Gate(of, status) \in GateRecord
BY DEF NoGate, Gate, GateRecord

LEMMA OffTyped == Off \in RunnerRecord
BY GateTyped DEF Off, RunnerRecord, Untouched

LEMMA SwitchOffTyped ==
    ASSUME TypeOK, NEW r \in Runner, SwitchOff(r)
    PROVE  runner' \in [Runner -> RunnerRecord]
BY OffTyped DEF TypeOK, SwitchOff

LEMMA SaveTyped ==
    ASSUME TypeOK, NEW r \in Runner, NEW status \in Statuses,
           NEW owner \in Worker \cup {None}, NEW plan \in Plan \cup {None},
           NEW done \in SUBSET Step, NEW gate \in GateRecord,
           Save(r, status, owner, plan, done, gate)
    PROVE  mission' \in MissionRecord
BY DEF Save, MissionRecord

\* What a runner holds, and what it makes of it.
LEMMA HeldTyped ==
    ASSUME TypeOK, NEW r \in Runner
    PROVE  /\ runner[r] \in RunnerRecord
           /\ runner[r].plan \in Plan \cup {None}
           /\ runner[r].gate \in GateRecord
           /\ runner[r].done \in SUBSET Step
           /\ Batch(r) \subseteq Step
           /\ Done(r) \in SUBSET Step
           /\ V[r] \in Worker
           /\ V[r] # None
<1>1. runner[r] \in RunnerRecord
  BY DEF TypeOK
<1>2. Batch(r) \subseteq Step
  BY DEF Batch
<1>3. Passed(r) \subseteq Step
  BY <1>2 DEF Passed
<1>4. Done(r) \in SUBSET Step
  BY <1>1, <1>3 DEF Done, RunnerRecord
<1>5. V[r] \in Worker /\ V[r] # None
  BY GateAssumption
<1> QED
  BY <1>1, <1>2, <1>4, <1>5 DEF RunnerRecord

LEMMA ConsumedTyped ==
    ASSUME TypeOK, NEW r \in Runner
    PROVE  /\ Consumed(r) \in GateRecord
           /\ Consumed(r) = runner[r].gate \/ Consumed(r).status # "approved"
<1>1. runner[r].gate \in GateRecord
  BY HeldTyped
<1>2. runner[r].gate.of \in Hash \cup {Final, None}
  BY <1>1 DEF GateRecord
<1>3. Gate(runner[r].gate.of, "completed") \in GateRecord
  BY <1>2, GateTyped
<1>4. Gate(runner[r].gate.of, "completed").status = "completed"
  BY DEF Gate
<1>5. Consumed(r) \in {runner[r].gate, Gate(runner[r].gate.of, "completed")}
  BY DEF Consumed
<1> QED
  BY <1>1, <1>3, <1>4, <1>5

LEMMA ActionHashTyped ==
    ASSUME Typed, NEW r \in Runner, runner[r].phase = "batch", NEW s \in Step
    PROVE  ActionHash(r, s) \in Hash
<1>1. runner[r].plan \in [Step -> Operation]
  BY GateAssumption DEF Typed, Planned
<1> QED
  BY <1>1 DEF ActionHash, Hash

LEMMA TakeTyped ==
    ASSUME Typed, NEW r \in Runner, Take(r)
    PROVE  RowsTyped /\ Planned'
<1>1. mission' \in MissionRecord
  BY HeldTyped DEF Typed, TypeOK, Take, MissionRecord, Statuses
<1>2. [phase |-> "claimed", plan |-> mission.plan, done |-> mission.done,
       gate |-> mission.gate, outcome |-> Untouched] \in RunnerRecord
  BY DEF Typed, TypeOK, MissionRecord, RunnerRecord, Untouched
<1>3. runner' \in [Runner -> RunnerRecord]
  BY <1>2 DEF Take, Typed, TypeOK
<1>4. Planned'
  BY DEF Take, Typed, TypeOK, Planned
<1> QED
  BY <1>1, <1>3, <1>4 DEF RowsTyped

LEMMA PrepareTyped ==
    ASSUME Typed, NEW r \in Runner, Prepare(r)
    PROVE  RowsTyped /\ Planned'
<1>1. PICK plan \in IF runner[r].plan = None THEN Plan ELSE {runner[r].plan} :
        /\ Save(r, "running", V[r], plan, runner[r].done, runner[r].gate)
        /\ runner' = [runner EXCEPT ![r] = [@ EXCEPT !.plan = plan,
              !.phase = IF runner[r].done = Step THEN "closing" ELSE "batch"]]
  BY DEF Prepare
<1>2. TypeOK
  BY DEF Typed
<1>3. plan \in Plan
  BY <1>2, HeldTyped
<1>4. mission' \in MissionRecord
  BY <1>1, <1>2, <1>3, SaveTyped, HeldTyped DEF Statuses
<1>5. [runner[r] EXCEPT !.plan = plan,
          !.phase = IF runner[r].done = Step THEN "closing" ELSE "batch"] \in RunnerRecord
  BY <1>2, <1>3, HeldTyped DEF RunnerRecord
<1>6. runner' \in [Runner -> RunnerRecord]
  BY <1>1, <1>2, <1>5 DEF TypeOK
<1>7. runner'[r].plan = plan
  BY <1>1, <1>2, HeldTyped DEF TypeOK, RunnerRecord
<1>8. \A q \in Runner : q # r => runner'[q] = runner[q]
  BY <1>1, <1>2 DEF TypeOK
<1>9. Planned'
  BY <1>3, <1>7, <1>8 DEF Typed, Planned
<1> QED
  BY <1>4, <1>6, <1>9 DEF RowsTyped

\* A runner that ends leaves the others planned.
LEMMA EndPlanned ==
    ASSUME Typed, NEW r \in Runner, SwitchOff(r)
    PROVE  Planned'
BY DEF Typed, TypeOK, Planned, SwitchOff, Off

LEMMA AskTyped ==
    ASSUME Typed, NEW r \in Runner, Ask(r)
    PROVE  RowsTyped /\ Planned'
<1>1. TypeOK
  BY DEF Typed
<1>2. PICK s \in Batch(r) :
        Save(r, "paused", None, runner[r].plan, runner[r].done, Pending(ActionHash(r, s)))
  BY DEF Ask
<1>3. ActionHash(r, s) \in Hash
  BY <1>1, ActionHashTyped, HeldTyped DEF Ask
<1>4. Pending(ActionHash(r, s)) \in GateRecord
  BY <1>3, GateTyped DEF Pending
<1>5. mission' \in MissionRecord
  BY <1>1, <1>2, <1>4, SaveTyped, HeldTyped DEF Statuses
<1> QED
  BY <1>1, <1>5, SwitchOffTyped, EndPlanned DEF Ask, RowsTyped

\* The outcome of s in r's memory becomes o, and nothing else changes there.
Outcomes == {"begun", "passed", "failed", "denied"}
Becomes(r, s, o) == runner' = [runner EXCEPT ![r] = [@ EXCEPT !.outcome[s] = o]]

LEMMA OutcomeTyped ==
    ASSUME TypeOK, NEW r \in Runner, NEW s \in Step, NEW o \in Outcomes, Becomes(r, s, o)
    PROVE  /\ runner' \in [Runner -> RunnerRecord]
           /\ \A q \in Runner : /\ runner'[q].phase = runner[q].phase
                                /\ runner'[q].plan = runner[q].plan
                                /\ runner'[q].gate = runner[q].gate
           /\ \A q \in Runner : q # r => runner'[q] = runner[q]
           /\ \A t \in Step : runner'[r].outcome[t] = IF t = s THEN o
                                                      ELSE runner[r].outcome[t]
<1>1. runner[r] \in RunnerRecord
  BY HeldTyped
<1>2. [runner[r] EXCEPT !.outcome[s] = o] \in RunnerRecord
  BY <1>1 DEF RunnerRecord, Outcomes
<1>3. runner'[r] = [runner[r] EXCEPT !.outcome[s] = o]
  BY DEF TypeOK, Becomes
<1>4. \A q \in Runner : q # r => runner'[q] = runner[q]
  BY DEF TypeOK, Becomes
<1>5. runner' \in [Runner -> RunnerRecord]
  BY <1>2 DEF TypeOK, Becomes
<1>6. /\ runner'[r].phase = runner[r].phase
      /\ runner'[r].plan = runner[r].plan
      /\ runner'[r].gate = runner[r].gate
      /\ \A t \in Step : runner'[r].outcome[t] = IF t = s THEN o ELSE runner[r].outcome[t]
  BY <1>1, <1>3 DEF RunnerRecord
<1> QED
  BY <1>4, <1>5, <1>6

LEMMA BeginTyped ==
    ASSUME Typed, NEW r \in Runner, Begin(r)
    PROVE  RowsTyped /\ Planned'
<1>1. TypeOK
  BY DEF Typed
<1>2. PICK s \in Batch(r) :
        /\ Save(r, "running", V[r], runner[r].plan, runner[r].done, runner[r].gate)
        /\ Becomes(r, s, "begun")
  BY DEF Begin, Becomes
<1>3. mission' \in MissionRecord
  BY <1>1, <1>2, SaveTyped, HeldTyped DEF Statuses
<1>4. /\ runner' \in [Runner -> RunnerRecord]
      /\ \A q \in Runner : runner'[q].phase = runner[q].phase /\ runner'[q].plan = runner[q].plan
  BY <1>1, <1>2, HeldTyped, OutcomeTyped DEF Outcomes
<1> QED
  BY <1>3, <1>4 DEF RowsTyped, Typed, Planned

LEMMA ExecuteTyped ==
    ASSUME Typed, NEW r \in Runner, Execute(r)
    PROVE  RowsTyped /\ Planned'
<1>1. TypeOK
  BY DEF Typed
<1>2. PICK s \in Batch(r), o \in Outcomes : Becomes(r, s, o)
  BY DEF Execute, Becomes, Outcomes
<1>3. /\ runner' \in [Runner -> RunnerRecord]
      /\ \A q \in Runner : runner'[q].phase = runner[q].phase /\ runner'[q].plan = runner[q].plan
  BY <1>1, <1>2, HeldTyped, OutcomeTyped
<1>4. mission' \in MissionRecord
  BY <1>1 DEF Execute, TypeOK
<1> QED
  BY <1>3, <1>4 DEF RowsTyped, Typed, Planned

LEMMA FailedTyped ==
    ASSUME Typed, NEW r \in Runner, StepFailed(r) \/ PermissionDenied(r)
    PROVE  RowsTyped /\ Planned'
<1>1. TypeOK
  BY DEF Typed
<1>2. Pending(None) \in GateRecord
  BY GateTyped DEF Pending
<1>3. PICK status \in Statuses, plan \in Plan \cup {None},
           gate \in {Consumed(r), Pending(None)} :
        Save(r, status, None, plan, Done(r), gate)
  <2>1. CASE StepFailed(r)
    BY <1>1, <2>1, HeldTyped DEF StepFailed, Statuses
  <2>2. CASE PermissionDenied(r)
    BY <1>1, <2>2, HeldTyped DEF PermissionDenied, Statuses
  <2> QED
    BY <2>1, <2>2
<1>4. gate \in GateRecord
  BY <1>1, <1>2, ConsumedTyped
<1>5. mission' \in MissionRecord
  BY <1>1, <1>3, <1>4, SaveTyped, HeldTyped
<1>6. SwitchOff(r)
  BY DEF StepFailed, PermissionDenied
<1> QED
  BY <1>1, <1>5, <1>6, SwitchOffTyped, EndPlanned DEF RowsTyped

LEMMA BatchPassedTyped ==
    ASSUME Typed, NEW r \in Runner, BatchPassed(r)
    PROVE  RowsTyped /\ Planned'
<1>1. TypeOK
  BY DEF Typed
<1>2. CASE SwitchOff(r) /\ Save(r, "running", None, runner[r].plan, Done(r), Consumed(r))
  <2>1. mission' \in MissionRecord
    BY <1>1, <1>2, SaveTyped, HeldTyped, ConsumedTyped DEF Statuses
  <2> QED
    BY <1>1, <1>2, <2>1, SwitchOffTyped, EndPlanned DEF RowsTyped
<1>3. CASE /\ Save(r, "running", V[r], runner[r].plan, Done(r), Consumed(r))
           /\ runner' = [runner EXCEPT ![r] = [@ EXCEPT !.phase = "closing",
                            !.done = Done(r), !.gate = Consumed(r)]]
  <2>1. mission' \in MissionRecord
    BY <1>1, <1>3, SaveTyped, HeldTyped, ConsumedTyped DEF Statuses
  <2> DEFINE next == [runner[r] EXCEPT !.phase = "closing", !.done = Done(r),
                                       !.gate = Consumed(r)]
  <2>2. next \in RunnerRecord /\ next.plan = runner[r].plan
    BY <1>1, HeldTyped, ConsumedTyped DEF RunnerRecord
  <2>3. runner' = [runner EXCEPT ![r] = next]
    BY <1>3
  <2>4. runner[r].plan \in Plan
    BY DEF Typed, Planned, BatchPassed, Settled
  <2> HIDE DEF next
  <2>5. runner' \in [Runner -> RunnerRecord]
    BY <1>1, <2>2, <2>3 DEF TypeOK
  <2>6. Planned'
    BY <1>1, <2>2, <2>3, <2>4 DEF TypeOK, Typed, Planned
  <2> QED
    BY <2>1, <2>5, <2>6 DEF RowsTyped
<1> QED
  BY <1>2, <1>3 DEF BatchPassed

LEMMA CloseTyped ==
    ASSUME Typed, NEW r \in Runner, Close(r)
    PROVE  RowsTyped /\ Planned'
<1>1. TypeOK
  BY DEF Typed
<1>2. Pending(Final) \in GateRecord
  BY GateTyped DEF Pending
<1>3. ASSUME Save(r, "paused", None, runner[r].plan, runner[r].done, Pending(Final))
      PROVE  mission' \in MissionRecord
  BY <1>1, <1>2, <1>3, SaveTyped, HeldTyped DEF Statuses
<1>4. ASSUME Finalize(r)
      PROVE  mission' \in MissionRecord
  BY <1>1, <1>4 DEF Finalize, TypeOK, MissionRecord, Statuses
<1>5. mission' \in MissionRecord
  BY <1>3, <1>4 DEF Close
<1> QED
  BY <1>1, <1>5, SwitchOffTyped, EndPlanned DEF Close, RowsTyped

LEMMA DisturbanceTyped ==
    ASSUME Typed, Disturbance
    PROVE  RowsTyped /\ Planned'
<1>1. TypeOK
  BY DEF Typed
<1>2. ASSUME NEW r \in Runner, Throw(r) \/ Cut(r) PROVE RowsTyped /\ Planned'
  <2>1. mission' \in MissionRecord
    BY <1>1, <1>2 DEF Throw, Cut, TypeOK, MissionRecord, Statuses
  <2>2. SwitchOff(r)
    BY <1>2 DEF Throw, Cut
  <2> QED
    BY <1>1, <2>1, <2>2, SwitchOffTyped, EndPlanned DEF RowsTyped
<1>3. CASE LeaseExpires \/ RecoverStale
  <2>1. mission' \in MissionRecord
    BY <1>1, <1>3 DEF LeaseExpires, RecoverStale, TypeOK, MissionRecord, Statuses
  <2>2. UNCHANGED runner
    BY <1>3 DEF LeaseExpires, RecoverStale
  <2> QED
    BY <1>1, <2>1, <2>2 DEF RowsTyped, TypeOK, Typed, Planned
<1> QED
  BY <1>2, <1>3 DEF Disturbance

\* What people do to the row; they never touch a runner's memory.
People == Approve \/ Refuse \/ AppReads \/ AppWrites \/ Confirm \/ Cancel

LEMMA FreshTyped ==
    ASSUME Token \ Remembered # {}
    PROVE  Fresh \in Token /\ Fresh \notin Remembered
BY DEF Fresh

LEMMA PeopleTyped ==
    ASSUME Typed, People
    PROVE  /\ mission' \in MissionRecord
           /\ UNCHANGED runner
           /\ app' \in MissionRecord \cup {None}
           /\ verified' \in BOOLEAN
           /\ approved' \subseteq Hash
           /\ refused' \subseteq Hash
<1>1. TypeOK
  BY DEF Typed
<1>2. mission.gate \in GateRecord /\ mission.gate.of \in Hash \cup {Final, None}
  BY <1>1 DEF TypeOK, MissionRecord, GateRecord
<1>3. CASE Approve
  <2>1. Fresh \in Token
    BY <1>3, FreshTyped DEF Approve
  <2>2. [of |-> mission.gate.of, token |-> Fresh, status |-> "approved"] \in GateRecord
    BY <1>2, <2>1, GateAssumption DEF GateRecord
  <2>3. mission' \in MissionRecord
    BY <1>1, <1>3, <2>2 DEF Approve, TypeOK, MissionRecord, Statuses
  <2> QED
    BY <1>1, <1>3, <2>3 DEF Approve, TypeOK
<1>4. CASE Refuse
  <2>1. Gate(mission.gate.of, "refused") \in GateRecord
    BY <1>2, GateTyped
  <2>2. mission' \in MissionRecord
    BY <1>1, <1>4, <2>1 DEF Refuse, TypeOK, MissionRecord, Statuses
  <2> QED
    BY <1>1, <1>4, <2>2 DEF Refuse, TypeOK
<1>5. CASE AppReads
  <2>1. [mission EXCEPT !.status = "running", !.owner = None] \in MissionRecord
    BY <1>1 DEF TypeOK, MissionRecord, Statuses
  <2> QED
    BY <1>1, <1>5, <2>1 DEF AppReads, TypeOK, answers
<1>6. CASE AppWrites
  <2>1. app \in MissionRecord
    BY <1>1, <1>6 DEF AppWrites, TypeOK
  <2>2. Gate(app.gate.of, "confirmed") \in GateRecord
    BY <2>1, GateTyped DEF MissionRecord, GateRecord
  <2>3. mission' \in MissionRecord
    BY <1>1, <1>6, <2>1, <2>2 DEF AppWrites, TypeOK, MissionRecord, Statuses
  <2> QED
    BY <1>1, <1>6, <2>3 DEF AppWrites, TypeOK, answers
<1>7. CASE Confirm \/ Cancel
  <2>1. Gate(mission.gate.of, "confirmed") \in GateRecord
    BY <1>2, GateTyped
  <2>2. mission' \in MissionRecord
    BY <1>1, <1>7, <2>1 DEF Confirm, Cancel, TypeOK, MissionRecord, Statuses
  <2> QED
    BY <1>1, <1>7, <2>2 DEF Confirm, Cancel, TypeOK, answers
<1> QED
  BY <1>3, <1>4, <1>5, <1>6, <1>7 DEF People

LEMMA InitTyped == Init => Typed
<1> SUFFICES ASSUME Init PROVE Typed
  OBVIOUS
<1>1. mission \in MissionRecord
  BY GateTyped DEF Init, MissionRecord, Statuses
<1>2. runner \in [Runner -> RunnerRecord] /\ Planned
  BY OffTyped DEF Init, Planned, Off
<1>3. app = None /\ verified \in BOOLEAN /\ approved = {} /\ refused = {}
  BY DEF Init
<1> QED
  BY <1>1, <1>2, <1>3 DEF Typed, TypeOK

LEMMA NextTyped == Typed /\ [Next]_vars => Typed'
<1> SUFFICES ASSUME Typed, [Next]_vars PROVE Typed'
  OBVIOUS
<1>1. ASSUME NEW r \in Runner, RunnerStep(r) PROVE Typed'
  <2>1. RowsTyped /\ Planned'
    BY <1>1, TakeTyped, PrepareTyped, AskTyped, BeginTyped, ExecuteTyped, FailedTyped,
       BatchPassedTyped, CloseTyped DEF RunnerStep
  <2>2. UNCHANGED <<app, verified, approved, refused>>
    BY <1>1 DEF RunnerStep, Take, Prepare, Ask, Begin, Execute, StepFailed,
                PermissionDenied, BatchPassed, Close, answers
  <2> QED
    BY <2>1, <2>2 DEF Typed, TypeOK, RowsTyped
<1>2. CASE Disturbance
  <2>1. UNCHANGED <<app, verified, approved, refused>>
    BY <1>2 DEF Disturbance, Throw, Cut, LeaseExpires, RecoverStale, answers
  <2> QED
    BY <1>2, <2>1, DisturbanceTyped DEF Typed, TypeOK, RowsTyped
<1>3. CASE People
  BY <1>3, PeopleTyped DEF Typed, TypeOK, Planned
<1>4. CASE UNCHANGED vars
  BY <1>4 DEF vars, answers, Typed, TypeOK, Planned
<1> QED
  BY <1>1, <1>2, <1>3, <1>4 DEF Next, People

\* The row, the memories and the answers are what their types say.
THEOREM GateTypes == Spec => []TypeOK
<1>1. Typed => TypeOK
  BY DEF Typed
<1> QED
  BY <1>1, InitTyped, NextTyped, PTL DEF Spec

-----------------------------------------------------------------------------
(***************************************************************************)
(* Nothing runs unapproved                                                 *)
(***************************************************************************)

\* An approved gate, in the row or in a memory, is an approval somebody gave, and
\* so is one that has been consumed.
Granted == {"approved", "completed"}
Genuine(gate) == gate.status \in Granted => gate.of \in approved

Approvals ==
    /\ Genuine(mission.gate)
    /\ \A r \in Runner : Genuine(runner[r].gate)

\* A runner begins nothing before its batch, and in it only what may run.
Begins ==
    \A r \in Runner, s \in Step :
        /\ runner[r].phase = "claimed" => runner[r].outcome[s] = "none"
        /\ runner[r].phase = "batch" /\ runner[r].outcome[s] = "begun" => MayRun(r, s)

\* What every action of a runner and every disturbance leaves true.
Sane == Approvals /\ Begins

LEMMA SaveKeepsGate ==
    ASSUME NEW r \in Runner, NEW status, NEW owner, NEW plan, NEW done, NEW gate,
           Save(r, status, owner, plan, done, gate)
    PROVE  mission'.gate = gate /\ mission'.owner = owner /\ mission.owner = V[r]
BY DEF Save

\* A runner that ends, with a row whose gate is genuine.
LEMMA OffSane ==
    ASSUME TypeOK, Sane, NEW r \in Runner, SwitchOff(r), approved' = approved,
           mission'.gate.status \in Granted => mission'.gate.of \in approved
    PROVE  Sane'
<1>1. \A q \in Runner : runner'[q] = IF q = r THEN Off ELSE runner[q]
  BY DEF SwitchOff, TypeOK
<1>2. Off.gate.status = "none" /\ Off.phase = "off"
  BY DEF Off, NoGate
<1>3. Approvals'
  BY <1>1, <1>2 DEF Sane, Approvals, Genuine, Granted
<1>4. Begins'
  BY <1>1, <1>2 DEF Sane, Begins, MayRun, RequiresHumanGate, ActionHash
<1> QED
  BY <1>3, <1>4 DEF Sane

\* What may run depends on a runner's plan and gate.
LEMMA MayRunKept ==
    ASSUME NEW q \in Runner, NEW t \in Step,
           runner'[q].plan = runner[q].plan, runner'[q].gate = runner[q].gate
    PROVE  MayRun(q, t)' <=> MayRun(q, t)
BY DEF MayRun, RequiresHumanGate, ActionHash

\* A step's outcome changes, to begun only if it may run.
LEMMA BeginsKept ==
    ASSUME TypeOK, Begins, NEW r \in Runner, NEW s \in Step, NEW o \in Outcomes,
           Becomes(r, s, o), runner[r].phase = "batch", o = "begun" => MayRun(r, s)
    PROVE  Begins'
<1>0. /\ \A q \in Runner : /\ runner'[q].phase = runner[q].phase
                           /\ runner'[q].plan = runner[q].plan
                           /\ runner'[q].gate = runner[q].gate
      /\ \A q \in Runner : q # r => runner'[q] = runner[q]
      /\ \A t \in Step : runner'[r].outcome[t] = IF t = s THEN o ELSE runner[r].outcome[t]
  BY OutcomeTyped
<1> SUFFICES ASSUME NEW q \in Runner, NEW t \in Step
             PROVE  (/\ runner[q].phase = "claimed" => runner[q].outcome[t] = "none"
                     /\ runner[q].phase = "batch" /\ runner[q].outcome[t] = "begun" => MayRun(q, t))'
  BY DEF Begins
<1>1. MayRun(q, t)' <=> MayRun(q, t)
  BY <1>0, MayRunKept
<1>2. CASE q = r /\ t = s
  BY <1>0, <1>1, <1>2
<1>3. CASE ~(q = r /\ t = s)
  <2>1. runner'[q].outcome[t] = runner[q].outcome[t]
    BY <1>0, <1>3
  <2> QED
    BY <1>0, <1>1, <2>1 DEF Begins
<1> QED
  BY <1>2, <1>3

\* The runners' memories are as they were, or end.
LEMMA RunnerKeepsSane ==
    ASSUME Typed, Sane, NEW r \in Runner, RunnerStep(r)
    PROVE  Sane'
<1> USE DEF Typed
<1>0. approved' = approved
  BY DEF RunnerStep, Take, Prepare, Ask, Begin, Execute, StepFailed,
         PermissionDenied, BatchPassed, Close, answers
<1>a. runner[r].gate.status \in Granted => runner[r].gate.of \in approved
  BY DEF Sane, Approvals, Genuine
<1>b. Consumed(r).status \in Granted => Consumed(r).of \in approved
  <2>1. CASE Consumed(r) = runner[r].gate
    BY <1>a, <2>1
  <2>2. CASE Consumed(r) = Gate(runner[r].gate.of, "completed") /\ runner[r].gate.status = "approved"
    BY <1>a, <2>2 DEF Gate, Granted
  <2> QED
    BY <2>1, <2>2 DEF Consumed
<1>c. \A of, status : Gate(of, status).status = status
  BY DEF Gate
<1>1. CASE Take(r)
  <2>1. mission'.gate = mission.gate
    BY <1>1 DEF Take, TypeOK, MissionRecord
  <2>2. \A q \in Runner : q # r => runner'[q] = runner[q]
    BY <1>1 DEF Take, TypeOK
  <2>3. /\ runner'[r].phase = "claimed"
        /\ runner'[r].gate = mission.gate
        /\ runner'[r].outcome = Untouched
    BY <1>1 DEF Take, TypeOK
  <2>4. Approvals'
    BY <1>0, <2>1, <2>2, <2>3 DEF Sane, Approvals, Genuine
  <2>5. Begins'
    BY <2>2, <2>3 DEF Sane, Begins, MayRun, RequiresHumanGate, ActionHash, Untouched
  <2> QED
    BY <2>4, <2>5 DEF Sane
<1>2. CASE Prepare(r)
  <2>1. PICK plan \in IF runner[r].plan = None THEN Plan ELSE {runner[r].plan} :
          /\ Save(r, "running", V[r], plan, runner[r].done, runner[r].gate)
          /\ runner' = [runner EXCEPT ![r] = [@ EXCEPT !.plan = plan,
                !.phase = IF runner[r].done = Step THEN "closing" ELSE "batch"]]
    BY <1>2 DEF Prepare
  <2>2. mission'.gate = runner[r].gate
    BY <2>1, SaveKeepsGate
  <2>3. \A q \in Runner : q # r => runner'[q] = runner[q]
    BY <2>1 DEF TypeOK
  <2>4. /\ runner'[r].gate = runner[r].gate
        /\ runner'[r].outcome = runner[r].outcome
        /\ runner'[r].phase # "claimed"
    BY <2>1, HeldTyped DEF TypeOK, RunnerRecord
  <2>5. Approvals'
    BY <1>0, <1>a, <2>2, <2>3, <2>4 DEF Sane, Approvals, Genuine
  <2>6. \A s \in Step : runner[r].outcome[s] = "none"
    BY <1>2 DEF Prepare, Sane, Begins
  <2>7. Begins'
    BY <2>3, <2>4, <2>6 DEF Sane, Begins, MayRun, RequiresHumanGate, ActionHash
  <2> QED
    BY <2>5, <2>7 DEF Sane
<1>3. CASE Ask(r)
  <2>1. PICK s \in Batch(r) :
          Save(r, "paused", None, runner[r].plan, runner[r].done, Pending(ActionHash(r, s)))
    BY <1>3 DEF Ask
  <2>2. mission'.gate.status = "pending"
    BY <1>c, <2>1, SaveKeepsGate DEF Pending
  <2> QED
    BY <1>0, <1>3, <2>2, OffSane DEF Ask, Granted
<1>4. CASE Begin(r)
  <2>1. PICK s \in Batch(r) :
          /\ Save(r, "running", V[r], runner[r].plan, runner[r].done, runner[r].gate)
          /\ Becomes(r, s, "begun")
    BY <1>4 DEF Begin, Becomes
  <2>2. s \in Step /\ "begun" \in Outcomes
    BY HeldTyped DEF Outcomes
  <2>3. mission'.gate = runner[r].gate
    BY <2>1, SaveKeepsGate
  <2>4. \A q \in Runner : runner'[q].gate = runner[q].gate
    BY <2>1, <2>2, OutcomeTyped
  <2>5. Approvals'
    BY <1>0, <1>a, <2>3, <2>4 DEF Sane, Approvals, Genuine
  <2>6. runner[r].phase = "batch" /\ MayRun(r, s)
    BY <1>4 DEF Begin
  <2>7. Begins'
    BY <2>1, <2>2, <2>6, BeginsKept DEF Sane
  <2> QED
    BY <2>5, <2>7 DEF Sane
<1>5. CASE Execute(r)
  <2>1. PICK s \in Batch(r), o \in Outcomes \ {"begun"} : Becomes(r, s, o)
    BY <1>5 DEF Execute, Becomes, Outcomes
  <2>2. s \in Step /\ o \in Outcomes /\ o # "begun"
    BY HeldTyped
  <2>3. \A q \in Runner : runner'[q].gate = runner[q].gate
    BY <2>1, <2>2, OutcomeTyped
  <2>4. Approvals'
    BY <1>0, <1>5, <2>3 DEF Execute, Sane, Approvals, Genuine
  <2>5. runner[r].phase = "batch"
    BY <1>5 DEF Execute
  <2>6. Begins'
    BY <2>1, <2>2, <2>5, BeginsKept DEF Sane
  <2> QED
    BY <2>4, <2>6 DEF Sane
<1>6. CASE StepFailed(r) \/ PermissionDenied(r)
  <2>1. mission'.gate = Consumed(r) \/ mission'.gate = Pending(None)
    BY <1>6, SaveKeepsGate DEF StepFailed, PermissionDenied
  <2>2. mission'.gate.status \in Granted => mission'.gate.of \in approved
    BY <1>b, <1>c, <2>1 DEF Pending, Granted
  <2> QED
    BY <1>0, <1>6, <2>2, OffSane DEF StepFailed, PermissionDenied
<1>7. CASE BatchPassed(r)
  <2>1. mission'.gate = Consumed(r)
    BY <1>7, SaveKeepsGate DEF BatchPassed
  <2>2. CASE SwitchOff(r)
    BY <1>0, <1>b, <2>1, <2>2, OffSane
  <2>3. CASE runner' = [runner EXCEPT ![r] = [@ EXCEPT !.phase = "closing",
                            !.done = Done(r), !.gate = Consumed(r)]]
    <3>1. \A q \in Runner : q # r => runner'[q] = runner[q]
      BY <2>3 DEF TypeOK
    <3>2. runner'[r].phase = "closing" /\ runner'[r].gate = Consumed(r)
      BY <2>3, HeldTyped DEF TypeOK, RunnerRecord
    <3>3. Approvals'
      BY <1>0, <1>b, <2>1, <3>1, <3>2 DEF Sane, Approvals, Genuine
    <3>4. Begins'
      BY <3>1, <3>2 DEF Sane, Begins, MayRun, RequiresHumanGate, ActionHash
    <3> QED
      BY <3>3, <3>4 DEF Sane
  <2> QED
    BY <1>7, <2>2, <2>3 DEF BatchPassed
<1>8. CASE Close(r)
  <2>1. mission'.gate = mission.gate \/ mission'.gate = Pending(Final)
    BY <1>8, SaveKeepsGate DEF Close, Finalize, TypeOK, MissionRecord
  <2>2. mission'.gate.status \in Granted => mission'.gate.of \in approved
    BY <1>c, <2>1 DEF Pending, Granted, Sane, Approvals, Genuine
  <2> QED
    BY <1>0, <1>8, <2>2, OffSane DEF Close
<1> QED
  BY <1>1, <1>2, <1>3, <1>4, <1>5, <1>6, <1>7, <1>8 DEF RunnerStep

\* A step that touches no memory leaves what is sane so, if the row's gate is genuine.
LEMMA RowSane ==
    ASSUME Sane, UNCHANGED runner, approved \subseteq approved',
           mission'.gate.status \in Granted => mission'.gate.of \in approved'
    PROVE  Sane'
BY DEF Sane, Approvals, Genuine, Begins, MayRun, RequiresHumanGate, ActionHash

LEMMA DisturbanceKeepsSane ==
    ASSUME Typed, Sane, Disturbance
    PROVE  Sane'
<1>1. approved' = approved
  BY DEF Disturbance, Throw, Cut, LeaseExpires, RecoverStale, answers
<1>2. mission'.gate = mission.gate
  BY DEF Disturbance, Throw, Cut, LeaseExpires, RecoverStale, Typed, TypeOK, MissionRecord
<1>3. mission'.gate.status \in Granted => mission'.gate.of \in approved
  BY <1>2 DEF Sane, Approvals, Genuine
<1>4. ASSUME NEW r \in Runner, Throw(r) \/ Cut(r) PROVE Sane'
  BY <1>1, <1>3, <1>4, OffSane DEF Throw, Cut, Typed
<1>5. CASE LeaseExpires \/ RecoverStale
  BY <1>1, <1>3, <1>5, RowSane DEF LeaseExpires, RecoverStale
<1> QED
  BY <1>4, <1>5 DEF Disturbance

LEMMA PeopleKeepSane ==
    ASSUME Typed, Sane, People
    PROVE  Sane'
<1>1. approved \subseteq approved'
  BY DEF People, Approve, Refuse, AppReads, AppWrites, Confirm, Cancel, answers
<1>2. \A of, status : Gate(of, status).status = status
  BY DEF Gate
<1>3. mission'.gate.status \in Granted => mission'.gate.of \in approved'
  <2>1. CASE Approve
    BY <2>1 DEF Approve, Typed, TypeOK, MissionRecord
  <2>2. CASE Refuse \/ Confirm
    <3>1. \E status \in {"refused", "confirmed"} : mission'.gate = Gate(mission.gate.of, status)
      BY <2>2 DEF Refuse, Confirm, Typed, TypeOK, MissionRecord
    <3> QED
      BY <1>2, <3>1 DEF Granted
  <2>3. CASE AppReads \/ Cancel
    <3>1. mission'.gate = mission.gate
      BY <2>3 DEF AppReads, Cancel, Typed, TypeOK, MissionRecord
    <3> QED
      BY <1>1, <3>1 DEF Sane, Approvals, Genuine
  <2>4. CASE AppWrites
    <3>1. app \in MissionRecord
      BY <2>4 DEF AppWrites, Typed, TypeOK
    <3>2. CASE mission' = mission
      BY <1>1, <3>2 DEF Sane, Approvals, Genuine
    <3>3. CASE mission' # mission
      <4>1. mission'.gate = Gate(app.gate.of, "confirmed")
        BY <2>4, <3>1, <3>3 DEF AppWrites, MissionRecord
      <4> QED
        BY <1>2, <4>1 DEF Granted
    <3> QED
      BY <3>2, <3>3
  <2> QED
    BY <2>1, <2>2, <2>3, <2>4 DEF People
<1> QED
  BY <1>1, <1>3, PeopleTyped, RowSane

LEMMA InitSane == Init => Sane
BY DEF Init, Sane, Approvals, Genuine, Granted, Begins, NoGate, Off

LEMMA NextKeepsSane == Typed /\ Sane /\ [Next]_vars => Sane'
<1> SUFFICES ASSUME Typed, Sane, [Next]_vars PROVE Sane'
  OBVIOUS
<1>1. CASE UNCHANGED vars
  BY <1>1, RowSane DEF vars, answers, Sane, Approvals, Genuine
<1> QED
  BY <1>1, RunnerKeepsSane, DisturbanceKeepsSane, PeopleKeepSane DEF Next, People

\* What is executed is a step its runner has begun in its batch.
LEMMA ExecutesBegun ==
    ASSUME Typed, [Next]_vars, NEW r \in Runner, NEW s \in Step, Executes(r, s)
    PROVE  /\ runner[r].phase = "batch"
           /\ Authorized(r, s)
<1> USE DEF Typed
<1>1. /\ runner[r].outcome[s] = "begun"
      /\ runner'[r].outcome[s] \in {"passed", "failed"}
  BY DEF Executes
<1>2. Untouched[s] = "none" /\ Off.outcome[s] = "none"
  BY DEF Untouched, Off
<1>3. ASSUME NEW q \in Runner, SwitchOff(q) PROVE FALSE
  BY <1>1, <1>2, <1>3 DEF SwitchOff, TypeOK
<1>4. ASSUME UNCHANGED runner PROVE FALSE
  BY <1>1, <1>4
<1>5. ASSUME NEW q \in Runner, Take(q) PROVE FALSE
  BY <1>1, <1>2, <1>5 DEF Take, TypeOK
<1>6. ASSUME NEW q \in Runner, Prepare(q) \/ BatchPassed(q) PROVE FALSE
  <2>1. CASE Prepare(q)
    <3>1. PICK plan : runner' = [runner EXCEPT ![q] = [@ EXCEPT !.plan = plan,
                !.phase = IF runner[q].done = Step THEN "closing" ELSE "batch"]]
      BY <2>1 DEF Prepare
    <3>2. runner'[r].outcome = runner[r].outcome
      BY <3>1, HeldTyped DEF TypeOK, RunnerRecord
    <3> QED
      BY <1>1, <3>2
  <2>2. CASE BatchPassed(q) /\ ~SwitchOff(q)
    <3>1. runner' = [runner EXCEPT ![q] = [@ EXCEPT !.phase = "closing",
                            !.done = Done(q), !.gate = Consumed(q)]]
      BY <2>2 DEF BatchPassed
    <3>2. runner'[r].outcome = runner[r].outcome
      BY <3>1, HeldTyped DEF TypeOK, RunnerRecord
    <3> QED
      BY <1>1, <3>2
  <2> QED
    BY <1>3, <1>6, <2>1, <2>2
<1>7. ASSUME NEW q \in Runner, Begin(q) PROVE FALSE
  <2>1. PICK t \in Batch(q) : Becomes(q, t, "begun")
    BY <1>7 DEF Begin, Becomes
  <2>2. t \in Step /\ "begun" \in Outcomes
    BY HeldTyped DEF Outcomes
  <2>3. runner'[r].outcome[s] \in {"begun", runner[r].outcome[s]}
    BY <2>1, <2>2, OutcomeTyped
  <2> QED
    BY <1>1, <2>3
<1>8. ASSUME NEW q \in Runner, Execute(q)
      PROVE  runner[r].phase = "batch" /\ Authorized(r, s)
  <2>1. PICK t \in Batch(q), o \in Outcomes :
          /\ Becomes(q, t, o)
          /\ o # "denied" => Authorized(q, t)
    BY <1>8 DEF Execute, Becomes, Outcomes
  <2>2. t \in Step
    BY HeldTyped
  <2>3. /\ \A p \in Runner : p # q => runner'[p] = runner[p]
        /\ \A u \in Step : runner'[q].outcome[u] = IF u = t THEN o ELSE runner[q].outcome[u]
    BY <2>1, <2>2, OutcomeTyped
  <2>4. q = r /\ t = s
    BY <1>1, <2>3
  <2>5. o # "denied"
    BY <1>1, <2>2, <2>3, <2>4
  <2> QED
    BY <1>8, <2>1, <2>4, <2>5 DEF Execute
<1>9. ASSUME NEW q \in Runner, RunnerStep(q)
      PROVE  runner[r].phase = "batch" /\ Authorized(r, s)
  BY <1>3, <1>5, <1>6, <1>7, <1>8, <1>9 DEF RunnerStep, Ask, StepFailed, PermissionDenied, Close
<1>10. Disturbance => FALSE
  BY <1>3, <1>4 DEF Disturbance, Throw, Cut, LeaseExpires, RecoverStale
<1>11. People => FALSE
  BY <1>4, PeopleTyped
<1> QED
  BY <1>4, <1>9, <1>10, <1>11 DEF Next, People, vars

\* A protected action is executed only with an approval of this very action,
\* however many invocations share an isolate, a lease and a slot.
THEOREM OnlyApprovedRuns == Spec => NothingRunsUnapproved
<1>1. Typed /\ Sane /\ [Next]_vars =>
        [\A r \in Runner, s \in Step :
           Executes(r, s) /\ RequiresHumanGate(r, s) => ActionHash(r, s) \in approved]_vars
  <2> SUFFICES ASSUME Typed, Sane, [Next]_vars, NEW r \in Runner, NEW s \in Step,
                      Executes(r, s), RequiresHumanGate(r, s)
               PROVE  ActionHash(r, s) \in approved
    OBVIOUS
  <2>1. runner[r].phase = "batch" /\ runner[r].outcome[s] = "begun"
    BY ExecutesBegun DEF Executes
  <2>2. MayRun(r, s)
    BY <2>1 DEF Sane, Begins
  <2> QED
    BY <2>2 DEF MayRun, Sane, Approvals, Genuine, Granted
<1> QED
  BY <1>1, InitTyped, InitSane, NextTyped, NextKeepsSane, PTL DEF Spec, NothingRunsUnapproved

-----------------------------------------------------------------------------
(***************************************************************************)
(* A mission is closed on a person's word                                  *)
(***************************************************************************)

\* Only a closing runner lets a mission succeed, and it leaves the gate in the row
\* as it is; what has succeeded keeps its gate.
LEMMA OnlyCloseSucceeds ==
    ASSUME Typed, [Next]_vars, mission'.status = "succeeded"
    PROVE  /\ mission'.gate = mission.gate
           /\ mission.status = "succeeded" \/ \E r \in Runner : Finalize(r)
<1> USE DEF Typed
<1>1. ASSUME NEW r \in Runner, NEW status, status # "succeeded", NEW owner, NEW plan,
             NEW done, NEW gate, Save(r, status, owner, plan, done, gate)
      PROVE  FALSE
  BY <1>1 DEF Save
<1>2. ASSUME NEW r \in Runner, Finalize(r)
      PROVE  mission'.gate = mission.gate
  BY <1>2 DEF Finalize, TypeOK, MissionRecord
<1>3. ASSUME NEW r \in Runner, RunnerStep(r), ~Finalize(r)
      PROVE  mission' = mission
  <2>1. CASE Take(r)
    BY <2>1 DEF Take, TypeOK, MissionRecord
  <2>2. CASE Prepare(r)
    BY <1>1, <2>2 DEF Prepare
  <2>3. CASE Ask(r) \/ Begin(r)
    BY <1>1, <2>3 DEF Ask, Begin
  <2>4. CASE Execute(r)
    BY <2>4 DEF Execute
  <2>5. CASE StepFailed(r)
    BY <1>1, <2>5 DEF StepFailed
  <2>6. CASE PermissionDenied(r) \/ BatchPassed(r)
    BY <1>1, <2>6 DEF PermissionDenied, BatchPassed
  <2>7. CASE Close(r)
    BY <1>1, <1>3, <2>7 DEF Close
  <2> QED
    BY <1>3, <2>1, <2>2, <2>3, <2>4, <2>5, <2>6, <2>7 DEF RunnerStep
<1>4. ASSUME Disturbance
      PROVE  mission'.gate = mission.gate /\ mission.status = "succeeded"
  BY <1>4 DEF Disturbance, Throw, Cut, LeaseExpires, RecoverStale, TypeOK, MissionRecord
<1>5. ASSUME People
      PROVE  mission' = mission
  <2>1. CASE Approve \/ Refuse
    BY <2>1 DEF Approve, Refuse, TypeOK, MissionRecord
  <2>2. CASE AppReads
    BY <2>2 DEF AppReads
  <2>3. CASE AppWrites
    BY <2>3 DEF AppWrites, TypeOK, MissionRecord
  <2>4. CASE Confirm \/ Cancel
    BY <2>4 DEF Confirm, Cancel, TypeOK, MissionRecord
  <2> QED
    BY <1>5, <2>1, <2>2, <2>3, <2>4 DEF People
<1> QED
  BY <1>2, <1>3, <1>4, <1>5 DEF Next, People, vars

\* Answers are only added to.
LEMMA AnswersKept ==
    ASSUME [Next]_vars
    PROVE  (verified => verified') /\ approved \subseteq approved'
<1>1. ASSUME NEW r \in Runner, RunnerStep(r) PROVE UNCHANGED answers
  BY <1>1 DEF RunnerStep, Take, Prepare, Ask, Begin, Execute, StepFailed,
              PermissionDenied, BatchPassed, Close
<1>2. Disturbance => UNCHANGED answers
  BY DEF Disturbance, Throw, Cut, LeaseExpires, RecoverStale
<1>3. Approve \/ Refuse \/ Confirm => (verified => verified') /\ approved \subseteq approved'
  BY DEF Approve, Refuse, Confirm
<1>4. AppReads \/ AppWrites \/ Cancel => UNCHANGED answers
  BY DEF AppReads, AppWrites, Cancel
<1> QED
  BY <1>1, <1>2, <1>3, <1>4 DEF Next, vars, answers

\* A mission that asks for a person's confirmation is closed only on a person's
\* word, and one of source meditation-ia-v1 only if it was confirmed on its device.
THEOREM NothingClosesUnanswered == Spec => []ClosedOnAnswer
<1>1. Init => ClosedOnAnswer
  BY DEF Init, ClosedOnAnswer
<1>2. Typed /\ Sane /\ ClosedOnAnswer /\ [Next]_vars => ClosedOnAnswer'
  <2> SUFFICES ASSUME Typed, Sane, ClosedOnAnswer, [Next]_vars,
                      mission'.status = "succeeded", Confirmed
               PROVE  /\ \/ mission'.gate.status = "confirmed"
                         \/ mission'.gate.status = "completed" /\ mission'.gate.of \in approved'
                      /\ Source = "meditation-ia-v1" => verified'
    BY DEF ClosedOnAnswer
  <2>1. mission'.gate = mission.gate
    BY OnlyCloseSucceeds
  <2>2. (verified => verified') /\ approved \subseteq approved'
    BY AnswersKept
  <2>3. CASE mission.status = "succeeded"
    BY <2>1, <2>2, <2>3 DEF ClosedOnAnswer
  <2>4. ASSUME NEW r \in Runner, Finalize(r)
        PROVE  /\ Completed(mission.gate)
               /\ Source = "meditation-ia-v1" => verified
    BY <2>4 DEF Finalize, GateEnforced
  <2>5. CASE \E r \in Runner : Finalize(r)
    BY <2>1, <2>2, <2>4, <2>5 DEF Completed, Sane, Approvals, Genuine, Granted
  <2> QED
    BY <2>3, <2>5, OnlyCloseSucceeds
<1> QED
  BY <1>1, <1>2, InitTyped, InitSane, NextTyped, NextKeepsSane, PTL DEF Spec

-----------------------------------------------------------------------------
(***************************************************************************)
(* A refusal stops model calls                                             *)
(***************************************************************************)

\* No two invocations share an isolate, whose name is their lease.
OneRunnerPerIsolate == \A r, q \in Runner : V[r] = V[q] => r = q

\* An approval that has not been refused since.
Standing(gate) == gate.status = "approved" => gate.of \notin refused

\* The row's approval stands, and so does the one that the holder of the lease
\* may write back.
Stands ==
    /\ Standing(mission.gate)
    /\ \A r \in Runner : mission.owner = V[r] /\ runner[r].phase # "off"
                            => Standing(runner[r].gate)

\* Who saves has the lease, or gives it back, and remembers what the row says.
LEMMA StandsAfterSave ==
    ASSUME OneRunnerPerIsolate, NEW r \in Runner,
           mission'.owner \in {None, V[r]}, Standing(mission.gate)',
           runner'[r].phase = "off" \/ runner'[r].gate = mission'.gate
    PROVE  Stands'
<1>1. ASSUME NEW q \in Runner, mission'.owner = V[q], runner'[q].phase # "off"
      PROVE  Standing(runner[q].gate)'
  <2>1. V[q] # None
    BY GateAssumption
  <2>2. q = r
    BY <1>1, <2>1 DEF OneRunnerPerIsolate
  <2> QED
    BY <1>1, <2>2 DEF Standing
<1> QED
  BY <1>1 DEF Stands

\* Without a lease only the row matters.
LEMMA StandsUnowned ==
    ASSUME mission'.owner = None, Standing(mission.gate)'
    PROVE  Stands'
BY GateAssumption DEF Stands

LEMMA OffPhase ==
    ASSUME TypeOK, NEW r \in Runner, SwitchOff(r)
    PROVE  runner'[r].phase = "off" /\ \A q \in Runner : q # r => runner'[q] = runner[q]
BY DEF TypeOK, SwitchOff, Off

LEMMA RunnerKeepsStands ==
    ASSUME OneRunnerPerIsolate, Typed, Stands, NEW r \in Runner, RunnerStep(r)
    PROVE  Stands'
<1>0. TypeOK
  BY DEF Typed
<1>1. refused' = refused
  BY DEF RunnerStep, Take, Prepare, Ask, Begin, Execute, StepFailed,
         PermissionDenied, BatchPassed, Close, answers
<1>2. CASE Take(r)
  <2>1. mission'.gate = mission.gate /\ mission'.owner = V[r]
    BY <1>0, <1>2 DEF Take, TypeOK, MissionRecord
  <2>2. runner'[r].gate = mission.gate
    BY <1>0, <1>2 DEF Take, TypeOK
  <2>3. Standing(mission.gate)'
    BY <1>1, <2>1 DEF Stands, Standing
  <2> QED
    BY <2>1, <2>2, <2>3, StandsAfterSave
<1>3. CASE Execute(r)
  <2>1. PICK s \in Batch(r), o \in Outcomes : Becomes(r, s, o)
    BY <1>3 DEF Execute, Becomes, Outcomes
  <2>2. \A q \in Runner : runner'[q].phase = runner[q].phase /\ runner'[q].gate = runner[q].gate
    BY <1>0, <2>1, HeldTyped, OutcomeTyped
  <2> QED
    BY <1>1, <1>3, <2>2 DEF Execute, Stands, Standing
<1>4. ASSUME NEW status, NEW owner \in {None, V[r]}, NEW plan, NEW done,
             NEW gate, gate.status = "approved" => gate.of = runner[r].gate.of,
             gate.status = "approved" => runner[r].gate.status = "approved",
             runner[r].phase # "off",
             Save(r, status, owner, plan, done, gate),
             runner'[r].phase = "off" \/ runner'[r].gate = gate
      PROVE  Stands'
  <2>1. mission'.gate = gate /\ mission'.owner = owner /\ mission.owner = V[r]
    BY <1>4, SaveKeepsGate
  <2>2. Standing(runner[r].gate)
    BY <1>4, <2>1 DEF Stands
  <2>3. Standing(mission.gate)'
    BY <1>1, <1>4, <2>1, <2>2 DEF Standing
  <2> QED
    BY <1>4, <2>1, <2>3, StandsAfterSave
<1>5. \A of, status : Gate(of, status).status = status
  BY DEF Gate
<1>6. Consumed(r) = runner[r].gate \/ Consumed(r).status # "approved"
  BY <1>0, ConsumedTyped
<1>7. CASE Prepare(r)
  <2>1. PICK plan \in IF runner[r].plan = None THEN Plan ELSE {runner[r].plan} :
          /\ Save(r, "running", V[r], plan, runner[r].done, runner[r].gate)
          /\ runner' = [runner EXCEPT ![r] = [@ EXCEPT !.plan = plan,
                !.phase = IF runner[r].done = Step THEN "closing" ELSE "batch"]]
    BY <1>7 DEF Prepare
  <2>2. runner'[r].gate = runner[r].gate
    BY <1>0, <2>1, HeldTyped DEF TypeOK, RunnerRecord
  <2> QED
    BY <1>4, <1>7, <2>1, <2>2 DEF Prepare
<1>8. CASE Begin(r)
  <2>1. PICK s \in Batch(r) :
          /\ Save(r, "running", V[r], runner[r].plan, runner[r].done, runner[r].gate)
          /\ Becomes(r, s, "begun")
    BY <1>8 DEF Begin, Becomes
  <2>2. runner'[r].gate = runner[r].gate
    BY <1>0, <2>1, HeldTyped, OutcomeTyped DEF Outcomes
  <2> QED
    BY <1>4, <1>8, <2>1, <2>2 DEF Begin
<1>9. CASE Ask(r)
  <2>1. PICK s \in Batch(r) :
          Save(r, "paused", None, runner[r].plan, runner[r].done, Pending(ActionHash(r, s)))
    BY <1>9 DEF Ask
  <2>2. Pending(ActionHash(r, s)).status = "pending"
    BY <1>5 DEF Pending
  <2> QED
    BY <1>0, <1>4, <1>9, <2>1, <2>2, OffPhase DEF Ask
<1>10. CASE StepFailed(r) \/ PermissionDenied(r) \/ (Close(r) /\ ~Finalize(r))
  <2>1. \E gate \in {Consumed(r), runner[r].gate, Pending(None), Pending(Final)} :
          \E status, plan, done : Save(r, status, None, plan, done, gate)
    <3>1. CASE StepFailed(r)
      BY <3>1 DEF StepFailed
    <3>2. CASE PermissionDenied(r)
      BY <3>2 DEF PermissionDenied
    <3>3. CASE Close(r) /\ ~Finalize(r)
      BY <3>3 DEF Close
    <3> QED
      BY <1>10, <3>1, <3>2, <3>3
  <2>2. PICK gate \in {Consumed(r), runner[r].gate, Pending(None), Pending(Final)} :
          \E status, plan, done : Save(r, status, None, plan, done, gate)
    BY <2>1
  <2>3. PICK status, plan, done : Save(r, status, None, plan, done, gate)
    BY <2>2
  <2>4. gate = runner[r].gate \/ gate.status # "approved"
    BY <1>5, <1>6, <2>2 DEF Pending
  <2>5. runner[r].phase # "off" /\ runner'[r].phase = "off"
    BY <1>0, <1>10, OffPhase DEF StepFailed, PermissionDenied, Close, Settled
  <2> QED
    BY <1>4, <2>3, <2>4, <2>5
<1>11. CASE BatchPassed(r)
  <2>1. PICK owner \in {None, V[r]} :
          Save(r, "running", owner, runner[r].plan, Done(r), Consumed(r))
    BY <1>11 DEF BatchPassed
  <2>2. runner'[r].phase = "off" \/ runner'[r].gate = Consumed(r)
    <3>1. CASE SwitchOff(r)
      BY <1>0, <3>1, OffPhase
    <3>2. CASE runner' = [runner EXCEPT ![r] = [@ EXCEPT !.phase = "closing",
                            !.done = Done(r), !.gate = Consumed(r)]]
      BY <1>0, <3>2, HeldTyped DEF TypeOK, RunnerRecord
    <3> QED
      BY <1>11, <3>1, <3>2 DEF BatchPassed
  <2> QED
    BY <1>4, <1>6, <1>11, <2>1, <2>2 DEF BatchPassed, Settled
<1>12. CASE Finalize(r)
  <2>1. mission'.owner = None /\ mission'.gate = mission.gate
    BY <1>0, <1>12 DEF Finalize, TypeOK, MissionRecord
  <2> QED
    BY <1>1, <2>1, StandsUnowned DEF Stands, Standing
<1> QED
  BY <1>2, <1>3, <1>7, <1>8, <1>9, <1>10, <1>11, <1>12 DEF RunnerStep

LEMMA DisturbanceKeepsStands ==
    ASSUME Typed, Stands, Disturbance
    PROVE  Stands'
<1>0. TypeOK
  BY DEF Typed
<1>1. refused' = refused /\ mission'.gate = mission.gate
  BY <1>0 DEF Disturbance, Throw, Cut, LeaseExpires, RecoverStale, answers, TypeOK, MissionRecord
<1>2. Standing(mission.gate)'
  BY <1>1 DEF Stands, Standing
<1>3. ASSUME NEW r \in Runner, Cut(r) PROVE Stands'
  <2>1. /\ runner'[r].phase = "off"
        /\ \A q \in Runner : q # r => runner'[q] = runner[q]
    BY <1>0, <1>3, OffPhase DEF Cut
  <2> QED
    BY <1>1, <1>2, <1>3, <2>1 DEF Cut, Stands, Standing
<1>4. CASE (\E r \in Runner : Throw(r)) \/ LeaseExpires \/ RecoverStale
  <2>1. mission'.owner = None
    BY <1>0, <1>4 DEF Throw, LeaseExpires, RecoverStale, TypeOK, MissionRecord
  <2> QED
    BY <1>2, <2>1, StandsUnowned
<1> QED
  BY <1>3, <1>4 DEF Disturbance

LEMMA PeopleKeepStands ==
    ASSUME Typed, Stands, People
    PROVE  Stands'
<1>0. TypeOK
  BY DEF Typed
<1>1. \A of, status : Gate(of, status).status = status
  BY DEF Gate
<1>2. CASE Approve
  <2>1. /\ mission'.owner = None
        /\ mission'.gate.of = mission.gate.of
        /\ mission.gate.of \notin refused'
    BY <1>0, <1>2 DEF Approve, TypeOK, MissionRecord
  <2> QED
    BY <2>1, StandsUnowned DEF Standing
<1>3. CASE Refuse
  <2>1. mission'.owner = None /\ mission'.gate = Gate(mission.gate.of, "refused")
    BY <1>0, <1>3 DEF Refuse, TypeOK, MissionRecord
  <2> QED
    BY <1>1, <2>1, StandsUnowned DEF Standing
<1>4. CASE AppReads
  BY <1>4 DEF AppReads, answers, Stands, Standing
<1>5. CASE AppWrites /\ mission' = mission
  BY <1>5 DEF AppWrites, answers, Stands, Standing
<1>6. CASE AppWrites /\ mission' # mission
  <2>1. app \in MissionRecord
    BY <1>0, <1>6 DEF AppWrites, TypeOK
  <2>2. /\ mission'.owner = None
        /\ mission'.gate = Gate(app.gate.of, "confirmed")
    BY <1>6, <2>1 DEF AppWrites, MissionRecord
  <2> QED
    BY <1>1, <2>2, StandsUnowned DEF Standing
<1>7. CASE Confirm
  <2>1. mission'.owner = mission.owner /\ mission'.gate = Gate(mission.gate.of, "confirmed")
    BY <1>0, <1>7 DEF Confirm, TypeOK, MissionRecord
  <2> QED
    BY <1>1, <1>7, <2>1 DEF Confirm, answers, Stands, Standing
<1>8. CASE Cancel
  <2>1. mission'.owner = None /\ mission'.gate = mission.gate /\ refused' = refused
    BY <1>0, <1>8 DEF Cancel, answers, TypeOK, MissionRecord
  <2> QED
    BY <2>1, StandsUnowned DEF Stands, Standing
<1> QED
  BY <1>2, <1>3, <1>4, <1>5, <1>6, <1>7, <1>8 DEF People

LEMMA InitStands == Init => Stands
BY DEF Init, Stands, Standing, NoGate, Off

LEMMA NextKeepsStands ==
    OneRunnerPerIsolate /\ Typed /\ Stands /\ [Next]_vars => Stands'
<1> SUFFICES ASSUME OneRunnerPerIsolate, Typed, Stands, [Next]_vars PROVE Stands'
  OBVIOUS
<1>1. CASE UNCHANGED vars
  BY <1>1 DEF vars, answers, Stands, Standing
<1> QED
  BY <1>1, RunnerKeepsStands, DisturbanceKeepsStands, PeopleKeepStands DEF Next, People

\* When no two invocations share an isolate, a protected model call is never
\* executed under an approval that people have taken back since, however late
\* the runner that began it.
THEOREM RefusalHolds == OneRunnerPerIsolate => (Spec => RefusalStopsModelCalls)
<1> SUFFICES ASSUME OneRunnerPerIsolate PROVE Spec => RefusalStopsModelCalls
  OBVIOUS
<1>1. Typed /\ Stands /\ [Next]_vars =>
        [\A r \in Runner, s \in Step :
           Executes(r, s) /\ runner[r].plan[s] \in Checked
              => ActionHash(r, s) \notin refused]_vars
  <2> SUFFICES ASSUME Typed, Stands, [Next]_vars, NEW r \in Runner, NEW s \in Step,
                      Executes(r, s), runner[r].plan[s] \in Checked
               PROVE  ActionHash(r, s) \notin refused
    OBVIOUS
  <2>1. Authorized(r, s)
    BY ExecutesBegun
  <2> QED
    BY <2>1 DEF Authorized, Stands, Standing
<1>2. Typed /\ Stands /\ [Next]_vars => Typed' /\ Stands'
  BY NextTyped, NextKeepsStands
<1> QED
  BY <1>1, <1>2, InitTyped, InitStands, PTL DEF Spec, RefusalStopsModelCalls

=============================================================================
