------------------------------ MODULE HumanGate ------------------------------
(***************************************************************************)
(* The human gates of a mission.  A step that is protected runs only after *)
(* a person has approved exactly this action; a mission may also ask for a *)
(* person's confirmation before it is closed.  Both gates, and their       *)
(* answers, live in one slot of the mission's row, checkpoint.human_gate,  *)
(* which runners copy into memory when they claim the mission and write    *)
(* back with everything else they save.  Of a confirmation on the device   *)
(* there is an event as well, without which the database lets no mission   *)
(* of source meditation-ia-v1 succeed.                                     *)
(*                                                                         *)
(* The module follows one mission: its row, the runner invocations, and    *)
(* the three ways in which people answer: mission_human_gate_decide with   *)
(* the hash of the action, the approve button of the app, and the          *)
(* confirmation on the mission's device.                                   *)
(*                                                                         *)
(* An action is the step and what the plan puts there; its hash tells any  *)
(* two of them apart.  Steps are the numbers of Step, ready in that order. *)
(* How often a failed step is tried, and the parking of a mission that     *)
(* waits for a device, are left out; see DeviceJobs.                       *)
(***************************************************************************)
EXTENDS Integers, FiniteSets

CONSTANTS
    Step,
    Operation,      \* what a step may be
    Protected,      \* those that need a gate
    Checked,        \* protected model calls: the execution runtime asks again
    Plan,           \* the plans the planner may return
    BatchSize,      \* 2 when steps are read-only, else 1
    Confirmed,      \* metadata.human_gate: the mission asks before it closes
    Source,         \* metadata.source
    Runner, Worker, V,
    Token,          \* approval tokens: fresh is one nobody remembers
    None, Final

ASSUME GateAssumption ==
    /\ Step \subseteq Nat
    /\ IsFiniteSet(Step)
    /\ Checked \subseteq Protected
    /\ Protected \subseteq Operation
    /\ Plan \subseteq [Step -> Operation]
    /\ BatchSize \in {1, 2}
    /\ Confirmed \in BOOLEAN
    /\ Source \in {"meditation-ia-v1", "meditation", "other"}
    /\ V \in [Runner -> Worker]
    /\ None \notin Worker \cup Token \cup (Step \X Operation) \cup [Step -> Operation]
    /\ Final \notin (Step \X Operation) \cup {None}

VARIABLES
    mission,    \* the mission's row of mission_state
    runner,     \* what each invocation has in memory
    app,        \* the row an approve request of the app has read, or None
    verified,   \* mission_events has a verified human_gate_completed
    approved,   \* history: the actions people have approved
    refused     \* history: the actions people refused and have not approved since

answers == <<verified, approved, refused>>

vars == <<mission, runner, app, answers>>

Hash == Step \X Operation

\* The slot.  What the code calls a completed gate is here "confirmed" if people
\* have completed it, in the app or on the device, and "completed" if a runner has
\* consumed an approval.  A token is looked at only while the gate is approved,
\* and is forgotten here when it no longer is.
GateRecord ==
    {gate \in [of : Hash \cup {Final, None}, token : Token \cup {None},
               status : {"none", "pending", "approved", "refused", "completed",
                         "confirmed"}] :
        gate.token # None <=> gate.status = "approved"}

NoGate == [of |-> None, token |-> None, status |-> "none"]
Gate(of, status) == [of |-> of, token |-> None, status |-> status]
Pending(of) == Gate(of, "pending")

Statuses == {"queued", "running", "paused", "failed", "blocked", "cancelled",
             "succeeded"}

MissionRecord ==
    [status : Statuses, owner : Worker \cup {None}, plan : Plan \cup {None},
     done : SUBSET Step, gate : GateRecord]

RunnerRecord ==
    [phase : {"off", "claimed", "batch", "closing"}, plan : Plan \cup {None},
     done : SUBSET Step, gate : GateRecord,
     outcome : [Step -> {"none", "begun", "passed", "failed", "denied"}]]

TypeOK ==
    /\ mission \in MissionRecord
    /\ runner \in [Runner -> RunnerRecord]
    /\ app \in MissionRecord \cup {None}
    /\ verified \in BOOLEAN
    /\ approved \subseteq Hash
    /\ refused \subseteq Hash

Untouched == [s \in Step |-> "none"]
Off == [phase |-> "off", plan |-> None, done |-> {}, gate |-> NoGate,
        outcome |-> Untouched]

Init ==
    /\ mission = [status |-> "queued", owner |-> None, plan |-> None,
                  done |-> {}, gate |-> NoGate]
    /\ runner = [r \in Runner |-> Off]
    /\ app = None
    /\ verified = FALSE
    /\ approved = {} /\ refused = {}

-----------------------------------------------------------------------------
(***************************************************************************)
(* The runner                                                              *)
(***************************************************************************)

\* readyBatch: the first steps that are not completed.
Batch(r) ==
    LET todo == Step \ runner[r].done
    IN  {s \in todo : Cardinality({t \in todo : t < s}) < BatchSize}

ActionHash(r, s) == <<s, runner[r].plan[s]>>

RequiresHumanGate(r, s) == runner[r].plan[s] \in Protected

\* mutant: the step's approval is enough, whatever the step has become
MayRunStep(r, s) ==
    RequiresHumanGate(r, s) =>
        /\ runner[r].gate.status = "approved"
        /\ runner[r].gate.of \in {<<s, o>> : o \in Operation}

\* The gate in the runner's memory is an approval of exactly this action.
MayRun(r, s) ==
    RequiresHumanGate(r, s) =>
        /\ runner[r].gate.status = "approved"
        /\ runner[r].gate.of = ActionHash(r, s)

SwitchOff(r) == runner' = [runner EXCEPT ![r] = Off]

\* aria_mission_update_lease with the runner's checkpoint; it finds the row
\* only while the lease is the runner's, which is its isolate's.
Save(r, status, owner, plan, done, gate) ==
    /\ mission.owner = V[r]
    /\ mission' = [status |-> status, owner |-> owner, plan |-> plan,
                   done |-> done, gate |-> gate]

\* aria_mission_claim_by_id_lease, and what the runner reads with it.
Take(r) ==
    /\ runner[r].phase = "off"
    /\ \/ /\ mission.owner = None
          /\ mission.status \in {"queued", "running", "paused", "failed"}
       \/ /\ mission.owner = V[r]
          /\ mission.status \in {"running", "paused"}
    /\ mission' = [mission EXCEPT !.status = "running", !.owner = V[r]]
    /\ runner' = [runner EXCEPT ![r] =
            [phase |-> "claimed", plan |-> mission.plan, done |-> mission.done,
             gate |-> mission.gate, outcome |-> Untouched]]
    /\ UNCHANGED <<app, answers>>

\* A mission without a plan is planned; the plan is saved with the checkpoint.
Prepare(r) ==
    /\ runner[r].phase = "claimed"
    /\ \E plan \in IF runner[r].plan = None THEN Plan ELSE {runner[r].plan} :
         /\ Save(r, "running", V[r], plan, runner[r].done, runner[r].gate)
         /\ runner' = [runner EXCEPT ![r] = [@ EXCEPT !.plan = plan,
                !.phase = IF runner[r].done = Step THEN "closing" ELSE "batch"]]
    /\ UNCHANGED <<app, answers>>

\* The first step of the batch that may not run: people are asked, in the one
\* slot there is, and the mission pauses.
Ask(r) ==
    /\ runner[r].phase = "batch"
    /\ \E s \in Batch(r) :
         /\ runner[r].outcome[s] = "none"
         /\ ~MayRun(r, s)
         /\ \A t \in Batch(r) : t < s => MayRun(r, t)
         /\ Save(r, "paused", None, runner[r].plan, runner[r].done,
                 Pending(ActionHash(r, s)))
    /\ \A s \in Batch(r) : runner[r].outcome[s] = "none"
    /\ SwitchOff(r)
    /\ UNCHANGED <<app, answers>>

\* The row is saved before a step is executed.
Begin(r) ==
    /\ runner[r].phase = "batch"
    /\ \A s \in Batch(r) : MayRun(r, s)
    /\ \E s \in Batch(r) :
         /\ runner[r].outcome[s] = "none"
         /\ Save(r, "running", V[r], runner[r].plan, runner[r].done, runner[r].gate)
         /\ runner' = [runner EXCEPT ![r] = [@ EXCEPT !.outcome[s] = "begun"]]
    /\ UNCHANGED <<app, answers>>

\* mutant: the token is compared, the status is not
AuthorizedByToken(r, s) ==
    runner[r].plan[s] \in Checked => mission.gate.of = ActionHash(r, s)

\* human_gate_authorize_execution, asked by the execution runtime; other
\* executors rely on the runner.
Authorized(r, s) ==
    runner[r].plan[s] \in Checked =>
        /\ mission.gate.of = ActionHash(r, s)
        /\ mission.gate.status = "approved"
        /\ mission.gate.token = runner[r].gate.token

\* executeStep.  Between Begin and here the runner has lost touch with the row.
Execute(r) ==
    /\ runner[r].phase = "batch"
    /\ \E s \in Batch(r) :
         /\ runner[r].outcome[s] = "begun"
         /\ \E o \in IF Authorized(r, s) THEN {"passed", "failed"} ELSE {"denied"} :
              runner' = [runner EXCEPT ![r] = [@ EXCEPT !.outcome[s] = o]]
    /\ UNCHANGED <<mission, app, answers>>

Settled(r) ==
    /\ runner[r].phase = "batch"
    /\ \A s \in Batch(r) : runner[r].outcome[s] \in {"passed", "failed", "denied"}

Passed(r) == {s \in Batch(r) : runner[r].outcome[s] = "passed"}
Done(r) == runner[r].done \cup Passed(r)

\* The approval of a protected step that has passed is consumed.
Consumed(r) ==
    LET gate == runner[r].gate
        s == CHOOSE s \in Passed(r) : /\ RequiresHumanGate(r, s)
                                      /\ \A t \in Passed(r) : RequiresHumanGate(r, t) => s <= t
    IN  IF /\ \E t \in Passed(r) : RequiresHumanGate(r, t)
           /\ gate.status = "approved"
           /\ gate.of = ActionHash(r, s)
        THEN Gate(gate.of, "completed")
        ELSE gate

\* A step failed: it is retried under the same approval, or the plan is
\* discarded, or the mission gives up.
StepFailed(r) ==
    /\ Settled(r)
    /\ Passed(r) # Batch(r)
    /\ \/ Save(r, "running", None, runner[r].plan, Done(r), Consumed(r))
       \/ Save(r, "queued", None, None, Done(r), Consumed(r))
       \/ \E status \in {"failed", "blocked"} :
            Save(r, status, None, runner[r].plan, Done(r), Consumed(r))
    /\ SwitchOff(r)
    /\ UNCHANGED <<app, answers>>

\* A provider denies a permission that only its owner can grant: a gate that
\* names a step and no action.
PermissionDenied(r) ==
    /\ Settled(r)
    /\ Passed(r) # Batch(r)
    /\ Save(r, "paused", None, runner[r].plan, Done(r), Pending(None))
    /\ SwitchOff(r)
    /\ UNCHANGED <<app, answers>>

\* The batch passed: the lease is given back for the next one, or the same
\* invocation goes on to close the mission.
BatchPassed(r) ==
    /\ Settled(r)
    /\ Passed(r) = Batch(r)
    /\ IF Done(r) # Step
       THEN /\ Save(r, "running", None, runner[r].plan, Done(r), Consumed(r))
            /\ SwitchOff(r)
       ELSE /\ Save(r, "running", V[r], runner[r].plan, Done(r), Consumed(r))
            /\ runner' = [runner EXCEPT ![r] = [@ EXCEPT !.phase = "closing",
                            !.done = Done(r), !.gate = Consumed(r)]]
    /\ UNCHANGED <<app, answers>>

\* humanGateCompleted
Completed(gate) == gate.status \in {"completed", "confirmed"}

\* mutant: the trigger is not there
NothingEnforced == TRUE

\* enforce_meditation_human_gate_before_succeeded, a trigger on the row.
GateEnforced ==
    Source = "meditation-ia-v1" /\ Confirmed => Completed(mission.gate) /\ verified

\* aria_mission_finalize_verified_lease, which looks at the row only and leaves
\* its checkpoint as it is.
Finalize(r) ==
    /\ mission.owner = V[r]
    /\ mission.done = Step
    /\ Confirmed => Completed(mission.gate)
    /\ GateEnforced
    /\ mission' = [mission EXCEPT !.status = "succeeded", !.owner = None]

\* The mission is closed, unless it still needs a person's confirmation.  What
\* the database refuses ends in the exception path.
Close(r) ==
    /\ runner[r].phase = "closing"
    /\ IF Confirmed /\ ~Completed(runner[r].gate)
       THEN Save(r, "paused", None, runner[r].plan, runner[r].done, Pending(Final))
       ELSE Finalize(r)
    /\ SwitchOff(r)
    /\ UNCHANGED <<app, answers>>

\* The exception path leaves the checkpoint as it is.
Throw(r) ==
    /\ runner[r].phase # "off"
    /\ mission.owner = V[r]
    /\ \E status \in {"paused", "blocked"} :
         mission' = [mission EXCEPT !.status = status, !.owner = None]
    /\ SwitchOff(r)
    /\ UNCHANGED <<app, answers>>

\* The invocation is cut off, or finds that it has lost the lease.
Cut(r) ==
    /\ runner[r].phase # "off"
    /\ SwitchOff(r)
    /\ UNCHANGED <<mission, app, answers>>

LeaseExpires ==
    /\ mission.owner # None
    /\ mission' = [mission EXCEPT !.owner = None]
    /\ UNCHANGED <<runner, app, answers>>

\* recover_stale_missions_heavy_v1: the row is queued as it is, or without its
\* plan and progress; the gate stays.
RecoverStale ==
    /\ \/ /\ mission.status \in {"running", "paused"}
          /\ mission' = [mission EXCEPT !.status = "queued", !.owner = None]
       \/ /\ mission.status \in {"running", "paused", "failed"}
          /\ \E status \in {"failed", "queued"} :
               /\ status = "queued" => mission.status = "failed"
               /\ mission' = [mission EXCEPT !.status = status, !.owner = None,
                                             !.plan = None, !.done = {}]
    /\ UNCHANGED <<runner, app, answers>>

-----------------------------------------------------------------------------
(***************************************************************************)
(* People                                                                  *)
(***************************************************************************)

Remembered == {mission.gate.token} \cup {runner[r].gate.token : r \in Runner}

\* A token that nobody remembers; which one makes no difference.
Fresh == CHOOSE t \in Token : t \notin Remembered

\* mission_human_gate_decide, approve: with the hash of the action the person
\* was shown, which must be the one the row asks for now.
Approve ==
    /\ mission.status = "paused"
    /\ Token \ Remembered # {}
    /\ \E h \in Hash :
         /\ mission.gate.of = h
         /\ mission' = [mission EXCEPT !.status = "queued", !.owner = None,
              !.gate = [of |-> mission.gate.of, token |-> Fresh, status |-> "approved"]]
         /\ approved' = approved \cup {h}
         /\ refused' = refused \ {h}
    /\ UNCHANGED <<runner, app, verified>>

\* mission_human_gate_decide, reject or cancel; it does not ask whether the
\* gate is still pending.
Refuse ==
    /\ mission.status = "paused"
    /\ mission.gate.of \in Hash
    /\ \E status \in {"blocked", "cancelled"} :
         mission' = [mission EXCEPT !.status = status, !.owner = None,
                                    !.gate = Gate(mission.gate.of, "refused")]
    /\ refused' = refused \cup {mission.gate.of}
    /\ UNCHANGED <<runner, app, verified, approved>>

Answerable == {"paused", "blocked"}

\* POST /missions/:id/human-gate/approve reads the row ...
AppReads ==
    /\ app = None
    /\ mission.status \in Answerable
    /\ mission.gate.status = "pending"
    /\ app' = [mission EXCEPT !.status = "running", !.owner = None]
    /\ UNCHANGED <<mission, runner, answers>>

\* ... and writes the checkpoint it read, with the gate completed, over the row
\* of a mission that is answerable still or again.
AppWrites ==
    /\ app # None
    /\ app' = None
    /\ IF mission.status \in Answerable
       THEN mission' = [app EXCEPT !.status = "running", !.owner = None,
                                   !.gate = Gate(app.gate.of, "confirmed")]
       ELSE UNCHANGED mission
    /\ UNCHANGED <<runner, answers>>

\* meditation_human_gate_complete: the confirmation on the mission's device,
\* whether it has been asked for or not, with its event.
Confirm ==
    /\ Confirmed
    /\ Source # "other"
    /\ mission.status \in {"paused", "blocked", "queued"}
    /\ mission' = [mission EXCEPT !.status = "queued",
                                  !.gate = Gate(mission.gate.of, "confirmed")]
    /\ verified' = TRUE
    /\ UNCHANGED <<runner, app, approved, refused>>

\* POST /missions/:id/cancel
Cancel ==
    /\ mission.status \in {"queued", "running", "paused"}
    /\ mission' = [mission EXCEPT !.status = "cancelled", !.owner = None]
    /\ UNCHANGED <<runner, app, answers>>

-----------------------------------------------------------------------------
RunnerStep(r) ==
    Take(r) \/ Prepare(r) \/ Ask(r) \/ Begin(r) \/ Execute(r) \/ StepFailed(r)
    \/ PermissionDenied(r) \/ BatchPassed(r) \/ Close(r)

Disturbance ==
    \/ \E r \in Runner : Throw(r) \/ Cut(r)
    \/ LeaseExpires \/ RecoverStale

Next ==
    \/ \E r \in Runner : RunnerStep(r)
    \/ Disturbance
    \/ Approve \/ Refuse \/ AppReads \/ AppWrites \/ Confirm \/ Cancel

Spec == Init /\ [][Next]_vars

-----------------------------------------------------------------------------
(***************************************************************************)
(* Properties                                                              *)
(***************************************************************************)

\* The steps that a step of the system executes.
Executes(r, s) == /\ runner[r].outcome[s] = "begun"
                  /\ runner'[r].outcome[s] \in {"passed", "failed"}

\* A protected action is executed only if a person has approved this very
\* action, through replans, retries, stale invocations, stale writes of the
\* app and other gates in the same slot.
NothingRunsUnapproved ==
    [][\A r \in Runner, s \in Step :
         Executes(r, s) /\ RequiresHumanGate(r, s) => ActionHash(r, s) \in approved]_vars

\* A protected model call does not run after people have taken their approval
\* back, however late the runner that held it is; two invocations in one
\* isolate would break it, since they share their lease.
RefusalStopsModelCalls ==
    [][\A r \in Runner, s \in Step :
         Executes(r, s) /\ runner[r].plan[s] \in Checked
            => ActionHash(r, s) \notin refused]_vars

\* A mission that asks for a person's confirmation is closed only on a person's
\* word, whatever was asked, refused, copied and written back in the one slot there
\* is: on a confirmation, or on the approval of the last action that needed one,
\* which runners take for it.  One of source meditation-ia-v1 is closed only if it
\* was confirmed on its device all the same.
ClosedOnAnswer ==
    mission.status = "succeeded" /\ Confirmed =>
        /\ \/ mission.gate.status = "confirmed"
           \/ mission.gate.status = "completed" /\ mission.gate.of \in approved
        /\ Source = "meditation-ia-v1" => verified

=============================================================================
