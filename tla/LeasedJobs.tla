----------------------------- MODULE LeasedJobs -----------------------------
(***************************************************************************)
(* What a queue of leased jobs promises, whatever it is built on: a job    *)
(* is opened once, leases on it are granted one after the other, and it is *)
(* closed once, with a report made under the lease granted last.  A report *)
(* may arrive late or never; under a superseded lease it decides nothing.  *)
(*                                                                         *)
(* The JSON queue of the persistent coordinator, WorkerBridge, is shown to *)
(* implement it.                                                           *)
(***************************************************************************)
EXTENDS Naturals

CONSTANT Job

VARIABLES
    lease,      \* lease[j]: how many leases were granted on j; the last one rules
    outcome,    \* outcome[j]: "absent", "open", or how j was closed
    reports     \* outcomes reported by lease holders, past or present

ljvars == <<lease, outcome, reports>>

Verdict == {"succeeded", "failed"}

Init == /\ lease = [j \in Job |-> 0]
        /\ outcome = [j \in Job |-> "absent"]
        /\ reports = {}

Open(j) == /\ outcome[j] = "absent"
           /\ outcome' = [outcome EXCEPT ![j] = "open"]
           /\ UNCHANGED <<lease, reports>>

Grant(j) == /\ outcome[j] = "open"
            /\ lease' = [lease EXCEPT ![j] = @ + 1]
            /\ UNCHANGED <<outcome, reports>>

Report(j, token, o) == /\ token \in 1 .. lease[j]
                       /\ reports' = reports \cup {<<j, token, o>>}
                       /\ UNCHANGED <<lease, outcome>>

Finish(j, o) == /\ outcome[j] = "open"
                /\ <<j, lease[j], o>> \in reports
                /\ outcome' = [outcome EXCEPT ![j] = o]
                /\ reports' = reports \ {<<j, lease[j], o>>}
                /\ UNCHANGED lease

Lose(r) == /\ reports' = reports \ {r}
           /\ UNCHANGED <<lease, outcome>>

Next == \/ \E j \in Job :
              \/ Open(j)
              \/ Grant(j)
              \/ \E o \in Verdict : Finish(j, o) \/ \E t \in 1 .. lease[j] : Report(j, t, o)
        \/ \E r \in reports : Lose(r)

Spec == Init /\ [][Next]_ljvars

=============================================================================
