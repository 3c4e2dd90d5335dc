----------------------------- MODULE MCHumanGate -----------------------------
(* Instances of HumanGate for TLC. *)
EXTENDS HumanGate, TLC

CONSTANTS r1, r2, w1, w2, plain, model, write, t1, t2, t3

TwoIsolates == (r1 :> w1 @@ r2 :> w2)

OneStep == {<<model>>, <<write>>}

\* An invocation that has lost its lease, which none but itself could take for
\* it, and has begun nothing can only end: what it holds makes no difference.
Counts(r) ==
    \/ mission.owner = V[r]
    \/ \E s \in Step : runner[r].outcome[s] = "begun"

Seen == <<mission, [r \in Runner |-> IF Counts(r) THEN runner[r]
                                     ELSE [phase |-> runner[r].phase # "off"]],
          app, answers>>

\* The two runners are alike, with their isolates.
Alike == {r1 :> r2 @@ r2 :> r1 @@ w1 :> w2 @@ w2 :> w1}

=============================================================================
