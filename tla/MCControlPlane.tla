--------------------------- MODULE MCControlPlane ---------------------------
EXTENDS ControlPlane

\* Three tasks in a row, the last one only added by replanning.
Chain == [t \in Task |-> IF t = 1 THEN {} ELSE {t - 1}]

=============================================================================
