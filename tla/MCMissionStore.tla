--------------------------- MODULE MCMissionStore ---------------------------
EXTENDS MissionStore

\* Nothing waits.
Independent == [t \in Task |-> {}]

\* The second task reads what the first one writes.
SecondReadsFirst == [t \in Task |-> IF t = 1 THEN 2 ELSE NoTask]

NoReadBack == [t \in Task |-> NoTask]

=============================================================================
