----------------------------- MODULE MCTaskPool ------------------------------
EXTENDS TaskPool, TLC

\* The first of the tasks is urgent, the others share a priority.
MCPriority == LET urgent == CHOOSE t \in Tasks : TRUE
              IN  [t \in Tasks |-> IF t = urgent THEN 2 ELSE 1]
==============================================================================
