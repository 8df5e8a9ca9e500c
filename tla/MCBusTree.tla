------------------------------ MODULE MCBusTree ------------------------------
\* The event bus and the category tree share nothing.  They are checked side by side:
\* each behaviour is one of either component, and the other stays as it starts.
EXTENDS EventBus, CategoryTree

CONSTANTS c1, c2

VARIABLE part

mcVars == <<part, vars, treeVars>>

\* Categories are interchangeable: which ones are there at the start is up to their number.
MCInit ==
    \/ part = "bus" /\ Init /\ TreeInit /\ Live = {}
    \/ part = "tree" /\ TreeInit /\ Init /\ Live \in {{}, {c1}, {c1, c2}, Cats}

MCNext ==
    /\ UNCHANGED part
    /\ \/ part = "bus" /\ Next /\ UNCHANGED treeVars
       \/ part = "tree" /\ TreeNext /\ UNCHANGED vars

MCSpec == MCInit /\ [][MCNext]_mcVars /\ Fairness /\ TreeFairness
==============================================================================
