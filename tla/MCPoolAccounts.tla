--------------------------- MODULE MCPoolAccounts ----------------------------
\* The task pool and the accounts share nothing.  They are checked side by side: each
\* behaviour is one of either component, and the other stays as it starts.
EXTENDS MCTaskPool, Accounts

MCPasswords == {[len |-> 8, classes |-> {"upper", "lower", "digit"}],
                [len |-> 8, classes |-> {"lower", "digit"}]}

VARIABLE part

mcVars == <<part, poolVars, allVars>>

MCInit ==
    \/ part = "pool" /\ PoolInit /\ AccountsInit /\ req = [p \in Procs |-> Idle(CHOOSE u \in Users : TRUE)]
    \/ part = "accounts" /\ AccountsInit /\ PoolInit

MCNext ==
    /\ UNCHANGED part
    /\ \/ part = "pool" /\ PoolNext /\ UNCHANGED allVars
       \/ part = "accounts" /\ AccountsNext /\ UNCHANGED poolVars

MCSpec ==
    /\ MCInit /\ [][MCNext]_mcVars
    /\ AccountsFairness
    /\ WF_poolVars(part = "pool" /\ Scheduling) /\ WF_poolVars(Wait)
    /\ \A w \in Workers : WF_poolVars(Working(w))
==============================================================================
