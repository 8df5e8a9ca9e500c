------------------------------ MODULE MCGateway ------------------------------
EXTENDS Gateway, TLC

\* The auth service signs with key 1; the second configuration has another key.
MCConfigs == {[key |-> 1, redis |-> TRUE, rps |-> 1], [key |-> 2, redis |-> FALSE, rps |-> 0]}
MCTokens == {[user |-> 1, role |-> "reader", kind |-> "access", key |-> 1],
             [user |-> 2, role |-> "admin", kind |-> "access", key |-> 1],
             [user |-> 2, role |-> "admin", kind |-> "refresh", key |-> 1]}

\* Addresses are interchangeable.
IPSymmetry == Permutations(IPs)

\* Bound: time passes for the limiter only while the key is what it was at the start,
\* and the key changes only while no address is idle.  No later configuration reaches
\* a limiter that is built.
Fresh == \A ip \in DOMAIN idle : idle[ip] = 0
MCNext ==
    \/ Serve \/ (Fresh /\ Configure) \/ (Revision = 1 /\ Tick)
    \/ \E t \in Tokens : Revoke(t) \/ Expire(t)

MCSpec == Init /\ [][MCNext]_vars
==============================================================================
