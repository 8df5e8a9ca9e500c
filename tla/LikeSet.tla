------------------------------ MODULE LikeSet ------------------------------
(***************************************************************************)
(* What the likes of articles promise: a user likes an article or does not, *)
(* and the number shown for an article moves with its likes.  The likes of  *)
(* a removed article are gone with it.                                      *)
(***************************************************************************)
EXTENDS Naturals

CONSTANTS Articles, Users

VARIABLES
    likes,  \* likes[a]: the users who like a
    count,  \* the number shown for an article
    gone    \* removed articles

vars == <<likes, count, gone>>

Init ==
    /\ likes = [a \in Articles |-> {}]
    /\ count = [a \in Articles |-> 0]
    /\ gone = {}

Like(a, u) ==
    /\ a \notin gone /\ u \notin likes[a]
    /\ likes' = [likes EXCEPT ![a] = @ \cup {u}]
    /\ count' = [count EXCEPT ![a] = @ + 1]
    /\ UNCHANGED gone

Withdraw(a, u) ==
    /\ a \notin gone /\ u \in likes[a]
    /\ likes' = [likes EXCEPT ![a] = @ \ {u}]
    /\ count' = [count EXCEPT ![a] = @ - 1]
    /\ UNCHANGED gone

Remove(a) ==
    /\ a \notin gone
    /\ gone' = gone \cup {a}
    /\ likes' = [likes EXCEPT ![a] = {}]
    /\ count' = [count EXCEPT ![a] = 0]

Next == \E a \in Articles : Remove(a) \/ \E u \in Users : Like(a, u) \/ Withdraw(a, u)

Spec == Init /\ [][Next]_vars
=============================================================================
