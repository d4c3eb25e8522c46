-------------------------- MODULE MCPendingConfirm --------------------------
(* Instances of PendingConfirm: a recurring rule of a household and the    *)
(* same photo sent twice.                                                  *)
EXTENDS PendingConfirm

CONSTANTS rent, photo, again, image, w1, w2

SamePhoto == [m \in Message |-> image]

(* Rules and messages share no row: a behaviour that mixes them adds only  *)
(* the product of the two. A behaviour is about the messages, with two     *)
(* sessions, or about the rule, with one beside the atomic transactions.   *)
(* No fair action starts either, so the liveness properties lose nothing.  *)
OneStory ==
    \/ \A r \in Rule : rule[r].status = "absent"
    \/ /\ \A m \in Message : pending[m] = "none"
       /\ session[w2] = Idle /\ session[w1].at # "parse"
=============================================================================
