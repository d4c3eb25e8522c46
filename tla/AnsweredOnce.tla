---------------------------- MODULE AnsweredOnce ----------------------------
(***************************************************************************)
(* What an idempotency key promises to the client that sends it: until the *)
(* key is forgotten its request is applied once, and whoever asks again is *)
(* told the outcome of that application.                                   *)
(***************************************************************************)
EXTENDS Naturals

CONSTANTS Scope,   \* what one idempotency key is looked up by
          Outcome, \* what an application can return
          None

VARIABLES
    outcome,  \* outcome[k]: the remembered outcome, or None
    applied,  \* applied[k]: applications since k was last forgotten
    told      \* told[k]: outcomes reported since then

vars == <<outcome, applied, told>>

Init == /\ outcome = [k \in Scope |-> None]
        /\ applied = [k \in Scope |-> 0]
        /\ told = [k \in Scope |-> {}]

Apply(k) == /\ outcome[k] = None
            /\ outcome'[k] \in Outcome
            /\ outcome' = [outcome EXCEPT ![k] = outcome'[k]]
            /\ told' = [told EXCEPT ![k] = {outcome'[k]}]
            /\ applied' = [applied EXCEPT ![k] = 1]

Repeat(k) == /\ outcome[k] # None
             /\ told' = [told EXCEPT ![k] = @ \cup {outcome[k]}]
             /\ UNCHANGED <<outcome, applied>>

Forget(k) == /\ outcome' = [outcome EXCEPT ![k] = None]
             /\ applied' = [applied EXCEPT ![k] = 0]
             /\ told' = [told EXCEPT ![k] = {}]

Next == \E k \in Scope : Apply(k) \/ Repeat(k) \/ Forget(k)

Spec == Init /\ [][Next]_vars
=============================================================================
