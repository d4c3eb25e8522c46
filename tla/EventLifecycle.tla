--------------------------- MODULE EventLifecycle ---------------------------
(***************************************************************************)
(* What the event pipeline promises about one inbound Feishu event,        *)
(* whatever the number of workers, crashes, lease takeovers, retries and   *)
(* operator replays: the ledger write it asks for is applied at most once, *)
(* a settled event is never run again, and an event is put back in the     *)
(* queue from outside an attempt only while nothing was applied for it.    *)
(* EventWorker implements this specification (see EventWorker!Lifecycle).  *)
(***************************************************************************)
EXTENDS Naturals

CONSTANT Event

VARIABLES life,     \* life[e]: where event e is in its life
          applied   \* applied[e]: how many times e's ledger write was applied

vars == <<life, applied>>

Life == {"unseen", "waiting", "attempted", "settled", "abandoned", "forgotten"}

Init == /\ life = [e \in Event |-> "unseen"]
        /\ applied = [e \in Event |-> 0]

(* One event moves between two stations of its life.                       *)
Move(e, from, to) == /\ life[e] = from
                     /\ life' = [life EXCEPT ![e] = to]
                     /\ UNCHANGED applied

Arrive(e) == Move(e, "unseen", "waiting")

(* A worker takes a batch of waiting events (and perhaps takes over others *)
(* that are already attempted, which is invisible here).                   *)
Take(S) == /\ \A e \in S : life[e] \in {"waiting", "attempted"}
           /\ life' = [e \in Event |-> IF e \in S THEN "attempted" ELSE life[e]]
           /\ UNCHANGED applied

(* The ledger write is applied, at most once, and possibly by an attempt   *)
(* the queue already gave up on.                                           *)
Apply(e) == /\ life[e] \notin {"unseen", "forgotten"}
            /\ applied[e] = 0
            /\ applied' = [applied EXCEPT ![e] = 1]
            /\ UNCHANGED life

Settle(e)  == Move(e, "attempted", "settled")
Retry(e)   == Move(e, "attempted", "waiting")
Abandon(e) == Move(e, "attempted", "abandoned")

(* An operator requeues an unfinished event: only with nothing applied.    *)
Requeue(e) == /\ applied[e] = 0
              /\ \/ Move(e, "abandoned", "waiting")
                 \/ Move(e, "attempted", "waiting")

Forget(e) == \/ Move(e, "settled", "forgotten")
             \/ Move(e, "abandoned", "forgotten")

Next == \/ \E S \in SUBSET Event : Take(S)
        \/ \E e \in Event : \/ Arrive(e) \/ Apply(e) \/ Settle(e) \/ Retry(e)
                            \/ Abandon(e) \/ Requeue(e) \/ Forget(e)

Spec == Init /\ [][Next]_vars
=============================================================================
