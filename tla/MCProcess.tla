----------------------------- MODULE MCProcess -----------------------------
EXTENDS Process

CONSTANTS m1, c1, r1, d1, d2, d3

(* Two deliveries of one message and a click on a card.                    *)
MCEventOf == [d \in Delivery |-> IF d = d3 THEN c1 ELSE m1]

(* Both queues with their workers; reminders; and EventService on its own. *)
MCSettings == {{"event", "reply"}, {"recurring"}, {"cleanup"}}

(* Bound: a second start only where a restart meets the fewest workers.    *)
SmallRestarts == starts = 2 => enabled = {"cleanup"}

=============================================================================
