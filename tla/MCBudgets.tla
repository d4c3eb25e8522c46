----------------------------- MODULE MCBudgets -----------------------------
EXTENDS Budgets, TLC
CONSTANTS m1, m2, food, fare

Of(k, c, a) == [kind |-> k, category |-> c, amount |-> a, today |-> TRUE, entry |-> <<food, 0>>]
Chat(items) == [channel |-> "chat", batch |-> Len(items) > 1, items |-> items]
Api(item) == [channel |-> "api", batch |-> FALSE, items |-> <<item>>]
Earlier(item) == [item EXCEPT !.today = FALSE]

(* A limit is 10: 5 stays below 80 percent, 8 reaches it, 5 and 5 fill it. *)
MCOrdersOf ==
    m1 :> {Chat(<<Of("spend", food, 5), Of("spend", fare, 5)>>),
           Chat(<<Of("spend", fare, 8), Of("set", food, 5), Of("set", food, 10)>>),
           Chat(<<Of("set", fare, 10)>>), Chat(<<Of("spend", fare, 13)>>),
           Chat(<<Of("total", food, 10)>>)} @@
    m2 :> {Chat(<<Of("spend", fare, 8), Of("spend", food, 2)>>),
           Chat(<<Of("cancel", fare, 10)>>), Chat(<<Of("set", fare, 10)>>),
           Api(Of("edit", food, 8)), Chat(<<Earlier(Of("spend", food, 8))>>)}
MCOpening == <<food, 0>> :> [category |-> food, amount |-> 3, live |-> TRUE, month |-> 1, under |-> 0]
=============================================================================
