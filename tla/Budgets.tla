------------------------------ MODULE Budgets ------------------------------
(***************************************************************************)
(* Monthly budgets of one ledger: the limits of its categories, the alerts *)
(* at 80 and 100 percent, the total of one month, and the overview.        *)
(*                                                                         *)
(* A message is one transaction at READ COMMITTED. It is cut where it may  *)
(* wait for a row that another transaction holds, or where it acts on what *)
(* it read before; what it wrote is its own until it commits.              *)
(***************************************************************************)
EXTENDS Naturals, Sequences, FiniteSets, Functions

CONSTANTS Message,    \* transactions of the ledger service
          Category,
          Total,      \* the key of a month's total budget (category IS NULL)
          OrdersOf,   \* OrdersOf[m]: the orders that m may carry
          Amount,     \* amounts that a budget is set to
          Opening,    \* expenses of the first month, booked before any budget
          LastMonth,  \* bound: the clock stops in this month
          MaxChanges, \* bound: period budgets changed through the Web
          MaxFlips    \* bound: entries undone or restored

Kind == {"spend", "edit", "set", "cancel", "total"}
EntryId == DOMAIN Opening \cup (Message \X Nat)
OrderItem == [kind : Kind, category : Category, amount : Nat \ {0}, today : BOOLEAN, entry : EntryId]

ASSUME BudgetsAssumption ==
    /\ LastMonth \in Nat \ {0} /\ MaxChanges \in Nat /\ MaxFlips \in Nat
    /\ Amount \subseteq Nat \ {0} /\ Total \notin Category
    /\ IsFiniteSet(DOMAIN Opening)
    /\ \A e \in DOMAIN Opening :
          Opening[e] \in [category : Category, amount : Nat, live : {TRUE}, month : {1}, under : {0}]
    /\ \A m \in Message : \A o \in OrdersOf[m] :
          /\ o \in [channel : {"chat", "api"}, batch : BOOLEAN, items : Seq(OrderItem)]
          /\ Len(o.items) > 0 /\ (o.batch \/ Len(o.items) = 1)
          /\ \A i \in DOMAIN o.items :
                /\ o.batch => o.items[i].kind \in {"spend", "set"}
                /\ o.items[i].kind = "total" => o.items[i].amount \in Amount

Month == 0..LastMonth      \* the clock starts in 1; 0 is before it
Threshold == {80, 100}
Key == Category \cup {Total}

VARIABLES
    month,   \* the month of the clock
    entries, \* entries[e]: the committed expense e
    limit,   \* limit[c]: the row of category_budgets, id 0 where there is none
    born,    \* born[c]: rows that c has had
    alerts,  \* committed rows of budget_alerts
    period,  \* period[p][k]: the row of budgets for month p, 0 where there is none
    tx,      \* tx[m]: the transaction of message m
    told,    \* history: the alert texts that replies carried
    changes, flips

vars == <<month, entries, limit, born, alerts, period, tx, told, changes, flips>>

NoBudget == [id |-> 0, amount |-> 0]

-----------------------------------------------------------------------------
(* What a transaction sees and holds                                       *)

With(f, x, v) == [y \in {x} \cup DOMAIN f |-> IF y = x THEN v ELSE f[y]]

EntriesOf(m) == [e \in DOMAIN tx[m].entries \cup DOMAIN entries |->
                    IF e \in DOMAIN tx[m].entries THEN tx[m].entries[e] ELSE entries[e]]
LimitOf(m, c) == IF c \in DOMAIN tx[m].limits THEN tx[m].limits[c] ELSE limit[c]
AlertsOf(m) == alerts \cup tx[m].alerts
TotalOf(m) == IF tx[m].total # 0 THEN tx[m].total ELSE period[tx[m].now][Total]

Item(m) == tx[m].order.items[tx[m].at]
(* Of several limits for one category in a message the last one counts.    *)
Superseded(m) == \E j \in DOMAIN tx[m].order.items :
                    /\ j > tx[m].at /\ tx[m].order.items[j].kind = "set"
                    /\ tx[m].order.items[j].category = Item(m).category
At(m, kind, stage) == tx[m].stage = stage /\ Item(m).kind = kind

(* An expense of the current month is checked, any other is not.           *)
Applies(m, e) == e.live /\ e.month = tx[m].now

Spent(E, S) == SumFunction([e \in S |-> E[e].amount])
MonthlySpend(E, c, p) ==
    Spent(E, {e \in DOMAIN E : E[e].category = c /\ E[e].live /\ E[e].month = p})

Spending(m) == [category |-> Item(m).category, amount |-> Item(m).amount, live |-> TRUE,
                month |-> IF Item(m).today THEN tx[m].now ELSE tx[m].now - 1,
                under |-> 0]
Edited(m) == [entries[Item(m).entry] EXCEPT !.category = Item(m).category,
                                            !.amount = Item(m).amount, !.under = 0]

(* The rows that the next step of m takes FOR UPDATE, updates or inserts.  *)
(* A row that another transaction has not committed yet is not there.      *)
BudgetRow(m, e) == IF Applies(m, e) /\ limit[e.category].id # 0
                   THEN {<<"budget", e.category>>} ELSE {}
Needs(m) ==
    LET c == Item(m).category IN
    CASE At(m, "spend", "work") -> BudgetRow(m, Spending(m))
      [] At(m, "edit", "work") -> {<<"entry", Item(m).entry>>}
      [] At(m, "edit", "locked") -> BudgetRow(m, Edited(m))
      [] At(m, "cancel", "work") \/ (At(m, "set", "work") /\ ~ Superseded(m)) ->
            IF limit[c].id # 0 THEN {<<"budget", c>>} ELSE {}
      [] At(m, "set", "inserting") -> {<<"budget", c>>}
      [] At(m, "total", "looked") ->
            IF tx[m].saw # Item(m).amount THEN {<<"total", tx[m].now>>} ELSE {}
      [] OTHER -> {}

Free_Always(m) == TRUE
Free(m) == \A n \in Message \ {m} : Needs(m) \cap tx[n].holds = {}

Awaits(m) == {n \in Message \ {m} : Needs(m) \cap tx[n].holds # {}}
Active(m) == tx[m].stage \in {"work", "locked", "inserting", "looked", "showing"}
(* Everyone in S waits for someone in S and is waited for.                 *)
InCycle(m) == \E S \in SUBSET Message :
                 /\ m \in S
                 /\ \A n \in S : Active(n) /\ Awaits(n) \cap S # {}
                                 /\ \E k \in S : n \in Awaits(k)

-----------------------------------------------------------------------------
Idle == [stage |-> "new", order |-> [channel |-> "chat", batch |-> FALSE, items |-> << >>],
         at |-> 0, now |-> 0, holds |-> {}, saw |-> 0, entries |-> << >>, limits |-> << >>,
         alerts |-> {}, tells |-> {}, total |-> 0, checked |-> {}]

Advance(m, t) ==
    LET last == tx[m].at = Len(tx[m].order.items) IN
    tx' = [tx EXCEPT ![m] = [t EXCEPT !.at = @ + 1, !.saw = 0,
                                      !.stage = IF last THEN "written" ELSE "work"]]
Ends(m, how) == tx' = [tx EXCEPT ![m] = [Idle EXCEPT !.stage = how, !.order = tx[m].order]]

Begin(m) ==
    /\ tx[m].stage = "new"
    /\ \E o \in OrdersOf[m] :
          /\ tx' = [tx EXCEPT ![m] = [Idle EXCEPT !.stage = "work", !.at = 1, !.now = month,
                                          !.order = o]]
          /\ \A i \in DOMAIN o.items : o.items[i].kind = "edit" => o.items[i].entry \in DOMAIN entries
    /\ UNCHANGED <<month, entries, limit, born, alerts, period, told, changes, flips>>

-----------------------------------------------------------------------------
(* The check of the budget, after the row of the budget is locked: the     *)
(* month is counted with the entry, missing thresholds are recorded, and   *)
(* the reply tells the highest one unless it is recorded already.          *)

Reached(spent, amount) == {th \in Threshold : spent * 100 >= amount * th}

Recorded_Again(reached, existing) == reached
Recorded_TellsOnly(reached, existing) == {th \in reached : \A x \in reached : x <= th} \ existing
Recorded(reached, existing) == reached \ existing

CheckBudget(m, id, e) ==
    LET row == LimitOf(m, e.category)
        after == [e EXCEPT !.under = row.id]
        Row(th) == <<e.category, row.id, tx[m].now, th>>
    IN IF ~ Applies(m, e) \/ row.id = 0
       THEN Advance(m, [tx[m] EXCEPT !.entries = With(@, id, e)])
       ELSE \E spent \in {MonthlySpend(With(EntriesOf(m), id, after), e.category, tx[m].now)} :
            \E new \in {Recorded(Reached(spent, row.amount), {th \in Threshold : Row(th) \in AlertsOf(m)})} :
               Advance(m, [tx[m] EXCEPT
                  !.entries = With(@, id, after),
                  !.holds = @ \cup {<<"budget", e.category>>},
                  !.checked = @ \cup {e.category},
                  !.alerts = @ \cup {Row(th) : th \in new},
                  !.tells = @ \cup {<<Row(th), m, tx[m].at>> :
                                       th \in {x \in new : \A y \in Reached(spent, row.amount) : y <= x}}])

Spend(m) ==
    /\ At(m, "spend", "work") /\ Free(m)
    /\ CheckBudget(m, <<m, tx[m].at>>, Spending(m))
    /\ UNCHANGED <<month, entries, limit, born, alerts, period, told, changes, flips>>

(* The row of the entry is locked before anything of it is read.           *)
LockEntry(m) ==
    /\ At(m, "edit", "work") /\ Free(m)
    /\ IF entries[Item(m).entry].live
       THEN tx' = [tx EXCEPT ![m].stage = "locked",
                             ![m].holds = @ \cup {<<"entry", Item(m).entry>>}]
       ELSE Advance(m, tx[m])
    /\ UNCHANGED <<month, entries, limit, born, alerts, period, told, changes, flips>>

Same(e, i) == e.category = i.category /\ e.amount = i.amount

Edit(m) ==
    /\ At(m, "edit", "locked") /\ Free(m)
    /\ IF Same(entries[Item(m).entry], Item(m)) THEN Advance(m, tx[m])
       ELSE CheckBudget(m, Item(m).entry, Edited(m))
    /\ UNCHANGED <<month, entries, limit, born, alerts, period, told, changes, flips>>

-----------------------------------------------------------------------------
(* The limit of a category                                                 *)

Put(m, c, row) == [tx[m] EXCEPT !.limits = With(@, c, row),
                                !.holds = @ \cup {<<"budget", c>>}]

SetLimit(m) ==
    /\ At(m, "set", "work") /\ Free(m)
    /\ LET i == Item(m)
           row == LimitOf(m, i.category)
       IN IF Superseded(m) THEN Advance(m, tx[m])
          ELSE IF row.id # 0 THEN Advance(m, Put(m, i.category, [row EXCEPT !.amount = i.amount]))
          ELSE tx' = [tx EXCEPT ![m].stage = "inserting"]
    /\ UNCHANGED <<month, entries, limit, born, alerts, period, told, changes, flips>>

(* Whoever inserts second waits for the first and meets the unique key.    *)
Insert(m) ==
    /\ At(m, "set", "inserting") /\ Free(m)
    /\ LET i == Item(m) IN
       IF limit[i.category].id = 0
       THEN Advance(m, Put(m, i.category, [id |-> born[i.category] + 1, amount |-> i.amount]))
       ELSE IF tx[m].order.batch THEN Advance(m, tx[m]) ELSE Ends(m, "failed")
    /\ UNCHANGED <<month, entries, limit, born, alerts, period, told, changes, flips>>

CancelLimit(m) ==
    /\ At(m, "cancel", "work") /\ Free(m)
    /\ LET c == Item(m).category IN
       Advance(m, IF LimitOf(m, c).id = 0 THEN tx[m] ELSE Put(m, c, NoBudget))
    /\ UNCHANGED <<month, entries, limit, born, alerts, period, told, changes, flips>>

-----------------------------------------------------------------------------
(* The total of the current month, from chat                               *)

LookTotal(m) ==
    /\ At(m, "total", "work")
    /\ tx' = [tx EXCEPT ![m].stage = "looked", ![m].saw = period[tx[m].now][Total]]
    /\ UNCHANGED <<month, entries, limit, born, alerts, period, told, changes, flips>>

(* An assignment of the same amount writes nothing and locks nothing. A    *)
(* row that came meets the unique key, a row that went away is a stale     *)
(* update.                                                                 *)
WriteTotal(m) ==
    /\ At(m, "total", "looked") /\ Free(m)
    /\ IF tx[m].saw = Item(m).amount THEN tx' = [tx EXCEPT ![m].stage = "showing"]
       ELSE IF (tx[m].saw = 0) = (period[tx[m].now][Total] = 0)
       THEN tx' = [tx EXCEPT ![m].stage = "showing", ![m].total = Item(m).amount,
                             ![m].holds = @ \cup {<<"total", tx[m].now>>}]
       ELSE Ends(m, "failed")
    /\ UNCHANGED <<month, entries, limit, born, alerts, period, told, changes, flips>>

(* In the overview a row of the month stands before the monthly limit, and *)
(* the total is the sum of the categories where none is set.               *)
Effective(m, c) == IF period[tx[m].now][c] # 0 THEN period[tx[m].now][c] ELSE LimitOf(m, c).amount
Allocated(m) == SumFunction([c \in Category |-> Effective(m, c)])
Shown(m) == IF TotalOf(m) # 0 THEN TotalOf(m) ELSE Allocated(m)

(* The reply asserts that the overview has a total.                        *)
ShowTotal(m) ==
    /\ At(m, "total", "showing")
    /\ IF Shown(m) = 0 THEN Ends(m, "asserted") ELSE Advance(m, tx[m])
    /\ UNCHANGED <<month, entries, limit, born, alerts, period, told, changes, flips>>

-----------------------------------------------------------------------------
(* How items and transactions end                                          *)

(* A savepoint around each item of a batch: no rate, an amount out of      *)
(* range, or the victim of a deadlock; the rest of the batch goes on.      *)
ItemFails_Again(m) ==
    /\ Active(m) /\ tx[m].order.batch
    /\ tx' = [tx EXCEPT ![m].stage = "work"]
    /\ UNCHANGED <<month, entries, limit, born, alerts, period, told, changes, flips>>
ItemFails(m) ==
    /\ Active(m) /\ tx[m].order.batch
    /\ Advance(m, tx[m])
    /\ UNCHANGED <<month, entries, limit, born, alerts, period, told, changes, flips>>

(* The alerts of a deleted row go with it; only chat replies carry texts.  *)
Commit(m) ==
    /\ tx[m].stage = "written"
    /\ entries' = EntriesOf(m)
    /\ limit' = [c \in Category |-> LimitOf(m, c)]
    /\ born' = [c \in Category |-> IF LimitOf(m, c).id > born[c] THEN LimitOf(m, c).id ELSE born[c]]
    /\ alerts' = {a \in AlertsOf(m) : LimitOf(m, a[1]).id = a[2]}
    /\ period' = [period EXCEPT ![tx[m].now][Total] = TotalOf(m)]
    /\ told' = told \cup (IF tx[m].order.channel = "chat" THEN tx[m].tells ELSE {})
    /\ Ends(m, "done")
    /\ UNCHANGED <<month, changes, flips>>

(* The process dies, the attempt is fenced, or the connection is lost.     *)
Abort(m) ==
    /\ Active(m) \/ tx[m].stage = "written"
    /\ Ends(m, "failed")
    /\ UNCHANGED <<month, entries, limit, born, alerts, period, told, changes, flips>>

-----------------------------------------------------------------------------
(* Undo and restore check no budget. One row is locked, changed and let go *)
(* again: nothing in between depends on another row.                       *)
Unlocked(key) == \A m \in Message : key \notin tx[m].holds

Flip(e) ==
    /\ flips < MaxFlips /\ flips' = flips + 1
    /\ Unlocked(<<"entry", e>>)
    /\ entries' = [entries EXCEPT ![e].live = ~ @, ![e].under = 0]
    /\ UNCHANGED <<month, limit, born, alerts, period, tx, told, changes>>

(* Period budgets are set (a # 0) or deleted in one transaction; a writer  *)
(* that meets another one fails as a whole and changes nothing.            *)
PutPeriod(k, a) ==
    /\ changes < MaxChanges /\ changes' = changes + 1
    /\ k = Total => Unlocked(<<"total", month>>)
    /\ period[month][k] # a
    /\ period' = [period EXCEPT ![month][k] = a]
    /\ UNCHANGED <<month, entries, limit, born, alerts, tx, told, flips>>

(* The Web answers from a second transaction, after its commit; the client *)
(* API from its own, and a key it has seen changes nothing.                *)
WebChanges(k) == \E a \in Amount \cup {0} : PutPeriod(k, a)
ClientChanges(k) == \E a \in Amount \cup {0} : PutPeriod(k, a)

MonthTurns ==
    /\ month < LastMonth /\ month' = month + 1
    /\ UNCHANGED <<entries, limit, born, alerts, period, tx, told, changes, flips>>

-----------------------------------------------------------------------------
(* Limits may have been set before, with no alert due yet.                 *)
Init ==
    /\ month = 1
    /\ entries = Opening
    /\ limit \in [Category -> {NoBudget} \cup {[id |-> 1, amount |-> a] : a \in Amount}]
    /\ born = [c \in Category |-> limit[c].id]
    /\ alerts = {} /\ told = {}
    /\ period = [p \in Month |-> [k \in Key |-> 0]]
    /\ tx = [m \in Message |-> Idle]
    /\ changes = 0 /\ flips = 0

Step(m) == \/ Spend(m) \/ LockEntry(m) \/ Edit(m)
           \/ SetLimit(m) \/ Insert(m) \/ CancelLimit(m)
           \/ LookTotal(m) \/ WriteTotal(m) \/ ShowTotal(m)
           \/ Commit(m)

Victim(m) == InCycle(m) /\ ItemFails(m)

Next == \/ \E m \in Message : Begin(m) \/ Step(m) \/ ItemFails(m) \/ Abort(m)
        \/ \E e \in DOMAIN entries : Flip(e)
        \/ \E k \in Key : WebChanges(k) \/ ClientChanges(k)
        \/ MonthTurns

(* A handler whose rows are free goes on, and PostgreSQL breaks a cycle of *)
(* waiting transactions; nobody has to write, to undo or to fail.          *)
Fairness == \A m \in Message : WF_vars(Step(m) \/ Victim(m))

Spec == Init /\ [][Next]_vars /\ Fairness

-----------------------------------------------------------------------------
Expense == [category : Category, amount : Nat, live : BOOLEAN, month : Month, under : Nat]
AlertRow == Category \X Nat \X Month \X Threshold
Lock == ({"budget"} \X Category) \cup ({"entry"} \X DOMAIN entries) \cup ({"total"} \X Month)
Limit == {r \in [id : Nat, amount : Nat] : (r.id = 0) = (r.amount = 0)}
Stage == {"new", "work", "locked", "inserting", "looked", "showing",
          "written", "done", "failed", "asserted"}

TransactionOK(t) ==
    /\ DOMAIN t = {"stage", "order", "at", "now", "holds", "saw", "entries", "limits",
                   "alerts", "tells", "total", "checked"}
    /\ t.stage \in Stage /\ t.at \in Nat /\ t.now \in Month
    /\ t.order.channel \in {"chat", "api"}
    /\ t.holds \subseteq Lock
    /\ {t.saw, t.total} \subseteq Amount \cup {0}
    /\ IsFiniteSet(DOMAIN t.entries) /\ DOMAIN t.entries \subseteq EntryId
    /\ \A e \in DOMAIN t.entries : t.entries[e] \in Expense
    /\ DOMAIN t.limits \subseteq Category /\ \A c \in DOMAIN t.limits : t.limits[c] \in Limit
    /\ t.alerts \subseteq AlertRow /\ t.tells \subseteq AlertRow \X Message \X Nat
    /\ t.checked \subseteq Category

TypeOK ==
    /\ month \in 1..LastMonth /\ changes \in 0..MaxChanges /\ flips \in 0..MaxFlips
    /\ IsFiniteSet(DOMAIN entries) /\ DOMAIN entries \subseteq EntryId
    /\ \A e \in DOMAIN entries : entries[e] \in Expense
    /\ limit \in [Category -> Limit] /\ born \in [Category -> Nat]
    /\ alerts \subseteq AlertRow /\ told \subseteq AlertRow \X Message \X Nat
    /\ period \in [Month -> [Key -> Amount \cup {0}]]
    /\ tx = [m \in Message |-> tx[m]] /\ \A m \in Message : TransactionOK(tx[m])

(* Row ids are used once, and an alert belongs to a row that stands.       *)
RowsOK == /\ \A c \in Category : limit[c].id <= born[c]
          /\ \A a \in alerts : a[2] # 0 /\ limit[a[1]].id = a[2]

(* A row held by one transaction is held by no other.                      *)
OneHolder == \A m \in Message : \A n \in Message \ {m} : tx[m].holds \cap tx[n].holds = {}

Holds(m, c) == <<"budget", c>> \in tx[m].holds

(* A transaction is at an item of its order. One without a batch does one  *)
(* thing, so that it has written nothing as long as it is at work.         *)
AtWork(m) ==
    Active(m) =>
        /\ tx[m].order \in OrdersOf[m] /\ tx[m].at \in DOMAIN tx[m].order.items
        /\ tx[m].now # 0
        /\ Item(m).kind = "edit" => Item(m).entry \in DOMAIN entries
        /\ tx[m].order.batch \/ (/\ DOMAIN tx[m].entries = {} /\ DOMAIN tx[m].limits = {}
                                  /\ tx[m].tells = {} /\ tx[m].checked = {})

(* What a transaction wrote for a category it wrote under the lock of the  *)
(* budget's row: limits, alerts, and entries that were counted.            *)
WritesLocked(m) ==
    /\ \A c \in DOMAIN tx[m].limits :
          Holds(m, c) /\ tx[m].limits[c].id \in {0, limit[c].id, born[c] + 1}
    /\ \A a \in tx[m].alerts : Holds(m, a[1]) /\ a[2] # 0
    /\ \A e \in DOMAIN tx[m].entries :
          tx[m].entries[e].under # 0 => Holds(m, tx[m].entries[e].category)
    /\ \A c \in tx[m].checked : Holds(m, c)

SameMonth(x, y) == x[1][1] = y[1][1] /\ x[1][2] = y[1][2] /\ x[1][3] = y[1][3]
UpTo(x) == {<<x[1][1], x[1][2], x[1][3], th>> : th \in {h \in Threshold : h <= x[1][4]}}

(* What a reply will tell is recorded with everything below it, for the    *)
(* row that counts, once, and above what was told before.                  *)
TellsOK(m) ==
    /\ \A x \in tx[m].tells :
          /\ x[1] \in tx[m].alerts /\ LimitOf(m, x[1][1]).id = x[1][2]
          /\ UpTo(x) \subseteq AlertsOf(m)
          /\ \A y \in tx[m].tells : y[1] = x[1] => y = x
          /\ \A y \in told : SameMonth(x, y) => y[1][4] < x[1][4]
    /\ tx[m].stage = "inserting" => \A x \in tx[m].tells : x[1][1] # Item(m).category

(* What was told is recorded as long as its budget stands.                 *)
ToldRecorded ==
    \A y \in told : /\ y[1][2] \in 1..born[y[1][1]]
                    /\ limit[y[1][1]].id = y[1][2] => UpTo(y) \subseteq alerts

(* What of the month was checked under the row id of c.                    *)
CheckedSpend(E, c, id, p) ==
    Spent(E, {e \in DOMAIN E : /\ E[e].category = c /\ E[e].under = id
                               /\ E[e].live /\ E[e].month = p})

(* What was checked under a budget has its alerts, seen by the transaction *)
(* that checked last: nobody else can add to it before it commits.         *)
CheckedRecorded(m) ==
    \A c \in tx[m].checked \ DOMAIN tx[m].limits :
       /\ limit[c].id # 0
       /\ \A th \in Threshold :
             CheckedSpend(EntriesOf(m), c, limit[c].id, tx[m].now) * 100 >= limit[c].amount * th
                => <<c, limit[c].id, tx[m].now, th>> \in AlertsOf(m)

(* The invariant: every variable keeps its shape, rows have one holder,    *)
(* and what transactions are about to commit fits what is committed.       *)
IInv == /\ TypeOK /\ RowsOK /\ OneHolder /\ ToldRecorded
        /\ \A m \in Message : AtWork(m) /\ WritesLocked(m) /\ TellsOK(m) /\ CheckedRecorded(m)

(* Each threshold of a budget is told at most once in a month, and 80      *)
(* percent is never told after 100 were, whatever messages meet and        *)
(* whichever of them are rolled back or undone (_check_budget).            *)
TellsOnceUpwards ==
    [][\A x \in told' \ told : \A y \in told' :
          y[1][1] = x[1][1] /\ y[1][2] = x[1][2] /\ y[1][3] = x[1][3] /\ y # x
            => y[1][4] # x[1][4] /\ (y \in told => y[1][4] < x[1][4])]_vars

(* No threshold is missed: when a message commits an expense it checked,   *)
(* the spending that was checked under that budget, by whomever, has its   *)
(* alerts recorded. Two messages that both stay below alone and exceed     *)
(* together need the lock that _check_budget takes before it counts.       *)
NoThresholdMissed ==
    [][\A m \in Message : tx[m].stage = "written" /\ tx'[m].stage = "done" =>
          \A c \in tx[m].checked \ DOMAIN tx[m].limits :
             LET spent == CheckedSpend(entries', c, limit'[c].id, tx[m].now) IN
             \A th \in Threshold : spent * 100 >= limit'[c].amount * th
                => <<c, limit'[c].id, tx[m].now, th>> \in alerts']_vars

(* However batches wait for each other's rows, every message comes to an   *)
(* end.                                                                    *)
EveryMessageEnds ==
    \A m \in Message : Active(m) ~> tx[m].stage \in {"done", "failed", "asserted"}

(* A threshold that is recorded was told to someone.                       *)
EveryAlertIsTold ==
    \A a \in alerts : \E x \in told : /\ x[1][1] = a[1] /\ x[1][2] = a[2]
                                      /\ x[1][3] = a[3] /\ x[1][4] >= a[4]

(* After a total was set, the overview of the same transaction has one.    *)
TotalIsSet == \A m \in Message : tx[m].stage # "asserted"
=============================================================================
