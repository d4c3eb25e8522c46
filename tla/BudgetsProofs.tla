--------------------------- MODULE BudgetsProofs ---------------------------
(***************************************************************************)
(* Proofs about Budgets: what messages tell and record about the alerts of *)
(* a budget, for any number of messages, orders, categories and months.    *)
(* The last part does the same for an instance of AccountBook.             *)
(* The sums of the model are folds over finite sets; the first section     *)
(* proves what is needed of them, by induction over the subsets of a set.  *)
(***************************************************************************)
EXTENDS Budgets, FiniteSetTheorems, WellFoundedInduction, TLAPS

(* Induction over the subsets of a finite set: what holds of a set when it *)
(* holds of all its proper subsets holds of all of them. Q is the set of   *)
(* those it holds of.                                                      *)
LEMMA SetInduction ==
    ASSUME NEW S, IsFiniteSet(S), NEW Q,
           \A T \in SUBSET S : (\A U \in SUBSET T : U # T => U \in Q) => T \in Q
    PROVE  SUBSET S \subseteq Q
  <1> DEFINE Bad == (SUBSET S) \ Q
  <1> SUFFICES ASSUME Bad # {} PROVE FALSE
    OBVIOUS
  <1>1. IsWellFoundedOn(StrictSubsetOrdering(S), SUBSET S)
    <2>1. FiniteSubsetsOf(S) = SUBSET S
      BY FS_FiniteSubsetsOfFinite
    <2>2. IsWellFoundedOn(StrictSubsetOrdering(S), FiniteSubsetsOf(S))
      BY FS_StrictSubsetOrderingWellFounded
    <2> QED
      BY <2>1, <2>2
  <1>2. PICK T \in Bad : \A U \in Bad : <<U, T>> \notin StrictSubsetOrdering(S)
    <2>1. Bad \subseteq SUBSET S
      OBVIOUS
    <2> DEFINE R == StrictSubsetOrdering(S)
    <2>2. IsWellFoundedOn(R, SUBSET S)
      BY <1>1
    <2> HIDE DEF Bad, R
    <2>3. \E T \in Bad : \A U \in Bad : <<U, T>> \notin R
      BY <2>1, <2>2, WFMin, SMT
    <2> QED
      BY <2>3 DEF R
  <1>3. \A U \in SUBSET T : U # T => U \in Q
    BY <1>2 DEF StrictSubsetOrdering
  <1> QED
    BY <1>3

(* How the fold goes through a set: one element, chosen, and then the      *)
(* rest.                                                                   *)
Pick(s) == CHOOSE x \in s : TRUE
Body(F, g, s) == IF s = {} THEN 0 ELSE F[Pick(s)] + g[s \ {Pick(s)}]
Iter(F, S) == CHOOSE iter : iter = [s \in SUBSET S |->
                  IF s = {} THEN 0 ELSE LET x == Pick(s) IN F[x] + iter[s \ {x}]]

(* The chosen element is one of them.                                      *)
LEMMA PickIn == ASSUME NEW s, s # {} PROVE Pick(s) \in s
  BY DEF Pick

(* The community modules' fold, with its local function named.             *)
LEMMA Unfold == ASSUME NEW F, NEW S PROVE SumFunctionOnSet(F, S) = Iter(F, S)[S]
  BY DEF SumFunctionOnSet, FoldFunctionOnSet, MapThenFoldSet, Iter, Pick

(* There is a function that satisfies the recursive equation for all       *)
(* subsets up to a size.                                                   *)
LEMMA Levels ==
    ASSUME NEW F, NEW S, IsFiniteSet(S), NEW T \in SUBSET S
    PROVE  \E g : /\ g = [s \in SUBSET S |-> g[s]]
                  /\ \A s \in SUBSET S : Cardinality(s) <= Cardinality(T) => g[s] = Body(F, g, s)
  <1> DEFINE Good(g, R) ==
                /\ g = [s \in SUBSET S |-> g[s]]
                /\ \A s \in SUBSET S : Cardinality(s) <= Cardinality(R) => g[s] = Body(F, g, s)
             Q == {R \in SUBSET S : \E g : Good(g, R)}
  <1>0. \A s \in SUBSET S : IsFiniteSet(s) /\ Cardinality(s) \in Nat /\ (Cardinality(s) = 0 <=> s = {})
    BY FS_Subset, FS_CardinalityType, FS_EmptySet
  <1>1. ASSUME NEW R \in SUBSET S, \A U \in SUBSET R : U # R => U \in Q
        PROVE  R \in Q
    <2>1. CASE R = {}
      <3> DEFINE g == [s \in SUBSET S |-> 0]
      <3>1. Good(g, R)
        BY <1>0, <2>1 DEF Body
      <3> QED
        BY <3>1
    <2>2. CASE R # {}
      <3>1. PICK x \in R : TRUE
        BY <2>2
      <3>2. Cardinality(R) = Cardinality(R \ {x}) + 1 /\ R \ {x} \in Q
        <4>1. R \ {x} \in Q
          BY <1>1, <3>1
        <4> HIDE DEF Q
        <4>2. Cardinality(R \ {x}) = Cardinality(R) - 1
          BY <1>0, <3>1, FS_RemoveElement
        <4> QED
          BY <1>0, <4>1, <4>2
      <3>3. PICK g : Good(g, R \ {x})
        BY <3>2
      <3> DEFINE h == [s \in SUBSET S |-> Body(F, g, s)]
      <3>4. ASSUME NEW s \in SUBSET S, Cardinality(s) <= Cardinality(R)
            PROVE  h[s] = Body(F, h, s)
        <4>1. CASE s = {}
          BY <4>1 DEF Body
        <4>2. CASE s # {}
          <5> DEFINE u == s \ {Pick(s)}
          <5>1. u \in SUBSET S /\ Cardinality(s) = Cardinality(u) + 1
            BY <1>0, <4>2, PickIn, FS_RemoveElement
          <5>2. Cardinality(u) <= Cardinality(R \ {x})
            BY <1>0, <3>2, <3>4, <5>1
          <5>3. g[u] = Body(F, g, u)
            BY <3>3, <5>1, <5>2
          <5>4. h[u] = g[u] /\ h[s] = Body(F, g, s)
            BY <5>1, <5>3
          <5> HIDE DEF h
          <5> QED
            BY <4>2, <5>4 DEF Body
        <4> QED
          BY <4>1, <4>2
      <3>5. Good(h, R)
        BY <3>4
      <3> HIDE DEF h
      <3> QED
        BY <3>5
    <2> QED
      BY <2>1, <2>2
  <1> HIDE DEF Q
  <1>2. SUBSET S \subseteq Q
    BY <1>1, SetInduction
  <1> QED
    BY <1>2 DEF Q

(* The recursive equation of the fold.                                     *)
LEMMA IterDef ==
    ASSUME NEW F, NEW S, IsFiniteSet(S)
    PROVE  \A s \in SUBSET S : Iter(F, S)[s] = Body(F, Iter(F, S), s)
  <1>1. PICK g : /\ g = [s \in SUBSET S |-> g[s]]
                 /\ \A s \in SUBSET S : Cardinality(s) <= Cardinality(S) => g[s] = Body(F, g, s)
    <2>1. S \in SUBSET S
      OBVIOUS
    <2> QED
      BY <2>1, Levels, Zenon
  <1>2. \A s \in SUBSET S : Cardinality(s) <= Cardinality(S)
    BY FS_Subset
  <1>3. g = [s \in SUBSET S |-> Body(F, g, s)]
    BY <1>1, <1>2
  <1>4. Iter(F, S) = [s \in SUBSET S |-> Body(F, Iter(F, S), s)]
    BY <1>3 DEF Iter, Body
  <1> QED
    BY <1>4

(* The fold depends on nothing but the elements it goes through.           *)
LEMMA IterSame ==
    ASSUME NEW F, NEW G, NEW S, IsFiniteSet(S), NEW T \in SUBSET S, \A x \in T : F[x] = G[x]
    PROVE  Iter(F, S)[T] = Iter(G, T)[T]
  <1> DEFINE Q == {U \in SUBSET T : Iter(F, S)[U] = Iter(G, T)[U]}
  <1>0. IsFiniteSet(T)
    BY FS_Subset
  <1>1. ASSUME NEW U \in SUBSET T, \A V \in SUBSET U : V # U => V \in Q
        PROVE  U \in Q
    <2>1. Iter(F, S)[U] = Body(F, Iter(F, S), U) /\ Iter(G, T)[U] = Body(G, Iter(G, T), U)
      BY <1>0, IterDef
    <2>2. CASE U = {}
      BY <2>1, <2>2 DEF Body
    <2>3. CASE U # {}
      <3>1. Pick(U) \in U /\ U \ {Pick(U)} \in Q
        BY <1>1, <2>3, PickIn
      <3> QED
        BY <2>1, <2>3, <3>1 DEF Body
    <2> QED
      BY <2>2, <2>3
  <1> HIDE DEF Q
  <1>2. T \in Q
    BY <1>0, <1>1, SetInduction
  <1> QED
    BY <1>2 DEF Q

(* The same, said of sums.                                                 *)
LEMMA SumSame ==
    ASSUME NEW F, NEW G, NEW S, IsFiniteSet(S), NEW T \in SUBSET S, \A x \in T : F[x] = G[x]
    PROVE  Iter(F, S)[T] = SumFunctionOnSet(G, T)
  BY IterSame, Unfold

(* Nothing sums up to zero.                                                *)
LEMMA SumEmpty == ASSUME NEW F PROVE SumFunctionOnSet(F, {}) = 0
  <1>1. IsFiniteSet({})
    BY FS_EmptySet
  <1>2. Iter(F, {})[{}] = Body(F, Iter(F, {}), {})
    BY <1>1, IterDef
  <1> QED
    BY <1>2, Unfold DEF Body

(* A sum of numbers is a number.                                           *)
LEMMA SumTyped ==
    ASSUME NEW F, NEW S, IsFiniteSet(S), NEW N \in {Nat, Int}, \A x \in S : F[x] \in N
    PROVE  SumFunctionOnSet(F, S) \in N
  <1> DEFINE I == Iter(F, S)
             Q == {T \in SUBSET S : I[T] \in N}
  <1>1. ASSUME NEW T \in SUBSET S, \A U \in SUBSET T : U # T => U \in Q
        PROVE  T \in Q
    <2>1. I[T] = Body(F, I, T)
      BY IterDef
    <2> HIDE DEF I
    <2>2. CASE T = {}
      BY <2>1, <2>2 DEF Body
    <2>3. CASE T # {}
      <3>1. Pick(T) \in T /\ T \ {Pick(T)} \in Q
        BY <1>1, <2>3, PickIn
      <3>2. I[T] = F[Pick(T)] + I[T \ {Pick(T)}]
        BY <2>1, <2>3 DEF Body
      <3> QED
        BY <3>1, <3>2
    <2> QED
      BY <2>2, <2>3
  <1> HIDE DEF Q, I
  <1>2. S \in Q
    BY <1>1, SetInduction
  <1> QED
    BY <1>2, Unfold DEF Q, I

(* Any element can be taken out of a sum, whichever the fold chose first.  *)
LEMMA SumRemove ==
    ASSUME NEW F, NEW S, IsFiniteSet(S), \A x \in S : F[x] \in Int, NEW a \in S
    PROVE  SumFunctionOnSet(F, S) = F[a] + SumFunctionOnSet(F, S \ {a})
  <1> DEFINE I == Iter(F, S)
             Q == {T \in SUBSET S : \A x \in T : I[T] = F[x] + I[T \ {x}]}
  <1>0. \A T \in SUBSET S : I[T] \in Int
    <2> TAKE T \in SUBSET S
    <2>1. IsFiniteSet(T)
      BY FS_Subset
    <2>2. I[T] = SumFunctionOnSet(F, T)
      BY SumSame
    <2> QED
      BY <2>1, <2>2, SumTyped
  <1>1. ASSUME NEW T \in SUBSET S, \A U \in SUBSET T : U # T => U \in Q
        PROVE  T \in Q
    <2>1. \A U \in SUBSET S : I[U] = Body(F, I, U)
      BY IterDef
    <2> HIDE DEF I
    <2> SUFFICES ASSUME NEW x \in T PROVE I[T] = F[x] + I[T \ {x}]
      OBVIOUS
    <2>2. Pick(T) \in T /\ I[T] = F[Pick(T)] + I[T \ {Pick(T)}]
      BY <2>1, PickIn DEF Body
    <2>3. CASE x = Pick(T)
      BY <2>2, <2>3
    <2>4. CASE x # Pick(T)
      <3> DEFINE p == Pick(T)
      <3>1. p \in T /\ I[T] = F[p] + I[T \ {p}]
        BY <2>2
      <3>2. x \in T \ {p} /\ p \in T \ {x}
        BY <2>4, <3>1
      <3> HIDE DEF p
      <3>3. T \ {p} \in Q /\ T \ {x} \in Q
        BY <1>1, <3>1
      <3>4. I[T \ {p}] = F[x] + I[(T \ {p}) \ {x}] /\ I[T \ {x}] = F[p] + I[(T \ {x}) \ {p}]
        BY <3>2, <3>3
      <3>5. (T \ {p}) \ {x} = (T \ {x}) \ {p}
        OBVIOUS
      <3>6. F[x] \in Int /\ F[p] \in Int /\ I[(T \ {x}) \ {p}] \in Int
        <4>1. (T \ {x}) \ {p} \in SUBSET S
          OBVIOUS
        <4> QED
          BY <1>0, <3>1, <4>1
      <3>7. \A f, g, z \in Int : f + (g + z) = g + (f + z)
        OBVIOUS
      <3>8. I[T] = F[p] + (F[x] + I[(T \ {x}) \ {p}])
        BY <3>1, <3>4, <3>5
      <3> QED
        BY <3>4, <3>6, <3>7, <3>8
    <2> QED
      BY <2>3, <2>4
  <1> HIDE DEF Q, I
  <1>2. S \in Q
    BY <1>1, SetInduction
  <1>3. I[S] = F[a] + I[S \ {a}]
    BY <1>2 DEF Q
  <1>4. I[S] = SumFunctionOnSet(F, S) /\ I[S \ {a}] = SumFunctionOnSet(F, S \ {a})
    BY SumSame DEF I
  <1> QED
    BY <1>3, <1>4

(* Functions that agree on a set have the same sum over it.                *)
LEMMA SumAgree ==
    ASSUME NEW F, NEW G, NEW S, IsFiniteSet(S), \A x \in S : F[x] = G[x]
    PROVE  SumFunctionOnSet(F, S) = SumFunctionOnSet(G, S)
  <1>1. S \in SUBSET S
    OBVIOUS
  <1> QED
    BY <1>1, SumSame, Unfold

(* Part of a set of expenses sums up to no more than the whole.            *)
LEMMA SumPart ==
    ASSUME NEW F, NEW G, NEW S, IsFiniteSet(S), NEW T \in SUBSET S,
           \A x \in S : F[x] \in Nat, \A x \in T : G[x] = F[x]
    PROVE  /\ SumFunctionOnSet(F, S) \in Nat /\ SumFunctionOnSet(G, T) \in Nat
           /\ SumFunctionOnSet(G, T) <= SumFunctionOnSet(F, S)
  <1> DEFINE I(R) == SumFunctionOnSet(F, R)
             Q == {U \in SUBSET S : T \subseteq U => I(T) <= I(U)}
  <1>0. \A R \in SUBSET S : IsFiniteSet(R) /\ I(R) \in Nat
    <2> TAKE R \in SUBSET S
    <2>1. IsFiniteSet(R)
      BY FS_Subset
    <2> QED
      BY <2>1, SumTyped
  <1>1. ASSUME NEW U \in SUBSET S, \A V \in SUBSET U : V # U => V \in Q
        PROVE  U \in Q
    <2> SUFFICES ASSUME T \subseteq U PROVE I(T) <= I(U)
      OBVIOUS
    <2>1. CASE U = T
      BY <1>0, <2>1
    <2>2. CASE U # T
      <3>1. PICK a \in U : a \notin T
        BY <2>2
      <3>2. I(U) = F[a] + I(U \ {a})
        <4>1. IsFiniteSet(U) /\ \A x \in U : F[x] \in Int
          BY <1>0
        <4> QED
          BY <4>1, SumRemove
      <3>3. U \ {a} \in Q /\ T \subseteq U \ {a}
        BY <1>1, <3>1
      <3>4. I(T) \in Nat /\ I(U \ {a}) \in Nat /\ F[a] \in Nat
        BY <1>0
      <3>5. I(T) <= I(U \ {a})
        BY <3>3
      <3> HIDE DEF I
      <3> QED
        BY <3>2, <3>4, <3>5
    <2> QED
      BY <2>1, <2>2
  <1> HIDE DEF Q
  <1>2. S \in Q
    BY <1>1, SetInduction
  <1>3. I(T) = SumFunctionOnSet(G, T)
    BY <1>0, SumAgree
  <1> QED
    BY <1>0, <1>2, <1>3 DEF Q

-----------------------------------------------------------------------------
(* Steps of a transaction                                                  *)

shared == <<month, entries, limit, born, alerts, period, told, changes, flips>>
(* What the invariant says of one transaction.                             *)
Own(m) == AtWork(m) /\ WritesLocked(m) /\ TellsOK(m) /\ CheckedRecorded(m)

(* Nobody else holds what m holds.                                         *)
Alone(m) == \A n \in Message \ {m} : tx[m].holds \cap tx[n].holds = {}

(* A step of m that leaves what is committed concerns nobody else.         *)
LEMMA OthersStay ==
    ASSUME IInv, NEW m \in Message, NEW t, tx' = [tx EXCEPT ![m] = t], UNCHANGED shared,
           TransactionOK(t), Own(m)', Alone(m)'
    PROVE  IInv'
  <1> USE DEF IInv
  <1>1. \A n \in Message \ {m} : tx'[n] = tx[n]
    BY DEF TypeOK
  <1>2. tx'[m] = t
    BY DEF TypeOK
  <1>3. TypeOK'
    <2>1. tx' = [n \in Message |-> tx'[n]]
      BY DEF TypeOK
    <2>2. \A n \in Message : TransactionOK(tx[n])'
      BY <1>1, <1>2 DEF TypeOK, TransactionOK, Lock, shared
    <2> QED
      BY <2>1, <2>2 DEF TypeOK, shared
  <1>4. RowsOK' /\ ToldRecorded'
    BY DEF RowsOK, ToldRecorded, UpTo, shared
  <1>5. OneHolder'
    BY <1>1 DEF OneHolder, Alone
  <1>6. ASSUME NEW n \in Message \ {m} PROVE Own(n)'
    <2>1. tx'[n] = tx[n]
      BY <1>1
    <2>2. Own(n)
      BY DEF Own
    <2>3. AtWork(n)' /\ WritesLocked(n)'
      BY <2>1, <2>2 DEF Own, shared, AtWork, Active, Item, WritesLocked, Holds
    <2>4. TellsOK(n)'
      BY <2>1, <2>2 DEF Own, shared, TellsOK, Item, LimitOf, AlertsOf, SameMonth, UpTo
    <2>5. CheckedRecorded(n)'
      BY <2>1, <2>2 DEF Own, shared, CheckedRecorded, EntriesOf, AlertsOf
    <2> QED
      BY <2>3, <2>4, <2>5 DEF Own
  <1> QED
    BY <1>3, <1>4, <1>5, <1>6 DEF Own

(* The item that a transaction is at.                                      *)
LEMMA ItemTyped ==
    ASSUME IInv, NEW m \in Message, Active(m)
    PROVE  /\ Item(m) \in OrderItem /\ (Item(m).kind = "total" => Item(m).amount \in Amount)
           /\ tx[m].order.batch \in BOOLEAN /\ (tx[m].order.batch => Item(m).kind \in {"spend", "set"})
           /\ tx[m].order.items \in Seq(OrderItem) /\ tx[m].at \in 1..Len(tx[m].order.items)
           /\ tx[m].order.batch \/ (Len(tx[m].order.items) = 1 /\ tx[m].at = 1)
           /\ tx[m].now \in Month \ {0} /\ tx[m].order \in OrdersOf[m]
  <1>1. AtWork(m) /\ TransactionOK(tx[m])
    BY DEF IInv, TypeOK
  <1>2. tx[m].order \in OrdersOf[m] /\ tx[m].at \in DOMAIN tx[m].order.items /\ tx[m].now # 0
    BY <1>1 DEF AtWork
  <1>3. /\ tx[m].order.items \in Seq(OrderItem) /\ tx[m].order.batch \in BOOLEAN
        /\ tx[m].order.batch \/ Len(tx[m].order.items) = 1
        /\ tx[m].order.batch => Item(m).kind \in {"spend", "set"}
        /\ Item(m).kind = "total" => Item(m).amount \in Amount
    BY <1>2, BudgetsAssumption DEF Item
  <1>4. tx[m].at \in 1..Len(tx[m].order.items) /\ Item(m) \in OrderItem
    BY <1>2, <1>3 DEF Item
  <1> QED
    BY <1>1, <1>2, <1>3, <1>4 DEF TransactionOK

(* The transaction that goes on to its next item with what t says.         *)
Next1(m, t) == [t EXCEPT !.at = @ + 1, !.saw = 0,
                         !.stage = IF tx[m].at = Len(tx[m].order.items) THEN "written" ELSE "work"]

(* Where a transaction is when an item is done.                            *)
LEMMA Advanced ==
    ASSUME IInv, NEW m \in Message, Active(m), NEW t, TransactionOK(t), t.order = tx[m].order,
           t.at = tx[m].at
    PROVE  LET u == Next1(m, t) IN
           /\ TransactionOK(u) /\ u.at = tx[m].at + 1 /\ u.stage \in {"written", "work"}
           /\ u.stage = "work" => u.at \in DOMAIN u.order.items /\ u.order.batch
           /\ u.order = t.order /\ u.now = t.now /\ u.holds = t.holds /\ u.entries = t.entries
           /\ u.limits = t.limits /\ u.alerts = t.alerts /\ u.tells = t.tells /\ u.total = t.total
           /\ u.checked = t.checked
  <1> DEFINE u == Next1(m, t)
  <1>1. /\ DOMAIN u = DOMAIN t /\ u.at = tx[m].at + 1 /\ u.saw = 0
        /\ u.stage = IF tx[m].at = Len(tx[m].order.items) THEN "written" ELSE "work"
        /\ u.order = t.order /\ u.now = t.now /\ u.holds = t.holds /\ u.entries = t.entries
        /\ u.limits = t.limits /\ u.alerts = t.alerts /\ u.tells = t.tells /\ u.total = t.total
        /\ u.checked = t.checked
    BY DEF TransactionOK, Next1
  <1> HIDE DEF u
  <1>2. u.stage = "work" => u.at \in DOMAIN u.order.items /\ u.order.batch
    <2>1. /\ tx[m].order.items \in Seq(OrderItem) /\ tx[m].at \in 1..Len(tx[m].order.items)
          /\ tx[m].order.batch \/ (Len(tx[m].order.items) = 1 /\ tx[m].at = 1)
      BY ItemTyped
    <2>2. u.stage = "work" => tx[m].at # Len(tx[m].order.items)
      BY <1>1
    <2>3. DOMAIN tx[m].order.items = 1..Len(tx[m].order.items) /\ Len(tx[m].order.items) \in Nat
      BY <2>1
    <2>4. ASSUME u.stage = "work" PROVE tx[m].at + 1 \in DOMAIN tx[m].order.items /\ tx[m].order.batch
      <3> DEFINE l == Len(tx[m].order.items)
      <3>1. l \in Nat /\ tx[m].at \in 1..l /\ tx[m].at # l /\ DOMAIN tx[m].order.items = 1..l
        BY <2>1, <2>2, <2>3, <2>4
      <3> HIDE DEF l
      <3>2. tx[m].at + 1 \in 1..l
        BY <3>1
      <3> QED
        BY <2>1, <2>2, <2>4, <3>1, <3>2
    <2> QED
      BY <1>1, <2>4
  <1>3. TransactionOK(u)
    BY <1>1 DEF TransactionOK, Stage
  <1> QED
    BY <1>1, <1>2, <1>3 DEF u

(* A step that writes nothing but may take a row.                          *)
LEMMA Quiet ==
    ASSUME IInv, NEW m \in Message, Active(m), NEW t, tx' = [tx EXCEPT ![m] = t],
           UNCHANGED shared,
           TransactionOK(t), tx[m].holds \subseteq t.holds, Alone(m)',
           t.order = tx[m].order, t.now = tx[m].now, t.entries = tx[m].entries,
           t.limits = tx[m].limits,
           t.alerts = tx[m].alerts, t.tells = tx[m].tells, t.checked = tx[m].checked,
           t.stage = "written" \/ t.at = tx[m].at
              \/ (t.stage = "work" /\ t.at \in DOMAIN t.order.items /\ t.order.batch),
           t.stage = "inserting" => t.at = tx[m].at /\ \A x \in tx[m].tells : x[1][1] # Item(m).category
    PROVE  IInv'
  <1>1. tx'[m] = t
    BY DEF IInv, TypeOK
  <1>2. Own(m)
    BY DEF IInv, Own
  <1>3. AtWork(m)'
    <2>1. CASE t.stage = "written"
      BY <1>1, <2>1 DEF AtWork, Active
    <2>2. CASE t.at = tx[m].at
      BY <1>1, <1>2, <2>2 DEF Own, AtWork, Active, Item, shared
    <2>3. CASE t.stage = "work" /\ t.at \in DOMAIN t.order.items /\ t.order.batch
      <3>1. t.order.items[t.at].kind # "edit"
        BY <2>3, ItemTyped, BudgetsAssumption
      <3> QED
        BY <1>1, <1>2, <2>3, <3>1 DEF Own, AtWork, Active, Item
    <2> QED
      BY <2>1, <2>2, <2>3
  <1>4. WritesLocked(m)'
    BY <1>1, <1>2 DEF Own, WritesLocked, Holds, shared
  <1>5. TellsOK(m)'
    BY <1>1, <1>2 DEF Own, shared, TellsOK, Item, LimitOf, AlertsOf, SameMonth, UpTo
  <1>6. CheckedRecorded(m)'
    <2>1. EntriesOf(m)' = EntriesOf(m) /\ AlertsOf(m)' = AlertsOf(m)
      BY <1>1 DEF shared, EntriesOf, AlertsOf
    <2> QED
      BY <1>1, <1>2, <2>1 DEF Own, shared, CheckedRecorded
  <1>7. Own(m)'
    BY <1>3, <1>4, <1>5, <1>6 DEF Own
  <1> QED
    BY <1>7, OthersStay

(* A transaction that goes on with nothing written.                        *)
LEMMA Skips ==
    ASSUME IInv, NEW m \in Message, Active(m), Advance(m, tx[m]), UNCHANGED shared
    PROVE  IInv'
  <1> DEFINE t == Next1(m, tx[m])
  <1>1. TransactionOK(tx[m]) /\ tx \in [Message -> {tx[n] : n \in Message}]
    BY DEF IInv, TypeOK
  <1>2. tx' = [tx EXCEPT ![m] = t]
    BY DEF Advance, Next1
  <1>3. /\ TransactionOK(t) /\ t.at = tx[m].at + 1 /\ t.stage \in {"written", "work"}
        /\ t.stage = "work" => t.at \in DOMAIN t.order.items /\ t.order.batch
        /\ t.order = tx[m].order /\ t.now = tx[m].now /\ t.holds = tx[m].holds
        /\ t.entries = tx[m].entries
        /\ t.limits = tx[m].limits /\ t.alerts = tx[m].alerts /\ t.tells = tx[m].tells
        /\ t.checked = tx[m].checked
    BY <1>1, Advanced
  <1> HIDE DEF t
  <1>4. Alone(m)'
    BY <1>1, <1>2, <1>3 DEF Alone, IInv, OneHolder
  <1> QED
    BY <1>2, <1>3, <1>4, Quiet

(* A transaction that ends writes nothing and holds nothing.               *)
LEMMA Ended ==
    ASSUME IInv, NEW m \in Message, NEW how \in {"done", "failed", "asserted"}, Ends(m, how),
           UNCHANGED shared
    PROVE  IInv'
  <1> DEFINE t == [Idle EXCEPT !.stage = how, !.order = tx[m].order]
  <1>1. TransactionOK(tx[m]) /\ tx \in [Message -> {tx[n] : n \in Message}]
    BY DEF IInv, TypeOK
  <1>2. tx' = [tx EXCEPT ![m] = t] /\ tx'[m] = t
    BY <1>1 DEF Ends
  <1>3. /\ t.stage = how /\ t.order = tx[m].order /\ t.at = 0 /\ t.now = 0 /\ t.holds = {}
        /\ t.saw = 0
        /\ DOMAIN t.entries = {} /\ DOMAIN t.limits = {} /\ t.alerts = {} /\ t.tells = {}
        /\ t.total = 0
        /\ t.checked = {}
        /\ DOMAIN t = {"stage", "order", "at", "now", "holds", "saw", "entries", "limits",
                       "alerts", "tells", "total", "checked"}
    BY DEF Idle
  <1> HIDE DEF t
  <1>4. TransactionOK(t)
    BY <1>1, <1>3, FS_EmptySet, BudgetsAssumption DEF TransactionOK, Stage, Month
  <1>5. Own(m)' /\ Alone(m)'
    BY <1>2, <1>3 DEF Own, AtWork, Active, WritesLocked, TellsOK, CheckedRecorded, Alone
  <1> QED
    BY <1>2, <1>4, <1>5, OthersStay

-----------------------------------------------------------------------------
(* The check of a budget                                                   *)

(* Fewer expenses with the same amounts are less money.                    *)
LEMMA SpentLess ==
    ASSUME NEW E, NEW G, NEW S, IsFiniteSet(S), NEW T \in SUBSET S,
           \A x \in S : E[x].amount \in Nat, \A x \in T : G[x].amount = E[x].amount
    PROVE  Spent(E, S) \in Nat /\ Spent(G, T) \in Nat /\ Spent(G, T) <= Spent(E, S)
  <1> DEFINE F == [x \in S |-> E[x].amount]
             H == [x \in T |-> G[x].amount]
  <1>1. /\ DOMAIN F = S /\ DOMAIN H = T
        /\ \A x \in S : F[x] \in Nat
        /\ \A x \in T : H[x] = F[x]
    OBVIOUS
  <1> HIDE DEF F, H
  <1>2. /\ SumFunctionOnSet(F, S) \in Nat /\ SumFunctionOnSet(H, T) \in Nat
        /\ SumFunctionOnSet(H, T) <= SumFunctionOnSet(F, S)
    BY <1>1, SumPart
  <1>3. Spent(E, S) = SumFunctionOnSet(F, S) /\ Spent(G, T) = SumFunctionOnSet(H, T)
    BY <1>1 DEF Spent, SumFunction, F, H
  <1> QED
    BY <1>2, <1>3

(* If every expense that was checked under a row was there before, no more *)
(* has been checked than before; and never more than was spent.            *)
LEMMA CheckedLess ==
    ASSUME NEW E, IsFiniteSet(DOMAIN E), \A e \in DOMAIN E : E[e].amount \in Nat,
           NEW G, NEW c, NEW id, NEW p,
           \A e \in DOMAIN G : G[e].category = c /\ G[e].under = id => e \in DOMAIN E /\ E[e] = G[e]
    PROVE  /\ CheckedSpend(G, c, id, p) \in Nat /\ CheckedSpend(E, c, id, p) \in Nat
           /\ CheckedSpend(G, c, id, p) <= CheckedSpend(E, c, id, p)
  <1> DEFINE S == {e \in DOMAIN E : E[e].category = c /\ E[e].under = id /\ E[e].live /\ E[e].month = p}
             T == {e \in DOMAIN G : G[e].category = c /\ G[e].under = id /\ G[e].live /\ G[e].month = p}
  <1>1. IsFiniteSet(S)
    BY FS_Subset
  <1>2. T \in SUBSET S /\ \A x \in T : G[x].amount = E[x].amount
    OBVIOUS
  <1>3. \A x \in S : E[x].amount \in Nat
    OBVIOUS
  <1> HIDE DEF S, T
  <1>4. Spent(E, S) \in Nat /\ Spent(G, T) \in Nat /\ Spent(G, T) <= Spent(E, S)
    BY <1>1, <1>2, <1>3, SpentLess
  <1> QED
    BY <1>4 DEF CheckedSpend, S, T

(* What was checked against a limit is part of the month's spending.       *)
LEMMA CheckedIsSpent ==
    ASSUME NEW E, IsFiniteSet(DOMAIN E), \A e \in DOMAIN E : E[e].amount \in Nat, NEW c, NEW id,
           NEW p
    PROVE  /\ CheckedSpend(E, c, id, p) \in Nat /\ MonthlySpend(E, c, p) \in Nat
           /\ CheckedSpend(E, c, id, p) <= MonthlySpend(E, c, p)
  <1> DEFINE S == {e \in DOMAIN E : E[e].category = c /\ E[e].live /\ E[e].month = p}
             T == {e \in DOMAIN E : E[e].category = c /\ E[e].under = id /\ E[e].live /\ E[e].month = p}
  <1>1. IsFiniteSet(S)
    BY FS_Subset
  <1>2. T \in SUBSET S /\ \A x \in S : E[x].amount \in Nat
    OBVIOUS
  <1> HIDE DEF S, T
  <1>3. Spent(E, S) \in Nat /\ Spent(E, T) \in Nat /\ Spent(E, T) <= Spent(E, S)
    BY <1>1, <1>2, SpentLess
  <1> QED
    BY <1>3 DEF CheckedSpend, MonthlySpend, S, T

(* A threshold that is reached stays reached when more is spent.           *)
LEMMA StillReached ==
    ASSUME NEW a \in Nat, NEW b \in Nat, a <= b, NEW n \in Nat, NEW th \in Threshold,
           a * 100 >= n * th
    PROVE  b * 100 >= n * th
  <1>1. n * th \in Nat
    BY DEF Threshold
  <1> QED
    BY <1>1

(* What a transaction sees of the expenses.                                *)
LEMMA SeenTyped ==
    ASSUME IInv, NEW m \in Message
    PROVE  /\ DOMAIN EntriesOf(m) = DOMAIN tx[m].entries \cup DOMAIN entries
           /\ IsFiniteSet(DOMAIN EntriesOf(m)) /\ DOMAIN EntriesOf(m) \subseteq EntryId
           /\ \A e \in DOMAIN EntriesOf(m) :
                 /\ EntriesOf(m)[e] = IF e \in DOMAIN tx[m].entries THEN tx[m].entries[e] ELSE entries[e]
                 /\ EntriesOf(m)[e] \in Expense
  <1>1. TransactionOK(tx[m]) /\ TypeOK
    BY DEF IInv, TypeOK
  <1>2. /\ DOMAIN EntriesOf(m) = DOMAIN tx[m].entries \cup DOMAIN entries
        /\ \A e \in DOMAIN EntriesOf(m) :
              EntriesOf(m)[e] = IF e \in DOMAIN tx[m].entries THEN tx[m].entries[e] ELSE entries[e]
    BY DEF EntriesOf
  <1>3. IsFiniteSet(DOMAIN EntriesOf(m))
    <2>1. IsFiniteSet(DOMAIN tx[m].entries) /\ IsFiniteSet(DOMAIN entries)
      BY <1>1 DEF TransactionOK, TypeOK
    <2>2. IsFiniteSet(DOMAIN tx[m].entries \cup DOMAIN entries)
      BY <2>1, FS_Union
    <2> QED
      BY <1>2, <2>2
  <1> QED
    BY <1>1, <1>2, <1>3 DEF TransactionOK, TypeOK

(* As long as nothing that counts under the row of c is new to m, what m   *)
(* checked has its alerts.                                                 *)
LEMMA StaysRecorded ==
    ASSUME IInv, NEW m \in Message, NEW c \in tx[m].checked \ DOMAIN tx[m].limits,
           NEW th \in Threshold, NEW G,
           \A e \in DOMAIN G : G[e].category = c /\ G[e].under = limit[c].id
               => e \in DOMAIN EntriesOf(m) /\ EntriesOf(m)[e] = G[e],
           CheckedSpend(G, c, limit[c].id, tx[m].now) * 100 >= limit[c].amount * th
    PROVE  <<c, limit[c].id, tx[m].now, th>> \in AlertsOf(m)
  <1> DEFINE E == EntriesOf(m)
             id == limit[c].id
             p == tx[m].now
  <1>1. IsFiniteSet(DOMAIN E) /\ \A e \in DOMAIN E : E[e].amount \in Nat
    BY SeenTyped DEF Expense
  <1>2. \A e \in DOMAIN G : G[e].category = c /\ G[e].under = id => e \in DOMAIN E /\ E[e] = G[e]
    OBVIOUS
  <1>3. c \in Category /\ limit[c].amount \in Nat
    BY DEF IInv, TypeOK, TransactionOK, Limit
  <1>4. CheckedRecorded(m)
    BY DEF IInv
  <1> HIDE DEF E, id, p
  <1>5. /\ CheckedSpend(G, c, id, p) \in Nat /\ CheckedSpend(E, c, id, p) \in Nat
        /\ CheckedSpend(G, c, id, p) <= CheckedSpend(E, c, id, p)
    BY <1>1, <1>2, CheckedLess
  <1>6. CheckedSpend(E, c, id, p) * 100 >= limit[c].amount * th
    BY <1>3, <1>5, StillReached DEF id, p
  <1> QED
    BY <1>4, <1>6 DEF CheckedRecorded, E, id, p

(* An expense that is not checked: it counts under no budget.              *)
LEMMA Unchecked ==
    ASSUME IInv, NEW m \in Message, Active(m), NEW id \in EntryId, NEW e \in Expense, e.under = 0,
           Advance(m, [tx[m] EXCEPT !.entries = With(@, id, e)]), UNCHANGED shared
    PROVE  IInv'
  <1> DEFINE s == [tx[m] EXCEPT !.entries = With(@, id, e)]
             t == Next1(m, s)
  <1>1. TransactionOK(tx[m]) /\ tx \in [Message -> {tx[n] : n \in Message}] /\ IsFiniteSet(DOMAIN entries)
    BY DEF IInv, TypeOK
  <1>2. tx' = [tx EXCEPT ![m] = t] /\ tx'[m] = t
    BY <1>1 DEF Advance, Next1
  <1>3. /\ DOMAIN s = DOMAIN tx[m] /\ s.stage = tx[m].stage /\ s.saw = tx[m].saw
        /\ s.order = tx[m].order /\ s.at = tx[m].at /\ s.now = tx[m].now /\ s.holds = tx[m].holds
        /\ s.limits = tx[m].limits /\ s.alerts = tx[m].alerts /\ s.tells = tx[m].tells
        /\ s.checked = tx[m].checked /\ s.total = tx[m].total
        /\ s.entries = With(tx[m].entries, id, e)
    BY <1>1 DEF TransactionOK
  <1>4. /\ DOMAIN s.entries = {id} \cup DOMAIN tx[m].entries /\ s.entries[id] = e
        /\ \A x \in DOMAIN s.entries : x # id => s.entries[x] = tx[m].entries[x]
    <2> DEFINE f == tx[m].entries
               g == With(f, id, e)
    <2>1. /\ DOMAIN g = {id} \cup DOMAIN f /\ g[id] = e
          /\ \A y \in {id} \cup DOMAIN f : g[y] = IF y = id THEN e ELSE f[y]
      BY DEF With
    <2>2. s.entries = g
      BY <1>3
    <2> HIDE DEF s, g, f
    <2>3. /\ DOMAIN s.entries = {id} \cup DOMAIN f /\ s.entries[id] = e
          /\ \A x \in DOMAIN s.entries : x # id => s.entries[x] = f[x]
      BY <2>1, <2>2
    <2> QED
      BY <2>3 DEF f
  <1>5. TransactionOK(s)
    <2>1. IsFiniteSet(DOMAIN s.entries)
      BY <1>1, <1>4, FS_AddElement DEF TransactionOK
    <2> HIDE DEF s
    <2> QED
      BY <1>1, <1>3, <1>4, <2>1 DEF TransactionOK
  <1> HIDE DEF s
  <1>6. /\ TransactionOK(t) /\ t.at = tx[m].at + 1 /\ t.stage \in {"written", "work"}
        /\ t.stage = "work" => t.at \in DOMAIN t.order.items /\ t.order.batch
        /\ t.order = tx[m].order /\ t.now = tx[m].now /\ t.holds = tx[m].holds
        /\ t.entries = s.entries
        /\ t.limits = tx[m].limits /\ t.alerts = tx[m].alerts /\ t.tells = tx[m].tells
        /\ t.checked = tx[m].checked
    BY <1>3, <1>5, Advanced
  <1> HIDE DEF t
  <1>7. Own(m) /\ Alone(m)'
    BY <1>1, <1>2, <1>6 DEF IInv, Own, OneHolder, Alone
  <1>8. AtWork(m)'
    <2>1. CASE t.stage = "written"
      BY <1>2, <2>1 DEF AtWork, Active
    <2>2. CASE t.stage = "work" /\ t.at \in DOMAIN t.order.items /\ t.order.batch
      <3>1. t.order.items[t.at].kind # "edit" /\ t.now # 0 /\ t.order \in OrdersOf[m]
        BY <1>6, <2>2, ItemTyped, BudgetsAssumption
      <3> QED
        BY <1>2, <2>2, <3>1 DEF AtWork, Active, Item
    <2> QED
      BY <1>6, <2>1, <2>2
  <1>9. WritesLocked(m)'
    BY <1>2, <1>4, <1>6, <1>7 DEF Own, WritesLocked, Holds, shared
  <1>10. TellsOK(m)'
    BY <1>2, <1>6, <1>7 DEF Own, shared, TellsOK, LimitOf, AlertsOf, SameMonth, UpTo
  <1>11. CheckedRecorded(m)'
    <2> SUFFICES ASSUME NEW c \in tx[m].checked \ DOMAIN tx[m].limits, NEW th \in Threshold,
                        CheckedSpend(EntriesOf(m)', c, limit[c].id, tx[m].now) * 100 >= limit[c].amount * th
                 PROVE  <<c, limit[c].id, tx[m].now, th>> \in AlertsOf(m)
      BY <1>2, <1>6, <1>7 DEF Own, shared, CheckedRecorded, AlertsOf
    <2>1. limit[c].id # 0
      BY <1>7 DEF Own, CheckedRecorded
    <2> DEFINE G == EntriesOf(m)'
    <2>2. \A x \in DOMAIN G : G[x] = IF x \in DOMAIN s.entries THEN s.entries[x] ELSE entries[x]
      BY <1>2, <1>6 DEF EntriesOf, shared
    <2>3. DOMAIN G = DOMAIN s.entries \cup DOMAIN entries
      BY <1>2, <1>6 DEF EntriesOf, shared
    <2>4. \A x \in DOMAIN G : G[x].category = c /\ G[x].under = limit[c].id
             => x \in DOMAIN EntriesOf(m) /\ EntriesOf(m)[x] = G[x]
      BY <1>4, <2>1, <2>2, <2>3, SeenTyped
    <2> HIDE DEF G
    <2> QED
      BY <2>4, StaysRecorded DEF G
  <1> QED
    BY <1>2, <1>6, <1>7, <1>8, <1>9, <1>10, <1>11, OthersStay DEF Own

(* The limit that a transaction sees is the committed one, or one it has   *)
(* written under its lock.                                                 *)
LEMMA SeenLimit ==
    ASSUME IInv, NEW m \in Message, NEW c \in Category
    PROVE  /\ LimitOf(m, c) \in Limit /\ LimitOf(m, c).id \in {0, limit[c].id, born[c] + 1}
           /\ limit[c] \in Limit /\ limit[c].id <= born[c] /\ born[c] \in Nat
           /\ c \notin DOMAIN tx[m].limits => LimitOf(m, c) = limit[c]
           /\ c \in DOMAIN tx[m].limits => Holds(m, c)
  BY DEF IInv, TypeOK, TransactionOK, WritesLocked, RowsOK, LimitOf

(* What is told now was not told before, and nothing higher was.           *)
LEMMA ToldBelow ==
    ASSUME IInv, NEW m \in Message, NEW x, x[1][1] \in Category, x[1][4] \in Threshold,
           x[1][2] = LimitOf(m, x[1][1]).id, x[1] = <<x[1][1], x[1][2], x[1][3], x[1][4]>>,
           x[1] \notin AlertsOf(m), NEW y \in told, SameMonth(x, y)
    PROVE  y[1][4] < x[1][4]
  <1> DEFINE c == x[1][1]
  <1>1. /\ y[1][1] = c /\ y[1][2] = LimitOf(m, c).id /\ y[1][3] = x[1][3]
    BY DEF SameMonth
  <1>2. y[1][4] \in Threshold
    BY DEF IInv, TypeOK, AlertRow
  <1>3. y[1][2] \in 1..born[c] /\ (limit[c].id = y[1][2] => UpTo(y) \subseteq alerts)
    BY <1>1 DEF IInv, ToldRecorded
  <1>4. limit[c].id = y[1][2]
    BY <1>1, <1>3, SeenLimit
  <1>5. CASE x[1][4] <= y[1][4]
    <2>1. <<y[1][1], y[1][2], y[1][3], x[1][4]>> \in UpTo(y)
      BY <1>5 DEF UpTo
    <2>2. x[1] \in alerts
      BY <1>1, <1>3, <1>4, <2>1
    <2> QED
      BY <2>2 DEF AlertsOf
  <1>6. CASE ~ (x[1][4] <= y[1][4])
    BY <1>2, <1>6 DEF Threshold
  <1> QED
    BY <1>5, <1>6

(* The check of e: the expense with the row it is counted under, what it   *)
(* reaches, and what is recorded and told.                                 *)
After(m, e) == [e EXCEPT !.under = LimitOf(m, e.category).id]
AlertOf(m, e, th) == <<e.category, LimitOf(m, e.category).id, tx[m].now, th>>
Reaches(m, id, e) == Reached(MonthlySpend(With(EntriesOf(m), id, After(m, e)), e.category, tx[m].now),
                             LimitOf(m, e.category).amount)
Records(m, id, e) == Reaches(m, id, e) \ {th \in Threshold : AlertOf(m, e, th) \in AlertsOf(m)}
Highest(m, id, e) == {x \in Records(m, id, e) : \A y \in Reaches(m, id, e) : y <= x}
Checked(m, id, e) ==
    [tx[m] EXCEPT !.entries = With(@, id, After(m, e)),
                  !.holds = @ \cup {<<"budget", e.category>>},
                  !.checked = @ \cup {e.category},
                  !.alerts = @ \cup {AlertOf(m, e, th) : th \in Records(m, id, e)},
                  !.tells = @ \cup {<<AlertOf(m, e, th), m, tx[m].at>> : th \in Highest(m, id, e)}]

(* An expense that is checked under a budget, which m holds from then on.  *)
LEMMA Counted ==
    ASSUME IInv, NEW m \in Message, Active(m), NEW id \in EntryId, NEW e \in Expense,
           LimitOf(m, e.category).id # 0,
           \A n \in Message \ {m} : ~ Holds(n, e.category),
           Advance(m, Checked(m, id, e)), UNCHANGED shared
    PROVE  IInv'
  <1> DEFINE c == e.category
             row == LimitOf(m, c)
             after == After(m, e)
             reached == Reaches(m, id, e)
             new == Records(m, id, e)
             top == Highest(m, id, e)
             s == Checked(m, id, e)
             t == Next1(m, s)
  <1>1. TransactionOK(tx[m]) /\ tx \in [Message -> {tx[n] : n \in Message}] /\ IsFiniteSet(DOMAIN entries)
    BY DEF IInv, TypeOK
  <1>2. tx' = [tx EXCEPT ![m] = t] /\ tx'[m] = t
    BY <1>1 DEF Advance, Next1
  <1>3. /\ DOMAIN s = DOMAIN tx[m] /\ s.stage = tx[m].stage /\ s.saw = tx[m].saw
        /\ s.order = tx[m].order /\ s.at = tx[m].at /\ s.now = tx[m].now
        /\ s.limits = tx[m].limits /\ s.total = tx[m].total
        /\ s.holds = tx[m].holds \cup {<<"budget", c>>} /\ s.checked = tx[m].checked \cup {c}
        /\ s.alerts = tx[m].alerts \cup {AlertOf(m, e, th) : th \in new}
        /\ s.tells = tx[m].tells \cup {<<AlertOf(m, e, th), m, tx[m].at>> : th \in top}
        /\ s.entries = With(tx[m].entries, id, after)
    BY <1>1 DEF TransactionOK, Checked
  <1> HIDE DEF s
  <1>4. /\ DOMAIN s.entries = {id} \cup DOMAIN tx[m].entries /\ s.entries[id] = after
        /\ \A x \in DOMAIN tx[m].entries : x # id => s.entries[x] = tx[m].entries[x]
    BY <1>3 DEF With
  <1>5. c \in Category /\ row \in Limit /\ row.id \in Nat \ {0} /\ row.amount \in Nat
    BY SeenLimit DEF Expense, Limit
  <1>6. after \in Expense /\ after.category = c
    BY <1>5 DEF Expense, After
  <1>7. new \subseteq Threshold /\ reached \subseteq Threshold /\ top \subseteq new
    BY DEF Reaches, Records, Highest, Reached
  <1>8. \A th \in Threshold : AlertOf(m, e, th) \in AlertRow
    BY <1>1, <1>5 DEF AlertRow, TransactionOK, AlertOf
  <1>9. TransactionOK(s)
    <2>1. IsFiniteSet(DOMAIN s.entries)
      <3>1. IsFiniteSet(DOMAIN tx[m].entries \cup {id})
        BY <1>1, FS_AddElement DEF TransactionOK
      <3>2. DOMAIN s.entries = DOMAIN tx[m].entries \cup {id}
        BY <1>4
      <3> QED
        BY <3>1, <3>2
    <2>2. s.alerts \subseteq AlertRow
      BY <1>1, <1>3, <1>7, <1>8 DEF TransactionOK
    <2>3. s.tells \subseteq AlertRow \X Message \X Nat
      BY <1>1, <1>3, <1>7, <1>8 DEF TransactionOK
    <2>4. s.holds \subseteq Lock
      BY <1>1, <1>3, <1>5 DEF TransactionOK, Lock
    <2>5. \A x \in DOMAIN s.entries : s.entries[x] \in Expense
      BY <1>1, <1>4, <1>6 DEF TransactionOK
    <2> QED
      BY <1>1, <1>3, <1>4, <1>5, <2>1, <2>2, <2>3, <2>4, <2>5 DEF TransactionOK
  <1>10. /\ TransactionOK(t) /\ t.at = tx[m].at + 1 /\ t.stage \in {"written", "work"}
         /\ t.stage = "work" => t.at \in DOMAIN t.order.items /\ t.order.batch
         /\ t.order = tx[m].order /\ t.now = tx[m].now /\ t.holds = s.holds
         /\ t.entries = s.entries
         /\ t.limits = tx[m].limits /\ t.alerts = s.alerts /\ t.tells = s.tells
         /\ t.checked = s.checked
    BY <1>3, <1>9, Advanced
  <1>11. c \notin DOMAIN tx[m].limits => row = limit[c]
    BY <1>5, SeenLimit
  <1> HIDE DEF t, c, row, after, reached, new, top
  <1>12. Own(m) /\ Alone(m)'
    <2>1. \A n \in Message \ {m} : tx'[n] = tx[n] /\ <<"budget", c>> \notin tx[n].holds
      BY <1>1, <1>2 DEF Holds, c
    <2> QED
      BY <1>2, <1>3, <1>10, <2>1 DEF IInv, Own, OneHolder, Alone
  <1>12a. /\ IsFiniteSet(DOMAIN With(EntriesOf(m), id, after))
         /\ \A x \in DOMAIN With(EntriesOf(m), id, after) : With(EntriesOf(m), id, after)[x].amount \in Nat
    <2>1. IsFiniteSet(DOMAIN EntriesOf(m) \cup {id})
      BY SeenTyped, FS_AddElement
    <2>2. /\ DOMAIN With(EntriesOf(m), id, after) = DOMAIN EntriesOf(m) \cup {id}
          /\ \A x \in DOMAIN With(EntriesOf(m), id, after) :
                With(EntriesOf(m), id, after)[x] = IF x = id THEN after ELSE EntriesOf(m)[x]
      BY DEF With
    <2> QED
      BY <1>6, <2>1, <2>2, SeenTyped DEF Expense
  <1>12b. MonthlySpend(With(EntriesOf(m), id, after), c, tx[m].now) \in Nat
    BY <1>12a, CheckedIsSpent
  <1>13. AtWork(m)'
    <2>1. CASE t.stage = "written"
      BY <1>2, <2>1 DEF AtWork, Active
    <2>2. CASE t.stage = "work" /\ t.at \in DOMAIN t.order.items /\ t.order.batch
      <3>1. t.order.items[t.at].kind # "edit" /\ t.now # 0 /\ t.order \in OrdersOf[m]
        BY <1>10, <2>2, ItemTyped, BudgetsAssumption
      <3> QED
        BY <1>2, <2>2, <3>1 DEF AtWork, Active, Item
    <2> QED
      BY <1>10, <2>1, <2>2
  <1>14. WritesLocked(m)'
    <2>1. \A d \in DOMAIN t.limits : <<"budget", d>> \in t.holds /\ t.limits[d].id \in {0, limit[d].id, born[d] + 1}
      BY <1>3, <1>10, <1>12 DEF Own, WritesLocked, Holds
    <2>2. \A a \in t.alerts : <<"budget", a[1]>> \in t.holds /\ a[2] # 0
      <3>1. \A th \in new : AlertOf(m, e, th)[1] = c /\ AlertOf(m, e, th)[2] # 0
        BY <1>5 DEF c, row, AlertOf
      <3>2. \A a \in tx[m].alerts : <<"budget", a[1]>> \in tx[m].holds /\ a[2] # 0
        BY <1>12 DEF Own, WritesLocked, Holds
      <3>3. <<"budget", c>> \in t.holds /\ tx[m].holds \subseteq t.holds
        BY <1>3, <1>10
      <3>4. t.alerts = tx[m].alerts \cup {AlertOf(m, e, th) : th \in new}
        BY <1>3, <1>10
      <3> QED
        BY <3>1, <3>2, <3>3, <3>4
    <2>3. \A x \in DOMAIN t.entries : t.entries[x].under # 0 => <<"budget", t.entries[x].category>> \in t.holds
      BY <1>3, <1>4, <1>6, <1>10, <1>12 DEF Own, WritesLocked, Holds
    <2>4. \A d \in t.checked : <<"budget", d>> \in t.holds
      BY <1>3, <1>10, <1>12 DEF Own, WritesLocked, Holds
    <2> QED
      BY <1>2, <2>1, <2>2, <2>3, <2>4 DEF WritesLocked, Holds, shared
  <1>15. TellsOK(m)'
    <2>0. Own(m) /\ tx[m].tells \subseteq AlertRow \X Message \X Nat /\ tx[m].alerts \subseteq AlertsOf(m)
      BY <1>1, <1>12 DEF TransactionOK, AlertsOf
    <2>1. AlertsOf(m)' = AlertsOf(m) \cup {AlertOf(m, e, th) : th \in new}
      BY <1>2, <1>3, <1>10 DEF AlertsOf, shared
    <2>2. \A d \in Category : LimitOf(m, d)' = LimitOf(m, d)
      BY <1>2, <1>10 DEF LimitOf, shared
    <2>3. tx'[m].tells = tx[m].tells \cup {<<AlertOf(m, e, th), m, tx[m].at>> : th \in top}
      BY <1>2, <1>3, <1>10
    <2>4. \A th \in new : AlertOf(m, e, th) \notin AlertsOf(m)
      BY <1>7 DEF new, Records
    <2>5. \A th \in reached : AlertOf(m, e, th) \in AlertsOf(m)'
      BY <1>7, <2>1 DEF new, reached, Records
    <2>6. tx'[m].alerts = tx[m].alerts \cup {AlertOf(m, e, th) : th \in new} /\ tx'[m].stage # "inserting"
      BY <1>2, <1>3, <1>10
    <2> DEFINE Fine(x) == /\ x[1] \in tx'[m].alerts /\ LimitOf(m, x[1][1]).id' = x[1][2]
                          /\ UpTo(x) \subseteq AlertsOf(m)'
                          /\ \A y \in tx'[m].tells : y[1] = x[1] => y = x
                          /\ \A y \in told : SameMonth(x, y) => y[1][4] < x[1][4]
    <2>7. ASSUME NEW x \in tx[m].tells
          PROVE  Fine(x)
      <3>1. /\ x[1] \in tx[m].alerts
            /\ LimitOf(m, x[1][1]).id = x[1][2] /\ UpTo(x) \subseteq AlertsOf(m)
            /\ \A y \in tx[m].tells : y[1] = x[1] => y = x
            /\ \A y \in told : SameMonth(x, y) => y[1][4] < x[1][4]
        BY <2>0 DEF Own, TellsOK
      <3>2. \A y \in tx'[m].tells : y[1] = x[1] => y \in tx[m].tells
        BY <2>0, <2>3, <2>4, <1>7, <3>1 DEF top, Highest
      <3>3. x[1][1] \in Category
        BY <2>0 DEF AlertRow
      <3> QED
        BY <2>1, <2>2, <2>6, <3>1, <3>2, <3>3
    <2>8. ASSUME NEW th \in top, NEW x, x = <<AlertOf(m, e, th), m, tx[m].at>>
          PROVE  Fine(x)
      <3>1. /\ th \in new /\ th \in reached /\ th \in Threshold /\ \A y \in reached : y <= th
        BY <1>7 DEF top, new, Highest, Records, reached
      <3>2. x[1] = AlertOf(m, e, th) /\ x[1][1] = c /\ x[1][2] = row.id /\ x[1][3] = tx[m].now /\ x[1][4] = th
        BY <2>8 DEF AlertOf, c, row
      <3>3. x[1] \in tx'[m].alerts
        BY <2>6, <3>1, <3>2
      <3>4. LimitOf(m, x[1][1]).id' = x[1][2]
        BY <1>5, <2>2, <3>2 DEF row
      <3>5. UpTo(x) \subseteq AlertsOf(m)'
        <4> SUFFICES ASSUME NEW h \in Threshold, h <= th PROVE AlertOf(m, e, h) \in AlertsOf(m)'
          BY <3>2 DEF UpTo, AlertOf, c, row
        <4>1. h \in reached
          <5> DEFINE spent == MonthlySpend(With(EntriesOf(m), id, after), c, tx[m].now)
          <5>1. spent * 100 >= row.amount * th
            BY <3>1 DEF reached, Reaches, Reached, c, row, after
          <5>2. spent \in Nat
            BY <1>12b
          <5> HIDE DEF spent
          <5>3. spent * 100 >= row.amount * h
            BY <1>5, <5>1, <5>2, <3>1 DEF Threshold
          <5> QED
            BY <5>3 DEF reached, Reaches, Reached, c, row, after, spent
        <4> QED
          BY <2>5, <4>1
      <3>6. \A y \in tx'[m].tells : y[1] = x[1] => y = x
        <4> SUFFICES ASSUME NEW y \in tx'[m].tells, y[1] = x[1] PROVE y = x
          OBVIOUS
        <4>1. y \notin tx[m].tells
          BY <2>0, <2>4, <3>1, <3>2 DEF Own, TellsOK
        <4>2. PICK h \in top : y = <<AlertOf(m, e, h), m, tx[m].at>>
          BY <2>3, <4>1
        <4>3. h = th
          BY <3>2, <4>2 DEF AlertOf
        <4> QED
          BY <2>8, <4>2, <4>3
      <3>7. \A y \in told : SameMonth(x, y) => y[1][4] < x[1][4]
        <4>1. /\ x[1][1] \in Category /\ x[1][4] \in Threshold /\ x[1][2] = LimitOf(m, x[1][1]).id
              /\ x[1] = <<x[1][1], x[1][2], x[1][3], x[1][4]>> /\ x[1] \notin AlertsOf(m)
          BY <1>5, <2>4, <3>1, <3>2 DEF AlertOf, c, row
        <4> QED
          BY <4>1, ToldBelow
      <3> QED
        BY <3>3, <3>4, <3>5, <3>6, <3>7
    <2>9. \A x \in tx'[m].tells : Fine(x)
      BY <2>3, <2>7, <2>8
    <2>10. told' = told /\ \A x, y : SameMonth(x, y)' = SameMonth(x, y) /\ UpTo(x)' = UpTo(x)
      BY DEF shared, SameMonth, UpTo
    <2> QED
      BY <2>6, <2>9, <2>10 DEF TellsOK
  <1>16. CheckedRecorded(m)'
    <2> DEFINE G == EntriesOf(m)'
    <2>1. G = With(EntriesOf(m), id, after)
      BY <1>2, <1>4, <1>10, SeenTyped DEF EntriesOf, With, shared
    <2> SUFFICES ASSUME NEW d \in t.checked \ DOMAIN t.limits
                 PROVE  /\ limit[d].id # 0
                        /\ \A th \in Threshold :
                              CheckedSpend(G, d, limit[d].id, tx[m].now) * 100 >= limit[d].amount * th
                                 => <<d, limit[d].id, tx[m].now, th>> \in AlertsOf(m)'
      BY <1>2, <1>10 DEF CheckedRecorded, shared
    <2>2. AlertsOf(m)' = AlertsOf(m) \cup {AlertOf(m, e, th) : th \in new}
      BY <1>2, <1>3, <1>10 DEF AlertsOf, shared
    <2>3. CASE d = c
      <3>1. limit[c] = row /\ row.id # 0
        BY <1>5, <1>10, <1>11, <2>3
      <3>2. IsFiniteSet(DOMAIN G) /\ \A x \in DOMAIN G : G[x].amount \in Nat
        BY <1>12a, <2>1
      <3>3. /\ CheckedSpend(G, c, row.id, tx[m].now) \in Nat
            /\ MonthlySpend(G, c, tx[m].now) \in Nat
            /\ CheckedSpend(G, c, row.id, tx[m].now) <= MonthlySpend(G, c, tx[m].now)
        BY <3>2, CheckedIsSpent
      <3> SUFFICES ASSUME NEW th \in Threshold, CheckedSpend(G, c, row.id, tx[m].now) * 100 >= row.amount * th
                   PROVE  AlertOf(m, e, th) \in AlertsOf(m)'
        BY <2>3, <3>1 DEF AlertOf, c, row
      <3>4. MonthlySpend(G, c, tx[m].now) * 100 >= row.amount * th
        BY <1>5, <3>3, StillReached
      <3>5. th \in reached
        BY <2>1, <3>4 DEF reached, Reaches, Reached, c, row, after
      <3> QED
        BY <2>2, <3>5 DEF new, reached, Records
    <2>4. CASE d # c
      <3>1. d \in tx[m].checked \ DOMAIN tx[m].limits
        BY <1>3, <1>10, <2>4
      <3>2. \A x \in DOMAIN G : G[x].category = d /\ G[x].under = limit[d].id
               => x \in DOMAIN EntriesOf(m) /\ EntriesOf(m)[x] = G[x]
        BY <1>6, <2>1, <2>4 DEF With
      <3>3. limit[d].id # 0
        BY <1>12, <3>1 DEF Own, CheckedRecorded
      <3> HIDE DEF G
      <3>4. \A th \in Threshold : CheckedSpend(G, d, limit[d].id, tx[m].now) * 100 >= limit[d].amount * th
                                    => <<d, limit[d].id, tx[m].now, th>> \in AlertsOf(m)
        BY <3>1, <3>2, StaysRecorded
      <3> QED
        BY <2>2, <3>3, <3>4
    <2> QED
      BY <2>3, <2>4
  <1> QED
    BY <1>2, <1>10, <1>12, <1>13, <1>14, <1>15, <1>16, OthersStay DEF Own

(* A limit is written; what the reply tells is told of the row that is.    *)
LEMMA Puts ==
    ASSUME IInv, NEW m \in Message, Active(m), NEW c \in Category, NEW row \in Limit,
           row.id \in {0, limit[c].id, born[c] + 1},
           \A n \in Message \ {m} : ~ Holds(n, c),
           \A x \in tx[m].tells : x[1][1] = c => x[1][2] = row.id,
           Advance(m, Put(m, c, row)), UNCHANGED shared
    PROVE  IInv'
  <1> DEFINE s == Put(m, c, row)
             t == Next1(m, s)
  <1>1. TransactionOK(tx[m]) /\ tx \in [Message -> {tx[n] : n \in Message}]
    BY DEF IInv, TypeOK
  <1>2. tx' = [tx EXCEPT ![m] = t] /\ tx'[m] = t
    BY <1>1 DEF Advance, Next1
  <1>3. /\ DOMAIN s = DOMAIN tx[m] /\ s.stage = tx[m].stage /\ s.saw = tx[m].saw
        /\ s.order = tx[m].order /\ s.at = tx[m].at /\ s.now = tx[m].now
        /\ s.entries = tx[m].entries /\ s.alerts = tx[m].alerts /\ s.tells = tx[m].tells
        /\ s.checked = tx[m].checked /\ s.total = tx[m].total
        /\ s.holds = tx[m].holds \cup {<<"budget", c>>}
        /\ s.limits = With(tx[m].limits, c, row)
    BY <1>1 DEF TransactionOK, Put
  <1> HIDE DEF s
  <1>4. /\ DOMAIN s.limits = {c} \cup DOMAIN tx[m].limits /\ s.limits[c] = row
        /\ \A d \in DOMAIN tx[m].limits : d # c => s.limits[d] = tx[m].limits[d]
    BY <1>3 DEF With
  <1>5. TransactionOK(s)
    <2>1. s.holds \subseteq Lock
      BY <1>1, <1>3 DEF TransactionOK, Lock
    <2> QED
      BY <1>1, <1>3, <1>4, <2>1 DEF TransactionOK
  <1>6. /\ TransactionOK(t) /\ t.at = tx[m].at + 1 /\ t.stage \in {"written", "work"}
        /\ t.stage = "work" => t.at \in DOMAIN t.order.items /\ t.order.batch
        /\ t.order = tx[m].order /\ t.now = tx[m].now /\ t.holds = s.holds
        /\ t.entries = tx[m].entries
        /\ t.limits = s.limits /\ t.alerts = tx[m].alerts /\ t.tells = tx[m].tells
        /\ t.checked = tx[m].checked
    BY <1>3, <1>5, Advanced
  <1> HIDE DEF t
  <1>7. Own(m) /\ Alone(m)'
    <2>1. \A n \in Message \ {m} : tx'[n] = tx[n] /\ <<"budget", c>> \notin tx[n].holds
      BY <1>1, <1>2 DEF Holds
    <2> QED
      BY <1>2, <1>3, <1>6, <2>1 DEF IInv, Own, OneHolder, Alone
  <1>8. AtWork(m)'
    <2>1. CASE t.stage = "written"
      BY <1>2, <2>1 DEF AtWork, Active
    <2>2. CASE t.stage = "work" /\ t.at \in DOMAIN t.order.items /\ t.order.batch
      <3>1. t.order.items[t.at].kind # "edit" /\ t.now # 0 /\ t.order \in OrdersOf[m]
        BY <1>6, <2>2, ItemTyped, BudgetsAssumption
      <3> QED
        BY <1>2, <2>2, <3>1 DEF AtWork, Active, Item
    <2> QED
      BY <1>6, <2>1, <2>2
  <1>9. WritesLocked(m)'
    BY <1>2, <1>3, <1>4, <1>6, <1>7 DEF Own, WritesLocked, Holds, shared
  <1>10. TellsOK(m)'
    <2>1. \A x \in t.tells : LimitOf(m, x[1][1])' = IF x[1][1] = c THEN row ELSE LimitOf(m, x[1][1])
      BY <1>2, <1>4, <1>6 DEF LimitOf, shared
    <2> QED
      BY <1>2, <1>6, <1>7, <2>1 DEF Own, shared, TellsOK, AlertsOf, SameMonth, UpTo
  <1>11. CheckedRecorded(m)'
    <2>1. EntriesOf(m)' = EntriesOf(m) /\ AlertsOf(m)' = AlertsOf(m)
      BY <1>2, <1>6 DEF shared, EntriesOf, AlertsOf
    <2> QED
      BY <1>2, <1>4, <1>6, <1>7, <2>1 DEF Own, shared, CheckedRecorded
  <1> QED
    BY <1>2, <1>6, <1>7, <1>8, <1>9, <1>10, <1>11, OthersStay DEF Own

-----------------------------------------------------------------------------
(* Steps that change what is committed                                     *)

(* A transaction whose rows are left alone stays as it is.                 *)
LEMMA Untouched ==
    ASSUME IInv, NEW n \in Message, tx'[n] = tx[n],
           DOMAIN entries \subseteq DOMAIN entries',
           \A e \in DOMAIN entries' : entries'[e].under # 0 /\ Holds(n, entries'[e].category)
               => e \in DOMAIN entries /\ entries[e] = entries'[e],
           \A c \in Category : Holds(n, c) => limit'[c] = limit[c] /\ born'[c] = born[c],
           \A a \in alerts : Holds(n, a[1]) => a \in alerts',
           \A y \in told' \ told : ~ Holds(n, y[1][1])
    PROVE  Own(n)'
  <1>1. Own(n) /\ TransactionOK(tx[n]) /\ \A c : Holds(n, c)' = Holds(n, c)
    BY DEF IInv, Own, TypeOK, Holds
  <1>2. AtWork(n)'
    BY <1>1 DEF Own, AtWork, Active, Item
  <1>3. /\ \A c \in DOMAIN tx[n].limits : c \in Category /\ Holds(n, c)
        /\ \A a \in tx[n].alerts : Holds(n, a[1]) /\ a[2] # 0
        /\ \A c \in tx[n].checked : c \in Category /\ Holds(n, c)
        /\ \A x \in tx[n].tells : x[1][1] \in Category /\ Holds(n, x[1][1])
    BY <1>1 DEF Own, WritesLocked, TransactionOK, TellsOK, AlertRow
  <1>4. WritesLocked(n)'
    BY <1>1, <1>3 DEF Own, WritesLocked
  <1>5. TellsOK(n)'
    <2> SUFFICES ASSUME NEW x \in tx[n].tells
                 PROVE  /\ x[1] \in tx[n].alerts /\ LimitOf(n, x[1][1])'.id = x[1][2]
                        /\ UpTo(x) \subseteq AlertsOf(n)'
                        /\ \A y \in tx[n].tells : y[1] = x[1] => y = x
                        /\ \A y \in told' : SameMonth(x, y) => y[1][4] < x[1][4]
                        /\ tx[n].stage = "inserting" => x[1][1] # Item(n).category
      BY DEF TellsOK, UpTo, SameMonth, Item
    <2>1. /\ x[1] \in tx[n].alerts /\ LimitOf(n, x[1][1]).id = x[1][2]
          /\ UpTo(x) \subseteq AlertsOf(n)
          /\ \A y \in tx[n].tells : y[1] = x[1] => y = x
          /\ \A y \in told : SameMonth(x, y) => y[1][4] < x[1][4]
          /\ tx[n].stage = "inserting" => x[1][1] # Item(n).category
      BY <1>1 DEF Own, TellsOK
    <2>2. LimitOf(n, x[1][1])' = LimitOf(n, x[1][1])
      BY <1>3 DEF LimitOf
    <2>3. \A a \in UpTo(x) : a \in AlertsOf(n) => a \in AlertsOf(n)'
      <3> SUFFICES ASSUME NEW a \in UpTo(x), a \in AlertsOf(n) PROVE a \in AlertsOf(n)'
        OBVIOUS
      <3>1. a[1] = x[1][1]
        BY DEF UpTo
      <3> QED
        BY <1>3, <3>1 DEF AlertsOf
    <2>4. \A y \in told' : SameMonth(x, y) => y \in told
      BY <1>3 DEF SameMonth
    <2> QED
      BY <2>1, <2>2, <2>3, <2>4
  <1>6. CheckedRecorded(n)'
    <2> SUFFICES ASSUME NEW c \in tx[n].checked \ DOMAIN tx[n].limits
                 PROVE  /\ limit[c].id # 0
                        /\ \A th \in Threshold :
                              CheckedSpend(EntriesOf(n)', c, limit[c].id, tx[n].now) * 100 >= limit[c].amount * th
                                 => <<c, limit[c].id, tx[n].now, th>> \in AlertsOf(n)'
      BY <1>3 DEF CheckedRecorded
    <2>1. limit[c].id # 0
      BY <1>1 DEF Own, CheckedRecorded
    <2> DEFINE G == EntriesOf(n)'
    <2>2. \A x \in DOMAIN G : G[x].category = c /\ G[x].under = limit[c].id
            => x \in DOMAIN EntriesOf(n) /\ EntriesOf(n)[x] = G[x]
      BY <1>3, <2>1 DEF EntriesOf
    <2> HIDE DEF G
    <2>3. \A th \in Threshold : CheckedSpend(G, c, limit[c].id, tx[n].now) * 100 >= limit[c].amount * th
             => <<c, limit[c].id, tx[n].now, th>> \in AlertsOf(n)
      BY <2>2, StaysRecorded
    <2>4. \A th \in Threshold : <<c, limit[c].id, tx[n].now, th>> \in AlertsOf(n)
             => <<c, limit[c].id, tx[n].now, th>> \in AlertsOf(n)'
      BY <1>3 DEF AlertsOf
    <2> QED
      BY <2>1, <2>3, <2>4 DEF G
  <1> QED
    BY <1>2, <1>4, <1>5, <1>6 DEF Own

(* An expense that is undone or restored counts for no limit.              *)
LEMMA FlipStep == ASSUME IInv, NEW e \in DOMAIN entries, Flip(e) PROVE IInv'
  <1> DEFINE E == [entries EXCEPT ![e].live = ~ @, ![e].under = 0]
  <1>1. TypeOK /\ RowsOK /\ OneHolder /\ ToldRecorded
    BY DEF IInv
  <1>2. /\ entries' = E /\ UNCHANGED <<month, limit, born, alerts, period, tx, told, changes>>
        /\ flips' \in 0..MaxFlips
    BY <1>1, BudgetsAssumption DEF Flip, TypeOK
  <1>3. DOMAIN E = DOMAIN entries /\ \A x \in DOMAIN entries : x # e => E[x] = entries[x]
    OBVIOUS
  <1>4. E[e] \in Expense /\ E[e].under = 0
    BY <1>1 DEF TypeOK, Expense
  <1> HIDE DEF E
  <1>5. TypeOK'
    BY <1>1, <1>2, <1>3, <1>4 DEF TypeOK, TransactionOK, Lock
  <1>6. RowsOK' /\ OneHolder' /\ ToldRecorded'
    BY <1>1, <1>2 DEF RowsOK, OneHolder, ToldRecorded, UpTo
  <1>7. \A n \in Message : Own(n)'
    BY <1>2, <1>3, <1>4, Untouched
  <1> QED
    BY <1>5, <1>6, <1>7 DEF IInv, Own

(* Period budgets have no alerts.                                          *)
LEMMA PeriodStep == ASSUME IInv, NEW k \in Key, NEW a \in Amount \cup {0}, PutPeriod(k, a) PROVE IInv'
  <1>1. TypeOK /\ RowsOK /\ OneHolder /\ ToldRecorded
    BY DEF IInv
  <1>2. /\ UNCHANGED <<month, entries, limit, born, alerts, tx, told, flips>>
        /\ changes' \in 0..MaxChanges /\ month \in Month
        /\ period' \in [Month -> [Key -> Amount \cup {0}]]
    BY <1>1, BudgetsAssumption DEF PutPeriod, TypeOK, Month
  <1>3. TypeOK'
    BY <1>1, <1>2 DEF TypeOK, TransactionOK, Lock
  <1>4. RowsOK' /\ OneHolder' /\ ToldRecorded'
    BY <1>1, <1>2 DEF RowsOK, OneHolder, ToldRecorded, UpTo
  <1>5. \A n \in Message : Own(n)'
    BY <1>2, Untouched
  <1> QED
    BY <1>3, <1>4, <1>5 DEF IInv, Own

(* A new month finds the alerts of the old one where they are.             *)
LEMMA TurnStep == ASSUME IInv, MonthTurns PROVE IInv'
  <1>1. TypeOK /\ RowsOK /\ OneHolder /\ ToldRecorded
    BY DEF IInv
  <1>2. /\ UNCHANGED <<entries, limit, born, alerts, period, tx, told, changes, flips>>
        /\ month' \in 1..LastMonth
    BY <1>1, BudgetsAssumption DEF MonthTurns, TypeOK
  <1>3. TypeOK'
    BY <1>1, <1>2 DEF TypeOK, TransactionOK, Lock
  <1>4. RowsOK' /\ OneHolder' /\ ToldRecorded'
    BY <1>1, <1>2 DEF RowsOK, OneHolder, ToldRecorded, UpTo
  <1>5. \A n \in Message : Own(n)'
    BY <1>2, Untouched
  <1> QED
    BY <1>3, <1>4, <1>5 DEF IInv, Own

(* A commit publishes what was written under locks: it changes no category *)
(* whose row another transaction holds.                                    *)
LEMMA CommitStep == ASSUME IInv, NEW m \in Message, Commit(m) PROVE IInv'
  <1>1. TypeOK /\ RowsOK /\ OneHolder /\ ToldRecorded /\ Own(m) /\ TransactionOK(tx[m])
    BY DEF IInv, Own, TypeOK
  <1> DEFINE t == [Idle EXCEPT !.stage = "done", !.order = tx[m].order]
  <1>2. /\ entries' = EntriesOf(m) /\ limit' = [c \in Category |-> LimitOf(m, c)]
        /\ born' = [c \in Category |-> IF LimitOf(m, c).id > born[c] THEN LimitOf(m, c).id ELSE born[c]]
        /\ alerts' = {a \in AlertsOf(m) : LimitOf(m, a[1]).id = a[2]}
        /\ period' = [period EXCEPT ![tx[m].now][Total] = TotalOf(m)]
        /\ told' \subseteq told \cup tx[m].tells /\ told \subseteq told'
        /\ tx' = [tx EXCEPT ![m] = t] /\ UNCHANGED <<month, changes, flips>>
    BY DEF Commit, Ends
  <1>3. tx'[m] = t /\ \A n \in Message \ {m} : tx'[n] = tx[n]
    BY <1>1, <1>2 DEF TypeOK
  <1>4. /\ t.stage = "done" /\ t.order = tx[m].order /\ t.at = 0 /\ t.now = 0 /\ t.holds = {}
        /\ t.saw = 0
        /\ DOMAIN t.entries = {} /\ DOMAIN t.limits = {} /\ t.alerts = {} /\ t.tells = {}
        /\ t.total = 0
        /\ t.checked = {}
        /\ DOMAIN t = {"stage", "order", "at", "now", "holds", "saw", "entries", "limits",
                       "alerts", "tells", "total", "checked"}
    BY DEF Idle
  <1> HIDE DEF t
  <1>5. \A c \in Category : /\ limit'[c] \in Limit /\ limit'[c] = LimitOf(m, c)
                            /\ born'[c] \in Nat /\ born'[c] >= born[c] /\ limit'[c].id <= born'[c]
                            /\ limit'[c].id <= born[c] /\ limit'[c].id # 0 => limit'[c].id = limit[c].id
                            /\ ~ Holds(m, c) => limit'[c] = limit[c] /\ born'[c] = born[c]
    <2> TAKE c \in Category
    <2>1. /\ limit'[c] = LimitOf(m, c)
          /\ born'[c] = IF LimitOf(m, c).id > born[c] THEN LimitOf(m, c).id ELSE born[c]
      BY <1>2
    <2>2. LimitOf(m, c).id \in Nat /\ limit[c].id \in Nat
      BY SeenLimit DEF Limit
    <2> QED
      BY <2>1, <2>2, SeenLimit
  <1>6. TypeOK'
    <2>1. IsFiniteSet(DOMAIN entries') /\ DOMAIN entries' \subseteq EntryId /\ \A e \in DOMAIN entries' : entries'[e] \in Expense
      BY <1>2, SeenTyped
    <2>2. limit' \in [Category -> Limit] /\ born' \in [Category -> Nat]
      BY <1>2, <1>5
    <2>3. alerts' \subseteq AlertRow /\ told' \subseteq AlertRow \X Message \X Nat
      BY <1>1, <1>2 DEF TypeOK, TransactionOK, AlertsOf
    <2>4. period' \in [Month -> [Key -> Amount \cup {0}]]
      <3>1. tx[m].now \in Month /\ Total \in Key /\ TotalOf(m) \in Amount \cup {0}
        BY <1>1 DEF TypeOK, TransactionOK, TotalOf, Key
      <3> QED
        BY <1>1, <1>2, <3>1 DEF TypeOK
    <2>5. tx' = [n \in Message |-> tx'[n]]
      BY <1>1, <1>2 DEF TypeOK
    <2>6. DOMAIN entries \subseteq DOMAIN entries'
      BY <1>2, SeenTyped
    <2>7. \A n \in Message : TransactionOK(tx[n])'
      <3>1. TransactionOK(tx[m])'
        BY <1>1, <1>3, <1>4, FS_EmptySet, BudgetsAssumption DEF TransactionOK, Stage, Month
      <3>2. \A n \in Message \ {m} : TransactionOK(tx[n])'
        BY <1>1, <1>3, <2>6 DEF TypeOK, TransactionOK, Lock
      <3> QED
        BY <3>1, <3>2
    <2> QED
      BY <1>1, <1>2, <2>1, <2>2, <2>3, <2>4, <2>5, <2>7 DEF TypeOK
  <1>7. RowsOK'
    <2>1. \A a \in AlertsOf(m) : a[2] # 0 /\ a[1] \in Category
      BY <1>1 DEF RowsOK, Own, WritesLocked, AlertsOf, TypeOK, TransactionOK, AlertRow
    <2> QED
      BY <1>2, <1>5, <2>1 DEF RowsOK
  <1>8. OneHolder'
    BY <1>1, <1>3, <1>4 DEF OneHolder
  <1>9. ToldRecorded'
    <2> SUFFICES ASSUME NEW y \in told'
                 PROVE  /\ y[1][2] \in 1..born'[y[1][1]]
                        /\ limit'[y[1][1]].id = y[1][2] => UpTo(y) \subseteq alerts'
      BY DEF ToldRecorded, UpTo
    <2> DEFINE c == y[1][1]
    <2>1. c \in Category /\ y[1][2] \in Nat
      BY <1>1, <1>2 DEF TypeOK, TransactionOK, AlertRow
    <2>2. \A a \in UpTo(y) : a[1] = c /\ a[2] = y[1][2]
      BY DEF UpTo
    <2>3. UpTo(y) \subseteq AlertsOf(m) /\ limit'[c].id = y[1][2] => UpTo(y) \subseteq alerts'
      BY <1>2, <1>5, <2>1, <2>2
    <2>4. born[c] \in Nat /\ born'[c] \in Nat /\ born'[c] >= born[c] /\ limit'[c].id <= born'[c]
      BY <1>5, <2>1, SeenLimit
    <2>5. CASE y \in told
      <3>1. y[1][2] \in 1..born[c] /\ (limit[c].id = y[1][2] => UpTo(y) \subseteq alerts)
        BY <1>1, <2>5 DEF ToldRecorded
      <3>2. limit'[c].id = y[1][2] => limit[c].id = y[1][2]
        BY <1>5, <2>1, <2>4, <3>1
      <3>3. y[1][2] \in 1..born'[c]
        BY <2>4, <3>1
      <3> HIDE DEF c
      <3> QED
        BY <2>3, <3>1, <3>2, <3>3 DEF AlertsOf, c
    <2>6. CASE y \in tx[m].tells
      <3>1. y[1] \in tx[m].alerts /\ LimitOf(m, c).id = y[1][2] /\ UpTo(y) \subseteq AlertsOf(m)
        BY <1>1, <2>6 DEF Own, TellsOK
      <3>2. y[1][2] # 0
        BY <1>1, <3>1 DEF Own, WritesLocked
      <3>3. y[1][2] = limit'[c].id
        BY <1>5, <2>1, <3>1
      <3> HIDE DEF c
      <3>4. y[1][2] \in 1..born'[c]
        BY <2>1, <2>4, <3>2, <3>3
      <3> QED
        BY <2>3, <3>1, <3>3, <3>4 DEF c
    <2> QED
      BY <1>2, <2>5, <2>6
  <1>10. Own(m)'
    BY <1>3, <1>4 DEF Own, AtWork, Active, WritesLocked, TellsOK, CheckedRecorded
  <1>11. ASSUME NEW n \in Message \ {m} PROVE Own(n)'
    <2>1. \A c : ~ (Holds(m, c) /\ Holds(n, c))
      BY <1>1 DEF OneHolder, Holds
    <2>2. DOMAIN entries \subseteq DOMAIN entries'
      BY <1>2, SeenTyped
    <2>3. \A e \in DOMAIN entries' : entries'[e].under # 0 /\ Holds(n, entries'[e].category)
             => e \in DOMAIN entries /\ entries[e] = entries'[e]
      BY <1>1, <1>2, <2>1, SeenTyped DEF Own, WritesLocked
    <2>4. \A c \in Category : Holds(n, c) => limit'[c] = limit[c] /\ born'[c] = born[c]
      BY <1>5, <2>1
    <2>5. \A a \in alerts : Holds(n, a[1]) => a \in alerts'
      <3> TAKE a \in alerts
      <3>1. a[1] \in Category /\ limit[a[1]].id = a[2]
        BY <1>1 DEF RowsOK, TypeOK, AlertRow
      <3>2. Holds(n, a[1]) => LimitOf(m, a[1]) = limit[a[1]]
        BY <1>5, <2>1, <3>1
      <3> QED
        BY <1>2, <3>1, <3>2 DEF AlertsOf
    <2>6. \A y \in told' \ told : ~ Holds(n, y[1][1])
      BY <1>1, <1>2, <2>1 DEF Own, TellsOK, WritesLocked
    <2> QED
      BY <1>3, <2>2, <2>3, <2>4, <2>5, <2>6, Untouched
  <1> QED
    BY <1>6, <1>7, <1>8, <1>9, <1>10, <1>11 DEF IInv, Own

-----------------------------------------------------------------------------
(* Every step                                                              *)

(* A transaction begins with nothing read, locked or written.              *)
LEMMA BeginStep == ASSUME IInv, NEW m \in Message, Begin(m) PROVE IInv'
  <1>1. TypeOK /\ OneHolder
    BY DEF IInv
  <1>2. PICK o \in OrdersOf[m] :
           /\ tx' = [tx EXCEPT ![m] = [Idle EXCEPT !.stage = "work", !.at = 1, !.now = month, !.order = o]]
           /\ \A i \in DOMAIN o.items : o.items[i].kind = "edit" => o.items[i].entry \in DOMAIN entries
    BY DEF Begin
  <1> DEFINE t == [Idle EXCEPT !.stage = "work", !.at = 1, !.now = month, !.order = o]
  <1>3. tx' = [tx EXCEPT ![m] = t] /\ tx'[m] = t /\ UNCHANGED shared
    BY <1>1, <1>2 DEF TypeOK, Begin, shared
  <1>4. /\ t.stage = "work" /\ t.order = o /\ t.at = 1 /\ t.now = month /\ t.holds = {}
        /\ t.saw = 0
        /\ DOMAIN t.entries = {} /\ DOMAIN t.limits = {} /\ t.alerts = {} /\ t.tells = {}
        /\ t.total = 0
        /\ t.checked = {}
        /\ DOMAIN t = {"stage", "order", "at", "now", "holds", "saw", "entries", "limits",
                       "alerts", "tells", "total", "checked"}
    BY DEF Idle
  <1> HIDE DEF t
  <1>5. o.channel \in {"chat", "api"} /\ o.items \in Seq(OrderItem) /\ Len(o.items) > 0
    BY BudgetsAssumption
  <1>6. month \in Month /\ month # 0
    BY <1>1, BudgetsAssumption DEF TypeOK, Month
  <1>7. TransactionOK(t)
    BY <1>4, <1>5, <1>6, FS_EmptySet DEF TransactionOK, Stage
  <1>8. 1 \in DOMAIN o.items
    BY <1>5
  <1>9. AtWork(m)'
    BY <1>2, <1>3, <1>4, <1>6, <1>8 DEF AtWork, Active, Item, shared
  <1>10. Own(m)' /\ Alone(m)'
    BY <1>3, <1>4, <1>9 DEF Own, WritesLocked, TellsOK, CheckedRecorded, Alone
  <1> QED
    BY <1>3, <1>7, <1>10, OthersStay

(* A row that m needs and may take is held by nobody else.                 *)
LEMMA FreeRow ==
    ASSUME IInv, NEW m \in Message, NEW c \in Category, LimitOf(m, c).id # 0,
           limit[c].id # 0 => \A n \in Message \ {m} : ~ Holds(n, c)
    PROVE  \A n \in Message \ {m} : ~ Holds(n, c)
  <1>1. limit[c].id = 0 => Holds(m, c)
    BY SeenLimit
  <1> QED
    BY <1>1 DEF IInv, OneHolder, Holds

(* An expense is booked with the budget's check or, without a limit,       *)
(* without.                                                                *)
LEMMA CheckStep ==
    ASSUME IInv, NEW m \in Message, Active(m), NEW id \in EntryId, NEW e \in Expense, e.under = 0,
           \A key \in BudgetRow(m, e) : \A n \in Message \ {m} : key \notin tx[n].holds,
           CheckBudget(m, id, e), UNCHANGED shared
    PROVE  IInv'
  <1>1. CASE ~ Applies(m, e) \/ LimitOf(m, e.category).id = 0
    <2>1. Advance(m, [tx[m] EXCEPT !.entries = With(@, id, e)])
      BY <1>1 DEF CheckBudget
    <2> QED
      BY <2>1, Unchecked
  <1>2. CASE Applies(m, e) /\ LimitOf(m, e.category).id # 0
    <2>1. Advance(m, Checked(m, id, e))
      BY <1>2 DEF CheckBudget, Checked, After, AlertOf, Highest, Records, Recorded, Reaches
    <2>2. e.category \in Category
      BY DEF Expense
    <2>3. \A n \in Message \ {m} : ~ Holds(n, e.category)
      BY <1>2, <2>2, FreeRow DEF BudgetRow, Holds
    <2> QED
      BY <1>2, <2>1, <2>3, Counted
  <1> QED
    BY <1>1, <1>2

(* An order to book an expense.                                            *)
LEMMA SpendStep == ASSUME IInv, NEW m \in Message, Spend(m) PROVE IInv'
  <1>1. At(m, "spend", "work") /\ Free(m) /\ CheckBudget(m, <<m, tx[m].at>>, Spending(m)) /\ UNCHANGED shared
    BY DEF Spend, shared
  <1>2. Active(m) /\ tx[m].stage = "work" /\ Item(m).kind = "spend"
    BY <1>1 DEF Active, At
  <1>3. Needs(m) = BudgetRow(m, Spending(m))
    BY <1>2 DEF Needs, At
  <1>4. \A key \in BudgetRow(m, Spending(m)) : \A n \in Message \ {m} : key \notin tx[n].holds
    BY <1>1, <1>3 DEF Free
  <1>5. <<m, tx[m].at>> \in EntryId
    BY <1>2, ItemTyped DEF EntryId
  <1>6. Spending(m) \in Expense /\ Spending(m).under = 0
    <2>1. Item(m) \in OrderItem /\ tx[m].now \in Month \ {0}
      BY <1>2, ItemTyped
    <2>2. tx[m].now - 1 \in Month
      BY <2>1, BudgetsAssumption DEF Month
    <2> QED
      BY <2>1, <2>2 DEF Spending, Expense, OrderItem
  <1> QED
    BY <1>1, <1>2, <1>4, <1>5, <1>6, CheckStep

(* The expense to edit is locked.                                          *)
LEMMA LockEntryStep == ASSUME IInv, NEW m \in Message, LockEntry(m) PROVE IInv'
  <1>1. Active(m) /\ tx[m].stage = "work" /\ Item(m).kind = "edit" /\ Free(m) /\ UNCHANGED shared
    BY DEF LockEntry, At, Active, shared
  <1>2. CASE entries[Item(m).entry].live
    <2> DEFINE key == <<"entry", Item(m).entry>>
               t == [tx[m] EXCEPT !.stage = "locked", !.holds = @ \cup {key}]
    <2>0. TransactionOK(tx[m]) /\ tx \in [Message -> {tx[n] : n \in Message}]
      BY DEF IInv, TypeOK
    <2>1. tx' = [tx EXCEPT ![m] = t] /\ tx'[m] = t
      BY <1>2, <2>0 DEF LockEntry
    <2>2. /\ DOMAIN t = DOMAIN tx[m] /\ t.stage = "locked" /\ t.holds = tx[m].holds \cup {key}
          /\ t.order = tx[m].order /\ t.now = tx[m].now /\ t.entries = tx[m].entries
          /\ t.limits = tx[m].limits
          /\ t.alerts = tx[m].alerts /\ t.tells = tx[m].tells /\ t.checked = tx[m].checked
          /\ t.at = tx[m].at
          /\ t.saw = tx[m].saw /\ t.total = tx[m].total
      BY <2>0 DEF TransactionOK
    <2> HIDE DEF t
    <2>3. key \in Lock
      BY <1>1 DEF IInv, AtWork, Lock
    <2>4. TransactionOK(t)
      BY <2>0, <2>2, <2>3 DEF TransactionOK, Stage
    <2>5. Needs(m) = {key}
      BY <1>1 DEF Needs, At
    <2> HIDE DEF key
    <2>6. Alone(m)'
      BY <1>1, <2>0, <2>1, <2>2, <2>5 DEF Free, Alone, IInv, OneHolder
    <2> QED
      BY <1>1, <2>1, <2>2, <2>4, <2>6, Quiet
  <1>3. CASE ~ entries[Item(m).entry].live
    BY <1>1, <1>3, Skips DEF LockEntry
  <1> QED
    BY <1>2, <1>3

(* An edited expense is checked like a new one.                            *)
LEMMA EditStep == ASSUME IInv, NEW m \in Message, Edit(m) PROVE IInv'
  <1>1. Active(m) /\ tx[m].stage = "locked" /\ Item(m).kind = "edit" /\ Free(m) /\ UNCHANGED shared
    BY DEF Edit, At, Active, shared
  <1>2. Item(m) \in OrderItem /\ Item(m).entry \in DOMAIN entries /\ TypeOK
    BY <1>1, ItemTyped DEF IInv, AtWork
  <1>3. CASE Same(entries[Item(m).entry], Item(m))
    BY <1>1, <1>3, Skips DEF Edit
  <1>4. CASE ~ Same(entries[Item(m).entry], Item(m))
    <2>1. CheckBudget(m, Item(m).entry, Edited(m))
      BY <1>4 DEF Edit
    <2>2. Edited(m) \in Expense /\ Edited(m).under = 0 /\ Item(m).entry \in EntryId
      BY <1>2 DEF TypeOK, Edited, Expense, OrderItem
    <2>3. Needs(m) = BudgetRow(m, Edited(m))
      BY <1>1 DEF Needs, At
    <2>4. \A key \in BudgetRow(m, Edited(m)) : \A n \in Message \ {m} : key \notin tx[n].holds
      BY <1>1, <2>3 DEF Free
    <2> QED
      BY <1>1, <2>1, <2>2, <2>4, CheckStep
  <1> QED
    BY <1>3, <1>4

(* An order to set a limit.                                                *)
LEMMA SetStep == ASSUME IInv, NEW m \in Message, SetLimit(m) PROVE IInv'
  <1> DEFINE c == Item(m).category
  <1>1. Active(m) /\ tx[m].stage = "work" /\ Item(m).kind = "set" /\ Free(m) /\ UNCHANGED shared
    BY DEF SetLimit, At, Active, shared
  <1>2. Item(m) \in OrderItem /\ c \in Category /\ Item(m).amount \in Nat \ {0}
    BY <1>1, ItemTyped DEF OrderItem
  <1>3. CASE Superseded(m)
    BY <1>1, <1>3, Skips DEF SetLimit
  <1>4. CASE ~ Superseded(m) /\ LimitOf(m, c).id # 0
    <2> DEFINE row == [LimitOf(m, c) EXCEPT !.amount = Item(m).amount]
    <2>1. Advance(m, Put(m, c, row))
      BY <1>4 DEF SetLimit
    <2>2. row \in Limit /\ row.id = LimitOf(m, c).id /\ row.id \in {0, limit[c].id, born[c] + 1}
      BY <1>2, <1>4, SeenLimit DEF Limit
    <2> HIDE DEF row
    <2>3. limit[c].id # 0 => \A n \in Message \ {m} : ~ Holds(n, c)
      <3> SUFFICES ASSUME limit[c].id # 0, NEW n \in Message \ {m}, Holds(n, c) PROVE FALSE
        OBVIOUS
      <3>1. Needs(m) = {<<"budget", c>>}
        BY <1>1, <1>4 DEF Needs, At
      <3> QED
        BY <1>1, <3>1 DEF Free, Holds
    <2>4. \A n \in Message \ {m} : ~ Holds(n, c)
      BY <1>2, <1>4, <2>3, FreeRow
    <2>5. \A x \in tx[m].tells : x[1][1] = c => x[1][2] = row.id
      BY <2>2 DEF IInv, TellsOK
    <2> QED
      BY <1>1, <1>2, <2>1, <2>2, <2>4, <2>5, Puts
  <1>5. CASE ~ Superseded(m) /\ LimitOf(m, c).id = 0
    <2> DEFINE t == [tx[m] EXCEPT !.stage = "inserting"]
    <2>0. TransactionOK(tx[m]) /\ tx \in [Message -> {tx[n] : n \in Message}]
      BY DEF IInv, TypeOK
    <2>1. tx' = [tx EXCEPT ![m] = t] /\ tx'[m] = t
      BY <1>5, <2>0 DEF SetLimit
    <2>2. /\ DOMAIN t = DOMAIN tx[m] /\ t.stage = "inserting" /\ t.holds = tx[m].holds
          /\ t.order = tx[m].order /\ t.now = tx[m].now /\ t.entries = tx[m].entries
          /\ t.limits = tx[m].limits
          /\ t.alerts = tx[m].alerts /\ t.tells = tx[m].tells /\ t.checked = tx[m].checked
          /\ t.at = tx[m].at
          /\ t.saw = tx[m].saw /\ t.total = tx[m].total
      BY <2>0 DEF TransactionOK
    <2> HIDE DEF t
    <2>3. TransactionOK(t)
      BY <2>0, <2>2 DEF TransactionOK, Stage
    <2>4. Alone(m)'
      BY <2>0, <2>1, <2>2 DEF Alone, IInv, OneHolder
    <2>5. \A x \in tx[m].tells : x[1][1] # c
      BY <1>5 DEF IInv, TellsOK, WritesLocked
    <2> QED
      BY <1>1, <2>1, <2>2, <2>3, <2>4, <2>5, Quiet
  <1> QED
    BY <1>3, <1>4, <1>5

(* The first limit of a category is inserted.                              *)
LEMMA InsertStep == ASSUME IInv, NEW m \in Message, Insert(m) PROVE IInv'
  <1> DEFINE c == Item(m).category
             row == [id |-> born[c] + 1, amount |-> Item(m).amount]
  <1>1. Active(m) /\ tx[m].stage = "inserting" /\ Item(m).kind = "set" /\ Free(m) /\ UNCHANGED shared
    BY DEF Insert, At, Active, shared
  <1>2. c \in Category /\ Item(m).amount \in Nat \ {0}
    BY <1>1, ItemTyped DEF OrderItem
  <1>3. CASE limit[c].id = 0
    <2>1. Advance(m, Put(m, c, row))
      BY <1>3 DEF Insert
    <2>2. row \in Limit /\ row.id = born[c] + 1
      BY <1>2, SeenLimit DEF Limit
    <2>3. Needs(m) = {<<"budget", c>>}
      BY <1>1 DEF Needs, At
    <2>4. \A n \in Message \ {m} : ~ Holds(n, c)
      BY <1>1, <2>3 DEF Free, Holds
    <2>5. \A x \in tx[m].tells : x[1][1] # c
      BY <1>1 DEF IInv, TellsOK
    <2> HIDE DEF row
    <2> QED
      BY <1>1, <1>2, <2>1, <2>2, <2>4, <2>5, Puts
  <1>4. CASE limit[c].id # 0 /\ tx[m].order.batch
    BY <1>1, <1>4, Skips DEF Insert
  <1>5. CASE limit[c].id # 0 /\ ~ tx[m].order.batch
    BY <1>1, <1>5, Ended DEF Insert
  <1> QED
    BY <1>3, <1>4, <1>5

(* A limit is cancelled, and its alerts go with it.                        *)
LEMMA CancelStep == ASSUME IInv, NEW m \in Message, CancelLimit(m) PROVE IInv'
  <1> DEFINE c == Item(m).category
  <1>1. Active(m) /\ tx[m].stage = "work" /\ Item(m).kind = "cancel" /\ Free(m) /\ UNCHANGED shared
    BY DEF CancelLimit, At, Active, shared
  <1>2. c \in Category /\ tx[m].order.batch = FALSE
    BY <1>1, ItemTyped DEF OrderItem
  <1>3. CASE LimitOf(m, c).id = 0
    BY <1>1, <1>3, Skips DEF CancelLimit
  <1>4. CASE LimitOf(m, c).id # 0
    <2>1. Advance(m, Put(m, c, NoBudget))
      BY <1>4 DEF CancelLimit
    <2>2. NoBudget \in Limit /\ NoBudget.id = 0
      BY DEF NoBudget, Limit
    <2>3. limit[c].id # 0 => \A n \in Message \ {m} : ~ Holds(n, c)
      <3> SUFFICES ASSUME limit[c].id # 0, NEW n \in Message \ {m}, Holds(n, c) PROVE FALSE
        OBVIOUS
      <3>1. Needs(m) = {<<"budget", c>>}
        BY <1>1 DEF Needs, At
      <3> QED
        BY <1>1, <3>1 DEF Free, Holds
    <2>4. \A n \in Message \ {m} : ~ Holds(n, c)
      BY <1>2, <1>4, <2>3, FreeRow
    <2>5. tx[m].tells = {}
      BY <1>1, <1>2 DEF IInv, AtWork
    <2> QED
      BY <1>1, <1>2, <2>1, <2>2, <2>4, <2>5, Puts
  <1> QED
    BY <1>3, <1>4

(* The total budget of a month is a period budget.                         *)
LEMMA TotalSteps ==
    ASSUME IInv, NEW m \in Message, LookTotal(m) \/ WriteTotal(m) \/ ShowTotal(m)
    PROVE  IInv'
  <1> USE DEF Month
  <1>0. TransactionOK(tx[m]) /\ tx \in [Message -> {tx[n] : n \in Message}] /\ TypeOK
    BY DEF IInv, TypeOK
  <1>1. Active(m) /\ Item(m).kind = "total" /\ UNCHANGED shared
    BY DEF LookTotal, WriteTotal, ShowTotal, At, Active, shared
  <1>2. Item(m).amount \in Amount /\ tx[m].now \in Month
    BY <1>1, ItemTyped
  <1>3. ASSUME NEW t, tx' = [tx EXCEPT ![m] = t],
               DOMAIN t = DOMAIN tx[m], t.stage \in {"looked", "showing"},
               t.saw \in Amount \cup {0}, t.total \in Amount \cup {0},
               t.holds = tx[m].holds \/ (t.holds = tx[m].holds \cup Needs(m) /\ Free(m) /\ Needs(m) \subseteq Lock),
               t.order = tx[m].order, t.now = tx[m].now, t.entries = tx[m].entries,
               t.limits = tx[m].limits,
               t.alerts = tx[m].alerts, t.tells = tx[m].tells, t.checked = tx[m].checked,
               t.at = tx[m].at
        PROVE  IInv'
    <2>1. TransactionOK(t)
      BY <1>0, <1>3 DEF TransactionOK, Stage
    <2>2. Alone(m)'
      BY <1>0, <1>3 DEF Free, Alone, IInv, OneHolder
    <2> QED
      BY <1>1, <1>3, <2>1, <2>2, Quiet
  <1>4. CASE LookTotal(m)
    <2> DEFINE t == [tx[m] EXCEPT !.stage = "looked", !.saw = period[tx[m].now][Total]]
    <2>1. tx' = [tx EXCEPT ![m] = t]
      BY <1>0, <1>4 DEF LookTotal
    <2>2. period[tx[m].now][Total] \in Amount \cup {0}
      BY <1>0, <1>2 DEF TypeOK, Key
    <2>3. /\ DOMAIN t = DOMAIN tx[m] /\ t.stage = "looked" /\ t.saw \in Amount \cup {0}
          /\ t.total \in Amount \cup {0}
          /\ t.holds = tx[m].holds /\ t.order = tx[m].order /\ t.now = tx[m].now
          /\ t.entries = tx[m].entries
          /\ t.limits = tx[m].limits /\ t.alerts = tx[m].alerts /\ t.tells = tx[m].tells
          /\ t.checked = tx[m].checked /\ t.at = tx[m].at
      BY <1>0, <2>2 DEF TransactionOK
    <2> HIDE DEF t
    <2> QED
      BY <2>1, <2>3, <1>3
  <1>5. CASE WriteTotal(m)
    <2>1. CASE tx[m].saw = Item(m).amount
      <3> DEFINE t == [tx[m] EXCEPT !.stage = "showing"]
      <3>1. tx' = [tx EXCEPT ![m] = t]
        BY <1>0, <1>5, <2>1 DEF WriteTotal
      <3>2. /\ DOMAIN t = DOMAIN tx[m] /\ t.stage = "showing" /\ t.saw \in Amount \cup {0}
            /\ t.total \in Amount \cup {0}
            /\ t.holds = tx[m].holds /\ t.order = tx[m].order /\ t.now = tx[m].now
            /\ t.entries = tx[m].entries
            /\ t.limits = tx[m].limits /\ t.alerts = tx[m].alerts /\ t.tells = tx[m].tells
            /\ t.checked = tx[m].checked /\ t.at = tx[m].at
        BY <1>0 DEF TransactionOK
      <3> HIDE DEF t
      <3> QED
        BY <3>1, <3>2, <1>3
    <2>2. CASE tx[m].saw # Item(m).amount /\ (tx[m].saw = 0) = (period[tx[m].now][Total] = 0)
      <3> DEFINE key == <<"total", tx[m].now>>
                 t == [tx[m] EXCEPT !.stage = "showing", !.total = Item(m).amount, !.holds = @ \cup {key}]
      <3>1. tx' = [tx EXCEPT ![m] = t]
        BY <1>0, <1>5, <2>2 DEF WriteTotal
      <3>2. /\ DOMAIN t = DOMAIN tx[m] /\ t.stage = "showing" /\ t.saw \in Amount \cup {0}
            /\ t.total \in Amount \cup {0}
            /\ t.holds = tx[m].holds \cup {key} /\ t.order = tx[m].order /\ t.now = tx[m].now
            /\ t.entries = tx[m].entries
            /\ t.limits = tx[m].limits /\ t.alerts = tx[m].alerts /\ t.tells = tx[m].tells
            /\ t.checked = tx[m].checked /\ t.at = tx[m].at
        BY <1>0, <1>2 DEF TransactionOK
      <3>3. Needs(m) = {key} /\ Free(m)
        BY <1>5, <2>2 DEF WriteTotal, Needs, At
      <3>4. key \in Lock
        BY <1>2 DEF Lock
      <3> HIDE DEF t, key
      <3> QED
        BY <3>1, <3>2, <3>3, <3>4, <1>3
    <2>3. CASE tx[m].saw # Item(m).amount /\ ~ ((tx[m].saw = 0) = (period[tx[m].now][Total] = 0))
      BY <1>1, <1>5, <2>3, Ended DEF WriteTotal
    <2> QED
      BY <2>1, <2>2, <2>3
  <1>6. CASE ShowTotal(m)
    BY <1>1, <1>6, Skips, Ended DEF ShowTotal
  <1> QED
    BY <1>4, <1>5, <1>6

(* An item of a batch fails and leaves nothing.                            *)
LEMMA ItemFailsStep == ASSUME IInv, NEW m \in Message, ItemFails(m) PROVE IInv'
  BY Skips DEF ItemFails, shared

(* A transaction that rolls back leaves nothing.                           *)
LEMMA AbortStep == ASSUME IInv, NEW m \in Message, Abort(m) PROVE IInv'
  BY Ended DEF Abort, shared

-----------------------------------------------------------------------------
(* The invariant holds at first ...                                        *)
LEMMA InitIInv == Init => IInv
  <1> SUFFICES ASSUME Init PROVE IInv
    OBVIOUS
  <1>1. /\ month = 1 /\ entries = Opening /\ alerts = {} /\ told = {} /\ changes = 0 /\ flips = 0
        /\ limit \in [Category -> {NoBudget} \cup {[id |-> 1, amount |-> a] : a \in Amount}]
        /\ born = [c \in Category |-> limit[c].id]
        /\ period = [p \in Month |-> [k \in Key |-> 0]]
        /\ tx = [m \in Message |-> Idle]
    BY DEF Init
  <1>2. \A c \in Category : limit[c] \in Limit
    BY <1>1, BudgetsAssumption DEF NoBudget, Limit
  <1>3. \A e \in DOMAIN Opening : Opening[e] \in Expense
    <2>1. {TRUE} \subseteq BOOLEAN /\ {1} \subseteq Month /\ {0} \subseteq Nat
      <3>1. {1} \subseteq Month
        BY BudgetsAssumption DEF Month
      <3> QED
        BY <3>1
    <2> QED
      BY <2>1, BudgetsAssumption, Zenon DEF Expense
  <1>4. /\ Idle.stage = "new" /\ Idle.order.channel = "chat" /\ Idle.at = 0 /\ Idle.now = 0
        /\ Idle.holds = {} /\ Idle.saw = 0
        /\ DOMAIN Idle.entries = {} /\ DOMAIN Idle.limits = {} /\ Idle.alerts = {}
        /\ Idle.tells = {} /\ Idle.total = 0
        /\ Idle.checked = {}
        /\ DOMAIN Idle = {"stage", "order", "at", "now", "holds", "saw", "entries", "limits",
                          "alerts", "tells", "total", "checked"}
    BY DEF Idle
  <1>5. TransactionOK(Idle)
    BY <1>4, FS_EmptySet, BudgetsAssumption DEF TransactionOK, Stage, Month
  <1>6. limit \in [Category -> Limit] /\ born \in [Category -> Nat]
    BY <1>1, <1>2 DEF Limit
  <1>7. TypeOK
    BY <1>1, <1>3, <1>5, <1>6, BudgetsAssumption DEF TypeOK, EntryId
  <1>8. RowsOK /\ OneHolder /\ ToldRecorded
    BY <1>1, <1>2, <1>4 DEF RowsOK, OneHolder, ToldRecorded, Limit
  <1>9. \A m \in Message : AtWork(m) /\ WritesLocked(m) /\ TellsOK(m) /\ CheckedRecorded(m)
    BY <1>1, <1>4 DEF AtWork, Active, WritesLocked, TellsOK, CheckedRecorded
  <1> QED
    BY <1>7, <1>8, <1>9 DEF IInv

(* ... and every step keeps it.                                            *)
LEMMA NextIInv == IInv /\ [Next]_vars => IInv'
  <1> SUFFICES ASSUME IInv, [Next]_vars PROVE IInv'
    OBVIOUS
  <1>1. ASSUME NEW m \in Message, Begin(m) PROVE IInv'
    BY <1>1, BeginStep
  <1>2. ASSUME NEW m \in Message, Step(m) PROVE IInv'
    BY <1>2, SpendStep, LockEntryStep, EditStep, SetStep, InsertStep, CancelStep, TotalSteps,
       CommitStep DEF Step
  <1>3. ASSUME NEW m \in Message, ItemFails(m) \/ Abort(m) PROVE IInv'
    BY <1>3, ItemFailsStep, AbortStep
  <1>4. ASSUME NEW e \in DOMAIN entries, Flip(e) PROVE IInv'
    BY <1>4, FlipStep
  <1>5. ASSUME NEW k \in Key, WebChanges(k) \/ ClientChanges(k) PROVE IInv'
    BY <1>5, PeriodStep DEF WebChanges, ClientChanges
  <1>6. CASE MonthTurns
    BY <1>6, TurnStep
  <1>7. CASE UNCHANGED vars
    <2>1. \A n \in Message : Own(n)'
      BY <1>7, Untouched DEF vars
    <2>2. TypeOK'
      BY <1>7 DEF IInv, vars, TypeOK, TransactionOK, Lock
    <2>3. RowsOK' /\ OneHolder' /\ ToldRecorded'
      BY <1>7 DEF IInv, vars, RowsOK, OneHolder, ToldRecorded, UpTo
    <2> QED
      BY <2>1, <2>2, <2>3 DEF IInv, Own
  <1> QED
    BY <1>1, <1>2, <1>3, <1>4, <1>5, <1>6, <1>7 DEF Next

(* The invariant holds in every state, for any messages and orders.        *)
THEOREM Invariance == Spec => []IInv
  BY InitIInv, NextIInv, PTL DEF Spec

(* What a message is about to tell of a budget is above everything that    *)
(* was told of it in that month, and no two of its alerts are the same.    *)
LEMMA NoThresholdTwice ==
    ASSUME IInv, [Next]_vars
    PROVE  \A x \in told' \ told : \A y \in told' :
              y[1][1] = x[1][1] /\ y[1][2] = x[1][2] /\ y[1][3] = x[1][3] /\ y # x
                => y[1][4] # x[1][4] /\ (y \in told => y[1][4] < x[1][4])
  <1> SUFFICES ASSUME NEW x \in told' \ told, NEW y \in told',
                      y[1][1] = x[1][1], y[1][2] = x[1][2], y[1][3] = x[1][3], y # x
               PROVE  y[1][4] # x[1][4] /\ (y \in told => y[1][4] < x[1][4])
    OBVIOUS
  <1>1. PICK m \in Message : Commit(m)
    BY DEF vars, Next, Begin, Step, ItemFails, Abort, Flip, WebChanges, ClientChanges, PutPeriod,
           MonthTurns,
           Spend, LockEntry, Edit, SetLimit, Insert, CancelLimit, LookTotal, WriteTotal, ShowTotal
  <1>2. x \in tx[m].tells /\ (y \in told \/ y \in tx[m].tells)
    BY <1>1 DEF Commit
  <1>3. TellsOK(m) /\ TransactionOK(tx[m]) /\ TypeOK
    BY DEF IInv, TypeOK
  <1>4. x[1] \in AlertRow /\ y[1] \in AlertRow
    BY <1>2, <1>3 DEF TypeOK, TransactionOK
  <1>5. CASE y \in told
    <2>1. y[1][4] < x[1][4]
      BY <1>2, <1>3, <1>5 DEF TellsOK, SameMonth
    <2>2. x[1][4] \in Threshold /\ y[1][4] \in Threshold
      BY <1>4 DEF AlertRow
    <2> QED
      BY <2>1, <2>2 DEF Threshold
  <1>6. CASE y \in tx[m].tells /\ y \notin told
    <2>1. y[1] # x[1]
      BY <1>2, <1>3, <1>6 DEF TellsOK
    <2> QED
      BY <1>4, <1>6, <2>1 DEF AlertRow
  <1> QED
    BY <1>2, <1>5, <1>6

(* Each threshold of a budget is told at most once in a month, and 80      *)
(* percent is never told after 100 were.                                   *)
THEOREM TellsOnceUpwardsHolds == Spec => TellsOnceUpwards
  <1>1. IInv /\ [Next]_vars =>
          [\A x \in told' \ told : \A y \in told' :
              y[1][1] = x[1][1] /\ y[1][2] = x[1][2] /\ y[1][3] = x[1][3] /\ y # x
                => y[1][4] # x[1][4] /\ (y \in told => y[1][4] < x[1][4])]_vars
    BY NoThresholdTwice
  <1> QED
    BY <1>1, Invariance, PTL DEF Spec, TellsOnceUpwards

(* A commit of expenses that were checked leaves no reached threshold      *)
(* unrecorded.                                                             *)
LEMMA CommitsRecorded ==
    ASSUME IInv, [Next]_vars, NEW m \in Message, tx[m].stage = "written", tx'[m].stage = "done",
           NEW c \in tx[m].checked \ DOMAIN tx[m].limits, NEW th \in Threshold,
           CheckedSpend(entries', c, limit'[c].id, tx[m].now) * 100 >= limit'[c].amount * th
    PROVE  <<c, limit'[c].id, tx[m].now, th>> \in alerts'
  <1>1. TypeOK /\ TransactionOK(tx[m]) /\ CheckedRecorded(m) /\ RowsOK
    BY DEF IInv, TypeOK
  <1>2. Commit(m)
    <2>0. tx = [n \in Message |-> tx[n]]
      BY <1>1 DEF TypeOK
    <2>1. ASSUME NEW n \in Message, n # m, Begin(n) \/ Step(n) \/ ItemFails(n) \/ Abort(n) PROVE tx'[m] = tx[m]
      BY <2>0, <2>1 DEF Begin, Step, ItemFails, Abort, Spend, LockEntry, Edit, SetLimit, Insert,
         CancelLimit, LookTotal,
                        WriteTotal, ShowTotal, Commit, CheckBudget, Advance, Ends
    <2>2. ~ Begin(m) /\ ~ ItemFails(m) /\ (Step(m) => Commit(m))
      BY DEF Begin, Step, ItemFails, Active, At, Spend, LockEntry, Edit, SetLimit, Insert,
             CancelLimit, LookTotal,
             WriteTotal, ShowTotal
    <2>3. ~ Abort(m)
      BY <2>0 DEF Abort, Ends, Idle
    <2>4. CASE \E n \in Message : Begin(n) \/ Step(n) \/ ItemFails(n) \/ Abort(n)
      BY <2>1, <2>2, <2>3, <2>4
    <2>5. CASE UNCHANGED tx
      BY <2>5
    <2> QED
      BY <2>4, <2>5 DEF vars, Next, Flip, WebChanges, ClientChanges, PutPeriod, MonthTurns
  <1>3. c \in Category /\ LimitOf(m, c) = limit[c]
    BY <1>1 DEF TransactionOK, LimitOf
  <1>4. entries' = EntriesOf(m) /\ limit'[c] = limit[c]
    BY <1>2, <1>3 DEF Commit
  <1>5. <<c, limit[c].id, tx[m].now, th>> \in AlertsOf(m)
    BY <1>1, <1>4 DEF CheckedRecorded
  <1> QED
    BY <1>2, <1>3, <1>4, <1>5 DEF Commit

(* When a message commits an expense it checked, the spending that was     *)
(* checked under that budget, by whomever, has its alerts recorded.        *)
THEOREM NoThresholdMissedHolds == Spec => NoThresholdMissed
  <1>1. IInv /\ [Next]_vars =>
          [\A m \in Message : tx[m].stage = "written" /\ tx'[m].stage = "done" =>
             \A c \in tx[m].checked \ DOMAIN tx[m].limits :
                LET spent == CheckedSpend(entries', c, limit'[c].id, tx[m].now) IN
                \A th \in Threshold : spent * 100 >= limit'[c].amount * th
                   => <<c, limit'[c].id, tx[m].now, th>> \in alerts']_vars
    BY CommitsRecorded
  <1> QED
    BY <1>1, Invariance, PTL DEF Spec, NoThresholdMissed

-----------------------------------------------------------------------------
(* Accounts, transfers and goals: AccountBook is instantiated here, where  *)
(* the lemmas about sums are. The amounts are the constant that it has in  *)
(* common with Budgets; no assumption of Budgets is used from here on.     *)

CONSTANTS User, Owner, Account, First, Draft, Currency, Base, Entry, Transfer, Goal, Handler,
          GoalChange, None, MaxRequests
VARIABLES account, entry, transfer, trail, goal, bound, named, handler, requests

B == INSTANCE AccountBook

(* The instance has its own copies of two operators of the libraries.     *)
LEMMA SameFinite == \A S : B!IsFiniteSet(S) <=> IsFiniteSet(S)
  BY DEF B!IsFiniteSet, IsFiniteSet

LEMMA SameSum == \A F : B!SumFunction(F) = SumFunction(F)
  BY DEF B!SumFunction, B!SumFunctionOnSet, B!FoldFunctionOnSet, B!MapThenFoldSet,
         SumFunction, SumFunctionOnSet, FoldFunctionOnSet, MapThenFoldSet

(* The ledger's rows are finitely many.                                    *)
LEMMA Finite ==
    ASSUME B!AccountBookAssumption
    PROVE  IsFiniteSet(Account) /\ IsFiniteSet(Entry) /\ IsFiniteSet(Transfer)
  BY SameFinite DEF B!AccountBookAssumption

(* What the requests are made of.                                          *)
LEMMA RequestKinds ==
    ASSUME NEW q \in B!Request
    PROVE  /\ q.op \in {"open", "rename", "archive", "default", "visibility", "transfer", "reverse",
                        "revise", "post", "plan", "amend", "complete", "shelve", "forget"}
           /\ q.by \in User
           /\ q.op = "open" => q \in B!Openings
           /\ q.op = "rename" => q \in B!Renames
           /\ q.op \in {"archive", "default"} => q \in B!Switches
           /\ q.op = "visibility" => q \in B!Showings
           /\ q.op = "transfer" => q \in B!Moves
           /\ q.op = "reverse" => q \in B!Reversals
           /\ q.op = "revise" => q \in B!Revisions
           /\ q.op = "post" => q \in B!Postings
           /\ q.op = "plan" => q \in B!Plans
           /\ q.op = "amend" => q \in B!Amendments
           /\ q.op \in {"complete", "shelve", "forget"} => q \in B!GoalSteps
  <1>1. \/ q \in B!Openings \/ q \in B!Renames \/ q \in B!Switches \/ q \in B!Showings \/ q \in B!Moves
        \/ q \in B!Reversals \/ q \in B!Revisions \/ q \in B!Postings \/ q \in B!Plans
        \/ q \in B!Amendments \/ q \in B!GoalSteps
    BY DEF B!Request, B!WebAccounts, B!ClientAccounts, B!WebTransfers, B!ClientTransfers,
       B!Commands,
           B!WebPlans, B!WebAmendments
  <1>2. CASE q \in B!Openings
    BY <1>2 DEF B!Openings
  <1>3. CASE q \in B!Renames
    BY <1>3 DEF B!Renames
  <1>4. CASE q \in B!Switches
    BY <1>4 DEF B!Switches
  <1>5. CASE q \in B!Showings
    BY <1>5 DEF B!Showings
  <1>6. CASE q \in B!Moves
    BY <1>6 DEF B!Moves
  <1>7. CASE q \in B!Reversals
    BY <1>7 DEF B!Reversals
  <1>8. CASE q \in B!Revisions
    BY <1>8 DEF B!Revisions
  <1>9. CASE q \in B!Postings
    BY <1>9 DEF B!Postings
  <1>10. CASE q \in B!Plans
    BY <1>10 DEF B!Plans
  <1>11. CASE q \in B!Amendments
    BY <1>11 DEF B!Amendments
  <1>12. CASE q \in B!GoalSteps
    BY <1>12 DEF B!GoalSteps
  <1> QED
    BY <1>1, <1>2, <1>3, <1>4, <1>5, <1>6, <1>7, <1>8, <1>9, <1>10, <1>11, <1>12

(* What a request names is there to be named.                              *)
LEMMA RequestNames ==
    ASSUME NEW q \in B!Request
    PROVE  /\ q.op = "open" => /\ q.draft \in Draft /\ q.default \in BOOLEAN /\ q.private \in BOOLEAN
           /\ q.op \in B!OnAccount => q.account \in Account
           /\ q.op = "rename" => q.name \in B!Name
           /\ q.op = "visibility" => q.private \in BOOLEAN
           /\ q.op = "transfer" => q.from \in Account /\ q.to \in Account /\ q.amount \in Amount
           /\ q.op \in B!OnTransfer => q.transfer \in Transfer
           /\ q.op = "revise" => q.amount \in Amount
           /\ q.op = "post" => q.sign \in {-1, 1} /\ q.amount \in Amount
           /\ q.op = "plan" => q.currency \in Currency /\ q.accounts \in SUBSET Account
           /\ q.op \in B!OnGoal => q.goal \in Goal
  <1>1. q.op \in B!OnAccount => q.op \in {"rename", "archive", "default", "visibility"}
    BY DEF B!OnAccount
  <1>2. q.op \in B!OnTransfer => q.op \in {"reverse", "revise"}
    BY DEF B!OnTransfer
  <1>3. q.op \in B!OnGoal => q.op \in {"amend", "complete", "shelve", "forget"}
    BY DEF B!OnGoal
  <1>4. q.op = "open" => q.draft \in Draft /\ q.default \in BOOLEAN /\ q.private \in BOOLEAN
    BY RequestKinds DEF B!Openings
  <1>5. q.op \in B!OnAccount => q.account \in Account
    BY <1>1, RequestKinds DEF B!Renames, B!Switches, B!Showings
  <1>6. /\ q.op = "rename" => q.name \in B!Name
        /\ q.op = "visibility" => q.private \in BOOLEAN
    BY RequestKinds DEF B!Renames, B!Showings
  <1>7. q.op = "transfer" => q.from \in Account /\ q.to \in Account /\ q.amount \in Amount
    BY RequestKinds DEF B!Moves
  <1>8. /\ q.op \in B!OnTransfer => q.transfer \in Transfer
        /\ q.op = "revise" => q.amount \in Amount
    BY <1>2, RequestKinds DEF B!Reversals, B!Revisions
  <1>9. q.op = "post" => q.sign \in {-1, 1} /\ q.amount \in Amount
    BY RequestKinds DEF B!Postings
  <1>10. q.op = "plan" => q.currency \in Currency /\ q.accounts \in SUBSET Account
    BY RequestKinds DEF B!Plans
  <1>11. q.op \in B!OnGoal => q.goal \in Goal
    BY <1>3, RequestKinds DEF B!Amendments, B!GoalSteps
  <1> QED
    BY <1>4, <1>5, <1>6, <1>7, <1>8, <1>9, <1>10, <1>11

(* What an amendment changes is what the constant lists.                   *)
LEMMA AmendmentNames ==
    ASSUME B!AccountBookAssumption, NEW q \in B!Request, q.op = "amend"
    PROVE  /\ q.currency \in Currency \cup {None}
           /\ q.accounts \in (SUBSET Account) \cup {None}
           /\ q.status \in {"active", "completed", "archived", None}
  <1>1. PICK u \in User, g \in Goal, c \in GoalChange :
           q = [op |-> "amend", by |-> u, goal |-> g,
                currency |-> c.currency, accounts |-> c.accounts, status |-> c.status]
    BY RequestKinds DEF B!Amendments
  <1>2. c \in [currency : Currency \cup {None}, accounts : (SUBSET Account) \cup {None},
               status : {"active", "completed", "archived", None}]
    BY DEF B!AccountBookAssumption
  <1> QED
    BY <1>1, <1>2

-----------------------------------------------------------------------------
(* What a step leaves of the others                                        *)

(* The row of a request at work.                                           *)
HandlerRow == [at : B!Stage, asked : B!Request \cup {None}, on : Account \cup {None},
               row : B!AccountRow \cup {None}]

(* What k has read stands as long as no account goes away, and nobody else *)
(* touches the transfer or the goal that it has locked.                    *)
LEMMA StandsStill ==
    ASSUME NEW k \in Handler, B!RequestStands(k), handler'[k] = handler[k],
           B!Opened \subseteq B!Opened',
           B!Asked(k) \in B!Request /\ B!Asked(k).op \in B!OnTransfer =>
                /\ transfer[B!Asked(k).transfer] # None => transfer'[B!Asked(k).transfer] # None
                /\ handler[k].at = "locked" => transfer'[B!Asked(k).transfer] = transfer[B!Asked(k).transfer],
           B!Asked(k) \in B!Request /\ B!Asked(k).op \in B!OnGoal /\ handler[k].at = "locked" =>
                (goal[B!Asked(k).goal] # None => goal'[B!Asked(k).goal] # None)
    PROVE  B!RequestStands(k)'
  <1> DEFINE q == B!Asked(k)
             at == handler[k].at
             on == handler[k].on
             found == handler[k].row
  <1>1. q' = q /\ at' = at /\ on' = on /\ found' = found
    BY DEF B!Asked
  <1>2. CASE at = "idle"
    BY <1>1, <1>2 DEF B!RequestStands
  <1>3. CASE at # "idle"
    <2>1. /\ q \in B!Request
          /\ at \in {"waiting", "locked"} <=> q.op \in B!OnTransfer \cup B!OnGoal
          /\ at \in {"clearing", "cleared"} => B!MakesDefault(q)
          /\ at = "written" => B!MakesDefault(q) \/ q.op = "rename"
          /\ q.op = "post" => found # None
          /\ q.op = "visibility" => /\ found # None /\ (found.private <=> found.owner # None)
                                    /\ found.private => found.owner = q.by
          /\ q.op = "plan" => q.accounts # {}
      BY <1>3 DEF B!RequestStands
    <2>2. IF q.op = "post" \/ at = "clearing" THEN on \in B!Opened'
          ELSE on = None \/ (at \in {"cleared", "written"} /\ on \in B!Opened')
      BY <1>3 DEF B!RequestStands
    <2>3. /\ q.op \in B!OnAccount => q.account \in B!Opened'
          /\ q.op = "transfer" => {q.from, q.to} \subseteq B!Opened' /\ q.from # q.to
      BY <1>3 DEF B!RequestStands
    <2>4. q.op \in B!OnTransfer => /\ transfer'[q.transfer] # None
                                   /\ at = "locked" => ~transfer'[q.transfer].reversed
      BY <1>3, <2>1 DEF B!RequestStands
    <2>5. q.op \in B!OnGoal /\ at = "locked" =>
            /\ goal'[q.goal] # None
            /\ q.op = "amend" => q.accounts # {}
      BY <1>3, <2>1 DEF B!RequestStands
    <2> HIDE DEF q, at, on, found
    <2> SUFFICES
          LET r == q' IN
          /\ r \in B!Request
          /\ at' \in {"waiting", "locked"} <=> r.op \in B!OnTransfer \cup B!OnGoal
          /\ at' \in {"clearing", "cleared"} => B!MakesDefault(r)
          /\ at' = "written" => B!MakesDefault(r) \/ r.op = "rename"
          /\ IF r.op = "post" \/ at' = "clearing" THEN on' \in B!Opened'
             ELSE on' = None \/ (at' \in {"cleared", "written"} /\ on' \in B!Opened')
          /\ r.op = "post" => found' # None
          /\ r.op = "visibility" => /\ found' # None /\ (found'.private <=> found'.owner # None)
                                    /\ found'.private => found'.owner = r.by
          /\ r.op \in B!OnAccount => r.account \in B!Opened'
          /\ r.op = "transfer" => {r.from, r.to} \subseteq B!Opened' /\ r.from # r.to
          /\ r.op = "plan" => r.accounts # {}
          /\ r.op \in B!OnTransfer => /\ transfer'[r.transfer] # None
                                      /\ at' = "locked" => ~transfer'[r.transfer].reversed
          /\ r.op \in B!OnGoal /\ at' = "locked" =>
              /\ goal'[r.goal] # None
              /\ r.op = "amend" => r.accounts # {}
      BY DEF B!RequestStands, q, at, on, found
    <2> QED
      BY <1>1, <2>1, <2>2, <2>3, <2>4, <2>5
  <1> QED
    BY <1>2, <1>3

(* A request that ends leaves the others where they are.                   *)
LEMMA EndsAlone ==
    ASSUME B!Consistent, NEW h \in Handler, handler' = [handler EXCEPT ![h] = B!Idle]
    PROVE  /\ handler' \in [Handler -> HandlerRow]
           /\ handler'[h] = B!Idle /\ \A k \in Handler \ {h} : handler'[k] = handler[k]
           /\ B!RequestStands(h)' /\ B!OneHolder'
  <1>1. handler \in [Handler -> HandlerRow]
    BY DEF B!Consistent, B!TypeOK, HandlerRow
  <1>2. B!Idle \in HandlerRow /\ B!Idle.at = "idle"
    BY DEF B!Idle, HandlerRow, B!Stage
  <1>3. /\ handler' \in [Handler -> HandlerRow]
        /\ handler'[h] = B!Idle /\ \A k \in Handler \ {h} : handler'[k] = handler[k]
    BY <1>1, <1>2
  <1>4. B!RequestStands(h)'
    BY <1>2, <1>3 DEF B!RequestStands
  <1>5. B!OneHolder'
    BY <1>2, <1>3 DEF B!Consistent, B!OneHolder, B!Asked
  <1> QED
    BY <1>3, <1>4, <1>5

(* Only requests move: one reads, waits, goes on, locks a row or ends.     *)
LEMMA RequestMoves ==
    ASSUME B!Consistent, NEW h \in Handler, NEW new \in HandlerRow,
           handler' = [handler EXCEPT ![h] = new],
           UNCHANGED <<account, B!books, B!goals>>, requests' \in Nat, B!RequestStands(h)',
           new.at = "locked" => \A k \in Handler \ {h} : handler[k].at = "locked" =>
              /\ {new.asked.op, B!Asked(k).op} \subseteq B!OnTransfer => new.asked.transfer # B!Asked(k).transfer
              /\ {new.asked.op, B!Asked(k).op} \subseteq B!OnGoal => new.asked.goal # B!Asked(k).goal
    PROVE  B!Consistent'
  <1>1. handler \in [Handler -> HandlerRow]
    BY DEF B!Consistent, B!TypeOK, HandlerRow
  <1>2. /\ handler' \in [Handler -> HandlerRow]
        /\ handler'[h] = new /\ \A k \in Handler \ {h} : handler'[k] = handler[k]
    BY <1>1
  <1>3. UNCHANGED <<account, entry, transfer, trail, goal, bound, named>> /\ B!Opened' = B!Opened
    BY DEF B!books, B!goals, B!Opened
  <1>4. B!TypeOK'
    BY <1>2, <1>3 DEF B!Consistent, B!TypeOK, HandlerRow
  <1>5. /\ B!OneDefault' /\ B!PrivateIsOwned' /\ B!GoalBoundAsNamed' /\ B!TrailExplainsTransfer'
        /\ B!TransfersLink'
    BY <1>3 DEF B!Consistent, B!OneDefault, B!Defaults, B!Opened, B!PrivateIsOwned,
       B!GoalBoundAsNamed,
                B!TrailExplainsTransfer, B!TransfersLink
  <1>6. B!OneHolder'
    <2> SUFFICES ASSUME NEW j \in Handler, NEW k \in Handler, j # k,
                        handler'[j].at = "locked", handler'[k].at = "locked"
                 PROVE  /\ {B!Asked(j)'.op, B!Asked(k)'.op} \subseteq B!OnTransfer
                             => B!Asked(j)'.transfer # B!Asked(k)'.transfer
                        /\ {B!Asked(j)'.op, B!Asked(k)'.op} \subseteq B!OnGoal
                             => B!Asked(j)'.goal # B!Asked(k)'.goal
      BY DEF B!OneHolder
    <2>1. CASE j = h
      BY <1>2, <2>1 DEF B!Asked
    <2>2. CASE k = h
      BY <1>2, <2>2 DEF B!Asked
    <2>3. CASE j # h /\ k # h
      BY <1>2, <2>3 DEF B!Consistent, B!OneHolder, B!Asked
    <2> QED
      BY <2>1, <2>2, <2>3
  <1>7. ASSUME NEW k \in Handler
        PROVE  B!RequestStands(k)'
    <2>1. CASE k = h
      BY <2>1
    <2>2. CASE k # h
      BY <1>2, <1>3, <2>2, StandsStill DEF B!Consistent
    <2> QED
      BY <2>1, <2>2
  <1> QED
    BY <1>4, <1>5, <1>6, <1>7 DEF B!Consistent

(* A request ends, and only accounts have changed.                         *)
LEMMA AccountsChange ==
    ASSUME B!Consistent, NEW h \in Handler, B!Done(h), UNCHANGED <<B!books, B!goals, requests>>,
           account' \in [Account -> B!AccountRow \cup {None}], B!Opened \subseteq B!Opened',
           B!OneDefault', B!PrivateIsOwned'
    PROVE  B!Consistent'
  <1>1. handler' = [handler EXCEPT ![h] = B!Idle]
    BY DEF B!Done
  <1>2. UNCHANGED <<entry, transfer, trail, goal, bound, named>> /\ requests' = requests
    BY DEF B!books, B!goals
  <1>3. B!TypeOK'
    BY <1>1, <1>2, EndsAlone DEF B!Consistent, B!TypeOK, HandlerRow
  <1>4. B!GoalBoundAsNamed' /\ B!TrailExplainsTransfer' /\ B!TransfersLink'
    BY <1>2 DEF B!Consistent, B!GoalBoundAsNamed, B!TrailExplainsTransfer, B!TransfersLink
  <1>5. \A k \in Handler : B!RequestStands(k)'
    BY <1>1, <1>2, EndsAlone, StandsStill DEF B!Consistent
  <1> QED
    BY <1>1, <1>3, <1>4, <1>5, EndsAlone DEF B!Consistent

(* An account's row, when there is one.                                    *)
LEMMA OpenedRow ==
    ASSUME B!Consistent, NEW a \in B!Opened
    PROVE  a \in Account /\ account[a] \in B!AccountRow /\ account[a] # None
  BY DEF B!Consistent, B!TypeOK, B!Opened

(* The rows that a request locks when it makes another account the         *)
(* default: of the old one and of the new one.                             *)
LEMMA OnlyNewDefault ==
    ASSUME B!AccountBookAssumption,
           B!Consistent, NEW h \in Handler, NEW a \in Account, ~B!Conflict(h, a),
           handler[h].on \in B!Opened \cup {None},
           NEW new \in B!AccountRow, new.default,
           new.private <=> new.owner # None,
           account' = [B!Without(handler[h].on) EXCEPT ![a] = new]
    PROVE  /\ account' \in [Account -> B!AccountRow \cup {None}]
           /\ B!Opened' = B!Opened \cup {a} /\ B!OneDefault' /\ B!PrivateIsOwned'
  <1> DEFINE on == handler[h].on
             cleared == B!Without(on)
  <1>1. account \in [Account -> B!AccountRow \cup {None}] /\ Account \cap {None} = {}
    BY DEF B!AccountBookAssumption, B!Consistent, B!TypeOK
  <1>2. PICK d \in Account : B!Defaults = {d}
    BY DEF B!Consistent, B!OneDefault
  <1>3. d \in {on, a}
    BY <1>2 DEF B!Conflict, B!Others
  <1>4. /\ cleared \in [Account -> B!AccountRow \cup {None}]
        /\ \A b \in Account : /\ cleared[b] # None <=> account[b] # None
                              /\ account[b] # None => /\ cleared[b].private = account[b].private
                                                      /\ cleared[b].owner = account[b].owner
                              /\ account[b] # None /\ cleared[b].default => b = d /\ b # on
    <2>1. CASE on = None
      <3>1. cleared = account
        BY <2>1 DEF B!Without
      <3> QED
        BY <1>1, <1>2, <2>1, <3>1 DEF B!Defaults, B!Opened
    <2>2. CASE on \in B!Opened
      <3>1. on \in Account /\ account[on] \in B!AccountRow
        BY <2>2, OpenedRow
      <3>2. cleared = [account EXCEPT ![on].default = FALSE]
        BY <1>1, <3>1 DEF B!Without, B!NotDefault
      <3> DEFINE row == [account[on] EXCEPT !.default = FALSE]
      <3>3. /\ row \in B!AccountRow /\ row.private = account[on].private
            /\ row.owner = account[on].owner /\ ~row.default
        BY <3>1 DEF B!AccountRow
      <3>4. cleared[on] = row /\ \A b \in Account \ {on} : cleared[b] = account[b]
        BY <1>1, <3>1, <3>2
      <3>5. row # None
        BY <3>3 DEF B!AccountBookAssumption
      <3>6. cleared \in [Account -> B!AccountRow \cup {None}]
        BY <1>1, <3>2, <3>3
      <3> HIDE DEF row, cleared, on
      <3>7. \A b \in Account : account[b] # None /\ cleared[b].default => b = d /\ b # on
        BY <1>2, <3>3, <3>4 DEF B!Defaults, B!Opened
      <3>8. \A b \in Account : /\ cleared[b] # None <=> account[b] # None
                               /\ account[b] # None => /\ cleared[b].private = account[b].private
                                                       /\ cleared[b].owner = account[b].owner
        BY <2>2, <3>3, <3>4, <3>5 DEF B!Opened
      <3> QED
        BY <3>6, <3>7, <3>8
    <2> QED
      BY <2>1, <2>2
  <1> HIDE DEF cleared
  <1>5. /\ account' \in [Account -> B!AccountRow \cup {None}]
        /\ account'[a] = new /\ \A b \in Account \ {a} : account'[b] = cleared[b]
    BY <1>4 DEF cleared
  <1>6. new # None
    BY DEF B!AccountBookAssumption
  <1> HIDE DEF on
  <1>7. B!Opened' = B!Opened \cup {a}
    BY <1>4, <1>5, <1>6 DEF B!Opened
  <1>8. B!Defaults' = {a}
    <2>1. \A b \in B!Defaults' : b = a
      BY <1>3, <1>4, <1>5, <1>7 DEF B!Defaults, B!Opened
    <2>2. a \in B!Defaults'
      BY <1>5, <1>7 DEF B!Defaults
    <2> QED
      BY <2>1, <2>2
  <1>9. B!PrivateIsOwned'
    <2> SUFFICES ASSUME NEW b \in B!Opened'
                 PROVE  account'[b].private <=> account'[b].owner # None
      BY DEF B!PrivateIsOwned
    <2>1. CASE b = a
      BY <1>5, <2>1
    <2>2. CASE b # a
      BY <1>4, <1>5, <1>7, <2>2 DEF B!Consistent, B!PrivateIsOwned, B!Opened
    <2> QED
      BY <2>1, <2>2
  <1> QED
    BY <1>5, <1>7, <1>8, <1>9 DEF B!OneDefault

(* One account's row is written, and it is as much the default as before.  *)
LEMMA OneRowChanges ==
    ASSUME B!AccountBookAssumption,
           B!Consistent, NEW a \in B!Opened, NEW new \in B!AccountRow, new.default = account[a].default,
           new.private <=> new.owner # None, account' = [account EXCEPT ![a] = new]
    PROVE  /\ account' \in [Account -> B!AccountRow \cup {None}]
           /\ B!Opened' = B!Opened /\ B!Defaults' = B!Defaults /\ B!OneDefault' /\ B!PrivateIsOwned'
  <1>1. /\ account \in [Account -> B!AccountRow \cup {None}] /\ a \in Account
        /\ account[a] # None /\ new # None
    BY OpenedRow DEF B!AccountBookAssumption, B!Consistent, B!TypeOK
  <1>2. /\ account' \in [Account -> B!AccountRow \cup {None}]
        /\ account'[a] = new /\ \A b \in Account \ {a} : account'[b] = account[b]
    BY <1>1
  <1>3. B!Opened' = B!Opened
    BY <1>1, <1>2 DEF B!Opened
  <1>4. B!Defaults' = B!Defaults
    BY <1>2, <1>3 DEF B!Defaults, B!Opened
  <1>5. B!PrivateIsOwned'
    BY <1>2, <1>3 DEF B!Consistent, B!PrivateIsOwned, B!Opened
  <1> QED
    BY <1>2, <1>3, <1>4, <1>5 DEF B!Consistent, B!OneDefault

-----------------------------------------------------------------------------
(* Accounts                                                                *)

(* A request for another default that is about to write.                   *)
LEMMA DefaultWrites ==
    ASSUME B!AccountBookAssumption,
           B!Consistent, NEW h \in Handler, B!MakeDefault(h)
    PROVE  B!Consistent'
  <1> DEFINE q == B!Asked(h)
             a == q.account
  <1>1. /\ handler[h].at = "written" /\ q.op = "default" /\ B!Done(h)
        /\ UNCHANGED <<B!books, B!goals, requests>>
    BY DEF B!MakeDefault
  <1>2. q \in B!Request /\ a \in B!Opened /\ handler[h].on \in B!Opened \cup {None}
    BY <1>1 DEF B!Consistent, B!RequestStands, B!OnAccount
  <1>3. CASE B!Conflict(h, a)
    <2>1. account' = account
      BY <1>3 DEF B!MakeDefault
    <2>2. /\ account' \in [Account -> B!AccountRow \cup {None}] /\ B!Opened' = B!Opened
          /\ B!OneDefault' /\ B!PrivateIsOwned'
      BY <2>1 DEF B!Consistent, B!TypeOK, B!OneDefault, B!Defaults, B!Opened, B!PrivateIsOwned
    <2> QED
      BY <1>1, <2>2, AccountsChange
  <1>4. CASE ~B!Conflict(h, a)
    <2> DEFINE old == B!Without(handler[h].on)[a]
               new == [old EXCEPT !.default = TRUE]
    <2>1. a \in Account /\ account[a] \in B!AccountRow
      BY <1>2, OpenedRow
    <2>2. old = account[a] \/ old = [account[a] EXCEPT !.default = FALSE]
      BY <2>1 DEF B!Consistent, B!TypeOK, B!Without, B!NotDefault
    <2>3. /\ old \in B!AccountRow /\ old.private = account[a].private /\ old.owner = account[a].owner
      BY <2>1, <2>2 DEF B!AccountRow
    <2>4. account' = [B!Without(handler[h].on) EXCEPT ![a] = new]
      BY <1>4 DEF B!MakeDefault
    <2> HIDE DEF old
    <2>5. /\ new \in B!AccountRow /\ new.default
          /\ new.private = account[a].private /\ new.owner = account[a].owner
      BY <2>3 DEF B!AccountRow
    <2>6. new.private <=> new.owner # None
      BY <1>2, <2>5 DEF B!Consistent, B!PrivateIsOwned
    <2> HIDE DEF new, a
    <2>7. /\ account' \in [Account -> B!AccountRow \cup {None}]
          /\ B!Opened' = B!Opened \cup {a} /\ B!OneDefault' /\ B!PrivateIsOwned'
      BY <1>2, <1>4, <2>1, <2>4, <2>5, <2>6, OnlyNewDefault
    <2> QED
      BY <1>1, <2>7, AccountsChange
  <1> QED
    BY <1>3, <1>4

(* A new account, with the default's clearing or without.                  *)
LEMMA OpenWrites ==
    ASSUME B!AccountBookAssumption,
           B!Consistent, NEW h \in Handler, B!Open(h)
    PROVE  B!Consistent'
  <1> DEFINE q == B!Asked(h)
             new == B!NewAccount(q.draft, q.by, q.default, q.private)
  <1>1. /\ q.op = "open" /\ handler[h].at \in {"written", "read"} /\ B!Done(h)
        /\ handler[h].at = IF q.default THEN "written" ELSE "read"
        /\ UNCHANGED <<B!books, B!goals, requests>>
    BY DEF B!Open
  <1>2. /\ q \in B!Request /\ handler[h].on \in B!Opened \cup {None}
        /\ handler[h].at = "read" => handler[h].on = None
    BY <1>1 DEF B!Consistent, B!RequestStands
  <1>3. /\ q.by \in User /\ q.draft \in Draft /\ q.default \in BOOLEAN /\ q.private \in BOOLEAN
    BY <1>1, <1>2, RequestKinds, RequestNames
  <1>4. /\ new \in B!AccountRow /\ new.default = q.default /\ (new.private <=> new.owner # None)
    <2>1. /\ q.draft.name \in B!Name /\ q.draft.type \in B!Type /\ q.draft.currency \in Currency
          /\ q.draft.opening \in Int /\ q.by # None
      BY <1>3 DEF B!AccountBookAssumption, B!Name
    <2> QED
      BY <1>3, <2>1 DEF B!NewAccount, B!AccountRow
  <1>5. PICK a \in Account \ B!Opened :
           \/ account' = account
           \/ /\ account' = [B!Without(handler[h].on) EXCEPT ![a] = new]
              /\ ~(q.default /\ B!Conflict(h, a))
    BY DEF B!Open
  <1>6. CASE account' = account
    <2>1. /\ account' \in [Account -> B!AccountRow \cup {None}] /\ B!Opened' = B!Opened
          /\ B!OneDefault' /\ B!PrivateIsOwned'
      BY <1>6 DEF B!Consistent, B!TypeOK, B!OneDefault, B!Defaults, B!Opened, B!PrivateIsOwned
    <2> QED
      BY <1>1, <2>1, AccountsChange
  <1>7. CASE /\ account' = [B!Without(handler[h].on) EXCEPT ![a] = new]
             /\ ~(q.default /\ B!Conflict(h, a))
    <2>1. CASE q.default
      <3> HIDE DEF new
      <3>1. /\ account' \in [Account -> B!AccountRow \cup {None}]
            /\ B!Opened' = B!Opened \cup {a} /\ B!OneDefault' /\ B!PrivateIsOwned'
        BY <1>2, <1>4, <1>7, <2>1, OnlyNewDefault
      <3> QED
        BY <1>1, <3>1, AccountsChange
    <2>2. CASE ~q.default
      <3>1. B!Without(handler[h].on) = account
        BY <1>1, <1>2, <2>2 DEF B!Without
      <3>2. ~new.default /\ account' = [account EXCEPT ![a] = new] /\ new \in B!AccountRow
        BY <1>4, <1>7, <2>2, <3>1
      <3>3. new # None /\ account[a] = None /\ a \in Account
        BY <1>4 DEF B!AccountBookAssumption, B!Opened
      <3>4. new.private <=> new.owner # None
        BY <1>4
      <3> HIDE DEF new, q
      <3>5. /\ account' \in [Account -> B!AccountRow \cup {None}]
            /\ account'[a] = new /\ \A b \in Account \ {a} : account'[b] = account[b]
        BY <3>2, <3>3 DEF B!Consistent, B!TypeOK
      <3>6. B!Opened' = B!Opened \cup {a}
        BY <3>3, <3>5 DEF B!Opened
      <3>7. B!Defaults' = B!Defaults
        BY <3>2, <3>3, <3>5, <3>6 DEF B!Defaults, B!Opened
      <3>8. B!PrivateIsOwned'
        BY <3>4, <3>5, <3>6 DEF B!Consistent, B!PrivateIsOwned, B!Opened
      <3>9. B!OneDefault'
        BY <3>7 DEF B!Consistent, B!OneDefault
      <3> QED
        BY <1>1, <3>5, <3>6, <3>8, <3>9, AccountsChange
    <2> QED
      BY <2>1, <2>2
  <1> QED
    BY <1>5, <1>6, <1>7

(* An account is renamed, unless the name has been taken meanwhile.        *)
LEMMA RenameWrites ==
    ASSUME B!AccountBookAssumption,
           B!Consistent, NEW h \in Handler, B!Rename(h)
    PROVE  B!Consistent' /\ B!Defaults' = B!Defaults
  <1> DEFINE q == B!Asked(h)
             a == q.account
             new == [account[a] EXCEPT !.name = q.name]
  <1>1. /\ handler[h].at = "written" /\ q.op = "rename" /\ B!Done(h)
        /\ UNCHANGED <<B!books, B!goals, requests>>
        /\ account' = account \/ account' = [account EXCEPT ![a] = new]
    BY DEF B!Rename
  <1>2. q \in B!Request /\ a \in B!Opened
    BY <1>1 DEF B!Consistent, B!RequestStands, B!OnAccount
  <1>3. q.name \in B!Name /\ account[a] \in B!AccountRow /\ a \in Account
    BY <1>1, <1>2, RequestNames, OpenedRow
  <1>4. /\ new \in B!AccountRow /\ new.default = account[a].default
        /\ new.private = account[a].private /\ new.owner = account[a].owner
    BY <1>3 DEF B!AccountRow
  <1>5. new.private <=> new.owner # None
    BY <1>2, <1>4 DEF B!Consistent, B!PrivateIsOwned
  <1> HIDE DEF new, a
  <1>6. CASE account' = account
    BY <1>1, <1>6, AccountsChange DEF B!Consistent, B!TypeOK, B!OneDefault, B!Defaults, B!Opened,
       B!PrivateIsOwned
  <1>7. CASE account' = [account EXCEPT ![a] = new]
    <2>1. /\ account' \in [Account -> B!AccountRow \cup {None}]
          /\ B!Opened' = B!Opened /\ B!Defaults' = B!Defaults /\ B!OneDefault' /\ B!PrivateIsOwned'
      BY <1>2, <1>4, <1>5, <1>7, OneRowChanges
    <2> QED
      BY <1>1, <2>1, AccountsChange
  <1> QED
    BY <1>1, <1>6, <1>7

(* An account is archived.                                                 *)
LEMMA ArchiveWrites ==
    ASSUME B!AccountBookAssumption,
           B!Consistent, NEW h \in Handler, B!Archive(h)
    PROVE  B!Consistent' /\ B!Defaults' = B!Defaults
  <1> DEFINE q == B!Asked(h)
             a == q.account
             new == [account[a] EXCEPT !.active = FALSE]
  <1>1. /\ handler[h].at = "read" /\ q.op = "archive" /\ B!Done(h)
        /\ UNCHANGED <<B!books, B!goals, requests>>
        /\ account' = [account EXCEPT ![a] = new]
    BY DEF B!Archive
  <1>2. q \in B!Request /\ a \in B!Opened
    BY <1>1 DEF B!Consistent, B!RequestStands, B!OnAccount
  <1>3. account[a] \in B!AccountRow /\ a \in Account
    BY <1>2, OpenedRow
  <1>4. /\ new \in B!AccountRow /\ new.default = account[a].default
        /\ new.private = account[a].private /\ new.owner = account[a].owner
    BY <1>3 DEF B!AccountRow
  <1>5. new.private <=> new.owner # None
    BY <1>2, <1>4 DEF B!Consistent, B!PrivateIsOwned
  <1> HIDE DEF new, a
  <1>6. /\ account' \in [Account -> B!AccountRow \cup {None}]
        /\ B!Opened' = B!Opened /\ B!Defaults' = B!Defaults /\ B!OneDefault' /\ B!PrivateIsOwned'
    BY <1>1, <1>2, <1>4, <1>5, OneRowChanges
  <1> QED
    BY <1>1, <1>6, AccountsChange

(* An account is hidden or shown: the columns that are left alone hold     *)
(* what the request found and wants, whatever was written in between.      *)
LEMMA ShowWrites ==
    ASSUME B!AccountBookAssumption,
           B!Consistent, NEW h \in Handler, B!Show(h)
    PROVE  B!Consistent' /\ B!Defaults' = B!Defaults
  <1> DEFINE q == B!Asked(h)
             a == q.account
             found == handler[h].row
             want == B!Shown(q)
             owner == IF want.owner # found.owner THEN want.owner ELSE account[a].owner
             private == IF want.private # found.private THEN want.private ELSE account[a].private
             new == [account[a] EXCEPT !.owner = owner, !.private = private]
  <1>1. /\ handler[h].at = "read" /\ q.op = "visibility" /\ B!Done(h)
        /\ UNCHANGED <<B!books, B!goals, requests>>
        /\ account' = [account EXCEPT ![a].owner = owner, ![a].private = private]
    BY DEF B!Show
  <1>2. /\ q \in B!Request /\ a \in B!Opened /\ found # None
        /\ found.private <=> found.owner # None
        /\ found.private => found.owner = q.by
    BY <1>1 DEF B!Consistent, B!RequestStands, B!OnAccount
  <1>3. /\ q.private \in BOOLEAN /\ q.by \in User /\ account[a] \in B!AccountRow /\ a \in Account
        /\ q.by # None
    BY <1>1, <1>2, RequestKinds, RequestNames, OpenedRow DEF B!AccountBookAssumption
  <1>4. found \in B!AccountRow
    BY <1>2 DEF B!Consistent, B!TypeOK
  <1>5. /\ account[a].private <=> account[a].owner # None
        /\ account[a].private \in BOOLEAN /\ account[a].owner \in User \cup {None}
        /\ found.private \in BOOLEAN
    BY <1>2, <1>3, <1>4 DEF B!Consistent, B!PrivateIsOwned, B!AccountRow
  <1>6. want.owner = (IF q.private THEN q.by ELSE None) /\ want.private = q.private
    BY DEF B!Shown
  <1>7. /\ private <=> owner # None
        /\ private \in BOOLEAN /\ owner \in User \cup {None}
    BY <1>2, <1>3, <1>5, <1>6
  <1>8. account' = [account EXCEPT ![a] = new]
    BY <1>1, <1>3 DEF B!Consistent, B!TypeOK, B!AccountRow
  <1> HIDE DEF owner, private, want, found
  <1>9. /\ new \in B!AccountRow /\ new.default = account[a].default
        /\ new.private = private /\ new.owner = owner
    BY <1>3, <1>7 DEF B!AccountRow
  <1> HIDE DEF new, a
  <1>10. /\ account' \in [Account -> B!AccountRow \cup {None}]
         /\ B!Opened' = B!Opened /\ B!Defaults' = B!Defaults /\ B!OneDefault' /\ B!PrivateIsOwned'
    BY <1>2, <1>7, <1>8, <1>9, OneRowChanges
  <1> QED
    BY <1>1, <1>10, AccountsChange

-----------------------------------------------------------------------------
(* Entries and transfers                                                   *)

(* Entries explain nothing but balances.                                   *)
LEMMA EntriesChange ==
    ASSUME B!Consistent, UNCHANGED <<account, transfer, trail, B!goals, requests>>,
           entry' \in [Entry -> B!EntryRow \cup {None}],
           \/ handler' = handler
           \/ \E h \in Handler : B!Done(h)
    PROVE  B!Consistent'
  <1>1. UNCHANGED <<goal, bound, named>> /\ B!Opened' = B!Opened
    BY DEF B!goals, B!Opened
  <1>2. /\ B!OneDefault' /\ B!PrivateIsOwned' /\ B!GoalBoundAsNamed' /\ B!TrailExplainsTransfer'
        /\ B!TransfersLink'
    BY <1>1 DEF B!Consistent, B!OneDefault, B!Defaults, B!Opened, B!PrivateIsOwned,
       B!GoalBoundAsNamed,
                B!TrailExplainsTransfer, B!TransfersLink
  <1>3. CASE handler' = handler
    <2>1. B!TypeOK'
      BY <1>1, <1>3 DEF B!Consistent, B!TypeOK
    <2>2. B!OneHolder' /\ \A k \in Handler : B!RequestStands(k)'
      BY <1>1, <1>3, StandsStill DEF B!Consistent, B!OneHolder, B!Asked
    <2> QED
      BY <1>2, <2>1, <2>2 DEF B!Consistent
  <1>4. ASSUME NEW h \in Handler, B!Done(h)
        PROVE  B!Consistent'
    <2>1. handler' = [handler EXCEPT ![h] = B!Idle]
      BY <1>4 DEF B!Done
    <2>2. /\ handler' \in [Handler -> HandlerRow] /\ B!OneHolder' /\ B!RequestStands(h)'
          /\ \A k \in Handler \ {h} : handler'[k] = handler[k]
      BY <2>1, EndsAlone
    <2>3. B!TypeOK'
      BY <1>1, <2>2 DEF B!Consistent, B!TypeOK, HandlerRow
    <2>4. \A k \in Handler : B!RequestStands(k)'
      BY <1>1, <2>2, StandsStill DEF B!Consistent
    <2> QED
      BY <1>2, <2>2, <2>3, <2>4 DEF B!Consistent
  <1> QED
    BY <1>3, <1>4

(* An entry is booked on the account that the request resolved.            *)
LEMMA PostWrites ==
    ASSUME B!AccountBookAssumption,
           B!Consistent, NEW h \in Handler, B!Post(h)
    PROVE  B!Consistent'
  <1> DEFINE q == B!Asked(h)
  <1>1. handler[h].at = "read" /\ q.op = "post" /\ B!Done(h)
        /\ UNCHANGED <<account, transfer, trail, B!goals, requests>>
    BY DEF B!Post
  <1>2. q \in B!Request /\ handler[h].on \in B!Opened /\ handler[h].row # None
    BY <1>1 DEF B!Consistent, B!RequestStands
  <1>3. handler[h].on \in Account /\ handler[h].row \in B!AccountRow
    BY <1>2 DEF B!Consistent, B!TypeOK, B!Opened
  <1>4. q.sign \in {-1, 1} /\ q.amount \in Nat
    BY <1>1, <1>2, RequestNames DEF B!AccountBookAssumption
  <1>5. q.sign * q.amount \in Int
    <2>1. CASE q.sign = 1
      BY <1>4, <2>1
    <2>2. CASE q.sign = -1
      BY <1>4, <2>2
    <2> QED
      BY <1>4, <2>1, <2>2
  <1> DEFINE new == [account |-> handler[h].on, amount |-> q.sign * q.amount,
                     live |-> TRUE, open |-> handler[h].row.active]
  <1>6. new \in B!EntryRow
    BY <1>3, <1>5 DEF B!EntryRow, B!AccountRow
  <1>7. PICK e \in Entry : entry' = [entry EXCEPT ![e] = new]
    BY DEF B!Post
  <1> HIDE DEF new
  <1>8. entry' \in [Entry -> B!EntryRow \cup {None}]
    BY <1>6, <1>7 DEF B!Consistent, B!TypeOK
  <1> QED
    BY <1>1, <1>8, EntriesChange

(* An entry is deleted or restored.                                        *)
LEMMA DeleteWrites ==
    ASSUME B!Consistent, NEW e \in Entry, B!Delete(e)
    PROVE  B!Consistent'
  <1> DEFINE new == [entry[e] EXCEPT !.live = ~@]
  <1>1. entry[e] \in B!EntryRow
    BY DEF B!Delete, B!Consistent, B!TypeOK
  <1>2. new \in B!EntryRow
    BY <1>1 DEF B!EntryRow
  <1>3. entry' = [entry EXCEPT ![e] = new]
    BY DEF B!Delete
  <1>4. entry' \in [Entry -> B!EntryRow \cup {None}]
    BY <1>2, <1>3 DEF B!Consistent, B!TypeOK
  <1> QED
    BY <1>4, EntriesChange DEF B!Delete

(* A transfer is written, and its revisions go on explaining it.           *)
LEMMA TransferChanges ==
    ASSUME B!AccountBookAssumption,
           B!Consistent, NEW h \in Handler, B!Done(h), UNCHANGED <<account, entry, B!goals, requests>>,
           NEW t \in Transfer, NEW new \in B!TransferRow, NEW rs \in Seq(B!TransferRevision),
           transfer' = [transfer EXCEPT ![t] = new], trail' = [trail EXCEPT ![t] = rs],
           {new.from, new.to} \subseteq B!Opened, new.from # new.to,
           transfer[t] # None => /\ handler[h].at = "locked" /\ B!Asked(h).op \in B!OnTransfer
                                 /\ B!Asked(h).transfer = t,
           \A i \in 1 .. Len(rs) - 1 : rs[i].after = rs[i + 1].before /\ rs[i].type = "update",
           rs # <<>> => rs[Len(rs)].after = new,
           new.reversed <=> rs # <<>> /\ rs[Len(rs)].type = "reverse"
    PROVE  B!Consistent'
  <1>1. UNCHANGED <<account, entry, goal, bound, named>> /\ requests' = requests /\ B!Opened' = B!Opened
    BY DEF B!goals, B!Opened
  <1>2. /\ handler' = [handler EXCEPT ![h] = B!Idle] /\ handler' \in [Handler -> HandlerRow]
        /\ B!OneHolder' /\ B!RequestStands(h)'
        /\ \A k \in Handler \ {h} : handler'[k] = handler[k]
    BY EndsAlone DEF B!Done
  <1>3. /\ transfer' \in [Transfer -> B!TransferRow \cup {None}]
        /\ trail' \in [Transfer -> Seq(B!TransferRevision)]
        /\ transfer'[t] = new /\ trail'[t] = rs /\ new # None
        /\ \A u \in Transfer \ {t} : transfer'[u] = transfer[u] /\ trail'[u] = trail[u]
    BY DEF B!AccountBookAssumption, B!Consistent, B!TypeOK
  <1>4. B!TypeOK'
    BY <1>1, <1>2, <1>3 DEF B!Consistent, B!TypeOK, HandlerRow
  <1>5. B!OneDefault' /\ B!PrivateIsOwned' /\ B!GoalBoundAsNamed'
    BY <1>1 DEF B!Consistent, B!OneDefault, B!Defaults, B!Opened, B!PrivateIsOwned,
       B!GoalBoundAsNamed
  <1>6. B!TransfersLink'
    BY <1>1, <1>3 DEF B!Consistent, B!TransfersLink
  <1>7. B!TrailExplainsTransfer'
    <2>1. ASSUME NEW u \in Transfer, u # t
          PROVE  trail'[u] = trail[u] /\ transfer'[u] = transfer[u]
      BY <1>3, <2>1
    <2> QED
      BY <1>3, <2>1 DEF B!Consistent, B!TrailExplainsTransfer
  <1>8. ASSUME NEW k \in Handler
        PROVE  B!RequestStands(k)'
    <2>1. CASE k = h
      BY <1>2, <2>1
    <2>2. CASE k # h
      <3>1. B!Asked(k) \in B!Request /\ B!Asked(k).op \in B!OnTransfer => B!Asked(k).transfer \in Transfer
        BY RequestNames
      <3>2. B!Asked(k).op \in B!OnTransfer /\ handler[k].at = "locked"
               /\ transfer[B!Asked(k).transfer] # None => B!Asked(k).transfer # t
        <4> SUFFICES ASSUME B!Asked(k).op \in B!OnTransfer, handler[k].at = "locked",
                            transfer[t] # None, B!Asked(k).transfer = t
                     PROVE  FALSE
          OBVIOUS
        <4>1. handler[h].at = "locked" /\ B!Asked(h).op \in B!OnTransfer /\ B!Asked(h).transfer = t
          OBVIOUS
        <4>2. {B!Asked(h).op, B!Asked(k).op} \subseteq B!OnTransfer
          BY <4>1
        <4> QED
          BY <2>2, <4>1, <4>2 DEF B!Consistent, B!OneHolder
      <3>3. B!Asked(k) \in B!Request /\ B!Asked(k).op \in B!OnTransfer /\ handler[k].at = "locked"
              => transfer[B!Asked(k).transfer] # None
        BY DEF B!Consistent, B!RequestStands
      <3>4. B!Asked(k) \in B!Request /\ B!Asked(k).op \in B!OnTransfer =>
               /\ transfer[B!Asked(k).transfer] # None => transfer'[B!Asked(k).transfer] # None
               /\ handler[k].at = "locked" => transfer'[B!Asked(k).transfer] = transfer[B!Asked(k).transfer]
        BY <1>3, <3>1, <3>2, <3>3
      <3> QED
        BY <1>1, <1>2, <2>2, <3>4, StandsStill DEF B!Consistent
    <2> QED
      BY <2>1, <2>2
  <1> QED
    BY <1>2, <1>4, <1>5, <1>6, <1>7, <1>8 DEF B!Consistent

(* A transfer without a row has no revisions either.                       *)
LEMMA MoveWrites ==
    ASSUME B!AccountBookAssumption,
           B!Consistent, NEW h \in Handler, B!Move(h)
    PROVE  B!Consistent'
  <1> DEFINE q == B!Asked(h)
             new == [from |-> q.from, to |-> q.to, amount |-> q.amount, reversed |-> FALSE]
  <1>1. /\ handler[h].at = "read" /\ q.op = "transfer" /\ B!Done(h)
        /\ UNCHANGED <<account, entry, trail, B!goals, requests>>
    BY DEF B!Move
  <1>2. PICK t \in Transfer : transfer[t] = None /\ transfer' = [transfer EXCEPT ![t] = new]
    BY DEF B!Move
  <1>3. q \in B!Request /\ {q.from, q.to} \subseteq B!Opened /\ q.from # q.to
    BY <1>1 DEF B!Consistent, B!RequestStands
  <1>4. new \in B!TransferRow
    BY <1>1, <1>3, RequestNames DEF B!TransferRow
  <1>5. {new.from, new.to} \subseteq B!Opened /\ new.from # new.to /\ ~new.reversed
    BY <1>3
  <1>6. trail[t] \in Seq(B!TransferRevision) /\ trail' = [trail EXCEPT ![t] = trail[t]]
    BY <1>1 DEF B!Consistent, B!TypeOK
  <1>7. trail[t] = <<>>
    <2> SUFFICES ASSUME trail[t] # <<>> PROVE FALSE
      OBVIOUS
    <2>1. trail[t][Len(trail[t])] \in B!TransferRevision
      BY <1>6
    <2>2. trail[t][Len(trail[t])].after \in B!TransferRow
      BY <2>1 DEF B!TransferRevision
    <2>3. trail[t][Len(trail[t])].after = None
      BY <1>2 DEF B!Consistent, B!TrailExplainsTransfer
    <2> QED
      BY <2>2, <2>3 DEF B!AccountBookAssumption
  <1> HIDE DEF new
  <1> DEFINE rs == trail[t]
  <1>8. /\ rs \in Seq(B!TransferRevision) /\ trail' = [trail EXCEPT ![t] = rs]
        /\ \A i \in 1 .. Len(rs) - 1 : rs[i].after = rs[i + 1].before /\ rs[i].type = "update"
        /\ rs # <<>> => rs[Len(rs)].after = new
        /\ new.reversed <=> rs # <<>> /\ rs[Len(rs)].type = "reverse"
    BY <1>5, <1>6, <1>7
  <1> HIDE DEF rs
  <1> QED
    BY <1>1, <1>2, <1>4, <1>5, <1>8, TransferChanges

(* The holder of a transfer reverses or revises it: the revision starts    *)
(* from what stands, and what stood was not reversed.                      *)
LEMMA ChangeWrites ==
    ASSUME B!AccountBookAssumption,
           B!Consistent, NEW h \in Handler, handler[h].at = "locked",
           NEW type \in {"update", "reverse"}, NEW new, B!Change(h, type, new),
           B!Asked(h).op \in B!OnTransfer,
           \/ /\ type = "reverse"
              /\ new = [transfer[B!Asked(h).transfer] EXCEPT !.reversed = TRUE]
           \/ /\ type = "update" /\ B!Asked(h).op = "revise"
              /\ new = [transfer[B!Asked(h).transfer] EXCEPT !.amount = B!Asked(h).amount]
    PROVE  B!Consistent'
  <1> DEFINE q == B!Asked(h)
             t == q.transfer
             old == transfer[t]
             rs == trail[t]
             m == [type |-> type, before |-> old, after |-> new]
             us == Append(rs, m)
  <1>1. /\ B!Done(h) /\ UNCHANGED <<account, entry, B!goals, requests>>
        /\ transfer' = [transfer EXCEPT ![t] = new] /\ trail' = [trail EXCEPT ![t] = us]
    BY DEF B!Change
  <1>2. q \in B!Request /\ old # None /\ ~old.reversed
    BY DEF B!Consistent, B!RequestStands
  <1>3. t \in Transfer /\ (q.op = "revise" => q.amount \in Amount)
    BY <1>2, RequestNames
  <1>4. old \in B!TransferRow /\ rs \in Seq(B!TransferRevision)
    BY <1>2, <1>3 DEF B!Consistent, B!TypeOK
  <1>5. /\ new \in B!TransferRow /\ new.from = old.from /\ new.to = old.to
        /\ new.reversed <=> type = "reverse"
    BY <1>2, <1>3, <1>4 DEF B!TransferRow
  <1>6. {new.from, new.to} \subseteq B!Opened /\ new.from # new.to
    BY <1>2, <1>3, <1>5 DEF B!Consistent, B!TransfersLink
  <1>7. m \in B!TransferRevision
    BY <1>4, <1>5 DEF B!TransferRevision
  <1>8. /\ \A i \in 1 .. Len(rs) - 1 : rs[i].after = rs[i + 1].before /\ rs[i].type = "update"
        /\ rs # <<>> => rs[Len(rs)].after = old
        /\ ~(rs # <<>> /\ rs[Len(rs)].type = "reverse")
    BY <1>2, <1>3 DEF B!Consistent, B!TrailExplainsTransfer
  <1>9. rs # <<>> => rs[Len(rs)].type = "update"
    <2>1. rs # <<>> => rs[Len(rs)] \in B!TransferRevision
      BY <1>4
    <2> QED
      BY <1>8, <2>1 DEF B!TransferRevision
  <1>10. m.type = type /\ m.before = old /\ m.after = new
    OBVIOUS
  <1> HIDE DEF m, old, rs, t, q
  <1>11. /\ us \in Seq(B!TransferRevision) /\ Len(us) = Len(rs) + 1 /\ us # <<>> /\ us[Len(us)] = m
         /\ \A i \in 1 .. Len(rs) : us[i] = rs[i]
         /\ Len(rs) \in Nat /\ (Len(rs) > 0 => rs # <<>>)
    BY <1>4, <1>7
  <1> HIDE DEF us
  <1>12. \A i \in 1 .. Len(us) - 1 : us[i].after = us[i + 1].before /\ us[i].type = "update"
    <2> TAKE i \in 1 .. Len(us) - 1
    <2>1. CASE i = Len(rs)
      BY <1>8, <1>9, <1>10, <1>11, <2>1
    <2>2. CASE i # Len(rs)
      <3>1. i \in 1 .. Len(rs) - 1 /\ i \in 1 .. Len(rs) /\ i + 1 \in 1 .. Len(rs)
        BY <1>11, <2>2
      <3> QED
        BY <1>8, <1>11, <3>1
    <2> QED
      BY <2>1, <2>2
  <1>13. /\ us # <<>> => us[Len(us)].after = new
         /\ new.reversed <=> us # <<>> /\ us[Len(us)].type = "reverse"
    BY <1>5, <1>10, <1>11
  <1>14. old # None => handler[h].at = "locked" /\ q.op \in B!OnTransfer /\ q.transfer = t
    BY DEF q, t
  <1> QED
    BY <1>1, <1>3, <1>5, <1>6, <1>11, <1>12, <1>13, <1>14, TransferChanges DEF old, q

-----------------------------------------------------------------------------
(* Goals                                                                   *)

(* A goal is written with the accounts of one request or with those it had.*)
LEMMA GoalChanges ==
    ASSUME B!Consistent, NEW h \in Handler, B!Done(h), UNCHANGED <<account, B!books, requests>>,
           NEW g \in Goal, NEW new \in B!GoalRow \cup {None}, NEW A \in SUBSET Account,
           goal' = [goal EXCEPT ![g] = new],
           bound' = [bound EXCEPT ![g] = A], named' = [named EXCEPT ![g] = A],
           new # None => A # {},
           goal[g] # None => /\ handler[h].at = "locked" /\ B!Asked(h).op \in B!OnGoal
                             /\ B!Asked(h).goal = g
    PROVE  B!Consistent'
  <1>1. UNCHANGED <<account, entry, transfer, trail>> /\ requests' = requests /\ B!Opened' = B!Opened
    BY DEF B!books, B!Opened
  <1>2. /\ handler' = [handler EXCEPT ![h] = B!Idle] /\ handler' \in [Handler -> HandlerRow]
        /\ B!OneHolder' /\ B!RequestStands(h)'
        /\ \A k \in Handler \ {h} : handler'[k] = handler[k]
    BY EndsAlone DEF B!Done
  <1>3. /\ goal' \in [Goal -> B!GoalRow \cup {None}] /\ bound' \in [Goal -> SUBSET Account]
        /\ named' \in [Goal -> SUBSET Account]
        /\ goal'[g] = new /\ bound'[g] = A /\ named'[g] = A
        /\ \A j \in Goal \ {g} : goal'[j] = goal[j] /\ bound'[j] = bound[j] /\ named'[j] = named[j]
    BY DEF B!Consistent, B!TypeOK
  <1>4. B!TypeOK'
    BY <1>1, <1>2, <1>3 DEF B!Consistent, B!TypeOK, HandlerRow
  <1>5. B!OneDefault' /\ B!PrivateIsOwned' /\ B!TrailExplainsTransfer' /\ B!TransfersLink'
    BY <1>1 DEF B!Consistent, B!OneDefault, B!Defaults, B!Opened, B!PrivateIsOwned,
       B!TrailExplainsTransfer,
                B!TransfersLink
  <1>6. B!GoalBoundAsNamed'
    BY <1>3 DEF B!Consistent, B!GoalBoundAsNamed
  <1>7. ASSUME NEW k \in Handler
        PROVE  B!RequestStands(k)'
    <2>1. CASE k = h
      BY <1>2, <2>1
    <2>2. CASE k # h
      <3>1. B!Asked(k) \in B!Request /\ B!Asked(k).op \in B!OnGoal => B!Asked(k).goal \in Goal
        BY RequestNames
      <3>2. B!Asked(k).op \in B!OnGoal /\ handler[k].at = "locked" /\ goal[B!Asked(k).goal] # None
              => B!Asked(k).goal # g
        <4> SUFFICES ASSUME B!Asked(k).op \in B!OnGoal, handler[k].at = "locked",
                            goal[g] # None, B!Asked(k).goal = g
                     PROVE  FALSE
          OBVIOUS
        <4>1. handler[h].at = "locked" /\ B!Asked(h).op \in B!OnGoal /\ B!Asked(h).goal = g
          OBVIOUS
        <4>2. {B!Asked(h).op, B!Asked(k).op} \subseteq B!OnGoal
          BY <4>1
        <4> QED
          BY <2>2, <4>1, <4>2 DEF B!Consistent, B!OneHolder
      <3>3. B!Asked(k) \in B!Request /\ B!Asked(k).op \in B!OnGoal /\ handler[k].at = "locked" =>
               (goal[B!Asked(k).goal] # None => goal'[B!Asked(k).goal] # None)
        BY <1>3, <3>1, <3>2
      <3> QED
        BY <1>1, <1>2, <2>2, <3>3, StandsStill DEF B!Consistent
    <2> QED
      BY <2>1, <2>2
  <1> QED
    BY <1>2, <1>4, <1>5, <1>6, <1>7 DEF B!Consistent

(* A goal is planned, under a free id.                                     *)
LEMMA PlanWrites ==
    ASSUME B!Consistent, NEW h \in Handler, B!Plan(h)
    PROVE  B!Consistent'
  <1> DEFINE q == B!Asked(h)
             new == [by |-> q.by, currency |-> q.currency, status |-> "active"]
  <1>1. handler[h].at = "read" /\ q.op = "plan" /\ B!Done(h) /\ UNCHANGED <<account, B!books, requests>>
    BY DEF B!Plan
  <1>2. q \in B!Request /\ q.accounts # {}
    BY <1>1 DEF B!Consistent, B!RequestStands
  <1>3. q.by \in User /\ q.currency \in Currency /\ q.accounts \in SUBSET Account
    BY <1>1, <1>2, RequestKinds, RequestNames
  <1>4. new \in B!GoalRow
    BY <1>3 DEF B!GoalRow
  <1>5. PICK g \in Goal : /\ goal[g] = None /\ goal' = [goal EXCEPT ![g] = new]
                          /\ bound' = [bound EXCEPT ![g] = q.accounts]
                          /\ named' = [named EXCEPT ![g] = q.accounts]
    BY DEF B!Plan
  <1> HIDE DEF new, q
  <1> QED
    BY <1>1, <1>2, <1>3, <1>4, <1>5, GoalChanges

(* What the holder of a goal has found.                                    *)
LEMMA HolderFound ==
    ASSUME B!Consistent, NEW h \in Handler, handler[h].at = "locked", B!Asked(h).op \in B!OnGoal
    PROVE  /\ B!Asked(h) \in B!Request /\ B!Asked(h).goal \in Goal
           /\ goal[B!Asked(h).goal] \in B!GoalRow
           /\ bound[B!Asked(h).goal] \in SUBSET Account
           /\ named[B!Asked(h).goal] = bound[B!Asked(h).goal] /\ bound[B!Asked(h).goal] # {}
           /\ B!Asked(h).op = "amend" => B!Asked(h).accounts # {}
  <1>1. /\ B!Asked(h) \in B!Request /\ goal[B!Asked(h).goal] # None
        /\ B!Asked(h).op = "amend" => B!Asked(h).accounts # {}
    BY DEF B!Consistent, B!RequestStands
  <1>2. B!Asked(h).goal \in Goal
    BY <1>1, RequestNames
  <1> QED
    BY <1>1, <1>2 DEF B!Consistent, B!TypeOK, B!GoalBoundAsNamed

(* An amendment changes the columns and the bindings that it names.        *)
LEMMA AmendWrites ==
    ASSUME B!AccountBookAssumption, B!Consistent, NEW h \in Handler, B!Amend(h)
    PROVE  B!Consistent'
  <1> DEFINE q == B!Asked(h)
             g == q.goal
             currency == IF q.currency = None THEN goal[g].currency ELSE q.currency
             status == IF q.status = None THEN goal[g].status ELSE q.status
             new == [goal[g] EXCEPT !.currency = currency, !.status = status]
             A == IF q.accounts = None THEN bound[g] ELSE q.accounts
  <1>1. /\ handler[h].at = "locked" /\ q.op = "amend" /\ q.op \in B!OnGoal /\ B!Done(h)
        /\ UNCHANGED <<account, B!books, requests>>
        /\ goal' = [goal EXCEPT ![g].currency = currency, ![g].status = status]
    BY DEF B!Amend, B!OnGoal
  <1>2. /\ q \in B!Request /\ g \in Goal /\ goal[g] \in B!GoalRow /\ bound[g] \in SUBSET Account
        /\ named[g] = bound[g] /\ bound[g] # {} /\ q.accounts # {}
    BY <1>1, HolderFound
  <1>3. /\ q.currency \in Currency \cup {None} /\ q.accounts \in (SUBSET Account) \cup {None}
        /\ q.status \in {"active", "completed", "archived", None}
    BY <1>1, <1>2, AmendmentNames
  <1>4. goal' = [goal EXCEPT ![g] = new]
    BY <1>1, <1>2 DEF B!Consistent, B!TypeOK, B!GoalRow
  <1>5. currency \in Currency /\ status \in {"active", "completed", "archived"}
    BY <1>2, <1>3 DEF B!GoalRow
  <1> HIDE DEF currency, status
  <1>6. new \in B!GoalRow
    BY <1>2, <1>5 DEF B!GoalRow
  <1>7. A \in SUBSET Account /\ A # {}
    BY <1>2, <1>3
  <1>8. bound' = [bound EXCEPT ![g] = A] /\ named' = [named EXCEPT ![g] = A]
    <2>1. CASE q.accounts = None
      <3>1. bound' = bound /\ named' = named
        BY <2>1 DEF B!Amend
      <3>2. bound = [bound EXCEPT ![g] = bound[g]] /\ named = [named EXCEPT ![g] = named[g]]
        BY <1>2 DEF B!Consistent, B!TypeOK
      <3> QED
        BY <1>2, <2>1, <3>1, <3>2
    <2>2. CASE q.accounts # None
      BY <2>2 DEF B!Amend, B!Rebound
    <2> QED
      BY <2>1, <2>2
  <1>9. g = B!Asked(h).goal
    OBVIOUS
  <1> HIDE DEF new, A, g
  <1> QED
    BY <1>1, <1>2, <1>4, <1>6, <1>7, <1>8, <1>9, GoalChanges

(* A goal is completed or archived.                                        *)
LEMMA StepWrites ==
    ASSUME B!Consistent, NEW h \in Handler, B!Step(h)
    PROVE  B!Consistent'
  <1> DEFINE g == B!Asked(h).goal
             status == IF B!Asked(h).op = "complete" THEN "completed" ELSE "archived"
             new == [goal[g] EXCEPT !.status = status]
             A == bound[g]
  <1>1. /\ handler[h].at = "locked" /\ B!Asked(h).op \in B!OnGoal /\ B!Done(h)
        /\ UNCHANGED <<account, B!books, requests>> /\ bound' = bound /\ named' = named
        /\ goal' = [goal EXCEPT ![g] = new]
    BY DEF B!Step, B!OnGoal
  <1>2. g \in Goal /\ goal[g] \in B!GoalRow /\ A \in SUBSET Account /\ named[g] = A /\ A # {}
    BY <1>1, HolderFound
  <1>3. new \in B!GoalRow
    BY <1>2 DEF B!GoalRow
  <1>4. bound' = [bound EXCEPT ![g] = A] /\ named' = [named EXCEPT ![g] = A]
    BY <1>1, <1>2 DEF B!Consistent, B!TypeOK
  <1>5. g = B!Asked(h).goal
    OBVIOUS
  <1> HIDE DEF new, A, g
  <1>6. /\ B!Done(h) /\ UNCHANGED <<account, B!books, requests>> /\ goal' = [goal EXCEPT ![g] = new]
        /\ handler[h].at = "locked" /\ B!Asked(h).op \in B!OnGoal
    BY <1>1
  <1> QED
    BY <1>2, <1>3, <1>4, <1>5, <1>6, GoalChanges

(* A goal is deleted with its bindings.                                    *)
LEMMA ForgetWrites ==
    ASSUME B!Consistent, NEW h \in Handler, B!Forget(h)
    PROVE  B!Consistent'
  <1>1. /\ handler[h].at = "locked" /\ B!Asked(h).op \in B!OnGoal /\ B!Done(h)
        /\ UNCHANGED <<account, B!books, requests>>
        /\ goal' = [goal EXCEPT ![B!Asked(h).goal] = None]
        /\ bound' = [bound EXCEPT ![B!Asked(h).goal] = {}]
        /\ named' = [named EXCEPT ![B!Asked(h).goal] = {}]
    BY DEF B!Forget, B!OnGoal
  <1>2. B!Asked(h).goal \in Goal
    BY <1>1, HolderFound
  <1> QED
    BY <1>1, <1>2, GoalChanges

-----------------------------------------------------------------------------
(* Requests arrive, read and wait                                          *)

(* What a request finds when it is read.                                   *)
LEMMA Arrives ==
    ASSUME B!Consistent, NEW h \in Handler, NEW q \in B!Request, B!Arrive(h, q)
    PROVE  B!Consistent'
  <1> DEFINE new(a) == [at |-> IF q.op \in {"reverse", "revise", "amend", "complete", "shelve", "forget"}
                               THEN "waiting" ELSE "read",
                        asked |-> q, on |-> a,
                        row |-> CASE q.op = "visibility" -> account[q.account]
                                  [] q.op = "post" -> account[a]
                                  [] OTHER -> None]
  <1>1. PICK a \in Account \cup {None} :
           /\ IF q.op = "post" THEN a # None /\ B!Resolved(q, a) ELSE a = None
           /\ handler' = [handler EXCEPT ![h] = new(a)]
    BY DEF B!Arrive
  <1>2. B!Accepted(q) /\ UNCHANGED <<account, B!books, B!goals>> /\ requests' = requests + 1
    BY DEF B!Arrive
  <1> DEFINE n == new(a)
  <1>3. /\ n.at \in {"waiting", "read"} /\ n.asked = q /\ n.on = a
        /\ n.at = "waiting" <=> q.op \in B!OnTransfer \cup B!OnGoal
        /\ n.row = CASE q.op = "visibility" -> account[q.account]
                     [] q.op = "post" -> account[a]
                     [] OTHER -> None
    BY DEF B!OnTransfer, B!OnGoal
  <1>4. q.op = "post" => a \in B!Opened /\ n.row = account[a]
    BY <1>1, <1>3 DEF B!Resolved, B!Usable, B!Visible, B!Defaults
  <1>5. q.op # "post" => a = None
    BY <1>1
  <1>6. /\ q.op \in {"rename", "archive", "default"} => q.account \in B!Opened
        /\ q.op = "visibility" => B!Visible(q.account, q.by) /\ n.row = account[q.account]
        /\ q.op = "transfer" => {q.from, q.to} \subseteq B!Opened /\ q.from # q.to
        /\ q.op = "plan" => q.accounts # {}
        /\ q.op \in B!OnTransfer => transfer[q.transfer] # None
    <2>1. q.op \in {"rename", "archive", "default"} => q.account \in B!Opened
      BY <1>2 DEF B!Accepted, B!Usable, B!Visible
    <2>2. q.op = "visibility" => B!Visible(q.account, q.by)
      BY <1>2 DEF B!Accepted, B!MayShow
    <2>3. q.op = "transfer" => {q.from, q.to} \subseteq B!Opened /\ q.from # q.to
      BY <1>2 DEF B!Accepted, B!Movable, B!Usable, B!Visible
    <2>4. q.op = "plan" => q.accounts # {}
      BY <1>2 DEF B!Accepted, B!Savable
    <2>5. q.op \in B!OnTransfer => transfer[q.transfer] # None
      BY <1>2 DEF B!Accepted, B!OnTransfer
    <2> QED
      BY <1>3, <2>1, <2>2, <2>3, <2>4, <2>5
  <1>7. q.op = "visibility" => /\ q.account \in B!Opened /\ n.row # None
                               /\ (n.row.private <=> n.row.owner # None)
                               /\ n.row.private => n.row.owner = q.by
    BY <1>6 DEF B!Visible, B!Consistent, B!PrivateIsOwned, B!Opened
  <1>8. q.op \in B!OnAccount => q.account \in B!Opened
    BY <1>6, <1>7 DEF B!OnAccount
  <1>9. n.row \in B!AccountRow \cup {None}
    <2>1. q.op = "visibility" => n.row \in B!AccountRow
      BY <1>6, OpenedRow DEF B!Visible
    <2>2. q.op = "post" => n.row \in B!AccountRow
      BY <1>4, OpenedRow
    <2> QED
      BY <1>3, <2>1, <2>2
  <1>10. n \in HandlerRow
    BY <1>1, <1>9 DEF HandlerRow, B!Stage
  <1>11. n.row # None \/ q.op # "post"
    BY <1>4 DEF B!Opened
  <1> HIDE DEF n
  <1>12. handler' = [handler EXCEPT ![h] = n] /\ handler'[h] = n
    BY <1>1, <1>10 DEF n, B!Consistent, B!TypeOK
  <1>13. B!Opened' = B!Opened /\ transfer' = transfer
    BY <1>2 DEF B!Opened, B!books
  <1>14. B!RequestStands(h)'
    BY <1>3, <1>4, <1>5, <1>6, <1>7, <1>8, <1>11, <1>12, <1>13 DEF B!RequestStands, B!Asked
  <1>15. requests' \in Nat
    BY <1>2 DEF B!Consistent, B!TypeOK
  <1> QED
    BY <1>2, <1>3, <1>10, <1>12, <1>14, <1>15, RequestMoves

(* A request that is refused changes nothing.                              *)
LEMMA RefusedMoves ==
    ASSUME B!Consistent, NEW h \in Handler, B!Refused(h), UNCHANGED <<account, B!books, B!goals,
           requests>>
    PROVE  B!Consistent'
  <1>1. handler' = [handler EXCEPT ![h] = B!Idle]
    BY DEF B!Refused
  <1>2. B!Idle \in HandlerRow /\ B!Idle.at = "idle"
    BY DEF B!Idle, HandlerRow, B!Stage
  <1>3. B!RequestStands(h)' /\ requests' \in Nat
    BY <1>1, EndsAlone DEF B!Consistent, B!TypeOK
  <1> QED
    BY <1>1, <1>2, <1>3, RequestMoves

(* The UPDATE finds a default and waits for its row.                       *)
LEMMA ClearMoves ==
    ASSUME B!Consistent, NEW h \in Handler, B!Clear(h)
    PROVE  B!Consistent'
  <1>1. PICK d \in B!Defaults : handler' = [handler EXCEPT ![h].at = "clearing", ![h].on = d]
    BY DEF B!Clear
  <1> DEFINE q == B!Asked(h)
             new == [handler[h] EXCEPT !.at = "clearing", !.on = d]
  <1>2. /\ handler \in [Handler -> HandlerRow] /\ handler[h] \in HandlerRow
        /\ requests \in Nat
    BY DEF B!Consistent, B!TypeOK, HandlerRow
  <1>3. d \in B!Opened /\ d \in Account
    BY DEF B!Defaults, B!Opened
  <1>4. /\ handler[h].at = "read" /\ B!MakesDefault(q)
        /\ UNCHANGED <<account, B!books, B!goals, requests>>
    BY DEF B!Clear
  <1>5. /\ new \in HandlerRow /\ new.at = "clearing" /\ new.on = d
        /\ new.asked = q /\ new.row = handler[h].row
    BY <1>2, <1>3 DEF HandlerRow, B!Stage, B!Asked
  <1>6. handler' = [handler EXCEPT ![h] = new]
    BY <1>1, <1>2 DEF HandlerRow
  <1>7. /\ q \in B!Request /\ ~(q.op \in B!OnTransfer \cup B!OnGoal)
        /\ q.op \in B!OnAccount => q.account \in B!Opened
        /\ q.op \in {"default", "open"}
    BY <1>4 DEF B!Consistent, B!RequestStands, B!MakesDefault
  <1> HIDE DEF new
  <1>8. handler'[h] = new /\ B!Opened' = B!Opened
    BY <1>2, <1>4, <1>6 DEF B!Opened
  <1>9. B!RequestStands(h)'
    BY <1>3, <1>4, <1>5, <1>7, <1>8 DEF B!RequestStands, B!Asked, B!MakesDefault
  <1> QED
    BY <1>2, <1>4, <1>5, <1>6, <1>9, RequestMoves

(* The old default's row is there to be cleared, or another one is by now. *)
LEMMA ClearedMoves ==
    ASSUME B!Consistent, NEW h \in Handler, B!Cleared(h)
    PROVE  B!Consistent'
  <1> DEFINE q == B!Asked(h)
             on == IF B!StillDefault(handler[h].on) THEN handler[h].on ELSE None
             new == [handler[h] EXCEPT !.at = "cleared", !.on = on]
  <1>1. /\ handler[h].at = "clearing" /\ UNCHANGED <<account, B!books, B!goals, requests>>
        /\ handler' = [handler EXCEPT ![h].at = "cleared", ![h].on = on]
    BY DEF B!Cleared, B!Consistent, B!TypeOK
  <1>2. /\ handler \in [Handler -> HandlerRow] /\ handler[h] \in HandlerRow
        /\ requests \in Nat
    BY DEF B!Consistent, B!TypeOK, HandlerRow
  <1>3. on \in B!Opened \cup {None} /\ on \in Account \cup {None}
    BY <1>1 DEF B!Consistent, B!RequestStands, B!Opened
  <1>4. /\ new \in HandlerRow /\ new.at = "cleared" /\ new.on = on
        /\ new.asked = q /\ new.row = handler[h].row
    BY <1>2, <1>3 DEF HandlerRow, B!Stage, B!Asked
  <1>5. handler' = [handler EXCEPT ![h] = new]
    BY <1>1, <1>2 DEF HandlerRow
  <1>6. /\ q \in B!Request /\ ~(q.op \in B!OnTransfer \cup B!OnGoal)
        /\ q.op \in B!OnAccount => q.account \in B!Opened
        /\ q.op \in {"default", "open"} /\ B!MakesDefault(q)
    BY <1>1 DEF B!Consistent, B!RequestStands, B!MakesDefault
  <1> HIDE DEF new, on
  <1>7. handler'[h] = new /\ B!Opened' = B!Opened
    BY <1>1, <1>2, <1>5 DEF B!Opened
  <1>8. B!RequestStands(h)'
    BY <1>1, <1>3, <1>4, <1>6, <1>7 DEF B!RequestStands, B!Asked, B!MakesDefault
  <1> QED
    BY <1>1, <1>2, <1>4, <1>5, <1>8, RequestMoves

(* A row of accounts is written and waits to be entered in the indexes.    *)
LEMMA WriteMoves ==
    ASSUME B!Consistent, NEW h \in Handler, B!Writes(h), handler[h].at \in {"read", "cleared"},
           B!MakesDefault(B!Asked(h)) \/ B!Asked(h).op = "rename",
           UNCHANGED <<account, B!books, B!goals, requests>>
    PROVE  B!Consistent'
  <1> DEFINE q == B!Asked(h)
             new == [handler[h] EXCEPT !.at = "written"]
  <1>1. /\ handler \in [Handler -> HandlerRow] /\ handler[h] \in HandlerRow
        /\ requests \in Nat
    BY DEF B!Consistent, B!TypeOK, HandlerRow
  <1>2. /\ new \in HandlerRow /\ new.at = "written" /\ new.on = handler[h].on
        /\ new.asked = q /\ new.row = handler[h].row
    BY <1>1 DEF HandlerRow, B!Stage, B!Asked
  <1>3. handler' = [handler EXCEPT ![h] = new]
    BY <1>1 DEF B!Writes, HandlerRow
  <1>4. /\ q \in B!Request /\ q.op \in {"default", "open", "rename"}
        /\ B!MakesDefault(q) \/ q.op = "rename"
        /\ q.op \in B!OnAccount => q.account \in B!Opened
        /\ handler[h].on \in B!Opened \cup {None}
    BY DEF B!Consistent, B!RequestStands, B!MakesDefault
  <1> HIDE DEF new
  <1>5. handler'[h] = new /\ B!Opened' = B!Opened
    BY <1>1, <1>3 DEF B!Opened
  <1>6. B!RequestStands(h)'
    BY <1>2, <1>4, <1>5 DEF B!RequestStands, B!Asked, B!OnTransfer, B!OnGoal
  <1>7. requests' \in Nat
    BY <1>1
  <1> QED
    BY <1>2, <1>3, <1>6, <1>7, RequestMoves

(* A new default is inserted, unless the name has been taken meanwhile.    *)
LEMMA InsertMoves ==
    ASSUME B!Consistent, NEW h \in Handler, B!Insert(h)
    PROVE  B!Consistent'
  <1>1. /\ handler[h].at = "cleared" /\ UNCHANGED <<account, B!books, B!goals, requests>>
        /\ B!Writes(h) \/ B!Refused(h)
    BY DEF B!Insert
  <1>2. B!MakesDefault(B!Asked(h))
    BY <1>1 DEF B!Consistent, B!RequestStands
  <1> QED
    BY <1>1, <1>2, WriteMoves, RefusedMoves

(* A row is locked by a request that was waiting for it.                   *)
LEMMA LockMoves ==
    ASSUME B!Consistent, NEW h \in Handler, handler[h].at = "waiting",
           handler' = [handler EXCEPT ![h].at = "locked"],
           UNCHANGED <<account, B!books, B!goals, requests>>,
           B!Asked(h).op \in B!OnTransfer => /\ ~B!TransferLocked(h, B!Asked(h).transfer)
                                             /\ ~transfer[B!Asked(h).transfer].reversed,
           B!Asked(h).op \in B!OnGoal => /\ ~B!GoalLocked(h, B!Asked(h).goal)
                                         /\ goal[B!Asked(h).goal] # None
                                         /\ B!Asked(h).op = "amend" => B!Asked(h).accounts # {}
    PROVE  B!Consistent'
  <1> DEFINE q == B!Asked(h)
             new == [handler[h] EXCEPT !.at = "locked"]
  <1>1. /\ handler \in [Handler -> HandlerRow] /\ handler[h] \in HandlerRow
        /\ requests \in Nat
    BY DEF B!Consistent, B!TypeOK, HandlerRow
  <1>2. /\ new \in HandlerRow /\ new.at = "locked" /\ new.on = handler[h].on
        /\ new.asked = q /\ new.row = handler[h].row
    BY <1>1 DEF HandlerRow, B!Stage, B!Asked
  <1>3. handler' = [handler EXCEPT ![h] = new]
    BY <1>1 DEF HandlerRow
  <1>4. /\ q \in B!Request /\ q.op \in B!OnTransfer \cup B!OnGoal
        /\ handler[h].on = None
        /\ q.op \in B!OnTransfer => transfer[q.transfer] # None
    BY DEF B!Consistent, B!RequestStands, B!OnTransfer, B!OnGoal
  <1> HIDE DEF new
  <1>5. handler'[h] = new /\ B!Opened' = B!Opened /\ transfer' = transfer /\ goal' = goal
    BY <1>1, <1>3 DEF B!Opened, B!books, B!goals
  <1>6. B!RequestStands(h)'
    BY <1>2, <1>4, <1>5 DEF B!RequestStands, B!Asked, B!OnTransfer, B!OnGoal, B!OnAccount
  <1>7. ASSUME NEW k \in Handler \ {h}, handler[k].at = "locked"
        PROVE  /\ {q.op, B!Asked(k).op} \subseteq B!OnTransfer => q.transfer # B!Asked(k).transfer
               /\ {q.op, B!Asked(k).op} \subseteq B!OnGoal => q.goal # B!Asked(k).goal
    BY <1>7 DEF B!TransferLocked, B!GoalLocked, B!OnTransfer, B!OnGoal
  <1>8. \A k \in Handler \ {h} : handler[k].at = "locked" =>
          /\ {new.asked.op, B!Asked(k).op} \subseteq B!OnTransfer => new.asked.transfer # B!Asked(k).transfer
          /\ {new.asked.op, B!Asked(k).op} \subseteq B!OnGoal => new.asked.goal # B!Asked(k).goal
    BY <1>2, <1>7
  <1> HIDE DEF q
  <1>9. requests' \in Nat
    BY <1>1
  <1> QED
    BY <1>2, <1>3, <1>6, <1>8, <1>9, RequestMoves

(* A transfer that is reversed by now refuses the request.                 *)
LEMMA LockTransferMoves ==
    ASSUME B!Consistent, NEW h \in Handler, B!LockTransfer(h)
    PROVE  B!Consistent'
  <1>1. /\ handler[h].at = "waiting" /\ B!Asked(h).op \in B!OnTransfer /\ ~(B!Asked(h).op \in B!OnGoal)
        /\ ~B!TransferLocked(h, B!Asked(h).transfer)
        /\ UNCHANGED <<account, B!books, B!goals, requests>>
    BY DEF B!LockTransfer, B!OnTransfer, B!OnGoal
  <1>2. CASE transfer[B!Asked(h).transfer].reversed
    BY <1>1, <1>2, RefusedMoves DEF B!LockTransfer
  <1>3. CASE ~transfer[B!Asked(h).transfer].reversed
    BY <1>1, <1>3, LockMoves DEF B!LockTransfer
  <1> QED
    BY <1>2, <1>3

(* A goal that may not be changed by now refuses the request.              *)
LEMMA LockGoalMoves ==
    ASSUME B!AccountBookAssumption,
           B!Consistent, NEW h \in Handler, B!LockGoal(h)
    PROVE  B!Consistent'
  <1> DEFINE q == B!Asked(h)
  <1>1. /\ handler[h].at = "waiting" /\ q.op \in B!OnGoal /\ ~(q.op \in B!OnTransfer)
        /\ ~B!GoalLocked(h, q.goal)
        /\ UNCHANGED <<account, B!books, B!goals, requests>>
    BY DEF B!LockGoal, B!OnTransfer, B!OnGoal
  <1>2. CASE B!Managed(q.goal, q.by) /\ B!Steppable(q)
    <2>1. handler' = [handler EXCEPT ![h].at = "locked"]
      BY <1>2 DEF B!LockGoal
    <2>2. goal[q.goal] # None
      BY <1>2 DEF B!Managed, B!GoalVisible
    <2>3. q.op = "amend" => q.accounts # {}
      BY <1>2 DEF B!AccountBookAssumption, B!Steppable, B!Savable
    <2> HIDE DEF q
    <2> QED
      BY <1>1, <2>1, <2>2, <2>3, LockMoves DEF q
  <1>3. CASE ~(B!Managed(q.goal, q.by) /\ B!Steppable(q))
    <2>1. B!Refused(h)
      BY <1>3 DEF B!LockGoal
    <2> QED
      BY <1>1, <2>1, RefusedMoves
  <1> QED
    BY <1>2, <1>3

(* The holder of a transfer reverses it ...                                *)
LEMMA ReverseWrites ==
    ASSUME B!AccountBookAssumption,
           B!Consistent, NEW h \in Handler, B!Reverse(h)
    PROVE  B!Consistent'
  <1> DEFINE new == [transfer[B!Asked(h).transfer] EXCEPT !.reversed = TRUE]
  <1>1. /\ handler[h].at = "locked" /\ B!Asked(h).op \in B!OnTransfer
        /\ B!Change(h, "reverse", new)
    BY DEF B!Reverse, B!OnTransfer
  <1> QED
    BY <1>1, ChangeWrites

(* ... or revises its amount.                                              *)
LEMMA ReviseWrites ==
    ASSUME B!AccountBookAssumption,
           B!Consistent, NEW h \in Handler, B!Revise(h)
    PROVE  B!Consistent'
  <1> DEFINE new == [transfer[B!Asked(h).transfer] EXCEPT !.amount = B!Asked(h).amount]
  <1>1. /\ handler[h].at = "locked" /\ B!Asked(h).op \in B!OnTransfer /\ B!Asked(h).op = "revise"
        /\ B!Change(h, "update", new)
    BY DEF B!Revise, B!OnTransfer
  <1> QED
    BY <1>1, ChangeWrites

-----------------------------------------------------------------------------
(* The invariant                                                           *)

(* A new ledger has its one default account and no request at work.        *)
LEMMA Initially ==
    ASSUME B!AccountBookAssumption,
           B!Init
    PROVE  B!Consistent
  <1>1. PICK d \in [Account -> Draft \cup {None}] :
           /\ d[First] = [name |-> "default", type |-> "cash", currency |-> Base, opening |-> 0]
           /\ account = [a \in Account |->
                 IF d[a] = None THEN None ELSE B!NewAccount(d[a], Owner, a = First, FALSE)]
    BY DEF B!Init
  <1>2. ASSUME NEW a \in Account, d[a] # None
        PROVE  /\ account[a] = B!NewAccount(d[a], Owner, a = First, FALSE)
               /\ account[a] \in B!AccountRow /\ account[a].default = (a = First)
               /\ ~account[a].private /\ account[a].owner = None /\ account[a] # None
    <2>1. /\ d[a].name \in B!Name /\ d[a].type \in B!Type /\ d[a].currency \in Currency
          /\ d[a].opening \in Int
      BY <1>2 DEF B!AccountBookAssumption, B!Name
    <2>2. account[a] = B!NewAccount(d[a], Owner, a = First, FALSE)
      BY <1>1, <1>2
    <2> DEFINE row == B!NewAccount(d[a], Owner, a = First, FALSE)
    <2>3. row.default = (a = First) /\ ~row.private /\ row.owner = None
      BY DEF B!NewAccount
    <2>4. row \in B!AccountRow
      BY <2>1 DEF B!NewAccount, B!AccountRow
    <2> HIDE DEF row
    <2>5. row # None
      BY <2>4 DEF B!AccountBookAssumption
    <2> QED
      BY <2>2, <2>3, <2>4, <2>5 DEF row
  <1>3. \A a \in Account : d[a] = None => account[a] = None
    BY <1>1
  <1>4. First \in Account /\ d[First] # None
    BY <1>1 DEF B!AccountBookAssumption
  <1>5. account \in [Account -> B!AccountRow \cup {None}]
    BY <1>1, <1>2
  <1>6. B!OneDefault
    <2>1. First \in B!Opened /\ account[First].default
      BY <1>2, <1>4 DEF B!Opened
    <2>2. \A a \in B!Opened : account[a].default => a = First
      BY <1>2, <1>3 DEF B!Opened
    <2>3. B!Defaults = {First}
      BY <2>1, <2>2 DEF B!Defaults
    <2> QED
      BY <1>4, <2>3 DEF B!OneDefault
  <1>7. B!PrivateIsOwned
    BY <1>2, <1>3 DEF B!PrivateIsOwned, B!Opened
  <1>8. B!TypeOK
    <2>1. B!Idle \in HandlerRow
      BY DEF B!Idle, B!Stage, HandlerRow
    <2>2. handler \in [Handler -> HandlerRow]
      BY <2>1 DEF B!Init
    <2>3. <<>> \in Seq(B!TransferRevision)
      OBVIOUS
    <2>4. /\ entry \in [Entry -> B!EntryRow \cup {None}]
          /\ transfer \in [Transfer -> B!TransferRow \cup {None}]
          /\ trail \in [Transfer -> Seq(B!TransferRevision)]
          /\ goal \in [Goal -> B!GoalRow \cup {None}]
          /\ bound \in [Goal -> SUBSET Account]
          /\ named \in [Goal -> SUBSET Account]
          /\ requests \in Nat
      BY <2>3 DEF B!Init
    <2> QED
      BY <1>5, <2>2, <2>4 DEF B!TypeOK, HandlerRow
  <1>9. /\ B!GoalBoundAsNamed /\ B!TransfersLink /\ B!OneHolder
        /\ \A h \in Handler : B!RequestStands(h)
    BY DEF B!Init, B!GoalBoundAsNamed, B!TransfersLink, B!OneHolder, B!RequestStands, B!Idle
  <1>10. B!TrailExplainsTransfer
    BY DEF B!Init, B!TrailExplainsTransfer
  <1> QED
    BY <1>6, <1>7, <1>8, <1>9, <1>10 DEF B!Consistent

(* Nothing happens.                                                        *)
LEMMA StutterKeeps ==
    ASSUME B!Consistent, UNCHANGED B!vars
    PROVE  B!Consistent'
  <1>1. UNCHANGED <<account, entry, transfer, trail, goal, bound, named, handler, requests>>
    BY DEF B!vars
  <1>2. B!Opened' = B!Opened
    BY <1>1 DEF B!Opened
  <1>3. B!TypeOK' /\ B!OneHolder'
    BY <1>1 DEF B!Consistent, B!TypeOK, B!OneHolder, B!Asked
  <1>4. /\ B!OneDefault' /\ B!PrivateIsOwned' /\ B!GoalBoundAsNamed' /\ B!TrailExplainsTransfer'
        /\ B!TransfersLink'
    BY <1>1, <1>2 DEF B!Consistent, B!OneDefault, B!Defaults, B!Opened, B!PrivateIsOwned,
       B!GoalBoundAsNamed,
                      B!TrailExplainsTransfer, B!TransfersLink
  <1>5. \A k \in Handler : B!RequestStands(k)'
    BY <1>1, <1>2, StandsStill DEF B!Consistent
  <1> QED
    BY <1>3, <1>4, <1>5 DEF B!Consistent

(* A request goes on.                                                      *)
LEMMA WorkKeeps ==
    ASSUME B!AccountBookAssumption,
           B!Consistent, NEW h \in Handler, B!Work(h)
    PROVE  B!Consistent'
  <1>1. CASE B!Clear(h)
    BY <1>1, ClearMoves
  <1>2. CASE B!Cleared(h)
    BY <1>2, ClearedMoves
  <1>3. CASE B!MakeDefault(h)
    BY <1>3, DefaultWrites
  <1>4. CASE B!Open(h)
    BY <1>4, OpenWrites
  <1>5. CASE B!NoRoom(h)
    BY <1>5, RefusedMoves DEF B!NoRoom
  <1>6. CASE B!Rename(h)
    BY <1>6, RenameWrites
  <1>7. CASE B!Archive(h)
    BY <1>7, ArchiveWrites
  <1>8. CASE B!Show(h)
    BY <1>8, ShowWrites
  <1>9. CASE B!Post(h)
    BY <1>9, PostWrites
  <1>10. CASE B!Move(h)
    BY <1>10, MoveWrites
  <1>11. CASE B!LockTransfer(h)
    BY <1>11, LockTransferMoves
  <1>12. CASE B!Reverse(h)
    BY <1>12, ReverseWrites
  <1>13. CASE B!Revise(h)
    BY <1>13, ReviseWrites
  <1>14. CASE B!Plan(h)
    BY <1>14, PlanWrites
  <1>15. CASE B!LockGoal(h)
    BY <1>15, LockGoalMoves
  <1>16. CASE B!Amend(h)
    BY <1>16, AmendWrites
  <1>17. CASE B!Step(h)
    BY <1>17, StepWrites
  <1>18. CASE B!Forget(h)
    BY <1>18, ForgetWrites
  <1>19. CASE B!WriteDefault(h)
    BY <1>19, WriteMoves DEF B!WriteDefault, B!MakesDefault
  <1>20. CASE B!Insert(h)
    BY <1>20, InsertMoves
  <1>21. CASE B!WriteName(h)
    BY <1>21, WriteMoves DEF B!WriteName
  <1> QED
    BY <1>1, <1>2, <1>3, <1>4, <1>5, <1>6, <1>7, <1>8, <1>9, <1>10, <1>11, <1>12, <1>13, <1>14,
       <1>15, <1>16, <1>17, <1>18, <1>19, <1>20, <1>21 DEF B!Work

(* Every step keeps the invariant.                                         *)
LEMMA NextKeeps ==
    ASSUME B!AccountBookAssumption,
           B!Consistent, [B!Next]_B!vars
    PROVE  B!Consistent'
  <1>1. ASSUME NEW h \in Handler, B!Victim(h)
        PROVE  B!Consistent'
    BY <1>1, RefusedMoves DEF B!Victim
  <1> QED
    BY <1>1, Arrives, WorkKeeps, DeleteWrites, StutterKeeps DEF B!Next

-----------------------------------------------------------------------------
(* Who holds the rows of accounts                                          *)

(* A request takes only rows that nobody has, and what was cleared is      *)
(* still the default.                                                      *)
LEMMA HeldAlone ==
    ASSUME B!IInv, NEW h \in Handler, \A k \in Handler \ {h} : handler'[k] = handler[k],
           \A a \in Account : B!Holds(h, a)' => B!Holds(h, a) \/ ~B!Locked(h, a),
           \A k \in Handler : handler'[k].at \in {"cleared", "written"} /\ handler'[k].on # None =>
              handler'[k].on \in B!Defaults'
    PROVE  B!RowsHeld'
  <1>1. ASSUME NEW k \in Handler \ {h}, NEW a \in Account, B!Holds(k, a)'
        PROVE  B!Holds(k, a) /\ ~B!Holds(h, a)'
    <2>1. B!Holds(k, a)
      BY <1>1 DEF B!Holds, B!Asked
    <2>2. ~B!Holds(h, a) /\ B!Locked(h, a)
      BY <2>1 DEF B!IInv, B!RowsHeld, B!Locked
    <2> QED
      BY <2>1, <2>2
  <1>2. ASSUME NEW j \in Handler, NEW k \in Handler, NEW a \in Account, B!Holds(j, a)', B!Holds(k, a)'
        PROVE  j = k
    <2>1. CASE j = h \/ k = h
      BY <1>1, <1>2, <2>1
    <2>2. CASE j # h /\ k # h
      <3>1. B!Holds(j, a) /\ B!Holds(k, a)
        BY <1>1, <1>2, <2>2
      <3> QED
        BY <3>1 DEF B!IInv, B!RowsHeld
    <2> QED
      BY <2>1, <2>2
  <1> QED
    BY <1>2 DEF B!RowsHeld

(* A request that ends holds nothing.                                      *)
LEMMA HeldEnds ==
    ASSUME B!IInv, NEW h \in Handler, handler' = [handler EXCEPT ![h] = B!Idle],
           \A k \in Handler \ {h} : handler[k].at \in {"cleared", "written"} /\ handler[k].on # None =>
              handler[k].on \in B!Defaults'
    PROVE  B!RowsHeld'
  <1>1. handler'[h] = B!Idle /\ \A k \in Handler \ {h} : handler'[k] = handler[k]
    BY EndsAlone DEF B!IInv
  <1>2. B!Idle.at = "idle"
    BY DEF B!Idle
  <1>3. \A a \in Account : ~B!Holds(h, a)'
    BY <1>1, <1>2 DEF B!Holds
  <1>4. \A k \in Handler : handler'[k].at \in {"cleared", "written"} /\ handler'[k].on # None =>
              handler'[k].on \in B!Defaults'
    BY <1>1, <1>2
  <1> QED
    BY <1>1, <1>3, <1>4, HeldAlone

LEMMA EndsAsDefault ==
    ASSUME B!IInv, NEW h \in Handler, handler' = [handler EXCEPT ![h] = B!Idle],
           B!Defaults' = B!Defaults
    PROVE  B!RowsHeld'
  <1>1. \A k \in Handler \ {h} : handler[k].at \in {"cleared", "written"} /\ handler[k].on # None =>
              handler[k].on \in B!Defaults'
    BY DEF B!IInv, B!RowsHeld
  <1> QED
    BY <1>1, HeldEnds

(* The default stays, and a request takes no row or one that nobody has.   *)
LEMMA HeldStays ==
    ASSUME B!IInv, NEW h \in Handler, \A k \in Handler \ {h} : handler'[k] = handler[k],
           B!Defaults' = B!Defaults,
           \A a \in Account : B!Holds(h, a)' => B!Holds(h, a) \/ ~B!Locked(h, a),
           handler'[h].at \in {"cleared", "written"} /\ handler'[h].on # None => handler'[h].on \in B!Defaults
    PROVE  B!RowsHeld'
  <1>1. \A k \in Handler : handler'[k].at \in {"cleared", "written"} /\ handler'[k].on # None =>
              handler'[k].on \in B!Defaults'
    BY DEF B!IInv, B!RowsHeld
  <1> QED
    BY <1>1, HeldAlone

(* A request that the index lets in is the only one that has cleared a     *)
(* default: it holds the rows of both.                                     *)
LEMMA NobodyElse ==
    ASSUME B!IInv, NEW h \in Handler, handler[h].at = "written", NEW a,
           ~B!Conflict(h, a), a \in B!Defaults => B!Holds(h, a),
           NEW k \in Handler \ {h}, handler[k].at \in {"cleared", "written"}
    PROVE  handler[k].on = None
  <1> SUFFICES ASSUME handler[k].on # None
               PROVE  FALSE
    OBVIOUS
  <1> DEFINE d == handler[k].on
  <1>1. d \in B!Defaults /\ d \in Account /\ B!Holds(k, d)
    BY DEF B!IInv, B!RowsHeld, B!Holds, B!Defaults, B!Opened
  <1>2. d \in {handler[h].on, a}
    BY <1>1 DEF B!Conflict, B!Others
  <1>3. B!Holds(h, d)
    BY <1>1, <1>2 DEF B!Holds
  <1> HIDE DEF d
  <1> QED
    BY <1>1, <1>3 DEF B!IInv, B!RowsHeld

LEMMA MakeDefaultHolds ==
    ASSUME B!IInv, NEW h \in Handler, B!MakeDefault(h)
    PROVE  B!RowsHeld'
  <1> DEFINE a == B!Asked(h).account
  <1>1. /\ handler[h].at = "written" /\ B!Asked(h).op = "default"
        /\ handler' = [handler EXCEPT ![h] = B!Idle]
    BY DEF B!MakeDefault, B!Done
  <1>2. CASE B!Conflict(h, a)
    <2>1. account' = account
      BY <1>2 DEF B!MakeDefault
    <2>2. B!Defaults' = B!Defaults
      BY <2>1 DEF B!Defaults, B!Opened
    <2> QED
      BY <1>1, <2>2, EndsAsDefault
  <1>3. CASE ~B!Conflict(h, a)
    <2>1. B!Holds(h, a)
      BY <1>1 DEF B!Holds
    <2> HIDE DEF a
    <2>2. \A k \in Handler \ {h} : handler[k].at \in {"cleared", "written"} => handler[k].on = None
      BY <1>1, <1>3, <2>1, NobodyElse
    <2> QED
      BY <1>1, <2>2, HeldEnds
  <1> QED
    BY <1>2, <1>3

LEMMA OpenHolds ==
    ASSUME B!IInv, NEW h \in Handler, B!Open(h)
    PROVE  B!RowsHeld'
  <1> DEFINE q == B!Asked(h)
             new == B!NewAccount(q.draft, q.by, q.default, q.private)
  <1>1. /\ handler' = [handler EXCEPT ![h] = B!Idle] /\ q.op = "open"
        /\ handler[h].at = IF q.default THEN "written" ELSE "read"
    BY DEF B!Open, B!Done
  <1>2. PICK a \in Account \ B!Opened :
           \/ account' = account
           \/ /\ account' = [B!Without(handler[h].on) EXCEPT ![a] = new]
              /\ ~(q.default /\ B!Conflict(h, a))
    BY DEF B!Open
  <1>3. CASE account' = account
    <2>1. B!Defaults' = B!Defaults
      BY <1>3 DEF B!Defaults, B!Opened
    <2> QED
      BY <1>1, <2>1, EndsAsDefault
  <1>4. CASE account' # account /\ q.default
    <2>1. a \notin B!Defaults /\ ~B!Conflict(h, a) /\ handler[h].at = "written"
      BY <1>1, <1>2, <1>4 DEF B!Defaults
    <2>2. \A k \in Handler \ {h} : handler[k].at \in {"cleared", "written"} => handler[k].on = None
      BY <2>1, NobodyElse
    <2> QED
      BY <1>1, <2>2, HeldEnds
  <1>5. CASE account' # account /\ ~q.default
    <2>1. handler[h].at = "read" /\ handler[h].on = None
      BY <1>1, <1>5 DEF B!IInv, B!Consistent, B!RequestStands
    <2>2. account' = [account EXCEPT ![a] = new] /\ account[a] = None /\ ~new.default
      BY <1>2, <1>5, <2>1 DEF B!Without, B!Opened, B!NewAccount
    <2> HIDE DEF new
    <2>3. account'[a] = new /\ \A b \in Account \ {a} : account'[b] = account[b]
      BY <2>2 DEF B!IInv, B!Consistent, B!TypeOK
    <2>4. B!Defaults' = B!Defaults
      BY <2>2, <2>3 DEF B!Defaults, B!Opened
    <2> QED
      BY <1>1, <2>4, EndsAsDefault
  <1> QED
    BY <1>3, <1>4, <1>5

(* The UPDATE takes the row of the default when nobody has it.             *)
LEMMA ClearedHolds ==
    ASSUME B!AccountBookAssumption,
           B!IInv, NEW h \in Handler, B!Cleared(h)
    PROVE  B!RowsHeld'
  <1> DEFINE d == handler[h].on
  <1>1. /\ handler[h].at = "clearing" /\ ~B!Locked(h, d) /\ account' = account
        /\ handler' = [handler EXCEPT ![h].at = "cleared",
                                      ![h].on = IF B!StillDefault(d) THEN d ELSE None]
    BY DEF B!Cleared, B!IInv, B!Consistent, B!TypeOK
  <1>2. /\ handler'[h].at = "cleared" /\ handler'[h].on = (IF B!StillDefault(d) THEN d ELSE None)
        /\ \A k \in Handler \ {h} : handler'[k] = handler[k]
    BY <1>1 DEF B!IInv, B!Consistent, B!TypeOK
  <1>3. B!Defaults' = B!Defaults
    BY <1>1 DEF B!Defaults, B!Opened
  <1>4. d \in B!Opened
    BY <1>1 DEF B!IInv, B!Consistent, B!RequestStands
  <1>5. B!StillDefault(d) => d \in B!Defaults
    BY <1>4 DEF B!StillDefault, B!Defaults
  <1> HIDE DEF d
  <1>6. \A a \in Account : B!Holds(h, a)' => a = d
    BY <1>2 DEF B!AccountBookAssumption, B!Holds
  <1>7. handler'[h].on # None => handler'[h].on \in B!Defaults
    BY <1>2, <1>5
  <1> QED
    BY <1>1, <1>2, <1>3, <1>6, <1>7, HeldStays

(* A row is written that nobody has.                                       *)
LEMMA WriteHolds ==
    ASSUME B!AccountBookAssumption,
           B!IInv, NEW h \in Handler, B!Writes(h), handler[h].at \in {"read", "cleared"},
           B!MakesDefault(B!Asked(h)) \/ B!Asked(h).op = "rename",
           B!Asked(h).op \in {"default", "rename"} => ~B!Locked(h, B!Asked(h).account), account' = account
    PROVE  B!RowsHeld'
  <1>1. /\ handler'[h].at = "written" /\ handler'[h].on = handler[h].on
        /\ handler'[h].asked = handler[h].asked
        /\ \A k \in Handler \ {h} : handler'[k] = handler[k]
    BY DEF B!Writes, B!IInv, B!Consistent, B!TypeOK
  <1>2. handler[h].at = "read" => handler[h].on = None
    BY DEF B!IInv, B!Consistent, B!RequestStands, B!MakesDefault
  <1>3. B!Defaults' = B!Defaults
    BY DEF B!Defaults, B!Opened
  <1>4. \A a \in Account : B!Holds(h, a)' => B!Holds(h, a) \/ ~B!Locked(h, a)
    BY <1>1, <1>2 DEF B!AccountBookAssumption, B!Holds, B!Asked
  <1>5. handler'[h].on # None => handler'[h].on \in B!Defaults
    BY <1>1, <1>2 DEF B!IInv, B!RowsHeld
  <1> QED
    BY <1>1, <1>3, <1>4, <1>5, HeldStays

LEMMA InsertHolds ==
    ASSUME B!AccountBookAssumption,
           B!IInv, NEW h \in Handler, B!Insert(h)
    PROVE  B!RowsHeld'
  <1>1. /\ handler[h].at = "cleared" /\ account' = account /\ B!Asked(h).op = "open"
        /\ B!Writes(h) \/ B!Refused(h)
    BY DEF B!Insert
  <1>2. B!MakesDefault(B!Asked(h))
    BY <1>1 DEF B!IInv, B!Consistent, B!RequestStands
  <1>3. B!Defaults' = B!Defaults
    BY <1>1 DEF B!Defaults, B!Opened
  <1> QED
    BY <1>1, <1>2, <1>3, WriteHolds, EndsAsDefault DEF B!Refused

(* Other steps leave the default alone, and take no row of accounts.       *)
LEMMA OthersLeaveDefault ==
    ASSUME B!AccountBookAssumption,
           B!IInv, NEW h \in Handler, B!Work(h), ~B!Cleared(h), ~B!MakeDefault(h), ~B!Open(h),
           ~B!WriteDefault(h), ~B!Insert(h), ~B!WriteName(h)
    PROVE  B!RowsHeld'
  <1>1. handler \in [Handler -> HandlerRow] /\ B!Idle.at = "idle"
    BY DEF B!IInv, B!Consistent, B!TypeOK, HandlerRow, B!Idle
  <1>2. CASE B!Rename(h) \/ B!Archive(h) \/ B!Show(h)
    <2>1. B!Defaults' = B!Defaults
      BY <1>2, RenameWrites, ArchiveWrites, ShowWrites DEF B!IInv
    <2>2. handler' = [handler EXCEPT ![h] = B!Idle]
      BY <1>2 DEF B!Rename, B!Archive, B!Show, B!Done
    <2> QED
      BY <2>1, <2>2, EndsAsDefault
  <1>3. CASE ~(B!Rename(h) \/ B!Archive(h) \/ B!Show(h))
    <2>1. account' = account
      BY <1>3 DEF B!Work, B!Clear, B!NoRoom, B!Post, B!Move, B!LockTransfer, B!Reverse, B!Revise,
         B!Change, B!Plan,
                  B!LockGoal, B!Amend, B!Step, B!Forget
    <2>2. \/ handler' = [handler EXCEPT ![h] = B!Idle]
          \/ \E d \in Account : handler' = [handler EXCEPT ![h].at = "clearing", ![h].on = d]
          \/ handler' = [handler EXCEPT ![h].at = "locked"]
      BY <1>3 DEF B!Work, B!Clear, B!NoRoom, B!Post, B!Move, B!LockTransfer, B!Reverse, B!Revise,
         B!Change, B!Plan,
                  B!LockGoal, B!Amend, B!Step, B!Forget, B!Done, B!Refused, B!Defaults, B!Opened
    <2>3. /\ ~(handler'[h].at \in {"cleared", "written"})
          /\ \A k \in Handler \ {h} : handler'[k] = handler[k]
      BY <1>1, <2>2 DEF HandlerRow
    <2>4. B!Defaults' = B!Defaults
      BY <2>1 DEF B!Defaults, B!Opened
    <2>5. \A a \in Account : ~B!Holds(h, a)'
      BY <2>3 DEF B!Holds
    <2> QED
      BY <2>3, <2>4, <2>5, HeldStays
  <1> QED
    BY <1>2, <1>3

(* Every step leaves the rows of accounts to those who hold them.          *)
LEMMA HeldKeeps ==
    ASSUME B!AccountBookAssumption,
           B!IInv, [B!Next]_B!vars
    PROVE  B!RowsHeld'
  <1>1. ASSUME NEW h \in Handler, NEW q \in B!Request, B!Arrive(h, q)
        PROVE  B!RowsHeld'
    <2>1. account' = account /\ handler \in [Handler -> HandlerRow]
      BY <1>1 DEF B!Arrive, B!IInv, B!Consistent, B!TypeOK, HandlerRow
    <2>2. PICK a \in Account \cup {None} :
             handler' = [handler EXCEPT ![h] =
                [at |-> IF q.op \in {"reverse", "revise", "amend", "complete", "shelve", "forget"}
                        THEN "waiting" ELSE "read",
                 asked |-> q,
                 on |-> a,
                 row |-> CASE q.op = "visibility" -> account[q.account]
                           [] q.op = "post" -> account[a]
                           [] OTHER -> None]]
      BY <1>1 DEF B!Arrive
    <2>3. /\ ~(handler'[h].at \in {"cleared", "written"})
          /\ \A k \in Handler \ {h} : handler'[k] = handler[k]
      BY <2>1, <2>2
    <2>4. B!Defaults' = B!Defaults
      BY <2>1 DEF B!Defaults, B!Opened
    <2>5. \A b \in Account : ~B!Holds(h, b)'
      BY <2>3 DEF B!Holds
    <2> QED
      BY <2>3, <2>4, <2>5, HeldStays
  <1>2. ASSUME NEW h \in Handler, B!Work(h)
        PROVE  B!RowsHeld'
    <2>1. CASE B!WriteDefault(h) \/ B!WriteName(h)
      BY <2>1, WriteHolds DEF B!WriteDefault, B!WriteName, B!MakesDefault
    <2> QED
      BY <1>2, <2>1, ClearedHolds, MakeDefaultHolds, OpenHolds, InsertHolds, OthersLeaveDefault
  <1>3. ASSUME NEW h \in Handler, B!Victim(h)
        PROVE  B!RowsHeld'
    <2>1. B!Defaults' = B!Defaults /\ handler' = [handler EXCEPT ![h] = B!Idle]
      BY <1>3 DEF B!Victim, B!Refused, B!Defaults, B!Opened
    <2> QED
      BY <2>1, EndsAsDefault
  <1>4. CASE account' = account /\ handler' = handler
    <2>1. B!RowsHeld
      BY DEF B!IInv
    <2> QED
      BY <1>4, <2>1 DEF B!RowsHeld, B!Defaults, B!Opened, B!Holds, B!Asked
  <1> QED
    BY <1>1, <1>2, <1>3, <1>4 DEF B!Next, B!Delete, B!vars

(* At all times the ledger has one default account, accounts have the      *)
(* owner that their visibility asks for, goals have the accounts of one    *)
(* request, the revisions of a transfer explain it, what requests at work  *)
(* have read stands as far as they rely on it, and each row of accounts    *)
(* that is changed and not committed is held by one of them.               *)
THEOREM AccountBookInvariance ==
    ASSUME B!AccountBookAssumption
    PROVE  B!Spec => []B!IInv
  <1>1. B!Init => B!IInv
    <2>1. B!Init => \A h \in Handler : handler[h].at = "idle"
      BY DEF B!Init, B!Idle
    <2> QED
      BY <2>1, Initially DEF B!IInv, B!RowsHeld, B!Holds
  <1>2. B!IInv /\ [B!Next]_B!vars => B!IInv'
    BY NextKeeps, HeldKeeps DEF B!IInv
  <1> QED
    BY <1>1, <1>2, PTL DEF B!Spec

(* Who waits for a row that is FOR UPDATE is waited for by nobody.         *)
LEMMA QueuedHoldNothing ==
    ASSUME NEW g \in Handler, handler[g].at = "waiting", NEW k \in Handler
    PROVE  ~B!WaitsFor(k, g)
  BY DEF B!WaitsFor, B!Holds, B!Inserts, B!KeyHeld

(* Circles of waiting are made of requests that rename accounts or change  *)
(* the default: who has locked a transfer or a goal waits, if at all, for  *)
(* an account that is being renamed, and is waited for only by requests    *)
(* that hold nothing.                                                      *)
THEOREM CirclesAreOfAccountsHolds ==
    ASSUME B!AccountBookAssumption
    PROVE  B!Spec => []B!CirclesAreOfAccounts
  <1>1. ASSUME B!IInv, NEW h \in Handler, B!InCircle(h)
        PROVE  B!Asked(h).op \in {"open", "rename", "default"}
    <2>1. PICK S \in SUBSET Handler :
             /\ h \in S /\ S # {h}
             /\ \A T \in (SUBSET S) \ {{}, S} : \E g \in T, k \in S \ T : B!WaitsFor(g, k)
      BY <1>1 DEF B!InCircle
    <2>2. ASSUME NEW j \in S
          PROVE  \E g \in S : B!WaitsFor(g, j)
      <3> DEFINE T == S \ {j}
      <3>1. T \in (SUBSET S) \ {{}, S} /\ S \ T = {j}
        BY <2>1
      <3> HIDE DEF T
      <3>2. PICK g \in T, k \in S \ T : B!WaitsFor(g, k)
        BY <2>1, <3>1
      <3>3. g \in S /\ k = j
        BY <3>1
      <3> QED
        BY <3>2, <3>3
    <2>3. PICK g \in S : B!WaitsFor(g, h)
      BY <2>1, <2>2
    <2>4. handler[g].at # "waiting"
      BY <2>2, QueuedHoldNothing
    <2>5. handler[h].at \in {"cleared", "written"}
      BY <2>3, <2>4 DEF B!WaitsFor, B!Holds, B!Inserts, B!KeyHeld
    <2>6. B!MakesDefault(B!Asked(h)) \/ B!Asked(h).op = "rename"
      BY <1>1, <2>5 DEF B!IInv, B!Consistent, B!RequestStands
    <2> QED
      BY <2>6 DEF B!MakesDefault
  <1>2. B!IInv => B!CirclesAreOfAccounts
    BY <1>1 DEF B!CirclesAreOfAccounts
  <1> QED
    BY <1>2, AccountBookInvariance, PTL

-----------------------------------------------------------------------------
(* What the household is worth                                             *)

(* What a sum has at one point.                                            *)
ValueAt(F, S, x) == IF x \in S THEN F[x] ELSE 0

(* F has a sum over S.                                                     *)
Numbers(F, S) == IsFiniteSet(S) /\ \A x \in S : F[x] \in Int

(* A sum is what it has at one point and the rest.                         *)
LEMMA SumAt ==
    ASSUME NEW F, NEW S, Numbers(F, S), NEW a
    PROVE  /\ SumFunctionOnSet(F, S) = ValueAt(F, S, a) + SumFunctionOnSet(F, S \ {a})
           /\ SumFunctionOnSet(F, S) \in Int /\ SumFunctionOnSet(F, S \ {a}) \in Int
           /\ ValueAt(F, S, a) \in Int
  <1>1. /\ IsFiniteSet(S) /\ IsFiniteSet(S \ {a})
        /\ \A x \in S : F[x] \in Int
    BY FS_Subset DEF Numbers
  <1>2. /\ SumFunctionOnSet(F, S) \in Int /\ SumFunctionOnSet(F, S \ {a}) \in Int
        /\ ValueAt(F, S, a) \in Int
    BY <1>1, SumTyped DEF ValueAt
  <1>3. CASE a \in S
    BY <1>1, <1>2, <1>3, SumRemove DEF ValueAt
  <1>4. CASE a \notin S
    <2>1. S \ {a} = S
      BY <1>4
    <2>2. SumFunctionOnSet(F, S \ {a}) = SumFunctionOnSet(F, S)
      BY <2>1
    <2>3. ValueAt(F, S, a) = 0
      BY <1>4 DEF ValueAt
    <2> QED
      BY <1>2, <2>2, <2>3
  <1> QED
    BY <1>2, <1>3, <1>4

(* A sum is what it has at two points and the rest.                        *)
LEMMA SumAtTwo ==
    ASSUME NEW F, NEW S, Numbers(F, S), NEW p, NEW r, p # r
    PROVE  /\ SumFunctionOnSet(F, S)
                = ValueAt(F, S, p) + (ValueAt(F, S, r) + SumFunctionOnSet(F, S \ {p, r}))
           /\ SumFunctionOnSet(F, S) \in Int /\ SumFunctionOnSet(F, S \ {p, r}) \in Int
           /\ ValueAt(F, S, p) \in Int /\ ValueAt(F, S, r) \in Int
  <1>1. /\ SumFunctionOnSet(F, S) = ValueAt(F, S, p) + SumFunctionOnSet(F, S \ {p})
        /\ SumFunctionOnSet(F, S) \in Int /\ ValueAt(F, S, p) \in Int
    BY SumAt
  <1> DEFINE R == S \ {p}
  <1>2. Numbers(F, R)
    BY FS_Subset DEF Numbers
  <1>3. R \ {r} = S \ {p, r} /\ ValueAt(F, R, r) = ValueAt(F, S, r)
    BY DEF ValueAt
  <1> HIDE DEF R
  <1>4. /\ SumFunctionOnSet(F, R) = ValueAt(F, R, r) + SumFunctionOnSet(F, R \ {r})
        /\ SumFunctionOnSet(F, R \ {r}) \in Int /\ ValueAt(F, R, r) \in Int
    BY <1>2, SumAt
  <1> QED
    BY <1>1, <1>3, <1>4 DEF R

(* Two sums that differ at two points at most differ by what they have     *)
(* there.                                                                  *)
LEMMA SumShift ==
    ASSUME NEW F, NEW G, NEW S, Numbers(F, S), Numbers(G, S),
           NEW p, NEW r, p # r, \A x \in S \ {p, r} : G[x] = F[x]
    PROVE  SumFunctionOnSet(G, S) - SumFunctionOnSet(F, S)
             = (ValueAt(G, S, p) - ValueAt(F, S, p)) + (ValueAt(G, S, r) - ValueAt(F, S, r))
  <1> DEFINE Q == S \ {p, r}
  <1>1. SumFunctionOnSet(G, Q) = SumFunctionOnSet(F, Q)
    <2>1. IsFiniteSet(Q) /\ \A x \in Q : G[x] = F[x]
      BY FS_Subset DEF Numbers
    <2> HIDE DEF Q
    <2> QED
      BY <2>1, SumAgree
  <1>2. /\ SumFunctionOnSet(F, S) = ValueAt(F, S, p) + (ValueAt(F, S, r) + SumFunctionOnSet(F, Q))
        /\ SumFunctionOnSet(F, Q) \in Int
        /\ ValueAt(F, S, p) \in Int /\ ValueAt(F, S, r) \in Int
    BY SumAtTwo
  <1>3. /\ SumFunctionOnSet(G, S) = ValueAt(G, S, p) + (ValueAt(G, S, r) + SumFunctionOnSet(G, Q))
        /\ SumFunctionOnSet(G, Q) \in Int
        /\ ValueAt(G, S, p) \in Int /\ ValueAt(G, S, r) \in Int
    BY SumAtTwo
  <1> HIDE DEF Q
  <1> QED
    BY <1>1, <1>2, <1>3

(* What the transfers T bring to one end of them, for an account.          *)
MovedIn(T, end, a) == {t \in Transfer : T[t] # None /\ ~T[t].reversed /\ T[t][end] = a}
GainIn(T, end, a) == SumFunction([t \in MovedIn(T, end, a) |-> T[t].amount])
(* What the transfer of a row moves.                                       *)
Worth(row) == IF row = None \/ row.reversed THEN 0 ELSE row.amount
WorthAt(row, end, a) == IF row # None /\ row[end] = a THEN Worth(row) ELSE 0

(* A gain is what one transfer is worth and the rest.                      *)
LEMMA GainSplit ==
    ASSUME B!AccountBookAssumption,
           NEW T \in [Transfer -> B!TransferRow \cup {None}], NEW end \in {"from", "to"}, NEW a,
           NEW t \in Transfer
    PROVE  /\ GainIn(T, end, a) = WorthAt(T[t], end, a)
                + SumFunctionOnSet([u \in MovedIn(T, end, a) |-> T[u].amount], MovedIn(T, end, a) \ {t})
           /\ SumFunctionOnSet([u \in MovedIn(T, end, a) |-> T[u].amount], MovedIn(T, end, a) \ {t}) \in Int
           /\ WorthAt(T[t], end, a) \in Int /\ GainIn(T, end, a) \in Int
  <1> DEFINE S == MovedIn(T, end, a)
             F == [u \in S |-> T[u].amount]
  <1>1. IsFiniteSet(S) /\ S \subseteq Transfer
    BY FS_Subset, Finite DEF MovedIn
  <1>2. \A u \in S : F[u] \in Int /\ T[u] \in B!TransferRow
    BY DEF B!AccountBookAssumption, MovedIn, B!TransferRow
  <1>3. GainIn(T, end, a) = SumFunctionOnSet(F, S)
    BY DEF GainIn, SumFunction
  <1>4. ValueAt(F, S, t) = WorthAt(T[t], end, a)
    BY DEF B!AccountBookAssumption, ValueAt, WorthAt, Worth, MovedIn
  <1> HIDE DEF F, S
  <1>5. Numbers(F, S)
    BY <1>1, <1>2 DEF Numbers
  <1>6. /\ SumFunctionOnSet(F, S) = ValueAt(F, S, t) + SumFunctionOnSet(F, S \ {t})
        /\ SumFunctionOnSet(F, S) \in Int /\ SumFunctionOnSet(F, S \ {t}) \in Int
        /\ ValueAt(F, S, t) \in Int
    BY <1>5, SumAt
  <1> QED
    BY <1>3, <1>4, <1>6 DEF F, S

(* One row that changes changes a gain by the difference of its worth.     *)
LEMMA GainMoves ==
    ASSUME B!AccountBookAssumption,
           NEW T \in [Transfer -> B!TransferRow \cup {None}], NEW U \in [Transfer -> B!TransferRow \cup {None}],
           NEW t \in Transfer, \A u \in Transfer \ {t} : U[u] = T[u],
           NEW end \in {"from", "to"}, NEW a
    PROVE  /\ GainIn(U, end, a) - GainIn(T, end, a) = WorthAt(U[t], end, a) - WorthAt(T[t], end, a)
           /\ GainIn(U, end, a) \in Int /\ GainIn(T, end, a) \in Int
           /\ WorthAt(U[t], end, a) \in Int /\ WorthAt(T[t], end, a) \in Int
  <1> DEFINE S == MovedIn(T, end, a)
             R == MovedIn(U, end, a)
             F == [u \in S |-> T[u].amount]
             G == [u \in R |-> U[u].amount]
  <1>1. S \ {t} = R \ {t}
    BY DEF MovedIn
  <1>2. \A u \in S \ {t} : F[u] = G[u]
    BY <1>1 DEF MovedIn
  <1>3. IsFiniteSet(S \ {t})
    BY FS_Subset, Finite DEF MovedIn
  <1>4. /\ GainIn(T, end, a) = WorthAt(T[t], end, a) + SumFunctionOnSet(F, S \ {t})
        /\ SumFunctionOnSet(F, S \ {t}) \in Int /\ WorthAt(T[t], end, a) \in Int
        /\ GainIn(T, end, a) \in Int
    BY GainSplit
  <1>5. /\ GainIn(U, end, a) = WorthAt(U[t], end, a) + SumFunctionOnSet(G, R \ {t})
        /\ SumFunctionOnSet(G, R \ {t}) \in Int /\ WorthAt(U[t], end, a) \in Int
        /\ GainIn(U, end, a) \in Int
    BY GainSplit
  <1> HIDE DEF F, G, S, R
  <1> DEFINE rest == S \ {t}
  <1>6. SumFunctionOnSet(F, S \ {t}) = SumFunctionOnSet(G, R \ {t})
    <2>1. IsFiniteSet(rest) /\ \A u \in rest : F[u] = G[u]
      BY <1>2, <1>3
    <2> HIDE DEF rest
    <2>2. SumFunctionOnSet(F, rest) = SumFunctionOnSet(G, rest)
      BY <2>1, SumAgree
    <2> QED
      BY <1>1, <2>2 DEF rest
  <1> QED
    BY <1>4, <1>5, <1>6

(* Movement, told by the transfers.                                        *)
PostedSum(a) == SumFunction([e \in B!Posted(a) |-> entry[e].amount])
Told(a) == /\ B!Movement(a) = (PostedSum(a) + GainIn(transfer, "to", a)) - GainIn(transfer, "from", a)
           /\ PostedSum(a) \in Int /\ B!Movement(a) \in Int
           /\ GainIn(transfer, "to", a) \in Int /\ GainIn(transfer, "from", a) \in Int

LEMMA MovementIs ==
    ASSUME B!AccountBookAssumption
    PROVE  B!TypeOK => \A a \in Account : Told(a)
  <1> SUFFICES ASSUME B!TypeOK, NEW a \in Account
               PROVE  Told(a)
    OBVIOUS
  <1>1. /\ B!Moved("to", a) = MovedIn(transfer, "to", a)
        /\ B!Moved("from", a) = MovedIn(transfer, "from", a)
    BY DEF B!Moved, MovedIn
  <1> DEFINE S == B!Posted(a)
             F == [e \in S |-> entry[e].amount]
  <1>2. SumFunction(F) \in Int
    <2>1. IsFiniteSet(S)
      BY FS_Subset, Finite DEF B!Posted
    <2>2. \A e \in S : F[e] \in Int
      BY DEF B!Posted, B!TypeOK, B!EntryRow
    <2>3. SumFunction(F) = SumFunctionOnSet(F, S)
      BY DEF SumFunction
    <2> HIDE DEF F, S
    <2> QED
      BY <2>1, <2>2, <2>3, SumTyped
  <1>3. ASSUME NEW end \in {"from", "to"}
        PROVE  GainIn(transfer, end, a) \in Int
    <2> DEFINE R == MovedIn(transfer, end, a)
               G == [t \in R |-> transfer[t].amount]
    <2>1. IsFiniteSet(R)
      BY FS_Subset, Finite DEF MovedIn
    <2>2. \A t \in R : G[t] \in Int
      <3>1. \A t \in R : transfer[t] \in B!TransferRow
        BY DEF MovedIn, B!TypeOK
      <3>2. \A t \in R : transfer[t].amount \in Amount
        BY <3>1 DEF B!TransferRow
      <3>3. Amount \subseteq Int
        BY DEF B!AccountBookAssumption
      <3> QED
        BY <3>2, <3>3
    <2>3. GainIn(transfer, end, a) = SumFunctionOnSet(G, R)
      BY DEF GainIn, SumFunction
    <2> HIDE DEF G, R
    <2> QED
      BY <2>1, <2>2, <2>3, SumTyped
  <1>4. B!Movement(a) = SumFunction(F) + (GainIn(transfer, "to", a) - GainIn(transfer, "from", a))
    <2>1. B!Movement(a) = SumFunction([e \in B!Posted(a) |-> entry[e].amount])
             + (SumFunction([t \in B!Moved("to", a) |-> transfer[t].amount])
                  - SumFunction([t \in B!Moved("from", a) |-> transfer[t].amount]))
      BY SameSum DEF B!Movement
    <2> QED
      BY <1>1, <2>1 DEF GainIn
  <1>5. GainIn(transfer, "to", a) \in Int /\ GainIn(transfer, "from", a) \in Int
    BY <1>3
  <1> HIDE DEF F
  <1>6. B!Movement(a) = (SumFunction(F) + GainIn(transfer, "to", a)) - GainIn(transfer, "from", a)
    BY <1>2, <1>4, <1>5
  <1>7. B!Movement(a) \in Int
    BY <1>2, <1>4, <1>5
  <1> QED
    BY <1>2, <1>5, <1>6, <1>7 DEF F, Told, PostedSum

(* The same after a step.                                                  *)
LEMMA MovementIsNext ==
    ASSUME B!AccountBookAssumption
    PROVE  B!TypeOK' => (\A a \in Account : Told(a))'
  BY MovementIs, PTL

(* Nothing changes what kind of account one is nor what it was opened with.*)
LEMMA ColumnsStay ==
    ASSUME B!Consistent, [B!Next]_B!vars, NEW a \in B!Opened
    PROVE  account'[a].type = account[a].type /\ account'[a].opening = account[a].opening
  <1>1. /\ account \in [Account -> B!AccountRow \cup {None}] /\ a \in Account
        /\ account[a] \in B!AccountRow
    BY OpenedRow DEF B!Consistent, B!TypeOK
  <1> DEFINE Stays(new) == new[a].type = account[a].type /\ new[a].opening = account[a].opening
  <1>2. CASE account' = account
    BY <1>2
  <1>3. ASSUME NEW d \in Account \cup {None}
        PROVE  /\ Stays(B!Without(d)) /\ B!Without(d)[a] \in B!AccountRow
               /\ DOMAIN B!Without(d) = Account
    <2>1. CASE d = None
      BY <1>1, <2>1 DEF B!Without
    <2>2. CASE d # None /\ d # a
      BY <1>1, <2>2 DEF B!Without, B!NotDefault
    <2>3. CASE d # None /\ d = a
      <3>1. B!Without(d) = [account EXCEPT ![a] = [account[a] EXCEPT !.default = FALSE]]
        BY <1>1, <2>3 DEF B!Without, B!NotDefault
      <3>2. /\ B!Without(d)[a] = [account[a] EXCEPT !.default = FALSE]
            /\ DOMAIN B!Without(d) = Account
        BY <1>1, <3>1
      <3> QED
        BY <1>1, <3>2 DEF B!AccountRow
    <2> QED
      BY <1>3, <2>1, <2>2, <2>3
  <1>4. ASSUME NEW h \in Handler, B!MakeDefault(h)
        PROVE  Stays(account')
    <2> DEFINE b == B!Asked(h).account
               was == B!Without(handler[h].on)
    <2>1. handler[h].on \in Account \cup {None}
      BY DEF B!Consistent, B!TypeOK
    <2>2. account' = account \/ account' = [was EXCEPT ![b].default = TRUE]
      BY <1>4 DEF B!MakeDefault
    <2>3. Stays(was) /\ was[a] \in B!AccountRow /\ DOMAIN was = Account
      BY <1>3, <2>1
    <2> HIDE DEF was
    <2>4. CASE account' = [was EXCEPT ![b].default = TRUE]
      <3>1. CASE b = a
        <4>1. account'[a] = [was[a] EXCEPT !.default = TRUE]
          BY <1>1, <2>3, <2>4, <3>1
        <4> QED
          BY <2>3, <4>1 DEF B!AccountRow
      <3>2. CASE b # a
        BY <1>1, <2>3, <2>4, <3>2
      <3> QED
        BY <3>1, <3>2
    <2> QED
      BY <1>2, <2>2, <2>4
  <1>5. ASSUME NEW h \in Handler, B!Open(h)
        PROVE  Stays(account')
    <2> DEFINE was == B!Without(handler[h].on)
    <2>1. handler[h].on \in Account \cup {None}
      BY DEF B!Consistent, B!TypeOK
    <2>2. PICK b \in Account \ B!Opened :
             \/ account' = account
             \/ account' = [was EXCEPT ![b] = B!NewAccount(B!Asked(h).draft, B!Asked(h).by,
                                                             B!Asked(h).default, B!Asked(h).private)]
      BY <1>5 DEF B!Open
    <2>3. Stays(was) /\ DOMAIN was = Account
      BY <1>3, <2>1
    <2>4. a # b
      OBVIOUS
    <2> HIDE DEF was
    <2> QED
      BY <1>1, <1>2, <2>2, <2>3, <2>4
  <1>6. ASSUME NEW h \in Handler, B!Rename(h) \/ B!Archive(h) \/ B!Show(h)
        PROVE  Stays(account')
    <2> DEFINE b == B!Asked(h).account
    <2>1. \/ account' = account
          \/ account' = [account EXCEPT ![b].name = B!Asked(h).name]
          \/ account' = [account EXCEPT ![b].active = FALSE]
          \/ \E owner, private : account' = [account EXCEPT ![b].owner = owner, ![b].private = private]
      <3>1. CASE B!Rename(h)
        BY <3>1 DEF B!Rename
      <3>2. CASE B!Archive(h)
        BY <3>2 DEF B!Archive
      <3>3. CASE B!Show(h)
        <4> DEFINE old == handler[h].row
                   new == B!Shown(B!Asked(h))
                   owner == IF new.owner # old.owner THEN new.owner ELSE account[b].owner
                   private == IF new.private # old.private THEN new.private ELSE account[b].private
        <4>1. account' = [account EXCEPT ![b].owner = owner, ![b].private = private]
          BY <3>3 DEF B!Show
        <4> HIDE DEF owner, private
        <4> QED
          BY <4>1
      <3> QED
        BY <1>6, <3>1, <3>2, <3>3
    <2>2. CASE account' = [account EXCEPT ![b].name = B!Asked(h).name]
      BY <1>1, <2>2 DEF B!AccountRow
    <2>3. CASE account' = [account EXCEPT ![b].active = FALSE]
      BY <1>1, <2>3 DEF B!AccountRow
    <2>4. CASE \E owner, private : account' = [account EXCEPT ![b].owner = owner, ![b].private = private]
      BY <1>1, <2>4 DEF B!AccountRow
    <2> QED
      BY <1>2, <2>1, <2>2, <2>3, <2>4
  <1>7. ASSUME NEW h \in Handler, B!Work(h)
        PROVE  \/ account' = account \/ B!MakeDefault(h) \/ B!Open(h)
               \/ B!Rename(h) \/ B!Archive(h) \/ B!Show(h)
    BY <1>7 DEF B!Work, B!Clear, B!Cleared, B!WriteDefault, B!Insert, B!WriteName, B!NoRoom,
       B!Post, B!Move,
                B!LockTransfer, B!Reverse, B!Revise, B!Change, B!Plan, B!LockGoal, B!Amend, B!Step, B!Forget
  <1>8. CASE UNCHANGED B!vars
    BY <1>2, <1>8 DEF B!vars
  <1>9. ASSUME NEW h \in Handler, NEW q \in B!Request, B!Arrive(h, q)
        PROVE  account' = account
    BY <1>9 DEF B!Arrive
  <1>10. ASSUME NEW e \in Entry, B!Delete(e)
         PROVE  account' = account
    BY <1>10 DEF B!Delete
  <1>11. ASSUME NEW h \in Handler, B!Victim(h)
         PROVE  account' = account
    BY <1>11 DEF B!Victim
  <1> HIDE DEF Stays
  <1>12. Stays(account')
    BY <1>2, <1>4, <1>5, <1>6, <1>7, <1>8, <1>9, <1>10, <1>11 DEF B!Next, Stays
  <1> QED
    BY <1>12 DEF Stays

(* A step changes one transfer at most, and never its ends.                *)
LEMMA OneTransferChanges ==
    ASSUME B!Consistent, [B!Next]_B!vars
    PROVE  \/ transfer' = transfer
           \/ \E t \in Transfer, new \in B!TransferRow :
                 /\ transfer' = [transfer EXCEPT ![t] = new]
                 /\ {new.from, new.to} \subseteq B!Opened /\ new.from # new.to
                 /\ transfer[t] # None => new.from = transfer[t].from /\ new.to = transfer[t].to
  <1> DEFINE One == \E t \in Transfer, new \in B!TransferRow :
                 /\ transfer' = [transfer EXCEPT ![t] = new]
                 /\ {new.from, new.to} \subseteq B!Opened /\ new.from # new.to
                 /\ transfer[t] # None => new.from = transfer[t].from /\ new.to = transfer[t].to
  <1>1. ASSUME NEW h \in Handler, B!Move(h)
        PROVE  One
    <2> DEFINE q == B!Asked(h)
               new == [from |-> q.from, to |-> q.to, amount |-> q.amount, reversed |-> FALSE]
    <2>1. handler[h].at = "read" /\ q.op = "transfer"
      BY <1>1 DEF B!Move
    <2>2. PICK t \in Transfer : transfer[t] = None /\ transfer' = [transfer EXCEPT ![t] = new]
      BY <1>1 DEF B!Move
    <2>3. q \in B!Request /\ {q.from, q.to} \subseteq B!Opened /\ q.from # q.to
      BY <2>1 DEF B!Consistent, B!RequestStands
    <2>4. new \in B!TransferRow
      BY <2>1, <2>3, RequestNames DEF B!TransferRow
    <2>5. {new.from, new.to} \subseteq B!Opened /\ new.from # new.to
      BY <2>3
    <2> HIDE DEF new
    <2> QED
      BY <2>2, <2>4, <2>5
  <1>2. ASSUME NEW h \in Handler, B!Reverse(h) \/ B!Revise(h)
        PROVE  One
    <2> DEFINE q == B!Asked(h)
               t == q.transfer
               old == transfer[t]
               reversed == [old EXCEPT !.reversed = TRUE]
               revised == [old EXCEPT !.amount = q.amount]
    <2>1. /\ handler[h].at = "locked" /\ q.op \in B!OnTransfer
          /\ \/ transfer' = [transfer EXCEPT ![t] = reversed]
             \/ q.op = "revise" /\ transfer' = [transfer EXCEPT ![t] = revised]
      BY <1>2 DEF B!Reverse, B!Revise, B!Change, B!OnTransfer
    <2>2. q \in B!Request /\ old # None
      BY <2>1 DEF B!Consistent, B!RequestStands
    <2>3. t \in Transfer /\ (q.op = "revise" => q.amount \in Amount)
      BY <2>1, <2>2, RequestNames
    <2>4. old \in B!TransferRow /\ {old.from, old.to} \subseteq B!Opened /\ old.from # old.to
      BY <2>2, <2>3 DEF B!Consistent, B!TypeOK, B!TransfersLink
    <2>5. reversed \in B!TransferRow /\ reversed.from = old.from /\ reversed.to = old.to
      BY <2>4 DEF B!TransferRow
    <2>6. q.op = "revise" =>
            revised \in B!TransferRow /\ revised.from = old.from /\ revised.to = old.to
      BY <2>3, <2>4 DEF B!TransferRow
    <2> HIDE DEF reversed, revised, t
    <2> QED
      BY <2>1, <2>3, <2>4, <2>5, <2>6
  <1>3. ASSUME NEW h \in Handler, B!Work(h)
        PROVE  transfer' = transfer \/ B!Move(h) \/ B!Reverse(h) \/ B!Revise(h)
    BY <1>3 DEF B!Work, B!Clear, B!Cleared, B!WriteDefault, B!Insert, B!WriteName, B!MakeDefault,
       B!Open, B!NoRoom,
                B!Rename, B!Archive, B!Show, B!Post, B!LockTransfer, B!Plan, B!LockGoal, B!Amend, B!Step, B!Forget, B!books
  <1>4. ASSUME UNCHANGED B!vars
        PROVE  transfer' = transfer
    BY <1>4 DEF B!vars
  <1>5. ASSUME NEW h \in Handler, NEW q \in B!Request, B!Arrive(h, q)
        PROVE  transfer' = transfer
    BY <1>5 DEF B!Arrive, B!books
  <1>6. ASSUME NEW e \in Entry, B!Delete(e)
        PROVE  transfer' = transfer
    BY <1>6 DEF B!Delete
  <1> HIDE DEF One
  <1>7. ASSUME NEW h \in Handler, B!Work(h)
        PROVE  transfer' = transfer \/ One
    BY <1>1, <1>2, <1>3, <1>7
  <1>8. transfer' = transfer \/ One
    <2>1. CASE B!Next
      <3>1. \/ \E h \in Handler : \E q \in B!Request : B!Arrive(h, q)
            \/ \E h \in Handler : B!Work(h)
            \/ \E h \in Handler : B!Victim(h)
            \/ \E e \in Entry : B!Delete(e)
        BY <2>1 DEF B!Next
      <3>2. ASSUME NEW h \in Handler, B!Victim(h)
            PROVE  transfer' = transfer
        BY <3>2 DEF B!Victim, B!books
      <3> QED
        BY <1>5, <1>6, <1>7, <3>1, <3>2
    <2>2. CASE UNCHANGED B!vars
      BY <1>4, <2>2
    <2> QED
      BY <2>1, <2>2
  <1> QED
    BY <1>8 DEF One

(* What a transfer brings to one account it takes from another one.        *)
LEMMA MoneyMoves ==
    ASSUME B!AccountBookAssumption,
           B!Consistent, [B!Next]_B!vars, entry' = entry
    PROVE  \/ \A a \in Account : B!Movement(a)' = B!Movement(a)
           \/ \E d \in Int, p \in B!Opened, r \in B!Opened : p # r /\ \A a \in Account :
                 B!Movement(a)' = B!Movement(a) + (IF a = r THEN d ELSE IF a = p THEN -d ELSE 0)
  <1>1. B!TypeOK /\ B!TypeOK'
    BY NextKeeps DEF B!Consistent
  <1>2. CASE transfer' = transfer
    BY <1>2 DEF B!Movement, B!Posted, B!Moved
  <1>3. ASSUME NEW t \in Transfer, NEW new \in B!TransferRow,
               transfer' = [transfer EXCEPT ![t] = new],
               {new.from, new.to} \subseteq B!Opened, new.from # new.to,
               transfer[t] # None => new.from = transfer[t].from /\ new.to = transfer[t].to
        PROVE  \E d \in Int, p \in B!Opened, r \in B!Opened : p # r /\ \A a \in Account :
                  B!Movement(a)' = B!Movement(a) + (IF a = r THEN d ELSE IF a = p THEN -d ELSE 0)
    <2> DEFINE T == transfer
               U == transfer'
               d == Worth(new) - Worth(T[t])
               p == new.from
               r == new.to
    <2>1. /\ T \in [Transfer -> B!TransferRow \cup {None}] /\ U \in [Transfer -> B!TransferRow \cup {None}]
          /\ U[t] = new /\ \A u \in Transfer \ {t} : U[u] = T[u]
      BY <1>1, <1>3 DEF B!TypeOK
    <2>2. Worth(new) \in Int /\ Worth(T[t]) \in Int /\ d \in Int
      BY <2>1 DEF B!AccountBookAssumption, Worth, B!TransferRow
    <2>3. ASSUME NEW a \in Account
          PROVE  B!Movement(a)' = B!Movement(a) + (IF a = r THEN d ELSE IF a = p THEN -d ELSE 0)
      <3>1. /\ B!Movement(a) = (PostedSum(a) + GainIn(T, "to", a)) - GainIn(T, "from", a)
            /\ PostedSum(a) \in Int /\ B!Movement(a) \in Int
            /\ GainIn(T, "to", a) \in Int /\ GainIn(T, "from", a) \in Int
        BY <1>1, MovementIs DEF Told
      <3>2. Told(a)'
        BY <1>1, MovementIsNext
      <3>3. /\ B!Movement(a)' = (PostedSum(a)' + GainIn(U, "to", a)) - GainIn(U, "from", a)
            /\ PostedSum(a)' \in Int /\ B!Movement(a)' \in Int
            /\ GainIn(U, "to", a) \in Int /\ GainIn(U, "from", a) \in Int
        BY <3>2 DEF Told, GainIn, MovedIn
      <3>4. PostedSum(a)' = PostedSum(a)
        BY DEF PostedSum, B!Posted
      <3>5. /\ WorthAt(new, "to", a) = (IF a = r THEN Worth(new) ELSE 0)
            /\ WorthAt(new, "from", a) = (IF a = p THEN Worth(new) ELSE 0)
        BY DEF B!AccountBookAssumption, WorthAt
      <3>6. /\ WorthAt(T[t], "to", a) = (IF a = r THEN Worth(T[t]) ELSE 0)
            /\ WorthAt(T[t], "from", a) = (IF a = p THEN Worth(T[t]) ELSE 0)
        BY <1>3 DEF WorthAt, Worth
      <3>7. GainIn(U, "to", a) - GainIn(T, "to", a) = WorthAt(new, "to", a) - WorthAt(T[t], "to", a)
        BY <2>1, GainMoves
      <3>8. GainIn(U, "from", a) - GainIn(T, "from", a)
              = WorthAt(new, "from", a) - WorthAt(T[t], "from", a)
        BY <2>1, GainMoves
      <3>9. p # r
        BY <1>3
      <3> HIDE DEF T, U, p, r
      <3>10. CASE a = r
        <4>1. GainIn(U, "to", a) - GainIn(T, "to", a) = d
          BY <3>5, <3>6, <3>7, <3>10
        <4>2. GainIn(U, "from", a) = GainIn(T, "from", a)
          <5>1. GainIn(U, "from", a) - GainIn(T, "from", a) = 0
            BY <3>5, <3>6, <3>8, <3>9, <3>10
          <5> QED
            BY <3>1, <3>3, <5>1
        <4> HIDE DEF d
        <4> QED
          BY <2>2, <3>1, <3>3, <3>4, <3>10, <4>1, <4>2
      <3>11. CASE a = p
        <4>1. GainIn(U, "from", a) - GainIn(T, "from", a) = d
          BY <3>5, <3>6, <3>8, <3>11
        <4>2. GainIn(U, "to", a) = GainIn(T, "to", a)
          <5>1. GainIn(U, "to", a) - GainIn(T, "to", a) = 0
            BY <3>5, <3>6, <3>7, <3>9, <3>11
          <5> QED
            BY <3>1, <3>3, <5>1
        <4> HIDE DEF d
        <4> QED
          BY <2>2, <3>1, <3>3, <3>4, <3>9, <3>11, <4>1, <4>2
      <3>12. CASE a # p /\ a # r
        BY <2>2, <3>1, <3>3, <3>4, <3>5, <3>6, <3>7, <3>8, <3>12
      <3> QED
        BY <3>10, <3>11, <3>12
    <2>4. p \in B!Opened /\ r \in B!Opened /\ p # r
      BY <1>3
    <2> HIDE DEF d, p, r
    <2> QED
      BY <2>2, <2>3, <2>4
  <1> QED
    BY <1>2, <1>3, OneTransferChanges

(* The balances of two accounts move, and what all are worth does not.     *)
LEMMA NetStays ==
    ASSUME B!AccountBookAssumption,
           B!Consistent, [B!Next]_B!vars, entry' = entry, B!Opened' = B!Opened
    PROVE  B!NetAssets(B!Opened)' = B!NetAssets(B!Opened)
  <1> DEFINE D == B!Debts(B!Opened)
             A == B!Opened \ D
             F == [a \in A |-> B!Balance(a)]
             G == [a \in A |-> B!Balance(a)']
             H == [a \in D |-> B!Balance(a)]
             K == [a \in D |-> B!Balance(a)']
  <1>1. B!TypeOK /\ B!TypeOK'
    BY NextKeeps DEF B!Consistent
  <1>2. \A a \in B!Opened : /\ account'[a].type = account[a].type
                            /\ account'[a].opening = account[a].opening
                            /\ account[a].opening \in Int /\ a \in Account
    BY ColumnsStay, OpenedRow DEF B!AccountRow
  <1>3. B!Debts(B!Opened)' = D
    BY <1>2 DEF B!Debts
  <1>4. /\ B!NetAssets(B!Opened) = SumFunctionOnSet(F, A) - SumFunctionOnSet(H, D)
        /\ B!NetAssets(B!Opened)' = SumFunctionOnSet(G, A) - SumFunctionOnSet(K, D)
    <2>1. /\ B!NetAssets(B!Opened) = SumFunction(F) - SumFunction(H)
          /\ B!NetAssets(B!Opened)' = SumFunction(G) - SumFunction(K)
      BY <1>3, SameSum DEF B!NetAssets
    <2> QED
      BY <2>1 DEF SumFunction
  <1>5. \A a \in Account : B!Movement(a) \in Int /\ B!Movement(a)' \in Int
    BY <1>1, MovementIs, MovementIsNext DEF Told
  <1>6. \A a \in A : /\ F[a] = account[a].opening + B!Movement(a)
                     /\ G[a] = account[a].opening + B!Movement(a)'
    BY <1>2 DEF B!Balance, B!Debts
  <1>7. \A a \in D : /\ H[a] = account[a].opening - B!Movement(a)
                     /\ K[a] = account[a].opening - B!Movement(a)'
    BY <1>2 DEF B!Balance, B!Debts
  <1>8. /\ D \subseteq B!Opened /\ A \cup D = B!Opened /\ A \cap D = {}
        /\ IsFiniteSet(A) /\ IsFiniteSet(D)
    BY FS_Subset, Finite DEF B!Debts, B!Opened
  <1> HIDE DEF F, G, H, K, A, D
  <1>9. /\ \A a \in A : F[a] \in Int /\ G[a] \in Int
        /\ \A a \in D : H[a] \in Int /\ K[a] \in Int
    BY <1>2, <1>5, <1>6, <1>7, <1>8
  <1>10. Numbers(F, A) /\ Numbers(G, A) /\ Numbers(H, D) /\ Numbers(K, D)
    BY <1>8, <1>9 DEF Numbers
  <1>11. CASE \A a \in Account : B!Movement(a)' = B!Movement(a)
    <2>1. /\ \A a \in A : F[a] = G[a]
          /\ \A a \in D : H[a] = K[a]
      BY <1>2, <1>6, <1>7, <1>8, <1>11
    <2>2. SumFunctionOnSet(F, A) = SumFunctionOnSet(G, A)
      BY <1>8, <2>1, SumAgree
    <2>3. SumFunctionOnSet(H, D) = SumFunctionOnSet(K, D)
      BY <1>8, <2>1, SumAgree
    <2> QED
      BY <1>4, <2>2, <2>3
  <1>12. ASSUME NEW d \in Int, NEW p \in B!Opened, NEW r \in B!Opened, p # r,
                \A a \in Account :
                   B!Movement(a)' = B!Movement(a) + (IF a = r THEN d ELSE IF a = p THEN -d ELSE 0)
         PROVE  B!NetAssets(B!Opened)' = B!NetAssets(B!Opened)
    <2>1. \A a \in A : G[a] = F[a] + (IF a = r THEN d ELSE IF a = p THEN -d ELSE 0)
      BY <1>2, <1>5, <1>6, <1>8, <1>12
    <2>2. \A a \in D : K[a] = H[a] - (IF a = r THEN d ELSE IF a = p THEN -d ELSE 0)
      BY <1>2, <1>5, <1>7, <1>8, <1>12
    <2>3. /\ \A a \in A \ {p, r} : G[a] = F[a]
          /\ \A a \in D \ {p, r} : K[a] = H[a]
      BY <1>9, <2>1, <2>2
    <2>4. SumFunctionOnSet(G, A) - SumFunctionOnSet(F, A)
            = (ValueAt(G, A, p) - ValueAt(F, A, p)) + (ValueAt(G, A, r) - ValueAt(F, A, r))
      BY <1>10, <1>12, <2>3, SumShift
    <2>5. SumFunctionOnSet(K, D) - SumFunctionOnSet(H, D)
            = (ValueAt(K, D, p) - ValueAt(H, D, p)) + (ValueAt(K, D, r) - ValueAt(H, D, r))
      BY <1>10, <1>12, <2>3, SumShift
    <2>6. /\ ValueAt(G, A, p) - ValueAt(F, A, p) = (IF p \in A THEN -d ELSE 0)
          /\ ValueAt(G, A, r) - ValueAt(F, A, r) = (IF r \in A THEN d ELSE 0)
      BY <1>9, <1>12, <2>1 DEF ValueAt
    <2>7. /\ ValueAt(K, D, p) - ValueAt(H, D, p) = (IF p \in D THEN d ELSE 0)
          /\ ValueAt(K, D, r) - ValueAt(H, D, r) = (IF r \in D THEN -d ELSE 0)
      BY <1>9, <1>12, <2>2 DEF ValueAt
    <2>8. /\ p \in A <=> p \notin D
          /\ r \in A <=> r \notin D
      BY <1>8
    <2>9. /\ SumFunctionOnSet(G, A) \in Int /\ SumFunctionOnSet(F, A) \in Int
          /\ SumFunctionOnSet(K, D) \in Int /\ SumFunctionOnSet(H, D) \in Int
      BY <1>8, <1>9, SumTyped
    <2>10. SumFunctionOnSet(G, A) - SumFunctionOnSet(F, A)
             = SumFunctionOnSet(K, D) - SumFunctionOnSet(H, D)
      BY <2>4, <2>5, <2>6, <2>7, <2>8
    <2> QED
      BY <1>4, <2>9, <2>10
  <1> QED
    BY <1>11, <1>12, MoneyMoves

(* Without a new entry or a new account no step changes what the household *)
(* is worth: not a transfer, a reversal or a revision, between any kinds   *)
(* of accounts, nor a change to an account.                                *)
THEOREM NetMovesOnlyByEntriesHolds ==
    ASSUME B!AccountBookAssumption
    PROVE  B!Spec => B!NetMovesOnlyByEntries
  <1>1. B!IInv /\ [B!Next]_B!vars =>
           [entry' = entry /\ B!Opened' = B!Opened => B!NetAssets(B!Opened)' = B!NetAssets(B!Opened)]_B!vars
    BY NetStays DEF B!IInv
  <1> QED
    BY <1>1, AccountBookInvariance, PTL DEF B!Spec, B!NetMovesOnlyByEntries

(* However many requests make an account the default at the same time, the *)
(* ledger has exactly one at all times.                                    *)
THEOREM OneDefaultHolds ==
    ASSUME B!AccountBookAssumption
    PROVE  B!Spec => []B!OneDefault
  <1>1. B!IInv => B!OneDefault
    BY DEF B!IInv, B!Consistent
  <1> QED
    BY <1>1, AccountBookInvariance, PTL

(* However many requests reverse or revise a transfer at the same time,    *)
(* its revisions explain what stands.                                      *)
THEOREM TrailExplainsTransferHolds ==
    ASSUME B!AccountBookAssumption
    PROVE  B!Spec => []B!TrailExplainsTransfer
  <1>1. B!IInv => B!TrailExplainsTransfer
    BY DEF B!IInv, B!Consistent
  <1> QED
    BY <1>1, AccountBookInvariance, PTL
=============================================================================
