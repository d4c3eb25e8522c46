---------------------------- MODULE ProcessProofs ----------------------------
(***************************************************************************)
(* Proofs about Process for any messages, cards, reminders, deliveries,    *)
(* settings and bounds: an orderly stop drops no event that the callback   *)
(* has acknowledged and leaves nothing behind, the reply loop sleeps over  *)
(* no wake-up, and without the event worker an event is processed once.    *)
(***************************************************************************)
EXTENDS Process, TLAPS

(* The invariant in three parts that few actions have in common: what the  *)
(* long connection receives, the loops of the workers, and the rows that   *)
(* EventService goes by.                                                   *)
ReceiverType ==
    /\ stage \in Stage
    /\ thread \in {"none", "connecting", "connected", "leaving", "failed", "ended"}
    /\ stopRequested \in BOOLEAN /\ overrun \in BOOLEAN
    /\ ready \in Seq(Callback) /\ queue \in [Kind -> Seq(Delivery)]
    /\ \A k \in Kind : \A i \in DOMAIN queue[k] : KindOf(queue[k][i]) = k
    /\ consumer \in [Kind -> {"none", "waiting", "woken", "cancelled", "gone"}]
    /\ task \in [Delivery -> {"none", "claim", "mark", "process", "signal", "finish"}]
    /\ handed \cup excused \subseteq acked /\ acked \subseteq Delivery
TasksDone == stage \in {"disposed"} \cup Worker => \A d \in Delivery : task[d] = "none"
Receiver == /\ ReceiverType /\ Tracked /\ Scheduled /\ Cancelled /\ HandedOver
            /\ TasksDone /\ Down

Place == {"off", "sweep", "commit", "signal", "complete", "deliver", "sleep", "resume", "ended"}
LoopsType ==
    /\ at \in [Worker -> Place] /\ item \in Message \cup {None}
    /\ stop \in [Worker -> BOOLEAN] /\ cancelled \in [Worker -> BOOLEAN] /\ wake \in BOOLEAN
    /\ news \in [Source -> {"none", "committed", "signalled"}]
Over(w) == at[w] \in {"off", "ended"}
LoopsDone ==
    /\ stage \in {"reply", "cleanup", "recurring", "disposed"} => Over("event")
    /\ stage \in {"cleanup", "recurring", "disposed"} => Over("reply")
    /\ stage \in {"recurring", "disposed"} => Over("cleanup")
    /\ stage = "disposed" => Over("recurring")
Loops == LoopsType /\ LoopsDone /\ Awake

Rows == /\ enabled \in Settings
        /\ row \in [Message -> {"absent", "received", "processing", "succeeded", "failed"}]
        /\ ran \in [Message -> Nat]
        /\ OneRunner /\ SyncRunsOnce

Counters == crashes \in 0 .. MaxCrashes /\ starts \in 0 .. MaxStarts

(* The parts make up the invariant.                                        *)
LEMMA Parts == IInv <=> Receiver /\ Loops /\ Rows /\ Counters
  <1>1. IInv => Receiver
    BY DEF IInv, Inv, TypeOK, Halted, Receiver, ReceiverType, TasksDone
  <1>2. IInv => Loops
    BY DEF IInv, Inv, TypeOK, Halted, Loops, LoopsType, LoopsDone, Over, Place
  <1>3. IInv => Rows /\ Counters
    BY DEF IInv, Inv, TypeOK, Rows, Counters
  <1>4. ASSUME Receiver, Loops, Rows, Counters
        PROVE  IInv
    <2>1. TypeOK
      BY <1>4 DEF TypeOK, Receiver, ReceiverType, Loops, LoopsType, Place, Rows, Counters
    <2>2. Halted
      BY <1>4 DEF Halted, Receiver, TasksDone, Loops, LoopsDone, Over
    <2>3. NothingDangles
      BY <1>4 DEF NothingDangles, Receiver, TasksDone, Cancelled, Late, Loops, LoopsDone, Over,
                  Worker
    <2> QED
      BY <1>4, <2>1, <2>2, <2>3 DEF IInv, Inv, Receiver, Loops, Rows
  <1> QED
    BY <1>1, <1>2, <1>3, <1>4

-----------------------------------------------------------------------------
(* Sequences of callbacks                                                  *)

(* What is left of a sequence.                                             *)
LEMMA TailHas ==
    ASSUME NEW S, NEW s \in Seq(S), s # <<>>
    PROVE  /\ Tail(s) \in Seq(S) /\ Head(s) \in S
           /\ \A x : Has(s, x) <=> x = Head(s) \/ Has(Tail(s), x)
           /\ \A i \in DOMAIN Tail(s) : i + 1 \in DOMAIN s /\ Tail(s)[i] = s[i + 1]
  <1>1. /\ Len(s) \in Nat /\ Len(s) > 0 /\ DOMAIN s = 1 .. Len(s)
        /\ Head(s) = s[1] /\ s[1] \in S
        /\ Tail(s) \in Seq(S) /\ DOMAIN Tail(s) = 1 .. Len(s) - 1
        /\ \A i \in 1 .. Len(s) - 1 : Tail(s)[i] = s[i + 1]
    OBVIOUS
  <1>2. ASSUME NEW x, Has(s, x), x # Head(s)
        PROVE  Has(Tail(s), x)
    <2>1. PICK i \in 1 .. Len(s) : s[i] = x
      BY <1>1, <1>2 DEF Has
    <2>2. i - 1 \in 1 .. Len(s) - 1 /\ (i - 1) + 1 = i
      BY <1>1, <1>2, <2>1
    <2>3. Tail(s)[i - 1] = x
      BY <1>1, <2>1, <2>2
    <2> QED
      BY <1>1, <2>2, <2>3 DEF Has
  <1>3. ASSUME NEW x, Has(Tail(s), x)
        PROVE  Has(s, x)
    <2>1. PICK i \in 1 .. Len(s) - 1 : Tail(s)[i] = x
      BY <1>1, <1>3 DEF Has
    <2>2. i + 1 \in 1 .. Len(s) /\ s[i + 1] = x
      BY <1>1, <2>1
    <2> QED
      BY <1>1, <2>2 DEF Has
  <1>4. Has(s, Head(s))
    BY <1>1 DEF Has
  <1> QED
    BY <1>1, <1>2, <1>3, <1>4

(* A sequence with one more at its end.                                    *)
LEMMA AppendHas ==
    ASSUME NEW S, NEW s \in Seq(S), NEW c \in S
    PROVE  /\ Append(s, c) \in Seq(S)
           /\ \A x : Has(Append(s, c), x) <=> Has(s, x) \/ x = c
           /\ \A i \in DOMAIN Append(s, c) :
                 \/ i \in DOMAIN s /\ Append(s, c)[i] = s[i] /\ i < Len(s) + 1
                 \/ i = Len(s) + 1 /\ Append(s, c)[i] = c
  <1>1. /\ Len(s) \in Nat /\ DOMAIN s = 1 .. Len(s)
        /\ Append(s, c) \in Seq(S) /\ DOMAIN Append(s, c) = 1 .. Len(s) + 1
        /\ \A i \in 1 .. Len(s) : Append(s, c)[i] = s[i]
        /\ Append(s, c)[Len(s) + 1] = c
    OBVIOUS
  <1>2. ASSUME NEW x, Has(Append(s, c), x), x # c
        PROVE  Has(s, x)
    <2>1. PICK i \in 1 .. Len(s) + 1 : Append(s, c)[i] = x
      BY <1>1, <1>2 DEF Has
    <2>2. i \in 1 .. Len(s) /\ s[i] = x
      BY <1>1, <1>2, <2>1
    <2> QED
      BY <1>1, <2>2 DEF Has
  <1>3. \A x : Has(s, x) => Has(Append(s, c), x)
    BY <1>1 DEF Has
  <1>4. Has(Append(s, c), c)
    BY <1>1 DEF Has
  <1> QED
    BY <1>1, <1>2, <1>3, <1>4

(* Nothing is in an empty sequence.                                        *)
LEMMA EmptyHas == \A x : ~Has(<<>>, x)
  BY DEF Has

(* One callback of a sort stays one, and the one that is run was it.       *)
LEMMA TailOnce ==
    ASSUME NEW s \in Seq(Callback), s # <<>>, Once(s)
    PROVE  Once(Tail(s)) /\ \A x : Has(Tail(s), x) => ~SameSort(x, Head(s))
  <1>1. \A i \in DOMAIN Tail(s) : i + 1 \in DOMAIN s /\ Tail(s)[i] = s[i + 1] /\ i \in Nat /\ i > 0
    BY TailHas
  <1>2. Once(Tail(s))
    BY <1>1 DEF Once
  <1>3. ASSUME NEW x, Has(Tail(s), x), SameSort(x, Head(s))
        PROVE  FALSE
    <2>1. PICK i \in DOMAIN Tail(s) : Tail(s)[i] = x
      BY <1>3 DEF Has
    <2>2. 1 \in DOMAIN s /\ s[1] = Head(s)
      OBVIOUS
    <2>3. i + 1 = 1
      BY <1>1, <1>3, <2>1, <2>2 DEF Once
    <2> QED
      BY <1>1, <2>3
  <1> QED
    BY <1>2, <1>3

(* A callback of a sort that was not there makes one.                      *)
LEMMA AppendOnce ==
    ASSUME NEW s \in Seq(Callback), NEW c \in Callback, Once(s),
           \A x : Has(s, x) => ~SameSort(x, c)
    PROVE  Once(Append(s, c))
  <1>1. \A i \in DOMAIN Append(s, c) :
           \/ i \in DOMAIN s /\ Append(s, c)[i] = s[i] /\ i < Len(s) + 1
           \/ i = Len(s) + 1 /\ Append(s, c)[i] = c
    BY AppendHas
  <1>2. \A i \in DOMAIN s : ~SameSort(s[i], c) /\ ~SameSort(c, s[i])
    BY DEF Has, SameSort
  <1> QED
    BY <1>1, <1>2 DEF Once

(* Callbacks are run in order.                                             *)
LEMMA TailInOrder ==
    ASSUME NEW s \in Seq(Callback), s # <<>>, InOrder(s)
    PROVE  InOrder(Tail(s))
  <1>1. \A i \in DOMAIN Tail(s) : i + 1 \in DOMAIN s /\ Tail(s)[i] = s[i + 1] /\ i \in Nat
    BY TailHas
  <1> QED
    BY <1>1 DEF InOrder

(* ... and a new one comes last.                                           *)
LEMMA AppendInOrder ==
    ASSUME NEW s \in Seq(Callback), NEW c \in Callback, InOrder(s),
           c.do = "enqueue" => \A i \in DOMAIN s : s[i].do \notin {"joined", "goOn"},
           c.do = "consume" => \A i \in DOMAIN s : s[i].do # "goOn",
           c.do = "goOn" => \A i \in DOMAIN s : s[i].do # "enqueue"
    PROVE  InOrder(Append(s, c))
  <1>1. \A i \in DOMAIN Append(s, c) :
           \/ i \in DOMAIN s /\ Append(s, c)[i] = s[i] /\ i < Len(s) + 1
           \/ i = Len(s) + 1 /\ Append(s, c)[i] = c
    BY AppendHas
  <1> SUFFICES ASSUME NEW i \in DOMAIN Append(s, c), NEW j \in DOMAIN Append(s, c)
               PROVE  LET t == Append(s, c) IN
                      /\ t[i].do = "joined" /\ t[j].do = "enqueue" => j < i
                      /\ t[i].do = "goOn" =>
                            t[j].do # "enqueue" /\ (t[j].do = "consume" => j < i)
    BY DEF InOrder
  <1>2. CASE i \in DOMAIN s /\ j \in DOMAIN s /\ Append(s, c)[i] = s[i] /\ Append(s, c)[j] = s[j]
    BY <1>2 DEF InOrder
  <1>3. CASE i \in DOMAIN s /\ Append(s, c)[i] = s[i] /\ j = Len(s) + 1 /\ Append(s, c)[j] = c
    BY <1>3
  <1>4. CASE j < Len(s) + 1 /\ j \in DOMAIN s /\ Append(s, c)[j] = s[j]
             /\ i = Len(s) + 1 /\ Append(s, c)[i] = c
    BY <1>4
  <1>5. CASE i = j /\ Append(s, c)[i] = c
    BY <1>5
  <1> QED
    BY <1>1, <1>2, <1>3, <1>4, <1>5

(* The four kinds of callbacks.                                            *)
LEMMA Callbacks ==
    /\ \A d \in Delivery : Enqueueing(d) \in Callback /\ Enqueueing(d).do = "enqueue"
    /\ \A k \in Kind : Consuming(k) \in Callback /\ Consuming(k).do = "consume"
    /\ Joined \in Callback /\ Joined.do = "joined" /\ GoOn \in Callback /\ GoOn.do = "goOn"
    /\ \A c \in Callback :
          /\ c.do \in {"enqueue", "consume", "joined", "goOn"}
          /\ c.do = "enqueue" => c.of \in Delivery /\ c = Enqueueing(c.of)
          /\ c.do = "consume" => c.of \in Kind /\ c = Consuming(c.of)
          /\ c.do = "joined" => c = Joined
          /\ c.do = "goOn" => c = GoOn
    /\ \A c, d \in Delivery : Enqueueing(c) = Enqueueing(d) => c = d
    /\ \A c, k \in Kind : Consuming(c) = Consuming(k) => c = k
  BY DEF Callback, Enqueueing, Consuming, Joined, GoOn

(* A delivery is of a message or of a card.                                *)
LEMMA KindType == \A d \in Delivery : KindOf(d) \in Kind
  BY DEF KindOf, Kind

-----------------------------------------------------------------------------
(* What a step leaves alone                                                *)

(* The receiver does not change.                                         *)
LEMMA ReceiverStays ==
    ASSUME Receiver, UNCHANGED <<stage, receiver, history>>
    PROVE  Receiver'
  <1> USE DEF receiver, history
  <1>1. ReceiverType' /\ TasksDone'
    BY DEF Receiver, ReceiverType, TasksDone, KindOf
  <1>2. Tracked'
    BY DEF Receiver, Tracked, OnItsWay, KindOf
  <1>3. Scheduled' /\ Cancelled' /\ HandedOver' /\ Down'
    BY DEF Receiver, Scheduled, Cancelled, HandedOver, Down
  <1> QED
    BY <1>1, <1>2, <1>3 DEF Receiver

(* The loops do not change.                                                *)
LEMMA LoopsStay ==
    ASSUME Loops, UNCHANGED <<stage, loops, signals>>
    PROVE  Loops'
  BY DEF Loops, LoopsType, LoopsDone, Over, Awake, loops, signals

(* No run of the processor, no new runner, and no row that goes away.      *)
LEMMA RowsStay ==
    ASSUME Rows, UNCHANGED <<enabled, ran>>,
           row' \in [Message -> {"absent", "received", "processing", "succeeded", "failed"}],
           \A m \in Message : row'[m] = "absent" => row[m] = "absent",
           \A d \in Delivery : EventOf[d] \in Message /\ Runner(d)' => Runner(d)
    PROVE  Rows'
  <1>1. OneRunner'
    BY DEF Rows, OneRunner
  <1> QED
    BY <1>1 DEF Rows, SyncRunsOnce

(* ... as when neither the rows nor the tasks change.                      *)
LEMMA RowsUntouched ==
    ASSUME Rows, UNCHANGED <<enabled, tables, task>>
    PROVE  Rows'
  <1>1. \A d \in Delivery : Runner(d)' => Runner(d)
    BY DEF Runner
  <1> QED
    BY <1>1, RowsStay DEF Rows, tables

(* Neither a start nor a crash.                                            *)
LEMMA CountersStay ==
    ASSUME Counters, UNCHANGED <<crashes, starts>>
    PROVE  Counters'
  BY DEF Counters

-----------------------------------------------------------------------------
(* The loops                                                               *)

(* A loop that is not over goes from one place to another.                 *)
LEMMA LoopMoves ==
    ASSUME Loops, NEW w \in Worker, at[w] \notin {"off", "ended"}, NEW p \in Place,
           at' = [at EXCEPT ![w] = p], UNCHANGED stage
    PROVE  LoopsDone' /\ at' \in [Worker -> Place] /\ at'[w] = p
           /\ \A v \in Worker : v # w => at'[v] = at[v]
  <1>1. at' \in [Worker -> Place] /\ at'[w] = p /\ \A v \in Worker : v # w => at'[v] = at[v]
    BY DEF Loops, LoopsType
  <1>2. \A v \in Worker : Over(v) => v # w /\ Over(v)'
    BY <1>1 DEF Over
  <1>3. {"event", "reply", "cleanup", "recurring"} \subseteq Worker
    BY DEF Worker
  <1>4. LoopsDone'
    BY <1>2, <1>3 DEF Loops, LoopsDone
  <1> QED
    BY <1>1, <1>4

(* Whoever signals a reply sets the wake-up.                               *)
LEMMA SignalWakes ==
    ASSUME Loops, NEW S, Signalled(S),
           at'["reply"] \in {"deliver", "sleep"} => at["reply"] \in {"deliver", "sleep"}
    PROVE  Awake' /\ wake' \in BOOLEAN
           /\ news' \in [Source -> {"none", "committed", "signalled"}]
  BY DEF Signalled, signals, Loops, LoopsType, Awake

(* A commit signals nothing.                                               *)
LEMMA CommitKeepsAwake ==
    ASSUME Loops, NEW s, Committed(s),
           at'["reply"] \in {"deliver", "sleep"} => at["reply"] \in {"deliver", "sleep"}
    PROVE  Awake' /\ wake' \in BOOLEAN
           /\ news' \in [Source -> {"none", "committed", "signalled"}]
  BY DEF Committed, Loops, LoopsType, Awake

(* One step of a loop.                                                     *)
LEMMA LoopsNext ==
    ASSUME Loops, NEW w \in Worker, LoopStep(w)
    PROVE  Loops'
  <1> USE DEF LoopOnly, receiver, history, life
  <1>1. stop' = stop /\ stage' = stage
    <2>1. {"event", "reply", "recurring"} \subseteq Worker
      BY DEF Worker
    <2> QED
      BY DEF LoopStep, Ends, Idles, TimeIsUp, TakeEvent, CommitEvent, SignalEvent, EndEvent,
             SignalReminders, CommitReminder, TakeReplies, SendReplies, SleepIsOver, Clear, Swallow
  <1> DEFINE Quiet == /\ at'["reply"] \in {"deliver", "sleep"} => at["reply"] \in {"deliver", "sleep"}
             Moves(p) == at[w] \notin {"off", "ended"} /\ at' = [at EXCEPT ![w] = p]
             Typed == /\ item' \in Message \cup {None} /\ cancelled' \in [Worker -> BOOLEAN]
             Heard == /\ Awake' /\ wake' \in BOOLEAN
                      /\ news' \in [Source -> {"none", "committed", "signalled"}]
  <1>2. ASSUME NEW p \in Place, Moves(p), Typed, Heard
        PROVE  Loops'
    <2>1. LoopsDone' /\ at' \in [Worker -> Place]
      BY <1>1, <1>2, LoopMoves
    <2> QED
      BY <1>1, <1>2, <2>1 DEF Loops, LoopsType
  <1>3. ASSUME NEW p \in Place, Moves(p), w # "reply" \/ p \notin {"deliver", "sleep"}
                 \/ at["reply"] \in {"deliver", "sleep"}
        PROVE  Quiet
    <2>1. at' \in [Worker -> Place] /\ at'[w] = p /\ \A v \in Worker : v # w => at'[v] = at[v]
      BY <1>1, <1>3, LoopMoves
    <2> QED
      BY <1>3, <2>1 DEF Worker
  <1>4. ASSUME Quiet, UNCHANGED signals
        PROVE  Heard
    BY <1>4 DEF signals, Loops, LoopsType, Awake
  <1>5. ASSUME UNCHANGED wake, news' = [s \in Source |-> "none"]
        PROVE  Heard
    BY <1>5 DEF Loops, LoopsType, Awake
  <1>6. cancelled \in [Worker -> BOOLEAN] /\ item \in Message \cup {None} /\ wake \in BOOLEAN
        /\ news \in [Source -> {"none", "committed", "signalled"}]
    BY DEF Loops, LoopsType
  <1>7. CASE Ends(w)
    <2>1. Moves("ended") /\ "ended" \in Place
      BY <1>7 DEF Ends, Place
    <2>2. Typed /\ UNCHANGED signals
      BY <1>6, <1>7 DEF Ends
    <2> HIDE DEF Moves, Typed, Heard, Quiet
    <2> QED
      BY <1>2, <1>3, <1>4, <2>1, <2>2
  <1>8. CASE Idles(w)
    <2>1. Moves("sleep") /\ "sleep" \in Place /\ Typed
      BY <1>6, <1>8 DEF Idles, Sweeping, Runnable, MovesTo, Place
    <2>2. CASE w = "reply"
      <3>1. UNCHANGED wake /\ news' = [s \in Source |-> "none"]
        BY <1>8, <2>2 DEF Idles
      <3> HIDE DEF Moves, Typed, Heard, Quiet
      <3> QED
        BY <1>2, <1>5, <2>1, <3>1
    <2>3. CASE w # "reply"
      <3>1. UNCHANGED signals
        BY <1>8, <2>3 DEF Idles, signals
      <3> HIDE DEF Moves, Typed, Heard, Quiet
      <3> QED
        BY <1>2, <1>3, <1>4, <2>1, <2>3, <3>1
    <2> QED
      BY <2>2, <2>3
  <1>9. CASE TimeIsUp(w)
    <2>1. Moves("sweep") /\ "sweep" \in Place /\ Typed /\ UNCHANGED signals
      BY <1>6, <1>9 DEF TimeIsUp, Runnable, MovesTo, Place
    <2> HIDE DEF Moves, Typed, Heard, Quiet
    <2> QED
      BY <1>2, <1>3, <1>4, <2>1
  <1>10. ASSUME w = "event", NEW m \in Message, TakeEvent(m)
         PROVE  Loops'
    <2>1. Moves("commit") /\ "commit" \in Place /\ Typed /\ UNCHANGED signals
      BY <1>6, <1>10 DEF TakeEvent, Sweeping, Runnable, MovesTo, Place
    <2> HIDE DEF Moves, Typed, Heard, Quiet
    <2> QED
      BY <1>2, <1>3, <1>4, <2>1
  <1>11. CASE w = "event" /\ CommitEvent
    <2>1. Moves("signal") /\ "signal" \in Place /\ Typed /\ Committed(item)
      BY <1>6, <1>11 DEF CommitEvent, Runnable, MovesTo, Place
    <2>2. Quiet
      <3> HIDE DEF Moves, Typed, Heard, Quiet
      <3> QED
        BY <1>3, <1>11, <2>1
    <2>3. Heard
      BY <2>1, <2>2, CommitKeepsAwake
    <2> HIDE DEF Moves, Typed, Heard, Quiet
    <2> QED
      BY <1>2, <2>1, <2>3
  <1>12. CASE w = "event" /\ SignalEvent
    <2>1. Moves("complete") /\ "complete" \in Place /\ Typed /\ Signalled({item})
      BY <1>6, <1>12 DEF SignalEvent, Runnable, MovesTo, Place
    <2>2. Quiet
      <3> HIDE DEF Moves, Typed, Heard, Quiet
      <3> QED
        BY <1>3, <1>12, <2>1
    <2>3. Heard
      BY <2>1, <2>2, SignalWakes
    <2> HIDE DEF Moves, Typed, Heard, Quiet
    <2> QED
      BY <1>2, <2>1, <2>3
  <1>13. ASSUME w = "event", NEW status, EndEvent(status)
         PROVE  Loops'
    <2>1. Moves("sleep") /\ "sleep" \in Place /\ Typed /\ UNCHANGED signals
      BY <1>6, <1>13 DEF EndEvent, Runnable, MovesTo, Place
    <2> HIDE DEF Moves, Typed, Heard, Quiet
    <2> QED
      BY <1>2, <1>3, <1>4, <1>13, <2>1
  <1>14. CASE w = "recurring" /\ SignalReminders
    <2>1. Moves("sleep") /\ "sleep" \in Place /\ Typed /\ Signalled(Reminder)
      BY <1>6, <1>14 DEF SignalReminders, Runnable, MovesTo, Place
    <2>2. Quiet
      <3> HIDE DEF Moves, Typed, Heard, Quiet
      <3> QED
        BY <1>3, <1>14, <2>1
    <2>3. Heard
      BY <2>1, <2>2, SignalWakes
    <2> HIDE DEF Moves, Typed, Heard, Quiet
    <2> QED
      BY <1>2, <2>1, <2>3
  <1>15. ASSUME w = "recurring", NEW r \in Reminder, CommitReminder(r)
         PROVE  Loops'
    <2>1. Moves("signal") /\ "signal" \in Place /\ Typed /\ Committed(r)
      BY <1>6, <1>15 DEF CommitReminder, Sweeping, Runnable, MovesTo, Place
    <2>2. Quiet
      <3> HIDE DEF Moves, Typed, Heard, Quiet
      <3> QED
        BY <1>3, <1>15, <2>1
    <2>3. Heard
      BY <2>1, <2>2, CommitKeepsAwake
    <2> HIDE DEF Moves, Typed, Heard, Quiet
    <2> QED
      BY <1>2, <2>1, <2>3
  <1>16. CASE w = "reply" /\ TakeReplies
    <2>1. Moves("deliver") /\ "deliver" \in Place /\ Typed
          /\ UNCHANGED wake /\ news' = [s \in Source |-> "none"]
      BY <1>6, <1>16 DEF TakeReplies, Sweeping, Runnable, MovesTo, Place
    <2> HIDE DEF Moves, Typed, Heard, Quiet
    <2> QED
      BY <1>2, <1>5, <2>1
  <1>17. CASE w = "reply" /\ SendReplies
    <2>1. Moves("sleep") /\ "sleep" \in Place /\ Typed /\ UNCHANGED signals
          /\ at["reply"] = "deliver"
      BY <1>6, <1>17 DEF SendReplies, Runnable, MovesTo, Place
    <2> HIDE DEF Moves, Typed, Heard, Quiet
    <2> QED
      BY <1>2, <1>3, <1>4, <2>1
  <1>18. CASE w = "reply" /\ SleepIsOver
    <2>1. Moves("resume") /\ "resume" \in Place /\ Typed /\ UNCHANGED signals
      BY <1>6, <1>18 DEF SleepIsOver, Runnable, MovesTo, Place
    <2> HIDE DEF Moves, Typed, Heard, Quiet
    <2> QED
      BY <1>2, <1>3, <1>4, <2>1
  <1>19. CASE w = "reply" /\ Clear
    <2>1. Moves("sweep") /\ "sweep" \in Place /\ Typed
          /\ wake' = FALSE /\ news' = news
      BY <1>6, <1>19 DEF Clear, Runnable, MovesTo, Place
    <2>2. Heard
      BY <1>6, <1>19, <2>1 DEF Loops, LoopsType, Awake, Worker
    <2> HIDE DEF Moves, Typed, Heard, Quiet
    <2> QED
      BY <1>2, <2>1, <2>2
  <1>20. CASE w = "reply" /\ Swallow
    <2>1. Moves("sweep") /\ "sweep" \in Place /\ Typed
          /\ wake' = FALSE /\ news' = news
      BY <1>6, <1>20 DEF Swallow, Runnable, MovesTo, Place
    <2>2. Heard
      BY <1>6, <1>20, <2>1 DEF Loops, LoopsType, Awake, Worker
    <2> HIDE DEF Moves, Typed, Heard, Quiet
    <2> QED
      BY <1>2, <2>1, <2>2
  <1> QED
    BY <1>7, <1>8, <1>9, <1>10, <1>11, <1>12, <1>13, <1>14, <1>15, <1>16, <1>17, <1>18, <1>19, <1>20 DEF LoopStep

(* A loop never takes a row away.                                          *)
LEMMA LoopKeepsRows ==
    ASSUME Rows, NEW w \in Worker, LoopStep(w)
    PROVE  Rows'
  <1> USE DEF LoopOnly, receiver, life, MovesTo
  <1>1. UNCHANGED <<enabled, ran, task>>
    BY DEF LoopStep, Ends, Idles, TimeIsUp, TakeEvent, CommitEvent, SignalEvent, EndEvent,
           SignalReminders, CommitReminder, TakeReplies, SendReplies, SleepIsOver, Clear, Swallow
  <1>2. \/ row' = row
        \/ \E m : \E status \in {"processing", "succeeded", "received"} :
              row' = [row EXCEPT ![m] = status]
    <2>1. CASE \E m \in Message : TakeEvent(m)
      BY <2>1 DEF TakeEvent
    <2>2. ASSUME NEW status \in {"succeeded", "received"}, EndEvent(status)
          PROVE  \E m : row' = [row EXCEPT ![m] = status]
      BY <2>2 DEF EndEvent
    <2> QED
      BY <2>1, <2>2
      DEF LoopStep, Ends, Idles, TimeIsUp, CommitEvent, SignalEvent,
          SignalReminders, CommitReminder, TakeReplies, SendReplies, SleepIsOver, Clear, Swallow
  <1>3. /\ row' \in [Message -> {"absent", "received", "processing", "succeeded", "failed"}]
        /\ \A m \in Message : row'[m] = "absent" => row[m] = "absent"
    BY <1>2 DEF Rows
  <1>4. \A d \in Delivery : Runner(d)' => Runner(d)
    BY <1>1 DEF Runner
  <1> QED
    BY <1>1, <1>3, <1>4, RowsStay

-----------------------------------------------------------------------------
(* Processing tasks                                                        *)

(* A task goes on, or its delivery is done with.                           *)
LEMMA TaskGoesOn ==
    ASSUME Receiver, NEW d \in Delivery, task[d] # "none",
           NEW next \in {"none", "mark", "process", "signal", "finish"}, Goes(d, next)
    PROVE  Receiver' /\ stage' = stage
  <1> USE DEF Goes, life
  <1>1. /\ UNCHANGED <<stage, thread, stopRequested, overrun, ready, queue, consumer,
                       acked, excused>>
        /\ task' = [task EXCEPT ![d] = next]
        /\ handed' = IF next = "none" THEN handed \cup {d} ELSE handed
    OBVIOUS
  <1>2. OnItsWay(d) /\ d \in acked
    BY DEF Receiver, Tracked, OnItsWay
  <1>3. /\ task' \in [Delivery -> {"none", "claim", "mark", "process", "signal", "finish"}]
        /\ task'[d] = next /\ \A c \in Delivery : c # d => task'[c] = task[c]
    BY <1>1 DEF Receiver, ReceiverType
  <1>4. ReceiverType'
    BY <1>1, <1>2, <1>3 DEF Receiver, ReceiverType, KindOf
  <1>5. \A c \in Delivery : c # d => OnItsWay(c)' = OnItsWay(c)
    BY <1>1, <1>3 DEF OnItsWay, KindOf
  <1>6. next # "none" => OnItsWay(d)'
    BY <1>3 DEF OnItsWay
  <1>7. Tracked'
    <2>1. \A c \in Delivery : OnItsWay(c)' => c \in acked'
      BY <1>1, <1>2, <1>5 DEF Receiver, Tracked
    <2>2. ASSUME ~overrun', NEW c \in acked'
          PROVE  c \in handed' \cup excused' \/ OnItsWay(c)'
      <3>1. c \in acked /\ c \in Delivery /\ ~overrun
        BY <1>1, <2>2 DEF Receiver, ReceiverType
      <3>2. c \in handed \cup excused \/ OnItsWay(c)
        BY <3>1 DEF Receiver, Tracked
      <3> QED
        BY <1>1, <1>5, <1>6, <3>1, <3>2
    <2> QED
      BY <2>1, <2>2 DEF Tracked
  <1>8. Scheduled' /\ Cancelled' /\ HandedOver'
    BY <1>1 DEF Receiver, Scheduled, Cancelled, HandedOver
  <1>9. TasksDone' /\ Down'
    BY <1>1 DEF Receiver, TasksDone, Down, NoTask
  <1> QED
    BY <1>1, <1>4, <1>7, <1>8, <1>9 DEF Receiver

(* A runner of an event is the only one, and runs it for the first time.   *)
LEMMA TaskRows ==
    ASSUME Rows, NEW d \in Delivery, TaskStep(d),
           task \in [Delivery -> {"none", "claim", "mark", "process", "signal", "finish"}]
    PROVE  Rows'
  <1> DEFINE m == EventOf[d]
  <1> USE DEF Goes, life
  <1>1. enabled' = enabled
    BY DEF TaskStep, Claim, RowFails, MarkProcessing, ProcessNow, ProcessFails, SignalNow,
           MarkSucceeded
  <1>2. ASSUME NEW next, task' = [task EXCEPT ![d] = next]
        PROVE  /\ task'[d] = next
               /\ \A c \in Delivery : c # d => task'[c] = task[c] /\ Runner(c)' = Runner(c)
               /\ Runner(d)' <=> next \in {"mark", "process"}
    BY <1>2 DEF Runner
  <1>3. /\ row \in [Message -> {"absent", "received", "processing", "succeeded", "failed"}]
        /\ ran \in [Message -> Nat]
    BY DEF Rows
  <1>4. CASE Claim(d)
    <2> DEFINE next == IF New(m) /\ "event" \notin enabled THEN "mark" ELSE "none"
    <2>1. task' = [task EXCEPT ![d] = next] /\ ran' = ran
          /\ row' = IF New(m) THEN [row EXCEPT ![m] = "received"] ELSE row
      BY <1>4 DEF Claim
    <2>2. /\ row' \in [Message -> {"absent", "received", "processing", "succeeded", "failed"}]
          /\ \A n \in Message : row'[n] = "absent" => row[n] = "absent"
          /\ m \in Message /\ New(m) => row[m] = "absent" /\ row'[m] = "received"
      BY <1>3, <2>1 DEF New
    <2>3. CASE "event" \notin enabled /\ m \in Message /\ New(m)
      <3>1. \A c \in Delivery : EventOf[c] = m => ~Runner(c)
        BY <2>2, <2>3 DEF Rows, OneRunner
      <3>2. ran[m] = 0
        BY <2>2, <2>3 DEF Rows, OneRunner
      <3>3. \A c \in Delivery : c # d => Runner(c)' = Runner(c)
        BY <1>2, <2>1
      <3>4. OneRunner'
        <4>1. ASSUME NEW b \in Delivery, NEW c \in Delivery, Runner(b)', Runner(c)',
                     EventOf[b] = EventOf[c], EventOf[c] \in Message
              PROVE  b = c
          BY <2>3, <3>1, <3>3, <4>1 DEF Rows, OneRunner
        <4>2. ASSUME NEW c \in Delivery, Runner(c)', EventOf[c] \in Message
              PROVE  row'[EventOf[c]] # "absent" /\ ran'[EventOf[c]] = 0
          BY <2>1, <2>2, <2>3, <3>2, <3>3, <4>2 DEF Rows, OneRunner
        <4> QED
          BY <2>1, <2>2, <2>3, <4>1, <4>2 DEF Rows, OneRunner
      <3> QED
        BY <1>1, <2>1, <2>2, <3>4 DEF Rows, SyncRunsOnce
    <2>4. CASE "event" \in enabled
      BY <1>1, <2>1, <2>2, <2>4 DEF Rows, OneRunner, SyncRunsOnce
    <2>5. CASE m \notin Message \/ ~New(m)
      <3>1. \A c \in Delivery : EventOf[c] \in Message /\ Runner(c)' => Runner(c)
        BY <1>2, <2>1, <2>5
      <3> QED
        BY <1>1, <2>1, <2>2, <3>1, RowsStay
    <2> QED
      BY <2>3, <2>4, <2>5
  <1>5. CASE RowFails(d)
    <2>1. task' = [task EXCEPT ![d] = "none"] /\ row' = row /\ ran' = ran
      BY <1>5 DEF RowFails, tables
    <2>2. \A c \in Delivery : Runner(c)' => Runner(c)
      BY <1>2, <2>1
    <2> QED
      BY <1>1, <1>3, <2>1, <2>2, RowsStay
  <1>6. CASE MarkProcessing(d)
    <2>1. task' = [task EXCEPT ![d] = "process"] /\ ran' = ran /\ Runner(d)
          /\ row' = [row EXCEPT ![m] = "processing"]
      BY <1>6 DEF MarkProcessing, Runner
    <2>2. \A c \in Delivery : Runner(c)' => Runner(c)
      BY <1>2, <2>1
    <2>3. /\ row' \in [Message -> {"absent", "received", "processing", "succeeded", "failed"}]
          /\ \A n \in Message : row'[n] = "absent" => row[n] = "absent"
      BY <1>3, <2>1
    <2> QED
      BY <1>1, <2>1, <2>2, <2>3, RowsStay
  <1>7. CASE SignalNow(d) \/ MarkSucceeded(d)
    <2>1. PICK next \in {"none", "finish"} : task' = [task EXCEPT ![d] = next]
      BY <1>7 DEF SignalNow, MarkSucceeded
    <2>2. \A c \in Delivery : Runner(c)' => Runner(c)
      BY <1>2, <2>1
    <2>3. /\ ran' = ran
          /\ row' \in [Message -> {"absent", "received", "processing", "succeeded", "failed"}]
          /\ \A n \in Message : row'[n] = "absent" => row[n] = "absent"
      BY <1>3, <1>7 DEF SignalNow, MarkSucceeded, tables
    <2> QED
      BY <1>1, <2>2, <2>3, RowsStay
  <1>8. CASE ProcessNow(d) \/ ProcessFails(d)
    <2>1. PICK next \in {"none", "signal"} : task' = [task EXCEPT ![d] = next]
      BY <1>8 DEF ProcessNow, ProcessFails
    <2>2. /\ ran' = IF m \in Message THEN [ran EXCEPT ![m] = @ + 1] ELSE ran
          /\ task[d] = "process" /\ Runner(d)
      BY <1>8 DEF ProcessNow, ProcessFails, Runs, Runner
    <2>3. /\ row' \in [Message -> {"absent", "received", "processing", "succeeded", "failed"}]
          /\ \A n \in Message : row'[n] = "absent" => row[n] = "absent"
      <3>1. row' \in {row, [row EXCEPT ![m] = "failed"]}
        BY <1>8 DEF ProcessNow, ProcessFails
      <3> QED
        BY <1>3, <3>1
    <2>4. /\ ran' \in [Message -> Nat]
          /\ \A n \in Message : n # m => ran'[n] = ran[n]
          /\ m \in Message => ran'[m] = ran[m] + 1
      BY <1>3, <2>2
    <2>5. \A c \in Delivery : Runner(c)' => c # d /\ Runner(c)
      BY <1>2, <2>1
    <2>6. CASE "event" \notin enabled /\ m \in Message
      <3>1. ran[m] = 0 /\ row[m] # "absent" /\ \A c \in Delivery : EventOf[c] = m /\ Runner(c) => c = d
        BY <2>2, <2>6 DEF Rows, OneRunner
      <3>2. \A c \in Delivery : EventOf[c] \in Message /\ Runner(c)' => EventOf[c] # m /\ Runner(c)
        BY <2>5, <3>1
      <3>3. OneRunner'
        <4>1. ASSUME NEW b \in Delivery, NEW c \in Delivery, Runner(b)', Runner(c)',
                     EventOf[b] = EventOf[c], EventOf[c] \in Message
              PROVE  b = c
          BY <2>5, <2>6, <4>1 DEF Rows, OneRunner
        <4>2. ASSUME NEW c \in Delivery, Runner(c)', EventOf[c] \in Message
              PROVE  row'[EventOf[c]] # "absent" /\ ran'[EventOf[c]] = 0
          BY <2>3, <2>4, <2>6, <3>2, <4>2 DEF Rows, OneRunner
        <4>3. \A n \in Message : row'[n] = "absent" => ran'[n] = 0
          BY <2>3, <2>4, <2>6, <3>1 DEF Rows, OneRunner
        <4> QED
          BY <4>1, <4>2, <4>3 DEF OneRunner
      <3>4. SyncRunsOnce'
        BY <1>1, <1>3, <2>4, <2>6, <3>1 DEF Rows, SyncRunsOnce
      <3> QED
        BY <1>1, <2>3, <2>4, <3>3, <3>4 DEF Rows
    <2>7. CASE "event" \in enabled
      BY <1>1, <2>3, <2>4, <2>7 DEF Rows, OneRunner, SyncRunsOnce
    <2>8. CASE m \notin Message
      <3>1. ran' = ran
        BY <2>2, <2>8
      <3> QED
        BY <1>1, <2>3, <2>5, <3>1, RowsStay
    <2> QED
      BY <2>6, <2>7, <2>8
  <1> QED
    BY <1>4, <1>5, <1>6, <1>7, <1>8 DEF TaskStep

(* One step of a task.                                                     *)
LEMMA TaskNext ==
    ASSUME Receiver, Loops, Rows, NEW d \in Delivery, TaskStep(d)
    PROVE  Receiver' /\ Loops' /\ Rows' /\ UNCHANGED <<crashes, starts>>
  <1>1. PICK next \in {"none", "mark", "process", "signal", "finish"} : Goes(d, next)
    BY DEF TaskStep, Claim, RowFails, MarkProcessing, ProcessNow, ProcessFails, SignalNow,
           MarkSucceeded
  <1>2. task[d] # "none"
    BY DEF TaskStep, Claim, RowFails, MarkProcessing, ProcessNow, ProcessFails, SignalNow,
           MarkSucceeded
  <1>3. Receiver' /\ stage' = stage
    BY <1>1, <1>2, TaskGoesOn
  <1>4. Rows'
    BY TaskRows DEF Receiver, ReceiverType
  <1>5. UNCHANGED <<at, item, stop, cancelled, crashes, starts>>
    BY <1>1 DEF Goes, loops, life
  <1>6. Awake' /\ wake' \in BOOLEAN /\ news' \in [Source -> {"none", "committed", "signalled"}]
    <2>1. CASE UNCHANGED signals
      BY <1>5, <2>1 DEF signals, Loops, LoopsType, Awake
    <2>2. CASE Committed(EventOf[d])
      BY <1>5, <2>2, CommitKeepsAwake
    <2>3. CASE Signalled({EventOf[d]})
      BY <1>5, <2>3, SignalWakes
    <2> QED
      BY <2>1, <2>2, <2>3 DEF TaskStep, Claim, RowFails, MarkProcessing, ProcessNow,
         ProcessFails, SignalNow, MarkSucceeded
  <1>7. Loops'
    BY <1>3, <1>5, <1>6 DEF Loops, LoopsType, LoopsDone, Over
  <1> QED
    BY <1>3, <1>4, <1>5, <1>7

-----------------------------------------------------------------------------
(* The thread                                                              *)

(* The thread comes and goes.                                              *)
LEMMA ThreadMoves ==
    ASSUME Receiver, Connect \/ Leave \/ ThreadFails
    PROVE  Receiver'
  <1> USE DEF ThreadOnly, life
  <1>1. UNCHANGED <<stage, stopRequested, overrun, ready, queue, consumer, task,
                    acked, handed, excused>>
    BY DEF Connect, Leave, ThreadFails
  <1>2. /\ thread \notin {"none", "failed", "ended"}
        /\ thread' \in {"connected", "leaving", "failed", "ended"}
    BY DEF Connect, Leave, ThreadFails
  <1>3. ReceiverType' /\ Tracked' /\ Scheduled' /\ Cancelled' /\ TasksDone'
    BY <1>1, <1>2 DEF Receiver, ReceiverType, Tracked, OnItsWay, Scheduled, Cancelled, TasksDone,
                      KindOf
  <1>4. HandedOver' /\ Down'
    BY <1>1, <1>2 DEF Receiver, HandedOver, Down
  <1> QED
    BY <1>3, <1>4 DEF Receiver

(* The thread hands an event over.                                         *)
LEMMA DeliverReceiver ==
    ASSUME Receiver, NEW d \in Delivery, Deliver(d)
    PROVE  Receiver'
  <1> USE DEF ThreadOnly, life
  <1>1. /\ UNCHANGED <<stage, thread, stopRequested, overrun, queue, consumer, task,
                       handed, excused>>
        /\ thread \in {"connected", "leaving"} /\ d \notin acked
        /\ acked' = acked \cup {d} /\ ready' = Append(ready, Enqueueing(d))
    BY DEF Deliver
  <1>2. ready \in Seq(Callback) /\ Enqueueing(d) \in Callback /\ Enqueueing(d).do = "enqueue"
    BY Callbacks DEF Receiver, ReceiverType
  <1>3. ready' \in Seq(Callback) /\ \A x : Has(ready', x) <=> Has(ready, x) \/ x = Enqueueing(d)
    BY <1>1, <1>2, AppendHas
  <1>4. stage # "down" /\ (~overrun => stage \in {"starting", "up", "join"})
    BY <1>1 DEF Receiver, ReceiverType, Stage, Late, Down, HandedOver
  <1>5. ReceiverType' /\ TasksDone'
    BY <1>1, <1>3 DEF Receiver, ReceiverType, TasksDone, KindOf
  <1>6. Tracked'
    <2>1. \A c \in Delivery : OnItsWay(c)' <=> OnItsWay(c) \/ c = d
      BY <1>1, <1>3, Callbacks DEF OnItsWay, KindOf
    <2> QED
      BY <1>1, <2>1 DEF Receiver, ReceiverType, Tracked
  <1>7. Scheduled'
    <2>1. \A x : Has(ready, x) => ~SameSort(x, Enqueueing(d))
      BY <1>2 DEF SameSort
    <2>2. Once(ready')
      BY <1>1, <1>2, <2>1, AppendOnce DEF Receiver, Scheduled
    <2>3. \A x : x.do # "enqueue" => (Has(ready', x) <=> Has(ready, x))
      BY <1>2, <1>3
    <2>4. /\ \A k \in Kind : Has(ready', Consuming(k)) <=> Has(ready, Consuming(k))
          /\ (Has(ready', Joined) => Has(ready, Joined)) /\ (Has(ready', GoOn) => Has(ready, GoOn))
      BY <2>3, Callbacks
    <2> QED
      BY <1>1, <2>2, <2>4 DEF Receiver, Scheduled
  <1>8. Cancelled' /\ HandedOver' /\ Down'
    BY <1>1, <1>4 DEF Receiver, Cancelled, HandedOver, Down, Late, Worker
  <1> QED
    BY <1>5, <1>6, <1>7, <1>8 DEF Receiver

-----------------------------------------------------------------------------
(* The callbacks of the event loop                                         *)

(* The first callback is that of an event.                                 *)
LEMMA EnqueueReceiver ==
    ASSUME Receiver, ready # <<>>, NEW d \in Delivery, Head(ready) = Enqueueing(d), Enqueue(d),
           UNCHANGED <<thread, stopRequested, overrun, history>>
    PROVE  Receiver'
  <1> DEFINE k == KindOf(d)
             rest == Tail(ready)
             wakes == QueueOpen /\ consumer[k] = "waiting"
  <1>1. /\ queue' = IF QueueOpen THEN [queue EXCEPT ![k] = Append(@, d)] ELSE queue
        /\ consumer' = IF wakes THEN [consumer EXCEPT ![k] = "woken"] ELSE consumer
        /\ ready' = IF wakes THEN Append(rest, Consuming(k)) ELSE rest
        /\ UNCHANGED <<task, stage, thread, stopRequested, overrun, acked, handed, excused>>
    BY DEF Enqueue, history
  <1>2. /\ k \in Kind /\ ready \in Seq(Callback) /\ queue \in [Kind -> Seq(Delivery)]
        /\ consumer \in [Kind -> {"none", "waiting", "woken", "cancelled", "gone"}]
    BY KindType DEF Receiver, ReceiverType
  <1> HIDE DEF k, rest
  <1>3. /\ rest \in Seq(Callback)
        /\ \A x : Has(ready, x) <=> x = Enqueueing(d) \/ Has(rest, x)
    BY <1>2, TailHas DEF rest
  <1>4. ready' \in Seq(Callback)
        /\ \A x : Has(ready', x) <=> Has(rest, x) \/ (wakes /\ x = Consuming(k))
    <2>1. Consuming(k) \in Callback
      BY <1>2, Callbacks
    <2> QED
      BY <1>1, <1>3, <2>1, AppendHas
  <1>5. 1 \in DOMAIN ready /\ ready[1] = Enqueueing(d) /\ ready[1].do = "enqueue"
    BY <1>2, Callbacks
  <1>6. stage # "down" /\ (~overrun => stage \in Early)
    BY <1>5 DEF Receiver, ReceiverType, Stage, HandedOver, Late, Early, Down
  <1>7. /\ queue' \in [Kind -> Seq(Delivery)] /\ \A j \in Kind : j # k => queue'[j] = queue[j]
        /\ QueueOpen => queue'[k] = Append(queue[k], d)
        /\ ~QueueOpen => queue'[k] = queue[k]
    BY <1>1, <1>2
  <1>8. /\ consumer' \in [Kind -> {"none", "waiting", "woken", "cancelled", "gone"}]
        /\ \A j \in Kind : j # k => consumer'[j] = consumer[j]
        /\ consumer'[k] = IF wakes THEN "woken" ELSE consumer[k]
    BY <1>1, <1>2
  <1>9. \A c \in Delivery : Has(queue'[k], c) <=> Has(queue[k], c) \/ (QueueOpen /\ c = d)
    <2>1. CASE QueueOpen
      <3>1. queue[k] \in Seq(Delivery) /\ queue'[k] = Append(queue[k], d)
        BY <1>2, <1>7, <2>1
      <3> QED
        BY <2>1, <3>1, AppendHas
    <2>2. CASE ~QueueOpen
      BY <1>7, <2>2
    <2> QED
      BY <2>1, <2>2
  <1>10. ReceiverType'
    <2>1. \A j \in Kind : \A i \in DOMAIN queue'[j] : KindOf(queue'[j][i]) = j
      <3>1. \A i \in DOMAIN queue'[k] : KindOf(queue'[k][i]) = k
        <4>1. CASE QueueOpen
          <5>1. queue[k] \in Seq(Delivery) /\ queue'[k] = Append(queue[k], d)
            BY <1>2, <1>7, <4>1
          <5>2. \A i \in DOMAIN queue'[k] : \/ i \in DOMAIN queue[k] /\ queue'[k][i] = queue[k][i]
                                            \/ queue'[k][i] = d
            BY <5>1, AppendHas
          <5> QED
            BY <1>2, <5>2 DEF Receiver, ReceiverType, k
        <4>2. CASE ~QueueOpen
          BY <1>2, <1>7, <4>2 DEF Receiver, ReceiverType
        <4> QED
          BY <4>1, <4>2
      <3> QED
        BY <1>7, <3>1 DEF Receiver, ReceiverType
    <2> QED
      BY <1>1, <1>4, <1>7, <1>8, <2>1 DEF Receiver, ReceiverType, KindOf
  <1>11. Tracked'
    <2>1. \A c \in Delivery : Has(ready', Enqueueing(c)) <=> Has(rest, Enqueueing(c))
      BY <1>2, <1>4, Callbacks
    <2>2. \A c \in Delivery : Has(queue'[KindOf(c)], c) <=> Has(queue[KindOf(c)], c)
                                                             \/ (QueueOpen /\ c = d)
      BY <1>7, <1>9, KindType DEF k
    <2>3. \A c \in Delivery : c # d => (OnItsWay(c)' <=> OnItsWay(c))
      BY <1>1, <1>3, <2>1, <2>2, Callbacks DEF OnItsWay, KindOf
    <2>4. QueueOpen => OnItsWay(d)'
      BY <1>1, <2>2 DEF OnItsWay, KindOf
    <2>5. OnItsWay(d)
      BY <1>3 DEF OnItsWay
    <2>6. ~overrun => QueueOpen
      BY <1>6 DEF Early, QueueOpen
    <2> QED
      BY <1>1, <2>3, <2>4, <2>5, <2>6 DEF Receiver, ReceiverType, Tracked
  <1>12. Scheduled'
    <2>1. Once(rest)
      BY <1>2, TailOnce DEF Receiver, Scheduled, rest
    <2>2. wakes => ~Has(rest, Consuming(k))
      BY <1>2, <1>3 DEF Receiver, Scheduled
    <2>3. Once(ready')
      <3>1. CASE wakes
        <4>1. Consuming(k) \in Callback /\ Consuming(k).do = "consume"
          BY <1>2, Callbacks
        <4>2. \A x : Has(rest, x) => ~SameSort(x, Consuming(k))
          BY <2>2, <3>1, <4>1 DEF SameSort
        <4> QED
          BY <1>1, <1>3, <2>1, <3>1, <4>1, <4>2, AppendOnce
      <3> QED
        BY <1>1, <2>1, <3>1
    <2>4. \A j \in Kind : Has(ready', Consuming(j)) <=> Has(ready, Consuming(j)) \/ (wakes /\ j = k)
      BY <1>2, <1>3, <1>4, Callbacks
    <2>5. \A j \in Kind : consumer'[j] \in {"woken", "cancelled"} <=> Has(ready', Consuming(j))
      BY <1>2, <1>8, <2>4 DEF Receiver, Scheduled
    <2>6. Has(ready', Joined) \/ Has(ready', GoOn) => stage' = "joined"
      BY <1>1, <1>2, <1>3, <1>4, Callbacks DEF Receiver, Scheduled
    <2>7. \A j \in Kind : consumer'[j] = "waiting" => queue'[j] = <<>>
      BY <1>2, <1>7, <1>8 DEF Receiver, Scheduled
    <2> QED
      BY <2>3, <2>5, <2>6, <2>7 DEF Scheduled
  <1>13. Cancelled'
    BY <1>1, <1>8 DEF Receiver, Cancelled, Kind, Listening, Stopping
  <1>14. HandedOver'
    <2>1. ~overrun /\ stage = "joined" => InOrder(ready')
      <3>1. SUFFICES ASSUME ~overrun, stage = "joined"
                     PROVE  InOrder(ready')
        OBVIOUS
      <3>2. InOrder(ready) /\ \A i \in DOMAIN ready : ready[i].do # "goOn"
        BY <1>5, <3>1 DEF Receiver, HandedOver, InOrder
      <3>3. InOrder(rest)
        BY <1>2, <3>2, TailInOrder DEF rest
      <3>4. \A i \in DOMAIN rest : rest[i].do # "goOn"
        BY <1>2, <3>2, TailHas DEF rest
      <3>5. Consuming(k) \in Callback /\ Consuming(k).do = "consume"
        BY <1>2, Callbacks
      <3> QED
        BY <1>1, <1>3, <3>3, <3>4, <3>5, AppendInOrder
    <2> QED
      BY <1>1, <1>6, <2>1 DEF Receiver, HandedOver, Early, Late, Worker
  <1>15. TasksDone' /\ Down'
    BY <1>1, <1>6 DEF Receiver, TasksDone, Down
  <1> QED
    BY <1>10, <1>11, <1>12, <1>13, <1>14, <1>15 DEF Receiver

(* The first callback is that of a consumer.                               *)
LEMMA ConsumeReceiver ==
    ASSUME Receiver, ready # <<>>, NEW k \in Kind, Head(ready) = Consuming(k), Consume(k),
           UNCHANGED <<thread, stopRequested, overrun, history>>
    PROVE  Receiver'
  <1> DEFINE rest == Tail(ready)
  <1>1. ready' = rest /\ UNCHANGED <<stage, thread, stopRequested, overrun, acked, handed, excused>>
    BY DEF Consume, history
  <1>2. /\ ready \in Seq(Callback) /\ queue \in [Kind -> Seq(Delivery)]
        /\ consumer \in [Kind -> {"none", "waiting", "woken", "cancelled", "gone"}]
        /\ task \in [Delivery -> {"none", "claim", "mark", "process", "signal", "finish"}]
    BY DEF Receiver, ReceiverType
  <1>3. /\ rest \in Seq(Callback)
        /\ \A x : Has(ready, x) <=> x = Consuming(k) \/ Has(rest, x)
        /\ Once(rest) /\ \A x : Has(rest, x) => ~SameSort(x, Consuming(k))
    BY <1>2, TailHas, TailOnce DEF Receiver, Scheduled
  <1>4. 1 \in DOMAIN ready /\ ready[1] = Consuming(k)
    BY <1>2
  <1>5. ~Has(rest, Consuming(k))
    BY <1>3, Callbacks DEF SameSort
  <1>6. /\ \A j \in Kind : j # k => (Has(rest, Consuming(j)) <=> Has(ready, Consuming(j)))
        /\ \A d \in Delivery : Has(rest, Enqueueing(d)) <=> Has(ready, Enqueueing(d))
        /\ Has(rest, Joined) => Has(ready, Joined)
        /\ Has(rest, GoOn) => Has(ready, GoOn)
    BY <1>3, Callbacks
  <1>7. consumer[k] \in {"woken", "cancelled"}
    BY <1>3 DEF Receiver, Scheduled
  <1>8. stage # "down" /\ ~(stage \in Late)
    BY <1>4, <1>7 DEF Receiver, Cancelled, Down
  <1>9. TasksDone' /\ Down'
    BY <1>1, <1>8 DEF TasksDone, Down, Late
  <1>10. ~overrun /\ stage = "joined" => InOrder(rest)
    BY <1>2, TailInOrder DEF Receiver, HandedOver
  <1>11. \A i \in DOMAIN rest : \E j \in DOMAIN ready : rest[i] = ready[j]
    BY <1>2, TailHas
  <1>12. CASE consumer[k] = "cancelled"
    <2>1. consumer' = [consumer EXCEPT ![k] = "gone"] /\ UNCHANGED <<queue, task>>
      BY <1>12 DEF Consume
    <2>2. consumer' \in [Kind -> {"none", "waiting", "woken", "cancelled", "gone"}]
          /\ consumer'[k] = "gone" /\ \A j \in Kind : j # k => consumer'[j] = consumer[j]
      BY <1>2, <2>1
    <2>3. ReceiverType'
      BY <1>1, <1>3, <2>1, <2>2 DEF Receiver, ReceiverType, KindOf
    <2>4. Tracked'
      BY <1>1, <1>6, <2>1 DEF Receiver, ReceiverType, Tracked, OnItsWay, KindOf
    <2>5. Scheduled'
      BY <1>1, <1>3, <1>5, <1>6, <2>1, <2>2 DEF Receiver, Scheduled
    <2>6. Cancelled'
      BY <1>1, <1>12, <2>2 DEF Receiver, Cancelled, Kind, Listening, Stopping
    <2>7. HandedOver'
      BY <1>1, <1>10, <1>11, <2>1 DEF Receiver, HandedOver
    <2> QED
      BY <1>9, <2>3, <2>4, <2>5, <2>6, <2>7 DEF Receiver
  <1>13. CASE consumer[k] = "woken"
    <2>1. /\ consumer' = [consumer EXCEPT ![k] = "waiting"]
          /\ task' = [d \in Delivery |-> IF Has(queue[k], d) THEN Started(d) ELSE task[d]]
          /\ queue' = [queue EXCEPT ![k] = <<>>]
      BY <1>13 DEF Consume
    <2>2. consumer' \in [Kind -> {"none", "waiting", "woken", "cancelled", "gone"}]
          /\ consumer'[k] = "waiting" /\ \A j \in Kind : j # k => consumer'[j] = consumer[j]
      BY <1>2, <2>1
    <2>3. queue' \in [Kind -> Seq(Delivery)] /\ queue'[k] = <<>>
          /\ \A j \in Kind : j # k => queue'[j] = queue[j]
      BY <1>2, <2>1
    <2>4. \A d \in Delivery : Started(d) \in {"claim", "process"}
      BY DEF Started
    <2>5. task' \in [Delivery -> {"none", "claim", "mark", "process", "signal", "finish"}]
      BY <1>2, <2>1, <2>4
    <2>6. ReceiverType'
      BY <1>1, <1>3, <2>2, <2>3, <2>5 DEF Receiver, ReceiverType, KindOf
    <2>7. Tracked'
      <3>1. \A d \in Delivery : Has(queue[k], d) => KindOf(d) = k
        BY DEF Receiver, ReceiverType, Has
      <3>2. \A d \in Delivery : Has(queue'[KindOf(d)], d) <=> KindOf(d) # k /\ Has(queue[KindOf(d)], d)
        BY <2>3, KindType, EmptyHas
      <3>3. \A d \in Delivery : task'[d] # "none" <=> Has(queue[k], d) \/ task[d] # "none"
        BY <2>1, <2>4
      <3>4. \A d \in Delivery : OnItsWay(d)' <=> OnItsWay(d)
        BY <1>1, <1>6, <3>1, <3>2, <3>3 DEF OnItsWay, KindOf
      <3> QED
        BY <1>1, <3>4 DEF Receiver, ReceiverType, Tracked
    <2>8. Scheduled'
      BY <1>1, <1>3, <1>5, <1>6, <2>2, <2>3 DEF Receiver, Scheduled
    <2>9. Cancelled'
      BY <1>1, <1>13, <2>2 DEF Receiver, Cancelled, Kind, Listening, Stopping
    <2>10. HandedOver'
      BY <1>1, <1>10, <1>11, <2>3 DEF Receiver, HandedOver
    <2> QED
      BY <1>9, <2>6, <2>7, <2>8, <2>9, <2>10 DEF Receiver
  <1> QED
    BY <1>7, <1>12, <1>13

(* The end of the join is reported.                                        *)
LEMMA JoinReportedReceiver ==
    ASSUME Receiver, ready # <<>>, Head(ready) = Joined, JoinReported,
           UNCHANGED <<thread, stopRequested, overrun, history>>
    PROVE  Receiver'
  <1> DEFINE rest == Tail(ready)
  <1>1. ready' = Append(rest, GoOn)
        /\ UNCHANGED <<stage, thread, stopRequested, overrun, queue, consumer, task,
                       acked, handed, excused>>
    BY DEF JoinReported, history
  <1>2. ready \in Seq(Callback) /\ 1 \in DOMAIN ready /\ ready[1] = Joined
        /\ GoOn \in Callback /\ GoOn.do = "goOn" /\ Joined.do = "joined"
    BY Callbacks DEF Receiver, ReceiverType
  <1>3. /\ rest \in Seq(Callback)
        /\ \A x : Has(ready, x) <=> x = Joined \/ Has(rest, x)
        /\ Once(rest) /\ \A x : Has(rest, x) => ~SameSort(x, Joined)
    BY <1>2, TailHas, TailOnce DEF Receiver, Scheduled
  <1> HIDE DEF rest
  <1>4. ready' \in Seq(Callback) /\ \A x : Has(ready', x) <=> Has(rest, x) \/ x = GoOn
    <2>1. rest \in Seq(Callback) /\ GoOn \in Callback /\ ready' = Append(rest, GoOn)
      BY <1>1, <1>2, <1>3
    <2> QED
      BY <2>1, AppendHas
  <1>5. stage = "joined"
    BY <1>3 DEF Receiver, Scheduled
  <1>6. Once(ready')
    <2>1. \A x : Has(rest, x) => ~SameSort(x, GoOn)
      BY <1>2, <1>3 DEF SameSort
    <2> QED
      BY <1>1, <1>2, <1>3, <2>1, AppendOnce
  <1>7. /\ \A j \in Kind : Has(ready', Consuming(j)) <=> Has(ready, Consuming(j))
        /\ \A d \in Delivery : Has(ready', Enqueueing(d)) <=> Has(ready, Enqueueing(d))
    BY <1>2, <1>3, <1>4, Callbacks
  <1>8. Scheduled'
    BY <1>1, <1>5, <1>6, <1>7 DEF Receiver, Scheduled
  <1>9. ~overrun => InOrder(ready')
    <2>1. SUFFICES ASSUME ~overrun
                   PROVE  InOrder(ready')
      OBVIOUS
    <2>2. InOrder(ready) /\ \A i \in DOMAIN ready : ready[i].do = "enqueue" => i < 1
      BY <1>2, <1>5, <2>1 DEF Receiver, HandedOver, InOrder
    <2>3. \A i \in DOMAIN rest : rest[i].do # "enqueue"
      BY <1>2, <2>2, TailHas DEF rest
    <2>4. InOrder(rest)
      BY <1>2, <2>2, TailInOrder DEF rest
    <2> QED
      BY <1>1, <1>2, <1>3, <2>2, <2>3, <2>4, AppendInOrder
  <1>10. ReceiverType' /\ Tracked'
    BY <1>1, <1>4, <1>7 DEF Receiver, ReceiverType, Tracked, OnItsWay, KindOf
  <1>11. Cancelled' /\ HandedOver' /\ TasksDone' /\ Down'
    BY <1>1, <1>5, <1>9 DEF Receiver, Cancelled, HandedOver, TasksDone, Down, Late, Worker
  <1> QED
    BY <1>8, <1>10, <1>11 DEF Receiver

(* A consumer is cancelled, which schedules it if it was not.              *)
LEMMA CancelSchedules ==
    ASSUME NEW rest \in Seq(Callback), NEW k \in Kind, Once(rest), Cancel(k, rest),
           consumer \in [Kind -> {"none", "waiting", "woken", "cancelled", "gone"}],
           consumer[k] \in Listening,
           \A j \in Kind : consumer[j] \in {"woken", "cancelled"} <=> Has(rest, Consuming(j))
    PROVE  /\ consumer' \in [Kind -> {"none", "waiting", "woken", "cancelled", "gone"}]
           /\ consumer'[k] = "cancelled" /\ \A j \in Kind : j # k => consumer'[j] = consumer[j]
           /\ ready' \in Seq(Callback) /\ Once(ready')
           /\ \A j \in Kind : consumer'[j] \in {"woken", "cancelled"} <=> Has(ready', Consuming(j))
           /\ \A x : Has(ready', x) => Has(rest, x) \/ x = Consuming(k)
           /\ \A x : Has(rest, x) => Has(ready', x)
  <1>1. /\ consumer' \in [Kind -> {"none", "waiting", "woken", "cancelled", "gone"}]
        /\ consumer'[k] = "cancelled" /\ \A j \in Kind : j # k => consumer'[j] = consumer[j]
    BY DEF Cancel
  <1>2. Consuming(k) \in Callback /\ Consuming(k).do = "consume"
    BY Callbacks
  <1>3. CASE consumer[k] = "waiting"
    <2>1. ready' = Append(rest, Consuming(k)) /\ ~Has(rest, Consuming(k))
      BY <1>3 DEF Cancel
    <2>2. \A x : Has(rest, x) => ~SameSort(x, Consuming(k))
      BY <1>2, <2>1 DEF SameSort
    <2>3. Once(ready')
      BY <1>2, <2>1, <2>2, AppendOnce
    <2>4. ready' \in Seq(Callback) /\ \A x : Has(ready', x) <=> Has(rest, x) \/ x = Consuming(k)
      BY <1>2, <2>1, AppendHas
    <2>5. \A j \in Kind : j # k => Consuming(j) # Consuming(k)
      BY Callbacks
    <2> QED
      BY <1>1, <2>3, <2>4, <2>5
  <1>4. CASE consumer[k] = "woken"
    <2>1. ready' = rest
      BY <1>4 DEF Cancel
    <2> QED
      BY <1>1, <1>4, <2>1
  <1> QED
    BY <1>3, <1>4 DEF Listening

(* stop() goes on after the join.                                          *)
LEMMA StopGoesOnReceiver ==
    ASSUME Receiver, ready # <<>>, Head(ready) = GoOn, StopGoesOn,
           UNCHANGED <<thread, stopRequested, overrun, history>>
    PROVE  Receiver' /\ stage' = "message"
  <1> DEFINE rest == Tail(ready)
  <1>1. /\ Cancel("message", rest) /\ stage' = "message"
        /\ UNCHANGED <<thread, stopRequested, overrun, queue, task, acked, handed, excused>>
    BY DEF StopGoesOn, history
  <1>2. /\ ready \in Seq(Callback) /\ 1 \in DOMAIN ready /\ ready[1] = GoOn /\ GoOn.do = "goOn"
        /\ consumer \in [Kind -> {"none", "waiting", "woken", "cancelled", "gone"}]
        /\ "message" \in Kind /\ Joined.do = "joined"
    BY Callbacks DEF Receiver, ReceiverType, Kind
  <1>3. /\ rest \in Seq(Callback)
        /\ \A x : Has(ready, x) <=> x = GoOn \/ Has(rest, x)
        /\ Once(rest) /\ \A x : Has(rest, x) => ~SameSort(x, GoOn)
    BY <1>2, TailHas, TailOnce DEF Receiver, Scheduled
  <1>4. stage = "joined" /\ consumer["message"] \in Listening /\ consumer["card"] \in Listening
    BY <1>2, <1>3 DEF Receiver, Scheduled, Cancelled, Early, Kind
  <1>5. \A j \in Kind : consumer[j] \in {"woken", "cancelled"} <=> Has(rest, Consuming(j))
    BY <1>3, Callbacks DEF Receiver, Scheduled
  <1> HIDE DEF rest
  <1>6. /\ consumer' \in [Kind -> {"none", "waiting", "woken", "cancelled", "gone"}]
        /\ consumer'["message"] = "cancelled"
        /\ \A j \in Kind : j # "message" => consumer'[j] = consumer[j]
        /\ ready' \in Seq(Callback) /\ Once(ready')
        /\ \A j \in Kind : consumer'[j] \in {"woken", "cancelled"} <=> Has(ready', Consuming(j))
        /\ \A x : Has(ready', x) => Has(rest, x) \/ x = Consuming("message")
        /\ \A x : Has(rest, x) => Has(ready', x)
    BY <1>1, <1>2, <1>3, <1>4, <1>5, CancelSchedules
  <1>7. ~Has(ready', Joined) /\ ~Has(ready', GoOn)
    <2>1. ~Has(rest, Joined) /\ ~Has(rest, GoOn)
      BY <1>2, <1>3 DEF SameSort
    <2> QED
      BY <1>2, <1>6, <2>1, Callbacks
  <1>8. Scheduled'
    BY <1>1, <1>2, <1>6, <1>7 DEF Receiver, Scheduled
  <1>9. \A d \in Delivery : Has(ready', Enqueueing(d)) <=> Has(ready, Enqueueing(d))
    BY <1>2, <1>3, <1>6, Callbacks
  <1>10. Cancelled'
    BY <1>1, <1>4, <1>6 DEF Cancelled, Kind, Early, Late, Worker, Stopping
  <1>11. HandedOver'
    <2>1. SUFFICES ASSUME ~overrun
                   PROVE  /\ thread \in {"failed", "ended"}
                          /\ \A i \in DOMAIN ready' : ready'[i].do # "enqueue"
                          /\ \A k \in Kind : queue[k] = <<>>
      BY <1>1 DEF HandedOver
    <2>2. /\ thread \in {"failed", "ended"}
          /\ \A j \in DOMAIN ready : ready[j].do # "enqueue" /\ (ready[j].do = "consume" => j < 1)
      BY <1>2, <1>4, <2>1 DEF Receiver, HandedOver, InOrder
    <2>3. \A j \in DOMAIN ready : ready[j].do \notin {"enqueue", "consume"}
      BY <1>2, <2>2
    <2>4. \A k \in Kind : queue[k] = <<>>
      <3>1. \A k \in Kind : ~Has(ready, Consuming(k))
        BY <2>3, Callbacks DEF Has
      <3> QED
        BY <1>4, <3>1 DEF Receiver, Scheduled, Kind, Listening
    <2>5. \A i \in DOMAIN ready' : ready'[i].do # "enqueue"
      <3>1. ASSUME NEW i \in DOMAIN ready', ready'[i].do = "enqueue"
            PROVE  FALSE
        <4>1. Has(ready', ready'[i])
          BY DEF Has
        <4>2. Has(ready, ready'[i])
          BY <1>2, <1>3, <1>6, <3>1, <4>1, Callbacks
        <4> QED
          BY <2>3, <3>1, <4>2 DEF Has
      <3> QED
        BY <3>1
    <2> QED
      BY <2>2, <2>4, <2>5
  <1>12. ReceiverType' /\ Tracked'
    BY <1>1, <1>6, <1>9 DEF Receiver, ReceiverType, Stage, Tracked, OnItsWay, KindOf
  <1>13. TasksDone' /\ Down'
    BY <1>1 DEF TasksDone, Down, Worker
  <1> QED
    BY <1>1, <1>8, <1>10, <1>11, <1>12, <1>13 DEF Receiver

(* A callback of the event loop is run.                                    *)
LEMMA CallbackNext ==
    ASSUME Receiver, Loops, Rows, RunCallback
    PROVE  Receiver' /\ Loops' /\ Rows' /\ UNCHANGED <<crashes, starts>>
  <1> DEFINE c == Head(ready)
  <1>1. /\ UNCHANGED <<thread, stopRequested, overrun, enabled, crashes, starts>>
        /\ UNCHANGED <<loops, tables, signals, history>> /\ ready # <<>>
    BY DEF RunCallback
  <1>2. c \in Callback
    BY <1>1, TailHas DEF Receiver, ReceiverType
  <1>3. ASSUME stage' = stage \/ stage' = "message"
        PROVE  Loops'
    BY <1>1, <1>3 DEF Loops, LoopsType, LoopsDone, Over, Awake, loops, signals
  <1>4. CASE c.do = "enqueue" /\ Enqueue(c.of)
    <2>1. c.of \in Delivery /\ Head(ready) = Enqueueing(c.of)
      BY <1>2, <1>4, Callbacks
    <2>2. Receiver'
      BY <1>1, <1>4, <2>1, EnqueueReceiver
    <2>3. UNCHANGED <<stage, task>>
      BY <1>4 DEF Enqueue
    <2> QED
      BY <1>1, <1>3, <2>2, <2>3, RowsUntouched
  <1>5. CASE c.do = "consume" /\ Consume(c.of)
    <2>1. c.of \in Kind /\ Head(ready) = Consuming(c.of)
      BY <1>2, <1>5, Callbacks
    <2>2. Receiver'
      BY <1>1, <1>5, <2>1, ConsumeReceiver
    <2>3. stage' = stage
      BY <1>5 DEF Consume
    <2>4. \A d \in Delivery : EventOf[d] \in Message /\ Runner(d)' => Runner(d)
      <3>1. CASE task' = task
        BY <3>1 DEF Runner
      <3>2. CASE task' = [d \in Delivery |-> IF Has(queue[c.of], d) THEN Started(d) ELSE task[d]]
        <4>1. \A d \in Delivery : EventOf[d] \in Message => Started(d) = "claim"
          BY DEF Started, KindOf
        <4> QED
          BY <3>2, <4>1 DEF Runner
      <3> QED
        BY <1>5, <3>1, <3>2 DEF Consume
    <2>5. Rows'
      BY <1>1, <2>4, RowsStay DEF Rows, tables
    <2> QED
      BY <1>1, <1>3, <2>2, <2>3, <2>5
  <1>6. CASE c.do = "joined" /\ JoinReported
    <2>1. Head(ready) = Joined
      BY <1>2, <1>6, Callbacks
    <2>2. Receiver'
      BY <1>1, <1>6, <2>1, JoinReportedReceiver
    <2>3. UNCHANGED <<stage, task>>
      BY <1>6 DEF JoinReported
    <2> QED
      BY <1>1, <1>3, <2>2, <2>3, RowsUntouched
  <1>7. CASE c.do = "goOn" /\ StopGoesOn
    <2>1. Head(ready) = GoOn
      BY <1>2, <1>7, Callbacks
    <2>2. Receiver' /\ stage' = "message"
      BY <1>1, <1>7, <2>1, StopGoesOnReceiver
    <2>3. task' = task
      BY <1>7 DEF StopGoesOn
    <2> QED
      BY <1>1, <1>3, <2>2, <2>3, RowsUntouched
  <1> QED
    BY <1>4, <1>5, <1>6, <1>7 DEF RunCallback

-----------------------------------------------------------------------------
(* The lifespan                                                            *)

(* The process starts from nothing.                                        *)
LEMMA StartNext ==
    ASSUME Receiver, Loops, Rows, Counters, Start
    PROVE  Receiver' /\ Loops' /\ Rows' /\ Counters'
  <1> USE DEF StageOnly, history
  <1>1. /\ stage = "down" /\ stage' = "starting" /\ starts' = starts + 1 /\ starts < MaxStarts
        /\ at' = [w \in Worker |-> IF w \in enabled THEN "sweep" ELSE "off"]
        /\ consumer' = [k \in Kind |-> "waiting"] /\ thread' = "connecting"
        /\ UNCHANGED <<stopRequested, overrun, ready, queue, task, stop, cancelled, item,
                       tables, signals, enabled, crashes, acked, handed, excused>>
    BY DEF Start
  <1>2. /\ ready = <<>> /\ queue = EmptyQueues /\ task = NoTask /\ ~overrun
        /\ acked \subseteq handed \cup excused
    BY <1>1 DEF Receiver, Down, HandedOver
  <1>3. ReceiverType'
    BY <1>1 DEF Receiver, ReceiverType, Stage, KindOf
  <1>4. Tracked'
    <2>1. \A d \in Delivery : OnItsWay(d)' = OnItsWay(d)
      BY <1>1 DEF OnItsWay, KindOf
    <2> QED
      BY <1>1, <1>2, <2>1 DEF Receiver, Tracked
  <1>5. Scheduled'
    BY <1>1, <1>2, EmptyHas DEF Receiver, Scheduled, EmptyQueues
  <1>6. Cancelled' /\ HandedOver' /\ TasksDone' /\ Down'
    BY <1>1, <1>2 DEF Cancelled, HandedOver, TasksDone, Down, Early, Late, Worker, Listening
  <1>7. Loops'
    BY <1>1 DEF Loops, LoopsType, LoopsDone, Over, Awake, Place, signals, Worker
  <1>8. Rows'
    BY <1>1, RowsUntouched
  <1>9. Counters'
    BY <1>1, ProcessAssumption DEF Counters
  <1> QED
    BY <1>3, <1>4, <1>5, <1>6, <1>7, <1>8, <1>9 DEF Receiver

(* The start is over, or a stop begins.                                    *)
LEMMA UpNext ==
    ASSUME Receiver, Loops, Rows, StartReturns \/ BeginStop
    PROVE  Receiver' /\ Loops' /\ Rows' /\ UNCHANGED <<crashes, starts>>
  <1> USE DEF StageOnly, history
  <1>1. /\ stage \in {"starting", "up"} /\ stage' \in {"up", "join"}
        /\ stopRequested' \in BOOLEAN
        /\ UNCHANGED <<thread, overrun, ready, queue, consumer, task, at, stop, cancelled, item,
                       tables, signals, enabled, crashes, starts, acked, handed, excused>>
    BY DEF StartReturns, BeginStop
  <1>2. ReceiverType'
    BY <1>1 DEF Receiver, ReceiverType, Stage, KindOf
  <1>3. Tracked'
    BY <1>1 DEF Receiver, Tracked, OnItsWay, KindOf
  <1>4. Scheduled'
    BY <1>1 DEF Receiver, Scheduled
  <1>5. Cancelled' /\ HandedOver' /\ TasksDone' /\ Down'
    BY <1>1 DEF Receiver, Cancelled, HandedOver, TasksDone, Down, Early, Late, Worker
  <1>6. Loops'
    BY <1>1 DEF Loops, LoopsType, LoopsDone, Over, Awake, signals
  <1>7. Rows'
    BY <1>1, RowsUntouched
  <1> QED
    BY <1>1, <1>2, <1>3, <1>4, <1>5, <1>6, <1>7 DEF Receiver

(* The thread is joined, or given up.                                      *)
LEMMA JoinNext ==
    ASSUME Receiver, Loops, Rows, NEW late \in BOOLEAN, Join(late)
    PROVE  Receiver' /\ Loops' /\ Rows' /\ UNCHANGED <<crashes, starts>>
  <1> USE DEF StageOnly, history
  <1>1. /\ stage = "join" /\ stage' = "joined" /\ late = (thread \notin {"failed", "ended"})
        /\ overrun' = late /\ ready' = Append(ready, Joined)
        /\ UNCHANGED <<thread, stopRequested, queue, consumer, task, at, stop, cancelled, item,
                       tables, signals, enabled, crashes, starts, acked, handed, excused>>
    BY DEF Join
  <1>2. /\ ready \in Seq(Callback) /\ Joined \in Callback /\ Joined.do = "joined"
        /\ GoOn.do = "goOn" /\ ~overrun
    BY <1>1, Callbacks DEF Receiver, ReceiverType, HandedOver
  <1>3. ready' \in Seq(Callback) /\ \A x : Has(ready', x) <=> Has(ready, x) \/ x = Joined
    BY <1>1, <1>2, AppendHas
  <1>4. ~Has(ready, Joined) /\ ~Has(ready, GoOn)
    BY <1>1 DEF Receiver, Scheduled
  <1>5. \A i \in DOMAIN ready : ready[i].do \notin {"joined", "goOn"}
    <2>1. \A i \in DOMAIN ready : ready[i] \in Callback
      BY <1>2
    <2> QED
      BY <1>4, <2>1, Callbacks DEF Has
  <1>6. Once(ready')
    <2>1. \A x : Has(ready, x) => ~SameSort(x, Joined)
      BY <1>2, <1>5 DEF Has, SameSort
    <2> QED
      BY <1>1, <1>2, <2>1, AppendOnce DEF Receiver, Scheduled
  <1>7. InOrder(ready')
    <2>1. InOrder(ready)
      BY <1>5 DEF InOrder
    <2> QED
      BY <1>1, <1>2, <2>1, AppendInOrder
  <1>8. /\ \A k \in Kind : Has(ready', Consuming(k)) <=> Has(ready, Consuming(k))
        /\ \A d \in Delivery : Has(ready', Enqueueing(d)) <=> Has(ready, Enqueueing(d))
    BY <1>2, <1>3, Callbacks
  <1>9. ReceiverType' /\ Tracked'
    BY <1>1, <1>2, <1>3, <1>8
       DEF Receiver, ReceiverType, Stage, Tracked, OnItsWay, KindOf
  <1>10. Scheduled'
    BY <1>1, <1>6, <1>8 DEF Receiver, Scheduled
  <1>11. Cancelled' /\ HandedOver' /\ TasksDone' /\ Down'
    BY <1>1, <1>7 DEF Receiver, Cancelled, HandedOver, TasksDone, Down, Early, Late, Worker
  <1>12. Loops'
    BY <1>1 DEF Loops, LoopsType, LoopsDone, Over, Awake, signals
  <1>13. Rows'
    BY <1>1, RowsUntouched
  <1> QED
    BY <1>1, <1>9, <1>10, <1>11, <1>12, <1>13 DEF Receiver

(* stop() after its awaits.                                                *)
LEMMA StopsNext ==
    ASSUME Receiver, Loops, Rows, ReceiverStops
    PROVE  Receiver' /\ Loops' /\ Rows' /\ UNCHANGED <<crashes, starts>>
  <1> USE DEF StageOnly, history
  <1>1. UNCHANGED <<thread, stopRequested, overrun, queue, task, at, stop, cancelled, item,
                    tables, signals, enabled, crashes, starts, acked, handed, excused>>
    BY DEF ReceiverStops
  <1>2. Rows'
    BY <1>1, RowsUntouched
  <1>3. ASSUME stage' \in {"card", "gather", "event"}
        PROVE  Loops'
    BY <1>1, <1>3 DEF Loops, LoopsType, LoopsDone, Over, Awake, signals
  <1>4. CASE stage = "message" /\ consumer["message"] = "gone" /\ stage' = "card"
             /\ Cancel("card", ready)
    <2>1. /\ ready \in Seq(Callback) /\ "card" \in Kind /\ "message" \in Kind
          /\ consumer \in [Kind -> {"none", "waiting", "woken", "cancelled", "gone"}]
          /\ consumer["card"] \in Listening /\ Once(ready)
          /\ \A j \in Kind : consumer[j] \in {"woken", "cancelled"} <=> Has(ready, Consuming(j))
      BY <1>4 DEF Receiver, ReceiverType, Cancelled, Scheduled, Kind
    <2>2. /\ consumer' \in [Kind -> {"none", "waiting", "woken", "cancelled", "gone"}]
          /\ consumer'["card"] = "cancelled"
          /\ \A j \in Kind : j # "card" => consumer'[j] = consumer[j]
          /\ ready' \in Seq(Callback) /\ Once(ready')
          /\ \A j \in Kind : consumer'[j] \in {"woken", "cancelled"} <=> Has(ready', Consuming(j))
          /\ \A x : Has(ready', x) => Has(ready, x) \/ x = Consuming("card")
          /\ \A x : Has(ready, x) => Has(ready', x)
      BY <1>4, <2>1, CancelSchedules
    <2>3. /\ \A d \in Delivery : Has(ready', Enqueueing(d)) <=> Has(ready, Enqueueing(d))
          /\ ~Has(ready', Joined) /\ ~Has(ready', GoOn)
      <3>1. ~Has(ready, Joined) /\ ~Has(ready, GoOn)
        BY <1>4 DEF Receiver, Scheduled
      <3> QED
        BY <2>1, <2>2, <3>1, Callbacks
    <2>4. ReceiverType' /\ Tracked'
      BY <1>1, <1>4, <2>2, <2>3 DEF Receiver, ReceiverType, Stage, Tracked, OnItsWay, KindOf
    <2>5. Scheduled'
      BY <1>1, <2>1, <2>2, <2>3 DEF Receiver, Scheduled
    <2>6. Cancelled' /\ TasksDone' /\ Down'
      BY <1>4, <2>1, <2>2 DEF Receiver, Cancelled, TasksDone, Down, Early, Late, Worker, Stopping
    <2>7. HandedOver'
      <3>1. ~overrun => \A i \in DOMAIN ready' : ready'[i].do # "enqueue"
        <4>1. SUFFICES ASSUME ~overrun, NEW i \in DOMAIN ready', ready'[i].do = "enqueue"
                       PROVE  FALSE
          OBVIOUS
        <4>2. Has(ready', ready'[i])
          BY DEF Has
        <4>3. Has(ready, ready'[i])
          BY <2>1, <2>2, <4>1, <4>2, Callbacks
        <4> QED
          BY <1>4, <4>1, <4>3 DEF Receiver, HandedOver, Has
      <3> QED
        BY <1>1, <1>4, <3>1 DEF Receiver, HandedOver
    <2> QED
      BY <1>1, <1>2, <1>3, <1>4, <2>4, <2>5, <2>6, <2>7 DEF Receiver
  <1>5. CASE /\ UNCHANGED <<consumer, ready>>
             /\ \/ stage = "card" /\ consumer["card"] = "gone" /\ stage' = "gather"
                \/ stage = "gather" /\ Gathered /\ stage' = "event"
    <2>1. ReceiverType' /\ Tracked'
      BY <1>1, <1>5 DEF Receiver, ReceiverType, Stage, Worker, Tracked, OnItsWay, KindOf
    <2>2. Scheduled'
      BY <1>1, <1>5 DEF Receiver, Scheduled
    <2>3. Cancelled'
      BY <1>5 DEF Receiver, Cancelled, Early, Late, Worker, Kind
    <2>4. HandedOver' /\ TasksDone' /\ Down'
      BY <1>1, <1>5 DEF Receiver, HandedOver, TasksDone, Down, Late, Worker, Gathered
    <2> QED
      BY <1>1, <1>2, <1>3, <1>5, <2>1, <2>2, <2>3, <2>4 DEF Receiver
  <1> QED
    BY <1>4, <1>5 DEF ReceiverStops

(* A worker is told to stop, or has stopped, and the next one's turn comes. *)
LEMMA WorkerNext ==
    ASSUME Receiver, Loops, Rows, NEW w \in Worker, StopWorker(w) \/ WorkerStopped(w)
    PROVE  Receiver' /\ Loops' /\ Rows' /\ UNCHANGED <<crashes, starts>>
  <1> USE DEF StageOnly, history, receiver
  <1>1. /\ stage = w /\ stage \in Worker /\ stage' \in Worker \cup {"disposed"}
        /\ UNCHANGED <<receiver, at, item, tables, signals, enabled, crashes, starts, history>>
    BY DEF StopWorker, WorkerStopped, After, Worker
  <1>2. Rows'
    BY <1>1, RowsUntouched
  <1>3. ReceiverType' /\ Tracked'
    BY <1>1 DEF Receiver, ReceiverType, Stage, Tracked, OnItsWay, KindOf
  <1>4. Scheduled'
    BY <1>1 DEF Receiver, Scheduled, Worker
  <1>5. Cancelled' /\ HandedOver'
    BY <1>1 DEF Receiver, Cancelled, HandedOver, Early, Late, Worker
  <1>6. TasksDone' /\ Down'
    BY <1>1 DEF Receiver, TasksDone, Down, Worker
  <1>7. Loops'
    <2>1. CASE StopWorker(w)
      BY <2>1 DEF StopWorker, Loops, LoopsType, LoopsDone, Over, Awake, signals
    <2>2. CASE WorkerStopped(w)
      <3>1. Over(w) /\ UNCHANGED <<at, item, stop, cancelled, signals>> /\ stage' = After(w)
        BY <2>2 DEF WorkerStopped, Over
      <3>2. LoopsDone'
        BY <1>1, <3>1 DEF Loops, LoopsDone, Over, After, Worker
      <3> QED
        BY <3>1, <3>2 DEF Loops, LoopsType, Awake, signals
    <2> QED
      BY <2>1, <2>2
  <1> QED
    BY <1>1, <1>2, <1>3, <1>4, <1>5, <1>6, <1>7 DEF Receiver

(* All that was acknowledged is handed over when the engine goes.          *)
LEMMA HandedWhenDisposed == Receiver => AckedIsHanded
  <1> SUFFICES ASSUME Receiver, stage = "disposed", ~overrun, NEW d \in acked
               PROVE  d \in handed \cup excused
    BY DEF AckedIsHanded
  <1>1. d \in Delivery /\ KindOf(d) \in Kind
    BY KindType DEF Receiver, ReceiverType
  <1>2. ~Has(ready, Enqueueing(d))
    BY <1>1, Callbacks DEF Receiver, HandedOver, Late, Has
  <1>3. ~Has(queue[KindOf(d)], d)
    BY <1>1, EmptyHas DEF Receiver, HandedOver, Late
  <1>4. task[d] = "none"
    BY <1>1 DEF Receiver, TasksDone
  <1> QED
    BY <1>2, <1>3, <1>4 DEF Receiver, Tracked, OnItsWay

(* A process that has nothing in memory, and owes no event.                *)
Blank == /\ stage = "down" /\ thread = "none" /\ stopRequested = FALSE /\ overrun = FALSE
         /\ ready = <<>> /\ queue = EmptyQueues /\ consumer = NoConsumer /\ task = NoTask
         /\ at = AllOff /\ item = None /\ stop = NotSet /\ cancelled = NotSet
         /\ wake = FALSE /\ news = NoReplies
         /\ handed \cup excused \subseteq acked /\ acked \subseteq Delivery
         /\ acked \subseteq handed \cup excused

(* Nothing is wrong with a process that is down.                           *)
LEMMA NothingInMemory == Blank => Receiver /\ Loops
  <1> SUFFICES ASSUME Blank
               PROVE  Receiver /\ Loops
    OBVIOUS
  <1> USE DEF Blank
  <1>1. ReceiverType
    <2>1. ready \in Seq(Callback) /\ \A k \in Kind : queue[k] = <<>> /\ queue[k] \in Seq(Delivery)
      BY DEF EmptyQueues
    <2>2. queue \in [Kind -> Seq(Delivery)] /\ \A k \in Kind : \A i \in DOMAIN queue[k] : FALSE
      BY <2>1 DEF EmptyQueues
    <2>3. /\ consumer \in [Kind -> {"none", "waiting", "woken", "cancelled", "gone"}]
          /\ task \in [Delivery -> {"none", "claim", "mark", "process", "signal", "finish"}]
      BY DEF NoConsumer, NoTask
    <2> QED
      BY <2>1, <2>2, <2>3 DEF ReceiverType, Stage
  <1>2. \A d \in Delivery : ~OnItsWay(d)
    BY EmptyHas, KindType DEF OnItsWay, EmptyQueues, NoTask
  <1>3. Tracked
    BY <1>2 DEF Tracked
  <1>4. Scheduled
    BY EmptyHas DEF Scheduled, Once, NoConsumer
  <1>5. Cancelled /\ HandedOver /\ TasksDone /\ Down
    BY DEF Cancelled, HandedOver, TasksDone, Down, Early, Late, Worker
  <1>6. LoopsType
    BY DEF LoopsType, Place, AllOff, NotSet, NoReplies
  <1>7. LoopsDone /\ Awake
    BY DEF LoopsDone, Awake, AllOff, Worker
  <1> QED
    BY <1>1, <1>3, <1>4, <1>5, <1>6, <1>7 DEF Receiver, Loops

(* The process exits, or crashes.                                          *)
LEMMA GoneNext ==
    ASSUME Receiver, Rows, Counters, Exit \/ Crash
    PROVE  Receiver' /\ Loops' /\ Rows' /\ Counters'
  <1>1. /\ Gone /\ UNCHANGED <<tables, acked, handed, enabled, starts>> /\ task' = NoTask
    BY DEF Exit, Crash, Gone
  <1>2. excused' \in SUBSET acked /\ acked \subseteq handed \cup excused'
    <2>1. CASE Exit
      BY <2>1, HandedWhenDisposed DEF Exit, AckedIsHanded, Receiver, ReceiverType
    <2>2. CASE Crash
      BY <2>2 DEF Crash
    <2> QED
      BY <2>1, <2>2
  <1>3. Blank'
    BY <1>1, <1>2 DEF Gone, Blank, Receiver, ReceiverType
  <1>4. Blank' => Receiver' /\ Loops'
    BY NothingInMemory, PTL
  <1>5. Rows'
    <2>1. \A d \in Delivery : ~Runner(d)'
      BY <1>1 DEF Runner, NoTask
    <2> QED
      BY <1>1, <2>1, RowsStay DEF Rows, tables
  <1>6. Counters'
    BY <1>1, ProcessAssumption DEF Exit, Crash, Counters
  <1> QED
    BY <1>3, <1>4, <1>5, <1>6

-----------------------------------------------------------------------------
(* The invariant                                                           *)

(* It holds at first.                                                      *)
LEMMA InitCore == Init => IInv
  <1> SUFFICES ASSUME Init
               PROVE  IInv
    OBVIOUS
  <1>1. Receiver /\ Loops
    BY NothingInMemory DEF Init, Blank
  <1>2. Rows
    BY DEF Init, Rows, OneRunner, SyncRunsOnce, Runner, NoTask
  <1>3. Counters
    BY ProcessAssumption DEF Init, Counters
  <1> QED
    BY <1>1, <1>2, <1>3, Parts

(* Every step preserves it.                                                *)
LEMMA NextCore ==
    ASSUME IInv, [Next]_vars
    PROVE  IInv'
  <1>1. Receiver /\ Loops /\ Rows /\ Counters
    BY Parts
  <1>2. SUFFICES Receiver' /\ Loops' /\ Rows' /\ Counters'
    <2>1. (Receiver /\ Loops /\ Rows /\ Counters)' => IInv'
      BY Parts, PTL
    <2> QED
      BY <2>1
  <1>3. ASSUME Receiver', UNCHANGED <<loops, signals, tables, task, life>>
        PROVE  Receiver' /\ Loops' /\ Rows' /\ Counters'
    <2>1. Loops'
      BY <1>1, <1>3, LoopsStay DEF life
    <2>2. Rows'
      BY <1>1, <1>3, RowsUntouched DEF life
    <2>3. Counters'
      BY <1>1, <1>3, CountersStay DEF life
    <2> QED
      BY <1>3, <2>1, <2>2, <2>3
  <1>4. ASSUME Receiver', Loops', Rows', UNCHANGED <<crashes, starts>>
        PROVE  Receiver' /\ Loops' /\ Rows' /\ Counters'
    BY <1>1, <1>4, CountersStay
  <1>5. CASE Connect \/ Leave \/ ThreadFails
    BY <1>1, <1>3, <1>5, ThreadMoves DEF Connect, Leave, ThreadFails, ThreadOnly
  <1>6. CASE RunCallback
    BY <1>1, <1>4, <1>6, CallbackNext
  <1>7. CASE \E d \in Delivery : Deliver(d) \/ TaskStep(d)
    <2>1. PICK d \in Delivery : Deliver(d) \/ TaskStep(d)
      BY <1>7
    <2>2. CASE Deliver(d)
      BY <1>1, <1>3, <2>2, DeliverReceiver DEF Deliver, ThreadOnly
    <2>3. CASE TaskStep(d)
      BY <1>1, <1>4, <2>3, TaskNext
    <2> QED
      BY <2>1, <2>2, <2>3
  <1>8. CASE \E w \in Worker : LoopStep(w) \/ StopWorker(w) \/ WorkerStopped(w)
    <2>1. PICK w \in Worker : LoopStep(w) \/ StopWorker(w) \/ WorkerStopped(w)
      BY <1>8
    <2>2. CASE LoopStep(w)
      <3>1. UNCHANGED <<receiver, history, life>>
        BY <2>2 DEF LoopStep, LoopOnly, Ends, Idles, TimeIsUp, TakeEvent, CommitEvent, SignalEvent,
                    EndEvent, SignalReminders, CommitReminder, TakeReplies, SendReplies,
                    SleepIsOver, Clear, Swallow
      <3>2. Receiver'
        BY <1>1, <3>1, ReceiverStays DEF life
      <3> QED
        BY <1>1, <1>4, <2>2, <3>1, <3>2, LoopsNext, LoopKeepsRows DEF life
    <2>3. CASE StopWorker(w) \/ WorkerStopped(w)
      BY <1>1, <1>4, <2>3, WorkerNext
    <2> QED
      BY <2>1, <2>2, <2>3
  <1>9. CASE Start
    BY <1>1, <1>9, StartNext
  <1>10. CASE StartReturns \/ BeginStop
    BY <1>1, <1>4, <1>10, UpNext
  <1>11. CASE Join(TRUE) \/ Join(FALSE)
    BY <1>1, <1>4, <1>11, JoinNext
  <1>12. CASE ReceiverStops
    BY <1>1, <1>4, <1>12, StopsNext
  <1>13. CASE Exit \/ Crash
    BY <1>1, <1>13, GoneNext
  <1>14. CASE UNCHANGED vars
    <2>1. UNCHANGED <<receiver, loops, tables, signals, history, life>>
      BY <1>14 DEF vars
    <2>2. Receiver'
      BY <1>1, <2>1, ReceiverStays DEF life
    <2> QED
      BY <1>3, <2>1, <2>2 DEF receiver
  <1> QED
    BY <1>5, <1>6, <1>7, <1>8, <1>9, <1>10, <1>11, <1>12, <1>13, <1>14 DEF Next

(* At every moment each event that was acknowledged is on its way to a     *)
(* task or done with, what has to be run is scheduled, what is stopped is  *)
(* over before the next is, one task of an event runs the processor, and   *)
(* nothing signalled is slept over: the types, NothingDangles and          *)
(* SyncRunsOnce of the runs are parts of it.                               *)
THEOREM Invariance == Spec => []IInv
  <1>1. Init => IInv
    BY InitCore
  <1>2. IInv /\ [Next]_vars => IInv'
    BY NextCore
  <1> QED
    BY <1>1, <1>2, PTL DEF Spec

(* When the engine is disposed of, no task of the receiver and no loop of  *)
(* a worker is left that could use it.                                     *)
THEOREM NothingDanglesHolds == Spec => []NothingDangles
  <1>1. IInv => NothingDangles
    BY DEF IInv, Inv
  <1> QED
    BY <1>1, Invariance, PTL

(* Without the event worker the processor runs once for an event, however  *)
(* often it is delivered and however often the process crashes.            *)
THEOREM SyncRunsOnceHolds == Spec => []SyncRunsOnce
  <1>1. IInv => SyncRunsOnce
    BY DEF IInv, Inv
  <1> QED
    BY <1>1, Invariance, PTL

(* An orderly stop drops no event that the callback has acknowledged: the  *)
(* thread's callbacks go first in, first out, so that all of its events    *)
(* are queued before join() returns, and the consumers that they woke have *)
(* emptied the queues before stop() goes on.                               *)
THEOREM AckedIsHandedHolds == Spec => []AckedIsHanded
  <1>1. IInv => AckedIsHanded
    BY Parts, HandedWhenDisposed
  <1> QED
    BY <1>1, Invariance, PTL

(* The reply loop never sleeps over a wake-up: it clears the event before  *)
(* it looks, so that whatever is signalled since is seen or sets it.       *)
THEOREM NoWakeupLostHolds == Spec => []NoWakeupLost
  <1>1. IInv => NoWakeupLost
    BY DEF IInv, Awake, NoWakeupLost
  <1> QED
    BY <1>1, Invariance, PTL
=============================================================================
