------------------------------ MODULE Process ------------------------------
(***************************************************************************)
(* One process from its start to its exit: the application's lifespan, the *)
(* long connection to Feishu with its thread, the event loop that takes    *)
(* over what the thread receives, EventService in both of its modes, and   *)
(* the start, wake-up and stop of the background workers.                  *)
(*                                                                         *)
(* The thread hands its events to the event loop by call_soon_threadsafe:  *)
(* `ready` is the loop's queue of callbacks, first in first out, as far as *)
(* their order matters here. Any other action is what a task does between  *)
(* two awaits. What the workers do to the tables is in the modules of the  *)
(* tables; of the replies only what a wake-up is about is kept here.       *)
(***************************************************************************)
EXTENDS Naturals, Sequences, FiniteSets

CONSTANTS Message, Card,  \* incoming events, by their event_id
          Reminder,       \* what the recurring worker finds due
          Delivery,       \* deliveries of events by the long connection
          EventOf,        \* EventOf[d]: the event that d delivers
          Settings,       \* the sets of workers that may be enabled
          None,
          MaxCrashes,     \* bound: crashes of the process
          MaxStarts,      \* bound: starts of the process
          MaxDelivered    \* bound: deliveries taken

Worker == {"event", "reply", "cleanup", "recurring"}

ASSUME ProcessAssumption ==
    /\ EventOf \in [Delivery -> Message \cup Card] /\ Message \cap Card = {}
    /\ Reminder \cap (Message \cup Card) = {} /\ None \notin Message
    /\ Settings \subseteq SUBSET Worker /\ {MaxCrashes, MaxStarts, MaxDelivered} \subseteq Nat

VARIABLES
    enabled,   \* the workers that the settings enable, for good
    stage,     \* how far the lifespan is
    thread,    \* the thread of the long connection
    stopRequested, overrun, \* threading.Event; has join(10) given up
    ready,     \* callbacks of the event loop
    queue,     \* queue[k]: the receiver's asyncio.Queue for events of kind k
    consumer,  \* consumer[k]: the task that empties it
    task,      \* task[d]: what the processing task of a delivery does next
    at, item,  \* at[w]: where worker w is in its loop; the event it works on
    stop, cancelled, \* stop[w]: its asyncio.Event; cancelled[w]: not yet noticed
    wake,      \* the asyncio.Event reply_wakeup
    row, ran,  \* rows of processed_events; runs of the processor by handle()
    news,      \* history: the replies since the reply loop last began to look
    acked, handed, \* history: deliveries taken by the callback, and done with
    excused,   \* history: deliveries that a crash or an overrun took along
    crashes, starts

receiver == <<thread, stopRequested, overrun, ready, queue, consumer, task>>
loops == <<at, item, stop, cancelled>>
tables == <<row, ran>>
signals == <<wake, news>>
history == <<acked, handed, excused>>
life == <<enabled, stage, crashes, starts>>
vars == <<receiver, loops, tables, signals, history, life>>

Kind == {"message", "card"}
KindOf(d) == IF EventOf[d] \in Message THEN "message" ELSE "card"
Source == Message \cup Card \cup Reminder

(* The order in which the lifespan goes down.                              *)
Stage == {"down", "starting", "up", "join", "joined", "message", "card", "gather",
          "disposed"} \cup Worker
After(w) == CASE w = "event" -> "reply" [] w = "reply" -> "cleanup"
              [] w = "cleanup" -> "recurring" [] w = "recurring" -> "disposed"

Callback == [do : {"enqueue"}, of : Delivery] \cup [do : {"consume"}, of : Kind]
              \cup [do : {"joined", "goOn"}, of : {None}]
Enqueueing(d) == [do |-> "enqueue", of |-> d]
Consuming(k) == [do |-> "consume", of |-> k]
Joined == [do |-> "joined", of |-> None]
GoOn == [do |-> "goOn", of |-> None]

Has(s, x) == \E i \in DOMAIN s : s[i] = x

TypeOK ==
    /\ enabled \in Settings /\ stage \in Stage
    /\ thread \in {"none", "connecting", "connected", "leaving", "failed", "ended"}
    /\ stopRequested \in BOOLEAN /\ overrun \in BOOLEAN
    /\ ready \in Seq(Callback) /\ queue \in [Kind -> Seq(Delivery)]
    /\ \A k \in Kind : \A i \in DOMAIN queue[k] : KindOf(queue[k][i]) = k
    /\ consumer \in [Kind -> {"none", "waiting", "woken", "cancelled", "gone"}]
    /\ task \in [Delivery -> {"none", "claim", "mark", "process", "signal", "finish"}]
    /\ at \in [Worker -> {"off", "sweep", "commit", "signal", "complete", "deliver",
                          "sleep", "resume", "ended"}]
    /\ item \in Message \cup {None}
    /\ stop \in [Worker -> BOOLEAN] /\ cancelled \in [Worker -> BOOLEAN]
    /\ wake \in BOOLEAN
    /\ row \in [Message -> {"absent", "received", "processing", "succeeded", "failed"}]
    /\ ran \in [Message -> Nat]
    /\ news \in [Source -> {"none", "committed", "signalled"}]
    /\ handed \cup excused \subseteq acked /\ acked \subseteq Delivery
    /\ crashes \in 0 .. MaxCrashes /\ starts \in 0 .. MaxStarts

NoReplies == [s \in Source |-> "none"]
EmptyQueues == [k \in Kind |-> <<>>]
NoConsumer == [k \in Kind |-> "none"]
NoTask == [d \in Delivery |-> "none"]
AllOff == [w \in Worker |-> "off"]
NotSet == [w \in Worker |-> FALSE]

Init == /\ enabled \in Settings /\ stage = "down"
        /\ thread = "none" /\ stopRequested = FALSE /\ overrun = FALSE
        /\ ready = <<>> /\ queue = EmptyQueues /\ consumer = NoConsumer /\ task = NoTask
        /\ at = AllOff /\ item = None /\ stop = NotSet /\ cancelled = NotSet
        /\ wake = FALSE /\ news = NoReplies
        /\ row = [m \in Message |-> "absent"] /\ ran = [m \in Message |-> 0]
        /\ acked = {} /\ handed = {} /\ excused = {} /\ crashes = 0 /\ starts = 0

-----------------------------------------------------------------------------
(* The thread of the long connection                                       *)

ThreadOnly == UNCHANGED <<overrun, queue, consumer, task, loops, tables, signals,
                          handed, excused, life>>

(* _client_lifecycle: connect, trying again, unless the stop comes first.  *)
Connect == /\ thread = "connecting" /\ ~stopRequested
           /\ thread' = "connected" /\ UNCHANGED <<stopRequested, ready, acked>> /\ ThreadOnly

Leave == /\ stopRequested /\ thread \in {"connecting", "connected", "leaving"}
         /\ thread' = IF thread = "connected" THEN "leaving" ELSE "ended"
         /\ UNCHANGED <<stopRequested, ready, acked>> /\ ThreadOnly

(* _run_client: the SDK cannot be built, or fails to disconnect.           *)
ThreadFails == /\ thread \in {"connecting", "leaving"}
               /\ thread' = "failed" /\ UNCHANGED <<stopRequested, ready, acked>> /\ ThreadOnly

(* _on_sdk_event, _on_sdk_card_action: the SDK answers Feishu when the     *)
(* callback returns.                                                       *)
Deliver(d) == /\ thread \in {"connected", "leaving"} /\ d \notin acked
              /\ Cardinality(acked) < MaxDelivered
              /\ acked' = acked \cup {d}
              /\ ready' = Append(ready, Enqueueing(d))
              /\ UNCHANGED <<thread, stopRequested>> /\ ThreadOnly

-----------------------------------------------------------------------------
(* The receiver on the event loop                                          *)

(* The queues are dropped at the end of stop().                            *)
QueueOpen_UntilStop == stage \in {"starting", "up"}
QueueOpen == stage \in {"starting", "up", "join", "joined", "message", "card", "gather"}

Enqueue(d) ==
    LET k == KindOf(d)
        wakes == QueueOpen /\ consumer[k] = "waiting"
    IN  /\ queue' = IF QueueOpen THEN [queue EXCEPT ![k] = Append(@, d)] ELSE queue
        /\ consumer' = IF wakes THEN [consumer EXCEPT ![k] = "woken"] ELSE consumer
        /\ ready' = IF wakes THEN Append(Tail(ready), Consuming(k)) ELSE Tail(ready)
        /\ UNCHANGED <<task, stage>>

(* _consume, _consume_card_actions: empty the queue before they wait       *)
(* again. A cancellation noticed first leaves what is in the queue.        *)
Started(d) == IF KindOf(d) = "card" THEN "process" ELSE "claim"
Consume(k) ==
    /\ IF consumer[k] = "cancelled"
       THEN /\ consumer' = [consumer EXCEPT ![k] = "gone"]
            /\ UNCHANGED <<queue, task>>
       ELSE /\ consumer' = [consumer EXCEPT ![k] = "waiting"]
            /\ task' = [d \in Delivery |-> IF Has(queue[k], d) THEN Started(d) ELSE task[d]]
            /\ queue' = [queue EXCEPT ![k] = <<>>]
    /\ ready' = Tail(ready) /\ UNCHANGED stage

(* task.cancel(): a waiting consumer is scheduled, a woken one is already. *)
Cancel(k, rest) ==
    /\ consumer' = [consumer EXCEPT ![k] = "cancelled"]
    /\ ready' = IF consumer[k] = "waiting" THEN Append(rest, Consuming(k)) ELSE rest

(* The future of to_thread(join) is set, and schedules stop() in its turn. *)
JoinReported == ready' = Append(Tail(ready), GoOn) /\ UNCHANGED <<queue, consumer, task, stage>>
StopGoesOn == /\ Cancel("message", Tail(ready)) /\ stage' = "message"
              /\ UNCHANGED <<queue, task>>

RunCallback ==
    /\ ready # <<>>
    /\ LET c == Head(ready) IN
       \/ c.do = "enqueue" /\ Enqueue(c.of)
       \/ c.do = "consume" /\ Consume(c.of)
       \/ c.do = "joined" /\ JoinReported
       \/ c.do = "goOn" /\ StopGoesOn
    /\ UNCHANGED <<thread, stopRequested, overrun, enabled, crashes, starts>>
    /\ UNCHANGED <<loops, tables, signals, history>>

-----------------------------------------------------------------------------
(* Processing tasks: EventService.handle_safely and handle_action          *)

(* The replies of a business transaction, and _signal_or_deliver. Without  *)
(* the reply worker the deliverer sends them itself.                       *)
Committed(s) == news' = [news EXCEPT ![s] = "committed"] /\ UNCHANGED wake
Signalled(S) ==
    IF "reply" \in enabled
    THEN /\ wake' = TRUE
         /\ news' = [s \in Source |-> IF s \in S /\ news[s] = "committed"
                                      THEN "signalled" ELSE news[s]]
    ELSE UNCHANGED signals

Goes(d, next) == /\ task' = [task EXCEPT ![d] = next]
                 /\ handed' = IF next = "none" THEN handed \cup {d} ELSE handed
                 /\ UNCHANGED <<thread, stopRequested, overrun, ready, queue, consumer>>
                 /\ UNCHANGED <<loops, acked, excused, life>>

(* claim: the primary key refuses an event that is known.                  *)
New(m) == row[m] = "absent"
Claim(d) ==
    LET m == EventOf[d] IN
    /\ task[d] = "claim"
    /\ row' = IF New(m) THEN [row EXCEPT ![m] = "received"] ELSE row
    /\ Goes(d, IF New(m) /\ "event" \notin enabled THEN "mark" ELSE "none")
    /\ UNCHANGED <<ran, signals>>
(* A transaction of the row itself fails: handle_safely lets it be.        *)
RowFails(d) == /\ task[d] \in {"claim", "mark", "finish"}
               /\ Goes(d, "none") /\ UNCHANGED <<tables, signals>>

MarkProcessing(d) == /\ task[d] = "mark" /\ row' = [row EXCEPT ![EventOf[d]] = "processing"]
                     /\ Goes(d, "process") /\ UNCHANGED <<ran, signals>>

(* MessageProcessor.process, or the confirmation behind a card's button.   *)
Runs(e) == ran' = IF e \in Message THEN [ran EXCEPT ![e] = @ + 1] ELSE ran
ProcessNow(d) ==
    /\ task[d] = "process" /\ Runs(EventOf[d]) /\ Committed(EventOf[d])
    /\ Goes(d, "signal") /\ UNCHANGED row
ProcessFails(d) ==
    LET e == EventOf[d] IN
    /\ task[d] = "process" /\ Runs(e)
    /\ row' \in IF e \in Message THEN {row, [row EXCEPT ![e] = "failed"]} ELSE {row}
    /\ Goes(d, "none") /\ UNCHANGED signals

SignalNow(d) == /\ task[d] = "signal" /\ Signalled({EventOf[d]})
                /\ Goes(d, IF KindOf(d) = "card" THEN "none" ELSE "finish")
                /\ UNCHANGED tables

MarkSucceeded(d) == /\ task[d] = "finish" /\ row' = [row EXCEPT ![EventOf[d]] = "succeeded"]
                    /\ Goes(d, "none") /\ UNCHANGED <<ran, signals>>

TaskStep(d) == \/ Claim(d) \/ RowFails(d) \/ MarkProcessing(d) \/ ProcessNow(d)
               \/ ProcessFails(d) \/ SignalNow(d) \/ MarkSucceeded(d)

-----------------------------------------------------------------------------
(* The loops of the workers                                                *)

LoopOnly == UNCHANGED <<receiver, stop, ran, history, life>>
MovesTo(w, place) == at' = [at EXCEPT ![w] = place] /\ UNCHANGED cancelled
Runnable(w, place) == at[w] = place /\ ~cancelled[w]

(* The top of _run_loop, and of run_once.                                  *)
Continues_Always(w) == TRUE
Continues(w) == ~stop[w]
Sweeping(w) == Runnable(w, "sweep") /\ Continues(w)

(* CancelledError leaves the loop from any await; so does the stop.        *)
Ends(w) == /\ at[w] \notin {"off", "ended"}
           /\ cancelled[w] \/ (at[w] = "sweep" /\ ~Continues(w))
           /\ at' = [at EXCEPT ![w] = "ended"] /\ cancelled' = [cancelled EXCEPT ![w] = FALSE]
           /\ item' = IF w = "event" THEN None ELSE item
           /\ UNCHANGED <<row, signals>> /\ LoopOnly

(* Nothing to do, or the sweep failed: the loop sleeps until its next one. *)
Idles(w) == /\ Sweeping(w) /\ MovesTo(w, "sleep")
            /\ news' = IF w = "reply" THEN [s \in Source |-> "none"] ELSE news
            /\ UNCHANGED <<item, row, wake>> /\ LoopOnly

TimeIsUp(w) == /\ w # "reply" /\ Runnable(w, "sleep") /\ MovesTo(w, "sweep")
               /\ UNCHANGED <<item, row, signals>> /\ LoopOnly

(* EventWorker: a new row, or one left processing whose lease is over.     *)
TakeEvent(m) == /\ Sweeping("event") /\ row[m] \in {"received", "processing"}
                /\ row' = [row EXCEPT ![m] = "processing"] /\ item' = m
                /\ MovesTo("event", "commit") /\ UNCHANGED signals /\ LoopOnly

(* A commit whose await is cancelled may have reached the database.        *)
CommitEvent == /\ at["event"] = "commit" /\ Committed(item) /\ MovesTo("event", "signal")
               /\ UNCHANGED <<item, row>> /\ LoopOnly
SignalEvent == /\ Runnable("event", "signal") /\ Signalled({item}) /\ MovesTo("event", "complete")
               /\ UNCHANGED <<item, row>> /\ LoopOnly
EndEvent(status) ==
    /\ Runnable("event", IF status = "succeeded" THEN "complete" ELSE "commit")
    /\ row' = [row EXCEPT ![item] = status] /\ item' = None
    /\ MovesTo("event", "sleep") /\ UNCHANGED signals /\ LoopOnly

(* RecurringWorker: an occurrence that is due, then the deliverer.         *)
CommitReminder(s) == /\ Sweeping("recurring") /\ Committed(s) /\ item' = item
                     /\ MovesTo("recurring", "signal") /\ UNCHANGED row /\ LoopOnly
SignalReminders ==
    /\ Runnable("recurring", "signal") /\ MovesTo("recurring", "sleep")
    /\ Signalled(Reminder) /\ UNCHANGED <<item, row>> /\ LoopOnly

(* ReplyWorker: the sweep claims what is there when it begins to look.     *)
TakeReplies == /\ Sweeping("reply") /\ \E s \in Source : news[s] # "none"
               /\ news' = [s \in Source |-> "none"] /\ MovesTo("reply", "deliver")
               /\ UNCHANGED <<item, row, wake>> /\ LoopOnly
SendReplies_ClearsFirst ==
    /\ Runnable("reply", "deliver") /\ MovesTo("reply", "sleep") /\ wake' = FALSE
    /\ UNCHANGED <<item, row, news>> /\ LoopOnly
SendReplies == /\ Runnable("reply", "deliver") /\ MovesTo("reply", "sleep")
               /\ UNCHANGED <<item, row, signals>> /\ LoopOnly

(* _sleep_until_next_poll: wait_for(wake.wait()) ends by the wake-up or by *)
(* its timeout, and other tasks run before the loop does.                  *)
SleepIsOver == /\ Runnable("reply", "sleep") /\ MovesTo("reply", "resume")
               /\ UNCHANGED <<item, row, signals>> /\ LoopOnly
Clear == /\ Runnable("reply", "resume") /\ wake' = FALSE /\ MovesTo("reply", "sweep")
         /\ UNCHANGED <<item, row, news>> /\ LoopOnly

(* wait_for of Python 3.11 drops a cancellation that comes when what it    *)
(* waits for is done.                                                      *)
Swallow == /\ at["reply"] = "resume" /\ cancelled["reply"] /\ wake
           /\ wake' = FALSE /\ at' = [at EXCEPT !["reply"] = "sweep"]
           /\ cancelled' = [cancelled EXCEPT !["reply"] = FALSE]
           /\ UNCHANGED <<item, row, news>> /\ LoopOnly

LoopStep(w) ==
    \/ Ends(w) \/ Idles(w) \/ TimeIsUp(w)
    \/ /\ w = "event"
       /\ \/ \E m \in Message : TakeEvent(m)
          \/ CommitEvent \/ SignalEvent
          \/ EndEvent("succeeded") \/ EndEvent("received")
    \/ w = "recurring" /\ (SignalReminders \/ \E s \in Reminder : CommitReminder(s))
    \/ w = "reply" /\ (TakeReplies \/ SendReplies \/ SleepIsOver \/ Clear \/ Swallow)

-----------------------------------------------------------------------------
(* The lifespan                                                            *)

StageOnly == UNCHANGED <<item, tables, signals, enabled, crashes>>

(* The workers are started, then the receiver: its consumers and thread.   *)
Start == /\ stage = "down" /\ starts < MaxStarts
         /\ stage' = "starting" /\ starts' = starts + 1
         /\ at' = [w \in Worker |-> IF w \in enabled THEN "sweep" ELSE "off"]
         /\ consumer' = [k \in Kind |-> "waiting"] /\ thread' = "connecting"
         /\ UNCHANGED <<stopRequested, overrun, ready, queue, task, stop, cancelled, history>>
         /\ StageOnly

(* start() returns when connected, after 0.25 s, or with an error.         *)
StartReturns == /\ stage = "starting"
                /\ stage' = IF thread = "failed" THEN "join" ELSE "up"
                /\ stopRequested' = (thread = "failed")
                /\ UNCHANGED <<thread, overrun, ready, queue, consumer, task, at, stop,
                               cancelled, history, starts>> /\ StageOnly

BeginStop == /\ stage = "up" /\ stage' = "join" /\ stopRequested' = TRUE
             /\ UNCHANGED <<thread, overrun, ready, queue, consumer, task, at, stop,
                            cancelled, history, starts>> /\ StageOnly

(* thread.join, or its timeout of ten seconds.                             *)
Join(late) == /\ stage = "join" /\ late = (thread \notin {"failed", "ended"})
              /\ stage' = "joined" /\ overrun' = late /\ ready' = Append(ready, Joined)
              /\ UNCHANGED <<thread, stopRequested, queue, consumer, task, at, stop,
                             cancelled, history, starts>> /\ StageOnly

Gathered_NotAwaited == TRUE
Gathered == \A d \in Delivery : task[d] = "none"

(* stop() after each of its awaits: the message consumer is gone, the card *)
(* consumer is gone, the processing tasks are done.                        *)
ReceiverStops ==
    /\ \/ /\ stage = "message" /\ consumer["message"] = "gone"
          /\ stage' = "card" /\ Cancel("card", ready)
       \/ /\ stage = "card" /\ consumer["card"] = "gone"
          /\ stage' = "gather" /\ UNCHANGED <<consumer, ready>>
       \/ /\ stage = "gather" /\ Gathered
          /\ stage' = "event" /\ UNCHANGED <<consumer, ready>>
    /\ UNCHANGED <<thread, stopRequested, overrun, queue, task, at, stop, cancelled,
                   history, starts>> /\ StageOnly

(* EventWorker.stop and the like; a task that is done is not cancelled.    *)
StopWorker(w) == /\ stage = w /\ w \in enabled /\ ~stop[w]
                 /\ stop' = [stop EXCEPT ![w] = TRUE]
                 /\ cancelled' = [cancelled EXCEPT ![w] = TRUE]
                 /\ UNCHANGED <<receiver, at, stage, history, starts>> /\ StageOnly
WorkerStopped(w) == /\ stage = w /\ at[w] \in {"off", "ended"}
                    /\ stage' = After(w)
                    /\ UNCHANGED <<receiver, at, stop, cancelled, history, starts>> /\ StageOnly

(* What is in memory goes with the process.                                *)
Gone == /\ stage' = "down"
        /\ thread' = "none" /\ stopRequested' = FALSE /\ overrun' = FALSE
        /\ ready' = <<>> /\ queue' = EmptyQueues /\ consumer' = NoConsumer /\ task' = NoTask
        /\ at' = AllOff /\ item' = None /\ stop' = NotSet /\ cancelled' = NotSet
        /\ wake' = FALSE /\ news' = NoReplies
        /\ UNCHANGED <<tables, acked, handed, enabled, starts>>
Exit == /\ stage = "disposed" /\ Gone /\ UNCHANGED crashes
        /\ excused' = IF overrun THEN acked ELSE excused
Crash == /\ stage # "down" /\ crashes < MaxCrashes /\ Gone
         /\ crashes' = crashes + 1 /\ excused' = acked

-----------------------------------------------------------------------------
Next == \/ Connect \/ Leave \/ ThreadFails \/ RunCallback
        \/ \E d \in Delivery : Deliver(d) \/ TaskStep(d)
        \/ \E w \in Worker : LoopStep(w) \/ StopWorker(w) \/ WorkerStopped(w)
        \/ Start \/ StartReturns \/ BeginStop \/ Join(TRUE) \/ Join(FALSE)
        \/ ReceiverStops \/ Exit \/ Crash

Spec == Init /\ [][Next]_vars

(* The event loop runs every callback and resumes every task; the join has *)
(* a timeout. Nothing is asked of the thread, which may hang in the SDK,   *)
(* and nothing of what makes the process stop.                             *)
Fairness == /\ WF_vars(RunCallback) /\ WF_vars(\E late \in BOOLEAN : Join(late))
            /\ WF_vars(ReceiverStops) /\ WF_vars(Exit)
            /\ \A d \in Delivery : WF_vars(TaskStep(d))
            /\ \A w \in Worker : /\ WF_vars(LoopStep(w))
                                 /\ WF_vars(StopWorker(w) \/ WorkerStopped(w))

FairSpec == Spec /\ Fairness

-----------------------------------------------------------------------------
(* When the engine is disposed of, no task of the receiver and no loop of  *)
(* a worker is left that could use it.                                     *)
NothingDangles == stage = "disposed" => /\ \A d \in Delivery : task[d] = "none"
                                        /\ \A k \in Kind : consumer[k] = "gone"
                                        /\ \A w \in Worker : at[w] \in {"off", "ended"}

(* Without the event worker, handle() itself runs the processor: once for  *)
(* an event, however often it is delivered, in whatever order its tasks    *)
(* run, over crashes and restarts.                                         *)
SyncRunsOnce == "event" \notin enabled => \A m \in Message : ran[m] <= 1

Inv == TypeOK /\ NothingDangles /\ SyncRunsOnce

(* An orderly stop drops no event that the callback has acknowledged to    *)
(* Feishu, also while the thread goes on delivering as it leaves: all that *)
(* the thread handed over before it ended is claimed, or has failed, by    *)
(* the time the engine is disposed of.                                     *)
AckedIsHanded == stage = "disposed" /\ ~overrun => acked \subseteq handed \cup excused

(* The reply loop never sleeps over a wake-up: when it sleeps and wake is  *)
(* not set, nothing was committed and signalled since it began to look.    *)
NoWakeupLost == at["reply"] = "sleep" /\ ~wake => \A s \in Source : news[s] # "signalled"

(* What every step preserves. An event the callback has acknowledged is on *)
(* its way to a task, in the loop's queue of callbacks, in a consumer's    *)
(* queue or with its task, and nothing else is; ...                        *)
OnItsWay(d) == Has(ready, Enqueueing(d)) \/ Has(queue[KindOf(d)], d) \/ task[d] # "none"
Tracked == /\ \A d \in Delivery : OnItsWay(d) => d \in acked
           /\ ~overrun => \A d \in acked : d \in handed \cup excused \/ OnItsWay(d)

(* ... a consumer that has work to do is scheduled once, and so is what    *)
(* follows the join; a consumer waits only for an empty queue; ...         *)
SameSort(a, b) == \/ a = b /\ a.do = "consume"
                  \/ {a.do, b.do} \subseteq {"joined", "goOn"}
Once(s) == \A i, j \in DOMAIN s : SameSort(s[i], s[j]) => i = j
Scheduled ==
    /\ Once(ready)
    /\ \A k \in Kind : consumer[k] \in {"woken", "cancelled"} <=> Has(ready, Consuming(k))
    /\ Has(ready, Joined) \/ Has(ready, GoOn) => stage = "joined"
    /\ \A k \in Kind : consumer[k] = "waiting" => queue[k] = <<>>

(* ... the lifespan cancels one consumer after the other; ...              *)
Early == {"starting", "up", "join", "joined"}
Late == {"gather", "disposed"} \cup Worker
Listening == {"waiting", "woken"}
Stopping == {"cancelled", "gone"}
Cancelled ==
    /\ stage \in Early => \A k \in Kind : consumer[k] \in Listening
    /\ stage = "message" => consumer["message"] \in Stopping /\ consumer["card"] \in Listening
    /\ stage = "card" => consumer["message"] = "gone" /\ consumer["card"] \in Stopping
    /\ stage \in Late => \A k \in Kind : consumer[k] = "gone"

(* ... what the thread handed over goes before the news of its end, and    *)
(* the consumers it woke before stop() goes on, unless the join was given  *)
(* up; ...                                                                 *)
InOrder(s) == \A i, j \in DOMAIN s :
    /\ s[i].do = "joined" /\ s[j].do = "enqueue" => j < i
    /\ s[i].do = "goOn" => s[j].do # "enqueue" /\ (s[j].do = "consume" => j < i)
HandedOver ==
    /\ stage \in {"down", "starting", "up", "join"} => ~overrun
    /\ ~overrun /\ stage \in {"joined", "message", "card"} \cup Late => thread \in {"failed", "ended"}
    /\ ~overrun /\ stage = "joined" => InOrder(ready)
    /\ ~overrun /\ stage \in {"message", "card"} \cup Late =>
          /\ \A i \in DOMAIN ready : ready[i].do # "enqueue"
          /\ \A k \in Kind : queue[k] = <<>>

(* ... what is stopped is over when the next is; nothing is left of a      *)
(* process that is down; ...                                               *)
Halted ==
    /\ stage \in {"disposed"} \cup Worker => \A d \in Delivery : task[d] = "none"
    /\ stage \in {"reply", "cleanup", "recurring", "disposed"} => at["event"] \in {"off", "ended"}
    /\ stage \in {"cleanup", "recurring", "disposed"} => at["reply"] \in {"off", "ended"}
    /\ stage \in {"recurring", "disposed"} => at["cleanup"] \in {"off", "ended"}
    /\ stage = "disposed" => at["recurring"] \in {"off", "ended"}
Down == stage = "down" => /\ thread = "none" /\ ready = <<>> /\ queue = EmptyQueues
                          /\ consumer = NoConsumer /\ task = NoTask
                          /\ acked \subseteq handed \cup excused

(* ... of the tasks of one event one claims it and only that one runs the  *)
(* processor; and what is signalled while the reply loop delivers wakes it.*)
Runner(d) == task[d] \in {"mark", "process"}
OneRunner ==
    "event" \notin enabled =>
        /\ \A c, d \in Delivery : (/\ Runner(c) /\ Runner(d)
                                   /\ EventOf[c] = EventOf[d] /\ EventOf[d] \in Message) => c = d
        /\ \A d \in Delivery : Runner(d) /\ EventOf[d] \in Message =>
                                  row[EventOf[d]] # "absent" /\ ran[EventOf[d]] = 0
        /\ \A m \in Message : row[m] = "absent" => ran[m] = 0
Awake == at["reply"] \in {"deliver", "sleep"} /\ ~wake => \A s \in Source : news[s] # "signalled"

IInv == /\ Inv /\ Tracked /\ Scheduled /\ Cancelled /\ HandedOver
        /\ Halted /\ Down /\ OneRunner /\ Awake

(* A stop comes to its end, whatever the loops are doing when they are     *)
(* cancelled, and whatever the thread does.                                *)
ShutdownEnds == stage = "join" ~> stage = "down"

=============================================================================
