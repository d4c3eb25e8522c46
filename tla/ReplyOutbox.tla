---------------------------- MODULE ReplyOutbox ----------------------------
(***************************************************************************)
(* Delivery of committed replies: table reply_outbox, the ReplyWorker      *)
(* processes that claim and send its rows, Feishu's reply API with its     *)
(* uuid idempotency, the operator's two replays and the legacy             *)
(* reconciliation, and retention.                                          *)
(*                                                                         *)
(* Each action is one database transaction or one call of the Feishu API.  *)
(* Time is abstracted as in EventWorker: leases and retry times become due *)
(* by LeaseRunsOut and RetryFallsDue, and WindowCloses ends the hour in    *)
(* which Feishu remembers a uuid.                                          *)
(***************************************************************************)
EXTENDS Naturals, FiniteSets

CONSTANTS Reply,       \* outbox rows
          Earlier,     \* Earlier[r]: rows of the same event with a smaller sequence
          FileReply,   \* rows whose file must be uploaded before it is sent
          CardReply,   \* rows whose image is uploaded before, if that works
          Worker, None,
          MaxAttempts, \* REPLY_MAX_ATTEMPTS
          BatchSize,
          MaxCrashes, MaxStalls,  \* bounds, as in EventWorker
          MaxWindows,             \* bound: uuid windows that close
          MaxResultReplays,       \* bound: calls of the result replay
          MaxDeadLetterReplays,   \* bound: dead-letter replays
          MaxReconciles           \* bound: rows suppressed by the reconciliation

ASSUME ReplyOutboxAssumption ==
    /\ Earlier \in [Reply -> SUBSET Reply] 
    /\ FileReply \subseteq Reply /\ CardReply \subseteq Reply \ FileReply
    /\ None \notin Reply /\ None \notin Worker
    /\ MaxAttempts \in Nat \ {0} /\ BatchSize \in Nat \ {0}
    /\ {MaxCrashes, MaxStalls, MaxWindows} \subseteq Nat
    /\ {MaxResultReplays, MaxDeadLetterReplays, MaxReconciles} \subseteq Nat

VARIABLES
    row,       \* row[r]: r's row of reply_outbox
    worker,    \* worker[w]: the sweep w is in
    shown,     \* shown[r]: messages of r the user sees
    window,    \* window[r]: does Feishu still remember r's uuid
    replaying, \* rows a result replay has read as failed or dead and not yet written
    gaveUp,    \* history: rows that have been dead
    spent      \* spent[b]: how much of each bound is used

vars == <<row, worker, shown, window, replaying, gaveUp, spent>>

Status == {"absent", "pending", "sending", "sent", "failed", "dead", "purged"}
Row == [status : Status, owner : Worker \cup {None},
        lease : {"none", "live", "expired"}, retry : {"none", "later", "due"},
        attempts : Nat, remote : BOOLEAN, key : BOOLEAN]
NoRow == [status |-> "absent", owner |-> None, lease |-> "none", retry |-> "none",
          attempts |-> 0, remote |-> FALSE, key |-> FALSE]

(* Stage of the row a worker is at: "load" before any upload, "send" ready *)
(* to call the reply API, "sent" after its answer, or an exception.        *)
(* key: was the uploaded file's key known at the claim or since.           *)
Stage == {"ready", "load", "send", "sent", "transient", "permanent"}
Sweep == [batch : SUBSET Reply, cur : Reply \cup {None}, stage : Stage, keys : SUBSET Reply]
Idle == [batch |-> {}, cur |-> None, stage |-> "ready", keys |-> {}]

Bound == [crash |-> MaxCrashes, stall |-> MaxStalls, window |-> MaxWindows,
          result |-> MaxResultReplays, deadLetter |-> MaxDeadLetterReplays,
          reconcile |-> MaxReconciles]

TypeOK == /\ row \in [Reply -> Row]
          /\ worker \in [Worker -> Sweep]
          /\ shown \in [Reply -> Nat]
          /\ window \in [Reply -> {"unused", "open", "closed"}]
          /\ replaying \subseteq Reply /\ gaveUp \subseteq Reply
          /\ spent \in [DOMAIN Bound -> Nat]

Init == /\ row = [r \in Reply |-> NoRow]
        /\ worker = [w \in Worker |-> Idle]
        /\ shown = [r \in Reply |-> 0]
        /\ window = [r \in Reply |-> "unused"]
        /\ replaying = {} /\ gaveUp = {}
        /\ spent = [b \in DOMAIN Bound |-> 0]

-----------------------------------------------------------------------------
(* Helpers. An operator named X_Y is X with a bug of the kind a change to  *)
(* the code could bring in; no definition uses it, see the README.         *)

Spend(b) == spent[b] < Bound[b] /\ spent' = [spent EXCEPT ![b] = @ + 1]

Due_NoTakeover(r) == \/ row[r].status = "pending"
                     \/ row[r].status = "failed" /\ row[r].retry = "due"
Due(r) == \/ row[r].status = "pending"
          \/ row[r].status = "failed" /\ row[r].retry = "due"
          \/ row[r].status = "sending" /\ row[r].lease = "expired"

(* An earlier reply of the same event still has to be sent or given up.    *)
Blocked_Never(r) == FALSE
Blocked(r) == \E q \in Earlier[r] : row[q].status \notin {"sent", "dead", "purged", "absent"}

Holds_NoOwner(w, r) == row[r].status = "sending"
(* The guard every outcome update carries in its WHERE clause.             *)
Holds(w, r) == row[r].status = "sending" /\ row[r].owner = w

FailureStatus(attempts, permanent) ==
    IF permanent \/ attempts >= MaxAttempts THEN "dead" ELSE "failed"

InFlight(r) == \E w \in Worker : r \in worker[w].batch

AtStage(w, s) == worker' = [worker EXCEPT ![w].stage = s]
NextItem(w) == worker' = [worker EXCEPT ![w].batch = @ \ {worker[w].cur},
                                        ![w].cur = None, ![w].stage = "ready"]

Released(r, status, retry) ==
    [row[r] EXCEPT !.status = status, !.retry = retry, !.owner = None, !.lease = "none"]

(* Feishu shows the message, unless it still remembers the uuid (row id).  *)
Show_FreshUuid(r) == /\ shown' = [shown EXCEPT ![r] = @ + 1]
                     /\ window' = [window EXCEPT ![r] = "open"]
Show(r) == /\ shown' = [shown EXCEPT ![r] = IF window[r] = "open" THEN @ ELSE @ + 1]
           /\ window' = [window EXCEPT ![r] = "open"]

feishu == <<shown, window>>

-----------------------------------------------------------------------------
(* The business transaction of an event commits all of its reply intents.  *)
Enqueue(R) ==
    /\ R # {} /\ \A r \in R : row[r].status = "absent" /\ Earlier[r] \subseteq R
    /\ \A r \in R, q \in Reply : r \in Earlier[q] => q \in R
    /\ row' = [r \in Reply |-> IF r \in R THEN [NoRow EXCEPT !.status = "pending"] ELSE row[r]]
    /\ UNCHANGED <<worker, feishu, replaying, gaveUp, spent>>

(* Clock                                                                   *)
LeaseRunsOut(r) ==
    /\ row[r].lease = "live"
    /\ IF row[r].status = "sending" /\ r \in worker[row[r].owner].batch
       THEN Spend("stall") ELSE UNCHANGED spent
    /\ row' = [row EXCEPT ![r].lease = "expired"]
    /\ UNCHANGED <<worker, feishu, replaying, gaveUp>>

RetryFallsDue(r) ==
    /\ row[r].status = "failed" /\ row[r].retry = "later"
    /\ row' = [row EXCEPT ![r].retry = "due"]
    /\ UNCHANGED <<worker, feishu, replaying, gaveUp, spent>>

WindowCloses(r) ==
    /\ window[r] = "open" /\ Spend("window")
    /\ window' = [window EXCEPT ![r] = "closed"]
    /\ UNCHANGED <<row, worker, shown, replaying, gaveUp>>

-----------------------------------------------------------------------------
(* Reply worker                                                            *)

(* FOR UPDATE SKIP LOCKED: claim due rows no earlier reply holds back.     *)
Claim(w, S) ==
    /\ worker[w].batch = {}
    /\ S # {} /\ Cardinality(S) <= BatchSize
    /\ \A r \in S : Due(r) /\ ~Blocked(r)
    /\ row' = [r \in Reply |->
                 IF r \in S
                 THEN [row[r] EXCEPT !.status = "sending", !.owner = w, !.lease = "live",
                                     !.retry = "none", !.attempts = @ + 1]
                 ELSE row[r]]
    /\ worker' = [worker EXCEPT ![w].batch = S, ![w].keys = {r \in S : row[r].key}]
    /\ UNCHANGED <<feishu, replaying, gaveUp, spent>>

Begin(w, r) ==
    /\ worker[w].cur = None /\ r \in worker[w].batch
    /\ worker' = [worker EXCEPT ![w].cur = r,
                    ![w].stage = IF r \in (FileReply \cup CardReply) \ worker[w].keys
                                 THEN "load" ELSE "send"]
    /\ UNCHANGED <<row, feishu, replaying, gaveUp, spent>>

(* Upload, then keep the key for every later attempt; without the lease    *)
(* the delivery is left to the new owner.                                  *)
Upload(w) ==
    LET r == worker[w].cur IN
    /\ worker[w].stage = "load"
    /\ IF Holds(w, r)
       THEN row' = [row EXCEPT ![r].key = TRUE] /\ AtStage(w, "send")
       ELSE UNCHANGED row /\ NextItem(w)
    /\ UNCHANGED <<feishu, replaying, gaveUp, spent>>

(* A card whose image cannot be uploaded is sent without it.               *)
DropImage(w) ==
    /\ worker[w].stage = "load" /\ worker[w].cur \in CardReply
    /\ AtStage(w, "send")
    /\ UNCHANGED <<row, feishu, replaying, gaveUp, spent>>

(* The reply API: the lease is not looked at. The answer may be lost after *)
(* the message was created.                                                *)
Send(w, answer) ==
    /\ worker[w].stage = "send"
    /\ Show(worker[w].cur)
    /\ AtStage(w, answer)
    /\ UNCHANGED <<row, replaying, gaveUp, spent>>

(* A stored contract is broken, or Feishu refuses or is not reached.       *)
Fail_Swallowed(w, kind) ==
    /\ worker[w].stage \in {"load", "send"} /\ kind = "transient"
    /\ AtStage(w, "sent")
    /\ UNCHANGED <<row, feishu, replaying, gaveUp, spent>>
Fail(w, kind) ==
    /\ worker[w].stage \in {"load", "send"}
    /\ AtStage(w, kind)
    /\ UNCHANGED <<row, feishu, replaying, gaveUp, spent>>

MarkSent(w) ==
    LET r == worker[w].cur IN
    /\ worker[w].stage = "sent"
    /\ row' = IF Holds(w, r)
              THEN [row EXCEPT ![r] = [Released(r, "sent", "none") EXCEPT !.remote = TRUE]]
              ELSE row
    /\ NextItem(w)
    /\ UNCHANGED <<feishu, replaying, gaveUp, spent>>

RecordFailure(w) ==
    LET r == worker[w].cur
        st == FailureStatus(row[r].attempts, worker[w].stage = "permanent")
    IN
    /\ worker[w].stage \in {"transient", "permanent"}
    /\ IF Holds(w, r)
       THEN /\ row' = [row EXCEPT ![r] =
                         Released(r, st, IF st = "failed" THEN "later" ELSE "none")]
            /\ gaveUp' = IF st = "dead" THEN gaveUp \cup {r} ELSE gaveUp
       ELSE UNCHANGED <<row, gaveUp>>
    /\ NextItem(w)
    /\ UNCHANGED <<feishu, replaying, spent>>

(* Crash, stop() or a failed sweep: rows stay leased in the table.         *)
Abandon(w) ==
    /\ worker[w].batch # {} /\ Spend("crash")
    /\ worker' = [worker EXCEPT ![w] = Idle]
    /\ UNCHANGED <<row, feishu, replaying, gaveUp>>

-----------------------------------------------------------------------------
(* Operators and retention                                                 *)

(* OutboxReplayService: the rows are read without a lock ...               *)
ResultReplayRead(r) ==
    /\ row[r].status \in {"failed", "dead"} /\ r \notin replaying
    /\ Spend("result")
    /\ replaying' = replaying \cup {r}
    /\ UNCHANGED <<row, worker, feishu, gaveUp>>

(* ... and the columns it changed are written back by primary key. The     *)
(* lease columns were already NULL in what it read and stay untouched.     *)
ResultReplayWrite(r) ==
    /\ r \in replaying
    /\ replaying' = replaying \ {r}
    /\ row' = IF row[r].status = "purged" THEN row
              ELSE [row EXCEPT ![r].status = "pending", ![r].retry = "none"]
    /\ UNCHANGED <<worker, feishu, gaveUp, spent>>

(* DeadLetterOpsService._replay_outbox: one transaction under FOR UPDATE.  *)
DeadLetterReplay(r) ==
    /\ row[r].status \in {"failed", "dead"} /\ ~row[r].remote
    /\ Spend("deadLetter")
    /\ row' = [row EXCEPT ![r] = Released(r, "pending", "none")]
    /\ UNCHANGED <<worker, feishu, replaying, gaveUp>>

(* reconcile_legacy_owner_mismatch(execute=True) for one expired row.      *)
Reconcile(r) ==
    /\ row[r].status = "sending" /\ row[r].lease = "expired" /\ ~row[r].remote
    /\ Spend("reconcile")
    /\ row' = [row EXCEPT ![r] = Released(r, "dead", "none")]
    /\ gaveUp' = gaveUp \cup {r}
    /\ UNCHANGED <<worker, feishu, replaying>>

(* Retention (days) never meets a row still in a worker's batch (minutes). *)
Purge(r) ==
    /\ row[r].status \in {"sent", "dead"} /\ row[r].lease # "live" /\ ~InFlight(r)
    /\ row' = [row EXCEPT ![r] = [NoRow EXCEPT !.status = "purged"]]
    /\ UNCHANGED <<worker, feishu, replaying, gaveUp, spent>>

-----------------------------------------------------------------------------
WorkerStep(w) ==
    \/ \E S \in SUBSET Reply : Claim(w, S)
    \/ \E r \in Reply : Begin(w, r)
    \/ Upload(w)
    \/ DropImage(w)
    \/ \E answer \in {"sent", "transient"} : Send(w, answer)
    \/ \E kind \in {"transient", "permanent"} : Fail(w, kind)
    \/ MarkSent(w)
    \/ RecordFailure(w)

Next == \/ \E R \in SUBSET Reply : Enqueue(R)
        \/ \E w \in Worker : WorkerStep(w) \/ Abandon(w)
        \/ \E r \in Reply : \/ LeaseRunsOut(r) \/ RetryFallsDue(r) \/ WindowCloses(r)
                            \/ ResultReplayRead(r) \/ ResultReplayWrite(r)
                            \/ DeadLetterReplay(r) \/ Reconcile(r) \/ Purge(r)

Spec == Init /\ [][Next]_vars

(* The reply worker keeps sweeping, its calls return, and the clock runs.  *)
Fairness == /\ \A w \in Worker : WF_vars(WorkerStep(w))
            /\ \A r \in Reply : /\ WF_vars(LeaseRunsOut(r)) /\ WF_vars(RetryFallsDue(r))
                                /\ WF_vars(ResultReplayWrite(r))
FairSpec == Spec /\ Fairness

-----------------------------------------------------------------------------
(* A reply never overtakes an earlier one of its event: when the user sees *)
(* it, every earlier one was shown first or had been given up.             *)
NoOvertaking ==
    \A r \in Reply : shown[r] > 0 => \A q \in Earlier[r] : shown[q] > 0 \/ q \in gaveUp

(* The user sees a reply once for each uuid window: crashes, takeovers and *)
(* lost answers add no message while Feishu remembers the row's uuid.      *)
OneMessagePerWindow == \A r \in Reply : shown[r] <= 1 + spent["window"]

(* A row recorded as sent was shown to the user, and only such a row.      *)
SentWasShown == \A r \in Reply : row[r].status = "sent" \/ row[r].remote => shown[r] > 0

(* What a batch rests on: the earlier replies of a claimed one are settled *)
(* for good, however long the worker takes.                                *)
BatchesCleared ==
    \A w \in Worker : \A r \in worker[w].batch :
        \A q \in Earlier[r] : shown[q] > 0 \/ q \in gaveUp

(* A worker is at a row of its batch, and past the call of Feishu the user *)
(* sees the row.                                                           *)
Positions ==
    \A w \in Worker :
        /\ worker[w].cur = None <=> worker[w].stage = "ready"
        /\ worker[w].cur # None => worker[w].cur \in worker[w].batch
        /\ worker[w].stage = "sent" => shown[worker[w].cur] > 0

(* A row that is dead was given up, a deleted one was shown or given up.   *)
RowsTell ==
    \A r \in Reply : /\ row[r].status = "dead" => r \in gaveUp
                     /\ row[r].status = "purged" => shown[r] > 0 \/ r \in gaveUp

(* The replies of an event come to the table together, and only such rows  *)
(* are replayed.                                                           *)
Together ==
    /\ \A r \in Reply : row[r].status # "absent" =>
           \A q \in Earlier[r] : row[q].status # "absent"
    /\ \A r \in replaying : row[r].status # "absent"

(* How often a reply was shown, by what Feishu remembers of its uuid.      *)
Windows ==
    \A r \in Reply :
        /\ window[r] = "unused" => shown[r] = 0
        /\ window[r] = "open" => shown[r] > 0 /\ shown[r] <= 1 + spent["window"]
        /\ window[r] = "closed" => shown[r] <= spent["window"]

(* The tables have their shape and tell the truth about what was shown;    *)
(* with what the safety of the order and of the windows rests on.          *)
IInv == /\ TypeOK /\ SentWasShown /\ BatchesCleared /\ Positions /\ RowsTell
        /\ Together /\ Windows /\ NoOvertaking

(* Only the holder of the lease, at the end of its own attempt, records    *)
(* the outcome of a row (the reconciliation of an expired one excepted).   *)
OutcomeByHolder ==
    [][\A r \in Reply :
          row[r].status = "sending" /\ row'[r].status \in {"sent", "failed", "dead"}
          /\ ~(row[r].lease = "expired" /\ spent'["reconcile"] > spent["reconcile"])
            => LET w == row[r].owner IN
               /\ worker[w].cur = r /\ worker'[w].cur = None
               /\ row'[r].status = "sent" <=> worker[w].stage = "sent"]_vars

(* Every committed reply is eventually sent or given up, and a reply that  *)
(* was held back by an earlier one is not held back forever.               *)
EventuallyResolved ==
    \A r \in Reply : row[r].status = "pending" ~> row[r].status \in {"sent", "dead", "purged"}

(* What the documents claim and the code does not keep, see the README.    *)

(* "sent rows are never replayed or re-sent."                              *)
SentNeverReplayed ==
    [][\A r \in Reply : row[r].status = "sent" => row'[r].status # "pending"]_vars
=============================================================================
