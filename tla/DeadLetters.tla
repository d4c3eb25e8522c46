---------------------------- MODULE DeadLetters ----------------------------
(***************************************************************************)
(* The operator's view of what the queues could not finish, and what the   *)
(* operator may do about it: lists and details with a verdict about replay,*)
(* replay and resolve with their audit trail, and the direct replay of an  *)
(* event, beside workers and retention that go on changing the same rows.  *)
(*                                                                         *)
(* The rows' own life is EventWorker, ReplyOutbox and PendingConfirm; here *)
(* it is the environment, each outcome of an attempt one step. An operator *)
(* request is cut where a transaction begins, waits for a row lock or ends.*)
(***************************************************************************)
EXTENDS Naturals, Sequences, FiniteSets

CONSTANTS Event,       \* rows of processed_events
          Reply,       \* rows of reply_outbox
          Command,     \* rows of pending_commands
          EventOf,     \* EventOf[r]: the event that r answers
          Operator,    \* requests of operators in flight at one time
          Raised,      \* the errors that attempts meet
          None,        \* SQL NULL
          MaxRequests, \* bound: requests of operators
          MaxFailures  \* bound: attempts of a row that fail or lose their lease

(* One exception class, or one HTTP status, for each way the code tells    *)
(* them apart; "Other" is a class no table of it names.                    *)
Code == {"ReadTimeout", "ConnectError", "ValueError", "IntegrityError", "OperationalError",
         "LeaseLostError", "http_400", "http_401", "http_403", "http_404", "http_409",
         "http_418", "http_429", "http_503", "Other"}

ASSUME DeadLettersAssumption ==
    /\ Raised \subseteq Code
    /\ EventOf \in [Reply -> Event]
    /\ Event \cap Reply = {} /\ Event \cap Command = {} /\ Reply \cap Command = {}
    /\ None \notin Event \cup Reply \cup Command /\ None \notin Operator
    /\ MaxRequests \in Nat /\ MaxFailures \in Nat

Item == Event \cup Reply \cup Command

VARIABLES
    row,      \* row[i]: i's row in its table
    lock,     \* lock[i]: the operator transaction that holds i FOR UPDATE
    trail,    \* trail[i]: i's dead_letter_actions, oldest first
    deep,     \* deep[e]: event_replay_audits of e that say requeued
    op,       \* op[o]: where o's request is
    failures, \* history: attempts of a row that failed or lost their lease
    requests  \* requests made so far

vars == <<row, lock, trail, deep, op, failures, requests>>

-----------------------------------------------------------------------------
(* Failure classes                                                         *)

Retryable == {"network", "timeout", "rate_limited"}

HttpStatusReason(c) == CASE c \in {"http_400", "http_418"} -> "remote_rejected"
                         [] c = "http_401" -> "authentication"
                         [] c = "http_403" -> "permission"
                         [] c = "http_404" -> "remote_not_found"
                         [] c = "http_409" -> "business_conflict"
                         [] c = "http_429" -> "rate_limited"
                         [] OTHER -> "network"

(* classify_error_code: the stored class name, refined by the HTTP status. *)
ReasonOf(c) == CASE c = "ReadTimeout" -> "timeout"
                 [] c = "ConnectError" -> "network"
                 [] c = "ValueError" -> "serialization"
                 [] c \in {"IntegrityError", "OperationalError"} -> "database"
                 [] c = "LeaseLostError" -> "business_conflict"
                 [] c \in {None, "Other"} -> "unknown"
                 [] OTHER -> HttpStatusReason(c)

(* is_permanent_error: what a worker does not try again.                   *)
Permanent(c) == c \in {"ValueError", "IntegrityError", "http_400", "http_401", "http_403",
                       "http_404", "http_409", "http_418"}

-----------------------------------------------------------------------------
(* Rows                                                                    *)

Status(i) == CASE i \in Event -> {"absent", "received", "processing", "failed", "dead",
                                  "succeeded", "purged"}
               [] i \in Reply -> {"absent", "pending", "sending", "failed", "dead", "sent",
                                  "purged"}
               [] OTHER -> {"pending", "executing", "executed", "cancelled", "expired", "failed"}
AnyStatus == {"absent", "received", "processing", "failed", "dead", "succeeded", "purged",
              "pending", "sending", "sent", "executing", "executed", "cancelled", "expired"}

(* What a replay puts the row back to.                                     *)
Waiting(i) == IF i \in Event THEN "received" ELSE "pending"
Trying(i) == CASE i \in Event -> "processing" [] i \in Reply -> "sending" [] OTHER -> "executing"

Stage == {"idle", "picked", "locked", "audit"}
Idle == [stage |-> "idle", item |-> None, action |-> "none", before |-> "none"]

(* error: last_error_code. lease: the row's lease is in force. done: the   *)
(* side effect is on record, business_committed_at or remote_message_id.   *)
Row == [status : AnyStatus, error : Code \cup {None}, lease : BOOLEAN, done : BOOLEAN]
Mark == [action : {"replay", "resolve"}, before : AnyStatus, after : AnyStatus]
Request == [stage : Stage, item : Item \cup {None}, action : {"none", "replay", "resolve"},
            before : AnyStatus \cup {"none"}]

TypeOK == /\ row \in [Item -> Row] /\ \A i \in Item : row[i].status \in Status(i)
          /\ trail \in [Item -> Seq(Mark)]
          /\ \A i \in Item : \A n \in DOMAIN trail[i] :
                trail[i][n].after \in Status(i) \cap {trail[i][n].before, Waiting(i)}
          /\ lock \in [Item -> Operator \cup {None}]
          /\ deep \in [Event -> Nat]
          /\ op \in [Operator -> Request]
          /\ failures \in [Item -> Nat] /\ requests \in Nat

Init == /\ row = [i \in Item |-> [status |-> IF i \in Command THEN "pending" ELSE "absent",
                                  error |-> None, lease |-> FALSE, done |-> FALSE]]
        /\ lock = [i \in Item |-> None]
        /\ trail = [i \in Item |-> <<>>]
        /\ deep = [e \in Event |-> 0]
        /\ op = [o \in Operator |-> Idle]
        /\ failures = [i \in Item |-> 0]
        /\ requests = 0

Exists(i) == row[i].status \notin {"absent", "purged"}

(* A lock that a transaction takes on a row makes every other wait.        *)
Free_Always(i) == TRUE
Free(i) == lock[i] = None

(* assessment_for: may the item be replayed, and at what risk. The services*)
(* pass no business result of an event.                                    *)
Reason(i) == IF i \in Command THEN (IF row[i].status = "expired" THEN "expired" ELSE "unknown")
             ELSE ReasonOf(row[i].error)
ReplaySafe(i) == /\ row[i].status \in {"dead", "failed"}
                 /\ Reason(i) \in Retryable
                 /\ i \in Reply => ~row[i].done

Resolved(i) == \E n \in DOMAIN trail[i] : trail[i][n].action = "resolve"

(* _resolve_status_filter: no status at all means no predicate.            *)
Filter == {"default", "pending", "retry", "dead", "resolved", "terminal"}
Statuses(f) == CASE f = "default" -> {"dead", "failed"}
                 [] f = "pending" -> {"received", "processing", "pending", "sending", "executing"}
                 [] f = "retry" -> {"failed"}
                 [] f = "dead" -> {"dead"}
                 [] f = "resolved" -> {}
                 [] f = "terminal" -> {"succeeded", "sent", "executed", "cancelled", "expired",
                                       "failed"}
Listed(f, onlySafe) ==
    {i \in Item : /\ Exists(i)
                  /\ Statuses(f) = {} \/ row[i].status \in Statuses(f)
                  /\ onlySafe => ReplaySafe(i)}
(* The older pages: events or replies in one status.                       *)
QueuePage(queue, status) == {i \in queue : Exists(i) /\ row[i].status = status}

-----------------------------------------------------------------------------
(* Workers, users and retention: what the queues do meanwhile. Each of     *)
(* these updates one row and waits while an operator holds it.             *)

Move(i, changed) == /\ Free(i)
                    /\ row' = [row EXCEPT ![i] = changed]
                    /\ UNCHANGED <<lock, trail, deep, op, requests>>

Arrive(e) == /\ row[e].status = "absent"
             /\ Move(e, [row[e] EXCEPT !.status = "received"])
             /\ UNCHANGED failures

Claim(i) == /\ \/ row[i].status \in {"received", "pending", "failed"} /\ i \notin Command
               \/ row[i].status = "pending" /\ i \in Command
               \/ row[i].status = Trying(i) /\ i \notin Command /\ ~row[i].lease
            /\ Move(i, [row[i] EXCEPT !.status = Trying(i), !.lease = i \notin Command])
            /\ UNCHANGED failures

LeaseRunsOut(i) == /\ row[i].lease /\ failures[i] < MaxFailures
                   /\ row' = [row EXCEPT ![i].lease = FALSE]
                   /\ failures' = [failures EXCEPT ![i] = @ + 1]
                   /\ UNCHANGED <<lock, trail, deep, op, requests>>

(* The business transaction of an attempt, which may have lost its lease:  *)
(* it commits the result with the reply, see EventWorker.                  *)
CommitResult(e) ==
    /\ row[e].status \in {"processing", "failed", "dead"} /\ ~row[e].done
    /\ Free(e)
    /\ \A r \in Reply : EventOf[r] = e => row[r].status = "absent"
    /\ row' = [i \in Item |->
                 IF i = e THEN [row[e] EXCEPT !.done = TRUE]
                 ELSE IF i \in Reply /\ EventOf[i] = e THEN [row[i] EXCEPT !.status = "pending"]
                 ELSE row[i]]
    /\ UNCHANGED <<lock, trail, deep, op, failures, requests>>

Succeed(i) ==
    /\ row[i].status = Trying(i)
    /\ Move(i, [row[i] EXCEPT !.status = CASE i \in Event -> "succeeded"
                                           [] i \in Reply -> "sent"
                                           [] OTHER -> "executed",
                              !.lease = FALSE, !.error = None, !.done = @ \/ i \in Reply])
    /\ UNCHANGED failures

(* An attempt fails: dead at once when the error is permanent, else when   *)
(* the attempts are used up.                                               *)
FailAttempt(i, c, status) ==
    /\ row[i].status = Trying(i) /\ i \notin Command
    /\ Permanent(c) => status = "dead"
    /\ failures[i] < MaxFailures
    /\ failures' = [failures EXCEPT ![i] = @ + 1]
    /\ Move(i, [row[i] EXCEPT !.status = status, !.lease = FALSE, !.error = c])

Decide(c, status) ==
    /\ c \in Command /\ row[c].status \in {"pending", "executing"}
    /\ status = "failed" => row[c].status = "executing"
    /\ Move(c, [row[c] EXCEPT !.status = status])
    /\ UNCHANGED failures

Purge(i) == /\ row[i].status \in {"succeeded", "sent", "dead"}
            /\ i \in Event => \A r \in Reply : EventOf[r] = i => ~Exists(r)
            /\ Move(i, [row[i] EXCEPT !.status = "purged", !.error = None, !.done = FALSE])
            /\ UNCHANGED failures

-----------------------------------------------------------------------------
(* Operator                                                                *)

At(o, s) == op[o].stage = s
Return(o) == op' = [op EXCEPT ![o] = Idle]

(* An item is picked from a list or a page. What is done to it later does  *)
(* not ask whether the row is still what was shown.                        *)
Pick(o, i) ==
    /\ At(o, "idle") /\ requests < MaxRequests
    /\ op' = [op EXCEPT ![o].stage = "picked", ![o].item = i]
    /\ requests' = requests + 1
    /\ UNCHANGED <<row, lock, trail, deep, failures>>

Requeueable_AnyOpen(r) == row[r].status \notin {"sent", "purged"}
Requeueable(r) == row[r].status \in {"dead", "failed"} /\ ~row[r].done

(* _replay_outbox, resolve: SELECT ... FOR UPDATE, and what the request    *)
(* goes by is read under the lock: the row's status and, for a resolve,    *)
(* whether there is a marker. Otherwise 409, or "already resolved".        *)
LockRow(o, action) ==
    LET i == op[o].item IN
    /\ At(o, "picked")
    /\ Exists(i) /\ Free(i)
    /\ IF action = "replay" THEN i \in Reply /\ Requeueable(i) ELSE ~Resolved(i)
    /\ op' = [op EXCEPT ![o].stage = "locked", ![o].action = action, ![o].before = row[i].status]
    /\ lock' = [lock EXCEPT ![i] = o]
    /\ UNCHANGED <<row, trail, deep, failures, requests>>

Record(o, action, after) ==
    trail' = [trail EXCEPT ![op[o].item] =
                Append(@, [action |-> action, before |-> op[o].before, after |-> after])]
Unlock(i) == lock' = [lock EXCEPT ![i] = None]

(* The row goes back to the reply worker and the audit row with it, in one *)
(* commit.                                                                 *)
ReplayReply(o) ==
    LET r == op[o].item IN
    /\ At(o, "locked") /\ op[o].action = "replay"
    /\ row' = [row EXCEPT ![r].status = Waiting(r), ![r].error = None, ![r].lease = FALSE]
    /\ Record(o, "replay", Waiting(r))
    /\ Unlock(r) /\ Return(o)
    /\ UNCHANGED <<deep, failures, requests>>

(* The marker; the row stays as it is.                                     *)
Resolve(o) ==
    /\ At(o, "locked") /\ op[o].action = "resolve"
    /\ Record(o, "resolve", op[o].before)
    /\ Unlock(op[o].item) /\ Return(o)
    /\ UNCHANGED <<row, deep, failures, requests>>

(* The preflight of EventReplayService (payload and versions set aside).   *)
Eligible(e) ==
    /\ row[e].status \in {"dead", "failed", "processing"} /\ ~row[e].lease
    /\ ~row[e].done
    /\ \A r \in Reply : EventOf[r] = e => ~Exists(r)

(* The requeue of an event is a transaction with its own audit. Through the*)
(* dead letters (unified) a second transaction writes the common audit.    *)
ReplayEvent(o, unified) ==
    LET e == op[o].item IN
    /\ At(o, "picked") /\ e \in Event
    /\ Free(e) /\ Eligible(e)
    /\ row' = [row EXCEPT ![e].status = Waiting(e), ![e].error = None, ![e].lease = FALSE]
    /\ deep' = [deep EXCEPT ![e] = @ + 1]
    /\ IF unified
       THEN op' = [op EXCEPT ![o].stage = "audit", ![o].before = row[e].status]
       ELSE Return(o)
    /\ UNCHANGED <<lock, trail, failures, requests>>

AuditEvent(o) ==
    /\ At(o, "audit")
    /\ Record(o, "replay", "received")
    /\ Return(o)
    /\ UNCHANGED <<row, lock, deep, failures, requests>>

(* The request is refused, the page left, or the process dies: an open     *)
(* transaction is rolled back.                                             *)
Leave(o) ==
    /\ ~At(o, "idle")
    /\ lock' = [i \in Item |-> IF lock[i] = o THEN None ELSE lock[i]]
    /\ Return(o)
    /\ UNCHANGED <<row, trail, deep, failures, requests>>

-----------------------------------------------------------------------------
Work == \/ \E e \in Event : Arrive(e) \/ CommitResult(e)
        \/ \E i \in Item : Claim(i) \/ LeaseRunsOut(i) \/ Succeed(i) \/ Purge(i)
        \/ \E i \in Item, c \in Raised, s \in {"failed", "dead"} : FailAttempt(i, c, s)
        \/ \E c \in Command, s \in {"cancelled", "expired", "failed"} : Decide(c, s)

Screens == {Listed(f, s) : f \in Filter, s \in BOOLEAN}
           \cup {QueuePage(q, s) : q \in {Event, Reply}, s \in {"received", "pending", "failed", "dead"}}

Operate(o) == \/ \E i \in UNION Screens : Pick(o, i)
              \/ \E a \in {"replay", "resolve"} : LockRow(o, a)
              \/ \E u \in BOOLEAN : ReplayEvent(o, u)
              \/ ReplayReply(o) \/ Resolve(o) \/ AuditEvent(o) \/ Leave(o)

Next == Work \/ \E o \in Operator : Operate(o)

Spec == Init /\ [][Next]_vars

-----------------------------------------------------------------------------
(* Safety                                                                  *)

Count(i, action) == Cardinality({n \in DOMAIN trail[i] : trail[i][n].action = action})

(* However many operators resolve an item at one time, the trail has one   *)
(* resolution of it: the check and the insert are under the row's lock.    *)
OneResolution == \A i \in Item : Count(i, "resolve") <= 1

(* The two classifications of an error agree where it matters: what a      *)
(* worker gave up at once, for it would fail in the same way again, is not *)
(* offered for replay.                                                     *)
PermanentIsNotOffered ==
    \A i \in Event \cup Reply : row[i].error # None /\ Permanent(row[i].error) => ~ReplaySafe(i)

(* Each replay of a row is for a failure of its own. Two operators who saw *)
(* the same dead letter, or one whose list is out of date, requeue it once.*)
OneReplayPerFailure ==
    /\ \A r \in Reply : Count(r, "replay") <= failures[r]
    /\ \A e \in Event : deep[e] <= failures[e]

(* The tables have their shape, no item is resolved twice, nothing that    *)
(* must fail again is offered and each replay is for a failure of its own. *)
Inv == TypeOK /\ OneResolution /\ PermanentIsNotOffered /\ OneReplayPerFailure

(* What a transaction read under the lock is still so: the row exists and  *)
(* has the status it saw, and what it asked of the row holds.              *)
Standing(o) == LET i == op[o].item IN
    /\ op[o].stage # "idle" => i \in Item
    /\ op[o].stage = "locked" => /\ lock[i] = o /\ Exists(i) /\ op[o].before = row[i].status
                                 /\ op[o].action = "replay" => i \in Reply /\ Requeueable(i)
                                 /\ op[o].action = "resolve" => ~Resolved(i)
    /\ op[o].stage = "audit" => i \in Event /\ op[o].before \in AnyStatus

(* A row that may be replayed has failed more often than it was replayed.  *)
Credit == /\ \A r \in Reply : row[r].status \in {"dead", "failed"} => Count(r, "replay") < failures[r]
          /\ \A e \in Event :
                row[e].status \in {"dead", "failed", "processing"} /\ ~row[e].lease
                => deep[e] < failures[e]

(* What every step preserves: the invariant, with what the requests under  *)
(* way have seen and the failures there are to replay.                     *)
IInv == Inv /\ (\A o \in Operator : Standing(o)) /\ Credit

(* The trail can be read: a record says what the row was and what it became*)
(* by the very step that wrote it, although workers move the row between   *)
(* the operator's look and the request. (An event's record is written by a *)
(* transaction after the requeue; event_replay_audits has its truth.)      *)
TrailTellsTheStep ==
    [][\A i \in Item \ Event : trail'[i] # trail[i] =>
          LET a == trail'[i][Len(trail'[i])] IN
          a.before = row[i].status /\ a.after = row'[i].status]_vars

(* What the documents claim and the code does not keep, see the README.    *)

(* "replay_safe = true (no remote_message_id, no committed result)"        *)
SafeMeansNothingDone == \A i \in Event \cup Reply : ReplaySafe(i) => ~row[i].done
=============================================================================
