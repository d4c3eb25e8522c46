------------------------- MODULE ReplyOutboxProofs -------------------------
(***************************************************************************)
(* Proofs about ReplyOutbox for any rows, order between them, workers,     *)
(* attempt budget, batch size and bounds: the inductive invariant, and     *)
(* from it that replies keep their order, that a reply is shown once for   *)
(* each uuid window and that outcomes belong to the holder of the lease;   *)
(* and about DeadLetters, what the operator does with replies, events and  *)
(* commands that failed, for any of those, operators, errors and bounds.   *)
(***************************************************************************)
EXTENDS ReplyOutbox, Sequences, FiniteSetTheorems, TLAPS

(* What a step leaves of the past: rows that were shown stay shown, rows   *)
(* that were given up stay so, and no row leaves the table for "absent".   *)
Remembers ==
    /\ \A r \in Reply : /\ shown[r] > 0 => shown'[r] > 0
                        /\ row[r].status # "absent" => row'[r].status # "absent"
    /\ gaveUp \subseteq gaveUp'

(* With the past kept, claims stay cleared as long as no batch grows.      *)
LEMMA BatchesStayCleared ==
    ASSUME ReplyOutboxAssumption, BatchesCleared, Remembers,
           \A w \in Worker : worker[w].batch \subseteq Reply,
           \A w \in Worker : worker'[w].batch \subseteq worker[w].batch
    PROVE  BatchesCleared'
  BY DEF ReplyOutboxAssumption, BatchesCleared, Remembers

(* A step that shows nothing and forgets nothing keeps the order.          *)
LEMMA OrderKept ==
    ASSUME ReplyOutboxAssumption, NoOvertaking, Remembers, shown' = shown
    PROVE  NoOvertaking'
  BY DEF ReplyOutboxAssumption, NoOvertaking, Remembers

(* A step that brings no row to the table keeps the events whole.          *)
LEMMA TogetherKept ==
    ASSUME ReplyOutboxAssumption, Together, Remembers, replaying' \subseteq replaying,
           replaying \subseteq Reply,
           \A r \in Reply : row'[r].status # "absent" => row[r].status # "absent"
    PROVE  Together'
  BY DEF ReplyOutboxAssumption, Together, Remembers

(* The spent bounds are numbers and one more is one.                       *)
LEMMA SpendCounts ==
    ASSUME TypeOK, NEW b \in DOMAIN Bound, Spend(b)
    PROVE  /\ spent' \in [DOMAIN Bound -> Nat]
           /\ spent'[b] = spent[b] + 1
           /\ \A c \in DOMAIN Bound \ {b} : spent'[c] = spent[c]
           /\ spent["window"] <= spent'["window"]
  BY DEF TypeOK, Spend, Bound

(* One row is written, the others stay as they are.                        *)
LEMMA OneRow ==
    ASSUME TypeOK, NEW r \in Reply, NEW new \in Row, row' = [row EXCEPT ![r] = new]
    PROVE  /\ row' \in [Reply -> Row] /\ row'[r] = new
           /\ \A q \in Reply \ {r} : row'[q] = row[q]
  BY DEF TypeOK

(* A row that is released loses its lease and keeps the rest.              *)
LEMMA ReleasedRow ==
    ASSUME TypeOK, NEW r \in Reply, NEW st \in Status, NEW rt \in {"none", "later", "due"}
    PROVE  /\ Released(r, st, rt) \in Row /\ Released(r, st, rt).status = st
           /\ Released(r, st, rt).remote = row[r].remote
           /\ [Released(r, st, rt) EXCEPT !.remote = TRUE] \in Row
           /\ [Released(r, st, rt) EXCEPT !.remote = TRUE].status = st
           /\ [Released(r, st, rt) EXCEPT !.remote = TRUE].remote
  <1> DEFINE new == Released(r, st, rt)
  <1>1. row[r] \in Row
    BY DEF TypeOK
  <1>2. /\ new \in Row /\ new.status = st /\ new.remote = row[r].remote
    BY <1>1 DEF Released, Row
  <1>3. [new EXCEPT !.remote = TRUE] \in Row
    <2> HIDE DEF new
    <2> QED
      BY <1>2 DEF Row
  <1>4. /\ [new EXCEPT !.remote = TRUE].status = st
        /\ [new EXCEPT !.remote = TRUE].remote
    <2> HIDE DEF new
    <2> QED
      BY <1>2 DEF Row
  <1> QED
    BY <1>2, <1>3, <1>4

(* The next item: the worker leaves the row it was at and its batch.       *)
LEMMA NextItemLeaves ==
    ASSUME TypeOK, NEW w \in Worker, NextItem(w)
    PROVE  /\ worker' \in [Worker -> Sweep]
           /\ worker'[w].cur = None /\ worker'[w].stage = "ready"
           /\ worker'[w].batch = worker[w].batch \ {worker[w].cur}
           /\ \A v \in Worker \ {w} : worker'[v] = worker[v]
  <1> DEFINE left == [worker[w] EXCEPT !.batch = @ \ {worker[w].cur}, !.cur = None,
                                       !.stage = "ready"]
  <1>1. worker[w] \in Sweep
    BY DEF TypeOK
  <1>2. /\ left \in Sweep /\ left.cur = None /\ left.stage = "ready"
        /\ left.batch = worker[w].batch \ {worker[w].cur}
    <2>1. worker[w].batch \ {worker[w].cur} \in SUBSET Reply
      BY <1>1 DEF Sweep
    <2> QED
      BY <1>1, <2>1 DEF Sweep, Stage
  <1>3. worker' = [worker EXCEPT ![w] = left]
    BY DEF NextItem, TypeOK
  <1> HIDE DEF left
  <1> QED
    BY <1>2, <1>3 DEF TypeOK

(* The worker goes on with its row at another stage.                       *)
LEMMA AtStageStays ==
    ASSUME TypeOK, NEW w \in Worker, NEW s \in Stage, AtStage(w, s)
    PROVE  /\ worker' \in [Worker -> Sweep]
           /\ worker'[w].cur = worker[w].cur /\ worker'[w].stage = s
           /\ worker'[w].batch = worker[w].batch
           /\ \A v \in Worker \ {w} : worker'[v] = worker[v]
  <1> DEFINE moved == [worker[w] EXCEPT !.stage = s]
  <1>1. worker[w] \in Sweep
    BY DEF TypeOK
  <1>2. /\ moved \in Sweep /\ moved.cur = worker[w].cur /\ moved.stage = s
        /\ moved.batch = worker[w].batch
    BY <1>1 DEF Sweep
  <1>3. worker' = [worker EXCEPT ![w] = moved]
    BY DEF AtStage, TypeOK
  <1> HIDE DEF moved
  <1> QED
    BY <1>2, <1>3 DEF TypeOK

-----------------------------------------------------------------------------
(* The outbox starts in a state of the invariant.                          *)
LEMMA InitInv == Init => IInv
  <1> SUFFICES ASSUME Init PROVE IInv
    OBVIOUS
  <1>1. TypeOK
    BY ReplyOutboxAssumption
       DEF Init, TypeOK, Row, NoRow, Status, Sweep, Idle, Stage, Bound
  <1>2. SentWasShown /\ RowsTell /\ Together /\ Windows /\ NoOvertaking
    BY ReplyOutboxAssumption
       DEF Init, SentWasShown, RowsTell, Together, Windows, NoOvertaking, NoRow, Bound
  <1>3. BatchesCleared /\ Positions
    BY DEF Init, BatchesCleared, Positions, Idle
  <1> QED
    BY <1>1, <1>2, <1>3 DEF IInv

(* Where a worker is, as far as the invariant tells.                       *)
LEMMA AtRow ==
    ASSUME TypeOK, Positions, NEW w \in Worker, worker[w].stage # "ready"
    PROVE  worker[w].cur \in Reply /\ worker[w].cur \in worker[w].batch
  BY DEF TypeOK, Positions, Sweep

(* A step that shows nothing, claims nothing and brings no row to the      *)
(* table keeps the invariant if it keeps types, positions and what the     *)
(* rows tell.                                                              *)
LEMMA ShowsNothing ==
    ASSUME IInv, TypeOK', Positions', SentWasShown', RowsTell',
           shown' = shown, window' = window, spent["window"] <= spent'["window"],
           replaying' \subseteq replaying, gaveUp \subseteq gaveUp',
           \A r \in Reply : row'[r].status = "absent" <=> row[r].status = "absent",
           \A w \in Worker : worker'[w].batch \subseteq worker[w].batch
    PROVE  IInv'
  <1> USE ReplyOutboxAssumption DEF IInv
  <1>1. Remembers
    BY DEF Remembers
  <1>2. BatchesCleared'
    BY <1>1, BatchesStayCleared DEF TypeOK, Sweep
  <1>3. Together'
    BY <1>1, TogetherKept DEF TypeOK
  <1>4. NoOvertaking'
    BY <1>1, OrderKept
  <1>5. Windows'
    <2>1. /\ spent["window"] \in Nat /\ spent'["window"] \in Nat
          /\ \A r \in Reply : shown[r] \in Nat
      BY DEF TypeOK, Bound
    <2> QED
      BY <2>1 DEF Windows
  <1> QED
    BY <1>2, <1>3, <1>4, <1>5

(* ... in particular if the status of every row stays as it is.            *)
LEMMA StatusStays ==
    ASSUME IInv, TypeOK', Positions',
           UNCHANGED <<shown, window, replaying, gaveUp>>,
           spent["window"] <= spent'["window"],
           \A r \in Reply : /\ row'[r].status = row[r].status
                            /\ row'[r].remote = row[r].remote,
           \A w \in Worker : worker'[w].batch \subseteq worker[w].batch
    PROVE  IInv'
  <1>1. SentWasShown' /\ RowsTell'
    BY DEF IInv, SentWasShown, RowsTell
  <1> QED
    BY <1>1, ShowsNothing

-----------------------------------------------------------------------------
(* Enqueue brings all rows of an event at once.                            *)
LEMMA EnqueueInv ==
    ASSUME IInv, NEW R \in SUBSET Reply, Enqueue(R)
    PROVE  IInv'
  <1> USE ReplyOutboxAssumption DEF IInv, feishu
  <1> DEFINE new == [NoRow EXCEPT !.status = "pending"]
  <1>1. new \in Row /\ new.status = "pending" /\ ~new.remote
    BY DEF NoRow, Row, Status
  <1>2. row' = [r \in Reply |-> IF r \in R THEN new ELSE row[r]]
    BY DEF Enqueue
  <1>3. /\ UNCHANGED <<worker, shown, window, replaying, gaveUp, spent>>
        /\ \A r \in R : row[r].status = "absent" /\ Earlier[r] \subseteq R
    BY DEF Enqueue
  <1> HIDE DEF new
  <1>4. TypeOK'
    BY <1>1, <1>2, <1>3 DEF TypeOK
  <1>5. Remembers
    BY <1>1, <1>2, <1>3 DEF Remembers
  <1>6. SentWasShown' /\ RowsTell'
    BY <1>1, <1>2, <1>3 DEF SentWasShown, RowsTell, TypeOK
  <1>7. Together'
    BY <1>1, <1>2, <1>3 DEF Together, TypeOK
  <1>8. BatchesCleared' /\ NoOvertaking'
    BY <1>3, <1>5, BatchesStayCleared, OrderKept DEF TypeOK, Sweep
  <1>9. Positions' /\ Windows'
    BY <1>3 DEF Positions, Windows
  <1> QED
    BY <1>4, <1>6, <1>7, <1>8, <1>9

(* Leases expire and retries fall due without a change of status.          *)
LEMMA ClockInv ==
    ASSUME IInv, NEW r \in Reply, LeaseRunsOut(r) \/ RetryFallsDue(r)
    PROVE  IInv'
  <1> USE ReplyOutboxAssumption DEF IInv, feishu
  <1> DEFINE new == IF LeaseRunsOut(r) THEN [row[r] EXCEPT !.lease = "expired"]
                                       ELSE [row[r] EXCEPT !.retry = "due"]
  <1>1. row[r] \in Row
    BY DEF TypeOK
  <1>2. /\ new \in Row /\ new.status = row[r].status /\ new.remote = row[r].remote
    BY <1>1 DEF Row
  <1>3. row' = [row EXCEPT ![r] = new] /\ UNCHANGED <<worker, shown, window, replaying, gaveUp>>
    BY DEF LeaseRunsOut, RetryFallsDue
  <1>4. spent' \in [DOMAIN Bound -> Nat] /\ spent["window"] <= spent'["window"]
    <2>1. Spend("stall") \/ UNCHANGED spent
      BY DEF LeaseRunsOut, RetryFallsDue
    <2>2. CASE Spend("stall")
      BY <2>2, SpendCounts DEF Bound
    <2>3. CASE UNCHANGED spent
      BY <2>3 DEF TypeOK, Bound
    <2> QED
      BY <2>1, <2>2, <2>3
  <1> HIDE DEF new
  <1>5. /\ row' \in [Reply -> Row]
        /\ \A q \in Reply : row'[q].status = row[q].status /\ row'[q].remote = row[q].remote
    BY <1>2, <1>3, OneRow
  <1>6. TypeOK' /\ Positions'
    BY <1>3, <1>4, <1>5 DEF TypeOK, Positions
  <1> QED
    BY <1>3, <1>4, <1>5, <1>6, StatusStays

(* Feishu forgets a uuid: the windows that closed count what may be shown. *)
LEMMA WindowClosesInv ==
    ASSUME IInv, NEW r \in Reply, WindowCloses(r)
    PROVE  IInv'
  <1> USE ReplyOutboxAssumption DEF IInv
  <1>1. /\ window[r] = "open" /\ Spend("window") /\ window' = [window EXCEPT ![r] = "closed"]
        /\ UNCHANGED <<row, worker, shown, replaying, gaveUp>>
    BY DEF WindowCloses
  <1>2. spent' \in [DOMAIN Bound -> Nat] /\ spent'["window"] = spent["window"] + 1
    BY <1>1, SpendCounts DEF Bound
  <1>3. TypeOK'
    BY <1>1, <1>2 DEF TypeOK
  <1>4. Windows'
    <2>1. /\ spent["window"] \in Nat /\ \A q \in Reply : shown[q] \in Nat
      BY DEF TypeOK, Bound
    <2>2. \A q \in Reply \ {r} : window'[q] = window[q]
      BY <1>1 DEF TypeOK
    <2>3. window'[r] = "closed"
      BY <1>1 DEF TypeOK
    <2> QED
      BY <1>1, <1>2, <2>1, <2>2, <2>3 DEF Windows
  <1>5. /\ SentWasShown' /\ RowsTell' /\ Together' /\ BatchesCleared' /\ Positions'
        /\ NoOvertaking'
    BY <1>1 DEF SentWasShown, RowsTell, Together, BatchesCleared, Positions, NoOvertaking
  <1> QED
    BY <1>3, <1>4, <1>5

-----------------------------------------------------------------------------
(* A claim takes only rows whose earlier replies are settled for good.     *)
LEMMA ClaimInv ==
    ASSUME IInv, NEW w \in Worker, NEW S \in SUBSET Reply, Claim(w, S)
    PROVE  IInv'
  <1> USE ReplyOutboxAssumption DEF IInv, feishu
  <1> DEFINE claimed(r) == [row[r] EXCEPT !.status = "sending", !.owner = w, !.lease = "live",
                                          !.retry = "none", !.attempts = @ + 1]
             keys == {r \in S : row[r].key}
             swept == [worker[w] EXCEPT !.batch = S, !.keys = keys]
  <1>1. \A r \in Reply : /\ claimed(r) \in Row /\ claimed(r).status = "sending"
                         /\ claimed(r).remote = row[r].remote
    <2> SUFFICES ASSUME NEW r \in Reply
                 PROVE  /\ claimed(r) \in Row /\ claimed(r).status = "sending"
                        /\ claimed(r).remote = row[r].remote
      OBVIOUS
    <2>1. row[r] \in Row
      BY DEF TypeOK
    <2>2. row[r].attempts + 1 \in Nat
      BY <2>1 DEF Row
    <2> QED
      BY <2>1, <2>2 DEF Row, Status
  <1>2. row' = [r \in Reply |-> IF r \in S THEN claimed(r) ELSE row[r]]
    BY DEF Claim
  <1>3. swept \in Sweep /\ swept.batch = S /\ swept.cur = worker[w].cur
        /\ swept.stage = worker[w].stage
    <2>1. worker[w] \in Sweep /\ keys \in SUBSET Reply
      BY DEF TypeOK
    <2> HIDE DEF keys
    <2> QED
      BY <2>1 DEF Sweep
  <1>4. worker' = [worker EXCEPT ![w] = swept]
    BY DEF Claim, TypeOK
  <1>5. worker[w].batch = {} /\ UNCHANGED <<shown, window, replaying, gaveUp, spent>>
    BY DEF Claim
  <1>6. \A r \in S : row[r].status \in {"pending", "failed", "sending"} /\ ~Blocked(r)
    BY DEF Claim, Due
  <1> HIDE DEF claimed, swept
  <1>7. \A r \in Reply : /\ row'[r] \in Row /\ row'[r].remote = row[r].remote
                         /\ row'[r].status = IF r \in S THEN "sending" ELSE row[r].status
    BY <1>1, <1>2 DEF TypeOK
  <1>8. \A v \in Worker : IF v = w THEN worker'[v] = swept ELSE worker'[v] = worker[v]
    BY <1>4 DEF TypeOK
  <1>9. TypeOK'
    <2>1. row' \in [Reply -> Row]
      BY <1>2, <1>7
    <2>2. worker' \in [Worker -> Sweep]
      BY <1>3, <1>4 DEF TypeOK
    <2> QED
      BY <1>5, <2>1, <2>2 DEF TypeOK
  <1>10. Remembers
    BY <1>5, <1>7 DEF Remembers
  <1>11. SentWasShown' /\ RowsTell'
    BY <1>5, <1>6, <1>7 DEF SentWasShown, RowsTell
  <1>12. Together'
    BY <1>5, <1>6, <1>7, <1>10, TogetherKept DEF TypeOK
  <1>13. NoOvertaking'
    BY <1>5, <1>10, OrderKept
  <1>14. Windows'
    BY <1>5 DEF Windows
  <1>15. Positions'
    BY <1>3, <1>5, <1>8 DEF Positions
  <1>16. BatchesCleared'
    <2>1. \A r \in S : \A q \in Earlier[r] : shown[q] > 0 \/ q \in gaveUp
      <3> SUFFICES ASSUME NEW r \in S, NEW q \in Earlier[r]
                   PROVE  shown[q] > 0 \/ q \in gaveUp
        OBVIOUS
      <3>1. q \in Reply
        BY DEF ReplyOutboxAssumption
      <3>2. row[q].status \in {"sent", "dead", "purged", "absent"}
        BY <1>6 DEF Blocked
      <3>3. row[q].status # "absent"
        BY <1>6 DEF Together
      <3> QED
        BY <3>1, <3>2, <3>3 DEF SentWasShown, RowsTell
    <2> QED
      BY <1>3, <1>5, <1>8, <2>1 DEF BatchesCleared
  <1> QED
    BY <1>9, <1>11, <1>12, <1>13, <1>14, <1>15, <1>16

(* A worker goes to a row of its batch.                                    *)
LEMMA BeginInv ==
    ASSUME IInv, NEW w \in Worker, NEW r \in Reply, Begin(w, r)
    PROVE  IInv'
  <1> USE ReplyOutboxAssumption DEF IInv, feishu
  <1> DEFINE st == IF r \in (FileReply \cup CardReply) \ worker[w].keys THEN "load" ELSE "send"
             at == [worker[w] EXCEPT !.cur = r, !.stage = st]
  <1>1. worker[w] \in Sweep /\ st \in {"load", "send"}
    BY DEF TypeOK
  <1>2. worker' = [worker EXCEPT ![w] = at] /\ r \in worker[w].batch
        /\ UNCHANGED <<row, shown, window, replaying, gaveUp, spent>>
    BY DEF Begin, TypeOK
  <1> HIDE DEF st
  <1>3. at \in Sweep /\ at.cur = r /\ at.stage = st /\ at.batch = worker[w].batch
    BY <1>1 DEF Sweep, Stage
  <1> HIDE DEF at
  <1>4. \A v \in Worker : IF v = w THEN worker'[v] = at ELSE worker'[v] = worker[v]
    BY <1>2 DEF TypeOK
  <1>5. TypeOK'
    BY <1>2, <1>3 DEF TypeOK
  <1>6. Positions'
    BY <1>1, <1>2, <1>3, <1>4 DEF Positions, ReplyOutboxAssumption
  <1>7. spent["window"] <= spent'["window"]
    BY <1>2 DEF TypeOK, Bound
  <1> QED
    BY <1>2, <1>3, <1>4, <1>5, <1>6, <1>7, StatusStays

(* The upload: the key is kept, or the row is left to its new owner.       *)
LEMMA UploadInv ==
    ASSUME IInv, NEW w \in Worker, Upload(w)
    PROVE  IInv'
  <1> USE ReplyOutboxAssumption DEF IInv, feishu
  <1> DEFINE r == worker[w].cur
             kept == [row[r] EXCEPT !.key = TRUE]
  <1>1. worker[w].stage = "load" /\ r \in Reply /\ r \in worker[w].batch
    BY AtRow DEF Upload
  <1>2. UNCHANGED <<shown, window, replaying, gaveUp, spent>>
    BY DEF Upload
  <1>3. spent["window"] <= spent'["window"]
    BY <1>2 DEF TypeOK, Bound
  <1>4. CASE Holds(w, r)
    <2>1. row' = [row EXCEPT ![r] = kept] /\ AtStage(w, "send")
      BY <1>4 DEF Upload, TypeOK
    <2>2. row[r] \in Row
      BY <1>1 DEF TypeOK
    <2>3. kept \in Row /\ kept.status = row[r].status /\ kept.remote = row[r].remote
      BY <2>2 DEF Row
    <2> HIDE DEF kept
    <2>4. /\ row' \in [Reply -> Row]
          /\ \A q \in Reply : row'[q].status = row[q].status /\ row'[q].remote = row[q].remote
      BY <1>1, <2>1, <2>3, OneRow
    <2>5. /\ worker' \in [Worker -> Sweep]
          /\ worker'[w].cur = worker[w].cur /\ worker'[w].stage = "send"
          /\ worker'[w].batch = worker[w].batch
          /\ \A v \in Worker \ {w} : worker'[v] = worker[v]
      BY <2>1, AtStageStays DEF Stage
    <2>6. TypeOK' /\ Positions'
      BY <1>1, <1>2, <2>4, <2>5 DEF TypeOK, Positions
    <2> QED
      BY <1>2, <1>3, <2>4, <2>5, <2>6, StatusStays
  <1>5. CASE ~Holds(w, r)
    <2>1. row' = row /\ NextItem(w)
      BY <1>5 DEF Upload
    <2>2. /\ worker' \in [Worker -> Sweep]
          /\ worker'[w].cur = None /\ worker'[w].stage = "ready"
          /\ worker'[w].batch = worker[w].batch \ {worker[w].cur}
          /\ \A v \in Worker \ {w} : worker'[v] = worker[v]
      BY <2>1, NextItemLeaves
    <2>3. TypeOK' /\ Positions'
      BY <1>2, <2>1, <2>2 DEF TypeOK, Positions
    <2> QED
      BY <1>2, <1>3, <2>1, <2>2, <2>3, StatusStays
  <1> QED
    BY <1>4, <1>5

(* A card is sent without its image, or the attempt fails.                 *)
LEMMA FailInv ==
    ASSUME IInv, NEW w \in Worker,
           DropImage(w) \/ \E kind \in {"transient", "permanent"} : Fail(w, kind)
    PROVE  IInv'
  <1> USE ReplyOutboxAssumption DEF IInv, feishu
  <1>1. PICK s \in {"send", "transient", "permanent"} :
            worker[w].stage \in {"load", "send"} /\ AtStage(w, s)
    BY DEF DropImage, Fail
  <1>2. UNCHANGED <<row, shown, window, replaying, gaveUp, spent>>
    BY DEF DropImage, Fail
  <1>3. /\ worker' \in [Worker -> Sweep]
        /\ worker'[w].cur = worker[w].cur /\ worker'[w].stage = s
        /\ worker'[w].batch = worker[w].batch
        /\ \A v \in Worker \ {w} : worker'[v] = worker[v]
    BY <1>1, AtStageStays DEF Stage
  <1>4. TypeOK' /\ Positions'
    BY <1>1, <1>2, <1>3 DEF TypeOK, Positions
  <1>5. spent["window"] <= spent'["window"]
    BY <1>2 DEF TypeOK, Bound
  <1> QED
    BY <1>2, <1>3, <1>4, <1>5, StatusStays

(* Feishu shows the row a worker is at. Its earlier replies are settled,   *)
(* and Feishu counts the message in the window of the uuid.                *)
LEMMA SendInv ==
    ASSUME IInv, NEW w \in Worker, NEW answer \in {"sent", "transient"}, Send(w, answer)
    PROVE  IInv'
  <1> USE ReplyOutboxAssumption DEF IInv
  <1> DEFINE r == worker[w].cur
             n == IF window[r] = "open" THEN shown[r] ELSE shown[r] + 1
  <1>1. worker[w].stage = "send" /\ r \in Reply /\ r \in worker[w].batch
    BY AtRow DEF Send
  <1>2. /\ shown' = [shown EXCEPT ![r] = n] /\ window' = [window EXCEPT ![r] = "open"]
        /\ UNCHANGED <<row, replaying, gaveUp, spent>>
    BY DEF Send, Show
  <1>3. /\ worker' \in [Worker -> Sweep]
        /\ worker'[w].cur = r /\ worker'[w].stage = answer
        /\ worker'[w].batch = worker[w].batch
        /\ \A v \in Worker \ {w} : worker'[v] = worker[v]
    BY AtStageStays DEF Send, Stage
  <1>4. /\ spent["window"] \in Nat /\ \A q \in Reply : shown[q] \in Nat
        /\ window[r] \in {"unused", "open", "closed"}
    BY <1>1 DEF TypeOK, Bound
  <1>5. n \in Nat /\ n > 0 /\ shown[r] <= n /\ n <= 1 + spent["window"]
    <2>1. CASE window[r] = "open"
      <3>1. shown[r] > 0
        BY <1>1, <2>1 DEF Windows
      <3> QED
        BY <1>1, <1>4, <2>1, <3>1 DEF Windows
    <2>2. CASE window[r] = "unused"
      BY <1>1, <1>4, <2>2 DEF Windows
    <2>3. CASE window[r] = "closed"
      BY <1>1, <1>4, <2>3 DEF Windows
    <2> QED
      BY <1>4, <2>1, <2>2, <2>3
  <1> HIDE DEF n
  <1>6. /\ shown'[r] = n /\ window'[r] = "open"
        /\ \A q \in Reply \ {r} : shown'[q] = shown[q] /\ window'[q] = window[q]
    BY <1>1, <1>2 DEF TypeOK
  <1>7. \A q \in Reply : shown[q] > 0 => shown'[q] > 0
    BY <1>5, <1>6
  <1>8. TypeOK'
    BY <1>2, <1>3, <1>5 DEF TypeOK
  <1>9. Remembers
    BY <1>2, <1>7 DEF Remembers
  <1>10. BatchesCleared'
    <2>1. \A v \in Worker : worker[v].batch \subseteq Reply
      BY DEF TypeOK, Sweep
    <2>2. \A v \in Worker : worker'[v].batch \subseteq worker[v].batch
      BY <1>3
    <2> QED
      BY <1>9, <2>1, <2>2, BatchesStayCleared
  <1>11. SentWasShown' /\ RowsTell' /\ Together'
    BY <1>2, <1>7 DEF SentWasShown, RowsTell, Together
  <1>12. Positions'
    BY <1>1, <1>3, <1>5, <1>6, <1>7 DEF Positions, TypeOK, Sweep
  <1>13. Windows'
    BY <1>2, <1>5, <1>6 DEF Windows
  <1>14. NoOvertaking'
    <2> SUFFICES ASSUME NEW x \in Reply, shown'[x] > 0, NEW q \in Earlier[x]
                 PROVE  shown'[q] > 0 \/ q \in gaveUp'
      BY DEF NoOvertaking
    <2>1. q \in Reply
      BY DEF ReplyOutboxAssumption
    <2>2. CASE x = r
      BY <1>1, <1>2, <1>7, <2>1, <2>2 DEF BatchesCleared
    <2>3. CASE x # r
      BY <1>2, <1>6, <1>7, <2>1, <2>3 DEF NoOvertaking
    <2> QED
      BY <2>2, <2>3
  <1> QED
    BY <1>8, <1>10, <1>11, <1>12, <1>13, <1>14

(* The holder records that the row was sent; anyone else records nothing.  *)
LEMMA MarkSentInv ==
    ASSUME IInv, NEW w \in Worker, MarkSent(w)
    PROVE  IInv'
  <1> USE ReplyOutboxAssumption DEF IInv, feishu
  <1> DEFINE r == worker[w].cur
             new == [Released(r, "sent", "none") EXCEPT !.remote = TRUE]
  <1>1. /\ worker[w].stage = "sent" /\ r \in Reply /\ shown[r] > 0
        /\ UNCHANGED <<shown, window, replaying, gaveUp, spent>>
    BY AtRow DEF MarkSent, Positions
  <1>2. /\ worker' \in [Worker -> Sweep]
        /\ worker'[w].cur = None /\ worker'[w].stage = "ready"
        /\ worker'[w].batch = worker[w].batch \ {worker[w].cur}
        /\ \A v \in Worker \ {w} : worker'[v] = worker[v]
    BY NextItemLeaves DEF MarkSent
  <1>3. new \in Row /\ new.status = "sent" /\ new.remote
    <2>1. "sent" \in Status /\ "none" \in {"none", "later", "due"}
      BY DEF Status
    <2> QED
      BY <1>1, <2>1, ReleasedRow, Zenon
  <1>4. row' = IF Holds(w, r) THEN [row EXCEPT ![r] = new] ELSE row
    BY DEF MarkSent
  <1> HIDE DEF new
  <1>5. /\ row' \in [Reply -> Row]
        /\ \A q \in Reply : \/ q = r /\ row'[q] = new /\ row[q].status = "sending"
                            \/ row'[q] = row[q]
    <2>1. CASE Holds(w, r)
      <3>1. /\ row' \in [Reply -> Row] /\ row'[r] = new
            /\ \A q \in Reply \ {r} : row'[q] = row[q]
        BY <1>1, <1>3, <1>4, <2>1, OneRow
      <3>2. row[r].status = "sending"
        BY <2>1 DEF Holds
      <3> QED
        BY <3>1, <3>2
    <2>2. CASE ~Holds(w, r)
      BY <1>4, <2>2 DEF TypeOK
    <2> QED
      BY <2>1, <2>2
  <1>6. TypeOK' /\ Positions'
    BY <1>1, <1>2, <1>5 DEF TypeOK, Positions
  <1>7. SentWasShown' /\ RowsTell'
    BY <1>1, <1>3, <1>5 DEF SentWasShown, RowsTell
  <1>8. \A q \in Reply : row'[q].status = "absent" <=> row[q].status = "absent"
    BY <1>3, <1>5
  <1>9. spent["window"] <= spent'["window"]
    BY <1>1 DEF TypeOK, Bound
  <1> QED
    BY <1>1, <1>2, <1>6, <1>7, <1>8, <1>9, ShowsNothing

(* The holder records the failure; a row that is dead was given up.        *)
LEMMA RecordFailureInv ==
    ASSUME IInv, NEW w \in Worker, RecordFailure(w)
    PROVE  IInv'
  <1> USE ReplyOutboxAssumption DEF IInv, feishu
  <1> DEFINE r == worker[w].cur
             st == FailureStatus(row[r].attempts, worker[w].stage = "permanent")
             new == Released(r, st, IF st = "failed" THEN "later" ELSE "none")
  <1>1. /\ worker[w].stage \in {"transient", "permanent"} /\ r \in Reply
        /\ UNCHANGED <<shown, window, replaying, spent>>
    BY AtRow DEF RecordFailure
  <1>2. /\ worker' \in [Worker -> Sweep]
        /\ worker'[w].cur = None /\ worker'[w].stage = "ready"
        /\ worker'[w].batch = worker[w].batch \ {worker[w].cur}
        /\ \A v \in Worker \ {w} : worker'[v] = worker[v]
    BY NextItemLeaves DEF RecordFailure
  <1>3. st \in {"failed", "dead"}
    BY DEF FailureStatus
  <1>4. IF Holds(w, r)
        THEN /\ row' = [row EXCEPT ![r] = new]
             /\ gaveUp' = IF st = "dead" THEN gaveUp \cup {r} ELSE gaveUp
        ELSE UNCHANGED <<row, gaveUp>>
    BY DEF RecordFailure
  <1> HIDE DEF st
  <1>5. new \in Row /\ new.status = st /\ new.remote = row[r].remote
    <2>1. {"failed", "dead"} \subseteq Status /\ {"later", "none"} \subseteq {"none", "later", "due"}
      BY DEF Status
    <2>2. CASE st = "failed"
      <3>1. new = Released(r, "failed", "later")
        BY <2>2
      <3> QED
        BY <1>1, <2>1, <2>2, <3>1, ReleasedRow, ZenonT(60)
    <2>3. CASE st = "dead"
      <3>1. new = Released(r, "dead", "none")
        BY <2>3
      <3> QED
        BY <1>1, <2>1, <2>3, <3>1, ReleasedRow, ZenonT(60)
    <2> QED
      BY <1>3, <2>2, <2>3
  <1> HIDE DEF new
  <1>6. /\ row' \in [Reply -> Row]
        /\ \A q \in Reply : \/ q = r /\ row'[q] = new /\ row[q].status = "sending"
                            \/ row'[q] = row[q]
        /\ gaveUp \subseteq gaveUp' /\ gaveUp' \subseteq Reply
        /\ Holds(w, r) => (st = "dead" => r \in gaveUp')
        /\ ~Holds(w, r) => row' = row
    <2>1. CASE Holds(w, r)
      <3>1. row' = [row EXCEPT ![r] = new]
        BY <1>4, <2>1
      <3>2. gaveUp' = IF st = "dead" THEN gaveUp \cup {r} ELSE gaveUp
        BY <1>4, <2>1
      <3>3. /\ row' \in [Reply -> Row] /\ row'[r] = new
            /\ \A q \in Reply \ {r} : row'[q] = row[q]
        BY <1>1, <1>5, <3>1, OneRow
      <3>4. row[r].status = "sending"
        BY <2>1 DEF Holds
      <3> QED
        BY <1>1, <2>1, <3>2, <3>3, <3>4 DEF TypeOK
    <2>2. CASE ~Holds(w, r)
      BY <1>4, <2>2 DEF TypeOK
    <2> QED
      BY <2>1, <2>2
  <1>7. TypeOK' /\ Positions'
    BY <1>1, <1>2, <1>6 DEF TypeOK, Positions
  <1>8. SentWasShown' /\ RowsTell'
    BY <1>1, <1>3, <1>5, <1>6 DEF SentWasShown, RowsTell, Holds
  <1>9. \A q \in Reply : row'[q].status = "absent" <=> row[q].status = "absent"
    BY <1>3, <1>5, <1>6
  <1>10. spent["window"] <= spent'["window"]
    BY <1>1 DEF TypeOK, Bound
  <1> QED
    BY <1>1, <1>2, <1>6, <1>7, <1>8, <1>9, <1>10, ShowsNothing

(* A crash leaves the rows of the batch as they are.                       *)
LEMMA AbandonInv ==
    ASSUME IInv, NEW w \in Worker, Abandon(w)
    PROVE  IInv'
  <1> USE ReplyOutboxAssumption DEF IInv, feishu
  <1>1. /\ worker' = [worker EXCEPT ![w] = Idle] /\ Spend("crash")
        /\ UNCHANGED <<row, shown, window, replaying, gaveUp>>
    BY DEF Abandon
  <1>2. spent' \in [DOMAIN Bound -> Nat] /\ spent["window"] <= spent'["window"]
    BY <1>1, SpendCounts DEF Bound
  <1>3. Idle \in Sweep
    BY DEF Idle, Sweep, Stage
  <1>4. \A v \in Worker : worker'[v] = IF v = w THEN Idle ELSE worker[v]
    BY <1>1 DEF TypeOK
  <1>5. TypeOK'
    BY <1>1, <1>2, <1>3 DEF TypeOK
  <1>6. Positions' /\ \A v \in Worker : worker'[v].batch \subseteq worker[v].batch
    BY <1>1, <1>4 DEF Positions, Idle
  <1> QED
    BY <1>1, <1>2, <1>5, <1>6, StatusStays

-----------------------------------------------------------------------------
(* The read of a result replay.                                            *)
LEMMA ResultReplayReadInv ==
    ASSUME IInv, NEW r \in Reply, ResultReplayRead(r)
    PROVE  IInv'
  <1> USE ReplyOutboxAssumption DEF IInv, feishu
  <1>1. /\ row[r].status \in {"failed", "dead"} /\ Spend("result")
        /\ replaying' = replaying \cup {r}
        /\ UNCHANGED <<row, worker, shown, window, gaveUp>>
    BY DEF ResultReplayRead
  <1>2. spent' \in [DOMAIN Bound -> Nat] /\ spent'["window"] = spent["window"]
    BY <1>1, SpendCounts DEF Bound
  <1>3. TypeOK'
    BY <1>1, <1>2 DEF TypeOK
  <1>4. Together'
    BY <1>1 DEF Together
  <1>5. /\ SentWasShown' /\ RowsTell' /\ BatchesCleared' /\ Positions' /\ NoOvertaking'
        /\ Windows'
    BY <1>1, <1>2 DEF SentWasShown, RowsTell, BatchesCleared, Positions, NoOvertaking, Windows
  <1> QED
    BY <1>3, <1>4, <1>5

(* The write of a result replay, and the replay of a dead letter.          *)
LEMMA ReplayInv ==
    ASSUME IInv, NEW r \in Reply, ResultReplayWrite(r) \/ DeadLetterReplay(r)
    PROVE  IInv'
  <1> USE ReplyOutboxAssumption DEF IInv, feishu
  <1> DEFINE new == IF ResultReplayWrite(r)
                    THEN [row[r] EXCEPT !.status = "pending", !.retry = "none"]
                    ELSE Released(r, "pending", "none")
  <1>1. row[r] \in Row
    BY DEF TypeOK
  <1>2. new \in Row /\ new.status = "pending" /\ new.remote = row[r].remote
    <2>1. CASE ResultReplayWrite(r)
      BY <1>1, <2>1 DEF Row, Status
    <2>2. CASE ~ResultReplayWrite(r)
      <3>1. "pending" \in Status /\ "none" \in {"none", "later", "due"}
        BY DEF Status
      <3> QED
        BY <2>2, <3>1, ReleasedRow, ZenonT(60)
    <2> QED
      BY <2>1, <2>2
  <1>3. row' = row \/ (row' = [row EXCEPT ![r] = new] /\ row[r].status # "absent")
    <2>1. CASE ResultReplayWrite(r)
      <3>1. row[r].status # "absent"
        BY <2>1 DEF ResultReplayWrite, Together
      <3>2. \/ row' = row
            \/ row' = [row EXCEPT ![r] = [row[r] EXCEPT !.status = "pending", !.retry = "none"]]
        BY <2>1 DEF ResultReplayWrite, TypeOK
      <3> QED
        BY <2>1, <3>1, <3>2
    <2>2. CASE ~ResultReplayWrite(r)
      BY <2>2 DEF DeadLetterReplay
    <2> QED
      BY <2>1, <2>2
  <1>4. /\ UNCHANGED <<worker, shown, window, gaveUp>>
        /\ replaying' \subseteq replaying
    BY DEF ResultReplayWrite, DeadLetterReplay
  <1>5. spent' \in [DOMAIN Bound -> Nat] /\ spent["window"] <= spent'["window"]
    <2>1. Spend("deadLetter") \/ UNCHANGED spent
      BY DEF ResultReplayWrite, DeadLetterReplay
    <2>2. CASE Spend("deadLetter")
      BY <2>2, SpendCounts DEF Bound
    <2>3. CASE UNCHANGED spent
      BY <2>3 DEF TypeOK, Bound
    <2> QED
      BY <2>1, <2>2, <2>3
  <1> HIDE DEF new
  <1>6. /\ row' \in [Reply -> Row]
        /\ \A q \in Reply : \/ q = r /\ row'[q] = new /\ row[q].status # "absent"
                            \/ row'[q] = row[q]
    <2>1. CASE row' = row
      BY <2>1 DEF TypeOK
    <2>2. CASE row' = [row EXCEPT ![r] = new] /\ row[r].status # "absent"
      BY <1>2, <2>2, OneRow
    <2> QED
      BY <1>3, <2>1, <2>2
  <1>7. TypeOK' /\ Positions'
    BY <1>4, <1>5, <1>6 DEF TypeOK, Positions
  <1>8. SentWasShown' /\ RowsTell'
    BY <1>2, <1>4, <1>6 DEF SentWasShown, RowsTell
  <1>9. \A q \in Reply : row'[q].status = "absent" <=> row[q].status = "absent"
    BY <1>2, <1>6
  <1> QED
    BY <1>4, <1>5, <1>7, <1>8, <1>9, ShowsNothing

(* The reconciliation gives an expired row up; retention deletes rows that *)
(* were sent or given up.                                                  *)
LEMMA EndsRowInv ==
    ASSUME IInv, NEW r \in Reply, Reconcile(r) \/ Purge(r)
    PROVE  IInv'
  <1> USE ReplyOutboxAssumption DEF IInv, feishu
  <1> DEFINE new == IF Reconcile(r) THEN Released(r, "dead", "none")
                                    ELSE [NoRow EXCEPT !.status = "purged"]
  <1>1. /\ new \in Row /\ new.status = IF Reconcile(r) THEN "dead" ELSE "purged"
        /\ new.remote => row[r].remote
    <2>1. CASE Reconcile(r)
      <3>1. "dead" \in Status /\ "none" \in {"none", "later", "due"}
        BY DEF Status
      <3> QED
        BY <2>1, <3>1, ReleasedRow, ZenonT(60)
    <2>2. CASE ~Reconcile(r)
      BY <2>2 DEF Row, NoRow, Status
    <2> QED
      BY <2>1, <2>2
  <1>2. /\ row' = [row EXCEPT ![r] = new]
        /\ row[r].status \in {"sending", "sent", "dead"}
        /\ UNCHANGED <<worker, shown, window, replaying>>
        /\ gaveUp \subseteq gaveUp' /\ gaveUp' \subseteq Reply
        /\ IF Reconcile(r) THEN r \in gaveUp' ELSE row[r].status \in {"sent", "dead"}
    BY DEF Reconcile, Purge, TypeOK
  <1>3. spent' \in [DOMAIN Bound -> Nat] /\ spent["window"] <= spent'["window"]
    <2>1. Spend("reconcile") \/ UNCHANGED spent
      BY DEF Reconcile, Purge
    <2>2. CASE Spend("reconcile")
      BY <2>2, SpendCounts DEF Bound
    <2>3. CASE UNCHANGED spent
      BY <2>3 DEF TypeOK, Bound
    <2> QED
      BY <2>1, <2>2, <2>3
  <1> HIDE DEF new
  <1>4. /\ row' \in [Reply -> Row] /\ row'[r] = new
        /\ \A q \in Reply \ {r} : row'[q] = row[q]
    BY <1>1, <1>2, OneRow
  <1>5. TypeOK' /\ Positions'
    BY <1>2, <1>3, <1>4 DEF TypeOK, Positions
  <1>6. SentWasShown' /\ RowsTell'
    BY <1>1, <1>2, <1>4 DEF SentWasShown, RowsTell
  <1>7. \A q \in Reply : row'[q].status = "absent" <=> row[q].status = "absent"
    BY <1>1, <1>2, <1>4
  <1> QED
    BY <1>2, <1>3, <1>5, <1>6, <1>7, ShowsNothing

-----------------------------------------------------------------------------
(* Every step of the outbox keeps the invariant.                           *)
LEMMA NextInv == IInv /\ [Next]_vars => IInv'
  <1> SUFFICES ASSUME IInv, [Next]_vars PROVE IInv'
    OBVIOUS
  <1>1. ASSUME NEW R \in SUBSET Reply, Enqueue(R) PROVE IInv'
    BY <1>1, EnqueueInv
  <1>2. ASSUME NEW w \in Worker, WorkerStep(w) \/ Abandon(w) PROVE IInv'
    BY <1>2, ClaimInv, BeginInv, UploadInv, FailInv, SendInv, MarkSentInv,
       RecordFailureInv, AbandonInv DEF WorkerStep
  <1>3. ASSUME NEW r \in Reply,
               \/ LeaseRunsOut(r) \/ RetryFallsDue(r) \/ WindowCloses(r)
               \/ ResultReplayRead(r) \/ ResultReplayWrite(r)
               \/ DeadLetterReplay(r) \/ Reconcile(r) \/ Purge(r)
        PROVE  IInv'
    BY <1>3, ClockInv, WindowClosesInv, ResultReplayReadInv, ReplayInv, EndsRowInv
  <1>4. CASE UNCHANGED vars
    BY <1>4 DEF vars, IInv, TypeOK, SentWasShown, BatchesCleared, Positions, RowsTell,
                Together, Windows, NoOvertaking
  <1> QED
    BY <1>1, <1>2, <1>3, <1>4 DEF Next

(* The invariant holds in every reachable state, for any rows, order,      *)
(* workers, attempt budget, batch size and bounds.                         *)
THEOREM Invariance == Spec => []IInv
  BY InitInv, NextInv, PTL DEF Spec

(* A reply never overtakes an earlier one of its event, whatever crashes,  *)
(* takeovers, lost answers, replays and purges (the sequence filter of     *)
(* ReplyOutboxStore.claim_batch).                                          *)
THEOREM NoOvertakingHolds == Spec => []NoOvertaking
  <1>1. IInv => NoOvertaking
    BY DEF IInv
  <1> QED
    BY <1>1, Invariance, PTL

(* The user sees a reply at most once, and once more for each uuid window  *)
(* that closed (ReplyDeliverer._send with the row id as uuid).             *)
THEOREM OneMessagePerWindowHolds == Spec => []OneMessagePerWindow
  <1>1. IInv => OneMessagePerWindow
    <2> SUFFICES ASSUME IInv, NEW r \in Reply PROVE shown[r] <= 1 + spent["window"]
      BY DEF OneMessagePerWindow
    <2>1. /\ shown[r] \in Nat /\ spent["window"] \in Nat
          /\ window[r] \in {"unused", "open", "closed"}
      BY DEF IInv, TypeOK, Bound
    <2> QED
      BY <2>1 DEF IInv, Windows
  <1> QED
    BY <1>1, Invariance, PTL

(* A row recorded as sent was shown to the user (mark_sent after the       *)
(* answer of the reply API, never before).                                 *)
THEOREM SentWasShownHolds == Spec => []SentWasShown
  <1>1. IInv => SentWasShown
    BY DEF IInv
  <1> QED
    BY <1>1, Invariance, PTL

(* Only the holder of the lease, at the end of its own attempt, records    *)
(* the outcome of a row (the WHERE clause of mark_sent and record_failure),*)
(* except that the reconciliation gives up an expired one.                 *)
THEOREM OutcomeByHolderHolds == Spec => OutcomeByHolder
  <1> DEFINE Recorded(r) ==
                 /\ row[r].status = "sending" /\ row'[r].status \in {"sent", "failed", "dead"}
                 /\ ~(row[r].lease = "expired" /\ spent'["reconcile"] > spent["reconcile"])
             ByHolder(r) == LET w == row[r].owner IN
                            /\ worker[w].cur = r /\ worker'[w].cur = None
                            /\ row'[r].status = "sent" <=> worker[w].stage = "sent"
             A == \A r \in Reply :
          row[r].status = "sending" /\ row'[r].status \in {"sent", "failed", "dead"}
          /\ ~(row[r].lease = "expired" /\ spent'["reconcile"] > spent["reconcile"])
            => LET w == row[r].owner IN
               /\ worker[w].cur = r /\ worker'[w].cur = None
               /\ row'[r].status = "sent" <=> worker[w].stage = "sent"
  <1>1. IInv /\ [Next]_vars => [A]_vars
    <2> SUFFICES ASSUME IInv, Next, NEW r \in Reply, Recorded(r)
                 PROVE  ByHolder(r)
      BY Zenon
    <2> USE ReplyOutboxAssumption DEF IInv
    <2>0. /\ row'[r].status # row[r].status /\ row[r] \in Row
          /\ row'[r].status \notin {"pending", "sending", "purged"}
      BY DEF TypeOK
    <2>1. ASSUME NEW w \in Worker, MarkSent(w) PROVE ByHolder(r)
      <3>1. Holds(w, worker[w].cur) /\ worker[w].cur = r
        BY <2>0, <2>1 DEF MarkSent, TypeOK
      <3>2. row[r].owner = w /\ worker[w].stage = "sent"
        BY <2>1, <3>1 DEF Holds, MarkSent
      <3>3. worker'[w].cur = None
        BY <2>1, NextItemLeaves DEF MarkSent
      <3>4. row'[r].status = "sent"
        <4>1. row'[r] = [Released(r, "sent", "none") EXCEPT !.remote = TRUE]
          BY <2>1, <3>1 DEF MarkSent, TypeOK
        <4> QED
          BY <2>0, <4>1 DEF Released, Row
      <3> QED
        BY <3>1, <3>2, <3>3, <3>4
    <2>2. ASSUME NEW w \in Worker, RecordFailure(w) PROVE ByHolder(r)
      <3>1. Holds(w, worker[w].cur) /\ worker[w].cur = r
        BY <2>0, <2>2 DEF RecordFailure, TypeOK
      <3>2. row[r].owner = w /\ worker[w].stage \in {"transient", "permanent"}
        BY <2>2, <3>1 DEF Holds, RecordFailure
      <3>3. worker'[w].cur = None
        BY <2>2, NextItemLeaves DEF RecordFailure
      <3>4. row'[r].status # "sent"
        <4> DEFINE st == FailureStatus(row[r].attempts, worker[w].stage = "permanent")
                   rt == IF st = "failed" THEN "later" ELSE "none"
        <4>1. row'[r] = Released(r, st, rt)
          BY <2>2, <3>1 DEF RecordFailure, TypeOK
        <4>2. st \in {"failed", "dead"}
          BY DEF FailureStatus
        <4> HIDE DEF st, rt
        <4> QED
          BY <2>0, <4>1, <4>2 DEF Released, Row
      <3> QED
        BY <3>1, <3>2, <3>3, <3>4
    <2>3. ASSUME NEW q \in Reply, Reconcile(q) PROVE FALSE
      <3>1. row' = [row EXCEPT ![q] = Released(q, "dead", "none")]
        BY <2>3 DEF Reconcile
      <3>2. q = r
        BY <2>0, <3>1 DEF TypeOK
      <3>3. row[r].lease = "expired" /\ spent'["reconcile"] = spent["reconcile"] + 1
        BY <2>3, <3>2, SpendCounts DEF Reconcile, Bound
      <3>4. spent["reconcile"] \in Nat
        BY DEF TypeOK, Bound
      <3> QED
        BY <3>3, <3>4
    <2>4. ASSUME NEW w \in Worker, WorkerStep(w) \/ Abandon(w),
                 ~MarkSent(w), ~RecordFailure(w)
          PROVE  FALSE
      <3>1. ASSUME NEW S \in SUBSET Reply, Claim(w, S) PROVE FALSE
        BY <2>0, <3>1 DEF Claim, Row
      <3>2. ASSUME Upload(w) PROVE FALSE
        BY <2>0, <3>2 DEF Upload, TypeOK, Row
      <3> QED
        BY <2>0, <2>4, <3>1, <3>2 DEF WorkerStep, Begin, DropImage, Send, Fail, Abandon
    <2>5. ASSUME NEW q \in Reply,
                 \/ LeaseRunsOut(q) \/ RetryFallsDue(q) \/ WindowCloses(q)
                 \/ ResultReplayRead(q) \/ ResultReplayWrite(q)
                 \/ DeadLetterReplay(q) \/ Purge(q)
          PROVE  FALSE
      <3>1. CASE LeaseRunsOut(q) \/ RetryFallsDue(q)
        BY <2>0, <3>1 DEF LeaseRunsOut, RetryFallsDue, TypeOK, Row
      <3>2. CASE WindowCloses(q) \/ ResultReplayRead(q)
        BY <2>0, <3>2 DEF WindowCloses, ResultReplayRead
      <3>3. CASE ResultReplayWrite(q)
        BY <2>0, <3>3 DEF ResultReplayWrite, TypeOK, Row
      <3>4. CASE DeadLetterReplay(q)
        <4>1. row' = [row EXCEPT ![q] = Released(q, "pending", "none")]
          BY <3>4 DEF DeadLetterReplay
        <4>2. q = r
          BY <2>0, <4>1 DEF TypeOK
        <4> QED
          BY <2>0, <4>1, <4>2 DEF Released, Row, TypeOK
      <3>5. CASE Purge(q)
        BY <2>0, <3>5 DEF Purge, NoRow, TypeOK, Row
      <3> QED
        BY <2>5, <3>1, <3>2, <3>3, <3>4, <3>5
    <2>6. ASSUME NEW R \in SUBSET Reply, Enqueue(R) PROVE FALSE
      BY <2>0, <2>6 DEF Enqueue, NoRow
    <2> QED
      BY <2>1, <2>2, <2>3, <2>4, <2>5, <2>6 DEF Next
  <1> QED
    BY <1>1, Invariance, PTL DEF Spec, OutcomeByHolder

-----------------------------------------------------------------------------
(* The operator's side: an item is resolved once, a replay is for a        *)
(* failure of its own, what must fail again is not offered, and the trail  *)
(* tells what each step did to the row. DeadLetters is instantiated here:  *)
(* the replies, None and the rows that it has in common with ReplyOutbox   *)
(* stand, from here on, for its own, and no assumption of ReplyOutbox is   *)
(* used.                                                                   *)

CONSTANTS Event, Command, EventOf, Operator, Raised, MaxRequests, MaxFailures
VARIABLES lock, trail, deep, op, failures, requests

D == INSTANCE DeadLetters

(* No error that a worker gives up at once is in a class that may be       *)
(* replayed: is_permanent_error against classify_error_code.               *)
LEMMA PermanentIsNotRetryable ==
    ASSUME NEW c, D!Permanent(c)
    PROVE  D!ReasonOf(c) \notin D!Retryable
  <1>1. CASE c = "ValueError"
    BY <1>1 DEF D!ReasonOf, D!Retryable
  <1>2. CASE c = "IntegrityError"
    BY <1>2 DEF D!ReasonOf, D!Retryable
  <1>3. CASE c \in {"http_400", "http_401", "http_403", "http_404", "http_409", "http_418"}
    <2>1. \/ c = None /\ D!ReasonOf(c) = "unknown"
          \/ D!ReasonOf(c) = D!HttpStatusReason(c)
      BY <1>3 DEF D!ReasonOf
    <2>2. D!HttpStatusReason(c) \notin D!Retryable
      BY <1>3 DEF D!HttpStatusReason, D!Retryable
    <2> QED
      BY <2>1, <2>2 DEF D!Retryable
  <1> QED
    BY <1>1, <1>2, <1>3 DEF D!Permanent

(* The states of each kind of row.                                         *)
LEMMA StatusOf ==
    ASSUME D!DeadLettersAssumption
    PROVE  /\ \A e \in Event : D!Status(e) = {"absent", "received", "processing", "failed", "dead",
                                             "succeeded", "purged"}
           /\ \A r \in Reply : D!Status(r) = {"absent", "pending", "sending", "failed", "dead", "sent",
                                             "purged"}
           /\ \A c \in Command : D!Status(c) = {"pending", "executing", "executed", "cancelled",
                                               "expired", "failed"}
  <1>1. ASSUME NEW e \in Event
        PROVE  D!Status(e) = {"absent", "received", "processing", "failed", "dead",
                              "succeeded", "purged"}
    BY DEF D!DeadLettersAssumption, D!Status
  <1>2. ASSUME NEW r \in Reply
        PROVE  D!Status(r) = {"absent", "pending", "sending", "failed", "dead", "sent", "purged"}
    BY DEF D!DeadLettersAssumption, D!Status
  <1>3. ASSUME NEW c \in Command
        PROVE  D!Status(c) = {"pending", "executing", "executed", "cancelled", "expired", "failed"}
    BY DEF D!DeadLettersAssumption, D!Status
  <1> QED
    BY <1>1, <1>2, <1>3

(* Where a trail says an action.                                           *)
Places(t, a) == {n \in DOMAIN t : t[n].action = a}

(* One more record adds one to the count of its action and nothing to the  *)
(* count of another.                                                       *)
LEMMA AppendCounts ==
    ASSUME NEW s \in Seq(D!Mark), NEW m \in D!Mark, NEW a
    PROVE  /\ Cardinality(Places(s, a)) \in Nat
           /\ Cardinality(Places(Append(s, m), a)) =
                IF m.action = a THEN Cardinality(Places(s, a)) + 1 ELSE Cardinality(Places(s, a))
  <1> DEFINE k == Len(s)
             old == Places(s, a)
             new == Places(Append(s, m), a)
  <1>1. k \in Nat /\ old \subseteq 1 .. k /\ k + 1 \notin 1 .. k
    BY DEF Places
  <1>2. new = IF m.action = a THEN old \cup {k + 1} ELSE old
    <2>1. DOMAIN s = 1 .. k /\ DOMAIN Append(s, m) = 1 .. k + 1
          /\ Append(s, m)[k + 1] = m /\ \A n \in 1 .. k : Append(s, m)[n] = s[n]
      OBVIOUS
    <2> QED
      BY <1>1, <2>1 DEF Places
  <1> HIDE DEF k, old, new
  <1>3. IsFiniteSet(1 .. k)
    BY <1>1, FS_Interval
  <1>4. IsFiniteSet(old)
    BY <1>1, <1>3, FS_Subset
  <1>5. Cardinality(old) \in Nat
    BY <1>4, FS_CardinalityType
  <1>6. Cardinality(old \cup {k + 1}) = Cardinality(old) + 1
    BY <1>1, <1>4, FS_AddElement
  <1>7. Cardinality(new) = IF m.action = a THEN Cardinality(old) + 1 ELSE Cardinality(old)
    BY <1>2, <1>6
  <1> QED
    BY <1>5, <1>7 DEF old, new

(* The instance counts with its own copy of Cardinality.                   *)
LEMMA SameCardinality == \A S : D!Cardinality(S) = Cardinality(S)
  BY DEF D!Cardinality, Cardinality

(* An item without a record of an action counts none.                      *)
LEMMA NoneCounted ==
    ASSUME NEW i, \A n \in DOMAIN trail[i] : trail[i][n].action # "resolve"
    PROVE  D!Count(i, "resolve") = 0
  <1>1. {n \in DOMAIN trail[i] : trail[i][n].action = "resolve"} = {}
    OBVIOUS
  <1> QED
    BY <1>1, FS_EmptySet, SameCardinality DEF D!Count

(* Counts are natural numbers.                                             *)
LEMMA CountType ==
    ASSUME D!TypeOK, NEW i \in D!Item, NEW a
    PROVE  D!Count(i, a) \in Nat
  <1> DEFINE at == {n \in DOMAIN trail[i] : trail[i][n].action = a}
  <1>1. trail[i] \in Seq(D!Mark)
    BY DEF D!TypeOK
  <1>2. IsFiniteSet(1 .. Len(trail[i])) /\ at \subseteq 1 .. Len(trail[i])
    BY <1>1, FS_Interval
  <1>3. IsFiniteSet(at)
    BY <1>2, FS_Subset
  <1> QED
    BY <1>3, FS_CardinalityType, SameCardinality DEF D!Count

(* PermanentIsNotOffered is a matter of the two tables alone.              *)
LEMMA NeverOffered ==
    ASSUME D!DeadLettersAssumption
    PROVE  D!PermanentIsNotOffered
  <1> SUFFICES ASSUME NEW i \in Event \cup Reply, D!Permanent(row[i].error), D!ReplaySafe(i)
               PROVE  FALSE
    BY DEF D!PermanentIsNotOffered
  <1>1. i \notin Command
    BY DEF D!DeadLettersAssumption
  <1>2. D!Reason(i) = D!ReasonOf(row[i].error)
    BY <1>1 DEF D!Reason
  <1> QED
    BY <1>2, PermanentIsNotRetryable DEF D!ReplaySafe

(* ... and so of every state.                                              *)
LEMMA NeverOfferedNext ==
    ASSUME D!DeadLettersAssumption
    PROVE  D!PermanentIsNotOffered'
  BY NeverOffered, PTL

-----------------------------------------------------------------------------
(* The steps of the queues                                                 *)

(* One row changes, and no transaction that holds it would mind.           *)
LEMMA RowCore ==
    ASSUME D!DeadLettersAssumption,
           D!IInv, NEW i \in D!Item, NEW new \in D!Row,
           row' = [row EXCEPT ![i] = new], new.status \in D!Status(i),
           D!Free(i) \/ (new.status = row[i].status /\ new.done = row[i].done),
           UNCHANGED <<lock, trail, deep, op>>, requests' \in Nat,
           failures' \in [D!Item -> Nat], \A j \in D!Item : failures[j] <= failures'[j],
           \/ new.status \notin {"dead", "failed", "processing"}
           \/ i \in Command
           \/ i \in Event /\ new.lease /\ new.status = "processing"
           \/ failures'[i] > failures[i]
           \/ /\ row[i].status \in {"dead", "failed", "processing"}
              /\ i \in Event => ~row[i].lease
              /\ i \in Reply => row[i].status # "processing"
    PROVE  D!IInv'
  <1>1. row' \in [D!Item -> D!Row] /\ row'[i] = new /\ \A j \in D!Item : j # i => row'[j] = row[j]
    BY DEF D!IInv, D!Inv, D!TypeOK
  <1>2. \A j \in D!Item : row'[j].status \in D!Status(j)
    BY <1>1 DEF D!IInv, D!Inv, D!TypeOK
  <1>3. D!TypeOK'
    BY <1>1, <1>2 DEF D!IInv, D!Inv, D!TypeOK, D!Status, D!Waiting
  <1>4. \A j, a : D!Count(j, a)' = D!Count(j, a)
    BY DEF D!Count
  <1>5. D!OneResolution'
    BY <1>4 DEF D!IInv, D!Inv, D!OneResolution
  <1>6. D!OneReplayPerFailure'
    <2>1. \A r \in Reply : D!Count(r, "replay") \in Nat
      BY CountType DEF D!IInv, D!Inv, D!Item
    <2>2. \A r \in Reply : D!Count(r, "replay")' <= failures'[r]
      BY <1>4, <2>1 DEF D!IInv, D!Inv, D!OneReplayPerFailure, D!TypeOK, D!Item
    <2>3. \A e \in Event : deep'[e] <= failures'[e]
      BY DEF D!IInv, D!Inv, D!OneReplayPerFailure, D!TypeOK, D!Item
    <2> QED
      BY <2>2, <2>3 DEF D!OneReplayPerFailure
  <1>7. ASSUME NEW o \in Operator
        PROVE  D!Standing(o)'
    <2>1. D!Standing(o) /\ op' = op /\ lock' = lock /\ trail' = trail
      BY DEF D!IInv
    <2>2. op[o].stage = "locked" =>
             /\ op[o].item \in D!Item
             /\ op[o].item = i => lock[i] = o
             /\ D!Exists(op[o].item)
      BY <2>1 DEF D!Standing
    <2>3. op[o].stage = "locked" /\ op[o].item = i =>
             row'[i].status = row[i].status /\ row'[i].done = row[i].done
      BY <1>1, <2>2 DEF D!DeadLettersAssumption, D!Free
    <2>4. op[o].stage = "locked" =>
             /\ row'[op[o].item].status = row[op[o].item].status
             /\ row'[op[o].item].done = row[op[o].item].done
      BY <1>1, <2>1, <2>3 DEF D!Standing
    <2> QED
      BY <2>1, <2>4 DEF D!Standing, D!Exists, D!Requeueable, D!Resolved
  <1>8. D!Credit'
    <2>1. ASSUME NEW r \in Reply, row'[r].status \in {"dead", "failed"}
          PROVE  D!Count(r, "replay")' < failures'[r]
      <3>1. D!Count(r, "replay") \in Nat /\ D!Count(r, "replay") <= failures[r]
            /\ failures[r] \in Nat /\ failures'[r] \in Nat /\ failures[r] <= failures'[r]
            /\ r \notin Event /\ r \notin Command /\ r \in D!Item
        BY CountType DEF D!DeadLettersAssumption, D!IInv, D!Inv, D!OneReplayPerFailure, D!TypeOK,
           D!Item
      <3>2. row[r].status \in {"dead", "failed"} \/ failures'[r] > failures[r]
        BY <1>1, <2>1, <3>1 DEF D!IInv, D!Inv, D!TypeOK, D!Status
      <3> QED
        BY <1>4, <3>1, <3>2 DEF D!IInv, D!Credit
    <2>2. ASSUME NEW e \in Event, row'[e].status \in {"dead", "failed", "processing"},
                 ~row'[e].lease
          PROVE  deep'[e] < failures'[e]
      <3>1. /\ deep[e] \in Nat /\ deep[e] <= failures[e] /\ deep'[e] = deep[e]
            /\ failures[e] \in Nat /\ failures'[e] \in Nat /\ failures[e] <= failures'[e]
            /\ e \notin Command /\ e \in D!Item
        BY DEF D!DeadLettersAssumption, D!IInv, D!Inv, D!OneReplayPerFailure, D!TypeOK, D!Item
      <3>2. \/ row[e].status \in {"dead", "failed", "processing"} /\ ~row[e].lease
            \/ failures'[e] > failures[e]
        BY <1>1, <2>2, <3>1
      <3> QED
        BY <3>1, <3>2 DEF D!IInv, D!Credit
    <2> QED
      BY <2>1, <2>2 DEF D!Credit
  <1> QED
    BY <1>3, <1>5, <1>6, <1>7, <1>8, NeverOfferedNext DEF D!IInv, D!Inv

(* ... when no attempt has failed.                                         *)
LEMMA MoveCore ==
    ASSUME D!DeadLettersAssumption,
           D!IInv, NEW i \in D!Item, NEW new \in D!Row, D!Move(i, new), UNCHANGED failures,
           new.status \in D!Status(i),
           \/ new.status \notin {"dead", "failed", "processing"}
           \/ i \in Command
           \/ i \in Event /\ new.lease /\ new.status = "processing"
    PROVE  D!IInv'
  <1>1. /\ row' = [row EXCEPT ![i] = new] /\ D!Free(i)
        /\ UNCHANGED <<lock, trail, deep, op>> /\ requests' = requests
    BY DEF D!Move
  <1>2. requests' \in Nat /\ failures' \in [D!Item -> Nat]
    BY <1>1 DEF D!IInv, D!Inv, D!TypeOK
  <1>3. \A j \in D!Item : failures[j] <= failures'[j]
    BY DEF D!IInv, D!Inv, D!TypeOK
  <1> QED
    BY <1>1, <1>2, <1>3, RowCore

(* What an attempt at a row makes of it.                                   *)
LEMMA FailCore ==
    ASSUME D!DeadLettersAssumption,
           D!IInv, NEW i \in D!Item, NEW new \in D!Row,
           row' = [row EXCEPT ![i] = new], UNCHANGED <<lock, trail, deep, op, requests>>,
           D!Free(i) \/ (new.status = row[i].status /\ new.done = row[i].done),
           failures' = [failures EXCEPT ![i] = @ + 1],
           new.status \in D!Status(i)
    PROVE  D!IInv'
  <1>1. failures \in [D!Item -> Nat] /\ requests \in Nat
    BY DEF D!IInv, D!Inv, D!TypeOK
  <1>2. requests' \in Nat /\ failures' \in [D!Item -> Nat] /\ failures'[i] > failures[i]
    BY <1>1
  <1>3. \A j \in D!Item : failures[j] <= failures'[j]
    BY <1>1
  <1> QED
    BY <1>2, <1>3, RowCore

(* A business transaction commits a result, with a row for its reply.      *)
LEMMA CommitCore ==
    ASSUME D!DeadLettersAssumption,
           D!IInv, NEW e \in Event, D!CommitResult(e)
    PROVE  D!IInv'
  <1>1. PICK of \in SUBSET Reply :
          /\ \A r \in of : row[r].status = "absent"
          /\ row' = [i \in D!Item |->
                       IF i = e THEN [row[e] EXCEPT !.done = TRUE]
                       ELSE IF i \in of THEN [row[i] EXCEPT !.status = "pending"]
                       ELSE row[i]]
    <2> DEFINE S == {r \in Reply : EventOf[r] = e}
    <2>1. \A r \in S : row[r].status = "absent"
      BY DEF D!CommitResult
    <2>2. \A i \in D!Item : (i \in Reply /\ EventOf[i] = e) <=> i \in S
      OBVIOUS
    <2> HIDE DEF S
    <2>3. row' = [i \in D!Item |->
                    IF i = e THEN [row[e] EXCEPT !.done = TRUE]
                    ELSE IF i \in S THEN [row[i] EXCEPT !.status = "pending"]
                    ELSE row[i]]
      BY <2>2 DEF D!CommitResult
    <2>4. S \in SUBSET Reply
      BY DEF S
    <2> QED
      BY <2>1, <2>3, <2>4
  <1>2. /\ e \in D!Item /\ e \notin Reply /\ of \subseteq D!Item /\ e \notin of
        /\ UNCHANGED <<lock, trail, deep, op, failures, requests>> /\ lock[e] = None
    BY DEF D!DeadLettersAssumption, D!CommitResult, D!Free, D!Item
  <1>3. \A i \in D!Item : /\ row'[i] \in D!Row /\ row[i] \in D!Row
                          /\ row'[i].lease = row[i].lease
                          /\ row'[i].status = IF i \in of THEN "pending" ELSE row[i].status
                          /\ i # e => row'[i].done = row[i].done
    <2> TAKE i \in D!Item
    <2>1. row[i] \in D!Row
      BY DEF D!IInv, D!Inv, D!TypeOK
    <2>2. CASE i = e
      <3>1. row'[i] = [row[i] EXCEPT !.done = TRUE] /\ i \notin of
        BY <1>1, <1>2, <2>2
      <3> QED
        BY <2>1, <2>2, <3>1 DEF D!Row
    <2>3. CASE i # e /\ i \in of
      <3>1. row'[i] = [row[i] EXCEPT !.status = "pending"]
        BY <1>1, <2>3
      <3> QED
        BY <2>1, <2>3, <3>1 DEF D!Row, D!AnyStatus
    <2>4. CASE i # e /\ i \notin of
      BY <1>1, <2>1, <2>4
    <2> QED
      BY <2>2, <2>3, <2>4
  <1>4. row' \in [D!Item -> D!Row]
    BY <1>1, <1>3
  <1>5. \A i \in D!Item : row'[i].status \in D!Status(i)
    <2>1. \A i \in of : "pending" \in D!Status(i)
      BY <1>1, StatusOf
    <2> QED
      BY <1>3, <2>1 DEF D!IInv, D!Inv, D!TypeOK
  <1>6. D!TypeOK'
    BY <1>2, <1>4, <1>5 DEF D!IInv, D!Inv, D!TypeOK, D!Status, D!Waiting
  <1>7. \A j, a : D!Count(j, a)' = D!Count(j, a)
    BY <1>2 DEF D!Count
  <1>8. D!OneResolution' /\ D!OneReplayPerFailure'
    BY <1>2, <1>7 DEF D!IInv, D!Inv, D!OneResolution, D!OneReplayPerFailure
  <1>9. ASSUME NEW o \in Operator
        PROVE  D!Standing(o)'
    <2>1. D!Standing(o) /\ op' = op /\ lock' = lock /\ trail' = trail
      BY <1>2 DEF D!IInv
    <2>2. op[o].stage = "locked" => /\ op[o].item \in D!Item /\ op[o].item # e
                                    /\ op[o].item \notin of
      BY <1>1, <1>2, <2>1 DEF D!DeadLettersAssumption, D!Standing, D!Exists
    <2>3. op[o].stage = "locked" =>
             /\ row'[op[o].item].status = row[op[o].item].status
             /\ row'[op[o].item].done = row[op[o].item].done
      BY <1>3, <2>2
    <2> QED
      BY <2>1, <2>3 DEF D!Standing, D!Exists, D!Requeueable, D!Resolved
  <1>10. D!Credit'
    <2>1. \A i \in D!Item : /\ row'[i].status \in {"dead", "failed", "processing"}
                              => row'[i].status = row[i].status
                            /\ row'[i].lease = row[i].lease
      BY <1>3
    <2> QED
      BY <1>2, <1>7, <2>1 DEF D!IInv, D!Credit, D!Item
  <1> QED
    BY <1>6, <1>8, <1>9, <1>10, NeverOfferedNext DEF D!IInv, D!Inv

(* A step of a worker, a user or retention.                                *)
LEMMA WorkCore ==
    ASSUME D!DeadLettersAssumption,
           D!IInv, D!Work
    PROVE  D!IInv'
  <1>1. ASSUME NEW e \in Event, D!Arrive(e)
        PROVE  D!IInv'
    <2> DEFINE new == [row[e] EXCEPT !.status = "received"]
    <2>1. e \in D!Item /\ row[e] \in D!Row 
      BY DEF D!IInv, D!Inv, D!TypeOK, D!Item
    <2>2. new \in D!Row /\ new.status = "received"
      BY <2>1 DEF D!Row, D!AnyStatus
    <2>3. D!Move(e, new) /\ UNCHANGED failures
      BY <1>1 DEF D!Arrive
    <2> HIDE DEF new
    <2>4. new.status \in D!Status(e)
      BY <2>2, StatusOf
    <2> QED
      BY <2>1, <2>2, <2>3, <2>4, MoveCore
  <1>2. ASSUME NEW i \in D!Item, D!Claim(i)
        PROVE  D!IInv'
    <2> DEFINE new == [row[i] EXCEPT !.status = D!Trying(i), !.lease = i \notin Command]
    <2>1. row[i] \in D!Row /\ D!Trying(i) \in D!AnyStatus
      BY DEF D!IInv, D!Inv, D!TypeOK, D!Trying, D!AnyStatus
    <2>2. new \in D!Row /\ new.status = D!Trying(i) /\ new.lease = (i \notin Command)
      BY <2>1 DEF D!Row
    <2>3. D!Move(i, new) /\ UNCHANGED failures
      BY <1>2 DEF D!Claim
    <2> HIDE DEF new
    <2>4. /\ D!Trying(i) \in D!Status(i)
          /\ i \in Event => D!Trying(i) = "processing" /\ i \notin Command
          /\ i \in Reply => D!Trying(i) = "sending"
      BY StatusOf DEF D!DeadLettersAssumption, D!Trying, D!Item
    <2> QED
      BY <2>2, <2>3, <2>4, MoveCore DEF D!Item
  <1>3. ASSUME NEW i \in D!Item, D!Succeed(i)
        PROVE  D!IInv'
    <2> DEFINE status == CASE i \in Event -> "succeeded" [] i \in Reply -> "sent"
                           [] OTHER -> "executed"
               new == [row[i] EXCEPT !.status = status, !.lease = FALSE, !.error = None,
                                     !.done = @ \/ i \in Reply]
    <2>1. row[i] \in D!Row /\ status \in D!Status(i)
          /\ status \in D!AnyStatus \ {"dead", "failed", "processing"}
      BY StatusOf DEF D!DeadLettersAssumption, D!IInv, D!Inv, D!TypeOK, D!AnyStatus, D!Item
    <2>2. D!Move(i, new) /\ UNCHANGED failures
      BY <1>3 DEF D!Succeed
    <2> HIDE DEF status
    <2>3. new \in D!Row /\ new.status = status
      BY <2>1 DEF D!Row
    <2> HIDE DEF new
    <2> QED
      BY <2>1, <2>2, <2>3, MoveCore
  <1>4. ASSUME NEW i \in D!Item, D!Purge(i)
        PROVE  D!IInv'
    <2> DEFINE new == [row[i] EXCEPT !.status = "purged", !.error = None, !.done = FALSE]
    <2>1. row[i] \in D!Row /\ "purged" \in D!Status(i)
      <3>1. row[i] \in D!Row /\ row[i].status \in D!Status(i)
        BY DEF D!IInv, D!Inv, D!TypeOK
      <3>2. row[i].status \in {"succeeded", "sent", "dead"}
        BY <1>4 DEF D!Purge
      <3> QED
        BY <3>1, <3>2, StatusOf DEF D!Item
    <2>2. D!Move(i, new) /\ UNCHANGED failures
      BY <1>4 DEF D!Purge
    <2>3. new \in D!Row /\ new.status = "purged"
      BY <2>1 DEF D!Row, D!AnyStatus
    <2> HIDE DEF new
    <2> QED
      BY <2>1, <2>2, <2>3, MoveCore
  <1>5. ASSUME NEW c \in Command, NEW s \in {"cancelled", "expired", "failed"}, D!Decide(c, s)
        PROVE  D!IInv'
    <2> DEFINE new == [row[c] EXCEPT !.status = s]
    <2>1. c \in D!Item /\ row[c] \in D!Row /\ s \in D!Status(c)
      BY StatusOf DEF D!IInv, D!Inv, D!TypeOK, D!Item
    <2>2. D!Move(c, new) /\ UNCHANGED failures
      BY <1>5 DEF D!Decide
    <2>3. new \in D!Row /\ new.status = s
      BY <2>1 DEF D!Row, D!AnyStatus
    <2> HIDE DEF new
    <2> QED
      BY <2>1, <2>2, <2>3, MoveCore
  <1>6. ASSUME NEW i \in D!Item, D!LeaseRunsOut(i)
        PROVE  D!IInv'
    <2> DEFINE new == [row[i] EXCEPT !.lease = FALSE]
    <2>1. row[i] \in D!Row /\ row[i].status \in D!Status(i) /\ row \in [D!Item -> D!Row]
      BY DEF D!IInv, D!Inv, D!TypeOK
    <2>2. /\ row' = [row EXCEPT ![i] = new] /\ failures' = [failures EXCEPT ![i] = @ + 1]
          /\ UNCHANGED <<lock, trail, deep, op, requests>>
      BY <1>6, <2>1 DEF D!LeaseRunsOut
    <2>3. new \in D!Row /\ new.status = row[i].status /\ new.done = row[i].done
      BY <2>1 DEF D!Row
    <2> HIDE DEF new
    <2> QED
      BY <2>1, <2>2, <2>3, FailCore
  <1>7. ASSUME NEW i \in D!Item, NEW c \in Raised, NEW s \in {"failed", "dead"}, D!FailAttempt(i, c, s)
        PROVE  D!IInv'
    <2> DEFINE new == [row[i] EXCEPT !.status = s, !.lease = FALSE, !.error = c]
    <2>1. row[i] \in D!Row /\ s \in D!Status(i) /\ c \in D!Code
      BY <1>7, StatusOf DEF D!DeadLettersAssumption, D!FailAttempt, D!IInv, D!Inv, D!TypeOK,
         D!Item
    <2>2. /\ row' = [row EXCEPT ![i] = new] /\ failures' = [failures EXCEPT ![i] = @ + 1]
          /\ UNCHANGED <<lock, trail, deep, op, requests>> /\ D!Free(i)
      BY <1>7 DEF D!FailAttempt, D!Move
    <2>3. new \in D!Row /\ new.status = s
      BY <2>1 DEF D!Row, D!AnyStatus
    <2> HIDE DEF new
    <2> QED
      BY <2>1, <2>2, <2>3, FailCore
  <1> QED
    BY <1>1, <1>2, <1>3, <1>4, <1>5, <1>6, <1>7, CommitCore DEF D!Work

-----------------------------------------------------------------------------
(* The steps of an operator                                                *)

(* Only the request moves, and the locks it may hold.                      *)
LEMMA RequestCore ==
    ASSUME D!DeadLettersAssumption,
           D!IInv, NEW o \in Operator, NEW new \in D!Request, op' = [op EXCEPT ![o] = new],
           UNCHANGED <<row, trail, deep, failures>>, requests' \in Nat,
           lock' \in [D!Item -> Operator \cup {None}],
           \A i \in D!Item, p \in Operator : p # o /\ lock[i] = p => lock'[i] = p,
           new.stage \in {"idle", "picked"},
           new.stage = "picked" => new.item \in D!Item
    PROVE  D!IInv'
  <1>1. op' \in [Operator -> D!Request] /\ op'[o] = new
        /\ \A p \in Operator : p # o => op'[p] = op[p]
    BY DEF D!IInv, D!Inv, D!TypeOK
  <1>2. D!TypeOK'
    BY <1>1 DEF D!IInv, D!Inv, D!TypeOK, D!Status, D!Waiting
  <1>3. \A j, a : D!Count(j, a)' = D!Count(j, a)
    BY DEF D!Count
  <1>4. D!OneResolution' /\ D!OneReplayPerFailure' /\ D!Credit'
    BY <1>3 DEF D!IInv, D!Inv, D!OneResolution, D!OneReplayPerFailure, D!Credit
  <1>5. ASSUME NEW p \in Operator
        PROVE  D!Standing(p)'
    <2>1. D!Standing(p) /\ row' = row /\ trail' = trail
      BY DEF D!IInv
    <2>2. CASE p = o
      BY <1>1, <2>2 DEF D!Standing
    <2>3. CASE p # o
      <3>1. op'[p] = op[p]
        BY <1>1, <2>3
      <3>2. op[p].stage = "locked" => lock'[op[p].item] = p
        BY <2>1, <2>3 DEF D!Standing
      <3> QED
        BY <2>1, <3>1, <3>2 DEF D!Standing, D!Exists, D!Requeueable, D!Resolved
    <2> QED
      BY <2>2, <2>3
  <1> QED
    BY <1>2, <1>4, <1>5, NeverOfferedNext DEF D!IInv, D!Inv

(* An idle request is well formed.                                         *)
LEMMA IdleRequest == D!Idle \in D!Request /\ D!Idle.stage = "idle"
  BY DEF D!Idle, D!Request, D!Stage

(* A page shows rows that there are.                                       *)
LEMMA ScreensShowItems == UNION D!Screens \subseteq D!Item
  BY DEF D!Screens, D!Listed, D!QueuePage, D!Item

(* A request picks an item.                                                *)
LEMMA PickCore ==
    ASSUME D!DeadLettersAssumption,
           D!IInv, NEW o \in Operator, NEW i \in D!Item, D!Pick(o, i)
    PROVE  D!IInv'
  <1> DEFINE new == [op[o] EXCEPT !.stage = "picked", !.item = i]
  <1>1. op \in [Operator -> D!Request] /\ requests \in Nat /\ lock \in [D!Item -> Operator \cup {None}]
    BY DEF D!IInv, D!Inv, D!TypeOK
  <1>2. op' = [op EXCEPT ![o] = new] /\ UNCHANGED <<row, lock, trail, deep, failures>>
    BY <1>1 DEF D!Pick
  <1>4. requests' \in Nat
    BY <1>1 DEF D!Pick
  <1>3. new \in D!Request /\ new.stage = "picked" /\ new.item = i
    BY <1>1 DEF D!Request, D!Stage
  <1> HIDE DEF new
  <1> QED
    BY <1>1, <1>2, <1>3, <1>4, RequestCore

(* A request is left, and its transaction rolled back.                     *)
LEMMA LeaveCore ==
    ASSUME D!DeadLettersAssumption,
           D!IInv, NEW o \in Operator, D!Leave(o)
    PROVE  D!IInv'
  <1>1. lock \in [D!Item -> Operator \cup {None}] /\ requests \in Nat
    BY DEF D!IInv, D!Inv, D!TypeOK
  <1>2. lock' = [i \in D!Item |-> IF lock[i] = o THEN None ELSE lock[i]]
        /\ op' = [op EXCEPT ![o] = D!Idle] /\ UNCHANGED <<row, trail, deep, failures, requests>>
    BY DEF D!Leave, D!Return
  <1>3. /\ lock' \in [D!Item -> Operator \cup {None}]
        /\ \A i \in D!Item, p \in Operator : p # o /\ lock[i] = p => lock'[i] = p
    BY <1>1, <1>2
  <1> QED
    BY <1>1, <1>2, <1>3, IdleRequest, RequestCore

(* What a transaction reads when it has its lock.                          *)
LEMMA LockCore ==
    ASSUME D!DeadLettersAssumption,
           D!IInv, NEW o \in Operator, NEW action \in {"replay", "resolve"}, D!LockRow(o, action)
    PROVE  D!IInv'
  <1> DEFINE i == op[o].item
             new == [op[o] EXCEPT !.stage = "locked", !.action = action,
                                  !.before = row[i].status]
  <1>1. /\ op \in [Operator -> D!Request] /\ lock \in [D!Item -> Operator \cup {None}]
        /\ row \in [D!Item -> D!Row]
    BY DEF D!IInv, D!Inv, D!TypeOK
  <1>2. i \in D!Item /\ op[o].stage = "picked"
    BY DEF D!LockRow, D!At, D!IInv, D!Standing
  <1>3. row[i].status \in D!AnyStatus
    BY <1>1, <1>2 DEF D!Row
  <1>4. /\ op' = [op EXCEPT ![o] = new] /\ lock' = [lock EXCEPT ![i] = o]
        /\ UNCHANGED <<row, trail, deep, failures, requests>>
        /\ D!Exists(i) /\ lock[i] = None
        /\ action = "replay" => i \in Reply /\ D!Requeueable(i)
        /\ action = "resolve" => ~D!Resolved(i)
    BY <1>1 DEF D!LockRow, D!Free
  <1>5. new \in D!Request /\ new.stage = "locked" /\ new.item = i /\ new.action = action
        /\ new.before = row[i].status
    BY <1>1, <1>3 DEF D!Request, D!Stage
  <1> HIDE DEF new
  <1>6. op' \in [Operator -> D!Request] /\ op'[o] = new
        /\ \A p \in Operator : p # o => op'[p] = op[p]
    BY <1>1, <1>4, <1>5
  <1>7. lock' \in [D!Item -> Operator \cup {None}] /\ lock'[i] = o
        /\ \A j \in D!Item : j # i => lock'[j] = lock[j]
    BY <1>1, <1>2, <1>4
  <1>8. D!TypeOK'
    BY <1>4, <1>6, <1>7 DEF D!IInv, D!Inv, D!TypeOK, D!Status, D!Waiting
  <1>9. \A j, a : D!Count(j, a)' = D!Count(j, a)
    BY <1>4 DEF D!Count
  <1>10. D!OneResolution' /\ D!OneReplayPerFailure' /\ D!Credit'
    BY <1>4, <1>9 DEF D!IInv, D!Inv, D!OneResolution, D!OneReplayPerFailure, D!Credit
  <1>11. ASSUME NEW p \in Operator
         PROVE  D!Standing(p)'
    <2>1. D!Standing(p) /\ row' = row /\ trail' = trail
      BY <1>4 DEF D!IInv
    <2>2. CASE p = o
      <3>1. op'[p] = new
        BY <1>6, <2>2
      <3> QED
        BY <1>2, <1>4, <1>5, <1>7, <2>1, <2>2, <3>1
           DEF D!Standing, D!Exists, D!Requeueable, D!Resolved
    <2>3. CASE p # o
      <3>1. op'[p] = op[p]
        BY <1>6, <2>3
      <3>2. op[p].stage = "locked" => lock'[op[p].item] = p
        BY <1>4, <1>7, <2>1 DEF D!DeadLettersAssumption, D!Standing
      <3> QED
        BY <2>1, <3>1, <3>2 DEF D!Standing, D!Exists, D!Requeueable, D!Resolved
    <2> QED
      BY <2>2, <2>3
  <1> QED
    BY <1>8, <1>10, <1>11, NeverOfferedNext DEF D!IInv, D!Inv

(* What one more record does to the trails and their counts.               *)
LEMMA RecordCounts ==
    ASSUME D!IInv, NEW i \in D!Item, NEW m \in D!Mark, trail' = [trail EXCEPT ![i] = Append(@, m)]
    PROVE  /\ trail' \in [D!Item -> Seq(D!Mark)] /\ trail'[i] = Append(trail[i], m)
           /\ \A j \in D!Item : j # i => trail'[j] = trail[j]
           /\ \A a : \A j \in D!Item : j # i \/ m.action # a => D!Count(j, a)' = D!Count(j, a)
           /\ D!Count(i, m.action)' = D!Count(i, m.action) + 1
           /\ m.action # "resolve" => D!Resolved(i)' = D!Resolved(i)
  <1>1. /\ trail \in [D!Item -> Seq(D!Mark)]
    BY DEF D!IInv, D!Inv, D!TypeOK
  <1>2. /\ trail' \in [D!Item -> Seq(D!Mark)] /\ trail'[i] = Append(trail[i], m)
        /\ \A j \in D!Item : j # i => trail'[j] = trail[j]
    BY <1>1
  <1>3. \A a : \A j \in D!Item : D!Count(j, a) = Cardinality(Places(trail[j], a))
    BY SameCardinality DEF D!Count, Places
  <1>4. \A a : \A j \in D!Item : D!Count(j, a)' = Cardinality(Places(trail'[j], a))
    BY SameCardinality DEF D!Count, Places
  <1>5. \A a : Cardinality(Places(trail'[i], a)) =
                 IF m.action = a THEN Cardinality(Places(trail[i], a)) + 1
                 ELSE Cardinality(Places(trail[i], a))
    BY <1>1, <1>2, AppendCounts
  <1>6. m.action # "resolve" => D!Resolved(i)' = D!Resolved(i)
    <2>1. trail[i] \in Seq(D!Mark)
      BY <1>1
    <2>2. Len(trail[i]) \in Nat /\ DOMAIN trail[i] = 1 .. Len(trail[i])
          /\ DOMAIN trail'[i] = 1 .. Len(trail[i]) + 1
          /\ trail'[i][Len(trail[i]) + 1] = m
          /\ \A n \in 1 .. Len(trail[i]) : trail'[i][n] = trail[i][n]
      BY <1>2, <2>1
    <2> QED
      BY <2>2 DEF D!Resolved
  <1> QED
    BY <1>2, <1>3, <1>4, <1>5, <1>6

(* A record is committed, with the row it is about or without.             *)
LEMMA RecordCore ==
    ASSUME D!DeadLettersAssumption,
           D!IInv, NEW o \in Operator, NEW i \in D!Item, NEW m \in D!Mark,
           op' = [op EXCEPT ![o] = D!Idle], trail' = [trail EXCEPT ![i] = Append(@, m)],
           lock' \in [D!Item -> Operator \cup {None}],
           \A j \in D!Item, p \in Operator : p # o /\ lock[j] = p => lock'[j] = p,
           row' \in [D!Item -> D!Row], \A j \in D!Item : j # i => row'[j] = row[j],
           \/ row'[i] = row[i]
           \/ i \in Reply /\ row'[i].status = "pending",
           UNCHANGED <<deep, failures, requests>>,
           m.after \in D!Status(i) \cap {m.before, D!Waiting(i)},
           (m.action = "replay" /\ row'[i] = row[i]) \/ lock[i] = o,
           m.action = "replay" /\ i \in Reply =>
               row[i].status \in {"dead", "failed"} /\ row'[i].status = "pending",
           m.action = "resolve" => ~D!Resolved(i)
    PROVE  D!IInv'
  <1>1. /\ trail' \in [D!Item -> Seq(D!Mark)] /\ trail'[i] = Append(trail[i], m)
        /\ \A j \in D!Item : j # i => trail'[j] = trail[j]
        /\ \A a : \A j \in D!Item : j # i \/ m.action # a => D!Count(j, a)' = D!Count(j, a)
        /\ D!Count(i, m.action)' = D!Count(i, m.action) + 1
        /\ m.action # "resolve" => D!Resolved(i)' = D!Resolved(i)
    BY RecordCounts
  <1>2. op' \in [Operator -> D!Request] /\ op'[o] = D!Idle
        /\ \A p \in Operator : p # o => op'[p] = op[p]
    BY IdleRequest DEF D!IInv, D!Inv, D!TypeOK
  <1>3. \A j \in D!Item : row'[j].status \in D!Status(j)
    <2>1. i \in Reply => "pending" \in D!Status(i)
      BY StatusOf
    <2> QED
      BY <2>1 DEF D!IInv, D!Inv, D!TypeOK
  <1>4. ASSUME NEW j \in D!Item, NEW n \in DOMAIN trail'[j]
        PROVE  trail'[j][n].after \in D!Status(j) \cap {trail'[j][n].before, D!Waiting(j)}
    <2>1. \A k \in DOMAIN trail[j] :
             trail[j][k].after \in D!Status(j) \cap {trail[j][k].before, D!Waiting(j)}
      BY DEF D!IInv, D!Inv, D!TypeOK
    <2>2. CASE j # i
      BY <1>1, <1>4, <2>1, <2>2
    <2>3. CASE j = i
      <3>1. trail[i] \in Seq(D!Mark)
        BY DEF D!IInv, D!Inv, D!TypeOK
      <3>2. \/ n = Len(trail[i]) + 1 /\ trail'[i][n] = m
            \/ n \in DOMAIN trail[i] /\ trail'[i][n] = trail[i][n]
        <4>1. n \in DOMAIN Append(trail[i], m) /\ trail'[i] = Append(trail[i], m)
          BY <1>1, <1>4, <2>3
        <4> QED
          BY <3>1, <4>1
      <3> QED
        BY <2>1, <2>3, <3>2
    <2> QED
      BY <2>2, <2>3
  <1>5. D!TypeOK'
    BY <1>1, <1>2, <1>3, <1>4 DEF D!IInv, D!Inv, D!TypeOK, D!Status, D!Waiting
  <1>6. D!OneResolution'
    <2> SUFFICES ASSUME NEW j \in D!Item
                 PROVE  D!Count(j, "resolve")' <= 1
      BY DEF D!OneResolution
    <2>1. CASE j = i /\ m.action = "resolve"
      <3>1. \A n \in DOMAIN trail[i] : trail[i][n].action # "resolve"
        BY <2>1 DEF D!Resolved
      <3>2. D!Count(i, "resolve") = 0
        BY <3>1, NoneCounted
      <3> QED
        BY <1>1, <2>1, <3>2
    <2>2. CASE j # i \/ m.action # "resolve"
      BY <1>1, <2>2 DEF D!IInv, D!Inv, D!OneResolution
    <2> QED
      BY <2>1, <2>2
  <1>7. ASSUME NEW r \in Reply
        PROVE  /\ D!Count(r, "replay")' <= failures'[r]
               /\ row'[r].status \in {"dead", "failed"} => D!Count(r, "replay")' < failures'[r]
    <2>1. r \in D!Item /\ failures[r] \in Nat /\ D!Count(r, "replay") \in Nat
      BY CountType DEF D!IInv, D!Inv, D!TypeOK, D!Item
    <2>2. CASE r = i /\ m.action = "replay"
      <3>1. D!Count(i, "replay") < failures[i]
        BY <2>2 DEF D!IInv, D!Credit
      <3> QED
        BY <1>1, <2>1, <2>2, <3>1
    <2>3. CASE r # i \/ m.action # "replay"
      <3>1. D!Count(r, "replay")' = D!Count(r, "replay")
        BY <1>1, <2>1, <2>3
      <3>2. row'[r].status \in {"dead", "failed"} => row[r].status \in {"dead", "failed"}
        BY <2>1
      <3> QED
        BY <3>1, <3>2 DEF D!IInv, D!Inv, D!OneReplayPerFailure, D!Credit
    <2> QED
      BY <2>2, <2>3
  <1>8. \A e \in Event : row'[e] = row[e]
    BY DEF D!DeadLettersAssumption, D!Item
  <1>9. D!OneReplayPerFailure' /\ D!Credit'
    BY <1>7, <1>8 DEF D!IInv, D!Inv, D!OneReplayPerFailure, D!Credit
  <1>10. ASSUME NEW p \in Operator
         PROVE  D!Standing(p)'
    <2>1. D!Standing(p)
      BY DEF D!IInv
    <2>2. CASE p = o
      BY <1>2, <2>2 DEF D!Standing, D!Idle
    <2>3. CASE p # o
      <3>1. op'[p] = op[p]
        BY <1>2, <2>3
      <3>2. op[p].stage = "locked" =>
               /\ op[p].item \in D!Item /\ lock'[op[p].item] = p
               /\ row'[op[p].item] = row[op[p].item]
               /\ D!Resolved(op[p].item)' = D!Resolved(op[p].item)
        <4>1. CASE op[p].stage = "locked" /\ op[p].item = i
          <5>1. lock[i] = p
            BY <2>1, <4>1 DEF D!Standing
          <5>2. m.action = "replay" /\ row'[i] = row[i]
            BY <2>3, <5>1
          <5> QED
            BY <1>1, <2>3, <4>1, <5>1, <5>2
        <4>2. CASE op[p].stage = "locked" /\ op[p].item # i
          <5>1. op[p].item \in D!Item /\ lock[op[p].item] = p
            BY <2>1, <4>2 DEF D!Standing
          <5>2. trail'[op[p].item] = trail[op[p].item]
            BY <1>1, <4>2, <5>1
          <5> QED
            BY <2>3, <4>2, <5>1, <5>2, <3>1 DEF D!Resolved
        <4> QED
          BY <4>1, <4>2
      <3> QED
        BY <2>1, <3>1, <3>2 DEF D!Standing, D!Exists, D!Requeueable
    <2> QED
      BY <2>2, <2>3
  <1> QED
    BY <1>5, <1>6, <1>9, <1>10, NeverOfferedNext DEF D!IInv, D!Inv

(* A reply goes back to its worker.                                        *)
LEMMA ReplayReplyCore ==
    ASSUME D!DeadLettersAssumption,
           D!IInv, NEW o \in Operator, D!ReplayReply(o)
    PROVE  D!IInv'
  <1> DEFINE r == op[o].item
             m == [action |-> "replay", before |-> op[o].before, after |-> D!Waiting(r)]
             new == [row[r] EXCEPT !.status = D!Waiting(r), !.error = None, !.lease = FALSE]
  <1>1. /\ D!Standing(o) /\ op[o].stage = "locked" /\ op[o].action = "replay"
        /\ row \in [D!Item -> D!Row] /\ lock \in [D!Item -> Operator \cup {None}]
        /\ failures \in [D!Item -> Nat] /\ requests \in Nat
    BY DEF D!ReplayReply, D!At, D!IInv, D!Inv, D!TypeOK
  <1>2. /\ r \in D!Item /\ r \in Reply /\ r \notin Event
        /\ lock[r] = o /\ op[o].before = row[r].status
        /\ row[r].status \in {"dead", "failed"}
    BY <1>1 DEF D!DeadLettersAssumption, D!Standing, D!Requeueable
  <1>3. D!Waiting(r) = "pending" /\ D!Waiting(r) \in D!Status(r)
    BY <1>2, StatusOf DEF D!Waiting
  <1>4. m \in D!Mark /\ m.action = "replay" /\ m.after = D!Waiting(r)
    BY <1>2, <1>3 DEF D!Mark, D!AnyStatus
  <1>5. /\ op' = [op EXCEPT ![o] = D!Idle] /\ trail' = [trail EXCEPT ![r] = Append(@, m)]
        /\ lock' = [lock EXCEPT ![r] = None] /\ row' = [row EXCEPT ![r] = new]
        /\ UNCHANGED <<deep, failures, requests>>
    BY <1>1 DEF D!ReplayReply, D!Return, D!Record, D!Unlock
  <1>6. new \in D!Row /\ new.status = "pending"
    <2>1. row[r] \in D!Row
      BY <1>1, <1>2
    <2> QED
      BY <1>3, <2>1 DEF D!Row, D!AnyStatus
  <1> HIDE DEF r, m, new
  <1>7. row' \in [D!Item -> D!Row] /\ row'[r].status = "pending"
        /\ \A j \in D!Item : j # r => row'[j] = row[j]
    BY <1>1, <1>2, <1>5, <1>6
  <1>8. /\ lock' \in [D!Item -> Operator \cup {None}]
        /\ \A j \in D!Item, p \in Operator : p # o /\ lock[j] = p => lock'[j] = p
    BY <1>1, <1>2, <1>5
  <1>9. m.after \in D!Status(r) \cap {m.before, D!Waiting(r)}
    BY <1>3, <1>4
  <1>10. \/ row'[r] = row[r]
         \/ r \in Reply /\ row'[r].status = "pending"
    BY <1>2, <1>7
  <1>11. (m.action = "replay" /\ row'[r] = row[r]) \/ lock[r] = o
    BY <1>2
  <1>12. m.action = "replay" /\ r \in Reply =>
            row[r].status \in {"dead", "failed"} /\ row'[r].status = "pending"
    BY <1>2, <1>7
  <1>13. m.action = "resolve" => ~D!Resolved(r)
    BY <1>4
  <1>14. r \in D!Item /\ m \in D!Mark
    BY <1>2, <1>4
  <1> QED
    BY <1>5, <1>7, <1>8, <1>9, <1>10, <1>11, <1>12, <1>13, <1>14, RecordCore, ZenonT(60)

(* An item is marked resolved.                                             *)
LEMMA ResolveCore ==
    ASSUME D!DeadLettersAssumption,
           D!IInv, NEW o \in Operator, D!Resolve(o)
    PROVE  D!IInv'
  <1> DEFINE i == op[o].item
             m == [action |-> "resolve", before |-> op[o].before, after |-> op[o].before]
  <1>1. /\ D!Standing(o) /\ op[o].stage = "locked" /\ op[o].action = "resolve"
        /\ row \in [D!Item -> D!Row] /\ lock \in [D!Item -> Operator \cup {None}]
    BY DEF D!Resolve, D!At, D!IInv, D!Inv, D!TypeOK
  <1>2. /\ i \in D!Item /\ lock[i] = o /\ op[o].before = row[i].status /\ ~D!Resolved(i)
    BY <1>1 DEF D!Standing
  <1>3. row[i].status \in D!Status(i) /\ row[i].status \in D!AnyStatus
    BY <1>1, <1>2 DEF D!IInv, D!Inv, D!TypeOK, D!Row
  <1>4. m \in D!Mark /\ m.action = "resolve" /\ m.after = m.before /\ m.after \in D!Status(i)
    BY <1>2, <1>3 DEF D!Mark
  <1>5. /\ op' = [op EXCEPT ![o] = D!Idle] /\ trail' = [trail EXCEPT ![i] = Append(@, m)]
        /\ lock' = [lock EXCEPT ![i] = None] /\ row' = row
        /\ UNCHANGED <<deep, failures, requests>>
    BY DEF D!Resolve, D!Return, D!Record, D!Unlock
  <1> HIDE DEF i, m
  <1>6. /\ lock' \in [D!Item -> Operator \cup {None}]
        /\ \A j \in D!Item, p \in Operator : p # o /\ lock[j] = p => lock'[j] = p
    BY <1>1, <1>2, <1>5
  <1>7. row' \in [D!Item -> D!Row] /\ row'[i] = row[i] /\ \A j \in D!Item : j # i => row'[j] = row[j]
    BY <1>1, <1>5
  <1> QED
    BY <1>2, <1>4, <1>5, <1>6, <1>7, RecordCore

(* The common audit of a requeue is written after it.                      *)
LEMMA AuditCore ==
    ASSUME D!DeadLettersAssumption,
           D!IInv, NEW o \in Operator, D!AuditEvent(o)
    PROVE  D!IInv'
  <1> DEFINE e == op[o].item
             m == [action |-> "replay", before |-> op[o].before, after |-> "received"]
  <1>1. /\ D!Standing(o) /\ op[o].stage = "audit"
        /\ row \in [D!Item -> D!Row] /\ lock \in [D!Item -> Operator \cup {None}]
    BY DEF D!AuditEvent, D!At, D!IInv, D!Inv, D!TypeOK
  <1>2. e \in Event /\ e \in D!Item /\ e \notin Reply /\ op[o].before \in D!AnyStatus
    BY <1>1 DEF D!DeadLettersAssumption, D!Standing, D!Item
  <1>3. m \in D!Mark /\ m.action = "replay" /\ m.after = "received"
    BY <1>2 DEF D!Mark, D!AnyStatus
  <1>4. D!Waiting(e) = "received" /\ "received" \in D!Status(e)
    BY <1>2, StatusOf DEF D!Waiting
  <1>5. /\ op' = [op EXCEPT ![o] = D!Idle] /\ trail' = [trail EXCEPT ![e] = Append(@, m)]
        /\ lock' = lock /\ row' = row /\ UNCHANGED <<deep, failures, requests>>
    BY DEF D!AuditEvent, D!Return, D!Record
  <1> HIDE DEF e, m
  <1>6. /\ lock' \in [D!Item -> Operator \cup {None}]
        /\ \A j \in D!Item, p \in Operator : p # o /\ lock[j] = p => lock'[j] = p
    BY <1>1, <1>5
  <1>7. row' \in [D!Item -> D!Row] /\ row'[e] = row[e] /\ \A j \in D!Item : j # e => row'[j] = row[j]
    BY <1>1, <1>5
  <1> QED
    BY <1>2, <1>3, <1>4, <1>5, <1>6, <1>7, RecordCore

(* An event goes back to its worker.                                       *)
LEMMA ReplayEventCore ==
    ASSUME D!DeadLettersAssumption,
           D!IInv, NEW o \in Operator, NEW unified \in BOOLEAN, D!ReplayEvent(o, unified)
    PROVE  D!IInv'
  <1> DEFINE e == op[o].item
             new == [row[e] EXCEPT !.status = D!Waiting(e), !.error = None, !.lease = FALSE]
             audit == [op[o] EXCEPT !.stage = "audit", !.before = row[e].status]
             asked == IF unified THEN audit ELSE D!Idle
  <1>1. /\ row \in [D!Item -> D!Row] /\ lock \in [D!Item -> Operator \cup {None}]
        /\ op \in [Operator -> D!Request] /\ deep \in [Event -> Nat]
        /\ failures \in [D!Item -> Nat] /\ requests \in Nat
    BY DEF D!IInv, D!Inv, D!TypeOK
  <1>2. /\ op[o].stage = "picked" /\ e \in Event /\ e \in D!Item /\ e \notin Reply
        /\ lock[e] = None
        /\ row[e].status \in {"dead", "failed", "processing"} /\ ~row[e].lease
    BY DEF D!DeadLettersAssumption, D!ReplayEvent, D!At, D!Free, D!Eligible, D!Item
  <1>3. D!Waiting(e) = "received" /\ "received" \in D!Status(e)
    BY <1>2, StatusOf DEF D!Waiting
  <1>4. new \in D!Row /\ new.status = "received"
    <2> DEFINE w == D!Waiting(e)
    <2>1. row[e] \in D!Row /\ w = "received" /\ w \in D!AnyStatus
      BY <1>1, <1>2, <1>3 DEF D!AnyStatus
    <2>2. new = [row[e] EXCEPT !.status = w, !.error = None, !.lease = FALSE]
      OBVIOUS
    <2> HIDE DEF w, new
    <2> QED
      BY <2>1, <2>2 DEF D!Row
  <1>5. audit \in D!Request /\ audit.stage = "audit" /\ audit.item = e
        /\ audit.before \in D!AnyStatus
    <2> DEFINE b == row[e].status
    <2>1. op[o] \in D!Request /\ b \in D!AnyStatus
      BY <1>1, <1>2 DEF D!Row
    <2>2. audit = [op[o] EXCEPT !.stage = "audit", !.before = b]
      OBVIOUS
    <2> HIDE DEF b, audit
    <2>3. /\ audit.stage = "audit" /\ audit.item = e /\ audit.before = b
          /\ audit \in D!Request
      BY <2>1, <2>2 DEF D!Request, D!Stage
    <2> QED
      BY <2>1, <2>3
  <1>6. op' = [op EXCEPT ![o] = asked]
    BY <1>1 DEF D!ReplayEvent, D!Return
  <1>7. asked \in D!Request /\ asked \in {audit, D!Idle}
    BY <1>5, IdleRequest
  <1>8. row' = [row EXCEPT ![e] = new] /\ deep' = [deep EXCEPT ![e] = @ + 1]
        /\ UNCHANGED <<lock, trail, failures, requests>>
    BY <1>1 DEF D!ReplayEvent
  <1> HIDE DEF e, new, audit, asked
  <1>9. row' \in [D!Item -> D!Row] /\ row'[e].status = "received"
        /\ \A j \in D!Item : j # e => row'[j] = row[j]
    BY <1>1, <1>2, <1>4, <1>8
  <1>10. op' \in [Operator -> D!Request] /\ op'[o] = asked
         /\ \A p \in Operator : p # o => op'[p] = op[p]
    BY <1>1, <1>6, <1>7
  <1>11. deep' \in [Event -> Nat] /\ deep'[e] = deep[e] + 1
         /\ \A d \in Event : d # e => deep'[d] = deep[d]
    BY <1>1, <1>2, <1>8
  <1>12. D!TypeOK'
    BY <1>3, <1>8, <1>9, <1>10, <1>11 DEF D!IInv, D!Inv, D!TypeOK, D!Status, D!Waiting
  <1>13. \A a : \A j : D!Count(j, a)' = D!Count(j, a)
    BY <1>8 DEF D!Count
  <1>14. D!OneResolution'
    BY <1>13 DEF D!IInv, D!Inv, D!OneResolution
  <1>15. D!OneReplayPerFailure' /\ D!Credit'
    <2>1. \A r \in Reply : r \in D!Item /\ row'[r] = row[r]
      BY <1>2, <1>9 DEF D!Item
    <2>2. ASSUME NEW d \in Event
          PROVE  /\ deep'[d] <= failures'[d]
                 /\ row'[d].status \in {"dead", "failed", "processing"} /\ ~row'[d].lease
                      => deep'[d] < failures'[d]
      <3>1. d \in D!Item /\ deep[d] \in Nat /\ failures[d] \in Nat
        BY <1>1 DEF D!Item
      <3>2. CASE d = e
        BY <1>2, <1>8, <1>9, <1>11, <3>1, <3>2 DEF D!IInv, D!Credit
      <3>3. CASE d # e
        BY <1>8, <1>9, <1>11, <3>1, <3>3 DEF D!IInv, D!Inv, D!OneReplayPerFailure, D!Credit
      <3> QED
        BY <3>2, <3>3
    <2> QED
      BY <1>8, <1>13, <2>1, <2>2 DEF D!IInv, D!Inv, D!OneReplayPerFailure, D!Credit
  <1>16. ASSUME NEW p \in Operator
         PROVE  D!Standing(p)'
    <2>1. D!Standing(p) /\ lock' = lock /\ trail' = trail
      BY <1>8 DEF D!IInv
    <2>2. CASE p = o
      BY <1>2, <1>5, <1>7, <1>10, <2>2, IdleRequest DEF D!Standing
    <2>3. CASE p # o
      <3>1. op'[p] = op[p]
        BY <1>10, <2>3
      <3>2. op[p].stage = "locked" => row'[op[p].item] = row[op[p].item]
        BY <1>2, <1>9, <2>1 DEF D!DeadLettersAssumption, D!Standing
      <3> QED
        BY <2>1, <3>1, <3>2 DEF D!Standing, D!Exists, D!Requeueable, D!Resolved
    <2> QED
      BY <2>2, <2>3
  <1> QED
    BY <1>12, <1>14, <1>15, <1>16, NeverOfferedNext DEF D!IInv, D!Inv

-----------------------------------------------------------------------------
(* Theorems                                                                *)

(* The rows start empty.                                                   *)
LEMMA InitCore ==
    ASSUME D!DeadLettersAssumption,
           D!Init
    PROVE  D!IInv
  <1>1. ASSUME NEW i \in D!Item
        PROVE  row[i] \in D!Row /\ row[i].status \in D!Status(i) /\ trail[i] = <<>>
               /\ row[i].status \in {"pending", "absent"}
    <2>1. /\ i \in Command => row[i].status = "pending"
          /\ i \notin Command => row[i].status = "absent"
      BY DEF D!Init
    <2>2. row[i].status \in D!Status(i)
      BY <2>1, StatusOf DEF D!DeadLettersAssumption, D!Item
    <2> QED
      BY <2>1, <2>2 DEF D!Init, D!Row, D!AnyStatus
  <1>2. D!TypeOK
    <2>1. row \in [D!Item -> D!Row]
      BY <1>1 DEF D!Init
    <2>2. trail \in [D!Item -> Seq(D!Mark)] /\ \A i \in D!Item : DOMAIN trail[i] = {}
      BY <1>1 DEF D!Init
    <2>3. op \in [Operator -> D!Request]
      BY IdleRequest DEF D!Init
    <2>4. /\ lock \in [D!Item -> Operator \cup {None}] /\ deep \in [Event -> Nat]
          /\ failures \in [D!Item -> Nat] /\ requests \in Nat
      BY DEF D!Init
    <2> QED
      BY <1>1, <2>1, <2>2, <2>3, <2>4 DEF D!TypeOK
  <1>3. \A a : \A i \in D!Item : D!Count(i, a) = 0
    <2> SUFFICES ASSUME NEW a, NEW i \in D!Item
                 PROVE  D!Count(i, a) = 0
      OBVIOUS
    <2>1. {n \in DOMAIN trail[i] : trail[i][n].action = a} = {}
      BY <1>1
    <2> QED
      BY <2>1, FS_EmptySet, SameCardinality DEF D!Count
  <1>4. D!OneResolution /\ D!OneReplayPerFailure /\ D!Credit
    <2>1. \A i \in D!Item : row[i].status \notin {"dead", "failed", "processing"}
      BY <1>1
    <2>2. \A e \in Event : deep[e] = 0 /\ failures[e] = 0
      BY DEF D!Init, D!Item
    <2>3. \A r \in Reply : failures[r] = 0
      BY DEF D!Init, D!Item
    <2> QED
      BY <1>3, <2>1, <2>2, <2>3 DEF D!OneResolution, D!OneReplayPerFailure, D!Credit, D!Item
  <1>5. \A o \in Operator : D!Standing(o)
    BY DEF D!Init, D!Standing, D!Idle
  <1> QED
    BY <1>2, <1>4, <1>5, NeverOffered DEF D!IInv, D!Inv

(* Every step keeps the invariant.                                         *)
LEMMA NextCore ==
    ASSUME D!DeadLettersAssumption,
           D!IInv, [D!Next]_D!vars
    PROVE  D!IInv'
  <1>1. CASE D!Work
    BY <1>1, WorkCore
  <1>2. ASSUME NEW o \in Operator, D!Operate(o)
        PROVE  D!IInv'
    <2>1. CASE \E i \in UNION D!Screens : D!Pick(o, i)
      BY <2>1, ScreensShowItems, PickCore
    <2>2. CASE \E a \in {"replay", "resolve"} : D!LockRow(o, a)
      BY <2>2, LockCore
    <2>3. CASE \E u \in BOOLEAN : D!ReplayEvent(o, u)
      BY <2>3, ReplayEventCore
    <2> QED
      BY <1>2, <2>1, <2>2, <2>3, ReplayReplyCore, ResolveCore, AuditCore, LeaveCore DEF D!Operate
  <1>3. CASE UNCHANGED D!vars
    <2>1. \A a : \A j : D!Count(j, a)' = D!Count(j, a)
      BY <1>3 DEF D!vars, D!Count
    <2>2. D!TypeOK'
      BY <1>3 DEF D!vars, D!IInv, D!Inv, D!TypeOK, D!Status, D!Waiting
    <2>3. D!OneResolution' /\ D!OneReplayPerFailure' /\ D!Credit'
      BY <1>3, <2>1 DEF D!vars, D!IInv, D!Inv, D!OneResolution, D!OneReplayPerFailure, D!Credit
    <2>4. \A o \in Operator : D!Standing(o)'
      BY <1>3 DEF D!vars, D!IInv, D!Standing, D!Exists, D!Requeueable, D!Resolved
    <2> QED
      BY <2>2, <2>3, <2>4, NeverOfferedNext DEF D!IInv, D!Inv
  <1> QED
    BY <1>1, <1>2, <1>3 DEF D!Next

(* The rows, locks and trails have their shape, no item is resolved twice, *)
(* nothing that must fail again is offered for replay, each replay of a    *)
(* reply or an event is for a failure of its own, and what a request read  *)
(* under its lock is still so when it writes.                              *)
THEOREM DeadLettersInvariance ==
    ASSUME D!DeadLettersAssumption
    PROVE  D!Spec => []D!IInv
  <1>1. D!Init => D!IInv
    BY InitCore
  <1>2. D!IInv /\ [D!Next]_D!vars => D!IInv'
    BY NextCore
  <1> QED
    BY <1>1, <1>2, PTL DEF D!Spec

(* However many operators resolve an item at one time, its trail has one   *)
(* resolution.                                                             *)
THEOREM OneResolutionHolds ==
    ASSUME D!DeadLettersAssumption
    PROVE  D!Spec => []D!OneResolution
  <1>1. D!IInv => D!OneResolution
    BY DEF D!IInv, D!Inv
  <1> QED
    BY <1>1, DeadLettersInvariance, PTL

(* Two operators who saw the same dead letter requeue it once.             *)
THEOREM OneReplayPerFailureHolds ==
    ASSUME D!DeadLettersAssumption
    PROVE  D!Spec => []D!OneReplayPerFailure
  <1>1. D!IInv => D!OneReplayPerFailure
    BY DEF D!IInv, D!Inv
  <1> QED
    BY <1>1, DeadLettersInvariance, PTL

(* A record of a reply or a command says what the row was and what it      *)
(* became by the very step that wrote it.                                  *)
THEOREM TrailTellsTheStepHolds ==
    ASSUME D!DeadLettersAssumption
    PROVE  D!Spec => D!TrailTellsTheStep
  <1> DEFINE A == \A i \in D!Item \ Event : trail'[i] # trail[i] =>
                     LET a == trail'[i][Len(trail'[i])] IN
                     a.before = row[i].status /\ a.after = row'[i].status
  <1>1. ASSUME D!IInv, D!Next
        PROVE  A
    <2> SUFFICES ASSUME NEW i \in D!Item \ Event, trail'[i] # trail[i]
                 PROVE  LET a == trail'[i][Len(trail'[i])] IN
                        a.before = row[i].status /\ a.after = row'[i].status
      OBVIOUS
    <2>1. trail \in [D!Item -> Seq(D!Mark)] /\ trail[i] \in Seq(D!Mark) /\ row \in [D!Item -> D!Row]
      BY <1>1 DEF D!IInv, D!Inv, D!TypeOK
    <2>2. PICK o \in Operator : D!ReplayReply(o) \/ D!Resolve(o) \/ D!AuditEvent(o)
      BY <1>1 DEF D!Next, D!Work, D!Arrive, D!CommitResult, D!Claim, D!LeaseRunsOut, D!Succeed,
         D!Purge,
                  D!FailAttempt, D!Decide, D!Move, D!Operate, D!Pick, D!LockRow, D!ReplayEvent, D!Leave
    <2>3. D!Standing(o)
      BY <1>1 DEF D!IInv
    <2>4. ASSUME NEW m, trail' = [trail EXCEPT ![op[o].item] = Append(@, m)]
          PROVE  i = op[o].item /\ trail'[i][Len(trail'[i])] = m
      <3>1. i = op[o].item
        BY <2>1, <2>4
      <3>2. trail'[i] = Append(trail[i], m)
        BY <2>1, <2>4, <3>1
      <3> QED
        BY <2>1, <3>1, <3>2
    <2>5. CASE D!ReplayReply(o)
      <3> DEFINE m == [action |-> "replay", before |-> op[o].before,
                       after |-> D!Waiting(op[o].item)]
      <3>1. trail' = [trail EXCEPT ![op[o].item] = Append(@, m)]
        BY <2>5 DEF D!ReplayReply, D!Record
      <3> HIDE DEF m
      <3>2. i = op[o].item /\ trail'[i][Len(trail'[i])] = m
        BY <2>4, <3>1
      <3>3. row'[i].status = D!Waiting(i) /\ op[o].before = row[i].status
        BY <2>1, <2>3, <2>5, <3>2 DEF D!ReplayReply, D!At, D!Standing, D!Row
      <3> QED
        BY <3>2, <3>3 DEF m
    <2>6. CASE D!Resolve(o)
      <3> DEFINE m == [action |-> "resolve", before |-> op[o].before, after |-> op[o].before]
      <3>1. trail' = [trail EXCEPT ![op[o].item] = Append(@, m)]
        BY <2>6 DEF D!Resolve, D!Record
      <3> HIDE DEF m
      <3>2. i = op[o].item /\ trail'[i][Len(trail'[i])] = m
        BY <2>4, <3>1
      <3>3. row' = row /\ op[o].before = row[i].status
        BY <2>3, <2>6, <3>2 DEF D!Resolve, D!At, D!Standing
      <3> QED
        BY <3>2, <3>3 DEF m
    <2>7. CASE D!AuditEvent(o)
      <3>1. op[o].item \in Event
        BY <2>3, <2>7 DEF D!AuditEvent, D!At, D!Standing
      <3>2. i = op[o].item
        BY <2>1, <2>7 DEF D!AuditEvent, D!Record
      <3> QED
        BY <3>1, <3>2
    <2> QED
      BY <2>2, <2>5, <2>6, <2>7
  <1>2. D!IInv /\ [D!Next]_D!vars => [A]_D!vars
    BY <1>1
  <1> QED
    BY <1>2, DeadLettersInvariance, PTL DEF D!Spec, D!TrailTellsTheStep
=============================================================================
