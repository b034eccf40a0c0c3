-------------------------- MODULE HcmOutboxProofs --------------------------
(***************************************************************************)
(* Theorems about the contract of the outbox, for tables, batches and      *)
(* attempt limits of any size.                                             *)
(***************************************************************************)
EXTENDS HcmOutbox, QueueProofs

(* What is inductive: what the client holds is of use only while the rows  *)
(* keep their attempts, and the attempts only with the types.              *)
OutboxInv == OutboxTypeOK /\ DeadIffExhausted /\ HeldIsLive

(* What every row satisfies                                                *)
Counted(w) == w.attempts <= MaxAttempts /\ ((w.status = "DEAD") = (w.attempts = MaxAttempts))

LEMMA NewRowCounted == Counted(NewRow) /\ NewRow.status # "INFLIGHT"
  BY OutboxAssumption DEF Counted, NewRow

LEMMA RetryCounted ==
  ASSUME NEW q \in Seq(Row), NEW i \in DOMAIN q, Counted(q[i]), q[i].status # "DEAD"
  PROVE  Counted(Retry(q, i)[i]) /\ Retry(q, i)[i].status # "INFLIGHT"
<1>1. /\ q[i].attempts \in Nat /\ MaxAttempts \in Nat
      /\ q[i].attempts <= MaxAttempts /\ q[i].attempts # MaxAttempts
  BY RowFields, OutboxAssumption DEF Counted
<1>2. Retry(q, i)[i].attempts = q[i].attempts + 1
  BY RetryEffect
<1>3. Retry(q, i)[i].status = IF q[i].attempts + 1 >= MaxAttempts THEN "DEAD" ELSE "PENDING"
  BY RetryEffect
<1> QED
  BY <1>1, <1>2, <1>3 DEF Counted

LEMMA OutboxInitInv == OutboxInit => OutboxInv
  BY ClientAssumption DEF OutboxInit, OutboxInv, OutboxTypeOK, DeadIffExhausted, HeldIsLive

(* A claim: only INFLIGHT rows are held, and their attempts are untouched. *)
LEMMA ClaimKeeps ==
  ASSUME NEW q \in Seq(Row), \A i \in DOMAIN q : Counted(q[i])
  PROVE  /\ Claim(q) \in Seq(Row)
         /\ NextBatch(q) \subseteq DOMAIN Claim(q)
         /\ \A i \in DOMAIN Claim(q) : Counted(Claim(q)[i])
         /\ \A i \in NextBatch(q) : Claim(q)[i].status = "INFLIGHT"
<1>1. /\ NextBatch(q) \subseteq DueRows(q) /\ DueRows(q) \subseteq DOMAIN q
      /\ Claim(q) \in Seq(Row) /\ DOMAIN Claim(q) = DOMAIN q
  BY ClaimEffect
<1>2. ASSUME NEW i \in DOMAIN q
      PROVE  Counted(Claim(q)[i])
  <2>1. CASE i \in NextBatch(q)
    <3>1. Claim(q)[i].status = "INFLIGHT" /\ Claim(q)[i].attempts = q[i].attempts
      BY <2>1, ClaimEffect
    <3>2. q[i].status = "PENDING"
      BY <1>1, <2>1 DEF DueRows
    <3> QED
      BY <3>1, <3>2 DEF Counted
  <2>2. CASE i \notin NextBatch(q)
    BY <2>2, ClaimEffect
  <2> QED
    BY <2>1, <2>2
<1> QED
  BY <1>1, <1>2, ClaimEffect

(* One row is answered for; it is held by nobody afterwards.               *)
LEMMA AnswerKeeps ==
  ASSUME OutboxInv, NEW i \in batch, NEW q \in Seq(Row), DOMAIN q = DOMAIN queue,
         Counted(q[i]), \A j \in DOMAIN queue \ {i} : q[j] = queue[j],
         queue' = q, batch' \subseteq batch \ {i}, UNCHANGED resets
  PROVE  OutboxInv'
<1>1. batch \subseteq DOMAIN queue /\ \A j \in DOMAIN queue : Counted(queue[j])
  BY DEF OutboxInv, OutboxTypeOK, DeadIffExhausted, Counted
<1>2. OutboxTypeOK'
  BY <1>1 DEF OutboxInv, OutboxTypeOK
<1>3. DeadIffExhausted'
  <2>1. \A j \in DOMAIN q : Counted(q[j])
    BY <1>1
  <2> QED
    BY <2>1 DEF DeadIffExhausted, Counted
<1>4. HeldIsLive'
  BY <1>1 DEF OutboxInv, HeldIsLive
<1> QED
  BY <1>2, <1>3, <1>4 DEF OutboxInv

LEMMA HeldIsNotDead ==
  ASSUME OutboxInv, NEW i \in batch
  PROVE  i \in DOMAIN queue /\ queue[i].status # "DEAD" /\ Counted(queue[i])
<1>1. i \in DOMAIN queue /\ (queue[i].status = "INFLIGHT" \/ queue[i] = NewRow)
  BY DEF OutboxInv, OutboxTypeOK, HeldIsLive
<1> QED
  BY <1>1 DEF OutboxInv, DeadIffExhausted, Counted, NewRow

LEMMA DoneCounted ==
  ASSUME NEW q \in Seq(Row), NEW i \in DOMAIN q, Counted(q[i]), q[i].status # "DEAD"
  PROVE  Counted(Done(q, i)[i])
  BY DoneEffect DEF Counted

(* Every action keeps the invariant.                                       *)
LEMMA OutboxNextInv == OutboxInv /\ [OutboxNext]_outboxVars => OutboxInv'
<1> SUFFICES ASSUME OutboxInv, [OutboxNext]_outboxVars PROVE OutboxInv'
  OBVIOUS
<1>t. /\ queue \in Seq(Row) /\ batch \subseteq DOMAIN queue /\ resets \in 0..MaxResets
      /\ MaxResets \in Nat
      /\ \A j \in DOMAIN queue : Counted(queue[j])
  BY ClientAssumption DEF OutboxInv, OutboxTypeOK, DeadIffExhausted, Counted
<1>1. CASE Enqueue
  <2>1. /\ queue' \in Seq(Row) /\ DOMAIN queue \subseteq DOMAIN queue'
        /\ \A j \in DOMAIN queue : queue'[j] = queue[j]
        /\ \A j \in DOMAIN queue' : j \in DOMAIN queue \/ queue'[j] = NewRow
    BY <1>1, <1>t, AppendEffect DEF Enqueue
  <2>2. \A j \in DOMAIN queue' : Counted(queue'[j])
    BY <1>t, <2>1, NewRowCounted
  <2> QED
    BY <1>1, <1>t, <2>1, <2>2
       DEF Enqueue, OutboxInv, OutboxTypeOK, DeadIffExhausted, HeldIsLive, Counted
<1>2. CASE ClaimDue
  <2>1. queue' = Claim(queue) /\ batch' = NextBatch(queue) /\ resets' = resets
    BY <1>2 DEF ClaimDue
  <2> QED
    BY <1>t, <2>1, ClaimKeeps
       DEF OutboxInv, OutboxTypeOK, DeadIffExhausted, HeldIsLive, Counted
<1>3. ASSUME NEW i \in batch, MarkDone(i) PROVE OutboxInv'
  <2>1. i \in DOMAIN queue /\ Counted(Done(queue, i)[i])
    BY <1>t, HeldIsNotDead, DoneCounted
  <2> QED
    BY <1>3, <1>t, <2>1, AnswerKeeps, DoneEffect DEF MarkDone, Answer
<1>4. ASSUME NEW i \in batch, ScheduleRetry(i) PROVE OutboxInv'
  <2>1. i \in DOMAIN queue /\ Counted(Retry(queue, i)[i])
    BY <1>t, HeldIsNotDead, RetryCounted
  <2> QED
    BY <1>4, <1>t, <2>1, AnswerKeeps, RetryEffect DEF ScheduleRetry, Answer
<1>5. CASE Abandon
  <2>1. Min(batch) \in batch
    BY <1>5, <1>t, DomainIsNat DEF Abandon
  <2> DEFINE i == Min(batch)
  <2>2. i \in DOMAIN queue /\ Counted(Done(queue, i)[i])
    BY <1>t, <2>1, HeldIsNotDead, DoneCounted
  <2>3. CASE queue' = queue
    BY <1>5, <1>t, <2>3
       DEF Abandon, OutboxInv, OutboxTypeOK, DeadIffExhausted, HeldIsLive
  <2>4. CASE queue' = Done(queue, i)
    <3>1. batch' \subseteq batch \ {i} /\ resets' = resets
      BY <1>5 DEF Abandon
    <3> QED
      BY <1>t, <2>1, <2>2, <2>4, <3>1, AnswerKeeps, DoneEffect
  <2> QED
    BY <1>5, <2>3, <2>4 DEF Abandon
<1>6. ASSUME NEW i \in DOMAIN queue, AdminRetry(i) PROVE OutboxInv'
  <2> DEFINE q == Reset(queue, i)
  <2>1. /\ q \in Seq(Row) /\ DOMAIN q = DOMAIN queue /\ q[i] = NewRow
        /\ \A j \in DOMAIN queue \ {i} : q[j] = queue[j]
    BY <1>t, ResetEffect
  <2>2. \A j \in DOMAIN q : Counted(q[j])
    BY <1>t, <2>1, NewRowCounted
  <2>3. resets' \in 0..MaxResets
    BY <1>6, <1>t DEF AdminRetry
  <2>4. CASE batch' = NextBatch(q) /\ queue' = Claim(q)
    <3> HIDE DEF q
    <3> QED
      BY <2>1, <2>2, <2>3, <2>4, ClaimKeeps
         DEF OutboxInv, OutboxTypeOK, DeadIffExhausted, HeldIsLive, Counted
  <2>5. CASE queue' = q /\ batch' = batch
    <3> HIDE DEF q
    <3> QED
      BY <1>t, <2>1, <2>2, <2>3, <2>5
         DEF OutboxInv, OutboxTypeOK, DeadIffExhausted, HeldIsLive, Counted
  <2> QED
    BY <1>6, <2>4, <2>5 DEF AdminRetry
<1>7. ASSUME NEW i \in DOMAIN queue, Backoff(i) PROVE OutboxInv'
  <2>1. /\ queue' \in Seq(Row) /\ DOMAIN queue' = DOMAIN queue
        /\ queue'[i].status = queue[i].status /\ queue'[i].attempts = queue[i].attempts
        /\ \A j \in DOMAIN queue \ {i} : queue'[j] = queue[j]
        /\ batch' = batch /\ resets' = resets
    BY <1>7, <1>t, FallDueEffect DEF Backoff
  <2>2. queue[i].status = "PENDING" /\ queue[i] # NewRow
    BY <1>7 DEF Backoff, Waiting, NewRow
  <2>3. i \notin batch
    BY <2>2 DEF OutboxInv, HeldIsLive
  <2>4. \A j \in DOMAIN queue' : Counted(queue'[j])
    BY <1>t, <2>1 DEF Counted
  <2> QED
    BY <1>t, <2>1, <2>3, <2>4
       DEF OutboxInv, OutboxTypeOK, DeadIffExhausted, HeldIsLive, Counted
<1>8. CASE UNCHANGED outboxVars
  BY <1>8 DEF outboxVars, OutboxInv, OutboxTypeOK, DeadIffExhausted, HeldIsLive
<1> QED
  BY <1>1, <1>2, <1>3, <1>4, <1>5, <1>6, <1>7, <1>8 DEF OutboxNext, ServingNext, Work

THEOREM OutboxInvHolds == OutboxSpec => []OutboxInv
  BY OutboxInitInv, OutboxNextInv, PTL DEF OutboxSpec

-----------------------------------------------------------------------------
(* Whatever the client does and whenever it stops, the table stays a table *)
(* of rows with a status the schema knows.                                 *)
THEOREM OutboxTypeCorrect == OutboxSpec => []OutboxTypeOK
<1>1. OutboxInv => OutboxTypeOK
  BY DEF OutboxInv
<1> QED
  BY <1>1, OutboxInvHolds, PTL

(* A row is given up with its last attempt, not sooner and not later.      *)
THEOREM RowsDieExhausted == OutboxSpec => []DeadIffExhausted
<1>1. OutboxInv => DeadIffExhausted
  BY DEF OutboxInv
<1> QED
  BY <1>1, OutboxInvHolds, PTL

(* Only an admin moves a row that the client holds.                        *)
THEOREM HeldRowsAreLive == OutboxSpec => []HeldIsLive
<1>1. OutboxInv => HeldIsLive
  BY DEF OutboxInv
<1> QED
  BY <1>1, OutboxInvHolds, PTL

-----------------------------------------------------------------------------
(* Rows are claimed oldest first and in batches, however many are due: a   *)
(* reset makes its row due at once and takes no other out of the queue.    *)
THEOREM ClaimsOldestFirst == OutboxSpec => OldestFirst
<1> DEFINE Fair ==
      batch = {} => /\ Cardinality(batch') <= BatchSize
                    /\ \A i \in batch', j \in DueRows(queue) : j < i => j \in batch'
<1>1. ASSUME OutboxTypeOK, [OutboxNext]_outboxVars, batch = {}
      PROVE  Fair
  <2>1. CASE batch' = {}
    BY <2>1, FS_EmptySet, OutboxAssumption
  <2>2. CASE ClaimDue
    BY <1>1, <2>2, BatchIsOldest DEF OutboxTypeOK, ClaimDue
  <2>3. ASSUME NEW i \in DOMAIN queue, AdminRetry(i) PROVE Fair
    <3>t. queue \in Seq(Row)
      BY <1>1 DEF OutboxTypeOK
    <3> DEFINE q == Reset(queue, i)
    <3>r. /\ q \in Seq(Row) /\ DOMAIN q = DOMAIN queue /\ q[i] = NewRow
          /\ \A j \in DOMAIN queue \ {i} : q[j] = queue[j]
      BY <3>t, ResetEffect
    <3> HIDE DEF q
    <3>n. NewRow.status = "PENDING" /\ NewRow.due
      BY DEF NewRow
    <3>1. DueRows(queue) \subseteq DueRows(q)
      BY <3>r, <3>n DEF DueRows
    <3>2. batch' = NextBatch(q) \/ batch' = batch
      BY <2>3 DEF AdminRetry, q
    <3>3. CASE batch' = NextBatch(q)
      BY <3>r, <3>1, <3>3, BatchIsOldest
    <3> QED
      BY <1>1, <2>1, <3>2, <3>3
  <2> QED
    BY <1>1, <2>1, <2>2, <2>3
       DEF OutboxNext, ServingNext, Work, Enqueue, Abandon, Backoff, outboxVars
<1>2. OutboxTypeOK /\ [OutboxNext]_outboxVars => [Fair]_outboxVars
  BY <1>1
<1> HIDE DEF Fair
<1>3. OutboxSpec => [][Fair]_outboxVars
  BY <1>2, OutboxTypeCorrect, PTL DEF OutboxSpec
<1> QED
  BY <1>3, Zenon DEF Fair, OldestFirst

-----------------------------------------------------------------------------
(* A client that does not stop *)

LEMMA ServingKeeps ==
  ASSUME OutboxInv, InflightIsHeld, [ServingNext]_outboxVars
  PROVE  InflightIsHeld'
<1>t. /\ queue \in Seq(Row) /\ batch \subseteq DOMAIN queue
      /\ \A j \in DOMAIN queue : Counted(queue[j])
  BY DEF OutboxInv, OutboxTypeOK, DeadIffExhausted, Counted
<1>1. CASE Enqueue
  <2>1. /\ \A j \in DOMAIN queue : queue'[j] = queue[j]
        /\ \A j \in DOMAIN queue' : j \in DOMAIN queue \/ queue'[j] = NewRow
    BY <1>1, <1>t, AppendEffect DEF Enqueue
  <2> QED
    BY <1>1, <2>1, NewRowCounted DEF Enqueue, InflightIsHeld
<1>c. ASSUME NEW q \in Seq(Row), \A j \in DOMAIN q : q[j].status # "INFLIGHT",
             queue' = Claim(q), batch' = NextBatch(q)
      PROVE  InflightIsHeld'
  <2>1. /\ DOMAIN Claim(q) = DOMAIN q
        /\ \A j \in DOMAIN q \ NextBatch(q) : Claim(q)[j] = q[j]
    BY ClaimEffect
  <2> QED
    BY <1>c, <2>1 DEF InflightIsHeld
<1>2. CASE ClaimDue
  BY <1>2, <1>c, <1>t DEF ClaimDue, InflightIsHeld
<1>3. ASSUME NEW i \in batch, MarkDone(i) PROVE InflightIsHeld'
  <2>1. /\ DOMAIN queue' = DOMAIN queue /\ queue'[i].status # "INFLIGHT"
        /\ \A j \in DOMAIN queue \ {i} : queue'[j] = queue[j]
        /\ batch' = batch \ {i}
    BY <1>3, <1>t, DoneEffect DEF MarkDone, Answer
  <2> QED
    BY <2>1 DEF InflightIsHeld
<1>4. ASSUME NEW i \in batch, ScheduleRetry(i) PROVE InflightIsHeld'
  <2>1. i \in DOMAIN queue /\ Retry(queue, i)[i].status # "INFLIGHT"
    BY <1>t, HeldIsNotDead, RetryCounted
  <2>2. /\ DOMAIN queue' = DOMAIN queue /\ queue'[i].status # "INFLIGHT"
        /\ \A j \in DOMAIN queue \ {i} : queue'[j] = queue[j]
        /\ batch' = batch \ {i}
    BY <1>4, <1>t, <2>1, RetryEffect DEF ScheduleRetry, Answer
  <2> QED
    BY <2>2 DEF InflightIsHeld
<1>5. ASSUME NEW i \in DOMAIN queue, AdminRetry(i) PROVE InflightIsHeld'
  <2> DEFINE q == Reset(queue, i)
  <2>1. /\ q \in Seq(Row) /\ DOMAIN q = DOMAIN queue /\ q[i].status # "INFLIGHT"
        /\ \A j \in DOMAIN queue \ {i} : q[j] = queue[j]
    BY <1>t, ResetEffect, NewRowCounted
  <2> HIDE DEF q
  <2>2. CASE batch = {} /\ queue' = Claim(q) /\ batch' = NextBatch(q)
    <3>1. \A j \in DOMAIN q : q[j].status # "INFLIGHT"
      BY <2>1, <2>2 DEF InflightIsHeld
    <3> QED
      BY <1>c, <2>1, <2>2, <3>1
  <2>3. CASE queue' = q /\ batch' = batch
    BY <2>1, <2>3 DEF InflightIsHeld
  <2> QED
    BY <1>5, <2>2, <2>3 DEF AdminRetry, q
<1>6. ASSUME NEW i \in DOMAIN queue, Backoff(i) PROVE InflightIsHeld'
  <2>1. /\ DOMAIN queue' = DOMAIN queue /\ queue'[i].status = queue[i].status
        /\ \A j \in DOMAIN queue \ {i} : queue'[j] = queue[j]
        /\ batch' = batch
    BY <1>6, <1>t, FallDueEffect DEF Backoff
  <2> QED
    BY <2>1 DEF InflightIsHeld
<1>7. CASE UNCHANGED outboxVars
  BY <1>7 DEF outboxVars, InflightIsHeld
<1> QED
  BY <1>1, <1>2, <1>3, <1>4, <1>5, <1>6, <1>7 DEF ServingNext, Work

(* A client that answers for every row it claims strands none, however     *)
(* long the queue and whatever an admin resets.                            *)
THEOREM NothingIsStranded == FairOutboxSpec => []InflightIsHeld
<1>1. OutboxInit => OutboxInv /\ InflightIsHeld
  BY OutboxInitInv DEF OutboxInit, InflightIsHeld
<1>2. OutboxInv /\ InflightIsHeld /\ [ServingNext]_outboxVars => (OutboxInv /\ InflightIsHeld)'
  BY ServingKeeps, OutboxNextInv DEF OutboxNext
<1>3. FairOutboxSpec => OutboxInit /\ [][ServingNext]_outboxVars
  BY PTL DEF FairOutboxSpec
<1> QED
  BY <1>1, <1>2, <1>3, PTL
=============================================================================
