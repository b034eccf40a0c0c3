----------------------------- MODULE HcmOutbox -----------------------------
(***************************************************************************)
(* The contract of the outbox: what any client of HcmOutboxService that    *)
(* claims rows, works through them in order and answers for each one with  *)
(* markDone or scheduleRetry does to the table.  Abandon is a client that  *)
(* stops in the middle: it died, or an error left its loop.                *)
(***************************************************************************)
EXTENDS OutboxQueue

CONSTANTS MaxRows,     \* bound: rows ever enqueued
          MaxResets    \* bound: calls of resetToPending

ASSUME ClientAssumption == MaxRows \in Nat /\ MaxResets \in Nat

VARIABLES queue,   \* the table
          batch,   \* the claimed rows the client has not answered for
          resets   \* calls of resetToPending so far

outboxVars == <<queue, batch, resets>>

OutboxTypeOK ==
  /\ queue \in Seq(Row)
  /\ batch \subseteq DOMAIN queue
  /\ resets \in 0..MaxResets

OutboxInit == queue = <<>> /\ batch = {} /\ resets = 0

Enqueue == /\ Len(queue) < MaxRows
           /\ queue' = Append(queue, NewRow)
           /\ UNCHANGED <<batch, resets>>

(* One batch at a time: tick returns at once while _draining is set.       *)
ClaimDue == /\ batch = {}
            /\ DueRows(queue) # {}
            /\ batch' = NextBatch(queue)
            /\ queue' = Claim(queue)
            /\ UNCHANGED resets

Answer(i) == /\ i = Min(batch)
             /\ batch' = batch \ {i}
             /\ UNCHANGED resets

MarkDone(i)      == Answer(i) /\ queue' = Done(queue, i)
ScheduleRetry(i) == Answer(i) /\ queue' = Retry(queue, i)

(* The client may still get an answer to one row on record.                *)
Abandon == /\ batch # {}
           /\ batch' = {}
           /\ queue' \in {queue, Done(queue, Min(batch))}
           /\ UNCHANGED resets

(* The retry endpoint: resetToPending with no look at the status, then a   *)
(* tick whose claim runs before anything else can, but for a crash.        *)
AdminRetry(i) ==
  /\ resets < MaxResets
  /\ resets' = resets + 1
  /\ \/ /\ batch = {}
        /\ batch' = NextBatch(Reset(queue, i))
        /\ queue' = Claim(Reset(queue, i))
     \/ /\ queue' = Reset(queue, i)
        /\ UNCHANGED batch

Backoff(i) == /\ i \in Waiting(queue)
              /\ queue' = FallDue(queue, i)
              /\ UNCHANGED <<batch, resets>>

Work == \E i \in batch : MarkDone(i) \/ ScheduleRetry(i)

ServingNext ==
  \/ Enqueue
  \/ ClaimDue
  \/ Work
  \/ \E i \in DOMAIN queue : AdminRetry(i) \/ Backoff(i)

OutboxNext == ServingNext \/ Abandon

OutboxSpec == OutboxInit /\ [][OutboxNext]_outboxVars

(* The interval timer ticks for ever, the client answers for every row it  *)
(* claimed, and time passes.                                               *)
FairOutboxSpec ==
  /\ OutboxInit /\ [][ServingNext]_outboxVars
  /\ WF_outboxVars(ClaimDue)
  /\ WF_outboxVars(Work)
  /\ \A i \in 1..MaxRows : WF_outboxVars(i \in DOMAIN queue /\ Backoff(i))

-----------------------------------------------------------------------------
(* Properties *)

(* A row is given up exactly when its attempts are used up, by no path     *)
(* sooner and by none later; before, it has attempts left.                 *)
DeadIffExhausted ==
  \A i \in DOMAIN queue :
    /\ queue[i].attempts <= MaxAttempts
    /\ (queue[i].status = "DEAD") = (queue[i].attempts = MaxAttempts)

(* A row the client holds is INFLIGHT, or an admin has made it as new in   *)
(* the meantime: nothing else moves it before the client answers for it.   *)
HeldIsLive ==
  \A i \in batch : queue[i].status = "INFLIGHT" \/ queue[i] = NewRow

(* A client that answers for every row it claims strands none.             *)
InflightIsHeld == \A i \in DOMAIN queue : queue[i].status = "INFLIGHT" => i \in batch

(* First come, first served: a row is claimed only along with every older  *)
(* row that is due, and a claim never exceeds the batch size.              *)
OldestFirst ==
  [][batch = {} => /\ Cardinality(batch') <= BatchSize
                   /\ \A i \in batch', j \in DueRows(queue) : j < i => j \in batch']_outboxVars

(* Every row is answered for in the end, whatever older rows are retried.  *)
EveryRowIsServed ==
  \A i \in 1..MaxRows :
    i \in DOMAIN queue ~> (i \in DOMAIN queue /\ queue[i].status \in {"DONE", "DEAD"})
=============================================================================
