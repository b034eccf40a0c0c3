--------------------------- MODULE DeliveryProofs ---------------------------
(***************************************************************************)
(* Theorems about Delivery, for any number of users, requests, rows and    *)
(* attempts, any balances, and any number of crashes and failed calls.     *)
(***************************************************************************)
EXTENDS Delivery, LedgerProofs, QueueProofs

USE NoneAssumption

(* Every debit was made for a row of the outbox.                           *)
DebitsMatchRows ==
  \A debit \in applied : \E i \in DOMAIN intents :
    intents[i] = [req |-> debit.req, ext |-> debit.ext]

(* What the worker knows from HCM is true.                                 *)
AckMeansDebited == phase = "posted" /\ reply = "ok" => Debited(req)

DeliveryInv ==
  /\ IInv /\ DeliveryTypeOK
  /\ DebitsMatchRows /\ AckMeansDebited
  /\ ConsumedMeansDebited /\ ApprovedIsInOutbox

-----------------------------------------------------------------------------
(* The row at hand *)

LEMMA WorkerRow ==
  ASSUME IInv, DeliveryTypeOK, phase # "idle"
  PROVE  /\ batch # {} /\ row \in batch /\ row \in DOMAIN queue /\ row \in DOMAIN intents
         /\ intents[row] \in Intent /\ req \in ReqIds /\ req \in Filed
         /\ requests[req] \in Request /\ key \in Keys /\ amount \in Nat
         /\ queue \in Seq(Row) /\ DOMAIN queue = DOMAIN intents
<1>1. queue \in Seq(Row) /\ batch \subseteq DOMAIN queue /\ batch # {}
  BY DEF DeliveryTypeOK
<1>2. row \in batch /\ row \in DOMAIN queue
  BY <1>1, DomainIsNat DEF row
<1>3. DOMAIN queue = DOMAIN intents
  BY <1>1 DEF DeliveryTypeOK, TypeOK
<1>4. intents[row] \in Intent /\ intents[row].req \in Filed
  BY <1>2, <1>3 DEF IInv, TypeOK, IdBookkeeping
<1>5. req \in Filed /\ req \in ReqIds
  BY <1>4 DEF req, Filed
<1>6. requests[req] \in Request
  BY <1>5 DEF IInv, TypeOK, Filed
<1>7. key \in Keys /\ amount \in Nat
  BY <1>6 DEF key, amount, Thousandths, Request
<1> QED
  BY <1>1, <1>2, <1>3, <1>4, <1>5, <1>6, <1>7

(* What the end of a row leaves of the table and of the worker.            *)
RowEnds ==
  /\ queue' \in Seq(Row) /\ Len(queue') = Len(queue) /\ DOMAIN queue' = DOMAIN queue
  /\ \A j \in DOMAIN queue \ {row} : queue'[j] = queue[j]
  /\ batch' \subseteq batch
  /\ phase' \in {"idle", "reading"} /\ (phase' = "idle") = (batch' = {})
  /\ view' = None /\ reply' = None
  /\ left' \in [Kinds -> Nat]

LEMMA UseTyped ==
  ASSUME left \in [Kinds -> Nat], NEW kind \in Kinds, Use(kind)
  PROVE  left' \in [Kinds -> Nat]
  BY DEF Use

LEMMA FinishRowEnds ==
  ASSUME IInv, DeliveryTypeOK, phase # "idle", FinishRow
  PROVE  RowEnds
<1>1. row \in batch /\ row \in DOMAIN queue /\ queue \in Seq(Row) /\ left \in [Kinds -> Nat]
  BY WorkerRow DEF DeliveryTypeOK
<1>2. CASE queue' = Done(queue, row) /\ NextRow /\ UNCHANGED left
  BY <1>1, <1>2, DoneEffect DEF RowEnds, NextRow
<1>3. CASE Use("crash") /\ StopWork /\ UNCHANGED queue
  <2>1. left' \in [Kinds -> Nat]
    BY <1>1, <1>3, UseTyped DEF Kinds
  <2> QED
    BY <1>1, <1>3, <2>1 DEF RowEnds, StopWork
<1> QED
  BY <1>2, <1>3 DEF FinishRow

LEMMA RetryRowEnds ==
  ASSUME IInv, DeliveryTypeOK, phase # "idle", RetryRow
  PROVE  RowEnds /\ queue'[row].status # "DONE" /\ UNCHANGED vars
<1>1. row \in batch /\ row \in DOMAIN queue /\ queue \in Seq(Row) /\ left \in [Kinds -> Nat]
  BY WorkerRow DEF DeliveryTypeOK
<1>2. queue' = Retry(queue, row) /\ NextRow /\ UNCHANGED <<vars, left>>
  BY DEF RetryRow
<1>3. queue'[row].status # "DONE"
  BY <1>1, <1>2, RetryEffect
<1> QED
  BY <1>1, <1>2, <1>3, RetryEffect DEF RowEnds, NextRow

-----------------------------------------------------------------------------
(* What the steps do to the requests *)

LEMMA UserEffect ==
  ASSUME IInv, UserStep
  PROVE  /\ UNCHANGED intents
         /\ \A r \in ReqIds : State(r)' \in {State(r), PENDING, REJECTED, CANCELLED}
<1>1. ASSUME NEW u \in Users, NEW s \in Slots, NEW d \in DayCounts, NEW r \in ReqIds,
             NEW m \in ManagerClaims[u], createRequest(u, m, s, d, r)
      PROVE  /\ UNCHANGED intents
             /\ \A q \in ReqIds : State(q)' \in {State(q), PENDING}
  BY <1>1, CreateEffect
<1>2. ASSUME NEW u \in Users, NEW r \in ReqIds, reject(u, r)
      PROVE  /\ UNCHANGED intents
             /\ \A q \in ReqIds : State(q)' \in {State(q), REJECTED}
  BY <1>2, StatesAre, MoveToEffect DEF reject, IInv
<1>3. ASSUME NEW u \in Users, NEW r \in ReqIds, cancel(u, r)
      PROVE  /\ UNCHANGED intents
             /\ \A q \in ReqIds : State(q)' \in {State(q), CANCELLED}
  BY <1>3, StatesAre, MoveToEffect DEF cancel, IInv
<1> QED
  BY <1>1, <1>2, <1>3 DEF UserStep

LEMMA MarkEffect ==
  ASSUME IInv, NEW r \in ReqIds, NEW s \in States,
         AlreadyIn(r, s) \/ MoveTo(r, s, None, 0), UNCHANGED intents
  PROVE  State(r)' = s /\ \A q \in ReqIds \ {r} : State(q)' = State(q)
<1>1. CASE AlreadyIn(r, s)
  BY <1>1 DEF AlreadyIn, vars, State, Filed
<1>2. CASE MoveTo(r, s, None, 0)
  BY <1>2, MoveToEffect DEF IInv
<1> QED
  BY <1>1, <1>2

LEMMA MarksEffect ==
  ASSUME IInv, NEW r \in ReqIds
  PROVE  /\ markConsumed(r) =>
              /\ UNCHANGED intents /\ State(r)' = CONSUMED
              /\ \A q \in ReqIds \ {r} : State(q)' = State(q)
         /\ markHcmFailed(r) =>
              /\ UNCHANGED intents /\ State(r)' = HCM_FAILED
              /\ \A q \in ReqIds \ {r} : State(q)' = State(q)
         /\ markReviewRequired(r) =>
              /\ UNCHANGED intents /\ State(r)' = REVIEW_REQUIRED
              /\ \A q \in ReqIds \ {r} : State(q)' = State(q)
<1>1. ASSUME markConsumed(r)
      PROVE  UNCHANGED intents /\ (AlreadyIn(r, CONSUMED) \/ MoveTo(r, CONSUMED, None, 0))
  BY <1>1 DEF markConsumed, AlreadyIn, vars
<1>2. ASSUME markHcmFailed(r)
      PROVE  UNCHANGED intents /\ (AlreadyIn(r, HCM_FAILED) \/ MoveTo(r, HCM_FAILED, None, 0))
  BY <1>2 DEF markHcmFailed, AlreadyIn, vars
<1>3. ASSUME markReviewRequired(r)
      PROVE  /\ UNCHANGED intents
             /\ AlreadyIn(r, REVIEW_REQUIRED) \/ MoveTo(r, REVIEW_REQUIRED, None, 0)
  BY <1>3 DEF markReviewRequired, AlreadyIn, vars
<1> QED
  BY <1>1, <1>2, <1>3, MarkEffect, StatesAre
(* An answer that ends a row                                               *)
LEMMA EndsEffect ==
  ASSUME DeliveryInv, BailOut \/ Succeed \/ Fail \/ GiveUpForNow
  PROVE  /\ phase # "idle" /\ RowEnds /\ UNCHANGED <<hcmVars, intents>>
         /\ \A r \in ReqIds : State(r)' = APPROVED => State(r) = APPROVED
         /\ \A r \in ReqIds : State(r)' = CONSUMED =>
              State(r) = CONSUMED \/ (r = req /\ phase = "posted" /\ reply = "ok")
         /\ \A r \in ReqIds : State(r)' = HCM_FAILED =>
              State(r) = HCM_FAILED \/ (r = req /\ phase = "posted" /\ reply = "permanent")
         /\ \A r \in ReqIds : r = req /\ State(r)' = APPROVED => queue'[row].status # "DONE"
<1> USE DEF DeliveryInv
<1>1. phase # "idle"
  BY DEF BailOut, Succeed, Fail, GiveUpForNow
<1>2. req \in ReqIds /\ req \in Filed /\ row \in DOMAIN queue /\ queue \in Seq(Row)
      /\ row \in batch
  BY <1>1, WorkerRow
<1> PICK r0 \in ReqIds : r0 = req
  BY <1>2
<1>3. /\ CONSUMED # APPROVED /\ HCM_FAILED # APPROVED /\ REVIEW_REQUIRED # APPROVED
      /\ CONSUMED # REVIEW_REQUIRED /\ CONSUMED # HCM_FAILED /\ HCM_FAILED # REVIEW_REQUIRED
  BY DEF CONSUMED, HCM_FAILED, REVIEW_REQUIRED, APPROVED
<1>4. ASSUME RetryRow, UNCHANGED hcmVars
      PROVE  /\ RowEnds /\ UNCHANGED <<hcmVars, intents>>
             /\ \A r \in ReqIds : State(r)' = State(r)
             /\ queue'[row].status # "DONE"
  BY <1>1, <1>4, RetryRowEnds DEF vars, State, Filed
<1>5. CASE BailOut
  <2>1. CASE markReviewRequired(req) /\ FinishRow
    <3>1. /\ UNCHANGED intents /\ State(r0)' = REVIEW_REQUIRED
          /\ \A q \in ReqIds \ {r0} : State(q)' = State(q)
      BY <2>1, MarksEffect
    <3>2. RowEnds /\ UNCHANGED hcmVars
      BY <1>1, <1>5, <2>1, FinishRowEnds DEF BailOut
    <3> QED
      BY <1>1, <1>3, <3>1, <3>2
  <2>2. CASE RetryRow
    BY <1>1, <1>4, <1>5, <2>2 DEF BailOut
  <2> QED
    BY <1>5, <2>1, <2>2 DEF BailOut
<1>6. CASE Succeed
  <2>1. CASE markConsumed(req) /\ FinishRow
    <3>1. /\ UNCHANGED intents /\ State(r0)' = CONSUMED
          /\ \A q \in ReqIds \ {r0} : State(q)' = State(q)
      BY <2>1, MarksEffect
    <3>2. RowEnds /\ UNCHANGED hcmVars /\ phase = "posted" /\ reply = "ok"
      BY <1>1, <1>6, <2>1, FinishRowEnds DEF Succeed
    <3> QED
      BY <1>1, <1>3, <3>1, <3>2
  <2>2. CASE RetryRow
    BY <1>1, <1>4, <1>6, <2>2 DEF Succeed
  <2> QED
    BY <1>6, <2>1, <2>2 DEF Succeed
<1>7. CASE Fail
  <2>1. CASE markHcmFailed(req) /\ FinishRow
    <3>1. /\ UNCHANGED intents /\ State(r0)' = HCM_FAILED
          /\ \A q \in ReqIds \ {r0} : State(q)' = State(q)
      BY <2>1, MarksEffect
    <3>2. RowEnds /\ UNCHANGED hcmVars /\ phase = "posted" /\ reply = "permanent"
      BY <1>1, <1>7, <2>1, FinishRowEnds DEF Fail
    <3> QED
      BY <1>1, <1>3, <3>1, <3>2
  <2>2. CASE /\ ~Accepts(req, HCM_FAILED)
             /\ queue' = Done(queue, row)
             /\ StopWork
             /\ UNCHANGED <<vars, left>>
    <3>1. State(req) # APPROVED
      <4>1. CanTransition(APPROVED, HCM_FAILED)
        BY DEF CanTransition, Transitions, States, PENDING, APPROVED, REJECTED, CANCELLED,
               CONSUMED, HCM_FAILED, REVIEW_REQUIRED
      <4> QED
        BY <1>2, <2>2, <4>1 DEF Accepts
    <3>2. RowEnds
      BY <1>2, <2>2, DoneEffect DEF RowEnds, StopWork, DeliveryTypeOK
    <3>3. \A r \in ReqIds : State(r)' = State(r)
      BY <2>2 DEF vars, State, Filed
    <3> QED
      BY <1>1, <1>2, <1>7, <2>2, <3>1, <3>2, <3>3 DEF Fail, vars
  <2> QED
    BY <1>7, <2>1, <2>2 DEF Fail
<1>8. CASE GiveUpForNow
  BY <1>1, <1>4, <1>8 DEF GiveUpForNow
<1> QED
  BY <1>5, <1>6, <1>7, <1>8

(* To the tables of TimeOff every step is one of TimeOff's, or a report of *)
(* a balance that is none of the Readings.                                 *)
LEMMA LocalStep ==
  ASSUME IInv, DeliveryTypeOK, [DeliveryNext]_deliveryVars
  PROVE  [Next]_vars \/ AnyReport
<1>1. ASSUME NEW r \in ReqIds,
             markConsumed(r) \/ markHcmFailed(r) \/ markReviewRequired(r)
      PROVE  Next
  BY <1>1 DEF Next, WorkerStep
<1>2. CASE Approve
  BY <1>2 DEF Approve, Next
<1>3. CASE OtherCall
  BY <1>3 DEF OtherCall, Next
<1>4. CASE tick \/ Crash \/ AnswerRead \/ AnswerPost \/ Adjust
  BY <1>4 DEF tick, Crash, AnswerRead, AnswerPost, Adjust
<1>5. ASSUME NEW i \in DOMAIN queue, AdminRetry(i) \/ Backoff(i) PROVE UNCHANGED vars
  BY <1>5 DEF AdminRetry, Backoff
<1>6. CASE AnswerLookedAt
  <2>1. req \in ReqIds
    BY <1>6, WorkerRow DEF AnswerLookedAt, BailOut, Submit, Succeed, Fail, GiveUpForNow
  <2> QED
    BY <1>1, <1>6, <2>1
       DEF AnswerLookedAt, BailOut, Submit, Succeed, Fail, GiveUpForNow, RetryRow
<1>7. CASE Report
  <2>1. \A k \in Keys : hcm[k] \in Int
    BY DEF DeliveryTypeOK
  <2> QED
    BY <1>7, <2>1 DEF Report, AnyReport
<1>8. CASE UNCHANGED deliveryVars
  BY <1>8 DEF deliveryVars
<1> QED
  BY <1>2, <1>3, <1>4, <1>5, <1>6, <1>7, <1>8 DEF DeliveryNext

(* So the invariant of the tables stays.                                   *)
LEMMA LocalInv ==
  ASSUME IInv, DeliveryTypeOK, [DeliveryNext]_deliveryVars
  PROVE  IInv'
  BY LocalStep, StepIInv

-----------------------------------------------------------------------------
(* Types *)

LEMMA NextBatchNotEmpty ==
  ASSUME NEW q \in Seq(Row), DueRows(q) # {}
  PROVE  NextBatch(q) # {}
<1>1. DueRows(q) \subseteq DOMAIN q /\ DOMAIN q \subseteq Nat
  BY DomainIsNat DEF DueRows
<1> DEFINE i == Min(DueRows(q))
<1>2. i \in DueRows(q) /\ \A j \in DueRows(q) : i <= j
  BY <1>1, MinIn
<1> HIDE DEF i
<1>3. {j \in DueRows(q) : j < i} = {}
  BY <1>1, <1>2
<1>4. Cardinality({}) = 0 /\ 0 < BatchSize
  BY FS_EmptySet, OutboxAssumption
<1> QED
  BY <1>2, <1>3, <1>4, Zenon DEF NextBatch

(* A claim, of the table as it is or with one row reset                    *)
LEMMA ClaimTyped ==
  ASSUME NEW q \in Seq(Row), DueRows(q) # {}, Len(q) = Len(queue)
  PROVE  /\ Claim(q) \in Seq(Row) /\ Len(Claim(q)) = Len(queue)
         /\ NextBatch(q) \subseteq DOMAIN Claim(q) /\ NextBatch(q) # {}
  BY ClaimEffect, NextBatchNotEmpty

LEMMA DeliveryTypes ==
  ASSUME DeliveryInv, [DeliveryNext]_deliveryVars
  PROVE  DeliveryTypeOK'
<1> USE DEF DeliveryInv
<1>1. TypeOK'
  BY LocalInv DEF IInv
<1>t. /\ queue \in Seq(Row) /\ Len(queue) = Len(intents)
      /\ batch \subseteq DOMAIN queue
      /\ phase \in Phases /\ (phase = "idle") = (batch = {})
      /\ view \in {None} \cup Int /\ reply \in {None} \cup Answers
      /\ hcm \in [Keys -> Int] /\ applied \subseteq Debit /\ left \in [Kinds -> Nat]
  BY DEF DeliveryTypeOK
<1> HIDE DEF DeliveryInv
<1>2. CASE Approve
  <2>1. queue' \in Seq(Row) /\ Len(queue') = Len(queue) + 1 /\ DOMAIN queue \subseteq DOMAIN queue'
    BY <1>2, <1>t, AppendEffect DEF Approve
  <2>2. Len(intents') = Len(intents) + 1
    BY <1>2 DEF Approve, ApproveStep, approve, DeliveryInv, DeliveryTypeOK, TypeOK
  <2> QED
    BY <1>1, <1>2, <1>t, <2>1, <2>2 DEF Approve, workerVars, hcmVars, DeliveryTypeOK
<1>3. CASE OtherCall
  BY <1>1, <1>3, <1>t, UserEffect
     DEF OtherCall, workerVars, hcmVars, DeliveryTypeOK, DeliveryInv
<1>4. CASE tick
  BY <1>1, <1>4, <1>t, ClaimTyped DEF tick, vars, hcmVars, DeliveryTypeOK, Phases
<1>5. CASE Submit
  BY <1>1, <1>5, <1>t DEF Submit, vars, hcmVars, DeliveryTypeOK, Phases
<1>6. CASE BailOut \/ Succeed \/ Fail \/ GiveUpForNow
  BY <1>1, <1>6, <1>t, EndsEffect DEF RowEnds, hcmVars, DeliveryTypeOK, Phases
<1>7. CASE Crash
  <2>1. left' \in [Kinds -> Nat]
    BY <1>7, <1>t, UseTyped DEF Crash, Kinds
  <2> QED
    BY <1>1, <1>7, <1>t, <2>1 DEF Crash, StopWork, vars, hcmVars, DeliveryTypeOK, Phases
<1>8. ASSUME NEW i \in DOMAIN queue, AdminRetry(i) PROVE DeliveryTypeOK'
  <2> DEFINE q == Reset(queue, i)
  <2>1. q \in Seq(Row) /\ Len(q) = Len(queue) /\ DOMAIN q = DOMAIN queue /\ q[i] = NewRow
    BY <1>t, ResetEffect
  <2>2. i \in DueRows(q)
    BY <2>1 DEF DueRows, NewRow
  <2>3. left' \in [Kinds -> Nat]
    BY <1>8, <1>t, UseTyped DEF AdminRetry, Kinds
  <2>4. UNCHANGED <<intents, view, reply, hcm, applied>>
    BY <1>8 DEF AdminRetry, vars, hcmVars
  <2>5. CASE queue' = Claim(q) /\ batch' = NextBatch(q) /\ phase' = "reading"
    <3> HIDE DEF q
    <3> QED
      BY <1>1, <1>t, <2>1, <2>2, <2>3, <2>4, <2>5, ClaimTyped DEF DeliveryTypeOK, Phases
  <2>6. CASE queue' = q /\ batch' = batch /\ phase' = phase
    <3> HIDE DEF q
    <3> QED
      BY <1>1, <1>t, <2>1, <2>3, <2>4, <2>6 DEF DeliveryTypeOK
  <2> QED
    BY <1>8, <2>5, <2>6 DEF AdminRetry
<1>9. ASSUME NEW i \in DOMAIN queue, Backoff(i) PROVE DeliveryTypeOK'
  BY <1>1, <1>9, <1>t, FallDueEffect
     DEF Backoff, vars, workerVars, hcmVars, DeliveryTypeOK
<1>10. CASE AnswerRead
  <2>1. key \in Keys
    BY <1>10, WorkerRow DEF AnswerRead, DeliveryInv
  <2>2. view' \in {None} \cup Int /\ left' \in [Kinds -> Nat]
    BY <1>10, <1>t, <2>1, UseTyped, ReportAssumption DEF AnswerRead, Kinds
  <2> QED
    BY <1>1, <1>10, <1>t, <2>2 DEF AnswerRead, vars, hcmVars, DeliveryTypeOK, Phases
<1>11. CASE AnswerPost
  <2>1. key \in Keys /\ amount \in Nat /\ req \in ReqIds /\ intents[row].ext \in Nat \ {0}
    BY <1>11, WorkerRow DEF AnswerPost, DeliveryInv, Intent
  <2>2. Debits \/ Overdraws => hcm' \in [Keys -> Int] /\ applied' \subseteq Debit
    BY <1>t, <2>1 DEF Debits, Overdraws, TakeDays, hcmVars, Debit
  <2>3. left' \in [Kinds -> Nat]
    BY <1>11, <1>t, UseTyped DEF AnswerPost, Kinds
  <2>4. reply' \in Answers /\ hcm' \in [Keys -> Int] /\ applied' \subseteq Debit
    BY <1>11, <1>t, <2>2 DEF AnswerPost, hcmVars, Answers
  <2> QED
    BY <1>1, <1>11, <1>t, <2>3, <2>4 DEF AnswerPost, vars, DeliveryTypeOK, Phases
<1>12. CASE Report
  <2>1. left' \in [Kinds -> Nat]
    BY <1>12, <1>t, UseTyped DEF Report, Kinds
  <2>2. UNCHANGED intents
    BY <1>12 DEF Report, applyHcmBalanceSnapshot
  <2> QED
    BY <1>1, <1>12, <1>t, <2>1, <2>2 DEF Report, workerVars, hcmVars, DeliveryTypeOK
<1>13. CASE Adjust
  <2>1. left' \in [Kinds -> Nat]
    BY <1>13, <1>t, UseTyped DEF Adjust, Kinds
  <2>2. hcm' \in [Keys -> Int]
    BY <1>13, <1>t DEF Adjust
  <2> QED
    BY <1>1, <1>13, <1>t, <2>1, <2>2 DEF Adjust, vars, workerVars, DeliveryTypeOK
<1>14. CASE UNCHANGED deliveryVars
  BY <1>1, <1>14, <1>t DEF deliveryVars, vars, workerVars, hcmVars, DeliveryTypeOK
<1> QED
  BY <1>2, <1>3, <1>4, <1>5, <1>6, <1>7, <1>8, <1>9, <1>10, <1>11, <1>12, <1>13, <1>14
     DEF DeliveryNext, AnswerLookedAt

-----------------------------------------------------------------------------
(* Debits *)

(* No step takes a row or a debit away, or alters one.                     *)
LEMMA HistoryGrows ==
  ASSUME DeliveryInv, [DeliveryNext]_deliveryVars
  PROVE  /\ DOMAIN intents \subseteq DOMAIN intents'
         /\ \A i \in DOMAIN intents : intents'[i] = intents[i]
         /\ applied \subseteq applied'
<1>1. CASE Approve
  <2>1. PICK u \in Users, r \in ReqIds : approve(u, r)
    BY <1>1 DEF Approve, ApproveStep
  <2>2. intents \in Seq(Intent) /\ ExternalId(r) \in Nat \ {0}
    BY <2>1, ExternalIdTyped DEF approve, DeliveryInv, IInv, TypeOK
  <2>3. [req |-> r, ext |-> ExternalId(r)] \in Intent
    BY <2>2 DEF Intent
  <2>4. /\ DOMAIN intents \subseteq DOMAIN intents'
        /\ \A i \in DOMAIN intents : intents'[i] = intents[i]
    BY <2>1, <2>2, <2>3 DEF approve
  <2> QED
    BY <1>1, <2>4 DEF Approve, hcmVars
<1>2. CASE BailOut \/ Succeed \/ Fail \/ GiveUpForNow
  BY <1>2, EndsEffect DEF hcmVars
<1>3. CASE OtherCall
  BY <1>3, UserEffect DEF OtherCall, hcmVars, DeliveryInv
<1>4. CASE tick \/ Submit \/ Crash \/ AnswerRead \/ Adjust
  BY <1>4 DEF tick, Submit, Crash, AnswerRead, Adjust, vars, hcmVars
<1>5. ASSUME NEW i \in DOMAIN queue, AdminRetry(i) \/ Backoff(i)
      PROVE  UNCHANGED <<intents, applied>>
  BY <1>5 DEF AdminRetry, Backoff, vars, hcmVars
<1>6. CASE AnswerPost
  BY <1>6 DEF AnswerPost, Debits, Overdraws, TakeDays, vars, hcmVars
<1>7. CASE Report
  BY <1>7 DEF Report, applyHcmBalanceSnapshot, hcmVars
<1>8. CASE UNCHANGED deliveryVars
  BY <1>8 DEF deliveryVars, vars, hcmVars
<1> QED
  BY <1>1, <1>2, <1>3, <1>4, <1>5, <1>6, <1>7, <1>8 DEF DeliveryNext, AnswerLookedAt

(* Only the answer to a POST may debit, and only for the row at hand.      *)
LEMMA OnlyPostsDebit ==
  ASSUME DeliveryInv, [DeliveryNext]_deliveryVars
  PROVE  \/ UNCHANGED applied
         \/ /\ phase = "posting"
            /\ applied' = applied \cup {[ext |-> intents[row].ext, req |-> req]}
<1>1. CASE AnswerPost
  BY <1>1 DEF AnswerPost, Debits, Overdraws, TakeDays, hcmVars
<1>2. CASE BailOut \/ Succeed \/ Fail \/ GiveUpForNow
  BY <1>2, EndsEffect DEF hcmVars
<1>3. CASE Approve \/ OtherCall \/ tick \/ Submit \/ Crash \/ AnswerRead \/ Report \/ Adjust
  BY <1>3 DEF Approve, OtherCall, tick, Submit, Crash, AnswerRead, Report, Adjust, hcmVars
<1>4. ASSUME NEW i \in DOMAIN queue, AdminRetry(i) \/ Backoff(i) PROVE UNCHANGED applied
  BY <1>4 DEF AdminRetry, Backoff, hcmVars
<1>5. CASE UNCHANGED deliveryVars
  BY <1>5 DEF deliveryVars, hcmVars
<1> QED
  BY <1>1, <1>2, <1>3, <1>4, <1>5 DEF DeliveryNext, AnswerLookedAt

LEMMA DebitsStayMatched ==
  ASSUME DeliveryInv, [DeliveryNext]_deliveryVars
  PROVE  DebitsMatchRows'
<1>1. ASSUME NEW debit \in applied
      PROVE  \E i \in DOMAIN intents' : intents'[i] = [req |-> debit.req, ext |-> debit.ext]
  BY HistoryGrows DEF DeliveryInv, DebitsMatchRows
<1>2. ASSUME phase = "posting"
      PROVE  \E i \in DOMAIN intents' :
               intents'[i] = [req |-> req, ext |-> intents[row].ext]
  <2>1. row \in DOMAIN intents /\ intents[row] \in Intent /\ intents[row].req = req
    BY <1>2, WorkerRow DEF DeliveryInv, req
  <2>2. intents'[row] = intents[row] /\ row \in DOMAIN intents'
    BY <2>1, HistoryGrows
  <2>3. intents[row] = [req |-> req, ext |-> intents[row].ext]
    BY <2>1 DEF Intent
  <2> QED
    BY <2>2, <2>3
<1>3. CASE UNCHANGED applied
  BY <1>1, <1>3 DEF DebitsMatchRows
<1>4. CASE /\ phase = "posting"
           /\ applied' = applied \cup {[ext |-> intents[row].ext, req |-> req]}
  <2> DEFINE new == [ext |-> intents[row].ext, req |-> req]
  <2>1. new.ext = intents[row].ext /\ new.req = req
    OBVIOUS
  <2>2. \E i \in DOMAIN intents' : intents'[i] = [req |-> new.req, ext |-> new.ext]
    BY <1>2, <1>4, <2>1
  <2>3. applied' = applied \cup {new}
    BY <1>4
  <2> HIDE DEF new
  <2> QED
    BY <1>1, <2>2, <2>3 DEF DebitsMatchRows
<1> QED
  BY <1>3, <1>4, OnlyPostsDebit

(* Two debits of one request are one: their rows carry the same id.        *)
LEMMA MatchedMeansOnce ==
  ASSUME DeliveryInv
  PROVE  DebitedOnce
<1> SUFFICES ASSUME NEW p \in applied, NEW q \in applied, p.req = q.req PROVE p = q
  BY DEF DebitedOnce
<1>1. PICK i \in DOMAIN intents : intents[i] = [req |-> p.req, ext |-> p.ext]
  BY DEF DeliveryInv, DebitsMatchRows
<1>2. PICK j \in DOMAIN intents : intents[j] = [req |-> q.req, ext |-> q.ext]
  BY DEF DeliveryInv, DebitsMatchRows
<1>3. intents[i].req = intents[j].req /\ intents[i].ext = p.ext /\ intents[j].ext = q.ext
  BY <1>1, <1>2
<1>4. p.ext = q.ext
  BY <1>3, IInvGivesOneId DEF DeliveryInv, OneExternalIdPerRequest
<1> QED
  BY <1>4 DEF DeliveryInv, DeliveryTypeOK, Debit

(* When HCM says ok, its debit is there, made now or before.               *)
LEMMA AckIsTrue ==
  ASSUME DeliveryInv, AnswerPost, reply' = "ok"
  PROVE  \E debit \in applied' : debit.req = req
<1>1. Debits \/ Overdraws
  BY DEF AnswerPost
<1>2. CASE Known(intents[row].ext)
  <2>1. PICK debit \in applied : debit.ext = intents[row].ext
    BY <1>2 DEF Known
  <2>2. PICK i \in DOMAIN intents : intents[i] = [req |-> debit.req, ext |-> debit.ext]
    BY DEF DeliveryInv, DebitsMatchRows
  <2>3. row \in DOMAIN intents
    BY WorkerRow DEF DeliveryInv, AnswerPost
  <2>4. intents[i].req = intents[row].req
    BY <2>1, <2>2, <2>3, IInvGivesOneId DEF DeliveryInv, OneExternalIdPerRequest
  <2>5. debit.req = req
    BY <2>2, <2>4 DEF req
  <2> QED
    BY <1>1, <1>2, <2>5 DEF Debits, Overdraws, hcmVars
<1>3. CASE ~Known(intents[row].ext)
  <2>1. [ext |-> intents[row].ext, req |-> req] \in applied'
    BY <1>1, <1>3 DEF Debits, Overdraws, TakeDays
  <2> QED
    BY <2>1
<1> QED
  BY <1>2, <1>3

LEMMA AckStaysTrue ==
  ASSUME DeliveryInv, [DeliveryNext]_deliveryVars
  PROVE  AckMeansDebited'
<1>1. ASSUME phase # "idle", UNCHANGED batch PROVE req' = req
  <2>1. row \in DOMAIN intents /\ row' = row
    BY <1>1, WorkerRow DEF DeliveryInv, row
  <2> QED
    BY <2>1, HistoryGrows DEF req
<1>2. CASE AnswerPost
  BY <1>1, <1>2, AckIsTrue DEF AnswerPost, AckMeansDebited, Debited
<1>3. CASE UNCHANGED <<batch, phase, reply>>
  BY <1>1, <1>3, HistoryGrows DEF DeliveryInv, AckMeansDebited, Debited
<1>4. CASE BailOut \/ Succeed \/ Fail \/ GiveUpForNow
  BY <1>4, EndsEffect DEF RowEnds, AckMeansDebited
<1>5. CASE tick \/ Submit \/ Crash \/ AnswerRead
  BY <1>5 DEF tick, Submit, Crash, StopWork, AnswerRead, AckMeansDebited
<1>6. ASSUME NEW i \in DOMAIN queue, AdminRetry(i) PROVE AckMeansDebited'
  BY <1>3, <1>6 DEF AdminRetry, AckMeansDebited
<1>7. ASSUME NEW i \in DOMAIN queue, Backoff(i) PROVE AckMeansDebited'
  BY <1>3, <1>7 DEF Backoff, workerVars
<1>8. CASE Approve \/ OtherCall \/ Report \/ Adjust \/ UNCHANGED deliveryVars
  BY <1>3, <1>8 DEF Approve, OtherCall, Report, Adjust, deliveryVars, workerVars
<1> QED
  BY <1>2, <1>4, <1>5, <1>6, <1>7, <1>8 DEF DeliveryNext, AnswerLookedAt

-----------------------------------------------------------------------------
(* Requests and their rows *)

(* Only the worker's success makes a request CONSUMED, only a refusal      *)
(* makes one HCM_FAILED, and only an approval makes one APPROVED.          *)
LEMMA StatesMove ==
  ASSUME DeliveryInv, [DeliveryNext]_deliveryVars
  PROVE  \A r \in ReqIds :
           /\ State(r)' = CONSUMED =>
                State(r) = CONSUMED \/ (r = req /\ phase = "posted" /\ reply = "ok")
           /\ State(r)' = HCM_FAILED =>
                State(r) = HCM_FAILED \/ (r = req /\ phase = "posted" /\ reply = "permanent")
           /\ State(r)' = APPROVED => State(r) = APPROVED \/ Approve
<1>1. ASSUME NEW r \in ReqIds, State(r)' = State(r)
      PROVE  /\ State(r)' = CONSUMED => State(r) = CONSUMED
             /\ State(r)' = HCM_FAILED => State(r) = HCM_FAILED
             /\ State(r)' = APPROVED => State(r) = APPROVED
  BY <1>1
<1>s. /\ {PENDING, REJECTED, CANCELLED, REVIEW_REQUIRED}
             \cap {CONSUMED, APPROVED, HCM_FAILED} = {}
      /\ APPROVED # CONSUMED /\ APPROVED # HCM_FAILED
  BY DEF PENDING, REJECTED, CANCELLED, REVIEW_REQUIRED, CONSUMED, APPROVED,
         HCM_FAILED
<1>2. ASSUME UNCHANGED vars PROVE \A r \in ReqIds : State(r)' = State(r)
  BY <1>2 DEF vars, State, Filed
<1>3. CASE Approve
  <2>1. PICK u \in Users, a \in ReqIds : approve(u, a)
    BY <1>3 DEF Approve, ApproveStep
  <2>2. ExternalId(a) \in Nat
    BY <2>1, ExternalIdTyped DEF approve, DeliveryInv, IInv
  <2>3. \A r \in ReqIds : State(r)' = State(r) \/ State(r)' = APPROVED
    BY <2>1, <2>2, StatesAre, MoveToEffect DEF approve, DeliveryInv, IInv
  <2> QED
    BY <1>3, <1>s, <2>3
<1>4. CASE OtherCall
  BY <1>4, <1>s, UserEffect DEF OtherCall, DeliveryInv
<1>5. CASE BailOut \/ Succeed \/ Fail \/ GiveUpForNow
  BY <1>5, EndsEffect
<1>6. CASE tick \/ Submit \/ Crash \/ AnswerRead \/ AnswerPost \/ Adjust
  BY <1>1, <1>2, <1>6 DEF tick, Submit, Crash, AnswerRead, AnswerPost, Adjust
<1>7. ASSUME NEW i \in DOMAIN queue, AdminRetry(i) \/ Backoff(i) PROVE UNCHANGED vars
  BY <1>7 DEF AdminRetry, Backoff
<1>8. CASE Report
  <2>1. PICK k \in Keys, t \in AsOfs : applyHcmBalanceSnapshot(k, hcm[k], t)
    BY <1>8 DEF Report
  <2>2. hcm[k] \in Int
    BY DEF DeliveryInv, DeliveryTypeOK
  <2> QED
    BY <1>s, <2>1, <2>2, ReportEffect DEF DeliveryInv
<1>9. CASE UNCHANGED deliveryVars
  BY <1>1, <1>2, <1>9 DEF deliveryVars
<1> QED
  BY <1>1, <1>2, <1>3, <1>4, <1>5, <1>6, <1>7, <1>8, <1>9 DEF DeliveryNext, AnswerLookedAt

LEMMA ConsumedStaysDebited ==
  ASSUME DeliveryInv, [DeliveryNext]_deliveryVars
  PROVE  ConsumedMeansDebited'
<1>1. ASSUME NEW r \in ReqIds, State(r)' = CONSUMED
      PROVE  Debited(r)'
  <2>1. Debited(r)
    BY <1>1, StatesMove DEF DeliveryInv, ConsumedMeansDebited, AckMeansDebited
  <2> QED
    BY <2>1, HistoryGrows DEF Debited
<1> QED
  BY <1>1 DEF ConsumedMeansDebited

(* A row is closed only by a step after which its request is not APPROVED. *)
LEMMA RowsStayOpen ==
  ASSUME DeliveryInv, [DeliveryNext]_deliveryVars,
         NEW i \in DOMAIN queue, queue[i].status # "DONE"
  PROVE  /\ i \in DOMAIN queue'
         /\ \/ queue'[i].status # "DONE"
            \/ i = row /\ phase # "idle" /\ \A r \in ReqIds : r = req => State(r)' # APPROVED
<1>t. queue \in Seq(Row)
  BY DEF DeliveryInv, DeliveryTypeOK
<1>1. ASSUME UNCHANGED queue
      PROVE  i \in DOMAIN queue' /\ queue'[i].status # "DONE"
  BY <1>1
<1>2. CASE Approve
  BY <1>2, <1>t, AppendEffect DEF Approve
<1>c. ASSUME NEW q \in Seq(Row), DOMAIN q = DOMAIN queue, q[i].status # "DONE",
             queue' = Claim(q)
      PROVE  i \in DOMAIN queue' /\ queue'[i].status # "DONE"
  <2>1. i \in DOMAIN q
    BY <1>c
  <2>2. CASE i \in NextBatch(q)
    BY <1>c, <2>1, <2>2, ClaimEffect
  <2>3. CASE i \notin NextBatch(q)
    BY <1>c, <2>1, <2>3, ClaimEffect
  <2> QED
    BY <2>2, <2>3
<1>3. CASE tick
  BY <1>3, <1>c, <1>t DEF tick
<1>4. CASE BailOut \/ Succeed \/ Fail \/ GiveUpForNow
  BY <1>4, EndsEffect DEF RowEnds
<1>5. ASSUME NEW n \in DOMAIN queue, AdminRetry(n)
      PROVE  i \in DOMAIN queue' /\ queue'[i].status # "DONE"
  <2> DEFINE q == Reset(queue, n)
  <2>1. q \in Seq(Row) /\ DOMAIN q = DOMAIN queue /\ q[i].status # "DONE"
    <3>1. NewRow.status # "DONE"
      BY DEF NewRow
    <3> QED
      BY <1>t, <3>1, ResetEffect
  <2>2. queue' = Claim(q) \/ queue' = q
    BY <1>5 DEF AdminRetry
  <2> HIDE DEF q
  <2> QED
    BY <1>c, <2>1, <2>2
<1>6. ASSUME NEW n \in DOMAIN queue, Backoff(n)
      PROVE  i \in DOMAIN queue' /\ queue'[i].status # "DONE"
  BY <1>6, <1>t, FallDueEffect DEF Backoff
<1>7. CASE OtherCall \/ Submit \/ Crash \/ AnswerRead \/ AnswerPost \/ Report \/ Adjust
  BY <1>1, <1>7 DEF OtherCall, Submit, Crash, AnswerRead, AnswerPost, Report, Adjust
<1>8. CASE UNCHANGED deliveryVars
  BY <1>1, <1>8 DEF deliveryVars
<1> QED
  BY <1>2, <1>3, <1>4, <1>5, <1>6, <1>7, <1>8 DEF DeliveryNext, AnswerLookedAt

LEMMA ApprovedStaysInOutbox ==
  ASSUME DeliveryInv, [DeliveryNext]_deliveryVars
  PROVE  ApprovedIsInOutbox'
<1> SUFFICES ASSUME NEW r \in ReqIds, State(r)' = APPROVED
             PROVE  \E i \in DOMAIN queue' : intents'[i].req = r /\ queue'[i].status # "DONE"
  BY DEF ApprovedIsInOutbox
<1>t. queue \in Seq(Row) /\ DOMAIN queue = DOMAIN intents /\ intents \in Seq(Intent)
      /\ Len(queue) = Len(intents)
  BY DEF DeliveryInv, DeliveryTypeOK, TypeOK
<1>1. CASE State(r) = APPROVED
  <2>1. PICK i \in DOMAIN queue : intents[i].req = r /\ queue[i].status # "DONE"
    BY <1>1 DEF DeliveryInv, ApprovedIsInOutbox
  <2>2. intents'[i].req = r
    BY <1>t, <2>1, HistoryGrows
  <2>3. i = row => r = req
    BY <2>1 DEF req
  <2> QED
    BY <2>1, <2>2, <2>3, RowsStayOpen
<1>2. CASE State(r) # APPROVED
  <2>1. Approve
    BY <1>2, StatesMove
  <2>2. PICK u \in Users, a \in ReqIds : approve(u, a)
    BY <2>1 DEF Approve, ApproveStep
  <2>3. ExternalId(a) \in Nat \ {0}
    BY <2>2, ExternalIdTyped DEF approve, DeliveryInv, IInv
  <2>4. r = a
    BY <1>2, <2>2, <2>3, StatesAre, MoveToEffect DEF approve, DeliveryInv, IInv
  <2>5. [req |-> a, ext |-> ExternalId(a)] \in Intent
    BY <2>3 DEF Intent
  <2> DEFINE n == Len(queue) + 1
  <2>6. intents'[n].req = r
    BY <1>t, <2>2, <2>4, <2>5 DEF approve
  <2>7. n \in DOMAIN queue' /\ queue'[n].status # "DONE"
    BY <1>t, <2>1, AppendEffect DEF Approve, NewRow
  <2> QED
    BY <2>6, <2>7
<1> QED
  BY <1>1, <1>2

-----------------------------------------------------------------------------
LEMMA DeliveryInitInv == DeliveryInit => DeliveryInv
<1> SUFFICES ASSUME DeliveryInit PROVE DeliveryInv
  OBVIOUS
<1>1. IInv /\ TypeOK
  BY InitIInv DEF DeliveryInit, IInv
<1>2. intents = <<>> /\ \A r \in ReqIds : State(r) = None
  BY DEF DeliveryInit, Init, State, Filed
<1>3. DeliveryTypeOK
  BY <1>1, <1>2, DeliveryAssumption DEF DeliveryInit, DeliveryTypeOK, Phases
<1>4. None # CONSUMED /\ None # APPROVED
  BY StatesAre
<1> QED
  BY <1>1, <1>2, <1>3, <1>4
     DEF DeliveryInit, DeliveryInv, DebitsMatchRows, AckMeansDebited,
         ConsumedMeansDebited, ApprovedIsInOutbox

LEMMA DeliveryNextInv == DeliveryInv /\ [DeliveryNext]_deliveryVars => DeliveryInv'
<1> SUFFICES ASSUME DeliveryInv, [DeliveryNext]_deliveryVars PROVE DeliveryInv'
  OBVIOUS
<1>1. IInv'
  BY LocalInv DEF DeliveryInv
<1> QED
  BY <1>1, DeliveryTypes, DebitsStayMatched, AckStaysTrue, ConsumedStaysDebited,
     ApprovedStaysInOutbox DEF DeliveryInv

(* The inductive invariant of the composed system: that of the tables, the *)
(* types, the origin of every debit, the truth of what the worker was told *)
(* and the two promises about requests that follow from them.              *)
THEOREM DeliveryInvHolds == DeliverySpec => []DeliveryInv
  BY DeliveryInitInv, DeliveryNextInv, PTL DEF DeliverySpec

(* The types of the composed system, the worker's place among them.        *)
THEOREM DeliveryTypeCorrect == DeliverySpec => []DeliveryTypeOK
<1>1. DeliveryInv => DeliveryTypeOK
  BY DEF DeliveryInv
<1> QED
  BY <1>1, DeliveryInvHolds, PTL

(* HCM is debited at most once for a request, in whatever number its calls *)
(* fail, the process dies, rows are reset and requests approved again.     *)
THEOREM OneDebitPerRequest == DeliverySpec => []DebitedOnce
<1>1. DeliveryInv => DebitedOnce
  BY MatchedMeansOnce
<1> QED
  BY <1>1, DeliveryInvHolds, PTL

(* The days of a CONSUMED request have been taken in HCM.                  *)
THEOREM ConsumedIsDebited == DeliverySpec => []ConsumedMeansDebited
<1>1. DeliveryInv => ConsumedMeansDebited
  BY DEF DeliveryInv
<1> QED
  BY <1>1, DeliveryInvHolds, PTL

(* An APPROVED request always has a row the worker is not done with.       *)
THEOREM ApprovedStaysQueued == DeliverySpec => []ApprovedIsInOutbox
<1>1. DeliveryInv => ApprovedIsInOutbox
  BY DEF DeliveryInv
<1> QED
  BY <1>1, DeliveryInvHolds, PTL

-----------------------------------------------------------------------------
(* The days in HCM *)

Untouched(kinds) == \A kind \in kinds : left[kind] = Budget[kind]

BudgetIsBound == \A kind \in Kinds : left[kind] <= Budget[kind]

(* The books of HCM: what it held is what it holds and what it debited.    *)
DebitedFor(k) == {r \in Filed : requests[r].key = k /\ Debited(r)}
Taken(k)      == Total([r \in DebitedFor(k) |-> Thousandths(requests[r].days)])

BooksBalance == Untouched({"adjust"}) => \A k \in Keys : hcm[k] + Taken(k) = Granted[k]

(* A refusal is for good: the days are not there and nothing adds to them. *)
OutOfReach(r) == ~Debited(r) /\ hcm[requests[r].key] < Thousandths(requests[r].days)

ByTheRule == {"refused", "accepted", "adjust"}

FailedIsOutOfReach ==
  Untouched(ByTheRule) => \A r \in ReqIds : State(r) = HCM_FAILED => OutOfReach(r)

NackMeansOutOfReach ==
  Untouched(ByTheRule) => (phase = "posted" /\ reply = "permanent" => OutOfReach(req))

(* What the worker read is still so when it posts: nobody else debits.     *)
ReadsTold == {"unread", "misread"}

ReadStaysTrue ==
  Untouched({"adjust"} \cup ReadsTold) =>
    /\ phase = "read" => view = hcm[key]
    /\ phase = "posting" => hcm[key] >= amount

(* One guard is enough to keep HCM out of the red.                         *)
InTheBlack ==
  Untouched({"adjust"}) /\ (Untouched(ReadsTold) \/ Untouched({"accepted"})) =>
    \A k \in Keys : hcm[k] >= 0

DebitInv ==
  /\ FiledIsFinite /\ BudgetIsBound /\ BooksBalance
  /\ FailedIsOutOfReach /\ NackMeansOutOfReach
  /\ ReadStaysTrue /\ InTheBlack

LEMMA LeftShrinks ==
  ASSUME DeliveryInv, [DeliveryNext]_deliveryVars
  PROVE  \A kind \in Kinds : left'[kind] <= left[kind]
<1>t. left \in [Kinds -> Nat]
  BY DEF DeliveryInv, DeliveryTypeOK
<1>1. ASSUME NEW kind \in Kinds, Use(kind) PROVE \A q \in Kinds : left'[q] <= left[q]
  BY <1>t, <1>1 DEF Use
<1>2. ASSUME UNCHANGED left PROVE \A q \in Kinds : left'[q] <= left[q]
  BY <1>t, <1>2
<1>3. FinishRow => UNCHANGED left \/ Use("crash")
  BY DEF FinishRow
<1>4. CASE BailOut \/ Submit \/ Succeed \/ Fail \/ GiveUpForNow \/ Crash
  BY <1>1, <1>2, <1>3, <1>4
     DEF BailOut, Submit, Succeed, Fail, GiveUpForNow, Crash, RetryRow, Kinds
<1>5. ASSUME NEW i \in DOMAIN queue, AdminRetry(i) \/ Backoff(i)
      PROVE  \A q \in Kinds : left'[q] <= left[q]
  BY <1>1, <1>2, <1>5 DEF AdminRetry, Backoff, Kinds
<1>6. CASE Approve \/ OtherCall \/ tick \/ AnswerRead \/ AnswerPost \/ Report \/ Adjust
  BY <1>1, <1>2, <1>6 DEF Approve, OtherCall, tick, AnswerRead, AnswerPost, Report, Adjust, Kinds
<1>7. CASE UNCHANGED deliveryVars
  BY <1>2, <1>7 DEF deliveryVars
<1> QED
  BY <1>4, <1>5, <1>6, <1>7 DEF DeliveryNext, AnswerLookedAt

(* What has not happened now had not happened before.                      *)
LEMMA UntouchedBefore ==
  ASSUME DeliveryInv, BudgetIsBound, [DeliveryNext]_deliveryVars
  PROVE  /\ BudgetIsBound'
         /\ \A kind \in Kinds : left'[kind] = Budget[kind] => left[kind] = Budget[kind]
<1>1. \A kind \in Kinds : /\ left'[kind] <= left[kind] /\ left[kind] <= Budget[kind]
                          /\ left[kind] \in Nat /\ Budget[kind] \in Nat
                          /\ left'[kind] \in Nat
  BY LeftShrinks, DeliveryTypes, DeliveryAssumption DEF BudgetIsBound, DeliveryInv, DeliveryTypeOK
<1> QED
  BY <1>1 DEF BudgetIsBound

(* The steps that change the books                                         *)
NewDebit ==
  /\ phase = "posting" /\ ~Debited(req)
  /\ hcm[key] >= amount \/ Use("accepted")
  /\ hcm' = [hcm EXCEPT ![key] = @ - amount]
  /\ applied' = applied \cup {[ext |-> intents[row].ext, req |-> req]}
  /\ UNCHANGED vars

(* An id that HCM does not know is that of a request it has not debited.   *)
LEMMA UnknownMeansNotDebited ==
  ASSUME DeliveryInv, phase # "idle", ~Known(intents[row].ext)
  PROVE  ~Debited(req)
<1> SUFFICES ASSUME NEW debit \in applied, debit.req = req PROVE FALSE
  BY DEF Debited
<1>1. PICK i \in DOMAIN intents : intents[i] = [req |-> debit.req, ext |-> debit.ext]
  BY DEF DeliveryInv, DebitsMatchRows
<1>2. row \in DOMAIN intents
  BY WorkerRow DEF DeliveryInv
<1>3. intents[i].ext = intents[row].ext
  BY <1>1, <1>2, IInvGivesOneId DEF DeliveryInv, OneExternalIdPerRequest, req
<1> QED
  BY <1>1, <1>3 DEF Known

LEMMA HcmMoves ==
  ASSUME DeliveryInv, [DeliveryNext]_deliveryVars
  PROVE  UNCHANGED hcmVars \/ NewDebit \/ (UNCHANGED applied /\ Use("adjust"))
<1>1. CASE AnswerPost
  <2>1. phase = "posting" /\ phase # "idle" /\ UNCHANGED vars
    BY <1>1 DEF AnswerPost
  <2>2. CASE UNCHANGED hcmVars
    BY <2>2
  <2>3. CASE Debits /\ ~UNCHANGED hcmVars
    BY <2>1, <2>3, UnknownMeansNotDebited DEF Debits, TakeDays, NewDebit
  <2>4. CASE Overdraws /\ Use("accepted")
    BY <2>1, <2>4, UnknownMeansNotDebited DEF Overdraws, TakeDays, NewDebit
  <2> QED
    BY <1>1, <2>2, <2>3, <2>4 DEF AnswerPost
<1>2. CASE BailOut \/ Succeed \/ Fail \/ GiveUpForNow
  BY <1>2, EndsEffect
<1>3. CASE Approve \/ OtherCall \/ tick \/ Submit \/ Crash \/ AnswerRead \/ Report
  BY <1>3 DEF Approve, OtherCall, tick, Submit, Crash, AnswerRead, Report
<1>4. ASSUME NEW i \in DOMAIN queue, AdminRetry(i) \/ Backoff(i) PROVE UNCHANGED hcmVars
  BY <1>4 DEF AdminRetry, Backoff
<1>5. CASE Adjust
  BY <1>5 DEF Adjust
<1>6. CASE UNCHANGED deliveryVars
  BY <1>6 DEF deliveryVars
<1> QED
  BY <1>1, <1>2, <1>3, <1>4, <1>5, <1>6 DEF DeliveryNext, AnswerLookedAt

LEMMA UntouchedWas ==
  ASSUME DeliveryInv, BudgetIsBound, [DeliveryNext]_deliveryVars,
         NEW kinds \in SUBSET Kinds, Untouched(kinds)'
  PROVE  Untouched(kinds) /\ \A kind \in kinds : ~Use(kind)
<1>1. \A kind \in kinds : left'[kind] = Budget[kind] /\ left[kind] = Budget[kind]
  BY UntouchedBefore DEF Untouched
<1>2. ASSUME NEW kind \in kinds PROVE ~Use(kind)
  <2>1. left[kind] \in Nat /\ kind \in DOMAIN left
    BY DEF DeliveryInv, DeliveryTypeOK
  <2> QED
    BY <1>1, <2>1 DEF Use
<1> QED
  BY <1>1, <1>2 DEF Untouched

(* As long as HR adjusts nothing                                           *)
LEMMA HcmMovesUntouched ==
  ASSUME DeliveryInv, BudgetIsBound, [DeliveryNext]_deliveryVars, Untouched({"adjust"})'
  PROVE  Untouched({"adjust"}) /\ (UNCHANGED hcmVars \/ NewDebit)
<1>1. {"adjust"} \in SUBSET Kinds
  BY DEF Kinds
<1> QED
  BY <1>1, UntouchedWas, HcmMoves

(* Debits are for requests that were filed.                                *)
LEMMA DebitedIsFiled ==
  ASSUME DeliveryInv, NEW r, Debited(r)
  PROVE  r \in Filed
  BY DEF Debited, DeliveryInv, DebitsMatchRows, IInv, IdBookkeeping

LEMMA TakenIs ==
  ASSUME DeliveryInv, FiledIsFinite, NEW k
  PROVE  /\ IsFiniteSet(DebitedFor(k))
         /\ \A r \in Filed : Thousandths(requests[r].days) \in Nat
         /\ Taken(k) \in Int
<1> DEFINE f == [r \in DebitedFor(k) |-> Thousandths(requests[r].days)]
<1>1. DebitedFor(k) \in SUBSET Filed /\ IsFiniteSet(DebitedFor(k))
  BY FiniteSubsets DEF DebitedFor, FiledIsFinite
<1>2. ASSUME NEW r \in Filed PROVE Thousandths(requests[r].days) \in Nat
  <2>1. requests[r] \in Request
    BY FiledHasHold DEF DeliveryInv
  <2> QED
    BY <2>1 DEF Request, Thousandths
<1>3. SumFunction(f) \in Int
  BY <1>1, <1>2, PartSumsLess
<1> QED
  BY <1>1, <1>2, <1>3 DEF Taken, Total

(* A filing adds a request that is not debited, and days never change.     *)
LEMMA TakenStays ==
  ASSUME DeliveryInv, [DeliveryNext]_deliveryVars, UNCHANGED applied, NEW k
  PROVE  Taken(k)' = Taken(k)
<1>1. /\ Filed \subseteq Filed' /\ \A q \in Filed : SameDays(q)
      /\ \A q : Debited(q)' <=> Debited(q)
  BY LocalStep, FiledGrows DEF DeliveryInv, Debited
<1>2. DebitedFor(k)' = DebitedFor(k)
  BY <1>1, DebitedIsFiled DEF DebitedFor, SameDays
<1>3. \A q \in DebitedFor(k) : requests'[q].days = requests[q].days
  BY <1>1 DEF DebitedFor, SameDays
<1> QED
  BY <1>2, <1>3 DEF Taken

LEMMA TakenGrows ==
  ASSUME DeliveryInv, FiledIsFinite, NewDebit, NEW k \in Keys
  PROVE  Taken(k)' = IF k = key THEN Taken(k) + amount ELSE Taken(k)
<1>1. req \in Filed /\ requests' = requests /\ Filed' = Filed
  <2>1. phase # "idle"
    BY DEF NewDebit
  <2> QED
    BY <2>1, WorkerRow DEF NewDebit, DeliveryInv, vars, Filed
<1>2. \A q : Debited(q)' <=> Debited(q) \/ q = req
  <2> DEFINE new == [ext |-> intents[row].ext, req |-> req]
  <2>1. new.req = req /\ applied' = applied \cup {new}
    BY DEF NewDebit
  <2> HIDE DEF new
  <2> QED
    BY <2>1 DEF Debited
<1>3. CASE k # key
  <2>1. DebitedFor(k)' = DebitedFor(k)
    BY <1>1, <1>2, <1>3 DEF DebitedFor, key
  <2> QED
    BY <1>1, <1>3, <2>1 DEF Taken
<1>4. CASE k = key
  <2> DEFINE f == [r \in DebitedFor(k) |-> Thousandths(requests[r].days)]
             g == [r \in DebitedFor(k)' |-> Thousandths(requests'[r].days)]
  <2>1. req \notin DebitedFor(k) /\ DebitedFor(k)' = DebitedFor(k) \cup {req}
    BY <1>1, <1>2, <1>4 DEF DebitedFor, key, NewDebit
  <2>2. /\ DOMAIN g = DOMAIN f \cup {req} /\ req \notin DOMAIN f /\ IsFiniteSet(DOMAIN f)
        /\ \A r \in DOMAIN g : g[r] \in Nat
        /\ \A r \in DOMAIN f : f[r] = g[r]
        /\ g[req] = amount
    BY <1>1, <2>1, TakenIs DEF DebitedFor, amount
  <2> HIDE DEF f, g
  <2>3. SumFunction(g) = amount + SumFunction(f)
    BY <2>2, OneMoreSums
  <2>4. Taken(k)' = amount + Taken(k)
    BY <2>3 DEF Taken, Total, f, g
  <2>5. Taken(k) \in Int /\ amount \in Int
    BY WorkerRow, TakenIs DEF NewDebit, DeliveryInv
  <2> QED
    BY <1>4, <2>4, <2>5
<1> QED
  BY <1>3, <1>4

LEMMA BooksStayBalanced ==
  ASSUME DeliveryInv, FiledIsFinite, BudgetIsBound, BooksBalance,
         [DeliveryNext]_deliveryVars
  PROVE  BooksBalance'
<1> SUFFICES ASSUME Untouched({"adjust"})', NEW k \in Keys
             PROVE  hcm'[k] + Taken(k)' = Granted[k]
  BY DEF BooksBalance
<1>1. Untouched({"adjust"}) /\ (UNCHANGED hcmVars \/ NewDebit)
  BY HcmMovesUntouched
<1>2. hcm[k] + Taken(k) = Granted[k]
  BY <1>1 DEF BooksBalance
<1>3. CASE UNCHANGED hcmVars
  BY <1>2, <1>3, TakenStays DEF hcmVars
<1>4. CASE NewDebit
  <2>1. key \in Keys /\ amount \in Nat /\ hcm \in [Keys -> Int] /\ Taken(k) \in Int
    BY <1>4, WorkerRow, TakenIs DEF NewDebit, DeliveryInv, DeliveryTypeOK
  <2>2. CASE k = key
    <3>1. hcm'[k] = hcm[k] - amount
      BY <1>4, <2>1, <2>2 DEF NewDebit
    <3>2. Taken(k)' = Taken(k) + amount
      BY <1>4, <2>2, TakenGrows, Zenon
    <3> QED
      BY <1>2, <2>1, <3>1, <3>2
  <2>3. CASE k # key
    <3>1. hcm'[k] = hcm[k]
      BY <1>4, <2>1, <2>3 DEF NewDebit
    <3>2. Taken(k)' = Taken(k)
      BY <1>4, <2>3, TakenGrows, Zenon
    <3> QED
      BY <1>2, <3>1, <3>2
  <2> QED
    BY <2>2, <2>3
<1> QED
  BY <1>1, <1>3, <1>4

-----------------------------------------------------------------------------
(* Refusals *)

LEMMA RuleWas ==
  ASSUME DeliveryInv, BudgetIsBound, [DeliveryNext]_deliveryVars, Untouched(ByTheRule)'
  PROVE  /\ Untouched(ByTheRule) /\ (UNCHANGED hcmVars \/ NewDebit)
         /\ ~Use("refused") /\ ~Use("accepted")
<1>1. ByTheRule \in SUBSET Kinds
  BY DEF ByTheRule, Kinds
<1>2. Untouched(ByTheRule) /\ \A kind \in ByTheRule : ~Use(kind)
  BY <1>1, UntouchedWas
<1> QED
  BY <1>2, HcmMoves DEF ByTheRule

(* What is out of reach stays so: HCM debits only what is in reach.        *)
LEMMA OutOfReachStays ==
  ASSUME DeliveryInv, [DeliveryNext]_deliveryVars, UNCHANGED hcmVars \/ NewDebit,
         ~Use("accepted"), NEW r \in Filed, OutOfReach(r)
  PROVE  OutOfReach(r)'
<1>1. /\ r \in Filed /\ SameDays(r)
      /\ requests[r].key \in Keys /\ Thousandths(requests[r].days) \in Nat
  <2>1. requests[r] \in Request
    BY FiledHasHold DEF DeliveryInv
  <2> QED
    BY <2>1, LocalStep, FiledGrows DEF DeliveryInv, Request, Thousandths
<1>2. CASE UNCHANGED hcmVars
  BY <1>1, <1>2 DEF OutOfReach, SameDays, hcmVars, Debited
<1>3. CASE NewDebit
  <2> DEFINE new == [ext |-> intents[row].ext, req |-> req]
  <2>1. key \in Keys /\ amount \in Nat /\ hcm \in [Keys -> Int]
    BY <1>3, WorkerRow DEF NewDebit, DeliveryInv, DeliveryTypeOK
  <2>2. r # req
    BY <1>3, <2>1 DEF OutOfReach, NewDebit, key, amount
  <2>3. ~Debited(r)'
    <3>1. applied' = applied \cup {new} /\ new.req = req
      BY <1>3 DEF NewDebit
    <3> HIDE DEF new
    <3> QED
      BY <2>2, <3>1 DEF OutOfReach, Debited
  <2>4. hcm'[requests[r].key] <= hcm[requests[r].key] /\ hcm[requests[r].key] \in Int
        /\ hcm'[requests[r].key] \in Int
    BY <1>1, <1>3, <2>1 DEF NewDebit
  <2> QED
    BY <1>1, <2>3, <2>4 DEF OutOfReach, SameDays
<1> QED
  BY <1>2, <1>3

LEMMA NackStaysTrue ==
  ASSUME DeliveryInv, BudgetIsBound, NackMeansOutOfReach, [DeliveryNext]_deliveryVars
  PROVE  NackMeansOutOfReach'
<1> SUFFICES ASSUME Untouched(ByTheRule)', phase' = "posted", reply' = "permanent"
             PROVE  OutOfReach(req)'
  BY DEF NackMeansOutOfReach
<1>1. /\ Untouched(ByTheRule) /\ ~Use("refused") /\ ~Use("accepted")
      /\ UNCHANGED hcmVars \/ NewDebit
  BY RuleWas
<1>2. ASSUME phase # "idle", UNCHANGED batch, OutOfReach(req)
      PROVE  OutOfReach(req)'
  <2>1. row \in DOMAIN intents /\ row' = row /\ req \in Filed
    BY <1>2, WorkerRow DEF DeliveryInv, row
  <2>2. req' = req
    BY <2>1, HistoryGrows DEF req
  <2>3. \A r \in Filed : OutOfReach(r) => OutOfReach(r)'
    BY <1>1, OutOfReachStays
  <2>4. PICK r \in Filed : r = req
    BY <2>1
  <2> QED
    BY <1>2, <2>2, <2>3, <2>4 DEF OutOfReach
<1>3. CASE AnswerPost
  <2>1. phase # "idle" /\ UNCHANGED batch
    BY <1>3 DEF AnswerPost
  <2>2. ~Known(intents[row].ext) /\ hcm[key] < amount
    BY <1>1, <1>3 DEF AnswerPost
  <2>3. OutOfReach(req)
    BY <2>1, <2>2, UnknownMeansNotDebited DEF OutOfReach, key, amount
  <2> QED
    BY <1>2, <2>1, <2>3
<1>4. CASE UNCHANGED <<batch, phase, reply>>
  BY <1>1, <1>2, <1>4 DEF NackMeansOutOfReach
<1>5. CASE BailOut \/ Succeed \/ Fail \/ GiveUpForNow
  BY <1>5, EndsEffect DEF RowEnds
<1>6. CASE tick \/ Submit \/ Crash \/ AnswerRead
  BY <1>6 DEF tick, Submit, Crash, StopWork, AnswerRead
<1>7. ASSUME NEW i \in DOMAIN queue, AdminRetry(i) \/ Backoff(i)
      PROVE  UNCHANGED <<batch, phase, reply>>
  BY <1>7 DEF AdminRetry, Backoff, workerVars
<1>8. CASE Approve \/ OtherCall \/ Report \/ Adjust \/ UNCHANGED deliveryVars
  BY <1>4, <1>8 DEF Approve, OtherCall, Report, Adjust, deliveryVars, workerVars
<1> QED
  BY <1>3, <1>4, <1>5, <1>6, <1>7, <1>8 DEF DeliveryNext, AnswerLookedAt

LEMMA FailedStaysOutOfReach ==
  ASSUME DeliveryInv, BudgetIsBound, FailedIsOutOfReach, NackMeansOutOfReach,
         [DeliveryNext]_deliveryVars
  PROVE  FailedIsOutOfReach'
<1> SUFFICES ASSUME Untouched(ByTheRule)', NEW r \in ReqIds,
                    State(r)' = HCM_FAILED
             PROVE  OutOfReach(r)'
  BY DEF FailedIsOutOfReach
<1>1. Untouched(ByTheRule) /\ ~Use("accepted") /\ (UNCHANGED hcmVars \/ NewDebit)
  BY RuleWas
<1>2. State(r) = HCM_FAILED \/ (r = req /\ phase = "posted" /\ reply = "permanent")
  BY StatesMove
<1>3. OutOfReach(r)
  BY <1>1, <1>2 DEF FailedIsOutOfReach, NackMeansOutOfReach
<1>4. r \in Filed
  <2>1. HCM_FAILED # None
    BY StatesAre
  <2>2. phase = "posted" => req \in Filed
    BY WorkerRow DEF DeliveryInv
  <2> QED
    BY <1>2, <2>1, <2>2 DEF State
<1> QED
  BY <1>1, <1>3, <1>4, OutOfReachStays

-----------------------------------------------------------------------------
(* The two guards *)

(* Nothing but the worker's own steps moves the row at hand.               *)
LEMMA RowAtHandStays ==
  ASSUME DeliveryInv, [DeliveryNext]_deliveryVars, phase # "idle", UNCHANGED batch
  PROVE  key' = key /\ amount' = amount
<1>1. row \in DOMAIN intents /\ row' = row /\ req \in Filed
  BY WorkerRow DEF DeliveryInv, row
<1>2. req' = req
  BY <1>1, HistoryGrows DEF req
<1>3. \A q \in Filed : SameDays(q)
  BY LocalStep, FiledGrows DEF DeliveryInv
<1>4. SameDays(req)
  BY <1>1, <1>3
<1> QED
  BY <1>2, <1>4 DEF SameDays, key, amount

LEMMA ReadStays ==
  ASSUME DeliveryInv, BudgetIsBound, ReadStaysTrue, [DeliveryNext]_deliveryVars
  PROVE  ReadStaysTrue'
<1> DEFINE kinds == {"adjust"} \cup ReadsTold
<1> SUFFICES ASSUME Untouched(kinds)'
             PROVE  /\ phase' = "read" => view' = hcm'[key']
                    /\ phase' = "posting" => hcm'[key'] >= amount'
  BY DEF ReadStaysTrue
<1>1. /\ Untouched(kinds)
      /\ ~Use("adjust") /\ ~Use("unread") /\ ~Use("misread")
  <2>1. kinds \in SUBSET Kinds
    BY DEF ReadsTold, Kinds
  <2>2. Untouched(kinds) /\ \A kind \in kinds : ~Use(kind)
    BY <2>1, UntouchedWas
  <2> QED
    BY <2>2 DEF ReadsTold
<1>2. /\ phase = "read" => view = hcm[key]
      /\ phase = "posting" => hcm[key] >= amount
  BY <1>1 DEF ReadStaysTrue
<1> HIDE DEF kinds
<1>3. CASE AnswerRead
  <2>1. phase' = "read" /\ view' = hcm[key] /\ hcm' = hcm /\ phase # "idle" /\ UNCHANGED batch
    BY <1>1, <1>3 DEF AnswerRead, hcmVars
  <2> QED
    BY <2>1, RowAtHandStays
<1>4. CASE Submit
  <2>1. /\ phase' = "posting" /\ hcm' = hcm /\ phase # "idle" /\ UNCHANGED batch
        /\ view = hcm[key] /\ (view # None => view >= amount)
    BY <1>2, <1>4 DEF Submit, hcmVars
  <2>2. view # None
    <3>1. hcm[key] \in Int
      BY <2>1, WorkerRow DEF DeliveryInv, DeliveryTypeOK
    <3> QED
      BY <2>1, <3>1, DeliveryAssumption
  <2> QED
    BY <2>1, <2>2, RowAtHandStays
<1>5. CASE AnswerPost
  BY <1>5 DEF AnswerPost
<1>6. CASE BailOut \/ Succeed \/ Fail \/ GiveUpForNow
  BY <1>6, EndsEffect DEF RowEnds
<1>7. CASE tick \/ Crash
  BY <1>7 DEF tick, Crash, StopWork
<1>8. CASE UNCHANGED <<batch, phase, view, hcm>>
  BY <1>2, <1>8, RowAtHandStays
<1>9. ASSUME NEW i \in DOMAIN queue, AdminRetry(i)
      PROVE  UNCHANGED <<batch, phase, view, hcm>> \/ phase' = "reading"
  BY <1>9 DEF AdminRetry, hcmVars
<1>10. ASSUME NEW i \in DOMAIN queue, Backoff(i)
       PROVE  UNCHANGED <<batch, phase, view, hcm>>
  BY <1>10 DEF Backoff, workerVars, hcmVars
<1>11. CASE Approve \/ OtherCall \/ Report \/ UNCHANGED deliveryVars
  BY <1>8, <1>11 DEF Approve, OtherCall, Report, deliveryVars, workerVars, hcmVars
<1>12. CASE Adjust
  BY <1>1, <1>12 DEF Adjust
<1> QED
  BY <1>3, <1>4, <1>5, <1>6, <1>7, <1>8, <1>9, <1>10, <1>11, <1>12
     DEF DeliveryNext, AnswerLookedAt

LEMMA StaysInTheBlack ==
  ASSUME DeliveryInv, BudgetIsBound, ReadStaysTrue, InTheBlack, [DeliveryNext]_deliveryVars
  PROVE  InTheBlack'
<1> SUFFICES ASSUME Untouched({"adjust"})',
                    Untouched(ReadsTold)' \/ Untouched({"accepted"})', NEW k \in Keys
             PROVE  hcm'[k] >= 0
  BY DEF InTheBlack
<1>1. Untouched({"adjust"}) /\ (UNCHANGED hcmVars \/ NewDebit)
  BY HcmMovesUntouched
<1>2. ReadsTold \in SUBSET Kinds /\ {"accepted"} \in SUBSET Kinds
  BY DEF ReadsTold, Kinds
<1>3. Untouched(ReadsTold) \/ (Untouched({"accepted"}) /\ ~Use("accepted"))
  BY <1>2, UntouchedWas
<1>4. hcm[k] >= 0
  BY <1>1, <1>3 DEF InTheBlack
<1>5. CASE UNCHANGED hcmVars
  BY <1>4, <1>5 DEF hcmVars
<1>6. CASE NewDebit
  <2>1. key \in Keys /\ amount \in Nat /\ hcm \in [Keys -> Int]
    BY <1>6, WorkerRow DEF NewDebit, DeliveryInv, DeliveryTypeOK
  <2>2. hcm[key] >= amount
    <3>1. CASE Untouched(ReadsTold)
      <4>1. Untouched({"adjust"} \cup ReadsTold)
        BY <1>1, <3>1 DEF Untouched
      <4> QED
        BY <1>6, <4>1 DEF ReadStaysTrue, NewDebit
    <3>2. CASE ~Use("accepted")
      BY <1>6, <3>2 DEF NewDebit
    <3> QED
      BY <1>3, <3>1, <3>2
  <2>3. hcm' = [hcm EXCEPT ![key] = hcm[key] - amount]
    BY <1>6 DEF NewDebit
  <2> QED
    BY <1>4, <2>1, <2>2, <2>3
<1> QED
  BY <1>1, <1>5, <1>6

-----------------------------------------------------------------------------
LEMMA DebitInitInv == DeliveryInit => DebitInv
<1> SUFFICES ASSUME DeliveryInit PROVE DebitInv
  OBVIOUS
<1>1. Filed = {} /\ applied = {} /\ left = Budget /\ hcm = Granted /\ phase = "idle"
  BY DEF DeliveryInit, Init, Filed
<1>2. FiledIsFinite
  BY <1>1, FS_EmptySet DEF FiledIsFinite
<1>3. BudgetIsBound
  BY <1>1, DeliveryAssumption DEF BudgetIsBound
<1>4. BooksBalance
  <2> SUFFICES ASSUME NEW k \in Keys PROVE hcm[k] + Taken(k) = Granted[k]
    BY DEF BooksBalance
  <2> DEFINE f == [r \in DebitedFor(k) |-> Thousandths(requests[r].days)]
  <2>1. DOMAIN f = {}
    BY <1>1 DEF DebitedFor
  <2> HIDE DEF f
  <2>2. SumFunction(f) = 0
    BY <2>1, SumEmpty DEF SumFunction
  <2>3. Taken(k) = 0
    BY <2>2 DEF Taken, Total, f
  <2> QED
    BY <1>1, <2>3, DeliveryAssumption
<1>5. FailedIsOutOfReach /\ NackMeansOutOfReach
  BY <1>1, StatesAre DEF FailedIsOutOfReach, NackMeansOutOfReach, State
<1>6. ReadStaysTrue /\ InTheBlack
  BY <1>1, DeliveryAssumption DEF ReadStaysTrue, InTheBlack
<1> QED
  BY <1>2, <1>3, <1>4, <1>5, <1>6 DEF DebitInv

LEMMA DebitNextInv ==
  DeliveryInv /\ DebitInv /\ [DeliveryNext]_deliveryVars => DebitInv'
<1> SUFFICES ASSUME DeliveryInv, DebitInv, [DeliveryNext]_deliveryVars PROVE DebitInv'
  OBVIOUS
<1>1. FiledIsFinite'
  BY LocalStep, FiledGrows, FiledStaysFinite DEF DeliveryInv, DebitInv
<1> QED
  BY <1>1, UntouchedBefore, BooksStayBalanced, FailedStaysOutOfReach, NackStaysTrue,
     ReadStays, StaysInTheBlack
     DEF DebitInv

(* The inductive invariant about the days in HCM.  Its books balance; by   *)
(* an HCM that refuses exactly what it lacks, a refusal told to the worker *)
(* or noted as HCM_FAILED is for good; and HCM stays out of the red by the *)
(* worker's GET before each POST alone, or by its refusals alone.          *)
THEOREM DebitInvHolds == DeliverySpec => []DebitInv
  BY DebitInitInv, DebitNextInv, DeliveryInvHolds, PTL DEF DeliverySpec

(* A request whose days were given back on a refusal is not debited, by no *)
(* retry, reset or second row, unless HR tops the balance up or HCM        *)
(* refuses what it could have debited or accepts what it should refuse.    *)
THEOREM FailedStaysUndebited == DeliverySpec => []FailedIsNotDebited
<1>1. DebitInv => FailedIsNotDebited
  BY DEF DebitInv, FailedIsOutOfReach, FailedIsNotDebited, ByTheRule, Untouched, OutOfReach
<1> QED
  BY <1>1, DebitInvHolds, PTL

(* Nobody is granted more days than HCM held: the days of CONSUMED         *)
(* requests have been debited, each once, and the balance of HCM is not    *)
(* below zero: because the worker posts no more than it has read, even if  *)
(* HCM accepts anything; or else because HCM does refuse.                  *)
THEOREM ConsumedStaysGranted == DeliverySpec => []ConsumedIsGranted
<1>1. ASSUME DeliveryInv, DebitInv PROVE ConsumedIsGranted
  <2> SUFFICES ASSUME left["adjust"] = Budget["adjust"],
                      \/ \A kind \in {"unread", "misread"} : left[kind] = Budget[kind]
                      \/ left["accepted"] = Budget["accepted"],
                      NEW k \in Keys
               PROVE  Total([r \in ConsumedFor(k) |-> Thousandths(requests[r].days)])
                        <= Granted[k]
    BY DEF ConsumedIsGranted
  <2> DEFINE f == [r \in ConsumedFor(k) |-> Thousandths(requests[r].days)]
             g == [r \in DebitedFor(k) |-> Thousandths(requests[r].days)]
  <2>1. ConsumedFor(k) \subseteq DebitedFor(k)
    BY <1>1 DEF ConsumedFor, DebitedFor, DeliveryInv, ConsumedMeansDebited, Filed
  <2>2. /\ IsFiniteSet(DOMAIN g) /\ DOMAIN f \subseteq DOMAIN g
        /\ \A x \in DOMAIN g : g[x] \in Nat
        /\ \A x \in DOMAIN f : f[x] = g[x]
    BY <1>1, <2>1, TakenIs DEF DebitInv, DebitedFor
  <2> HIDE DEF f, g
  <2>3. SumFunction(f) \in Int /\ SumFunction(g) \in Int /\ SumFunction(f) <= SumFunction(g)
    BY <2>2, PartSumsLess
  <2>4. Taken(k) = SumFunction(g)
    BY DEF Taken, Total, g
  <2>5. hcm[k] + Taken(k) = Granted[k]
    BY <1>1 DEF DebitInv, BooksBalance, Untouched
  <2>6. hcm[k] \in Int /\ hcm[k] >= 0 /\ Granted[k] \in Nat
    BY <1>1, DeliveryAssumption
       DEF DeliveryInv, DeliveryTypeOK, DebitInv, InTheBlack, ReadsTold, Untouched
  <2>7. SumFunction(f) <= Granted[k]
    BY <2>3, <2>4, <2>5, <2>6
  <2> QED
    BY <2>7 DEF Total, f
<1> QED
  BY <1>1, DebitInvHolds, DeliveryInvHolds, PTL

-----------------------------------------------------------------------------
(* What TimeOffProofs and LedgerProofs show of the tables holds with the   *)
(* worker and HCM at work, whose reports need not be among the Readings.   *)

THEOREM TablesStaySound ==
  DeliverySpec => [](ReservationFollowsState /\ OneExternalIdPerRequest /\ ApprovedIsSubmitted)
<1>1. DeliveryInv => ReservationFollowsState /\ OneExternalIdPerRequest /\ ApprovedIsSubmitted
  BY IInvGivesOneId, IInvGivesSubmitted DEF DeliveryInv, IInv
<1> QED
  BY <1>1, DeliveryInvHolds, PTL

(* No success, refusal, retry or crash of the worker takes a balance below *)
(* zero.                                                                   *)
THEOREM WorkerDoesNotOverdraw == DeliverySpec => OnlyReportsOverdraw
<1> DEFINE Stays == \A k \in Keys :
             balances[k] # None /\ balances'[k] = balances[k] /\ Effective(k) >= 0
               => Effective(k)' >= 0
<1>1. DeliveryInv /\ DebitInv /\ [DeliveryNext]_deliveryVars => [Stays]_vars
  BY LocalStep, StepStaysCovered DEF DeliveryInv, DebitInv
<1> QED
  BY <1>1, DeliveryInvHolds, DebitInvHolds, PTL DEF DeliverySpec, OnlyReportsOverdraw

-----------------------------------------------------------------------------
(* The contract of the outbox *)

LEMMA SameLibrary ==
  /\ \A S : Outbox!Cardinality(S) = Cardinality(S)
  /\ \A S : Outbox!Min(S) = Min(S)
<1>1. \A S : Outbox!Cardinality(S) = Cardinality(S)
  BY Zenon DEF Outbox!Cardinality, Cardinality
<1>2. \A S : Outbox!Min(S) = Min(S)
  BY Zenon DEF Outbox!Min, Min
<1> QED
  BY <1>1, <1>2

LEMMA SameStatements ==
  /\ Outbox!NewRow = NewRow
  /\ \A q, i : Outbox!Done(q, i) = Done(q, i)
  /\ \A q, i : Outbox!Retry(q, i) = Retry(q, i)
  /\ \A q, i : Outbox!Reset(q, i) = Reset(q, i)
  /\ \A q, i : Outbox!FallDue(q, i) = FallDue(q, i)
  /\ \A q : Outbox!DueRows(q) = DueRows(q) /\ Outbox!Waiting(q) = Waiting(q)
  /\ \A q : Outbox!NextBatch(q) = NextBatch(q) /\ Outbox!Claim(q) = Claim(q)
<1>1. Outbox!NewRow = NewRow
  BY DEF Outbox!NewRow, NewRow
<1>2. \A q, i : Outbox!Done(q, i) = Done(q, i)
  BY DEF Outbox!Done, Done
<1>3. \A q, i : Outbox!Retry(q, i) = Retry(q, i)
  BY Zenon DEF Outbox!Retry, Retry
<1>4. \A q, i : Outbox!Reset(q, i) = Reset(q, i)
  BY <1>1 DEF Outbox!Reset, Reset
<1>5. \A q, i : Outbox!FallDue(q, i) = FallDue(q, i)
  BY DEF Outbox!FallDue, FallDue
<1>6. \A q : Outbox!DueRows(q) = DueRows(q) /\ Outbox!Waiting(q) = Waiting(q)
  BY Zenon DEF Outbox!DueRows, DueRows, Outbox!Waiting, Waiting
<1>7. \A q : Outbox!NextBatch(q) = NextBatch(q)
  <2> SUFFICES ASSUME NEW q PROVE Outbox!NextBatch(q) = NextBatch(q)
    OBVIOUS
  <2> DEFINE Oldest(S) == {i \in S : Cardinality({j \in S : j < i}) < BatchSize}
  <2>1. NextBatch(q) = Oldest(DueRows(q))
    BY Zenon DEF NextBatch
  <2>2. Outbox!NextBatch(q) = Oldest(Outbox!DueRows(q))
    BY SameLibrary, Zenon DEF Outbox!NextBatch
  <2>3. Outbox!DueRows(q) = DueRows(q)
    BY <1>6
  <2> HIDE DEF Oldest
  <2> QED
    BY <2>1, <2>2, <2>3, Zenon
<1>8. \A q : Outbox!Claim(q) = Claim(q)
  BY <1>7, Zenon DEF Outbox!Claim, Claim
<1> QED
  BY <1>1, <1>2, <1>3, <1>4, <1>5, <1>6, <1>7, <1>8

LEMMA OtherBudget ==
  ASSUME left \in [Kinds -> Nat], NEW kind \in Kinds \ {"reset"}, Use(kind)
  PROVE  left'["reset"] = left["reset"]
  BY DEF Use, Kinds

(* A row is finished, tried again, or left behind with the rest.           *)
LEMMA EndIsAnswer ==
  ASSUME DeliveryInv, BailOut \/ Succeed \/ Fail \/ GiveUpForNow
  PROVE  Outbox!Work \/ Outbox!Abandon
<1>t. /\ phase # "idle" /\ batch # {} /\ row \in batch /\ row = Outbox!Min(batch)
      /\ left \in [Kinds -> Nat]
  <2>1. phase # "idle"
    BY DEF BailOut, Succeed, Fail, GiveUpForNow
  <2> QED
    BY <2>1, WorkerRow, SameLibrary DEF DeliveryInv, DeliveryTypeOK, row
<1>1. ASSUME FinishRow PROVE Outbox!MarkDone(row) \/ Outbox!Abandon
  <2>1. CASE queue' = Done(queue, row) /\ NextRow /\ UNCHANGED left
    BY <1>t, <2>1, SameStatements DEF NextRow, Outbox!MarkDone, Outbox!Answer
  <2>2. CASE Use("crash") /\ StopWork /\ UNCHANGED queue
    <3>1. left'["reset"] = left["reset"]
      BY <1>t, <2>2, OtherBudget DEF Kinds
    <3> QED
      BY <1>t, <2>2, <3>1 DEF StopWork, Outbox!Abandon
  <2> QED
    BY <1>1, <2>1, <2>2 DEF FinishRow
<1>2. ASSUME RetryRow PROVE Outbox!ScheduleRetry(row)
  BY <1>t, <1>2, SameStatements DEF RetryRow, NextRow, Outbox!ScheduleRetry, Outbox!Answer
<1>3. ASSUME queue' = Done(queue, row), StopWork, UNCHANGED left
      PROVE  Outbox!Abandon
  BY <1>t, <1>3, SameStatements DEF StopWork, Outbox!Abandon
<1> QED
  BY <1>t, <1>1, <1>2, <1>3 DEF BailOut, Succeed, Fail, GiveUpForNow, Outbox!Work

LEMMA StepImplementsOutbox ==
  ASSUME DeliveryInv, [DeliveryNext]_deliveryVars
  PROVE  [Outbox!OutboxNext]_(Outbox!outboxVars)
<1>t. /\ queue \in Seq(Row) /\ Len(queue) = Len(intents) /\ left \in [Kinds -> Nat]
      /\ (phase = "idle") = (batch = {})
      /\ Budget["reset"] \in Nat
  BY DeliveryAssumption DEF DeliveryInv, DeliveryTypeOK, Kinds
<1>s. ASSUME UNCHANGED <<queue, batch>>, left'["reset"] = left["reset"]
      PROVE  UNCHANGED Outbox!outboxVars
  BY <1>s DEF Outbox!outboxVars
<1>1. CASE Approve
  <2>1. Len(queue) < MaxApprovals
    BY <1>1, <1>t DEF Approve, ApproveStep, approve
  <2>2. Outbox!Enqueue
    BY <1>1, <2>1, SameStatements DEF Approve, workerVars, Outbox!Enqueue
  <2> QED
    BY <2>2 DEF Outbox!OutboxNext, Outbox!ServingNext
<1>2. CASE tick
  <2>1. Outbox!ClaimDue
    BY <1>2, <1>t, SameStatements DEF tick, Outbox!ClaimDue
  <2> QED
    BY <2>1 DEF Outbox!OutboxNext, Outbox!ServingNext
<1>3. CASE BailOut \/ Succeed \/ Fail \/ GiveUpForNow
  BY <1>3, EndIsAnswer DEF Outbox!OutboxNext, Outbox!ServingNext
<1>4. CASE Crash
  <2>1. left'["reset"] = left["reset"]
    BY <1>4, <1>t, OtherBudget DEF Crash, Kinds
  <2>2. Outbox!Abandon
    BY <1>4, <1>t, <2>1 DEF Crash, StopWork, Outbox!Abandon
  <2> QED
    BY <2>2 DEF Outbox!OutboxNext
<1>5. ASSUME NEW i \in DOMAIN queue, AdminRetry(i)
      PROVE  Outbox!AdminRetry(i)
  <2>1. /\ left["reset"] \in Nat /\ left["reset"] > 0
        /\ left'["reset"] = left["reset"] - 1
    BY <1>5, <1>t DEF AdminRetry, Use, Kinds
  <2>2. /\ Budget["reset"] - left["reset"] < Budget["reset"]
        /\ Budget["reset"] - left'["reset"] = Budget["reset"] - left["reset"] + 1
    BY <1>t, <2>1
  <2>3. \/ batch = {} /\ batch' = NextBatch(Reset(queue, i)) /\ queue' = Claim(Reset(queue, i))
        \/ queue' = Reset(queue, i) /\ UNCHANGED batch
    BY <1>5, <1>t DEF AdminRetry
  <2> QED
    BY <2>2, <2>3, SameStatements DEF Outbox!AdminRetry
<1>6. ASSUME NEW i \in DOMAIN queue, Backoff(i)
      PROVE  Outbox!Backoff(i)
  BY <1>6, SameStatements DEF Backoff, workerVars, Outbox!Backoff
<1>7. CASE OtherCall \/ Submit
  BY <1>7, <1>s DEF OtherCall, Submit, workerVars
<1>8. CASE AnswerRead
  <2>1. left'["reset"] = left["reset"]
    BY <1>8, <1>t, OtherBudget DEF AnswerRead, Kinds
  <2> QED
    BY <1>8, <1>s, <2>1 DEF AnswerRead
<1>9. CASE AnswerPost
  <2>1. left'["reset"] = left["reset"]
    BY <1>9, <1>t, OtherBudget DEF AnswerPost, Kinds
  <2> QED
    BY <1>9, <1>s, <2>1 DEF AnswerPost
<1>10. CASE Report \/ Adjust
  <2>1. left'["reset"] = left["reset"]
    BY <1>10, <1>t, OtherBudget DEF Report, Adjust, Kinds
  <2> QED
    BY <1>10, <1>s, <2>1 DEF Report, Adjust, workerVars
<1>11. CASE UNCHANGED deliveryVars
  BY <1>11, <1>s DEF deliveryVars, workerVars
<1> QED
  BY <1>1, <1>2, <1>3, <1>4, <1>5, <1>6, <1>7, <1>8, <1>9, <1>10, <1>11
     DEF DeliveryNext, AnswerLookedAt, Outbox!OutboxNext, Outbox!ServingNext

LEMMA InitImplementsOutbox == DeliveryInit => Outbox!OutboxInit
<1>1. Budget["reset"] \in Nat
  BY DeliveryAssumption DEF Kinds
<1> QED
  BY <1>1 DEF DeliveryInit, Outbox!OutboxInit

(* The worker with its two awaits, its error paths and its crashes, next   *)
(* to users, admins and HCM, does to the table nothing but what HcmOutbox  *)
(* allows, so what HcmOutboxProofs shows of the table holds here.          *)
THEOREM WorkerKeepsContract == DeliverySpec => ImplementsOutbox
<1>1. DeliveryInv /\ [DeliveryNext]_deliveryVars => [Outbox!OutboxNext]_(Outbox!outboxVars)
  BY StepImplementsOutbox
<1> QED
  BY <1>1, InitImplementsOutbox, DeliveryInvHolds, PTL
     DEF DeliverySpec, ImplementsOutbox, Outbox!OutboxSpec
-----------------------------------------------------------------------------
(* The theorems about the contract, for the table the worker works on.     *)
Contract == INSTANCE HcmOutboxProofs WITH
  MaxRows   <- MaxApprovals,
  MaxResets <- Budget["reset"],
  resets    <- Budget["reset"] - left["reset"]

LEMMA SameContract == Outbox!OutboxNext => Contract!OutboxNext
<1>1. \A S : Outbox!Cardinality(S) = Contract!Cardinality(S) /\ Outbox!Min(S) = Contract!Min(S)
  BY Zenon DEF Outbox!Cardinality, Contract!Cardinality, Outbox!Min, Contract!Min
<1>2. \A q : Outbox!NextBatch(q) = Contract!NextBatch(q)
  <2>1. \A q : Outbox!DueRows(q) = Contract!DueRows(q)
    BY Zenon DEF Outbox!DueRows, Contract!DueRows
  <2> QED
    BY <1>1, <2>1, Zenon DEF Outbox!NextBatch, Contract!NextBatch
<1> QED
  BY <1>1, <1>2, Zenon
     DEF Outbox!OutboxNext, Contract!OutboxNext, Outbox!ServingNext, Contract!ServingNext,
         Outbox!Enqueue, Contract!Enqueue, Outbox!ClaimDue, Contract!ClaimDue,
         Outbox!Work, Contract!Work, Outbox!Answer, Contract!Answer,
         Outbox!MarkDone, Contract!MarkDone, Outbox!ScheduleRetry, Contract!ScheduleRetry,
         Outbox!Abandon, Contract!Abandon, Outbox!AdminRetry, Contract!AdminRetry,
         Outbox!Backoff, Contract!Backoff, Outbox!NewRow, Contract!NewRow,
         Outbox!Done, Contract!Done, Outbox!Retry, Contract!Retry,
         Outbox!Reset, Contract!Reset, Outbox!FallDue, Contract!FallDue,
         Outbox!DueRows, Contract!DueRows, Outbox!Waiting, Contract!Waiting,
         Outbox!Claim, Contract!Claim

LEMMA DeliveryIsContract == DeliverySpec => Contract!OutboxSpec
<1>1. Outbox!OutboxInit => Contract!OutboxInit
  BY DEF Outbox!OutboxInit, Contract!OutboxInit
<1>2. [Outbox!OutboxNext]_(Outbox!outboxVars) => [Contract!OutboxNext]_(Contract!outboxVars)
  BY SameContract DEF Outbox!outboxVars, Contract!outboxVars
<1> QED
  BY <1>1, <1>2, WorkerKeepsContract, PTL
     DEF ImplementsOutbox, Outbox!OutboxSpec, Contract!OutboxSpec

LEMMA ContractAssumptions ==
  /\ BatchSize \in Nat \ {0} /\ MaxAttempts \in Nat \ {0}
  /\ MaxApprovals \in Nat /\ Budget["reset"] \in Nat
  BY OutboxAssumption, BoundAssumption, DeliveryAssumption DEF Kinds

(* With the worker at work, crashes and admin resets between its awaits    *)
(* included, a row is DEAD exactly when its attempts are used up and what  *)
(* the worker holds is INFLIGHT or as new.                                 *)
THEOREM WorkerRowsDieExhausted ==
  DeliverySpec => [](Outbox!DeadIffExhausted /\ Outbox!HeldIsLive)
<1>1. Contract!OutboxSpec => []Contract!DeadIffExhausted
  BY ContractAssumptions, Contract!RowsDieExhausted
<1>2. Contract!OutboxSpec => []Contract!HeldIsLive
  BY ContractAssumptions, Contract!HeldRowsAreLive
<1>3. Contract!DeadIffExhausted => Outbox!DeadIffExhausted
  BY DEF Contract!DeadIffExhausted, Outbox!DeadIffExhausted
<1>4. Contract!HeldIsLive => Outbox!HeldIsLive
  BY DEF Contract!HeldIsLive, Outbox!HeldIsLive, Contract!NewRow, Outbox!NewRow
<1> QED
  BY <1>1, <1>2, <1>3, <1>4, DeliveryIsContract, PTL

(* The worker takes the oldest due rows first, and never more than a batch.*)
THEOREM WorkerClaimsOldestFirst == DeliverySpec => Outbox!OldestFirst
<1> DEFINE Theirs ==
      batch = {} => /\ Contract!Cardinality(batch') <= BatchSize
                    /\ \A i \in batch', j \in Contract!DueRows(queue) : j < i => j \in batch'
           Ours ==
      batch = {} => /\ Outbox!Cardinality(batch') <= BatchSize
                    /\ \A i \in batch', j \in Outbox!DueRows(queue) : j < i => j \in batch'
<1>1. Contract!OutboxSpec => [][Theirs]_(Contract!outboxVars)
  BY ContractAssumptions, Contract!ClaimsOldestFirst DEF Contract!OldestFirst
<1>2. [Theirs]_(Contract!outboxVars) => [Ours]_(Outbox!outboxVars)
  <2>1. \A S : Outbox!Cardinality(S) = Contract!Cardinality(S)
    BY Zenon DEF Outbox!Cardinality, Contract!Cardinality
  <2>2. \A q : Outbox!DueRows(q) = Contract!DueRows(q)
    BY Zenon DEF Outbox!DueRows, Contract!DueRows
  <2> QED
    BY <2>1, <2>2 DEF Contract!outboxVars, Outbox!outboxVars
<1> QED
  BY <1>1, <1>2, DeliveryIsContract, PTL DEF Outbox!OldestFirst
=============================================================================
