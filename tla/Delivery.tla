------------------------------ MODULE Delivery ------------------------------
(***************************************************************************)
(* The request lifecycle (TimeOff), the outbox table (OutboxQueue), the    *)
(* worker that drains it and HCM at the other end of two HTTP calls.       *)
(*                                                                         *)
(* The worker is asynchronous code on one JavaScript thread: it gives the  *)
(* thread away only while a call to HCM is under way.  What it does from   *)
(* an answer to the next call, several transactions at times, nothing      *)
(* interleaves with; but the process may die between two of them.  The     *)
(* tables survive; the batch and the answers are in memory and do not.     *)
(***************************************************************************)
EXTENDS TimeOff, OutboxQueue

CONSTANTS
  Granted,  \* what HCM holds for every key at first, in thousandths of a day
  Budget    \* bound: how often each kind of event outside the code happens

Kinds == {"crash",      \* the process dies and starts again
          "unread",     \* a GET fails: network, 5xx or 4xx alike
          "misread",    \* a GET returns a balance HCM does not hold
          "lost",       \* a POST fails before HCM acts on it: 5xx or network
          "unanswered", \* HCM acts on a POST and the answer is a failure
          "refused",    \* HCM turns a POST down for a reason of its own: 4xx
          "accepted",   \* HCM makes a debit it does not have the days for
          "report",     \* HCM pushes its balance of a key
          "adjust",     \* HR changes a balance in HCM
          "reset"}      \* an admin calls the retry endpoint

ASSUME DeliveryAssumption == /\ Granted \in [Keys -> Nat]
                             /\ Budget \in [Kinds -> Nat]
                             /\ None \notin Int

VARIABLES
  queue,    \* the mutable columns of hcm_outbox; intents has the others
  batch,    \* the claimed rows the worker has not finished with
  phase,    \* where the worker is in _handleRow, idle while not _draining
  view,     \* the balance the last GET returned, None if it failed
  reply,    \* what the last POST returned or threw
  hcm,      \* the balances of HCM
  applied,  \* the debits HCM has made, by external id, with their request
  left      \* what is left of Budget

workerVars   == <<batch, phase, view, reply>>
hcmVars      == <<hcm, applied>>
deliveryVars == <<vars, queue, workerVars, hcmVars, left>>

Phases  == {"idle", "reading", "read", "posting", "posted"}
Answers == {"ok", "permanent", "transient"}
Debit   == [ext : Nat \ {0}, req : ReqIds]

DeliveryTypeOK ==
  /\ TypeOK
  /\ queue \in Seq(Row) /\ Len(queue) = Len(intents)
  /\ batch \subseteq DOMAIN queue
  /\ phase \in Phases
  /\ (phase = "idle") = (batch = {})
  /\ view \in {None} \cup Int
  /\ reply \in {None} \cup Answers
  /\ hcm \in [Keys -> Int]
  /\ applied \subseteq Debit
  /\ left \in [Kinds -> Nat]

DeliveryInit ==
  /\ Init
  /\ queue = <<>>
  /\ batch = {} /\ phase = "idle" /\ view = None /\ reply = None
  /\ hcm = Granted /\ applied = {}
  /\ left = Budget

Use(kind) == left[kind] > 0 /\ left' = [left EXCEPT ![kind] = @ - 1]

-----------------------------------------------------------------------------
(* The worker *)

row     == Min(batch)
req     == intents[row].req
key     == requests[req].key
amount  == Thousandths(requests[req].days)

(* Mutant: tick without the _draining flag.                                *)
tickAnytime ==
  /\ DueRows(queue) # {}
  /\ queue' = Claim(queue)
  /\ batch' = NextBatch(queue)
  /\ phase' = "reading"
  /\ UNCHANGED <<vars, view, reply, hcmVars, left>>

(* tick, unless _draining; claimDue answers with no row when none is due.  *)
tick ==
  /\ phase = "idle"
  /\ DueRows(queue) # {}
  /\ queue' = Claim(queue)
  /\ batch' = NextBatch(queue)
  /\ phase' = "reading"
  /\ UNCHANGED <<vars, view, reply, hcmVars, left>>

(* The tick ends: after its last row, on an error, or with the process.    *)
StopWork == batch' = {} /\ phase' = "idle" /\ view' = None /\ reply' = None

NextRow ==
  /\ batch' = batch \ {row}
  /\ phase' = IF batch' = {} THEN "idle" ELSE "reading"
  /\ view' = None /\ reply' = None

(* markDone in a statement of its own, after the transaction that moved    *)
(* the request: the process may die in between.                            *)
FinishRow ==
  \/ /\ queue' = Done(queue, row)
     /\ NextRow
     /\ UNCHANGED left
  \/ /\ Use("crash")
     /\ StopWork
     /\ UNCHANGED queue

RetryRow == /\ queue' = Retry(queue, row)
            /\ NextRow
            /\ UNCHANGED <<vars, left>>

(* Mutant: a balance that is too low counts as a transient failure.        *)
BailOutForNow ==
  /\ phase = "read"
  /\ view # None /\ view < amount
  /\ RetryRow
  /\ UNCHANGED hcmVars

(* The realtime balance is known and too low: the request goes to review   *)
(* and the row is done, unless the request is in no state to go there; the *)
(* error that throws is taken for a transient one.                         *)
BailOut ==
  /\ phase = "read"
  /\ view # None /\ view < amount
  /\ \/ markReviewRequired(req) /\ FinishRow
     \/ ~Accepts(req, REVIEW_REQUIRED) /\ RetryRow
  /\ UNCHANGED hcmVars

(* Mutant: the POST is made whatever the balance, and HCM is to refuse it. *)
SubmitUnchecked ==
  /\ phase = "read"
  /\ phase' = "posting"
  /\ view' = None
  /\ UNCHANGED <<vars, queue, batch, reply, hcmVars, left>>

Submit ==
  /\ phase = "read"
  /\ view # None => view >= amount
  /\ phase' = "posting"
  /\ view' = None
  /\ UNCHANGED <<vars, queue, batch, reply, hcmVars, left>>

(* Mutant: consumeBalance does not throw for a 4xx answer.                 *)
SucceedAnyhow ==
  /\ phase = "posted" /\ reply # "transient"
  /\ \/ markConsumed(req) /\ FinishRow
     \/ ~Accepts(req, CONSUMED) /\ RetryRow
  /\ UNCHANGED hcmVars

(* consumeBalance returned.  If the request is in no state to become       *)
(* CONSUMED by now, markConsumed throws and the row is tried again.        *)
Succeed ==
  /\ phase = "posted" /\ reply = "ok"
  /\ \/ markConsumed(req) /\ FinishRow
     \/ ~Accepts(req, CONSUMED) /\ RetryRow
  /\ UNCHANGED hcmVars

(* Mutant: a row whose request cannot go to HCM_FAILED is left claimed.    *)
FailUnfinished ==
  /\ phase = "posted" /\ reply = "permanent"
  /\ \/ markHcmFailed(req) /\ FinishRow
     \/ /\ ~Accepts(req, HCM_FAILED)
        /\ StopWork
        /\ UNCHANGED <<vars, queue, left>>
  /\ UNCHANGED hcmVars

(* Mutant: every failed answer is taken for an HcmPermanentError.          *)
FailOnAnyError ==
  /\ phase = "posted" /\ reply # "ok"
  /\ \/ markHcmFailed(req) /\ FinishRow
     \/ /\ ~Accepts(req, HCM_FAILED)
        /\ queue' = Done(queue, row)
        /\ StopWork
        /\ UNCHANGED <<vars, left>>
  /\ UNCHANGED hcmVars

(* HcmPermanentError.  markDone is in a finally clause: when markHcmFailed *)
(* throws the row is done and the error ends the tick, with the rest of    *)
(* the batch claimed.                                                      *)
Fail ==
  /\ phase = "posted" /\ reply = "permanent"
  /\ \/ markHcmFailed(req) /\ FinishRow
     \/ /\ ~Accepts(req, HCM_FAILED)
        /\ queue' = Done(queue, row)
        /\ StopWork
        /\ UNCHANGED <<vars, left>>
  /\ UNCHANGED hcmVars

(* Mutant: markDone after every failure.                                   *)
GiveUpForGood ==
  /\ phase = "posted" /\ reply = "transient"
  /\ FinishRow
  /\ UNCHANGED <<vars, hcmVars>>

GiveUpForNow ==
  /\ phase = "posted" /\ reply = "transient"
  /\ RetryRow
  /\ UNCHANGED hcmVars

Crash ==
  /\ phase # "idle"
  /\ Use("crash")
  /\ StopWork
  /\ UNCHANGED <<vars, queue, hcmVars>>

(* resetToPending whatever the status of the row, then a tick.  A crash    *)
(* between the two leaves the row to the timer; an idle worker has nothing *)
(* else to lose, so that crash is not counted.                             *)
AdminRetry(i) ==
  /\ Use("reset")
  /\ \/ /\ phase = "idle"
        /\ queue' = Claim(Reset(queue, i))
        /\ batch' = NextBatch(Reset(queue, i))
        /\ phase' = "reading"
     \/ /\ phase # "idle" \/ left["crash"] > 0
        /\ queue' = Reset(queue, i)
        /\ UNCHANGED <<batch, phase>>
  /\ UNCHANGED <<vars, view, reply, hcmVars>>

(* The clock reaches the next_attempt_at of a row.                         *)
Backoff(i) ==
  /\ i \in Waiting(queue)
  /\ queue' = FallDue(queue, i)
  /\ UNCHANGED <<vars, workerVars, hcmVars, left>>

-----------------------------------------------------------------------------
(* HCM *)

AnswerRead ==
  /\ phase = "reading"
  /\ phase' = "read"
  /\ \/ view' = hcm[key] /\ UNCHANGED left
     \/ view' = None /\ Use("unread")
     \/ view' \in Readings /\ Use("misread")
  /\ UNCHANGED <<vars, queue, batch, reply, hcmVars>>

Known(ext) == \E debit \in applied : debit.ext = ext

TakeDays ==
  /\ hcm' = [hcm EXCEPT ![key] = @ - amount]
  /\ applied' = applied \cup {[ext |-> intents[row].ext, req |-> req]}

(* A POST that HCM has seen is acknowledged again and changes nothing.     *)
Debits ==
  IF Known(intents[row].ext) THEN UNCHANGED hcmVars
                             ELSE hcm[key] >= amount /\ TakeDays

(* HCM should refuse what it does not have the days for, but may not: then *)
(* the balance goes below zero.                                            *)
Overdraws == ~Known(intents[row].ext) /\ hcm[key] < amount /\ TakeDays

AnswerPost ==
  /\ phase = "posting"
  /\ phase' = "posted"
  /\ \/ Debits /\ reply' = "ok" /\ UNCHANGED left
     \/ Debits /\ reply' = "transient" /\ Use("unanswered")
     \/ Overdraws /\ reply' \in {"ok", "transient"} /\ Use("accepted")
     \/ /\ ~Known(intents[row].ext) /\ hcm[key] < amount
        /\ reply' = "permanent"
        /\ UNCHANGED <<hcmVars, left>>
     \/ UNCHANGED hcmVars /\ reply' = "transient" /\ Use("lost")
     \/ UNCHANGED hcmVars /\ reply' = "permanent" /\ Use("refused")
  /\ UNCHANGED <<vars, queue, batch, view>>

(* A signed webhook with the balance HCM has at this moment.               *)
Report ==
  /\ \E k \in Keys, t \in AsOfs : applyHcmBalanceSnapshot(k, hcm[k], t)
  /\ Use("report")
  /\ UNCHANGED <<queue, workerVars, hcmVars>>

Adjust ==
  /\ \E k \in Keys, b \in Readings \cap Nat :
       b # hcm[k] /\ hcm' = [hcm EXCEPT ![k] = b]
  /\ Use("adjust")
  /\ UNCHANGED <<vars, queue, workerVars, applied>>

-----------------------------------------------------------------------------
Approve == /\ ApproveStep
           /\ queue' = Append(queue, NewRow)
           /\ UNCHANGED <<workerVars, hcmVars, left>>

OtherCall == /\ UserStep
             /\ UNCHANGED <<queue, workerVars, hcmVars, left>>

AnswerLookedAt == BailOut \/ Submit \/ Succeed \/ Fail \/ GiveUpForNow

DeliveryNext ==
  \/ Approve \/ OtherCall
  \/ tick \/ AnswerLookedAt \/ Crash
  \/ \E i \in DOMAIN queue : AdminRetry(i) \/ Backoff(i)
  \/ AnswerRead \/ AnswerPost \/ Report \/ Adjust

DeliverySpec == DeliveryInit /\ [][DeliveryNext]_deliveryVars

(* The interval timer ticks for ever, fetch settles every call with an     *)
(* answer or an error, the event loop runs what waits for it, and time     *)
(* passes.  Nobody has to file, approve, cancel, report or adjust.         *)
FairDeliverySpec ==
  /\ DeliverySpec
  /\ WF_deliveryVars(tick)
  /\ WF_deliveryVars(AnswerRead \/ AnswerPost)
  /\ WF_deliveryVars(AnswerLookedAt)
  /\ \A i \in 1..MaxApprovals : WF_deliveryVars(i \in DOMAIN queue /\ Backoff(i))

-----------------------------------------------------------------------------
(* Properties *)

Debited(r) == \E debit \in applied : debit.req = r

(* HCM is debited at most once for a request, whatever is retried, reset,  *)
(* answered late or approved again: every attempt carries the same id.     *)
DebitedOnce == \A p, q \in applied : p.req = q.req => p = q

(* A request is CONSUMED only after HCM has made its debit.                *)
ConsumedMeansDebited == \A r \in ReqIds : State(r) = CONSUMED => Debited(r)

(* While a request is APPROVED some row of it is still to be worked on or  *)
(* waits for an admin: no error path and no crash closes its last row.     *)
ApprovedIsInOutbox ==
  \A r \in ReqIds : State(r) = APPROVED =>
    \E i \in DOMAIN queue : intents[i].req = r /\ queue[i].status # "DONE"

(* As long as HCM refuses a debit exactly when the days are not there, and *)
(* HR adds none, a request that failed, whose days are given back, has not *)
(* been debited and will not be: not by a late answer, a retry, a reset or *)
(* another row of its own.  An HCM that refuses the days once and gives    *)
(* them later, in the red, is outside the premise.                         *)
FailedIsNotDebited ==
  (\A kind \in {"refused", "accepted", "adjust"} : left[kind] = Budget[kind]) =>
    \A r \in ReqIds : State(r) = HCM_FAILED => ~Debited(r)

(* As long as HR changes nothing, the days of the CONSUMED requests of a   *)
(* key are never more than HCM held at first, however stale the balances   *)
(* were that filings and approvals went by.  It takes only one of two      *)
(* guards: the worker's own, that no POST is made for more than the GET    *)
(* before it returned, as long as every GET tells the balance, whatever    *)
(* HCM accepts; or HCM's, that it refuses what it does not have, whatever  *)
(* the GETs tell.                                                          *)
ConsumedFor(k) == {r \in Filed : requests[r].key = k /\ State(r) = CONSUMED}

ConsumedIsGranted ==
  /\ left["adjust"] = Budget["adjust"]
  /\ \/ \A kind \in {"unread", "misread"} : left[kind] = Budget[kind]
     \/ left["accepted"] = Budget["accepted"]
  => \A k \in Keys :
       Total([r \in ConsumedFor(k) |-> Thousandths(requests[r].days)]) <= Granted[k]

(* The worker and the tables together keep the contract of the outbox.     *)
Outbox == INSTANCE HcmOutbox WITH
  MaxRows   <- MaxApprovals,
  MaxResets <- Budget["reset"],
  resets    <- Budget["reset"] - left["reset"]

ImplementsOutbox == Outbox!OutboxSpec

(* A worker that does not die and takes one row at a time serves all rows, *)
(* those of requests that were cancelled or paused meanwhile included.     *)
OutboxIsServed == Outbox!EveryRowIsServed

(* An approved request does not stay so for ever: HCM's word on it, a      *)
(* review or a cancellation ends it.                                       *)
ApprovedIsSettled == \A r \in ReqIds : State(r) = APPROVED ~> State(r) # APPROVED

(* The days of a cancelled request are not taken from HCM afterwards.      *)
CancelledIsNotDebited ==
  [][\A r \in ReqIds : State(r) = CANCELLED => Debited(r)' = Debited(r)]_deliveryVars

(* The retry of a debit HCM has made already ends like the debit itself.   *)
DebitedIsNotReviewed == \A r \in ReqIds : Debited(r) => State(r) # REVIEW_REQUIRED

(* As long as HCM is debited only for requests that are on their way or    *)
(* CONSUMED, and HR takes nothing away, the days that are set aside and    *)
(* not debited yet are there in HCM.                                       *)
PromisedIsCovered ==
  (\A r \in ReqIds : Debited(r) => State(r) \in {APPROVED, CONSUMED}) =>
    \A k \in Keys :
      Total([r \in {q \in OpenFor(k) : ~Debited(q)} |-> Thousandths(requests[r].days)])
        <= hcm[k]
=============================================================================
