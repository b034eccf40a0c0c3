------------------------ MODULE ReconciliationProofs ------------------------
(***************************************************************************)
(* Theorems about Reconciliation, for any reports, batches and scans.      *)
(***************************************************************************)
EXTENDS Reconciliation, LedgerProofs

USE NoneAssumption

-----------------------------------------------------------------------------
(* The two copies of TimeOff differ in Escalated only.                     *)
LEMMA SameSums == \A f : Coarse!Total(f) = Total(f)
  BY Zenon DEF Coarse!Total, Total, Coarse!SumFunction, SumFunction,
     Coarse!SumFunctionOnSet, SumFunctionOnSet, Coarse!FoldFunctionOnSet, FoldFunctionOnSet,
     Coarse!MapThenFoldSet, MapThenFoldSet

LEMMA SameStates ==
  /\ Coarse!PENDING = PENDING /\ Coarse!APPROVED = APPROVED /\ Coarse!REJECTED = REJECTED
  /\ Coarse!CANCELLED = CANCELLED /\ Coarse!CONSUMED = CONSUMED
  /\ Coarse!HCM_FAILED = HCM_FAILED /\ Coarse!REVIEW_REQUIRED = REVIEW_REQUIRED
  /\ Coarse!Transitions = Transitions
  /\ \A s, t : Coarse!CanTransition(s, t) <=> CanTransition(s, t)
<1>1. /\ Coarse!PENDING = PENDING /\ Coarse!APPROVED = APPROVED /\ Coarse!REJECTED = REJECTED
      /\ Coarse!CANCELLED = CANCELLED /\ Coarse!CONSUMED = CONSUMED
      /\ Coarse!HCM_FAILED = HCM_FAILED /\ Coarse!REVIEW_REQUIRED = REVIEW_REQUIRED
  BY DEF Coarse!PENDING, PENDING, Coarse!APPROVED, APPROVED, Coarse!REJECTED, REJECTED,
         Coarse!CANCELLED, CANCELLED, Coarse!CONSUMED, CONSUMED, Coarse!HCM_FAILED, HCM_FAILED,
         Coarse!REVIEW_REQUIRED, REVIEW_REQUIRED
<1>2. Coarse!States = States
  BY <1>1, Zenon DEF Coarse!States, States
<1>3. Coarse!Transitions = Transitions
  BY DEF Coarse!Transitions, Transitions, Coarse!States, States,
         Coarse!PENDING, PENDING, Coarse!APPROVED, APPROVED, Coarse!REJECTED, REJECTED,
         Coarse!CANCELLED, CANCELLED, Coarse!CONSUMED, CONSUMED, Coarse!HCM_FAILED, HCM_FAILED,
         Coarse!REVIEW_REQUIRED, REVIEW_REQUIRED
<1>4. \A s, t : Coarse!CanTransition(s, t) <=> CanTransition(s, t)
  BY <1>3 DEF Coarse!CanTransition, CanTransition
<1> QED
  BY <1>1, <1>3, <1>4

LEMMA SameReads ==
  /\ Coarse!Keys = Keys /\ Coarse!Filed = Filed
  /\ \A k : Coarse!Reserved(k) = Reserved(k) /\ Coarse!Effective(k) = Effective(k)
  /\ \A d : Coarse!Thousandths(d) = Thousandths(d)
  /\ \A a, b : Coarse!Older(a, b) <=> Older(a, b)
  /\ \A r : Coarse!State(r) = State(r) /\ Coarse!ExternalId(r) = ExternalId(r)
  /\ \A a, r : Coarse!Authorized(a, r) <=> Authorized(a, r)
  /\ \A w, to, a, e : Coarse!Patched(w, to, a, e) = Patched(w, to, a, e)
<1>1. Coarse!Keys = Keys
  BY DEF Coarse!Keys, Keys
<1>2. Coarse!Filed = Filed
  BY Zenon DEF Coarse!Filed, Filed
<1>3. \A k : Coarse!OpenFor(k) = OpenFor(k)
  BY <1>2, Zenon DEF Coarse!OpenFor, OpenFor
<1>4. \A d : Coarse!Thousandths(d) = Thousandths(d)
  BY DEF Coarse!Thousandths, Thousandths
<1>5. \A k : Coarse!Reserved(k) = Reserved(k)
  BY <1>3, <1>4, SameSums, Zenon DEF Coarse!Reserved, Reserved
<1>6. \A k : Coarse!Effective(k) = Effective(k)
  BY <1>5, Zenon DEF Coarse!Effective, Effective, Coarse!Round, Round
<1>7. \A a, b : Coarse!Older(a, b) <=> Older(a, b)
  BY DEF Coarse!Older, Older
<1>8. \A r : Coarse!State(r) = State(r)
  BY <1>2, Zenon DEF Coarse!State, State
<1>9. \A r : Coarse!ExternalId(r) = ExternalId(r)
  BY Zenon DEF Coarse!ExternalId, ExternalId
<1>10. \A a, r : Coarse!Authorized(a, r) <=> Authorized(a, r)
  BY Zenon DEF Coarse!Authorized, Authorized
<1>11. \A w, to, a, e : Coarse!Patched(w, to, a, e) = Patched(w, to, a, e)
  BY Zenon DEF Coarse!Patched, Patched
<1> QED
  BY <1>1, <1>2, <1>4, <1>5, <1>6, <1>7, <1>8, <1>9, <1>10, <1>11

LEMMA SameMoves ==
  /\ \A r, to, a, e : Coarse!MoveTo(r, to, a, e) <=> MoveTo(r, to, a, e)
  /\ \A r : Coarse!releaseReservation(r) <=> releaseReservation(r)
  /\ \A r : Coarse!consumeReservation(r) <=> consumeReservation(r)
  /\ \A r, t : Coarse!AlreadyIn(r, t) <=> AlreadyIn(r, t)
<1>1. \A r, to, a, e : Coarse!MoveTo(r, to, a, e) <=> MoveTo(r, to, a, e)
  BY SameStates, SameReads, Zenon DEF Coarse!MoveTo, MoveTo
<1>2. \A r, o : Coarse!Settle(r, o) <=> Settle(r, o)
  BY Zenon DEF Coarse!Settle, Settle
<1>3. \A r : Coarse!releaseReservation(r) <=> releaseReservation(r)
  BY <1>2 DEF Coarse!releaseReservation, releaseReservation
<1>4. \A r : Coarse!consumeReservation(r) <=> consumeReservation(r)
  BY <1>2 DEF Coarse!consumeReservation, consumeReservation
<1>5. \A r, t : Coarse!AlreadyIn(r, t) <=> AlreadyIn(r, t)
  BY SameReads, Zenon DEF Coarse!AlreadyIn, AlreadyIn, Coarse!vars, vars
<1> QED
  BY <1>1, <1>3, <1>4, <1>5

LEMMA SameOperations ==
  /\ \A u, m, s, d, r : createRequest(u, m, s, d, r) => Coarse!createRequest(u, m, s, d, r)
  /\ \A a, r : approve(a, r) => Coarse!approve(a, r)
  /\ \A a, r : reject(a, r) => Coarse!reject(a, r)
  /\ \A a, r : cancel(a, r) => Coarse!cancel(a, r)
  /\ \A r : markConsumed(r) => Coarse!markConsumed(r)
  /\ \A r : markHcmFailed(r) => Coarse!markHcmFailed(r)
  /\ \A r : markReviewRequired(r) => Coarse!markReviewRequired(r)
<1>1. \A u, m, s, d, r : createRequest(u, m, s, d, r) => Coarse!createRequest(u, m, s, d, r)
<2> SUFFICES ASSUME NEW u, NEW m, NEW s, NEW d, NEW r, createRequest(u, m, s, d, r)
             PROVE  Coarse!createRequest(u, m, s, d, r)
  OBVIOUS
<2>1. /\ r \notin Coarse!Filed
      /\ balances[<<u, s>>] # None
      /\ Coarse!Thousandths(d) <= Coarse!Effective(<<u, s>>)
  BY SameReads DEF createRequest
<2>2. requests' = [requests EXCEPT ![r] =
                     [key |-> <<u, s>>, days |-> d, manager |-> m,
                      state |-> Coarse!PENDING, approver |-> None, ext |-> 0]]
  BY SameStates DEF createRequest
<2>3. /\ reservations' = [reservations EXCEPT ![r] = "OPEN"]
      /\ UNCHANGED <<balances, intents>>
  BY DEF createRequest
<2> QED
  BY <2>1, <2>2, <2>3, Zenon DEF Coarse!createRequest
<1>2. \A a, r : approve(a, r) => Coarse!approve(a, r)
  BY SameStates, SameReads, SameMoves, Zenon DEF Coarse!approve, approve
<1>3. \A a, r : reject(a, r) => Coarse!reject(a, r)
  BY SameStates, SameReads, SameMoves, Zenon DEF Coarse!reject, reject
<1>4. \A a, r : cancel(a, r) => Coarse!cancel(a, r)
  BY SameStates, SameReads, SameMoves, Zenon DEF Coarse!cancel, cancel
<1>5. \A r : markConsumed(r) => Coarse!markConsumed(r)
  BY SameStates, SameMoves, Zenon DEF Coarse!markConsumed, markConsumed
<1>6. \A r : markHcmFailed(r) => Coarse!markHcmFailed(r)
  BY SameStates, SameMoves, Zenon DEF Coarse!markHcmFailed, markHcmFailed
<1>7. \A r : markReviewRequired(r) => Coarse!markReviewRequired(r)
  BY SameStates, SameMoves, Zenon DEF Coarse!markReviewRequired, markReviewRequired
<1> QED
  BY <1>1, <1>2, <1>3, <1>4, <1>5, <1>6, <1>7

-----------------------------------------------------------------------------
(* Types *)

LEMMA StampTyped ==
  ASSUME ReconTypeOK, NEW t \in 1..MaxTime, NEW form \in Forms
  PROVE  Stamp(t, form) \in AsOfs \cup {None}
  BY TimeAssumption DEF ReconTypeOK, Stamp

LEMMA RowTyped ==
  ASSUME ReconTypeOK, NEW k \in Keys, NEW t \in 1..now, NEW form \in Forms
  PROVE  RowOf(k, t, form) \in Row
<1>1. now \in Nat /\ MaxTime \in Nat /\ t \in 1..MaxTime
  BY TimeAssumption DEF ReconTypeOK
<1>2. past[t][k] \in Readings
  BY DEF ReconTypeOK, now
<1>3. Stamp(t, form) \in AsOfs \cup {None}
  BY <1>1, StampTyped
<1> QED
  BY <1>1, <1>2, <1>3 DEF RowOf, Row

(* A handler with a row ahead of it                                        *)
LEMMA BusyTyped ==
  ASSUME ReconTypeOK, Busy
  PROVE  /\ job \in Job /\ job.next \in Nat \ {0} /\ row \in Row
         /\ row.key \in Keys /\ row.balance \in Int /\ row.asOf \in AsOfs \cup {None}
         /\ row.taken \in 1..MaxTime
<1>1. job \in Job
  BY DEF ReconTypeOK, Busy, Free
<1>2. job.next \in DOMAIN job.rows /\ job.rows \in Seq(Row)
  BY <1>1 DEF Busy, Job
<1>3. row \in Row
  BY <1>2 DEF row
<1> QED
  BY <1>1, <1>3, ReportAssumption DEF Job, Row

LEMMA NextRowTyped ==
  ASSUME ReconTypeOK, Busy, NextRow
  PROVE  /\ job' \in Job /\ ~Free'
         /\ job'.rows = job.rows /\ job'.next = job.next + 1 /\ job'.by = job.by
<1>1. job \in Job /\ job.next \in Nat \ {0}
  BY BusyTyped
<1> QED
  BY <1>1, NoJobAssumption DEF NextRow, Job, Free

LEMMA StoreTyped ==
  ASSUME ReconTypeOK, StoreRow
  PROVE  TypeOK'
<1>1. /\ row.key \in Keys /\ row.balance \in Nat /\ row.asOf \in AsOfs
  BY BusyTyped DEF StoreRow, Storable
<1>2. [hcm |-> row.balance, asOf |-> row.asOf] \in Balance
  BY <1>1, ReportAssumption DEF Balance
<1>3. balances' \in [Keys -> Balance \cup {None}]
  BY <1>1, <1>2 DEF StoreRow, ReconTypeOK, TypeOK
<1> QED
  BY <1>3 DEF StoreRow, ReconTypeOK, TypeOK

LEMMA RestTyped ==
  ASSUME NEW scan \in Scan
  PROVE  Rest(scan) \in Scan \cup {None}
<1>1. scan.keys \in Seq(Keys) /\ scan.keys # <<>>
  BY DEF Scan
<1>2. CASE Len(scan.keys) = 1
  BY <1>2 DEF Rest
<1>3. CASE Len(scan.keys) # 1
  <2>1. Tail(scan.keys) \in Seq(Keys) /\ Len(Tail(scan.keys)) = Len(scan.keys) - 1
    BY <1>1
  <2>2. Len(scan.keys) \in Nat /\ Len(scan.keys) # 0
    BY <1>1
  <2>3. Tail(scan.keys) # <<>>
    <3>1. Len(Tail(scan.keys)) # 0
      BY <1>3, <2>1, <2>2
    <3>2. Len(<<>>) = 0
      OBVIOUS
    <3> QED
      BY <3>1, <3>2, Zenon
  <2> QED
    BY <1>3, <2>1, <2>3 DEF Rest, Scan
<1> QED
  BY <1>2, <1>3

LEMMA KeyListTyped ==
  ASSUME NEW ks \in KeyLists
  PROVE  ks \in Seq(Keys) /\ ks # <<>> /\ Len(ks) \in Nat /\ DOMAIN ks = 1..Len(ks)
<1>1. PICK n \in 1..MaxRows : ks \in [1..n -> Keys]
  BY DEF KeyLists
<1>2. n \in Nat \ {0}
  BY <1>1, TimeAssumption
<1>3. ks \in Seq(Keys) /\ Len(ks) = n
  BY <1>1, <1>2
<1> QED
  BY <1>1, <1>2, <1>3

(* Resuming a scan makes a job of one row                                  *)
LEMMA ResumeTyped ==
  ASSUME ReconTypeOK, NEW p \in Scans, Resume(p)
  PROVE  /\ scans[p] \in Scan /\ Head(scans[p].keys) \in Keys
         /\ scans[p].got[1] \in 1..now /\ scans[p].got[2] \in Forms
<1>1. scans[p] \in Scan /\ scans[p].got \in (1..MaxTime) \X Forms
  <2>1. scans[p] \in Scan /\ scans[p].got # None
    BY DEF Resume, ReconTypeOK
  <2> QED
    BY <2>1 DEF Scan
<1>2. scans[p].keys \in Seq(Keys) /\ scans[p].keys # <<>>
  BY <1>1 DEF Scan
<1>3. scans[p].got[1] <= now /\ now \in Nat
  BY DEF Resume, ReconTypeOK, AnswersArePast, now
<1> QED
  BY <1>1, <1>2, <1>3

(* Answers stay past while time goes on and no scan gets another.          *)
LEMMA StillPast ==
  ASSUME ReconTypeOK, now' \in Nat, now' >= now,
         \A p \in Scans : scans'[p] \in {scans[p], None}
                            \/ (scans'[p] # None /\ scans'[p].got = None)
  PROVE  AnswersArePast'
<1> SUFFICES ASSUME NEW p \in Scans, scans'[p] # None, scans'[p].got # None
             PROVE  scans'[p].got[1] <= now'
  BY DEF AnswersArePast
<1>1. scans'[p] = scans[p] /\ scans[p] \in Scan
  BY DEF ReconTypeOK
<1>2. scans[p].got \in (1..MaxTime) \X Forms
  BY <1>1 DEF Scan
<1>3. scans[p].got[1] \in Nat /\ now \in Nat
  BY <1>2, TimeAssumption DEF ReconTypeOK
<1>4. scans[p].got[1] <= now
  BY <1>1 DEF ReconTypeOK, AnswersArePast
<1> QED
  BY <1>1, <1>3, <1>4

LEMMA RestUnanswered ==
  ASSUME NEW scan PROVE Rest(scan) = None \/ Rest(scan).got = None
  BY DEF Rest

LEMMA InitReconTyped == ReconInit => ReconTypeOK
<1> SUFFICES ASSUME ReconInit PROVE ReconTypeOK
  OBVIOUS
<1>1. PICK b \in [Keys -> Readings \cap Nat] : past = <<b>>
  BY DEF ReconInit
<1>2. past \in Seq([Keys -> Readings]) /\ now = 1
  BY <1>1 DEF now
<1>3. now \in 1..MaxTime
  BY <1>2, TimeAssumption
<1>4. shown \in [Keys -> 0..MaxTime]
  BY TimeAssumption DEF ReconInit
<1> QED
  BY <1>2, <1>3, <1>4, InitTypeOK DEF ReconInit, ReconTypeOK, JobIsOfAScan, AnswersArePast, Free

(* Only the tables move.                                                   *)
LEMMA OtherTyped ==
  ASSUME ReconTypeOK, OtherCall
  PROVE  ReconTypeOK'
<1>1. TypeOK'
  BY NextTypeOK DEF OtherCall, Next, ReconTypeOK
<1> QED
  BY <1>1 DEF OtherCall, ReconTypeOK, JobIsOfAScan, AnswersArePast, Free, now

(* Every step of HCM, of the loop and of a scan keeps the types.           *)
LEMMA NextReconTyped == ReconTypeOK /\ [ReconNext]_reconVars => ReconTypeOK'
<1> SUFFICES ASSUME ReconTypeOK, [ReconNext]_reconVars PROVE ReconTypeOK'
  OBVIOUS
<1>0. ASSUME UNCHANGED vars PROVE TypeOK'
  BY <1>0 DEF ReconTypeOK, TypeOK, vars
<1>1. CASE HcmMoves
  <2>1. PICK k \in Keys, b \in Readings : past' = Append(past, [past[now] EXCEPT ![k] = b])
    BY <1>1 DEF HcmMoves
  <2>2. past[now] \in [Keys -> Readings]
    BY DEF ReconTypeOK, now
  <2>3. [past[now] EXCEPT ![k] = b] \in [Keys -> Readings]
    BY <2>2
  <2>4. past' \in Seq([Keys -> Readings]) /\ now' = now + 1
    BY <2>1, <2>3 DEF ReconTypeOK, now
  <2>5. now' \in 1..MaxTime
    BY <1>1, <2>4, TimeAssumption DEF HcmMoves, ReconTypeOK
  <2>6. AnswersArePast'
    BY <1>1, <2>4, <2>5, StillPast DEF HcmMoves, ReconTypeOK
  <2> QED
    BY <1>0, <1>1, <2>4, <2>5, <2>6 DEF HcmMoves, ReconTypeOK, JobIsOfAScan, Free
<1>2. CASE Receive
  <2>1. PICK ks \in KeyLists, t \in 1..now :
          \E header \in PushForms \ {"text"} :
            \E form \in [DOMAIN ks -> PushForms \cap {"text", header}] :
              job' = [by   |-> None,
                      rows |-> [i \in DOMAIN ks |-> RowOf(ks[i], t, form[i])],
                      next |-> 1]
    BY <1>2 DEF Receive
  <2>0. PICK form \in [DOMAIN ks -> PushForms] :
          job' = [by   |-> None,
                  rows |-> [i \in DOMAIN ks |-> RowOf(ks[i], t, form[i])],
                  next |-> 1]
    BY <2>1
  <2>2. ASSUME NEW i \in 1..Len(ks) PROVE RowOf(ks[i], t, form[i]) \in Row
    BY KeyListTyped, RowTyped, FormsAssumption
  <2>3. [i \in DOMAIN ks |-> RowOf(ks[i], t, form[i])] \in Seq(Row)
    BY <2>2, KeyListTyped
  <2>4. job' \in Job
    BY <2>0, <2>3 DEF Job
  <2> QED
    BY <1>0, <1>2, <2>4 DEF Receive, ReconTypeOK, JobIsOfAScan, AnswersArePast, Free, now
<1>3. CASE IgnoreRow
  <2>1. job' \in Job /\ ~Free'
    BY <1>3, NextRowTyped DEF IgnoreRow
  <2>2. JobIsOfAScan'
    BY <1>3, NextRowTyped DEF IgnoreRow, Busy, ReconTypeOK, JobIsOfAScan
  <2> QED
    BY <1>0, <1>3, <2>1, <2>2 DEF IgnoreRow, ReconTypeOK, AnswersArePast, now
<1>4. CASE StoreRow
  <2>1. job' \in Job /\ ~Free'
    BY <1>4, NextRowTyped DEF StoreRow
  <2>2. TypeOK'
    BY <1>4, StoreTyped
  <2>3. shown' \in [Keys -> 0..MaxTime]
    BY <1>4, BusyTyped DEF StoreRow, ReconTypeOK
  <2>4. drift' \subseteq ReqIds
    BY <1>4 DEF StoreRow, ApprovedFor, Filed
  <2>5. JobIsOfAScan'
    BY <1>4, NextRowTyped DEF StoreRow, Busy, ReconTypeOK, JobIsOfAScan
  <2> QED
    BY <1>4, <2>1, <2>2, <2>3, <2>4, <2>5 DEF StoreRow, ReconTypeOK, AnswersArePast, now
<1>5. CASE Escalate
  <2>1. PICK r \in drift : markReviewRequired(r) /\ drift' = drift \ {r}
    BY <1>5 DEF Escalate
  <2>2. r \in ReqIds
    BY <2>1 DEF ReconTypeOK
  <2>3. TypeOK'
    BY <2>1, <2>2, NextTypeOK DEF Next, WorkerStep, ReconTypeOK
  <2> QED
    BY <1>5, <2>1, <2>3 DEF Escalate, ReconTypeOK, JobIsOfAScan, AnswersArePast, Free, now
<1>6. CASE FailRow
  <2>1. scans' \in [Scans -> Scan \cup {None}]
    BY <1>6 DEF FailRow, ReconTypeOK
  <2> QED
    BY <1>0, <1>6, <2>1 DEF FailRow, Busy, ReconTypeOK, JobIsOfAScan, AnswersArePast, Free, now
<1>7. CASE Finish
  <2>1. ASSUME NEW p \in Scans, p = job.by PROVE Rest(scans[p]) \in Scan \cup {None}
    BY <1>7, <2>1, RestTyped, TimeAssumption DEF Finish, Done, JobIsOfAScan, ReconTypeOK
  <2>2. scans' \in [Scans -> Scan \cup {None}]
    BY <1>7, <2>1 DEF Finish, ReconTypeOK
  <2>3. AnswersArePast'
    <3>1. now' \in Nat /\ now' >= now
      BY <1>7 DEF Finish, ReconTypeOK, now
    <3>2. \A p \in Scans : scans'[p] \in {scans[p], Rest(scans[p])}
      BY <1>7 DEF Finish
    <3>3. \A p \in Scans : Rest(scans[p]) = None \/ Rest(scans[p]).got = None
      BY RestUnanswered
    <3>4. \A p \in Scans : scans'[p] \in {scans[p], None}
                              \/ (scans'[p] # None /\ scans'[p].got = None)
      BY <3>2, <3>3
    <3> QED
      BY <3>1, <3>4, StillPast
  <2> QED
    BY <1>0, <1>7, <2>2, <2>3 DEF Finish, Done, ReconTypeOK, JobIsOfAScan, Free, now
<1>8. CASE Crash
  BY <1>0, <1>8 DEF Crash, ReconTypeOK, JobIsOfAScan, AnswersArePast, Free, now
<1>9. ASSUME NEW p \in Scans, StartScan(p) PROVE ReconTypeOK'
  <2>1. PICK ks \in KeyLists : scans' = [scans EXCEPT ![p] = [keys |-> ks, got |-> None]]
    BY <1>9 DEF StartScan
  <2>2. [keys |-> ks, got |-> None] \in Scan
    BY KeyListTyped DEF Scan
  <2> QED
    BY <1>0, <1>9, <2>1, <2>2 DEF StartScan, ReconTypeOK, JobIsOfAScan, AnswersArePast, Free, now
<1>10. ASSUME NEW p \in Scans, Answer(p) PROVE ReconTypeOK'
  <2>1. PICK form \in PullForms :
          scans' = [scans EXCEPT ![p] = [keys |-> scans[p].keys, got |-> <<now, form>>]]
    BY <1>10 DEF Answer
  <2>2. scans[p] \in Scan
    BY <1>10 DEF Answer, Asking, ReconTypeOK
  <2>3. [keys |-> scans[p].keys, got |-> <<now, form>>] \in Scan
    BY <2>2, FormsAssumption DEF Scan, ReconTypeOK
  <2>4. AnswersArePast'
    <3>1. /\ scans'[p].got = <<now, form>>
          /\ \A q \in Scans \ {p} : scans'[q] = scans[q]
      BY <2>1 DEF ReconTypeOK
    <3>2. now' = now /\ now \in Nat
      BY <1>10 DEF Answer, ReconTypeOK, now
    <3>3. scans'[p].got[1] <= now'
      BY <3>1, <3>2
    <3>4. ASSUME NEW q \in Scans \ {p}, scans'[q] # None, scans'[q].got # None
          PROVE  scans'[q].got[1] <= now'
      <4>1. scans'[q] = scans[q] /\ now' = now
        BY <3>1, <3>2
      <4>2. scans[q].got[1] <= now
        BY <3>4, <4>1 DEF ReconTypeOK, AnswersArePast
      <4> QED
        BY <4>1, <4>2
    <3> QED
      BY <3>3, <3>4 DEF AnswersArePast
  <2> QED
    BY <1>0, <1>10, <2>1, <2>3, <2>4
       DEF Answer, Asking, ReconTypeOK, JobIsOfAScan, Free, now
<1>11. ASSUME NEW p \in Scans, Skip(p) PROVE ReconTypeOK'
  <2>1. Rest(scans[p]) \in Scan \cup {None}
    BY <1>11, RestTyped DEF Skip, Asking, ReconTypeOK
  <2>2. AnswersArePast'
    <3>1. now' \in Nat /\ now' >= now
      BY <1>11 DEF Skip, ReconTypeOK, now
    <3> QED
      BY <1>11, <3>1, StillPast, RestUnanswered DEF Skip, ReconTypeOK
  <2> QED
    BY <1>0, <1>11, <2>1, <2>2 DEF Skip, Asking, ReconTypeOK, JobIsOfAScan, Free, now
<1>12. ASSUME NEW p \in Scans, Resume(p) PROVE ReconTypeOK'
  <2>1. /\ scans[p].got[1] \in 1..now
        /\ RowOf(Head(scans[p].keys), scans[p].got[1], scans[p].got[2]) \in Row
    BY <1>12, ResumeTyped, RowTyped
  <2>2. job' \in Job
    BY <1>12, <2>1 DEF Resume, Job
  <2> QED
    BY <1>0, <1>12, <2>2 DEF Resume, ReconTypeOK, JobIsOfAScan, AnswersArePast, Free, now
<1>13. CASE OtherCall
  BY <1>13, OtherTyped
<1>14. CASE UNCHANGED reconVars
  BY <1>0, <1>14 DEF reconVars, ReconTypeOK, JobIsOfAScan, AnswersArePast, Free, now
<1> QED
  BY <1>1, <1>2, <1>3, <1>4, <1>5, <1>6, <1>7, <1>8, <1>9, <1>10, <1>11, <1>12, <1>13, <1>14
     DEF ReconNext, LoopStep, ScanStep

(* Type correctness of the handlers, the scans and the tables.             *)
THEOREM ReconTypeCorrect == ReconSpec => []ReconTypeOK
  BY InitReconTyped, NextReconTyped, PTL DEF ReconSpec

-----------------------------------------------------------------------------
(* The loops implement the reports of TimeOff *)

LEMMA StoreIsReport ==
  ASSUME ReconTypeOK, StoreRow
  PROVE  Coarse!ReportStep
<1> DEFINE k == row.key
           b == row.balance
           t == row.asOf
<1>1. /\ k \in Keys /\ b \in Readings /\ b >= 0 /\ t \in AsOfs /\ t # None
  BY BusyTyped DEF StoreRow, Storable, Row
<1>2. balances[k] # None => ~Coarse!Older(t, balances[k].asOf)
  BY <1>1, SameReads DEF StoreRow, Stale
<1>3. {} \in Coarse!Escalated(k, b)
  <2>1. Coarse!Escalated(k, b) = IF b < Coarse!Reserved(k)
                                 THEN SUBSET Coarse!ApprovedFor(k) ELSE {{}}
    BY DEF Coarse!Escalated
  <2> QED
    BY <2>1
<1>4. requests' = [r \in ReqIds |->
                     IF r \in {} THEN [requests[r] EXCEPT !.state = Coarse!REVIEW_REQUIRED]
                                 ELSE requests[r]]
  BY DEF StoreRow, ReconTypeOK, TypeOK
<1>5. /\ balances' = [balances EXCEPT ![k] = [hcm |-> b, asOf |-> t]]
      /\ UNCHANGED <<reservations, intents>>
  BY DEF StoreRow
<1>6. Coarse!applyHcmBalanceSnapshot(k, b, t)
  BY <1>1, <1>2, <1>3, <1>4, <1>5, Zenon DEF Coarse!applyHcmBalanceSnapshot
<1>7. k \in Coarse!Keys
  BY <1>1, SameReads
<1> QED
  BY <1>1, <1>6, <1>7, Zenon DEF Coarse!ReportStep

LEMMA OtherIsSame ==
  ASSUME OtherCall
  PROVE  Coarse!ApproveStep \/ Coarse!UserStep \/ Coarse!WorkerStep
<1>1. ASSUME ApproveStep PROVE Coarse!ApproveStep
  BY <1>1, SameOperations, Zenon DEF ApproveStep, Coarse!ApproveStep
<1>2. ASSUME UserStep PROVE Coarse!UserStep
  <2>1. ASSUME NEW u \in Users, NEW s \in Slots, NEW d \in DayCounts, NEW r \in ReqIds,
               NEW m \in ManagerClaims[u], createRequest(u, m, s, d, r)
        PROVE  Coarse!UserStep
    <3>1. Coarse!createRequest(u, m, s, d, r)
      BY <2>1, SameOperations
    <3> QED
      BY <3>1, Zenon DEF Coarse!UserStep
  <2>2. ASSUME NEW u \in Users, NEW r \in ReqIds, reject(u, r) \/ cancel(u, r)
        PROVE  Coarse!UserStep
    <3>1. Coarse!reject(u, r) \/ Coarse!cancel(u, r)
      BY <2>2, SameOperations
    <3> QED
      BY <3>1, Zenon DEF Coarse!UserStep
  <2> QED
    BY <1>2, <2>1, <2>2, Zenon DEF UserStep
<1>3. ASSUME WorkerStep PROVE Coarse!WorkerStep
  BY <1>3, SameOperations, Zenon DEF WorkerStep, Coarse!WorkerStep
<1> QED
  BY <1>1, <1>2, <1>3 DEF OtherCall

LEMMA StepMaps == ReconTypeOK /\ [ReconNext]_reconVars => [Coarse!Next]_(Coarse!vars)
<1> SUFFICES ASSUME ReconTypeOK, [ReconNext]_reconVars
             PROVE  Coarse!Next \/ UNCHANGED vars
  BY DEF vars, Coarse!vars
<1>1. CASE StoreRow
  BY <1>1, StoreIsReport, Zenon DEF Coarse!Next
<1>2. CASE Escalate
  <2>1. PICK r \in drift : markReviewRequired(r)
    BY <1>2 DEF Escalate
  <2>2. r \in ReqIds /\ Coarse!markReviewRequired(r)
    BY <2>1, SameOperations DEF ReconTypeOK
  <2> QED
    BY <2>2, Zenon DEF Coarse!Next, Coarse!WorkerStep
<1>3. CASE OtherCall
  BY <1>3, OtherIsSame, Zenon DEF Coarse!Next
<1>4. CASE HcmMoves \/ Receive \/ IgnoreRow \/ FailRow \/ Finish \/ Crash \/ ScanStep
  BY <1>4 DEF HcmMoves, Receive, IgnoreRow, FailRow, Finish, Crash, ScanStep,
              StartScan, Answer, Skip, Resume
<1>5. CASE UNCHANGED reconVars
  BY <1>5 DEF reconVars
<1> QED
  BY <1>1, <1>2, <1>3, <1>4, <1>5 DEF ReconNext, LoopStep

(* The loops of reconciliation, with their errors and crashes, do nothing  *)
(* to the tables that TimeOff does not allow.                              *)
THEOREM ReportsAreOfTimeOff == ReconSpec => ImplementsTimeOff
<1>1. ReconInit => Coarse!Init
  BY SameReads, Zenon DEF ReconInit, Init, Coarse!Init
<1> QED
  BY <1>1, StepMaps, ReconTypeCorrect, PTL DEF ReconSpec, ImplementsTimeOff, Coarse!Spec

-----------------------------------------------------------------------------
(* The cache and time *)

(* Where every date is a number or cannot be read, the cache is dated with *)
(* the instant it shows, and so is what is on its way to it.               *)
OnTime(w) == w.asOf = None \/ w.asOf = [at |-> w.taken, text |-> FALSE]

Dated ==
  /\ \A k \in Keys : IF balances[k] = None THEN shown[k] = 0
                     ELSE balances[k].asOf = [at |-> shown[k], text |-> FALSE]
  /\ Free \/ \A i \in DOMAIN job.rows : OnTime(job.rows[i])
  /\ \A p \in Scans : scans[p] # None /\ scans[p].got # None => scans[p].got[2] \in PullForms

TimedForms == {"number", "unreadable"}

LEMMA RowOnTime ==
  ASSUME NEW k, NEW t, NEW form \in TimedForms
  PROVE  OnTime(RowOf(k, t, form))
<1>1. CASE form = "unreadable"
  BY <1>1 DEF OnTime, RowOf, Stamp
<1>2. CASE form = "number"
  <2>1. Stamp(t, form) = [at |-> t, text |-> form = "text"]
    BY <1>2, Zenon DEF Stamp
  <2> QED
    BY <1>2, <2>1 DEF OnTime, RowOf
<1> QED
  BY <1>1, <1>2 DEF TimedForms

(* No operation of TimeOff but a report touches the cache.                 *)
LEMMA CallsLeaveCache ==
  /\ OtherCall => UNCHANGED balances
  /\ Escalate => UNCHANGED balances
<1>1. ASSUME WorkerStep PROVE UNCHANGED balances
  BY <1>1 DEF WorkerStep, markConsumed, markHcmFailed, markReviewRequired, AlreadyIn, vars
<1>2. ASSUME ApproveStep PROVE UNCHANGED balances
  BY <1>2 DEF ApproveStep, approve
<1>3. ASSUME UserStep PROVE UNCHANGED balances
  BY <1>3 DEF UserStep, createRequest, reject, cancel
<1>4. ASSUME Escalate PROVE UNCHANGED balances
  BY <1>4 DEF Escalate, markReviewRequired, AlreadyIn, vars
<1> QED
  BY <1>1, <1>2, <1>3, <1>4 DEF OtherCall

LEMMA InitDated == ReconInit => Dated
  BY DEF ReconInit, Init, Dated, Free

(* Steps that leave the cache and its instants alone, and the rows or no   *)
(* rows of the loop                                                        *)
LEMMA CacheStays ==
  ASSUME Dated, UNCHANGED <<balances, shown>>
  PROVE  \A k \in Keys : IF balances[k] = None THEN shown[k] = 0
                         ELSE balances[k].asOf = [at |-> shown[k], text |-> FALSE]
  BY DEF Dated

LEMMA StoreDated ==
  ASSUME ReconTypeOK, Dated, StoreRow
  PROVE  /\ \A k \in Keys : IF balances'[k] = None THEN shown'[k] = 0
                            ELSE balances'[k].asOf = [at |-> shown'[k], text |-> FALSE]
         /\ \A k \in Keys : shown'[k] >= shown[k]
<1>1. /\ row.key \in Keys /\ row.balance \in Int /\ row.asOf \in AsOfs /\ row.asOf # None
      /\ row.taken \in Nat
  BY BusyTyped, TimeAssumption DEF StoreRow, Storable
<1>2. row.asOf = [at |-> row.taken, text |-> FALSE]
  <2>1. job \in Job /\ job.next \in DOMAIN job.rows
    BY BusyTyped DEF StoreRow, Busy, Job
  <2>2. OnTime(row)
    BY <2>1 DEF Dated, StoreRow, Busy, row
  <2> QED
    BY <1>1, <2>2 DEF OnTime
<1>3. /\ balances' = [balances EXCEPT ![row.key] = [hcm |-> row.balance, asOf |-> row.asOf]]
      /\ shown' = [shown EXCEPT ![row.key] = row.taken]
      /\ balances \in [Keys -> Balance \cup {None}] /\ shown \in [Keys -> 0..MaxTime]
  BY DEF StoreRow, ReconTypeOK, TypeOK
<1>4. ASSUME NEW k \in Keys, k # row.key
      PROVE  balances'[k] = balances[k] /\ shown'[k] = shown[k]
  BY <1>3, <1>4
<1>5. /\ balances'[row.key] = [hcm |-> row.balance, asOf |-> row.asOf]
      /\ shown'[row.key] = row.taken
  BY <1>1, <1>3
<1>6. balances'[row.key] # None
  <2>1. [hcm |-> row.balance, asOf |-> row.asOf] \in Balance
    BY <1>1, ReportAssumption DEF StoreRow, Storable, Balance
  <2> QED
    BY <1>5, <2>1
<1>7. row.taken >= shown[row.key]
  <2>1. shown[row.key] \in Nat
    <3>1. shown \in [Keys -> 0..MaxTime]
      BY <1>3
    <3> QED
      BY <1>1, <3>1, TimeAssumption
  <2>2. CASE balances[row.key] = None
    <3>1. shown[row.key] = 0
      BY <1>1, <2>2 DEF Dated
    <3> QED
      BY <1>1, <3>1
  <2>3. CASE balances[row.key] # None
    <3>1. balances[row.key].asOf = [at |-> shown[row.key], text |-> FALSE]
      BY <1>1, <2>3 DEF Dated
    <3>2. ~Older(row.asOf, balances[row.key].asOf)
      BY <1>1, <2>3 DEF StoreRow, Stale
    <3> QED
      BY <1>1, <1>2, <2>1, <3>1, <3>2 DEF Older
  <2> QED
    BY <2>2, <2>3
<1>8. \A k \in Keys : shown'[k] >= shown[k]
  <2>1. \A k \in Keys : shown[k] \in Nat
    BY <1>3, TimeAssumption
  <2> QED
    BY <1>4, <1>5, <1>7, <2>1
<1>9. ASSUME NEW k \in Keys
      PROVE  IF balances'[k] = None THEN shown'[k] = 0
             ELSE balances'[k].asOf = [at |-> shown'[k], text |-> FALSE]
  <2>1. CASE k = row.key
    <3>1. balances'[k] # None /\ balances'[k].asOf = row.asOf
      BY <1>5, <1>6, <2>1
    <3>2. shown'[k] = row.taken
      BY <1>5, <2>1
    <3> QED
      BY <1>2, <3>1, <3>2
  <2>2. CASE k # row.key
    <3>1. balances'[k] = balances[k] /\ shown'[k] = shown[k]
      BY <1>4, <2>2
    <3>2. IF balances[k] = None THEN shown[k] = 0
          ELSE balances[k].asOf = [at |-> shown[k], text |-> FALSE]
      BY DEF Dated
    <3> QED
      BY <3>1, <3>2
  <2> QED
    BY <2>1, <2>2
<1> QED
  BY <1>8, <1>9

(* What is left of the rows and the answers when no new ones come          *)
LEMMA RowsStay ==
  ASSUME Dated, Free' \/ (~Free /\ job'.rows = job.rows),
         \A p \in Scans : scans'[p] \in {scans[p], None}
                            \/ (scans'[p] # None /\ scans'[p].got = None)
  PROVE  /\ Free' \/ \A i \in DOMAIN job'.rows : OnTime(job'.rows[i])
         /\ \A p \in Scans : scans'[p] # None /\ scans'[p].got # None
                               => scans'[p].got[2] \in PullForms
<1>1. Free' \/ \A i \in DOMAIN job'.rows : OnTime(job'.rows[i])
  BY DEF Dated
<1>2. ASSUME NEW p \in Scans, scans'[p] # None, scans'[p].got # None
      PROVE  scans'[p].got[2] \in PullForms
  <2>1. scans'[p] = scans[p]
    BY <1>2
  <2> QED
    BY <1>2, <2>1 DEF Dated
<1> QED
  BY <1>1, <1>2

LEMMA NextDated ==
  ASSUME PushForms \subseteq TimedForms, PullForms \subseteq TimedForms,
         ReconTypeOK, Dated, [ReconNext]_reconVars
  PROVE  Dated' /\ (\A k \in Keys : shown'[k] >= shown[k])
<1>1. CASE StoreRow
  <2>1. ~Free /\ job'.rows = job.rows
    BY <1>1, NextRowTyped DEF StoreRow, Busy
  <2>2. \A p \in Scans : scans'[p] = scans[p]
    BY <1>1 DEF StoreRow
  <2>3. /\ Free' \/ \A i \in DOMAIN job'.rows : OnTime(job'.rows[i])
        /\ \A p \in Scans : scans'[p] # None /\ scans'[p].got # None
                              => scans'[p].got[2] \in PullForms
    BY <2>1, <2>2, RowsStay
  <2> QED
    BY <1>1, <2>3, StoreDated DEF Dated
<1>2. CASE ~StoreRow
  <2>1. UNCHANGED <<balances, shown>>
    BY <1>2, CallsLeaveCache
       DEF ReconNext, LoopStep, ScanStep, HcmMoves, Receive, IgnoreRow, Escalate, FailRow,
           Finish, Crash, StartScan, Answer, Skip, Resume, OtherCall, reconVars, vars
  <2>2. \A k \in Keys : shown'[k] >= shown[k]
    <3>1. \A k \in Keys : shown[k] \in Nat
      BY TimeAssumption DEF ReconTypeOK
    <3> QED
      BY <2>1, <3>1
  <2>3. /\ Free' \/ \A i \in DOMAIN job'.rows : OnTime(job'.rows[i])
        /\ \A p \in Scans : scans'[p] # None /\ scans'[p].got # None
                              => scans'[p].got[2] \in PullForms
    <3>1. CASE Receive
      <4>1. PICK ks \in KeyLists, t \in 1..now :
              \E header \in PushForms \ {"text"} :
                \E form \in [DOMAIN ks -> PushForms \cap {"text", header}] :
                  job' = [by   |-> None,
                          rows |-> [i \in DOMAIN ks |-> RowOf(ks[i], t, form[i])],
                          next |-> 1]
        BY <3>1 DEF Receive
      <4>2. PICK form \in [DOMAIN ks -> TimedForms] :
              job' = [by   |-> None,
                      rows |-> [i \in DOMAIN ks |-> RowOf(ks[i], t, form[i])],
                      next |-> 1]
        BY <4>1
      <4>3. \A i \in DOMAIN job'.rows : OnTime(job'.rows[i])
        BY <4>2, RowOnTime
      <4>4. \A p \in Scans : scans'[p] = scans[p]
        BY <3>1 DEF Receive
      <4> QED
        BY <4>3, <4>4 DEF Dated
    <3>2. ASSUME NEW p \in Scans, Resume(p)
          PROVE  /\ \A i \in DOMAIN job'.rows : OnTime(job'.rows[i])
                 /\ UNCHANGED scans
      <4>1. scans[p].got[2] \in TimedForms
        BY <3>2 DEF Resume, Dated
      <4>2. OnTime(RowOf(Head(scans[p].keys), scans[p].got[1], scans[p].got[2]))
        BY <4>1, RowOnTime
      <4>3. job'.rows = <<RowOf(Head(scans[p].keys), scans[p].got[1], scans[p].got[2])>>
        BY <3>2 DEF Resume
      <4> QED
        BY <3>2, <4>2, <4>3 DEF Resume
    <3>3. ASSUME NEW p \in Scans, Answer(p)
          PROVE  /\ Free' \/ \A i \in DOMAIN job'.rows : OnTime(job'.rows[i])
                 /\ \A q \in Scans : scans'[q] # None /\ scans'[q].got # None
                                       => scans'[q].got[2] \in PullForms
      <4>1. PICK form \in PullForms :
              scans' = [scans EXCEPT ![p] = [keys |-> scans[p].keys, got |-> <<now, form>>]]
        BY <3>3 DEF Answer
      <4>2. /\ scans'[p].got = <<now, form>>
            /\ \A q \in Scans \ {p} : scans'[q] = scans[q]
        BY <4>1 DEF ReconTypeOK
      <4>3. Free'
        BY <3>3 DEF Answer, Asking, Free
      <4>4. scans'[p].got[2] \in PullForms
        BY <4>2
      <4>5. ASSUME NEW q \in Scans \ {p}, scans'[q] # None, scans'[q].got # None
            PROVE  scans'[q].got[2] \in PullForms
        BY <4>2, <4>5 DEF Dated
      <4> QED
        BY <4>3, <4>4, <4>5
    <3>4. ASSUME ~Receive, \A p \in Scans : ~Resume(p) /\ ~Answer(p)
          PROVE  /\ Free' \/ (~Free /\ job'.rows = job.rows)
                 /\ \A p \in Scans : scans'[p] \in {scans[p], None}
                                       \/ (scans'[p] # None /\ scans'[p].got = None)
      <4>1. CASE IgnoreRow
        BY <4>1, NextRowTyped DEF IgnoreRow, Busy
      <4>2. CASE HcmMoves \/ Escalate \/ OtherCall \/ UNCHANGED reconVars
        BY <4>2 DEF HcmMoves, Escalate, OtherCall, reconVars, Free
      <4>3. CASE FailRow \/ Crash
        BY <4>3 DEF FailRow, Crash, Free
      <4>4. CASE Finish
        <5>1. Free' /\ \A p \in Scans : scans'[p] \in {scans[p], Rest(scans[p])}
          BY <4>4 DEF Finish, Free
        <5> QED
          BY <5>1, RestUnanswered
      <4>5. ASSUME NEW p \in Scans, StartScan(p) \/ Skip(p)
            PROVE  /\ Free'
                   /\ \A q \in Scans : scans'[q] \in {scans[q], None}
                                         \/ (scans'[q] # None /\ scans'[q].got = None)
        <5>1. PICK new : /\ new = None \/ (new # None /\ new.got = None)
                         /\ scans' = [scans EXCEPT ![p] = new]
          BY <4>5, RestUnanswered, KeyListTyped DEF StartScan, Skip
        <5>2. /\ scans'[p] = new
              /\ \A q \in Scans \ {p} : scans'[q] = scans[q]
          BY <5>1 DEF ReconTypeOK
        <5> QED
          BY <4>5, <5>1, <5>2 DEF StartScan, Skip, Asking, Free
      <4> QED
        BY <1>2, <3>4, <4>1, <4>2, <4>3, <4>4, <4>5 DEF ReconNext, LoopStep, ScanStep
    <3> QED
      BY <3>1, <3>2, <3>3, <3>4, RowsStay DEF Dated
  <2> QED
    BY <2>1, <2>2, <2>3, CacheStays DEF Dated
<1> QED
  BY <1>1, <1>2

(* With dates that can be compared the cache never goes back in time,      *)
(* however late and however often pushes and pulls arrive.                 *)
THEOREM CacheMovesForward ==
  ASSUME PushForms \subseteq TimedForms, PullForms \subseteq TimedForms
  PROVE  ReconSpec => CacheNeverGoesBack
<1>1. ReconTypeOK /\ Dated /\ [ReconNext]_reconVars
        => Dated' /\ [\A k \in Keys : shown'[k] >= shown[k]]_reconVars
  BY NextDated
<1> QED
  BY <1>1, InitDated, ReconTypeCorrect, PTL DEF ReconSpec, CacheNeverGoesBack

-----------------------------------------------------------------------------
(* What an answered report has done *)

(* InEffect, but for the requests that are still to be escalated           *)
Taking(w) ==
  /\ shown[w.key] >= w.taken
  /\ shown[w.key] = w.taken /\ balances[w.key].hcm < Reserved(w.key)
       => ApprovedFor(w.key) \subseteq drift

OneRowPerKey ==
  Free \/ \A i, j \in DOMAIN job.rows : job.rows[i].key = job.rows[j].key => i = j

RowsSoFar == Free \/ \A i \in DOMAIN job.rows : i < job.next => Taking(job.rows[i])

(* A move to review sets aside what was set aside, and approves nothing.   *)
LEMMA ReviewEffect ==
  ASSUME TypeOK, NEW r \in ReqIds, markReviewRequired(r)
  PROVE  /\ UNCHANGED balances
         /\ \A k \in Keys : /\ Reserved(k)' = Reserved(k)
                            /\ ApprovedFor(k)' \subseteq ApprovedFor(k) \ {r}
<1>1. CASE AlreadyIn(r, REVIEW_REQUIRED)
  <2>1. UNCHANGED vars /\ State(r) = REVIEW_REQUIRED
    BY <1>1 DEF AlreadyIn
  <2>2. REVIEW_REQUIRED # APPROVED
    BY DEF REVIEW_REQUIRED, APPROVED
  <2>3. \A k \in Keys : r \notin ApprovedFor(k)
    BY <2>1, <2>2 DEF ApprovedFor
  <2>4. Filed' = Filed /\ (\A q \in ReqIds : State(q)' = State(q)) /\ requests' = requests
    BY <2>1 DEF vars, Filed, State
  <2>5. \A k \in Keys : ApprovedFor(k)' = ApprovedFor(k)
    BY <2>4 DEF ApprovedFor, Filed
  <2>6. \A k \in Keys : Reserved(k)' = Reserved(k)
    BY <2>1 DEF Reserved, OpenFor, Filed, vars
  <2> QED
    BY <2>1, <2>3, <2>5, <2>6 DEF vars
<1>2. CASE MoveTo(r, REVIEW_REQUIRED, None, 0) /\ UNCHANGED <<balances, reservations, intents>>
  <2>1. /\ r \in Filed /\ Filed' = Filed /\ State(r)' = REVIEW_REQUIRED
        /\ \A q \in Filed : /\ requests'[q].key = requests[q].key
                            /\ requests'[q].days = requests[q].days
        /\ \A q \in Filed \ {r} : State(q)' = State(q)
    BY <1>2, MoveToEffect, StatesAre DEF Filed
  <2>2. REVIEW_REQUIRED # APPROVED
    BY DEF REVIEW_REQUIRED, APPROVED
  <2>3. ASSUME NEW k \in Keys PROVE ApprovedFor(k)' \subseteq ApprovedFor(k) \ {r}
    BY <2>1, <2>2 DEF ApprovedFor
  <2>4. ASSUME NEW k \in Keys PROVE Reserved(k)' = Reserved(k)
    <3>1. OpenFor(k)' = OpenFor(k)
      BY <1>2, <2>1 DEF OpenFor
    <3>2. OpenFor(k) \subseteq Filed
      BY DEF OpenFor
    <3>3. [q \in OpenFor(k) |-> Thousandths(requests[q].days)]'
            = [q \in OpenFor(k) |-> Thousandths(requests[q].days)]
      BY <2>1, <3>1, <3>2
    <3> QED
      BY <3>3 DEF Reserved
  <2> QED
    BY <1>2, <2>3, <2>4
<1> QED
  BY <1>1, <1>2 DEF markReviewRequired

(* A step of the loop that escalates keeps what the rows have done.        *)
LEMMA EscalateKeepsRows ==
  ASSUME ReconTypeOK, RowsSoFar, Escalate
  PROVE  RowsSoFar'
<1>1. PICK r \in drift : markReviewRequired(r) /\ drift' = drift \ {r}
  BY DEF Escalate
<1>2. /\ UNCHANGED <<balances, shown, job>>
      /\ \A k \in Keys : /\ Reserved(k)' = Reserved(k)
                         /\ ApprovedFor(k)' \subseteq ApprovedFor(k) \ {r}
  BY <1>1, ReviewEffect DEF ReconTypeOK, Escalate
<1>3. ASSUME NEW w \in Row, Taking(w) PROVE Taking(w)'
  <2>1. w.key \in Keys
    BY DEF Row
  <2> QED
    BY <1>1, <1>2, <1>3, <2>1 DEF Taking
<1>4. ASSUME ~Free PROVE \A i \in DOMAIN job.rows : job.rows[i] \in Row
  BY <1>4 DEF ReconTypeOK, Free, Job
<1> QED
  BY <1>2, <1>3, <1>4 DEF RowsSoFar, Free

(* A stale row needs nothing: the cache shows a later instant.             *)
LEMMA IgnoreKeepsRows ==
  ASSUME ReconTypeOK, Dated, RowsSoFar, IgnoreRow
  PROVE  RowsSoFar'
<1>1. /\ job' \in Job /\ ~Free /\ job'.rows = job.rows /\ job'.next = job.next + 1
      /\ job.next \in Nat
  BY NextRowTyped, BusyTyped DEF IgnoreRow, Busy
<1>2. /\ row \in Row /\ row.key \in Keys /\ row.taken \in Nat
      /\ job.rows \in Seq(Row)
  BY BusyTyped, TimeAssumption DEF IgnoreRow, Busy, Job
<1>3. shown[row.key] > row.taken
  <2>1. job.next \in DOMAIN job.rows
    BY BusyTyped DEF IgnoreRow, Busy, Job
  <2>2. OnTime(row)
    BY <2>1, <1>1 DEF Dated, row
  <2>3. row.asOf = [at |-> row.taken, text |-> FALSE]
    BY <2>2 DEF OnTime, IgnoreRow, Stale
  <2>4. balances[row.key].asOf = [at |-> shown[row.key], text |-> FALSE]
    BY <1>2 DEF Dated, IgnoreRow, Stale
  <2>5. Older(row.asOf, balances[row.key].asOf)
    BY DEF IgnoreRow, Stale
  <2>6. shown[row.key] \in Nat
    BY <1>2, TimeAssumption DEF ReconTypeOK
  <2> QED
    BY <1>2, <2>3, <2>4, <2>5, <2>6 DEF Older
<1>4. Taking(row)
  <2>1. shown[row.key] \in Nat
    BY <1>2, TimeAssumption DEF ReconTypeOK
  <2> QED
    BY <1>2, <1>3, <2>1 DEF Taking
<1>5. \A i \in DOMAIN job.rows : i < job.next + 1 => Taking(job.rows[i])
  BY <1>1, <1>2, <1>4 DEF RowsSoFar, row
<1>6. ASSUME NEW w, Taking(w) PROVE Taking(w)'
  BY <1>6 DEF IgnoreRow, vars, Taking, Reserved, OpenFor, ApprovedFor, Filed, State
<1> QED
  BY <1>1, <1>5, <1>6 DEF RowsSoFar

(* A row that is stored owes its escalations, and is the only one of its   *)
(* key.                                                                    *)
LEMMA StoreKeepsRows ==
  ASSUME ReconTypeOK, OneRowPerKey, RowsSoFar, StoreRow
  PROVE  RowsSoFar'
<1>1. /\ job' \in Job /\ ~Free /\ job'.rows = job.rows /\ job'.next = job.next + 1
      /\ job.next \in Nat /\ drift = {}
  BY NextRowTyped, BusyTyped DEF StoreRow, Busy
<1>2. /\ row \in Row /\ row.key \in Keys /\ row.taken \in Nat
      /\ job.rows \in Seq(Row) /\ job.next \in DOMAIN job.rows
  BY BusyTyped, TimeAssumption DEF StoreRow, Busy, Job
<1>3. /\ balances' = [balances EXCEPT ![row.key] = [hcm |-> row.balance, asOf |-> row.asOf]]
      /\ shown' = [shown EXCEPT ![row.key] = row.taken]
      /\ balances \in [Keys -> Balance \cup {None}] /\ shown \in [Keys -> 0..MaxTime]
  BY DEF StoreRow, ReconTypeOK, TypeOK
<1>4. \A k : Reserved(k)' = Reserved(k) /\ ApprovedFor(k)' = ApprovedFor(k)
  BY DEF StoreRow, Reserved, OpenFor, ApprovedFor, Filed, State
<1>5. ASSUME NEW w \in Row, w = row
      PROVE  Taking(w)'
  <2>1. shown'[w.key] = w.taken /\ balances'[w.key].hcm = w.balance
    BY <1>2, <1>3, <1>5
  <2>2. w.balance < Reserved(w.key) => ApprovedFor(w.key) = drift'
    BY <1>5 DEF StoreRow
  <2> QED
    BY <1>2, <1>4, <1>5, <2>1, <2>2 DEF Taking
<1>6. ASSUME NEW i \in DOMAIN job.rows, i < job.next, NEW w \in Row, w = job.rows[i]
      PROVE  Taking(w)'
  <2>1. w.key \in Keys
    BY DEF Row
  <2>2. w.key # row.key
    BY <1>1, <1>2, <1>6 DEF OneRowPerKey, row
  <2>3. shown'[w.key] = shown[w.key] /\ balances'[w.key] = balances[w.key]
    BY <1>3, <2>1, <2>2
  <2>4. Taking(w)
    BY <1>1, <1>6 DEF RowsSoFar
  <2>5. shown[w.key] = w.taken /\ balances[w.key].hcm < Reserved(w.key)
          => ApprovedFor(w.key) = {}
    BY <1>1, <2>4 DEF Taking
  <2> QED
    BY <1>4, <2>3, <2>4, <2>5 DEF Taking
<1>7. ASSUME NEW i \in DOMAIN job.rows, i < job.next + 1, NEW w \in Row, w = job.rows[i]
      PROVE  Taking(w)'
  <2>1. CASE i < job.next
    BY <1>6, <1>7, <2>1
  <2>2. CASE i = job.next
    BY <1>5, <1>7, <2>2 DEF row
  <2> QED
    BY <1>1, <1>2, <1>7, <2>1, <2>2
<1>8. \A i \in DOMAIN job.rows : job.rows[i] \in Row
  BY <1>2
<1> QED
  BY <1>1, <1>7, <1>8 DEF RowsSoFar

LEMMA NextRows ==
  ASSUME ReconTypeOK, Dated, OneRowPerKey, RowsSoFar, [ReconNext]_reconVars
  PROVE  OneRowPerKey' /\ RowsSoFar'
<1>1. CASE StoreRow
  <2>1. job'.rows = job.rows /\ ~Free
    BY <1>1, NextRowTyped DEF StoreRow, Busy
  <2> QED
    BY <1>1, <2>1, StoreKeepsRows DEF OneRowPerKey
<1>2. CASE IgnoreRow
  <2>1. job'.rows = job.rows /\ ~Free
    BY <1>2, NextRowTyped DEF IgnoreRow, Busy
  <2> QED
    BY <1>2, <2>1, IgnoreKeepsRows DEF OneRowPerKey
<1>3. CASE Escalate
  <2>1. UNCHANGED job
    BY <1>3 DEF Escalate
  <2> QED
    BY <1>3, <2>1, EscalateKeepsRows DEF OneRowPerKey, Free
<1>4. CASE Receive
  <2>1. PICK ks \in KeyLists, t \in 1..now :
          \E header \in PushForms \ {"text"} :
            \E form \in [DOMAIN ks -> PushForms \cap {"text", header}] :
              job' = [by   |-> None,
                      rows |-> [i \in DOMAIN ks |-> RowOf(ks[i], t, form[i])],
                      next |-> 1]
    BY <1>4 DEF Receive
  <2>2. PICK form \in [DOMAIN ks -> PushForms] :
          job' = [by   |-> None,
                  rows |-> [i \in DOMAIN ks |-> RowOf(ks[i], t, form[i])],
                  next |-> 1]
    BY <2>1
  <2>3. IsInjective(ks) /\ DOMAIN ks = 1..Len(ks) /\ Len(ks) \in Nat
    BY KeyListTyped DEF KeyLists
  <2>4. /\ job'.next = 1 /\ DOMAIN job'.rows = DOMAIN ks
        /\ \A i \in DOMAIN ks : job'.rows[i].key = ks[i]
    BY <2>2 DEF RowOf
  <2>5. OneRowPerKey'
    BY <2>3, <2>4 DEF OneRowPerKey, IsInjective
  <2>6. \A i \in DOMAIN job'.rows : ~(i < job'.next)
    BY <2>3, <2>4
  <2> QED
    BY <2>5, <2>6 DEF RowsSoFar
<1>5. ASSUME NEW p \in Scans, Resume(p)
      PROVE  OneRowPerKey' /\ RowsSoFar'
  <2>1. job'.next = 1 /\ DOMAIN job'.rows = {1}
    BY <1>5 DEF Resume
  <2>2. \A i \in DOMAIN job'.rows : ~(i < job'.next)
    BY <2>1
  <2> QED
    BY <2>1, <2>2 DEF OneRowPerKey, RowsSoFar
<1>6. CASE HcmMoves \/ FailRow \/ Finish \/ Crash \/ OtherCall
  <2>1. Free'
    BY <1>6 DEF HcmMoves, FailRow, Finish, Crash, OtherCall, Free
  <2> QED
    BY <2>1 DEF OneRowPerKey, RowsSoFar
<1>7. ASSUME NEW p \in Scans, StartScan(p) \/ Answer(p) \/ Skip(p)
      PROVE  OneRowPerKey' /\ RowsSoFar'
  <2>1. Free'
    BY <1>7 DEF StartScan, Answer, Skip, Asking, Free
  <2> QED
    BY <2>1 DEF OneRowPerKey, RowsSoFar
<1>8. CASE UNCHANGED reconVars
  BY <1>8 DEF reconVars, vars, OneRowPerKey, RowsSoFar, Free, Taking, Reserved, OpenFor,
              ApprovedFor, Filed, State
<1> QED
  BY <1>1, <1>2, <1>3, <1>4, <1>5, <1>6, <1>7, <1>8 DEF ReconNext, LoopStep, ScanStep

(* With dates that can be compared, a report or a pull that was answered   *)
(* is in the cache, or something later is, and has paused what its drift   *)
(* is about; so is one that repeats a report a crash cut short.            *)
THEOREM AnsweredTakesEffect ==
  ASSUME PushForms \subseteq TimedForms, PullForms \subseteq TimedForms
  PROVE  ReconSpec => []AnsweredIsInEffect
<1>1. ReconInit => OneRowPerKey /\ RowsSoFar
  BY DEF ReconInit, OneRowPerKey, RowsSoFar, Free
<1>2. ReconTypeOK /\ Dated /\ OneRowPerKey /\ RowsSoFar /\ [ReconNext]_reconVars
        => OneRowPerKey' /\ RowsSoFar'
  BY NextRows
<1>3. ReconTypeOK /\ Dated /\ [ReconNext]_reconVars => Dated'
  BY NextDated
<1>4. ReconTypeOK /\ RowsSoFar => AnsweredIsInEffect
  <2> SUFFICES ASSUME ReconTypeOK, RowsSoFar, Done, NEW i \in DOMAIN job.rows
               PROVE  InEffect(job.rows[i])
    BY DEF AnsweredIsInEffect
  <2>1. job \in Job
    BY DEF ReconTypeOK, Done, Free
  <2>2. i < job.next
    BY <2>1 DEF Done, Job
  <2>3. Taking(job.rows[i]) /\ drift = {}
    BY <2>2 DEF RowsSoFar, Done
  <2> QED
    BY <2>3 DEF Taking, InEffect
<1> QED
  BY <1>1, <1>2, <1>3, <1>4, InitDated, ReconTypeCorrect, PTL DEF ReconSpec

(* What bounds the damage a bad row does to its batch.  Where every push   *)
(* has a date that can be read, validation has left the table nothing to   *)
(* refuse: only a pull can fail, and a pull is a single row.               *)
RowsAreSafe ==
  Free \/ IF job.by = None THEN \A i \in DOMAIN job.rows : Storable(job.rows[i])
                           ELSE Len(job.rows) = 1

LEMMA PushedIsStorable ==
  ASSUME ReconTypeOK, NEW k \in Keys, NEW t \in 1..now, NEW form, form = "number",
         past[t][k] >= 0
  PROVE  Storable(RowOf(k, t, form))
<1>1. Stamp(t, form) = [at |-> t, text |-> form = "text"]
  BY Zenon DEF Stamp
<1>2. t \in 1..MaxTime
  BY TimeAssumption DEF ReconTypeOK
<1>3. [at |-> t, text |-> form = "text"] \in AsOfs
  BY <1>2, TimeAssumption
<1>4. None \notin AsOfs
  BY NoDateAssumption
<1> QED
  BY <1>1, <1>3, <1>4 DEF RowOf, Storable

LEMMA NextRowsAreSafe ==
  ASSUME PushForms \subseteq {"number"},
         ReconTypeOK, RowsAreSafe, [ReconNext]_reconVars
  PROVE  RowsAreSafe'
<1>1. CASE StoreRow \/ IgnoreRow
  <2>1. /\ ~Free /\ job'.rows = job.rows /\ job'.by = job.by
    BY <1>1, NextRowTyped DEF StoreRow, IgnoreRow, Busy
  <2> QED
    BY <2>1 DEF RowsAreSafe, Storable
<1>2. CASE Receive
  <2>1. PICK ks \in KeyLists, t \in 1..now, header \in PushForms \ {"text"} :
          \E form \in [DOMAIN ks -> PushForms \cap {"text", header}] :
            /\ \A i \in DOMAIN ks : past[t][ks[i]] >= 0
            /\ job' = [by   |-> None,
                       rows |-> [i \in DOMAIN ks |-> RowOf(ks[i], t, form[i])],
                       next |-> 1]
    BY <1>2 DEF Receive
  <2>2. PICK form \in [DOMAIN ks -> PushForms] :
            /\ \A i \in DOMAIN ks : past[t][ks[i]] >= 0
            /\ job' = [by   |-> None,
                       rows |-> [i \in DOMAIN ks |-> RowOf(ks[i], t, form[i])],
                       next |-> 1]
    BY <2>1
  <2>3. ASSUME NEW i \in DOMAIN ks PROVE Storable(RowOf(ks[i], t, form[i]))
    <3>1. ks[i] \in Keys
      BY KeyListTyped
    <3>2. form[i] = "number" /\ past[t][ks[i]] >= 0
      BY <2>2
    <3> QED
      BY <3>1, <3>2, PushedIsStorable
  <2> QED
    BY <2>2, <2>3 DEF RowsAreSafe, Storable
<1>3. ASSUME NEW p \in Scans, Resume(p) PROVE RowsAreSafe'
  BY <1>3, TimeAssumption DEF Resume, RowsAreSafe
<1>4. CASE Escalate \/ UNCHANGED reconVars
  BY <1>4 DEF Escalate, reconVars, RowsAreSafe, Free, Storable
<1>5. CASE HcmMoves \/ FailRow \/ Finish \/ Crash \/ OtherCall
  BY <1>5 DEF HcmMoves, FailRow, Finish, Crash, OtherCall, RowsAreSafe, Free
<1>6. ASSUME NEW p \in Scans, StartScan(p) \/ Answer(p) \/ Skip(p) PROVE RowsAreSafe'
  BY <1>6 DEF StartScan, Answer, Skip, Asking, RowsAreSafe, Free
<1> QED
  BY <1>1, <1>2, <1>3, <1>4, <1>5, <1>6 DEF ReconNext, LoopStep, ScanStep

(* A handler ends with its last row or with the single row of a pull.      *)
LEMMA EndsWithItsRows ==
  ASSUME MayCrash = FALSE, ReconTypeOK, RowsAreSafe, RowsSoFar, [ReconNext]_reconVars,
         ~Free, job' = None
  PROVE  \A i \in DOMAIN job.rows :
           LET w == job.rows[i] IN Storable(w) => shown'[w.key] >= w.taken
<1>0. job \in Job /\ job.rows \in Seq(Row) /\ job.next \in Nat \ {0}
  BY DEF ReconTypeOK, Free, Job
<1>1. CASE Finish
  <2>1. \A i \in DOMAIN job.rows : i < job.next
    BY <1>0, <1>1 DEF Finish, Done
  <2> QED
    BY <1>1, <2>1 DEF RowsSoFar, Taking, Finish
<1>2. CASE FailRow
  <2>1. job.next \in DOMAIN job.rows /\ ~Storable(job.rows[job.next])
    BY <1>0, <1>2 DEF FailRow, Busy, row
  <2>2. Len(job.rows) = 1
    BY <2>1 DEF RowsAreSafe
  <2>3. \A i \in DOMAIN job.rows : i = job.next
    BY <1>0, <2>1, <2>2
  <2> QED
    BY <2>1, <2>3
<1>3. ~Crash
  BY DEF Crash
<1>4. ASSUME IgnoreRow \/ StoreRow \/ Escalate PROVE FALSE
  BY <1>4, NextRowTyped DEF IgnoreRow, StoreRow, Escalate, Busy, Free
<1>5. ASSUME UNCHANGED reconVars PROVE FALSE
  BY <1>5 DEF reconVars, Free
<1>6. ASSUME HcmMoves \/ Receive \/ ScanStep \/ OtherCall PROVE FALSE
  BY <1>6 DEF HcmMoves, Receive, ScanStep, StartScan, Answer, Skip, Asking, Resume, OtherCall
<1> QED
  BY <1>1, <1>2, <1>3, <1>4, <1>5, <1>6 DEF ReconNext, LoopStep

(* One bad row spoils its batch only by a date that cannot be read: with   *)
(* numbers for dates no row of a push is lost, whatever its balances and   *)
(* however pulls fail.                                                     *)
THEOREM ReadableRowsAreIndependent ==
  ASSUME PushForms \subseteq {"number"}, PullForms \subseteq TimedForms, MayCrash = FALSE
  PROVE  ReconSpec => RowsAreIndependent
<1> DEFINE Ended == ~Free /\ job' = None =>
             \A i \in DOMAIN job.rows :
               LET w == job.rows[i] IN Storable(w) => shown'[w.key] >= w.taken
<1>0. PushForms \subseteq TimedForms
  BY DEF TimedForms
<1>1. ReconInit => OneRowPerKey /\ RowsSoFar /\ RowsAreSafe
  BY DEF ReconInit, OneRowPerKey, RowsSoFar, RowsAreSafe, Free
<1>2. ReconTypeOK /\ Dated /\ OneRowPerKey /\ RowsSoFar /\ [ReconNext]_reconVars
        => OneRowPerKey' /\ RowsSoFar'
  BY NextRows
<1>3. ReconTypeOK /\ Dated /\ [ReconNext]_reconVars => Dated'
  BY <1>0, NextDated
<1>4. ReconTypeOK /\ RowsAreSafe /\ [ReconNext]_reconVars => RowsAreSafe'
  BY NextRowsAreSafe
<1>5. ReconTypeOK /\ RowsAreSafe /\ RowsSoFar /\ [ReconNext]_reconVars => [Ended]_reconVars
  BY EndsWithItsRows
<1> QED
  BY <1>1, <1>2, <1>3, <1>4, <1>5, InitDated, ReconTypeCorrect, PTL
     DEF ReconSpec, RowsAreIndependent

-----------------------------------------------------------------------------
(* The tables under pushes and pulls *)

LEMMA StepOfTables ==
  ASSUME ReconTypeOK, [ReconNext]_reconVars
  PROVE  StoreRow \/ [Next]_vars
<1>1. CASE Escalate
  BY <1>1 DEF Escalate, ReconTypeOK, Next, WorkerStep
<1>2. CASE OtherCall
  BY <1>2 DEF OtherCall, Next
<1>3. CASE HcmMoves \/ Receive \/ IgnoreRow \/ FailRow \/ Finish \/ Crash \/ ScanStep
  BY <1>3 DEF HcmMoves, Receive, IgnoreRow, FailRow, Finish, Crash, ScanStep,
              StartScan, Answer, Skip, Resume
<1>4. CASE UNCHANGED reconVars
  BY <1>4 DEF reconVars
<1> QED
  BY <1>1, <1>2, <1>3, <1>4 DEF ReconNext, LoopStep

(* A row of a batch moves the granted balance of one account only.         *)
LEMMA StoreIsGrant ==
  ASSUME ReconTypeOK, IInv, StoreRow
  PROVE  /\ IInv' /\ Filed' = Filed
         /\ UNCHANGED LedgerHolds
         /\ row.key \in Keys /\ row.balance \in Readings \cap Nat
         /\ Ledger!Grant(row.key, row.balance)
<1>1. /\ row \in Row /\ row.key \in Keys /\ row.asOf \in AsOf
      /\ row.balance \in Readings \cap Nat
  BY BusyTyped, ReportAssumption DEF StoreRow, Storable, Row
<1>2. UNCHANGED <<requests, reservations, intents>> /\ Filed' = Filed /\ UNCHANGED LedgerHolds
  BY DEF StoreRow, Filed, LedgerHolds
<1>3. IInv'
  <2>1. TypeOK'
    BY StoreTyped
  <2>2. \A r : State(r)' = State(r)
    BY <1>2 DEF State
  <2>3. ReservationFollowsState'
    BY <1>2, <2>2 DEF IInv, ReservationFollowsState
  <2>4. IdBookkeeping'
    BY <1>2, <2>2 DEF IInv, IdBookkeeping
  <2> QED
    BY <2>1, <2>3, <2>4 DEF IInv
<1>4. [hcm |-> row.balance, asOf |-> row.asOf] # None
  BY <1>1 DEF Balance
<1>5. /\ balances'[row.key] = [hcm |-> row.balance, asOf |-> row.asOf]
      /\ \A j \in Keys \ {row.key} : balances'[j] = balances[j]
  BY <1>1 DEF StoreRow, IInv, TypeOK
<1>6. LedgerGranted' = [LedgerGranted EXCEPT ![row.key] = row.balance]
  <2>1. /\ LedgerGranted'[row.key] = row.balance
        /\ \A j \in Keys \ {row.key} : LedgerGranted'[j] = LedgerGranted[j]
    BY <1>1, <1>4, <1>5 DEF LedgerGranted
  <2>2. /\ LedgerGranted' = [j \in Keys |-> LedgerGranted'[j]]
        /\ LedgerGranted = [j \in Keys |-> LedgerGranted[j]]
    BY DEF LedgerGranted
  <2> QED
    BY <1>1, <2>1, <2>2
<1> QED
  BY <1>1, <1>2, <1>3, <1>6 DEF Ledger!Grant

TablesInv == IInv /\ FiledIsFinite

LEMMA TablesInvHolds == ReconSpec => []TablesInv
<1>1. ReconInit => TablesInv
  <2> SUFFICES ASSUME ReconInit PROVE IInv /\ Filed = {}
    BY FS_EmptySet DEF TablesInv, FiledIsFinite
  <2> QED
    BY InitIInv DEF ReconInit, Init, Filed
<1>2. ReconTypeOK /\ TablesInv /\ [ReconNext]_reconVars => TablesInv'
  <2> SUFFICES ASSUME ReconTypeOK, TablesInv, [ReconNext]_reconVars PROVE TablesInv'
    OBVIOUS
  <2>1. CASE StoreRow
    BY <2>1, StoreIsGrant DEF TablesInv, FiledIsFinite
  <2>2. CASE [Next]_vars
    BY <2>2, NextIInv, FiledGrows, FiledStaysFinite DEF TablesInv
  <2> QED
    BY <2>1, <2>2, StepOfTables
<1> QED
  BY <1>1, <1>2, ReconTypeCorrect, PTL DEF ReconSpec

(* Batches, pulls, refused rows and crashes in the middle of them leave    *)
(* reservations, external ids and intents as every operation on its own    *)
(* does.                                                                   *)
THEOREM ReportsKeepTablesSound ==
  ReconSpec => [](ReservationFollowsState /\ OneExternalIdPerRequest /\ ApprovedIsSubmitted)
<1>1. TablesInv => ReservationFollowsState /\ OneExternalIdPerRequest /\ ApprovedIsSubmitted
  BY IInvGivesOneId, IInvGivesSubmitted DEF TablesInv, IInv
<1> QED
  BY <1>1, TablesInvHolds, PTL

(* Whatever the instants batches and pulls are of and whatever order they  *)
(* come in, a balance is overdrawn by a report about its own key only, and *)
(* the reservations implement the ledger.                                  *)
THEOREM ReportsOverdrawTheirOwn == ReconSpec => OnlyReportsOverdraw /\ ImplementsLedger
<1> DEFINE Stays == \A k \in Keys :
             balances[k] # None /\ balances'[k] = balances[k] /\ Effective(k) >= 0
               => Effective(k)' >= 0
<1>1. ReconTypeOK /\ TablesInv /\ TablesInv' /\ [ReconNext]_reconVars => [Stays]_vars
  <2> SUFFICES ASSUME ReconTypeOK, TablesInv, TablesInv', [ReconNext]_reconVars,
                      NEW k \in Keys, balances[k] # None, balances'[k] = balances[k],
                      Effective(k) >= 0
               PROVE  Effective(k)' >= 0
    OBVIOUS
  <2>1. CASE StoreRow
    BY <2>1, StoreIsGrant, LedgerStaysCovered DEF TablesInv
  <2>2. CASE [Next]_vars
    BY <2>2, StepStaysCovered DEF TablesInv
  <2> QED
    BY <2>1, <2>2, StepOfTables
<1>2. ReconTypeOK /\ TablesInv /\ [ReconNext]_reconVars
        => [Ledger!LedgerNext]_(Ledger!ledgerVars)
  BY StepOfTables, StoreIsGrant, StepImplementsLedger DEF TablesInv, Ledger!LedgerNext
<1>3. ReconInit => Ledger!LedgerInit
  BY InitImplementsLedger DEF ReconInit
<1> QED
  BY <1>1, <1>2, <1>3, ReconTypeCorrect, TablesInvHolds, PTL
     DEF ReconSpec, OnlyReportsOverdraw, ImplementsLedger, Ledger!LedgerSpec
=============================================================================
