--------------------------- MODULE TimeOffProofs ---------------------------
(***************************************************************************)
(* Theorems about TimeOff for every value of its constants.                *)
(***************************************************************************)
EXTENDS TimeOff, TLAPS

USE NoneAssumption

(* updateState leaves a row of the right type behind it, and touches only  *)
(* the columns it is meant to.                                             *)
LEMMA PatchedTyped ==
  ASSUME NEW row \in Request, NEW to \in States,
         NEW a \in Users \cup {None}, NEW e \in Nat
  PROVE  /\ Patched(row, to, a, e) \in Request
         /\ Patched(row, to, a, e).state = to
         /\ Patched(row, to, a, e).ext = IF e = 0 THEN row.ext ELSE e
         /\ Patched(row, to, a, e).key = row.key
         /\ Patched(row, to, a, e).days = row.days
  BY DEF Patched, Request

LEMMA MoveToTyped ==
  ASSUME TypeOK, NEW r \in ReqIds, NEW to \in States,
         NEW a \in Users \cup {None}, NEW e \in Nat, MoveTo(r, to, a, e)
  PROVE  requests' \in [ReqIds -> Request \cup {None}]
<1>1. requests[r] \in Request
  BY DEF TypeOK, MoveTo, Filed
<1> QED
  BY <1>1, PatchedTyped DEF TypeOK, MoveTo

(* releaseReservation and consumeReservation too.                          *)
LEMMA SettleTyped ==
  ASSUME TypeOK, NEW r \in ReqIds, NEW outcome \in {"RELEASED", "CONSUMED"},
         Settle(r, outcome)
  PROVE  reservations' \in [ReqIds -> {None, "OPEN", "RELEASED", "CONSUMED"}]
  BY DEF TypeOK, Settle

LEMMA StatesAre ==
  /\ PENDING \in States /\ APPROVED \in States /\ REJECTED \in States
  /\ CANCELLED \in States /\ CONSUMED \in States /\ HCM_FAILED \in States
  /\ REVIEW_REQUIRED \in States
  BY DEF States

LEMMA ExternalIdTyped ==
  ASSUME TypeOK, NEW r \in Filed
  PROVE  ExternalId(r) \in Nat \ {0}
  BY DEF TypeOK, Filed, Request, ExternalId

(* A report of any balance, in Readings or not                             *)
LEMMA ReportTyped ==
  ASSUME TypeOK, NEW k \in Keys, NEW b \in Int, NEW t \in AsOfs,
         applyHcmBalanceSnapshot(k, b, t)
  PROVE  TypeOK'
<1>1. [hcm |-> b, asOf |-> t] \in Balance
  BY ReportAssumption DEF applyHcmBalanceSnapshot, Balance
<1>2. balances' \in [Keys -> Balance \cup {None}]
  BY <1>1 DEF applyHcmBalanceSnapshot, TypeOK
<1>3. PICK hit \in Escalated(k, b) :
        requests' = [r \in ReqIds |->
                      IF r \in hit THEN [requests[r] EXCEPT !.state = REVIEW_REQUIRED]
                                   ELSE requests[r]]
  BY DEF applyHcmBalanceSnapshot
<1>4. hit \subseteq Filed
  BY DEF Escalated, ApprovedFor
<1>5. requests' \in [ReqIds -> Request \cup {None}]
  BY <1>3, <1>4, StatesAre DEF TypeOK, Filed, Request
<1> QED
  BY <1>2, <1>5 DEF applyHcmBalanceSnapshot, TypeOK

LEMMA InitTypeOK == Init => TypeOK
  BY DEF Init, TypeOK

(* Every operation keeps the types.                                        *)
LEMMA NextTypeOK == TypeOK /\ [Next]_vars => TypeOK'
<1> SUFFICES ASSUME TypeOK, [Next]_vars PROVE TypeOK'
  OBVIOUS
<1>1. ASSUME NEW u \in Users, NEW s \in Slots, NEW d \in DayCounts, NEW r \in ReqIds,
             NEW m \in ManagerClaims[u], createRequest(u, m, s, d, r)
      PROVE  TypeOK'
  <2>1. <<u, s>> \in Keys /\ m \in Users \cup {None} /\ d \in Nat \ {0}
    BY UsersAssumption, DaysAssumption DEF Keys
  <2>2. [key |-> <<u, s>>, days |-> d, manager |-> m, state |-> PENDING,
         approver |-> None, ext |-> 0] \in Request
    BY <2>1, StatesAre DEF Request
  <2> QED
    BY <1>1, <2>2 DEF createRequest, TypeOK
<1>2. ASSUME NEW u \in Users, NEW r \in ReqIds, approve(u, r)
      PROVE  TypeOK'
  <2>1. ExternalId(r) \in Nat \ {0}
    BY <1>2, ExternalIdTyped DEF approve
  <2>2. requests' \in [ReqIds -> Request \cup {None}]
    BY <1>2, <2>1, StatesAre, MoveToTyped DEF approve
  <2>3. intents' \in Seq(Intent)
    BY <1>2, <2>1 DEF approve, TypeOK, Intent
  <2> QED
    BY <1>2, <2>2, <2>3 DEF approve, TypeOK
<1>3. ASSUME NEW u \in Users, NEW r \in ReqIds, reject(u, r)
      PROVE  TypeOK'
  BY <1>3, StatesAre, MoveToTyped, SettleTyped DEF reject, releaseReservation, TypeOK
<1>4. ASSUME NEW u \in Users, NEW r \in ReqIds, cancel(u, r)
      PROVE  TypeOK'
  BY <1>4, StatesAre, MoveToTyped, SettleTyped DEF cancel, releaseReservation, TypeOK
<1>5. ASSUME NEW r \in ReqIds, markConsumed(r)
      PROVE  TypeOK'
  BY <1>5, StatesAre, MoveToTyped, SettleTyped
     DEF markConsumed, consumeReservation, AlreadyIn, TypeOK, vars
<1>6. ASSUME NEW r \in ReqIds, markHcmFailed(r)
      PROVE  TypeOK'
  BY <1>6, StatesAre, MoveToTyped, SettleTyped
     DEF markHcmFailed, releaseReservation, AlreadyIn, TypeOK, vars
<1>7. ASSUME NEW r \in ReqIds, markReviewRequired(r)
      PROVE  TypeOK'
  BY <1>7, StatesAre, MoveToTyped DEF markReviewRequired, AlreadyIn, TypeOK, vars
<1>8. ASSUME NEW k \in Keys, NEW b \in Readings, NEW t \in AsOfs,
             applyHcmBalanceSnapshot(k, b, t)
      PROVE  TypeOK'
  BY <1>8, ReportAssumption, ReportTyped
<1>9. CASE UNCHANGED vars
  BY <1>9 DEF TypeOK, vars
<1> QED
  BY <1>1, <1>2, <1>3, <1>4, <1>5, <1>6, <1>7, <1>8, <1>9
     DEF Next, ApproveStep, UserStep, WorkerStep, ReportStep

(* Type correctness of the tables.                                         *)
THEOREM TypeCorrect == Spec => []TypeOK
  BY InitTypeOK, NextTypeOK, PTL DEF Spec
-----------------------------------------------------------------------------
(* The inductive invariant *)

(* Where an edge of the state machine can lead.                            *)
LEMMA EdgesAre ==
  ASSUME NEW s \in States, NEW t \in States, CanTransition(s, t)
  PROVE  /\ s \in Holding \cup {HCM_FAILED}
         /\ t \in Holding \cup {CONSUMED} => s \in Holding
         /\ t \in Submitted \ {APPROVED} => s \in Submitted
  BY DEF CanTransition, Transitions, States, Holding, Submitted, PENDING, APPROVED,
         REJECTED, CANCELLED, CONSUMED, HCM_FAILED, REVIEW_REQUIRED

LEMMA ReservationOfStates ==
  /\ ReservationOf(None) = None
  /\ \A s \in Holding : ReservationOf(s) = "OPEN"
  /\ ReservationOf(CONSUMED) = "CONSUMED"
  /\ \A s \in {REJECTED, CANCELLED, HCM_FAILED} : ReservationOf(s) = "RELEASED"
  BY DEF ReservationOf, States, Holding, PENDING, APPROVED, REJECTED, CANCELLED,
         CONSUMED, HCM_FAILED, REVIEW_REQUIRED

(* What a move leaves: one row changed, but not in its key and its days.   *)
LEMMA MoveToEffect ==
  ASSUME TypeOK, NEW r \in ReqIds, NEW to \in States,
         NEW a \in Users \cup {None}, NEW e \in Nat, MoveTo(r, to, a, e)
  PROVE  /\ r \in Filed /\ State(r) \in States /\ CanTransition(State(r), to)
         /\ Filed' = Filed
         /\ State(r)' = to
         /\ requests'[r].ext = IF e = 0 THEN requests[r].ext ELSE e
         /\ requests'[r].key = requests[r].key /\ requests'[r].days = requests[r].days
         /\ \A q \in ReqIds \ {r} : requests'[q] = requests[q] /\ State(q)' = State(q)
<1>1. r \in Filed /\ requests[r] \in Request
  BY DEF TypeOK, MoveTo, Filed
<1>2. /\ requests'[r] = Patched(requests[r], to, a, e)
      /\ \A q \in ReqIds \ {r} : requests'[q] = requests[q]
  BY DEF MoveTo, TypeOK
<1>3. requests'[r] \in Request /\ requests'[r].state = to
  BY <1>1, <1>2, PatchedTyped
<1>4. Filed' = Filed
  BY <1>1, <1>2, <1>3 DEF Filed
<1>5. State(r)' = to
  BY <1>1, <1>3, <1>4 DEF State
<1>6. \A q \in ReqIds \ {r} : State(q)' = State(q)
  BY <1>2, <1>4 DEF State
<1>7. State(r) \in States
  BY <1>1 DEF State, Request
<1> QED
  BY <1>1, <1>2, <1>4, <1>5, <1>6, <1>7, PatchedTyped DEF MoveTo

(* A move that settles the reservation to match.                           *)
LEMMA SettleFollows ==
  ASSUME TypeOK, ReservationFollowsState,
         NEW r \in ReqIds, NEW to \in {REJECTED, CANCELLED, CONSUMED, HCM_FAILED},
         NEW a \in Users \cup {None}, MoveTo(r, to, a, 0),
         Settle(r, IF to = CONSUMED THEN "CONSUMED" ELSE "RELEASED")
  PROVE  ReservationFollowsState'
<1>1. to \in States
  BY StatesAre
<1>2. /\ State(r) \in States /\ CanTransition(State(r), to)
      /\ State(r)' = to
      /\ \A q \in ReqIds \ {r} : State(q)' = State(q)
  BY <1>1, MoveToEffect
<1>3. /\ State(r) \in Holding \cup {HCM_FAILED}
      /\ to = CONSUMED => State(r) \in Holding
  BY <1>1, <1>2, EdgesAre
<1>4. reservations'[r] = ReservationOf(to)
  <2>1. CASE to = CONSUMED
    BY <1>3, <2>1, ReservationOfStates DEF Settle, TypeOK, ReservationFollowsState
  <2>2. CASE to # CONSUMED
    BY <1>3, <2>2, ReservationOfStates DEF Settle, TypeOK, ReservationFollowsState
  <2> QED
    BY <2>1, <2>2
<1>5. ASSUME NEW q \in ReqIds \ {r}
      PROVE  reservations'[q] = ReservationOf(State(q)')
  BY <1>2 DEF Settle, TypeOK, ReservationFollowsState
<1> QED
  BY <1>2, <1>4, <1>5 DEF ReservationFollowsState, ReservationOf

(* A move between two states that hold the days.                           *)
LEMMA HoldFollows ==
  ASSUME TypeOK, ReservationFollowsState,
         NEW r \in ReqIds, NEW to \in {APPROVED, REVIEW_REQUIRED},
         NEW a \in Users \cup {None}, NEW e \in Nat, MoveTo(r, to, a, e),
         UNCHANGED reservations
  PROVE  ReservationFollowsState'
<1>1. to \in States /\ to \in Holding
  BY StatesAre DEF Holding
<1>2. /\ State(r) \in States /\ CanTransition(State(r), to)
      /\ State(r)' = to
      /\ \A q \in ReqIds \ {r} : State(q)' = State(q)
  BY <1>1, MoveToEffect
<1>3. State(r) \in Holding
  BY <1>1, <1>2, EdgesAre
<1> QED
  BY <1>1, <1>2, <1>3, ReservationOfStates DEF ReservationFollowsState, ReservationOf
(* A move other than an approval leaves the ids alone.                     *)
LEMMA MoveKeepsIds ==
  ASSUME TypeOK, IdBookkeeping,
         NEW r \in ReqIds, NEW to \in States \ {APPROVED},
         NEW a \in Users \cup {None}, MoveTo(r, to, a, 0), UNCHANGED intents
  PROVE  IdBookkeeping'
<1>1. /\ r \in Filed /\ State(r) \in States /\ CanTransition(State(r), to)
      /\ Filed' = Filed
      /\ State(r)' = to
      /\ \A q \in Filed : requests'[q].ext = requests[q].ext
      /\ \A q \in Filed \ {r} : State(q)' = State(q)
  BY MoveToEffect DEF Filed
<1>2. State(r)' \in Submitted => State(r) \in Submitted
  BY <1>1, EdgesAre
<1> QED
  BY <1>1, <1>2 DEF IdBookkeeping

(* An approval adds one row, under the id of the request.                  *)
LEMMA ApproveKeepsIds ==
  ASSUME TypeOK, IdBookkeeping,
         NEW u \in Users, NEW r \in ReqIds, approve(u, r)
  PROVE  IdBookkeeping'
<1> DEFINE e == ExternalId(r)
           n == Len(intents)
<1>1. r \in Filed /\ requests[r] \in Request /\ requests[r].ext \in Nat
  BY DEF approve, TypeOK, Filed, Request
<1>2. e \in Nat \ {0} /\ n \in Nat
  BY <1>1, ExternalIdTyped DEF TypeOK
<1>3. /\ Filed' = Filed
      /\ requests'[r].ext = e
      /\ \A q \in Filed \ {r} : requests'[q].ext = requests[q].ext
      /\ \A q \in Filed \ {r} : State(q)' = State(q)
  BY <1>1, <1>2, StatesAre, MoveToEffect DEF approve, Filed
<1>4. /\ Len(intents') = n + 1
      /\ intents'[n + 1] = [req |-> r, ext |-> e]
      /\ DOMAIN intents = 1..n /\ DOMAIN intents' = 1..(n + 1)
      /\ \A i \in DOMAIN intents : intents'[i] = intents[i]
  BY <1>2 DEF approve, TypeOK
<1>5. \A q \in Filed : requests[q].ext \in Nat /\ requests[q].ext <= n
  BY DEF IdBookkeeping, TypeOK, Filed, Request
<1>6. e <= n + 1 /\ (requests[r].ext # 0 => e = requests[r].ext)
                 /\ (requests[r].ext = 0 => e = n + 1)
  BY <1>1, <1>2, <1>5 DEF ExternalId
<1>7. \A q \in Filed' : requests'[q].ext <= Len(intents')
  BY <1>2, <1>3, <1>4, <1>5, <1>6
<1>8. \A q \in Filed' : State(q)' \in Submitted => requests'[q].ext # 0
  BY <1>2, <1>3 DEF IdBookkeeping
<1>9. ASSUME NEW q \in Filed', requests'[q].ext # 0
      PROVE  \E i \in DOMAIN intents' : intents'[i].req = q
  <2>1. CASE q = r
    BY <1>2, <1>4, <2>1
  <2>2. CASE q # r
    <3>1. PICK i \in DOMAIN intents : intents[i].req = q
      BY <1>3, <1>9, <2>2 DEF IdBookkeeping
    <3> QED
      BY <1>2, <1>4, <3>1
  <2> QED
    BY <2>1, <2>2
<1>10. ASSUME NEW i \in DOMAIN intents'
       PROVE  intents'[i].req \in Filed' /\ intents'[i].ext = requests'[intents'[i].req].ext
  <2>1. CASE i = n + 1
    BY <1>1, <1>3, <1>4, <2>1
  <2>2. CASE i # n + 1
    <3>1. i \in DOMAIN intents /\ intents'[i] = intents[i]
      BY <1>2, <1>4, <2>2
    <3>2. /\ intents[i].req \in Filed /\ intents[i].ext = requests[intents[i].req].ext
          /\ intents[i].ext # 0
      <4>1. intents[i] \in Intent
        BY <3>1 DEF TypeOK
      <4> QED
        BY <3>1, <4>1 DEF IdBookkeeping, Intent
    <3> QED
      BY <1>3, <1>6, <3>1, <3>2
  <2> QED
    BY <2>1, <2>2
<1>11. ASSUME NEW q \in Filed', NEW s \in Filed',
              requests'[q].ext = requests'[s].ext, requests'[q].ext # 0
       PROVE  q = s
  <2>1. ASSUME NEW x \in Filed \ {r} PROVE requests[x].ext # e
    <3>1. CASE requests[r].ext = 0
      BY <1>2, <1>5, <1>6, <3>1
    <3>2. CASE requests[r].ext # 0
      BY <1>1, <1>6, <3>2 DEF IdBookkeeping
    <3> QED
      BY <3>1, <3>2
  <2> QED
    BY <1>3, <1>11, <2>1 DEF IdBookkeeping
<1> QED
  BY <1>7, <1>8, <1>9, <1>10, <1>11 DEF IdBookkeeping

(* A filing adds one request that is PENDING and has no external id.       *)
LEMMA CreateEffect ==
  ASSUME IInv, NEW u \in Users, NEW s \in Slots, NEW d \in DayCounts, NEW r \in ReqIds,
         NEW m \in ManagerClaims[u], createRequest(u, m, s, d, r)
  PROVE  /\ r \notin Filed /\ Filed' = Filed \cup {r}
         /\ State(r)' = PENDING /\ requests'[r].ext = 0
         /\ \A q \in ReqIds \ {r} : requests'[q] = requests[q] /\ State(q)' = State(q)
         /\ reservations' = [reservations EXCEPT ![r] = "OPEN"]
         /\ UNCHANGED intents
<1>1. /\ requests'[r].state = PENDING /\ requests'[r].ext = 0
      /\ \A q \in ReqIds \ {r} : requests'[q] = requests[q]
      /\ reservations' = [reservations EXCEPT ![r] = "OPEN"]
      /\ UNCHANGED intents
      /\ r \notin Filed
  BY DEF createRequest, IInv, TypeOK
<1>2. requests'[r] # None
  <2>1. <<u, s>> \in Keys /\ m \in Users \cup {None} /\ d \in Nat \ {0}
    BY UsersAssumption, DaysAssumption DEF Keys
  <2>2. [key |-> <<u, s>>, days |-> d, manager |-> m, state |-> PENDING,
         approver |-> None, ext |-> 0] \in Request
    BY <2>1, StatesAre DEF Request
  <2> QED
    BY <2>2 DEF createRequest, IInv, TypeOK
<1>3. Filed' = Filed \cup {r}
  BY <1>1, <1>2 DEF Filed
<1>4. State(r)' = PENDING /\ \A q \in ReqIds \ {r} : State(q)' = State(q)
  BY <1>1, <1>3 DEF State
<1> QED
  BY <1>1, <1>3, <1>4

LEMMA CreateKeepsInv ==
  ASSUME IInv, NEW u \in Users, NEW s \in Slots, NEW d \in DayCounts, NEW r \in ReqIds,
         NEW m \in ManagerClaims[u], createRequest(u, m, s, d, r)
  PROVE  ReservationFollowsState' /\ IdBookkeeping'
<1>1. /\ r \notin Filed /\ Filed' = Filed \cup {r}
      /\ State(r)' = PENDING /\ requests'[r].ext = 0
      /\ \A q \in ReqIds \ {r} : requests'[q] = requests[q] /\ State(q)' = State(q)
      /\ reservations' = [reservations EXCEPT ![r] = "OPEN"]
      /\ UNCHANGED intents
  BY CreateEffect
<1>2. PENDING \in Holding /\ PENDING \notin Submitted
  BY DEF Holding, Submitted, PENDING, APPROVED, REVIEW_REQUIRED, CONSUMED, HCM_FAILED
<1>3. ReservationFollowsState'
  BY <1>1, <1>2, ReservationOfStates
     DEF IInv, TypeOK, ReservationFollowsState, ReservationOf
<1>4. IdBookkeeping'
  <2>1. \A q \in Filed : q # r /\ requests'[q].ext = requests[q].ext /\ State(q)' = State(q)
    BY <1>1 DEF Filed
  <2>2. Len(intents) \in Nat
    BY DEF IInv, TypeOK
  <2> QED
    BY <1>1, <1>2, <2>1, <2>2 DEF IInv, IdBookkeeping
<1> QED
  BY <1>3, <1>4

(* A report moves requests from APPROVED to REVIEW_REQUIRED at most.       *)
LEMMA ReportEffect ==
  ASSUME IInv, NEW k \in Keys, NEW b \in Int, NEW t \in AsOfs,
         applyHcmBalanceSnapshot(k, b, t)
  PROVE  /\ Filed' = Filed /\ UNCHANGED <<reservations, intents>>
         /\ \A r \in Filed : /\ requests'[r].ext = requests[r].ext
                             /\ requests'[r].key = requests[r].key
                             /\ requests'[r].days = requests[r].days
         /\ \A r \in ReqIds : \/ State(r)' = State(r)
                              \/ State(r) = APPROVED /\ State(r)' = REVIEW_REQUIRED
<1>1. PICK hit \in Escalated(k, b) :
        requests' = [r \in ReqIds |->
                      IF r \in hit THEN [requests[r] EXCEPT !.state = REVIEW_REQUIRED]
                                   ELSE requests[r]]
  BY DEF applyHcmBalanceSnapshot
<1>2. \A r \in hit : r \in Filed /\ State(r) = APPROVED
  BY DEF Escalated, ApprovedFor
<1>3. ASSUME NEW r \in Filed
      PROVE  /\ requests'[r] # None
             /\ requests'[r].ext = requests[r].ext
             /\ requests'[r].key = requests[r].key /\ requests'[r].days = requests[r].days
             /\ requests'[r].state = IF r \in hit THEN REVIEW_REQUIRED ELSE requests[r].state
  <2>1. requests[r] \in Request
    BY DEF IInv, TypeOK, Filed
  <2>2. [requests[r] EXCEPT !.state = REVIEW_REQUIRED] \in Request
    BY <2>1, StatesAre DEF Request
  <2> QED
    BY <1>1, <2>1, <2>2 DEF Filed, Request
<1>4. Filed' = Filed
  BY <1>1, <1>2, <1>3 DEF Filed
<1>5. \A r \in ReqIds : State(r)' = IF r \in hit THEN REVIEW_REQUIRED ELSE State(r)
  BY <1>2, <1>3, <1>4 DEF State
<1> QED
  BY <1>2, <1>3, <1>4, <1>5 DEF applyHcmBalanceSnapshot

LEMMA ReportKeepsInv ==
  ASSUME IInv, NEW k \in Keys, NEW b \in Int, NEW t \in AsOfs,
         applyHcmBalanceSnapshot(k, b, t)
  PROVE  ReservationFollowsState' /\ IdBookkeeping'
<1>1. /\ Filed' = Filed /\ UNCHANGED <<reservations, intents>>
      /\ \A r \in Filed : requests'[r].ext = requests[r].ext
      /\ \A r \in ReqIds : \/ State(r)' = State(r)
                           \/ State(r) = APPROVED /\ State(r)' = REVIEW_REQUIRED
  BY ReportEffect
<1>2. /\ APPROVED \in Holding /\ REVIEW_REQUIRED \in Holding
      /\ APPROVED \in Submitted /\ REVIEW_REQUIRED \in Submitted
  BY DEF Holding, Submitted
<1>3. ReservationFollowsState'
  BY <1>1, <1>2, ReservationOfStates DEF IInv, ReservationFollowsState, ReservationOf
<1>4. IdBookkeeping'
  <2>1. \A r \in Filed : State(r)' \in Submitted => State(r) \in Submitted
    BY <1>1, <1>2 DEF Filed
  <2> QED
    BY <1>1, <2>1 DEF IInv, IdBookkeeping
<1> QED
  BY <1>3, <1>4

LEMMA InitIInv == Init => IInv
<1> SUFFICES ASSUME Init PROVE IInv
  OBVIOUS
<1>1. Filed = {} /\ \A r \in ReqIds : State(r) = None
  BY DEF Init, Filed, State
<1> QED
  BY <1>1, InitTypeOK, ReservationOfStates
     DEF Init, IInv, ReservationFollowsState, IdBookkeeping

(* Every operation keeps the invariant.                                    *)
LEMMA NextIInv == IInv /\ [Next]_vars => IInv'
<1> SUFFICES ASSUME IInv, [Next]_vars
             PROVE  ReservationFollowsState' /\ IdBookkeeping'
  BY NextTypeOK DEF IInv
<1> USE DEF IInv
<1>1. ASSUME NEW u \in Users, NEW s \in Slots, NEW d \in DayCounts, NEW r \in ReqIds,
             NEW m \in ManagerClaims[u], createRequest(u, m, s, d, r)
      PROVE  ReservationFollowsState' /\ IdBookkeeping'
  BY <1>1, CreateKeepsInv
<1>2. ASSUME NEW u \in Users, NEW r \in ReqIds, approve(u, r)
      PROVE  ReservationFollowsState' /\ IdBookkeeping'
  <2>1. ExternalId(r) \in Nat
    BY <1>2, ExternalIdTyped DEF approve
  <2> QED
    BY <1>2, <2>1, HoldFollows, ApproveKeepsIds DEF approve
<1>3. ASSUME NEW u \in Users, NEW r \in ReqIds, reject(u, r)
      PROVE  ReservationFollowsState' /\ IdBookkeeping'
  <2>1. REJECTED \in States \ {APPROVED} /\ REJECTED # CONSUMED
    BY DEF States, REJECTED, APPROVED, CONSUMED
  <2> QED
    BY <1>3, <2>1, SettleFollows, MoveKeepsIds DEF reject, releaseReservation
<1>4. ASSUME NEW u \in Users, NEW r \in ReqIds, cancel(u, r)
      PROVE  ReservationFollowsState' /\ IdBookkeeping'
  <2>1. CANCELLED \in States \ {APPROVED} /\ CANCELLED # CONSUMED
    BY DEF States, CANCELLED, APPROVED, CONSUMED
  <2> QED
    BY <1>4, <2>1, SettleFollows, MoveKeepsIds DEF cancel, releaseReservation
<1>5. CASE UNCHANGED vars
  BY <1>5 DEF vars, ReservationFollowsState, ReservationOf, IdBookkeeping, State, Filed
<1>6. ASSUME NEW r \in ReqIds, markConsumed(r)
      PROVE  ReservationFollowsState' /\ IdBookkeeping'
  <2>1. CONSUMED \in States \ {APPROVED}
    BY DEF States, CONSUMED, APPROVED
  <2> QED
    BY <1>5, <1>6, <2>1, SettleFollows, MoveKeepsIds
       DEF markConsumed, consumeReservation, AlreadyIn
<1>7. ASSUME NEW r \in ReqIds, markHcmFailed(r)
      PROVE  ReservationFollowsState' /\ IdBookkeeping'
  <2>1. HCM_FAILED \in States \ {APPROVED} /\ HCM_FAILED # CONSUMED
    BY DEF States, HCM_FAILED, APPROVED, CONSUMED
  <2> QED
    BY <1>5, <1>7, <2>1, SettleFollows, MoveKeepsIds
       DEF markHcmFailed, releaseReservation, AlreadyIn
<1>8. ASSUME NEW r \in ReqIds, markReviewRequired(r)
      PROVE  ReservationFollowsState' /\ IdBookkeeping'
  <2>1. REVIEW_REQUIRED \in States \ {APPROVED}
    BY DEF States, REVIEW_REQUIRED, APPROVED
  <2> QED
    BY <1>5, <1>8, <2>1, HoldFollows, MoveKeepsIds DEF markReviewRequired, AlreadyIn
<1>9. ASSUME NEW k \in Keys, NEW b \in Readings, NEW t \in AsOfs,
             applyHcmBalanceSnapshot(k, b, t)
      PROVE  ReservationFollowsState' /\ IdBookkeeping'
  BY <1>9, ReportAssumption, ReportKeepsInv
<1> QED
  BY <1>1, <1>2, <1>3, <1>4, <1>5, <1>6, <1>7, <1>8, <1>9
     DEF Next, ApproveStep, UserStep, WorkerStep, ReportStep

THEOREM IInvHolds == Spec => []IInv
  BY InitIInv, NextIInv, PTL DEF Spec

-----------------------------------------------------------------------------
(* What follows from it *)

(* A reservation counts against the balance exactly while its request      *)
(* holds its days, and is settled the way the request ended.               *)
THEOREM ReservationsFollowStates == Spec => []ReservationFollowsState
<1>1. IInv => ReservationFollowsState
  BY DEF IInv
<1> QED
  BY <1>1, IInvHolds, PTL

LEMMA IInvGivesOneId == IInv => OneExternalIdPerRequest
<1> SUFFICES ASSUME IInv, NEW i \in DOMAIN intents, NEW j \in DOMAIN intents
             PROVE  intents[i].ext = intents[j].ext <=> intents[i].req = intents[j].req
  BY DEF OneExternalIdPerRequest
<1>1. intents[i] \in Intent /\ intents[j] \in Intent
  BY DEF IInv, TypeOK
<1>2. intents[i].ext # 0
  BY <1>1 DEF Intent
<1> QED
  BY <1>2 DEF IInv, IdBookkeeping

(* HCM can tell the requests apart by the external id, and cannot take two *)
(* attempts for the same request for two requests.                         *)
THEOREM ExternalIdsIdentify == Spec => []OneExternalIdPerRequest
  BY IInvGivesOneId, IInvHolds, PTL

LEMMA IInvGivesSubmitted == IInv => ApprovedIsSubmitted
<1> SUFFICES ASSUME IInv, NEW r \in Filed, State(r) \in Submitted
             PROVE  \E i \in DOMAIN intents :
                      intents[i] = [req |-> r, ext |-> requests[r].ext]
  BY DEF ApprovedIsSubmitted
<1>1. PICK i \in DOMAIN intents : intents[i].req = r
  BY DEF IInv, IdBookkeeping
<1>2. intents[i] \in Intent /\ intents[i].ext = requests[r].ext
  BY <1>1 DEF IInv, TypeOK, IdBookkeeping
<1> QED
  BY <1>1, <1>2 DEF Intent

(* No request is approved without a row of the outbox that submits it.     *)
THEOREM ApprovedRequestsAreSubmitted == Spec => []ApprovedIsSubmitted
  BY IInvGivesSubmitted, IInvHolds, PTL

(* An external id is the number of a row of the outbox and belongs to one  *)
(* request, with which it is stored.                                       *)
THEOREM IdsAreBookkept == Spec => []IdBookkeeping
<1>1. IInv => IdBookkeeping
  BY DEF IInv
<1> QED
  BY <1>1, IInvHolds, PTL

-----------------------------------------------------------------------------
(* Drift *)

(* No operation but a report touches the cache.                            *)
LEMMA CallsKeepCache == ApproveStep \/ UserStep \/ WorkerStep => UNCHANGED balances
<1>1. ASSUME WorkerStep PROVE UNCHANGED balances
  BY <1>1 DEF WorkerStep, markConsumed, markHcmFailed, markReviewRequired, AlreadyIn, vars
<1>2. ASSUME ApproveStep PROVE UNCHANGED balances
  BY <1>2 DEF ApproveStep, approve
<1>3. ASSUME UserStep PROVE UNCHANGED balances
  BY <1>3 DEF UserStep, createRequest, reject, cancel
<1> QED
  BY <1>1, <1>2, <1>3

(* What a report does to the requests when the process survives it         *)
LEMMA ReportPauses ==
  ASSUME ~MayCrash, IInv, NEW k \in Keys, NEW b \in Int, NEW t \in AsOfs,
         applyHcmBalanceSnapshot(k, b, t)
  PROVE  /\ b < Reserved(k)' => ApprovedFor(k)' = {}
         /\ \A r \in Filed : State(r)' # State(r) =>
              requests[r].key = k /\ b < Reserved(k)
<1> DEFINE hit == IF b < Reserved(k) THEN ApprovedFor(k) ELSE {}
<1>1. requests' = [r \in ReqIds |->
                     IF r \in hit THEN [requests[r] EXCEPT !.state = REVIEW_REQUIRED]
                                  ELSE requests[r]]
  <2>1. Escalated(k, b) = {hit}
    BY DEF Escalated
  <2> QED
    BY <2>1 DEF applyHcmBalanceSnapshot
<1>2. Filed' = Filed /\ UNCHANGED <<reservations, intents>>
  BY ReportEffect
<1>3. ASSUME NEW r \in Filed
      PROVE  /\ requests'[r].key = requests[r].key /\ requests'[r].days = requests[r].days
             /\ requests'[r].state = IF r \in hit THEN REVIEW_REQUIRED ELSE requests[r].state
  <2>1. requests[r] \in Request /\ r \in ReqIds
    BY DEF IInv, TypeOK, Filed
  <2> QED
    BY <1>1, <2>1 DEF Request
<1>4. \A r \in Filed : State(r)' = IF r \in hit THEN REVIEW_REQUIRED ELSE State(r)
  BY <1>2, <1>3 DEF State
<1>5. Reserved(k)' = Reserved(k)
  <2>1. OpenFor(k)' = OpenFor(k) /\ OpenFor(k) \subseteq Filed
    BY <1>2, <1>3 DEF OpenFor
  <2>2. [q \in OpenFor(k) |-> Thousandths(requests[q].days)]'
          = [q \in OpenFor(k) |-> Thousandths(requests[q].days)]
    BY <1>3, <2>1
  <2> QED
    BY <2>2 DEF Reserved
<1>6. REVIEW_REQUIRED # APPROVED
  BY DEF REVIEW_REQUIRED, APPROVED
<1>7. ASSUME b < Reserved(k)' PROVE ApprovedFor(k)' = {}
  <2>1. hit = ApprovedFor(k)
    BY <1>5, <1>7
  <2> QED
    BY <1>2, <1>3, <1>4, <1>6, <2>1 DEF ApprovedFor
<1>8. ASSUME NEW r \in Filed, State(r)' # State(r)
      PROVE  requests[r].key = k /\ b < Reserved(k)
  BY <1>4, <1>8 DEF ApprovedFor
<1> QED
  BY <1>7, <1>8

(* When no crash comes between the report and the escalations, a report    *)
(* that leaves a key short pauses whatever was approved of it, and no      *)
(* report does anything to the requests of other keys.                     *)
THEOREM DriftPauses ==
  ASSUME ~MayCrash
  PROVE  Spec => DriftPausesApproved
<1> DEFINE Pauses(k) ==
             balances'[k] # balances[k] =>
               /\ balances'[k].hcm < Reserved(k)' => ApprovedFor(k)' = {}
               /\ \A r \in Filed : State(r)' # State(r) =>
                    requests[r].key = k /\ balances'[k].hcm < Reserved(k)
<1>1. ASSUME IInv, [Next]_vars, NEW k \in Keys, balances'[k] # balances[k]
      PROVE  Pauses(k)
  <2>1. balances' # balances
    BY <1>1
  <2>2. PICK l \in Keys, b \in Readings, t \in AsOfs : applyHcmBalanceSnapshot(l, b, t)
    BY <1>1, <2>1, CallsKeepCache DEF Next, ReportStep, vars
  <2>3. /\ balances' = [balances EXCEPT ![l] = [hcm |-> b, asOf |-> t]]
        /\ balances \in [Keys -> Balance \cup {None}]
    BY <1>1, <2>2 DEF applyHcmBalanceSnapshot, IInv, TypeOK
  <2>4. l = k
    BY <1>1, <2>3
  <2>5. balances'[k].hcm = b
    BY <2>3, <2>4
  <2>6. b \in Int
    BY ReportAssumption
  <2>7. /\ b < Reserved(k)' => ApprovedFor(k)' = {}
        /\ \A r \in Filed : State(r)' # State(r) =>
             requests[r].key = k /\ b < Reserved(k)
    BY <1>1, <2>2, <2>4, <2>6, ReportPauses
  <2> QED
    BY <2>5, <2>7
<1>2. IInv /\ [Next]_vars => [\A k \in Keys : Pauses(k)]_vars
  BY <1>1
<1> QED
  BY <1>2, IInvHolds, PTL DEF Spec, DriftPausesApproved
=============================================================================
