---------------------------- MODULE LedgerProofs ----------------------------
(***************************************************************************)
(* TimeOff implements LeaveLedger: every operation is a step of the ledger *)
(* or leaves it as it is.                                                  *)
(***************************************************************************)
EXTENDS TimeOffProofs, SumProofs

USE NoneAssumption

LEMMA FiledHasHold ==
  ASSUME IInv, NEW r \in Filed
  PROVE  /\ requests[r] \in Request
         /\ reservations[r] \in {"OPEN", "RELEASED", "CONSUMED"}
         /\ LedgerHolds[r] = [status  |-> HoldStatus(reservations[r]),
                              account |-> requests[r].key,
                              size    |-> Thousandths(requests[r].days)]
         /\ LedgerHolds[r] # None
         /\ LedgerHolds[r].account = requests[r].key
         /\ LedgerHolds[r].size = Thousandths(requests[r].days)
         /\ (LedgerHolds[r].status = "held") <=> (reservations[r] = "OPEN")
<1>1. r \in ReqIds /\ requests[r] \in Request /\ State(r) \in States /\ State(r) # None
  BY DEF IInv, TypeOK, Filed, State, Request
<1>2. reservations[r] \in {"OPEN", "RELEASED", "CONSUMED"}
  BY <1>1 DEF IInv, ReservationFollowsState, ReservationOf
<1>3. LedgerHolds[r] = [status  |-> HoldStatus(reservations[r]),
                        account |-> requests[r].key,
                        size    |-> Thousandths(requests[r].days)]
  BY <1>1, <1>2 DEF LedgerHolds
<1>4. /\ HoldStatus(reservations[r]) \in {"held", "returned", "spent"}
      /\ (HoldStatus(reservations[r]) = "held") <=> (reservations[r] = "OPEN")
  BY <1>2 DEF HoldStatus
<1>5. Thousandths(requests[r].days) \in Int /\ requests[r].key \in Keys
  BY <1>1 DEF Thousandths, Request
<1>6. LedgerHolds[r] \in Hold
  BY <1>3, <1>4, <1>5 DEF Hold
<1> QED
  BY <1>1, <1>2, <1>3, <1>4, <1>6

LEMMA UnfiledHasNone ==
  ASSUME IInv, NEW r \in ReqIds, r \notin Filed
  PROVE  reservations[r] = None /\ LedgerHolds[r] = None
<1>1. reservations[r] = None
  BY ReservationOfStates DEF IInv, ReservationFollowsState, State
<1> QED
  BY <1>1 DEF LedgerHolds

(* The balance createRequest checks is what the ledger has available.      *)
LEMMA AvailableIsEffective ==
  ASSUME IInv, NEW k \in Keys, balances[k] # None
  PROVE  Ledger!Available(k) = Effective(k)
<1>1. Ledger!Held(k) = OpenFor(k)
  <2>1. ASSUME NEW r \in ReqIds
        PROVE  r \in Ledger!Held(k) <=> r \in OpenFor(k)
    <3>1. CASE r \in Filed
      BY <3>1, FiledHasHold DEF Ledger!Held, OpenFor
    <3>2. CASE r \notin Filed
      BY <3>2, UnfiledHasNone DEF Ledger!Held, OpenFor
    <3> QED
      BY <3>1, <3>2
  <2> QED
    BY <2>1 DEF Ledger!Held, OpenFor, Filed
<1>2. \A r \in OpenFor(k) : LedgerHolds[r].size = Thousandths(requests[r].days)
  BY FiledHasHold DEF OpenFor
<1>3. [r \in Ledger!Held(k) |-> LedgerHolds[r].size]
        = [r \in OpenFor(k) |-> Thousandths(requests[r].days)]
  BY <1>1, <1>2
<1>4. LedgerGranted[k] = balances[k].hcm
  BY DEF LedgerGranted
<1> QED
  BY <1>3, <1>4 DEF Ledger!Available, Effective, Reserved

(* What a move does to the holds of the ledger.                            *)
LEMMA MoveHolds ==
  ASSUME IInv, NEW r \in ReqIds, NEW to \in States,
         NEW a \in Users \cup {None}, NEW e \in Nat, MoveTo(r, to, a, e),
         NEW s \in {"OPEN", "RELEASED", "CONSUMED"},
         reservations' = [reservations EXCEPT ![r] = s]
  PROVE  LedgerHolds' = [LedgerHolds EXCEPT ![r].status = HoldStatus(s)]
<1>1. /\ r \in Filed
      /\ requests'[r].key = requests[r].key /\ requests'[r].days = requests[r].days
      /\ \A q \in ReqIds \ {r} : requests'[q] = requests[q]
  BY MoveToEffect DEF IInv
<1>2. reservations'[r] = s /\ \A q \in ReqIds \ {r} : reservations'[q] = reservations[q]
  BY DEF IInv, TypeOK
<1>3. LedgerHolds'[r] = [LedgerHolds[r] EXCEPT !.status = HoldStatus(s)]
  <2>1. LedgerHolds'[r] = [status  |-> HoldStatus(s),
                           account |-> requests[r].key,
                           size    |-> Thousandths(requests[r].days)]
    BY <1>1, <1>2 DEF LedgerHolds
  <2>2. LedgerHolds[r] = [status  |-> HoldStatus(reservations[r]),
                          account |-> requests[r].key,
                          size    |-> Thousandths(requests[r].days)]
    BY <1>1, FiledHasHold
  <2> QED
    BY <2>1, <2>2
<1>4. \A q \in ReqIds \ {r} : LedgerHolds'[q] = LedgerHolds[q]
  BY <1>1, <1>2 DEF LedgerHolds
<1>5. /\ LedgerHolds' = [q \in ReqIds |-> LedgerHolds'[q]]
      /\ LedgerHolds = [q \in ReqIds |-> LedgerHolds[q]]
  BY DEF LedgerHolds
<1> QED
  BY <1>3, <1>4, <1>5

(* releaseReservation and consumeReservation: the ledger gives back or     *)
(* spends the hold, unless it was given back before.                       *)
LEMMA SettleIsConclude ==
  ASSUME IInv, NEW r \in ReqIds, NEW to \in States,
         NEW a \in Users \cup {None}, MoveTo(r, to, a, 0),
         NEW s \in {"RELEASED", "CONSUMED"}, Settle(r, s), UNCHANGED balances
  PROVE  \/ s = "RELEASED" /\ Ledger!GiveBack(r)
         \/ s = "CONSUMED" /\ Ledger!Spend(r)
         \/ UNCHANGED Ledger!ledgerVars
<1>1. r \in Filed /\ UNCHANGED LedgerGranted
  BY MoveToEffect DEF IInv, LedgerGranted
<1>2. CASE reservations[r] = "OPEN"
  <2>1. reservations' = [reservations EXCEPT ![r] = s]
    BY <1>2 DEF Settle
  <2>2. LedgerHolds' = [LedgerHolds EXCEPT ![r].status = HoldStatus(s)]
    BY <2>1, MoveHolds
  <2>3. LedgerHolds[r] # None /\ LedgerHolds[r].status = "held"
    BY <1>1, <1>2, FiledHasHold
  <2>4. /\ s = "RELEASED" => HoldStatus(s) = "returned"
        /\ s = "CONSUMED" => HoldStatus(s) = "spent"
    BY DEF HoldStatus
  <2> QED
    BY <1>1, <2>2, <2>3, <2>4 DEF Ledger!GiveBack, Ledger!Spend, Ledger!Conclude
<1>3. CASE reservations[r] # "OPEN"
  <2>1. reservations' = [reservations EXCEPT ![r] = reservations[r]]
    BY <1>3 DEF Settle
  <2>2. reservations[r] \in {"OPEN", "RELEASED", "CONSUMED"}
    BY <1>1, FiledHasHold
  <2>3. LedgerHolds' = [LedgerHolds EXCEPT ![r].status = HoldStatus(reservations[r])]
    BY <2>1, <2>2, MoveHolds
  <2>4. LedgerHolds' = LedgerHolds
    BY <1>1, <2>3, FiledHasHold DEF LedgerHolds
  <2> QED
    BY <1>1, <2>4 DEF Ledger!ledgerVars
<1> QED
  BY <1>2, <1>3

(* Approvals and reviews.                                                  *)
LEMMA HoldIsKept ==
  ASSUME IInv, NEW r \in ReqIds, NEW to \in States,
         NEW a \in Users \cup {None}, NEW e \in Nat, MoveTo(r, to, a, e),
         UNCHANGED <<balances, reservations>>
  PROVE  UNCHANGED Ledger!ledgerVars
<1>1. /\ requests'[r].key = requests[r].key /\ requests'[r].days = requests[r].days
      /\ \A q \in ReqIds \ {r} : requests'[q] = requests[q]
  BY MoveToEffect DEF IInv
<1>2. LedgerHolds' = LedgerHolds
  BY <1>1 DEF LedgerHolds
<1> QED
  BY <1>2 DEF Ledger!ledgerVars, LedgerGranted

(* A filing sets the days aside, and only when they are available.         *)
LEMMA CreateIsSetAside ==
  ASSUME IInv, NEW u \in Users, NEW x \in Slots, NEW d \in DayCounts, NEW r \in ReqIds,
         NEW m \in ManagerClaims[u], createRequest(u, m, x, d, r)
  PROVE  Ledger!SetAside(r, <<u, x>>, Thousandths(d))
<1>1. <<u, x>> \in Keys /\ m \in Users \cup {None} /\ d \in Nat \ {0}
  BY UsersAssumption, DaysAssumption DEF Keys
<1>2. LedgerHolds[r] = None
  BY UnfiledHasNone DEF createRequest
<1>3. Thousandths(d) <= Ledger!Available(<<u, x>>)
  BY <1>1, AvailableIsEffective DEF createRequest
<1>4. /\ requests'[r].key = <<u, x>> /\ requests'[r].days = d
      /\ reservations'[r] = "OPEN"
      /\ \A q \in ReqIds \ {r} : /\ requests'[q] = requests[q]
                                 /\ reservations'[q] = reservations[q]
  BY DEF createRequest, IInv, TypeOK
<1>5. LedgerHolds'[r] = [status |-> "held", account |-> <<u, x>>, size |-> Thousandths(d)]
  BY <1>4 DEF LedgerHolds, HoldStatus
<1>6. \A q \in ReqIds \ {r} : LedgerHolds'[q] = LedgerHolds[q]
  BY <1>4 DEF LedgerHolds
<1>7. LedgerHolds' = [LedgerHolds EXCEPT ![r] =
                        [status |-> "held", account |-> <<u, x>>, size |-> Thousandths(d)]]
  <2>1. /\ LedgerHolds' = [q \in ReqIds |-> LedgerHolds'[q]]
        /\ LedgerHolds = [q \in ReqIds |-> LedgerHolds[q]]
    BY DEF LedgerHolds
  <2> QED
    BY <1>5, <1>6, <2>1
<1>8. UNCHANGED LedgerGranted
  BY DEF createRequest, LedgerGranted
<1> QED
  BY <1>2, <1>3, <1>7, <1>8 DEF Ledger!SetAside

(* A report grants the balance it carries; an escalation keeps the holds.  *)
LEMMA ReportIsGrant ==
  ASSUME IInv, NEW k \in Keys, NEW b \in Int, NEW t \in AsOfs,
         applyHcmBalanceSnapshot(k, b, t)
  PROVE  b \in Nat /\ Ledger!Grant(k, b)
<1>1. b \in Nat /\ t \in AsOf
  BY ReportAssumption DEF applyHcmBalanceSnapshot
<1>2. [hcm |-> b, asOf |-> t] # None
  BY <1>1 DEF Balance
<1>3. /\ balances'[k] = [hcm |-> b, asOf |-> t]
      /\ \A j \in Keys \ {k} : balances'[j] = balances[j]
  BY DEF applyHcmBalanceSnapshot, IInv, TypeOK
<1>4. LedgerGranted' = [LedgerGranted EXCEPT ![k] = b]
  <2>1. LedgerGranted'[k] = b /\ \A j \in Keys \ {k} : LedgerGranted'[j] = LedgerGranted[j]
    BY <1>2, <1>3 DEF LedgerGranted
  <2>2. /\ LedgerGranted' = [j \in Keys |-> LedgerGranted'[j]]
        /\ LedgerGranted = [j \in Keys |-> LedgerGranted[j]]
    BY DEF LedgerGranted
  <2> QED
    BY <2>1, <2>2
<1>5. PICK hit \in Escalated(k, b) :
        requests' = [r \in ReqIds |->
                      IF r \in hit THEN [requests[r] EXCEPT !.state = REVIEW_REQUIRED]
                                   ELSE requests[r]]
  BY DEF applyHcmBalanceSnapshot
<1>6. \A r \in Filed : /\ requests'[r].key = requests[r].key
                       /\ requests'[r].days = requests[r].days
  <2>1. \A r \in Filed : r \in ReqIds /\ requests[r] \in Request
    BY DEF IInv, TypeOK, Filed
  <2> QED
    BY <1>5, <2>1 DEF Request
<1>7. \A r \in ReqIds : r \notin Filed => reservations[r] = None
  BY UnfiledHasNone
<1>8. UNCHANGED LedgerHolds
  BY <1>6, <1>7 DEF applyHcmBalanceSnapshot, LedgerHolds
<1> QED
  BY <1>1, <1>4, <1>8 DEF Ledger!Grant

LEMMA StepImplementsLedger ==
  IInv /\ [Next]_vars => [Ledger!LedgerNext]_(Ledger!ledgerVars)
<1> SUFFICES ASSUME IInv, [Next]_vars
             PROVE  [Ledger!LedgerNext]_(Ledger!ledgerVars)
  OBVIOUS
<1>1. ASSUME NEW u \in Users, NEW x \in Slots, NEW d \in DayCounts, NEW r \in ReqIds,
             NEW m \in ManagerClaims[u], createRequest(u, m, x, d, r)
      PROVE  Ledger!LedgerNext
  <2>1. <<u, x>> \in Keys /\ Thousandths(d) \in {Thousandths(c) : c \in DayCounts}
    BY DEF Keys
  <2> QED
    BY <1>1, <2>1, CreateIsSetAside DEF Ledger!LedgerNext
<1>2. ASSUME NEW r \in ReqIds, NEW to \in {REJECTED, CANCELLED, HCM_FAILED},
             NEW a \in Users \cup {None}, MoveTo(r, to, a, 0),
             releaseReservation(r), UNCHANGED balances
      PROVE  Ledger!LedgerNext \/ UNCHANGED Ledger!ledgerVars
  BY <1>2, StatesAre, SettleIsConclude DEF releaseReservation, Ledger!LedgerNext
<1>3. UNCHANGED vars => UNCHANGED Ledger!ledgerVars
  BY DEF vars, Ledger!ledgerVars, LedgerGranted, LedgerHolds
<1>4. ASSUME NEW u \in Users, NEW r \in ReqIds, approve(u, r)
      PROVE  UNCHANGED Ledger!ledgerVars
  <2>1. PICK e \in Nat : MoveTo(r, APPROVED, u, e)
    BY <1>4, ExternalIdTyped DEF approve, IInv
  <2>2. UNCHANGED <<balances, reservations>>
    BY <1>4 DEF approve
  <2>3. APPROVED \in States /\ u \in Users \cup {None}
    BY StatesAre
  <2> QED
    BY <2>1, <2>2, <2>3, HoldIsKept
<1>5. ASSUME NEW u \in Users, NEW r \in ReqIds, reject(u, r) \/ cancel(u, r)
      PROVE  Ledger!LedgerNext \/ UNCHANGED Ledger!ledgerVars
  BY <1>2, <1>5 DEF reject, cancel
<1>6. ASSUME NEW r \in ReqIds, markConsumed(r)
      PROVE  Ledger!LedgerNext \/ UNCHANGED Ledger!ledgerVars
  BY <1>3, <1>6, StatesAre, SettleIsConclude
     DEF markConsumed, AlreadyIn, consumeReservation, Ledger!LedgerNext
<1>7. ASSUME NEW r \in ReqIds, markHcmFailed(r)
      PROVE  Ledger!LedgerNext \/ UNCHANGED Ledger!ledgerVars
  BY <1>2, <1>3, <1>7 DEF markHcmFailed, AlreadyIn
<1>8. ASSUME NEW r \in ReqIds, markReviewRequired(r)
      PROVE  UNCHANGED Ledger!ledgerVars
  BY <1>3, <1>8, StatesAre, HoldIsKept DEF markReviewRequired, AlreadyIn
<1>9. ASSUME NEW k \in Keys, NEW b \in Readings, NEW t \in AsOfs,
             applyHcmBalanceSnapshot(k, b, t)
      PROVE  Ledger!LedgerNext
  BY <1>9, ReportAssumption, ReportIsGrant DEF Ledger!LedgerNext
<1> QED
  BY <1>1, <1>3, <1>4, <1>5, <1>6, <1>7, <1>8, <1>9
     DEF Next, ApproveStep, UserStep, WorkerStep, ReportStep

LEMMA InitImplementsLedger == Init => Ledger!LedgerInit
  BY DEF Init, Ledger!LedgerInit, LedgerGranted, LedgerHolds

(* The ledger of reservations is a LeaveLedger: days are set aside only    *)
(* while the rounded balance covers them, and are given back or spent once *)
(* and for good, whatever users, the worker and HCM do.                    *)
THEOREM ReservationsImplementLedger == Spec => ImplementsLedger
  BY InitImplementsLedger, StepImplementsLedger, IInvHolds, PTL
     DEF Spec, ImplementsLedger, Ledger!LedgerSpec

-----------------------------------------------------------------------------
(* Overdraft *)

LEMMA RoundIs ==
  ASSUME NEW n \in Int
  PROVE  /\ Round(n) \in Int
         /\ Round(n) <= n + 5 /\ n <= Round(n) + 4
         /\ Round(n) >= 0 <=> n >= -5
         /\ \A m \in Int : m <= n => Round(m) <= Round(n)
         /\ \A d \in Nat : Round(n - Thousandths(d)) = Round(n) - Thousandths(d)
  BY DEF Round, Thousandths

FiledIsFinite == IsFiniteSet(Filed)

(* A report as Delivery has it: of any balance, not only of Readings.      *)
AnyReport == \E k \in Keys, b \in Int, t \in AsOfs : applyHcmBalanceSnapshot(k, b, t)

LEMMA StepIInv ==
  ASSUME IInv, [Next]_vars \/ AnyReport
  PROVE  IInv'
<1>1. CASE AnyReport
  <2>1. PICK k \in Keys, b \in Int, t \in AsOfs : applyHcmBalanceSnapshot(k, b, t)
    BY <1>1 DEF AnyReport
  <2>2. TypeOK' /\ ReservationFollowsState' /\ IdBookkeeping'
    BY <2>1, ReportTyped, ReportKeepsInv DEF IInv
  <2> QED
    BY <2>2 DEF IInv
<1> QED
  BY <1>1, NextIInv

(* What a request is for                                                   *)
SameDays(r) == requests'[r].key = requests[r].key /\ requests'[r].days = requests[r].days

LEMMA FiledGrows ==
  ASSUME IInv, [Next]_vars \/ AnyReport
  PROVE  /\ Filed' = Filed \/ \E r \in ReqIds : Filed' = Filed \cup {r}
         /\ \A q \in Filed : SameDays(q)
<1> DEFINE Kept == Filed' = Filed /\ \A q \in Filed : SameDays(q)
<1>1. ASSUME NEW u \in Users, NEW s \in Slots, NEW d \in DayCounts, NEW r \in ReqIds,
             NEW m \in ManagerClaims[u], createRequest(u, m, s, d, r)
      PROVE  Filed' = Filed \cup {r} /\ \A q \in Filed : SameDays(q)
  <2>1. /\ r \notin Filed /\ Filed' = Filed \cup {r}
        /\ \A q \in ReqIds \ {r} : requests'[q] = requests[q]
    BY <1>1, CreateEffect
  <2> QED
    BY <2>1 DEF Filed, SameDays
<1>2. ASSUME NEW r \in ReqIds, NEW to \in States, NEW a \in Users \cup {None}, NEW e \in Nat,
             MoveTo(r, to, a, e)
      PROVE  Kept
  <2>1. /\ Filed' = Filed
        /\ requests'[r].key = requests[r].key /\ requests'[r].days = requests[r].days
        /\ \A q \in ReqIds \ {r} : requests'[q] = requests[q]
    BY <1>2, MoveToEffect DEF IInv
  <2> QED
    BY <2>1 DEF Filed, SameDays
<1>6. UNCHANGED vars => Kept
  BY DEF vars, Filed, SameDays
<1> HIDE DEF Kept
<1>3. ASSUME NEW u \in Users, NEW r \in ReqIds, approve(u, r) \/ reject(u, r) \/ cancel(u, r)
      PROVE  Kept
  <2>1. approve(u, r) => ExternalId(r) \in Nat
    BY ExternalIdTyped DEF approve, IInv
  <2> QED
    BY <1>2, <1>3, <2>1, StatesAre DEF approve, reject, cancel
<1>4. ASSUME NEW r \in ReqIds, markConsumed(r) \/ markHcmFailed(r) \/ markReviewRequired(r)
      PROVE  Kept
  BY <1>2, <1>4, <1>6, StatesAre DEF markConsumed, markHcmFailed, markReviewRequired, AlreadyIn
<1>5. ASSUME NEW k \in Keys, NEW b \in Int, NEW t \in AsOfs,
             applyHcmBalanceSnapshot(k, b, t)
      PROVE  Kept
  BY <1>5, ReportEffect DEF SameDays, Kept
<1>7. ReportStep => AnyReport
  BY ReportAssumption DEF ReportStep, AnyReport
<1>8. AnyReport => Kept
  BY <1>5 DEF AnyReport
<1> QED
  BY <1>1, <1>3, <1>4, <1>6, <1>7, <1>8 DEF Next, ApproveStep, UserStep, WorkerStep, Kept

LEMMA FiledStaysFinite ==
  ASSUME FiledIsFinite, Filed' = Filed \/ \E r \in ReqIds : Filed' = Filed \cup {r}
  PROVE  FiledIsFinite'
  BY FS_AddElement DEF FiledIsFinite

(* What an account of the ledger has set aside                             *)
SetAsideFor(k) == Total([h \in Ledger!Held(k) |-> LedgerHolds[h].size])

LEMMA HeldIs ==
  ASSUME IInv, FiledIsFinite, NEW k \in Keys
  PROVE  /\ IsFiniteSet(Ledger!Held(k))
         /\ \A h \in Ledger!Held(k) : LedgerHolds[h].size \in Nat
         /\ SetAsideFor(k) \in Int
         /\ Ledger!Available(k) = Round(LedgerGranted[k] - SetAsideFor(k))
<1> DEFINE f == [h \in Ledger!Held(k) |-> LedgerHolds[h].size]
<1>1. Ledger!Held(k) \subseteq Filed
  BY UnfiledHasNone DEF Ledger!Held
<1>2. IsFiniteSet(Ledger!Held(k))
  BY <1>1, FiniteSubsets DEF FiledIsFinite
<1>3. ASSUME NEW h \in Ledger!Held(k) PROVE LedgerHolds[h].size \in Nat
  <2>1. requests[h] \in Request /\ LedgerHolds[h].size = Thousandths(requests[h].days)
    BY <1>1, FiledHasHold
  <2>2. requests[h].days \in Nat
    BY <2>1 DEF Request
  <2> QED
    BY <2>1, <2>2 DEF Thousandths
<1>4. SumFunction(f) \in Int
  BY <1>2, <1>3, PartSumsLess
<1> QED
  BY <1>2, <1>3, <1>4 DEF SetAsideFor, Total, Ledger!Available

(* An account of the ledger adds up, and shows what the code would show.   *)
AddsUp(k) ==
  /\ IsFiniteSet(Ledger!Held(k))
  /\ \A h \in Ledger!Held(k) : LedgerHolds[h].size \in Nat
  /\ SetAsideFor(k) \in Int /\ LedgerGranted[k] \in Int
  /\ Ledger!Available(k) = Round(LedgerGranted[k] - SetAsideFor(k))
  /\ balances[k] # None => Ledger!Available(k) = Effective(k)

LEMMA AccountsAddUp == IInv /\ FiledIsFinite => \A k \in Keys : AddsUp(k)
<1>1. ASSUME IInv, NEW k \in Keys PROVE LedgerGranted[k] \in Int
  BY <1>1 DEF IInv, TypeOK, Balance, LedgerGranted
<1> QED
  BY <1>1, HeldIs, AvailableIsEffective DEF AddsUp

(* In the state after a step, too                                          *)
LEMMA AccountsAddUpNext == (IInv /\ FiledIsFinite => \A k \in Keys : AddsUp(k))'
  BY AccountsAddUp, PTL

(* A filing takes no more than is available, a settlement takes nothing,   *)
(* and what is left of them is rounded the same way.                       *)
LEMMA SetAsideIsCovered ==
  ASSUME IInv, IInv', FiledIsFinite, FiledIsFinite', NEW k \in Keys,
         NEW h \in ReqIds, NEW a \in Keys, NEW d \in DayCounts,
         Ledger!SetAside(h, a, Thousandths(d)), Ledger!Available(k) >= 0
  PROVE  Ledger!Available(k)' >= 0
<1> DEFINE size == Thousandths(d)
           f == [g \in Ledger!Held(k) |-> LedgerHolds[g].size]
<1>1. /\ LedgerHolds[h] = None /\ size <= Ledger!Available(a)
      /\ LedgerHolds' = [LedgerHolds EXCEPT
                           ![h] = [status |-> "held", account |-> a, size |-> size]]
      /\ LedgerGranted' = LedgerGranted
  BY DEF Ledger!SetAside
<1>2. d \in Nat /\ size \in Nat /\ size \in Int
  BY DaysAssumption DEF Thousandths
<1>3. [status |-> "held", account |-> a, size |-> size] # None
  BY <1>2 DEF Hold
<1>4. /\ LedgerHolds'[h] = [status |-> "held", account |-> a, size |-> size]
      /\ \A g \in ReqIds \ {h} : LedgerHolds'[g] = LedgerHolds[g]
  BY <1>1 DEF LedgerHolds
<1>5. h \notin Ledger!Held(k)
  BY <1>1 DEF Ledger!Held
<1>s. AddsUp(k) /\ AddsUp(k)'
  BY AccountsAddUp, AccountsAddUpNext
<1> HIDE DEF size
<1>6. CASE a # k
  <2>1. Ledger!Held(k)' = Ledger!Held(k)
    BY <1>1, <1>4, <1>6 DEF Ledger!Held
  <2>2. SetAsideFor(k)' = SetAsideFor(k)
    <3>1. [g \in Ledger!Held(k) |-> LedgerHolds[g].size]' = f
      BY <1>4, <1>5, <2>1 DEF Ledger!Held
    <3> QED
      BY <3>1 DEF SetAsideFor
  <2> QED
    BY <1>1, <1>s, <2>2 DEF AddsUp
<1>7. CASE a = k
  <2>1. Ledger!Held(k)' = Ledger!Held(k) \cup {h}
    BY <1>3, <1>4, <1>5, <1>7 DEF Ledger!Held
  <2> DEFINE e == [g \in Ledger!Held(k)' |-> LedgerHolds'[g].size]
  <2>2. /\ DOMAIN e = DOMAIN f \cup {h} /\ h \notin DOMAIN f /\ IsFiniteSet(DOMAIN f)
        /\ \A g \in DOMAIN e : e[g] \in Nat
        /\ \A g \in DOMAIN f : f[g] = e[g]
        /\ e[h] = size
    <3>1. Ledger!Held(k) \subseteq ReqIds
      BY DEF Ledger!Held
    <3> QED
      BY <1>2, <1>4, <1>5, <1>s, <2>1, <3>1 DEF AddsUp
  <2> HIDE DEF e, f
  <2>3. SumFunction(e) = size + SumFunction(f)
    BY <2>2, OneMoreSums
  <2>4. SetAsideFor(k)' = size + SetAsideFor(k)
    BY <2>3 DEF SetAsideFor, Total, e, f
  <2> DEFINE rest == LedgerGranted[k] - SetAsideFor(k)
  <2>5. rest \in Int /\ LedgerGranted[k] \in Int /\ SetAsideFor(k) \in Int
    BY <1>s DEF AddsUp
  <2>6. LedgerGranted'[k] - SetAsideFor(k)' = rest - Thousandths(d)
    BY <1>1, <1>2, <2>4, <2>5 DEF size
  <2>7. Ledger!Available(k) = Round(rest) /\ Ledger!Available(k)' = Round(rest - Thousandths(d))
    BY <1>s, <2>6 DEF AddsUp
  <2> HIDE DEF rest
  <2>8. Ledger!Available(k)' = Round(rest) - size /\ Round(rest) \in Int
    BY <1>2, <2>5, <2>7, RoundIs DEF size
  <2> QED
    BY <1>1, <1>2, <1>7, <2>7, <2>8
<1> QED
  BY <1>6, <1>7

LEMMA ConcludeIsCovered ==
  ASSUME IInv, IInv', FiledIsFinite, FiledIsFinite', NEW k \in Keys,
         NEW h \in ReqIds, NEW s \in {"returned", "spent"},
         Ledger!Conclude(h, s), Ledger!Available(k) >= 0
  PROVE  Ledger!Available(k)' >= 0
<1> DEFINE f == [g \in Ledger!Held(k)' |-> LedgerHolds'[g].size]
           g == [g \in Ledger!Held(k) |-> LedgerHolds[g].size]
<1>1. /\ LedgerHolds[h] # None
      /\ LedgerHolds' = [LedgerHolds EXCEPT ![h].status = s]
      /\ LedgerGranted' = LedgerGranted
  BY DEF Ledger!Conclude
<1>2. \A r \in ReqIds \ {h} : LedgerHolds'[r] = LedgerHolds[r]
  BY <1>1 DEF LedgerHolds
<1>3. h \notin Ledger!Held(k)'
  <2>1. h \in Filed
    BY <1>1, UnfiledHasNone
  <2>2. LedgerHolds[h] = [status  |-> HoldStatus(reservations[h]),
                          account |-> requests[h].key,
                          size    |-> Thousandths(requests[h].days)]
    BY <2>1, FiledHasHold
  <2>3. LedgerHolds'[h].status = s
    BY <1>1, <2>2 DEF LedgerHolds
  <2> QED
    BY <2>3 DEF Ledger!Held
<1>4. Ledger!Held(k)' \subseteq Ledger!Held(k)
  BY <1>2, <1>3 DEF Ledger!Held
<1>s. AddsUp(k) /\ AddsUp(k)'
  BY AccountsAddUp, AccountsAddUpNext
<1>5. /\ IsFiniteSet(DOMAIN g) /\ DOMAIN f \subseteq DOMAIN g
      /\ \A r \in DOMAIN g : g[r] \in Nat
      /\ \A r \in DOMAIN f : f[r] = g[r]
  BY <1>2, <1>3, <1>4, <1>s DEF AddsUp, Ledger!Held
<1> HIDE DEF f, g
<1>6. SumFunction(f) <= SumFunction(g)
  BY <1>5, PartSumsLess
<1>7. SetAsideFor(k)' <= SetAsideFor(k)
  BY <1>6 DEF SetAsideFor, Total, f, g
<1> DEFINE rest == LedgerGranted[k] - SetAsideFor(k)
<1>8. /\ rest \in Int /\ rest' \in Int /\ rest <= rest'
      /\ Ledger!Available(k) = Round(rest) /\ Ledger!Available(k)' = Round(rest')
  BY <1>1, <1>7, <1>s DEF AddsUp
<1> HIDE DEF rest
<1>9. Round(rest) <= Round(rest') /\ Round(rest) \in Int /\ Round(rest') \in Int
  BY <1>8, RoundIs
<1> QED
  BY <1>8, <1>9

(* A step of the ledger but a grant to the account keeps it covered.       *)
LEMMA LedgerStaysCovered ==
  ASSUME IInv, IInv', FiledIsFinite, FiledIsFinite', NEW k \in Keys,
         \/ \E h \in ReqIds, a \in Keys, size \in {Thousandths(d) : d \in DayCounts} :
              Ledger!SetAside(h, a, size)
         \/ \E h \in ReqIds : Ledger!GiveBack(h) \/ Ledger!Spend(h)
         \/ UNCHANGED LedgerHolds,
         balances[k] # None, balances'[k] = balances[k], Effective(k) >= 0
  PROVE  Effective(k)' >= 0
<1>1. Effective(k) = Ledger!Available(k) /\ Effective(k)' = Ledger!Available(k)'
  BY AccountsAddUp, AccountsAddUpNext DEF AddsUp
<1>2. CASE UNCHANGED LedgerHolds
  <2>1. LedgerGranted'[k] = LedgerGranted[k]
    BY DEF LedgerGranted
  <2>2. Ledger!Available(k)' = Ledger!Available(k)
    BY <1>2, <2>1 DEF Ledger!Available, Ledger!Held
  <2> QED
    BY <1>1, <2>2
<1> QED
  BY <1>1, <1>2, SetAsideIsCovered, ConcludeIsCovered DEF Ledger!GiveBack, Ledger!Spend

LEMMA StepStaysCovered ==
  ASSUME IInv, FiledIsFinite, [Next]_vars \/ AnyReport, NEW k \in Keys,
         balances[k] # None, balances'[k] = balances[k], Effective(k) >= 0
  PROVE  Effective(k)' >= 0
<1>1. IInv' /\ FiledIsFinite'
  BY StepIInv, FiledGrows, FiledStaysFinite
<1>2. AnyReport => UNCHANGED LedgerHolds
  BY ReportIsGrant DEF AnyReport, Ledger!Grant
<1>3. [Next]_vars => [Ledger!LedgerNext]_(Ledger!ledgerVars)
  BY StepImplementsLedger
<1> QED
  BY <1>1, <1>2, <1>3, LedgerStaysCovered
     DEF Ledger!LedgerNext, Ledger!Grant, Ledger!ledgerVars

LEMMA FinitelyManyFiled == Spec => []FiledIsFinite
<1>1. Init => FiledIsFinite
  <2> SUFFICES ASSUME Init PROVE Filed = {}
    BY FS_EmptySet DEF FiledIsFinite
  <2> QED
    BY DEF Init, Filed
<1>2. IInv /\ FiledIsFinite /\ [Next]_vars => FiledIsFinite'
  BY FiledGrows, FiledStaysFinite
<1> QED
  BY <1>1, <1>2, IInvHolds, PTL DEF Spec

(* Whatever users and the worker do and in whatever order, the effective   *)
(* balance of a key goes below zero only with a report about that key.     *)
THEOREM CallsDoNotOverdraw == Spec => OnlyReportsOverdraw
<1> DEFINE Stays == \A k \in Keys :
             balances[k] # None /\ balances'[k] = balances[k] /\ Effective(k) >= 0
               => Effective(k)' >= 0
<1>1. IInv /\ FiledIsFinite /\ [Next]_vars => [Stays]_vars
  BY StepStaysCovered
<1> QED
  BY <1>1, IInvHolds, FinitelyManyFiled, PTL DEF Spec, OnlyReportsOverdraw

(* The balance createRequest compares is rounded, so a filing may take     *)
(* days that are not there to the last thousandth.  The shortfall does not *)
(* add up: however many requests are filed, no more than five thousandths  *)
(* of a day are missing until a report says otherwise.                     *)
Missing(k) == Reserved(k) - balances[k].hcm

ShortOnlyByRounding ==
  [][\A k \in Keys :
       balances[k] # None /\ balances'[k] = balances[k] /\ Missing(k) <= 5
         => Missing(k)' <= 5]_vars

THEOREM RoundingDoesNotAddUp == Spec => ShortOnlyByRounding
<1> DEFINE Stays == \A k \in Keys :
             balances[k] # None /\ balances'[k] = balances[k] /\ Missing(k) <= 5
               => Missing(k)' <= 5
<1>1. ASSUME IInv, FiledIsFinite, NEW k \in Keys, balances[k] # None
      PROVE  Effective(k) >= 0 <=> Missing(k) <= 5
  <2>1. balances[k].hcm \in Int
    BY <1>1 DEF IInv, TypeOK, Balance
  <2>2. Reserved(k) \in Int
    <3> DEFINE f == [r \in OpenFor(k) |-> Thousandths(requests[r].days)]
    <3>1. OpenFor(k) \in SUBSET Filed /\ IsFiniteSet(OpenFor(k))
      BY <1>1, FiniteSubsets DEF OpenFor, FiledIsFinite
    <3>2. ASSUME NEW r \in OpenFor(k) PROVE f[r] \in Nat
      <4>1. requests[r] \in Request
        BY <1>1, <3>1, FiledHasHold
      <4> QED
        BY <4>1 DEF Request, Thousandths
    <3>3. SumFunction(f) \in Int
      BY <3>1, <3>2, PartSumsLess
    <3> QED
      BY <3>3 DEF Reserved, Total
  <2> DEFINE n == balances[k].hcm - Reserved(k)
  <2>3. n \in Int /\ (n >= -5 <=> Missing(k) <= 5) /\ Effective(k) = Round(n)
    BY <2>1, <2>2 DEF Effective, Missing
  <2> HIDE DEF n
  <2> QED
    BY <2>3, RoundIs
<1>2. IInv /\ FiledIsFinite => \A k \in Keys : balances[k] # None =>
        (Effective(k) >= 0 <=> Missing(k) <= 5)
  BY <1>1
<1>3. (IInv /\ FiledIsFinite => \A k \in Keys : balances[k] # None =>
        (Effective(k) >= 0 <=> Missing(k) <= 5))'
  BY <1>2, PTL
<1>4. IInv /\ FiledIsFinite /\ (IInv /\ FiledIsFinite)' /\ [Next]_vars => [Stays]_vars
  BY <1>2, <1>3, StepStaysCovered
<1> QED
  BY <1>4, IInvHolds, FinitelyManyFiled, PTL DEF Spec, ShortOnlyByRounding
=============================================================================
