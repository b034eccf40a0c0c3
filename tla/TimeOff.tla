------------------------------ MODULE TimeOff ------------------------------
(***************************************************************************)
(* The request lifecycle and the local balance ledger: TimeOffService,     *)
(* BalancesService and their repositories, over the tables balances,       *)
(* requests, reservations and the immutable columns of hcm_outbox.         *)
(*                                                                         *)
(* Every operation runs in one BEGIN IMMEDIATE transaction of a single     *)
(* synchronous connection, so an operation is one step.  An error path     *)
(* rolls back and changes nothing: it is the absence of a step.            *)
(*                                                                         *)
(* Balances are REAL columns in the code; here they count thousandths of a *)
(* day, so that the rounding to hundredths is visible.  A request is for   *)
(* whole days.                                                             *)
(***************************************************************************)
EXTENDS RequestStates, Integers, Sequences, FiniteSetsExt

CONSTANTS
  Users, Managers, Admins, \* who calls the API, and the roles in their tokens
  ManagerClaims,           \* the managerId values the token of a user may carry
  Slots,                   \* the (location, leave type) pairs
  ReqIds,                  \* request identifiers
  DayCounts,               \* lengths a request may have, in days
  Readings,                \* balances HCM may report, in thousandths of a day
  AsOfs,                   \* timestamps HCM reports may carry
  MaxApprovals,            \* bound: rows the outbox may ever hold
  MayCrash,                \* whether the process may die inside a handler
  None                     \* SQL NULL, and the absent row

Keys  == Users \X Slots
AsOf  == [at : Nat, text : BOOLEAN]

ASSUME UsersAssumption   == /\ Managers \subseteq Users
                            /\ Admins \subseteq Users
                            /\ ManagerClaims \in [Users -> SUBSET (Users \cup {None})]
ASSUME DaysAssumption    == DayCounts \subseteq Nat \ {0}
ASSUME ReportAssumption  == /\ Readings \subseteq Int
                            /\ AsOfs \subseteq AsOf
ASSUME BoundAssumption   == MaxApprovals \in Nat /\ MayCrash \in BOOLEAN

Request == [key : Keys, days : Nat \ {0}, manager : Users \cup {None},
            state : States, approver : Users \cup {None}, ext : Nat]
Balance == [hcm : Nat, asOf : AsOf]
Intent  == [req : ReqIds, ext : Nat \ {0}]

Hold    == [status : {"held", "returned", "spent"}, account : Keys, size : Int]

ASSUME NoneAssumption ==
  /\ None \notin Request /\ None \notin Balance /\ None \notin Hold
  /\ None \notin Users /\ None \notin States
  /\ None \notin {"OPEN", "RELEASED", "CONSUMED"}

VARIABLES
  balances,     \* the cached HCM snapshot of every key, None before the first
  requests,     \* the rows of requests; ext = 0 is a NULL external_request_id
  reservations, \* the state column of the reservation of every request
  intents       \* hcm_outbox by row id: the request and the external id sent

vars == <<balances, requests, reservations, intents>>

TypeOK ==
  /\ balances \in [Keys -> Balance \cup {None}]
  /\ requests \in [ReqIds -> Request \cup {None}]
  /\ reservations \in [ReqIds -> {None, "OPEN", "RELEASED", "CONSUMED"}]
  /\ intents \in Seq(Intent)

Init ==
  /\ balances = [k \in Keys |-> None]
  /\ requests = [r \in ReqIds |-> None]
  /\ reservations = [r \in ReqIds |-> None]
  /\ intents = <<>>

-----------------------------------------------------------------------------
(* Balances *)

Filed == {r \in ReqIds : requests[r] # None}

(* Mutant: a reservation counts from the approval on.                      *)
OpenOnceApproved(k) ==
  {r \in Filed : /\ requests[r].key = k /\ reservations[r] = "OPEN"
                 /\ requests[r].state # PENDING}

OpenFor(k) == {r \in Filed : requests[r].key = k /\ reservations[r] = "OPEN"}

Thousandths(d) == 1000 * d

Total(f) == SumFunction(f)

(* sumOpenReservations                                                     *)
Reserved(k) == Total([r \in OpenFor(k) |-> Thousandths(requests[r].days)])

(* Math.round(n * 100) / 100: to the nearest hundredth, halves upwards.    *)
Round(n) == ((n + 5) \div 10) * 10

(* Mutant: the check forgets what is set aside already.                    *)
EffectiveUnreserved(k) == Round(balances[k].hcm)

(* getEffectiveBalance, and the effective balance createRequest checks     *)
Effective(k) == Round(balances[k].hcm - Reserved(k))

(* JavaScript's a < b: a number against a string is never smaller.  Two    *)
(* strings compare as texts: the `at' of a text is its place in that order *)
(* which is the order of the times only for texts of one format.           *)
Older(a, b) == a.text = b.text /\ a.at < b.at

-----------------------------------------------------------------------------
(* Requests *)

State(r) == IF r \in Filed THEN requests[r].state ELSE None

(* Mutant: updateState without COALESCE.                                   *)
PatchedOver(row, to, approver, ext) ==
  [row EXCEPT !.state = to, !.approver = approver, !.ext = ext]

(* updateState: a NULL in the patch keeps the column (COALESCE).           *)
Patched(row, to, approver, ext) ==
  [row EXCEPT !.state    = to,
              !.approver = IF approver = None THEN row.approver ELSE approver,
              !.ext      = IF ext = 0 THEN row.ext ELSE ext]

(* assertTransition, then updateState.                                     *)
MoveTo(r, to, approver, ext) ==
  /\ r \in Filed
  /\ CanTransition(State(r), to)
  /\ requests' = [requests EXCEPT ![r] = Patched(requests[r], to, approver, ext)]

Settle(r, outcome) ==
  reservations' = [reservations EXCEPT ![r] = IF @ = "OPEN" THEN outcome ELSE @]

releaseReservation(r) == Settle(r, "RELEASED")
consumeReservation(r) == Settle(r, "CONSUMED")

(* _authorizeManager: a request filed without a manager is open to all.    *)
Authorized(a, r) ==
  \/ a \in Admins
  \/ a \in Managers /\ requests[r].manager \in {None, a}

createRequest(u, m, s, d, r) ==
  /\ r \notin Filed
  /\ balances[<<u, s>>] # None
  /\ Thousandths(d) <= Effective(<<u, s>>)
  /\ requests' = [requests EXCEPT ![r] =
                    [key |-> <<u, s>>, days |-> d, manager |-> m,
                     state |-> PENDING, approver |-> None, ext |-> 0]]
  /\ reservations' = [reservations EXCEPT ![r] = "OPEN"]
  /\ UNCHANGED <<balances, intents>>

(* Mutants: no id is minted, and every approval mints one.                 *)
ExternalIdKept(r)   == requests[r].ext
ExternalIdMinted(r) == Len(intents) + 1

(* The external id is minted by the first approval and kept by the others. *)
(* A fresh one is the number of the row it is first sent in.               *)
ExternalId(r) == IF requests[r].ext = 0 THEN Len(intents) + 1 ELSE requests[r].ext

approve(a, r) ==
  /\ Len(intents) < MaxApprovals
  /\ r \in Filed
  /\ Authorized(a, r)
  /\ MoveTo(r, APPROVED, a, ExternalId(r))
  /\ intents' = Append(intents, [req |-> r, ext |-> ExternalId(r)])
  /\ UNCHANGED <<balances, reservations>>

reject(a, r) ==
  /\ r \in Filed
  /\ Authorized(a, r)
  /\ MoveTo(r, REJECTED, a, 0)
  /\ releaseReservation(r)
  /\ UNCHANGED <<balances, intents>>

cancel(u, r) ==
  /\ r \in Filed
  /\ u = requests[r].key[1] \/ u \in Admins
  /\ MoveTo(r, CANCELLED, None, 0)
  /\ releaseReservation(r)
  /\ UNCHANGED <<balances, intents>>

(* The three calls of the worker and of reconciliation.  Each returns at   *)
(* once when the request is there already and throws on any other state    *)
(* with no edge to the target.                                             *)
AlreadyIn(r, s) == r \in Filed /\ State(r) = s /\ UNCHANGED vars

Accepts(r, s) == r \in Filed /\ (State(r) = s \/ CanTransition(State(r), s))

markConsumed(r) ==
  \/ AlreadyIn(r, CONSUMED)
  \/ /\ MoveTo(r, CONSUMED, None, 0)
     /\ consumeReservation(r)
     /\ UNCHANGED <<balances, intents>>

markHcmFailed(r) ==
  \/ AlreadyIn(r, HCM_FAILED)
  \/ /\ MoveTo(r, HCM_FAILED, None, 0)
     /\ releaseReservation(r)
     /\ UNCHANGED <<balances, intents>>

markReviewRequired(r) ==
  \/ AlreadyIn(r, REVIEW_REQUIRED)
  \/ /\ MoveTo(r, REVIEW_REQUIRED, None, 0)
     /\ UNCHANGED <<balances, reservations, intents>>

-----------------------------------------------------------------------------
(* Snapshots from HCM *)

ApprovedFor(k) == {r \in Filed : requests[r].key = k /\ State(r) = APPROVED}

(* Mutant: only a report lower than the one before can be a drift.         *)
EscalatedOnDecrease(k, balance) ==
  IF /\ balance < Reserved(k)
     /\ balances[k] # None => balance < balances[k].hcm
  THEN {ApprovedFor(k)} ELSE {{}}

(* _escalateAffectedRequests after negative drift: every APPROVED request  *)
(* of the key, each in a transaction of its own, so a crash may leave some *)
(* of them as they are.                                                    *)
Escalated(k, balance) ==
  IF balance < Reserved(k)
  THEN IF MayCrash THEN SUBSET ApprovedFor(k) ELSE {ApprovedFor(k)}
  ELSE {{}}

(* applyHcmBalanceSnapshot, then the escalation its callers do.  A stale   *)
(* report, or one the CHECK on hcm_balance refuses, changes nothing.       *)
applyHcmBalanceSnapshot(k, balance, asOf) ==
  /\ balance >= 0
  /\ balances[k] # None => ~Older(asOf, balances[k].asOf)
  /\ balances' = [balances EXCEPT ![k] = [hcm |-> balance, asOf |-> asOf]]
  /\ \E hit \in Escalated(k, balance) :
       requests' = [r \in ReqIds |->
                      IF r \in hit THEN [requests[r] EXCEPT !.state = REVIEW_REQUIRED]
                                   ELSE requests[r]]
  /\ UNCHANGED <<reservations, intents>>

-----------------------------------------------------------------------------
(* The calls of users.  An approval is the one that fills the outbox.      *)
ApproveStep == \E u \in Users, r \in ReqIds : approve(u, r)

UserStep ==
  \/ \E u \in Users, s \in Slots, d \in DayCounts, r \in ReqIds :
       \E m \in ManagerClaims[u] : createRequest(u, m, s, d, r)
  \/ \E u \in Users, r \in ReqIds : reject(u, r) \/ cancel(u, r)

(* The calls of the outbox worker                                          *)
WorkerStep ==
  \E r \in ReqIds : markConsumed(r) \/ markHcmFailed(r) \/ markReviewRequired(r)

(* The reports of HCM, pushed or pulled                                    *)
ReportStep ==
  \E k \in Keys, b \in Readings, t \in AsOfs : applyHcmBalanceSnapshot(k, b, t)

Next == ApproveStep \/ UserStep \/ WorkerStep \/ ReportStep

Spec == Init /\ [][Next]_vars

-----------------------------------------------------------------------------
(* Properties *)

(* A reservation counts against the balance exactly while its request is   *)
(* PENDING, APPROVED or REVIEW_REQUIRED, is CONSUMED with the request, and *)
(* is given back on every other way out, whatever way the request took.    *)
ReservationOf(state) == CASE state = None       -> None
                          [] state \in Holding -> "OPEN"
                          [] state = CONSUMED   -> "CONSUMED"
                          [] OTHER              -> "RELEASED"

ReservationFollowsState == \A r \in ReqIds : reservations[r] = ReservationOf(State(r))

(* HCM deduplicates by the external id alone.  So every row of a request   *)
(* carries the same id, re-approvals included, and no row of another       *)
(* request carries it.                                                     *)
OneExternalIdPerRequest ==
  \A i, j \in DOMAIN intents :
    intents[i].ext = intents[j].ext <=> intents[i].req = intents[j].req

(* A request that was ever approved has been handed to the outbox under    *)
(* its external id: none is silently approved and never submitted.         *)
Submitted == {APPROVED, REVIEW_REQUIRED, CONSUMED, HCM_FAILED}

ApprovedIsSubmitted ==
  \A r \in Filed : State(r) \in Submitted =>
    \E i \in DOMAIN intents : intents[i] = [req |-> r, ext |-> requests[r].ext]

(* Why the two hold: an id is the number of a row, is stored with the      *)
(* request the row is for and belongs to no other.                         *)
IdBookkeeping ==
  /\ \A r \in Filed : requests[r].ext <= Len(intents)
  /\ \A r \in Filed : State(r) \in Submitted => requests[r].ext # 0
  /\ \A r \in Filed : requests[r].ext # 0 => \E i \in DOMAIN intents : intents[i].req = r
  /\ \A i \in DOMAIN intents : /\ intents[i].req \in Filed
                              /\ intents[i].ext = requests[intents[i].req].ext
  /\ \A r, s \in Filed : requests[r].ext = requests[s].ext /\ requests[r].ext # 0 => r = s

(* What is inductive.                                                      *)
IInv == TypeOK /\ ReservationFollowsState /\ IdBookkeeping

(* No call of a user or of the worker takes the effective balance of a key *)
(* below zero: only a report of HCM about that very key can.               *)
OnlyReportsOverdraw ==
  [][\A k \in Keys :
       balances[k] # None /\ balances'[k] = balances[k] /\ Effective(k) >= 0
         => Effective(k)' >= 0]_vars

(* A report that leaves a key with fewer days than are set aside pauses    *)
(* every APPROVED request of the key; requests of other keys stay.         *)
DriftPausesApproved ==
  [][\A k \in Keys :
       balances'[k] # balances[k] =>
         /\ balances'[k].hcm < Reserved(k)' => ApprovedFor(k)' = {}
         /\ \A r \in Filed : State(r)' # State(r) =>
              requests[r].key = k /\ balances'[k].hcm < Reserved(k)]_vars

(* The ledger of reservations keeps the promise of LeaveLedger: it is that *)
(* ledger, with the balances HCM reports for its grants.                   *)
LedgerGranted == [k \in Keys |-> IF balances[k] = None THEN 0 ELSE balances[k].hcm]

HoldStatus(state) == CASE state = "OPEN"     -> "held"
                       [] state = "RELEASED" -> "returned"
                       [] state = "CONSUMED" -> "spent"

LedgerHolds ==
  [r \in ReqIds |-> IF reservations[r] = None THEN None
                    ELSE [status  |-> HoldStatus(reservations[r]),
                          account |-> requests[r].key,
                          size    |-> Thousandths(requests[r].days)]]

Ledger == INSTANCE LeaveLedger WITH
  Accounts <- Keys,
  Holds    <- ReqIds,
  Sizes    <- {Thousandths(d) : d \in DayCounts},
  Amounts  <- Readings \cap Nat,
  granted  <- LedgerGranted,
  holds    <- LedgerHolds

ImplementsLedger == Ledger!LedgerSpec
=============================================================================
