--------------------------- MODULE Reconciliation ---------------------------
(***************************************************************************)
(* ReconciliationService: balances HCM pushes in batches and balances an   *)
(* admin pulls, over the tables of TimeOff.                                *)
(*                                                                         *)
(* handleBatch is a synchronous loop.  Nothing interleaves with it, but    *)
(* every row and every escalation is a transaction of its own: a row the   *)
(* table refuses ends the loop with an error, and the process may die      *)
(* between any two transactions.  reconcileKey gives the thread away while *)
(* it asks HCM, and reconcileActive does so for one key after the other.   *)
(*                                                                         *)
(* HCM delivers late, again, out of order or not at all: a batch may carry *)
(* the balances of any instant that has been.                              *)
(***************************************************************************)
EXTENDS TimeOff

CONSTANTS
  PushForms, PullForms, \* how the reports HCM pushes and answers are dated
  Scans,                \* calls of the reconcile endpoint that may overlap
  MaxRows,              \* bound: rows of a batch, keys of a scan
  MaxTime               \* bound: instants

(* A number; a text (a batch row with a date of its own keeps the string); *)
(* no date; a date that passes validation and that Date.parse cannot read. *)
Forms == {"number", "text", "none", "unreadable"}

ASSUME FormsAssumption == PushForms \subseteq Forms /\ PullForms \subseteq Forms
ASSUME TimeAssumption ==
  /\ MaxTime \in Nat \ {0} /\ MaxRows \in Nat
  /\ [at : 1..MaxTime, text : BOOLEAN] \subseteq AsOfs
  /\ None \notin Scans

VARIABLES
  past,  \* the balances of HCM at every instant so far; the last one is now
  job,   \* the rows the running handler applies and how far it is, or None
  drift, \* the requests it has yet to escalate for the last of them
  scans, \* for every call of reconcile: the keys left, and HCM's answer
  shown  \* history: the instant whose balance the cache of every key shows

reconVars == <<vars, past, job, drift, scans, shown>>

(* asOf is None for a date that is NaN, which SQLite takes for NULL.       *)
Row  == [key : Keys, balance : Readings, asOf : AsOfs \cup {None}, taken : 1..MaxTime]
Job  == [by : Scans \cup {None}, rows : Seq(Row), next : Nat \ {0}]
Scan == [keys : Seq(Keys) \ {<<>>}, got : (1..MaxTime) \X Forms \cup {None}]

ASSUME NoJobAssumption  == None \notin Job
ASSUME NoDateAssumption == None \notin AsOfs

now  == Len(past)
Free == job = None

JobIsOfAScan == Free \/ job.by = None \/ scans[job.by] # None

AnswersArePast ==
  \A p \in Scans : scans[p] # None /\ scans[p].got # None => scans[p].got[1] <= now

ReconTypeOK ==
  /\ TypeOK
  /\ past \in Seq([Keys -> Readings]) /\ now \in 1..MaxTime
  /\ job \in Job \cup {None}
  /\ drift \subseteq ReqIds /\ (Free => drift = {})
  /\ scans \in [Scans -> Scan \cup {None}]
  /\ JobIsOfAScan /\ AnswersArePast
  /\ shown \in [Keys -> 0..MaxTime]

ReconInit ==
  /\ Init
  /\ past \in {<<b>> : b \in [Keys -> Readings \cap Nat]}
  /\ job = None /\ drift = {}
  /\ scans = [p \in Scans |-> None]
  /\ shown = [k \in Keys |-> 0]

(* HR, or a debit, changes a balance.  HCM is not to be seen from inside a *)
(* handler, so what happens to it then may as well happen after.           *)
HcmMoves ==
  /\ Free /\ now < MaxTime
  /\ \E k \in Keys, b \in Readings : past' = Append(past, [past[now] EXCEPT ![k] = b])
  /\ UNCHANGED <<vars, job, drift, scans, shown>>

-----------------------------------------------------------------------------
(* The rows *)

(* Mutant: a pull is stamped when its answer is looked at.                 *)
StampLate(t, form) ==
  IF form = "unreadable" THEN None ELSE [at |-> now, text |-> form = "text"]

(* asOf ?? clock.now(), the latter at the time the row is handled.         *)
Stamp(t, form) ==
  CASE form = "unreadable" -> None
    [] form = "none"       -> [at |-> now, text |-> FALSE]
    [] OTHER               -> [at |-> t, text |-> form = "text"]

RowOf(k, t, form) ==
  [key |-> k, balance |-> past[t][k], asOf |-> Stamp(t, form), taken |-> t]

(* Different keys, in any order                                            *)
KeyLists == {ks \in UNION {[1..n -> Keys] : n \in 1..MaxRows} : IsInjective(ks)}

(* POST /hcm/webhooks/balance and /batch: the balances of some keys at an  *)
(* instant.  A row has a date of its own, a text, or that of the batch.    *)
(* Validation turns negative balances away.                                *)
Receive ==
  /\ Free
  /\ \E ks \in KeyLists, t \in 1..now, header \in PushForms \ {"text"} :
       \E form \in [DOMAIN ks -> PushForms \cap {"text", header}] :
         /\ \A i \in DOMAIN ks : past[t][ks[i]] >= 0
         /\ job' = [by   |-> None,
                    rows |-> [i \in DOMAIN ks |-> RowOf(ks[i], t, form[i])],
                    next |-> 1]
  /\ UNCHANGED <<vars, past, drift, scans, shown>>

-----------------------------------------------------------------------------
(* The loop of handleBatch *)

row  == job.rows[job.next]
Busy == ~Free /\ drift = {} /\ job.next <= Len(job.rows)

(* Mutant: what the comment calls idempotent, a report of the same asOf    *)
(* changes nothing.                                                        *)
StaleOrSame(w) ==
  /\ balances[w.key] # None /\ w.asOf # None
  /\ ~Older(balances[w.key].asOf, w.asOf)

(* NaN is not smaller than anything.                                       *)
Stale(w) ==
  /\ balances[w.key] # None /\ w.asOf # None
  /\ Older(w.asOf, balances[w.key].asOf)

(* Mutant: the table has no CHECK.                                         *)
StorableUnchecked(w) == w.asOf # None

(* NOT NULL, and the CHECK on hcm_balance                                  *)
Storable(w) == w.asOf # None /\ w.balance >= 0

NextRow == job' = [job EXCEPT !.next = job.next + 1]

IgnoreRow ==
  /\ Busy /\ Stale(row)
  /\ NextRow
  /\ UNCHANGED <<vars, past, drift, scans, shown>>

(* applyHcmBalanceSnapshot; what _escalateAffectedRequests is to do.       *)
StoreRow ==
  /\ Busy /\ ~Stale(row) /\ Storable(row)
  /\ balances' = [balances EXCEPT ![row.key] = [hcm |-> row.balance, asOf |-> row.asOf]]
  /\ shown' = [shown EXCEPT ![row.key] = row.taken]
  /\ drift' = IF row.balance < Reserved(row.key) THEN ApprovedFor(row.key) ELSE {}
  /\ NextRow
  /\ UNCHANGED <<requests, reservations, intents, past, scans>>

(* Mutant: the reservation is given back along with the escalation.        *)
EscalateAndRelease ==
  \E r \in drift :
    /\ MoveTo(r, REVIEW_REQUIRED, None, 0)
    /\ releaseReservation(r)
    /\ drift' = drift \ {r}
    /\ UNCHANGED <<balances, intents, past, job, scans, shown>>

(* No request of the list can be elsewhere by now: the thread was not      *)
(* given away since it was read.                                           *)
Escalate ==
  \E r \in drift :
    /\ markReviewRequired(r)
    /\ drift' = drift \ {r}
    /\ UNCHANGED <<past, job, scans, shown>>

(* The statement throws: no row after it is looked at, and the scan it     *)
(* belongs to ends.                                                        *)
FailRow ==
  /\ Busy /\ ~Stale(row) /\ ~Storable(row)
  /\ job' = None
  /\ scans' = [p \in Scans |-> IF p = job.by THEN None ELSE scans[p]]
  /\ UNCHANGED <<vars, past, drift, shown>>

(* What is left of a scan after its first key                              *)
Rest(scan) ==
  IF Len(scan.keys) = 1 THEN None ELSE [keys |-> Tail(scan.keys), got |-> None]

(* The last row is done: HCM gets its 200, a scan goes on.                 *)
Done == ~Free /\ drift = {} /\ job.next > Len(job.rows)

Finish ==
  /\ Done
  /\ job' = None
  /\ scans' = [p \in Scans |-> IF p = job.by THEN Rest(scans[p]) ELSE scans[p]]
  /\ UNCHANGED <<vars, past, drift, shown>>

Crash ==
  /\ MayCrash
  /\ ~Free
  /\ job' = None /\ drift' = {}
  /\ scans' = [p \in Scans |-> None]
  /\ UNCHANGED <<vars, past, shown>>

-----------------------------------------------------------------------------
(* reconcileKey, for any key, and reconcileActive, for known ones          *)

StartScan(p) ==
  /\ Free /\ scans[p] = None
  /\ \E ks \in KeyLists :
       /\ Len(ks) > 1 => \A i \in DOMAIN ks : balances[ks[i]] # None
       /\ scans' = [scans EXCEPT ![p] = [keys |-> ks, got |-> None]]
  /\ UNCHANGED <<vars, past, job, drift, shown>>

Asking(p) == Free /\ scans[p] # None /\ scans[p].got = None

(* HCM reads the balance now; its answer may be looked at later.           *)
Answer(p) ==
  /\ Asking(p)
  /\ \E form \in PullForms :
       scans' = [scans EXCEPT ![p] = [keys |-> scans[p].keys, got |-> <<now, form>>]]
  /\ UNCHANGED <<vars, past, job, drift, shown>>

(* getBalance throws: the key is skipped.                                  *)
Skip(p) ==
  /\ Asking(p)
  /\ scans' = [scans EXCEPT ![p] = Rest(scans[p])]
  /\ UNCHANGED <<vars, past, job, drift, shown>>

Resume(p) ==
  /\ Free /\ scans[p] # None /\ scans[p].got # None
  /\ job' = [by   |-> p,
             rows |-> <<RowOf(Head(scans[p].keys), scans[p].got[1], scans[p].got[2])>>,
             next |-> 1]
  /\ UNCHANGED <<vars, past, drift, scans, shown>>

ScanStep == \E p \in Scans : StartScan(p) \/ Answer(p) \/ Skip(p) \/ Resume(p)

-----------------------------------------------------------------------------
OtherCall == /\ Free
             /\ ApproveStep \/ UserStep \/ WorkerStep
             /\ UNCHANGED <<past, job, drift, scans, shown>>

LoopStep == IgnoreRow \/ StoreRow \/ Escalate \/ FailRow \/ Finish \/ Crash

ReconNext == HcmMoves \/ Receive \/ LoopStep \/ ScanStep \/ OtherCall

ReconSpec == ReconInit /\ [][ReconNext]_reconVars

-----------------------------------------------------------------------------
(* Properties *)

(* The loops, their errors and their crashes do to the tables what TimeOff *)
(* says reports may do, and nothing else: a report, then one transaction   *)
(* for every request it pauses.                                            *)
Coarse == INSTANCE TimeOff WITH MayCrash <- TRUE

ImplementsTimeOff == Coarse!Spec

(* A report or a pull that was answered as handled is in the cache, unless *)
(* something later is, and the drift it showed has paused what was         *)
(* approved; also when it is a repetition of one a crash cut short.        *)
InEffect(w) ==
  /\ shown[w.key] >= w.taken
  /\ shown[w.key] = w.taken /\ balances[w.key].hcm < Reserved(w.key)
       => ApprovedFor(w.key) = {}

AnsweredIsInEffect == Done => \A i \in DOMAIN job.rows : InEffect(job.rows[i])

(* The cache never goes back to a state of HCM older than the one it       *)
(* shows, however pushes and pulls overtake each other.                    *)
CacheNeverGoesBack == [][\A k \in Keys : shown'[k] >= shown[k]]_reconVars

(* A row the table refuses does not keep the other rows of its batch from  *)
(* being applied.                                                          *)
RowsAreIndependent ==
  [][~Free /\ job' = None =>
       \A i \in DOMAIN job.rows :
         LET w == job.rows[i] IN Storable(w) => shown'[w.key] >= w.taken]_reconVars
=============================================================================
