# A verification project for the time-off service

The service keeps the time-off requests of employees, holds the days they ask
for against a cached copy of the balances that HCM (the system of record) owns,
and submits approved requests to HCM through an outbox. This directory models
its core in TLA+, checks it with TLC and proves its safety properties with TLAPS. Paths
below are relative to the repository; code is under `src/`, the design document
is `TRD.md`.

## 1. Inventory

| Part | State | Operations | Talks to |
| --- | --- | --- | --- |
| State machine (`time-off/state-machine.js`) | none | `canTransition`, `assertTransition` | called by TimeOffService |
| TimeOffService and its repository | `requests` | `createRequest`, `approve`, `reject`, `cancel`, `markConsumed`, `markHcmFailed`, `markReviewRequired` | reservations, outbox, audit, all in one transaction |
| BalancesService and its repository | `balances`, `reservations` | `getEffectiveBalance`, `applyHcmBalanceSnapshot`, insert, release and consume a reservation | called by TimeOffService and reconciliation |
| HcmOutboxService | `hcm_outbox` | `enqueue`, `claimDue`, `markDone`, `scheduleRetry`, `resetToPending` | called by approve, the worker, the admin |
| HcmOutboxWorker | the claimed batch and the answers it waits for, in memory; `_draining` | `tick`, `_handleRow` | HcmClient (two awaits per row), TimeOffService, outbox |
| HcmClient | none | `getBalance`, `consumeBalance` | HCM over HTTP |
| ReconciliationService, webhooks | none | `handleBatch`, `reconcileKey`, `reconcileActive`, escalation | BalancesService, TimeOffService, HcmClient |
| HTTP handler of `POST /me/requests` | none | `create` with an `Idempotency-Key` | IdempotencyService, TimeOffService |
| Admin endpoints | none | retry, drain, reconcile | outbox, worker, reconciliation |
| IdempotencyService | `idempotency_keys` | `lookup`, `store` | called around `createRequest` |
| HCM (external) | balances, debits by external id | answers a GET and a POST, pushes balances | - |
| Auth, signature, DTOs, dates, audit, config, errors, health | audit rows only | - | before or beside the handlers |

What is hard here:

* **Interleaving.** Node runs one thread and better-sqlite3 is synchronous, so a
  transaction is a step. The worker gives the thread away in two places per row,
  while HCM is asked for the balance and while it is asked for the debit. In
  those windows users cancel and approve, reports come in, admins reset rows.
* **Failure.** A call may fail before or after HCM acted; the process may die
  between two transactions or in a call; an error may leave the worker's loop.
* **Ordering.** Reports of HCM are late or out of order, with the worker's own
  debits in them or not. HCM sends a batch again, or late; a pull is answered
  before and looked at after a webhook.
* **Repetition.** A client repeats `POST /me/requests`; a row is retried, reset, and joined by a second row for the
  same request after a re-approval, all under one external id.

What makes each part correct: a reservation is open exactly while its request
holds days and is settled once; no call of a user takes a balance below zero;
drift pauses what was approved; external ids tell requests apart; every row is
answered for, in order, with its attempts counted; HCM is debited at most once
per request and a request is CONSUMED only after its debit; an approved request
does not stay so for ever; a report that was answered is in effect, and the
cache never goes back to an older state of HCM; a repeated filing files nothing
as long as its key is remembered. `PROJECT.json` lists the hazards at their lines.

## 2. Modules

```
RequestStates --> TimeOff --+--> Delivery <-- OutboxQueue --> HcmOutbox
                            |       +-------- (refines) --------^
                            +--> Reconciliation  (refines TimeOff)
                            +--> Idempotency     (refines FiledOnce)
                            +--- (refines) ----> LeaveLedger
```

**RequestStates** is the state machine: constant operators.

**TimeOff** is the local half of the system. Variables: `balances` (the cached
snapshot of each key, a user and a slot, with its `asOf`), `requests` (rows,
with the external id as a number and 0 for NULL), `reservations` (the state
column of each request's reservation) and `intents` (the immutable columns of
`hcm_outbox`: request and external id). Actions have the names of the methods.
An operation is one BEGIN IMMEDIATE transaction of one synchronous connection,
so it is one step, and an error path, which rolls back, is the absence of a
step. Balances count thousandths of a day, which makes the rounding of
`round()` to hundredths visible; requests are for whole days. A timestamp is a
time and whether it is a text, because JavaScript's `<` is false both ways
between a number and such a text. Two texts compare character by character in the
code (`balances.repository.js:78`); `at` stands for a text's place in that order,
which is that of the times only as long as HCM keeps to one format and offset.
Text dates occur in no property that holds. `ReportStep` is a one-row report together
with the escalation its callers do; with `MayCrash` the process may die between
the per-request transactions of the escalation.

**LeaveLedger** is the abstract specification of the reservations: accounts,
holds, and four things that can happen (set aside, give back, spend, grant).
`TimeOff!ImplementsLedger` is the refinement.

**OutboxQueue** gives the statements of `HcmOutboxService` as functions of the
table. `next_attempt_at` is the flag `due`, since only the comparison with the
clock reads it. **HcmOutbox** is the contract of the table with any client that
claims rows and answers for them in order; `Abandon` is a client that stops in
the middle.

**Delivery** composes TimeOff and OutboxQueue with the worker and HCM. `phase`
is the place of the worker in `_handleRow`, `view` and `reply` are the answers
it got, `batch` the rows it has yet to finish. From an answer to the next call
the worker is one action (`BailOut`, `Submit`, `Succeed`, `Fail`,
`GiveUpForNow`): a transaction on the request, then one on the row, with a
crash in between allowed by `FinishRow`. A request that is in no state to take
the worker's transition makes the code throw; the handler that catches it is
part of the same action (a retry, or for `markHcmFailed` the end of the tick).
HCM is `hcm` and `applied`, modelled from what `HcmClient` sends and from
`test/mocks/hcm-mock-server.js`, and from what `TRD.md` says it may do instead
(18-20, 181-183): fail before or after it acted, answer a GET with a wrong
balance, refuse for a reason of its own, or make a debit it does not have the
days for and go below zero (`Overdraws`). `left` bounds how often each kind of
event outside the code happens, and a property that needs HCM to behave names the
kinds in its premise: what is left of them is still all of `Budget`.
`ImplementsOutbox` is the refinement of HcmOutbox.

**Reconciliation** is `ReconciliationService` at its real grain. In TimeOff a
report is one step with all its escalations; here a batch is a `job`, a list of
rows and a place in it. A row is one transaction (`StoreRow`, or `IgnoreRow`
when it is stale), every request its drift pauses is another (`Escalate`, over
`drift`), a row the table refuses ends the loop with an error (`FailRow`), and
the process may die anywhere in between (`Crash`). `handleBatch` never gives
the thread away, so nothing else happens while there is a `job`. `scans` are
the calls of `reconcileKey` and `reconcileActive`: the keys left, and the answer
of HCM that has come (`Answer`) and is not looked at yet (`Resume`); anything
may happen between the two, other scans included. `past` is what HCM's balances
were at every instant, and a batch carries those of any of them, so batches are
late, repeated, reordered or lost as HCM and the network please. How a report is
dated is a *form*: a number, a text (a batch row with a date of its own keeps
the string), nothing (the time of handling), or a date that validation lets
through and `Date.parse` does not read (NaN, which SQLite takes for NULL).
`shown` is the instant whose balance the cache of a key shows. `ImplementsTimeOff`
is the refinement: what the coarse `ReportStep` leaves out, it may leave out.

**Idempotency** is `TimeOffController.create` with `IdempotencyService` around
`createRequest`, and clients that repeat calls with a key at any time. The
handler is synchronous, so `File` is one step, but lookup, filing and store are
three transactions: the crash before the last and the one before the answer are
disjuncts of `File`. A stored answer is the request it names. `Replay` looks at
nothing but the key.
**FiledOnce** is the abstract specification: while a key is remembered its call
performs nothing, and repetitions get the one answer. `Lose`, a result whose
key was not stored, and `Forget`, the end of a lifetime, are steps of its own:
they are the two ways to a second request.

**MCTimeOff**, **MCDelivery**, **MCReconciliation** and **MCIdempotency** give
the constants their values for TLC. Each `...Proofs` module holds the theorems
of the module it is named after; **LedgerProofs** is the refinement of
LeaveLedger and what it says of overdrafts, **QueueProofs** the lemmas on
OutboxQueue that HcmOutboxProofs and DeliveryProofs share, **SumProofs** the
lemmas on sums. IdempotencyProofs, ReconciliationProofs and DeliveryProofs extend
LedgerProofs and carry its theorems over to their specifications.

Definitions marked as mutants sit before the definition they alter. They are
plausible mistakes in that code; with one in place TLC finds the property
`PROJECT.json` names for it violated. They are not part of any specification.

## 3. Runs that pass

| Run | Instance | Shows |
| --- | --- | --- |
| `lifecycle` | one employee, one manager, two requests of one or two days, readings -1, 0, 1 and 1.996 days at two timestamps, three approvals | the safety properties of TimeOff and `ImplementsLedger` |
| `serving` | three rows, batches of two, three attempts, two resets, a client that always answers | attempts and DEAD rows, claimed rows, nothing stranded, nothing overtaken, every row served |
| `batch` | two requests of one or two days for the two HCM has, three outbox rows in batches of two, two reports, and once each a crash, an unanswered call, a read that fails, a debit of days that are not there and a reset, four of these events in one behaviour; HR changes nothing and HCM refuses only what is not there | a debit happens once, CONSUMED means debited, under their premises a request that failed was not debited and will not be and no more is CONSUMED than HCM held, no approved request loses its last row, `ImplementsOutbox` |
| `settled` | one request, no crash, batches of one, three failures that make a row wait and four attempts, every other trouble once, an adjustment by HR and a wrong balance in a GET among them | the two liveness properties |
| `reconcile` | two keys, one request, batches of up to two rows, one scan of up to two keys, two instants, balances of -1, 0 and 1 days, crashes, dates that are numbers or cannot be read | `ImplementsTimeOff`, the cache in time, what was answered is in effect |
| `idempotent` | two employees and one key text, three requests, a clock of four instants, a lifetime of one | `ImplementsFiledOnce`, own answers |

Why the bounds suffice. Two requests on one key are the least that compete for
a balance, and the transactions of requests on different keys touch no common
row; `DriftPausesApproved` also needs a second key, which the manager's own
account is. Three approvals allow a re-approval next to another request's
first, and the second approval of a request after a review. Three rows with a
batch of two leave a row outside a full batch, and two or three attempts have a
first, a middle and a last. The `Budget` of Delivery gives each kind of trouble
once: the races the design is exposed to take two or three of them. `AtMostFour`
bounds `batch` to four of them in one behaviour, the report that nothing can be
filed without and any three others. In `batch` HCM never refuses without a
reason, so that the premise of `FailedIsNotDebited` holds there until HCM makes
a debit it should refuse, and it does refuse: a filing of two days passes on a
cached balance that a debit has already used up, and the failed read lets it
through to the POST. The wrong balance of a GET is for `settled`; on the way to
a POST it does what the failed read does, and the proofs cover it. Readings
include a negative one, which the CHECK refuses, and one that rounds up. `AsOfs`
in Delivery has one value: how reports are ordered is settled in TimeOff, and
equal timestamps are accepted.

In Reconciliation one request is enough for what an escalation may miss, two
rows have one before and one after the row that fails, and two instants are a
report and an older one; the scan's two keys leave one for after an await or an
error. Text dates are excluded there because `CacheNeverGoesBack` fails with
them (`formats`); undated reports are, for the same reason (section 4). In
Idempotency three requests allow a call that files, one that files again after
expiry or a crash, and the other employee's.

The deadlock check is on in the run of TimeOff. It is off elsewhere: with the
bounds used up, all rows closed and nothing to report, those really stop.

**Fairness** (`FairOutboxSpec`, `FairDeliverySpec`) is weak and is what the
runtime gives: the interval timer of `start()` ticks for ever, `fetch` settles
each call with an answer or an error, the event loop resumes what waits for it,
and time reaches the `next_attempt_at` of a row that stays PENDING. Nobody has
to file, decide, report, reset or adjust. HCM's failures are bounded by
`Budget`, which is the "normal operation" of TRD N4: with more failures than
attempts a row dies and the service waits for an admin. A client that is asked
for nothing (`fetch` without a timeout) would not settle; the code sets none
and leaves this to the HTTP stack, and so does the model.

## 4. Runs that are violated

Each shows a disagreement between the code and what a document or comment says;
the quotes are under `findings` in `PROJECT.json`.

| Run | Property | In short |
| --- | --- | --- |
| `formats` | `CacheNeverGoesBack` | batch rows keep `asOf` as text, and the stale check passes them all against numbers |
| `poison` | `RowsAreIndependent` | a row the table refuses ends the loop, and the good rows behind it are not applied; `ReadableRowsAreIndependent` shows that it takes a date nobody can read |
| `crash` | `ApprovedIsSettled` | a crash during a call strands the INFLIGHT row |
| `cancelled` | `CancelledIsNotDebited` | a cancelled request is submitted and debited |
| `unanswered` | `DebitedIsNotReviewed` | the retry takes its own debit for drift |
| `overcommit` | `PromisedIsCovered` | days of a CONSUMED request are offered again until the next report |

More disagreements are plain from the code, and no run is spent on them:

* drift leaves a negative effective balance and it is shown (TRD N1);
* `approve` never looks at the balance (TRD F5);
* 1.996 days admit a request of two, by the rounding before the check;
* a request in review is submitted, for the same reason as a cancelled one;
* a report of the service's own debit, come before the worker has recorded its
  success, pauses the request like drift, another way to `DebitedIsNotReviewed`;
* `markHcmFailed` throws for a request that was cancelled during the POST; the
  row is closed, the error ends the tick, and the rest of the claimed batch
  stays INFLIGHT like after a crash (`Fail` with `StopWork`; it is the `Abandon`
  of HcmOutbox, so `ImplementsOutbox` holds and `InflightIsHeld` would not);
* a crash between `createRequest` and `store` makes the repetition file a second
  request, which TRD C5 promises against (`Lose` of FiledOnce);
* when the GET before a POST fails, `hcm-outbox.worker.js:82-84` lets "HCM be the
  authority": one failed GET and an HCM that accepts a debit it does not have the
  days for, and a request that was filed or approved on stale days is CONSUMED
  beyond what HCM held. TRD C4 has "We never rely solely on HCM returning an
  error", and the comment at the head of the worker says that HCM's rejection
  "cannot be trusted". It is what the premise of `ConsumedIsGranted` leaves out;
* a pull or a push without `asOf` is stamped with the time it is handled, after
  the await, so an old answer overwrites a newer webhook. HCM's mock always
  answers with an `asOf`.

`FailedIsNotDebited` and `ConsumedIsGranted` have premises too.
`FailedIsNotDebited` holds while HCM refuses a debit exactly when it does not have
the days (the mock's rule, which answers 422; the budgets of `refused` and
`accepted` are for the other HCMs) and HR changes nothing: then a refusal is for
ever, which is why the days may be given back. A request that failed for another
reason, or whose refusal HCM does not keep to, may still be debited by a later
attempt, of a row that was reset or of a second row of its own, after its days
were given back. HCM promises no such rule (TRD C2, C4), and nothing in the code
looks at the state of the request before the POST.

`ConsumedIsGranted` needs that HR changes nothing and one of two guards. The
first is the code's: as long as every GET tells the balance, the worker posts no
more than it has read, and since it is the only one to debit, that is still there
when HCM gets the POST, *whatever HCM would accept*. The second is HCM's: as long
as it refuses what it does not have, whatever the GETs tell. In contrast to
`overcommit` it says where the staleness of the cache ends. With neither guard,
a failed GET and an accepting HCM, it does not hold (above).

`PromisedIsCovered` has a premise, that HCM is debited only for requests that
are still on their way, so that the run shows this and not `cancelled` again.

## 5. What is proved

The proofs hold for all values of the constants that satisfy the named
assumptions: managers and admins are users, requests are for a positive whole
number of days, readings are integers, batch size and attempts are positive,
bounds are numbers, and `None` is none of the values it stands beside. TLC
evaluates them in every run.

**SumProofs.** Balances are compared with a sum over the open reservations, so
what a filing or a settlement does to a balance needs facts about sums of any
number of terms. The provers cannot use an induction theorem with an operator
as its parameter; `SubsetInduction` is induction over the subsets of a finite
set, stated for a *set* of subsets, one that has a subset whenever it has all
smaller ones of it, and proved by a smallest counterexample. From it the
fold behind `Total` is shown to obey its recursion (`SumsExist`, `SumsAgree`,
`SumStep`), and then what is needed: any term can be taken off (`SumSplit`), one
more term adds its value (`OneMoreSums`), and fewer terms, none of them
negative, sum to no more (`SumLess`, `PartSumsLess`).

**TimeOffProofs, LedgerProofs.**

* `TypeCorrect`: TypeOK is inductive by itself.
* `IInvHolds`: `IInv` is TypeOK, `ReservationFollowsState` and `IdBookkeeping`.
* `ReservationsFollowStates`: a part of `IInv`. It needs the types and
  `EdgesAre`, the facts about TRANSITIONS it rests on: a request leaves a
  holding state only through a transaction that settles the reservation, and
  nothing leads from a settled state back to a holding one.
* `ExternalIdsIdentify`: OneExternalIdPerRequest is not inductive. A
  re-approval appends a row with the id the *request* stores, so the invariant
  has to tie the row's id to the request's, every stored id to a row, and ids to
  be no larger than the table is long, so that the next one is fresh. This is
  `IdBookkeeping` (`IdsAreBookkept`); the approval (`ApproveKeepsIds`) is the
  only hard case. `ApprovedRequestsAreSubmitted` is from the same invariant.
* `DriftPauses`: for `MayCrash = FALSE`, a report pauses what it must and no
  more, because a report is the only step that touches the cache.
* `ReservationsImplementLedger`: TimeOff refines LeaveLedger. A filing is
  SetAside (`AvailableIsEffective`: the balance the code checks is the one the
  ledger has available), a rejection, cancellation or HCM failure is GiveBack,
  or nothing when the hold was given back before, `markConsumed` is Spend, a
  report is Grant.
* `CallsDoNotOverdraw`: for any number of requests of any sizes, only a report
  about a key takes its effective balance below zero. Filed requests are finite
  in number (`FiledIsFinite`, part of the invariant since ReqIds need not be).
  The proof is on the ledger: SetAside is guarded by what is available, and one
  more hold takes exactly its size from that because sizes are whole hundredths
  (`RoundIs`); GiveBack and Spend leave fewer terms to the sum.
* `RoundingDoesNotAddUp`: the balance is rounded before it is compared, so a
  filing may take days that are not there. The shortfall of all filings
  together stays within five thousandths of a day, the shortfall of one.

**HcmOutboxProofs.** `OutboxInv` adds to the types that attempts and status agree
(`Counted`) and that a row a client holds is INFLIGHT or as new; from it
`RowsDieExhausted` and `HeldRowsAreLive`. `ClaimsOldestFirst` rests on
`BatchIsOldest` in QueueProofs: all rows of a batch but the newest are older
than that one, which bounds how many there are. `NothingIsStranded` is about
the client that always answers.

**DeliveryProofs.** `DeliveryInv` ties HCM to the tables: every debit carries the
external id of some row of its request (`DebitsMatchRows`), an answer of ok that
is still to be looked at means that its debit was made (`AckMeansDebited`), and
`IInv` holds of the tables. `OneDebitPerRequest` follows: HCM refuses a second
debit under the same id, and `IdBookkeeping` says that a request has only one.
`ConsumedIsDebited` follows from the acknowledgement, `ApprovedStaysQueued` from
what each way out of `_handleRow` does to row and request together.
`WorkerKeepsContract` is the step simulation of HcmOutbox: claims, answers,
resets and backoffs map to themselves, a crash and the end of a tick by an error
to Abandon, the steps of HCM and the users to stuttering. With it the theorems
of HcmOutboxProofs, instantiated, hold of the real worker: `WorkerRowsDieExhausted`
and `WorkerClaimsOldestFirst`. `TablesStaySound` and `WorkerDoesNotOverdraw` do
the same for those of TimeOff and the ledger; a report there carries whatever HCM
holds, which need not be one of `Readings`, so they rest on the step lemmas
(`LocalStep`, `StepStaysCovered`) and not on a refinement of TimeOff.

`DebitInv` is what DebitedOnce and the tables do not say: the books of HCM
balance (`BooksBalance`: what a key held at first is what it holds and what was
debited for its requests, a sum that grows by one term with each new debit and
with no repetition; what it holds may be less than nothing). The other parts have
premises. While HCM refuses exactly what it lacks, a refusal is for good
(`FailedIsOutOfReach`): a request in HCM_FAILED has not been debited and asks for
more than its key holds, and a balance that only debits move never rises. The
answer on its way to the worker has the same property (`NackMeansOutOfReach`),
which `Fail` turns into the state.
`FailedStaysUndebited` is that part. The last two are the guards: while every GET tells the balance, what the worker read is what its key holds
until the POST is answered, because nothing but that answer moves it
(`ReadStaysTrue`), so a POST is never for more than is there; and so HCM stays
at or above zero if either this or its own refusals can be relied on
(`InTheBlack`). `ConsumedStaysGranted` is from the books and `InTheBlack`, since
the CONSUMED requests are among the debited ones.

**IdempotencyProofs.** `KeysFileOnce` needs `OwnRequests`: what a scope has filed
is filed under its actor and under no other scope, so a fresh request is in
nobody's results. `OwnAnswers` is from the same invariant. `KeyedCallsAreCalls`
says that the tables under keyed and repeated calls are those of TimeOff, so
everything proved of it holds here; `RepetitionsDoNotOverdraw` spells out two.

**ReconciliationProofs.** `ReportsAreOfTimeOff`: storing a row is a report that
escalates nobody, which TimeOff with crashes allows, an escalation is
`markReviewRequired`, the rest of a loop is a stutter; the `Same...` lemmas say
that the instance of TimeOff is TimeOff. `CacheMovesForward` and
`AnsweredTakesEffect` assume that dates are numbers or unreadable, which is what
the code has to ensure for them to hold. The invariant is `Dated` (the cache is
dated with the instant it shows, and so is what is on its way) and, for the
second, `RowsSoFar`: each row the loop has passed is in the cache or is older
than it, and what its drift has yet to pause is in `drift`. That survives the
later rows because no two rows are of one key.

`ReadableRowsAreIndependent` bounds the finding of `poison`: if the dates of
pushes are numbers and the process does not die, a handler ends after its last
row or with the single row of a pull (`RowsAreSafe`: validation leaves a push
nothing the table refuses), and `RowsSoFar` says the rest. `ReportsKeepTablesSound`
and `ReportsOverdrawTheirOwn` assume nothing of dates: storing a row moves
the granted balance of one account (`StoreIsGrant`), all other steps are
TimeOff's or none, so the tables stay sound through batches that are cut short
and a batch overdraws only the keys it is about.

Every safety and action property of a passing run, and every refinement, is
stated by a theorem; where the run fixes the dates or that there is no crash, the
theorem has that as its hypothesis. Only model-checked: liveness (`EveryRowIsServed`, `OutboxIsServed`,
`ApprovedIsSettled`), since fairness and ENABLED are out of the prover's reach.
The runs that are violated have no theorem but the one that bounds `poison` and,
for `formats`, `CacheMovesForward`.

## 6. What is not modelled

Token and signature verification, DTO validation, configuration, health, error
formatting and the audit log: no control of their own, or never read by the
program. External ids are nanoids in the code and numbers here: a fresh one is
fresh. SQLite's own durability is taken for granted, as is that one process
runs per database (TRD §8). Floating point is modelled as exact decimals; of
its effects only the explicit rounding is kept. Backoff lengths are only known
to be positive (`Math.max(100, ...)`).

`reconcileActive` picks the keys it scans by `updated_at` and a limit; which
ones it picks is left open here. Two rows of one batch for the same key are left
out: they are two batches of one row, one after the other, but for what a crash
between them may leave. `dates.js` is a pure function of two dates, and
`computeBackoffMs` one of a number and a random value.

## 7. What would come next

A start-up step that resets INFLIGHT rows, the smallest change of the code under
which `ApprovedIsSettled` should hold with crashes; `Number` instead of text for
the dates of batch rows, under which `CacheMovesForward` applies.

## 8. Running it

```
tlc -workers 2 -config MCTimeOff_lifecycle.cfg MCTimeOff.tla
tlc -workers 2 -config MCHcmOutbox_serving.cfg HcmOutbox.tla
tlc -workers 2 -config MCDelivery_batch.cfg MCDelivery.tla
tlc -workers 2 -config MCReconciliation_reconcile.cfg MCReconciliation.tla
tlc -workers 2 -config MCIdempotency_idempotent.cfg MCIdempotency.tla
for m in Sum TimeOff Ledger Queue HcmOutbox Delivery Idempotency Reconciliation
do tlapm ${m}Proofs.tla; done
```

`batch` and `settled` take one and a half to three minutes, the other runs and
each proof about a minute at most.
