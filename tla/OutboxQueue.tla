---------------------------- MODULE OutboxQueue ----------------------------
(***************************************************************************)
(* The mutable columns of hcm_outbox as a sequence indexed by row id, and  *)
(* the statements of HcmOutboxService as functions of that sequence.       *)
(*                                                                         *)
(* next_attempt_at matters only through next_attempt_at <= now: it is the  *)
(* flag due.  enqueue and resetToPending set a time that has come already, *)
(* scheduleRetry one that is at least 100 ms away.                         *)
(***************************************************************************)
EXTENDS Integers, Sequences, FiniteSetsExt

CONSTANTS BatchSize,   \* config.outboxBatchSize
          MaxAttempts  \* config.outboxMaxAttempts

ASSUME OutboxAssumption == BatchSize \in Nat \ {0} /\ MaxAttempts \in Nat \ {0}

RowStatuses == {"PENDING", "INFLIGHT", "DONE", "DEAD"}

Row == [status : RowStatuses, attempts : Nat, due : BOOLEAN]

NewRow == [status |-> "PENDING", attempts |-> 0, due |-> TRUE]

(* Status only, whatever the row's status was before.                      *)
Done(q, i) == [q EXCEPT ![i].status = "DONE"]

(* Mutants: one attempt too many, a counter that is not stored, a status   *)
(* the table does not know.                                                *)
RetryOnceMore(q, i) ==
  LET next == q[i].attempts + 1
  IN IF next > MaxAttempts
     THEN [q EXCEPT ![i].status = "DEAD", ![i].attempts = next]
     ELSE [q EXCEPT ![i] = [status |-> "PENDING", attempts |-> next, due |-> FALSE]]
RetryUncounted(q, i) ==
  IF q[i].attempts + 1 >= MaxAttempts
  THEN [q EXCEPT ![i].status = "DEAD"]
  ELSE [q EXCEPT ![i].status = "PENDING", ![i].due = FALSE]
RetryRenamed(q, i) == [q EXCEPT ![i].status = "RETRYING", ![i].attempts = @ + 1]

(* scheduleRetry: the counter is read from the row, not from the claim.    *)
Retry(q, i) ==
  LET next == q[i].attempts + 1
  IN IF next >= MaxAttempts
     THEN [q EXCEPT ![i].status = "DEAD", ![i].attempts = next]
     ELSE [q EXCEPT ![i] = [status |-> "PENDING", attempts |-> next, due |-> FALSE]]

(* Mutant: the counter of the row is not cleared.                          *)
ResetStatusOnly(q, i) == [q EXCEPT ![i].status = "PENDING"]

Reset(q, i) == [q EXCEPT ![i] = NewRow]

DueRows(q) == {i \in DOMAIN q : q[i].status = "PENDING" /\ q[i].due}

(* Mutant: ORDER BY id DESC.                                               *)
NewestBatch(q) == {i \in DueRows(q) : Cardinality({j \in DueRows(q) : j > i}) < BatchSize}

(* The oldest BatchSize rows that are due.                                 *)
NextBatch(q) == {i \in DueRows(q) : Cardinality({j \in DueRows(q) : j < i}) < BatchSize}

(* Mutant: the UPDATE takes every due row, the SELECT had a LIMIT.         *)
ClaimUnlimited(q) == [i \in DOMAIN q |-> IF i \in DueRows(q)
                                         THEN [q[i] EXCEPT !.status = "INFLIGHT"]
                                         ELSE q[i]]

Claim(q) == [i \in DOMAIN q |-> IF i \in NextBatch(q)
                                THEN [q[i] EXCEPT !.status = "INFLIGHT"]
                                ELSE q[i]]

(* The clock passes the next_attempt_at of a row.                          *)
FallDue(q, i) == [q EXCEPT ![i].due = TRUE]

Waiting(q) == {i \in DOMAIN q : q[i].status = "PENDING" /\ ~q[i].due}
=============================================================================
