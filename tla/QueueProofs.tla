---------------------------- MODULE QueueProofs ----------------------------
(***************************************************************************)
(* Lemmas about the statements of HcmOutboxService.                        *)
(***************************************************************************)
EXTENDS OutboxQueue, SumProofs

LEMMA DomainIsNat ==
  ASSUME NEW q \in Seq(Row)
  PROVE  /\ DOMAIN q \subseteq Nat
         /\ \A S \in SUBSET DOMAIN q : S # {} => Min(S) \in S
  BY MinIn

LEMMA NewRowTyped == NewRow \in Row
  BY DEF NewRow, Row, RowStatuses

(* Writing one row of a table                                              *)
LEMMA Write ==
  ASSUME NEW q \in Seq(Row), NEW i \in DOMAIN q, NEW v \in Row
  PROVE  LET p == [q EXCEPT ![i] = v]
         IN  /\ p \in Seq(Row)
             /\ DOMAIN p = DOMAIN q /\ Len(p) = Len(q)
             /\ p[i] = v
             /\ \A j \in DOMAIN q \ {i} : p[j] = q[j]
  OBVIOUS

LEMMA RowFields ==
  ASSUME NEW q \in Seq(Row), NEW i \in DOMAIN q
  PROVE  q[i] \in Row /\ q[i].attempts \in Nat /\ q[i].status \in RowStatuses
<1>1. q[i] \in Row
  OBVIOUS
<1> QED
  BY <1>1 DEF Row

(* Every statement yields a table with the same rows, and changes only     *)
(* what it names.                                                          *)
LEMMA DoneEffect ==
  ASSUME NEW q \in Seq(Row), NEW i \in DOMAIN q
  PROVE  /\ Done(q, i) \in Seq(Row)
         /\ DOMAIN Done(q, i) = DOMAIN q /\ Len(Done(q, i)) = Len(q)
         /\ Done(q, i)[i].status = "DONE" /\ Done(q, i)[i].attempts = q[i].attempts
         /\ \A j \in DOMAIN q \ {i} : Done(q, i)[j] = q[j]
<1> DEFINE v == [q[i] EXCEPT !.status = "DONE"]
<1>1. v \in Row /\ v.status = "DONE" /\ v.attempts = q[i].attempts
  BY RowFields DEF Row, RowStatuses
<1>2. Done(q, i) = [q EXCEPT ![i] = v]
  BY DEF Done
<1> HIDE DEF v
<1> QED
  BY <1>1, <1>2, Write

LEMMA RetryEffect ==
  ASSUME NEW q \in Seq(Row), NEW i \in DOMAIN q
  PROVE  /\ Retry(q, i) \in Seq(Row)
         /\ DOMAIN Retry(q, i) = DOMAIN q /\ Len(Retry(q, i)) = Len(q)
         /\ Retry(q, i)[i].attempts = q[i].attempts + 1
         /\ Retry(q, i)[i].status =
              IF q[i].attempts + 1 >= MaxAttempts THEN "DEAD" ELSE "PENDING"
         /\ \A j \in DOMAIN q \ {i} : Retry(q, i)[j] = q[j]
<1> DEFINE next == q[i].attempts + 1
<1>1. next \in Nat
  BY RowFields
<1> HIDE DEF next
<1>2. CASE next >= MaxAttempts
  <2> DEFINE v == [q[i] EXCEPT !.status = "DEAD", !.attempts = next]
  <2>1. Retry(q, i) = [q EXCEPT ![i] = v]
    BY <1>2 DEF Retry, next
  <2>2. v \in Row /\ v.status = "DEAD" /\ v.attempts = next
    <3>1. q[i] \in Row
      BY RowFields
    <3> QED
      BY <1>1, <3>1 DEF Row, RowStatuses
  <2> HIDE DEF v
  <2> QED
    BY <1>2, <2>1, <2>2, Write DEF next
<1>3. CASE ~(next >= MaxAttempts)
  <2> DEFINE v == [status |-> "PENDING", attempts |-> next, due |-> FALSE]
  <2>1. Retry(q, i) = [q EXCEPT ![i] = v]
    BY <1>3 DEF Retry, next
  <2>2. v \in Row /\ v.status = "PENDING" /\ v.attempts = next
    BY <1>1 DEF Row, RowStatuses
  <2> HIDE DEF v
  <2> QED
    BY <1>3, <2>1, <2>2, Write DEF next
<1> QED
  BY <1>2, <1>3

LEMMA ResetEffect ==
  ASSUME NEW q \in Seq(Row), NEW i \in DOMAIN q
  PROVE  /\ Reset(q, i) \in Seq(Row)
         /\ DOMAIN Reset(q, i) = DOMAIN q /\ Len(Reset(q, i)) = Len(q)
         /\ Reset(q, i)[i] = NewRow
         /\ \A j \in DOMAIN q \ {i} : Reset(q, i)[j] = q[j]
  BY NewRowTyped, Write DEF Reset

LEMMA FallDueEffect ==
  ASSUME NEW q \in Seq(Row), NEW i \in DOMAIN q
  PROVE  /\ FallDue(q, i) \in Seq(Row)
         /\ DOMAIN FallDue(q, i) = DOMAIN q /\ Len(FallDue(q, i)) = Len(q)
         /\ FallDue(q, i)[i].status = q[i].status
         /\ FallDue(q, i)[i].attempts = q[i].attempts
         /\ \A j \in DOMAIN q \ {i} : FallDue(q, i)[j] = q[j]
<1> DEFINE v == [q[i] EXCEPT !.due = TRUE]
<1>1. v \in Row /\ v.status = q[i].status /\ v.attempts = q[i].attempts
  BY RowFields DEF Row
<1>2. FallDue(q, i) = [q EXCEPT ![i] = v]
  BY DEF FallDue
<1> HIDE DEF v
<1> QED
  BY <1>1, <1>2, Write

LEMMA ClaimEffect ==
  ASSUME NEW q \in Seq(Row)
  PROVE  /\ NextBatch(q) \subseteq DueRows(q) /\ DueRows(q) \subseteq DOMAIN q
         /\ Claim(q) \in Seq(Row)
         /\ DOMAIN Claim(q) = DOMAIN q /\ Len(Claim(q)) = Len(q)
         /\ \A i \in NextBatch(q) : /\ Claim(q)[i].status = "INFLIGHT"
                                    /\ Claim(q)[i].attempts = q[i].attempts
         /\ \A i \in DOMAIN q \ NextBatch(q) : Claim(q)[i] = q[i]
<1>1. NextBatch(q) \subseteq DueRows(q) /\ DueRows(q) \subseteq DOMAIN q
  BY DEF NextBatch, DueRows
<1>2. \A i \in DOMAIN q :
        LET v == [q[i] EXCEPT !.status = "INFLIGHT"]
        IN  v \in Row /\ v.status = "INFLIGHT" /\ v.attempts = q[i].attempts
  BY RowFields DEF Row, RowStatuses
<1>3. Len(q) \in Nat /\ DOMAIN q = 1..Len(q)
  OBVIOUS
<1>4. Claim(q) \in [1..Len(q) -> Row]
  BY <1>2, <1>3 DEF Claim
<1>5. Claim(q) \in Seq(Row)
  BY <1>3, <1>4
<1>6. \A i \in NextBatch(q) : Claim(q)[i] = [q[i] EXCEPT !.status = "INFLIGHT"]
  BY <1>1 DEF Claim
<1> QED
  BY <1>1, <1>2, <1>3, <1>4, <1>5, <1>6 DEF Claim

LEMMA DueRowsFinite ==
  ASSUME NEW q \in Seq(Row)
  PROVE  /\ IsFiniteSet(DueRows(q))
         /\ \A S \in SUBSET DueRows(q) : IsFiniteSet(S) /\ Cardinality(S) \in Nat
<1>1. IsFiniteSet(1..Len(q)) /\ DueRows(q) \in SUBSET (1..Len(q))
  BY FS_Interval DEF DueRows
<1>2. IsFiniteSet(DueRows(q))
  BY <1>1, FS_Subset
<1> QED
  BY <1>2, FS_Subset, FS_CardinalityType

(* A batch has every due row that is older than one of its rows, and is no *)
(* larger than BatchSize: all but its newest row are older than that one.  *)
LEMMA BatchIsOldest ==
  ASSUME NEW q \in Seq(Row)
  PROVE  /\ Cardinality(NextBatch(q)) <= BatchSize
         /\ \A i \in NextBatch(q), j \in DueRows(q) : j < i => j \in NextBatch(q)
<1> DEFINE Older(i) == {j \in DueRows(q) : j < i}
<1>1. /\ DueRows(q) \subseteq Nat /\ DueRows(q) \subseteq 1..Len(q) /\ Len(q) \in Nat
      /\ NextBatch(q) \subseteq DueRows(q)
      /\ BatchSize \in Nat \ {0}
  BY OutboxAssumption DEF NextBatch, DueRows
<1>2. \A i : Older(i) \in SUBSET DueRows(q) /\ IsFiniteSet(Older(i)) /\ Cardinality(Older(i)) \in Nat
  BY DueRowsFinite
<1>3. NextBatch(q) = {i \in DueRows(q) : Cardinality(Older(i)) < BatchSize}
  BY DEF NextBatch
<1>4. ASSUME NEW i \in NextBatch(q), NEW j \in DueRows(q), j < i
      PROVE  j \in NextBatch(q)
  <2>1. Older(j) \in SUBSET Older(i)
    BY <1>1, <1>4
  <2> HIDE DEF Older
  <2>2. Cardinality(Older(j)) <= Cardinality(Older(i))
    BY <1>2, <2>1, FS_Subset
  <2> QED
    BY <1>1, <1>2, <1>3, <2>2
<1>5. CASE NextBatch(q) = {}
  BY <1>1, <1>4, <1>5, FS_EmptySet
<1>6. CASE NextBatch(q) # {}
  <2> DEFINE Gap == {Len(q) - i : i \in NextBatch(q)}
  <2>1. Gap \in SUBSET Nat /\ Gap # {}
    BY <1>1, <1>6
  <2>2. PICK m \in NextBatch(q) : \A i \in NextBatch(q) : i <= m
    <3> HIDE DEF Gap
    <3>1. Min(Gap) \in Gap /\ \A n \in Gap : Min(Gap) <= n
      BY <2>1, MinIn
    <3>2. PICK m \in NextBatch(q) : Min(Gap) = Len(q) - m
      BY <3>1 DEF Gap
    <3>3. \A i \in NextBatch(q) : Len(q) - m <= Len(q) - i
      BY <3>1, <3>2 DEF Gap
    <3> QED
      BY <1>1, <3>3
  <2>3. NextBatch(q) \ {m} \in SUBSET Older(m)
    BY <1>1, <2>2
  <2> HIDE DEF Older
  <2>4. Cardinality(NextBatch(q) \ {m}) <= Cardinality(Older(m))
    BY <1>2, <2>3, FS_Subset
  <2>5. IsFiniteSet(NextBatch(q)) /\ Cardinality(NextBatch(q)) \in Nat
    BY <1>1, DueRowsFinite
  <2>6. Cardinality(NextBatch(q) \ {m}) = Cardinality(NextBatch(q)) - 1
    BY <2>2, <2>5, FS_RemoveElement
  <2>7. Cardinality(Older(m)) < BatchSize
    BY <1>3, <2>2
  <2> QED
    BY <1>1, <1>2, <1>4, <2>4, <2>5, <2>6, <2>7
<1> QED
  BY <1>5, <1>6

LEMMA AppendEffect ==
  ASSUME NEW q \in Seq(Row)
  PROVE  /\ Append(q, NewRow) \in Seq(Row)
         /\ Len(Append(q, NewRow)) = Len(q) + 1
         /\ Append(q, NewRow)[Len(q) + 1] = NewRow
         /\ \A j \in DOMAIN q : Append(q, NewRow)[j] = q[j]
  BY NewRowTyped
=============================================================================
