--------------------------- MODULE MCIdempotency ---------------------------
(***************************************************************************)
(* TLC instances of Idempotency: two employees who may send the same key.  *)
(* Nothing is approved, since an approval does not look at the keys.       *)
(***************************************************************************)
EXTENDS Idempotency, TLC

CONSTANTS ann, bob, r1, r2, r3, key1

TwoUsers    == {ann, bob}
NoUsers     == {}
NoManager   == [u \in Users |-> {None}]
OneSlot     == {"annual"}
ThreeRequests == {r1, r2, r3}
TheKey      == {key1}
OneDay      == {1}
DayOrTwo    == {0, 1000, 2000}
AtOne       == {[at |-> 1, text |-> FALSE]}
Interchangeable == Permutations(ReqIds) \cup Permutations(Users)
=============================================================================
