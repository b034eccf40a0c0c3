-------------------------- MODULE MCReconciliation --------------------------
(***************************************************************************)
(* TLC instances of Reconciliation: one user with every role, two keys.    *)
(***************************************************************************)
EXTENDS Reconciliation, TLC

CONSTANTS admin, r1, p1

TheAdmin   == {admin}
NoManager  == [u \in Users |-> {None}]
TwoSlots   == {"annual", "sick"}
OneSlot    == {"annual"}
OneRequest == {r1}
OneScan    == {p1}
NoScans    == {}
OneDay     == {1}
Dates      == [at : 1..MaxTime, text : BOOLEAN]
NothingOrADay    == {0, 1000}
(* HCM itself may hold a negative balance, and say so when it is asked.    *)
BelowNothingToo  == {-1000, 0, 1000}
NumbersOrNaN     == {"number", "unreadable"}
Numbers          == {"number"}
TextsAndNumbers  == {"number", "text"}
TextsOrNaN       == {"text", "unreadable"}
=============================================================================
