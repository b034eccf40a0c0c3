------------------------------ MODULE MCTimeOff ------------------------------
(***************************************************************************)
(* TLC instances of TimeOff.                                               *)
(***************************************************************************)
EXTENDS TimeOff, TLC

CONSTANTS emp, boss, r1, r2

TwoUsers        == {emp, boss}
TheBoss         == {boss}
NoUsers         == {}
EmployeeFiles   == (emp :> {boss, None}) @@ (boss :> {})
OneSlot         == {"annual"}
TwoRequests     == {r1, r2}
Interchangeable == Permutations(ReqIds)

OneOrTwoDays  == {1, 2}
(* What the CHECK refuses, nothing, a day, almost two days                 *)
RoughReadings == {-1000, 0, 1000, 1996}
Numbers       == {[at |-> t, text |-> FALSE] : t \in 1..2}
=============================================================================
