--------------------------- MODULE RequestStates ---------------------------
(***************************************************************************)
(* The request state machine of src/src/time-off/state-machine.js: a pure, *)
(* data-only module there and a module of constant operators here.         *)
(***************************************************************************)

PENDING         == "PENDING"
APPROVED        == "APPROVED"
REJECTED        == "REJECTED"
CANCELLED       == "CANCELLED"
CONSUMED        == "CONSUMED"
HCM_FAILED      == "HCM_FAILED"
REVIEW_REQUIRED == "REVIEW_REQUIRED"

States == {PENDING, APPROVED, REJECTED, CANCELLED, CONSUMED, HCM_FAILED,
           REVIEW_REQUIRED}

(* Mutant: a request HCM refused may be approved again.                    *)
TransitionsWithReapproval ==
  [s \in States |->
     CASE s = PENDING         -> {APPROVED, REJECTED, CANCELLED}
       [] s = APPROVED        -> {CONSUMED, CANCELLED, HCM_FAILED, REVIEW_REQUIRED}
       [] s = REVIEW_REQUIRED -> {APPROVED, REJECTED, CANCELLED}
       [] s = HCM_FAILED      -> {APPROVED, CANCELLED}
       [] OTHER               -> {}]

(* The adjacency sets.  A missing edge is refused.                         *)
Transitions ==
  [s \in States |->
     CASE s = PENDING         -> {APPROVED, REJECTED, CANCELLED}
       [] s = APPROVED        -> {CONSUMED, CANCELLED, HCM_FAILED, REVIEW_REQUIRED}
       [] s = REVIEW_REQUIRED -> {APPROVED, REJECTED, CANCELLED}
       [] s = HCM_FAILED      -> {CANCELLED}
       [] OTHER               -> {}]

(* canTransition; assertTransition throws exactly when this is FALSE.      *)
CanTransition(from, to) == to \in Transitions[from]

(* The states in which the days of a request are still set aside.          *)
Holding == {PENDING, APPROVED, REVIEW_REQUIRED}
=============================================================================
