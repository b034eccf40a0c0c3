----------------------------- MODULE MCDelivery -----------------------------
(***************************************************************************)
(* TLC instances of Delivery.  Who may do what is TimeOff's matter: here   *)
(* one user with every role files and decides, on one key.  The instances  *)
(* differ in what may go wrong and how often.                              *)
(***************************************************************************)
EXTENDS Delivery, TLC

CONSTANTS admin, r1, r2

TheAdmin    == {admin}
NoManager   == [u \in Users |-> {None}]
OneSlot     == {"annual"}
OneRequest  == {r1}
TwoRequests == {r1, r2}
Interchangeable == Permutations(ReqIds)

OneDay   == {1}
OneOrTwo == {1, 2}
AtOne    == {[at |-> 1, text |-> FALSE]}
Readings02 == {0, 2000}
OneGranted == [k \in Keys |-> 1000]
TwoGranted == [k \in Keys |-> 2000]

Only(kinds) == [kind \in Kinds |-> IF kind \in kinds THEN 1 ELSE 0]

(* One report is the least: before it no request can be filed.             *)
JustASnapshot   == Only({"report"})
AllButCrash     == [Only(Kinds \ {"crash"}) EXCEPT !["report"] = 2]
NoAdjustment    == [Only(Kinds \ {"adjust", "refused", "lost", "misread"}) EXCEPT !["report"] = 2]
WithCrash       == Only({"report", "crash"})
WithUnanswered  == Only({"report", "unanswered"})

(* Four of the seven events of NoAdjustment at most, among them the first  *)
(* report, without which nothing can be filed.                             *)
AtMostFour == left["crash"] + left["unread"] + left["unanswered"]
                + left["accepted"] + left["report"] + left["reset"] >= 3
=============================================================================
