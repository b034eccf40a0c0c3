---------------------------- MODULE LeaveLedger ----------------------------
(***************************************************************************)
(* What the ledger of reservations promises, without requests, approvals   *)
(* or an outbox: days are set aside only while the granted balance covers  *)
(* them, and what was set aside is given back or spent once, for good.     *)
(* Only a grant, the word of HCM, may leave an account overdrawn.          *)
(***************************************************************************)
EXTENDS Integers

CONSTANTS Accounts, Holds, \* identifiers
          Sizes, Amounts,  \* what a hold and a grant may be
          Round(_),        \* the precision balances are compared at
          Total(_),        \* the sum of the values of a function
          None             \* no hold

VARIABLES granted, \* the balance last granted to each account, 0 before
          holds    \* every hold with its status, account and size, or None

ledgerVars == <<granted, holds>>

LedgerInit ==
  /\ granted = [a \in Accounts |-> 0]
  /\ holds = [h \in Holds |-> None]

Held(a) == {h \in Holds : holds[h] # None /\ holds[h].account = a
                                          /\ holds[h].status = "held"}

Available(a) == Round(granted[a] - Total([h \in Held(a) |-> holds[h].size]))

SetAside(h, a, size) ==
  /\ holds[h] = None
  /\ size <= Available(a)
  /\ holds' = [holds EXCEPT ![h] = [status |-> "held", account |-> a, size |-> size]]
  /\ UNCHANGED granted

Conclude(h, status) ==
  /\ holds[h] # None
  /\ holds[h].status = "held"
  /\ holds' = [holds EXCEPT ![h].status = status]
  /\ UNCHANGED granted

(* What is spent is HCM's to take off: only its next grant tells.          *)
GiveBack(h) == Conclude(h, "returned")
Spend(h)    == Conclude(h, "spent")

Grant(a, n) == /\ granted' = [granted EXCEPT ![a] = n]
               /\ UNCHANGED holds

LedgerNext ==
  \/ \E h \in Holds, a \in Accounts, size \in Sizes : SetAside(h, a, size)
  \/ \E h \in Holds : GiveBack(h) \/ Spend(h)
  \/ \E a \in Accounts, n \in Amounts : Grant(a, n)

LedgerSpec == LedgerInit /\ [][LedgerNext]_ledgerVars
=============================================================================
