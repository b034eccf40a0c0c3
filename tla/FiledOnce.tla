----------------------------- MODULE FiledOnce -----------------------------
(***************************************************************************)
(* What the Idempotency-Key header gives a client: as long as its key is   *)
(* remembered, a call brings about no second result, and every repetition  *)
(* is answered with the first.  A result may be lost before it is          *)
(* remembered; an answer that is lost later is had by repeating the call.  *)
(***************************************************************************)
CONSTANTS Calls,   \* what a key stands for: the key, with who sent it
          Results,
          None

VARIABLES results, \* the results every call has brought about so far
          current, \* the one it is remembered by, None when it is forgotten
          told     \* what it was answered last, None before the first time

onceVars == <<results, current, told>>

OnceInit == /\ results = [c \in Calls |-> {}]
            /\ current = [c \in Calls |-> None]
            /\ told = [c \in Calls |-> None]

Produce(c, r) == /\ current[c] = None
                 /\ \A d \in Calls : r \notin results[d]
                 /\ results' = [results EXCEPT ![c] = results[c] \cup {r}]

(* Whether or not the answer reaches the client                            *)
Perform(c, r) == /\ Produce(c, r)
                 /\ current' = [current EXCEPT ![c] = r]
                 /\ told' = [told EXCEPT ![c] = r] \/ UNCHANGED told

Lose(c, r) == Produce(c, r) /\ UNCHANGED <<current, told>>

Repeat(c) == /\ current[c] # None
             /\ told' = [told EXCEPT ![c] = current[c]]
             /\ UNCHANGED <<results, current>>

(* The time for which keys are remembered ends for some of them.           *)
Forget == /\ \E some \in SUBSET Calls :
               current' = [c \in Calls |-> IF c \in some THEN None ELSE current[c]]
          /\ UNCHANGED <<results, told>>

OnceNext == \/ \E c \in Calls : Repeat(c) \/ \E r \in Results : Perform(c, r) \/ Lose(c, r)
            \/ Forget

OnceSpec == OnceInit /\ [][OnceNext]_onceVars
=============================================================================
