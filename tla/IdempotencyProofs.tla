------------------------- MODULE IdempotencyProofs -------------------------
(***************************************************************************)
(* Theorems about Idempotency, for any actors, keys and lifetimes.         *)
(***************************************************************************)
EXTENDS Idempotency, LedgerProofs

USE NoneAssumption

(* What a scope remembers, was told and has filed is its actor's own.      *)
OwnRequests ==
  \A c \in Scopes :
    /\ stored[c] # None => stored[c].answer \in filed[c]
    /\ told[c] # None => told[c] \in filed[c]
    /\ \A r \in filed[c] : r \in Filed /\ requests[r].key[1] = c[2]

IdemInv == IdemTypeOK /\ OwnRequests

(* What store and lookup leave of the keys                                 *)
LEMMA PrunedTyped ==
  ASSUME IdemTypeOK, NEW c \in Scopes
  PROVE  /\ Pruned(c) \in [Scopes -> Stored \cup {None}]
         /\ Pruned(c)[c] \in {stored[c], None}
         /\ ~Live(lookup(c)) => Pruned(c)[c] = None
         /\ \A d \in Scopes \ {c} : Pruned(c)[d] = stored[d]
  BY DEF IdemTypeOK, Pruned, lookup

LEMMA RememberedTyped ==
  ASSUME IdemTypeOK, NEW c \in Scopes, NEW r \in ReqIds
  PROVE  /\ Remembered(c, r) \in [Scopes -> Stored \cup {None}]
         /\ Remembered(c, r)[c] = [answer |-> r, expires |-> now + TTL]
         /\ Remembered(c, r)[c] \in Stored
         /\ \A d \in Scopes \ {c} : Remembered(c, r)[d] = stored[d]
<1>1. [answer |-> r, expires |-> now + TTL] \in Stored
  BY TimeAssumption DEF IdemTypeOK, Stored
<1> QED
  BY <1>1 DEF IdemTypeOK, Remembered

LEMMA IdemInitInv == IdemInit => IdemInv /\ IInv
  BY InitIInv DEF IdemInit, IdemInv, IInv, IdemTypeOK, OwnRequests

LEMMA IdemLocal == IInv /\ [IdemNext]_idemVars => IInv' /\ [Next]_vars
<1> SUFFICES ASSUME IInv, [IdemNext]_idemVars PROVE [Next]_vars
  BY NextIInv
<1>1. CASE KeyedCall
  <2>1. PICK c \in Scopes :
          \/ Replay(c)
          \/ \E s \in Slots, d \in DayCounts :
               \/ Refuse(c, s, d)
               \/ \E m \in ManagerClaims[c[2]], r \in ReqIds : File(c, m, s, d, r)
    BY <1>1 DEF KeyedCall
  <2>2. c[2] \in Users
    BY DEF Scopes
  <2> QED
    BY <2>1, <2>2 DEF Replay, Refuse, File, Next, UserStep
<1>2. CASE OtherStep
  BY <1>2 DEF OtherStep
<1>3. CASE Tick \/ UNCHANGED idemVars
  BY <1>3 DEF Tick, idemVars
<1> QED
  BY <1>1, <1>2, <1>3 DEF IdemNext

(* What a call that files does                                             *)
LEMMA FileEffect ==
  ASSUME IInv, IdemInv, NEW c \in Scopes, NEW s \in Slots, NEW d \in DayCounts,
         NEW m \in ManagerClaims[c[2]], NEW r \in ReqIds, File(c, m, s, d, r)
  PROVE  /\ r \notin Filed /\ r \in Filed' /\ requests'[r].key[1] = c[2]
         /\ \A b \in Scopes : r \notin filed[b]
         /\ filed' = [filed EXCEPT ![c] = filed[c] \cup {r}]
         /\ now' = now /\ ~Live(stored[c])
<1>1. c[2] \in Users /\ createRequest(c[2], m, s, d, r)
  BY DEF Scopes, File
<1>2. r \notin Filed /\ r \in Filed'
  BY <1>1, CreateEffect
<1>3. requests'[r].key[1] = c[2]
  BY <1>1 DEF createRequest, IInv, TypeOK
<1> QED
  BY <1>2, <1>3 DEF File, lookup, IdemInv, OwnRequests

(* Every call keeps the invariant.                                         *)
LEMMA IdemNextInv ==
  ASSUME IInv, IdemInv, [IdemNext]_idemVars
  PROVE  IdemInv'
<1>1. TypeOK' /\ \A r \in Filed : r \in Filed' /\ requests'[r].key = requests[r].key
  BY IdemLocal, FiledGrows DEF IInv, SameDays
<1>t. /\ stored \in [Scopes -> Stored \cup {None}] /\ now \in Nat
      /\ filed \in [Scopes -> SUBSET ReqIds] /\ told \in [Scopes -> ReqIds \cup {None}]
      /\ OwnRequests
  BY DEF IdemInv, IdemTypeOK
<1>2. ASSUME NEW c \in Scopes, Replay(c) PROVE IdemInv'
  <2>1. stored[c] \in Stored /\ stored[c].answer \in ReqIds /\ stored[c].answer \in filed[c]
    BY <1>2, <1>t DEF Replay, Live, lookup, OwnRequests, Stored
  <2>2. /\ told' = [told EXCEPT ![c] = stored[c].answer]
        /\ UNCHANGED <<requests, stored, now, filed>>
    BY <1>2 DEF Replay, lookup, vars
  <2>3. IdemTypeOK'
    BY <1>1, <1>t, <2>1, <2>2 DEF IdemTypeOK
  <2>4. OwnRequests'
    BY <1>1, <1>t, <2>1, <2>2 DEF OwnRequests
  <2> QED
    BY <2>3, <2>4 DEF IdemInv
<1>3. ASSUME NEW c \in Scopes, NEW s \in Slots, NEW d \in DayCounts,
             NEW m \in ManagerClaims[c[2]], NEW r \in ReqIds, File(c, m, s, d, r)
      PROVE  IdemInv'
  <2>1. /\ r \in Filed' /\ requests'[r].key[1] = c[2]
        /\ filed' = [filed EXCEPT ![c] = filed[c] \cup {r}]
        /\ now' = now
    BY <1>3, FileEffect
  <2>2. \A b \in Scopes : /\ filed[b] \subseteq filed'[b]
                          /\ \A q \in filed'[b] : q \in Filed' /\ requests'[q].key[1] = b[2]
    <3> SUFFICES ASSUME NEW b \in Scopes
                 PROVE  /\ filed[b] \subseteq filed'[b]
                        /\ \A q \in filed'[b] : q \in Filed' /\ requests'[q].key[1] = b[2]
      OBVIOUS
    <3>1. \A q \in filed[b] : q \in Filed' /\ requests'[q].key[1] = b[2]
      BY <1>1, <1>t DEF OwnRequests
    <3>2. CASE b = c
      BY <1>t, <2>1, <3>1, <3>2
    <3>3. CASE b # c
      BY <1>t, <2>1, <3>1, <3>3
    <3> QED
      BY <3>2, <3>3
  <2>3. CASE stored' = Remembered(c, r) /\ (told' = [told EXCEPT ![c] = r] \/ UNCHANGED told)
    <3>1. /\ stored' \in [Scopes -> Stored \cup {None}]
          /\ stored'[c].answer = r
          /\ \A b \in Scopes \ {c} : stored'[b] = stored[b]
      <4>1. stored'[c] = [answer |-> r, expires |-> now + TTL]
        BY <2>3, RememberedTyped DEF IdemInv
      <4> QED
        BY <2>3, <4>1, RememberedTyped DEF IdemInv
    <3>2. IdemTypeOK'
      BY <1>1, <1>t, <2>1, <2>3, <3>1 DEF IdemTypeOK
    <3>3. r \in filed'[c]
      BY <1>t, <2>1
    <3>4. OwnRequests'
      BY <1>t, <2>2, <2>3, <3>1, <3>3 DEF OwnRequests
    <3> QED
      BY <3>2, <3>4 DEF IdemInv
  <2>4. CASE stored' = Pruned(c) /\ UNCHANGED told
    <3>1. /\ stored' \in [Scopes -> Stored \cup {None}]
          /\ \A b \in Scopes : stored'[b] \in {stored[b], None}
      BY <2>4, PrunedTyped DEF IdemInv
    <3>2. IdemTypeOK'
      BY <1>1, <1>t, <2>1, <2>4, <3>1 DEF IdemTypeOK
    <3>3. OwnRequests'
      BY <1>t, <2>2, <2>4, <3>1 DEF OwnRequests
    <3> QED
      BY <3>2, <3>3 DEF IdemInv
  <2> QED
    BY <1>3, <2>3, <2>4 DEF File
<1>4. ASSUME NEW c \in Scopes, stored' = Pruned(c), UNCHANGED <<now, filed, told>>
      PROVE  IdemInv'
  <2>1. /\ stored' \in [Scopes -> Stored \cup {None}]
        /\ \A b \in Scopes : stored'[b] \in {stored[b], None}
    BY <1>4, PrunedTyped DEF IdemInv
  <2>2. IdemTypeOK'
    BY <1>1, <1>t, <1>4, <2>1 DEF IdemTypeOK
  <2>3. OwnRequests'
    BY <1>1, <1>t, <1>4, <2>1 DEF OwnRequests
  <2> QED
    BY <2>2, <2>3 DEF IdemInv
<1>5. ASSUME UNCHANGED <<stored, filed, told>>, now' \in Nat PROVE IdemInv'
  BY <1>1, <1>t, <1>5 DEF IdemInv, IdemTypeOK, OwnRequests
<1>6. CASE KeyedCall
  BY <1>2, <1>3, <1>4, <1>6 DEF KeyedCall, Refuse
<1>7. CASE OtherStep \/ Tick \/ UNCHANGED idemVars
  BY <1>t, <1>5, <1>7 DEF OtherStep, Tick, idemVars
<1> QED
  BY <1>6, <1>7 DEF IdemNext

THEOREM IdemInvHolds == IdemSpec => [](IInv /\ IdemInv)
<1>1. IInv /\ IdemInv /\ [IdemNext]_idemVars => (IInv /\ IdemInv)'
  BY IdemLocal, IdemNextInv
<1> QED
  BY <1>1, IdemInitInv, PTL DEF IdemSpec

(* The stored answers keep their types, crashes included.                  *)
THEOREM IdemTypeCorrect == IdemSpec => []IdemTypeOK
<1>1. IdemInv => IdemTypeOK
  BY DEF IdemInv
<1> QED
  BY <1>1, IdemInvHolds, PTL

(* Nobody is answered with the request of another, whatever keys are sent. *)
THEOREM OwnAnswers == IdemSpec => []AnswersAreOwn
<1>1. IdemInv => AnswersAreOwn
  BY DEF IdemInv, OwnRequests, AnswersAreOwn
<1> QED
  BY <1>1, IdemInvHolds, PTL

-----------------------------------------------------------------------------
(* The tables underneath *)

(* To the tables, a call with a key is a call without one or nothing.      *)
THEOREM KeyedCallsAreCalls == IdemSpec => Spec
<1>1. IInv /\ IdemInv /\ [IdemNext]_idemVars => [Next]_vars
  BY IdemLocal
<1>2. IdemInit => Init
  BY DEF IdemInit
<1> QED
  BY <1>1, <1>2, IdemInvHolds, PTL DEF IdemSpec, Spec

(* However often a client repeats a call, with a key or without, and       *)
(* wherever the process dies, reservations implement the ledger and no     *)
(* balance is overdrawn.                                                   *)
THEOREM RepetitionsDoNotOverdraw == IdemSpec => OnlyReportsOverdraw /\ ImplementsLedger
  BY KeyedCallsAreCalls, CallsDoNotOverdraw, ReservationsImplementLedger, PTL

-----------------------------------------------------------------------------
(* The promise to clients *)

(* What the abstract specification remembers                               *)
Answer(c) == IF Remembers(c) THEN stored[c].answer ELSE None

LEMMA LiveIsRemembered ==
  ASSUME NEW c \in Scopes
  PROVE  Live(stored[c]) <=> stored[c] # None /\ stored[c].expires >= now
  BY DEF Live

LEMMA AnswerTyped ==
  ASSUME IdemInv, NEW c \in Scopes
  PROVE  /\ Remembers(c) <=> Live(stored[c])
         /\ Remembers(c) => Answer(c) = stored[c].answer /\ Answer(c) \in ReqIds
         /\ ~Remembers(c) => Answer(c) = None
         /\ Remembers(c) <=> Answer(c) # None
<1>1. stored[c] # None => /\ stored[c] \in Stored
                          /\ stored[c].answer \in ReqIds /\ stored[c].expires \in Nat
  BY DEF IdemInv, IdemTypeOK, Stored
<1>2. now \in Nat
  BY DEF IdemInv, IdemTypeOK
<1>3. Remembers(c) <=> Live(stored[c])
  BY <1>1, <1>2, LiveIsRemembered DEF Remembers
<1>4. Remembers(c) => stored[c].answer \in ReqIds
  BY <1>1 DEF Remembers
<1> QED
  BY <1>3, <1>4, ResultAssumption DEF Answer

(* The memory of a scope depends on its own row and the clock alone.       *)
LEMMA AnswerKept ==
  ASSUME NEW c \in Scopes, stored'[c] = stored[c], now' = now
  PROVE  Answer(c)' = Answer(c)
  BY DEF Answer, Remembers

(* A row that is gone, or was expired, is not remembered.                  *)
LEMMA PrunedForgotten ==
  ASSUME IdemInv, NEW c \in Scopes, stored' = Pruned(c), now' = now, ~Live(stored[c])
  PROVE  \A b \in Scopes : Answer(b)' = Answer(b)
<1>1. Answer(c) = None
  BY AnswerTyped
<1>2. Answer(c)' = None
  BY PrunedTyped DEF Answer, Remembers, lookup, IdemInv
<1>3. \A b \in Scopes \ {c} : Answer(b)' = Answer(b)
  BY PrunedTyped, AnswerKept DEF IdemInv
<1> QED
  BY <1>1, <1>2, <1>3

LEMMA StepImplementsOnce ==
  ASSUME IInv, IdemInv, [IdemNext]_idemVars
  PROVE  [Once!OnceNext]_(Once!onceVars)
<1> DEFINE cur == [c \in Scopes |-> IF Remembers(c) THEN stored[c].answer ELSE None]
<1>c. /\ cur = [c \in Scopes |-> Answer(c)] /\ cur' = [c \in Scopes |-> Answer(c)']
      /\ \A c \in Scopes : cur[c] = Answer(c) /\ cur'[c] = Answer(c)'
  BY DEF Answer
<1>t. /\ stored \in [Scopes -> Stored \cup {None}] /\ now \in Nat
      /\ filed \in [Scopes -> SUBSET ReqIds] /\ told \in [Scopes -> ReqIds \cup {None}]
  BY DEF IdemInv, IdemTypeOK
<1>u. Once!onceVars = <<filed, cur, told>>
  BY DEF Once!onceVars
<1> HIDE DEF cur
<1>s. ASSUME \A c \in Scopes : Answer(c)' = Answer(c) PROVE cur' = cur
  BY <1>c, <1>s
<1>1. ASSUME NEW c \in Scopes, Replay(c) PROVE Once!Repeat(c)
  <2>1. \A b \in Scopes : Answer(b)' = Answer(b)
    BY <1>1, AnswerKept DEF Replay
  <2>2. cur[c] # None /\ cur[c] = stored[c].answer
    BY <1>1, <1>c, AnswerTyped, ResultAssumption DEF Replay, lookup
  <2> QED
    BY <1>1, <1>s, <2>1, <2>2 DEF Replay, lookup, Once!Repeat, cur
<1>2. ASSUME NEW c \in Scopes, NEW s \in Slots, NEW d \in DayCounts,
             NEW m \in ManagerClaims[c[2]], NEW r \in ReqIds, File(c, m, s, d, r)
      PROVE  Once!Perform(c, r) \/ Once!Lose(c, r)
  <2>1. /\ \A b \in Scopes : r \notin filed[b]
        /\ filed' = [filed EXCEPT ![c] = filed[c] \cup {r}]
        /\ now' = now /\ ~Live(stored[c])
    BY <1>2, FileEffect
  <2>2. cur[c] = None
    BY <1>c, <2>1, AnswerTyped
  <2>3. Once!Produce(c, r)
    BY <2>1, <2>2 DEF Once!Produce, cur
  <2>4. CASE stored' = Remembered(c, r) /\ (told' = [told EXCEPT ![c] = r] \/ UNCHANGED told)
    <3>1. /\ stored'[c] = [answer |-> r, expires |-> now + TTL] /\ stored'[c] # None
          /\ \A b \in Scopes \ {c} : stored'[b] = stored[b]
      BY <2>4, RememberedTyped, ResultAssumption DEF IdemInv
    <3>2. Answer(c)' = r
      BY <1>t, <2>1, <3>1, TimeAssumption DEF Answer, Remembers
    <3>3. \A b \in Scopes \ {c} : Answer(b)' = Answer(b)
      BY <2>1, <3>1, AnswerKept
    <3>4. cur' = [cur EXCEPT ![c] = r]
      BY <1>c, <3>2, <3>3
    <3> QED
      BY <2>3, <2>4, <3>4 DEF Once!Perform, cur
  <2>5. CASE stored' = Pruned(c) /\ UNCHANGED told
    <3>1. cur' = cur
      BY <1>s, <2>1, <2>5, PrunedForgotten
    <3> QED
      BY <2>3, <2>5, <3>1 DEF Once!Lose, cur
  <2> QED
    BY <1>2, <2>4, <2>5 DEF File
<1>3. ASSUME NEW c \in Scopes, NEW s \in Slots, NEW d \in DayCounts, Refuse(c, s, d)
      PROVE  UNCHANGED Once!onceVars
  <2>1. \A b \in Scopes : Answer(b)' = Answer(b)
    BY <1>3, PrunedForgotten DEF Refuse, lookup
  <2> QED
    BY <1>3, <1>s, <1>u, <2>1 DEF Refuse, Once!onceVars, cur
<1>4. ASSUME UNCHANGED <<stored, now, filed, told>> PROVE UNCHANGED Once!onceVars
  <2>1. \A b \in Scopes : Answer(b)' = Answer(b)
    BY <1>4, AnswerKept
  <2> QED
    BY <1>4, <1>s, <1>u, <2>1 DEF Once!onceVars, cur
<1>5. CASE Tick
  <2> DEFINE some == {c \in Scopes : Answer(c)' # Answer(c)}
  <2>1. ASSUME NEW c \in Scopes, Remembers(c)' PROVE Remembers(c)
    <3>1. stored[c] # None => stored[c].expires \in Nat
      BY <1>t DEF Stored
    <3> QED
      BY <1>5, <1>t, <2>1, <3>1 DEF Tick, Remembers
  <2>2. \A c \in Scopes : Answer(c)' = IF c \in some THEN None ELSE Answer(c)
    BY <1>5, <2>1 DEF Tick, Answer
  <2>3. some \in SUBSET Scopes
    OBVIOUS
  <2> HIDE DEF some
  <2>4. cur' = [c \in Scopes |-> IF c \in some THEN None ELSE cur[c]]
    BY <1>c, <2>2
  <2>5. Once!Forget
    BY <1>5, <2>3, <2>4 DEF Tick, Once!Forget, cur
  <2> QED
    BY <2>5 DEF Once!OnceNext
<1>6. CASE KeyedCall
  BY <1>1, <1>2, <1>3, <1>6 DEF KeyedCall, Once!OnceNext
<1>7. CASE OtherStep \/ UNCHANGED idemVars
  BY <1>4, <1>7 DEF OtherStep, idemVars
<1> QED
  BY <1>5, <1>6, <1>7 DEF IdemNext

LEMMA InitImplementsOnce == IdemInit => Once!OnceInit
  BY DEF IdemInit, Once!OnceInit, Remembers

(* Within the lifetime of a key nothing is filed twice and every answer is *)
(* the first one, for any number of clients, keys and repetitions; what a  *)
(* crash loses is lost to the key and to nothing else.                     *)
THEOREM KeysFileOnce == IdemSpec => ImplementsFiledOnce
<1>1. IInv /\ IdemInv /\ [IdemNext]_idemVars => [Once!OnceNext]_(Once!onceVars)
  BY StepImplementsOnce
<1> QED
  BY <1>1, InitImplementsOnce, IdemInvHolds, PTL
     DEF IdemSpec, ImplementsFiledOnce, Once!OnceSpec
=============================================================================
