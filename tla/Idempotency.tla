---------------------------- MODULE Idempotency ----------------------------
(***************************************************************************)
(* POST /me/requests with an Idempotency-Key: TimeOffController.create and *)
(* IdempotencyService around TimeOffService.createRequest, and clients     *)
(* that repeat a call whenever they like.                                  *)
(*                                                                         *)
(* The handler never gives the thread away, so no other call comes between *)
(* lookup, createRequest and store.  But these are three transactions: the *)
(* process may die after the second one, or after store with the answer    *)
(* still unsent.                                                           *)
(*                                                                         *)
(* Keys are scoped by endpoint and actor; only one endpoint reads the      *)
(* header.  The stored response is the request it names.                   *)
(***************************************************************************)
EXTENDS TimeOff

CONSTANTS
  IdemKeys, \* keys clients send
  TTL,      \* TTL_MS
  MaxTime   \* bound: the last instant of the clock

ASSUME TimeAssumption == TTL \in Nat /\ MaxTime \in Nat

Scopes == IdemKeys \X Users
Stored == [answer : ReqIds, expires : Nat]

ASSUME ResultAssumption == None \notin ReqIds /\ None \notin Stored

VARIABLES
  stored, \* idempotency_keys
  now,    \* the clock
  filed,  \* history: the requests the calls of a scope have filed
  told    \* history: the request the last call of a scope was answered with

idemVars == <<vars, stored, now, filed, told>>

IdemTypeOK ==
  /\ TypeOK
  /\ stored \in [Scopes -> Stored \cup {None}]
  /\ now \in Nat
  /\ filed \in [Scopes -> SUBSET ReqIds]
  /\ told \in [Scopes -> ReqIds \cup {None}]

IdemInit ==
  /\ Init
  /\ stored = [c \in Scopes |-> None]
  /\ now = 0
  /\ filed = [c \in Scopes |-> {}]
  /\ told = [c \in Scopes |-> None]

(* Mutant: expires_at <= now.                                              *)
LiveShorter(row) == row # None /\ row.expires > now

(* Mutant: WHERE key = ? alone.                                            *)
LookupByKey(c) ==
  IF \E d \in Scopes : d[1] = c[1] /\ stored[d] # None
  THEN stored[CHOOSE d \in Scopes : d[1] = c[1] /\ stored[d] # None] ELSE None

(* The row of a key is good up to and with the instant it expires.         *)
Live(row) == row # None /\ row.expires >= now

lookup(c) == stored[c]

(* What lookup leaves: an expired row is deleted when it is asked for.     *)
Pruned(c) == IF Live(lookup(c)) THEN stored ELSE [stored EXCEPT ![c] = None]

(* A stored answer, whatever the body of this call says.                   *)
Replay(c) ==
  /\ Live(lookup(c))
  /\ told' = [told EXCEPT ![c] = lookup(c).answer]
  /\ UNCHANGED <<vars, stored, now, filed>>

(* Mutant: the key is taken before the answer is known.                    *)
RememberedEarly(c, r) == [stored EXCEPT ![c] = [answer |-> None, expires |-> now + TTL]]

(* store: INSERT OR REPLACE                                                *)
Remembered(c, r) == [stored EXCEPT ![c] = [answer |-> r, expires |-> now + TTL]]

(* The call that files the request, with the crash before store and the    *)
(* one between store and the answer.                                       *)
File(c, m, s, d, r) ==
  /\ ~Live(lookup(c))
  /\ createRequest(c[2], m, s, d, r)
  /\ filed' = [filed EXCEPT ![c] = filed[c] \cup {r}]
  /\ \/ /\ stored' = Remembered(c, r)
        /\ told' = [told EXCEPT ![c] = r] \/ (MayCrash /\ UNCHANGED told)
     \/ /\ MayCrash
        /\ stored' = Pruned(c)
        /\ UNCHANGED told
  /\ UNCHANGED now

(* createRequest throws: an error is not stored, a repetition tries again. *)
Refuse(c, s, d) ==
  /\ ~Live(lookup(c))
  /\ balances[<<c[2], s>>] # None => Thousandths(d) > Effective(<<c[2], s>>)
  /\ stored' = Pruned(c)
  /\ UNCHANGED <<vars, now, filed, told>>

KeyedCall ==
  \E c \in Scopes :
    \/ Replay(c)
    \/ \E s \in Slots, d \in DayCounts :
         \/ Refuse(c, s, d)
         \/ \E m \in ManagerClaims[c[2]], r \in ReqIds : File(c, m, s, d, r)

(* Everything else, a call without a key (lookup and store return at once) *)
(* included.                                                               *)
OtherStep == Next /\ UNCHANGED <<stored, now, filed, told>>

Tick == /\ now < MaxTime
        /\ now' = now + 1
        /\ UNCHANGED <<vars, stored, filed, told>>

IdemNext == KeyedCall \/ OtherStep \/ Tick

IdemSpec == IdemInit /\ [][IdemNext]_idemVars

-----------------------------------------------------------------------------
(* Properties *)

(* The lifetime of a key, its last instant included.                       *)
Remembers(c) == stored[c] # None /\ now <= stored[c].expires

(* Within the lifetime of a key the repetitions of a call, in any number   *)
(* and between any calls of others, file nothing more and are all answered *)
(* with the same request.  Only a crash inside the handler leaves a        *)
(* request the key does not know of, for which a repetition files another. *)
Once == INSTANCE FiledOnce WITH
  Calls   <- Scopes,
  Results <- ReqIds,
  results <- filed,
  current <- [c \in Scopes |-> IF Remembers(c) THEN stored[c].answer ELSE None],
  told    <- told

ImplementsFiledOnce == Once!OnceSpec

(* A call is only ever answered with a request of the actor who made it    *)
(* and that it filed itself, though another actor may send the same key.   *)
AnswersAreOwn ==
  \A c \in Scopes : told[c] # None =>
    /\ told[c] \in filed[c]
    /\ told[c] \in Filed /\ requests[told[c]].key[1] = c[2]
=============================================================================
