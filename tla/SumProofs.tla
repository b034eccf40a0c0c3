----------------------------- MODULE SumProofs -----------------------------
(***************************************************************************)
(* Facts about SumFunction of finite functions.  SumFunction folds over    *)
(* the subsets of its domain, and CHOOSE picks the order: what it computes *)
(* is well defined (SumStep), and is the same in every order (SumSplit).   *)
(* Induction over subsets is by a set of good ones and a least bad one.    *)
(***************************************************************************)
EXTENDS FiniteSetsExt, TLAPS, WellFoundedInduction, FiniteSetTheorems

(* A set of numbers has a least element.                                   *)
LEMMA MinIn ==
  ASSUME NEW S \in SUBSET Nat, S # {}
  PROVE  Min(S) \in S /\ \A n \in S : Min(S) <= n
<1>1. PICK m \in S : \A n \in S : <<n, m>> \notin OpToRel(<, Nat)
  BY NatLessThanWellFounded, WFMin
<1>2. ASSUME NEW n \in S, n < m PROVE FALSE
  <2>1. <<n, m>> \in Nat \X Nat /\ <<n, m>>[1] < <<n, m>>[2]
    BY <1>2
  <2>2. <<n, m>> \in OpToRel(<, Nat)
    BY <2>1, Zenon DEF OpToRel
  <2> QED
    BY <1>1, <2>2
<1>3. \A n \in S : m <= n
  BY <1>2
<1> QED
  BY <1>3 DEF Min

LEMMA FiniteSubsets ==
  ASSUME NEW S, IsFiniteSet(S), NEW T \in SUBSET S
  PROVE  /\ IsFiniteSet(T) /\ Cardinality(T) \in Nat
         /\ \A U \in SUBSET T : U # T => Cardinality(U) < Cardinality(T)
<1>1. IsFiniteSet(T) /\ Cardinality(T) \in Nat
  BY FS_Subset, FS_CardinalityType
<1>2. ASSUME NEW U \in SUBSET T, U # T
      PROVE  Cardinality(U) < Cardinality(T)
  <2>1. IsFiniteSet(U) /\ Cardinality(U) <= Cardinality(T) /\ Cardinality(U) # Cardinality(T)
    BY <1>1, <1>2, FS_Subset
  <2>2. Cardinality(U) \in Nat
    BY <2>1, FS_CardinalityType
  <2> QED
    BY <1>1, <2>1, <2>2
<1> QED
  BY <1>1, <1>2

(* What holds of a subset whenever it holds of all smaller ones holds of   *)
(* the whole.                                                              *)
LEMMA SubsetInduction ==
  ASSUME NEW S, IsFiniteSet(S), NEW Good \in SUBSET (SUBSET S),
         \A T \in SUBSET S : (\A U \in SUBSET T : U # T => U \in Good) => T \in Good
  PROVE  \A T \in SUBSET S : T \in Good
<1> DEFINE Sizes == {Cardinality(T) : T \in (SUBSET S) \ Good}
<1> SUFFICES ASSUME (SUBSET S) \ Good # {} PROVE FALSE
  OBVIOUS
<1>1. Sizes \in SUBSET Nat /\ Sizes # {}
  BY FiniteSubsets
<1>2. Min(Sizes) \in Sizes /\ \A n \in Sizes : Min(Sizes) <= n
  <2> HIDE DEF Sizes
  <2> QED
    BY <1>1, MinIn
<1>3. PICK T \in (SUBSET S) \ Good : Cardinality(T) = Min(Sizes)
  BY <1>2
<1>4. \A U \in SUBSET T : U # T => U \in Good
  <2> SUFFICES ASSUME NEW U \in SUBSET T, U # T, U \notin Good PROVE FALSE
    OBVIOUS
  <2>1. Cardinality(U) \in Sizes
    OBVIOUS
  <2>2. Cardinality(U) < Cardinality(T) /\ Cardinality(U) \in Nat /\ Cardinality(T) \in Nat
    BY FiniteSubsets
  <2> HIDE DEF Sizes
  <2> QED
    BY <1>2, <1>3, <2>1, <2>2
<1> QED
  BY <1>3, <1>4

-----------------------------------------------------------------------------
(* The fold *)

Pick(s) == CHOOSE x \in s : TRUE

Sums(g, f, S) ==
  g = [s \in SUBSET S |-> IF s = {} THEN 0 ELSE f[Pick(s)] + g[s \ {Pick(s)}]]

LEMMA SumIsChosen ==
  ASSUME NEW f, NEW S
  PROVE  SumFunctionOnSet(f, S) = (CHOOSE g : Sums(g, f, S))[S]
  BY DEF SumFunctionOnSet, FoldFunctionOnSet, MapThenFoldSet, Sums, Pick

(* Two solutions of the recursion agree where both are defined.            *)
LEMMA SumsAgree ==
  ASSUME NEW f, NEW S, IsFiniteSet(S), NEW T, NEW g, NEW h, Sums(g, f, S), Sums(h, f, T)
  PROVE  \A U \in SUBSET S : U \in SUBSET T => g[U] = h[U]
<1> DEFINE Good == {U \in SUBSET S : U \in SUBSET T => g[U] = h[U]}
<1>1. ASSUME NEW U \in SUBSET S, \A V \in SUBSET U : V # U => V \in Good
      PROVE  U \in Good
  <2> SUFFICES ASSUME U \in SUBSET T PROVE g[U] = h[U]
    OBVIOUS
  <2>1. g[U] = IF U = {} THEN 0 ELSE f[Pick(U)] + g[U \ {Pick(U)}]
    BY Zenon DEF Sums
  <2>2. h[U] = IF U = {} THEN 0 ELSE f[Pick(U)] + h[U \ {Pick(U)}]
    BY Zenon DEF Sums
  <2>3. CASE U = {}
    BY <2>1, <2>2, <2>3
  <2>4. CASE U # {}
    <3>1. Pick(U) \in U
      BY <2>4 DEF Pick
    <3>2. U \ {Pick(U)} \in Good
      BY <1>1, <3>1
    <3> QED
      BY <2>1, <2>2, <3>2
  <2> QED
    BY <2>3, <2>4
<1>2. Good \in SUBSET (SUBSET S)
  OBVIOUS
<1>3. \A U \in SUBSET S : U \in Good
  <2> HIDE DEF Good
  <2> QED
    BY <1>1, <1>2, SubsetInduction
<1> QED
  BY <1>3

(* What SumFunctionOnSet is once the recursion has some solution.          *)
LEMMA SumSolves ==
  ASSUME NEW f, NEW S, IsFiniteSet(S), NEW g, Sums(g, f, S)
  PROVE  g[S] = SumFunctionOnSet(f, S)
<1> DEFINE h == CHOOSE h : Sums(h, f, S)
<1>1. Sums(h, f, S)
  OBVIOUS
<1> HIDE DEF h
<1>2. g[S] = h[S]
  BY <1>1, SumsAgree
<1> QED
  BY <1>2, SumIsChosen DEF h

LEMMA SumsExist ==
  ASSUME NEW f, NEW S, IsFiniteSet(S)
  PROVE  \A T \in SUBSET S : \E g : Sums(g, f, T)
<1> DEFINE Good == {T \in SUBSET S : \E g : Sums(g, f, T)}
<1>1. ASSUME NEW T \in SUBSET S, \A U \in SUBSET T : U # T => U \in Good
      PROVE  T \in Good
  <2> DEFINE V(U) == SumFunctionOnSet(f, U)
             G == [U \in SUBSET T |-> IF U = {} THEN 0 ELSE f[Pick(U)] + V(U \ {Pick(U)})]
  <2>1. ASSUME NEW U \in SUBSET T, U # {}
        PROVE  /\ U \ {Pick(U)} \in SUBSET T
               /\ V(U \ {Pick(U)}) = G[U \ {Pick(U)}]
    <3> DEFINE W == U \ {Pick(U)}
    <3>1. Pick(U) \in U
      BY <2>1 DEF Pick
    <3>2. W \in SUBSET T /\ W # T /\ W \in SUBSET S
      BY <3>1
    <3>3. PICK h : Sums(h, f, W)
      BY <1>1, <3>2
    <3> HIDE DEF W
    <3>4. V(W) = h[W]
      BY <3>2, <3>3, FiniteSubsets, SumSolves
    <3>5. h[W] = IF W = {} THEN 0 ELSE f[Pick(W)] + h[W \ {Pick(W)}]
      BY <3>3, Zenon DEF Sums
    <3>6. ASSUME W # {}
          PROVE  h[W \ {Pick(W)}] = V(W \ {Pick(W)})
      <4> DEFINE X == W \ {Pick(W)}
      <4>1. Pick(W) \in W
        BY <3>6 DEF Pick
      <4>2. X \in SUBSET W /\ X \in SUBSET T /\ X # T /\ X \in SUBSET S
        BY <3>2, <4>1
      <4>3. PICK e : Sums(e, f, X)
        BY <1>1, <4>2
      <4> HIDE DEF X
      <4>4. IsFiniteSet(X) /\ IsFiniteSet(W)
        BY <3>2, <4>2, FiniteSubsets
      <4>5. h[X] = e[X]
        BY <3>3, <4>2, <4>3, <4>4, SumsAgree
      <4>6. e[X] = V(X)
        BY <4>3, <4>4, SumSolves
      <4> QED
        BY <4>5, <4>6 DEF X
    <3>7. G[W] = IF W = {} THEN 0 ELSE f[Pick(W)] + V(W \ {Pick(W)})
      BY <3>2
    <3> QED
      BY <3>2, <3>4, <3>5, <3>6, <3>7 DEF W
  <2>2. Sums(G, f, T)
    <3> SUFFICES ASSUME NEW U \in SUBSET T
                 PROVE  G[U] = IF U = {} THEN 0 ELSE f[Pick(U)] + G[U \ {Pick(U)}]
      BY DEF Sums
    <3> QED
      BY <2>1
  <2> QED
    BY <2>2
<1>2. Good \in SUBSET (SUBSET S)
  OBVIOUS
<1>3. \A T \in SUBSET S : T \in Good
  <2> HIDE DEF Good
  <2> QED
    BY <1>1, <1>2, SubsetInduction
<1> QED
  BY <1>3

-----------------------------------------------------------------------------
(* The sum *)

LEMMA SumStep ==
  ASSUME NEW f, NEW S, IsFiniteSet(S)
  PROVE  SumFunctionOnSet(f, S) =
           IF S = {} THEN 0 ELSE f[Pick(S)] + SumFunctionOnSet(f, S \ {Pick(S)})
<1>1. PICK g : Sums(g, f, S)
  BY SumsExist
<1>2. g[S] = IF S = {} THEN 0 ELSE f[Pick(S)] + g[S \ {Pick(S)}]
  BY <1>1, Zenon DEF Sums
<1>3. g[S] = SumFunctionOnSet(f, S)
  BY <1>1, SumSolves
<1>4. ASSUME S # {}
      PROVE  g[S \ {Pick(S)}] = SumFunctionOnSet(f, S \ {Pick(S)})
  <2> DEFINE T == S \ {Pick(S)}
  <2>1. T \in SUBSET S /\ IsFiniteSet(T)
    BY FiniteSubsets
  <2>2. PICK h : Sums(h, f, T)
    BY <2>1, SumsExist
  <2> HIDE DEF T
  <2>3. g[T] = h[T]
    BY <1>1, <2>1, <2>2, SumsAgree
  <2>4. h[T] = SumFunctionOnSet(f, T)
    BY <2>1, <2>2, SumSolves
  <2> QED
    BY <2>3, <2>4 DEF T
<1> QED
  BY <1>2, <1>3, <1>4

LEMMA SumEmpty ==
  ASSUME NEW f
  PROVE  SumFunctionOnSet(f, {}) = 0
  BY SumStep, FS_EmptySet

LEMMA SumType ==
  ASSUME NEW f, NEW S, IsFiniteSet(S), \A x \in S : f[x] \in Int
  PROVE  \A T \in SUBSET S : SumFunctionOnSet(f, T) \in Int
<1> DEFINE Good == {T \in SUBSET S : SumFunctionOnSet(f, T) \in Int}
<1>1. ASSUME NEW T \in SUBSET S, \A U \in SUBSET T : U # T => U \in Good
      PROVE  T \in Good
  <2>1. CASE T = {}
    BY <2>1, SumEmpty
  <2>2. CASE T # {}
    <3>1. Pick(T) \in T
      BY <2>2 DEF Pick
    <3>2. SumFunctionOnSet(f, T \ {Pick(T)}) \in Int /\ f[Pick(T)] \in Int
      BY <1>1, <3>1
    <3>3. SumFunctionOnSet(f, T) = f[Pick(T)] + SumFunctionOnSet(f, T \ {Pick(T)})
      BY <2>2, FiniteSubsets, SumStep
    <3> QED
      BY <3>2, <3>3
  <2> QED
    BY <2>1, <2>2
<1>2. Good \in SUBSET (SUBSET S)
  OBVIOUS
<1>3. \A T \in SUBSET S : T \in Good
  <2> HIDE DEF Good
  <2> QED
    BY <1>1, <1>2, SubsetInduction
<1> QED
  BY <1>3

(* Any element may be the one that is added last.                          *)
LEMMA SumSplit ==
  ASSUME NEW f, NEW S, IsFiniteSet(S), \A x \in S : f[x] \in Int
  PROVE  \A T \in SUBSET S : \A x \in T :
           SumFunctionOnSet(f, T) = f[x] + SumFunctionOnSet(f, T \ {x})
<1> DEFINE Sum(T) == SumFunctionOnSet(f, T)
           Good   == {T \in SUBSET S : \A x \in T : Sum(T) = f[x] + Sum(T \ {x})}
<1>t. \A T \in SUBSET S : Sum(T) \in Int
  BY SumType
<1>s. \A T \in SUBSET S : T # {} => Sum(T) = f[Pick(T)] + Sum(T \ {Pick(T)})
  BY FiniteSubsets, SumStep
<1> HIDE DEF Sum
<1>1. ASSUME NEW T \in SUBSET S, \A U \in SUBSET T : U # T => U \in Good
      PROVE  T \in Good
  <2> SUFFICES ASSUME NEW x \in T PROVE Sum(T) = f[x] + Sum(T \ {x})
    OBVIOUS
  <2> DEFINE y == Pick(T)
  <2>1. y \in T
    BY DEF Pick
  <2>2. Sum(T) = f[y] + Sum(T \ {y})
    BY <1>s
  <2> HIDE DEF y
  <2>3. CASE x = y
    BY <2>2, <2>3
  <2>4. CASE x # y
    <3> DEFINE W == T \ {x, y}
    <3>1. T \ {x} \in Good /\ T \ {y} \in Good
      BY <1>1, <2>1
    <3>2. /\ y \in T \ {x} /\ x \in T \ {y}
          /\ (T \ {x}) \ {y} = W /\ (T \ {y}) \ {x} = W
      BY <2>1, <2>4
    <3>3. Sum(T \ {x}) = f[y] + Sum(W) /\ Sum(T \ {y}) = f[x] + Sum(W)
      BY <3>1, <3>2
    <3>4. f[x] \in Int /\ f[y] \in Int /\ Sum(W) \in Int
      BY <1>t, <2>1
    <3> QED
      BY <2>2, <3>3, <3>4
  <2> QED
    BY <2>3, <2>4
<1>2. Good \in SUBSET (SUBSET S)
  OBVIOUS
<1>3. \A T \in SUBSET S : T \in Good
  <2> HIDE DEF Good
  <2> QED
    BY <1>1, <1>2, SubsetInduction
<1> QED
  BY <1>3 DEF Sum

(* The sum depends on the values alone, and more values that are not       *)
(* negative do not make it smaller.                                        *)
LEMMA SumLess ==
  ASSUME NEW f, NEW g, NEW S, IsFiniteSet(S), NEW R \in SUBSET S,
         \A x \in S : g[x] \in Nat,
         \A x \in R : f[x] = g[x]
  PROVE  /\ SumFunctionOnSet(f, R) <= SumFunctionOnSet(g, S)
         /\ R = S => SumFunctionOnSet(f, R) = SumFunctionOnSet(g, S)
<1> DEFINE F(T) == SumFunctionOnSet(f, T \cap R)
           G(T) == SumFunctionOnSet(g, T)
           Good == {T \in SUBSET S : F(T) <= G(T) /\ (R = S => F(T) = G(T))}
<1>f. IsFiniteSet(R) /\ \A x \in R : f[x] \in Int
  BY FiniteSubsets
<1>t. \A T \in SUBSET S : F(T) \in Int /\ G(T) \in Int
  BY <1>f, SumType
<1>g. \A T \in SUBSET S : \A x \in T : G(T) = g[x] + G(T \ {x})
  <2>1. \A x \in S : g[x] \in Int
    OBVIOUS
  <2> QED
    BY <2>1, SumSplit
<1>r. \A T \in SUBSET S : \A x \in T : x \in R => F(T) = f[x] + F(T \ {x})
  <2> SUFFICES ASSUME NEW T \in SUBSET S, NEW x \in T, x \in R
               PROVE  F(T) = f[x] + F(T \ {x})
    OBVIOUS
  <2>1. T \cap R \in SUBSET R /\ x \in T \cap R /\ (T \cap R) \ {x} = (T \ {x}) \cap R
    OBVIOUS
  <2>2. \A U \in SUBSET R : \A y \in U :
          SumFunctionOnSet(f, U) = f[y] + SumFunctionOnSet(f, U \ {y})
    BY <1>f, SumSplit
  <2> QED
    BY <2>1, <2>2
<1>n. \A T \in SUBSET S : \A x \in T : x \notin R => F(T) = F(T \ {x})
  <2> SUFFICES ASSUME NEW T \in SUBSET S, NEW x \in T, x \notin R
               PROVE  F(T) = F(T \ {x})
    OBVIOUS
  <2>1. T \cap R = (T \ {x}) \cap R
    OBVIOUS
  <2> QED
    BY <2>1
<1>e. F({}) = 0 /\ G({}) = 0
  <2>1. {} \cap R = {}
    OBVIOUS
  <2> QED
    BY <2>1, SumEmpty
<1> HIDE DEF F, G
<1>1. ASSUME NEW T \in SUBSET S, \A U \in SUBSET T : U # T => U \in Good
      PROVE  T \in Good
  <2>1. CASE T = {}
    BY <1>e, <2>1
  <2>2. CASE T # {}
    <3>1. PICK x \in T : TRUE
      BY <2>2
    <3> DEFINE W == T \ {x}
    <3>2. W \in SUBSET S /\ F(W) <= G(W) /\ (R = S => F(W) = G(W))
      BY <1>1
    <3>3. G(T) = g[x] + G(W) /\ g[x] \in Nat /\ G(W) \in Int /\ F(W) \in Int
      BY <1>g, <1>t
    <3> HIDE DEF W
    <3>4. CASE x \in R
      <4>1. F(T) = g[x] + F(W)
        BY <1>r, <3>4 DEF W
      <4> QED
        BY <3>2, <3>3, <4>1
    <3>5. CASE x \notin R
      <4>1. F(T) = F(W) /\ R # S
        BY <1>n, <3>5 DEF W
      <4> QED
        BY <3>2, <3>3, <4>1
    <3> QED
      BY <3>4, <3>5
  <2> QED
    BY <2>1, <2>2
<1>2. Good \in SUBSET (SUBSET S)
  OBVIOUS
<1>3. S \in Good
  <2> HIDE DEF Good
  <2> QED
    BY <1>1, <1>2, SubsetInduction
<1>4. S \cap R = R
  OBVIOUS
<1> QED
  BY <1>3, <1>4 DEF F, G

-----------------------------------------------------------------------------
(* Sums of functions *)

(* A part of a function sums up to no more than the whole.                 *)
LEMMA PartSumsLess ==
  ASSUME NEW f, NEW g, IsFiniteSet(DOMAIN g), DOMAIN f \subseteq DOMAIN g,
         \A x \in DOMAIN g : g[x] \in Nat,
         \A x \in DOMAIN f : f[x] = g[x]
  PROVE  /\ SumFunction(f) \in Int /\ SumFunction(g) \in Int
         /\ SumFunction(f) <= SumFunction(g)
<1>1. SumFunctionOnSet(f, DOMAIN f) <= SumFunctionOnSet(g, DOMAIN g)
  BY SumLess
<1>2. IsFiniteSet(DOMAIN f) /\ \A x \in DOMAIN f : f[x] \in Int
  BY FiniteSubsets
<1>3. SumFunctionOnSet(f, DOMAIN f) \in Int
  BY <1>2, SumType
<1>4. SumFunctionOnSet(g, DOMAIN g) \in Int
  BY SumType
<1> QED
  BY <1>1, <1>3, <1>4 DEF SumFunction

(* One more value is added to the sum.                                     *)
LEMMA OneMoreSums ==
  ASSUME NEW f, NEW g, NEW x, x \notin DOMAIN f, IsFiniteSet(DOMAIN f),
         DOMAIN g = DOMAIN f \cup {x},
         \A y \in DOMAIN g : g[y] \in Nat,
         \A y \in DOMAIN f : f[y] = g[y]
  PROVE  SumFunction(g) = g[x] + SumFunction(f)
<1>1. IsFiniteSet(DOMAIN g) /\ x \in DOMAIN g /\ DOMAIN g \ {x} = DOMAIN f
  BY FS_AddElement
<1>2. SumFunctionOnSet(g, DOMAIN g) = g[x] + SumFunctionOnSet(g, DOMAIN g \ {x})
  BY <1>1, SumSplit
<1>3. SumFunctionOnSet(f, DOMAIN f) = SumFunctionOnSet(g, DOMAIN f)
  BY SumLess
<1> QED
  BY <1>1, <1>2, <1>3 DEF SumFunction
=============================================================================
