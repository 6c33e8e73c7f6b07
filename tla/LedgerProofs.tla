---------------------------- MODULE LedgerProofs ----------------------------
(***************************************************************************)
(* Proofs about what must add up and what must not get lost: the units a   *)
(* tenant spends in a day, the money a case recovers and the requests that *)
(* twins send each other, for any number of calls, days, rows, amounts,    *)
(* twins, messages, crashes and restarts.  What a fold computes is proved  *)
(* by induction, over the naturals and over finite sets, each from a least *)
(* counterexample.                                                         *)
(***************************************************************************)
EXTENDS InferenceAudit, RecoveryLedger, TwinMessaging, TLAPS, FiniteSetTheorems,
        SequenceTheorems

(* Induction over the naturals, for a set: its least counterexample.        *)
LEMMA NatInductive ==
  ASSUME NEW S, 0 \in S, \A n \in Nat : n \in S => n + 1 \in S
  PROVE  Nat \subseteq S
<1> SUFFICES ASSUME ~(Nat \subseteq S) PROVE FALSE
  OBVIOUS
<1> DEFINE R == {ss \in Nat \X Nat : ss[1] < ss[2]}
           T == Nat \ S
<1>1. OpToRel(<, Nat) = R
  BY DEF OpToRel
<1>2. PICK x \in T : \A y \in T : ~(<<y, x>> \in R)
  <2>1. T \subseteq Nat /\ T # {}
    OBVIOUS
  <2> HIDE DEF R, T
  <2> QED
    BY <1>1, <2>1, NatLessThanWellFounded, WFMin, Zenon
<1>3. x \in Nat /\ x # 0 /\ x - 1 \in Nat /\ x - 1 < x /\ x - 1 + 1 = x
  OBVIOUS
<1>4. x - 1 \in T
  BY <1>3
<1>5. <<x - 1, x>> \in R
  <2> DEFINE y == x - 1
  <2>1. <<y, x>> \in Nat \X Nat /\ <<y, x>>[1] < <<y, x>>[2]
    BY <1>3
  <2> QED
    BY <2>1, Zenon
<1> QED
  BY <1>2, <1>4, <1>5, Zenon

(* Induction over a finite set: what holds of a part of it when it holds of *)
(* that part less any one member holds of every part.                       *)
LEMMA FiniteInductive ==
  ASSUME NEW T, IsFiniteSet(T), NEW P,
         \A s \in SUBSET T : (\A x \in s : s \ {x} \in P) => s \in P
  PROVE  SUBSET T \subseteq P
<1> DEFINE N == {n \in Nat : \A s \in SUBSET T : Cardinality(s) = n => s \in P}
<1>0. \A s \in SUBSET T : IsFiniteSet(s) /\ Cardinality(s) \in Nat
  BY FS_Subset, FS_CardinalityType
<1>1. 0 \in N
  <2>1. \A s \in SUBSET T : Cardinality(s) = 0 => s = {}
    BY <1>0, FS_EmptySet
  <2>2. {} \in P
    OBVIOUS
  <2> QED
    BY <2>1, <2>2
<1>2. ASSUME NEW n \in Nat, n \in N PROVE n + 1 \in N
  <2> SUFFICES ASSUME NEW s \in SUBSET T, Cardinality(s) = n + 1 PROVE s \in P
    OBVIOUS
  <2>1. ASSUME NEW x \in s PROVE s \ {x} \in P
    <3>1. IsFiniteSet(s)
      BY <1>0
    <3>2. Cardinality(s \ {x}) =
            IF x \in s THEN Cardinality(s) - 1 ELSE Cardinality(s)
      BY <3>1, FS_RemoveElement, Zenon
    <3>3. Cardinality(s \ {x}) = n
      BY <3>2
    <3> QED
      BY <1>2, <3>3
  <2> QED
    BY <2>1
<1>3. Nat \subseteq N
  <2> HIDE DEF N
  <2> QED
    BY <1>1, <1>2, NatInductive
<1> QED
  BY <1>0, <1>3

----------------------------------------------------------------------------
(* A fold: F[s] takes an element ch[s] off and applies g to it and to the   *)
(* fold of the others.                                                      *)
IsFold(F, T, base, ch, g) ==
  F = [s \in SUBSET T |->
         IF s = {} THEN base ELSE g[ch[s]][F[s \ {ch[s]}]]]

(* There is one, with values in V, when the steps stay in V.                *)
LEMMA FoldExists ==
  ASSUME NEW T, IsFiniteSet(T), NEW V, NEW base \in V,
         NEW ch, \A s \in SUBSET T : s # {} => ch[s] \in s,
         NEW g, \A x \in T, v \in V : g[x][v] \in V
  PROVE  \E F \in [SUBSET T -> V] : IsFold(F, T, base, ch, g)
<1> DEFINE Part(F, n) ==
      \A s \in SUBSET T : Cardinality(s) <= n =>
        F[s] = IF s = {} THEN base ELSE g[ch[s]][F[s \ {ch[s]}]]
           N == {n \in Nat : \E F \in [SUBSET T -> V] : Part(F, n)}
<1>0. \A s \in SUBSET T : IsFiniteSet(s) /\ Cardinality(s) \in Nat
  BY FS_Subset, FS_CardinalityType
<1>1. 0 \in N
  <2> DEFINE F == [s \in SUBSET T |-> base]
  <2>1. F \in [SUBSET T -> V] /\ \A s \in SUBSET T : F[s] = base
    OBVIOUS
  <2>2. \A s \in SUBSET T : Cardinality(s) <= 0 => s = {}
    BY <1>0, FS_EmptySet
  <2> HIDE DEF F
  <2> QED
    BY <2>1, <2>2
<1>2. ASSUME NEW n \in Nat, n \in N PROVE n + 1 \in N
  <2>1. PICK F \in [SUBSET T -> V] : Part(F, n)
    BY <1>2
  <2> DEFINE H == [s \in SUBSET T |-> IF Cardinality(s) <= n \/ s = {} THEN F[s]
                                      ELSE g[ch[s]][F[s \ {ch[s]}]]]
  <2>2. ASSUME NEW s \in SUBSET T, s # {}
        PROVE  /\ ch[s] \in T /\ s \ {ch[s]} \in SUBSET T
               /\ Cardinality(s \ {ch[s]}) = Cardinality(s) - 1
    BY <1>0, <2>2, FS_RemoveElement
  <2>3. H \in [SUBSET T -> V]
    BY <2>2
  <2>4. ASSUME NEW s \in SUBSET T, Cardinality(s) <= n + 1, s # {}
        PROVE  H[s] = g[ch[s]][H[s \ {ch[s]}]]
    <3>1. Cardinality(s \ {ch[s]}) <= n /\ s \ {ch[s]} \in SUBSET T
      BY <1>0, <2>2, <2>4
    <3>2. H[s \ {ch[s]}] = F[s \ {ch[s]}]
      BY <3>1
    <3>3. CASE Cardinality(s) <= n
      BY <2>1, <2>4, <3>2, <3>3
    <3>4. CASE ~(Cardinality(s) <= n)
      BY <2>4, <3>2, <3>4
    <3> QED
      BY <3>3, <3>4
  <2>5. H[{}] = base
    <3>1. \A s \in SUBSET T : s = {} => F[s] = base
      <4> SUFFICES ASSUME NEW s \in SUBSET T, s = {} PROVE F[s] = base
        OBVIOUS
      <4>1. Cardinality(s) <= n
        BY FS_EmptySet
      <4>2. F[s] = IF s = {} THEN base ELSE g[ch[s]][F[s \ {ch[s]}]]
        BY <2>1, <4>1, Zenon
      <4> QED
        BY <4>2, Zenon
    <3> QED
      BY <3>1
  <2> HIDE DEF H
  <2>6. Part(H, n + 1)
    BY <2>4, <2>5
  <2>7. \E G \in [SUBSET T -> V] : Part(G, n + 1)
    BY <2>3, <2>6
  <2> HIDE DEF Part
  <2> QED
    BY <2>7
<1>3. Nat \subseteq N
  <2> HIDE DEF N
  <2> QED
    BY <1>1, <1>2, NatInductive
<1>4. Cardinality(T) \in N /\ \A s \in SUBSET T : Cardinality(s) <= Cardinality(T)
  BY <1>0, <1>3, FS_Subset
<1>5. PICK F \in [SUBSET T -> V] : Part(F, Cardinality(T))
  BY <1>4
<1>6. \A s \in SUBSET T : F[s] = IF s = {} THEN base ELSE g[ch[s]][F[s \ {ch[s]}]]
  BY <1>4, <1>5
<1>7. IsFold(F, T, base, ch, g)
  BY <1>6 DEF IsFold
<1> QED
  BY <1>7

(* Folds that take off the same elements with the same effect are equal.    *)
LEMMA FoldUnique ==
  ASSUME NEW T, NEW U, NEW D, IsFiniteSet(D), D \subseteq T, D \subseteq U,
         NEW V, NEW base, NEW ch, NEW dh,
         \A s \in SUBSET D : s # {} => ch[s] \in s /\ dh[s] = ch[s],
         NEW g, NEW h,
         NEW F, IsFold(F, T, base, ch, g),
         NEW H, IsFold(H, U, base, dh, h),
         \A s \in SUBSET D : F[s] \in V,
         \A x \in D, v \in V : g[x][v] = h[x][v]
  PROVE  \A s \in SUBSET D : F[s] = H[s]
<1> DEFINE P == {s \in SUBSET D : F[s] = H[s]}
<1>1. /\ \A s \in SUBSET T : F[s] = IF s = {} THEN base ELSE g[ch[s]][F[s \ {ch[s]}]]
      /\ \A s \in SUBSET U : H[s] = IF s = {} THEN base ELSE h[dh[s]][H[s \ {dh[s]}]]
  BY DEF IsFold
<1>2. ASSUME NEW s \in SUBSET D, \A x \in s : s \ {x} \in P PROVE s \in P
  <2>1. CASE s = {}
    BY <1>1, <2>1
  <2>2. CASE s # {}
    <3> DEFINE x == ch[s]
               r == s \ {x}
    <3>1. x \in s /\ dh[s] = x
      BY <2>2
    <3>2. r \in SUBSET D /\ F[r] = H[r] /\ F[r] \in V
      BY <1>2, <3>1
    <3>3. F[s] = g[x][F[r]] /\ H[s] = h[x][H[r]]
      BY <1>1, <2>2, <3>1
    <3> HIDE DEF x, r
    <3>4. F[s] = H[s] /\ x \in D
      BY <3>1, <3>2, <3>3
    <3> QED
      BY <3>4
  <2> QED
    BY <2>1, <2>2
<1>3. SUBSET D \subseteq P
  <2> HIDE DEF P
  <2> QED
    BY <1>2, FiniteInductive
<1> QED
  BY <1>3

----------------------------------------------------------------------------
(* Sums.                                                                    *)

(* MapThenSumSet, of the numbers u[c] of the elements c.                    *)
SumOver(u, S) == MapThenSumSet(LAMBDA c : u[c], S)

(* The fold it is defined by: an element is chosen and its number added.    *)
Pick(T) == [s \in SUBSET T |-> CHOOSE x \in s : TRUE]
Adding(u, T) == [x \in T |-> [v \in Int |-> u[x] + v]]

(* F[s] is the sum over s, for every part s of T.                           *)
AddsUp(F, u, T) ==
  \A s \in SUBSET T :
    F[s] = IF s = {} THEN 0
           ELSE u[CHOOSE x \in s : TRUE] + F[s \ {CHOOSE x \in s : TRUE}]

IsSum(F, u, T) == F \in [SUBSET T -> Int] /\ AddsUp(F, u, T)

(* An element of each set that has one.                                     *)
LEMMA PickPicks ==
  ASSUME NEW T PROVE \A s \in SUBSET T : s # {} => Pick(T)[s] \in s
BY DEF Pick

(* The numbers u of the members of a finite set have a sum.                 *)
LEMMA SumFoldExists ==
  ASSUME NEW T, IsFiniteSet(T), NEW u, \A x \in T : u[x] \in Int
  PROVE  \E F : IsSum(F, u, T)
<1>1. \A x \in T, v \in Int : Adding(u, T)[x][v] \in Int /\ Adding(u, T)[x][v] = u[x] + v
  BY DEF Adding
<1>2. PICK F \in [SUBSET T -> Int] : IsFold(F, T, 0, Pick(T), Adding(u, T))
  <2> DEFINE g == Adding(u, T)
             ch == Pick(T)
  <2>1. \A x \in T, v \in Int : g[x][v] \in Int
    BY <1>1
  <2>2. \A s \in SUBSET T : s # {} => ch[s] \in s
    BY PickPicks
  <2> HIDE DEF g, ch
  <2>3. \E F \in [SUBSET T -> Int] : IsFold(F, T, 0, ch, g)
    <3>1. 0 \in Int
      OBVIOUS
    <3> QED
      BY <2>1, <2>2, <3>1, FoldExists, Zenon
  <2> QED
    BY <2>3 DEF g, ch
<1>3. \A s \in SUBSET T :
        F[s] = IF s = {} THEN 0 ELSE Adding(u, T)[Pick(T)[s]][F[s \ {Pick(T)[s]}]]
  BY <1>2 DEF IsFold
<1>4. ASSUME NEW s \in SUBSET T, s # {}
      PROVE  F[s] = u[CHOOSE x \in s : TRUE] + F[s \ {CHOOSE x \in s : TRUE}]
  <2> DEFINE x == CHOOSE x \in s : TRUE
  <2>1. Pick(T)[s] = x
    BY DEF Pick
  <2>2. x \in T /\ s \ {x} \in SUBSET T
    BY <1>4
  <2> HIDE DEF x
  <2>3. F[s] = Adding(u, T)[x][F[s \ {x}]]
    BY <1>3, <1>4, <2>1
  <2> QED
    BY <1>1, <2>2, <2>3 DEF x
<1> QED
  BY <1>2, <1>3, <1>4 DEF IsSum, AddsUp

(* Which number is taken first does not matter.                             *)
Takes(F, u, T) == \A s \in SUBSET T : \A c \in s : F[s] = u[c] + F[s \ {c}]

(* Any element may be taken first.                                          *)
LEMMA SumTakes ==
  ASSUME NEW T, IsFiniteSet(T), NEW u, \A x \in T : u[x] \in Int,
         NEW F, IsSum(F, u, T)
  PROVE  Takes(F, u, T)
<1> DEFINE P == {s \in SUBSET T : \A c \in s : F[s] = u[c] + F[s \ {c}]}
<1>1. ASSUME NEW s \in SUBSET T, \A x \in s : s \ {x} \in P PROVE s \in P
  <2> SUFFICES ASSUME NEW c \in s PROVE F[s] = u[c] + F[s \ {c}]
    OBVIOUS
  <2> DEFINE x == CHOOSE x \in s : TRUE
  <2>1. x \in s /\ F[s] = u[x] + F[s \ {x}]
    BY DEF IsSum, AddsUp
  <2> HIDE DEF x
  <2>2. \A y, z \in s : y # z => F[s \ {y}] = u[z] + F[(s \ {y}) \ {z}]
    BY <1>1
  <2>3. CASE x = c
    BY <2>1, <2>3
  <2>4. CASE x # c
    <3> DEFINE r == (s \ {x}) \ {c}
    <3>1. F[s \ {x}] = u[c] + F[r]
      BY <2>1, <2>2, <2>4
    <3>2. F[s \ {c}] = u[x] + F[(s \ {c}) \ {x}]
      BY <2>1, <2>2, <2>4
    <3>3. r = (s \ {c}) \ {x}
      OBVIOUS
    <3>4. u[x] \in Int /\ u[c] \in Int /\ F[r] \in Int
      BY <2>1 DEF IsSum, AddsUp
    <3> HIDE DEF r
    <3> QED
      BY <2>1, <3>1, <3>2, <3>3, <3>4
  <2> QED
    BY <2>3, <2>4
<1>2. SUBSET T \subseteq P
  <2> HIDE DEF P
  <2> QED
    BY <1>1, FiniteInductive
<1> QED
  BY <1>2 DEF Takes

(* Sums over different sets agree on what both have.                        *)
LEMMA SumsAgree ==
  ASSUME NEW T, NEW U, NEW D, IsFiniteSet(D), D \subseteq T, D \subseteq U,
         NEW u, NEW w, \A x \in D : u[x] = w[x],
         NEW F, AddsUp(F, u, T), NEW H, AddsUp(H, w, U)
  PROVE  F[D] = H[D]
<1> DEFINE P == {s \in SUBSET D : F[s] = H[s]}
<1>1. ASSUME NEW s \in SUBSET D, \A x \in s : s \ {x} \in P PROVE s \in P
  <2>1. CASE s = {}
    BY <2>1 DEF AddsUp
  <2>2. CASE s # {}
    <3> DEFINE x == CHOOSE x \in s : TRUE
    <3>1. x \in s /\ F[s] = u[x] + F[s \ {x}] /\ H[s] = w[x] + H[s \ {x}]
      BY <2>2 DEF AddsUp
    <3> HIDE DEF x
    <3>2. F[s \ {x}] = H[s \ {x}]
      BY <1>1, <3>1
    <3> QED
      BY <3>1, <3>2
  <2> QED
    BY <2>1, <2>2
<1>2. SUBSET D \subseteq P
  <2> HIDE DEF P
  <2> QED
    BY <1>1, FiniteInductive
<1> QED
  BY <1>2

(* What MapThenSumSet computes is such a sum.                               *)
LEMMA SumIsSum ==
  ASSUME NEW S, IsFiniteSet(S), NEW u, \A x \in S : u[x] \in Int
  PROVE  \E F : IsSum(F, u, S) /\ SumOver(u, S) = F[S]
<1>1. PICK F : IsSum(F, u, S)
  BY SumFoldExists
<1>2. F = [s \in SUBSET S |->
             IF s = {} THEN 0
             ELSE u[CHOOSE x \in s : TRUE] + F[s \ {CHOOSE x \in s : TRUE}]]
  BY <1>1 DEF IsSum, AddsUp
<1>3. PICK G : /\ G = [s \in SUBSET S |->
                         IF s = {} THEN 0
                         ELSE u[CHOOSE x \in s : TRUE] + G[s \ {CHOOSE x \in s : TRUE}]]
               /\ SumOver(u, S) = G[S]
  BY <1>2 DEF SumOver, MapThenSumSet, MapThenFoldSet
<1>4. AddsUp(F, u, S) /\ AddsUp(G, u, S)
  BY <1>1, <1>3 DEF IsSum, AddsUp
<1>5. F[S] = G[S]
  BY <1>4, SumsAgree
<1> QED
  BY <1>1, <1>3, <1>5

(* Nothing adds up to nothing.                                              *)
LEMMA SumEmpty == ASSUME NEW u PROVE SumOver(u, {}) = 0
<1>1. IsFiniteSet({})
  BY FS_EmptySet
<1>2. PICK F : IsSum(F, u, {}) /\ SumOver(u, {}) = F[{}]
  BY <1>1, SumIsSum
<1> QED
  BY <1>2 DEF IsSum, AddsUp

(* A sum of integers is one.                                                *)
LEMMA SumType ==
  ASSUME NEW S, IsFiniteSet(S), NEW u, \A x \in S : u[x] \in Int
  PROVE  SumOver(u, S) \in Int
<1>1. PICK F : IsSum(F, u, S) /\ SumOver(u, S) = F[S]
  BY SumIsSum
<1> QED
  BY <1>1 DEF IsSum

(* Equal numbers have equal sums.                                           *)
LEMMA SumSame ==
  ASSUME NEW S, IsFiniteSet(S), NEW u, \A x \in S : u[x] \in Int,
         NEW w, \A x \in S : w[x] = u[x]
  PROVE  SumOver(w, S) = SumOver(u, S)
<1>1. \A x \in S : w[x] \in Int
  OBVIOUS
<1>2. PICK F : IsSum(F, u, S) /\ SumOver(u, S) = F[S]
  BY SumIsSum
<1>3. PICK H : IsSum(H, w, S) /\ SumOver(w, S) = H[S]
  BY <1>1, SumIsSum
<1>4. AddsUp(F, u, S) /\ AddsUp(H, w, S)
  BY <1>2, <1>3 DEF IsSum
<1>5. F[S] = H[S]
  BY <1>4, SumsAgree
<1> QED
  BY <1>2, <1>3, <1>5

(* A sum is any one number and the sum of the others.                       *)
LEMMA SumRemove ==
  ASSUME NEW S, IsFiniteSet(S), NEW u, \A x \in S : u[x] \in Int, NEW c \in S
  PROVE  SumOver(u, S) = u[c] + SumOver(u, S \ {c})
<1> DEFINE R == S \ {c}
<1>1. PICK F : IsSum(F, u, S) /\ SumOver(u, S) = F[S]
  BY SumIsSum
<1>2. IsFiniteSet(R) /\ R \subseteq S /\ \A x \in R : u[x] \in Int
  BY FS_Subset
<1>3. PICK H : IsSum(H, u, R) /\ SumOver(u, R) = H[R]
  BY <1>2, SumIsSum
<1>4. F[S] = u[c] + F[R]
  <2>1. Takes(F, u, S)
    BY <1>1, SumTakes
  <2> QED
    BY <2>1 DEF Takes
<1> HIDE DEF R
<1>5. AddsUp(F, u, S) /\ AddsUp(H, u, R)
  BY <1>1, <1>3 DEF IsSum
<1>6. F[R] = H[R]
  BY <1>2, <1>5, SumsAgree
<1> QED
  BY <1>1, <1>3, <1>4, <1>6 DEF R

(* A sum over more, of numbers that are not negative, is not less.          *)
LEMMA SumMonotone ==
  ASSUME NEW S, IsFiniteSet(S), NEW u, \A x \in S : u[x] \in Nat
  PROVE  \A R \in SUBSET S : SumOver(u, R) <= SumOver(u, S)
<1> DEFINE P == {s \in SUBSET S : \A R \in SUBSET s : SumOver(u, R) <= SumOver(u, s)}
<1>0. \A s \in SUBSET S : IsFiniteSet(s) /\ SumOver(u, s) \in Int
  <2> TAKE s \in SUBSET S
  <2>1. IsFiniteSet(s) /\ \A x \in s : u[x] \in Int
    BY FS_Subset
  <2> QED
    BY <2>1, SumType
<1>1. \A s \in SUBSET S : \A x \in s : SumOver(u, s) = u[x] + SumOver(u, s \ {x})
  BY <1>0, SumRemove
<1>2. ASSUME NEW s \in SUBSET S, \A x \in s : s \ {x} \in P PROVE s \in P
  <2> SUFFICES ASSUME NEW R \in SUBSET s, R # s PROVE SumOver(u, R) <= SumOver(u, s)
    BY <1>0
  <2>1. PICK x \in s : x \notin R
    OBVIOUS
  <2>2. SumOver(u, R) <= SumOver(u, s \ {x})
    BY <1>2, <2>1
  <2> QED
    BY <1>0, <1>1, <2>1, <2>2
<1>3. SUBSET S \subseteq P
  <2> HIDE DEF P
  <2> QED
    BY <1>2, FiniteInductive
<1> QED
  BY <1>3

(* The sum over two sets that share nothing.                                *)
LEMMA SumDisjoint ==
  ASSUME NEW S, IsFiniteSet(S), NEW u, \A x \in S : u[x] \in Int,
         NEW B \in SUBSET S
  PROVE  \A A \in SUBSET S : A \cap B = {} => SumOver(u, A \cup B) = SumOver(u, A) + SumOver(u, B)
<1> DEFINE T == S \ B
           P == {A \in SUBSET T : SumOver(u, A \cup B) = SumOver(u, A) + SumOver(u, B)}
<1>0. \A s \in SUBSET S : IsFiniteSet(s) /\ SumOver(u, s) \in Int
  <2> TAKE s \in SUBSET S
  <2>1. IsFiniteSet(s) /\ \A x \in s : u[x] \in Int
    BY FS_Subset
  <2> QED
    BY <2>1, SumType
<1>1. \A s \in SUBSET S : \A x \in s : SumOver(u, s) = u[x] + SumOver(u, s \ {x})
  BY <1>0, SumRemove
<1>2. ASSUME NEW A \in SUBSET T, \A x \in A : A \ {x} \in P PROVE A \in P
  <2>1. CASE A = {}
    <3>1. SumOver(u, A) = 0 /\ A \cup B = B
      BY <2>1, SumEmpty
    <3>2. SumOver(u, B) \in Int
      BY <1>0
    <3>3. SumOver(u, A \cup B) = SumOver(u, A) + SumOver(u, B)
      <4> DEFINE both == A \cup B
      <4>1. both = B
        BY <3>1
      <4> HIDE DEF both
      <4>2. SumOver(u, both) = SumOver(u, A) + SumOver(u, B)
        BY <3>1, <3>2, <4>1
      <4> QED
        BY <4>2 DEF both
    <3> QED
      BY <3>3
  <2>2. CASE A # {}
    <3>1. PICK x \in A : TRUE
      BY <2>2
    <3>2. (A \cup B) \ {x} = (A \ {x}) \cup B /\ A \cup B \in SUBSET S /\ A \in SUBSET S
          /\ A \ {x} \in SUBSET S
      BY <3>1
    <3>3. SumOver(u, (A \ {x}) \cup B) = SumOver(u, A \ {x}) + SumOver(u, B)
      BY <1>2, <3>1
    <3>4. SumOver(u, A) = u[x] + SumOver(u, A \ {x})
      BY <1>1, <3>1, <3>2
    <3>5. SumOver(u, A \cup B) = u[x] + SumOver(u, (A \ {x}) \cup B)
      BY <1>1, <3>1, <3>2
    <3>6. u[x] \in Int /\ SumOver(u, A \ {x}) \in Int /\ SumOver(u, B) \in Int
      BY <1>0, <3>1, <3>2
    <3>7. SumOver(u, A \cup B) = SumOver(u, A) + SumOver(u, B)
      BY <3>3, <3>4, <3>5, <3>6
    <3> QED
      BY <3>7
  <2> QED
    BY <2>1, <2>2
<1>3. SUBSET T \subseteq P
  <2>1. IsFiniteSet(T)
    BY FS_Subset
  <2> HIDE DEF P, T
  <2> QED
    BY <1>2, <2>1, FiniteInductive
<1> QED
  BY <1>3

----------------------------------------------------------------------------
(* InferenceAudit                                                           *)

(* The units of a row, and the calls that have one.                         *)
UnitsIn(row) == [c \in Call |-> row[c].units]
Rows == {c \in Call : auditRow[c] # NoRow}

(* What the select found still holds when the insert is made: only the call *)
(* with the lock inserts.                                                   *)
RoomKept ==
  \A c \in Call :
    call[c].pc = "counted" /\ call[c].allowed =>
      /\ Cardinality(Since(call[c].day)) < RequestLimit
      /\ SumOver(UnitsIn(auditRow), Since(call[c].day)) + call[c].units <= Quota

(* The advisory lock: one call between its select and its insert.           *)
OneCounted ==
  \A b, c \in Call : call[b].pc = "counted" /\ call[c].pc = "counted" => b = c

(* The row is inserted after the select and is "started" until it ends.     *)
RowsInOrder ==
  \A c \in Call :
    /\ call[c].pc \in {"new", "begun", "counted"} => auditRow[c] = NoRow
    /\ call[c].pc = "calling" => auditRow[c] # NoRow /\ auditRow[c].status = "started"

(* BudgetHeld, in sums of numbers.                                          *)
InBudget ==
  \A d \in 0..LastDay : /\ Cardinality(Allowed(d)) <= RequestLimit
                        /\ SumOver(UnitsIn(auditRow), Allowed(d)) <= Quota

(* Inductive: the room found is what makes the insert fit the budget.       *)
AuditInv ==
  /\ AuditTypeOK
  /\ IsFiniteSet(Rows)
  /\ RowsInOrder
  /\ OneCounted
  /\ RoomKept
  /\ InBudget

(* A row that was inserted has a status, a day and its units.               *)
LEMMA RowIsCounted ==
  AuditTypeOK => \A c \in Rows : /\ auditRow[c].status \in Status
                                /\ auditRow[c].day \in 0..LastDay
                                /\ auditRow[c].units \in Nat
<1> SUFFICES ASSUME AuditTypeOK, NEW c \in Rows
             PROVE  /\ auditRow[c].status \in Status /\ auditRow[c].day \in 0..LastDay
                    /\ auditRow[c].units \in Nat
  OBVIOUS
<1>1. auditRow[c] \in [status : Status, day : 0..LastDay, units : Units \cup {0}]
  BY DEF AuditTypeOK, AuditRow, Rows
<1>2. Units \cup {0} \subseteq Nat
  BY AuditAssumption
<1> HIDE DEF Status
<1> QED
  BY <1>1, <1>2

(* The sum of the select, as a sum of numbers.                              *)
LEMMA UnitsOfIsSum ==
  AuditTypeOK => \A S \in SUBSET Rows : IsFiniteSet(S) => UnitsOf(S) = SumOver(UnitsIn(auditRow), S)
<1> SUFFICES ASSUME AuditTypeOK, NEW S \in SUBSET Rows, IsFiniteSet(S)
             PROVE  UnitsOf(S) = SumOver(UnitsIn(auditRow), S)
  OBVIOUS
<1> DEFINE u == UnitsIn(auditRow)
<1>1. \A c \in S : u[c] = auditRow[c].units /\ u[c] \in Int
  BY RowIsCounted DEF UnitsIn, Rows
<1> HIDE DEF u
<1>2. PICK F : IsSum(F, u, S) /\ SumOver(u, S) = F[S]
  BY <1>1, SumIsSum
<1>3. F = [s \in SUBSET S |->
             IF s = {} THEN 0
             ELSE auditRow[CHOOSE x \in s : TRUE].units + F[s \ {CHOOSE x \in s : TRUE}]]
  BY <1>1, <1>2 DEF IsSum, AddsUp
<1>4. PICK G : /\ G = [s \in SUBSET S |->
                         IF s = {} THEN 0
                         ELSE auditRow[CHOOSE x \in s : TRUE].units
                                + G[s \ {CHOOSE x \in s : TRUE}]]
               /\ UnitsOf(S) = G[S]
  BY <1>3 DEF UnitsOf, MapThenSumSet, MapThenFoldSet
<1>5. AddsUp(F, u, S) /\ AddsUp(G, u, S)
  BY <1>1, <1>2, <1>4 DEF IsSum, AddsUp
<1>6. F[S] = G[S]
  BY <1>5, SumsAgree
<1> QED
  BY <1>2, <1>4, <1>6 DEF u

(* Rows counted for a day are finitely many, of units that are not negative.*)
LEMMA CountedRows ==
  ASSUME AuditTypeOK, IsFiniteSet(Rows)
  PROVE  /\ \A c \in Rows : UnitsIn(auditRow)[c] \in Nat
         /\ \A S \in SUBSET Rows : IsFiniteSet(S) /\ SumOver(UnitsIn(auditRow), S) \in Int
         /\ \A d \in 0..LastDay : Allowed(d) \subseteq Since(d) /\ Since(d) \subseteq Rows
<1>1. \A c \in Rows : UnitsIn(auditRow)[c] \in Nat
  BY RowIsCounted DEF Rows, UnitsIn
<1>2. ASSUME NEW S \in SUBSET Rows PROVE IsFiniteSet(S) /\ SumOver(UnitsIn(auditRow), S) \in Int
  <2>1. IsFiniteSet(S) /\ \A c \in S : UnitsIn(auditRow)[c] \in Int
    BY <1>1, FS_Subset
  <2> QED
    BY <2>1, SumType
<1>3. \A d \in 0..LastDay : Allowed(d) \subseteq Since(d) /\ Since(d) \subseteq Rows
  BY AuditAssumption DEF Allowed, Since, Rows, AuditTypeOK, AuditRow, NoRow
<1> QED
  BY <1>1, <1>2, <1>3

(* No step leaves the types, given the order of a call's steps.             *)
LEMMA AuditTypes == AuditTypeOK /\ RowsInOrder /\ [AuditNext]_auditVars => AuditTypeOK'
<1> SUFFICES ASSUME AuditTypeOK, RowsInOrder, [AuditNext]_auditVars PROVE AuditTypeOK'
  OBVIOUS
<1> USE AuditAssumption DEF AuditTypeOK, AuditRow, CallRecord, Status, NoRow
<1>1. CASE Midnight
  BY <1>1 DEF Midnight
<1>2. ASSUME NEW c \in Call, NEW u \in Units, BeginReservation(c, u) PROVE AuditTypeOK'
  BY <1>2 DEF BeginReservation
<1>3. ASSUME NEW c \in Call, CountUsed(c) PROVE AuditTypeOK'
  <2> DEFINE r == Room(c)
  <2>1. r \in BOOLEAN
    BY DEF Room
  <2>2. call[c] \in [pc : {"begun", "calling"}, units : Units, day : 0..LastDay]
    BY <1>3 DEF CountUsed
  <2>3. call' = [call EXCEPT ![c] = [pc |-> "counted", units |-> call[c].units,
                                     day |-> call[c].day, allowed |-> r]]
    BY <1>3 DEF CountUsed
  <2> HIDE DEF r
  <2> QED
    BY <1>3, <2>1, <2>2, <2>3 DEF CountUsed
<1>4. ASSUME NEW c \in Call, InsertRow(c) PROVE AuditTypeOK'
  <2>1. call[c] \in [pc : {"counted"}, units : Units, day : 0..LastDay, allowed : BOOLEAN]
    BY <1>4 DEF InsertRow
  <2> QED
    BY <1>4, <2>1 DEF InsertRow
<1>5. ASSUME NEW c \in Call, LoseCall(c) PROVE AuditTypeOK'
  BY <1>5 DEF LoseCall
<1>6. ASSUME NEW c \in Call, NEW s \in {"completed", "failed"}, FinishRow(c, s)
      PROVE AuditTypeOK'
  <2>1. auditRow[c] \in [status : Status, day : 0..LastDay, units : Units \cup {0}]
    BY <1>6 DEF FinishRow, RowsInOrder
  <2>2. [auditRow[c] EXCEPT !.status = s]
          \in [status : Status, day : 0..LastDay, units : Units \cup {0}]
    BY <2>1
  <2> QED
    BY <1>6, <2>2 DEF FinishRow
<1>7. CASE UNCHANGED auditVars
  BY <1>7 DEF auditVars
<1> QED
  BY <1>1, <1>2, <1>3, <1>4, <1>5, <1>6, <1>7 DEF AuditNext

(* The lock and the order of a call's steps.                                *)
LEMMA AuditOrder ==
  AuditTypeOK /\ RowsInOrder /\ OneCounted /\ [AuditNext]_auditVars
    => RowsInOrder' /\ OneCounted'
<1> SUFFICES ASSUME AuditTypeOK, RowsInOrder, OneCounted, [AuditNext]_auditVars
             PROVE  RowsInOrder' /\ OneCounted'
  OBVIOUS
<1> USE AuditAssumption DEF AuditTypeOK, RowsInOrder, OneCounted
<1>1. CASE Midnight
  BY <1>1 DEF Midnight
<1>2. ASSUME NEW c \in Call, NEW u \in Units, BeginReservation(c, u)
      PROVE RowsInOrder' /\ OneCounted'
  BY <1>2 DEF BeginReservation
<1>3. ASSUME NEW c \in Call, CountUsed(c) PROVE RowsInOrder' /\ OneCounted'
  BY <1>3 DEF CountUsed
<1>4. ASSUME NEW c \in Call, InsertRow(c) PROVE RowsInOrder' /\ OneCounted'
  BY <1>4 DEF InsertRow, NoRow
<1>5. ASSUME NEW c \in Call, LoseCall(c) PROVE RowsInOrder' /\ OneCounted'
  BY <1>5 DEF LoseCall
<1>6. ASSUME NEW c \in Call, NEW s \in {"completed", "failed"}, FinishRow(c, s)
      PROVE RowsInOrder' /\ OneCounted'
  BY <1>6 DEF FinishRow
<1>7. CASE UNCHANGED auditVars
  BY <1>7 DEF auditVars
<1> QED
  BY <1>1, <1>2, <1>3, <1>4, <1>5, <1>6, <1>7 DEF AuditNext

(* A step other than an insert leaves the rows, their days and their units. *)
RowsKept ==
  /\ Rows' = Rows
  /\ \A d \in 0..LastDay : Since(d)' = Since(d) /\ Allowed(d)' = Allowed(d)
  /\ \A S \in SUBSET Rows : SumOver(UnitsIn(auditRow'), S) = SumOver(UnitsIn(auditRow), S)

(* The end of a call changes the status of its row only.                    *)
LEMMA FinishKeepsRows ==
  ASSUME AuditTypeOK, RowsInOrder, IsFiniteSet(Rows),
         NEW c \in Call, NEW s \in {"completed", "failed"}, FinishRow(c, s)
  PROVE  RowsKept
<1>1. c \in Rows /\ auditRow[c].status = "started"
  BY DEF FinishRow, RowsInOrder, Rows
<1>2. auditRow'[c] = [auditRow[c] EXCEPT !.status = s]
  BY DEF FinishRow, AuditTypeOK
<1>3. auditRow[c] \in [status : Status, day : 0..LastDay, units : Units \cup {0}]
  BY <1>1 DEF AuditTypeOK, AuditRow, Rows
<1>4. /\ auditRow'[c] # NoRow /\ auditRow'[c].status = s
      /\ auditRow'[c].day = auditRow[c].day /\ auditRow'[c].units = auditRow[c].units
  BY <1>2, <1>3 DEF NoRow
<1>5. \A b \in Call : b # c => auditRow'[b] = auditRow[b]
  BY DEF FinishRow, AuditTypeOK
<1>6. Rows' = Rows
  BY <1>1, <1>4, <1>5 DEF Rows
<1>7. \A d \in 0..LastDay : Since(d)' = Since(d) /\ Allowed(d)' = Allowed(d)
  BY <1>1, <1>4, <1>5 DEF Since, Allowed, Rows
<1>8. ASSUME NEW S \in SUBSET Rows PROVE SumOver(UnitsIn(auditRow'), S) = SumOver(UnitsIn(auditRow), S)
  <2>1. IsFiniteSet(S) /\ \A b \in S : UnitsIn(auditRow)[b] \in Int
    BY CountedRows
  <2>2. \A b \in S : UnitsIn(auditRow')[b] = UnitsIn(auditRow)[b]
    BY <1>4, <1>5 DEF UnitsIn, Rows
  <2>3. SumOver(UnitsIn(auditRow'), S) = SumOver(UnitsIn(auditRow), S)
    BY <2>1, <2>2, SumSame
  <2> QED
    BY <2>3
<1> QED
  BY <1>6, <1>7, <1>8 DEF RowsKept

(* Nothing else touches the rows.                                           *)
LEMMA OthersKeepRows ==
  ASSUME UNCHANGED auditRow PROVE RowsKept
BY DEF RowsKept, Rows, Since, Allowed, SumOver, UnitsIn

(* While the rows stay so does what they amount to.                         *)
LEMMA BudgetStays ==
  ASSUME AuditTypeOK, IsFiniteSet(Rows), InBudget, RowsKept
  PROVE  IsFiniteSet(Rows)' /\ InBudget'
<1>1. IsFiniteSet(Rows')
  BY DEF RowsKept
<1>2. ASSUME NEW d \in 0..LastDay
      PROVE  /\ Cardinality(Allowed(d)') <= RequestLimit
             /\ SumOver(UnitsIn(auditRow'), Allowed(d)') <= Quota
  <2>1. Allowed(d)' = Allowed(d) /\ Allowed(d) \in SUBSET Rows
    BY CountedRows DEF RowsKept
  <2>2. SumOver(UnitsIn(auditRow'), Allowed(d)) = SumOver(UnitsIn(auditRow), Allowed(d))
    BY <2>1 DEF RowsKept
  <2> QED
    BY <2>1, <2>2 DEF InBudget
<1> QED
  BY <1>1, <1>2 DEF InBudget

(* While the rows stay so does the room that was found.                     *)
LEMMA RoomStays ==
  ASSUME AuditTypeOK, AuditTypeOK', IsFiniteSet(Rows), RoomKept, RowsKept,
         \A c \in Call : call'[c].pc = "counted" /\ call'[c].allowed => call'[c] = call[c]
  PROVE  RoomKept'
<1> SUFFICES ASSUME NEW c \in Call, call'[c].pc = "counted", call'[c].allowed
             PROVE  /\ Cardinality(Since(call[c].day)') < RequestLimit
                    /\ SumOver(UnitsIn(auditRow'), Since(call[c].day)') + call'[c].units <= Quota
  BY DEF RoomKept
<1> DEFINE d == call[c].day
<1>1. call'[c] = call[c] /\ d \in 0..LastDay
  BY DEF AuditTypeOK, CallRecord
<1>2. Since(call[c].day)' = Since(d) /\ Since(d) \in SUBSET Rows
  BY <1>1, CountedRows DEF RowsKept
<1>3. SumOver(UnitsIn(auditRow'), Since(d)) = SumOver(UnitsIn(auditRow), Since(d))
  BY <1>2 DEF RowsKept
<1> QED
  BY <1>1, <1>2, <1>3 DEF RoomKept

(* The insert takes the room that was found.                                *)
LEMMA InsertKeepsBudget ==
  ASSUME AuditInv, NEW c \in Call, InsertRow(c)
  PROVE  IsFiniteSet(Rows)' /\ RoomKept' /\ InBudget'
<1> DEFINE q == call[c]
           row == [status |-> IF q.allowed THEN "started" ELSE "budget_blocked",
                   day |-> q.day, units |-> IF q.allowed THEN q.units ELSE 0]
<1>1. /\ q.pc = "counted" /\ q.units \in Nat /\ q.day \in 0..LastDay
      /\ auditRow[c] = NoRow
  BY AuditAssumption DEF InsertRow, AuditInv, AuditTypeOK, CallRecord, RowsInOrder
<1>2. auditRow'[c] = row /\ \A b \in Call : b # c => auditRow'[b] = auditRow[b]
  BY DEF InsertRow, AuditInv, AuditTypeOK
<1>3. /\ auditRow'[c] # NoRow /\ auditRow'[c].day = q.day
      /\ q.allowed => auditRow'[c].status = "started" /\ auditRow'[c].units = q.units
      /\ ~q.allowed => auditRow'[c].status = "budget_blocked"
  BY <1>2 DEF NoRow
<1> HIDE DEF row
<1>4. Rows' = Rows \cup {c} /\ c \notin Rows /\ c \in Rows'
  BY <1>1, <1>2, <1>3 DEF Rows
<1>5. IsFiniteSet(Rows')
  BY <1>4, FS_AddElement DEF AuditInv
<1>6. RoomKept'
  <2>1. \A b \in Call : call'[b].pc # "counted"
    BY <1>1 DEF InsertRow, AuditInv, AuditTypeOK, OneCounted
  <2> QED
    BY <2>1 DEF RoomKept
<1>7. \A b \in Rows : UnitsIn(auditRow')[b] = UnitsIn(auditRow)[b] /\ UnitsIn(auditRow)[b] \in Nat
  <2>1. \A b \in Rows : UnitsIn(auditRow)[b] \in Nat
    BY CountedRows DEF AuditInv
  <2> QED
    BY <1>2, <1>4, <2>1 DEF UnitsIn, Rows
<1>8. ASSUME NEW S \in SUBSET Rows
      PROVE  /\ IsFiniteSet(S) /\ SumOver(UnitsIn(auditRow), S) \in Int
             /\ SumOver(UnitsIn(auditRow'), S) = SumOver(UnitsIn(auditRow), S)
  <2>1. IsFiniteSet(S) /\ SumOver(UnitsIn(auditRow), S) \in Int
    BY CountedRows DEF AuditInv
  <2>2. /\ \A b \in S : UnitsIn(auditRow)[b] \in Int
        /\ \A b \in S : UnitsIn(auditRow')[b] = UnitsIn(auditRow)[b]
    BY <1>7
  <2> QED
    BY <2>1, <2>2, SumSame
<1>9. ASSUME NEW d \in 0..LastDay
      PROVE  /\ Cardinality(Allowed(d)') <= RequestLimit
             /\ SumOver(UnitsIn(auditRow'), Allowed(d)') <= Quota
  <2>1. Allowed(d) \subseteq Since(d) /\ Since(d) \in SUBSET Rows /\ Allowed(d) \in SUBSET Rows
    BY CountedRows DEF AuditInv
  <2>2. CASE q.allowed /\ d = q.day
    <3> DEFINE A == Allowed(d)
               B == Allowed(d) \cup {c}
    <3>1. Allowed(d)' = B /\ c \notin A /\ c \in B /\ B \ {c} = A
      BY <1>1, <1>2, <1>3, <2>2 DEF Allowed
    <3>2. Cardinality(Since(d)) < RequestLimit /\ SumOver(UnitsIn(auditRow), Since(d)) + q.units <= Quota
      BY <1>1, <2>2 DEF AuditInv, RoomKept
    <3>3. IsFiniteSet(Since(d)) /\ IsFiniteSet(A) /\ IsFiniteSet(B)
      BY <1>8, <2>1, FS_AddElement
    <3>4. Cardinality(A) <= Cardinality(Since(d)) /\ Cardinality(Since(d)) \in Nat
          /\ Cardinality(A) \in Nat
      BY <2>1, <3>3, FS_Subset, FS_CardinalityType
    <3>5. Cardinality(B) = Cardinality(A) + 1
      BY <3>1, <3>3, FS_AddElement
    <3>6. SumOver(UnitsIn(auditRow), A) <= SumOver(UnitsIn(auditRow), Since(d))
      <4>1. \A x \in Since(d) : UnitsIn(auditRow)[x] \in Nat
        BY <1>7, <2>1
      <4> QED
        BY <2>1, <3>3, <4>1, SumMonotone
    <3>7. SumOver(UnitsIn(auditRow'), B) = q.units + SumOver(UnitsIn(auditRow'), A)
      <4>1. UnitsIn(auditRow')[c] = q.units
        BY <1>3, <2>2 DEF UnitsIn
      <4>2. \A x \in B : UnitsIn(auditRow')[x] \in Int
        BY <1>1, <1>7, <2>1, <4>1
      <4> HIDE DEF B, q
      <4> QED
        BY <3>1, <3>3, <4>1, <4>2, SumRemove
    <3>8. SumOver(UnitsIn(auditRow'), A) = SumOver(UnitsIn(auditRow), A)
      BY <1>8, <2>1
    <3>9. SumOver(UnitsIn(auditRow), A) \in Int /\ SumOver(UnitsIn(auditRow), Since(d)) \in Int
      BY <1>8, <2>1
    <3> HIDE DEF A, B, q
    <3> QED
      BY <1>1, <3>1, <3>2, <3>4, <3>5, <3>6, <3>7, <3>8, <3>9, AuditAssumption
  <2>3. CASE ~(q.allowed /\ d = q.day)
    <3>1. Allowed(d)' = Allowed(d)
      BY <1>1, <1>2, <1>3, <2>3 DEF Allowed
    <3> QED
      BY <1>8, <2>1, <3>1 DEF AuditInv, InBudget
  <2> QED
    BY <2>2, <2>3
<1> QED
  BY <1>5, <1>6, <1>9 DEF InBudget

(* Every step keeps the invariant.                                          *)
LEMMA AuditStep == AuditInv /\ [AuditNext]_auditVars => AuditInv'
<1> SUFFICES ASSUME AuditInv, [AuditNext]_auditVars PROVE AuditInv'
  OBVIOUS
<1>1. /\ AuditTypeOK /\ IsFiniteSet(Rows) /\ RowsInOrder /\ OneCounted
      /\ RoomKept /\ InBudget
  BY DEF AuditInv
<1>2. AuditTypeOK' /\ RowsInOrder' /\ OneCounted'
  BY <1>1, AuditTypes, AuditOrder
<1>3. SUFFICES IsFiniteSet(Rows)' /\ RoomKept' /\ InBudget'
  BY <1>2 DEF AuditInv
<1>4. ASSUME RowsKept,
             \A c \in Call : call'[c].pc = "counted" /\ call'[c].allowed => call'[c] = call[c]
      PROVE  IsFiniteSet(Rows)' /\ RoomKept' /\ InBudget'
  BY <1>1, <1>2, <1>4, BudgetStays, RoomStays
<1>5. CASE Midnight
  BY <1>4, <1>5, OthersKeepRows DEF Midnight
<1>6. ASSUME NEW c \in Call, NEW u \in Units, BeginReservation(c, u)
      PROVE  IsFiniteSet(Rows)' /\ RoomKept' /\ InBudget'
  BY <1>1, <1>4, <1>6, OthersKeepRows DEF BeginReservation, AuditTypeOK
<1>7. ASSUME NEW c \in Call, CountUsed(c)
      PROVE  IsFiniteSet(Rows)' /\ RoomKept' /\ InBudget'
  <2>1. RowsKept
    BY <1>7, OthersKeepRows DEF CountUsed
  <2>2. IsFiniteSet(Rows)' /\ InBudget'
    BY <1>1, <2>1, BudgetStays
  <2>3. RoomKept'
    <3> SUFFICES ASSUME NEW b \in Call, call'[b].pc = "counted", call'[b].allowed
                 PROVE  /\ Cardinality(Since(call[b].day)') < RequestLimit
                        /\ SumOver(UnitsIn(auditRow'), Since(call[b].day)') + call'[b].units
                              <= Quota
      BY DEF RoomKept
    <3>1. b = c
      BY <1>1, <1>7 DEF CountUsed, AuditTypeOK
    <3>2. call'[c].units = call[c].units /\ call'[c].day = call[c].day /\ Room(c)
      BY <1>1, <1>7, <3>1 DEF CountUsed, AuditTypeOK
    <3>3. call[c].day \in 0..LastDay
      BY <1>1, <1>7 DEF CountUsed, AuditTypeOK, CallRecord
    <3>4. Since(call[c].day) \in SUBSET Rows /\ IsFiniteSet(Since(call[c].day))
      BY <1>1, <3>3, CountedRows
    <3>5. UnitsOf(Since(call[c].day)) = SumOver(UnitsIn(auditRow), Since(call[c].day))
      BY <1>1, <3>4, UnitsOfIsSum
    <3>6. auditRow' = auditRow /\ Since(call[c].day)' = Since(call[c].day)
      BY <1>7, <3>2 DEF CountUsed, Since
    <3> QED
      BY <3>1, <3>2, <3>5, <3>6 DEF Room
  <2> QED
    BY <2>2, <2>3
<1>8. ASSUME NEW c \in Call, InsertRow(c)
      PROVE  IsFiniteSet(Rows)' /\ RoomKept' /\ InBudget'
  BY <1>8, InsertKeepsBudget
<1>9. ASSUME NEW c \in Call, LoseCall(c)
      PROVE  IsFiniteSet(Rows)' /\ RoomKept' /\ InBudget'
  BY <1>1, <1>4, <1>9, OthersKeepRows DEF LoseCall, AuditTypeOK
<1>10. ASSUME NEW c \in Call, NEW s \in {"completed", "failed"}, FinishRow(c, s)
       PROVE  IsFiniteSet(Rows)' /\ RoomKept' /\ InBudget'
  <2>1. RowsKept
    BY <1>1, <1>10, FinishKeepsRows
  <2>2. \A b \in Call : call'[b].pc = "counted" /\ call'[b].allowed => call'[b] = call[b]
    BY <1>1, <1>10 DEF FinishRow, AuditTypeOK
  <2> QED
    BY <1>4, <2>1, <2>2
<1>11. CASE UNCHANGED auditVars
  BY <1>4, <1>11, OthersKeepRows DEF auditVars
<1> QED
  BY <1>5, <1>6, <1>7, <1>8, <1>9, <1>10, <1>11 DEF AuditNext

(* The invariant holds at first.                                            *)
LEMMA AuditStart == AuditInit => AuditInv
<1> SUFFICES ASSUME AuditInit PROVE AuditInv
  OBVIOUS
<1> USE AuditAssumption DEF AuditInit
<1>1. AuditTypeOK /\ RowsInOrder /\ OneCounted /\ RoomKept
  BY DEF AuditTypeOK, AuditRow, CallRecord, RowsInOrder, OneCounted, RoomKept
<1>2. Rows = {} /\ IsFiniteSet({})
  BY FS_EmptySet DEF Rows
<1>3. \A d \in 0..LastDay : Allowed(d) = {}
  BY DEF Allowed
<1>4. Cardinality({}) = 0 /\ SumOver(UnitsIn(auditRow), {}) = 0
  BY FS_EmptySet, SumEmpty
<1>5. InBudget
  BY <1>3, <1>4 DEF InBudget
<1> QED
  BY <1>1, <1>2, <1>5 DEF AuditInv

(* No interleaving of reservations, no crash, no failed call and no         *)
(* transaction that waits past midnight spends more than a day's quota.     *)
THEOREM QuotaHeld == AuditSpec => []BudgetHeld
<1>1. AuditInv => BudgetHeld
  <2> SUFFICES ASSUME AuditInv, NEW d \in 0..LastDay
               PROVE  /\ Cardinality(Allowed(d)) <= RequestLimit
                      /\ UnitsOf(Allowed(d)) <= Quota
    BY DEF BudgetHeld
  <2>1. AuditTypeOK /\ IsFiniteSet(Rows) /\ InBudget
    BY DEF AuditInv
  <2>2. Allowed(d) \in SUBSET Rows /\ IsFiniteSet(Allowed(d))
    BY <2>1, CountedRows
  <2>3. UnitsOf(Allowed(d)) = SumOver(UnitsIn(auditRow), Allowed(d))
    BY <2>1, <2>2, UnitsOfIsSum
  <2> QED
    BY <2>1, <2>3 DEF InBudget
<1> QED
  BY <1>1, AuditStart, AuditStep, PTL DEF AuditSpec

----------------------------------------------------------------------------
(* RecoveryLedger                                                           *)

(* The greatest of some numbers.                                            *)
LEMMA MaxIsMember ==
  ASSUME NEW n \in Nat, NEW S \in SUBSET (1..n), S # {}
  PROVE  Max(S) \in S /\ \A y \in S : y <= Max(S)
<1> DEFINE T == 1..n
           P == {s \in SUBSET T : s # {} => \E x \in s : \A y \in s : x >= y}
<1>1. IsFiniteSet(T)
  BY FS_Interval
<1>2. ASSUME NEW s \in SUBSET T, \A x \in s : s \ {x} \in P PROVE s \in P
  <2> SUFFICES ASSUME NEW x \in s PROVE \E z \in s : \A y \in s : z >= y
    OBVIOUS
  <2>1. CASE s \ {x} = {}
    BY <2>1
  <2>2. CASE s \ {x} # {}
    <3>1. PICK z \in s \ {x} : \A y \in s \ {x} : z >= y
      BY <1>2, <2>2
    <3>2. CASE z >= x
      BY <3>1, <3>2
    <3>3. CASE ~(z >= x)
      <4>1. \A y \in s : x >= y
        BY <3>1, <3>3
      <4> QED
        BY <4>1
    <3> QED
      BY <3>2, <3>3
  <2> QED
    BY <2>1, <2>2
<1>3. SUBSET T \subseteq P
  <2> HIDE DEF P, T
  <2> QED
    BY <1>1, <1>2, FiniteInductive
<1>4. \E x \in S : \A y \in S : x >= y
  BY <1>3
<1>5. Max(S) \in S /\ \A y \in S : Max(S) >= y
  BY <1>4 DEF Max
<1> QED
  BY <1>5

(* A fold over 1..n that takes the greatest off is an iteration from 1 on.  *)
LEMMA PrefixFold ==
  ASSUME NEW n \in Nat, NEW i \in 1..n
  PROVE  /\ 1..i \in SUBSET (1..n) /\ 1..i # {}
         /\ Max(1..i) = i /\ (1..i) \ {i} = 1..(i - 1)
<1>1. 1..i \in SUBSET (1..n) /\ i \in 1..i /\ (1..i) \ {i} = 1..(i - 1)
  OBVIOUS
<1>2. Max(1..i) \in 1..i /\ \A y \in 1..i : y <= Max(1..i)
  BY <1>1, MaxIsMember
<1> QED
  BY <1>1, <1>2

(* The element such a fold takes off.                                       *)
Lasts(n) == [S \in SUBSET (1..n) |-> Max(S)]

(* The iteration of g from base, n times.                                   *)
IsTrace(st, n, V, base, g) ==
  /\ st \in [0..n -> V]
  /\ st[0] = base
  /\ \A i \in 1..n : st[i] = g[i][st[i - 1]]

(* The steps stay in V.                                                     *)
ClosedOn(g, n, V) == \A i \in 1..n, v \in V : g[i][v] \in V

(* The fold of g over 1..n, as FoldLeft takes it.                           *)
IsLastFold(F, n, V, base, g) ==
  /\ F \in [SUBSET (1..n) -> V]
  /\ F[{}] = base
  /\ \A S \in SUBSET (1..n) : S # {} => F[S] = g[Max(S)][F[S \ {Max(S)}]]

(* The same, as long as the fold stays in V.                                *)
FoldsWithin(G, n, V, base, g) ==
  /\ G[{}] = base
  /\ \A S \in SUBSET (1..n) : S # {} /\ G[S \ {Max(S)}] \in V =>
       G[S] = g[Max(S)][G[S \ {Max(S)}]]

(* There is such a fold, by FoldExists.                                     *)
LEMMA LastFoldExists ==
  ASSUME NEW n \in Nat, NEW V, NEW base \in V, NEW g, ClosedOn(g, n, V)
  PROVE  \E F : IsLastFold(F, n, V, base, g)
<1> DEFINE T == 1..n
           ch == Lasts(n)
<1>1. IsFiniteSet(T) /\ \A i \in T, v \in V : g[i][v] \in V
  <2>1. IsFiniteSet(T)
    BY FS_Interval
  <2> QED
    BY <2>1 DEF ClosedOn
<1>2. \A S \in SUBSET T : S # {} => ch[S] \in S /\ ch[S] = Max(S)
  BY MaxIsMember DEF Lasts
<1> HIDE DEF T, ch
<1>3. \A S \in SUBSET T : S # {} => ch[S] \in S
  BY <1>2
<1>4. \E F \in [SUBSET T -> V] : IsFold(F, T, base, ch, g)
  BY <1>1, <1>3, FoldExists, Zenon
<1>5. PICK F \in [SUBSET T -> V] : IsFold(F, T, base, ch, g)
  BY <1>4
<1>6. /\ F[{}] = base
      /\ \A S \in SUBSET T : S # {} => F[S] = g[ch[S]][F[S \ {ch[S]}]]
  BY <1>5 DEF IsFold
<1>7. \A S \in SUBSET T : S # {} => F[S] = g[Max(S)][F[S \ {Max(S)}]]
  BY <1>2, <1>6
<1> QED
  BY <1>5, <1>6, <1>7 DEF T, IsLastFold

(* Such a fold ends where the iteration ends.                               *)
LEMMA LastFoldIterates ==
  ASSUME NEW n \in Nat, NEW V, NEW base \in V,
         NEW g, ClosedOn(g, n, V), NEW G, FoldsWithin(G, n, V, base, g)
  PROVE  \E st : IsTrace(st, n, V, base, g) /\ st[n] = G[1..n]
<1> DEFINE st == [i \in 0..n |-> G[1..i]]
<1>1. st[0] = base /\ st[n] = G[1..n]
  <2>1. 1..0 = {}
    OBVIOUS
  <2> QED
    BY <2>1 DEF FoldsWithin
<1>2. \A i \in 1..n : st[i - 1] \in V => st[i] = g[i][st[i - 1]]
  <2> SUFFICES ASSUME NEW i \in 1..n, G[1..(i - 1)] \in V
               PROVE  G[1..i] = g[i][G[1..(i - 1)]]
    OBVIOUS
  <2>1. /\ 1..i \in SUBSET (1..n) /\ 1..i # {}
        /\ Max(1..i) = i /\ (1..i) \ {i} = 1..(i - 1)
    BY PrefixFold
  <2> DEFINE S == 1..i
  <2>2. S \in SUBSET (1..n) /\ S # {} /\ Max(S) = i /\ S \ {Max(S)} = 1..(i - 1)
    BY <2>1
  <2> HIDE DEF S
  <2>3. G[S] = g[Max(S)][G[S \ {Max(S)}]]
    BY <2>2 DEF FoldsWithin
  <2> QED
    BY <2>2, <2>3 DEF S
<1>3. DOMAIN st = 0..n /\ st = [i \in 0..n |-> st[i]]
  OBVIOUS
<1> HIDE DEF st
<1>4. \A i \in 0..n : st[i] \in V
  <2> DEFINE N == {i \in Nat : i <= n => st[i] \in V}
  <2>1. 0 \in N
    BY <1>1
  <2>2. ASSUME NEW i \in Nat, i \in N PROVE i + 1 \in N
    <3> SUFFICES ASSUME i + 1 <= n PROVE st[i + 1] \in V
      OBVIOUS
    <3>1. i + 1 \in 1..n /\ i + 1 - 1 = i /\ st[i] \in V
      BY <2>2
    <3>2. st[i + 1] = g[i + 1][st[i]]
      BY <1>2, <3>1
    <3> QED
      BY <3>1, <3>2 DEF ClosedOn
  <2>3. Nat \subseteq N
    <3> HIDE DEF N
    <3> QED
      BY <2>1, <2>2, NatInductive
  <2> QED
    BY <2>3
<1>5. \A i \in 1..n : st[i] = g[i][st[i - 1]]
  BY <1>2, <1>4
<1> QED
  BY <1>1, <1>3, <1>4, <1>5 DEF IsTrace

(* The states of both passes.                                               *)
ScanState == [seen : SUBSET Row, receipts : SUBSET [row : Row, left : Int],
              reversals : Seq(Row), error : BOOLEAN]

(* The rows the second pass goes through.                                   *)
ReversalRow == {r \in Row : r.kind = "reversal"}

(* The rows that move money.                                                *)
LEMMA RowFields ==
  /\ \A r \in Row : r.kind \in {"receipt", "reversal", "defective"} /\ r.id \in EventId
  /\ \A r \in Row : r.kind # "defective" => r.amount \in Nat /\ r.case \in RecoveryCase
  /\ \A r \in ReversalRow : r \in Row /\ r.kind = "reversal" /\ r.amount \in Nat
BY LedgerAssumption DEF Row, ReversalRow

(* What a row does to the state of the scan.                                *)
LEMMA ScanFields ==
  ASSUME NEW state \in ScanState, NEW row \in Row
  PROVE  LET known == {r \in state.seen : r.id = row.id}
             after == Scan(state, row)
         IN /\ after \in ScanState
            /\ known # {} =>
                 /\ after.seen = state.seen /\ after.receipts = state.receipts
                 /\ after.reversals = state.reversals
                 /\ after.error <=> state.error \/ row \notin known
            /\ known = {} =>
                 /\ after.seen = state.seen \cup {row}
                 /\ after.receipts = IF row.kind = "receipt"
                      THEN state.receipts \cup {[row |-> row, left |-> row.amount]}
                      ELSE state.receipts
                 /\ after.reversals = IF row.kind = "reversal"
                      THEN Append(state.reversals, row) ELSE state.reversals
                 /\ after.error <=> state.error \/ row.kind = "defective"
<1> DEFINE known == {r \in state.seen : r.id = row.id}
           next == [state EXCEPT !.seen = @ \cup {row}]
           after == Scan(state, row)
<1>0. /\ state.seen \in SUBSET Row /\ state.receipts \in SUBSET [row : Row, left : Int]
      /\ state.reversals \in Seq(Row) /\ state.error \in BOOLEAN
      /\ state = [seen |-> state.seen, receipts |-> state.receipts,
                  reversals |-> state.reversals, error |-> state.error]
  BY DEF ScanState
<1>1. CASE known # {}
  <2> DEFINE e == state.error \/ row \notin known
  <2>1. after = [state EXCEPT !.error = e]
    BY <1>1 DEF Scan
  <2>2. e \in BOOLEAN /\ (e <=> state.error \/ row \notin known)
    OBVIOUS
  <2> HIDE DEF e, known, after
  <2>3. after = [seen |-> state.seen, receipts |-> state.receipts,
                 reversals |-> state.reversals, error |-> e]
    BY <1>0, <2>1
  <2>4. after \in ScanState
    BY <1>0, <2>2, <2>3 DEF ScanState
  <2> QED
    BY <1>1, <2>2, <2>3, <2>4 DEF known, after
<1>2. CASE known = {}
  <2>0. next = [seen |-> state.seen \cup {row}, receipts |-> state.receipts,
                reversals |-> state.reversals, error |-> state.error]
    <3> DEFINE more == state.seen \cup {row}
    <3>1. next = [state EXCEPT !.seen = more]
      OBVIOUS
    <3> HIDE DEF more, next
    <3>2. next = [seen |-> more, receipts |-> state.receipts,
                  reversals |-> state.reversals, error |-> state.error]
      BY <1>0, <3>1
    <3> QED
      BY <3>2 DEF more
  <2>1. row.kind \in {"receipt", "reversal", "defective"}
    BY RowFields
  <2>2. CASE row.kind = "receipt"
    <3>1. after = [next EXCEPT !.receipts = @ \cup {[row |-> row, left |-> row.amount]}]
      BY <1>2, <2>2 DEF Scan
    <3>2. row.amount \in Int
      BY <2>2, RowFields
    <3> HIDE DEF next, after
    <3>3. after = [seen |-> state.seen \cup {row},
                   receipts |-> state.receipts \cup {[row |-> row, left |-> row.amount]},
                   reversals |-> state.reversals, error |-> state.error]
      BY <2>0, <3>1
    <3>4. after \in ScanState
      BY <1>0, <3>2, <3>3 DEF ScanState
    <3> QED
      BY <1>2, <2>2, <3>3, <3>4 DEF after
  <2>3. CASE row.kind = "reversal"
    <3>1. after = [next EXCEPT !.reversals = Append(@, row)]
      BY <1>2, <2>3 DEF Scan
    <3>2. Append(state.reversals, row) \in Seq(Row)
      BY <1>0, AppendProperties
    <3> HIDE DEF next, after
    <3>3. after = [seen |-> state.seen \cup {row}, receipts |-> state.receipts,
                   reversals |-> Append(state.reversals, row), error |-> state.error]
      BY <2>0, <3>1
    <3>4. after \in ScanState
      BY <1>0, <3>2, <3>3 DEF ScanState
    <3> QED
      BY <1>2, <2>3, <3>3, <3>4 DEF after
  <2>4. CASE row.kind = "defective"
    <3>1. after = [next EXCEPT !.error = TRUE]
      BY <1>2, <2>4 DEF Scan
    <3> HIDE DEF next, after
    <3>3. after = [seen |-> state.seen \cup {row}, receipts |-> state.receipts,
                   reversals |-> state.reversals, error |-> TRUE]
      BY <2>0, <3>1
    <3>4. after \in ScanState
      BY <1>0, <3>3 DEF ScanState
    <3> QED
      BY <1>2, <2>4, <3>3, <3>4 DEF after
  <2> QED
    BY <2>1, <2>2, <2>3, <2>4
<1> QED
  BY <1>1, <1>2

(* The states the rows are scanned through.                                 *)
Scans(events) ==
  [i \in 1..Len(events) |-> [state \in ScanState |-> Scan(state, events[i])]]

(* FoldLeft ends where reading the rows one after the other does.           *)
LEMMA ScanTrace ==
  ASSUME NEW events \in Seq(Row)
  PROVE  \E st : /\ st \in [0..Len(events) -> ScanState]
                 /\ st[0] = NothingSeen
                 /\ \A i \in 1..Len(events) : st[i] = Scan(st[i - 1], events[i])
                 /\ FoldLeft(Scan, NothingSeen, events) = st[Len(events)]
<1> DEFINE n == Len(events)
           g == Scans(events)
<1>0. n \in Nat /\ DOMAIN events = 1..n /\ \A i \in 1..n : events[i] \in Row
  BY LenProperties, ElementOfSeq
<1>1. NothingSeen \in ScanState
  BY DEF NothingSeen, ScanState
<1>2. \A i \in 1..n, v \in ScanState :
        g[i][v] \in ScanState /\ g[i][v] = Scan(v, events[i])
  <2>1. \A v \in ScanState, row \in Row : Scan(v, row) \in ScanState
    BY ScanFields
  <2> QED
    BY <1>0, <2>1 DEF Scans
<1> HIDE DEF n, g
<1>3. ClosedOn(g, n, ScanState)
  BY <1>2 DEF ClosedOn
<1>4. PICK F : IsLastFold(F, n, ScanState, NothingSeen, g)
  BY <1>0, <1>1, <1>3, LastFoldExists
<1>5. \A S \in SUBSET (1..n) : S # {} => S \ {Max(S)} \in SUBSET (1..n) /\ Max(S) \in 1..n
  BY <1>0, MaxIsMember
<1>6. F = [S \in SUBSET (DOMAIN events) |->
             IF S = {} THEN NothingSeen ELSE Scan(F[S \ {Max(S)}], events[Max(S)])]
  BY <1>0, <1>2, <1>4, <1>5 DEF IsLastFold
<1>7. PICK G : /\ G = [S \in SUBSET (DOMAIN events) |->
                         IF S = {} THEN NothingSeen
                         ELSE Scan(G[S \ {Max(S)}], events[Max(S)])]
               /\ FoldLeft(Scan, NothingSeen, events) = G[DOMAIN events]
  BY <1>6 DEF FoldLeft, MapThenFoldSet
<1>8. FoldsWithin(G, n, ScanState, NothingSeen, g)
  <2>1. /\ G[{}] = NothingSeen
        /\ \A S \in SUBSET (1..n) : S # {} => G[S] = Scan(G[S \ {Max(S)}], events[Max(S)])
    BY <1>0, <1>7
  <2> QED
    BY <1>2, <1>5, <2>1 DEF FoldsWithin
<1>9. PICK st : IsTrace(st, n, ScanState, NothingSeen, g) /\ st[n] = G[1..n]
  BY <1>0, <1>1, <1>3, <1>8, LastFoldIterates
<1>10. \A i \in 1..n : i - 1 \in 0..n
  BY <1>0
<1>11. \A i \in 1..n : st[i] = Scan(st[i - 1], events[i])
  BY <1>2, <1>9, <1>10 DEF IsTrace
<1> QED
  BY <1>0, <1>7, <1>9, <1>11 DEF n, IsTrace

(* The receipts before any reversal.                                        *)
Unapplied(receipts) == {[row |-> r, left |-> r.amount] : r \in receipts}

(* The sequence lists the elements of the set, each once.                   *)
Lists(seq, set) ==
  /\ \A i \in 1..Len(seq) : seq[i] \in set
  /\ \A r \in set : \E i \in 1..Len(seq) : seq[i] = r
  /\ \A i, j \in 1..Len(seq) : seq[i] = seq[j] => i = j

(* After the rows of a set, in any order and any number of times.           *)
ScanInv(state, set) ==
  /\ state.seen \subseteq set
  /\ \A r \in set : \E s \in state.seen : s.id = r.id
  /\ \A r, s \in state.seen : r.id = s.id => r = s
  /\ state.error <=> (\E r \in state.seen : r.kind = "defective") \/ state.seen # set
  /\ state.receipts = Unapplied(Receipts(state.seen))
  /\ state.reversals \in Seq(ReversalRow)
  /\ Lists(state.reversals, {r \in state.seen : r.kind = "reversal"})

(* A list of a set, with one more element at its end.                       *)
LEMMA ListsOneMore ==
  ASSUME NEW S, NEW seq \in Seq(S), NEW set, Lists(seq, set), NEW r \in S, r \notin set
  PROVE  Append(seq, r) \in Seq(S) /\ Lists(Append(seq, r), set \cup {r})
<1> DEFINE more == Append(seq, r)
           n == Len(seq)
<1>1. /\ more \in Seq(S) /\ Len(more) = n + 1 /\ n \in Nat /\ more[n + 1] = r
      /\ \A i \in 1..n : more[i] = seq[i]
  BY AppendProperties, LenProperties
<1> HIDE DEF more, n
<1>2. \A i \in 1..n + 1 : i = n + 1 \/ i \in 1..n
  BY <1>1
<1>3. \A i \in 1..n : more[i] \in set /\ more[i] # r
  BY <1>1 DEF Lists, n
<1>4. \A x \in set : \E i \in 1..n + 1 : more[i] = x
  BY <1>1 DEF Lists, n
<1>5. \A i, j \in 1..n + 1 : more[i] = more[j] => i = j
  BY <1>1, <1>2, <1>3 DEF Lists, n
<1>6. n + 1 \in 1..n + 1
  BY <1>1
<1> QED
  BY <1>1, <1>2, <1>3, <1>4, <1>5, <1>6 DEF Lists, more, n

(* One more row, new, repeated or in conflict with a known one.             *)
LEMMA ScanInvStep ==
  ASSUME NEW state \in ScanState, NEW set \in SUBSET Row, ScanInv(state, set),
         NEW row \in Row
  PROVE  ScanInv(Scan(state, row), set \cup {row})
<1> DEFINE known == {r \in state.seen : r.id = row.id}
           after == Scan(state, row)
           more == set \cup {row}
<1>1. CASE known # {}
  <2>1. /\ after.seen = state.seen /\ after.receipts = state.receipts
        /\ after.reversals = state.reversals
        /\ after.error <=> state.error \/ row \notin known
    BY <1>1, ScanFields
  <2>2. row \in known <=> row \in state.seen
    OBVIOUS
  <2>3. \A r \in more : \E s \in state.seen : s.id = r.id
    BY <1>1 DEF ScanInv
  <2>4. after.error <=> (\E r \in state.seen : r.kind = "defective") \/ state.seen # more
    <3>1. state.error <=> (\E r \in state.seen : r.kind = "defective") \/ state.seen # set
      BY DEF ScanInv
    <3>2. CASE row \in state.seen
      <4>1. more = set
        BY <3>2 DEF ScanInv
      <4> HIDE DEF more, after, known
      <4> QED
        BY <2>1, <2>2, <3>1, <3>2, <4>1
    <3>3. CASE row \notin state.seen
      <4>1. state.seen # more
        BY <3>3
      <4> HIDE DEF more, after, known
      <4> QED
        BY <2>1, <2>2, <3>3, <4>1
    <3> QED
      BY <3>2, <3>3
  <2> HIDE DEF after
  <2> QED
    BY <2>1, <2>3, <2>4 DEF ScanInv, after
<1>2. CASE known = {}
  <2>1. /\ after.seen = state.seen \cup {row}
        /\ after.receipts = IF row.kind = "receipt"
             THEN state.receipts \cup {[row |-> row, left |-> row.amount]}
             ELSE state.receipts
        /\ after.reversals = IF row.kind = "reversal"
             THEN Append(state.reversals, row) ELSE state.reversals
        /\ after.error <=> state.error \/ row.kind = "defective"
    BY <1>2, ScanFields
  <2> HIDE DEF after
  <2>2. row \notin set /\ row \notin state.seen
    BY <1>2 DEF ScanInv
  <2>3. /\ after.seen \subseteq more
        /\ \A r \in more : \E s \in after.seen : s.id = r.id
        /\ \A r, s \in after.seen : r.id = s.id => r = s
    BY <1>2, <2>1 DEF ScanInv
  <2>4. after.error <=> (\E r \in after.seen : r.kind = "defective") \/ after.seen # more
    BY <2>1, <2>2 DEF ScanInv
  <2>5. after.receipts = Unapplied(Receipts(after.seen))
    BY <2>1 DEF ScanInv, Unapplied, Receipts
  <2>6. /\ after.reversals \in Seq(ReversalRow)
        /\ Lists(after.reversals, {r \in after.seen : r.kind = "reversal"})
    <3>1. CASE row.kind = "reversal"
      <4>1. /\ row \in ReversalRow /\ row \notin {r \in state.seen : r.kind = "reversal"}
            /\ after.reversals = Append(state.reversals, row)
            /\ {r \in after.seen : r.kind = "reversal"}
                 = {r \in state.seen : r.kind = "reversal"} \cup {row}
        BY <2>1, <2>2, <3>1 DEF ReversalRow
      <4>2. /\ state.reversals \in Seq(ReversalRow)
            /\ Lists(state.reversals, {r \in state.seen : r.kind = "reversal"})
        BY DEF ScanInv
      <4> QED
        BY <4>1, <4>2, ListsOneMore
    <3>2. CASE row.kind # "reversal"
      <4>1. /\ after.reversals = state.reversals
            /\ {r \in after.seen : r.kind = "reversal"}
                 = {r \in state.seen : r.kind = "reversal"}
        BY <2>1, <3>2
      <4> QED
        BY <4>1 DEF ScanInv
    <3> QED
      BY <3>1, <3>2
  <2> QED
    BY <2>3, <2>4, <2>5, <2>6 DEF ScanInv, after
<1> QED
  BY <1>1, <1>2

(* The first pass, by induction on how many rows were read.                 *)
LEMMA Scanned ==
  ASSUME NEW events \in Seq(Row)
  PROVE  /\ FoldLeft(Scan, NothingSeen, events) \in ScanState
         /\ ScanInv(FoldLeft(Scan, NothingSeen, events), ToSet(events))
<1> DEFINE n == Len(events)
           Read(i) == {events[j] : j \in 1..i}
<1>0. n \in Nat /\ DOMAIN events = 1..n /\ \A i \in 1..n : events[i] \in Row
  BY LenProperties, ElementOfSeq
<1>1. PICK st : /\ st \in [0..n -> ScanState]
                /\ st[0] = NothingSeen
                /\ \A i \in 1..n : st[i] = Scan(st[i - 1], events[i])
                /\ FoldLeft(Scan, NothingSeen, events) = st[n]
  BY ScanTrace
<1>2. \A i \in 0..n : st[i] \in ScanState
  BY <1>1
<1>3. ScanInv(NothingSeen, {})
  BY EmptySeq, LenProperties DEF ScanInv, NothingSeen, Unapplied, Receipts, Lists
<1>4. \A i \in 0..n : ScanInv(st[i], Read(i))
  <2> DEFINE N == {i \in Nat : i <= n => ScanInv(st[i], Read(i))}
  <2>1. 0 \in N
    <3>1. Read(0) = {}
      OBVIOUS
    <3> HIDE DEF Read
    <3> QED
      BY <1>1, <1>3, <3>1
  <2>2. ASSUME NEW i \in Nat, i \in N PROVE i + 1 \in N
    <3> SUFFICES ASSUME i + 1 <= n PROVE ScanInv(st[i + 1], Read(i + 1))
      OBVIOUS
    <3>1. i + 1 \in 1..n /\ i + 1 - 1 = i /\ i \in 0..n /\ ScanInv(st[i], Read(i))
      BY <1>0, <2>2
    <3>2. Read(i + 1) = Read(i) \cup {events[i + 1]}
      BY <3>1
    <3>3. Read(i) \in SUBSET Row /\ events[i + 1] \in Row
      BY <1>0, <3>1
    <3> HIDE DEF Read, n
    <3>4. st[i + 1] = Scan(st[i], events[i + 1]) /\ st[i] \in ScanState
      BY <1>1, <1>2, <3>1
    <3> QED
      BY <3>1, <3>2, <3>3, <3>4, ScanInvStep
  <2>3. Nat \subseteq N
    <3> HIDE DEF N
    <3> QED
      BY <2>1, <2>2, NatInductive
  <2> HIDE DEF Read, n
  <2> QED
    BY <2>3
<1>5. ToSet(events) = Read(n) /\ n \in 0..n
  BY <1>0 DEF ToSet
<1> HIDE DEF Read, n
<1> QED
  BY <1>1, <1>2, <1>4, <1>5

(* What a reversal does to the state.                                       *)
Reduced(receipts, amount) == {[r EXCEPT !.left = @ - amount] : r \in receipts}

(* It reduces the receipts that match and is an error without one.          *)
LEMMA ApplyFields ==
  ASSUME NEW state \in ScanState, NEW reversal \in ReversalRow
  PROVE  LET matched == {r \in state.receipts : Matches(r, reversal)}
             after == ApplyReversal(state, reversal)
         IN /\ after \in ScanState
            /\ matched = {} => after.error
            /\ matched # {} =>
                 /\ after.error <=> state.error
                 /\ after.receipts = (state.receipts \ matched)
                                       \cup Reduced(matched, reversal.amount)
            /\ state.error => after.error
<1> DEFINE matched == {r \in state.receipts : Matches(r, reversal)}
           after == ApplyReversal(state, reversal)
           left == (state.receipts \ matched) \cup Reduced(matched, reversal.amount)
<1>0. /\ state.seen \in SUBSET Row /\ state.receipts \in SUBSET [row : Row, left : Int]
      /\ state.reversals \in Seq(Row) /\ state.error \in BOOLEAN
      /\ state = [seen |-> state.seen, receipts |-> state.receipts,
                  reversals |-> state.reversals, error |-> state.error]
  BY DEF ScanState
<1>1. CASE matched = {}
  <2>1. after = [state EXCEPT !.error = TRUE]
    BY <1>1 DEF ApplyReversal
  <2> HIDE DEF after, matched
  <2>2. after = [seen |-> state.seen, receipts |-> state.receipts,
                 reversals |-> state.reversals, error |-> TRUE]
    BY <1>0, <2>1
  <2>3. after \in ScanState
    BY <1>0, <2>2 DEF ScanState
  <2> QED
    BY <1>1, <2>2, <2>3 DEF after, matched
<1>2. CASE matched # {}
  <2>1. after = [state EXCEPT !.receipts = left]
    BY <1>2 DEF ApplyReversal, Reduced
  <2>2. left \in SUBSET [row : Row, left : Int]
    <3>1. reversal.amount \in Int
      BY RowFields
    <3>2. \A r \in [row : Row, left : Int] :
            [r EXCEPT !.left = @ - reversal.amount] \in [row : Row, left : Int]
      BY <3>1
    <3>3. Reduced(matched, reversal.amount) \in SUBSET [row : Row, left : Int]
      BY <1>0, <3>2 DEF Reduced
    <3> QED
      BY <1>0, <3>3
  <2> HIDE DEF after, left, matched
  <2>3. after = [seen |-> state.seen, receipts |-> left,
                 reversals |-> state.reversals, error |-> state.error]
    BY <1>0, <2>1
  <2>4. after \in ScanState
    BY <1>0, <2>2, <2>3 DEF ScanState
  <2> QED
    BY <1>2, <2>3, <2>4 DEF after, left, matched
<1> QED
  BY <1>1, <1>2

(* The states the reversals are applied through.                            *)
Applies(reversals) ==
  [i \in 1..Len(reversals) |->
    [state \in ScanState |-> ApplyReversal(state, reversals[i])]]

(* FoldLeft ends where applying them one after the other does.              *)
LEMMA ApplyTrace ==
  ASSUME NEW scanned \in ScanState, NEW reversals \in Seq(ReversalRow)
  PROVE  \E st : /\ st \in [0..Len(reversals) -> ScanState]
                 /\ st[0] = scanned
                 /\ \A i \in 1..Len(reversals) : st[i] = ApplyReversal(st[i - 1], reversals[i])
                 /\ FoldLeft(ApplyReversal, scanned, reversals) = st[Len(reversals)]
<1> DEFINE n == Len(reversals)
           g == Applies(reversals)
<1>0. n \in Nat /\ DOMAIN reversals = 1..n /\ \A i \in 1..n : reversals[i] \in ReversalRow
  BY LenProperties, ElementOfSeq
<1>1. \A i \in 1..n, v \in ScanState :
        g[i][v] \in ScanState /\ g[i][v] = ApplyReversal(v, reversals[i])
  <2>1. \A v \in ScanState, r \in ReversalRow : ApplyReversal(v, r) \in ScanState
    BY ApplyFields
  <2> QED
    BY <1>0, <2>1 DEF Applies
<1> HIDE DEF n, g
<1>2. ClosedOn(g, n, ScanState)
  BY <1>1 DEF ClosedOn
<1>3. PICK F : IsLastFold(F, n, ScanState, scanned, g)
  BY <1>0, <1>2, LastFoldExists
<1>4. \A S \in SUBSET (1..n) : S # {} => S \ {Max(S)} \in SUBSET (1..n) /\ Max(S) \in 1..n
  BY <1>0, MaxIsMember
<1>5. F = [S \in SUBSET (DOMAIN reversals) |->
             IF S = {} THEN scanned
             ELSE ApplyReversal(F[S \ {Max(S)}], reversals[Max(S)])]
  BY <1>0, <1>1, <1>3, <1>4 DEF IsLastFold
<1>6. PICK G : /\ G = [S \in SUBSET (DOMAIN reversals) |->
                         IF S = {} THEN scanned
                         ELSE ApplyReversal(G[S \ {Max(S)}], reversals[Max(S)])]
               /\ FoldLeft(ApplyReversal, scanned, reversals) = G[DOMAIN reversals]
  BY <1>5 DEF FoldLeft, MapThenFoldSet
<1>7. FoldsWithin(G, n, ScanState, scanned, g)
  <2>1. /\ G[{}] = scanned
        /\ \A S \in SUBSET (1..n) : S # {} =>
             G[S] = ApplyReversal(G[S \ {Max(S)}], reversals[Max(S)])
    BY <1>0, <1>6
  <2> QED
    BY <1>1, <1>4, <2>1 DEF FoldsWithin
<1>8. PICK st : IsTrace(st, n, ScanState, scanned, g) /\ st[n] = G[1..n]
  BY <1>0, <1>2, <1>7, LastFoldIterates
<1>9. \A i \in 1..n : i - 1 \in 0..n
  BY <1>0
<1>10. \A i \in 1..n : st[i] = ApplyReversal(st[i - 1], reversals[i])
  BY <1>1, <1>8, <1>9 DEF IsTrace
<1> QED
  BY <1>0, <1>6, <1>8, <1>10 DEF n, IsTrace

(* The amounts of the rows.                                                 *)
Amounts == [r \in Row |-> r.amount]

(* The rows that have an amount.                                            *)
MoneyRow == {r \in Row : r.kind # "defective"}

(* The total of the specification, as a sum of numbers.                     *)
LEMMA TotalIsSum ==
  ASSUME NEW S \in SUBSET MoneyRow, IsFiniteSet(S)
  PROVE  /\ Total(S) = SumOver(Amounts, S) /\ SumOver(Amounts, S) \in Int
         /\ \A r \in S : Amounts[r] = r.amount /\ Amounts[r] \in Nat
<1> DEFINE u == Amounts
<1>1. \A r \in S : u[r] = r.amount /\ u[r] \in Nat
  BY RowFields DEF Amounts, MoneyRow
<1> HIDE DEF u
<1>2. PICK F : IsSum(F, u, S) /\ SumOver(u, S) = F[S]
  <2>1. \A r \in S : u[r] \in Int
    BY <1>1
  <2> QED
    BY <2>1, SumIsSum
<1>3. F = [s \in SUBSET S |->
             IF s = {} THEN 0
             ELSE (CHOOSE x \in s : TRUE).amount + F[s \ {CHOOSE x \in s : TRUE}]]
  BY <1>1, <1>2 DEF IsSum, AddsUp
<1>4. PICK G : /\ G = [s \in SUBSET S |->
                         IF s = {} THEN 0
                         ELSE (CHOOSE x \in s : TRUE).amount
                                + G[s \ {CHOOSE x \in s : TRUE}]]
               /\ Total(S) = G[S]
  BY <1>3 DEF Total, MapThenSumSet, MapThenFoldSet
<1>5. AddsUp(F, u, S) /\ AddsUp(G, u, S)
  BY <1>1, <1>2, <1>4 DEF IsSum, AddsUp
<1>6. F[S] = G[S]
  BY <1>5, SumsAgree
<1> QED
  BY <1>1, <1>2, <1>4, <1>6 DEF u, IsSum

(* What is left of the receipts.                                            *)
Lefts == [r \in [row : Row, left : Int] |-> r.left]

(* The total of the code, as a sum of numbers.                              *)
LEMMA LeftIsSum ==
  ASSUME NEW S \in SUBSET [row : Row, left : Int], IsFiniteSet(S)
  PROVE  /\ MapThenSumSet(LAMBDA r : r.left, S) = SumOver(Lefts, S) /\ SumOver(Lefts, S) \in Int
         /\ \A r \in S : Lefts[r] = r.left /\ Lefts[r] \in Int
<1> DEFINE u == Lefts
<1>1. \A r \in S : u[r] = r.left /\ u[r] \in Int
  BY DEF Lefts
<1> HIDE DEF u
<1>2. PICK F : IsSum(F, u, S) /\ SumOver(u, S) = F[S]
  BY <1>1, SumIsSum
<1>3. F = [s \in SUBSET S |->
             IF s = {} THEN 0
             ELSE (CHOOSE x \in s : TRUE).left + F[s \ {CHOOSE x \in s : TRUE}]]
  BY <1>1, <1>2 DEF IsSum, AddsUp
<1>4. PICK G : /\ G = [s \in SUBSET S |->
                         IF s = {} THEN 0
                         ELSE (CHOOSE x \in s : TRUE).left
                                + G[s \ {CHOOSE x \in s : TRUE}]]
               /\ MapThenSumSet(LAMBDA r : r.left, S) = G[S]
  BY <1>3 DEF MapThenSumSet, MapThenFoldSet
<1>5. AddsUp(F, u, S) /\ AddsUp(G, u, S)
  BY <1>1, <1>2, <1>4 DEF IsSum, AddsUp
<1>6. F[S] = G[S]
  BY <1>5, SumsAgree
<1> QED
  BY <1>1, <1>2, <1>4, <1>6 DEF u, IsSum

(* Rows that name one thing each and of which none is refused.              *)
Distinct(set) ==
  /\ set \in SUBSET MoneyRow
  /\ IsFiniteSet(set)
  /\ \A r, s \in set : r.id = s.id => r = s

(* What is left of a receipt when some reversals have been applied.         *)
LeftOf(set, done, s) == s.amount - SumOver(Amounts, done \cap Reversals(set, s))
Settled(set, done, s) == [row |-> s, left |-> LeftOf(set, done, s)]

(* After some reversals, unless there was an error: then the set is unsound.*)
SettleInv(state, set, done) ==
  /\ state.error => ~Sound(set)
  /\ ~state.error =>
       /\ state.receipts = {Settled(set, done, s) : s \in Receipts(set)}
       /\ \A s \in Receipts(set) : LeftOf(set, done, s) >= 0
       /\ \A q \in done : \E s \in Receipts(set) : q \in Reversals(set, s)

(* Parts of the set, and their totals.                                      *)
LEMMA PartsOfSet ==
  ASSUME NEW set, Distinct(set), NEW part \in SUBSET set
  PROVE  /\ IsFiniteSet(part) /\ part \in SUBSET MoneyRow
         /\ Total(part) = SumOver(Amounts, part) /\ SumOver(Amounts, part) \in Int
         /\ \A r \in part : Amounts[r] = r.amount /\ Amounts[r] \in Nat
<1>1. IsFiniteSet(part) /\ part \in SUBSET MoneyRow
  BY FS_Subset DEF Distinct
<1> QED
  BY <1>1, TotalIsSum

(* What is left of a receipt is a number.                                   *)
LEMMA LeftIsNumber ==
  ASSUME NEW set, Distinct(set), NEW done \in SUBSET set, NEW s \in Receipts(set)
  PROVE  /\ s \in set /\ s.amount \in Nat /\ LeftOf(set, done, s) \in Int
         /\ SumOver(Amounts, done \cap Reversals(set, s)) \in Int
<1>1. s \in set /\ s.amount \in Nat
  BY RowFields DEF Receipts, Distinct, MoneyRow
<1>2. done \cap Reversals(set, s) \in SUBSET set
  OBVIOUS
<1>3. SumOver(Amounts, done \cap Reversals(set, s)) \in Int
  BY <1>2, PartsOfSet
<1> QED
  BY <1>1, <1>3 DEF LeftOf

(* The receipt of a reversal pays it, if it can.                            *)
LEMMA SettleInvStep ==
  ASSUME NEW state \in ScanState, NEW set, Distinct(set),
         NEW done \in SUBSET set, SettleInv(state, set, done),
         NEW q \in set, q.kind = "reversal", q \notin done
  PROVE  SettleInv(ApplyReversal(state, q), set, done \cup {q})
<1> DEFINE matched == {r \in state.receipts : Matches(r, q)}
           after == ApplyReversal(state, q)
           more == done \cup {q}
<1>0. q \in ReversalRow /\ q \in MoneyRow /\ q.amount \in Nat
  BY RowFields DEF Distinct, MoneyRow, ReversalRow
<1>1. /\ matched = {} => after.error
      /\ matched # {} =>
           /\ after.error <=> state.error
           /\ after.receipts = (state.receipts \ matched) \cup Reduced(matched, q.amount)
      /\ state.error => after.error
  BY <1>0, ApplyFields
<1> HIDE DEF after
<1>2. CASE state.error
  BY <1>1, <1>2 DEF SettleInv, after
<1>3. CASE ~state.error
  <2>1. /\ state.receipts = {Settled(set, done, s) : s \in Receipts(set)}
        /\ \A s \in Receipts(set) : LeftOf(set, done, s) >= 0
        /\ \A p \in done : \E s \in Receipts(set) : p \in Reversals(set, s)
    BY <1>3 DEF SettleInv
  <2>2. \A s \in Receipts(set) :
          Matches(Settled(set, done, s), q) <=>
            q \in Reversals(set, s) /\ q.amount <= LeftOf(set, done, s)
    BY DEF Matches, Settled, Reversals
  <2>3. CASE \A s \in Receipts(set) : q \notin Reversals(set, s)
    <3>1. matched = {}
      BY <2>1, <2>2, <2>3
    <3>2. ~Sound(set)
      BY <2>3 DEF Sound
    <3> QED
      BY <1>1, <3>1, <3>2 DEF SettleInv, after
  <2>4. ASSUME NEW s \in Receipts(set), q \in Reversals(set, s)
        PROVE  SettleInv(ApplyReversal(state, q), set, done \cup {q})
    <3>1. \A t \in Receipts(set) : q \in Reversals(set, t) => t = s
      BY <2>4 DEF Distinct, Receipts, Reversals
    <3>2. \A t \in Receipts(set) : t # s => LeftOf(set, more, t) = LeftOf(set, done, t)
      <4> SUFFICES ASSUME NEW t \in Receipts(set), t # s
                   PROVE  LeftOf(set, more, t) = LeftOf(set, done, t)
        OBVIOUS
      <4>1. more \cap Reversals(set, t) = done \cap Reversals(set, t)
        BY <3>1
      <4> QED
        BY <4>1 DEF LeftOf
    <3> DEFINE old == done \cap Reversals(set, s)
               new == more \cap Reversals(set, s)
    <3>3. new = old \cup {q} /\ q \in new /\ new \ {q} = old /\ new \in SUBSET set
          /\ old \in SUBSET set /\ new \subseteq Reversals(set, s)
          /\ Reversals(set, s) \in SUBSET set
      BY <2>4 DEF Reversals
    <3> HIDE DEF new, old
    <3>4. SumOver(Amounts, new) = q.amount + SumOver(Amounts, old)
      <4>1. IsFiniteSet(new) /\ \A r \in new : Amounts[r] = r.amount /\ Amounts[r] \in Int
        BY <3>3, PartsOfSet
      <4>2. SumOver(Amounts, new) = Amounts[q] + SumOver(Amounts, new \ {q})
        BY <3>3, <4>1, SumRemove
      <4> QED
        BY <3>3, <4>1, <4>2
    <3>5. /\ s.amount \in Nat /\ SumOver(Amounts, old) \in Int
          /\ LeftOf(set, done, s) = s.amount - SumOver(Amounts, old)
          /\ LeftOf(set, more, s) = s.amount - SumOver(Amounts, new)
      BY LeftIsNumber DEF LeftOf, old, new
    <3>6. LeftOf(set, more, s) = LeftOf(set, done, s) - q.amount
      BY <1>0, <3>4, <3>5
    <3>7. CASE q.amount <= LeftOf(set, done, s)
      <4>1. matched = {Settled(set, done, s)}
        BY <2>1, <2>2, <2>4, <3>1, <3>7
      <4>2. Reduced(matched, q.amount) = {Settled(set, more, s)}
        <5> HIDE DEF matched, more
        <5>1. [Settled(set, done, s) EXCEPT !.left = @ - q.amount] = Settled(set, more, s)
          BY <3>6 DEF Settled
        <5> QED
          BY <4>1, <5>1 DEF Reduced
      <4>3. \A t, v \in Receipts(set) :
              Settled(set, done, t) = Settled(set, done, v) => t = v
        BY DEF Settled
      <4>4. \A t \in Receipts(set) : t # s => Settled(set, more, t) = Settled(set, done, t)
        BY <3>2 DEF Settled
      <4>5. after.receipts = {Settled(set, more, t) : t \in Receipts(set)}
        <5>1. after.receipts = (state.receipts \ {Settled(set, done, s)})
                                 \cup {Settled(set, more, s)}
          BY <1>1, <4>1, <4>2
        <5> QED
          BY <2>1, <4>3, <4>4, <5>1
      <4>6. \A t \in Receipts(set) : LeftOf(set, more, t) >= 0
        <5> HIDE DEF more
        <5>1. LeftOf(set, more, s) >= 0
          BY <1>0, <3>5, <3>6, <3>7
        <5> QED
          BY <2>1, <3>2, <5>1
      <4>7. \A p \in more : \E t \in Receipts(set) : p \in Reversals(set, t)
        BY <2>1, <2>4
      <4>8. ~after.error
        BY <1>1, <1>3, <4>1
      <4> QED
        BY <4>5, <4>6, <4>7, <4>8 DEF SettleInv, after
    <3>8. CASE ~(q.amount <= LeftOf(set, done, s))
      <4>1. matched = {}
        BY <2>1, <2>2, <3>1, <3>8
      <4>2. SumOver(Amounts, new) <= SumOver(Amounts, Reversals(set, s))
        <5> DEFINE all == Reversals(set, s)
        <5>1. IsFiniteSet(all) /\ \A r \in all : Amounts[r] \in Nat
          BY <3>3, PartsOfSet
        <5> HIDE DEF all
        <5>2. \A part \in SUBSET all : SumOver(Amounts, part) <= SumOver(Amounts, all)
          BY <5>1, SumMonotone
        <5> QED
          BY <3>3, <5>2 DEF all
      <4>3. /\ Total(Reversals(set, s)) = SumOver(Amounts, Reversals(set, s))
            /\ SumOver(Amounts, Reversals(set, s)) \in Int
        BY <3>3, PartsOfSet
      <4>4. ~(Total(Reversals(set, s)) <= s.amount)
        BY <1>0, <3>4, <3>5, <3>8, <4>2, <4>3
      <4>5. ~Sound(set)
        BY <4>4 DEF Sound
      <4> QED
        BY <1>1, <4>1, <4>5 DEF SettleInv, after
    <3> QED
      BY <3>7, <3>8
  <2> QED
    BY <2>3, <2>4
<1> QED
  BY <1>2, <1>3

(* The reversals of the set, each applied once in some order.               *)
LEMMA AllSettled ==
  ASSUME NEW scanned \in ScanState, NEW set, Distinct(set),
         ~scanned.error, scanned.receipts = Unapplied(Receipts(set)),
         NEW reversals \in Seq(ReversalRow),
         Lists(reversals, {r \in set : r.kind = "reversal"})
  PROVE  LET settled == FoldLeft(ApplyReversal, scanned, reversals)
         IN  /\ settled \in ScanState
             /\ SettleInv(settled, set, {r \in set : r.kind = "reversal"})
<1> DEFINE n == Len(reversals)
           Done(i) == {reversals[j] : j \in 1..i}
<1>0. n \in Nat /\ \A i \in 1..n : reversals[i] \in ReversalRow
  BY LenProperties, ElementOfSeq
<1>1. PICK st : /\ st \in [0..n -> ScanState]
                /\ st[0] = scanned
                /\ \A i \in 1..n : st[i] = ApplyReversal(st[i - 1], reversals[i])
                /\ FoldLeft(ApplyReversal, scanned, reversals) = st[n]
  BY ApplyTrace
<1>2. \A i \in 0..n : st[i] \in ScanState
  BY <1>1
<1>3. SettleInv(scanned, set, {})
  <2>1. \A s \in Receipts(set) : LeftOf(set, {}, s) = s.amount /\ s.amount \in Nat
    <3> SUFFICES ASSUME NEW s \in Receipts(set)
                 PROVE  LeftOf(set, {}, s) = s.amount /\ s.amount \in Nat
      OBVIOUS
    <3>1. {} \cap Reversals(set, s) = {} /\ SumOver(Amounts, {}) = 0
      BY SumEmpty
    <3>2. s.amount \in Nat
      BY LeftIsNumber
    <3> QED
      BY <3>1, <3>2 DEF LeftOf
  <2>2. scanned.receipts = {Settled(set, {}, s) : s \in Receipts(set)}
    BY <2>1 DEF Unapplied, Settled
  <2> QED
    BY <2>1, <2>2 DEF SettleInv
<1>4. \A i \in 0..n : SettleInv(st[i], set, Done(i))
  <2> DEFINE N == {i \in Nat : i <= n => SettleInv(st[i], set, Done(i))}
  <2>1. 0 \in N
    <3>1. Done(0) = {}
      OBVIOUS
    <3> HIDE DEF Done
    <3> QED
      BY <1>1, <1>3, <3>1
  <2>2. ASSUME NEW i \in Nat, i \in N PROVE i + 1 \in N
    <3> SUFFICES ASSUME i + 1 <= n PROVE SettleInv(st[i + 1], set, Done(i + 1))
      OBVIOUS
    <3>1. i + 1 \in 1..n /\ i + 1 - 1 = i /\ i \in 0..n /\ SettleInv(st[i], set, Done(i))
      BY <1>0, <2>2
    <3>2. Done(i + 1) = Done(i) \cup {reversals[i + 1]}
      BY <3>1
    <3>3. \A j \in 1..i : j \in 1..n /\ j # i + 1
      BY <1>0, <3>1
    <3>4. /\ Done(i) \in SUBSET set /\ reversals[i + 1] \notin Done(i)
          /\ reversals[i + 1] \in set /\ reversals[i + 1].kind = "reversal"
      BY <3>1, <3>3 DEF Lists
    <3> HIDE DEF Done, n
    <3>5. st[i + 1] = ApplyReversal(st[i], reversals[i + 1]) /\ st[i] \in ScanState
      BY <1>1, <1>2, <3>1
    <3> QED
      BY <3>1, <3>2, <3>4, <3>5, SettleInvStep
  <2>3. Nat \subseteq N
    <3> HIDE DEF N
    <3> QED
      BY <2>1, <2>2, NatInductive
  <2> HIDE DEF Done, n
  <2> QED
    BY <2>3
<1>5. Done(n) = {r \in set : r.kind = "reversal"} /\ n \in 0..n
  BY <1>0 DEF Lists
<1> HIDE DEF Done, n
<1> QED
  BY <1>1, <1>2, <1>4, <1>5

(* The reversals of some receipts, of all, and what is then left of some.   *)
Reversed(set, part) == UNION {Reversals(set, s) : s \in part}
AllReversals(set) == {r \in set : r.kind = "reversal"}
Balances(set, part) == {Settled(set, AllReversals(set), s) : s \in part}

(* What is left of some receipts is what came in less what went back.       *)
LEMMA LeftAddsUp ==
  ASSUME NEW set, Distinct(set)
  PROVE  \A part \in SUBSET Receipts(set) :
           /\ IsFiniteSet(Balances(set, part))
           /\ SumOver(Lefts, Balances(set, part))
                = SumOver(Amounts, part) - SumOver(Amounts, Reversed(set, part))
<1> DEFINE T == Receipts(set)
           P == {part \in SUBSET T :
                   /\ IsFiniteSet(Balances(set, part))
                   /\ SumOver(Lefts, Balances(set, part))
                        = SumOver(Amounts, part) - SumOver(Amounts, Reversed(set, part))}
           rec(s) == Settled(set, AllReversals(set), s)
<1>1. T \in SUBSET set /\ IsFiniteSet(T)
  BY FS_Subset DEF Distinct, Receipts
<1>2. \A s \in T : /\ rec(s) \in [row : Row, left : Int] /\ rec(s).row = s
                   /\ rec(s).left = s.amount - SumOver(Amounts, Reversals(set, s))
                   /\ s.amount \in Int /\ SumOver(Amounts, Reversals(set, s)) \in Int
  <2> SUFFICES ASSUME NEW s \in T
               PROVE  /\ rec(s) \in [row : Row, left : Int] /\ rec(s).row = s
                      /\ rec(s).left = s.amount - SumOver(Amounts, Reversals(set, s))
                      /\ s.amount \in Int /\ SumOver(Amounts, Reversals(set, s)) \in Int
    OBVIOUS
  <2>1. AllReversals(set) \cap Reversals(set, s) = Reversals(set, s)
        /\ AllReversals(set) \in SUBSET set
    BY DEF AllReversals, Reversals
  <2>2. /\ s \in set /\ s.amount \in Nat /\ LeftOf(set, AllReversals(set), s) \in Int
        /\ SumOver(Amounts, AllReversals(set) \cap Reversals(set, s)) \in Int
    BY <2>1, LeftIsNumber
  <2>3. s \in Row
    BY <1>1 DEF Distinct, MoneyRow
  <2> QED
    BY <2>1, <2>2, <2>3 DEF Settled, LeftOf
<1> HIDE DEF T
<1>3. ASSUME NEW part \in SUBSET T, \A x \in part : part \ {x} \in P PROVE part \in P
  <2>1. CASE part = {}
    <3>1. Balances(set, part) = {} /\ Reversed(set, part) = {} /\ IsFiniteSet({})
      BY <2>1, FS_EmptySet DEF Balances, Reversed
    <3>2. SumOver(Lefts, {}) = 0 /\ SumOver(Amounts, {}) = 0
      BY SumEmpty
    <3> QED
      BY <2>1, <3>1, <3>2
  <2>2. CASE part # {}
    <3>1. PICK x \in part : TRUE
      BY <2>2
    <3> DEFINE rest == part \ {x}
               more == Balances(set, part)
               less == Balances(set, rest)
               gone == Reversed(set, rest)
               here == Reversals(set, x)
    <3>2. /\ IsFiniteSet(less)
          /\ SumOver(Lefts, less) = SumOver(Amounts, rest) - SumOver(Amounts, gone)
      BY <1>3, <3>1
    <3>3. x \in T /\ rest \in SUBSET T /\ rest \in SUBSET set /\ part \in SUBSET set
      BY <1>1, <3>1
    <3>4. /\ more = less \cup {rec(x)} /\ rec(x) \in more /\ more \ {rec(x)} = less
          /\ more \in SUBSET [row : Row, left : Int]
          /\ less \in SUBSET [row : Row, left : Int]
      <4>1. more = less \cup {rec(x)}
        BY <3>1 DEF Balances
      <4>2. \A s \in rest : rec(s) # rec(x)
        BY <1>2, <3>3
      <4>3. rec(x) \notin less
        BY <4>2 DEF Balances
      <4>4. more \in SUBSET [row : Row, left : Int]
        BY <1>2 DEF Balances
      <4> HIDE DEF more, less, rec
      <4> QED
        BY <4>1, <4>3, <4>4
    <3>5. /\ Reversed(set, part) = gone \cup here /\ gone \cap here = {}
          /\ gone \in SUBSET set /\ here \in SUBSET set
      <4>1. Reversed(set, part) = gone \cup here
        BY <3>1 DEF Reversed
      <4>2. gone \in SUBSET set /\ here \in SUBSET set
        BY DEF Reversed, Reversals
      <4>3. \A s \in rest : Reversals(set, s) \cap here = {}
        BY <3>3 DEF Reversals, Distinct
      <4> QED
        BY <4>1, <4>2, <4>3 DEF Reversed
    <3>6. SumOver(Amounts, gone \cup here) = SumOver(Amounts, gone) + SumOver(Amounts, here)
      <4>1. IsFiniteSet(set) /\ \A r \in set : Amounts[r] \in Int
        BY PartsOfSet DEF Distinct
      <4> HIDE DEF gone, here
      <4>2. \A A \in SUBSET set : A \cap here = {} =>
              SumOver(Amounts, A \cup here) = SumOver(Amounts, A) + SumOver(Amounts, here)
        BY <3>5, <4>1, SumDisjoint
      <4> QED
        BY <3>5, <4>2
    <3>7. SumOver(Amounts, part) = x.amount + SumOver(Amounts, rest)
      <4>1. IsFiniteSet(part) /\ \A r \in part : Amounts[r] = r.amount /\ Amounts[r] \in Int
        BY <3>3, PartsOfSet
      <4>2. SumOver(Amounts, part) = Amounts[x] + SumOver(Amounts, part \ {x})
        BY <3>1, <4>1, SumRemove
      <4> QED
        BY <3>1, <4>1, <4>2
    <3>8. IsFiniteSet(more)
      <4> HIDE DEF more, less, rec
      <4> QED
        BY <3>2, <3>4, FS_AddElement
    <3>9. SumOver(Lefts, more) = rec(x).left + SumOver(Lefts, less)
      <4> DEFINE y == rec(x)
      <4>1. y \in more /\ more \ {y} = less /\ more \in SUBSET [row : Row, left : Int]
        BY <3>4
      <4> HIDE DEF y, more, less
      <4>2. \A r \in more : Lefts[r] = r.left /\ Lefts[r] \in Int
        BY <3>8, <4>1, LeftIsSum
      <4>3. SumOver(Lefts, more) = Lefts[y] + SumOver(Lefts, more \ {y})
        BY <3>8, <4>1, <4>2, SumRemove
      <4>4. SumOver(Lefts, more) = y.left + SumOver(Lefts, less)
        BY <4>1, <4>2, <4>3
      <4> QED
        BY <4>4 DEF y
    <3>10. /\ SumOver(Amounts, rest) \in Int /\ SumOver(Amounts, gone) \in Int
           /\ SumOver(Amounts, here) \in Int /\ x.amount \in Int
      <4> HIDE DEF rest, gone, here
      <4>1. \A some \in SUBSET set : SumOver(Amounts, some) \in Int
        BY PartsOfSet
      <4> QED
        BY <1>2, <3>3, <3>5, <4>1 DEF here
    <3>11. SumOver(Lefts, more)
             = SumOver(Amounts, part) - SumOver(Amounts, Reversed(set, part))
      <4>1. rec(x).left = x.amount - SumOver(Amounts, here)
        BY <1>2, <3>3
      <4>2. SumOver(Amounts, Reversed(set, part)) = SumOver(Amounts, gone) + SumOver(Amounts, here)
        BY <3>5, <3>6
      <4> HIDE DEF more, less, rest, gone, here, rec
      <4> QED
        BY <3>2, <3>7, <3>9, <3>10, <4>1, <4>2
    <3> QED
      BY <3>8, <3>11
  <2> QED
    BY <2>1, <2>2
<1>4. SUBSET T \subseteq P
  <2> HIDE DEF P
  <2> QED
    BY <1>1, <1>3, FiniteInductive
<1> QED
  BY <1>4 DEF T

(* A sequence has finitely many elements.                                   *)
LEMMA RowsAreFinite ==
  ASSUME NEW events \in Seq(Row)
  PROVE  ToSet(events) \in SUBSET Row /\ IsFiniteSet(ToSet(events))
<1> DEFINE n == Len(events)
           Read(i) == {events[j] : j \in 1..i}
           N == {i \in Nat : IsFiniteSet(Read(i))}
<1>0. n \in Nat /\ DOMAIN events = 1..n /\ \A i \in 1..n : events[i] \in Row
  BY LenProperties, ElementOfSeq
<1>1. 0 \in N
  <2>1. Read(0) = {}
    OBVIOUS
  <2> QED
    BY <2>1, FS_EmptySet
<1>2. ASSUME NEW i \in Nat, i \in N PROVE i + 1 \in N
  <2> DEFINE last == events[i + 1]
  <2>1. Read(i + 1) = Read(i) \cup {last}
    OBVIOUS
  <2>2. IsFiniteSet(Read(i))
    BY <1>2
  <2> HIDE DEF Read, last
  <2>3. IsFiniteSet(Read(i + 1))
    BY <2>1, <2>2, FS_AddElement
  <2> QED
    BY <2>3
<1>3. Nat \subseteq N
  <2> HIDE DEF N
  <2> QED
    BY <1>1, <1>2, NatInductive
<1>4. ToSet(events) = Read(n) /\ ToSet(events) \in SUBSET Row
  BY <1>0 DEF ToSet
<1>5. IsFiniteSet(Read(n))
  BY <1>0, <1>3
<1> QED
  BY <1>4, <1>5

(* An error is never taken back.                                            *)
LEMMA ErrorsStay ==
  ASSUME NEW scanned \in ScanState, NEW reversals \in Seq(ReversalRow)
  PROVE  LET settled == FoldLeft(ApplyReversal, scanned, reversals)
         IN  settled \in ScanState /\ (scanned.error => settled.error)
<1> DEFINE n == Len(reversals)
<1>0. n \in Nat /\ \A i \in 1..n : reversals[i] \in ReversalRow
  BY LenProperties, ElementOfSeq
<1>1. PICK st : /\ st \in [0..n -> ScanState]
                /\ st[0] = scanned
                /\ \A i \in 1..n : st[i] = ApplyReversal(st[i - 1], reversals[i])
                /\ FoldLeft(ApplyReversal, scanned, reversals) = st[n]
  BY ApplyTrace
<1>2. ASSUME scanned.error PROVE st[n].error
  <2> DEFINE N == {i \in Nat : i <= n => st[i].error}
  <2>1. 0 \in N
    BY <1>1, <1>2
  <2>2. ASSUME NEW i \in Nat, i \in N PROVE i + 1 \in N
    <3> SUFFICES ASSUME i + 1 <= n PROVE st[i + 1].error
      OBVIOUS
    <3>1. i + 1 \in 1..n /\ i + 1 - 1 = i /\ i \in 0..n /\ st[i].error
      BY <1>0, <2>2
    <3> HIDE DEF n
    <3>2. /\ st[i + 1] = ApplyReversal(st[i], reversals[i + 1])
          /\ st[i] \in ScanState /\ reversals[i + 1] \in ReversalRow
      BY <1>0, <1>1, <3>1
    <3> QED
      BY <3>1, <3>2, ApplyFields
  <2>3. Nat \subseteq N
    <3> HIDE DEF N
    <3> QED
      BY <2>1, <2>2, NatInductive
  <2> HIDE DEF n
  <2> QED
    BY <1>0, <2>3
<1>3. n \in 0..n
  BY <1>0
<1> HIDE DEF n
<1> QED
  BY <1>1, <1>2, <1>3

(* The two passes, for any ledger.                                          *)
LEMMA ReconcileIsExpected ==
  ASSUME NEW events \in Seq(Row)
  PROVE  reconcile(events) = Expected(ToSet(events))
<1> DEFINE scanned == FoldLeft(Scan, NothingSeen, events)
           settled == FoldLeft(ApplyReversal, scanned, scanned.reversals)
           set == ToSet(events)
           left(c) == MapThenSumSet(LAMBDA r : r.left,
                                    {r \in settled.receipts : r.row.case = c})
<1>1. scanned \in ScanState /\ ScanInv(scanned, set)
  BY Scanned
<1>2. set \in SUBSET Row /\ IsFiniteSet(set)
  BY RowsAreFinite
<1>3. reconcile(events) =
        IF settled.error THEN [status |-> "needs_review"]
        ELSE [status |-> "reconciled", recovered |-> [c \in RecoveryCase |-> left(c)]]
  BY DEF reconcile
<1> HIDE DEF scanned, settled, set
<1>4. settled \in ScanState /\ (scanned.error => settled.error)
  <2>1. scanned.reversals \in Seq(ReversalRow)
    BY <1>1 DEF ScanInv
  <2> QED
    BY <1>1, <2>1, ErrorsStay DEF settled
<1>5. CASE scanned.error
  <2>1. ~Sound(set)
    <3>1. CASE \E r \in scanned.seen : r.kind = "defective"
      BY <1>1, <3>1 DEF ScanInv, Sound
    <3>2. CASE scanned.seen # set
      <4>1. PICK r \in set : r \notin scanned.seen
        BY <1>1, <3>2 DEF ScanInv
      <4>2. PICK s \in scanned.seen : s.id = r.id
        BY <1>1 DEF ScanInv
      <4>3. s \in set /\ s # r
        BY <1>1, <4>1 DEF ScanInv
      <4> QED
        BY <4>2, <4>3 DEF Sound
    <3> QED
      BY <1>1, <1>5, <3>1, <3>2 DEF ScanInv
  <2> QED
    BY <1>3, <1>4, <1>5, <2>1 DEF Expected, set
<1>6. CASE ~scanned.error
  <2>1. scanned.seen = set /\ \A r \in set : r.kind # "defective"
    BY <1>1, <1>6 DEF ScanInv
  <2>2. Distinct(set)
    BY <1>1, <1>2, <2>1 DEF ScanInv, Distinct, MoneyRow
  <2>3. /\ scanned.receipts = Unapplied(Receipts(set))
        /\ scanned.reversals \in Seq(ReversalRow)
        /\ Lists(scanned.reversals, {r \in set : r.kind = "reversal"})
    BY <1>1, <2>1 DEF ScanInv
  <2>4. SettleInv(settled, set, AllReversals(set))
    BY <1>1, <1>6, <2>2, <2>3, AllSettled DEF settled, AllReversals
  <2>5. CASE settled.error
    BY <1>3, <2>4, <2>5 DEF Expected, SettleInv, set
  <2>6. CASE ~settled.error
    <3>1. /\ settled.receipts = {Settled(set, AllReversals(set), s) : s \in Receipts(set)}
          /\ \A s \in Receipts(set) : LeftOf(set, AllReversals(set), s) >= 0
          /\ \A q \in AllReversals(set) : \E s \in Receipts(set) : q \in Reversals(set, s)
      BY <2>4, <2>6 DEF SettleInv
    <3>2. \A s \in Receipts(set) : Total(Reversals(set, s)) <= s.amount
      <4> SUFFICES ASSUME NEW s \in Receipts(set)
                   PROVE  Total(Reversals(set, s)) <= s.amount
        OBVIOUS
      <4>1. AllReversals(set) \cap Reversals(set, s) = Reversals(set, s)
            /\ Reversals(set, s) \in SUBSET set /\ s \in set
        BY DEF AllReversals, Reversals, Receipts
      <4>2. /\ Total(Reversals(set, s)) = SumOver(Amounts, Reversals(set, s))
            /\ SumOver(Amounts, Reversals(set, s)) \in Int
        BY <2>2, <4>1, PartsOfSet
      <4>3. s.amount \in Nat
        BY <2>2, <4>1, LeftIsNumber
      <4>4. s.amount - SumOver(Amounts, Reversals(set, s)) >= 0
        BY <3>1, <4>1 DEF LeftOf
      <4> QED
        BY <4>2, <4>3, <4>4
    <3>3. Sound(set)
      BY <2>1, <2>2, <3>1, <3>2 DEF Sound, Distinct, AllReversals
    <3>4. ASSUME NEW c \in RecoveryCase
          PROVE  left(c) = Total({r \in Receipts(set) : r.case = c})
                           - Total({r \in set : r.kind = "reversal" /\ r.case = c})
      <4> DEFINE part == {r \in Receipts(set) : r.case = c}
                 back == {r \in set : r.kind = "reversal" /\ r.case = c}
                 kept == {r \in settled.receipts : r.row.case = c}
      <4>1. kept = Balances(set, part)
        BY <3>1 DEF Balances, Settled
      <4>2. Reversed(set, part) = back
        BY <3>1 DEF Reversed, Reversals, AllReversals
      <4>3. part \in SUBSET Receipts(set) /\ part \in SUBSET set /\ back \in SUBSET set
        BY DEF Receipts
      <4>4. kept \in SUBSET [row : Row, left : Int]
        BY <1>4 DEF ScanState
      <4> HIDE DEF part, back, kept
      <4>5. /\ IsFiniteSet(kept)
            /\ SumOver(Lefts, kept) = SumOver(Amounts, part) - SumOver(Amounts, back)
        BY <2>2, <4>1, <4>2, <4>3, LeftAddsUp
      <4>6. MapThenSumSet(LAMBDA r : r.left, kept) = SumOver(Lefts, kept)
        BY <4>4, <4>5, LeftIsSum
      <4>7. Total(part) = SumOver(Amounts, part) /\ Total(back) = SumOver(Amounts, back)
        BY <2>2, <4>3, PartsOfSet
      <4> QED
        BY <4>5, <4>6, <4>7 DEF part, back, kept
    <3> HIDE DEF left
    <3> QED
      BY <1>3, <2>6, <3>3, <3>4 DEF Expected, set
  <2> QED
    BY <2>5, <2>6
<1> QED
  BY <1>5, <1>6

(* The ledger stays a sequence of rows.                                     *)
LEMMA LedgerTypes == LedgerTypeOK /\ [LedgerNext]_rows => LedgerTypeOK'
<1> SUFFICES ASSUME LedgerTypeOK, [LedgerNext]_rows PROVE LedgerTypeOK'
  OBVIOUS
<1>1. ASSUME NEW row \in Row, AddRow(row) PROVE LedgerTypeOK'
  <2>1. Append(rows, row) \in Seq(Row) /\ Len(Append(rows, row)) = Len(rows) + 1
        /\ Len(rows) \in Nat
    BY AppendProperties, LenProperties DEF LedgerTypeOK
  <2> QED
    BY <1>1, <2>1, LedgerAssumption DEF AddRow, LedgerTypeOK
<1>2. CASE UNCHANGED rows
  BY <1>2 DEF LedgerTypeOK
<1> QED
  BY <1>1, <1>2 DEF LedgerNext

(* Reading the ledger in two passes says of any rows, in any order and with *)
(* any repetitions, what their set says.                                    *)
THEOREM LedgerReconciled == LedgerSpec => []ReconcilesTheSet
<1>1. LedgerInit => LedgerTypeOK
  BY EmptySeq, LenProperties, LedgerAssumption DEF LedgerInit, LedgerTypeOK
<1>2. LedgerTypeOK => ReconcilesTheSet
  BY ReconcileIsExpected DEF LedgerTypeOK, ReconcilesTheSet
<1> QED
  BY <1>1, <1>2, LedgerTypes, PTL DEF LedgerSpec

----------------------------------------------------------------------------
(* TwinMessaging                                                            *)

(* What a cycle has read or made, and what it is to send.                   *)
Held(c) ==
  CASE c.pc = "idle" -> {}
    [] c.pc = "scan" -> c.loaded \cup c.out
    [] c.pc = "observe" -> c.got \cup c.out
    [] OTHER -> c.out

Outgoing(c) == IF c.pc = "idle" THEN {} ELSE c.out

(* A message anywhere.                                                      *)
Present(m) ==
  \/ \E x \in Twin \cup {Human} : m \in inbox[x]
  \/ \E j \in Job : m \in Held(cycle[j])

Answer(i) == Extend(i, "resp")
Requests == {i \in Id : IsRequest(i)}

(* A cycle has sent a request and is to record it, or is yet to send it.    *)
Recording(c, i) == c.pc = "record" /\ c.id = i
Asking(c, i) == Recording(c, i) \/ \E m \in Outgoing(c) : m.id = i

(* The inductive invariant.  Behind "a pending request is somewhere" stands *)
(* that it has one asker and one record: a scan or a reconciliation that    *)
(* takes a message out has looked at the record of that very request.       *)
TwinTypes ==
  /\ inbox \in [Twin \cup {Human} -> SUBSET Envelope]
  /\ requests \in [Twin -> [Id -> Statuses]]
  /\ cycle \in [Job -> CycleRecord]
  /\ counter \in [Job -> 0..MaxCounter]
  /\ cycles \in 0..MaxCycles
  /\ faults \in 0..MaxFaults
  /\ issued \subseteq Id
  /\ disturbed \subseteq Id

(* Messages are where they were sent, and a scan takes no response out.     *)
CycleAddressed(c) ==
  /\ c.pc = "scan" => /\ \A m \in c.loaded : m.to = c.role
                      /\ c.keep \subseteq c.loaded
                      /\ \A m \in c.loaded \ c.keep : ~IsResponse(m.id)
  /\ c.pc = "observe" => \A m \in c.got : m.to = c.role
  /\ \A m \in Outgoing(c) : IsRequest(m.id) => m.from = c.role

Delivered == \A x \in Twin \cup {Human} : \A m \in inbox[x] : m.to = x

Addressed ==
  /\ Delivered
  /\ \A j \in Job : CycleAddressed(cycle[j])

(* A request goes to the owner of its KPI, and its answer back.             *)
InShape(m) ==
  /\ IsRequest(m.id) => /\ m.id \in issued /\ m.to = OwnerOf[m.id.kpi] /\ m.from # m.to
  /\ \A i \in Requests : m.id = Answer(i) =>
       /\ i \in issued /\ m.from = OwnerOf[i.kpi] /\ m.from # m.to /\ m.to \in Twin

Shaped ==
  /\ \A m \in Envelope : Present(m) => InShape(m)
  /\ \A j \in Job, i \in Requests : Recording(cycle[j], i) => i \in issued
  /\ \A r \in Twin, i \in Requests : requests[r][i] # "none" => i \in issued

(* Whose request it is, by any of its traces.                               *)
AskedBy(i, r) ==
  \/ \E m \in Envelope : Present(m) /\ ((m.id = i /\ m.from = r) \/ (m.id = Answer(i) /\ m.to = r))
  \/ requests[r][i] # "none"
  \/ \E j \in Job : Recording(cycle[j], i) /\ cycle[j].role = r

OneAsker ==
  \A i \in Requests \ disturbed : \A r, s \in Twin : AskedBy(i, r) /\ AskedBy(i, s) => r = s

(* One cycle is to record it, and nobody has.                               *)
Unrecorded ==
  \A i \in Requests \ disturbed, j \in Job : Asking(cycle[j], i) =>
    /\ \A r \in Twin : requests[r][i] = "none"
    /\ \A k \in Job : Asking(cycle[k], i) => k = j
    /\ Recording(cycle[j], i) => \A m \in Outgoing(cycle[j]) : m.id # i

(* A request that a scan has taken out was on record.                       *)
TakenOut ==
  \A j \in Job : cycle[j].pc = "scan" =>
    \A m \in cycle[j].loaded \ cycle[j].keep :
      IsRequest(m.id) /\ m.id \notin disturbed =>
        requests[m.from][m.id] \notin {"none", "pending"}

(* On record as pending, or about to be.                                    *)
Awaited(i) ==
  \/ \E r \in Twin : requests[r][i] = "pending"
  \/ \E j \in Job : Recording(cycle[j], i)

NoneLost == \A i \in Requests \ disturbed : Awaited(i) => Somewhere(i)

TwinInv ==
  /\ TwinTypes
  /\ Addressed
  /\ Shaped
  /\ OneAsker
  /\ Unrecorded
  /\ TakenOut
  /\ NoneLost

Words == {"esc", "resp"}

LEMMA ChainIsSeq ==
  ASSUME NEW s
  PROVE  s \in SeqOf(Words, MaxChain) <=> s \in Seq(Words) /\ Len(s) <= MaxChain
<1>1. MaxChain \in Nat
  BY TwinAssumption
<1>2. ASSUME s \in SeqOf(Words, MaxChain) PROVE s \in Seq(Words) /\ Len(s) <= MaxChain
  <2>1. PICK n \in 0..MaxChain : s \in [1..n -> Words]
    BY <1>2 DEF SeqOf
  <2>2. n \in Nat
    BY <1>1, <2>1
  <2>3. s \in Seq(Words)
    BY <2>1, <2>2
  <2>4. Len(s) = n
    BY <2>1, <2>2, <2>3
  <2> QED
    BY <1>1, <2>1, <2>3, <2>4
<1>3. ASSUME s \in Seq(Words), Len(s) <= MaxChain PROVE s \in SeqOf(Words, MaxChain)
  <2>1. Len(s) \in 0..MaxChain /\ s \in [1..Len(s) -> Words]
    BY <1>1, <1>3
  <2> QED
    BY <2>1 DEF SeqOf
<1> QED
  BY <1>2, <1>3

LEMMA IdIs ==
  ASSUME NEW i
  PROVE  i \in Id <=>
           /\ i = [kpi |-> i.kpi, n |-> i.n, chain |-> i.chain]
           /\ i.kpi \in Kpi /\ i.n \in 1..MaxCounter
           /\ i.chain \in Seq(Words) /\ Len(i.chain) <= MaxChain
BY ChainIsSeq DEF Id, Words

(* An id made from another one: what it is, and where it comes from.        *)
LEMMA ExtendId ==
  ASSUME NEW i \in Id, NEW w \in Words
  PROVE  /\ ~IsRequest(Extend(i, w))
         /\ Parent(Extend(i, w)) = i
         /\ IsResponse(Extend(i, w)) <=> w = "resp"
         /\ Len(i.chain) < MaxChain => Extend(i, w) \in Id
<1> DEFINE c == i.chain
           d == Append(c, w)
           e == [kpi |-> i.kpi, n |-> i.n, chain |-> d]
<1>1. i = [kpi |-> i.kpi, n |-> i.n, chain |-> c] /\ c \in Seq(Words) /\ Len(c) \in Nat
  BY IdIs
<1>2. Extend(i, w) = e
  <2> HIDE DEF d
  <2>1. i \in [kpi : Kpi, n : 1..MaxCounter, chain : SeqOf({"esc", "resp"}, MaxChain)]
    BY DEF Id
  <2>2. Extend(i, w) = [i EXCEPT !.chain = d]
    BY DEF Extend, d
  <2> QED
    BY <2>1, <2>2
<1>3. d \in Seq(Words) /\ Len(d) = Len(c) + 1 /\ d[Len(d)] = w /\ d # <<>>
  BY <1>1
<1>4. SubSeq(d, 1, Len(d) - 1) = c
  BY <1>1, <1>3
<1>5. Parent(e) = i
  <2> HIDE DEF d
  <2>1. Front(e.chain) = c
    BY <1>4 DEF Front
  <2>2. Parent(e) = [e EXCEPT !.chain = c]
    BY <2>1 DEF Parent
  <2> QED
    BY <1>1, <2>2
<1>6. IsResponse(e) <=> w = "resp"
  BY <1>3 DEF IsResponse, Last
<1>7. ~IsRequest(e)
  BY <1>3 DEF IsRequest
<1>8. Len(c) < MaxChain => e \in Id
  <2>1. MaxChain \in Nat /\ i.kpi \in Kpi /\ i.n \in 1..MaxCounter
    BY TwinAssumption, IdIs
  <2>2. e.kpi = i.kpi /\ e.n = i.n /\ e.chain = d
    OBVIOUS
  <2> QED
    BY <1>1, <1>3, <2>1, <2>2, IdIs
<1> QED
  BY <1>1, <1>2, <1>5, <1>6, <1>7, <1>8

LEMMA ParentId ==
  ASSUME NEW i \in Id, i.chain # <<>>
  PROVE  /\ Parent(i) \in Id
         /\ IsResponse(i) => Extend(Parent(i), "resp") = i
<1> DEFINE c == i.chain
           d == SubSeq(c, 1, Len(c) - 1)
           p == [kpi |-> i.kpi, n |-> i.n, chain |-> d]
<1>1. i = [kpi |-> i.kpi, n |-> i.n, chain |-> c] /\ c \in Seq(Words) /\ Len(c) \in Nat
      /\ Len(c) <= MaxChain /\ i.kpi \in Kpi /\ i.n \in 1..MaxCounter
  BY IdIs
<1>2. Parent(i) = p
  <2> HIDE DEF d
  <2>1. i \in [kpi : Kpi, n : 1..MaxCounter, chain : SeqOf({"esc", "resp"}, MaxChain)]
    BY DEF Id
  <2>2. Parent(i) = [i EXCEPT !.chain = d]
    BY DEF Parent, Front, d
  <2> QED
    BY <2>1, <2>2
<1>3. Len(c) > 0 /\ d \in Seq(Words) /\ Len(d) = Len(c) - 1
  <2>1. Len(c) \in Nat \ {0}
    BY <1>1, EmptySeq
  <2>2. \A k \in 1..(Len(c) - 1) : c[k] \in Words
    BY <1>1, <2>1
  <2> QED
    BY <2>1, <2>2, SubSeqProperties
<1>4. p.kpi = i.kpi /\ p.n = i.n /\ p.chain = d
  OBVIOUS
<1>5. p \in Id
  <2>1. MaxChain \in Nat
    BY TwinAssumption
  <2> QED
    BY <1>1, <1>3, <1>4, <2>1, IdIs
<1>6. Append(d, c[Len(c)]) = c
  BY <1>1, <1>3
<1>7. IsResponse(i) => Extend(p, "resp") = i
  <2> HIDE DEF d
  <2>1. SUFFICES ASSUME c[Len(c)] = "resp" PROVE Extend(p, "resp") = i
    BY DEF IsResponse, Last
  <2>2. Extend(p, "resp") = [p EXCEPT !.chain = c]
    BY <1>4, <1>6, <2>1 DEF Extend
  <2> QED
    BY <1>1, <2>2
<1> QED
  BY <1>2, <1>5, <1>7

(* The answer to a request, among all ids.                                  *)
LEMMA AnswerId ==
  ASSUME NEW i \in Requests
  PROVE  /\ i \in Id
         /\ IsResponse(Answer(i)) /\ ~IsRequest(Answer(i)) /\ ~IsResponse(i)
         /\ Answer(i).chain # <<>>
         /\ Parent(Answer(i)) = i
         /\ Answer(i) # i
         /\ \A x \in Id : /\ Extend(x, "esc") # Answer(i)
                          /\ Extend(x, "esc") # i /\ Extend(x, "resp") # i
                          /\ Extend(x, "resp") = Answer(i) => x = i
                          /\ IsResponse(x) /\ Parent(x) = i => x = Answer(i)
<1>1. i \in Id /\ IsRequest(i) /\ "resp" \in Words /\ "esc" \in Words
  BY DEF Requests, Words
<1>2. IsResponse(Answer(i)) /\ ~IsRequest(Answer(i)) /\ Parent(Answer(i)) = i
  BY <1>1, ExtendId DEF Answer
<1>3. ~IsResponse(i) /\ Answer(i) # i /\ Answer(i).chain # <<>>
  BY <1>1, <1>2 DEF IsResponse, IsRequest
<1>4. ASSUME NEW x \in Id
      PROVE  /\ Extend(x, "esc") # Answer(i)
             /\ Extend(x, "esc") # i /\ Extend(x, "resp") # i
             /\ Extend(x, "resp") = Answer(i) => x = i
             /\ IsResponse(x) /\ Parent(x) = i => x = Answer(i)
  <2>1. ~IsRequest(Extend(x, "esc")) /\ ~IsRequest(Extend(x, "resp"))
        /\ Parent(Extend(x, "resp")) = x /\ ~IsResponse(Extend(x, "esc"))
    BY <1>1, ExtendId
  <2>2. IsResponse(x) => x.chain # <<>>
    BY DEF IsResponse
  <2>3. IsResponse(x) => Extend(Parent(x), "resp") = x
    BY <2>2, ParentId
  <2> QED
    BY <1>1, <1>2, <2>1, <2>3 DEF Answer
<1> QED
  BY <1>1, <1>2, <1>3, <1>4

LEMMA TracesAreIds == \A m \in Envelope : Traces(m) \subseteq Id
<1>1. ASSUME NEW m \in Envelope PROVE Traces(m) \subseteq Id
  <2>1. m.id \in Id
    BY DEF Envelope
  <2> QED
    BY <2>1, ParentId DEF Traces
<1> QED
  BY <1>1

LEMMA InTraces ==
  ASSUME NEW m
  PROVE  m.id \in Traces(m) /\ (m.id.chain # <<>> => Parent(m.id) \in Traces(m))
BY DEF Traces

(* What a cycle is, by its control point.                                   *)
LEMMA CycleShape ==
  ASSUME NEW c \in CycleRecord
  PROVE  /\ c.pc \in {"idle", "scan", "consume", "observe", "act", "record"}
         /\ c.pc = "idle" => c = Resting
         /\ c.pc # "idle" => c.role \in Twin /\ c.out \subseteq Envelope
         /\ c.pc = "scan" => /\ c.loaded \subseteq Envelope /\ c.keep \subseteq Envelope
                             /\ c = [pc |-> "scan", role |-> c.role, loaded |-> c.loaded,
                                    keep |-> c.keep, out |-> c.out]
         /\ c.pc = "observe" => /\ c.got \subseteq Envelope
                                /\ c = [pc |-> "observe", role |-> c.role, got |-> c.got,
                                       out |-> c.out]
         /\ c.pc = "record" => c.id \in Id
         /\ c.pc = "act" => c = [pc |-> "act", role |-> c.role, out |-> c.out]
<1>1. CASE c = Resting
  BY <1>1 DEF Resting
<1>2. CASE c \in [pc : {"scan"}, role : Twin, loaded : SUBSET Envelope,
                  keep : SUBSET Envelope, out : SUBSET Envelope]
  BY <1>2
<1>3. CASE c \in [pc : {"consume", "act"}, role : Twin, out : SUBSET Envelope]
  BY <1>3
<1>4. CASE c \in [pc : {"observe"}, role : Twin, got : SUBSET Envelope, out : SUBSET Envelope]
  BY <1>4
<1>5. CASE c \in [pc : {"record"}, role : Twin, id : Id, out : SUBSET Envelope]
  BY <1>5
<1> QED
  BY <1>1, <1>2, <1>3, <1>4, <1>5 DEF CycleRecord

LEMMA CycleMade ==
  ASSUME NEW r \in Twin, NEW S \in SUBSET Envelope, NEW T \in SUBSET Envelope,
         NEW U \in SUBSET Envelope
  PROVE  /\ Resting \in CycleRecord
         /\ [pc |-> "scan", role |-> r, loaded |-> S, keep |-> T, out |-> U] \in CycleRecord
         /\ [pc |-> "consume", role |-> r, out |-> U] \in CycleRecord
         /\ [pc |-> "observe", role |-> r, got |-> S, out |-> U] \in CycleRecord
         /\ [pc |-> "act", role |-> r, out |-> U] \in CycleRecord
         /\ \A i \in Id : [pc |-> "record", role |-> r, id |-> i, out |-> U] \in CycleRecord
BY DEF CycleRecord

LEMMA RestingHolds ==
  /\ Resting \in CycleRecord /\ Resting.pc = "idle"
  /\ Held(Resting) = {} /\ Outgoing(Resting) = {} /\ InHand(Resting) = {}
BY DEF CycleRecord, Resting, Held, Outgoing, InHand

(* What a cycle holds, by its control point.                                *)
LEMMA HoldingIs ==
  ASSUME NEW c \in CycleRecord
  PROVE  /\ c.pc = "idle" => Held(c) = {} /\ Outgoing(c) = {} /\ InHand(c) = {}
         /\ c.pc # "idle" => Outgoing(c) = c.out
         /\ c.pc = "scan" => Held(c) = c.loaded \cup c.out /\ InHand(c) = c.out
         /\ c.pc = "observe" => Held(c) = c.got \cup c.out /\ InHand(c) = c.got \cup c.out
         /\ c.pc \in {"consume", "act", "record"} => Held(c) = c.out /\ InHand(c) = c.out
         /\ Held(c) \subseteq Envelope
         /\ Outgoing(c) \subseteq Held(c)
         /\ Outgoing(c) \subseteq InHand(c)
         /\ InHand(c) \subseteq Held(c)
<1>1. c.pc \in {"idle", "scan", "consume", "observe", "act", "record"}
      /\ (c.pc # "idle" => c.out \subseteq Envelope)
      /\ (c.pc = "scan" => c.loaded \subseteq Envelope)
      /\ (c.pc = "observe" => c.got \subseteq Envelope)
  BY CycleShape
<1> QED
  BY <1>1 DEF Held, Outgoing, InHand
(* A message that is neither a request nor the answer to one.               *)
Plain(m) == ~IsRequest(m.id) /\ \A i \in Requests : m.id # Answer(i)

(* A step that asks nothing, answers nothing and records nothing new.       *)
LEMMA Quiet ==
  ASSUME Shaped, OneAsker, Unrecorded,
         issued \subseteq issued', disturbed \subseteq disturbed',
         \A m \in Envelope : Present(m)' => Present(m) \/ Plain(m),
         \A k \in Job, i \in Requests :
           /\ Recording(cycle[k]', i) => Recording(cycle[k], i) /\ cycle[k]'.role = cycle[k].role
           /\ \A m \in Outgoing(cycle[k]') : m.id = i => m \in Outgoing(cycle[k]),
         \A r \in Twin, i \in Requests : requests[r][i]' = "none" <=> requests[r][i] = "none"
  PROVE  Shaped' /\ OneAsker' /\ Unrecorded'
<1>1. Shaped'
  <2>1. ASSUME NEW m \in Envelope, Present(m)' PROVE InShape(m)'
    <3>1. CASE Present(m)
      BY <3>1 DEF Shaped, InShape
    <3>2. CASE Plain(m)
      BY <3>2 DEF Plain, InShape
    <3> QED
      BY <2>1, <3>1, <3>2
  <2> QED
    BY <2>1 DEF Shaped
<1>2. ASSUME NEW i \in Requests, NEW r \in Twin, AskedBy(i, r)' PROVE AskedBy(i, r)
  <2>1. IsRequest(i)
    BY DEF Requests
  <2> QED
    BY <1>2, <2>1 DEF AskedBy, Plain
<1>3. OneAsker'
  BY <1>2 DEF OneAsker
<1>4. ASSUME NEW i \in Requests, NEW k \in Job, Asking(cycle[k], i)'
      PROVE  Asking(cycle[k], i)
  BY <1>4 DEF Asking
<1>5. Unrecorded'
  BY <1>4 DEF Unrecorded
<1> QED
  BY <1>1, <1>3, <1>5

(* What each action does to the invariant.                                  *)
LEMMA BeginKeeps ==
  ASSUME TwinInv, NEW j \in Job, NEW r \in Twin, BeginCycle(j, r)
  PROVE  TwinInv'
<1> DEFINE c == [pc |-> "scan", role |-> r, loaded |-> inbox[r], keep |-> inbox[r], out |-> {}]
<1>1. /\ cycle[j] = Resting /\ cycle \in [Job -> CycleRecord]
      /\ inbox \in [Twin \cup {Human} -> SUBSET Envelope]
      /\ cycle' = [cycle EXCEPT ![j] = c]
      /\ inbox' = inbox /\ requests' = requests /\ disturbed' = disturbed /\ issued' = issued
  BY DEF BeginCycle, TwinInv, TwinTypes
<1>2. c \in CycleRecord
  BY <1>1, CycleMade
<1>3. TwinTypes'
  BY <1>1, <1>2, TwinAssumption DEF BeginCycle, TwinInv, TwinTypes
<1>4. /\ cycle'[j] = c
      /\ \A k \in Job \ {j} : cycle'[k] = cycle[k]
      /\ Held(c) = inbox[r] /\ Outgoing(c) = {} /\ InHand(c) = {}
      /\ Held(Resting) = {} /\ Outgoing(Resting) = {} /\ InHand(Resting) = {}
  <2>1. c.pc = "scan" /\ c.loaded = inbox[r] /\ c.out = {}
    OBVIOUS
  <2> HIDE DEF c
  <2> QED
    BY <1>1, <1>2, <2>1, HoldingIs, RestingHolds
<1>5. Addressed'
  BY <1>1, <1>4 DEF Addressed, Delivered, CycleAddressed, TwinInv
<1>6. Shaped' /\ OneAsker' /\ Unrecorded'
  <2>1. \A m \in Envelope : Present(m)' => Present(m) \/ Plain(m)
    BY <1>1, <1>4 DEF Present
  <2>2. \A k \in Job, i \in Requests :
           /\ Recording(cycle[k]', i) => Recording(cycle[k], i) /\ cycle[k]'.role = cycle[k].role
           /\ \A m \in Outgoing(cycle[k]') : m.id = i => m \in Outgoing(cycle[k])
    BY <1>1, <1>4 DEF Recording
  <2> QED
    BY <1>1, <2>1, <2>2, Quiet DEF TwinInv
<1>7. TakenOut'
  BY <1>1, <1>4 DEF TakenOut, TwinInv
<1>8. NoneLost'
  <2>1. ASSUME NEW i \in Requests PROVE Awaited(i)' => Awaited(i)
    BY <1>1, <1>4 DEF Awaited, Recording
  <2>2. ASSUME NEW i \in Requests PROVE Somewhere(i) => Somewhere(i)'
    BY <1>1, <1>4 DEF Somewhere
  <2> QED
    BY <1>1, <2>1, <2>2 DEF NoneLost, TwinInv
<1> QED
  BY <1>3, <1>5, <1>6, <1>7, <1>8 DEF TwinInv

LEMMA ExpireKeeps ==
  ASSUME TwinInv, NEW j \in Job, cycle[j].pc = "scan", NEW m \in cycle[j].keep,
         ExpireMessage(j, m)
  PROVE  TwinInv'
<1> DEFINE d == cycle[j]
           n == [id |-> Extend(m.id, "esc"), from |-> m.from, to |-> PathOf[m.from]]
           c == [pc |-> "scan", role |-> d.role, loaded |-> d.loaded,
                 keep |-> d.keep \ {m}, out |-> d.out \cup {n}]
<1>1. /\ cycle \in [Job -> CycleRecord] /\ d \in CycleRecord
      /\ requests \in [Twin -> [Id -> Statuses]]
      /\ inbox' = inbox /\ issued' = issued /\ ~IsResponse(m.id)
      /\ counter' = counter /\ cycles' = cycles /\ faults' = faults
      /\ disturbed \subseteq disturbed' /\ disturbed' \subseteq disturbed \cup {m.id}
      /\ requests[m.from][m.id] = "none" => m.id \in disturbed'
  BY DEF ExpireMessage, TwinInv, TwinTypes
<1>2. /\ m \in Envelope /\ m.id \in Id /\ m.from \in Twin /\ PathOf[m.from] \in Twin \cup {Human}
      /\ d.role \in Twin /\ d.loaded \subseteq Envelope /\ d.keep \subseteq Envelope
      /\ d.out \subseteq Envelope
      /\ d = [pc |-> "scan", role |-> d.role, loaded |-> d.loaded, keep |-> d.keep,
              out |-> d.out]
  BY <1>1, CycleShape, TwinAssumption DEF Envelope
<1>3. n \in Envelope /\ Plain(n)
  <2>1. Extend(m.id, "esc") \in Id /\ ~IsRequest(Extend(m.id, "esc"))
    BY <1>2, ExtendId DEF ExpireMessage, Words
  <2> QED
    BY <1>2, <2>1, AnswerId DEF Envelope, Plain
<1> HIDE DEF n
<1>4. cycle' = [cycle EXCEPT ![j] = c]
  <2>1. cycle' = [cycle EXCEPT ![j] = [d EXCEPT !.keep = @ \ {m}, !.out = @ \cup {n}]]
    BY <1>1 DEF ExpireMessage, n
  <2>2. [d EXCEPT !.keep = @ \ {m}, !.out = @ \cup {n}] = c
    <3> DEFINE a == d.keep \ {m}
               b == d.out \cup {n}
               e == [d EXCEPT !.keep = a]
    <3>1. d = [pc |-> "scan", role |-> d.role, loaded |-> d.loaded, keep |-> d.keep,
               out |-> d.out]
      BY <1>2
    <3> HIDE DEF d, a, b
    <3>2. e = [pc |-> "scan", role |-> d.role, loaded |-> d.loaded, keep |-> a, out |-> d.out]
      BY <3>1
    <3>3. [d EXCEPT !.keep = a, !.out = b] = [e EXCEPT !.out = b]
      BY <3>1
    <3> HIDE DEF e
    <3>4. [e EXCEPT !.out = b]
            = [pc |-> "scan", role |-> d.role, loaded |-> d.loaded, keep |-> a, out |-> b]
      BY <3>2
    <3> QED
      BY <3>3, <3>4 DEF a, b, d
  <2> QED
    BY <2>1, <2>2
<1>5. c \in CycleRecord
  <2>1. d.keep \ {m} \in SUBSET Envelope /\ d.out \cup {n} \in SUBSET Envelope
    BY <1>2, <1>3
  <2> QED
    BY <1>2, <2>1, CycleMade
<1>6. /\ requests' \in [Twin -> [Id -> Statuses]]
      /\ \A r \in Twin, i \in Id : /\ requests'[r][i] = "none" <=> requests[r][i] = "none"
                                   /\ requests'[r][i] = "pending" => requests[r][i] = "pending"
      /\ requests[m.from][m.id] # "none" => requests'[m.from][m.id] = "expired"
      /\ \A r \in Twin, i \in Id : requests[r][i] \notin {"none", "pending"} =>
                                     requests'[r][i] \notin {"none", "pending"}
  <2>1. CASE requests[m.from][m.id] = "none"
    BY <1>1, <2>1 DEF ExpireMessage
  <2>2. CASE requests[m.from][m.id] # "none"
    <3>1. requests' = [requests EXCEPT ![m.from][m.id] = "expired"]
      BY <2>2 DEF ExpireMessage
    <3>2. "expired" \in Statuses
      BY DEF Statuses
    <3> QED
      BY <1>1, <1>2, <2>2, <3>1, <3>2
  <2> QED
    BY <2>1, <2>2
<1>7. TwinTypes'
  BY <1>1, <1>2, <1>4, <1>5, <1>6 DEF TwinInv, TwinTypes
<1>8. /\ cycle'[j] = c
      /\ \A k \in Job \ {j} : cycle'[k] = cycle[k]
      /\ Held(c) = d.loaded \cup d.out \cup {n} /\ Outgoing(c) = d.out \cup {n}
      /\ InHand(c) = d.out \cup {n}
      /\ Held(d) = d.loaded \cup d.out /\ Outgoing(d) = d.out /\ InHand(d) = d.out
  <2>1. c.pc = "scan" /\ c.loaded = d.loaded /\ c.out = d.out \cup {n}
    OBVIOUS
  <2> HIDE DEF c
  <2> QED
    BY <1>1, <1>4, <1>5, <2>1, HoldingIs
<1>9. c.pc = "scan" /\ c.role = d.role /\ c.loaded = d.loaded /\ c.keep = d.keep \ {m}
  OBVIOUS
<1> HIDE DEF c
<1>10. Addressed'
  <2>1. ~IsRequest(n.id)
    BY <1>3 DEF Plain
  <2>2. ASSUME NEW k \in Job PROVE CycleAddressed(cycle'[k])
    <3>1. CASE k = j
      BY <1>1, <1>2, <1>8, <1>9, <2>1, <3>1 DEF Addressed, CycleAddressed, TwinInv
    <3>2. CASE k # j
      BY <1>8, <3>2 DEF Addressed, TwinInv
    <3> QED
      BY <3>1, <3>2
  <2>3. Delivered'
    BY <1>1 DEF Addressed, Delivered, TwinInv
  <2> QED
    BY <2>2, <2>3 DEF Addressed
<1>11. Shaped' /\ OneAsker' /\ Unrecorded'
  <2>1. \A x \in Envelope : Present(x)' => Present(x) \/ Plain(x)
    BY <1>1, <1>3, <1>8 DEF Present
  <2>2. \A k \in Job, i \in Requests :
           /\ Recording(cycle[k]', i) => Recording(cycle[k], i) /\ cycle[k]'.role = cycle[k].role
           /\ \A x \in Outgoing(cycle[k]') : x.id = i => x \in Outgoing(cycle[k])
    BY <1>1, <1>3, <1>8, <1>9 DEF Recording, Plain, Requests
  <2>3. \A r \in Twin, i \in Requests : requests[r][i]' = "none" <=> requests[r][i] = "none"
    BY <1>6 DEF Requests
  <2> QED
    BY <1>1, <2>1, <2>2, <2>3, Quiet DEF TwinInv
<1>12. TakenOut'
  <2>1. ASSUME NEW k \in Job, cycle'[k].pc = "scan", NEW x \in cycle'[k].loaded \ cycle'[k].keep,
               IsRequest(x.id), x.id \notin disturbed'
        PROVE  requests'[x.from][x.id] \notin {"none", "pending"}
    <3>1. x \in Envelope
      <4>1. cycle'[k] \in CycleRecord
        BY <1>7 DEF TwinTypes
      <4> QED
        BY <2>1, <4>1, CycleShape
    <3>2. x.id \in Id /\ x.from \in Twin
      BY <3>1 DEF Envelope
    <3>3. CASE k = j /\ x = m
      BY <1>1, <1>6, <2>1, <3>3
    <3>4. CASE ~(k = j /\ x = m)
      <4>1. cycle[k].pc = "scan" /\ x \in cycle[k].loaded \ cycle[k].keep
        BY <1>8, <1>9, <2>1, <3>4
      <4>2. requests[x.from][x.id] \notin {"none", "pending"}
        BY <1>1, <2>1, <4>1 DEF TwinInv, TakenOut
      <4> QED
        BY <1>6, <3>2, <4>2
    <3> QED
      BY <3>3, <3>4
  <2> QED
    BY <2>1 DEF TakenOut
<1>13. NoneLost'
  <2>1. ASSUME NEW i \in Requests PROVE Awaited(i)' => Awaited(i)
    <3>1. \A k \in Job : Recording(cycle'[k], i) => Recording(cycle[k], i)
      BY <1>8, <1>9 DEF Recording
    <3> QED
      BY <1>6, <3>1 DEF Awaited, Requests
  <2>2. ASSUME NEW i \in Requests PROVE Somewhere(i) => Somewhere(i)'
    BY <1>1, <1>8 DEF Somewhere
  <2> QED
    BY <1>1, <2>1, <2>2 DEF NoneLost, TwinInv
<1> QED
  BY <1>7, <1>10, <1>11, <1>12, <1>13 DEF TwinInv

LEMMA SaveKeeps ==
  ASSUME TwinInv, NEW j \in Job, SaveScanned(j)
  PROVE  TwinInv'
<1> DEFINE d == cycle[j]
           c == [pc |-> "consume", role |-> d.role, out |-> d.out]
<1>1. /\ cycle \in [Job -> CycleRecord] /\ d \in CycleRecord /\ d.pc = "scan"
      /\ inbox \in [Twin \cup {Human} -> SUBSET Envelope]
      /\ cycle' = [cycle EXCEPT ![j] = c]
      /\ inbox' = [inbox EXCEPT ![d.role] = d.keep]
      /\ requests' = requests /\ issued' = issued
      /\ counter' = counter /\ cycles' = cycles /\ faults' = faults
      /\ disturbed' = disturbed \cup UNION {Traces(x) : x \in inbox[d.role] \ d.loaded}
  BY DEF SaveScanned, TwinInv, TwinTypes
<1>2. /\ d.role \in Twin /\ d.loaded \subseteq Envelope /\ d.keep \subseteq Envelope
      /\ d.out \subseteq Envelope /\ d.keep \subseteq d.loaded
  BY <1>1, CycleShape DEF TwinInv, Addressed, CycleAddressed
<1>3. c \in CycleRecord
  BY <1>2, CycleMade
<1>4. /\ disturbed \subseteq disturbed'
      /\ \A x \in inbox[d.role] \ d.loaded :
           x.id \in disturbed' /\ (x.id.chain # <<>> => Parent(x.id) \in disturbed')
  <2>1. \A x \in inbox[d.role] \ d.loaded : Traces(x) \subseteq disturbed'
    BY <1>1
  <2> QED
    BY <1>1, <2>1, InTraces
<1>5. disturbed' \subseteq Id
  <2>1. inbox[d.role] \ d.loaded \subseteq Envelope
    BY <1>1, <1>2
  <2>2. UNION {Traces(x) : x \in inbox[d.role] \ d.loaded} \subseteq Id
    BY <2>1, TracesAreIds
  <2>3. disturbed \subseteq Id
    BY DEF TwinInv, TwinTypes
  <2> QED
    BY <1>1, <2>2, <2>3
<1>6. inbox' \in [Twin \cup {Human} -> SUBSET Envelope]
  BY <1>1, <1>2
<1>7. TwinTypes'
  BY <1>1, <1>3, <1>5, <1>6 DEF TwinInv, TwinTypes
<1>8. /\ cycle'[j] = c
      /\ \A k \in Job \ {j} : cycle'[k] = cycle[k]
      /\ Held(c) = d.out /\ Outgoing(c) = d.out /\ InHand(c) = d.out
      /\ Held(d) = d.loaded \cup d.out /\ Outgoing(d) = d.out /\ InHand(d) = d.out
      /\ c.pc = "consume" /\ c.role = d.role
  <2>1. c.pc = "consume" /\ c.out = d.out /\ c.role = d.role
    OBVIOUS
  <2> HIDE DEF c
  <2> QED
    BY <1>1, <1>3, <2>1, HoldingIs
<1> HIDE DEF c
<1>9. /\ inbox'[d.role] = d.keep
      /\ \A x \in Twin \cup {Human} : x # d.role => inbox'[x] = inbox[x]
  BY <1>1, <1>2
<1>10. Addressed'
  <2>1. Delivered'
    BY <1>1, <1>2, <1>9 DEF Addressed, Delivered, CycleAddressed, TwinInv
  <2>2. ASSUME NEW k \in Job PROVE CycleAddressed(cycle'[k])
    <3>1. CASE k = j
      BY <1>8, <3>1 DEF Addressed, CycleAddressed, TwinInv
    <3>2. CASE k # j
      BY <1>8, <3>2 DEF Addressed, TwinInv
    <3> QED
      BY <3>1, <3>2
  <2> QED
    BY <2>1, <2>2 DEF Addressed
<1>11. Shaped' /\ OneAsker' /\ Unrecorded'
  <2>1. \A x \in Envelope : Present(x)' => Present(x) \/ Plain(x)
    BY <1>1, <1>2, <1>8, <1>9 DEF Present
  <2>2. \A k \in Job, i \in Requests :
           /\ Recording(cycle[k]', i) => Recording(cycle[k], i) /\ cycle[k]'.role = cycle[k].role
           /\ \A x \in Outgoing(cycle[k]') : x.id = i => x \in Outgoing(cycle[k])
    BY <1>1, <1>8 DEF Recording
  <2> QED
    BY <1>1, <1>4, <2>1, <2>2, Quiet DEF TwinInv
<1>12. TakenOut'
  BY <1>1, <1>4, <1>8 DEF TakenOut, TwinInv
<1>13. NoneLost'
  <2>1. ASSUME NEW i \in Requests \ disturbed', Awaited(i)' PROVE Somewhere(i)'
    <3>1. Awaited(i)
      <4>1. \A k \in Job : Recording(cycle'[k], i) => Recording(cycle[k], i)
        BY <1>8 DEF Recording
      <4> QED
        BY <1>1, <2>1, <4>1 DEF Awaited
    <3>2. Somewhere(i) /\ i \notin disturbed
      BY <1>4, <2>1, <3>1 DEF TwinInv, NoneLost
    <3>3. CASE \E k \in Job : \E x \in InHand(cycle[k]) : x.id \in {i, Extend(i, "resp")}
      <4>1. \A k \in Job : InHand(cycle'[k]) = InHand(cycle[k])
        BY <1>8
      <4> QED
        BY <3>3, <4>1 DEF Somewhere
    <3>4. CASE \E r \in Twin : r # d.role /\ \E x \in inbox[r] : x.id \in {i, Extend(i, "resp")}
      BY <1>9, <3>4 DEF Somewhere
    <3>5. ASSUME NEW m \in inbox[d.role], m.id \in {i, Answer(i)} PROVE m \in d.keep
      <4>1. m \in d.loaded
        <5>1. SUFFICES ASSUME m \notin d.loaded PROVE FALSE
          OBVIOUS
        <5>2. m.id \in disturbed' /\ (m.id.chain # <<>> => Parent(m.id) \in disturbed')
          BY <1>4, <5>1
        <5>3. Parent(Answer(i)) = i /\ Answer(i).chain # <<>>
          BY AnswerId
        <5> QED
          BY <2>1, <3>5, <5>2, <5>3
      <4>2. SUFFICES ASSUME m \notin d.keep PROVE FALSE
        OBVIOUS
      <4>3. m.id = i
        <5>1. ~IsResponse(m.id)
          BY <1>1, <4>1, <4>2 DEF TwinInv, Addressed, CycleAddressed
        <5> QED
          BY <3>5, <5>1, AnswerId
      <4>4. m \in Envelope /\ m.from \in Twin /\ Present(m)
        BY <1>1, <1>2 DEF Envelope, Present
      <4>5. requests[m.from][i] \notin {"none", "pending"}
        BY <1>1, <3>2, <4>1, <4>2, <4>3 DEF TwinInv, TakenOut, Requests
      <4>6. CASE \E r \in Twin : requests[r][i] = "pending"
        <5>1. PICK r \in Twin : requests[r][i] = "pending"
          BY <4>6
        <5>2. AskedBy(i, r) /\ AskedBy(i, m.from)
          BY <4>3, <4>4, <5>1 DEF AskedBy
        <5> QED
          BY <3>2, <4>4, <4>5, <5>1, <5>2 DEF TwinInv, OneAsker
      <4>7. CASE \E k \in Job : Recording(cycle[k], i)
        BY <3>2, <4>4, <4>5, <4>7 DEF TwinInv, Unrecorded, Asking
      <4> QED
        BY <3>1, <4>6, <4>7 DEF Awaited
    <3>6. CASE \E x \in inbox[d.role] : x.id \in {i, Extend(i, "resp")}
      <4>1. \E x \in inbox'[d.role] : x.id \in {i, Extend(i, "resp")}
        BY <1>9, <3>5, <3>6 DEF Answer
      <4> QED
        BY <1>2, <4>1 DEF Somewhere
    <3> QED
      BY <3>2, <3>3, <3>4, <3>6 DEF Somewhere
  <2> QED
    BY <2>1 DEF NoneLost
<1> QED
  BY <1>7, <1>10, <1>11, <1>12, <1>13 DEF TwinInv

LEMMA ConsumeKeeps ==
  ASSUME TwinInv, NEW j \in Job, Consume(j)
  PROVE  TwinInv'
<1> DEFINE d == cycle[j]
           c == [pc |-> "observe", role |-> d.role, got |-> inbox[d.role], out |-> d.out]
<1>1. /\ cycle \in [Job -> CycleRecord] /\ d \in CycleRecord /\ d.pc = "consume"
      /\ inbox \in [Twin \cup {Human} -> SUBSET Envelope]
      /\ cycle' = [cycle EXCEPT ![j] = c]
      /\ inbox' = [inbox EXCEPT ![d.role] = {}]
      /\ requests' = requests /\ issued' = issued /\ disturbed' = disturbed
      /\ counter' = counter /\ cycles' = cycles /\ faults' = faults
  BY DEF Consume, TwinInv, TwinTypes
<1>2. d.role \in Twin /\ d.out \subseteq Envelope /\ inbox[d.role] \subseteq Envelope
  BY <1>1, CycleShape
<1>3. c \in CycleRecord
  BY <1>2, CycleMade
<1>4. inbox' \in [Twin \cup {Human} -> SUBSET Envelope]
  BY <1>1, <1>2
<1>5. TwinTypes'
  BY <1>1, <1>3, <1>4 DEF TwinInv, TwinTypes
<1>6. /\ cycle'[j] = c
      /\ \A k \in Job \ {j} : cycle'[k] = cycle[k]
      /\ Held(c) = inbox[d.role] \cup d.out /\ Outgoing(c) = d.out
      /\ InHand(c) = inbox[d.role] \cup d.out
      /\ Held(d) = d.out /\ Outgoing(d) = d.out /\ InHand(d) = d.out
      /\ c.pc = "observe" /\ c.role = d.role /\ c.got = inbox[d.role]
  <2>1. c.pc = "observe" /\ c.out = d.out /\ c.got = inbox[d.role] /\ c.role = d.role
    OBVIOUS
  <2> HIDE DEF c
  <2> QED
    BY <1>1, <1>3, <2>1, HoldingIs
<1> HIDE DEF c
<1>7. /\ inbox'[d.role] = {}
      /\ \A x \in Twin \cup {Human} : x # d.role => inbox'[x] = inbox[x]
  BY <1>1, <1>2
<1>8. Addressed'
  <2>1. Delivered'
    BY <1>2, <1>7 DEF Addressed, Delivered, TwinInv
  <2>2. ASSUME NEW k \in Job PROVE CycleAddressed(cycle'[k])
    <3>1. CASE k = j
      <4>1. \A x \in d.out : IsRequest(x.id) => x.from = d.role
        BY <1>6 DEF Addressed, CycleAddressed, TwinInv
      <4>2. \A x \in inbox[d.role] : x.to = d.role
        BY <1>2 DEF Addressed, Delivered, TwinInv
      <4> QED
        BY <1>6, <3>1, <4>1, <4>2 DEF CycleAddressed
    <3>2. CASE k # j
      BY <1>6, <3>2 DEF Addressed, TwinInv
    <3> QED
      BY <3>1, <3>2
  <2> QED
    BY <2>1, <2>2 DEF Addressed
<1>9. Shaped' /\ OneAsker' /\ Unrecorded'
  <2>1. \A x \in Envelope : Present(x)' => Present(x) \/ Plain(x)
    BY <1>2, <1>6, <1>7 DEF Present
  <2>2. \A k \in Job, i \in Requests :
           /\ Recording(cycle[k]', i) => Recording(cycle[k], i) /\ cycle[k]'.role = cycle[k].role
           /\ \A x \in Outgoing(cycle[k]') : x.id = i => x \in Outgoing(cycle[k])
    BY <1>6 DEF Recording
  <2> QED
    BY <1>1, <2>1, <2>2, Quiet DEF TwinInv
<1>10. TakenOut'
  BY <1>1, <1>6 DEF TakenOut, TwinInv
<1>11. NoneLost'
  <2>1. ASSUME NEW i \in Requests PROVE Awaited(i)' => Awaited(i)
    BY <1>1, <1>6 DEF Awaited, Recording
  <2>2. ASSUME NEW i \in Requests, Somewhere(i) PROVE Somewhere(i)'
    <3>1. CASE \E r \in Twin : \E x \in inbox[r] : x.id \in {i, Extend(i, "resp")}
      BY <1>2, <1>6, <1>7, <3>1 DEF Somewhere
    <3>2. CASE \E k \in Job : \E x \in InHand(cycle[k]) : x.id \in {i, Extend(i, "resp")}
      BY <1>6, <3>2 DEF Somewhere
    <3> QED
      BY <2>2, <3>1, <3>2 DEF Somewhere
  <2> QED
    BY <1>1, <2>1, <2>2 DEF NoneLost, TwinInv
<1> QED
  BY <1>5, <1>8, <1>9, <1>10, <1>11 DEF TwinInv

LEMMA ReconcileKeeps ==
  ASSUME TwinInv, NEW j \in Job, cycle[j].pc = "observe", NEW m \in cycle[j].got,
         Reconcile(j, m)
  PROVE  TwinInv'
<1> DEFINE d == cycle[j]
           p == Parent(m.id)
           c == [pc |-> "observe", role |-> d.role, got |-> d.got \ {m}, out |-> d.out]
<1>1. /\ cycle \in [Job -> CycleRecord] /\ d \in CycleRecord /\ d.pc = "observe"
      /\ requests \in [Twin -> [Id -> Statuses]]
      /\ cycle' = [cycle EXCEPT ![j].got = @ \ {m}]
      /\ requests' = [requests EXCEPT ![d.role][p] = Outcome(p)]
      /\ IsResponse(m.id) /\ requests[d.role][p] # "none"
      /\ inbox' = inbox /\ issued' = issued /\ disturbed' = disturbed
      /\ counter' = counter /\ cycles' = cycles /\ faults' = faults
  BY DEF Reconcile, Reconcilable, TwinInv, TwinTypes
<1>2. /\ d.role \in Twin /\ d.out \subseteq Envelope /\ d.got \subseteq Envelope
      /\ d = [pc |-> "observe", role |-> d.role, got |-> d.got, out |-> d.out]
  BY <1>1, CycleShape
<1>3. m \in Envelope /\ m.id \in Id /\ p \in Id
  <2>1. m \in Envelope /\ m.id \in Id
    BY <1>2 DEF Envelope
  <2>2. m.id.chain # <<>>
    BY <1>1 DEF IsResponse
  <2> QED
    BY <2>1, <2>2, ParentId
<1>4. Outcome(p) \in Statuses \ {"none", "pending"}
  BY DEF Outcome, Statuses
<1> HIDE DEF p
<1>5. /\ requests' \in [Twin -> [Id -> Statuses]]
      /\ requests'[d.role][p] = Outcome(p)
      /\ \A r \in Twin, i \in Id : ~(r = d.role /\ i = p) => requests'[r][i] = requests[r][i]
  BY <1>1, <1>2, <1>3, <1>4
<1>6. c \in CycleRecord
  <2>1. d.got \ {m} \in SUBSET Envelope
    BY <1>2
  <2> QED
    BY <1>2, <2>1, CycleMade
<1>7. cycle' = [cycle EXCEPT ![j] = c]
  <2>1. cycle' = [cycle EXCEPT ![j] = [d EXCEPT !.got = @ \ {m}]]
    BY <1>1
  <2>2. [d EXCEPT !.got = @ \ {m}] = c
    BY <1>2
  <2> QED
    BY <2>1, <2>2
<1>8. TwinTypes'
  <2>1. cycle' \in [Job -> CycleRecord]
    <3> HIDE DEF c
    <3> QED
      BY <1>1, <1>6, <1>7
  <2> QED
    BY <1>1, <1>5, <2>1 DEF TwinInv, TwinTypes
<1>9. /\ cycle'[j] = c
      /\ \A k \in Job \ {j} : cycle'[k] = cycle[k]
      /\ Held(c) = (d.got \ {m}) \cup d.out /\ Outgoing(c) = d.out
      /\ InHand(c) = (d.got \ {m}) \cup d.out
      /\ Held(d) = d.got \cup d.out /\ Outgoing(d) = d.out /\ InHand(d) = d.got \cup d.out
      /\ c.pc = "observe" /\ c.role = d.role /\ c.got = d.got \ {m}
  <2>1. c.pc = "observe" /\ c.out = d.out /\ c.got = d.got \ {m} /\ c.role = d.role
    OBVIOUS
  <2> HIDE DEF c
  <2> QED
    BY <1>1, <1>6, <1>7, <2>1, HoldingIs
<1> HIDE DEF c
<1>10. Addressed'
  <2>1. Delivered'
    BY <1>1 DEF Addressed, Delivered, TwinInv
  <2>2. ASSUME NEW k \in Job PROVE CycleAddressed(cycle'[k])
    <3>1. CASE k = j
      <4>1. \A x \in d.got \cup d.out : (x \in d.got => x.to = d.role)
               /\ (x \in d.out /\ IsRequest(x.id) => x.from = d.role)
        BY <1>1, <1>9 DEF Addressed, CycleAddressed, TwinInv
      <4> QED
        BY <1>9, <3>1, <4>1 DEF CycleAddressed
    <3>2. CASE k # j
      BY <1>9, <3>2 DEF Addressed, TwinInv
    <3> QED
      BY <3>1, <3>2
  <2> QED
    BY <2>1, <2>2 DEF Addressed
<1>11. Shaped' /\ OneAsker' /\ Unrecorded'
  <2>1. \A x \in Envelope : Present(x)' => Present(x) \/ Plain(x)
    BY <1>1, <1>9 DEF Present
  <2>2. \A k \in Job, i \in Requests :
           /\ Recording(cycle[k]', i) => Recording(cycle[k], i) /\ cycle[k]'.role = cycle[k].role
           /\ \A x \in Outgoing(cycle[k]') : x.id = i => x \in Outgoing(cycle[k])
    BY <1>9 DEF Recording
  <2>3. \A r \in Twin, i \in Requests : requests[r][i]' = "none" <=> requests[r][i] = "none"
    BY <1>1, <1>4, <1>5 DEF Requests
  <2> QED
    BY <1>1, <2>1, <2>2, <2>3, Quiet DEF TwinInv
<1>12. TakenOut'
  <2>1. ASSUME NEW k \in Job, cycle'[k].pc = "scan", NEW x \in cycle'[k].loaded \ cycle'[k].keep,
               IsRequest(x.id), x.id \notin disturbed'
        PROVE  requests'[x.from][x.id] \notin {"none", "pending"}
    <3>1. x.id \in Id /\ x.from \in Twin
      <4>1. cycle'[k] \in CycleRecord
        BY <1>8 DEF TwinTypes
      <4>2. x \in Envelope
        BY <2>1, <4>1, CycleShape
      <4> QED
        BY <4>2 DEF Envelope
    <3>2. cycle[k].pc = "scan" /\ x \in cycle[k].loaded \ cycle[k].keep
      BY <1>9, <2>1
    <3>3. requests[x.from][x.id] \notin {"none", "pending"}
      BY <1>1, <2>1, <3>2 DEF TwinInv, TakenOut
    <3> QED
      BY <1>4, <1>5, <3>1, <3>3
  <2> QED
    BY <2>1 DEF TakenOut
<1>13. NoneLost'
  <2>1. ASSUME NEW i \in Requests \ disturbed', Awaited(i)' PROVE Somewhere(i)'
    <3>1. Awaited(i)
      <4>1. \A k \in Job : Recording(cycle'[k], i) => Recording(cycle[k], i)
        BY <1>9 DEF Recording
      <4>2. \A r \in Twin : requests'[r][i] = "pending" => requests[r][i] = "pending"
        BY <1>4, <1>5 DEF Requests
      <4> QED
        BY <2>1, <4>1, <4>2 DEF Awaited
    <3>2. Somewhere(i) /\ i \notin disturbed
      BY <1>1, <2>1, <3>1 DEF TwinInv, NoneLost
    <3>3. m.id \notin {i, Answer(i)}
      <4>1. SUFFICES ASSUME m.id = Answer(i) PROVE FALSE
        BY <1>1, AnswerId
      <4>2. p = i
        BY <4>1, AnswerId DEF p
      <4>3. Present(m) /\ m.to = d.role
        BY <1>1, <1>9 DEF TwinInv, Addressed, CycleAddressed, Present
      <4>4. AskedBy(i, d.role)
        BY <1>3, <4>1, <4>3 DEF AskedBy
      <4>5. CASE \E r \in Twin : requests'[r][i] = "pending"
        <5>1. PICK r \in Twin : requests'[r][i] = "pending"
          BY <4>5
        <5>2. r # d.role
          BY <1>4, <1>5, <4>2, <5>1
        <5>3. requests[r][i] = "pending"
          BY <1>3, <1>5, <4>2, <5>1, <5>2
        <5>4. AskedBy(i, r)
          BY <5>3 DEF AskedBy
        <5> QED
          BY <1>2, <3>2, <4>4, <5>2, <5>4 DEF TwinInv, OneAsker
      <4>6. CASE \E k \in Job : Recording(cycle'[k], i)
        <5>1. PICK k \in Job : Recording(cycle'[k], i)
          BY <4>6
        <5>2. Asking(cycle[k], i)
          BY <1>9, <5>1 DEF Recording, Asking
        <5> QED
          BY <1>1, <1>2, <3>2, <4>2, <5>2 DEF TwinInv, Unrecorded
      <4> QED
        BY <2>1, <4>5, <4>6 DEF Awaited
    <3>4. CASE \E r \in Twin : \E x \in inbox[r] : x.id \in {i, Extend(i, "resp")}
      BY <1>1, <3>4 DEF Somewhere
    <3>5. CASE \E k \in Job : \E x \in InHand(cycle[k]) : x.id \in {i, Extend(i, "resp")}
      BY <1>9, <3>3, <3>5 DEF Somewhere, Answer
    <3> QED
      BY <3>2, <3>4, <3>5 DEF Somewhere
  <2> QED
    BY <2>1 DEF NoneLost
<1> QED
  BY <1>8, <1>10, <1>11, <1>12, <1>13 DEF TwinInv

(* An answer, to the sender of the message or, for a disturbed one, another. *)
LEMMA AnswerKeeps ==
  ASSUME TwinInv, NEW j \in Job, NEW m \in cycle[j].got, NEW to \in Twin,
         AnswerTo(j, m, to), faults' \in 0..MaxFaults,
         to = m.from \/ (to # cycle[j].role /\ m.id \in disturbed'),
         disturbed \subseteq disturbed', disturbed' \subseteq Id,
         IsResponse(m.id) => Parent(m.id) \in disturbed'
  PROVE  TwinInv'
<1> DEFINE d == cycle[j]
           n == [id |-> Extend(m.id, "resp"), from |-> d.role, to |-> to]
           c == [pc |-> "observe", role |-> d.role, got |-> d.got \ {m}, out |-> d.out \cup {n}]
<1>1. /\ cycle \in [Job -> CycleRecord] /\ d \in CycleRecord /\ d.pc = "observe"
      /\ inbox' = inbox /\ requests' = requests /\ issued' = issued
      /\ counter' = counter /\ cycles' = cycles
      /\ disturbed \subseteq disturbed' /\ disturbed' \subseteq Id
  BY DEF AnswerTo, TwinInv, TwinTypes
<1>2. /\ m \in Envelope /\ m.id \in Id /\ m.from \in Twin
      /\ d.role \in Twin /\ d.got \subseteq Envelope /\ d.out \subseteq Envelope
      /\ d = [pc |-> "observe", role |-> d.role, got |-> d.got, out |-> d.out]
  BY <1>1, CycleShape DEF Envelope
<1>3. /\ n \in Envelope /\ ~IsRequest(n.id)
      /\ n.id = Extend(m.id, "resp") /\ n.from = d.role /\ n.to = to
  <2>1. Extend(m.id, "resp") \in Id /\ ~IsRequest(Extend(m.id, "resp"))
    BY <1>2, ExtendId DEF AnswerTo, Words
  <2> QED
    BY <1>2, <2>1 DEF Envelope
<1> HIDE DEF n
<1>4. \A i \in Requests : n.id # i /\ (n.id = Answer(i) => m.id = i)
  BY <1>2, <1>3, AnswerId
<1>5. to = m.from \/ (to # d.role /\ m.id \in disturbed')
  OBVIOUS
<1>6. cycle' = [cycle EXCEPT ![j] = c]
  <2>1. cycle' = [cycle EXCEPT ![j] = [d EXCEPT !.got = @ \ {m}, !.out = @ \cup {n}]]
    BY <1>1 DEF AnswerTo, n
  <2>2. [d EXCEPT !.got = @ \ {m}, !.out = @ \cup {n}] = c
    <3> DEFINE a == d.got \ {m}
               b == d.out \cup {n}
               e == [d EXCEPT !.got = a]
    <3>1. d = [pc |-> "observe", role |-> d.role, got |-> d.got, out |-> d.out]
      BY <1>2
    <3> HIDE DEF d, a, b
    <3>2. e = [pc |-> "observe", role |-> d.role, got |-> a, out |-> d.out]
      BY <3>1
    <3>3. [d EXCEPT !.got = a, !.out = b] = [e EXCEPT !.out = b]
      BY <3>1
    <3> HIDE DEF e
    <3>4. [e EXCEPT !.out = b] = [pc |-> "observe", role |-> d.role, got |-> a, out |-> b]
      BY <3>2
    <3> QED
      BY <3>3, <3>4 DEF a, b, d
  <2> QED
    BY <2>1, <2>2
<1>7. c \in CycleRecord
  <2>1. d.got \ {m} \in SUBSET Envelope /\ d.out \cup {n} \in SUBSET Envelope
    BY <1>2, <1>3
  <2> QED
    BY <1>2, <2>1, CycleMade
<1>8. TwinTypes'
  <2>1. cycle' \in [Job -> CycleRecord]
    <3> HIDE DEF c
    <3> QED
      BY <1>1, <1>6, <1>7
  <2> QED
    BY <1>1, <1>5, <2>1 DEF TwinInv, TwinTypes
<1>9. /\ cycle'[j] = c
      /\ \A k \in Job \ {j} : cycle'[k] = cycle[k]
      /\ Held(c) = (d.got \ {m}) \cup (d.out \cup {n}) /\ Outgoing(c) = d.out \cup {n}
      /\ InHand(c) = (d.got \ {m}) \cup (d.out \cup {n})
      /\ Held(d) = d.got \cup d.out /\ Outgoing(d) = d.out /\ InHand(d) = d.got \cup d.out
      /\ c.pc = "observe" /\ c.role = d.role /\ c.got = d.got \ {m}
  <2>1. c.pc = "observe" /\ c.out = d.out \cup {n} /\ c.got = d.got \ {m} /\ c.role = d.role
    OBVIOUS
  <2> HIDE DEF c
  <2> QED
    BY <1>1, <1>6, <1>7, <2>1, HoldingIs
<1> HIDE DEF c
<1>10. /\ \A x \in d.got : x.to = d.role
       /\ \A x \in d.out : IsRequest(x.id) => x.from = d.role
  BY <1>1, <1>9 DEF Addressed, CycleAddressed, TwinInv
<1>11. Addressed'
  <2>1. Delivered'
    BY <1>1 DEF Addressed, Delivered, TwinInv
  <2>2. ASSUME NEW k \in Job PROVE CycleAddressed(cycle'[k])
    <3>1. CASE k = j
      BY <1>3, <1>9, <1>10, <3>1 DEF CycleAddressed
    <3>2. CASE k # j
      BY <1>9, <3>2 DEF Addressed, TwinInv
    <3> QED
      BY <3>1, <3>2
  <2> QED
    BY <2>1, <2>2 DEF Addressed
<1>12. Present(m) /\ m.to = d.role
  BY <1>1, <1>9, <1>10 DEF Present
<1>13. \A x \in Envelope : Present(x)' => Present(x) \/ x = n
  BY <1>1, <1>9 DEF Present
<1>14. Shaped'
  <2>1. InShape(n)
    <3>1. ASSUME NEW i \in Requests, n.id = Answer(i)
          PROVE  i \in issued /\ n.from = OwnerOf[i.kpi] /\ n.from # n.to /\ n.to \in Twin
      <4>1. m.id = i /\ IsRequest(i)
        BY <1>4, <3>1 DEF Requests
      <4>2. i \in issued /\ m.to = OwnerOf[i.kpi] /\ m.from # m.to
        BY <1>2, <1>12, <4>1 DEF TwinInv, Shaped, InShape
      <4> QED
        BY <1>2, <1>3, <1>5, <1>12, <4>2
    <3> QED
      BY <1>3, <3>1 DEF InShape
  <2>2. ASSUME NEW x \in Envelope, Present(x)' PROVE InShape(x)'
    <3>1. InShape(x)
      BY <1>13, <2>1, <2>2 DEF TwinInv, Shaped
    <3> QED
      BY <1>1, <3>1 DEF InShape
  <2>3. \A k \in Job, i \in Requests : Recording(cycle'[k], i) => Recording(cycle[k], i)
    BY <1>9 DEF Recording
  <2> QED
    BY <1>1, <2>2, <2>3 DEF TwinInv, Shaped
<1>15. OneAsker'
  <2>1. ASSUME NEW i \in Requests \ disturbed', NEW r \in Twin, AskedBy(i, r)'
        PROVE  AskedBy(i, r)
    <3>1. \A k \in Job : Recording(cycle'[k], i) => Recording(cycle[k], i)
                                                    /\ cycle'[k].role = cycle[k].role
      BY <1>9 DEF Recording
    <3>2. CASE \E x \in Envelope : /\ Present(x)'
                                   /\ (x.id = i /\ x.from = r) \/ (x.id = Answer(i) /\ x.to = r)
      <4>1. PICK x \in Envelope : /\ Present(x)'
                                  /\ (x.id = i /\ x.from = r) \/ (x.id = Answer(i) /\ x.to = r)
        BY <3>2
      <4>2. CASE Present(x)
        BY <4>1, <4>2 DEF AskedBy
      <4>3. CASE x = n
        <5>1. m.id = i /\ m.from = r
          BY <1>3, <1>4, <1>5, <2>1, <4>1, <4>3
        <5> QED
          BY <1>2, <1>12, <5>1 DEF AskedBy
      <4> QED
        BY <1>13, <4>1, <4>2, <4>3
    <3>3. CASE requests'[r][i] # "none"
      BY <1>1, <3>3 DEF AskedBy
    <3>4. CASE \E k \in Job : Recording(cycle'[k], i) /\ cycle'[k].role = r
      BY <3>1, <3>4 DEF AskedBy
    <3> QED
      BY <2>1, <3>2, <3>3, <3>4 DEF AskedBy
  <2> QED
    BY <1>1, <2>1 DEF TwinInv, OneAsker
<1>16. Unrecorded'
  <2>1. \A i \in Requests, k \in Job :
          /\ Recording(cycle'[k], i) => Recording(cycle[k], i)
          /\ \A x \in Outgoing(cycle'[k]) : x.id = i => x \in Outgoing(cycle[k])
    BY <1>4, <1>9 DEF Recording
  <2>2. \A i \in Requests, k \in Job : Asking(cycle'[k], i) => Asking(cycle[k], i)
    BY <2>1 DEF Asking
  <2> QED
    BY <1>1, <2>1, <2>2 DEF TwinInv, Unrecorded
<1>17. TakenOut'
  BY <1>1, <1>9 DEF TwinInv, TakenOut
<1>18. NoneLost'
  <2>1. ASSUME NEW i \in Requests \ disturbed', Awaited(i)' PROVE Somewhere(i)'
    <3>1. Awaited(i)
      <4>1. \A k \in Job : Recording(cycle'[k], i) => Recording(cycle[k], i)
        BY <1>9 DEF Recording
      <4> QED
        BY <1>1, <2>1, <4>1 DEF Awaited
    <3>2. Somewhere(i)
      BY <1>1, <2>1, <3>1 DEF TwinInv, NoneLost
    <3>3. m.id # Answer(i)
      <4>1. Parent(Answer(i)) = i /\ IsResponse(Answer(i))
        BY AnswerId
      <4> QED
        BY <2>1, <4>1
    <3>4. m.id = i => n.id = Answer(i)
      BY <1>3 DEF Answer
    <3>5. CASE \E r \in Twin : \E x \in inbox[r] : x.id \in {i, Extend(i, "resp")}
      BY <1>1, <3>5 DEF Somewhere
    <3>6. CASE \E k \in Job : \E x \in InHand(cycle[k]) : x.id \in {i, Extend(i, "resp")}
      <4>1. PICK k \in Job : \E x \in InHand(cycle[k]) : x.id \in {i, Answer(i)}
        BY <3>6 DEF Answer
      <4>2. \E x \in InHand(cycle'[k]) : x.id \in {i, Answer(i)}
        BY <1>9, <3>3, <3>4, <4>1
      <4> QED
        BY <4>2 DEF Somewhere, Answer
    <3> QED
      BY <3>2, <3>5, <3>6 DEF Somewhere
  <2> QED
    BY <2>1 DEF NoneLost
<1> QED
  BY <1>8, <1>11, <1>14, <1>15, <1>16, <1>17, <1>18 DEF TwinInv

LEMMA RespondKeeps ==
  ASSUME TwinInv, NEW j \in Job, cycle[j].pc = "observe", NEW m \in cycle[j].got,
         DecideToRespond(j, m) \/ \E to \in Twin : Misaddress(j, m, to)
  PROVE  TwinInv'
<1>1. m \in Envelope /\ m.id \in Id /\ m.from \in Twin
  BY CycleShape DEF Envelope, TwinInv, TwinTypes
<1>2. /\ disturbed \subseteq Id /\ faults \in 0..MaxFaults /\ Traces(m) \subseteq Id
      /\ m.id \in Traces(m)
      /\ IsResponse(m.id) => Parent(m.id) \in Traces(m)
  BY <1>1, TracesAreIds DEF Traces, IsResponse, TwinInv, TwinTypes
<1>3. CASE DecideToRespond(j, m)
  <2>1. AnswerTo(j, m, m.from) /\ faults' \in 0..MaxFaults
    BY <1>2, <1>3 DEF DecideToRespond
  <2>2. disturbed' = IF IsResponse(m.id) THEN disturbed \cup {Parent(m.id)} ELSE disturbed
    BY <1>3 DEF DecideToRespond
  <2>3. /\ disturbed \subseteq disturbed' /\ disturbed' \subseteq Id
        /\ IsResponse(m.id) => Parent(m.id) \in disturbed'
    BY <1>2, <2>2
  <2> QED
    BY <1>1, <2>1, <2>3, AnswerKeeps
<1>4. ASSUME NEW to \in Twin, Misaddress(j, m, to) PROVE TwinInv'
  <2>1. /\ AnswerTo(j, m, to) /\ to # cycle[j].role
        /\ disturbed' = disturbed \cup Traces(m)
    BY <1>4 DEF Misaddress
  <2>2. faults' \in 0..MaxFaults
    BY <1>2, <1>4, TwinAssumption DEF Misaddress
  <2>3. /\ disturbed \subseteq disturbed' /\ disturbed' \subseteq Id
        /\ m.id \in disturbed' /\ (IsResponse(m.id) => Parent(m.id) \in disturbed')
    BY <1>2, <2>1
  <2> QED
    BY <2>1, <2>2, <2>3, AnswerKeeps
<1> QED
  BY <1>3, <1>4

(* A message that is dropped, its request being disturbed.                  *)
LEMMA LetGoKeeps ==
  ASSUME TwinInv, NEW j \in Job, NEW m \in cycle[j].got, LetGo(j, m)
  PROVE  TwinInv'
<1> DEFINE d == cycle[j]
           rest == d.got \ {m}
           c == [pc |-> "observe", role |-> d.role, got |-> rest, out |-> d.out]
<1>1. /\ cycle \in [Job -> CycleRecord] /\ d \in CycleRecord /\ d.pc = "observe"
      /\ inbox' = inbox /\ requests' = requests /\ issued' = issued
      /\ counter' = counter /\ cycles' = cycles
      /\ disturbed' = disturbed \cup Traces(m)
      /\ cycle' = [cycle EXCEPT ![j] = [d EXCEPT !.got = rest]]
  BY DEF LetGo, TwinInv, TwinTypes
<1>2. /\ d.role \in Twin /\ d.got \subseteq Envelope /\ d.out \subseteq Envelope
      /\ d = [pc |-> "observe", role |-> d.role, got |-> d.got, out |-> d.out]
      /\ m \in Envelope /\ rest \subseteq Envelope
  BY <1>1, CycleShape
<1>3. /\ disturbed \subseteq disturbed' /\ disturbed' \subseteq Id
      /\ m.id \in disturbed' /\ (m.id.chain # <<>> => Parent(m.id) \in disturbed')
  BY <1>1, <1>2, TracesAreIds DEF Traces, TwinInv, TwinTypes
<1>4. faults' \in 0..MaxFaults
  BY TwinAssumption DEF LetGo, TwinInv, TwinTypes
<1>5. cycle' = [cycle EXCEPT ![j] = c]
  <2> HIDE DEF d, rest
  <2>1. [d EXCEPT !.got = rest] = [pc |-> "observe", role |-> d.role, got |-> rest, out |-> d.out]
    BY <1>2
  <2> QED
    BY <1>1, <2>1
<1>6. c \in CycleRecord
  BY <1>2, CycleMade
<1>7. /\ cycle'[j] = c
      /\ \A k \in Job \ {j} : cycle'[k] = cycle[k]
      /\ Held(c) = rest \cup d.out /\ Outgoing(c) = d.out /\ InHand(c) = rest \cup d.out
      /\ Held(d) = d.got \cup d.out /\ Outgoing(d) = d.out /\ InHand(d) = d.got \cup d.out
      /\ c.pc = "observe" /\ c.role = d.role /\ c.got = rest
  <2>1. c.pc = "observe" /\ c.out = d.out /\ c.got = rest /\ c.role = d.role
    OBVIOUS
  <2> HIDE DEF c, rest
  <2> QED
    BY <1>1, <1>5, <1>6, <2>1, HoldingIs
<1>8. TwinTypes'
  <2>1. cycle' \in [Job -> CycleRecord]
    <3> HIDE DEF c
    <3> QED
      BY <1>1, <1>5, <1>6
  <2> QED
    BY <1>1, <1>3, <1>4, <2>1 DEF TwinInv, TwinTypes
<1> HIDE DEF c
<1>9. Addressed'
  <2>1. Delivered'
    BY <1>1 DEF Addressed, Delivered, TwinInv
  <2>2. ASSUME NEW k \in Job PROVE CycleAddressed(cycle'[k])
    <3>1. CASE k = j
      <4>1. CycleAddressed(d)
        BY DEF Addressed, TwinInv
      <4> QED
        BY <1>1, <1>7, <3>1, <4>1 DEF CycleAddressed
    <3>2. CASE k # j
      BY <1>7, <3>2 DEF Addressed, TwinInv
    <3> QED
      BY <3>1, <3>2
  <2> QED
    BY <2>1, <2>2 DEF Addressed
<1>10. Shaped' /\ OneAsker' /\ Unrecorded'
  <2>1. \A x \in Envelope : Present(x)' => Present(x) \/ Plain(x)
    BY <1>1, <1>7 DEF Present
  <2>2. \A k \in Job, i \in Requests :
           /\ Recording(cycle[k]', i) => Recording(cycle[k], i) /\ cycle[k]'.role = cycle[k].role
           /\ \A x \in Outgoing(cycle[k]') : x.id = i => x \in Outgoing(cycle[k])
    BY <1>7 DEF Recording
  <2> QED
    BY <1>1, <1>3, <2>1, <2>2, Quiet DEF TwinInv
<1>11. TakenOut'
  BY <1>1, <1>3, <1>7 DEF TakenOut, TwinInv
<1>12. NoneLost'
  <2>1. ASSUME NEW i \in Requests PROVE Awaited(i)' => Awaited(i)
    BY <1>1, <1>7 DEF Awaited, Recording
  <2>2. ASSUME NEW i \in Requests \ disturbed', Somewhere(i) PROVE Somewhere(i)'
    <3>1. m.id \notin {i, Answer(i)}
      BY <1>3, <2>2, AnswerId
    <3>2. CASE \E r \in Twin : \E x \in inbox[r] : x.id \in {i, Answer(i)}
      BY <1>1, <3>2 DEF Somewhere, Answer
    <3>3. CASE \E k \in Job : \E x \in InHand(cycle[k]) : x.id \in {i, Answer(i)}
      BY <1>7, <3>1, <3>3 DEF Somewhere, Answer
    <3> QED
      BY <2>2, <3>2, <3>3 DEF Somewhere, Answer
  <2> QED
    BY <1>1, <1>3, <2>1, <2>2 DEF NoneLost, TwinInv
<1> QED
  BY <1>8, <1>9, <1>10, <1>11, <1>12 DEF TwinInv

LEMMA AskKeeps ==
  ASSUME TwinInv, NEW j \in Job, NEW q \in Kpi, DecideToAsk(j, q)
  PROVE  TwinInv'
<1> DEFINE d == cycle[j]
           id == [kpi |-> q, n |-> counter[j] + 1, chain |-> <<>>]
           n == [id |-> id, from |-> d.role, to |-> OwnerOf[q]]
           c == [pc |-> "act", role |-> d.role, out |-> d.out \cup {n}]
<1>1. /\ cycle \in [Job -> CycleRecord] /\ d \in CycleRecord /\ d.pc = "observe" /\ d.got = {}
      /\ counter \in [Job -> 0..MaxCounter] /\ counter[j] < MaxCounter
      /\ counter' = [counter EXCEPT ![j] = @ + 1]
      /\ OwnerOf[q] # d.role
      /\ inbox' = inbox /\ requests' = requests /\ cycles' = cycles /\ faults' = faults
      /\ cycle' = [cycle EXCEPT ![j] = c]
      /\ issued' = issued \cup {id}
      /\ disturbed' = disturbed \cup ({id} \cap issued)
  BY DEF DecideToAsk, TwinInv, TwinTypes
<1>2. d.role \in Twin /\ d.out \subseteq Envelope /\ OwnerOf[q] \in Twin
  BY <1>1, CycleShape, TwinAssumption
<1>3. id \in Id /\ id.kpi = q /\ IsRequest(id)
  <2> DEFINE a == counter[j] + 1
  <2>1. a \in 1..MaxCounter /\ MaxChain \in Nat
    BY <1>1, TwinAssumption
  <2> HIDE DEF a
  <2>2. <<>> \in Seq(Words) /\ Len(<<>>) <= MaxChain
    BY <2>1, EmptySeq
  <2>3. [kpi |-> q, n |-> a, chain |-> <<>>] \in Id
    BY <2>1, <2>2, IdIs
  <2> QED
    BY <2>3 DEF a, IsRequest
<1> HIDE DEF id
<1>4. id \in Requests
  BY <1>3 DEF Requests
<1>5. n \in Envelope /\ n.id = id /\ n.from = d.role /\ n.to = OwnerOf[q]
  BY <1>2, <1>3 DEF Envelope
<1> HIDE DEF n
<1>6. c \in CycleRecord
  <2>1. d.out \cup {n} \in SUBSET Envelope
    BY <1>2, <1>5
  <2> QED
    BY <1>2, <2>1, CycleMade
<1>7. TwinTypes'
  <2>1. cycle' \in [Job -> CycleRecord]
    <3> HIDE DEF c
    <3> QED
      BY <1>1, <1>6
  <2>2. counter' \in [Job -> 0..MaxCounter]
    BY <1>1, TwinAssumption
  <2> QED
    BY <1>1, <1>3, <2>1, <2>2 DEF TwinInv, TwinTypes
<1>8. /\ cycle'[j] = c
      /\ \A k \in Job \ {j} : cycle'[k] = cycle[k]
      /\ Held(c) = d.out \cup {n} /\ Outgoing(c) = d.out \cup {n} /\ InHand(c) = d.out \cup {n}
      /\ Held(d) = d.out /\ Outgoing(d) = d.out /\ InHand(d) = d.out
      /\ c.pc = "act" /\ c.role = d.role
  <2>1. c.pc = "act" /\ c.out = d.out \cup {n} /\ c.role = d.role
    OBVIOUS
  <2> HIDE DEF c
  <2>2. {} \cup d.out = d.out
    OBVIOUS
  <2> QED
    BY <1>1, <1>6, <2>1, <2>2, HoldingIs
<1> HIDE DEF c
<1>9. Addressed'
  <2>1. Delivered'
    BY <1>1 DEF Addressed, Delivered, TwinInv
  <2>2. ASSUME NEW k \in Job PROVE CycleAddressed(cycle'[k])
    <3>1. CASE k = j
      <4>1. \A x \in d.out : IsRequest(x.id) => x.from = d.role
        BY <1>8 DEF Addressed, CycleAddressed, TwinInv
      <4> QED
        BY <1>5, <1>8, <3>1, <4>1 DEF CycleAddressed
    <3>2. CASE k # j
      BY <1>8, <3>2 DEF Addressed, TwinInv
    <3> QED
      BY <3>1, <3>2
  <2> QED
    BY <2>1, <2>2 DEF Addressed
<1>10. \A x \in Envelope : Present(x)' => Present(x) \/ x = n
  BY <1>1, <1>8 DEF Present
<1>11. \A i \in Requests, k \in Job : ~Recording(cycle'[j], i)
          /\ (Recording(cycle'[k], i) => Recording(cycle[k], i) /\ cycle'[k].role = cycle[k].role)
  BY <1>8 DEF Recording
<1>12. Shaped'
  <2>1. \A i \in Requests : n.id # Answer(i)
    BY <1>3, <1>5, AnswerId
  <2>2. ASSUME NEW x \in Envelope, Present(x)' PROVE InShape(x)'
    <3>1. CASE x = n
      <4>1. x.id \in issued' /\ x.to = OwnerOf[x.id.kpi] /\ x.from # x.to
        BY <1>1, <1>3, <1>5, <3>1
      <4> QED
        BY <2>1, <3>1, <4>1 DEF InShape
    <3>2. CASE Present(x)
      BY <1>1, <3>2 DEF TwinInv, Shaped, InShape
    <3> QED
      BY <1>10, <2>2, <3>1, <3>2
  <2> QED
    BY <1>1, <1>11, <2>2 DEF TwinInv, Shaped
<1>13. ASSUME NEW i \in Requests, i \notin issued
       PROVE  /\ \A r \in Twin : ~AskedBy(i, r) /\ requests[r][i] = "none"
              /\ \A k \in Job : ~Asking(cycle[k], i)
  <2>1. IsRequest(i)
    BY DEF Requests
  <2>2. \A x \in Envelope : Present(x) => x.id # i /\ x.id # Answer(i)
    BY <1>13, <2>1 DEF TwinInv, Shaped, InShape
  <2>3. \A k \in Job : ~Recording(cycle[k], i)
    BY <1>13 DEF TwinInv, Shaped
  <2>4. \A r \in Twin : requests[r][i] = "none"
    BY <1>13 DEF TwinInv, Shaped
  <2>5. \A k \in Job : \A x \in Outgoing(cycle[k]) : x \in Envelope /\ Present(x)
    BY <1>1, HoldingIs DEF Present
  <2> QED
    BY <2>2, <2>3, <2>4, <2>5 DEF AskedBy, Asking
<1>14. OneAsker'
  <2>1. ASSUME NEW i \in Requests \ disturbed', NEW r \in Twin, AskedBy(i, r)'
        PROVE  AskedBy(i, r) \/ (i = id /\ i \notin issued /\ r = d.role)
    <3>1. CASE \E x \in Envelope : /\ Present(x)'
                                   /\ (x.id = i /\ x.from = r) \/ (x.id = Answer(i) /\ x.to = r)
      <4>1. PICK x \in Envelope : /\ Present(x)'
                                  /\ (x.id = i /\ x.from = r) \/ (x.id = Answer(i) /\ x.to = r)
        BY <3>1
      <4>2. CASE Present(x)
        BY <4>1, <4>2 DEF AskedBy
      <4>3. CASE x = n
        BY <1>1, <1>3, <1>5, <2>1, <4>1, <4>3, AnswerId
      <4> QED
        BY <1>10, <4>1, <4>2, <4>3
    <3>2. CASE requests'[r][i] # "none"
      BY <1>1, <3>2 DEF AskedBy
    <3>3. CASE \E k \in Job : Recording(cycle'[k], i) /\ cycle'[k].role = r
      BY <1>11, <3>3 DEF AskedBy
    <3> QED
      BY <2>1, <3>1, <3>2, <3>3 DEF AskedBy
  <2> QED
    BY <1>1, <1>13, <2>1 DEF TwinInv, OneAsker
<1>15. Unrecorded'
  <2>1. ASSUME NEW i \in Requests \ disturbed', NEW k \in Job, Asking(cycle'[k], i)
        PROVE  Asking(cycle[k], i) \/ (i = id /\ i \notin issued /\ k = j)
    BY <1>1, <1>5, <1>8, <1>11, <2>1 DEF Asking
  <2>2. ASSUME NEW i \in Requests, NEW k \in Job, Recording(cycle'[k], i)
        PROVE  k # j /\ cycle'[k] = cycle[k]
    BY <1>8, <1>11, <2>2
  <2>3. ASSUME NEW i \in Requests \ disturbed', NEW k \in Job, Asking(cycle'[k], i)
        PROVE  /\ \A r \in Twin : requests'[r][i] = "none"
               /\ \A k2 \in Job : Asking(cycle'[k2], i) => k2 = k
               /\ Recording(cycle'[k], i) => \A m \in Outgoing(cycle'[k]) : m.id # i
    <3>1. CASE i \in issued
      <4>1. i \notin disturbed /\ Asking(cycle[k], i)
        BY <1>1, <2>1, <2>3, <3>1
      <4>2. \A k2 \in Job : Asking(cycle'[k2], i) => Asking(cycle[k2], i)
        BY <2>1, <3>1
      <4> QED
        BY <1>1, <2>2, <4>1, <4>2 DEF TwinInv, Unrecorded
    <3>2. CASE i \notin issued
      <4>1. k = j
        BY <1>13, <2>1, <2>3, <3>2
      <4>2. \A k2 \in Job : Asking(cycle'[k2], i) => k2 = j
        BY <1>13, <2>1, <3>2
      <4> QED
        BY <1>1, <1>13, <2>2, <3>2, <4>1, <4>2
    <3> QED
      BY <3>1, <3>2
  <2> QED
    BY <2>3 DEF Unrecorded
<1>16. TakenOut'
  BY <1>1, <1>8 DEF TwinInv, TakenOut
<1>17. NoneLost'
  <2>1. ASSUME NEW i \in Requests PROVE Awaited(i)' => Awaited(i)
    BY <1>1, <1>11 DEF Awaited
  <2>2. ASSUME NEW i \in Requests, Somewhere(i) PROVE Somewhere(i)'
    BY <1>1, <1>8, <2>2 DEF Somewhere
  <2> QED
    BY <1>1, <2>1, <2>2 DEF NoneLost, TwinInv
<1> QED
  BY <1>7, <1>9, <1>12, <1>14, <1>15, <1>16, <1>17 DEF TwinInv

(* A cycle that goes on with what it had.                                   *)
LEMMA StillKeeps ==
  ASSUME TwinInv, TwinTypes', NEW j \in Job,
         inbox' = inbox, requests' = requests, issued' = issued, disturbed' = disturbed,
         cycle[j]'.pc \in {"idle", "act"}, cycle[j]'.pc # "idle" => cycle[j]'.role = cycle[j].role,
         \A k \in Job \ {j} : cycle[k]' = cycle[k],
         Held(cycle[j]') = Held(cycle[j]), Outgoing(cycle[j]') = Outgoing(cycle[j]),
         InHand(cycle[j]') = InHand(cycle[j])
  PROVE  TwinInv'
<1>1. Addressed'
  <2>1. Delivered'
    BY DEF Addressed, Delivered, TwinInv
  <2>2. ASSUME NEW k \in Job PROVE CycleAddressed(cycle'[k])
    <3>1. CASE k = j
      <4>1. \A x \in Outgoing(cycle[j]) : IsRequest(x.id) => x.from = cycle[j].role
        BY DEF Addressed, CycleAddressed, TwinInv
      <4>2. cycle'[j].pc = "idle" => Outgoing(cycle'[j]) = {}
        BY DEF Outgoing
      <4> QED
        BY <3>1, <4>1, <4>2 DEF CycleAddressed
    <3>2. CASE k # j
      BY <3>2 DEF Addressed, TwinInv
    <3> QED
      BY <3>1, <3>2
  <2> QED
    BY <2>1, <2>2 DEF Addressed
<1>2. Shaped' /\ OneAsker' /\ Unrecorded'
  <2>1. \A x \in Envelope : Present(x)' => Present(x) \/ Plain(x)
    BY DEF Present
  <2>2. \A k \in Job, i \in Requests :
           /\ Recording(cycle[k]', i) => Recording(cycle[k], i) /\ cycle[k]'.role = cycle[k].role
           /\ \A x \in Outgoing(cycle[k]') : x.id = i => x \in Outgoing(cycle[k])
    BY DEF Recording
  <2> QED
    BY <2>1, <2>2, Quiet DEF TwinInv
<1>3. TakenOut'
  BY DEF TakenOut, TwinInv
<1>4. NoneLost'
  <2>1. ASSUME NEW i \in Requests PROVE Awaited(i)' => Awaited(i)
    BY DEF Awaited, Recording
  <2>2. ASSUME NEW i \in Requests, Somewhere(i) PROVE Somewhere(i)'
    BY <2>2 DEF Somewhere
  <2> QED
    BY <2>1, <2>2 DEF NoneLost, TwinInv
<1> QED
  BY <1>1, <1>2, <1>3, <1>4 DEF TwinInv

LEMMA NoMoreKeeps ==
  ASSUME TwinInv, NEW j \in Job, DecideNoMore(j) \/ AskReplaced(j)
  PROVE  TwinInv'
<1> DEFINE d == cycle[j]
           c == [pc |-> "act", role |-> d.role, out |-> d.out]
<1>1. /\ cycle \in [Job -> CycleRecord] /\ d \in CycleRecord /\ d.pc = "observe" /\ d.got = {}
      /\ inbox' = inbox /\ requests' = requests /\ issued' = issued /\ disturbed' = disturbed
      /\ cycles' = cycles
      /\ cycle' = [cycle EXCEPT ![j] = c]
  BY DEF DecideNoMore, AskReplaced, TwinInv, TwinTypes
<1>2. d.role \in Twin /\ d.out \subseteq Envelope
  BY <1>1, CycleShape
<1>3. c \in CycleRecord
  BY <1>2, CycleMade
<1>4. /\ cycle'[j] = c
      /\ \A k \in Job \ {j} : cycle'[k] = cycle[k]
      /\ Held(c) = Held(d) /\ Outgoing(c) = Outgoing(d) /\ InHand(c) = InHand(d)
      /\ c.pc = "act" /\ c.role = d.role
  <2>1. c.pc = "act" /\ c.out = d.out /\ c.role = d.role
    OBVIOUS
  <2> HIDE DEF c
  <2>2. {} \cup d.out = d.out
    OBVIOUS
  <2>3. Held(d) = d.out /\ Outgoing(d) = d.out /\ InHand(d) = d.out
    BY <1>1, <2>2, HoldingIs
  <2>4. Held(c) = d.out /\ Outgoing(c) = d.out /\ InHand(c) = d.out
    BY <1>3, <2>1, HoldingIs
  <2> QED
    BY <1>1, <1>3, <2>1, <2>3, <2>4
<1>5. TwinTypes'
  <2>1. cycle' \in [Job -> CycleRecord]
    <3> HIDE DEF c
    <3> QED
      BY <1>1, <1>3
  <2>2. counter \in [Job -> 0..MaxCounter] /\ faults \in 0..MaxFaults
    BY DEF TwinInv, TwinTypes
  <2>3. counter' \in [Job -> 0..MaxCounter] /\ faults' \in 0..MaxFaults
    <3>1. CASE DecideNoMore(j)
      BY <2>2, <3>1 DEF DecideNoMore
    <3>2. CASE AskReplaced(j)
      BY <2>2, <3>2, TwinAssumption DEF AskReplaced
    <3> QED
      BY <3>1, <3>2
  <2> QED
    BY <1>1, <2>1, <2>3 DEF TwinInv, TwinTypes
<1> HIDE DEF c
<1> QED
  BY <1>1, <1>4, <1>5, StillKeeps

LEMMA EndKeeps ==
  ASSUME TwinInv, NEW j \in Job, EndCycle(j)
  PROVE  TwinInv'
<1> DEFINE d == cycle[j]
<1>1. /\ cycle \in [Job -> CycleRecord] /\ d \in CycleRecord /\ d.pc = "act" /\ d.out = {}
      /\ inbox' = inbox /\ requests' = requests /\ issued' = issued /\ disturbed' = disturbed
      /\ counter' = counter /\ cycles' = cycles /\ faults' = faults
      /\ cycle' = [cycle EXCEPT ![j] = Resting]
  BY DEF EndCycle, TwinInv, TwinTypes
<1>2. /\ cycle'[j] = Resting
      /\ \A k \in Job \ {j} : cycle'[k] = cycle[k]
      /\ Held(d) = {} /\ Outgoing(d) = {} /\ InHand(d) = {}
  BY <1>1, HoldingIs
<1>3. TwinTypes'
  <2>1. cycle' \in [Job -> CycleRecord]
    BY <1>1, RestingHolds
  <2> QED
    BY <1>1, <2>1 DEF TwinInv, TwinTypes
<1> QED
  BY <1>1, <1>2, <1>3, StillKeeps, RestingHolds

LEMMA UnrecordedKeeps ==
  ASSUME TwinInv, NEW j \in Job, GoesUnrecorded(j)
  PROVE  TwinInv'
<1> DEFINE d == cycle[j]
           c == [pc |-> "act", role |-> d.role, out |-> d.out]
<1>1. /\ cycle \in [Job -> CycleRecord] /\ d \in CycleRecord /\ d.pc = "record"
      /\ inbox' = inbox /\ requests' = requests /\ issued' = issued /\ disturbed' = disturbed
      /\ counter' = counter /\ cycles' = cycles
      /\ cycle' = [cycle EXCEPT ![j] = c]
  BY DEF GoesUnrecorded, TwinInv, TwinTypes
<1>2. d.role \in Twin /\ d.out \subseteq Envelope
  BY <1>1, CycleShape
<1>3. c \in CycleRecord
  BY <1>2, CycleMade
<1>4. /\ cycle'[j] = c
      /\ \A k \in Job \ {j} : cycle'[k] = cycle[k]
      /\ Held(c) = Held(d) /\ Outgoing(c) = Outgoing(d) /\ InHand(c) = InHand(d)
      /\ c.pc = "act" /\ c.role = d.role
  <2>1. c.pc = "act" /\ c.out = d.out /\ c.role = d.role
    OBVIOUS
  <2> HIDE DEF c
  <2> QED
    BY <1>1, <1>3, <2>1, HoldingIs
<1>5. TwinTypes'
  <2>1. cycle' \in [Job -> CycleRecord]
    <3> HIDE DEF c
    <3> QED
      BY <1>1, <1>3
  <2>2. faults' \in 0..MaxFaults
    BY TwinAssumption DEF GoesUnrecorded, TwinInv, TwinTypes
  <2> QED
    BY <1>1, <2>1, <2>2 DEF TwinInv, TwinTypes
<1> HIDE DEF c
<1> QED
  BY <1>1, <1>4, <1>5, StillKeeps

(* A message that cannot be sent.  A request is not on record before it is  *)
(* sent, so only the one that waits for an answer is disturbed.             *)
LEMMA UnsentKeeps ==
  ASSUME TwinInv, NEW j \in Job, NEW m \in cycle[j].out, SendRaises(j, m)
  PROVE  TwinInv'
<1> DEFINE d == cycle[j]
           rest == d.out \ {m}
           c == [pc |-> "act", role |-> d.role, out |-> rest]
<1>1. /\ cycle \in [Job -> CycleRecord] /\ d \in CycleRecord /\ d.pc = "act"
      /\ inbox' = inbox /\ requests' = requests /\ issued' = issued
      /\ counter' = counter /\ cycles' = cycles
      /\ disturbed' = IF IsResponse(m.id) THEN disturbed \cup {Parent(m.id)} ELSE disturbed
      /\ cycle' = [cycle EXCEPT ![j] = [d EXCEPT !.out = rest]]
  BY DEF SendRaises, TwinInv, TwinTypes
<1>2. /\ d.role \in Twin /\ d.out \subseteq Envelope
      /\ d = [pc |-> "act", role |-> d.role, out |-> d.out]
      /\ m \in Envelope /\ m.id \in Id /\ rest \subseteq Envelope
  BY <1>1, CycleShape DEF Envelope
<1>3. /\ disturbed \subseteq disturbed' /\ disturbed' \subseteq Id
      /\ IsResponse(m.id) => Parent(m.id) \in disturbed'
  BY <1>1, <1>2, ParentId DEF IsResponse, TwinInv, TwinTypes
<1>4. faults' \in 0..MaxFaults
  BY TwinAssumption DEF SendRaises, TwinInv, TwinTypes
<1>5. cycle' = [cycle EXCEPT ![j] = c]
  <2> HIDE DEF d, rest
  <2>1. [d EXCEPT !.out = rest] = [pc |-> "act", role |-> d.role, out |-> rest]
    BY <1>2
  <2> QED
    BY <1>1, <2>1
<1>6. c \in CycleRecord
  BY <1>2, CycleMade
<1>7. /\ cycle'[j] = c
      /\ \A k \in Job \ {j} : cycle'[k] = cycle[k]
      /\ Held(c) = rest /\ Outgoing(c) = rest /\ InHand(c) = rest
      /\ Held(d) = d.out /\ Outgoing(d) = d.out /\ InHand(d) = d.out
      /\ c.pc = "act" /\ c.role = d.role
  <2>1. c.pc = "act" /\ c.out = rest /\ c.role = d.role
    OBVIOUS
  <2> HIDE DEF c, rest
  <2> QED
    BY <1>1, <1>5, <1>6, <2>1, HoldingIs
<1>8. TwinTypes'
  <2>1. cycle' \in [Job -> CycleRecord]
    <3> HIDE DEF c
    <3> QED
      BY <1>1, <1>5, <1>6
  <2> QED
    BY <1>1, <1>3, <1>4, <2>1 DEF TwinInv, TwinTypes
<1> HIDE DEF c
<1>9. Addressed'
  <2>1. Delivered'
    BY <1>1 DEF Addressed, Delivered, TwinInv
  <2>2. ASSUME NEW k \in Job PROVE CycleAddressed(cycle'[k])
    <3>1. CASE k = j
      <4>1. CycleAddressed(d)
        BY DEF Addressed, TwinInv
      <4> QED
        BY <1>1, <1>7, <3>1, <4>1 DEF CycleAddressed
    <3>2. CASE k # j
      BY <1>7, <3>2 DEF Addressed, TwinInv
    <3> QED
      BY <3>1, <3>2
  <2> QED
    BY <2>1, <2>2 DEF Addressed
<1>10. Shaped' /\ OneAsker' /\ Unrecorded'
  <2>1. \A x \in Envelope : Present(x)' => Present(x) \/ Plain(x)
    BY <1>1, <1>7 DEF Present
  <2>2. \A k \in Job, i \in Requests :
           /\ Recording(cycle[k]', i) => Recording(cycle[k], i) /\ cycle[k]'.role = cycle[k].role
           /\ \A x \in Outgoing(cycle[k]') : x.id = i => x \in Outgoing(cycle[k])
    BY <1>7 DEF Recording
  <2> QED
    BY <1>1, <1>3, <2>1, <2>2, Quiet DEF TwinInv
<1>11. TakenOut'
  BY <1>1, <1>3, <1>7 DEF TakenOut, TwinInv
<1>12. NoneLost'
  <2>1. ASSUME NEW i \in Requests PROVE Awaited(i)' => Awaited(i)
    BY <1>1, <1>7 DEF Awaited, Recording
  <2>2. ASSUME NEW i \in Requests \ disturbed', Awaited(i), Somewhere(i) PROVE Somewhere(i)'
    <3>1. m.id # Answer(i)
      BY <1>3, <2>2, AnswerId
    <3>2. m.id # i
      <4>1. SUFFICES ASSUME m.id = i PROVE FALSE
        OBVIOUS
      <4>2. Asking(cycle[j], i) /\ ~Recording(cycle[j], i)
        BY <1>1, <1>7, <4>1 DEF Asking, Recording
      <4>3. /\ \A r \in Twin : requests[r][i] = "none"
            /\ \A k \in Job : Asking(cycle[k], i) => k = j
        BY <1>3, <2>2, <4>2 DEF TwinInv, Unrecorded
      <4> QED
        BY <2>2, <4>2, <4>3 DEF Awaited, Asking
    <3>3. CASE \E r \in Twin : \E x \in inbox[r] : x.id \in {i, Answer(i)}
      BY <1>1, <3>3 DEF Somewhere, Answer
    <3>4. CASE \E k \in Job : \E x \in InHand(cycle[k]) : x.id \in {i, Answer(i)}
      BY <1>7, <3>1, <3>2, <3>4 DEF Somewhere, Answer
    <3> QED
      BY <2>2, <3>3, <3>4 DEF Somewhere, Answer
  <2> QED
    BY <1>1, <1>3, <2>1, <2>2 DEF NoneLost, TwinInv
<1> QED
  BY <1>8, <1>9, <1>10, <1>11, <1>12 DEF TwinInv

LEMMA SendKeeps ==
  ASSUME TwinInv, NEW j \in Job, cycle[j].pc = "act", NEW m \in cycle[j].out,
         SendMessage(j, m)
  PROVE  TwinInv'
<1> DEFINE d == cycle[j]
           rest == d.out \ {m}
           asks == ~(m.from = m.to \/ IsResponse(m.id))
           c == IF asks THEN [pc |-> "record", role |-> d.role, id |-> m.id, out |-> rest]
                ELSE [pc |-> "act", role |-> d.role, out |-> rest]
<1>1. /\ cycle \in [Job -> CycleRecord] /\ d \in CycleRecord /\ d.pc = "act"
      /\ inbox \in [Twin \cup {Human} -> SUBSET Envelope]
      /\ inbox' = IF m.from = m.to THEN inbox
                  ELSE [inbox EXCEPT ![m.to] = {x \in @ : x.id # m.id} \cup {m}]
      /\ requests' = requests /\ issued' = issued /\ disturbed' = disturbed
      /\ counter' = counter /\ cycles' = cycles /\ faults' = faults
  BY DEF SendMessage, TwinInv, TwinTypes
<1>2. /\ d.role \in Twin /\ d.out \subseteq Envelope /\ rest \subseteq Envelope
      /\ m \in Envelope /\ m.id \in Id /\ m.from \in Twin /\ m.to \in Twin \cup {Human}
      /\ d = [pc |-> "act", role |-> d.role, out |-> d.out]
  BY <1>1, CycleShape DEF Envelope
<1>3. cycle' = [cycle EXCEPT ![j] = c]
  <2>1. [d EXCEPT !.out = @ \ {m}] = [pc |-> "act", role |-> d.role, out |-> rest]
    BY <1>2
  <2> QED
    BY <2>1 DEF SendMessage
<1>4. c \in CycleRecord
  BY <1>2, CycleMade
<1>5. c.role = d.role /\ c.out = rest
      /\ ((c.pc = "act" /\ ~asks) \/ (c.pc = "record" /\ c.id = m.id /\ asks))
  <2>1. CASE asks
    BY <2>1
  <2>2. CASE ~asks
    BY <2>2
  <2> QED
    BY <2>1, <2>2
<1> HIDE DEF c, rest
<1>6. /\ cycle'[j] = c
      /\ \A k \in Job \ {j} : cycle'[k] = cycle[k]
      /\ Held(c) = rest /\ Outgoing(c) = rest /\ InHand(c) = rest
      /\ Held(d) = d.out /\ Outgoing(d) = d.out /\ InHand(d) = d.out
  BY <1>1, <1>3, <1>4, <1>5, HoldingIs
<1>7. /\ inbox' \in [Twin \cup {Human} -> SUBSET Envelope]
      /\ m.from # m.to => m \in inbox'[m.to]
      /\ \A x \in Twin \cup {Human} : \A y \in inbox'[x] :
           y \in inbox[x] \/ (y = m /\ x = m.to)
      /\ \A x \in Twin \cup {Human} : \A y \in inbox[x] :
           y \in inbox'[x] \/ (y.id = m.id /\ m.from # m.to)
  <2>1. CASE m.from = m.to
    BY <1>1, <2>1
  <2>2. CASE m.from # m.to
    <3> DEFINE S == {x \in inbox[m.to] : x.id # m.id} \cup {m}
    <3>1. inbox' = [inbox EXCEPT ![m.to] = S]
      BY <1>1, <2>2
    <3>2. S \subseteq Envelope
      BY <1>1, <1>2
    <3>3. inbox'[m.to] = S /\ \A x \in Twin \cup {Human} : x # m.to => inbox'[x] = inbox[x]
      BY <1>1, <1>2, <3>1
    <3>4. inbox' \in [Twin \cup {Human} -> SUBSET Envelope]
      BY <1>1, <1>2, <3>1, <3>2
    <3> QED
      BY <2>2, <3>3, <3>4
  <2> QED
    BY <2>1, <2>2
<1>8. TwinTypes'
  <2>1. cycle' \in [Job -> CycleRecord]
    BY <1>1, <1>3, <1>4
  <2> QED
    BY <1>1, <1>7, <2>1 DEF TwinInv, TwinTypes
<1>9. \A x \in d.out : IsRequest(x.id) => x.from = d.role
  BY <1>6 DEF Addressed, CycleAddressed, TwinInv
<1>10. Addressed'
  <2>1. Delivered'
    BY <1>7 DEF Addressed, Delivered, TwinInv
  <2>2. ASSUME NEW k \in Job PROVE CycleAddressed(cycle'[k])
    <3>1. CASE k = j
      BY <1>5, <1>6, <1>9, <3>1 DEF CycleAddressed, rest
    <3>2. CASE k # j
      BY <1>6, <3>2 DEF Addressed, TwinInv
    <3> QED
      BY <3>1, <3>2
  <2> QED
    BY <2>1, <2>2 DEF Addressed
<1>11. Present(m)
  BY <1>6 DEF Present
<1>12. \A x \in Envelope : Present(x)' => Present(x)
  BY <1>6, <1>7, <1>11 DEF Present, rest
<1>13. /\ \A i \in Requests : Recording(cycle'[j], i) => m.id = i
       /\ \A i \in Requests, k \in Job \ {j} : Recording(cycle'[k], i) => Recording(cycle[k], i)
                                                         /\ cycle'[k].role = cycle[k].role
       /\ cycle'[j].role = d.role
  BY <1>5, <1>6 DEF Recording
<1>14. InShape(m)
  BY <1>2, <1>11 DEF TwinInv, Shaped
<1>15. Shaped'
  <2>1. ASSUME NEW x \in Envelope, Present(x)' PROVE InShape(x)'
    <3>1. InShape(x)
      BY <1>12, <2>1 DEF TwinInv, Shaped
    <3> QED
      BY <1>1, <3>1 DEF InShape
  <2>2. ASSUME NEW i \in Requests, m.id = i PROVE i \in issued
    BY <1>14, <2>2 DEF InShape, Requests
  <2> QED
    BY <1>1, <1>13, <2>1, <2>2 DEF TwinInv, Shaped
<1>16. OneAsker'
  <2>1. ASSUME NEW i \in Requests, NEW r \in Twin, AskedBy(i, r)' PROVE AskedBy(i, r)
    <3>1. CASE \E x \in Envelope : /\ Present(x)'
                                   /\ (x.id = i /\ x.from = r) \/ (x.id = Answer(i) /\ x.to = r)
      BY <1>12, <3>1 DEF AskedBy
    <3>2. CASE requests'[r][i] # "none"
      BY <1>1, <3>2 DEF AskedBy
    <3>3. CASE \E k \in Job : Recording(cycle'[k], i) /\ cycle'[k].role = r
      <4>1. PICK k \in Job : Recording(cycle'[k], i) /\ cycle'[k].role = r
        BY <3>3
      <4>2. CASE k = j
        <5>1. m.id = i /\ r = d.role /\ IsRequest(i)
          BY <1>13, <4>1, <4>2 DEF Requests
        <5>2. m.from = r
          BY <1>9, <5>1
        <5> QED
          BY <1>2, <1>11, <5>1, <5>2 DEF AskedBy
      <4>3. CASE k # j
        BY <1>13, <4>1, <4>3 DEF AskedBy
      <4> QED
        BY <4>2, <4>3
    <3> QED
      BY <2>1, <3>1, <3>2, <3>3 DEF AskedBy
  <2> QED
    BY <1>1, <2>1 DEF TwinInv, OneAsker
<1>17. ASSUME NEW i \in Requests, NEW x \in d.out, x.id = i, m.id = i PROVE x = m
  <2>1. x \in Envelope /\ Present(x) /\ IsRequest(i)
    BY <1>2, <1>6 DEF Present, Requests
  <2>2. InShape(x)
    BY <2>1 DEF TwinInv, Shaped
  <2>3. x.to = m.to /\ x.from = m.from
    BY <1>9, <1>14, <1>17, <2>1, <2>2 DEF InShape
  <2> QED
    BY <1>2, <1>17, <2>1, <2>3 DEF Envelope
<1>18. Unrecorded'
  <2>1. \A i \in Requests, k \in Job : Asking(cycle'[k], i) => Asking(cycle[k], i)
    BY <1>6, <1>13 DEF Asking, rest
  <2>2. ASSUME NEW i \in Requests \ disturbed, NEW k \in Job, Recording(cycle'[k], i)
        PROVE  \A x \in Outgoing(cycle'[k]) : x.id # i
    <3>1. CASE k = j
      BY <1>6, <1>13, <1>17, <2>2, <3>1 DEF rest
    <3>2. CASE k # j
      <4>1. Recording(cycle[k], i) /\ Asking(cycle[k], i)
        BY <1>13, <2>2, <3>2 DEF Asking
      <4> QED
        BY <1>6, <3>2, <4>1 DEF TwinInv, Unrecorded
    <3> QED
      BY <3>1, <3>2
  <2> QED
    BY <1>1, <2>1, <2>2 DEF TwinInv, Unrecorded
<1>19. TakenOut'
  BY <1>1, <1>5, <1>6 DEF TwinInv, TakenOut
<1>20. NoneLost'
  <2>1. ASSUME NEW i \in Requests \ disturbed', Awaited(i)' PROVE Somewhere(i)'
    <3>1. ASSUME m.id \in {i, Answer(i)} PROVE Somewhere(i)'
      <4>1. m.from # m.to /\ m.to \in Twin
        <5>1. CASE m.id = i
          BY <1>14, <5>1, TwinAssumption, IdIs DEF InShape, Requests
        <5>2. CASE m.id = Answer(i)
          BY <1>14, <5>2 DEF InShape
        <5> QED
          BY <3>1, <5>1, <5>2
      <4> QED
        BY <1>7, <3>1, <4>1 DEF Somewhere, Answer
    <3>2. CASE m.id \notin {i, Answer(i)}
      <4>1. Awaited(i)
        <5>1. \A k \in Job : Recording(cycle'[k], i) => Recording(cycle[k], i)
          BY <1>13, <3>2
        <5> QED
          BY <1>1, <2>1, <5>1 DEF Awaited
      <4>2. Somewhere(i)
        BY <1>1, <2>1, <4>1 DEF TwinInv, NoneLost
      <4>3. CASE \E r \in Twin : \E x \in inbox[r] : x.id \in {i, Answer(i)}
        BY <1>7, <3>2, <4>3 DEF Somewhere, Answer
      <4>4. CASE \E k \in Job : \E x \in InHand(cycle[k]) : x.id \in {i, Answer(i)}
        <5>1. PICK k \in Job : \E x \in InHand(cycle[k]) : x.id \in {i, Answer(i)}
          BY <4>4
        <5>2. \E x \in InHand(cycle'[k]) : x.id \in {i, Answer(i)}
          BY <1>6, <3>2, <5>1 DEF rest
        <5> QED
          BY <5>2 DEF Somewhere, Answer
      <4> QED
        BY <4>2, <4>3, <4>4 DEF Somewhere, Answer
    <3> QED
      BY <3>1, <3>2
  <2> QED
    BY <2>1 DEF NoneLost
<1> QED
  BY <1>8, <1>10, <1>15, <1>16, <1>18, <1>19, <1>20 DEF TwinInv

LEMMA RecordKeeps ==
  ASSUME TwinInv, NEW j \in Job, _record_pending_request(j)
  PROVE  TwinInv'
<1> DEFINE d == cycle[j]
           c == [pc |-> "act", role |-> d.role, out |-> d.out]
<1>1. /\ cycle \in [Job -> CycleRecord] /\ d \in CycleRecord /\ d.pc = "record"
      /\ requests \in [Twin -> [Id -> Statuses]]
      /\ requests' = [requests EXCEPT ![d.role][d.id] = "pending"]
      /\ inbox' = inbox /\ issued' = issued /\ disturbed' = disturbed
      /\ counter' = counter /\ cycles' = cycles /\ faults' = faults
      /\ cycle' = [cycle EXCEPT ![j] = c]
  BY DEF _record_pending_request, TwinInv, TwinTypes
<1>2. d.role \in Twin /\ d.out \subseteq Envelope /\ d.id \in Id
  BY <1>1, CycleShape
<1>3. c \in CycleRecord
  BY <1>2, CycleMade
<1>4. /\ cycle'[j] = c
      /\ \A k \in Job \ {j} : cycle'[k] = cycle[k]
      /\ Held(c) = Held(d) /\ Outgoing(c) = Outgoing(d) /\ InHand(c) = InHand(d)
      /\ Outgoing(d) = d.out
      /\ c.pc = "act" /\ c.role = d.role
  <2>1. c.pc = "act" /\ c.out = d.out /\ c.role = d.role
    OBVIOUS
  <2> HIDE DEF c
  <2> QED
    BY <1>1, <1>3, <2>1, HoldingIs
<1>5. /\ requests' \in [Twin -> [Id -> Statuses]]
      /\ requests'[d.role][d.id] = "pending"
      /\ \A r \in Twin, i \in Id : ~(r = d.role /\ i = d.id) => requests'[r][i] = requests[r][i]
  <2>1. "pending" \in Statuses
    BY DEF Statuses
  <2> HIDE DEF c
  <2> QED
    BY <1>1, <1>2, <2>1
<1>6. TwinTypes'
  <2>1. cycle' \in [Job -> CycleRecord]
    <3> HIDE DEF c
    <3> QED
      BY <1>1, <1>3
  <2> QED
    BY <1>1, <1>5, <2>1 DEF TwinInv, TwinTypes
<1> HIDE DEF c
<1>7. /\ Recording(d, d.id) /\ Asking(d, d.id)
      /\ \A i \in Requests : ~Recording(c, i)
      /\ \A k \in Job, i \in Requests : Recording(cycle'[k], i) => k # j /\ Recording(cycle[k], i)
      /\ \A k \in Job, i \in Requests : Asking(cycle'[k], i) => Asking(cycle[k], i)
  BY <1>1, <1>4 DEF Recording, Asking
<1>8. Addressed'
  <2>1. Delivered'
    BY <1>1 DEF Addressed, Delivered, TwinInv
  <2>2. ASSUME NEW k \in Job PROVE CycleAddressed(cycle'[k])
    <3>1. CASE k = j
      <4>1. \A x \in Outgoing(d) : IsRequest(x.id) => x.from = d.role
        BY DEF Addressed, CycleAddressed, TwinInv
      <4> QED
        BY <1>4, <3>1, <4>1 DEF CycleAddressed
    <3>2. CASE k # j
      BY <1>4, <3>2 DEF Addressed, TwinInv
    <3> QED
      BY <3>1, <3>2
  <2> QED
    BY <2>1, <2>2 DEF Addressed
<1>9. \A x \in Envelope : Present(x)' => Present(x)
  BY <1>1, <1>4 DEF Present
<1>10. Shaped'
  <2>1. ASSUME NEW x \in Envelope, Present(x)' PROVE InShape(x)'
    <3>1. InShape(x)
      BY <1>9, <2>1 DEF TwinInv, Shaped
    <3> QED
      BY <1>1, <3>1 DEF InShape
  <2>2. d.id \in Requests => d.id \in issued
    BY <1>7 DEF TwinInv, Shaped
  <2>3. ASSUME NEW r \in Twin, NEW i \in Requests, requests'[r][i] # "none"
        PROVE  i \in issued
    BY <1>5, <2>2, <2>3 DEF TwinInv, Shaped, Requests
  <2> QED
    BY <1>1, <1>7, <2>1, <2>3 DEF TwinInv, Shaped
<1>11. OneAsker'
  <2>1. ASSUME NEW i \in Requests, NEW r \in Twin, AskedBy(i, r)' PROVE AskedBy(i, r)
    <3>1. CASE \E x \in Envelope : /\ Present(x)'
                                   /\ (x.id = i /\ x.from = r) \/ (x.id = Answer(i) /\ x.to = r)
      BY <1>9, <3>1 DEF AskedBy
    <3>2. CASE requests'[r][i] # "none"
      <4>1. CASE r = d.role /\ i = d.id
        BY <1>7, <4>1 DEF AskedBy
      <4>2. CASE ~(r = d.role /\ i = d.id)
        BY <1>5, <3>2, <4>2 DEF AskedBy, Requests
      <4> QED
        BY <4>1, <4>2
    <3>3. CASE \E k \in Job : Recording(cycle'[k], i) /\ cycle'[k].role = r
      BY <1>4, <1>7, <3>3 DEF AskedBy
    <3> QED
      BY <2>1, <3>1, <3>2, <3>3 DEF AskedBy
  <2> QED
    BY <1>1, <2>1 DEF TwinInv, OneAsker
<1>12. Unrecorded'
  <2>1. ASSUME NEW i \in Requests \ disturbed, NEW k \in Job, Asking(cycle'[k], i)
        PROVE  /\ \A r \in Twin : requests'[r][i] = "none"
               /\ \A k2 \in Job : Asking(cycle'[k2], i) => k2 = k
               /\ Recording(cycle'[k], i) => \A x \in Outgoing(cycle'[k]) : x.id # i
    <3>1. Asking(cycle[k], i)
      BY <1>7, <2>1
    <3>2. i # d.id
      <4>1. SUFFICES ASSUME i = d.id PROVE FALSE
        OBVIOUS
      <4>2. k = j
        BY <1>7, <3>1, <4>1 DEF TwinInv, Unrecorded
      <4>3. \A x \in Outgoing(d) : x.id # i
        BY <1>7, <4>1 DEF TwinInv, Unrecorded
      <4> QED
        BY <1>4, <1>7, <2>1, <4>2, <4>3 DEF Asking
    <3>3. \A r \in Twin : requests'[r][i] = "none"
      BY <1>5, <3>1, <3>2 DEF TwinInv, Unrecorded, Requests
    <3>4. \A k2 \in Job : Asking(cycle'[k2], i) => k2 = k
      BY <1>7, <3>1 DEF TwinInv, Unrecorded
    <3>5. Recording(cycle'[k], i) => \A x \in Outgoing(cycle'[k]) : x.id # i
      BY <1>4, <1>7, <3>1 DEF TwinInv, Unrecorded
    <3> QED
      BY <3>3, <3>4, <3>5
  <2> QED
    BY <1>1, <2>1 DEF Unrecorded
<1>13. TakenOut'
  <2>1. ASSUME NEW k \in Job, cycle'[k].pc = "scan", NEW x \in cycle'[k].loaded \ cycle'[k].keep,
               IsRequest(x.id), x.id \notin disturbed'
        PROVE  requests'[x.from][x.id] \notin {"none", "pending"}
    <3>1. x.id \in Requests /\ x.from \in Twin
      <4>1. cycle'[k] \in CycleRecord
        BY <1>6 DEF TwinTypes
      <4>2. x \in Envelope
        BY <2>1, <4>1, CycleShape
      <4> QED
        BY <2>1, <4>2 DEF Envelope, Requests
    <3>2. requests[x.from][x.id] \notin {"none", "pending"}
      BY <1>1, <1>4, <2>1 DEF TwinInv, TakenOut
    <3>3. x.id # d.id
      BY <1>1, <1>7, <2>1, <3>1, <3>2 DEF TwinInv, Unrecorded
    <3> QED
      BY <1>5, <3>1, <3>2, <3>3 DEF Requests
  <2> QED
    BY <2>1 DEF TakenOut
<1>14. NoneLost'
  <2>1. ASSUME NEW i \in Requests PROVE Awaited(i)' => Awaited(i)
    <3>1. CASE i = d.id
      BY <1>7, <3>1 DEF Awaited
    <3>2. CASE i # d.id
      BY <1>5, <1>7, <3>2 DEF Awaited, Requests
    <3> QED
      BY <3>1, <3>2
  <2>2. ASSUME NEW i \in Requests, Somewhere(i) PROVE Somewhere(i)'
    BY <1>1, <1>4, <2>2 DEF Somewhere
  <2> QED
    BY <1>1, <2>1, <2>2 DEF NoneLost, TwinInv
<1> QED
  BY <1>6, <1>8, <1>10, <1>11, <1>12, <1>13, <1>14 DEF TwinInv

LEMMA LostKeeps ==
  ASSUME TwinInv, NEW j \in Job, CycleRaises(j) \/ CrashJob(j)
  PROVE  TwinInv'
<1> DEFINE d == cycle[j]
<1>1. /\ cycle \in [Job -> CycleRecord] /\ d \in CycleRecord
      /\ inbox' = inbox /\ requests' = requests /\ issued' = issued /\ cycles' = cycles
      /\ cycle' = [cycle EXCEPT ![j] = Resting]
      /\ disturbed' = disturbed \cup UNION {Traces(m) : m \in InHand(d)}
  BY DEF CycleRaises, CrashJob, CycleLost, TwinInv, TwinTypes
<1>2. InHand(d) \subseteq Envelope
  BY <1>1, HoldingIs
<1>3. disturbed' \subseteq Id
  <2>1. UNION {Traces(m) : m \in InHand(d)} \subseteq Id
    BY <1>2, TracesAreIds
  <2> QED
    BY <1>1, <2>1 DEF TwinInv, TwinTypes
<1>4. /\ disturbed \subseteq disturbed'
      /\ \A x \in InHand(d) : x.id \in disturbed' /\ (x.id.chain # <<>> => Parent(x.id) \in disturbed')
  <2>1. \A x \in InHand(d) : Traces(x) \subseteq disturbed'
    BY <1>1
  <2> QED
    BY <1>1, <2>1, InTraces
<1>5. TwinTypes'
  <2>1. cycle' \in [Job -> CycleRecord]
    BY <1>1, RestingHolds
  <2>2. counter' \in [Job -> 0..MaxCounter] /\ faults' \in 0..MaxFaults
    BY TwinAssumption DEF CycleRaises, CrashJob, CycleLost, TwinInv, TwinTypes
  <2> QED
    BY <1>1, <1>3, <2>1, <2>2 DEF TwinInv, TwinTypes
<1>6. cycle'[j] = Resting /\ \A k \in Job \ {j} : cycle'[k] = cycle[k]
  BY <1>1
<1>7. Addressed'
  <2>1. Delivered'
    BY <1>1 DEF Addressed, Delivered, TwinInv
  <2>2. ASSUME NEW k \in Job PROVE CycleAddressed(cycle'[k])
    <3>1. CASE k = j
      BY <1>6, <3>1, RestingHolds DEF CycleAddressed
    <3>2. CASE k # j
      BY <1>6, <3>2 DEF Addressed, TwinInv
    <3> QED
      BY <3>1, <3>2
  <2> QED
    BY <2>1, <2>2 DEF Addressed
<1>8. Shaped' /\ OneAsker' /\ Unrecorded'
  <2>1. \A x \in Envelope : Present(x)' => Present(x) \/ Plain(x)
    BY <1>1, <1>6, RestingHolds DEF Present
  <2>2. \A k \in Job, i \in Requests :
           /\ Recording(cycle[k]', i) => Recording(cycle[k], i) /\ cycle[k]'.role = cycle[k].role
           /\ \A x \in Outgoing(cycle[k]') : x.id = i => x \in Outgoing(cycle[k])
    BY <1>6, RestingHolds DEF Recording
  <2> QED
    BY <1>1, <1>4, <2>1, <2>2, Quiet DEF TwinInv
<1>9. TakenOut'
  BY <1>1, <1>4, <1>6, RestingHolds DEF TakenOut, TwinInv
<1>10. NoneLost'
  <2>1. ASSUME NEW i \in Requests PROVE Awaited(i)' => Awaited(i)
    BY <1>1, <1>6, RestingHolds DEF Awaited, Recording
  <2>2. ASSUME NEW i \in Requests \ disturbed', Somewhere(i) PROVE Somewhere(i)'
    <3>1. Parent(Answer(i)) = i /\ Answer(i).chain # <<>>
      BY AnswerId
    <3>2. \A x \in InHand(d) : x.id \notin {i, Answer(i)}
      BY <1>4, <2>2, <3>1
    <3>3. CASE \E r \in Twin : \E x \in inbox[r] : x.id \in {i, Answer(i)}
      BY <1>1, <3>3 DEF Somewhere, Answer
    <3>4. CASE \E k \in Job : \E x \in InHand(cycle[k]) : x.id \in {i, Answer(i)}
      <4>1. PICK k \in Job : \E x \in InHand(cycle[k]) : x.id \in {i, Answer(i)}
        BY <3>4
      <4>2. k # j
        BY <3>2, <4>1
      <4> QED
        BY <1>6, <4>1, <4>2 DEF Somewhere, Answer
    <3> QED
      BY <2>2, <3>3, <3>4 DEF Somewhere, Answer
  <2> QED
    BY <1>1, <1>4, <2>1, <2>2 DEF NoneLost, TwinInv
<1> QED
  BY <1>5, <1>7, <1>8, <1>9, <1>10 DEF TwinInv

LEMMA TwinInvInit == TwinInit => TwinInv
<1> SUFFICES ASSUME TwinInit PROVE TwinInv
  OBVIOUS
<1>1. TwinTypes
  <2>1. "none" \in Statuses /\ Resting \in CycleRecord
    BY RestingHolds DEF Statuses
  <2> QED
    BY <2>1, TwinAssumption DEF TwinInit, TwinTypes
<1>2. \A j \in Job : cycle[j] = Resting
  BY DEF TwinInit
<1>3. Addressed
  BY <1>2, RestingHolds DEF TwinInit, Addressed, Delivered, CycleAddressed
<1>4. \A i \in Requests : /\ \A r \in Twin : requests[r][i] = "none"
                          /\ \A j \in Job : ~Recording(cycle[j], i) /\ ~Asking(cycle[j], i)
  BY <1>2, RestingHolds DEF TwinInit, Requests, Recording, Asking
<1>5. \A m \in Envelope : ~Present(m)
  BY <1>2, RestingHolds DEF TwinInit, Present
<1>6. Shaped /\ OneAsker /\ Unrecorded
  BY <1>4, <1>5 DEF Shaped, OneAsker, AskedBy, Unrecorded
<1>7. TakenOut
  BY <1>2, RestingHolds DEF TakenOut
<1>8. NoneLost
  BY <1>4 DEF NoneLost, Awaited
<1> QED
  BY <1>1, <1>3, <1>6, <1>7, <1>8 DEF TwinInv

LEMMA TwinInvNext == TwinInv /\ [TwinNext]_twinVars => TwinInv'
<1> SUFFICES ASSUME TwinInv, [TwinNext]_twinVars PROVE TwinInv'
  OBVIOUS
<1>1. CASE UNCHANGED twinVars
  <2>1. /\ inbox' = inbox /\ requests' = requests /\ cycle' = cycle /\ counter' = counter
        /\ cycles' = cycles /\ faults' = faults /\ issued' = issued /\ disturbed' = disturbed
    BY <1>1 DEF twinVars
  <2>2. TwinTypes' /\ Addressed' /\ Shaped' /\ OneAsker'
    BY <2>1 DEF TwinInv, TwinTypes, Addressed, Delivered, Shaped, InShape, Present, OneAsker,
                AskedBy
  <2>3. Unrecorded' /\ TakenOut' /\ NoneLost'
    BY <2>1 DEF TwinInv, Unrecorded, TakenOut, NoneLost, Awaited, Somewhere
  <2> QED
    BY <2>2, <2>3 DEF TwinInv
<1>2. CASE TwinNext
  <2> SUFFICES ASSUME NEW j \in Job,
          \/ \E r \in Twin : BeginCycle(j, r)
          \/ cycle[j].pc = "scan" /\ \E m \in cycle[j].keep : ExpireMessage(j, m)
          \/ SaveScanned(j) \/ Consume(j)
          \/ cycle[j].pc = "observe" /\ \E m \in cycle[j].got :
               \/ Reconcile(j, m) \/ DecideToRespond(j, m) \/ LetGo(j, m)
               \/ \E to \in Twin : Misaddress(j, m, to)
          \/ \E k \in Kpi : DecideToAsk(j, k)
          \/ AskReplaced(j) \/ DecideNoMore(j)
          \/ cycle[j].pc = "act" /\ \E m \in cycle[j].out :
               SendMessage(j, m) \/ SendRaises(j, m)
          \/ _record_pending_request(j) \/ GoesUnrecorded(j) \/ EndCycle(j)
          \/ CycleRaises(j) \/ CrashJob(j)
       PROVE TwinInv'
    BY <1>2 DEF TwinNext
  <2>1. CASE \E r \in Twin : BeginCycle(j, r)
    BY <2>1, BeginKeeps
  <2>2. CASE cycle[j].pc = "scan" /\ \E m \in cycle[j].keep : ExpireMessage(j, m)
    BY <2>2, ExpireKeeps
  <2>3. CASE SaveScanned(j)
    BY <2>3, SaveKeeps
  <2>4. CASE Consume(j)
    BY <2>4, ConsumeKeeps
  <2>5. CASE cycle[j].pc = "observe" /\ \E m \in cycle[j].got :
               \/ Reconcile(j, m) \/ DecideToRespond(j, m) \/ LetGo(j, m)
               \/ \E to \in Twin : Misaddress(j, m, to)
    BY <2>5, ReconcileKeeps, RespondKeeps, LetGoKeeps
  <2>6. CASE \E k \in Kpi : DecideToAsk(j, k)
    BY <2>6, AskKeeps
  <2>7. CASE AskReplaced(j) \/ DecideNoMore(j)
    BY <2>7, NoMoreKeeps
  <2>8. CASE cycle[j].pc = "act" /\ \E m \in cycle[j].out :
                SendMessage(j, m) \/ SendRaises(j, m)
    BY <2>8, SendKeeps, UnsentKeeps
  <2>9. CASE _record_pending_request(j) \/ GoesUnrecorded(j)
    BY <2>9, RecordKeeps, UnrecordedKeeps
  <2>10. CASE EndCycle(j)
    BY <2>10, EndKeeps
  <2>11. CASE CycleRaises(j) \/ CrashJob(j)
    BY <2>11, LostKeeps
  <2> QED
    BY <2>1, <2>2, <2>3, <2>4, <2>5, <2>6, <2>7, <2>8, <2>9, <2>10, <2>11
<1> QED
  BY <1>1, <1>2

(* Whatever twins, the API and the workers do in their cycles, wherever one *)
(* of them dies or raises, and whatever the model's list puts in place of   *)
(* an answer, a request that its twin has on record as pending is in an     *)
(* inbox, in a cycle, or answered there, unless it was disturbed (observe,  *)
(* act, run_once, process_escalations, _record_pending_request).            *)
THEOREM PendingKept == TwinSpec => []PendingIsSomewhere
<1>1. TwinInv => PendingIsSomewhere
  <2> SUFFICES ASSUME TwinInv, NEW r \in Twin, NEW i \in Id, IsRequest(i),
                      requests[r][i] = "pending", i \notin disturbed
               PROVE  Somewhere(i)
    BY DEF PendingIsSomewhere
  <2>1. i \in Requests \ disturbed /\ Awaited(i)
    BY DEF Requests, Awaited
  <2> QED
    BY <2>1 DEF TwinInv, NoneLost
<1> QED
  BY TwinInvInit, TwinInvNext, <1>1, PTL DEF TwinSpec
=============================================================================
