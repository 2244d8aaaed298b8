---------------------------- MODULE FoldProofs ----------------------------
(***************************************************************************)
(* Folds over finite sets and the sums built from them, as far as the       *)
(* quantities and the money of this project need them.                      *)
(*                                                                         *)
(* A fold is a function on the subsets of a set: the empty set has the start *)
(* value, any other set the value of the set without one chosen member, and  *)
(* that member added.  Such a function exists for every choice (FoldExists), *)
(* and what every addition preserves holds of the whole (Descent).          *)
(***************************************************************************)
EXTENDS Integers, FiniteSets, FiniteSetsExt, FiniteSetTheorems, WellFoundedInduction, TLAPS

(* A choice of one member of every non-empty subset.                        *)
Chooses(c, S) == \A s \in SUBSET S : s # {} => c[s] \in s

(* What holds of the empty set, and of a set when it holds without its       *)
(* chosen member, holds of every subset of a finite set.                    *)
LEMMA Descent ==
  ASSUME NEW S, IsFiniteSet(S), NEW c, Chooses(c, S), NEW P,
         {} \in P, \A s \in SUBSET S : s # {} /\ s \ {c[s]} \in P => s \in P
  PROVE  SUBSET S \subseteq P
<1> DEFINE bad == (SUBSET S) \ P
<1> SUFFICES ASSUME bad # {} PROVE FALSE
  OBVIOUS
<1>1. bad \subseteq FiniteSubsetsOf(S)
  BY FS_Subset DEF FiniteSubsetsOf
<1>2. IsWellFoundedOn(StrictSubsetOrdering(S), FiniteSubsetsOf(S))
  BY FS_StrictSubsetOrderingWellFounded
<1> HIDE DEF bad
<1>3. PICK s \in bad : \A t \in bad : ~(<<t, s>> \in StrictSubsetOrdering(S))
  BY <1>1, <1>2, WFMin
<1> USE DEF bad
<1>4. s \in SUBSET S /\ s # {} /\ s \ {c[s]} \notin P
  OBVIOUS
<1>5. c[s] \in s
  BY <1>4 DEF Chooses
<1>6. s \ {c[s]} \in bad
  BY <1>4
<1>7. <<s \ {c[s]}, s>> \in StrictSubsetOrdering(S)
  BY <1>4, <1>5 DEF StrictSubsetOrdering
<1> QED
  BY <1>3, <1>6, <1>7

(* Induction on the natural numbers, for a set of them.                     *)
LEMMA AllNaturals ==
  ASSUME NEW P, 0 \in P, \A n \in Nat : n \in P => n + 1 \in P
  PROVE  Nat \subseteq P
<1> DEFINE bad == Nat \ P
<1> SUFFICES ASSUME bad # {} PROVE FALSE
  OBVIOUS
<1> HIDE DEF bad
<1>1. PICK n \in bad : \A m \in bad : ~(<<m, n>> \in OpToRel(<, Nat))
  <2>1. bad \subseteq Nat
    BY DEF bad
  <2> QED
    BY <2>1, WFMin, NatLessThanWellFounded
<1>2. n \in Nat /\ n # 0 /\ n - 1 \in Nat
  BY DEF bad
<1>3. n - 1 \in bad
  <2>1. n - 1 + 1 = n
    BY <1>2
  <2> QED
    BY <1>2, <2>1 DEF bad
<1>4. <<n - 1, n>> \in OpToRel(<, Nat)
  BY <1>2 DEF OpToRel
<1> QED
  BY <1>1, <1>3, <1>4

----------------------------------------------------------------------------
IsFold(f, S, c, start, F) ==
  f = [s \in SUBSET S |-> IF s = {} THEN start ELSE F[<<c[s], f[s \ {c[s]}]>>]]

(* There is a fold of every finite set, along any choice.                   *)
LEMMA FoldExists ==
  ASSUME NEW S, IsFiniteSet(S), NEW c, Chooses(c, S),
         NEW V, NEW start \in V, NEW F, \A x \in S, v \in V : F[<<x, v>>] \in V
  PROVE  \E f \in [SUBSET S -> V] : IsFold(f, S, c, start, F)
<1> DEFINE D == SUBSET S
           Step(f, s) == IF s = {} THEN start ELSE F[<<c[s], f[s \ {c[s]}]>>]
           Upto(f, n) == \A s \in D : Cardinality(s) <= n => f[s] = Step(f, s)
           Reached == {n \in Nat : \E f \in [D -> V] : Upto(f, n)}
<1>1. ASSUME NEW s \in D
      PROVE  /\ Cardinality(s) \in Nat
             /\ Cardinality(s) = 0 <=> s = {}
             /\ Cardinality(s) <= Cardinality(S)
             /\ s # {} => /\ c[s] \in S /\ s \ {c[s]} \in D
                          /\ Cardinality(s \ {c[s]}) = Cardinality(s) - 1
  <2>1. IsFiniteSet(s)
    BY FS_Subset
  <2>2. Cardinality(s) <= Cardinality(S)
    BY FS_Subset
  <2> QED
    BY <2>1, <2>2, FS_CardinalityType, FS_EmptySet, FS_RemoveElement DEF Chooses
<1>2. S \in D
  OBVIOUS
<1> HIDE DEF D
<1>3. 0 \in Reached
  <2> DEFINE f == [s \in D |-> start]
  <2>1. f \in [D -> V]
    OBVIOUS
  <2>2. ASSUME NEW s \in D, Cardinality(s) <= 0 PROVE f[s] = Step(f, s)
    <3>0. Cardinality(s) \in Nat
      BY <1>1, Zenon
    <3>1. Cardinality(s) = 0
      BY <2>2, <3>0
    <3>2. s = {}
      BY <1>1, <3>1, Zenon
    <3> QED
      BY <3>2
  <2> HIDE DEF f
  <2> QED
    BY <2>1, <2>2
<1>4. ASSUME NEW n \in Nat, n \in Reached PROVE n + 1 \in Reached
  <2>1. PICK f \in [D -> V] : Upto(f, n)
    BY <1>4
  <2> DEFINE g == [s \in D |-> IF Cardinality(s) <= n THEN f[s] ELSE Step(f, s)]
  <2>2. g \in [D -> V]
    <3> SUFFICES ASSUME NEW s \in D PROVE Step(f, s) \in V
      OBVIOUS
    <3>1. CASE s = {}
      BY <3>1
    <3>2. CASE s # {}
      <4>1. c[s] \in S /\ f[s \ {c[s]}] \in V
        BY <1>1, <3>2
      <4> QED
        BY <3>2, <4>1
    <3> QED
      BY <3>1, <3>2
  <2>3. ASSUME NEW s \in D, Cardinality(s) <= n + 1
        PROVE  g[s] = Step(g, s)
    <3>1. CASE s = {}
      <4>1. Cardinality(s) <= n
        BY <1>1, <3>1
      <4>2. g[s] = f[s] /\ f[s] = start
        BY <2>1, <3>1, <4>1
      <4> QED
        BY <3>1, <4>2
    <3>2. CASE s # {}
      <4>1. s \ {c[s]} \in D /\ Cardinality(s \ {c[s]}) = Cardinality(s) - 1
            /\ Cardinality(s) \in Nat
        BY <1>1, <3>2
      <4>2. Cardinality(s \ {c[s]}) <= n
        BY <2>3, <4>1
      <4>3. g[s \ {c[s]}] = f[s \ {c[s]}]
        BY <4>1, <4>2
      <4>4. g[s] = Step(f, s)
        BY <2>1
      <4> QED
        BY <3>2, <4>3, <4>4
    <3> QED
      BY <3>1, <3>2
  <2> HIDE DEF g, Step
  <2>4. Upto(g, n + 1)
    BY <2>3
  <2>5. n + 1 \in Nat
    OBVIOUS
  <2> QED
    BY <2>2, <2>4, <2>5
<1>5. Cardinality(S) \in Reached
  <2>1. Nat \subseteq Reached
    <3> HIDE DEF Reached
    <3> QED
      BY <1>3, <1>4, AllNaturals
  <2>2. Cardinality(S) \in Nat
    BY <1>1, <1>2
  <2> QED
    BY <2>1, <2>2
<1>6. PICK f \in [D -> V] : Upto(f, Cardinality(S))
  BY <1>5
<1>7. \A s \in D : f[s] = Step(f, s)
  BY <1>1, <1>6
<1>8. f = [s \in D |-> Step(f, s)]
  BY <1>6, <1>7
<1> QED
  BY <1>6, <1>8 DEF D, IsFold

(* Two functions that obey the same step agree where both do.               *)
LEMMA FoldUnique ==
  ASSUME NEW S, IsFiniteSet(S), NEW c, Chooses(c, S), NEW f, NEW g,
         f[{}] = g[{}],
         \A s \in SUBSET S : s # {} /\ f[s \ {c[s]}] = g[s \ {c[s]}] => f[s] = g[s]
  PROVE  \A s \in SUBSET S : f[s] = g[s]
<1> DEFINE P == {s \in SUBSET S : f[s] = g[s]}
<1>1. {} \in P
  OBVIOUS
<1>2. \A s \in SUBSET S : s # {} /\ s \ {c[s]} \in P => s \in P
  OBVIOUS
<1> HIDE DEF P
<1>3. SUBSET S \subseteq P
  BY <1>1, <1>2, Descent
<1> QED
  BY <1>3 DEF P

----------------------------------------------------------------------------
(* Sums.                                                                    *)

(* The sum of g over S, as MapThenSumSet forms it.                          *)
Adder(g, S) ==
  CHOOSE iter : iter = [s \in SUBSET S |->
    IF s = {} THEN 0 ELSE LET x == CHOOSE x \in s : TRUE IN g[x] + iter[s \ {x}]]
Added(g, S) == Adder(g, S)[S]

Integral(g, S) == \A x \in S : g[x] \in Int

(* MapThenSumSet is that sum.                                               *)
LEMMA SumIsAdded ==
  ASSUME NEW g, NEW S
  PROVE  MapThenSumSet(LAMBDA x : g[x], S) = Added(g, S)
  BY DEF MapThenSumSet, MapThenFoldSet, Added, Adder

(* The fold behind a sum exists: it obeys its equation, in the integers.     *)
LEMMA AdderFolds ==
  ASSUME NEW S, IsFiniteSet(S), NEW g, Integral(g, S)
  PROVE  LET it == Adder(g, S)
         IN  /\ it[{}] = 0
             /\ \A s \in SUBSET S : s # {} =>
                  LET x == CHOOSE x \in s : TRUE IN it[s] = g[x] + it[s \ {x}]
<1> DEFINE c == [s \in SUBSET S |-> CHOOSE x \in s : TRUE]
           F == [p \in S \X Int |-> g[p[1]] + p[2]]
<1>1. Chooses(c, S)
  BY DEF Chooses
<1>2. \A x \in S, v \in Int : F[<<x, v>>] = g[x] + v
  OBVIOUS
<1>8. \A x \in S, v \in Int : F[<<x, v>>] \in Int
  BY DEF Integral
<1>3. \A s \in SUBSET S : s # {} =>
        /\ c[s] = CHOOSE x \in s : TRUE
        /\ c[s] \in S /\ s \ {c[s]} \in SUBSET S
  OBVIOUS
<1> HIDE DEF F, c
<1>4. PICK f \in [SUBSET S -> Int] :
        f = [s \in SUBSET S |-> IF s = {} THEN 0 ELSE F[<<c[s], f[s \ {c[s]}]>>]]
  <2>1. 0 \in Int
    OBVIOUS
  <2>2. \E f \in [SUBSET S -> Int] : IsFold(f, S, c, 0, F)
    BY <1>1, <1>8, <2>1, FoldExists
  <2> QED
    BY <2>2 DEF IsFold
<1>5. \A s \in SUBSET S : f[s] = IF s = {} THEN 0
                                 ELSE LET x == CHOOSE x \in s : TRUE IN g[x] + f[s \ {x}]
  <2> SUFFICES ASSUME NEW s \in SUBSET S
               PROVE  f[s] = IF s = {} THEN 0
                             ELSE LET x == CHOOSE x \in s : TRUE IN g[x] + f[s \ {x}]
    OBVIOUS
  <2>1. CASE s = {}
    BY <1>4, <2>1
  <2>2. CASE s # {}
    <3>1. f[s] = F[<<c[s], f[s \ {c[s]}]>>]
      BY <1>4, <2>2
    <3>2. F[<<c[s], f[s \ {c[s]}]>>] = g[c[s]] + f[s \ {c[s]}]
      BY <1>2, <1>3, <1>4, <2>2
    <3> QED
      BY <1>3, <2>2, <3>1, <3>2
  <2> QED
    BY <2>1, <2>2
<1>6. f = [s \in SUBSET S |-> IF s = {} THEN 0
                              ELSE LET x == CHOOSE x \in s : TRUE IN g[x] + f[s \ {x}]]
  BY <1>4, <1>5
<1>7. Adder(g, S) = [s \in SUBSET S |->
        IF s = {} THEN 0 ELSE LET x == CHOOSE x \in s : TRUE IN g[x] + Adder(g, S)[s \ {x}]]
  BY <1>6 DEF Adder
<1> QED
  BY <1>7

(* The arbitrary member of every set that the library's folds choose.       *)
SomeOne(S) == [s \in SUBSET S |-> CHOOSE x \in s : TRUE]

LEMMA SomeOneChooses ==
  ASSUME NEW S
  PROVE  /\ Chooses(SomeOne(S), S)
         /\ \A s \in SUBSET S : SomeOne(S)[s] = CHOOSE x \in s : TRUE
  BY DEF SomeOne, Chooses

(* The sum over a part is the same whatever set it is a part of.            *)
LEMMA AdderLocal ==
  ASSUME NEW S, IsFiniteSet(S), NEW g, Integral(g, S), NEW T \in SUBSET S
  PROVE  Adder(g, S)[T] = Added(g, T)
<1> DEFINE f == Adder(g, S)
           h == Adder(g, T)
           c == SomeOne(T)
<1>1. IsFiniteSet(T) /\ Integral(g, T)
  BY FS_Subset DEF Integral
<1>2. /\ f[{}] = 0
      /\ \A s \in SUBSET S : s # {} =>
           LET x == CHOOSE x \in s : TRUE IN f[s] = g[x] + f[s \ {x}]
  BY AdderFolds
<1>3. /\ h[{}] = 0
      /\ \A s \in SUBSET T : s # {} =>
           LET x == CHOOSE x \in s : TRUE IN h[s] = g[x] + h[s \ {x}]
  BY <1>1, AdderFolds
<1>4. Chooses(c, T) /\ \A s \in SUBSET T : c[s] = CHOOSE x \in s : TRUE
  BY SomeOneChooses
<1> HIDE DEF f, h, c
<1>5. ASSUME NEW s \in SUBSET T, s # {}, f[s \ {c[s]}] = h[s \ {c[s]}]
      PROVE  f[s] = h[s]
  <2>1. f[s] = g[c[s]] + f[s \ {c[s]}]
    <3>1. s \in SUBSET S
      OBVIOUS
    <3> QED
      BY <1>2, <1>4, <1>5, <3>1
  <2>2. h[s] = g[c[s]] + h[s \ {c[s]}]
    BY <1>3, <1>4, <1>5
  <2> QED
    BY <1>5, <2>1, <2>2
<1>6. f[{}] = h[{}]
  BY <1>2, <1>3
<1>7. \A s \in SUBSET T : f[s] = h[s]
  BY <1>1, <1>4, <1>5, <1>6, FoldUnique
<1> QED
  BY <1>7 DEF f, h, Added

(* Nothing adds up to zero.                                                 *)
LEMMA SumEmpty ==
  ASSUME NEW g
  PROVE  Added(g, {}) = 0
<1>1. IsFiniteSet({}) /\ Integral(g, {})
  BY FS_EmptySet DEF Integral
<1> QED
  BY <1>1, AdderFolds DEF Added

(* A sum is its chosen term and the sum of the rest.                        *)
LEMMA SumChosen ==
  ASSUME NEW S, IsFiniteSet(S), S # {}, NEW g, Integral(g, S)
  PROVE  LET x == CHOOSE x \in S : TRUE IN Added(g, S) = g[x] + Added(g, S \ {x})
<1> DEFINE x == CHOOSE x \in S : TRUE
<1>1. S \in SUBSET S /\ S \ {x} \in SUBSET S
  OBVIOUS
<1>2. Adder(g, S)[S] = g[x] + Adder(g, S)[S \ {x}]
  BY <1>1, AdderFolds
<1> HIDE DEF x
<1>3. Added(g, S) = g[x] + Added(g, S \ {x})
  BY <1>1, <1>2, AdderLocal DEF Added
<1> QED
  BY <1>3 DEF x

Grows(P, S) == \A T \in SUBSET S : \A x \in S \ T : T \in P => T \cup {x} \in P

(* What holds of the empty set and survives one more member holds of every   *)
(* part of a finite set.                                                    *)
LEMMA Growth ==
  ASSUME NEW S, IsFiniteSet(S), NEW P, {} \in P, Grows(P, S)
  PROVE  SUBSET S \subseteq P
<1> DEFINE c == SomeOne(S)
<1>1. Chooses(c, S)
  BY SomeOneChooses
<1> HIDE DEF c
<1>2. ASSUME NEW s \in SUBSET S, s # {}, s \ {c[s]} \in P PROVE s \in P
  <2>1. c[s] \in s
    BY <1>1, <1>2 DEF Chooses
  <2>2. s \ {c[s]} \in SUBSET S /\ c[s] \in S \ (s \ {c[s]})
    BY <2>1
  <2>3. (s \ {c[s]}) \cup {c[s]} = s
    BY <2>1
  <2>4. (s \ {c[s]}) \cup {c[s]} \in P
    BY <1>2, <2>2 DEF Grows
  <2> QED
    BY <2>3, <2>4
<1>3. \A s \in SUBSET S : s # {} /\ s \ {c[s]} \in P => s \in P
  BY <1>2
<1> QED
  BY <1>1, <1>3, Descent

(* A sum of integers is one.                                                *)
LEMMA SumType ==
  ASSUME NEW S, IsFiniteSet(S), NEW g, Integral(g, S)
  PROVE  Added(g, S) \in Int
<1> DEFINE P == {T \in SUBSET S : Added(g, T) \in Int}
           c == SomeOne(S)
<1>1. Chooses(c, S) /\ \A s \in SUBSET S : c[s] = CHOOSE x \in s : TRUE
  BY SomeOneChooses
<1>2. {} \in P
  BY SumEmpty
<1> HIDE DEF c
<1>3. ASSUME NEW s \in SUBSET S, s # {}, s \ {c[s]} \in P PROVE s \in P
  <2>1. IsFiniteSet(s) /\ Integral(g, s) /\ c[s] \in S
    BY <1>1, <1>3, FS_Subset DEF Integral, Chooses
  <2>2. Added(g, s) = g[c[s]] + Added(g, s \ {c[s]})
    <3>1. c[s] = CHOOSE x \in s : TRUE
      BY <1>1
    <3> HIDE DEF P
    <3>2. LET x == CHOOSE x \in s : TRUE IN Added(g, s) = g[x] + Added(g, s \ {x})
      BY <1>3, <2>1, SumChosen
    <3> QED
      BY <3>1, <3>2
  <2> QED
    BY <1>3, <2>1, <2>2 DEF Integral
<1> HIDE DEF P
<1>4. SUBSET S \subseteq P
  BY <1>1, <1>2, <1>3, Descent
<1> QED
  BY <1>4 DEF P

PicksAny(g, T) == \A x \in T : Added(g, T) = g[x] + Added(g, T \ {x})

(* Any term may be taken out of a sum.                                      *)
LEMMA SumPick ==
  ASSUME NEW S, IsFiniteSet(S), NEW g, Integral(g, S), NEW x \in S
  PROVE  Added(g, S) = g[x] + Added(g, S \ {x})
<1> DEFINE Sized(n) == \A T \in SUBSET S : Cardinality(T) = n => PicksAny(g, T)
           P == {n \in Nat : Sized(n)}
<1>1. ASSUME NEW T \in SUBSET S
      PROVE  /\ IsFiniteSet(T) /\ Integral(g, T) /\ Cardinality(T) \in Nat
             /\ Cardinality(T) = 0 => T = {}
             /\ \A y \in T : Cardinality(T \ {y}) = Cardinality(T) - 1
             /\ Added(g, T) \in Int
  <2>1. IsFiniteSet(T)
    BY FS_Subset
  <2>2. Integral(g, T)
    BY DEF Integral
  <2> QED
    BY <2>1, <2>2, SumType, FS_CardinalityType, FS_EmptySet, FS_RemoveElement
<1>2. 0 \in P
  <2> SUFFICES ASSUME NEW T \in SUBSET S, Cardinality(T) = 0 PROVE PicksAny(g, T)
    OBVIOUS
  <2>1. T = {}
    BY <1>1
  <2> QED
    BY <2>1 DEF PicksAny
<1>3. ASSUME NEW n \in Nat, n \in P PROVE n + 1 \in P
  <2> SUFFICES ASSUME NEW T \in SUBSET S, Cardinality(T) = n + 1, NEW y \in T
               PROVE  Added(g, T) = g[y] + Added(g, T \ {y})
    BY DEF PicksAny
  <2>1. PICK z : z = CHOOSE w \in T : TRUE
    OBVIOUS
  <2>2. z \in T
    BY <2>1
  <2>3. Added(g, T) = g[z] + Added(g, T \ {z})
    <3>1. IsFiniteSet(T) /\ Integral(g, T) /\ T # {}
      BY <1>1
    <3> QED
      BY <2>1, <3>1, SumChosen
  <2>4. CASE y = z
    BY <2>3, <2>4
  <2>5. CASE y # z
    <3> DEFINE U == T \ {y, z}
    <3>1. T \ {z} \in SUBSET S /\ T \ {y} \in SUBSET S /\ U \in SUBSET S
      OBVIOUS
    <3>2. Cardinality(T \ {z}) = n /\ Cardinality(T \ {y}) = n
      BY <1>1, <2>2
    <3>3. PicksAny(g, T \ {z}) /\ PicksAny(g, T \ {y})
      BY <1>3, <3>1, <3>2
    <3>4. (T \ {z}) \ {y} = U /\ (T \ {y}) \ {z} = U /\ y \in T \ {z} /\ z \in T \ {y}
      BY <2>2, <2>5
    <3>5. /\ Added(g, T \ {z}) = g[y] + Added(g, U)
          /\ Added(g, T \ {y}) = g[z] + Added(g, U)
      BY <3>3, <3>4 DEF PicksAny
    <3>6. g[y] \in Int /\ g[z] \in Int /\ Added(g, U) \in Int
      BY <1>1, <2>2, <3>1 DEF Integral
    <3> HIDE DEF U
    <3> QED
      BY <2>3, <3>5, <3>6
  <2> QED
    BY <2>4, <2>5
<1>4. Nat \subseteq P
  <2> HIDE DEF P
  <2> QED
    BY <1>2, <1>3, AllNaturals
<1>5. Cardinality(S) \in P /\ S \in SUBSET S
  BY <1>1, <1>4
<1>6. PicksAny(g, S)
  BY <1>5
<1> QED
  BY <1>6 DEF PicksAny

(* One member more adds its term.                                           *)
LEMMA SumGrows ==
  ASSUME NEW S, IsFiniteSet(S), NEW g, Integral(g, S), NEW T \in SUBSET S, NEW x \in S \ T
  PROVE  /\ Added(g, T \cup {x}) = g[x] + Added(g, T)
         /\ g[x] \in Int /\ Added(g, T) \in Int
<1> DEFINE U == T \cup {x}
<1>1. IsFiniteSet(U) /\ IsFiniteSet(T)
  BY FS_Subset
<1>2. Integral(g, U) /\ Integral(g, T)
  BY DEF Integral
<1>3. x \in U /\ U \ {x} = T
  OBVIOUS
<1> HIDE DEF U
<1>4. Added(g, U) = g[x] + Added(g, U \ {x})
  BY <1>1, <1>2, <1>3, SumPick
<1>5. Added(g, T) \in Int
  BY <1>1, <1>2, SumType
<1> QED
  BY <1>3, <1>4, <1>5 DEF U, Integral

(* Larger terms make no smaller sum.                                        *)
LEMMA SumOrder ==
  ASSUME NEW S, IsFiniteSet(S), NEW g, Integral(g, S), NEW h, Integral(h, S),
         \A x \in S : g[x] <= h[x]
  PROVE  Added(g, S) <= Added(h, S)
<1> DEFINE P == {T \in SUBSET S : Added(g, T) <= Added(h, T)}
<1>1. {} \in P
  BY SumEmpty
<1>2. Grows(P, S)
  <2> SUFFICES ASSUME NEW T \in SUBSET S, NEW x \in S \ T, Added(g, T) <= Added(h, T)
               PROVE  Added(g, T \cup {x}) <= Added(h, T \cup {x})
    BY DEF Grows
  <2>1. /\ Added(g, T \cup {x}) = g[x] + Added(g, T)
        /\ g[x] \in Int /\ Added(g, T) \in Int
    BY SumGrows
  <2>2. /\ Added(h, T \cup {x}) = h[x] + Added(h, T)
        /\ h[x] \in Int /\ Added(h, T) \in Int
    BY SumGrows
  <2>3. g[x] <= h[x]
    OBVIOUS
  <2> QED
    BY <2>1, <2>2, <2>3
<1> HIDE DEF P
<1>3. SUBSET S \subseteq P
  BY <1>1, <1>2, Growth
<1>4. S \in P
  BY <1>3
<1> QED
  BY <1>4 DEF P

(* Equal terms make equal sums.                                             *)
LEMMA SumSame ==
  ASSUME NEW S, IsFiniteSet(S), NEW g, Integral(g, S), NEW h,
         \A x \in S : g[x] = h[x]
  PROVE  Added(g, S) = Added(h, S)
<1>1. Integral(h, S)
  BY DEF Integral
<1>2. \A x \in S : g[x] <= h[x] /\ h[x] <= g[x]
  BY <1>1 DEF Integral
<1>3. Added(g, S) <= Added(h, S) /\ Added(h, S) <= Added(g, S)
  BY <1>1, <1>2, SumOrder
<1> QED
  BY <1>1, <1>3, SumType

(* Sums add term by term.                                                   *)
LEMMA SumPlus ==
  ASSUME NEW S, IsFiniteSet(S), NEW g, Integral(g, S), NEW h, Integral(h, S),
         NEW k, \A x \in S : k[x] = g[x] + h[x]
  PROVE  Added(k, S) = Added(g, S) + Added(h, S)
<1> DEFINE P == {T \in SUBSET S : Added(k, T) = Added(g, T) + Added(h, T)}
<1>0. Integral(k, S)
  BY DEF Integral
<1>1. {} \in P
  BY SumEmpty
<1>2. Grows(P, S)
  <2> SUFFICES ASSUME NEW T \in SUBSET S, NEW x \in S \ T,
                      Added(k, T) = Added(g, T) + Added(h, T)
               PROVE  Added(k, T \cup {x}) = Added(g, T \cup {x}) + Added(h, T \cup {x})
    BY DEF Grows
  <2>1. /\ Added(g, T \cup {x}) = g[x] + Added(g, T)
        /\ g[x] \in Int /\ Added(g, T) \in Int
    BY SumGrows
  <2>2. /\ Added(h, T \cup {x}) = h[x] + Added(h, T)
        /\ h[x] \in Int /\ Added(h, T) \in Int
    BY SumGrows
  <2>3. /\ Added(k, T \cup {x}) = k[x] + Added(k, T)
    BY <1>0, SumGrows
  <2>4. k[x] = g[x] + h[x]
    OBVIOUS
  <2> QED
    BY <2>1, <2>2, <2>3, <2>4
<1> HIDE DEF P
<1>3. SUBSET S \subseteq P
  BY <1>1, <1>2, Growth
<1>4. S \in P
  BY <1>3
<1> QED
  BY <1>4 DEF P

Masks(h, g, T, S) == \A x \in S : h[x] = IF x \in T THEN g[x] ELSE 0

(* What is zero outside a part adds up to the sum over the part.            *)
LEMMA SumPart ==
  ASSUME NEW S, IsFiniteSet(S), NEW g, Integral(g, S), NEW T \in SUBSET S, NEW h,
         Masks(h, g, T, S)
  PROVE  Added(h, S) = Added(g, T)
<1> DEFINE P == {U \in SUBSET S : Added(h, U) = Added(g, U \cap T)}
<1>0. Integral(h, S)
  BY DEF Integral, Masks
<1>1. {} \in P
  <2>1. {} \cap T = {}
    OBVIOUS
  <2> QED
    BY <2>1, SumEmpty
<1>2. Grows(P, S)
  <2> SUFFICES ASSUME NEW U \in SUBSET S, NEW x \in S \ U, Added(h, U) = Added(g, U \cap T)
               PROVE  Added(h, U \cup {x}) = Added(g, (U \cup {x}) \cap T)
    BY DEF Grows
  <2> HIDE DEF P
  <2>1. /\ Added(h, U \cup {x}) = h[x] + Added(h, U)
        /\ h[x] \in Int /\ Added(h, U) \in Int
    BY <1>0, SumGrows
  <2>2. CASE x \in T
    <3>1. (U \cup {x}) \cap T = (U \cap T) \cup {x} /\ x \in S \ (U \cap T)
          /\ U \cap T \in SUBSET S
      BY <2>2
    <3>2. Added(g, (U \cap T) \cup {x}) = g[x] + Added(g, U \cap T)
      BY <3>1, SumGrows
    <3>3. h[x] = g[x]
      BY <2>2 DEF Masks
    <3> QED
      BY <2>1, <3>1, <3>2, <3>3
  <2>3. CASE x \notin T
    <3>1. (U \cup {x}) \cap T = U \cap T
      BY <2>3
    <3>2. h[x] = 0
      BY <2>3 DEF Masks
    <3>3. Added(h, U \cup {x}) = Added(h, U)
      BY <2>1, <3>2
    <3> QED
      BY <3>1, <3>3
  <2> QED
    BY <2>2, <2>3
<1> HIDE DEF P
<1>3. SUBSET S \subseteq P
  BY <1>1, <1>2, Growth
<1>4. S \in P /\ S \cap T = T
  BY <1>3
<1> QED
  BY <1>4 DEF P

(* Nothing negative adds up to nothing negative.                            *)
LEMMA SumNat ==
  ASSUME NEW S, IsFiniteSet(S), NEW g, \A x \in S : g[x] \in Nat
  PROVE  Added(g, S) \in Nat
<1> DEFINE z == [x \in S |-> 0]
<1>1. Integral(g, S) /\ Integral(z, S)
  BY DEF Integral
<1>2. \A x \in S : z[x] <= g[x]
  OBVIOUS
<1>3. Masks(z, z, {}, S) /\ {} \in SUBSET S
  BY DEF Masks
<1> HIDE DEF z
<1>4. Added(z, S) = Added(z, {})
  BY <1>1, <1>3, SumPart
<1>5. Added(z, S) <= Added(g, S)
  BY <1>1, <1>2, SumOrder
<1>6. Added(z, {}) = 0
  BY SumEmpty
<1> QED
  BY <1>1, <1>4, <1>5, <1>6, SumType

(* A sum changes by what one of its terms does.                             *)
LEMMA SumPoint ==
  ASSUME NEW S, IsFiniteSet(S), NEW g, Integral(g, S), NEW h, Integral(h, S),
         NEW x \in S, \A y \in S \ {x} : h[y] = g[y]
  PROVE  Added(h, S) = Added(g, S) + (h[x] - g[x])
<1> DEFINE T == S \ {x}
<1>1. IsFiniteSet(T) /\ Integral(g, T)
  BY FS_Subset DEF Integral
<1>2. \A y \in T : g[y] = h[y]
  OBVIOUS
<1> HIDE DEF T
<1>3. Added(g, T) = Added(h, T)
  BY <1>1, <1>2, SumSame
<1>4. Added(g, T) \in Int
  BY <1>1, SumType
<1> USE DEF T
<1>5. Added(g, S) = g[x] + Added(g, T)
  BY SumPick
<1>6. Added(h, S) = h[x] + Added(h, T)
  BY <1>1, SumPick
<1>7. g[x] \in Int /\ h[x] \in Int
  BY DEF Integral
<1> HIDE DEF T
<1> QED
  BY <1>3, <1>4, <1>5, <1>6, <1>7

(* A sum of multiples is the multiple of the sum.                           *)
LEMMA SumTimes ==
  ASSUME NEW S, IsFiniteSet(S), NEW g, Integral(g, S), NEW c \in Int,
         NEW h, \A x \in S : h[x] = c * g[x]
  PROVE  Added(h, S) = c * Added(g, S)
<1> DEFINE P == {T \in SUBSET S : Added(h, T) = c * Added(g, T)}
<1>0. Integral(h, S)
  BY DEF Integral
<1>1. {} \in P
  BY SumEmpty
<1>2. Grows(P, S)
  <2> SUFFICES ASSUME NEW T \in SUBSET S, NEW x \in S \ T, Added(h, T) = c * Added(g, T)
               PROVE  Added(h, T \cup {x}) = c * Added(g, T \cup {x})
    BY DEF Grows
  <2>1. /\ Added(g, T \cup {x}) = g[x] + Added(g, T)
        /\ g[x] \in Int /\ Added(g, T) \in Int
    BY SumGrows
  <2>2. Added(h, T \cup {x}) = h[x] + Added(h, T)
    BY <1>0, SumGrows
  <2>3. h[x] = c * g[x]
    OBVIOUS
  <2>4. c * (g[x] + Added(g, T)) = c * g[x] + c * Added(g, T)
    BY <2>1
  <2> QED
    BY <2>1, <2>2, <2>3, <2>4
<1> HIDE DEF P
<1>3. SUBSET S \subseteq P
  BY <1>1, <1>2, Growth
<1>4. S \in P
  BY <1>3
<1> QED
  BY <1>4 DEF P

(* Ones add up to how many there are.                                       *)
LEMMA SumOnes ==
  ASSUME NEW S, IsFiniteSet(S), NEW g, \A x \in S : g[x] = 1
  PROVE  Added(g, S) = Cardinality(S)
<1> DEFINE P == {T \in SUBSET S : Added(g, T) = Cardinality(T)}
<1>0. Integral(g, S)
  BY DEF Integral
<1>1. {} \in P
  BY SumEmpty, FS_EmptySet
<1>2. Grows(P, S)
  <2> SUFFICES ASSUME NEW T \in SUBSET S, NEW x \in S \ T, Added(g, T) = Cardinality(T)
               PROVE  Added(g, T \cup {x}) = Cardinality(T \cup {x})
    BY DEF Grows
  <2>1. Added(g, T \cup {x}) = g[x] + Added(g, T) /\ g[x] = 1
    BY <1>0, SumGrows
  <2>2. Cardinality(T \cup {x}) = Cardinality(T) + 1 /\ Cardinality(T) \in Nat
    BY FS_Subset, FS_AddElement, FS_CardinalityType
  <2> QED
    BY <2>1, <2>2
<1> HIDE DEF P
<1>3. SUBSET S \subseteq P
  BY <1>1, <1>2, Growth
<1>4. S \in P
  BY <1>3
<1> QED
  BY <1>4 DEF P

(* Terms sorted into classes: the sums over the classes add up to the whole. *)
Class(S, kind, k) == {x \in S : kind[x] = k}

LEMMA SumClasses ==
  ASSUME NEW S, IsFiniteSet(S), NEW g, Integral(g, S), NEW K, IsFiniteSet(K),
         NEW kind, \A x \in S : kind[x] \in K,
         NEW h, \A k \in K : h[k] = Added(g, Class(S, kind, k))
  PROVE  Added(h, K) = Added(g, S)
<1> DEFINE By(T) == [k \in K |-> Added(g, {x \in T : kind[x] = k})]
           P == {T \in SUBSET S : Added(By(T), K) = Added(g, T)}
<1>0. ASSUME NEW T \in SUBSET S PROVE Integral(By(T), K)
  <2> SUFFICES ASSUME NEW k \in K PROVE Added(g, {x \in T : kind[x] = k}) \in Int
    BY DEF Integral
  <2> DEFINE U == {x \in T : kind[x] = k}
  <2>1. U \in SUBSET S
    OBVIOUS
  <2> HIDE DEF U
  <2>2. IsFiniteSet(U) /\ Integral(g, U)
    BY <2>1, FS_Subset DEF Integral
  <2>3. Added(g, U) \in Int
    BY <2>2, SumType
  <2> QED
    BY <2>3 DEF U
<1>1. {} \in P
  <2>1. \A k \in K : By({})[k] = 0
    <3> SUFFICES ASSUME NEW k \in K PROVE Added(g, {x \in {} : kind[x] = k}) = 0
      OBVIOUS
    <3>1. {x \in {} : kind[x] = k} = {}
      OBVIOUS
    <3> QED
      BY <3>1, SumEmpty
  <2>2. Masks(By({}), By({}), {}, K)
    BY <2>1 DEF Masks
  <2>3. Integral(By({}), K) /\ {} \in SUBSET K
    BY <1>0
  <2> HIDE DEF By
  <2>4. Added(By({}), K) = Added(By({}), {})
    BY <2>2, <2>3, SumPart
  <2> QED
    BY <2>4, SumEmpty
<1>2. Grows(P, S)
  <2> SUFFICES ASSUME NEW T \in SUBSET S, NEW x \in S \ T, Added(By(T), K) = Added(g, T)
               PROVE  Added(By(T \cup {x}), K) = Added(g, T \cup {x})
    BY DEF Grows
  <2> HIDE DEF P
  <2> DEFINE k0 == kind[x]
             U == {y \in T : kind[y] = k0}
  <2>1. k0 \in K /\ U \in SUBSET S /\ x \in S \ U
    OBVIOUS
  <2>2. {y \in T \cup {x} : kind[y] = k0} = U \cup {x}
    OBVIOUS
  <2>3. ASSUME NEW k \in K \ {k0}
        PROVE  By(T \cup {x})[k] = By(T)[k]
    <3>1. {y \in T \cup {x} : kind[y] = k} = {y \in T : kind[y] = k}
      BY <2>3
    <3> QED
      BY <3>1
  <2>4. By(T \cup {x})[k0] = Added(g, U \cup {x}) /\ By(T)[k0] = Added(g, U)
    BY <2>1, <2>2
  <2>5. Integral(By(T), K) /\ Integral(By(T \cup {x}), K)
    <3>1. T \cup {x} \in SUBSET S
      OBVIOUS
    <3> QED
      BY <1>0, <3>1
  <2>c. PICK a, b : a = By(T) /\ b = By(T \cup {x})
    OBVIOUS
  <2> HIDE DEF By, k0, U
  <2>6. Added(g, U \cup {x}) = g[x] + Added(g, U) /\ g[x] \in Int /\ Added(g, U) \in Int
    <3>1. IsFiniteSet(S) /\ Integral(g, S) /\ U \in SUBSET S /\ x \in S \ U
      BY <2>1
    <3> QED
      BY ONLY <3>1, SumGrows
  <2>7. Added(b, K) = Added(a, K) + (b[k0] - a[k0])
    <3>1. Integral(a, K) /\ Integral(b, K) /\ k0 \in K /\ \A y \in K \ {k0} : b[y] = a[y]
      BY <2>1, <2>3, <2>5, <2>c
    <3> QED
      BY <3>1, SumPoint
  <2>8. Added(g, T \cup {x}) = g[x] + Added(g, T) /\ Added(g, T) \in Int
    BY SumGrows
  <2>9. b[k0] - a[k0] = g[x]
    BY <2>4, <2>6, <2>c
  <2> QED
    BY <2>6, <2>7, <2>8, <2>9, <2>c
<1> HIDE DEF P
<1>3. SUBSET S \subseteq P
  BY <1>1, <1>2, Growth
<1>4. Added(By(S), K) = Added(g, S)
  BY <1>3 DEF P
<1>5. Integral(By(S), K) /\ \A k \in K : By(S)[k] = h[k]
  BY <1>0 DEF Class
<1> HIDE DEF By
<1>6. Added(By(S), K) = Added(h, K)
  BY <1>5, SumSame
<1> QED
  BY <1>4, <1>6

----------------------------------------------------------------------------
(* The last member under a strict total order.                              *)

Linear(R, S) ==
  /\ \A x, y \in S : x # y => <<x, y>> \in R \/ <<y, x>> \in R
  /\ \A x, y, z \in S : <<x, y>> \in R /\ <<y, z>> \in R => <<x, z>> \in R

IsLast(x, R, s) == x \in s /\ \A y \in s \ {x} : <<y, x>> \in R

LEMMA LastExists ==
  ASSUME NEW S, IsFiniteSet(S), NEW R, Linear(R, S)
  PROVE  \A s \in SUBSET S : s # {} => \E x \in s : IsLast(x, R, s)
<1> DEFINE P == {T \in SUBSET S : T # {} => \E x \in T : IsLast(x, R, T)}
<1>1. {} \in P
  OBVIOUS
<1>2. Grows(P, S)
  <2> SUFFICES ASSUME NEW T \in SUBSET S, NEW x \in S \ T,
                      T # {} => \E z \in T : IsLast(z, R, T)
               PROVE  \E z \in T \cup {x} : IsLast(z, R, T \cup {x})
    BY DEF Grows
  <2>1. CASE T = {}
    <3>1. IsLast(x, R, T \cup {x})
      BY <2>1 DEF IsLast
    <3> QED
      BY <3>1
  <2>2. CASE T # {}
    <3>1. PICK z \in T : IsLast(z, R, T)
      BY <2>2
    <3>2. CASE <<z, x>> \in R
      <4>1. ASSUME NEW y \in T PROVE <<y, x>> \in R
        <5>1. y = z \/ <<y, z>> \in R
          BY <3>1 DEF IsLast
        <5> QED
          BY <3>2, <5>1 DEF Linear
      <4>2. IsLast(x, R, T \cup {x})
        BY <4>1 DEF IsLast
      <4> QED
        BY <4>2
    <3>3. CASE <<x, z>> \in R
      <4>1. IsLast(z, R, T \cup {x})
        BY <3>1, <3>3 DEF IsLast
      <4> QED
        BY <4>1
    <3>4. x # z
      OBVIOUS
    <3> QED
      BY <3>2, <3>3, <3>4 DEF Linear
  <2> QED
    BY <2>1, <2>2
<1> HIDE DEF P
<1>3. SUBSET S \subseteq P
  BY <1>1, <1>2, Growth
<1> QED
  BY <1>3 DEF P

(* Any set of natural numbers has a least one.                              *)
LEMMA LeastExists ==
  ASSUME NEW S, S \subseteq Nat, S # {}
  PROVE  \E n \in S : \A m \in S : n <= m
<1>1. PICK n \in S : \A m \in S : ~(<<m, n>> \in OpToRel(<, Nat))
  BY WFMin, NatLessThanWellFounded
<1>2. ASSUME NEW m \in S PROVE n <= m
  <2>1. ~(m < n)
    BY <1>1 DEF OpToRel
  <2>2. m \in Nat /\ n \in Nat
    OBVIOUS
  <2> QED
    BY <2>1, <2>2
<1> QED
  BY <1>2

----------------------------------------------------------------------------
(* The rank of a member under a strict total order: how many precede it.     *)

Strict(R, S) == \A x \in S : <<x, x>> \notin R
Earlier(x, R, S) == {y \in S : <<y, x>> \in R}
RankOf(x, R, S) == Cardinality(Earlier(x, R, S))

(* A later member has a higher rank.                                        *)
LEMMA RankOrder ==
  ASSUME NEW S, IsFiniteSet(S), NEW R, Linear(R, S), Strict(R, S)
  PROVE  /\ \A x \in S : RankOf(x, R, S) \in Nat /\ RankOf(x, R, S) < Cardinality(S)
         /\ \A x, y \in S : <<x, y>> \in R => RankOf(x, R, S) < RankOf(y, R, S)
<1>1. ASSUME NEW T \in SUBSET S, NEW x \in S \ T
      PROVE  /\ Cardinality(T) \in Nat /\ Cardinality(T \cup {x}) = Cardinality(T) + 1
             /\ IsFiniteSet(T \cup {x})
  <2>1. IsFiniteSet(T)
    BY FS_Subset
  <2> QED
    BY <2>1, FS_AddElement, FS_CardinalityType
<1>2. ASSUME NEW x \in S
      PROVE  Earlier(x, R, S) \in SUBSET S /\ x \in S \ Earlier(x, R, S)
  BY DEF Earlier, Strict
<1>3. ASSUME NEW x \in S
      PROVE  RankOf(x, R, S) \in Nat /\ RankOf(x, R, S) < Cardinality(S)
  <2> DEFINE U == Earlier(x, R, S) \cup {x}
  <2>1. Cardinality(U) = RankOf(x, R, S) + 1 /\ RankOf(x, R, S) \in Nat
    BY <1>1, <1>2 DEF RankOf
  <2>2. U \in SUBSET S
    BY <1>2
  <2> HIDE DEF U
  <2>3. Cardinality(U) <= Cardinality(S) /\ Cardinality(S) \in Nat
    BY <2>2, FS_Subset, FS_CardinalityType
  <2> QED
    BY <2>1, <2>3
<1>4. ASSUME NEW x \in S, NEW y \in S, <<x, y>> \in R
      PROVE  RankOf(x, R, S) < RankOf(y, R, S)
  <2> DEFINE U == Earlier(x, R, S) \cup {x}
             V == Earlier(y, R, S)
  <2>1. Cardinality(U) = RankOf(x, R, S) + 1 /\ RankOf(x, R, S) \in Nat
    BY <1>1, <1>2 DEF RankOf
  <2>2. U \in SUBSET V
    BY <1>4 DEF Earlier, Linear
  <2>3. IsFiniteSet(V)
    <3>1. V \in SUBSET S
      BY <1>2
    <3> HIDE DEF V
    <3> QED
      BY <3>1, FS_Subset
  <2>4. RankOf(y, R, S) = Cardinality(V)
    BY DEF RankOf
  <2> HIDE DEF U, V
  <2>5. Cardinality(U) <= Cardinality(V) /\ Cardinality(V) \in Nat
    BY <2>2, <2>3, FS_Subset, FS_CardinalityType
  <2> QED
    BY <2>1, <2>4, <2>5
<1> QED
  BY <1>3, <1>4

Firsts(k, R, S) == {x \in S : RankOf(x, R, S) < k}

(* There are k members of a rank below k, so every rank is taken.           *)
LEMMA FirstsCount ==
  ASSUME NEW S, IsFiniteSet(S), NEW R, Linear(R, S), Strict(R, S)
  PROVE  /\ \A k \in Nat : k <= Cardinality(S) => Cardinality(Firsts(k, R, S)) = k
         /\ \A k \in Nat : k < Cardinality(S) => \E x \in S : RankOf(x, R, S) = k
<1> DEFINE Back == {<<q[2], q[1]>> : q \in R \cap (S \X S)}
           P == {k \in Nat : k <= Cardinality(S) => Cardinality(Firsts(k, R, S)) = k}
<1>0. Cardinality(S) \in Nat
  BY FS_CardinalityType
<1>1. 0 \in P
  <2>1. Firsts(0, R, S) = {}
    BY RankOrder DEF Firsts
  <2> QED
    BY <2>1, FS_EmptySet
<1>2. \A x, y \in S : <<x, y>> \in Back <=> <<y, x>> \in R
  <2> SUFFICES ASSUME NEW x \in S, NEW y \in S PROVE <<x, y>> \in Back <=> <<y, x>> \in R
    OBVIOUS
  <2>1. ASSUME <<x, y>> \in Back PROVE <<y, x>> \in R
    <3>1. PICK q \in R \cap (S \X S) : <<x, y>> = <<q[2], q[1]>>
      BY <2>1
    <3>2. q = <<q[1], q[2]>>
      BY <3>1
    <3> QED
      BY <3>1, <3>2
  <2>2. ASSUME <<y, x>> \in R PROVE <<x, y>> \in Back
    <3>1. <<y, x>> \in R \cap (S \X S)
      BY <2>2
    <3> QED
      BY <3>1
  <2> QED
    BY <2>1, <2>2
<1>3. Linear(Back, S)
  <2> HIDE DEF Back
  <2> QED
    BY <1>2, Zenon DEF Linear
<1> HIDE DEF Back
<1>4. ASSUME NEW k \in Nat, k < Cardinality(S), Cardinality(Firsts(k, R, S)) = k
      PROVE  /\ \E x \in S : RankOf(x, R, S) = k
             /\ Cardinality(Firsts(k + 1, R, S)) = k + 1
  <2> DEFINE F == Firsts(k, R, S)
             rest == S \ F
  <2>1. F \in SUBSET S /\ IsFiniteSet(F)
    <3>1. F \in SUBSET S
      BY DEF Firsts
    <3> QED
      BY <3>1, FS_Subset
  <2>2. rest # {}
    <3>1. ASSUME rest = {} PROVE FALSE
      <4>1. F = S
        BY <2>1, <3>1
      <4> QED
        BY <1>0, <1>4, <4>1
    <3> QED
      BY <3>1
  <2>3. PICK x \in rest : IsLast(x, Back, rest)
    <3>1. rest \in SUBSET S
      OBVIOUS
    <3> QED
      BY <1>3, <2>2, <3>1, LastExists
  <2>4. \A y \in rest \ {x} : <<x, y>> \in R
    BY <1>2, <2>3 DEF IsLast
  <2>5. Earlier(x, R, S) = F
    <3>1. ASSUME NEW y \in Earlier(x, R, S) PROVE y \in F
      <4>1. y \in S /\ <<y, x>> \in R
        BY <3>1 DEF Earlier
      <4>2. ASSUME y \in rest PROVE FALSE
        <5>1. y = x \/ <<x, y>> \in R
          BY <2>4, <4>2
        <5>2. <<x, x>> \in R
          BY <4>1, <5>1, <2>3 DEF Linear
        <5> QED
          BY <5>2, <2>3 DEF Strict
      <4> QED
        BY <4>1, <4>2
    <3>2. ASSUME NEW y \in F PROVE y \in Earlier(x, R, S)
      <4>1. y \in S /\ RankOf(y, R, S) < k /\ x \in S /\ ~(RankOf(x, R, S) < k) /\ y # x
        BY DEF Firsts
      <4>2. ~(<<x, y>> \in R)
        <5>1. ASSUME <<x, y>> \in R PROVE FALSE
          <6>1. RankOf(x, R, S) < RankOf(y, R, S) /\ RankOf(x, R, S) \in Nat
                /\ RankOf(y, R, S) \in Nat
            BY <4>1, <5>1, RankOrder
          <6> QED
            BY <4>1, <6>1
        <5> QED
          BY <5>1
      <4>3. <<y, x>> \in R
        BY <4>1, <4>2 DEF Linear
      <4> QED
        BY <4>1, <4>3 DEF Earlier
    <3> QED
      BY <3>1, <3>2
  <2>6. RankOf(x, R, S) = k
    BY <1>4, <2>5 DEF RankOf
  <2>7. Firsts(k + 1, R, S) = F \cup {x}
    <3>1. ASSUME NEW y \in S PROVE RankOf(y, R, S) < k + 1 <=> y \in F \/ y = x
      <4>1. RankOf(y, R, S) \in Nat
        BY RankOrder
      <4>2. CASE y \in F
        <5>1. RankOf(y, R, S) < k
          BY <4>2 DEF Firsts
        <5> QED
          BY <4>1, <4>2, <5>1
      <4>3. CASE y = x
        BY <2>6, <4>3
      <4>4. CASE y \notin F /\ y # x
        <5>1. <<x, y>> \in R
          BY <2>4, <4>4
        <5>2. k < RankOf(y, R, S)
          BY <2>6, <5>1, RankOrder
        <5> QED
          BY <4>1, <4>4, <5>2
      <4> QED
        BY <4>2, <4>3, <4>4
    <3> QED
      BY <2>1, <3>1 DEF Firsts
  <2>8. x \in S /\ x \notin F
    BY <2>3
  <2> HIDE DEF F, rest
  <2>9. Cardinality(F \cup {x}) = k + 1
    <3>1. Cardinality(F) = k
      BY <1>4 DEF F
    <3> QED
      BY <2>1, <2>8, <3>1, FS_AddElement
  <2> QED
    BY <2>6, <2>7, <2>8, <2>9
<1>5. ASSUME NEW k \in Nat, k \in P PROVE k + 1 \in P
  <2>1. CASE k < Cardinality(S)
    BY <1>0, <1>4, <1>5, <2>1
  <2>2. CASE ~(k < Cardinality(S))
    BY <1>0, <2>2
  <2> QED
    BY <2>1, <2>2
<1> HIDE DEF P
<1>6. Nat \subseteq P
  BY <1>1, <1>5, AllNaturals
<1> USE DEF P
<1>7. \A k \in Nat : k <= Cardinality(S) => Cardinality(Firsts(k, R, S)) = k
  BY <1>6
<1> HIDE DEF P
<1> QED
  BY <1>0, <1>4, <1>7

============================================================================
