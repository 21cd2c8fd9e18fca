----------------------------- MODULE FiniteSums -----------------------------
(***************************************************************************)
(* Lemmas about sums over finite sets, which the sums of amounts that      *)
(* recalculateBalance and computePairwiseBalances make are, and about      *)
(* least elements, by which they are proved.  What holds of every finite   *)
(* set is shown by removing elements from a smallest set without it.       *)
(***************************************************************************)
EXTENDS Integers, FiniteSets, FiniteSetTheorems, WellFoundedInduction, TLAPS

-----------------------------------------------------------------------------
(* A set of natural numbers has a least element. *)
LEMMA LeastFact ==
    ASSUME NEW S \in SUBSET Nat, S # {}
    PROVE  \E x \in S : \A y \in S : x <= y
<1>1. PICK x \in S : \A y \in S : <<y, x>> \notin OpToRel(<, Nat)
  BY NatLessThanWellFounded, WFMin
<1>2. ASSUME NEW y \in S PROVE x <= y
  <2>1. ~(y < x)
    BY <1>1 DEF OpToRel
  <2>. QED  BY <2>1
<1>. QED  BY <1>2

-----------------------------------------------------------------------------
(* MapThenSumSet, as the community module unfolds it: one element after the *)
(* other, each picked by CHOOSE.                                            *)
Picked(s) == CHOOSE x \in s : TRUE

SumRule(g, f, s) == g[s] = IF s = {} THEN 0 ELSE f[Picked(s)] + g[s \ {Picked(s)}]

Sums(f, S) == CHOOSE g : g = [s \in SUBSET S |->
                IF s = {} THEN 0 ELSE f[Picked(s)] + g[s \ {Picked(s)}]]

LEMMA PickedFact ==
    ASSUME NEW S, IsFiniteSet(S), NEW s \in SUBSET S, s # {}
    PROVE  /\ Picked(s) \in s /\ s \ {Picked(s)} \in SUBSET S
           /\ Cardinality(s) \in Nat /\ Cardinality(s \ {Picked(s)}) \in Nat
           /\ Cardinality(s \ {Picked(s)}) = Cardinality(s) - 1
<1>1. Picked(s) \in s
  BY DEF Picked
<1>2. IsFiniteSet(s)
  BY FS_Subset
<1>. QED  BY <1>1, <1>2, FS_RemoveElement, FS_CardinalityType

(* What holds of a finite set when it holds of it without any one element,  *)
(* holds of every finite set.                                               *)
LEMMA SubsetInduction ==
    ASSUME NEW S, IsFiniteSet(S), NEW T,
           \A s \in SUBSET S : (\A x \in s : s \ {x} \in T) => s \in T
    PROVE  SUBSET S \subseteq T
<1> DEFINE others == {s \in SUBSET S : s \notin T}
           N == {Cardinality(s) : s \in others}
<1> SUFFICES ASSUME others # {} PROVE FALSE
  OBVIOUS
<1>0. \A s \in SUBSET S : IsFiniteSet(s) /\ Cardinality(s) \in Nat
  BY FS_Subset, FS_CardinalityType
<1>1. N \in SUBSET Nat /\ N # {}
  BY <1>0
<1>2. PICK n \in N : \A k \in N : n <= k
  <2> HIDE DEF N
  <2>. QED  BY <1>1, LeastFact
<1>3. PICK s \in others : n = Cardinality(s)
  <2> HIDE DEF others
  <2>. QED  BY <1>2
<1>4. PICK x \in s : s \ {x} \notin T
  BY <1>3
<1>5. n \in Nat /\ Cardinality(s \ {x}) = n - 1
  <2>1. IsFiniteSet(s) /\ n \in Nat
    BY <1>0, <1>3
  <2>. QED  BY <2>1, <1>3, <1>4, FS_RemoveElement
<1>6. s \ {x} \in others
  BY <1>4
<1>7. Cardinality(s \ {x}) \in N
  <2> HIDE DEF others
  <2>. QED  BY <1>6
<1>8. n <= n - 1
  <2> HIDE DEF N
  <2>. QED  BY <1>2, <1>5, <1>7
<1>. QED  BY <1>5, <1>8

LEMMA PickedInduction ==
    ASSUME NEW S, IsFiniteSet(S), NEW T, {} \in T,
           \A s \in SUBSET S : s # {} /\ s \ {Picked(s)} \in T => s \in T
    PROVE  SUBSET S \subseteq T
<1>1. ASSUME NEW s \in SUBSET S, \A x \in s : s \ {x} \in T
      PROVE  s \in T
  <2>1. CASE s = {}
    BY <2>1
  <2>2. CASE s # {}
    BY <1>1, <2>2, PickedFact
  <2>. QED  BY <2>1, <2>2
<1>. QED  BY <1>1, SubsetInduction

LEMMA NumberInduction ==
    ASSUME NEW T \in SUBSET Nat, 0 \in T, \A n \in T : n + 1 \in T
    PROVE  Nat \subseteq T
<1> SUFFICES ASSUME Nat \ T # {} PROVE FALSE
  OBVIOUS
<1> DEFINE N == Nat \ T
<1>1. N \in SUBSET Nat /\ N # {}
  OBVIOUS
<1>2. PICK n \in N : \A k \in N : n <= k
  <2> HIDE DEF N
  <2>. QED  BY <1>1, LeastFact
<1>3. n \in Nat /\ n # 0
  OBVIOUS
<1>4. n - 1 \in Nat /\ ~(n <= n - 1) /\ (n - 1) + 1 = n
  BY <1>3
<1>5. n - 1 \in T
  BY <1>2, <1>4
<1>. QED  BY <1>4, <1>5

(* There is such a function, so that its equation can be used. *)
LEMMA SumsExist ==
    ASSUME NEW S, IsFiniteSet(S), NEW f, \A x \in S : f[x] \in Int
    PROVE  \E g \in [SUBSET S -> Int] : \A s \in SUBSET S : SumRule(g, f, s)
<1> DEFINE T == {n \in Nat : \E g \in [SUBSET S -> Int] : \A s \in SUBSET S :
                    Cardinality(s) <= n => SumRule(g, f, s)}
<1>0. \A s \in SUBSET S : Cardinality(s) \in Nat
  BY FS_Subset, FS_CardinalityType
<1>1. 0 \in T
  <2> DEFINE g == [s \in SUBSET S |-> 0]
  <2>1. g \in [SUBSET S -> Int]
    OBVIOUS
  <2>2. ASSUME NEW s \in SUBSET S, Cardinality(s) <= 0 PROVE SumRule(g, f, s)
    <3>1. IsFiniteSet(s) /\ Cardinality(s) = 0
      BY <1>0, <2>2, FS_Subset
    <3>2. s = {}
      BY <3>1, FS_EmptySet
    <3>. QED  BY <3>2 DEF SumRule
  <2> HIDE DEF g
  <2>3. \A s \in SUBSET S : Cardinality(s) <= 0 => SumRule(g, f, s)
    BY <2>2
  <2>. QED  BY <2>1, <2>3
<1>2. ASSUME NEW n \in T PROVE n + 1 \in T
  <2>1. PICK g \in [SUBSET S -> Int] : \A s \in SUBSET S : Cardinality(s) <= n => SumRule(g, f, s)
    OBVIOUS
  <2> DEFINE h == [s \in SUBSET S |-> IF Cardinality(s) <= n THEN g[s]
                                      ELSE f[Picked(s)] + g[s \ {Picked(s)}]]
  <2>2. ASSUME NEW s \in SUBSET S, ~(Cardinality(s) <= n)
        PROVE  /\ s # {} /\ Picked(s) \in S /\ s \ {Picked(s)} \in SUBSET S
               /\ f[Picked(s)] + g[s \ {Picked(s)}] \in Int
    <3>1. ASSUME s = {} PROVE FALSE
      <4>1. Cardinality(s) = 0
        BY <3>1, FS_EmptySet
      <4>2. n \in Nat
        OBVIOUS
      <4>. QED  BY <4>1, <4>2, <2>2
    <3>2. Picked(s) \in s /\ s \ {Picked(s)} \in SUBSET S
      BY <3>1, PickedFact
    <3>3. Picked(s) \in S /\ f[Picked(s)] \in Int /\ g[s \ {Picked(s)}] \in Int
      BY <3>2
    <3>. QED  BY <3>1, <3>2, <3>3
  <2>3. h \in [SUBSET S -> Int]
    BY <2>2
  <2>4. ASSUME NEW s \in SUBSET S, Cardinality(s) <= n + 1 PROVE SumRule(h, f, s)
    <3>1. CASE Cardinality(s) <= n
      <4>1. h[s] = g[s] /\ SumRule(g, f, s)
        BY <2>1, <3>1
      <4>2. CASE s = {}
        BY <4>1, <4>2 DEF SumRule
      <4>3. CASE s # {}
        <5>1. s \ {Picked(s)} \in SUBSET S /\ Cardinality(s \ {Picked(s)}) <= n
          BY <1>0, <3>1, <4>3, PickedFact
        <5>2. h[s \ {Picked(s)}] = g[s \ {Picked(s)}]
          BY <5>1
        <5>. QED  BY <4>1, <4>3, <5>2 DEF SumRule
      <4>. QED  BY <4>2, <4>3
    <3>2. CASE ~(Cardinality(s) <= n)
      <4>1. s # {} /\ h[s] = f[Picked(s)] + g[s \ {Picked(s)}]
        BY <2>2, <3>2
      <4>2. s \ {Picked(s)} \in SUBSET S /\ Cardinality(s \ {Picked(s)}) <= n
        BY <1>0, <2>4, <4>1, PickedFact
      <4>3. h[s \ {Picked(s)}] = g[s \ {Picked(s)}]
        BY <4>2
      <4>. QED  BY <4>1, <4>3 DEF SumRule
    <3>. QED  BY <3>1, <3>2
  <2> HIDE DEF h
  <2>. QED  BY <2>3, <2>4
<1>3. Cardinality(S) \in T
  <2> HIDE DEF T
  <2>1. T \in SUBSET Nat
    BY DEF T
  <2>. QED  BY <1>0, <1>1, <1>2, <2>1, NumberInduction
<1>4. \A s \in SUBSET S : Cardinality(s) <= Cardinality(S)
  BY FS_Subset
<1>. QED  BY <1>3, <1>4

LEMMA SumsOfAny ==
    ASSUME NEW S, IsFiniteSet(S), NEW f, \A x \in S : f[x] \in Int
    PROVE  /\ Sums(f, S)[{}] = 0
           /\ \A s \in SUBSET S : /\ Sums(f, S)[s] \in Int
                                  /\ s # {} => Sums(f, S)[s] = f[Picked(s)] + Sums(f, S)[s \ {Picked(s)}]
<1> DEFINE Rule(g) == g = [s \in SUBSET S |->
                              IF s = {} THEN 0 ELSE f[Picked(s)] + g[s \ {Picked(s)}]]
<1>1. PICK g \in [SUBSET S -> Int] : \A s \in SUBSET S : SumRule(g, f, s)
  BY SumsExist
<1>2. Rule(g)
  <2>1. g = [s \in SUBSET S |-> g[s]]
    OBVIOUS
  <2>. QED  BY <1>1, <2>1 DEF SumRule
<1>3. Sums(f, S) = CHOOSE h : Rule(h)
  BY DEF Sums
<1>4. Rule(Sums(f, S))
  <2> HIDE DEF Rule
  <2>. QED  BY <1>2, <1>3
<1> DEFINE sums == Sums(f, S)
<1>5. /\ sums[{}] = 0
      /\ \A s \in SUBSET S : s # {} => sums[s] = f[Picked(s)] + sums[s \ {Picked(s)}]
  <2> HIDE DEF sums
  <2>1. sums = [s \in SUBSET S |-> IF s = {} THEN 0 ELSE f[Picked(s)] + sums[s \ {Picked(s)}]]
    BY <1>4 DEF sums
  <2>. QED  BY <2>1
<1> HIDE DEF sums
<1> DEFINE T == {s \in SUBSET S : sums[s] \in Int}
<1>6. {} \in T
  BY <1>5
<1>7. ASSUME NEW s \in SUBSET S, s # {}, s \ {Picked(s)} \in T PROVE s \in T
  <2>1. Picked(s) \in S /\ f[Picked(s)] \in Int
    BY <1>7, PickedFact
  <2>2. sums[s] = f[Picked(s)] + sums[s \ {Picked(s)}]
    BY <1>5, <1>7
  <2>3. sums[s \ {Picked(s)}] \in Int
    BY <1>7
  <2>. QED  BY <2>1, <2>2, <2>3
<1> HIDE DEF T
<1>8. SUBSET S \subseteq T
  BY <1>6, <1>7, PickedInduction
<1>. QED  BY <1>5, <1>8 DEF T, sums

LEMMA SumsFact ==
    ASSUME NEW S, IsFiniteSet(S), NEW f \in [S -> Int]
    PROVE  /\ Sums(f, S)[{}] = 0
           /\ \A s \in SUBSET S : /\ Sums(f, S)[s] \in Int
                                  /\ s # {} => Sums(f, S)[s] = f[Picked(s)] + Sums(f, S)[s \ {Picked(s)}]
<1>1. \A x \in S : f[x] \in Int
  OBVIOUS
<1>. QED  BY <1>1, SumsOfAny

(* Whatever is summed up in this way is the sum. *)
LEMMA SumsUnique ==
    ASSUME NEW S, IsFiniteSet(S), NEW f, \A x \in S : f[x] \in Int,
           NEW g, \A s \in SUBSET S : SumRule(g, f, s)
    PROVE  \A s \in SUBSET S : g[s] = Sums(f, S)[s]
<1> DEFINE F == Sums(f, S)
           T == {s \in SUBSET S : g[s] = F[s]}
<1>1. /\ F[{}] = 0
      /\ \A s \in SUBSET S : s # {} => F[s] = f[Picked(s)] + F[s \ {Picked(s)}]
  BY SumsOfAny
<1>2. {} \in T
  <2> HIDE DEF F
  <2>1. SumRule(g, f, {})
    OBVIOUS
  <2>. QED  BY <1>1, <2>1 DEF SumRule
<1>3. ASSUME NEW s \in SUBSET S, s # {}, s \ {Picked(s)} \in T PROVE s \in T
  <2> HIDE DEF F
  <2>1. g[s] = f[Picked(s)] + g[s \ {Picked(s)}]
    BY <1>3 DEF SumRule
  <2>. QED  BY <1>1, <1>3, <2>1
<1> HIDE DEF T
<1>4. SUBSET S \subseteq T
  BY <1>2, <1>3, PickedInduction
<1>. QED  BY <1>4 DEF T

(* Any element may be taken first. *)
LEMMA SumsAny ==
    ASSUME NEW S, IsFiniteSet(S), NEW f, \A x \in S : f[x] \in Int
    PROVE  \A s \in SUBSET S : \A x \in s : Sums(f, S)[s] = f[x] + Sums(f, S)[s \ {x}]
<1> DEFINE F == Sums(f, S)
           T == {s \in SUBSET S : \A x \in s : F[s] = f[x] + F[s \ {x}]}
<1>1. /\ \A s \in SUBSET S : F[s] \in Int
      /\ \A s \in SUBSET S : s # {} => F[s] = f[Picked(s)] + F[s \ {Picked(s)}]
  BY SumsOfAny
<1> HIDE DEF F
<1>2. ASSUME NEW s \in SUBSET S, \A x \in s : s \ {x} \in T PROVE s \in T
  <2> SUFFICES ASSUME NEW x \in s PROVE F[s] = f[x] + F[s \ {x}]
    OBVIOUS
  <2> DEFINE p == Picked(s)
             r == (s \ {p}) \ {x}
  <2>1. p \in s /\ F[s] = f[p] + F[s \ {p}]
    BY <1>1, PickedFact
  <2>2. CASE x = p
    BY <2>1, <2>2
  <2>3. CASE x # p
    <3>1. s \ {p} \in T /\ s \ {x} \in T
      BY <1>2, <2>1
    <3>2. x \in s \ {p} /\ p \in s \ {x} /\ (s \ {x}) \ {p} = r
      BY <2>1, <2>3
    <3> HIDE DEF p
    <3>3. F[s \ {p}] = f[x] + F[r]
      BY <3>1, <3>2
    <3>4. F[s \ {x}] = f[p] + F[r]
      BY <3>1, <3>2
    <3>5. r \in SUBSET S /\ f[x] \in Int /\ f[p] \in Int
      BY <2>1
    <3>6. F[r] \in Int
      BY <1>1, <3>5
    <3> HIDE DEF r
    <3>. QED  BY <2>1, <3>3, <3>4, <3>5, <3>6
  <2>. QED  BY <2>2, <2>3
<1> HIDE DEF T
<1>3. SUBSET S \subseteq T
  BY <1>2, SubsetInduction
<1>. QED  BY <1>3 DEF T, F

LEMMA SumsFirst ==
    ASSUME NEW S, IsFiniteSet(S), NEW f, \A x \in S : f[x] \in Int, NEW e \in S
    PROVE  Sums(f, S)[S] = f[e] + Sums(f, S)[S \ {e}]
<1>1. S \in SUBSET S
  OBVIOUS
<1>. QED  BY <1>1, SumsAny

(* A sum depends on the elements alone, not on the set they are taken from. *)
LEMMA SumsWithin ==
    ASSUME NEW U, IsFiniteSet(U), NEW f, \A x \in U : f[x] \in Int, NEW S \in SUBSET U
    PROVE  \A s \in SUBSET S : Sums(f, U)[s] = Sums(f, S)[s]
<1>1. IsFiniteSet(S) /\ \A x \in S : f[x] \in Int
  BY FS_Subset
<1>2. \A s \in SUBSET S : SumRule(Sums(f, U), f, s)
  <2>1. \A s \in SUBSET U : s # {} => Sums(f, U)[s] = f[Picked(s)] + Sums(f, U)[s \ {Picked(s)}]
    BY SumsOfAny
  <2>2. Sums(f, U)[{}] = 0
    BY SumsOfAny
  <2>. QED  BY <2>1, <2>2 DEF SumRule
<1>. QED  BY <1>1, <1>2, SumsUnique

(* The parts of a combination add up to the combination of the sums. *)
LEMMA SumsCombined ==
    ASSUME NEW S, IsFiniteSet(S), NEW f \in [S -> Int], NEW g \in [S -> Int], NEW h \in [S -> Int],
           NEW a \in Int, NEW b \in Int, \A x \in S : h[x] = a * f[x] + b * g[x]
    PROVE  Sums(h, S)[S] = a * Sums(f, S)[S] + b * Sums(g, S)[S]
<1> DEFINE F == Sums(f, S)
           G == Sums(g, S)
           H == Sums(h, S)
           T == {s \in SUBSET S : H[s] = a * F[s] + b * G[s]}
<1>1. /\ F[{}] = 0 /\ G[{}] = 0 /\ H[{}] = 0
      /\ \A s \in SUBSET S : F[s] \in Int /\ G[s] \in Int /\ H[s] \in Int
      /\ \A s \in SUBSET S : s # {} =>
            /\ F[s] = f[Picked(s)] + F[s \ {Picked(s)}]
            /\ G[s] = g[Picked(s)] + G[s \ {Picked(s)}]
            /\ H[s] = h[Picked(s)] + H[s \ {Picked(s)}]
  BY SumsFact
<1> HIDE DEF F, G, H
<1>2. {} \in T
  BY <1>1
<1>3. ASSUME NEW s \in SUBSET S, s # {}, s \ {Picked(s)} \in T PROVE s \in T
  <2> DEFINE x == Picked(s)
             r == s \ {Picked(s)}
  <2>1. x \in S /\ r \in SUBSET S
    BY <1>3, PickedFact
  <2>2. F[s] = f[x] + F[r] /\ G[s] = g[x] + G[r] /\ H[s] = h[x] + H[r]
    BY <1>1, <1>3
  <2>3. H[r] = a * F[r] + b * G[r] /\ h[x] = a * f[x] + b * g[x]
    BY <1>3, <2>1
  <2>4. f[x] \in Int /\ g[x] \in Int /\ F[r] \in Int /\ G[r] \in Int
    BY <1>1, <2>1
  <2> HIDE DEF x, r
  <2>5. a * (f[x] + F[r]) = a * f[x] + a * F[r] /\ b * (g[x] + G[r]) = b * g[x] + b * G[r]
    BY <2>4
  <2>6. /\ a * f[x] \in Int /\ a * F[r] \in Int /\ b * g[x] \in Int /\ b * G[r] \in Int
    BY <2>4
  <2>7. H[s] = a * F[s] + b * G[s]
    BY <2>2, <2>3, <2>5, <2>6
  <2>. QED  BY <2>7
<1> HIDE DEF T
<1>4. SUBSET S \subseteq T
  BY <1>2, <1>3, PickedInduction
<1>. QED  BY <1>4 DEF T, F, G, H

(* More for one is more for all. *)
LEMMA SumsIncreased ==
    ASSUME NEW S, IsFiniteSet(S), NEW f \in [S -> Int], NEW d \in S, NEW x \in Int
    PROVE  Sums([f EXCEPT ![d] = @ + x], S)[S] = Sums(f, S)[S] + x
<1> DEFINE h == [f EXCEPT ![d] = @ + x]
           F == Sums(f, S)
           H == Sums(h, S)
           T == {s \in SUBSET S : H[s] = IF d \in s THEN F[s] + x ELSE F[s]}
<1>0. h \in [S -> Int] /\ h[d] = f[d] + x /\ \A y \in S : y # d => h[y] = f[y]
  OBVIOUS
<1> HIDE DEF h
<1>1. /\ F[{}] = 0 /\ H[{}] = 0
      /\ \A s \in SUBSET S : F[s] \in Int /\ H[s] \in Int
      /\ \A s \in SUBSET S : s # {} =>
            /\ F[s] = f[Picked(s)] + F[s \ {Picked(s)}]
            /\ H[s] = h[Picked(s)] + H[s \ {Picked(s)}]
  BY <1>0, SumsFact
<1> HIDE DEF F, H
<1>2. {} \in T
  BY <1>1
<1>3. ASSUME NEW s \in SUBSET S, s # {}, s \ {Picked(s)} \in T PROVE s \in T
  <2> DEFINE y == Picked(s)
             r == s \ {Picked(s)}
  <2>1. y \in s /\ y \in S /\ r \in SUBSET S
    BY <1>3, PickedFact
  <2>2. F[s] = f[y] + F[r] /\ H[s] = h[y] + H[r]
    BY <1>1, <1>3
  <2>3. H[r] = IF d \in r THEN F[r] + x ELSE F[r]
    BY <1>3, <2>1
  <2>4. f[y] \in Int /\ F[r] \in Int /\ h[y] = IF y = d THEN f[y] + x ELSE f[y]
    BY <1>0, <1>1, <2>1
  <2>5. d \in r <=> d \in s /\ y # d
    OBVIOUS
  <2> HIDE DEF y, r
  <2>6. H[s] = IF d \in s THEN F[s] + x ELSE F[s]
    BY <2>1, <2>2, <2>3, <2>4, <2>5
  <2>. QED  BY <2>6
<1> HIDE DEF T
<1>4. SUBSET S \subseteq T
  BY <1>2, <1>3, PickedInduction
<1>. QED  BY <1>4 DEF T, F, H, h

(* The same for everybody. *)
LEMMA SumsOfSame ==
    ASSUME NEW S, IsFiniteSet(S), NEW f \in [S -> Int], NEW x \in Int, \A y \in S : f[y] = x
    PROVE  Sums(f, S)[S] = x * Cardinality(S)
<1> DEFINE F == Sums(f, S)
           T == {s \in SUBSET S : F[s] = x * Cardinality(s)}
<1>1. /\ F[{}] = 0
      /\ \A s \in SUBSET S : s # {} => F[s] = f[Picked(s)] + F[s \ {Picked(s)}]
  BY SumsFact
<1> HIDE DEF F
<1>2. {} \in T
  BY <1>1, FS_EmptySet
<1>3. ASSUME NEW s \in SUBSET S, s # {}, s \ {Picked(s)} \in T PROVE s \in T
  <2> DEFINE r == s \ {Picked(s)}
             k == Cardinality(s)
  <2>1. /\ Picked(s) \in S /\ k \in Nat /\ Cardinality(r) = k - 1
    BY <1>3, PickedFact
  <2>2. F[s] = x + F[r] /\ F[r] = x * Cardinality(r)
    BY <1>1, <1>3, <2>1
  <2> HIDE DEF r, k
  <2>3. x + x * (k - 1) = x * k
    BY <2>1
  <2>4. F[s] = x * k
    BY <2>1, <2>2, <2>3
  <2>. QED  BY <2>4 DEF k
<1> HIDE DEF T
<1>4. SUBSET S \subseteq T
  BY <1>2, <1>3, PickedInduction
<1>. QED  BY <1>4 DEF T, F

(* Where nothing is negative, a part is at most the sum. *)
LEMMA SumsAtLeast ==
    ASSUME NEW S, IsFiniteSet(S), NEW f \in [S -> Int], \A x \in S : f[x] >= 0
    PROVE  \A x \in S : f[x] <= Sums(f, S)[S]
<1> DEFINE F == Sums(f, S)
           T == {s \in SUBSET S : F[s] >= 0 /\ \A x \in s : f[x] <= F[s]}
<1>1. /\ F[{}] = 0
      /\ \A s \in SUBSET S : F[s] \in Int
      /\ \A s \in SUBSET S : s # {} => F[s] = f[Picked(s)] + F[s \ {Picked(s)}]
  BY SumsFact
<1> HIDE DEF F
<1>2. {} \in T
  BY <1>1
<1>3. ASSUME NEW s \in SUBSET S, s # {}, s \ {Picked(s)} \in T PROVE s \in T
  <2> DEFINE r == s \ {Picked(s)}
             y == Picked(s)
  <2>1. y \in S /\ r \in SUBSET S
    BY <1>3, PickedFact
  <2>2. F[s] = f[y] + F[r] /\ F[r] >= 0
    BY <1>1, <1>3
  <2>3. f[y] \in Int /\ F[r] \in Int /\ f[y] >= 0
    BY <1>1, <2>1
  <2>4. F[s] >= F[r] /\ F[s] >= f[y] /\ F[s] >= 0 /\ F[s] \in Int
    BY <2>2, <2>3
  <2>5. ASSUME NEW x \in s PROVE f[x] <= F[s]
    <3>1. CASE x = y
      BY <2>4, <3>1
    <3>2. CASE x # y
      <4>1. x \in r /\ f[x] \in Int
        BY <3>2
      <4>2. f[x] <= F[r]
        BY <1>3, <4>1
      <4> HIDE DEF r, y
      <4>. QED  BY <2>3, <2>4, <4>1, <4>2
    <3>. QED  BY <3>1, <3>2
  <2>. QED  BY <2>4, <2>5
<1> HIDE DEF T
<1>4. SUBSET S \subseteq T
  BY <1>2, <1>3, PickedInduction
<1>. QED  BY <1>4 DEF T, F

LEMMA SumsAdded ==
    ASSUME NEW S, IsFiniteSet(S), NEW f \in [S -> Int], NEW g \in [S -> Int], NEW h \in [S -> Int],
           \A x \in S : h[x] = f[x] + g[x]
    PROVE  Sums(h, S)[S] = Sums(f, S)[S] + Sums(g, S)[S]
<1> DEFINE a == 1
<1>1. \A x \in S : h[x] = a * f[x] + a * g[x]
  OBVIOUS
<1>2. a \in Int /\ Sums(f, S)[S] \in Int /\ Sums(g, S)[S] \in Int
  <2>1. S \in SUBSET S
    OBVIOUS
  <2>2. Sums(f, S)[S] \in Int
    BY <2>1, SumsFact
  <2>3. Sums(g, S)[S] \in Int
    BY <2>1, SumsFact
  <2>. QED  BY <2>2, <2>3
<1> HIDE DEF a
<1>3. Sums(h, S)[S] = a * Sums(f, S)[S] + a * Sums(g, S)[S]
  <2>1. \A c, d \in Int : (\A x \in S : h[x] = c * f[x] + d * g[x])
            => Sums(h, S)[S] = c * Sums(f, S)[S] + d * Sums(g, S)[S]
    BY SumsCombined
  <2>. QED  BY <1>1, <1>2, <2>1, Zenon
<1>. QED  BY <1>2, <1>3 DEF a

LEMMA SumsSubtracted ==
    ASSUME NEW S, IsFiniteSet(S), NEW f \in [S -> Int], NEW g \in [S -> Int], NEW h \in [S -> Int],
           \A x \in S : h[x] = f[x] - g[x]
    PROVE  Sums(h, S)[S] = Sums(f, S)[S] - Sums(g, S)[S]
<1> DEFINE a == 1
           b == -1
<1>1. \A x \in S : h[x] = a * f[x] + b * g[x]
  OBVIOUS
<1>2. a \in Int /\ b \in Int /\ Sums(f, S)[S] \in Int /\ Sums(g, S)[S] \in Int
  <2>1. S \in SUBSET S
    OBVIOUS
  <2>2. Sums(f, S)[S] \in Int
    BY <2>1, SumsFact
  <2>3. Sums(g, S)[S] \in Int
    BY <2>1, SumsFact
  <2>. QED  BY <2>2, <2>3
<1> HIDE DEF a, b
<1>3. Sums(h, S)[S] = a * Sums(f, S)[S] + b * Sums(g, S)[S]
  <2>1. \A c, d \in Int : (\A x \in S : h[x] = c * f[x] + d * g[x])
            => Sums(h, S)[S] = c * Sums(f, S)[S] + d * Sums(g, S)[S]
    BY SumsCombined
  <2>. QED  BY <1>1, <1>2, <2>1, Zenon
<1>. QED  BY <1>2, <1>3 DEF a, b

(* What adds up to nothing and is nowhere far below it is nowhere far above. *)
LEMMA SumsBalanced ==
    ASSUME NEW S, IsFiniteSet(S), NEW f \in [S -> Int], NEW e \in Nat \ {0},
           Sums(f, S)[S] = 0, \A x \in S : f[x] >= -e
    PROVE  \A x \in S : -(Cardinality(S) * e) < f[x] /\ f[x] < Cardinality(S) * e
<1> DEFINE n == Cardinality(S)
           same == [x \in S |-> e]
           up == [x \in S |-> f[x] + e]
<1>1. n \in Nat
  BY FS_CardinalityType
<1>2. same \in [S -> Int] /\ up \in [S -> Int] /\ \A x \in S : same[x] = e /\ up[x] = f[x] + e
  OBVIOUS
<1>3. Sums(same, S)[S] = e * n
  <2> HIDE DEF same
  <2>. QED  BY <1>2, SumsOfSame
<1>4. Sums(up, S)[S] = Sums(f, S)[S] + Sums(same, S)[S]
  <2>1. \A x \in S : up[x] = f[x] + same[x]
    OBVIOUS
  <2> HIDE DEF same, up
  <2>. QED  BY <1>2, <2>1, SumsAdded
<1> HIDE DEF same, up
<1>5. e * n \in Int /\ Sums(up, S)[S] = e * n
  BY <1>1, <1>3, <1>4
<1>6. \A x \in S : up[x] <= e * n
  <2>1. \A x \in S : up[x] >= 0
    BY <1>2
  <2>2. \A x \in S : up[x] <= Sums(up, S)[S]
    BY <1>2, <2>1, SumsAtLeast
  <2>. QED  BY <1>5, <2>2
<1> SUFFICES ASSUME NEW x \in S PROVE -(n * e) < f[x] /\ f[x] < n * e
  OBVIOUS
<1>7. f[x] \in Int /\ f[x] + e <= e * n /\ f[x] >= -e /\ e * n = n * e
  BY <1>1, <1>2, <1>6
<1>8. CASE n = 1
  <2>1. S = {x}
    <3>1. Cardinality(S \ {x}) = 0 /\ IsFiniteSet(S \ {x})
      BY <1>8, FS_RemoveElement
    <3>2. S \ {x} = {}
      BY <3>1, FS_EmptySet
    <3>. QED  BY <3>2
  <2>2. Picked(S) = x /\ S # {} /\ S \ {Picked(S)} = {}
    BY <2>1 DEF Picked
  <2>3. Sums(f, S)[S] = f[Picked(S)] + Sums(f, S)[S \ {Picked(S)}] /\ Sums(f, S)[{}] = 0
    <3>1. S \in SUBSET S
      OBVIOUS
    <3>2. S # {} => Sums(f, S)[S] = f[Picked(S)] + Sums(f, S)[S \ {Picked(S)}]
      BY <3>1, SumsFact
    <3>3. Sums(f, S)[{}] = 0
      BY SumsFact
    <3>. QED  BY <2>2, <3>2, <3>3
  <2>4. f[Picked(S)] = f[x] /\ Sums(f, S)[S \ {Picked(S)}] = 0
    BY <2>2, <2>3
  <2>5. f[x] = 0
    BY <1>7, <2>3, <2>4
  <2>. QED  BY <1>8, <2>5
<1>9. CASE n # 1
  <2>1. n >= 2
    <3>1. S # {}
      OBVIOUS
    <3>2. n # 0
      BY <3>1, FS_EmptySet
    <3>. QED  BY <1>1, <1>9, <3>2
  <2> HIDE DEF n
  <2>2. n * e >= 2 * e /\ n * e \in Int
    <3>1. (n - 2) * e >= 0 /\ (n - 2) * e = n * e - 2 * e /\ n * e \in Int
      BY <1>1, <2>1
    <3>. QED  BY <3>1
  <2>. QED  BY <1>7, <2>2
<1>. QED  BY <1>8, <1>9
=============================================================================
