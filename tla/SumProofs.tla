------------------------------ MODULE SumProofs ------------------------------
(***************************************************************************)
(* Sums over a finite set: what the folds of the community modules compute *)
(* when they add natural numbers, for a set of any size.                   *)
(*                                                                         *)
(* The fold is a recursive function chosen by CHOOSE; that there is one is *)
(* not a consequence of its definition, and the induction theorems of the  *)
(* library take an operator, which the provers cannot instantiate.  So     *)
(* every fact is shown of a least counterexample instead: the subsets of a *)
(* finite set that break it, if there are any, have a smallest one         *)
(* (LeastCounterexample), and that one is built from a smaller.            *)
(***************************************************************************)
EXTENDS Naturals, Functions, FiniteSetTheorems, TLAPS

\* The sum of the values of f, as FoldFunction of the module Functions.
SumOver(f) == FoldFunction(+, 0, f)

-----------------------------------------------------------------------------
(* The recursive function behind the fold.                                 *)

\* The element the fold takes first.
Choice(s) == CHOOSE x \in s : TRUE

\* h gives, for every subset of S, the sum of f over it.
Sums(h, f, S) ==
    h = [s \in SUBSET S |-> IF s = {} THEN 0
                            ELSE f[Choice(s)] + h[s \ {Choice(s)}]]
SumsOf(f, S) == CHOOSE h : Sums(h, f, S)

\* The sum of f is the value of that function at the whole domain of f.
LEMMA SumIsLast == \A f : SumOver(f) = SumsOf(f, DOMAIN f)[DOMAIN f]
  BY DEF SumOver, FoldFunction, FoldFunctionOnSet, MapThenFoldSet, SumsOf, Sums, Choice

\* Among subsets of a finite set there is one that has no other inside it:
\* what an induction over finite sets comes to.
LEMMA LeastCounterexample ==
    ASSUME NEW S, IsFiniteSet(S), NEW C, C \subseteq SUBSET S, C # {}
    PROVE  \E U \in C : \A V \in C : V \subseteq U => V = U
<1>1. IsWellFoundedOn(StrictSubsetOrdering(S), SUBSET S)
  BY FS_StrictSubsetOrderingWellFounded, FS_FiniteSubsetsOfFinite
<1>2. PICK U \in C : \A V \in C : ~ (<<V, U>> \in StrictSubsetOrdering(S))
  BY <1>1, WFMin
<1> QED
  BY <1>2 DEF StrictSubsetOrdering

\* Two such functions for values that agree on S agree on every subset of S.
LEMMA SumsAgree ==
    ASSUME NEW S, IsFiniteSet(S), NEW V, NEW W, S \subseteq V, S \subseteq W,
           NEW f, NEW g, NEW h, NEW k, Sums(h, f, V), Sums(k, g, W),
           \A x \in S : f[x] = g[x]
    PROVE  \A s \in SUBSET S : h[s] = k[s]
<1> DEFINE C == {s \in SUBSET S : h[s] # k[s]}
<1> SUFFICES ASSUME C # {} PROVE FALSE
  OBVIOUS
<1>0. C \subseteq SUBSET S
  OBVIOUS
<1> HIDE DEF C
<1>1. PICK U \in C : \A T \in C : T \subseteq U => T = U
  BY <1>0, LeastCounterexample
<1> USE DEF C
<1>2. U \in SUBSET V /\ U \in SUBSET W
  OBVIOUS
<1>3. /\ h[U] = IF U = {} THEN 0 ELSE f[Choice(U)] + h[U \ {Choice(U)}]
      /\ k[U] = IF U = {} THEN 0 ELSE g[Choice(U)] + k[U \ {Choice(U)}]
  BY <1>2 DEF Sums
<1>4. U # {}
  BY <1>3
<1>5. Choice(U) \in U
  BY <1>4 DEF Choice
<1>6. U \ {Choice(U)} \notin C
  BY <1>1, <1>5
<1> QED
  BY <1>3, <1>4, <1>5, <1>6

\* There is such a function for every finite set: SumsOf is one.
LEMMA SumsExist ==
    ASSUME NEW S, IsFiniteSet(S), NEW f
    PROVE  Sums(SumsOf(f, S), f, S)
<1> DEFINE C == {U \in SUBSET S : ~Sums(SumsOf(f, U), f, U)}
<1> SUFFICES ASSUME C # {} PROVE FALSE
  <2>1. S \in SUBSET S
    OBVIOUS
  <2> QED
    BY <2>1
<1>0. C \subseteq SUBSET S
  OBVIOUS
<1> HIDE DEF C
<1>1. PICK U \in C : \A T \in C : T \subseteq U => T = U
  BY <1>0, LeastCounterexample
<1> USE DEF C
<1>2. \A T \in SUBSET U : T # U => Sums(SumsOf(f, T), f, T)
  BY <1>1
<1> DEFINE last(s) == SumsOf(f, s)[s]
           H == [s \in SUBSET U |-> IF s = {} THEN 0
                                    ELSE f[Choice(s)] + last(s \ {Choice(s)})]
<1>3. ASSUME NEW s \in SUBSET U, s # {}
      PROVE  H[s \ {Choice(s)}] = last(s \ {Choice(s)})
  <2> DEFINE T == s \ {Choice(s)}
  <2>1. Choice(s) \in s
    BY <1>3 DEF Choice
  <2>2. T \in SUBSET U /\ T # U
    BY <2>1
  <2>3. Sums(SumsOf(f, T), f, T)
    BY <1>2, <2>2
  <2>4. last(T) = IF T = {} THEN 0 ELSE f[Choice(T)] + SumsOf(f, T)[T \ {Choice(T)}]
    <3> HIDE DEF T
    <3> QED
      BY <2>3 DEF Sums
  <2>5. ASSUME T # {} PROVE SumsOf(f, T)[T \ {Choice(T)}] = last(T \ {Choice(T)})
    <3> DEFINE R == T \ {Choice(T)}
    <3>1. R \subseteq T /\ R \in SUBSET U /\ R # U
      BY <2>2
    <3>2. Sums(SumsOf(f, R), f, R)
      BY <1>2, <3>1
    <3>3. IsFiniteSet(R)
      BY <3>1, FS_Subset
    <3> HIDE DEF R, T
    <3>4. R \in SUBSET R
      OBVIOUS
    <3>5. SumsOf(f, T)[R] = SumsOf(f, R)[R]
      BY <2>3, <3>1, <3>2, <3>3, <3>4, SumsAgree
    <3> QED
      BY <3>5 DEF R
  <2> QED
    BY <2>2, <2>4, <2>5
<1>4. H = [s \in SUBSET U |-> IF s = {} THEN 0
                              ELSE f[Choice(s)] + H[s \ {Choice(s)}]]
  BY <1>3
<1>5. Sums(H, f, U)
  BY <1>4 DEF Sums
<1> QED
  BY <1>1, <1>5 DEF SumsOf

-----------------------------------------------------------------------------
(* Sums over a part of the domain.                                         *)

\* The sum of f over a subset s of its domain.
Part(f, s) == SumsOf(f, DOMAIN f)[s]

\* The equations of the sum of f over a part of its domain.
LEMMA PartEquations ==
    ASSUME NEW S, IsFiniteSet(S), NEW f \in [S -> Nat]
    PROVE  /\ Part(f, {}) = 0
           /\ \A s \in SUBSET S :
                 s # {} => /\ Choice(s) \in s
                           /\ Part(f, s) = f[Choice(s)] + Part(f, s \ {Choice(s)})
<1>1. DOMAIN f = S
  OBVIOUS
<1>2. Sums(SumsOf(f, S), f, S)
  BY SumsExist
<1>3. {} \in SUBSET S
  OBVIOUS
<1>4. \A s \in SUBSET S : s # {} => Choice(s) \in s
  BY DEF Choice
<1> QED
  BY <1>1, <1>2, <1>3, <1>4 DEF Sums, Part

\* A sum of natural numbers is one.
LEMMA PartInNat ==
    ASSUME NEW S, IsFiniteSet(S), NEW f \in [S -> Nat]
    PROVE  \A s \in SUBSET S : Part(f, s) \in Nat
<1> DEFINE C == {s \in SUBSET S : Part(f, s) \notin Nat}
<1> SUFFICES ASSUME C # {} PROVE FALSE
  OBVIOUS
<1>0. C \subseteq SUBSET S
  OBVIOUS
<1> HIDE DEF C
<1>1. PICK U \in C : \A T \in C : T \subseteq U => T = U
  BY <1>0, LeastCounterexample
<1>2. U \in SUBSET S /\ Part(f, U) \notin Nat
  BY DEF C
<1>3. U # {} /\ Choice(U) \in U /\ Part(f, U) = f[Choice(U)] + Part(f, U \ {Choice(U)})
  <2>1. /\ Part(f, {}) = 0
        /\ U # {} => /\ Choice(U) \in U
                     /\ Part(f, U) = f[Choice(U)] + Part(f, U \ {Choice(U)})
    BY <1>2, PartEquations
  <2>2. ASSUME U = {} PROVE FALSE
    BY <1>2, <2>1, <2>2
  <2> QED
    BY <2>1, <2>2
<1>4. U \ {Choice(U)} \notin C /\ U \ {Choice(U)} \in SUBSET S
  BY <1>1, <1>2, <1>3
<1>5. Part(f, U \ {Choice(U)}) \in Nat /\ f[Choice(U)] \in Nat
  BY <1>2, <1>3, <1>4 DEF C
<1> QED
  BY <1>2, <1>3, <1>5

\* Any element can be taken out of a sum, not only the one the fold chooses.
LEMMA PartSplits ==
    ASSUME NEW S, IsFiniteSet(S), NEW f \in [S -> Nat]
    PROVE  \A s \in SUBSET S : \A a \in s : Part(f, s) = f[a] + Part(f, s \ {a})
<1> DEFINE C == {s \in SUBSET S : \E a \in s : Part(f, s) # f[a] + Part(f, s \ {a})}
<1> SUFFICES ASSUME C # {} PROVE FALSE
  OBVIOUS
<1>0. C \subseteq SUBSET S
  OBVIOUS
<1> HIDE DEF C
<1>1. PICK U \in C : \A T \in C : T \subseteq U => T = U
  BY <1>0, LeastCounterexample
<1>2. U \in SUBSET S
  BY <1>0
<1>3. PICK a \in U : Part(f, U) # f[a] + Part(f, U \ {a})
  BY DEF C
<1> DEFINE x == Choice(U)
<1>4. x \in U /\ Part(f, U) = f[x] + Part(f, U \ {x})
  BY <1>2, PartEquations
<1> HIDE DEF x
<1>5. a # x
  BY <1>3, <1>4
<1>6. ASSUME NEW y \in U, NEW z \in U \ {y}
      PROVE  Part(f, U \ {y}) = f[z] + Part(f, (U \ {y}) \ {z})
  <2>1. U \ {y} \notin C /\ U \ {y} \in SUBSET S
    BY <1>1, <1>2
  <2> QED
    BY <2>1 DEF C
<1>7. /\ Part(f, U \ {x}) = f[a] + Part(f, (U \ {x}) \ {a})
      /\ Part(f, U \ {a}) = f[x] + Part(f, (U \ {a}) \ {x})
  BY <1>4, <1>5, <1>6
<1>8. (U \ {x}) \ {a} = (U \ {a}) \ {x}
  OBVIOUS
<1>9. f[a] \in Nat /\ f[x] \in Nat /\ Part(f, (U \ {a}) \ {x}) \in Nat
  <2>1. (U \ {a}) \ {x} \in SUBSET S /\ a \in S /\ x \in S
    BY <1>2, <1>4
  <2> QED
    BY <2>1, PartInNat
<1> DEFINE rest == Part(f, (U \ {a}) \ {x})
<1>10. f[x] + (f[a] + rest) = f[a] + (f[x] + rest)
  <2> HIDE DEF rest
  <2>1. ASSUME NEW i \in Nat, NEW j \in Nat, NEW n \in Nat
        PROVE  i + (j + n) = j + (i + n)
    OBVIOUS
  <2> QED
    BY <1>9, <2>1 DEF rest
<1> QED
  BY <1>3, <1>4, <1>7, <1>8, <1>10

\* The sum over s depends on the values on s only.
LEMMA PartsAgree ==
    ASSUME NEW S, IsFiniteSet(S), NEW f \in [S -> Nat],
           NEW T, IsFiniteSet(T), NEW g \in [T -> Nat],
           NEW s \in SUBSET S, s \subseteq T, \A x \in s : f[x] = g[x]
    PROVE  Part(f, s) = Part(g, s)
<1>1. Sums(SumsOf(f, S), f, S) /\ Sums(SumsOf(g, T), g, T)
  BY SumsExist
<1>2. IsFiniteSet(s) /\ s \in SUBSET s
  BY FS_Subset
<1> DEFINE h == SumsOf(f, S)
           k == SumsOf(g, T)
<1> HIDE DEF h, k
<1>3. ASSUME Sums(h, f, S), Sums(k, g, T)
      PROVE  \A t \in SUBSET s : h[t] = k[t]
  BY <1>2, <1>3, SumsAgree
<1>4. SumsOf(f, S)[s] = SumsOf(g, T)[s]
  BY <1>1, <1>2, <1>3 DEF h, k
<1> QED
  BY <1>4 DEF Part

\* Renaming the elements one to one leaves the sum as it is.
LEMMA PartReindexed ==
    ASSUME NEW S, IsFiniteSet(S), NEW f \in [S -> Nat],
           NEW T, IsFiniteSet(T), NEW g \in [T -> Nat],
           NEW D \in SUBSET S, NEW m \in [D -> T],
           \A x, y \in D : x # y => m[x] # m[y],
           \A x \in D : g[m[x]] = f[x]
    PROVE  Part(f, D) = Part(g, {m[x] : x \in D})
<1> DEFINE image(s) == {m[x] : x \in s}
           C == {s \in SUBSET D : Part(f, s) # Part(g, image(s))}
<1> SUFFICES ASSUME C # {} PROVE FALSE
  <2>1. D \in SUBSET D
    OBVIOUS
  <2> QED
    BY <2>1
<1>0. C \subseteq SUBSET S
  OBVIOUS
<1> HIDE DEF C
<1>1. PICK U \in C : \A V \in C : V \subseteq U => V = U
  BY <1>0, LeastCounterexample
<1>2. U \in SUBSET D /\ U \in SUBSET S /\ Part(f, U) # Part(g, image(U))
  BY <1>0 DEF C
<1>3. image(U) \in SUBSET T
  BY <1>2
<1>4. U # {}
  <2>1. image({}) = {}
    OBVIOUS
  <2>2. Part(f, {}) = 0 /\ Part(g, {}) = 0
    BY <1>2, <1>3, PartEquations
  <2> QED
    BY <1>2, <2>1, <2>2
<1>5. PICK a \in U : TRUE
  BY <1>4
<1>6. Part(f, U \ {a}) = Part(g, image(U \ {a}))
  <2>1. U \ {a} \notin C /\ U \ {a} \in SUBSET D
    BY <1>1, <1>2
  <2> QED
    BY <2>1 DEF C
<1>7. image(U \ {a}) = image(U) \ {m[a]} /\ m[a] \in image(U)
  BY <1>2
<1>8. Part(f, U) = f[a] + Part(f, U \ {a})
  BY <1>2, PartSplits
<1>9. Part(g, image(U)) = g[m[a]] + Part(g, image(U) \ {m[a]})
  BY <1>3, <1>7, PartSplits
<1>10. g[m[a]] = f[a]
  BY <1>2
<1> QED
  BY <1>2, <1>6, <1>7, <1>8, <1>9, <1>10

\* Elements that add nothing can be left out.
LEMMA PartWithZeros ==
    ASSUME NEW S, IsFiniteSet(S), NEW f \in [S -> Nat],
           NEW D \in SUBSET S, \A x \in S \ D : f[x] = 0
    PROVE  Part(f, S) = Part(f, D)
<1> DEFINE C == {s \in SUBSET S : D \subseteq s /\ Part(f, s) # Part(f, D)}
<1> SUFFICES ASSUME C # {} PROVE FALSE
  <2>1. S \in SUBSET S
    OBVIOUS
  <2> QED
    BY <2>1
<1>0. C \subseteq SUBSET S
  OBVIOUS
<1> HIDE DEF C
<1>1. PICK U \in C : \A T \in C : T \subseteq U => T = U
  BY <1>0, LeastCounterexample
<1>2. U \in SUBSET S /\ D \subseteq U /\ Part(f, U) # Part(f, D)
  BY DEF C
<1>3. PICK a \in U : a \notin D
  BY <1>2
<1>4. Part(f, U \ {a}) = Part(f, D)
  <2>1. U \ {a} \notin C /\ U \ {a} \in SUBSET S /\ D \subseteq U \ {a}
    BY <1>1, <1>2, <1>3
  <2> QED
    BY <2>1 DEF C
<1>5. Part(f, U) = f[a] + Part(f, U \ {a}) /\ f[a] = 0
  BY <1>2, <1>3, PartSplits
<1>6. Part(f, U \ {a}) \in Nat
  <2>1. U \ {a} \in SUBSET S
    BY <1>2
  <2> QED
    BY <2>1, PartInNat
<1> QED
  BY <1>2, <1>4, <1>5, <1>6

-----------------------------------------------------------------------------

-----------------------------------------------------------------------------
(* Sums.                                                                   *)

\* The sum of f is that over its whole domain.
LEMMA SumIsPart ==
    ASSUME NEW S, NEW f \in [S -> Nat]
    PROVE  SumOver(f) = Part(f, S)
<1>1. DOMAIN f = S
  OBVIOUS
<1> QED
  BY <1>1, SumIsLast DEF Part

\* The sum over a finite set of natural numbers is a natural number.
LEMMA SumInNat ==
    ASSUME NEW S, IsFiniteSet(S), NEW f \in [S -> Nat]
    PROVE  SumOver(f) \in Nat
<1>1. S \in SUBSET S
  OBVIOUS
<1> QED
  BY <1>1, SumIsPart, PartInNat

\* Zeros add up to zero.
LEMMA SumOfZeros ==
    ASSUME NEW S, IsFiniteSet(S), NEW f \in [S -> Nat], \A x \in S : f[x] = 0
    PROVE  SumOver(f) = 0
<1>1. {} \in SUBSET S
  OBVIOUS
<1>2. Part(f, S) = Part(f, {})
  BY <1>1, PartWithZeros
<1> QED
  BY <1>1, <1>2, SumIsPart, PartEquations

\* Changing one value changes the sum by as much.
LEMMA SumOfChange ==
    ASSUME NEW S, IsFiniteSet(S), NEW f \in [S -> Nat], NEW g \in [S -> Nat],
           NEW a \in S, \A x \in S \ {a} : f[x] = g[x]
    PROVE  SumOver(g) + f[a] = SumOver(f) + g[a]
<1>1. S \in SUBSET S /\ S \ {a} \in SUBSET S
  OBVIOUS
<1>2. Part(f, S) = f[a] + Part(f, S \ {a}) /\ Part(g, S) = g[a] + Part(g, S \ {a})
  BY <1>1, PartSplits
<1>3. Part(f, S \ {a}) = Part(g, S \ {a})
  BY <1>1, PartsAgree
<1>4. f[a] \in Nat /\ g[a] \in Nat /\ Part(f, S \ {a}) \in Nat
  BY <1>1, PartInNat
<1> QED
  BY <1>2, <1>3, <1>4, SumIsPart

\* A sum over one set is a sum over another when a one-to-one map takes the
\* terms of the first to those of the second, but for zeros.
LEMMA SumReindexed ==
    ASSUME NEW S, IsFiniteSet(S), NEW f \in [S -> Nat],
           NEW T, IsFiniteSet(T), NEW g \in [T -> Nat],
           NEW D \in SUBSET S, NEW m \in [D -> T],
           \A x, y \in D : x # y => m[x] # m[y],
           \A x \in D : g[m[x]] = f[x],
           \A x \in S \ D : f[x] = 0,
           \A y \in T : (\A x \in D : y # m[x]) => g[y] = 0
    PROVE  SumOver(f) = SumOver(g)
<1> DEFINE E == {m[x] : x \in D}
<1>1. E \in SUBSET T /\ \A y \in T \ E : g[y] = 0
  OBVIOUS
<1>2. Part(f, D) = Part(g, E)
  BY PartReindexed
<1> HIDE DEF E
<1>3. Part(f, S) = Part(f, D) /\ Part(g, T) = Part(g, E)
  BY <1>1, PartWithZeros
<1> QED
  BY <1>2, <1>3, SumIsPart

=============================================================================
