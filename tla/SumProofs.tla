----------------------------- MODULE SumProofs -----------------------------
(***************************************************************************)
(* Sums over finite sets.  The models add up amounts with MapThenSumSet,   *)
(* a fold that takes the elements out of the set one by one, in an order   *)
(* that CHOOSE picks.  These are the facts that a proof needs of it: the   *)
(* recursion has a solution, its value does not depend on the order, and   *)
(* how it changes with the set and with the numbers added.                 *)
(*                                                                         *)
(* The numbers are the values of a function.  Every induction is a search  *)
(* for a least counterexample among the sizes of the subsets.              *)
(***************************************************************************)
EXTENDS Integers, FiniteSetsExt, FiniteSetTheorems, TLAPS

\* The sum of f[x] for the elements x of S, as the models write it.
SumOf(f, S) == MapThenSumSet(LAMBDA x : f[x], S)

\* The element that the fold takes out of s, and one step of its recursion.
Picked(s) == CHOOSE x \in s : TRUE
Step(f, g, s) == IF s = {} THEN 0 ELSE f[Picked(s)] + g[s \ {Picked(s)}]

\* The function that the fold defines on the subsets of S.
Iterates(g, f, S) == g = [s \in SUBSET S |-> Step(f, g, s)]
Iterate(f, S) == CHOOSE g : Iterates(g, f, S)

\* A set of natural numbers that is not empty has a least element.
LEMMA LeastNumber ==
    ASSUME NEW S, S \subseteq Nat, S # {}
    PROVE  \E m \in S : \A n \in S : m <= n
<1> DEFINE R == OpToRel(<, Nat)
<1>1. IsWellFoundedOn(R, Nat)
  BY NatLessThanWellFounded
<1>2. \A y, x \in Nat : <<y, x>> \notin R => x <= y
  BY DEF OpToRel
<1> HIDE DEF R
<1>3. PICK x \in S : \A y \in S : ~ (<<y, x>> \in R)
  BY <1>1, WFMin, Zenon
<1>4. QED
  BY <1>2, <1>3

\* A collection of finite sets that is not empty has one of least size.
LEMMA SmallestSet ==
    ASSUME NEW S, IsFiniteSet(S), NEW bad, bad \subseteq SUBSET S, bad # {}
    PROVE  \E s \in bad : \A t \in bad : Cardinality(s) <= Cardinality(t)
<1> DEFINE sizes == {Cardinality(s) : s \in bad}
<1>1. \A s \in bad : Cardinality(s) \in Nat
  BY FS_Subset, FS_CardinalityType
<1>2. sizes \subseteq Nat /\ sizes # {}
  BY <1>1
<1>3. PICK m \in sizes : \A n \in sizes : m <= n
  <2> HIDE DEF sizes
  <2>1. QED
    BY <1>2, LeastNumber
<1>4. QED
  BY <1>3

\* What the recursion goes down to.
LEMMA PickedFacts ==
    ASSUME NEW s, s # {}, IsFiniteSet(s)
    PROVE  /\ Picked(s) \in s
           /\ IsFiniteSet(s \ {Picked(s)})
           /\ Cardinality(s) \in Nat /\ Cardinality(s \ {Picked(s)}) \in Nat
           /\ Cardinality(s \ {Picked(s)}) < Cardinality(s)
<1>1. Picked(s) \in s
  BY DEF Picked
<1>2. IsFiniteSet(s \ {Picked(s)}) /\ Cardinality(s \ {Picked(s)}) = Cardinality(s) - 1
  BY <1>1, FS_RemoveElement
<1>3. Cardinality(s) \in Nat /\ Cardinality(s \ {Picked(s)}) \in Nat
  BY <1>2, FS_CardinalityType
<1>4. QED
  BY <1>1, <1>2, <1>3

-----------------------------------------------------------------------------
(* The recursion has one solution.                                          *)

\* Solutions for two sets agree on the subsets of both.
LEMMA IterateUnique ==
    ASSUME NEW S, IsFiniteSet(S), NEW T, S \subseteq T, NEW f, NEW g, NEW h,
           Iterates(g, f, S), Iterates(h, f, T)
    PROVE  \A s \in SUBSET S : g[s] = h[s]
<1> DEFINE bad == {s \in SUBSET S : g[s] # h[s]}
<1>1. SUFFICES ASSUME bad # {} PROVE FALSE
  OBVIOUS
<1>2. PICK s \in bad : \A t \in bad : Cardinality(s) <= Cardinality(t)
  <2>1. bad \subseteq SUBSET S
    OBVIOUS
  <2> HIDE DEF bad
  <2>2. QED
    BY <1>1, <2>1, SmallestSet
<1>3. s \in SUBSET S /\ s \in SUBSET T /\ IsFiniteSet(s)
  BY FS_Subset
<1>4. g[s] = Step(f, g, s) /\ h[s] = Step(f, h, s)
  BY <1>3 DEF Iterates
<1>5. s # {}
  BY <1>4 DEF Step
<1>6. s \ {Picked(s)} \notin bad
  BY <1>2, <1>3, <1>5, PickedFacts
<1>7. g[s \ {Picked(s)}] = h[s \ {Picked(s)}]
  BY <1>3, <1>6
<1>8. QED
  BY <1>4, <1>5, <1>7 DEF Step

\* There is a solution on the subsets of each size.
LEMMA IterateExists ==
    ASSUME NEW S, IsFiniteSet(S), NEW f
    PROVE  \E g : Iterates(g, f, S)
<1> DEFINE Small(n) == {s \in SUBSET S : Cardinality(s) <= n}
           Solved(n) == \E g : g = [s \in Small(n) |-> Step(f, g, s)]
           bad == {n \in Nat : ~Solved(n)}
<1>0. \A s \in SUBSET S : IsFiniteSet(s) /\ Cardinality(s) \in Nat
  BY FS_Subset, FS_CardinalityType
<1>1. Solved(0)
  <2>1. \A s \in Small(0) : s = {}
    BY <1>0, FS_EmptySet
  <2> DEFINE g == [s \in Small(0) |-> 0]
  <2>2. g = [s \in Small(0) |-> Step(f, g, s)]
    BY <2>1 DEF Step
  <2>3. QED
    BY <2>2
<1>2. ASSUME NEW n \in Nat, Solved(n) PROVE Solved(n + 1)
  <2>1. PICK g : g = [s \in Small(n) |-> Step(f, g, s)]
    BY <1>2
  <2>2. PICK h : h = [s \in Small(n + 1) |-> Step(f, g, s)]
    OBVIOUS
  <2>3. \A s \in Small(n + 1) : s # {} => s \ {Picked(s)} \in Small(n)
    BY <1>0, PickedFacts
  <2>4. \A s \in Small(n) : s \in Small(n + 1) /\ h[s] = g[s]
    <3>1. \A s \in Small(n) : s \in Small(n + 1)
      BY <1>0
    <3> HIDE DEF Small
    <3>2. QED
      BY <2>1, <2>2, <3>1
  <2>5. \A s \in Small(n + 1) : Step(f, g, s) = Step(f, h, s)
    <3> HIDE DEF Small
    <3>1. QED
      BY <2>3, <2>4 DEF Step
  <2>6. h = [s \in Small(n + 1) |-> Step(f, h, s)]
    <3> HIDE DEF Small
    <3>1. QED
      BY <2>2, <2>5
  <2>7. QED
    BY <2>6
<1>3. bad = {}
  <2>1. SUFFICES ASSUME bad # {} PROVE FALSE
    OBVIOUS
  <2>2. PICK m \in bad : \A n \in bad : m <= n
    <3>1. bad \subseteq Nat
      OBVIOUS
    <3> HIDE DEF bad
    <3>2. QED
      BY <2>1, <3>1, LeastNumber
  <2> HIDE DEF Solved
  <2>3. m \in Nat /\ ~Solved(m) /\ m # 0
    BY <1>1
  <2>4. m - 1 \in Nat /\ m - 1 \notin bad
    BY <2>2, <2>3
  <2>5. Solved((m - 1) + 1)
    BY <1>2, <2>4
  <2>6. QED
    BY <2>3, <2>5
<1>4. PICK n \in Nat : n = Cardinality(S)
  BY FS_CardinalityType
<1>5. Solved(n)
  <2> HIDE DEF Solved
  <2>1. QED
    BY <1>3, <1>4
<1>6. Small(n) = SUBSET S
  BY <1>4, FS_Subset
<1>7. PICK g : g = [s \in Small(n) |-> Step(f, g, s)]
  BY <1>5
<1>8. QED
  BY <1>6, <1>7 DEF Iterates
-----------------------------------------------------------------------------
(* The sum, its recursion and its type.                                     *)

\* The sum over a subset is what the solution for the whole set says.
LEMMA SumIterates ==
    ASSUME NEW S, IsFiniteSet(S), NEW f, NEW T \in SUBSET S
    PROVE  SumOf(f, T) = Iterate(f, S)[T]
<1>1. IsFiniteSet(T) /\ T \subseteq S
  BY FS_Subset
<1>2. Iterates(Iterate(f, S), f, S) /\ Iterates(Iterate(f, T), f, T)
  BY <1>1, IterateExists DEF Iterate
<1>3. \A s \in SUBSET T : Iterate(f, T)[s] = Iterate(f, S)[s]
  BY <1>1, <1>2, IterateUnique
<1>4. SumOf(f, T) = Iterate(f, T)[T]
  BY DEF SumOf, MapThenSumSet, MapThenFoldSet, Iterate, Iterates, Step, Picked
<1>5. QED
  BY <1>3, <1>4

\* Nothing adds up to 0.
LEMMA SumEmpty == ASSUME NEW f PROVE SumOf(f, {}) = 0
<1>1. IsFiniteSet({})
  BY FS_EmptySet
<1>2. Iterates(Iterate(f, {}), f, {})
  BY <1>1, IterateExists DEF Iterate
<1>3. SumOf(f, {}) = Iterate(f, {})[{}]
  BY <1>1, SumIterates
<1>4. QED
  BY <1>2, <1>3 DEF Iterates, Step

\* A sum is the picked element's number and the sum of the others.
LEMMA SumPicked ==
    ASSUME NEW S, IsFiniteSet(S), NEW f, S # {}
    PROVE  SumOf(f, S) = f[Picked(S)] + SumOf(f, S \ {Picked(S)})
<1>1. Iterates(Iterate(f, S), f, S)
  BY IterateExists DEF Iterate
<1>2. SumOf(f, S) = Iterate(f, S)[S]
  BY SumIterates
<1>3. SumOf(f, S \ {Picked(S)}) = Iterate(f, S)[S \ {Picked(S)}]
  BY SumIterates
<1>4. Iterate(f, S)[S] = Step(f, Iterate(f, S), S)
  BY <1>1 DEF Iterates
<1>5. QED
  BY <1>2, <1>3, <1>4 DEF Step

\* A sum of integers is one.
LEMMA SumIsInt ==
    ASSUME NEW S, IsFiniteSet(S), NEW f, \A x \in S : f[x] \in Int
    PROVE  SumOf(f, S) \in Int
<1> DEFINE bad == {s \in SUBSET S : SumOf(f, s) \notin Int}
<1>1. SUFFICES ASSUME bad # {} PROVE FALSE
  OBVIOUS
<1>2. PICK s \in bad : \A t \in bad : Cardinality(s) <= Cardinality(t)
  <2>1. bad \subseteq SUBSET S
    OBVIOUS
  <2> HIDE DEF bad
  <2>2. QED
    BY <1>1, <2>1, SmallestSet
<1>3. s \in SUBSET S /\ IsFiniteSet(s) /\ SumOf(f, s) \notin Int
  BY FS_Subset
<1>4. s # {}
  BY <1>3, SumEmpty
<1>5. s \ {Picked(s)} \notin bad
  BY <1>2, <1>3, <1>4, PickedFacts
<1>6. SumOf(f, s \ {Picked(s)}) \in Int
  BY <1>3, <1>5
<1>7. f[Picked(s)] \in Int
  BY <1>3, <1>4, PickedFacts
<1>8. SumOf(f, s) = f[Picked(s)] + SumOf(f, s \ {Picked(s)})
  BY <1>3, <1>4, SumPicked
<1>9. QED
  BY <1>3, <1>6, <1>7, <1>8

\* Whichever element is taken out first, the sum is the same.
LEMMA SumTakeOut ==
    ASSUME NEW S, IsFiniteSet(S), NEW f, \A y \in S : f[y] \in Int, NEW x \in S
    PROVE  SumOf(f, S) = f[x] + SumOf(f, S \ {x})
<1> DEFINE bad == {s \in SUBSET S : \E y \in s : SumOf(f, s) # f[y] + SumOf(f, s \ {y})}
<1>1. SUFFICES ASSUME bad # {} PROVE FALSE
  <2>1. S \in SUBSET S
    OBVIOUS
  <2>2. QED
    BY <2>1
<1>2. PICK s \in bad : \A t \in bad : Cardinality(s) <= Cardinality(t)
  <2>1. bad \subseteq SUBSET S
    OBVIOUS
  <2> HIDE DEF bad
  <2>2. QED
    BY <1>1, <2>1, SmallestSet
<1>3. s \in SUBSET S /\ IsFiniteSet(s)
  BY FS_Subset
<1>4. PICK y \in s : SumOf(f, s) # f[y] + SumOf(f, s \ {y})
  BY <1>2
<1>5. PICK z \in s : z = Picked(s)
  BY DEF Picked
<1>6. SumOf(f, s) = f[z] + SumOf(f, s \ {z})
  BY <1>3, <1>5, SumPicked
<1>7. y # z
  BY <1>4, <1>6
<1>8. /\ Cardinality(s) \in Nat
      /\ Cardinality(s \ {z}) < Cardinality(s) /\ Cardinality(s \ {y}) < Cardinality(s)
      /\ Cardinality(s \ {z}) \in Nat /\ Cardinality(s \ {y}) \in Nat
      /\ IsFiniteSet(s \ {z}) /\ IsFiniteSet(s \ {y})
  <2>1. /\ Cardinality(s \ {z}) = Cardinality(s) - 1 /\ IsFiniteSet(s \ {z})
        /\ Cardinality(s \ {y}) = Cardinality(s) - 1 /\ IsFiniteSet(s \ {y})
    BY <1>3, FS_RemoveElement
  <2>2. /\ Cardinality(s) \in Nat /\ Cardinality(s \ {z}) \in Nat
        /\ Cardinality(s \ {y}) \in Nat
    BY <1>3, <2>1, FS_CardinalityType
  <2>3. QED
    BY <2>1, <2>2
<1>9. s \ {z} \notin bad /\ s \ {y} \notin bad
  BY <1>2, <1>8
<1>10. SumOf(f, s \ {z}) = f[y] + SumOf(f, (s \ {z}) \ {y})
  BY <1>3, <1>7, <1>9
<1>11. SumOf(f, s \ {y}) = f[z] + SumOf(f, (s \ {y}) \ {z})
  BY <1>3, <1>7, <1>9
<1>12. (s \ {z}) \ {y} = (s \ {y}) \ {z}
  OBVIOUS
<1>13. PICK rest : rest = SumOf(f, (s \ {y}) \ {z})
  OBVIOUS
<1>14. rest \in Int /\ f[y] \in Int /\ f[z] \in Int
  <2>1. IsFiniteSet((s \ {y}) \ {z})
    BY <1>8, FS_RemoveElement
  <2>2. \A v \in (s \ {y}) \ {z} : f[v] \in Int
    BY <1>3
  <2>3. SumOf(f, (s \ {y}) \ {z}) \in Int
    BY <2>1, <2>2, SumIsInt
  <2>4. QED
    BY <1>3, <1>13, <2>3
<1>15. SumOf(f, s) = f[z] + (f[y] + rest) /\ SumOf(f, s) # f[y] + (f[z] + rest)
  BY <1>4, <1>6, <1>10, <1>11, <1>12, <1>13
<1>16. QED
  BY <1>14, <1>15
\* One element more.
LEMMA SumAdd ==
    ASSUME NEW S, IsFiniteSet(S), NEW f, NEW x, x \notin S, \A y \in S \cup {x} : f[y] \in Int
    PROVE  SumOf(f, S \cup {x}) = f[x] + SumOf(f, S)
<1>1. IsFiniteSet(S \cup {x}) /\ x \in S \cup {x} /\ (S \cup {x}) \ {x} = S
  BY FS_AddElement
<1>2. QED
  BY <1>1, SumTakeOut

-----------------------------------------------------------------------------
(* Comparing sums.                                                          *)

\* Only the numbers at the elements matter.
LEMMA SumSame ==
    ASSUME NEW S, IsFiniteSet(S), NEW f, NEW g, \A x \in S : f[x] = g[x]
    PROVE  SumOf(f, S) = SumOf(g, S)
<1> DEFINE bad == {s \in SUBSET S : SumOf(f, s) # SumOf(g, s)}
<1>1. SUFFICES ASSUME bad # {} PROVE FALSE
  OBVIOUS
<1>2. PICK s \in bad : \A t \in bad : Cardinality(s) <= Cardinality(t)
  <2>1. bad \subseteq SUBSET S
    OBVIOUS
  <2> HIDE DEF bad
  <2>2. QED
    BY <1>1, <2>1, SmallestSet
<1>3. s \in SUBSET S /\ IsFiniteSet(s) /\ SumOf(f, s) # SumOf(g, s)
  BY FS_Subset
<1>4. s # {}
  BY <1>3, SumEmpty
<1>5. s \ {Picked(s)} \notin bad
  BY <1>2, <1>3, <1>4, PickedFacts
<1>6. SumOf(f, s \ {Picked(s)}) = SumOf(g, s \ {Picked(s)})
  BY <1>3, <1>5
<1>7. f[Picked(s)] = g[Picked(s)]
  BY <1>3, <1>4, PickedFacts
<1>8. /\ SumOf(f, s) = f[Picked(s)] + SumOf(f, s \ {Picked(s)})
      /\ SumOf(g, s) = g[Picked(s)] + SumOf(g, s \ {Picked(s)})
  BY <1>3, <1>4, SumPicked
<1>9. QED
  BY <1>3, <1>6, <1>7, <1>8

\* The sum of some elements' numbers, none of them negative, is at most the sum of all.
LEMMA SumOfFewer ==
    ASSUME NEW S, IsFiniteSet(S), NEW f, \A x \in S : f[x] \in Nat, NEW T \in SUBSET S
    PROVE  SumOf(f, T) \in Nat /\ SumOf(f, T) <= SumOf(f, S)
<1> DEFINE bad == {s \in SUBSET S : ~(/\ SumOf(f, s \cap T) \in Nat
                                     /\ SumOf(f, s \cap T) <= SumOf(f, s))}
<1>1. SUFFICES ASSUME bad # {} PROVE FALSE
  <2>1. S \in SUBSET S /\ S \cap T = T
    OBVIOUS
  <2>2. QED
    BY <2>1
<1>2. PICK s \in bad : \A t \in bad : Cardinality(s) <= Cardinality(t)
  <2>1. bad \subseteq SUBSET S
    OBVIOUS
  <2> HIDE DEF bad
  <2>2. QED
    BY <1>1, <2>1, SmallestSet
<1>3. s \in SUBSET S /\ IsFiniteSet(s) /\ IsFiniteSet(s \cap T)
      /\ ~(SumOf(f, s \cap T) \in Nat /\ SumOf(f, s \cap T) <= SumOf(f, s))
  BY FS_Subset
<1>4. s # {}
  <2>1. SUFFICES ASSUME s = {} PROVE FALSE
    OBVIOUS
  <2>2. SumOf(f, s) = 0 /\ SumOf(f, s \cap T) = 0
    BY <2>1, SumEmpty
  <2>3. QED
    BY <1>3, <2>2
<1>5. PICK x \in s : x = Picked(s)
  BY <1>4 DEF Picked
<1>6. Cardinality(s \ {x}) < Cardinality(s) /\ Cardinality(s) \in Nat
      /\ Cardinality(s \ {x}) \in Nat /\ IsFiniteSet(s \ {x})
  BY <1>3, <1>4, <1>5, PickedFacts
<1>7. s \ {x} \notin bad
  BY <1>2, <1>6
<1>8. /\ SumOf(f, (s \ {x}) \cap T) \in Nat
      /\ SumOf(f, (s \ {x}) \cap T) <= SumOf(f, s \ {x})
  BY <1>3, <1>7
<1>9. SumOf(f, s) = f[x] + SumOf(f, s \ {x}) /\ f[x] \in Nat
  BY <1>3, <1>4, <1>5, SumPicked
<1>10. SumOf(f, s \ {x}) \in Int
  BY <1>3, <1>6, SumIsInt
<1>11. CASE x \in T
  <2>1. (s \cap T) \ {x} = (s \ {x}) \cap T
    OBVIOUS
  <2>2. SumOf(f, s \cap T) = f[x] + SumOf(f, (s \ {x}) \cap T)
    <3>1. x \in s \cap T /\ \A y \in s \cap T : f[y] \in Int
      BY <1>3, <1>11
    <3>2. QED
      BY <1>3, <2>1, <3>1, SumTakeOut
  <2>3. QED
    BY <1>3, <1>8, <1>9, <1>10, <2>2
<1>12. CASE x \notin T
  <2>1. s \cap T = (s \ {x}) \cap T
    BY <1>12
  <2>2. PICK a, b : a = SumOf(f, s \cap T) /\ b = SumOf(f, s \ {x})
    OBVIOUS
  <2>3. a \in Nat /\ a <= b /\ b \in Int
    BY <1>8, <1>10, <2>1, <2>2
  <2>4. ~(a \in Nat /\ a <= f[x] + b)
    BY <1>3, <1>9, <2>2
  <2>5. QED
    BY <1>9, <2>3, <2>4
<1>13. QED
  BY <1>11, <1>12

\* A sum of natural numbers is one.
LEMMA SumIsNat ==
    ASSUME NEW S, IsFiniteSet(S), NEW f, \A x \in S : f[x] \in Nat
    PROVE  SumOf(f, S) \in Nat
BY SumOfFewer

\* And it is 0 only if every number is.
LEMMA SumIsZero ==
    ASSUME NEW S, IsFiniteSet(S), NEW f, \A x \in S : f[x] \in Nat
    PROVE  SumOf(f, S) = 0 <=> \A x \in S : f[x] = 0
<1>1. ASSUME NEW x \in S, f[x] # 0 PROVE SumOf(f, S) # 0
  <2>1. SumOf(f, S) = f[x] + SumOf(f, S \ {x})
    BY SumTakeOut
  <2>2. SumOf(f, S \ {x}) \in Nat
    BY SumOfFewer
  <2>3. QED
    BY <1>1, <2>1, <2>2
<1>2. ASSUME \A x \in S : f[x] = 0 PROVE SumOf(f, S) = 0
  <2>1. CASE S = {}
    BY <2>1, SumEmpty
  <2>2. CASE S # {}
    <3> DEFINE bad == {s \in SUBSET S : SumOf(f, s) # 0}
    <3>1. SUFFICES ASSUME bad # {} PROVE FALSE
      <4>1. S \in SUBSET S
        OBVIOUS
      <4>2. QED
        BY <4>1
    <3>2. PICK s \in bad : \A t \in bad : Cardinality(s) <= Cardinality(t)
      <4>1. bad \subseteq SUBSET S
        OBVIOUS
      <4> HIDE DEF bad
      <4>2. QED
        BY <3>1, <4>1, SmallestSet
    <3>3. s \in SUBSET S /\ IsFiniteSet(s) /\ SumOf(f, s) # 0
      BY FS_Subset
    <3>4. s # {}
      BY <3>3, SumEmpty
    <3>5. s \ {Picked(s)} \notin bad /\ f[Picked(s)] = 0
      BY <1>2, <3>2, <3>3, <3>4, PickedFacts
    <3>6. SumOf(f, s \ {Picked(s)}) = 0
      BY <3>3, <3>5
    <3>7. QED
      BY <3>3, <3>4, <3>5, <3>6, SumPicked
  <2>3. QED
    BY <2>1, <2>2
<1>3. QED
  BY <1>1, <1>2

\* A sum may be taken over other names of its elements.
LEMMA SumRenamed ==
    ASSUME NEW S, IsFiniteSet(S), NEW T, IsFiniteSet(T), NEW h \in [S -> T],
           \A x, y \in S : h[x] = h[y] => x = y,
           NEW f, NEW g, \A x \in S : f[x] \in Int /\ g[h[x]] = f[x]
    PROVE  SumOf(g, {h[x] : x \in S}) = SumOf(f, S)
<1> DEFINE bad == {s \in SUBSET S : SumOf(g, {h[x] : x \in s}) # SumOf(f, s)}
<1>1. SUFFICES ASSUME bad # {} PROVE FALSE
  <2>1. S \in SUBSET S
    OBVIOUS
  <2>2. QED
    BY <2>1
<1>2. PICK s \in bad : \A t \in bad : Cardinality(s) <= Cardinality(t)
  <2>1. bad \subseteq SUBSET S
    OBVIOUS
  <2> HIDE DEF bad
  <2>2. QED
    BY <1>1, <2>1, SmallestSet
<1>3. s \in SUBSET S /\ IsFiniteSet(s) /\ SumOf(g, {h[x] : x \in s}) # SumOf(f, s)
  BY FS_Subset
<1>4. s # {}
  <2>1. ASSUME s = {} PROVE FALSE
    <3>1. {h[x] : x \in s} = {}
      BY <2>1
    <3>2. QED
      BY <1>3, <2>1, <3>1, SumEmpty
  <2>2. QED
    BY <2>1
<1>5. PICK x : x = Picked(s)
  OBVIOUS
<1>6. /\ x \in s /\ IsFiniteSet(s \ {x}) /\ Cardinality(s \ {x}) < Cardinality(s)
      /\ Cardinality(s) \in Nat /\ Cardinality(s \ {x}) \in Nat
  BY <1>3, <1>4, <1>5, PickedFacts
<1>7. s \ {x} \notin bad
  BY <1>2, <1>6
<1>8. SumOf(g, {h[y] : y \in s \ {x}}) = SumOf(f, s \ {x})
  BY <1>3, <1>7
<1>9. SumOf(f, s) = f[x] + SumOf(f, s \ {x})
  BY <1>3, <1>6, SumTakeOut
<1>10. PICK image : image = {h[y] : y \in s}
  OBVIOUS
<1>11. /\ image \in SUBSET T /\ h[x] \in image
       /\ \A z \in image : g[z] \in Int
       /\ image \ {h[x]} = {h[y] : y \in s \ {x}}
  BY <1>3, <1>6, <1>10
<1>12. IsFiniteSet(image)
  BY <1>11, FS_Subset
<1>13. SumOf(g, image) = g[h[x]] + SumOf(g, image \ {h[x]})
  BY <1>11, <1>12, SumTakeOut
<1>14. g[h[x]] = f[x]
  BY <1>3, <1>6
<1>15. QED
  BY <1>3, <1>8, <1>9, <1>10, <1>11, <1>13, <1>14

\* A sum of positive numbers grows with every element.
LEMMA SumGrows ==
    ASSUME NEW S, IsFiniteSet(S), NEW f, \A x \in S : f[x] \in Nat /\ f[x] > 0,
           NEW T \in SUBSET S
    PROVE  SumOf(f, T) = SumOf(f, S) <=> T = S
<1>1. ASSUME NEW x \in S \ T PROVE SumOf(f, T) # SumOf(f, S)
  <2>1. SumOf(f, S) = f[x] + SumOf(f, S \ {x})
    BY SumTakeOut
  <2>2. IsFiniteSet(S \ {x}) /\ T \in SUBSET (S \ {x}) /\ \A y \in S \ {x} : f[y] \in Nat
    BY <1>1, FS_Subset
  <2>3. /\ SumOf(f, T) \in Nat /\ SumOf(f, T) <= SumOf(f, S \ {x})
        /\ SumOf(f, S \ {x}) \in Nat
    BY <2>2, SumOfFewer, SumIsNat
  <2>4. QED
    BY <2>1, <2>3
<1>2. QED
  BY <1>1
=============================================================================
