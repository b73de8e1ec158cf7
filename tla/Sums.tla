--------------------------------- MODULE Sums ---------------------------------
(***************************************************************************)
(* What MapThenSumSet adds up: a sum over a finite set is defined by       *)
(* taking one chosen element after another away, and does not depend on    *)
(* the order.  The amounts are given as a function on the set.             *)
(***************************************************************************)
EXTENDS Integers, FiniteSetsExt, FiniteSetTheorems, WellFoundedInduction, TLAPS

SumOver(f, S) == MapThenSumSet(LAMBDA x : f[x], S)

Ints(f, S) == \A x \in S : f[x] \in Int
Nats(f, S) == \A x \in S : f[x] \in Nat

-----------------------------------------------------------------------------
(* The smallest of a set of finite sets.                                   *)

Smaller == {p \in Nat \X Nat : p[1] < p[2]}

LEMMA SmallerIsWellFounded == IsWellFoundedOn(Smaller, Nat)
<1>1. Smaller = OpToRel(<, Nat)
  BY DEF Smaller, OpToRel
<1> QED BY <1>1, NatLessThanWellFounded

LEMMA LeastNumber ==
  ASSUME NEW T, T \subseteq Nat, T # {}
  PROVE  \E n \in T : \A m \in T : n <= m
<1>1. PICK n \in T : \A m \in T : <<m, n>> \notin Smaller
  BY SmallerIsWellFounded, WFMin
<1>2. ASSUME NEW m \in T PROVE n <= m
  <2>1. n \in Nat /\ m \in Nat /\ <<m, n>> \notin Smaller
    BY <1>1
  <2>2. ~(m < n)
    BY <2>1 DEF Smaller
  <2> QED BY <2>1, <2>2
<1> QED BY <1>2

\* A set of finite sets has a smallest one: what fails for a finite set fails
\* for one all of whose smaller ones are fine.
LEMMA SmallestSet ==
  ASSUME NEW D, D # {}, \A s \in D : IsFiniteSet(s)
  PROVE  \E s \in D : \A t \in D : Cardinality(t) \in Nat /\ Cardinality(s) <= Cardinality(t)
<1> DEFINE sizes == {Cardinality(s) : s \in D}
<1>1. sizes \subseteq Nat /\ sizes # {}
  BY FS_CardinalityType
<1>2. PICK n \in sizes : \A m \in sizes : n <= m
  <2> HIDE DEF sizes
  <2> QED BY <1>1, LeastNumber
<1>3. PICK s \in D : n = Cardinality(s)
  OBVIOUS
<1>4. \A t \in D : Cardinality(t) \in sizes
  OBVIOUS
<1> QED BY <1>1, <1>2, <1>3, <1>4

\* A finite set is larger than what is left when one of its elements is taken.
LEMMA TakenIsSmaller ==
  ASSUME NEW S, IsFiniteSet(S), NEW x \in S
  PROVE  /\ IsFiniteSet(S \ {x})
         /\ Cardinality(S \ {x}) \in Nat
         /\ Cardinality(S) \in Nat
         /\ Cardinality(S \ {x}) = Cardinality(S) - 1
BY FS_RemoveElement, FS_CardinalityType

-----------------------------------------------------------------------------
(* The sum exists, and obeys its recursion.                                *)

Pick(s) == CHOOSE x \in s : TRUE

\* g adds f up over the subsets of S.
AddsUp(f, S, g) ==
  g = [s \in SUBSET S |-> IF s = {} THEN 0 ELSE f[Pick(s)] + g[s \ {Pick(s)}]]

LEMMA SumUnfolds ==
  ASSUME NEW f, NEW S PROVE SumOver(f, S) = (CHOOSE g : AddsUp(f, S, g))[S]
BY DEF SumOver, MapThenSumSet, MapThenFoldSet, AddsUp, Pick

LEMMA PickIsElement ==
  ASSUME NEW s, s # {} PROVE Pick(s) \in s
BY DEF Pick

\* h adds f up over the subsets of S with no more than n elements.
AddsUpTo(f, S, h, n) ==
  /\ h = [s \in SUBSET S |-> h[s]]
  /\ \A s \in SUBSET S :
       Cardinality(s) <= n =>
         h[s] = IF s = {} THEN 0 ELSE f[Pick(s)] + h[s \ {Pick(s)}]

LEMMA AddsUpNext ==
  ASSUME NEW f, NEW S, IsFiniteSet(S), NEW n \in Nat, NEW h, AddsUpTo(f, S, h, n)
  PROVE  \E k : AddsUpTo(f, S, k, n + 1)
<1> DEFINE k == [s \in SUBSET S |-> IF s = {} THEN 0 ELSE f[Pick(s)] + h[s \ {Pick(s)}]]
<1>1. ASSUME NEW s \in SUBSET S, Cardinality(s) <= n + 1
      PROVE  k[s] = IF s = {} THEN 0 ELSE f[Pick(s)] + k[s \ {Pick(s)}]
  <2>1. CASE s = {}
    BY <2>1
  <2>2. CASE s # {}
    <3> DEFINE t == s \ {Pick(s)}
    <3>1. IsFiniteSet(s) /\ Pick(s) \in s /\ t \in SUBSET S
      BY <2>2, FS_Subset, PickIsElement
    <3>2. Cardinality(t) <= n
      BY <1>1, <3>1, TakenIsSmaller
    <3>3. h[t] = k[t]
      BY <3>1, <3>2 DEF AddsUpTo
    <3>4. k[s] = f[Pick(s)] + h[t]
      BY <2>2
    <3> HIDE DEF k, t
    <3>5. k[s] = f[Pick(s)] + k[t]
      BY <3>3, <3>4
    <3> QED BY <2>2, <3>5 DEF t
  <2> QED BY <2>1, <2>2
<1>2. k = [s \in SUBSET S |-> k[s]]
  OBVIOUS
<1> HIDE DEF k
<1> QED BY <1>1, <1>2 DEF AddsUpTo

LEMMA AddsUpSome ==
  ASSUME NEW f, NEW S, IsFiniteSet(S)
  PROVE  \A n \in Nat : \E h : AddsUpTo(f, S, h, n)
<1> DEFINE bad == {n \in Nat : ~ \E h : AddsUpTo(f, S, h, n)}
<1> SUFFICES ASSUME bad # {} PROVE FALSE
  OBVIOUS
<1>1. PICK n \in bad : \A m \in bad : n <= m
  <2>1. bad \subseteq Nat /\ bad # {}
    OBVIOUS
  <2> HIDE DEF bad
  <2> QED BY <2>1, LeastNumber
<1>2. n # 0
  <2> DEFINE zero == [s \in SUBSET S |-> 0]
  <2>1. \A s \in SUBSET S : Cardinality(s) <= 0 => s = {}
    BY FS_Subset, FS_EmptySet, FS_CardinalityType
  <2>2. AddsUpTo(f, S, zero, 0)
    BY <2>1 DEF AddsUpTo
  <2> QED BY <2>2
<1>3. n - 1 \in Nat /\ n - 1 \notin bad
  BY <1>1, <1>2
<1>4. PICK h : AddsUpTo(f, S, h, n - 1)
  BY <1>3
<1>5. \E k : AddsUpTo(f, S, k, (n - 1) + 1)
  BY <1>3, <1>4, AddsUpNext
<1>6. (n - 1) + 1 = n
  BY <1>1
<1> QED BY <1>5, <1>6

LEMMA AddsUpExists ==
  ASSUME NEW f, NEW S, IsFiniteSet(S)
  PROVE  AddsUp(f, S, CHOOSE g : AddsUp(f, S, g))
<1>1. PICK h : AddsUpTo(f, S, h, Cardinality(S))
  BY AddsUpSome, FS_CardinalityType
<1>2. \A s \in SUBSET S : Cardinality(s) <= Cardinality(S)
  BY FS_Subset
<1>3. \A s \in SUBSET S :
        h[s] = IF s = {} THEN 0 ELSE f[Pick(s)] + h[s \ {Pick(s)}]
  BY <1>1, <1>2 DEF AddsUpTo
<1>4. h = [s \in SUBSET S |-> h[s]]
  BY <1>1 DEF AddsUpTo
<1>5. AddsUp(f, S, h)
  BY <1>3, <1>4 DEF AddsUp
<1> QED BY <1>5

\* Two ways of adding up agree on the subsets they share.
LEMMA AddsUpUnique ==
  ASSUME NEW f, NEW S, NEW g, AddsUp(f, S, g), NEW T, NEW h, AddsUp(f, T, h),
         IsFiniteSet(S), T \subseteq S
  PROVE  \A s \in SUBSET T : g[s] = h[s]
<1> DEFINE bad == {s \in SUBSET T : g[s] # h[s]}
<1> SUFFICES ASSUME bad # {} PROVE FALSE
  OBVIOUS
<1>1. \A s \in bad : IsFiniteSet(s)
  BY FS_Subset
<1>2. PICK s \in bad : \A t \in bad : Cardinality(t) \in Nat /\ Cardinality(s) <= Cardinality(t)
  <2> HIDE DEF bad
  <2> QED BY <1>1, SmallestSet
<1>3. /\ g[s] = IF s = {} THEN 0 ELSE f[Pick(s)] + g[s \ {Pick(s)}]
      /\ h[s] = IF s = {} THEN 0 ELSE f[Pick(s)] + h[s \ {Pick(s)}]
  BY DEF AddsUp
<1>4. s # {}
  BY <1>3
<1>5. g[s \ {Pick(s)}] = h[s \ {Pick(s)}]
  BY <1>1, <1>2, <1>4, PickIsElement, TakenIsSmaller
<1> QED BY <1>3, <1>4, <1>5

\* The sum over a part of S is among what adds up over S.
LEMMA SumOfPart ==
  ASSUME NEW f, NEW S, IsFiniteSet(S), NEW T, T \subseteq S, NEW g, AddsUp(f, S, g)
  PROVE  g[T] = SumOver(f, T)
<1>1. IsFiniteSet(T)
  BY FS_Subset
<1>2. PICK h : AddsUp(f, T, h) /\ SumOver(f, T) = h[T]
  BY <1>1, AddsUpExists, SumUnfolds
<1>3. \A s \in SUBSET T : g[s] = h[s]
  BY <1>2, AddsUpUnique
<1> QED BY <1>2, <1>3

\* The recursion of a sum.
LEMMA SumTakesPick ==
  ASSUME NEW f, NEW S, IsFiniteSet(S)
  PROVE  SumOver(f, S) = IF S = {} THEN 0 ELSE f[Pick(S)] + SumOver(f, S \ {Pick(S)})
<1>1. PICK g : AddsUp(f, S, g) /\ SumOver(f, S) = g[S]
  BY AddsUpExists, SumUnfolds
<1>2. g[S] = IF S = {} THEN 0 ELSE f[Pick(S)] + g[S \ {Pick(S)}]
  BY <1>1 DEF AddsUp
<1>3. g[S \ {Pick(S)}] = SumOver(f, S \ {Pick(S)})
  BY <1>1, SumOfPart
<1> QED BY <1>1, <1>2, <1>3

LEMMA SumOfNothing ==
  ASSUME NEW f PROVE SumOver(f, {}) = 0
BY SumTakesPick, FS_EmptySet

-----------------------------------------------------------------------------
(* Sums of numbers.                                                        *)

LEMMA SumIsInt ==
  ASSUME NEW f, NEW S, IsFiniteSet(S), Ints(f, S)
  PROVE  SumOver(f, S) \in Int
<1> DEFINE bad == {s \in SUBSET S : SumOver(f, s) \notin Int}
<1> SUFFICES ASSUME bad # {} PROVE FALSE
  OBVIOUS
<1>1. PICK s \in bad : \A t \in bad : Cardinality(t) \in Nat /\ Cardinality(s) <= Cardinality(t)
  <2>1. \A s \in bad : IsFiniteSet(s)
    BY FS_Subset
  <2> HIDE DEF bad
  <2> QED BY <2>1, SmallestSet
<1>2. IsFiniteSet(s) /\ s \subseteq S
  BY FS_Subset
<1>3. s # {}
  BY SumOfNothing
<1>4. Pick(s) \in s /\ f[Pick(s)] \in Int
  BY <1>2, <1>3, PickIsElement DEF Ints
<1>5. SumOver(f, s \ {Pick(s)}) \in Int
  <2>1. Cardinality(s \ {Pick(s)}) < Cardinality(s)
    BY <1>2, <1>4, TakenIsSmaller
  <2>2. s \ {Pick(s)} \notin bad
    BY <1>1, <1>2, <1>4, <2>1, TakenIsSmaller
  <2> QED BY <1>2, <2>2
<1>6. SumOver(f, s) = f[Pick(s)] + SumOver(f, s \ {Pick(s)})
  BY <1>2, <1>3, SumTakesPick
<1> QED BY <1>4, <1>5, <1>6

\* Any element may be taken away first.
LEMMA SumTakes ==
  ASSUME NEW f, NEW S, IsFiniteSet(S), Ints(f, S), NEW x \in S
  PROVE  SumOver(f, S) = f[x] + SumOver(f, S \ {x})
<1> DEFINE bad == {s \in SUBSET S : \E y \in s : SumOver(f, s) # f[y] + SumOver(f, s \ {y})}
<1> SUFFICES ASSUME bad # {} PROVE FALSE
  OBVIOUS
<1>1. PICK s \in bad : \A t \in bad : Cardinality(t) \in Nat /\ Cardinality(s) <= Cardinality(t)
  <2>1. \A s \in bad : IsFiniteSet(s)
    BY FS_Subset
  <2> HIDE DEF bad
  <2> QED BY <2>1, SmallestSet
<1>2. IsFiniteSet(s) /\ s \subseteq S
  BY FS_Subset
<1>3. PICK y \in s : SumOver(f, s) # f[y] + SumOver(f, s \ {y})
  OBVIOUS
<1> DEFINE p == Pick(s)
<1>4. p \in s /\ f[p] \in Int /\ f[y] \in Int
  BY <1>2, PickIsElement DEF Ints
<1> HIDE DEF p
<1>5. SumOver(f, s) = f[p] + SumOver(f, s \ {p})
  BY <1>2, SumTakesPick DEF p
<1>6. y # p
  BY <1>3, <1>5
<1>7. s \ {p} \notin bad /\ s \ {y} \notin bad
  <2>1. ASSUME NEW z \in s PROVE s \ {z} \notin bad
    <3>1. Cardinality(s \ {z}) < Cardinality(s)
      BY <1>2, TakenIsSmaller
    <3> QED BY <1>1, <1>2, <3>1, TakenIsSmaller
  <2> QED BY <1>4, <2>1
<1> DEFINE rest == SumOver(f, (s \ {p}) \ {y})
<1>8. SumOver(f, s \ {p}) = f[y] + rest
  BY <1>2, <1>6, <1>7
<1>9. SumOver(f, s \ {y}) = f[p] + rest
  <2>1. SumOver(f, s \ {y}) = f[p] + SumOver(f, (s \ {y}) \ {p})
    BY <1>2, <1>4, <1>6, <1>7
  <2>2. (s \ {p}) \ {y} = (s \ {y}) \ {p}
    OBVIOUS
  <2> QED BY <2>1, <2>2
<1>10. rest \in Int
  BY <1>2, SumIsInt, FS_Subset DEF Ints
<1> HIDE DEF bad, rest
<1>11. f[p] + (f[y] + rest) = f[y] + (f[p] + rest)
  BY <1>4, <1>10
<1> QED BY <1>3, <1>5, <1>8, <1>9, <1>11

LEMMA SumAdds ==
  ASSUME NEW f, NEW S, IsFiniteSet(S), NEW x, x \notin S, Ints(f, S \union {x})
  PROVE  SumOver(f, S \union {x}) = f[x] + SumOver(f, S)
<1>1. IsFiniteSet(S \union {x}) /\ (S \union {x}) \ {x} = S
  BY FS_AddElement
<1> QED BY <1>1, SumTakes

\* Amounts that are all 0 add up to 0.
LEMMA SumOfZeros ==
  ASSUME NEW f, NEW S, IsFiniteSet(S), \A x \in S : f[x] = 0
  PROVE  SumOver(f, S) = 0
<1> DEFINE bad == {s \in SUBSET S : SumOver(f, s) # 0}
<1> SUFFICES ASSUME bad # {} PROVE FALSE
  OBVIOUS
<1>1. PICK s \in bad : \A t \in bad : Cardinality(t) \in Nat /\ Cardinality(s) <= Cardinality(t)
  <2>1. \A s \in bad : IsFiniteSet(s)
    BY FS_Subset
  <2> HIDE DEF bad
  <2> QED BY <2>1, SmallestSet
<1>2. IsFiniteSet(s) /\ s \subseteq S
  BY FS_Subset
<1>3. s # {}
  BY SumOfNothing
<1>4. Pick(s) \in s /\ f[Pick(s)] = 0
  BY <1>2, <1>3, PickIsElement
<1>5. s \ {Pick(s)} \notin bad
  <2>1. Cardinality(s \ {Pick(s)}) < Cardinality(s)
    BY <1>2, <1>4, TakenIsSmaller
  <2> QED BY <1>1, <1>2, <1>4, <2>1, TakenIsSmaller
<1>6. SumOver(f, s \ {Pick(s)}) = 0
  BY <1>2, <1>5
<1> QED BY <1>2, <1>3, <1>4, <1>6, SumTakesPick

\* The sum of as many equal numbers as there are elements.
LEMMA SumOfConstant ==
  ASSUME NEW f, NEW S, IsFiniteSet(S), NEW c \in Int, \A x \in S : f[x] = c
  PROVE  SumOver(f, S) = Cardinality(S) * c
<1> DEFINE bad == {s \in SUBSET S : SumOver(f, s) # Cardinality(s) * c}
<1> SUFFICES ASSUME bad # {} PROVE FALSE
  OBVIOUS
<1>1. PICK s \in bad : \A t \in bad : Cardinality(t) \in Nat /\ Cardinality(s) <= Cardinality(t)
  BY SmallestSet, FS_Subset
<1>2. IsFiniteSet(s) /\ s \subseteq S
  BY <1>1, FS_Subset
<1>3. s # {}
  <2>1. Cardinality({}) = 0 /\ 0 * c = 0
    BY FS_EmptySet
  <2> QED BY <1>1, <2>1, SumOfNothing
<1>4. PICK x \in s : TRUE
  BY <1>3
<1>5. Ints(f, s)
  BY <1>2 DEF Ints
<1>6. SumOver(f, s) = c + SumOver(f, s \ {x})
  BY <1>2, <1>4, <1>5, SumTakes
<1>7. /\ Cardinality(s \ {x}) = Cardinality(s) - 1
      /\ Cardinality(s \ {x}) \in Nat /\ Cardinality(s) \in Nat
  BY <1>2, <1>4, TakenIsSmaller
<1>8. s \ {x} \notin bad
  <2>1. CASE s \ {x} \in bad
    BY <1>1, <1>7, <2>1
  <2> QED BY <2>1
<1>9. SumOver(f, s \ {x}) = Cardinality(s \ {x}) * c
  BY <1>2, <1>8
<1>10. (Cardinality(s) - 1) * c + c = Cardinality(s) * c
  BY <1>7
<1> QED BY <1>1, <1>6, <1>7, <1>9, <1>10

\* Equal amounts make equal sums.
LEMMA SumOfSame ==
  ASSUME NEW f, NEW g, NEW S, IsFiniteSet(S), \A x \in S : f[x] = g[x]
  PROVE  SumOver(f, S) = SumOver(g, S)
<1> DEFINE bad == {s \in SUBSET S : SumOver(f, s) # SumOver(g, s)}
<1> SUFFICES ASSUME bad # {} PROVE FALSE
  OBVIOUS
<1>1. PICK s \in bad : \A t \in bad : Cardinality(t) \in Nat /\ Cardinality(s) <= Cardinality(t)
  <2>1. \A s \in bad : IsFiniteSet(s)
    BY FS_Subset
  <2> HIDE DEF bad
  <2> QED BY <2>1, SmallestSet
<1>2. IsFiniteSet(s) /\ s \subseteq S
  BY FS_Subset
<1>3. s # {}
  BY SumOfNothing
<1>4. Pick(s) \in s /\ f[Pick(s)] = g[Pick(s)]
  BY <1>2, <1>3, PickIsElement
<1>5. s \ {Pick(s)} \notin bad
  <2>1. Cardinality(s \ {Pick(s)}) < Cardinality(s)
    BY <1>2, <1>4, TakenIsSmaller
  <2> QED BY <1>1, <1>2, <1>4, <2>1, TakenIsSmaller
<1>6. SumOver(f, s \ {Pick(s)}) = SumOver(g, s \ {Pick(s)})
  BY <1>2, <1>5
<1> QED BY <1>2, <1>3, <1>4, <1>6, SumTakesPick

\* One amount changes: the sum changes by as much.
LEMMA SumChanges ==
  ASSUME NEW f, NEW g, NEW S, IsFiniteSet(S), Ints(f, S), Ints(g, S),
         NEW x \in S, \A y \in S \ {x} : f[y] = g[y]
  PROVE  SumOver(g, S) = SumOver(f, S) + g[x] - f[x]
<1>1. SumOver(f, S \ {x}) = SumOver(g, S \ {x})
  BY SumOfSame, FS_Subset
<1>2. SumOver(f, S \ {x}) \in Int
  BY SumIsInt, FS_Subset DEF Ints
<1> QED BY <1>1, <1>2, SumTakes DEF Ints

\* A part of the amounts adds up to no more than all of them.
LEMMA SumOfPartIsLess ==
  ASSUME NEW f, NEW S, IsFiniteSet(S), Nats(f, S), NEW T, T \subseteq S
  PROVE  SumOver(f, T) <= SumOver(f, S)
<1> DEFINE bad == {s \in SUBSET S : \E t \in SUBSET s : ~(SumOver(f, t) <= SumOver(f, s))}
<1> SUFFICES ASSUME bad # {} PROVE FALSE
  OBVIOUS
<1>1. PICK s \in bad : \A t \in bad : Cardinality(t) \in Nat /\ Cardinality(s) <= Cardinality(t)
  <2>1. \A s \in bad : IsFiniteSet(s)
    BY FS_Subset
  <2> HIDE DEF bad
  <2> QED BY <2>1, SmallestSet
<1>2. PICK t \in SUBSET s : ~(SumOver(f, t) <= SumOver(f, s))
  OBVIOUS
<1>3. /\ s \subseteq S /\ IsFiniteSet(s) /\ IsFiniteSet(t)
      /\ Ints(f, s) /\ Ints(f, t)
  BY <1>2, FS_Subset DEF Nats, Ints
<1>4. SumOver(f, s) \in Int /\ SumOver(f, t) \in Int
  BY <1>3, SumIsInt
<1>5. t # s
  BY <1>2, <1>4
<1>6. PICK x \in s : x \notin t
  BY <1>2, <1>5
<1>7. t \in SUBSET (s \ {x}) /\ s \ {x} \in SUBSET S
  BY <1>2, <1>3, <1>6
<1>8. s \ {x} \notin bad
  <2>1. Cardinality(s \ {x}) < Cardinality(s)
    BY <1>3, TakenIsSmaller
  <2> QED BY <1>1, <1>3, <2>1, TakenIsSmaller
<1>9. SumOver(f, t) <= SumOver(f, s \ {x})
  BY <1>7, <1>8
<1>10. SumOver(f, s) = f[x] + SumOver(f, s \ {x})
  BY <1>3, SumTakes
<1>11. SumOver(f, s \ {x}) \in Int
  BY <1>3, <1>7, SumIsInt, FS_Subset DEF Ints
<1>12. f[x] \in Nat
  BY <1>3 DEF Nats
<1> HIDE DEF bad
<1> QED BY <1>2, <1>4, <1>9, <1>10, <1>11, <1>12

LEMMA SumIsNat ==
  ASSUME NEW f, NEW S, IsFiniteSet(S), Nats(f, S)
  PROVE  SumOver(f, S) \in Nat
<1>1. SumOver(f, S) \in Int
  BY SumIsInt DEF Nats, Ints
<1>2. 0 <= SumOver(f, S)
  BY SumOfPartIsLess, SumOfNothing
<1> QED BY <1>1, <1>2

\* Each amount of f is within an amount of g of its own, and so is the sum.
LEMMA SumWithin ==
  ASSUME NEW A, IsFiniteSet(A), NEW f, Nats(f, A),
         NEW B, IsFiniteSet(B), NEW g, Nats(g, B),
         NEW h, \A x \in A : h[x] \in B /\ f[x] <= g[h[x]],
         \A x, y \in A : h[x] = h[y] => x = y
  PROVE  SumOver(f, A) <= SumOver(g, B)
<1> DEFINE image(s) == {h[x] : x \in s}
           bad == {s \in SUBSET A : ~(SumOver(f, s) <= SumOver(g, image(s)))}
<1>1. ASSUME NEW s \in SUBSET A
      PROVE  /\ IsFiniteSet(s) /\ image(s) \subseteq B /\ IsFiniteSet(image(s))
             /\ Ints(f, s) /\ Ints(g, image(s))
             /\ SumOver(f, s) \in Int /\ SumOver(g, image(s)) \in Int
  <2>1. IsFiniteSet(s) /\ image(s) \subseteq B
    BY FS_Subset
  <2>2. IsFiniteSet(image(s))
    BY <2>1, FS_Subset
  <2>3. Ints(f, s) /\ Ints(g, image(s))
    BY <2>1 DEF Ints, Nats
  <2> HIDE DEF image
  <2> QED BY <2>1, <2>2, <2>3, SumIsInt
<1>2. bad = {}
  <2> SUFFICES ASSUME bad # {} PROVE FALSE
    OBVIOUS
  <2>1. PICK s \in bad : \A t \in bad : Cardinality(t) \in Nat /\ Cardinality(s) <= Cardinality(t)
    <3>1. \A s \in bad : IsFiniteSet(s)
      BY FS_Subset
    <3> HIDE DEF bad
    <3> QED BY <3>1, SmallestSet
  <2>2. s # {}
    <3>1. image({}) = {}
      OBVIOUS
    <3> HIDE DEF image
    <3> QED BY <3>1, SumOfNothing
  <2>3. PICK x \in s : TRUE
    BY <2>2
  <2>4. s \in SUBSET A /\ s \ {x} \in SUBSET A /\ IsFiniteSet(s)
    BY FS_Subset
  <2>5. image(s \ {x}) = image(s) \ {h[x]} /\ h[x] \in image(s)
    BY <2>3
  <2>6. SumOver(f, s) = f[x] + SumOver(f, s \ {x})
    <3>1. Ints(f, s)
      BY <2>4 DEF Ints, Nats
    <3> QED BY <2>4, <3>1, SumTakes
  <2>7. ~(SumOver(f, s) <= SumOver(g, image(s)))
    OBVIOUS
  <2>8. s \ {x} \in bad \/ SumOver(f, s \ {x}) <= SumOver(g, image(s \ {x}))
    BY <2>4
  <2>9. f[x] \in Int /\ g[h[x]] \in Int /\ f[x] <= g[h[x]]
    BY <2>4 DEF Nats
  <2> HIDE DEF image, bad
  <2>10. /\ SumOver(f, s \ {x}) \in Int /\ SumOver(g, image(s \ {x})) \in Int
         /\ SumOver(f, s) \in Int /\ SumOver(g, image(s)) \in Int
    BY <1>1, <2>4
  <2>11. SumOver(g, image(s)) = g[h[x]] + SumOver(g, image(s \ {x}))
    <3>1. IsFiniteSet(image(s)) /\ Ints(g, image(s))
      BY <1>1, <2>4
    <3> QED BY <2>5, <3>1, SumTakes
  <2>12. s \ {x} \notin bad
    <3>1. /\ Cardinality(s \ {x}) \in Nat /\ Cardinality(s) \in Nat
          /\ Cardinality(s \ {x}) = Cardinality(s) - 1
      BY <2>3, <2>4, TakenIsSmaller
    <3>2. ~(Cardinality(s) <= Cardinality(s \ {x}))
      BY <3>1
    <3> QED BY <2>1, <3>2
  <2> QED BY <2>6, <2>7, <2>8, <2>9, <2>10, <2>11, <2>12
<1>3. SumOver(f, A) <= SumOver(g, image(A))
  BY <1>2
<1> HIDE DEF image, bad
<1>4. SumOver(g, image(A)) <= SumOver(g, B)
  BY <1>1, SumOfPartIsLess
<1>5. SumOver(g, B) \in Int
  BY SumIsInt DEF Ints, Nats
<1> QED BY <1>1, <1>3, <1>4, <1>5

-----------------------------------------------------------------------------
(* Sums of sums, and the sum of the parts.                                 *)

\* The sums of two lists of amounts make the sum of the amounts of both.
LEMMA SumOfBoth ==
  ASSUME NEW S, IsFiniteSet(S), NEW f, Ints(f, S), NEW g, Ints(g, S),
         NEW h, \A x \in S : h[x] = f[x] + g[x]
  PROVE  SumOver(h, S) = SumOver(f, S) + SumOver(g, S)
<1> DEFINE bad == {s \in SUBSET S : SumOver(h, s) # SumOver(f, s) + SumOver(g, s)}
<1> SUFFICES ASSUME bad # {} PROVE FALSE
  OBVIOUS
<1>1. PICK s \in bad : \A t \in bad : Cardinality(t) \in Nat /\ Cardinality(s) <= Cardinality(t)
  BY SmallestSet, FS_Subset
<1>2. IsFiniteSet(s) /\ s \subseteq S
  BY <1>1, FS_Subset
<1>3. s # {}
  <2>1. SumOver(h, {}) = SumOver(f, {}) + SumOver(g, {})
    <3>1. SumOver(h, {}) = 0 /\ SumOver(f, {}) = 0 /\ SumOver(g, {}) = 0
      BY SumOfNothing
    <3> QED BY <3>1
  <2> QED BY <1>1, <2>1
<1>4. PICK x \in s : TRUE
  BY <1>3
<1>5. Ints(f, s) /\ Ints(g, s) /\ Ints(h, s)
  BY <1>2 DEF Ints
<1>6. /\ SumOver(f, s) = f[x] + SumOver(f, s \ {x})
      /\ SumOver(g, s) = g[x] + SumOver(g, s \ {x})
      /\ SumOver(h, s) = h[x] + SumOver(h, s \ {x})
  BY <1>2, <1>4, <1>5, SumTakes
<1>7. /\ Cardinality(s \ {x}) = Cardinality(s) - 1 /\ IsFiniteSet(s \ {x})
      /\ Cardinality(s \ {x}) \in Nat /\ Cardinality(s) \in Nat
  BY <1>2, <1>4, TakenIsSmaller
<1>8. s \ {x} \notin bad
  <2>1. CASE s \ {x} \in bad
    BY <1>1, <1>7, <2>1
  <2> QED BY <2>1
<1>9. SumOver(h, s \ {x}) = SumOver(f, s \ {x}) + SumOver(g, s \ {x})
  BY <1>2, <1>8
<1>10. SumOver(f, s \ {x}) \in Int /\ SumOver(g, s \ {x}) \in Int
  BY <1>5, <1>7, SumIsInt DEF Ints
<1>11. f[x] \in Int /\ g[x] \in Int /\ h[x] = f[x] + g[x]
  BY <1>2, <1>4 DEF Ints
<1>12. SumOver(h, s) # SumOver(f, s) + SumOver(g, s)
  BY <1>1
<1> HIDE DEF bad
<1> QED BY <1>6, <1>9, <1>10, <1>11, <1>12

\* Smaller amounts make smaller sums.
LEMMA SumIsLess ==
  ASSUME NEW S, IsFiniteSet(S), NEW f, Ints(f, S), NEW g, Ints(g, S),
         \A x \in S : f[x] <= g[x]
  PROVE  SumOver(f, S) <= SumOver(g, S)
<1> DEFINE d == [x \in S |-> g[x] - f[x]]
<1>1. Nats(d, S) /\ Ints(d, S) /\ \A x \in S : g[x] = f[x] + d[x]
  BY DEF Nats, Ints
<1> HIDE DEF d
<1>2. SumOver(g, S) = SumOver(f, S) + SumOver(d, S)
  BY <1>1, SumOfBoth
<1>3. SumOver(d, S) \in Nat /\ SumOver(f, S) \in Int
  BY <1>1, SumIsNat, SumIsInt
<1> QED BY <1>2, <1>3

\* The amounts of some and of the rest.
LEMMA SumSplits ==
  ASSUME NEW f, NEW S, IsFiniteSet(S), Ints(f, S), NEW T, T \subseteq S
  PROVE  SumOver(f, S) = SumOver(f, T) + SumOver(f, S \ T)
<1> DEFINE bad == {s \in SUBSET S : SumOver(f, s) # SumOver(f, s \cap T) + SumOver(f, s \ T)}
<1> SUFFICES ASSUME bad # {} PROVE FALSE
  <2>1. S \in SUBSET S /\ S \cap T = T
    OBVIOUS
  <2> QED BY <2>1
<1>1. PICK s \in bad : \A t \in bad : Cardinality(t) \in Nat /\ Cardinality(s) <= Cardinality(t)
  BY SmallestSet, FS_Subset
<1>2. IsFiniteSet(s) /\ s \subseteq S /\ IsFiniteSet(s \cap T) /\ IsFiniteSet(s \ T)
  BY <1>1, FS_Subset
<1>3. s # {}
  <2>1. {} \cap T = {} /\ {} \ T = {}
    OBVIOUS
  <2> QED BY <1>1, <2>1, SumOfNothing
<1>4. PICK x \in s : TRUE
  BY <1>3
<1>5. Ints(f, s) /\ Ints(f, s \cap T) /\ Ints(f, s \ T)
  BY <1>2 DEF Ints
<1>6. SumOver(f, s) = f[x] + SumOver(f, s \ {x})
  BY <1>2, <1>4, <1>5, SumTakes
<1>7. /\ Cardinality(s \ {x}) = Cardinality(s) - 1 /\ IsFiniteSet(s \ {x})
      /\ Cardinality(s \ {x}) \in Nat /\ Cardinality(s) \in Nat
  BY <1>2, <1>4, TakenIsSmaller
<1>8. s \ {x} \notin bad
  <2>1. CASE s \ {x} \in bad
    BY <1>1, <1>7, <2>1
  <2> QED BY <2>1
<1>9. SumOver(f, s \ {x}) = SumOver(f, (s \ {x}) \cap T) + SumOver(f, (s \ {x}) \ T)
  BY <1>2, <1>8
<1>10. f[x] \in Int
  BY <1>4, <1>5 DEF Ints
<1>11. SumOver(f, s \cap T) \in Int /\ SumOver(f, s \ T) \in Int
  BY <1>2, <1>5, SumIsInt
<1>12. SumOver(f, s) # SumOver(f, s \cap T) + SumOver(f, s \ T)
  BY <1>1
<1>13. /\ IsFiniteSet((s \ {x}) \cap T) /\ IsFiniteSet((s \ {x}) \ T)
       /\ Ints(f, (s \ {x}) \cap T) /\ Ints(f, (s \ {x}) \ T)
  BY <1>5, <1>7, FS_Subset DEF Ints
<1>14. SumOver(f, (s \ {x}) \cap T) \in Int /\ SumOver(f, (s \ {x}) \ T) \in Int
  BY <1>13, SumIsInt
<1> HIDE DEF bad
<1>15. CASE x \in T
  <2>1. x \in s \cap T /\ (s \cap T) \ {x} = (s \ {x}) \cap T /\ (s \ {x}) \ T = s \ T
    BY <1>4, <1>15
  <2>2. SumOver(f, s \cap T) = f[x] + SumOver(f, (s \ {x}) \cap T)
    BY <1>2, <1>5, <2>1, SumTakes
  <2>3. SumOver(f, s \ {x}) = SumOver(f, (s \ {x}) \cap T) + SumOver(f, s \ T)
    BY <1>9, <2>1
  <2> QED BY <1>6, <1>10, <1>11, <1>12, <1>14, <2>2, <2>3
<1>16. CASE x \notin T
  <2>1. x \in s \ T /\ (s \ T) \ {x} = (s \ {x}) \ T /\ (s \ {x}) \cap T = s \cap T
    BY <1>4, <1>16
  <2>2. SumOver(f, s \ T) = f[x] + SumOver(f, (s \ {x}) \ T)
    BY <1>2, <1>5, <2>1, SumTakes
  <2>3. SumOver(f, s \ {x}) = SumOver(f, s \cap T) + SumOver(f, (s \ {x}) \ T)
    BY <1>9, <2>1
  <2> QED BY <1>6, <1>10, <1>11, <1>12, <1>14, <2>2, <2>3
<1> QED BY <1>15, <1>16

\* Amounts that are 0 can be left out.
LEMMA SumOfOthers ==
  ASSUME NEW f, NEW S, IsFiniteSet(S), Ints(f, S), NEW T, T \subseteq S,
         \A x \in S \ T : f[x] = 0
  PROVE  SumOver(f, S) = SumOver(f, T)
<1>1. SumOver(f, S) = SumOver(f, T) + SumOver(f, S \ T)
  BY SumSplits
<1>2. SumOver(f, S \ T) = 0
  BY SumOfZeros, FS_Subset
<1>3. SumOver(f, T) \in Int
  BY SumIsInt, FS_Subset DEF Ints
<1> QED BY <1>1, <1>2, <1>3

\* The amounts of a set, put in parts, part by part.
PartOf(S, c, k) == {x \in S : c[x] = k}
PartSums(f, S, c, K) == [k \in K |-> SumOver(f, PartOf(S, c, k))]

LEMMA SumOfParts ==
  ASSUME NEW f, NEW S, IsFiniteSet(S), Ints(f, S), NEW K, IsFiniteSet(K),
         NEW c, \A x \in S : c[x] \in K
  PROVE  SumOver(PartSums(f, S, c, K), K) = SumOver(f, S)
<1> DEFINE bad == {s \in SUBSET S : SumOver(PartSums(f, s, c, K), K) # SumOver(f, s)}
<1> SUFFICES ASSUME bad # {} PROVE FALSE
  OBVIOUS
<1>1. PICK s \in bad : \A t \in bad : Cardinality(t) \in Nat /\ Cardinality(s) <= Cardinality(t)
  BY SmallestSet, FS_Subset
<1>2. IsFiniteSet(s) /\ s \subseteq S
  BY <1>1, FS_Subset
<1>3. s # {}
  <2> DEFINE none == PartSums(f, {}, c, K)
  <2>1. \A k \in K : PartOf({}, c, k) = {}
    BY DEF PartOf
  <2>2. \A k \in K : none[k] = 0
    BY <2>1, SumOfNothing DEF PartSums
  <2> HIDE DEF none
  <2>3. SumOver(none, K) = 0
    BY <2>2, SumOfZeros
  <2> QED BY <1>1, <2>3, SumOfNothing DEF none
<1>4. PICK x \in s : TRUE
  BY <1>3
<1>5. Ints(f, s) /\ f[x] \in Int /\ c[x] \in K
  BY <1>2, <1>4 DEF Ints
<1>6. SumOver(f, s) = f[x] + SumOver(f, s \ {x})
  BY <1>2, <1>4, <1>5, SumTakes
<1>7. /\ Cardinality(s \ {x}) = Cardinality(s) - 1 /\ IsFiniteSet(s \ {x})
      /\ Cardinality(s \ {x}) \in Nat /\ Cardinality(s) \in Nat
  BY <1>2, <1>4, TakenIsSmaller
<1>8. s \ {x} \notin bad
  <2>1. CASE s \ {x} \in bad
    BY <1>1, <1>7, <2>1
  <2> QED BY <2>1
<1> DEFINE less == PartSums(f, s \ {x}, c, K)
           more == PartSums(f, s, c, K)
<1>9. SumOver(less, K) = SumOver(f, s \ {x})
  BY <1>2, <1>8
<1>10. SumOver(more, K) # SumOver(f, s)
  BY <1>1
<1>11. \A t \in SUBSET s : \A k \in K :
         IsFiniteSet(PartOf(t, c, k)) /\ Ints(f, PartOf(t, c, k))
  BY <1>2, <1>5, FS_Subset DEF PartOf, Ints
<1>12. \A t \in SUBSET s : \A k \in K : SumOver(f, PartOf(t, c, k)) \in Int
  BY <1>11, SumIsInt
<1>13. Ints(less, K) /\ Ints(more, K)
  BY <1>12 DEF PartSums, Ints
<1>14. \A k \in K \ {c[x]} : less[k] = more[k]
  <2>1. \A k \in K \ {c[x]} : PartOf(s \ {x}, c, k) = PartOf(s, c, k)
    BY DEF PartOf
  <2> QED BY <2>1 DEF PartSums
<1>15. more[c[x]] = f[x] + less[c[x]]
  <2>1. PartOf(s \ {x}, c, c[x]) = PartOf(s, c, c[x]) \ {x} /\ x \in PartOf(s, c, c[x])
    BY <1>4 DEF PartOf
  <2>2. IsFiniteSet(PartOf(s, c, c[x])) /\ Ints(f, PartOf(s, c, c[x]))
    BY <1>5, <1>11
  <2>3. SumOver(f, PartOf(s, c, c[x])) = f[x] + SumOver(f, PartOf(s, c, c[x]) \ {x})
    BY <2>1, <2>2, SumTakes
  <2>4. SumOver(f, PartOf(s, c, c[x])) = f[x] + SumOver(f, PartOf(s \ {x}, c, c[x]))
    BY <2>1, <2>3
  <2> QED BY <1>5, <2>4 DEF PartSums
<1> HIDE DEF less, more, bad
<1>16. SumOver(more, K) = SumOver(less, K) + more[c[x]] - less[c[x]]
  BY <1>5, <1>13, <1>14, SumChanges
<1>17. less[c[x]] \in Int /\ SumOver(less, K) \in Int
  BY <1>5, <1>13, SumIsInt DEF Ints
<1> QED BY <1>5, <1>6, <1>9, <1>10, <1>15, <1>16, <1>17
===============================================================================
