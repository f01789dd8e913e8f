---------------------------- MODULE Operators_proofs --------------------------
(***************************************************************************)
(* What the operators do that several modules share: shuffle(), and the    *)
(* sums and products of the community modules, which stand for the loops   *)
(* that add up and multiply sizes.                                         *)
(*                                                                         *)
(* shuffle() makes a permutation of a permutation, for every number of     *)
(* elements and whichever places it draws: a swap exchanges the values of  *)
(* two places, so that different places keep different values and every    *)
(* value keeps a place, and the shuffle is a sequence of swaps.            *)
(*                                                                         *)
(* A sum over a finite set is one element, any of them, and the sum of the *)
(* rest; so is a product.  Both are a Total, proved about once.            *)
(*                                                                         *)
(* Inductions are over sets: NatSets says that a set with 0 and the        *)
(* successors of its elements has all natural numbers, and is used with    *)
(* the set of those a property holds for; SizeInduction does the same for  *)
(* the sizes of finite sets.                                               *)
(***************************************************************************)
EXTENDS Shuffle, Functions, FiniteSetTheorems, WellFoundedInduction, TLAPS

-------------------------------------------------------------------------------
(* Inductions.                                                             *)

\* A set of numbers has a least one.
LEMMA Least ==
  ASSUME NEW T \in SUBSET Nat, T # {}
  PROVE  \E x \in T : \A y \in T : x <= y
<1> DEFINE R == OpToRel(<, Nat)
<1>1. IsWellFoundedOn(R, Nat)
  BY NatLessThanWellFounded, Zenon
<1>2. \A x, y \in Nat : x < y => <<x, y>> \in R
  BY DEF OpToRel
<1> HIDE DEF R
<1>3. PICK x \in T : \A y \in T : ~(<<y, x>> \in R)
  BY <1>1, WFMin
<1>4. ASSUME NEW y \in T PROVE x <= y
  <2>1. x \in Nat /\ y \in Nat
    OBVIOUS
  <2>2. ~(y < x)
    BY <1>2, <1>3, <2>1
  <2> QED BY <2>1, <2>2
<1> QED BY <1>4

\* A set with 0 and every successor has all numbers.
LEMMA NatSets ==
  ASSUME NEW S, 0 \in S, \A n \in Nat : n \in S => n + 1 \in S
  PROVE  Nat \subseteq S
<1> SUFFICES ASSUME Nat \ S # {} PROVE FALSE
  OBVIOUS
<1>1. PICK x \in Nat \ S : \A y \in Nat \ S : x <= y
  BY Least
<1>2. x # 0 /\ x - 1 \in Nat
  BY <1>1
<1>3. x - 1 \in S
  BY <1>1, <1>2
<1> QED BY <1>1, <1>2, <1>3

\* What holds of a finite set if it does of all smaller ones, holds of all.
LEMMA SizeInduction ==
  ASSUME NEW S, IsFiniteSet(S), NEW H,
         \A s \in SUBSET S :
           (\A r \in SUBSET S : Cardinality(r) < Cardinality(s) => r \in H) => s \in H
  PROVE  SUBSET S \subseteq H
<1> DEFINE M == {k \in Nat : \A s \in SUBSET S : Cardinality(s) < k => s \in H}
<1>1. \A s \in SUBSET S : Cardinality(s) \in Nat
  BY FS_Subset, FS_CardinalityType
<1>2. 0 \in M
  BY <1>1
<1>3. ASSUME NEW k \in Nat, k \in M PROVE k + 1 \in M
  <2>1. ASSUME NEW s \in SUBSET S, Cardinality(s) < k + 1 PROVE s \in H
    <3>1. \A r \in SUBSET S : Cardinality(r) < Cardinality(s) => Cardinality(r) < k
      BY <1>1, <2>1
    <3>2. \A r \in SUBSET S : Cardinality(r) < Cardinality(s) => r \in H
      BY <1>3, <3>1
    <3> QED BY <3>2
  <2> QED BY <2>1
<1> HIDE DEF M
<1>4. Nat \subseteq M
  BY <1>2, <1>3, NatSets
<1>5. ASSUME NEW s \in SUBSET S PROVE s \in H
  <2>1. Cardinality(s) + 1 \in M /\ Cardinality(s) < Cardinality(s) + 1
    BY <1>1, <1>4
  <2> QED BY <2>1 DEF M
<1> QED BY <1>5

-------------------------------------------------------------------------------
(* Shuffling.                                                              *)

\* An array of the elements of S, each of them once.
IsPermutation(a, S) ==
  /\ a \in [S -> S]
  /\ \A x, y \in S : a[x] = a[y] => x = y
  /\ \A e \in S : \E x \in S : a[x] = e

\* No element of the array that shuffle() works on is lost or repeated by a
\* swap.
THEOREM SwapPermutes ==
  ASSUME NEW S, NEW a, IsPermutation(a, S), NEW j \in S, NEW k \in S
  PROVE  IsPermutation(Swapped(a, j, k), S)
<1> DEFINE s == Swapped(a, j, k)
<1>1. a \in [S -> S]
  BY DEF IsPermutation
<1>2. s \in [S -> S]
  BY <1>1 DEF Swapped
<1>3. \A x \in S : s[x] = IF x = k THEN a[j] ELSE IF x = j THEN a[k] ELSE a[x]
  BY <1>1 DEF Swapped
<1>4. ASSUME NEW x \in S, NEW y \in S, s[x] = s[y]
      PROVE  x = y
  <2>1. \A u, v \in S : a[u] = a[v] => u = v
    BY DEF IsPermutation
  <2> QED BY <1>3, <1>4, <2>1
<1>5. ASSUME NEW e \in S
      PROVE  \E x \in S : s[x] = e
  <2>1. PICK x \in S : a[x] = e
    BY DEF IsPermutation
  <2>2. CASE x = j
    BY <2>1, <2>2, <1>3
  <2>3. CASE x = k
    BY <2>1, <2>3, <1>3
  <2>4. CASE x # j /\ x # k
    BY <2>1, <2>4, <1>3
  <2> QED BY <2>2, <2>3, <2>4
<1> HIDE DEF s
<1>6. IsPermutation(s, S)
  BY <1>2, <1>4, <1>5 DEF IsPermutation
<1> QED BY <1>6 DEF s

\* All such arrays.
AllPermutations(S) == {f \in [S -> S] : IsPermutation(f, S)}

\* The array after place i was drawn for.
DrawnFor(f, i, draws) ==
  IF draws[i] = i THEN f ELSE Swapped(f, draws[i], i)

LEMMA DrawnForPermutes ==
  ASSUME NEW S, NEW f \in AllPermutations(S), NEW i \in S, NEW draws,
         draws[i] \in S
  PROVE  DrawnFor(f, i, draws) \in AllPermutations(S)
<1>1. CASE draws[i] = i
  BY <1>1 DEF DrawnFor
<1>2. CASE draws[i] # i
  <2>1. IsPermutation(Swapped(f, draws[i], i), S)
    BY SwapPermutes DEF AllPermutations
  <2> QED BY <1>2, <2>1 DEF DrawnFor, AllPermutations, IsPermutation
<1> QED BY <1>1, <1>2

\* The arrays from before the first place to after place n.
Stages(S, n, a, draws) ==
  {g \in [0 .. n -> AllPermutations(S)] :
     /\ g[0] = a
     /\ \A i \in 1 .. n : g[i] = DrawnFor(g[i - 1], i, draws)}

LEMMA ShuffleStages ==
  ASSUME NEW S, NEW n \in Nat, 1 .. n \subseteq S,
         NEW a \in AllPermutations(S),
         NEW draws, \A i \in 1 .. n : draws[i] \in S
  PROVE  Stages(S, n, a, draws) # {}
<1> DEFINE D == AllPermutations(S)
           Solves(m, g) ==
             /\ g \in [0 .. m -> D]
             /\ g[0] = a
             /\ \A i \in 1 .. m : g[i] = DrawnFor(g[i - 1], i, draws)
           M == {m \in Nat : m <= n => \E g : Solves(m, g)}
<1>1. 0 \in M
  <2>1. [i \in 0 .. 0 |-> a] \in [0 .. 0 -> D]
    OBVIOUS
  <2>2. Solves(0, [i \in 0 .. 0 |-> a])
    BY <2>1
  <2> QED BY <2>2
<1>2. ASSUME NEW m \in Nat, m \in M
      PROVE  m + 1 \in M
  <2> SUFFICES ASSUME m + 1 <= n
               PROVE  \E g : Solves(m + 1, g)
    OBVIOUS
  <2>1. PICK g : Solves(m, g)
    BY <1>2
  <2>2. m + 1 \in 1 .. n /\ m + 1 \in S /\ m \in 0 .. m
    OBVIOUS
  <2>3. DrawnFor(g[m], m + 1, draws) \in D
    BY <2>1, <2>2, DrawnForPermutes
  <2> DEFINE next == DrawnFor(g[m], m + 1, draws)
             h == [i \in 0 .. m + 1 |-> IF i = m + 1 THEN next ELSE g[i]]
  <2> HIDE DEF D, next
  <2>4. h \in [0 .. m + 1 -> D]
    <3>1. ASSUME NEW i \in 0 .. m + 1, i # m + 1
          PROVE  g[i] \in D
      BY <2>1, <3>1
    <3> QED BY <2>3, <3>1 DEF next
  <2>5. h[0] = a
    BY <2>1
  <2>6. ASSUME NEW i \in 1 .. m + 1
        PROVE  h[i] = DrawnFor(h[i - 1], i, draws)
    <3>1. h[i - 1] = g[i - 1]
      OBVIOUS
    <3>2. CASE i = m + 1
      BY <3>1, <3>2 DEF next
    <3>3. CASE i # m + 1
      <4>1. i \in 1 .. m /\ h[i] = g[i]
        BY <3>3
      <4> QED BY <2>1, <3>1, <4>1
    <3> QED BY <3>2, <3>3
  <2> QED BY <2>4, <2>5, <2>6
<1>3. Nat \subseteq M
  <2> HIDE DEF M
  <2> QED BY <1>1, <1>2, NatSets
<1>4. n \in M
  BY <1>3
<1> QED BY <1>4 DEF Stages

\* Whatever places shuffle() draws, no element of the array is lost or
\* repeated: a shuffle of a permutation is one.
THEOREM ShufflePermutes ==
  ASSUME NEW S, NEW n \in Nat, 1 .. n \subseteq S,
         NEW a, IsPermutation(a, S),
         NEW draws, \A i \in 1 .. n : draws[i] \in S
  PROVE  IsPermutation(Shuffled(a, n, draws), S)
<1> DEFINE Body(u) == [i \in 0 .. n |->
                         IF i = 0 THEN a
                         ELSE IF draws[i] = i THEN u[i - 1]
                         ELSE Swapped(u[i - 1], draws[i], i)]
           until == CHOOSE u : u = Body(u)
<1>1. Shuffled(a, n, draws) = until[n]
  BY DEF Shuffled
<1>2. a \in AllPermutations(S)
  BY DEF AllPermutations, IsPermutation
<1>3. PICK g : g \in Stages(S, n, a, draws)
  BY <1>2, ShuffleStages
<1>4. g = Body(g)
  <2>1. \A i \in 0 .. n : g[i] = Body(g)[i]
    BY <1>3 DEF DrawnFor, Stages
  <2> QED BY <1>3, <2>1 DEF Stages
<1>5. until = Body(until)
  <2> HIDE DEF Body
  <2> QED BY <1>4
<1> HIDE DEF until
<1>6. \A i \in 0 .. n : until[i] = IF i = 0 THEN a
                                   ELSE DrawnFor(until[i - 1], i, draws)
  BY <1>5 DEF DrawnFor
<1> DEFINE M == {m \in Nat : m <= n => until[m] \in AllPermutations(S)}
<1>7. 0 \in M
  BY <1>2, <1>6
<1>8. ASSUME NEW m \in Nat, m \in M
      PROVE  m + 1 \in M
  <2> SUFFICES ASSUME m + 1 <= n
               PROVE  until[m + 1] \in AllPermutations(S)
    OBVIOUS
  <2>1. until[m + 1] = DrawnFor(until[m], m + 1, draws)
    BY <1>6
  <2>2. until[m] \in AllPermutations(S)
    BY <1>8
  <2>3. m + 1 \in S /\ draws[m + 1] \in S
    OBVIOUS
  <2> QED BY <2>1, <2>2, <2>3, DrawnForPermutes
<1>9. Nat \subseteq M
  <2> HIDE DEF M
  <2> QED BY <1>7, <1>8, NatSets
<1>10. n \in M
  BY <1>9
<1> QED BY <1>1, <1>10 DEF AllPermutations

-------------------------------------------------------------------------------
(* Sums and products.                                                      *)

ProductOnSet(f, S) == FoldFunctionOnSet(LAMBDA x, y : x * y, 1, f, S)

\* What the two have in common: o is which of them.
Unit(o) == IF o = "+" THEN 0 ELSE 1
Combine(o, a, b) == IF o = "+" THEN a + b ELSE a * b
Total(o, f, S) == IF o = "+" THEN SumFunctionOnSet(f, S) ELSE ProductOnSet(f, S)

LEMMA CombineNat ==
  ASSUME NEW o, NEW a \in Nat, NEW b \in Nat
  PROVE  /\ Unit(o) \in Nat /\ Combine(o, a, b) \in Nat
         /\ Combine(o, a, b) = Combine(o, b, a)
BY DEF Unit, Combine

LEMMA CombineSwaps ==
  ASSUME NEW o, NEW a \in Nat, NEW b \in Nat, NEW c \in Nat
  PROVE  Combine(o, b, Combine(o, a, c)) = Combine(o, a, Combine(o, b, c))
<1>1. b * (a * c) = a * (b * c)
  OBVIOUS
<1> QED BY <1>1 DEF Combine

\* The fold picks a function that adds one element to the total of the rest: over
\* a finite set there is one.
Rest(s) == s \ {CHOOSE x \in s : TRUE}
Step(o, f, s, g) ==
  IF s = {} THEN Unit(o) ELSE Combine(o, f[CHOOSE x \in s : TRUE], g[Rest(s)])
Totals(o, f, S, g) == g = [s \in SUBSET S |-> Step(o, f, s, g)]

\* The rest of a set is smaller.
LEMMA RestSmaller ==
  ASSUME NEW S, IsFiniteSet(S), NEW s \in SUBSET S, NEW x \in s
  PROVE  /\ s \ {x} \in SUBSET S
         /\ Cardinality(s \ {x}) < Cardinality(s)
<1>1. IsFiniteSet(s) /\ Cardinality(s) \in Nat
  BY FS_Subset, FS_CardinalityType
<1>2. Cardinality(s \ {x}) = Cardinality(s) - 1
  BY <1>1, FS_RemoveElement
<1> QED BY <1>1, <1>2

\* The total of a set that is not empty adds one of its elements to the rest.
LEMMA RestIs ==
  ASSUME NEW s, s # {}
  PROVE  \E x \in s : /\ Rest(s) = s \ {x}
                      /\ \A o, f, g : Step(o, f, s, g) = Combine(o, f[x], g[s \ {x}])
BY Zenon DEF Rest, Step

\* There is a function that totals all subsets of a finite set, by induction over
\* their sizes.
LEMMA TotalsExist ==
  ASSUME NEW o, NEW S, IsFiniteSet(S), NEW f
  PROVE  \E g : Totals(o, f, S, g)
<1> DEFINE Small(k) == {s \in SUBSET S : Cardinality(s) <= k}
           Solves(k, g) == g = [s \in Small(k) |-> Step(o, f, s, g)]
           M == {k \in Nat : \E g : Solves(k, g)}
<1>1. \A s \in SUBSET S : IsFiniteSet(s) /\ Cardinality(s) \in Nat
  BY FS_Subset, FS_CardinalityType
<1>2. ASSUME NEW k \in Nat, NEW s \in Small(k + 1), s # {}
      PROVE  Rest(s) \in Small(k)
  <2>1. (CHOOSE x \in s : TRUE) \in s
    BY <1>2
  <2>2. s \in SUBSET S /\ IsFiniteSet(s) /\ Cardinality(s) \in Nat /\ Cardinality(s) <= k + 1
    BY <1>1, <1>2
  <2>3. Cardinality(Rest(s)) = Cardinality(s) - 1 /\ Rest(s) \in SUBSET S
    BY <2>1, <2>2, FS_RemoveElement DEF Rest
  <2> QED BY <2>2, <2>3, SMT
<1>3. 0 \in M
  <2> DEFINE g == [s \in Small(0) |-> Unit(o)]
  <2>1. \A s \in Small(0) : s = {}
    <3>1. \A s \in Small(0) : Cardinality(s) = 0 /\ IsFiniteSet(s)
      BY <1>1, SMT
    <3> QED BY <3>1, FS_EmptySet
  <2>2. \A s \in Small(0) : Step(o, f, s, g) = Unit(o)
    BY <2>1 DEF Step
  <2>3. Solves(0, g)
    BY <2>2
  <2> QED BY <2>3
<1>4. ASSUME NEW k \in Nat, k \in M
      PROVE  k + 1 \in M
  <2>1. PICK g : Solves(k, g)
    BY <1>4
  <2>0. DOMAIN g = Small(k) /\ \A s \in Small(k) : g[s] = Step(o, f, s, g)
    <3> HIDE DEF Small
    <3> QED BY <2>1
  <2> DEFINE h == [s \in Small(k + 1) |-> Step(o, f, s, g)]
  <2>2. \A s \in Small(k) : s \in Small(k + 1)
    BY <1>1, SMT
  <2>3. DOMAIN h = Small(k + 1) /\ \A s \in Small(k + 1) : h[s] = Step(o, f, s, g)
    OBVIOUS
  <2> HIDE DEF Small, h
  <2>4. \A s \in Small(k) : h[s] = g[s]
    BY <2>0, <2>2, <2>3
  <2>5. \A s \in Small(k + 1) : s # {} => h[Rest(s)] = g[Rest(s)]
    BY <1>2, <2>4
  <2>6. \A s \in Small(k + 1) : h[s] = Step(o, f, s, h)
    BY <2>3, <2>5 DEF Step
  <2>7. h = [s \in Small(k + 1) |-> Step(o, f, s, h)]
    <3>1. h = [s \in Small(k + 1) |-> h[s]]
      BY DEF h
    <3> QED BY <2>6, <3>1
  <2> QED BY <2>7
<1> HIDE DEF M
<1>5. Nat \subseteq M
  BY <1>3, <1>4, NatSets
<1> USE DEF M
<1>6. PICK g : Solves(Cardinality(S), g)
  BY <1>5, FS_CardinalityType
<1>7. Small(Cardinality(S)) = SUBSET S
  BY FS_Subset
<1> HIDE DEF Small
<1> QED BY <1>6, <1>7 DEF Totals

\* Whatever set such a function is for, it has the same totals for the subsets.
Agree(g, h, T) == \A s \in SUBSET T : g[s] = h[s]
LEMMA TotalsUnique ==
  ASSUME NEW o, NEW f, NEW S, IsFiniteSet(S), NEW T \in SUBSET S,
         NEW g, NEW h
  PROVE  Totals(o, f, S, g) /\ Totals(o, f, T, h) => Agree(g, h, T)
<1> SUFFICES ASSUME Totals(o, f, S, g), Totals(o, f, T, h)
             PROVE  Agree(g, h, T)
  OBVIOUS
<1> DEFINE H == {s \in SUBSET T : g[s] = h[s]}
<1>1. IsFiniteSet(T)
  BY FS_Subset
<1>2. \A s \in SUBSET T : g[s] = Step(o, f, s, g) /\ h[s] = Step(o, f, s, h)
  <2>1. \A s \in SUBSET S : g[s] = Step(o, f, s, g)
    BY DEF Totals
  <2>2. \A s \in SUBSET T : h[s] = Step(o, f, s, h)
    BY DEF Totals
  <2> QED BY <2>1, <2>2
<1>3. ASSUME NEW s \in SUBSET T,
             \A r \in SUBSET T : Cardinality(r) < Cardinality(s) => r \in H
      PROVE  s \in H
  <2>1. CASE s = {}
    BY <1>2, <2>1 DEF Step
  <2>2. CASE s # {}
    <3>0. PICK x \in s : /\ Rest(s) = s \ {x}
                         /\ \A p, e, i : Step(p, e, s, i) = Combine(p, e[x], i[s \ {x}])
      BY <2>2, RestIs
    <3>1. /\ Step(o, f, s, g) = Combine(o, f[x], g[s \ {x}])
          /\ Step(o, f, s, h) = Combine(o, f[x], h[s \ {x}])
      BY <3>0, Zenon
    <3>2. s \ {x} \in H
      BY <1>1, <1>3, RestSmaller
    <3> QED BY <1>2, <3>1, <3>2
  <2> QED BY <2>1, <2>2
<1> HIDE DEF H
<1>4. SUBSET T \subseteq H
  BY <1>1, <1>3, SizeInduction
<1> QED BY <1>4 DEF H, Agree

\* The total of the community modules is that of such a function.
LEMMA TotalIs ==
  ASSUME NEW o, NEW f, NEW S, IsFiniteSet(S)
  PROVE  \E g : Totals(o, f, S, g) /\ Total(o, f, S) = g[S]
<1>0. \E g : Totals(o, f, S, g)
  BY TotalsExist
<1>1. CASE o = "+"
  <2> DEFINE Is(g) == g = [s \in SUBSET S |->
               IF s = {} THEN 0 ELSE f[CHOOSE x \in s : TRUE] + g[Rest(s)]]
  <2>1. SumFunctionOnSet(f, S) = (CHOOSE g : Is(g))[S]
    BY Zenon DEF SumFunctionOnSet, FoldFunctionOnSet, MapThenFoldSet, Rest
  <2>2. \A g, s : Step(o, f, s, g) = IF s = {} THEN 0 ELSE f[CHOOSE x \in s : TRUE] + g[Rest(s)]
    BY <1>1 DEF Step, Unit, Combine
  <2>3. \A g : Is(g) <=> Totals(o, f, S, g)
    BY <2>2 DEF Totals
  <2> HIDE DEF Is
  <2> QED BY <1>0, <1>1, <2>1, <2>3 DEF Total
<1>2. CASE o # "+"
  <2> DEFINE Is(g) == g = [s \in SUBSET S |->
               IF s = {} THEN 1 ELSE f[CHOOSE x \in s : TRUE] * g[Rest(s)]]
  <2>1. ProductOnSet(f, S) = (CHOOSE g : Is(g))[S]
    BY Zenon DEF ProductOnSet, FoldFunctionOnSet, MapThenFoldSet, Rest
  <2>2. \A g, s : Step(o, f, s, g) = IF s = {} THEN 1 ELSE f[CHOOSE x \in s : TRUE] * g[Rest(s)]
    BY <1>2 DEF Step, Unit, Combine
  <2>3. \A g : Is(g) <=> Totals(o, f, S, g)
    BY <2>2 DEF Totals
  <2> HIDE DEF Is
  <2> QED BY <1>0, <1>2, <2>1, <2>3 DEF Total
<1> QED BY <1>1, <1>2

\* A total is one element and the total of the rest, for some element.
LEMMA TotalAdds ==
  ASSUME NEW o, NEW f, NEW S, IsFiniteSet(S)
  PROVE  /\ S = {} => Total(o, f, S) = Unit(o)
         /\ S # {} => \E x \in S :
              Total(o, f, S) = Combine(o, f[x], Total(o, f, S \ {x}))
<1>1. PICK g : Totals(o, f, S, g) /\ Total(o, f, S) = g[S]
  BY TotalIs
<1>2. ASSUME NEW T \in SUBSET S PROVE Total(o, f, T) = g[T]
  <2>1. PICK h : Totals(o, f, T, h) /\ Total(o, f, T) = h[T]
    BY FS_Subset, TotalIs
  <2>2. Totals(o, f, S, g) /\ Totals(o, f, T, h) => Agree(g, h, T)
    BY TotalsUnique
  <2> QED BY <1>1, <2>1, <2>2 DEF Agree
<1>3. g[S] = Step(o, f, S, g)
  BY <1>1 DEF Totals
<1>4. CASE S = {}
  BY <1>1, <1>3, <1>4 DEF Step
<1>5. CASE S # {}
  <2>0. PICK x \in S : /\ Rest(S) = S \ {x}
                       /\ \A p, e, i : Step(p, e, S, i) = Combine(p, e[x], i[S \ {x}])
    BY <1>5, RestIs
  <2>1. Step(o, f, S, g) = Combine(o, f[x], g[S \ {x}])
    BY <2>0, Zenon
  <2>2. g[S \ {x}] = Total(o, f, S \ {x})
    BY <1>2
  <2> QED BY <1>1, <1>3, <1>5, <2>1, <2>2
<1> QED BY <1>4, <1>5

\* A total of numbers is a number.
LEMMA TotalNat ==
  ASSUME NEW o, NEW f, NEW S, IsFiniteSet(S), \A x \in S : f[x] \in Nat
  PROVE  Total(o, f, S) \in Nat
<1> DEFINE H == {s \in SUBSET S : Total(o, f, s) \in Nat}
<1>1. ASSUME NEW s \in SUBSET S,
             \A r \in SUBSET S : Cardinality(r) < Cardinality(s) => r \in H
      PROVE  s \in H
  <2>1. IsFiniteSet(s)
    BY FS_Subset
  <2>2. CASE s = {}
    BY <2>1, <2>2, TotalAdds DEF Unit
  <2>3. CASE s # {}
    <3>1. PICK x \in s : Total(o, f, s) = Combine(o, f[x], Total(o, f, s \ {x}))
      BY <2>1, <2>3, TotalAdds
    <3>2. s \ {x} \in H
      BY <1>1, RestSmaller
    <3>3. f[x] \in Nat /\ Total(o, f, s \ {x}) \in Nat
      BY <3>2
    <3> QED BY <3>1, <3>3, CombineNat
  <2> QED BY <2>2, <2>3
<1> HIDE DEF H
<1>2. SUBSET S \subseteq H
  BY <1>1, SizeInduction
<1> QED BY <1>2 DEF H

\* A total of numbers is one element and the total of the rest, for any element.
LEMMA TotalAddsAny ==
  ASSUME NEW o, NEW f, NEW S, IsFiniteSet(S), \A x \in S : f[x] \in Nat
  PROVE  \A x \in S : Total(o, f, S) = Combine(o, f[x], Total(o, f, S \ {x}))
<1> DEFINE Of(s) == Total(o, f, s)
           H == {s \in SUBSET S : \A x \in s : Of(s) = Combine(o, f[x], Of(s \ {x}))}
<1>1. \A s \in SUBSET S : IsFiniteSet(s) /\ Of(s) \in Nat
  BY FS_Subset, TotalNat
<1>2. \A s \in SUBSET S : s # {} => \E c \in s : Of(s) = Combine(o, f[c], Of(s \ {c}))
  BY <1>1, TotalAdds
<1> HIDE DEF Of
<1>3. ASSUME NEW s \in SUBSET S,
             \A r \in SUBSET S : Cardinality(r) < Cardinality(s) => r \in H
      PROVE  s \in H
  <2>1. ASSUME NEW x \in s PROVE Of(s) = Combine(o, f[x], Of(s \ {x}))
    <3>1. PICK c \in s : Of(s) = Combine(o, f[c], Of(s \ {c}))
      BY <1>2
    <3>2. CASE c = x
      BY <3>1, <3>2
    <3>3. CASE c # x
      <4>1. s \ {c} \in H /\ s \ {x} \in H
        BY <1>3, RestSmaller
      <4>2. Of(s \ {c}) = Combine(o, f[x], Of((s \ {c}) \ {x}))
        BY <3>3, <4>1
      <4>3. Of(s \ {x}) = Combine(o, f[c], Of((s \ {x}) \ {c}))
        BY <3>3, <4>1
      <4>4. (s \ {c}) \ {x} = (s \ {x}) \ {c}
        OBVIOUS
      <4>5. f[x] \in Nat /\ f[c] \in Nat /\ Of((s \ {x}) \ {c}) \in Nat
        <5>1. (s \ {x}) \ {c} \in SUBSET S
          OBVIOUS
        <5> QED BY <1>1, <5>1
      <4>6. Combine(o, f[c], Combine(o, f[x], Of((s \ {x}) \ {c})))
              = Combine(o, f[x], Combine(o, f[c], Of((s \ {x}) \ {c})))
        BY <4>5, CombineSwaps
      <4> QED BY <3>1, <4>2, <4>3, <4>4, <4>6, Zenon
    <3> QED BY <3>2, <3>3
  <2> QED BY <2>1
<1> HIDE DEF H
<1>4. SUBSET S \subseteq H
  BY <1>3, SizeInduction
<1> QED BY <1>4 DEF H, Of

\* Only the values on the set count.
LEMMA TotalSame ==
  ASSUME NEW o, NEW f, NEW h, NEW S, IsFiniteSet(S),
         \A x \in S : f[x] \in Nat /\ h[x] = f[x]
  PROVE  Total(o, f, S) = Total(o, h, S)
<1> DEFINE H == {s \in SUBSET S : Total(o, f, s) = Total(o, h, s)}
<1>1. ASSUME NEW s \in SUBSET S,
             \A r \in SUBSET S : Cardinality(r) < Cardinality(s) => r \in H
      PROVE  s \in H
  <2>1. IsFiniteSet(s)
    BY FS_Subset
  <2>2. CASE s = {}
    BY <2>1, <2>2, TotalAdds
  <2>3. CASE s # {}
    <3>1. PICK x \in s : Total(o, f, s) = Combine(o, f[x], Total(o, f, s \ {x}))
      BY <2>1, <2>3, TotalAdds
    <3>2. s \ {x} \in H
      BY <1>1, RestSmaller
    <3>3. Total(o, h, s) = Combine(o, h[x], Total(o, h, s \ {x}))
      <4>1. \A y \in s : h[y] \in Nat
        OBVIOUS
      <4> QED BY <2>1, <4>1, TotalAddsAny
    <3>4. h[x] = f[x]
      OBVIOUS
    <3> QED BY <3>1, <3>2, <3>3, <3>4
  <2> QED BY <2>2, <2>3
<1> HIDE DEF H
<1>2. SUBSET S \subseteq H
  BY <1>1, SizeInduction
<1> QED BY <1>2 DEF H

-------------------------------------------------------------------------------
(* Totals of the numbers from a to k.                                      *)

LEMMA TotalInterval ==
  ASSUME NEW o, NEW f, NEW a \in Int, NEW k \in Int, \A x \in a .. k : f[x] \in Nat
  PROVE  /\ Total(o, f, a .. k) \in Nat
         /\ a > k => Total(o, f, a .. k) = Unit(o)
         /\ a <= k => /\ Total(o, f, a .. k) = Combine(o, f[k], Total(o, f, a .. k - 1))
                      /\ Total(o, f, a .. k) = Combine(o, f[a], Total(o, f, a + 1 .. k))
<1>1. IsFiniteSet(a .. k)
  BY FS_Interval
<1>2. CASE a > k
  <2>1. a .. k = {}
    BY <1>2
  <2> QED BY <1>1, <1>2, <2>1, TotalAdds, TotalNat
<1>3. CASE a <= k
  <2>1. k \in a .. k /\ a \in a .. k
    BY <1>3
  <2>2. (a .. k) \ {k} = a .. k - 1 /\ (a .. k) \ {a} = a + 1 .. k
    BY <1>3
  <2>3. Total(o, f, a .. k) \in Nat
    BY <1>1, TotalNat
  <2> DEFINE S == a .. k
  <2>4. \A x \in S : Total(o, f, S) = Combine(o, f[x], Total(o, f, S \ {x}))
    <3> IsFiniteSet(S) /\ \A x \in S : f[x] \in Nat
      BY <1>1
    <3> HIDE DEF S
    <3> QED BY TotalAddsAny
  <2> QED BY <1>3, <2>1, <2>2, <2>3, <2>4
<1> QED BY <1>2, <1>3

LEMMA SumInterval ==
  ASSUME NEW f, NEW a \in Int, NEW k \in Int, \A x \in a .. k : f[x] \in Nat
  PROVE  /\ SumFunctionOnSet(f, a .. k) \in Nat
         /\ a > k => SumFunctionOnSet(f, a .. k) = 0
         /\ a <= k => /\ SumFunctionOnSet(f, a .. k) = f[k] + SumFunctionOnSet(f, a .. k - 1)
                      /\ SumFunctionOnSet(f, a .. k) = f[a] + SumFunctionOnSet(f, a + 1 .. k)
<1>1. \A S : Total("+", f, S) = SumFunctionOnSet(f, S)
  BY DEF Total
<1>2. Unit("+") = 0 /\ \A b, c : Combine("+", b, c) = b + c
  BY DEF Unit, Combine
<1> QED BY <1>1, <1>2, TotalInterval

LEMMA ProductInterval ==
  ASSUME NEW f, NEW a \in Int, NEW k \in Int, \A x \in a .. k : f[x] \in Nat
  PROVE  /\ ProductOnSet(f, a .. k) \in Nat
         /\ a > k => ProductOnSet(f, a .. k) = 1
         /\ a <= k => /\ ProductOnSet(f, a .. k) = f[k] * ProductOnSet(f, a .. k - 1)
                      /\ ProductOnSet(f, a .. k) = f[a] * ProductOnSet(f, a + 1 .. k)
<1>1. \A S : Total("*", f, S) = ProductOnSet(f, S)
  BY DEF Total
<1>2. Unit("*") = 1 /\ \A b, c : Combine("*", b, c) = b * c
  BY DEF Unit, Combine
<1> QED BY <1>1, <1>2, TotalInterval

\* Sums of the first elements.
LEMMA SumsBelow ==
  ASSUME NEW n \in Nat, NEW f, \A i \in 0 .. n - 1 : f[i] \in Nat
  PROVE  /\ SumFunctionOnSet(f, 0 .. 0 - 1) = 0
         /\ \A k \in 0 .. n : SumFunctionOnSet(f, 0 .. k - 1) \in Nat
         /\ \A k \in 0 .. n - 1 :
              SumFunctionOnSet(f, 0 .. (k + 1) - 1)
                = SumFunctionOnSet(f, 0 .. k - 1) + f[k]
<1>1. SumFunctionOnSet(f, 0 .. 0 - 1) = 0
  BY SumInterval
<1>2. ASSUME NEW k \in 0 .. n PROVE SumFunctionOnSet(f, 0 .. k - 1) \in Nat
  BY SumInterval
<1>3. ASSUME NEW k \in 0 .. n - 1
      PROVE  SumFunctionOnSet(f, 0 .. (k + 1) - 1) = SumFunctionOnSet(f, 0 .. k - 1) + f[k]
  <2>1. f[k] \in Nat /\ SumFunctionOnSet(f, 0 .. k - 1) \in Nat
    BY <1>2
  <2>2. SumFunctionOnSet(f, 0 .. k) = f[k] + SumFunctionOnSet(f, 0 .. k - 1)
    BY SumInterval
  <2>3. k + 1 - 1 = k
    OBVIOUS
  <2> QED BY <2>1, <2>2, <2>3
<1> QED BY <1>1, <1>2, <1>3

\* A sum of positive numbers is one.
LEMMA SumsPositive ==
  ASSUME NEW f, NEW S, IsFiniteSet(S), S # {}, \A x \in S : f[x] \in Nat \ {0}
  PROVE  SumFunctionOnSet(f, S) \in Nat \ {0}
<1>1. \A T : Total("+", f, T) = SumFunctionOnSet(f, T)
  BY DEF Total
<1>2. \A b, c : Combine("+", b, c) = b + c
  BY DEF Combine
<1>3. PICK x \in S : SumFunctionOnSet(f, S) = f[x] + SumFunctionOnSet(f, S \ {x})
  BY <1>1, <1>2, TotalAdds
<1>4. SumFunctionOnSet(f, S \ {x}) \in Nat
  BY <1>1, FS_Subset, TotalNat
<1> QED BY <1>3, <1>4

\* Greater factors make a greater product, unless the other is zero.
LEMMA FactorsGrow ==
  ASSUME NEW a \in Nat, NEW b \in Nat, NEW c \in Nat, NEW d \in Nat, a <= b, c <= d
  PROVE  /\ a * c \in Nat /\ b * d \in Nat
         /\ a * c <= b * d
         /\ a # 0 /\ c # 0 => a * c # 0
         /\ a < b /\ d # 0 => a * c < b * d
         /\ b # 0 /\ c < d => a * c < b * d
<1>1. /\ a * c \in Nat /\ b * d \in Nat /\ b * c \in Nat /\ a * d \in Nat
  OBVIOUS
<1>2. a * c <= b * c /\ b * c <= b * d /\ a * c <= a * d /\ a * d <= b * d
  OBVIOUS
<1>3. a < b /\ d # 0 => a * d < b * d
  OBVIOUS
<1>4. b # 0 /\ c < d => b * c < b * d
  OBVIOUS
<1>5. a # 0 /\ c # 0 => a * c # 0
  OBVIOUS
<1> QED BY <1>1, <1>2, <1>3, <1>4, <1>5

\* A sum of numbers is one element and the sum of the rest.
LEMMA SumAdds ==
  ASSUME NEW f, NEW S, IsFiniteSet(S), \A x \in S : f[x] \in Nat
  PROVE  /\ SumFunctionOnSet(f, S) \in Nat
         /\ \A x \in S : SumFunctionOnSet(f, S) = f[x] + SumFunctionOnSet(f, S \ {x})
<1>1. \A T : Total("+", f, T) = SumFunctionOnSet(f, T)
  BY DEF Total
<1>2. \A b, c : Combine("+", b, c) = b + c
  BY DEF Combine
<1>3. Total("+", f, S) \in Nat
  BY TotalNat
<1>4. \A x \in S : Total("+", f, S) = Combine("+", f[x], Total("+", f, S \ {x}))
  BY TotalAddsAny
<1> QED BY <1>1, <1>2, <1>3, <1>4

LEMMA SumSame ==
  ASSUME NEW f, NEW h, NEW S, IsFiniteSet(S),
         \A x \in S : f[x] \in Nat /\ h[x] = f[x]
  PROVE  SumFunctionOnSet(f, S) = SumFunctionOnSet(h, S)
<1>1. Total("+", f, S) = Total("+", h, S)
  BY TotalSame
<1> QED BY <1>1 DEF Total

\* One value that grows makes the sum grow as much.
LEMMA SumPlus ==
  ASSUME NEW f, NEW h, NEW S, IsFiniteSet(S), \A x \in S : f[x] \in Nat,
         NEW k \in S, NEW m \in Nat, h[k] = f[k] + m, \A x \in S : x # k => h[x] = f[x]
  PROVE  SumFunctionOnSet(h, S) = SumFunctionOnSet(f, S) + m
<1> DEFINE T == S \ {k}
<1>1. IsFiniteSet(T) /\ \A x \in T : f[x] \in Nat /\ h[x] = f[x]
  BY FS_Subset
<1>2. \A x \in S : h[x] \in Nat
  OBVIOUS
<1>3. SumFunctionOnSet(f, S) = f[k] + SumFunctionOnSet(f, T)
  BY SumAdds
<1>4. SumFunctionOnSet(h, S) = h[k] + SumFunctionOnSet(h, T)
  BY <1>2, SumAdds
<1> HIDE DEF T
<1>5. SumFunctionOnSet(f, T) = SumFunctionOnSet(h, T) /\ SumFunctionOnSet(f, T) \in Nat
  BY <1>1, SumAdds, SumSame
<1>6. f[k] \in Nat /\ h[k] = f[k] + m
  OBVIOUS
<1> QED BY <1>3, <1>4, <1>5, <1>6

\* A product of numbers is one element and the product of the rest.
LEMMA ProductAdds ==
  ASSUME NEW f, NEW S, IsFiniteSet(S), \A x \in S : f[x] \in Nat
  PROVE  /\ ProductOnSet(f, S) \in Nat
         /\ S = {} => ProductOnSet(f, S) = 1
         /\ \A x \in S : ProductOnSet(f, S) = f[x] * ProductOnSet(f, S \ {x})
<1>1. \A T : Total("*", f, T) = ProductOnSet(f, T)
  BY DEF Total
<1>2. Unit("*") = 1 /\ \A b, c : Combine("*", b, c) = b * c
  BY DEF Unit, Combine
<1>3. Total("*", f, S) \in Nat
  BY TotalNat
<1>4. S = {} => Total("*", f, S) = Unit("*")
  BY TotalAdds
<1>5. \A x \in S : Total("*", f, S) = Combine("*", f[x], Total("*", f, S \ {x}))
  BY TotalAddsAny
<1> QED BY <1>1, <1>2, <1>3, <1>4, <1>5

\* A product of positive numbers is one, and with a zero it is zero.
LEMMA ProductPositive ==
  ASSUME NEW f, NEW S, IsFiniteSet(S), \A x \in S : f[x] \in Nat
  PROVE  /\ ProductOnSet(f, S) \in Nat
         /\ ProductOnSet(f, S) # 0 <=> \A x \in S : f[x] # 0
<1> DEFINE H == {s \in SUBSET S : ProductOnSet(f, s) # 0 <=> \A x \in s : f[x] # 0}
<1>3. \A s \in SUBSET S : IsFiniteSet(s) /\ ProductOnSet(f, s) \in Nat
  BY FS_Subset, ProductAdds
<1>4. ASSUME NEW s \in SUBSET S,
             \A r \in SUBSET S : Cardinality(r) < Cardinality(s) => r \in H
      PROVE  s \in H
  <2>1. CASE s = {}
    BY <1>3, <2>1, ProductAdds
  <2>2. CASE s # {}
    <3>1. PICK x \in s : ProductOnSet(f, s) = f[x] * ProductOnSet(f, s \ {x})
      <4>1. \A y \in s : f[y] \in Nat
        OBVIOUS
      <4> QED BY <1>3, <2>2, <4>1, ProductAdds
    <3>2. s \ {x} \in H
      BY <1>4, RestSmaller
    <3>3. f[x] \in Nat /\ ProductOnSet(f, s \ {x}) \in Nat
      BY <1>3
    <3>4. ProductOnSet(f, s) # 0 <=> f[x] # 0 /\ ProductOnSet(f, s \ {x}) # 0
      BY <3>1, <3>3, FactorsGrow
    <3> QED BY <3>2, <3>4
  <2> QED BY <2>1, <2>2
<1> HIDE DEF H
<1>5. SUBSET S \subseteq H
  BY <1>4, SizeInduction
<1>6. S \in H
  BY <1>5
<1> QED BY <1>3, <1>6 DEF H

\* Smaller factors make a smaller product, unless none is smaller.
LEMMA ProductGrows ==
  ASSUME NEW f, NEW h, NEW S, IsFiniteSet(S),
         \A x \in S : f[x] \in Nat \ {0} /\ h[x] \in Nat \ {0} /\ f[x] <= h[x]
  PROVE  /\ ProductOnSet(f, S) <= ProductOnSet(h, S)
         /\ ProductOnSet(f, S) = ProductOnSet(h, S) <=> \A x \in S : f[x] = h[x]
<1> DEFINE Less(s) == /\ ProductOnSet(f, s) <= ProductOnSet(h, s)
                      /\ ProductOnSet(f, s) = ProductOnSet(h, s) => \A x \in s : f[x] = h[x]
           H == {s \in SUBSET S : Less(s)}
<1>3. \A s \in SUBSET S : /\ IsFiniteSet(s)
                          /\ ProductOnSet(f, s) \in Nat \ {0} /\ ProductOnSet(h, s) \in Nat \ {0}
  BY FS_Subset, ProductPositive
<1>4. ASSUME NEW s \in SUBSET S,
             \A r \in SUBSET S : Cardinality(r) < Cardinality(s) => r \in H
      PROVE  s \in H
  <2>1. CASE s = {}
    BY <1>3, <2>1, ProductAdds
  <2>2. CASE s # {}
    <3>1. PICK x \in s : ProductOnSet(f, s) = f[x] * ProductOnSet(f, s \ {x})
      <4>1. \A y \in s : f[y] \in Nat
        OBVIOUS
      <4> QED BY <1>3, <2>2, <4>1, ProductAdds
    <3>2. ProductOnSet(h, s) = h[x] * ProductOnSet(h, s \ {x})
      <4>1. \A y \in s : h[y] \in Nat
        OBVIOUS
      <4> QED BY <1>3, <4>1, ProductAdds
    <3>3. Less(s \ {x})
      BY <1>4, RestSmaller
    <3> DEFINE a == f[x]
               b == h[x]
               c == ProductOnSet(f, s \ {x})
               d == ProductOnSet(h, s \ {x})
    <3>4. a \in Nat \ {0} /\ b \in Nat \ {0} /\ a <= b
      OBVIOUS
    <3>5. c \in Nat \ {0} /\ d \in Nat \ {0} /\ c <= d
      <4>1. s \ {x} \in SUBSET S
        OBVIOUS
      <4> QED BY <1>3, <3>3, <4>1
    <3>6. a * c <= b * d /\ (a * c = b * d => a = b /\ c = d)
      <4> HIDE DEF a, b, c, d
      <4>1. a * c \in Nat /\ b * d \in Nat /\ a * c <= b * d
        BY <3>4, <3>5, FactorsGrow
      <4>2. a < b => a * c < b * d
        BY <3>4, <3>5, FactorsGrow
      <4>3. c < d => a * c < b * d
        BY <3>4, <3>5, FactorsGrow
      <4> QED BY <3>4, <3>5, <4>1, <4>2, <4>3
    <3> QED BY <3>1, <3>2, <3>3, <3>6, Zenon
  <2> QED BY <2>1, <2>2
<1> HIDE DEF H
<1>5. SUBSET S \subseteq H
  BY <1>4, SizeInduction
<1>6. S \in H
  BY <1>5
<1>7. (\A x \in S : f[x] = h[x]) => ProductOnSet(f, S) = ProductOnSet(h, S)
  BY TotalSame DEF Total
<1> QED BY <1>6, <1>7 DEF H

\* So do factors some of which are 0.
LEMMA ProductLess ==
  ASSUME NEW f, NEW h, NEW S, IsFiniteSet(S),
         \A x \in S : f[x] \in Nat /\ h[x] \in Nat \ {0} /\ f[x] <= h[x]
  PROVE  /\ ProductOnSet(f, S) \in Nat /\ ProductOnSet(h, S) \in Nat
         /\ ProductOnSet(f, S) <= ProductOnSet(h, S)
<1>1. (\A x \in S : f[x] \in Nat) /\ (\A x \in S : h[x] \in Nat)
  OBVIOUS
<1>2. /\ ProductOnSet(f, S) \in Nat /\ ProductOnSet(h, S) \in Nat
      /\ ProductOnSet(f, S) # 0 <=> \A x \in S : f[x] # 0
  BY <1>1, ProductPositive
<1>3. CASE ProductOnSet(f, S) = 0
  BY <1>2, <1>3
<1>4. CASE ProductOnSet(f, S) # 0
  <2>1. \A x \in S : f[x] \in Nat \ {0} /\ h[x] \in Nat \ {0} /\ f[x] <= h[x]
    BY <1>2, <1>4
  <2> QED BY <1>2, <2>1, ProductGrows
<1> QED BY <1>3, <1>4

===============================================================================
