---------------------------- MODULE CartDset_proofs ---------------------------
(***************************************************************************)
(* Proofs about CartDset, for all datasets and all tasks: the tasks own    *)
(* every element once, and each transfers its own, in order.               *)
(*                                                                         *)
(* The argument is one about positional numbers.  A task's id is a number  *)
(* whose digits are the block's place among the divisions, the least       *)
(* dimension first (Low); an element's place in the file is one whose      *)
(* digits are its coordinates, the last dimension first (High); and so is  *)
(* its rank within its block (Rank), whose digits are the coordinates in   *)
(* the block.  That numbers and digits determine each other finds the      *)
(* block an element is in from its place (OwnedAre), and that they have    *)
(* the same order makes ranks grow with places (PlacesGrow).               *)
(*                                                                         *)
(* Counting through a block adds 1 to a number whose last digit is left    *)
(* out, with the carries one step at a time: Standing says that coord is   *)
(* the first element of row k, Carrying that it will be when what is left  *)
(* is carried.  The invariant needs both for the list of offsets to be     *)
(* that of the rows (Listed), and that list for what has been transferred  *)
(* to be the block's first elements (Buffered).                            *)
(***************************************************************************)
EXTENDS CartDset, Operators_proofs, SequenceTheorems, FunctionTheorems

-------------------------------------------------------------------------------
(* Quotients and remainders.                                               *)

\* The quotient and the remainder.
LEMMA DivMod ==
  ASSUME NEW a \in Nat, NEW b \in Nat \ {0}
  PROVE  /\ a \div b \in Nat /\ a % b \in 0 .. b - 1
         /\ a = b * (a \div b) + (a % b)
OBVIOUS

\* They are the only ones.
LEMMA DivModIs ==
  ASSUME NEW b \in Nat \ {0}, NEW q \in Nat, NEW r \in 0 .. b - 1
  PROVE  (b * q + r) \div b = q /\ (b * q + r) % b = r
OBVIOUS

\* A quotient by a product; and what it leaves.
LEMMA DivModTimes ==
  ASSUME NEW a \in Nat, NEW b \in Nat \ {0}, NEW c \in Nat \ {0}
  PROVE  /\ b * c \in Nat \ {0}
         /\ a % (b * c) = (a % b) + ((a \div b) % c) * b
<1> DEFINE q == a \div b
           p == q \div c
           r == a % b
           s == q % c
<1>1. q \in Nat /\ r \in 0 .. b - 1 /\ a = b * q + r
  BY DivMod
<1>2. p \in Nat /\ s \in 0 .. c - 1 /\ q = c * p + s
  BY <1>1, DivMod
<1> HIDE DEF p, q, r, s
<1>3. b * c \in Nat \ {0}
  BY FactorsGrow
<1>4. s * b + r \in 0 .. b * c - 1
  <2>1. s * b <= (c - 1) * b /\ (c - 1) * b = b * c - b /\ s * b \in Nat
    BY <1>2
  <2> QED BY <1>1, <1>3, <2>1
<1>5. a = (b * c) * p + (s * b + r)
  <2>1. b * (c * p + s) = (b * c) * p + s * b
    BY <1>2
  <2>2. (b * c) * p \in Nat /\ s * b \in Nat
    BY <1>2, <1>3
  <2> QED BY <1>1, <1>2, <2>1, <2>2
<1>6. a % (b * c) = s * b + r
  BY <1>2, <1>3, <1>4, <1>5, DivModIs
<1>7. s * b + r = r + s * b
  BY <1>1, <1>2
<1> QED BY <1>3, <1>6, <1>7 DEF q, r, s

-------------------------------------------------------------------------------
(* Positional systems: place i of n has the digits below R[i] and the      *)
(* weight F[i]; s[i] is the value of the digits before place i.            *)

Weights(n, R, F) ==
  /\ F[0] = 1
  /\ \A i \in 0 .. n : F[i] \in Nat \ {0}
  /\ \A i \in 0 .. n - 1 : R[i] \in Nat \ {0} /\ F[i + 1] = F[i] * R[i]
Digits(n, R, d) == \A i \in 0 .. n - 1 : d[i] \in 0 .. R[i] - 1
Values(n, F, d, s) ==
  /\ s[0] = 0
  /\ \A i \in 0 .. n : s[i] \in Nat
  /\ \A i \in 0 .. n - 1 : s[i + 1] = s[i] + d[i] * F[i]

\* From place a on.
LEMMA PlaceInduction ==
  ASSUME NEW a \in Nat, NEW n \in Nat, NEW H,
         a \in H, \A i \in a .. n - 1 : i \in H => i + 1 \in H
  PROVE  a .. n \subseteq H
<1> DEFINE M == {k \in Nat : k \in a .. n => k \in H}
<1>1. 0 \in M
  <2>1. 0 \in a .. n => a = 0
    OBVIOUS
  <2> QED BY <2>1
<1>2. ASSUME NEW k \in Nat, k \in M PROVE k + 1 \in M
  <2>1. CASE k \in a .. n - 1
    BY <1>2, <2>1
  <2>2. CASE k \notin a .. n - 1
    <3>1. k + 1 \in a .. n => k + 1 = a
      BY <2>2
    <3> QED BY <3>1
  <2> QED BY <2>1, <2>2
<1> HIDE DEF M
<1>3. Nat \subseteq M
  BY <1>1, <1>2, NatSets
<1> QED BY <1>3 DEF M

\* The digits before a place never reach its weight.
LEMMA ValueBelow ==
  ASSUME NEW n \in Nat, NEW R, NEW F, NEW d, NEW s,
         Weights(n, R, F), Digits(n, R, d), Values(n, F, d, s)
  PROVE  \A i \in 0 .. n : s[i] < F[i]
<1> DEFINE H == {i \in 0 .. n : s[i] < F[i]}
<1>1. 0 \in H
  BY DEF Weights, Values
<1>2. ASSUME NEW i \in 0 .. n - 1, i \in H PROVE i + 1 \in H
  <2>1. /\ s[i + 1] = s[i] + d[i] * F[i] /\ F[i + 1] = F[i] * R[i]
        /\ s[i] \in Nat /\ F[i] \in Nat \ {0} /\ R[i] \in Nat \ {0}
        /\ d[i] \in 0 .. R[i] - 1 /\ s[i] < F[i]
    BY <1>2 DEF Weights, Digits, Values
  <2> DEFINE v == s[i]
             w == F[i]
             r == R[i]
             g == d[i]
  <2>2. /\ v \in Nat /\ w \in Nat \ {0} /\ r \in Nat \ {0} /\ g \in 0 .. r - 1 /\ v < w
    BY <2>1
  <2>3. v + g * w < w * r
    <3> HIDE DEF v, w, r, g
    <3>1. g * w <= (r - 1) * w /\ (r - 1) * w = w * r - w /\ g * w \in Nat /\ w * r \in Nat
      BY <2>2
    <3> QED BY <2>2, <3>1
  <2> QED BY <2>1, <2>3
<1> HIDE DEF H
<1>3. 0 .. n \subseteq H
  BY <1>1, <1>2, PlaceInduction
<1> QED BY <1>3 DEF H

\* The digits from a place on make a multiple of its weight.
LEMMA ValueTail ==
  ASSUME NEW n \in Nat, NEW R, NEW F, NEW d, NEW s,
         Weights(n, R, F), Digits(n, R, d), Values(n, F, d, s), NEW a \in 0 .. n
  PROVE  \E h \in Nat : s[n] = s[a] + F[a] * h
<1> DEFINE H == {m \in a .. n : \E h, g \in Nat : s[m] = s[a] + F[a] * h /\ F[m] = F[a] * g}
<1>0. s[a] \in Nat /\ F[a] \in Nat \ {0}
  BY DEF Values, Weights
<1>1. a \in H
  <2>1. s[a] = s[a] + F[a] * 0 /\ F[a] = F[a] * 1
    BY <1>0
  <2> QED BY <2>1
<1>2. ASSUME NEW m \in a .. n - 1, m \in H PROVE m + 1 \in H
  <2>1. PICK h, g \in Nat : s[m] = s[a] + F[a] * h /\ F[m] = F[a] * g
    BY <1>2
  <2>2. /\ s[m + 1] = s[m] + d[m] * F[m] /\ F[m + 1] = F[m] * R[m]
        /\ d[m] \in Nat /\ R[m] \in Nat
    <3>1. m \in 0 .. n - 1
      OBVIOUS
    <3> QED BY <3>1 DEF Weights, Digits, Values
  <2> DEFINE v == s[a]
             w == F[a]
             r == R[m]
             e == d[m]
  <2>3. v \in Nat /\ w \in Nat /\ r \in Nat /\ e \in Nat
    BY <1>0, <2>2
  <2>4. /\ (v + w * h) + e * (w * g) = v + w * (h + e * g)
        /\ (w * g) * r = w * (g * r)
        /\ h + e * g \in Nat /\ g * r \in Nat
    <3> HIDE DEF v, w, r, e
    <3>1. e * (w * g) = w * (e * g) /\ w * (h + e * g) = w * h + w * (e * g)
      BY <2>3
    <3>2. w * h \in Nat /\ w * (e * g) \in Nat
      BY <2>3
    <3> QED BY <2>3, <3>1, <3>2
  <2>5. s[m + 1] = s[a] + F[a] * (h + e * g) /\ F[m + 1] = F[a] * (g * r)
    BY <2>1, <2>2, <2>4
  <2> HIDE DEF e, r
  <2> QED BY <2>4, <2>5
<1>3. a .. n \subseteq H
  <2> HIDE DEF H
  <2> QED BY <1>1, <1>2, PlaceInduction
<1>4. n \in H
  BY <1>3
<1> QED BY <1>4

\* A digit is found again in the value.
LEMMA DigitIs ==
  ASSUME NEW n \in Nat, NEW R, NEW F, NEW d, NEW s,
         Weights(n, R, F), Digits(n, R, d), Values(n, F, d, s)
  PROVE  \A i \in 0 .. n - 1 : (s[n] \div F[i]) % R[i] = d[i]
<1> TAKE i \in 0 .. n - 1
<1>1. PICK h \in Nat : s[n] = s[i + 1] + F[i + 1] * h
  <2>1. i + 1 \in 0 .. n
    OBVIOUS
  <2> QED BY <2>1, ValueTail
<1>2. /\ s[i + 1] = s[i] + d[i] * F[i] /\ F[i + 1] = F[i] * R[i]
      /\ s[i] \in Nat /\ F[i] \in Nat \ {0} /\ R[i] \in Nat \ {0} /\ d[i] \in 0 .. R[i] - 1
  BY DEF Weights, Digits, Values
<1>3. s[i] < F[i]
  BY ValueBelow
<1> DEFINE v == s[i]
           w == F[i]
           r == R[i]
           g == d[i]
<1>4. /\ v \in 0 .. w - 1 /\ w \in Nat \ {0} /\ r \in Nat \ {0} /\ g \in 0 .. r - 1
      /\ s[n] = (v + g * w) + (w * r) * h
  BY <1>1, <1>2, <1>3
<1> HIDE DEF v, w, r, g
<1>5. (v + g * w) + (w * r) * h = w * (r * h + g) + v
  <2>1. w * (r * h + g) = (w * r) * h + g * w /\ (w * r) * h \in Nat /\ g * w \in Nat
    BY <1>4
  <2> QED BY <1>4, <2>1
<1>6. r * h + g \in Nat
  BY <1>4
<1>7. s[n] \div w = r * h + g
  <2> DEFINE q == r * h + g
  <2>1. s[n] = w * q + v /\ q \in Nat
    BY <1>4, <1>5, <1>6
  <2> HIDE DEF q
  <2>2. (w * q + v) \div w = q
    BY <1>4, <2>1, DivModIs
  <2> QED BY <2>1, <2>2 DEF q
<1>8. (r * h + g) % r = g
  BY <1>4, DivModIs
<1> QED BY <1>7, <1>8 DEF w, r, g

\* A number is the value of its digits.
LEMMA ValueIs ==
  ASSUME NEW n \in Nat, NEW R, NEW F, NEW d, NEW s, NEW t \in Nat, Weights(n, R, F),
         t < F[n], Values(n, F, d, s),
         \A i \in 0 .. n - 1 : d[i] = (t \div F[i]) % R[i]
  PROVE  s[n] = t
<1> DEFINE H == {i \in 0 .. n : s[i] = t % F[i]}
<1>1. 0 \in H
  BY DivModIs DEF Weights, Values
<1>2. ASSUME NEW i \in 0 .. n - 1, i \in H PROVE i + 1 \in H
  <2>1. /\ s[i + 1] = s[i] + d[i] * F[i] /\ F[i + 1] = F[i] * R[i]
        /\ F[i] \in Nat \ {0} /\ R[i] \in Nat \ {0}
    BY DEF Weights, Values
  <2>2. t % (F[i] * R[i]) = (t % F[i]) + ((t \div F[i]) % R[i]) * F[i]
    BY <2>1, DivModTimes
  <2> QED BY <1>2, <2>1, <2>2
<1>3. 0 .. n \subseteq H
  <2> HIDE DEF H
  <2> QED BY <1>1, <1>2, PlaceInduction
<1>4. n \in H
  BY <1>3
<1>5. F[n] \in Nat \ {0}
  BY DEF Weights
<1>6. F[n] * 0 + t = t
  BY <1>5
<1>7. t % F[n] = t
  BY <1>5, <1>6, DivModIs
<1> QED BY <1>4, <1>7

\* The highest place where two rows of digits differ tells which is less.
Before(n, d, e) == \E i \in 0 .. n - 1 : d[i] < e[i] /\ \A j \in i + 1 .. n - 1 : d[j] = e[j]

\* A number whose digits come before is less.
LEMMA BeforeLess ==
  ASSUME NEW n \in Nat, NEW R, NEW F, NEW d, NEW s, NEW e, NEW u, Weights(n, R, F),
         Digits(n, R, d), Values(n, F, d, s), Digits(n, R, e), Values(n, F, e, u)
  PROVE  Before(n, d, e) => s[n] < u[n]
<1> SUFFICES ASSUME NEW i \in 0 .. n - 1, d[i] < e[i],
                    \A j \in i + 1 .. n - 1 : d[j] = e[j]
             PROVE  s[n] < u[n]
  BY DEF Before
<1> DEFINE H == {m \in i + 1 .. n : s[m] < u[m]}
<1>1. i + 1 \in H
  <2>1. /\ s[i + 1] = s[i] + d[i] * F[i] /\ u[i + 1] = u[i] + e[i] * F[i]
        /\ s[i] \in Nat /\ u[i] \in Nat /\ F[i] \in Nat \ {0} /\ d[i] \in Nat /\ e[i] \in Nat
    BY DEF Weights, Digits, Values
  <2>2. s[i] < F[i]
    BY ValueBelow
  <2> DEFINE v == s[i]
             x == u[i]
             w == F[i]
             g == d[i]
             k == e[i]
  <2>3. /\ v \in Nat /\ x \in Nat /\ w \in Nat \ {0} /\ g \in Nat /\ k \in Nat
        /\ v < w /\ g < k
    BY <2>1, <2>2
  <2>4. v + g * w < x + k * w
    <3> HIDE DEF v, x, w, g, k
    <3>1. (g + 1) * w <= k * w /\ (g + 1) * w = g * w + w /\ g * w \in Nat /\ k * w \in Nat
      BY <2>3
    <3> QED BY <2>3, <3>1
  <2> QED BY <2>1, <2>4
<1>2. ASSUME NEW m \in i + 1 .. n - 1, m \in H PROVE m + 1 \in H
  <2>1. /\ s[m + 1] = s[m] + d[m] * F[m] /\ u[m + 1] = u[m] + e[m] * F[m]
        /\ s[m] \in Nat /\ u[m] \in Nat /\ F[m] \in Nat /\ d[m] \in Nat
    <3>1. m \in 0 .. n - 1
      OBVIOUS
    <3> QED BY <3>1 DEF Weights, Digits, Values
  <2>2. d[m] * F[m] \in Nat /\ e[m] = d[m]
    BY <2>1
  <2> QED BY <1>2, <2>1, <2>2
<1>3. i + 1 .. n \subseteq H
  <2> DEFINE a == i + 1
  <2>1. a \in Nat /\ a \in H /\ \A m \in a .. n - 1 : m \in H => m + 1 \in H
    BY <1>1, <1>2
  <2> HIDE DEF a, H
  <2>2. a .. n \subseteq H
    BY <2>1, PlaceInduction
  <2> QED BY <2>2 DEF a
<1>4. n \in H
  BY <1>3
<1> QED BY <1>4

\* The digits make the number.
LEMMA ValuesSame ==
  ASSUME NEW n \in Nat, NEW F, NEW d, NEW s, NEW e, NEW u,
         Values(n, F, d, s), Values(n, F, e, u), \A i \in 0 .. n - 1 : d[i] = e[i]
  PROVE  s[n] = u[n]
<1> DEFINE H == {m \in 0 .. n : s[m] = u[m]}
<1>1. 0 \in H
  BY DEF Values
<1>2. ASSUME NEW m \in 0 .. n - 1, m \in H PROVE m + 1 \in H
  BY <1>2 DEF Values
<1>3. 0 .. n \subseteq H
  <2> HIDE DEF H
  <2> QED BY <1>1, <1>2, PlaceInduction
<1>4. n \in H
  BY <1>3
<1> QED BY <1>4

\* A set of places has a last one.
LEMMA Greatest ==
  ASSUME NEW n \in Nat, NEW T \in SUBSET (0 .. n - 1), T # {}
  PROVE  \E i \in T : \A j \in T : j <= i
<1> DEFINE U == {k \in Nat : n - 1 - k \in T}
<1>1. PICK j \in T : TRUE
  OBVIOUS
<1>2. n - 1 - j \in U
  BY <1>1
<1>3. PICK k \in U : \A h \in U : k <= h
  <2> U \in SUBSET Nat /\ U # {}
    BY <1>2
  <2> HIDE DEF U
  <2> QED BY Least
<1>4. ASSUME NEW i \in T PROVE i <= n - 1 - k
  <2>1. n - 1 - i \in U
    OBVIOUS
  <2>2. k <= n - 1 - i
    BY <1>3, <2>1
  <2>3. i \in Nat /\ k \in Nat
    OBVIOUS
  <2> QED BY <2>2, <2>3
<1> QED BY <1>3, <1>4

\* The digits of a number that is less come before.
LEMMA LessBefore ==
  ASSUME NEW n \in Nat, NEW R, NEW F, NEW d, NEW s, NEW e, NEW u, Weights(n, R, F),
         Digits(n, R, d), Values(n, F, d, s), Digits(n, R, e), Values(n, F, e, u),
         s[n] < u[n]
  PROVE  Before(n, d, e)
<1> DEFINE T == {i \in 0 .. n - 1 : d[i] # e[i]}
<1>1. s[n] \in Nat /\ u[n] \in Nat
  BY DEF Values
<1>2. T # {}
  <2>1. CASE T = {}
    <3>1. \A i \in 0 .. n - 1 : d[i] = e[i]
      BY <2>1
    <3>2. s[n] = u[n]
      BY <3>1, ValuesSame
    <3> QED BY <1>1, <3>2
  <2> QED BY <2>1
<1>3. PICK i \in T : \A j \in T : j <= i
  <2> HIDE DEF T
  <2> T \in SUBSET (0 .. n - 1)
    BY DEF T
  <2> QED BY <1>2, Greatest
<1>4. \A j \in i + 1 .. n - 1 : d[j] = e[j]
  <2> TAKE j \in i + 1 .. n - 1
  <2>1. j \notin T /\ j \in 0 .. n - 1
    BY <1>3
  <2> QED BY <2>1
<1>5. d[i] \in Nat /\ e[i] \in Nat
  BY <1>3 DEF Digits
<1>6. ~(e[i] < d[i])
  <2>1. ASSUME e[i] < d[i] PROVE FALSE
    <3>1. Before(n, e, d)
      BY <1>3, <1>4, <2>1 DEF Before
    <3>2. u[n] < s[n]
      BY <3>1, BeforeLess
    <3> QED BY <1>1, <3>2
  <2> QED BY <2>1
<1>7. d[i] < e[i]
  BY <1>3, <1>5, <1>6
<1> QED BY <1>3, <1>4, <1>7 DEF Before

-------------------------------------------------------------------------------
(* The two systems of the model, with n digits each: Low counts the first  *)
(* place fastest, as the ids of tasks do, High the last one, as the places *)
(* in the file do.                                                         *)

Radices(n, R) == \A i \in 0 .. n - 1 : R[i] \in Nat \ {0}

LowWeight(R, i) == ProductOnSet(R, 0 .. i - 1)
LowTerms(n, R, d) == [j \in 0 .. n - 1 |-> d[j] * LowWeight(R, j)]
Low(n, R, d) == SumFunction(LowTerms(n, R, d))
LowDigit(R, t, j) == (t \div LowWeight(R, j)) % R[j]

HighWeight(n, R, i) == ProductOnSet(R, i .. n - 1)
HighTerms(n, R, d) == [j \in 0 .. n - 1 |-> d[j] * HighWeight(n, R, j + 1)]
High(n, R, d) == SumFunction(HighTerms(n, R, d))
HighDigit(n, R, t, j) == (t \div HighWeight(n, R, j + 1)) % R[j]

\* No part of the radices has the product 0.
LEMMA ProductRange ==
  ASSUME NEW n \in Nat, NEW R, Radices(n, R), NEW a \in Nat, NEW k \in Int, k <= n - 1
  PROVE  ProductOnSet(R, a .. k) \in Nat \ {0}
<1>1. IsFiniteSet(a .. k) /\ a .. k \subseteq 0 .. n - 1
  BY FS_Interval
<1> DEFINE S == a .. k
<1>2. \A x \in S : R[x] \in Nat /\ R[x] # 0
  BY <1>1 DEF Radices
<1>3. IsFiniteSet(S)
  BY <1>1
<1> HIDE DEF S
<1>4. ProductOnSet(R, S) \in Nat /\ ProductOnSet(R, S) # 0
  BY <1>2, <1>3, ProductPositive
<1> QED BY <1>4 DEF S

\* The digits of any number are below the radices.
LEMMA DigitNat ==
  ASSUME NEW n \in Nat, NEW R, Radices(n, R), NEW t \in Nat
  PROVE  \A j \in 0 .. n - 1 : /\ LowDigit(R, t, j) \in 0 .. R[j] - 1
                               /\ HighDigit(n, R, t, j) \in 0 .. R[j] - 1
<1> TAKE j \in 0 .. n - 1
<1>1. ASSUME NEW w \in Nat \ {0} PROVE (t \div w) % R[j] \in 0 .. R[j] - 1
  <2> DEFINE q == t \div w
             r == R[j]
  <2>1. q \in Nat /\ r \in Nat \ {0}
    BY DivMod DEF Radices
  <2> HIDE DEF q, r
  <2>2. q % r \in 0 .. r - 1
    BY <2>1, DivMod
  <2> QED BY <2>2 DEF q, r
<1>2. LowWeight(R, j) \in Nat \ {0}
  <2>1. j - 1 \in Int /\ j - 1 <= n - 1
    OBVIOUS
  <2> QED BY <2>1, ProductRange DEF LowWeight
<1>3. HighWeight(n, R, j + 1) \in Nat \ {0}
  <2>1. n - 1 \in Int /\ j + 1 \in Nat
    OBVIOUS
  <2> QED BY <2>1, ProductRange DEF HighWeight
<1> QED BY <1>1, <1>2, <1>3 DEF LowDigit, HighDigit

\* Both systems are positional ones.
LEMMA LowWeights ==
  ASSUME NEW n \in Nat, NEW R, Radices(n, R)
  PROVE  Weights(n, R, [i \in 0 .. n |-> LowWeight(R, i)])
<1>1. \A i \in 0 .. n : LowWeight(R, i) \in Nat \ {0}
  BY ProductRange DEF LowWeight
<1>2. LowWeight(R, 0) = 1
  BY ProductInterval DEF LowWeight
<1>3. ASSUME NEW i \in 0 .. n - 1
      PROVE  R[i] \in Nat \ {0} /\ LowWeight(R, i + 1) = LowWeight(R, i) * R[i]
  <2>1. R[i] \in Nat \ {0} /\ \A x \in 0 .. i : R[x] \in Nat
    BY DEF Radices
  <2>2. ProductOnSet(R, 0 .. i) = R[i] * ProductOnSet(R, 0 .. i - 1)
    BY <2>1, ProductInterval
  <2>3. LowWeight(R, i + 1) = R[i] * LowWeight(R, i)
    <3>1. i + 1 - 1 = i
      OBVIOUS
    <3> QED BY <2>2, <3>1 DEF LowWeight
  <2>4. R[i] * LowWeight(R, i) = LowWeight(R, i) * R[i]
    BY <1>1, <2>1
  <2> QED BY <2>1, <2>3, <2>4
<1> QED BY <1>1, <1>2, <1>3 DEF Weights

\* The sum of the terms is the value of the digits.
LEMMA LowValues ==
  ASSUME NEW n \in Nat, NEW R, Radices(n, R), NEW d, \A i \in 0 .. n - 1 : d[i] \in Nat
  PROVE  \E s : /\ Values(n, [i \in 0 .. n |-> LowWeight(R, i)], d, s)
                /\ s[n] = Low(n, R, d)
<1> DEFINE f == LowTerms(n, R, d)
           s == [i \in 0 .. n |-> SumFunctionOnSet(f, 0 .. i - 1)]
<1>1. \A i \in 0 .. n - 1 : f[i] \in Nat /\ f[i] = d[i] * LowWeight(R, i)
  <2>1. \A i \in 0 .. n - 1 : LowWeight(R, i) \in Nat
    BY ProductRange DEF LowWeight
  <2> QED BY <2>1 DEF LowTerms
<1>2. DOMAIN f = 0 .. n - 1
  BY DEF LowTerms
<1> HIDE DEF f
<1>0. /\ SumFunctionOnSet(f, 0 .. 0 - 1) = 0
      /\ \A k \in 0 .. n : SumFunctionOnSet(f, 0 .. k - 1) \in Nat
      /\ \A k \in 0 .. n - 1 :
           SumFunctionOnSet(f, 0 .. (k + 1) - 1) = SumFunctionOnSet(f, 0 .. k - 1) + f[k]
  <2>1. \A i \in 0 .. n - 1 : f[i] \in Nat
    BY <1>1
  <2> QED BY <2>1, SumsBelow
<1>3. s[0] = 0 /\ \A i \in 0 .. n : s[i] \in Nat
  BY <1>0
<1>4. \A i \in 0 .. n - 1 : s[i + 1] = s[i] + f[i]
  BY <1>0
<1>5. s[n] = Low(n, R, d)
  BY <1>2 DEF Low, SumFunction, f
<1> HIDE DEF s
<1>6. Values(n, [i \in 0 .. n |-> LowWeight(R, i)], d, s)
  BY <1>1, <1>3, <1>4 DEF Values
<1> QED BY <1>5, <1>6

\* The value of digits is below that of the place after them, and has them.
LEMMA LowDigits ==
  ASSUME NEW n \in Nat, NEW R, Radices(n, R), NEW d, Digits(n, R, d)
  PROVE  /\ Low(n, R, d) \in 0 .. LowWeight(R, n) - 1
         /\ \A j \in 0 .. n - 1 : LowDigit(R, Low(n, R, d), j) = d[j]
<1> DEFINE F == [i \in 0 .. n |-> LowWeight(R, i)]
<1>1. \A i \in 0 .. n - 1 : d[i] \in Nat
  BY DEF Digits
<1>2. PICK s : Values(n, F, d, s) /\ s[n] = Low(n, R, d)
  BY <1>1, LowValues
<1>3. Weights(n, R, F)
  BY LowWeights
<1>4. \A i \in 0 .. n : F[i] = LowWeight(R, i)
  OBVIOUS
<1> HIDE DEF F
<1>5. s[n] \in Nat /\ s[n] < F[n] /\ F[n] \in Nat
  BY <1>2, <1>3, ValueBelow DEF Values, Weights
<1>6. \A i \in 0 .. n - 1 : (s[n] \div F[i]) % R[i] = d[i]
  BY <1>2, <1>3, DigitIs
<1> QED BY <1>2, <1>4, <1>5, <1>6 DEF LowDigit

\* A number is made of its digits: that a task's id is found from the divisions.
LEMMA LowValue ==
  ASSUME NEW n \in Nat, NEW R, Radices(n, R), NEW t \in 0 .. LowWeight(R, n) - 1, NEW d,
         \A j \in 0 .. n - 1 : d[j] = LowDigit(R, t, j)
  PROVE  Low(n, R, d) = t
<1> DEFINE F == [i \in 0 .. n |-> LowWeight(R, i)]
<1>1. Weights(n, R, F)
  BY LowWeights
<1>2. \A i \in 0 .. n : F[i] = LowWeight(R, i)
  OBVIOUS
<1> HIDE DEF F
<1>3. t \in Nat /\ t < F[n]
  BY <1>1, <1>2 DEF Weights
<1>4. \A i \in 0 .. n - 1 : d[i] \in Nat /\ d[i] = (t \div F[i]) % R[i]
  BY <1>2, <1>3, DigitNat DEF LowDigit
<1>5. PICK s : Values(n, F, d, s) /\ s[n] = Low(n, R, d)
  BY <1>4, LowValues DEF F
<1> QED BY <1>1, <1>3, <1>4, <1>5, ValueIs

Mirrored(n, f) == [i \in 0 .. n - 1 |-> f[n - 1 - i]]
HighWeights(n, R) == [i \in 0 .. n |-> HighWeight(n, R, n - i)]

LEMMA HighWeightsAre ==
  ASSUME NEW n \in Nat, NEW R, Radices(n, R)
  PROVE  /\ Weights(n, Mirrored(n, R), HighWeights(n, R))
         /\ \A j \in 0 .. n : /\ HighWeight(n, R, j) \in Nat \ {0}
                              /\ HighWeights(n, R)[n - j] = HighWeight(n, R, j)
         /\ HighWeight(n, R, n) = 1
         /\ \A j \in 0 .. n - 1 : HighWeight(n, R, j) = R[j] * HighWeight(n, R, j + 1)
<1>1. \A j \in 0 .. n : HighWeight(n, R, j) \in Nat \ {0}
  BY ProductRange DEF HighWeight
<1>2. HighWeight(n, R, n) = 1
  BY ProductInterval DEF HighWeight
<1>3. ASSUME NEW j \in 0 .. n - 1
      PROVE  R[j] \in Nat \ {0} /\ HighWeight(n, R, j) = R[j] * HighWeight(n, R, j + 1)
  <2>1. R[j] \in Nat \ {0} /\ \A x \in j .. n - 1 : R[x] \in Nat
    BY DEF Radices
  <2> QED BY <2>1, ProductInterval DEF HighWeight
<1> DEFINE F == HighWeights(n, R)
           M == Mirrored(n, R)
<1>4. \A i \in 0 .. n : F[i] = HighWeight(n, R, n - i)
  BY DEF HighWeights
<1>5. \A i \in 0 .. n - 1 : M[i] = R[n - 1 - i]
  BY DEF Mirrored
<1> HIDE DEF F, M
<1>6. \A i \in 0 .. n : n - i \in 0 .. n /\ n - (n - i) = i
  OBVIOUS
<1>7. F[0] = 1 /\ \A i \in 0 .. n : F[i] \in Nat \ {0}
  BY <1>1, <1>2, <1>4, <1>6
<1>8. ASSUME NEW i \in 0 .. n - 1
      PROVE  M[i] \in Nat \ {0} /\ F[i + 1] = F[i] * M[i]
  <2> DEFINE j == n - 1 - i
  <2>1. /\ j \in 0 .. n - 1 /\ j + 1 = n - i /\ j = n - (i + 1)
        /\ i \in 0 .. n /\ i + 1 \in 0 .. n
    OBVIOUS
  <2>2. F[i + 1] = HighWeight(n, R, j) /\ F[i] = HighWeight(n, R, j + 1) /\ M[i] = R[j]
    BY <1>4, <1>5, <2>1
  <2> HIDE DEF j
  <2>3. R[j] * HighWeight(n, R, j + 1) = HighWeight(n, R, j + 1) * R[j]
    <3>1. j + 1 \in 0 .. n
      BY <2>1
    <3>2. R[j] \in Nat /\ HighWeight(n, R, j + 1) \in Nat
      BY <1>1, <1>3, <2>1, <3>1
    <3> QED BY <3>2
  <2> QED BY <1>3, <2>1, <2>2, <2>3
<1>9. Weights(n, M, F)
  BY <1>7, <1>8 DEF Weights
<1> QED BY <1>1, <1>2, <1>3, <1>4, <1>6, <1>9 DEF F, M

LEMMA HighValues ==
  ASSUME NEW n \in Nat, NEW R, Radices(n, R), NEW d, \A i \in 0 .. n - 1 : d[i] \in Nat
  PROVE  \E s : /\ Values(n, HighWeights(n, R), Mirrored(n, d), s)
                /\ s[n] = High(n, R, d)
<1> DEFINE f == HighTerms(n, R, d)
           s == [i \in 0 .. n |-> SumFunctionOnSet(f, n - i .. n - 1)]
           F == HighWeights(n, R)
           e == Mirrored(n, d)
<1>1. \A j \in 0 .. n - 1 : f[j] \in Nat /\ f[j] = d[j] * HighWeight(n, R, j + 1)
  <2>1. \A j \in 0 .. n - 1 : HighWeight(n, R, j + 1) \in Nat
    BY HighWeightsAre
  <2> QED BY <2>1 DEF HighTerms
<1>2. DOMAIN f = 0 .. n - 1
  BY DEF HighTerms
<1>3. \A i \in 0 .. n : F[i] = HighWeight(n, R, n - i)
  BY DEF HighWeights
<1>4. \A i \in 0 .. n - 1 : e[i] = d[n - 1 - i]
  BY DEF Mirrored
<1> HIDE DEF f, F, e
<1>5. ASSUME NEW i \in 0 .. n
      PROVE  /\ SumFunctionOnSet(f, n - i .. n - 1) \in Nat
             /\ i = 0 => SumFunctionOnSet(f, n - i .. n - 1) = 0
             /\ i < n => SumFunctionOnSet(f, n - 1 - i .. n - 1)
                           = f[n - 1 - i] + SumFunctionOnSet(f, n - i .. n - 1)
  <2> DEFINE a == n - i
             k == n - 1
             b == n - 1 - i
  <2>1. a \in Int /\ k \in Int /\ b \in Int /\ b + 1 = a /\ (i = 0 <=> a > k) /\ (i < n => b <= k)
    OBVIOUS
  <2>2. \A x \in a .. k : f[x] \in Nat
    BY <1>1
  <2>3. i < n => \A x \in b .. k : f[x] \in Nat
    BY <1>1
  <2> HIDE DEF a, k, b
  <2>4. SumFunctionOnSet(f, a .. k) \in Nat /\ (a > k => SumFunctionOnSet(f, a .. k) = 0)
    BY <2>1, <2>2, SumInterval
  <2>5. CASE i < n
    <3>1. SumFunctionOnSet(f, b .. k) = f[b] + SumFunctionOnSet(f, b + 1 .. k)
      BY <2>1, <2>3, <2>5, SumInterval
    <3> QED BY <2>1, <2>4, <2>5, <3>1 DEF a, k, b
  <2>6. CASE ~(i < n)
    BY <2>1, <2>4, <2>6 DEF a, k, b
  <2> QED BY <2>5, <2>6
<1>6. s[0] = 0 /\ \A i \in 0 .. n : s[i] \in Nat
  BY <1>5
<1>7. ASSUME NEW i \in 0 .. n - 1 PROVE s[i + 1] = s[i] + e[i] * F[i]
  <2>1. n - 1 - i \in 0 .. n - 1 /\ n - (i + 1) = n - 1 - i /\ n - 1 - i + 1 = n - i
    OBVIOUS
  <2>2. s[i + 1] = f[n - 1 - i] + s[i]
    BY <1>5, <2>1
  <2>3. f[n - 1 - i] = e[i] * F[i] /\ f[n - 1 - i] \in Nat /\ s[i] \in Nat
    BY <1>1, <1>3, <1>4, <1>6, <2>1
  <2> HIDE DEF s
  <2> QED BY <2>2, <2>3
<1>8. s[n] = High(n, R, d)
  <2>1. n - n = 0
    OBVIOUS
  <2> QED BY <1>2, <2>1 DEF High, SumFunction, f
<1> HIDE DEF s
<1>9. Values(n, F, e, s)
  BY <1>6, <1>7 DEF Values
<1> QED BY <1>8, <1>9 DEF F, e

\* A number below the product has the digits it is made of.
LEMMA HighDigits ==
  ASSUME NEW n \in Nat, NEW R, Radices(n, R), NEW d, Digits(n, R, d)
  PROVE  /\ High(n, R, d) \in 0 .. HighWeight(n, R, 0) - 1
         /\ \A j \in 0 .. n - 1 : HighDigit(n, R, High(n, R, d), j) = d[j]
<1> DEFINE F == HighWeights(n, R)
           M == Mirrored(n, R)
           e == Mirrored(n, d)
<1>1. \A i \in 0 .. n - 1 : d[i] \in Nat
  BY DEF Digits
<1>2. PICK s : Values(n, F, e, s) /\ s[n] = High(n, R, d)
  BY <1>1, HighValues
<1>3. /\ Weights(n, M, F)
      /\ \A j \in 0 .. n : F[n - j] = HighWeight(n, R, j)
  BY HighWeightsAre
<1>4. \A i \in 0 .. n - 1 : M[i] = R[n - 1 - i] /\ e[i] = d[n - 1 - i]
  BY DEF Mirrored
<1> HIDE DEF F, M, e
<1>5. Digits(n, M, e)
  <2>1. \A i \in 0 .. n - 1 : n - 1 - i \in 0 .. n - 1
    OBVIOUS
  <2> QED BY <1>4, <2>1 DEF Digits
<1>6. s[n] \in Nat /\ s[n] < F[n] /\ F[n] \in Nat /\ F[n] = HighWeight(n, R, 0)
  <2>1. s[n] < F[n]
    BY <1>2, <1>3, <1>5, ValueBelow
  <2>2. 0 \in 0 .. n /\ n - 0 = n
    OBVIOUS
  <2>3. F[n] = HighWeight(n, R, 0)
    BY <1>3, <2>2
  <2> QED BY <1>2, <1>3, <2>1, <2>3 DEF Values, Weights
<1>7. \A i \in 0 .. n - 1 : (s[n] \div F[i]) % M[i] = e[i]
  BY <1>2, <1>3, <1>5, DigitIs
<1>8. ASSUME NEW j \in 0 .. n - 1 PROVE HighDigit(n, R, s[n], j) = d[j]
  <2> DEFINE i == n - 1 - j
  <2>1. i \in 0 .. n - 1 /\ n - 1 - i = j /\ n - (j + 1) = i /\ j + 1 \in 0 .. n
    OBVIOUS
  <2> HIDE DEF i
  <2>2. M[i] = R[j] /\ e[i] = d[j] /\ F[i] = HighWeight(n, R, j + 1)
    BY <1>3, <1>4, <2>1
  <2> QED BY <1>7, <2>1, <2>2 DEF HighDigit
<1> QED BY <1>2, <1>6, <1>8

\* A number is made of its digits.
LEMMA HighValue ==
  ASSUME NEW n \in Nat, NEW R, Radices(n, R), NEW t \in 0 .. HighWeight(n, R, 0) - 1, NEW d,
         \A j \in 0 .. n - 1 : d[j] = HighDigit(n, R, t, j)
  PROVE  High(n, R, d) = t
<1> DEFINE F == HighWeights(n, R)
           M == Mirrored(n, R)
           e == Mirrored(n, d)
<1>1. /\ Weights(n, M, F)
      /\ \A j \in 0 .. n : F[n - j] = HighWeight(n, R, j)
      /\ \A j \in 0 .. n : HighWeight(n, R, j) \in Nat \ {0}
  BY HighWeightsAre
<1>2. \A i \in 0 .. n - 1 : M[i] = R[n - 1 - i] /\ e[i] = d[n - 1 - i]
  BY DEF Mirrored
<1>3. t \in Nat /\ t < F[n]
  <2>1. 0 \in 0 .. n /\ n - 0 = n
    OBVIOUS
  <2>2. F[n] = HighWeight(n, R, 0) /\ HighWeight(n, R, 0) \in Nat
    BY <1>1, <2>1
  <2> HIDE DEF F
  <2> QED BY <2>2
<1>4. \A i \in 0 .. n - 1 : d[i] \in Nat
  BY DigitNat
<1>5. PICK s : Values(n, F, e, s) /\ s[n] = High(n, R, d)
  BY <1>4, HighValues
<1> HIDE DEF F, M, e
<1>6. ASSUME NEW i \in 0 .. n - 1 PROVE e[i] = (t \div F[i]) % M[i]
  <2> DEFINE j == n - 1 - i
  <2>1. j \in 0 .. n - 1 /\ n - (j + 1) = i /\ j + 1 \in 0 .. n
    OBVIOUS
  <2>2. e[i] = d[j] /\ M[i] = R[j]
    BY <1>2
  <2> HIDE DEF j
  <2>3. F[i] = HighWeight(n, R, j + 1)
    BY <1>1, <2>1
  <2> QED BY <2>1, <2>2, <2>3 DEF HighDigit
<1> QED BY <1>1, <1>3, <1>5, <1>6, ValueIs

First(n, d, e) == \E i \in 0 .. n - 1 : d[i] < e[i] /\ \A j \in 0 .. i - 1 : d[j] = e[j]

\* Where digits differ first tells which value is less.
LEMMA HighOrder ==
  ASSUME NEW n \in Nat, NEW R, Radices(n, R), NEW d, Digits(n, R, d), NEW e, Digits(n, R, e)
  PROVE  High(n, R, d) < High(n, R, e) <=> First(n, d, e)
<1> DEFINE F == HighWeights(n, R)
           M == Mirrored(n, R)
           x == Mirrored(n, d)
           y == Mirrored(n, e)
<1>1. (\A i \in 0 .. n - 1 : d[i] \in Nat) /\ (\A i \in 0 .. n - 1 : e[i] \in Nat)
  BY DEF Digits
<1>2. PICK s : Values(n, F, x, s) /\ s[n] = High(n, R, d)
  BY <1>1, HighValues
<1>3. PICK u : Values(n, F, y, u) /\ u[n] = High(n, R, e)
  BY <1>1, HighValues
<1>4. Weights(n, M, F)
  BY HighWeightsAre
<1>5. \A i \in 0 .. n - 1 : M[i] = R[n - 1 - i] /\ x[i] = d[n - 1 - i] /\ y[i] = e[n - 1 - i]
  BY DEF Mirrored
<1> HIDE DEF F, M, x, y
<1>6. \A i \in 0 .. n - 1 : n - 1 - i \in 0 .. n - 1 /\ n - 1 - (n - 1 - i) = i
  OBVIOUS
<1>7. Digits(n, M, x) /\ Digits(n, M, y)
  BY <1>5, <1>6 DEF Digits
<1>8. \A i \in 0 .. n - 1 : d[i] = x[n - 1 - i] /\ e[i] = y[n - 1 - i]
  BY <1>5, <1>6
<1>9. Before(n, x, y) => First(n, d, e)
  <2> SUFFICES ASSUME NEW i \in 0 .. n - 1, x[i] < y[i], \A j \in i + 1 .. n - 1 : x[j] = y[j]
               PROVE  First(n, d, e)
    BY DEF Before
  <2>1. d[n - 1 - i] < e[n - 1 - i]
    BY <1>5
  <2>2. \A j \in 0 .. (n - 1 - i) - 1 : d[j] = e[j]
    <3> TAKE j \in 0 .. (n - 1 - i) - 1
    <3>1. n - 1 - j \in i + 1 .. n - 1 /\ j \in 0 .. n - 1
      OBVIOUS
    <3> QED BY <1>8, <3>1
  <2> QED BY <1>6, <2>1, <2>2 DEF First
<1>10. First(n, d, e) => Before(n, x, y)
  <2> SUFFICES ASSUME NEW i \in 0 .. n - 1, d[i] < e[i], \A j \in 0 .. i - 1 : d[j] = e[j]
               PROVE  Before(n, x, y)
    BY DEF First
  <2>1. x[n - 1 - i] < y[n - 1 - i]
    BY <1>8
  <2>2. \A j \in (n - 1 - i) + 1 .. n - 1 : x[j] = y[j]
    <3> TAKE j \in (n - 1 - i) + 1 .. n - 1
    <3>1. n - 1 - j \in 0 .. i - 1 /\ j \in 0 .. n - 1
      OBVIOUS
    <3> QED BY <1>5, <3>1
  <2> QED BY <1>6, <2>1, <2>2 DEF Before
<1>11. s[n] < u[n] => Before(n, x, y)
  BY <1>2, <1>3, <1>4, <1>7, LessBefore
<1>12. Before(n, x, y) => s[n] < u[n]
  BY <1>2, <1>3, <1>4, <1>7, BeforeLess
<1> QED BY <1>2, <1>3, <1>9, <1>10, <1>11, <1>12

\* One digit that grows adds its weight to the value.
Counts(n, d) == \A i \in 0 .. n - 1 : d[i] \in Nat
Further(n, d, e, k, m) == e[k] = d[k] + m /\ \A i \in 0 .. n - 1 : i # k => e[i] = d[i]

\* To move by m in dimension k is to move by m times its weight.
LEMMA HighPlus ==
  ASSUME NEW n \in Nat, NEW R, Radices(n, R), NEW d, NEW e, NEW k \in 0 .. n - 1, NEW m \in Nat,
         Counts(n, d), Further(n, d, e, k, m)
  PROVE  /\ High(n, R, d) \in Nat
         /\ High(n, R, e) = High(n, R, d) + m * HighWeight(n, R, k + 1)
<1> DEFINE f == HighTerms(n, R, d)
           g == HighTerms(n, R, e)
           S == 0 .. n - 1
           w == HighWeight(n, R, k + 1)
<1>1. \A i \in S : HighWeight(n, R, i + 1) \in Nat
  BY HighWeightsAre
<1>2. /\ DOMAIN f = S /\ DOMAIN g = S
      /\ \A i \in S : f[i] = d[i] * HighWeight(n, R, i + 1) /\ g[i] = e[i] * HighWeight(n, R, i + 1)
  BY DEF HighTerms
<1>3. High(n, R, d) = SumFunctionOnSet(f, S) /\ High(n, R, e) = SumFunctionOnSet(g, S)
  BY <1>2 DEF High, SumFunction
<1>4. IsFiniteSet(S) /\ k \in S
  BY FS_Interval
<1>5. \A i \in S : d[i] \in Nat /\ e[i] \in Nat
  BY DEF Counts, Further
<1>0. e[k] = d[k] + m /\ \A i \in S : i # k => e[i] = d[i]
  BY DEF Further
<1> HIDE DEF f, g, S, w
<1>6. \A i \in S : f[i] \in Nat /\ g[i] \in Nat
  BY <1>1, <1>2, <1>5
<1>7. g[k] = f[k] + m * w /\ f[k] \in Nat /\ m * w \in Nat
  <2>1. w \in Nat /\ f[k] = d[k] * w /\ g[k] = e[k] * w /\ d[k] \in Nat /\ e[k] = d[k] + m
    BY <1>0, <1>1, <1>2, <1>4, <1>5 DEF w
  <2> DEFINE a == d[k]
  <2>2. a \in Nat
    BY <2>1
  <2>3. (a + m) * w = a * w + m * w /\ a * w \in Nat /\ m * w \in Nat
    <3> HIDE DEF a
    <3> QED BY <2>1, <2>2
  <2> QED BY <2>1, <2>3
<1>8. \A i \in S : i # k => g[i] = f[i]
  BY <1>0, <1>2
<1>9. (\A i \in S : f[i] \in Nat) /\ SumFunctionOnSet(f, S) \in Nat
  BY <1>4, <1>6, SumAdds
<1>10. ASSUME NEW x \in S, \A i \in S : i # x => g[i] = f[i], NEW p \in Nat, g[x] = f[x] + p
      PROVE  SumFunctionOnSet(g, S) = SumFunctionOnSet(f, S) + p
  <2>1. IsFiniteSet(S)
    BY <1>4
  <2>2. \A i \in S : f[i] \in Nat
    BY <1>9
  <2> QED BY ONLY <1>10, <2>1, <2>2, SumPlus
<1>11. SumFunctionOnSet(g, S) = SumFunctionOnSet(f, S) + m * w
  BY <1>4, <1>7, <1>8, <1>10
<1> QED BY <1>3, <1>9, <1>11 DEF w

-------------------------------------------------------------------------------
(* The elements of a block, B[j] in dimension j from S[j] on, in the order *)
(* of the file; G are the sizes of all dimensions.                         *)

Boxed(n, G, S, B) ==
  /\ n \in Nat \ {0}
  /\ Radices(n, G)
  /\ \A j \in 0 .. n - 1 : S[j] \in Nat /\ B[j] \in Nat /\ S[j] + B[j] <= G[j]

InBox(n, S, B, c) == \A j \in 0 .. n - 1 : c[j] \in S[j] .. S[j] + B[j] - 1
Size(n, B) == HighWeight(n, B, 0)

\* How far into the block something is.
Inside(n, S, c) == [j \in 0 .. n - 1 |-> c[j] - S[j]]
Rank(n, S, B, c) == High(n, B, Inside(n, S, c))

\* The coordinates of element q of the block, and its place in the shared file.
At(n, S, B, q) == [j \in 0 .. n - 1 |-> S[j] + HighDigit(n, B, q, j)]
PlaceOf(n, G, S, B, q) == High(n, G, At(n, S, B, q))

\* A block that is not empty has something in every dimension.
LEMMA SizeRadices ==
  ASSUME NEW n \in Nat, NEW B, \A j \in 0 .. n - 1 : B[j] \in Nat
  PROVE  Size(n, B) \in Nat /\ (Size(n, B) # 0 <=> Radices(n, B))
<1> DEFINE T == 0 .. n - 1
<1>1. IsFiniteSet(T)
  BY FS_Interval
<1>2. \A j \in T : B[j] \in Nat
  OBVIOUS
<1> HIDE DEF T
<1>3. /\ ProductOnSet(B, T) \in Nat
      /\ ProductOnSet(B, T) # 0 <=> \A j \in T : B[j] # 0
  BY <1>1, <1>2, ProductPositive
<1>4. (\A j \in T : B[j] # 0) <=> (\A j \in T : B[j] \in Nat \ {0})
  BY <1>2
<1> QED BY <1>3, <1>4 DEF Size, HighWeight, Radices, T

\* The element with number q of a block is in the block.
LEMMA AtInBox ==
  ASSUME NEW n, NEW G, NEW S, NEW B, Boxed(n, G, S, B), Radices(n, B), NEW q \in Nat
  PROVE  /\ InBox(n, S, B, At(n, S, B, q))
         /\ \A j \in 0 .. n - 1 : Inside(n, S, At(n, S, B, q))[j] = HighDigit(n, B, q, j)
<1>1. ASSUME NEW j \in 0 .. n - 1
      PROVE  /\ At(n, S, B, q)[j] \in S[j] .. S[j] + B[j] - 1
             /\ Inside(n, S, At(n, S, B, q))[j] = HighDigit(n, B, q, j)
  <2> DEFINE g == HighDigit(n, B, q, j)
  <2>1. g \in 0 .. B[j] - 1
    BY DigitNat DEF Boxed
  <2>2. At(n, S, B, q)[j] = S[j] + g
    BY DEF At
  <2>3. Inside(n, S, At(n, S, B, q))[j] = At(n, S, B, q)[j] - S[j]
    BY DEF Inside
  <2>4. S[j] \in Nat /\ B[j] \in Nat
    BY DEF Boxed
  <2> HIDE DEF g
  <2>5. S[j] + g \in S[j] .. S[j] + B[j] - 1 /\ (S[j] + g) - S[j] = g
    BY <2>1, <2>4
  <2> QED BY <2>2, <2>3, <2>5 DEF g
<1> QED BY <1>1 DEF InBox

\* What is in the block has digits of both systems.
LEMMA BoxDigits ==
  ASSUME NEW n, NEW G, NEW S, NEW B, Boxed(n, G, S, B), NEW c, InBox(n, S, B, c)
  PROVE  Digits(n, G, c) /\ Digits(n, B, Inside(n, S, c))
<1>1. ASSUME NEW j \in 0 .. n - 1
      PROVE  c[j] \in 0 .. G[j] - 1 /\ Inside(n, S, c)[j] \in 0 .. B[j] - 1
  <2>1. /\ S[j] \in Nat /\ B[j] \in Nat /\ S[j] + B[j] <= G[j] /\ G[j] \in Nat
        /\ c[j] \in S[j] .. S[j] + B[j] - 1
    BY DEF Boxed, Radices, InBox
  <2>2. Inside(n, S, c)[j] = c[j] - S[j]
    BY DEF Inside
  <2> QED BY <2>1, <2>2
<1> QED BY <1>1 DEF Digits

\* The places of the elements have the order of the elements.
LEMMA PlacesGrow ==
  ASSUME NEW n, NEW G, NEW S, NEW B, Boxed(n, G, S, B), Radices(n, B),
         NEW p \in 0 .. Size(n, B) - 1, NEW q \in 0 .. Size(n, B) - 1, p < q
  PROVE  PlaceOf(n, G, S, B, p) < PlaceOf(n, G, S, B, q)
<1> DEFINE c == At(n, S, B, p)
           d == At(n, S, B, q)
           x == Inside(n, S, c)
           y == Inside(n, S, d)
<1>0. n \in Nat /\ Radices(n, G) /\ p \in Nat /\ q \in Nat
  BY DEF Boxed
<1>1. InBox(n, S, B, c) /\ InBox(n, S, B, d)
  BY <1>0, AtInBox
<1>2. Digits(n, G, c) /\ Digits(n, B, x) /\ Digits(n, G, d) /\ Digits(n, B, y)
  BY <1>1, BoxDigits
<1>3. High(n, B, x) = p /\ High(n, B, y) = q
  <2>1. \A j \in 0 .. n - 1 : x[j] = HighDigit(n, B, p, j) /\ y[j] = HighDigit(n, B, q, j)
    BY <1>0, AtInBox
  <2> HIDE DEF x, y
  <2> QED BY <1>0, <2>1, HighValue DEF Size
<1>4. \A j \in 0 .. n - 1 : /\ x[j] = c[j] - S[j] /\ y[j] = d[j] - S[j]
                            /\ c[j] \in Nat /\ d[j] \in Nat /\ S[j] \in Nat
  <2>1. \A j \in 0 .. n - 1 : x[j] = c[j] - S[j] /\ y[j] = d[j] - S[j]
    BY DEF Inside
  <2> HIDE DEF c, d, x, y
  <2> QED BY <1>2, <2>1 DEF Digits, Boxed, Radices
<1> HIDE DEF c, d, x, y
<1>5. First(n, x, y)
  BY <1>0, <1>2, <1>3, HighOrder
<1>6. First(n, c, d)
  <2>1. PICK i \in 0 .. n - 1 : x[i] < y[i] /\ \A j \in 0 .. i - 1 : x[j] = y[j]
    BY <1>5 DEF First
  <2>2. c[i] < d[i]
    BY <1>4, <2>1
  <2>3. \A j \in 0 .. i - 1 : c[j] = d[j]
    <3> TAKE j \in 0 .. i - 1
    <3>1. j \in 0 .. n - 1
      BY <1>0
    <3> QED BY <1>4, <2>1, <3>1
  <2> QED BY <2>2, <2>3 DEF First
<1>7. High(n, G, c) < High(n, G, d)
  BY <1>0, <1>2, <1>6, HighOrder
<1> QED BY <1>7 DEF PlaceOf, c, d

\* Whatever is in the block is one of its elements.
LEMMA RankIs ==
  ASSUME NEW n, NEW G, NEW S, NEW B, Boxed(n, G, S, B), Radices(n, B), NEW c, InBox(n, S, B, c)
  PROVE  /\ Rank(n, S, B, c) \in 0 .. Size(n, B) - 1
         /\ \A j \in 0 .. n - 1 : At(n, S, B, Rank(n, S, B, c))[j] = c[j]
<1> DEFINE x == Inside(n, S, c)
           q == High(n, B, x)
<1>0. n \in Nat
  BY DEF Boxed
<1>1. Digits(n, B, x)
  BY BoxDigits
<1> HIDE DEF x
<1>2. q \in 0 .. HighWeight(n, B, 0) - 1 /\ \A j \in 0 .. n - 1 : HighDigit(n, B, q, j) = x[j]
  BY <1>0, <1>1, HighDigits
<1> HIDE DEF q
<1>3. ASSUME NEW j \in 0 .. n - 1 PROVE At(n, S, B, q)[j] = c[j]
  <2>1. x[j] = c[j] - S[j]
    BY DEF x, Inside
  <2>2. S[j] \in Nat /\ B[j] \in Nat /\ c[j] \in S[j] .. S[j] + B[j] - 1
    BY DEF Boxed, InBox
  <2>3. At(n, S, B, q)[j] = S[j] + x[j]
    BY <1>2 DEF At
  <2> QED BY <2>1, <2>2, <2>3
<1> QED BY <1>2, <1>3 DEF q, x, Size, Rank

\* Coordinates that are the same have the same place.
LEMMA HighSame ==
  ASSUME NEW n \in Nat, NEW R, NEW c, NEW d, \A j \in 0 .. n - 1 : c[j] = d[j]
  PROVE  High(n, R, c) = High(n, R, d)
<1>1. HighTerms(n, R, c) = HighTerms(n, R, d)
  BY DEF HighTerms
<1> QED BY <1>1 DEF High

\* The places of the elements are those of all that is in the block.
LEMMA PlacesAre ==
  ASSUME NEW n, NEW G, NEW S, NEW B, Boxed(n, G, S, B), Radices(n, B)
  PROVE  \A e : (\E c : InBox(n, S, B, c) /\ e = High(n, G, c))
                <=> (\E q \in 0 .. Size(n, B) - 1 : e = PlaceOf(n, G, S, B, q))
<1> TAKE e
<1>1. ASSUME NEW c, InBox(n, S, B, c), e = High(n, G, c)
      PROVE  \E q \in 0 .. Size(n, B) - 1 : e = PlaceOf(n, G, S, B, q)
  <2> DEFINE q == Rank(n, S, B, c)
  <2>1. q \in 0 .. Size(n, B) - 1 /\ \A j \in 0 .. n - 1 : At(n, S, B, q)[j] = c[j]
    BY <1>1, RankIs
  <2> HIDE DEF q
  <2>2. High(n, G, At(n, S, B, q)) = High(n, G, c)
    BY <2>1, HighSame DEF Boxed
  <2> QED BY <1>1, <2>1, <2>2 DEF PlaceOf
<1>2. ASSUME NEW q \in 0 .. Size(n, B) - 1, e = PlaceOf(n, G, S, B, q)
      PROVE  \E c : InBox(n, S, B, c) /\ e = High(n, G, c)
  <2>1. q \in Nat
    OBVIOUS
  <2> QED BY <1>2, <2>1, AtInBox DEF PlaceOf
<1> QED BY <1>1, <1>2

\* From here on.
FromBox(n, S, c) == \A j \in 0 .. n - 1 : c[j] \in Nat /\ S[j] \in Nat /\ S[j] <= c[j]

\* What is further in one dimension is later in the block.
LEMMA RankPlus ==
  ASSUME NEW n \in Nat, NEW S, NEW B, Radices(n, B), NEW c, NEW d, FromBox(n, S, c),
         NEW k \in 0 .. n - 1, NEW m \in Nat, Further(n, c, d, k, m)
  PROVE  /\ Rank(n, S, B, c) \in Nat
         /\ Rank(n, S, B, d) = Rank(n, S, B, c) + m * HighWeight(n, B, k + 1)
<1> DEFINE x == Inside(n, S, c)
           y == Inside(n, S, d)
<1>1. \A j \in 0 .. n - 1 : x[j] = c[j] - S[j] /\ y[j] = d[j] - S[j]
  BY DEF Inside
<1> HIDE DEF x, y
<1>2. \A j \in 0 .. n - 1 : c[j] \in Nat /\ S[j] \in Nat /\ S[j] <= c[j]
  BY DEF FromBox
<1>3. Counts(n, x)
  BY <1>1, <1>2 DEF Counts
<1>4. d[k] = c[k] + m /\ \A j \in 0 .. n - 1 : j # k => d[j] = c[j]
  BY DEF Further
<1>5. Further(n, x, y, k, m)
  BY <1>1, <1>2, <1>4 DEF Further
<1>6. High(n, B, x) \in Nat /\ High(n, B, y) = High(n, B, x) + m * HighWeight(n, B, k + 1)
  BY <1>3, <1>5, HighPlus
<1> QED BY <1>6 DEF Rank, x, y

\* The weights of the last dimension and behind it.
LEMMA LastWeights ==
  ASSUME NEW n \in Nat \ {0}, NEW R, Radices(n, R)
  PROVE  /\ HighWeight(n, R, n) = 1 /\ HighWeight(n, R, n - 1) = R[n - 1]
         /\ R[n - 1] \in Nat \ {0}
<1>1. /\ HighWeight(n, R, n) = 1
      /\ \A j \in 0 .. n - 1 : HighWeight(n, R, j) = R[j] * HighWeight(n, R, j + 1)
  BY HighWeightsAre
<1>2. n - 1 \in 0 .. n - 1 /\ n - 1 + 1 = n
  OBVIOUS
<1>3. R[n - 1] \in Nat \ {0}
  BY <1>2 DEF Radices
<1>4. HighWeight(n, R, n - 1) = R[n - 1] * HighWeight(n, R, n)
  <2> DEFINE k == n - 1
  <2>1. k \in 0 .. n - 1 /\ k + 1 = n
    BY <1>2
  <2> HIDE DEF k
  <2>2. HighWeight(n, R, k) = R[k] * HighWeight(n, R, k + 1)
    BY <1>1, <2>1
  <2> QED BY <2>1, <2>2 DEF k
<1> QED BY <1>1, <1>3, <1>4

\* The elements of a row follow each other.
LEMMA RowPlaces ==
  ASSUME NEW n, NEW G, NEW S, NEW B, Boxed(n, G, S, B), Radices(n, B),
         NEW k \in Nat, NEW m \in 0 .. B[n - 1] - 1, k * B[n - 1] < Size(n, B)
  PROVE  /\ k * B[n - 1] \in Nat
         /\ PlaceOf(n, G, S, B, k * B[n - 1]) \in Nat
         /\ PlaceOf(n, G, S, B, k * B[n - 1] + m) = PlaceOf(n, G, S, B, k * B[n - 1]) + m
<1> DEFINE b == B[n - 1]
           q == k * b
           c == At(n, S, B, q)
           d == [c EXCEPT ![n - 1] = @ + m]
           last == n - 1
<1>0. n \in Nat \ {0} /\ Radices(n, G) /\ n - 1 + 1 = n /\ n - 1 \in 0 .. n - 1
  BY DEF Boxed
<1>1. b \in Nat \ {0} /\ HighWeight(n, B, n) = 1 /\ HighWeight(n, G, n) = 1
  BY <1>0, LastWeights
<1>2. q \in Nat /\ m \in Nat
  <2> HIDE DEF b
  <2> QED BY <1>1
<1>3. InBox(n, S, B, c)
  <2> HIDE DEF q
  <2> QED BY <1>2, AtInBox
<1>4. c[last] = S[last]
  <2>1. HighDigit(n, B, q, last) = (q \div 1) % b
    BY <1>0, <1>1 DEF HighDigit
  <2>2. q \div 1 = q
    <3> HIDE DEF q
    <3> QED BY <1>2
  <2>3. q % b = 0
    <3> HIDE DEF b
    <3>1. b * k + 0 = q /\ 0 \in 0 .. b - 1
      BY <1>1
    <3>2. (b * k + 0) % b = 0
      BY <1>1, <3>1, DivModIs
    <3> HIDE DEF q
    <3> QED BY <3>1, <3>2
  <2>4. c[last] = S[last] + 0 /\ S[last] \in Nat
    <3> HIDE DEF q, b
    <3>1. c[last] = S[last] + HighDigit(n, B, q, last)
      BY <1>0 DEF At
    <3>2. S[last] \in Nat
      BY <1>0 DEF Boxed
    <3> QED BY <2>1, <2>2, <2>3, <3>1, <3>2
  <2> QED BY <2>4
<1>5. d[last] = c[last] + m /\ (\A j \in 0 .. n - 1 : j # last => d[j] = c[j])
  <2>1. DOMAIN c = 0 .. n - 1
    BY DEF At
  <2> HIDE DEF c
  <2> QED BY <1>0, <2>1
<1> HIDE DEF d, c
<1>13. Further(n, c, d, last, m)
  BY <1>5 DEF Further
<1>6. InBox(n, S, B, d)
  <2>1. \A j \in 0 .. n - 1 : j # last => d[j] \in S[j] .. S[j] + B[j] - 1
    BY <1>3, <1>5 DEF InBox
  <2>2. d[last] \in S[last] .. S[last] + B[last] - 1
    <3>1. S[last] \in Nat
      BY <1>0 DEF Boxed
    <3>2. d[last] = S[last] + m
      BY <1>4, <1>5
    <3> QED BY <1>1, <3>1, <3>2
  <2> QED BY <2>1, <2>2 DEF InBox
<1>7. FromBox(n, S, c)
  <2>1. ASSUME NEW j \in 0 .. n - 1 PROVE c[j] \in Nat /\ S[j] \in Nat /\ S[j] <= c[j]
    <3>1. S[j] \in Nat /\ B[j] \in Nat /\ c[j] \in S[j] .. S[j] + B[j] - 1
      BY <1>3 DEF InBox, Boxed
    <3> QED BY <3>1
  <2> QED BY <2>1 DEF FromBox
<1>8. Rank(n, S, B, c) = q
  <2>1. \A j \in 0 .. n - 1 : Inside(n, S, c)[j] = HighDigit(n, B, q, j)
    <3> HIDE DEF q
    <3> QED BY <1>2, AtInBox DEF c
  <2>2. q \in 0 .. HighWeight(n, B, 0) - 1
    <3>1. q < Size(n, B) /\ Size(n, B) \in Nat
      BY <1>0, SizeRadices DEF Boxed
    <3> HIDE DEF q
    <3> QED BY <1>2, <3>1 DEF Size
  <2> HIDE DEF q
  <2> QED BY <1>0, <2>1, <2>2, HighValue DEF Rank
<1>9. Rank(n, S, B, d) = q + m
  <2>3. n \in Nat /\ last \in 0 .. n - 1 /\ m \in Nat
    BY <1>0, <1>2
  <2> HIDE DEF q, b, last
  <2>1. Rank(n, S, B, d) = Rank(n, S, B, c) + m * HighWeight(n, B, last + 1)
    BY ONLY <2>3, Radices(n, B), <1>13, <1>7, RankPlus
  <2>2. m * 1 = m
    BY <1>2
  <2> QED BY <1>0, <1>1, <1>8, <2>1, <2>2 DEF last
<1>10. PlaceOf(n, G, S, B, q + m) = High(n, G, d)
  <2>1. \A j \in 0 .. n - 1 : At(n, S, B, q + m)[j] = d[j]
    BY <1>6, <1>9, RankIs
  <2> QED BY <1>0, <2>1, HighSame DEF PlaceOf
<1>11. High(n, G, c) \in Nat /\ High(n, G, d) = High(n, G, c) + m
  <2>1. Counts(n, c)
    BY <1>7 DEF FromBox, Counts
  <2>2. High(n, G, c) \in Nat /\ High(n, G, d) = High(n, G, c) + m * HighWeight(n, G, last + 1)
    <3> HIDE DEF q, b
    <3> QED BY <1>0, <1>2, <1>13, <2>1, HighPlus
  <2>3. m * 1 = m
    BY <1>2
  <2> QED BY <1>0, <1>1, <2>2, <2>3
<1>12. PlaceOf(n, G, S, B, q) = High(n, G, c)
  BY DEF PlaceOf, c
<1> QED BY <1>2, <1>10, <1>11, <1>12

\* To go on in the dimension before the last is to go on by a row.
LEMMA RankRow ==
  ASSUME NEW n \in Nat \ {0}, NEW S, NEW B, Radices(n, B), NEW c, NEW d, FromBox(n, S, c),
         n > 1, Further(n, c, d, n - 2, 1)
  PROVE  Rank(n, S, B, d) = Rank(n, S, B, c) + B[n - 1]
<1> DEFINE k == n - 2
<1>1. k \in 0 .. n - 1 /\ k + 1 = n - 1
  OBVIOUS
<1>2. HighWeight(n, B, k + 1) = B[n - 1] /\ B[n - 1] \in Nat
  BY <1>1, LastWeights
<1> HIDE DEF k
<1>3. Further(n, c, d, k, 1)
  BY DEF k
<1>4. Rank(n, S, B, d) = Rank(n, S, B, c) + 1 * HighWeight(n, B, k + 1)
  BY <1>1, <1>3, RankPlus
<1> QED BY <1>2, <1>4

\* To carry is to stay.
LEMMA RankCarry ==
  ASSUME NEW n \in Nat, NEW S, NEW B, Radices(n, B), NEW c, NEW d, FromBox(n, S, c),
         NEW k \in 1 .. n - 1, c[k] = S[k] + B[k], d[k] = S[k], d[k - 1] = c[k - 1] + 1,
         \A j \in 0 .. n - 1 : j # k /\ j # k - 1 => d[j] = c[j]
  PROVE  Rank(n, S, B, d) = Rank(n, S, B, c)
<1> DEFINE e == [j \in 0 .. n - 1 |-> IF j = k THEN S[k] ELSE c[j]]
           i == k - 1
<1>0. i \in 0 .. n - 1 /\ i + 1 = k /\ k \in 0 .. n - 1 /\ i # k
  OBVIOUS
<1>1. e[k] = S[k] /\ e[i] = c[i] /\ \A j \in 0 .. n - 1 : j # k => e[j] = c[j]
  BY <1>0
<1>2. d[i] = c[i] + 1 /\ \A j \in 0 .. n - 1 : j # k /\ j # i => d[j] = c[j]
  OBVIOUS
<1> HIDE DEF e, i
<1>3. FromBox(n, S, e)
  BY <1>1 DEF FromBox
<1>4. B[k] \in Nat /\ S[k] \in Nat
  BY <1>0 DEF Radices, FromBox
<1>5. Rank(n, S, B, c) = Rank(n, S, B, e) + B[k] * HighWeight(n, B, k + 1)
  <2>1. Further(n, e, c, k, B[k])
    BY <1>1 DEF Further
  <2> QED BY <1>0, <1>3, <1>4, <2>1, RankPlus
<1>6. Rank(n, S, B, d) = Rank(n, S, B, e) + 1 * HighWeight(n, B, i + 1)
  <2>1. Further(n, e, d, i, 1)
    BY <1>1, <1>2 DEF Further
  <2> QED BY <1>0, <1>3, <2>1, RankPlus
<1>7. HighWeight(n, B, k) = B[k] * HighWeight(n, B, k + 1) /\ HighWeight(n, B, k) \in Nat
  BY <1>0, HighWeightsAre
<1> QED BY <1>0, <1>5, <1>6, <1>7

\* Where the first dimension ends the block does.
LEMMA RankEnd ==
  ASSUME NEW n \in Nat \ {0}, NEW S, NEW B, Radices(n, B), NEW c, FromBox(n, S, c),
         c[0] = S[0] + B[0]
  PROVE  Size(n, B) <= Rank(n, S, B, c)
<1> DEFINE e == [j \in 0 .. n - 1 |-> IF j = 0 THEN S[0] ELSE c[j]]
<1>0. 0 \in 0 .. n - 1
  OBVIOUS
<1>1. e[0] = S[0] /\ \A j \in 0 .. n - 1 : j # 0 => e[j] = c[j]
  BY <1>0
<1> HIDE DEF e
<1>2. FromBox(n, S, e)
  BY <1>1 DEF FromBox
<1>3. B[0] \in Nat
  BY <1>0 DEF Radices
<1>4. Rank(n, S, B, e) \in Nat /\ Rank(n, S, B, c) = Rank(n, S, B, e) + B[0] * HighWeight(n, B, 0 + 1)
  <2> DEFINE k == 0
             m == B[0]
  <2>1. Further(n, e, c, k, m)
    BY <1>1 DEF Further
  <2>2. n \in Nat /\ k \in 0 .. n - 1 /\ m \in Nat
    BY <1>0, <1>3
  <2> HIDE DEF k, m
  <2>3. Rank(n, S, B, e) \in Nat /\ Rank(n, S, B, c) = Rank(n, S, B, e) + m * HighWeight(n, B, k + 1)
    BY ONLY Radices(n, B), <1>2, <2>1, <2>2, RankPlus
  <2> QED BY <2>3 DEF k, m
<1>5. HighWeight(n, B, 0) = B[0] * HighWeight(n, B, 0 + 1) /\ HighWeight(n, B, 0) \in Nat
  BY <1>0, HighWeightsAre
<1> QED BY <1>4, <1>5 DEF Size

-------------------------------------------------------------------------------
(* The block of a task.                                                    *)

\* The products of the model are those that lemmas are about.
LEMMA Products == \A f, S : Product(f, S) = ProductOnSet(f, S)
BY DEF Product, ProductOnSet

\* What the operators of the model are, for any dataset c and task t.
Side(c, i) == CeilDiv(c.g_dim_sizes[i], c.g_dim_divs[i])
StartOf(c, t, i) == LowDigit(c.g_dim_divs, t, i) * Side(c, i)
SizeOf(c, t, i) ==
  LET distance == c.g_dim_sizes[i] - StartOf(c, t, i) IN
  (IF distance < Side(c, i) THEN distance ELSE Side(c, i)) % UIntMod
Starts(c, t) == [i \in Dims(c) |-> StartOf(c, t, i)]
Sizes(c, t) == [i \in Dims(c) |-> SizeOf(c, t, i)]
TooLarge(c, t) == \E i \in Dims(c) : SizeOf(c, t, i) > Side(c, i)
CoordIn(c, e) == [j \in Dims(c) |-> HighDigit(c.num_dims, c.g_dim_sizes, e, j)]
OwnerIn(c, e) == Low(c.num_dims, c.g_dim_divs, [j \in Dims(c) |-> CoordIn(c, e)[j] \div Side(c, j)])
Elements(c) == 0 .. HighWeight(c.num_dims, c.g_dim_sizes, 0) - 1
Owned(c, t) == {e \in Elements(c) : OwnerIn(c, e) = t}

\* What the validation lets pass, in these terms.
LEMMA CartFacts ==
  ASSUME NEW c \in Carts
  PROVE  /\ c.num_dims \in Nat \ {0} /\ Dims(c) = 0 .. c.num_dims - 1
         /\ Radices(c.num_dims, c.g_dim_sizes) /\ Radices(c.num_dims, c.g_dim_divs)
         /\ \A i \in Dims(c) : /\ c.g_dim_sizes[i] \in Nat \ {0}
                               /\ c.g_dim_divs[i] \in Nat \ {0}
                               /\ c.g_dim_divs[i] <= c.g_dim_sizes[i]
                               /\ c.g_dim_sizes[i] < UIntMod \div 2
         /\ Tasks(c) = 0 .. LowWeight(c.g_dim_divs, c.num_dims) - 1
         /\ UIntMod \in Nat \ {0} /\ ProductOnSet(Whole(c), Dims(c)) < UIntMod
<1>1. CartValid(c) /\ UIntMod \in Nat \ {0}
  BY CartDsetAssumption
<1>2. c.num_dims \in Nat \ {0} /\ Dims(c) = 0 .. c.num_dims - 1
  BY <1>1 DEF CartValid, Dims
<1>3. \A i \in Dims(c) : /\ c.g_dim_sizes[i] \in 1 .. UIntMod \div 2 - 1
                         /\ c.g_dim_divs[i] \in Nat \ {0}
                         /\ c.g_dim_divs[i] <= c.g_dim_sizes[i]
  BY <1>1 DEF CartValid
<1>4. UIntMod \div 2 \in Nat
  BY <1>1
<1>5. \A i \in Dims(c) : /\ c.g_dim_sizes[i] \in Nat \ {0}
                         /\ c.g_dim_sizes[i] < UIntMod \div 2
  BY <1>3, <1>4
<1>6. Radices(c.num_dims, c.g_dim_sizes) /\ Radices(c.num_dims, c.g_dim_divs)
  BY <1>2, <1>3, <1>5 DEF Radices
<1>7. Tasks(c) = 0 .. LowWeight(c.g_dim_divs, c.num_dims) - 1
  BY <1>2, Products DEF Tasks, LowWeight
<1>8. ProductOnSet(Whole(c), Dims(c)) < UIntMod
  BY <1>1, Products DEF CartValid
<1> QED BY <1>1, <1>2, <1>3, <1>5, <1>6, <1>7, <1>8

\* A quotient that is rounded up.
LEMMA CeilDivIs ==
  ASSUME NEW a \in Nat \ {0}, NEW b \in Nat \ {0}
  PROVE  CeilDiv(a, b) \in Nat \ {0} /\ CeilDiv(a, b) * b \in a .. a + b - 1
<1> DEFINE x == a + b - 1
           q == x \div b
<1>1. x \in Nat /\ x >= b
  OBVIOUS
<1> HIDE DEF x
<1>2. q \in Nat /\ x % b \in 0 .. b - 1 /\ x = b * q + (x % b)
  BY <1>1, DivMod
<1>3. q # 0
  <2> SUFFICES ASSUME q = 0 PROVE FALSE
    OBVIOUS
  <2> HIDE DEF q
  <2>1. b * q = 0
    OBVIOUS
  <2> QED BY <1>1, <1>2, <2>1
<1>4. q * b \in Int /\ q * b <= x /\ x <= q * b + b - 1
  <2> DEFINE r == x % b
  <2> HIDE DEF q, r
  <2>1. q * b = b * q /\ q * b \in Nat
    BY <1>2
  <2> QED BY <1>1, <1>2, <2>1 DEF r
<1> QED BY <1>2, <1>3, <1>4 DEF CeilDiv, x

\* A quotient is g just where it is counted from g times the divisor on.
LEMMA QuotientIs ==
  ASSUME NEW x \in Nat, NEW m \in Nat \ {0}, NEW g \in Nat
  PROVE  g * m \in Nat /\ (x \div m = g <=> x \in g * m .. g * m + m - 1)
<1> DEFINE q == x \div m
           r == x % m
           p == m * q
           s == m * g
<1>1. q \in Nat /\ r \in 0 .. m - 1 /\ x = p + r
  BY DivMod
<1>2. g * m = s /\ s \in Nat /\ p \in Nat
  <2> HIDE DEF q
  <2> QED BY <1>1
<1>3. q = g => s = p
  OBVIOUS
<1>4. q < g => p + m <= s
  <2> HIDE DEF q
  <2> SUFFICES ASSUME q < g PROVE p + m <= s
    OBVIOUS
  <2> DEFINE d == g - q - 1
  <2>1. d \in Nat /\ g = q + 1 + d
    BY <1>1
  <2> HIDE DEF d
  <2>2. m * g = m * q + m + m * d /\ m * d \in Nat
    BY <1>1, <2>1
  <2> QED BY <1>2, <2>2
<1>5. g < q => s + m <= p
  <2> HIDE DEF q
  <2> SUFFICES ASSUME g < q PROVE s + m <= p
    OBVIOUS
  <2> DEFINE d == q - g - 1
  <2>1. d \in Nat /\ q = g + 1 + d
    BY <1>1
  <2> HIDE DEF d
  <2>2. m * q = m * g + m + m * d /\ m * d \in Nat
    BY <1>1, <2>1
  <2> QED BY <1>2, <2>2
<1> HIDE DEF q, r, p, s
<1>6. q = g <=> x \in s .. s + m - 1
  BY <1>1, <1>2, <1>3, <1>4, <1>5
<1> QED BY <1>2, <1>6 DEF q

\* A block is cut at the end, or it starts behind it and is too large.
LEMMA SizeFacts ==
  ASSUME NEW c \in Carts, NEW t \in Tasks(c), NEW i \in Dims(c)
  PROVE  /\ StartOf(c, t, i) \in Nat /\ SizeOf(c, t, i) \in Nat /\ Side(c, i) \in Nat \ {0}
         /\ SizeOf(c, t, i) > Side(c, i) <=> StartOf(c, t, i) > c.g_dim_sizes[i]
         /\ SizeOf(c, t, i) <= Side(c, i) =>
              LET distance == c.g_dim_sizes[i] - StartOf(c, t, i) IN
              SizeOf(c, t, i) = IF distance < Side(c, i) THEN distance ELSE Side(c, i)
<1> DEFINE G == c.g_dim_sizes[i]
           V == c.g_dim_divs[i]
           M == Side(c, i)
           g == LowDigit(c.g_dim_divs, t, i)
           S == StartOf(c, t, i)
           d == G - S
           x == IF d < M THEN d ELSE M
           H == UIntMod \div 2
<1>1. G \in Nat \ {0} /\ V \in Nat \ {0} /\ V <= G /\ G < H
  BY CartFacts
<1>2. M \in Nat \ {0} /\ M * V <= G + V - 1
  <2>1. M \in Nat \ {0} /\ M * V \in G .. G + V - 1
    BY <1>1, CeilDivIs DEF Side
  <2> QED BY <1>1, <2>1
<1>3. g \in 0 .. V - 1
  <2>1. t \in Nat /\ i \in 0 .. c.num_dims - 1 /\ c.num_dims \in Nat /\ Radices(c.num_dims, c.g_dim_divs)
    <3>1. t \in 0 .. LowWeight(c.g_dim_divs, c.num_dims) - 1
      BY CartFacts
    <3>2. t \in Nat
      BY <3>1
    <3> QED BY <3>2, CartFacts
  <2> QED BY <2>1, DigitNat
<1>4. UIntMod \in Nat \ {0} /\ H \in Nat /\ H + H <= UIntMod
  BY CartDsetAssumption
<1>5. S = g * M /\ SizeOf(c, t, i) = x % UIntMod
  BY DEF StartOf, SizeOf
<1> HIDE DEF G, V, M, g, S, H
<1>6. S \in Nat /\ S + M <= G + V - 1
  <2> DEFINE h == V - 1 - g
  <2>1. h \in Nat /\ V = g + h + 1 /\ g \in Nat
    BY <1>1, <1>3
  <2> HIDE DEF h
  <2>2. M * V = g * M + h * M + M /\ h * M \in Nat /\ g * M \in Nat
    BY <1>2, <2>1
  <2> QED BY <1>1, <1>2, <1>5, <2>2
<1>7. M <= G
  <2> DEFINE v == V - 1
  <2>1. v \in Nat /\ V = v + 1
    BY <1>1
  <2> HIDE DEF v
  <2>2. M * V = M * v + M
    BY <1>2, <2>1
  <2>3. M * v >= v
    <3> DEFINE u == M - 1
    <3>1. u \in Nat /\ M = u + 1
      BY <1>2
    <3> HIDE DEF u
    <3>2. M * v = u * v + v /\ u * v \in Nat
      BY <2>1, <3>1
    <3> QED BY <2>1, <3>2
  <2>4. M * v \in Nat
    BY <1>2, <2>1
  <2> QED BY <1>1, <1>2, <2>1, <2>2, <2>3, <2>4
<1>8. x \in Int /\ -H < x /\ x <= M /\ M < H /\ (x < 0 <=> S > G) /\ (x < M => x = d)
  <2>1. d \in Int /\ -H < d /\ (d < 0 <=> S > G) /\ M < H /\ H \in Nat
    BY <1>1, <1>2, <1>4, <1>6, <1>7
  <2> HIDE DEF d
  <2> QED BY <1>2, <2>1
<1>9. CASE x < 0
  <2>1. x + UIntMod \in 0 .. UIntMod - 1
    BY <1>4, <1>8, <1>9
  <2>2. x % UIntMod = x + UIntMod
    <3> HIDE DEF x
    <3> QED BY <1>4, <1>8, <1>9, <2>1
  <2>3. x + UIntMod > M
    BY <1>2, <1>4, <1>8
  <2> HIDE DEF x
  <2> QED BY <1>2, <1>4, <1>5, <1>6, <1>8, <1>9, <2>1, <2>2, <2>3 DEF G, M, S
<1>10. CASE x >= 0
  <2>1. x % UIntMod = x
    <3> HIDE DEF x
    <3> QED BY <1>2, <1>4, <1>8, <1>10
  <2> QED BY <1>2, <1>5, <1>6, <1>8, <1>10, <2>1 DEF G, M, S
<1> QED BY <1>8, <1>9, <1>10

\* The block of a task is within the dataset, but for those that are too large.
LEMMA Blocks ==
  ASSUME NEW c \in Carts, NEW t \in Tasks(c)
  PROVE  /\ t \in 0 .. LowWeight(c.g_dim_divs, c.num_dims) - 1
         /\ \A j \in Dims(c) : Starts(c, t)[j] = StartOf(c, t, j) /\ Sizes(c, t)[j] = SizeOf(c, t, j)
         /\ \A j \in Dims(c) : /\ StartOf(c, t, j) \in Nat
                               /\ SizeOf(c, t, j) \in Nat
                               /\ Side(c, j) \in Nat \ {0}
         /\ ~TooLarge(c, t) => /\ Boxed(c.num_dims, c.g_dim_sizes, Starts(c, t), Sizes(c, t))
                               /\ \A j \in Dims(c) : SizeOf(c, t, j) <= Side(c, j)
<1>1. ASSUME NEW j \in Dims(c)
      PROVE  /\ StartOf(c, t, j) \in Nat /\ SizeOf(c, t, j) \in Nat /\ Side(c, j) \in Nat \ {0}
             /\ ~TooLarge(c, t) => /\ SizeOf(c, t, j) <= Side(c, j)
                                   /\ StartOf(c, t, j) + SizeOf(c, t, j) <= c.g_dim_sizes[j]
  <2>1. /\ StartOf(c, t, j) \in Nat /\ SizeOf(c, t, j) \in Nat /\ Side(c, j) \in Nat \ {0}
        /\ c.g_dim_sizes[j] \in Nat
    BY SizeFacts, CartFacts
  <2>2. ASSUME ~TooLarge(c, t) PROVE SizeOf(c, t, j) <= Side(c, j)
    BY <2>1, <2>2 DEF TooLarge
  <2>3. ASSUME SizeOf(c, t, j) <= Side(c, j)
        PROVE  StartOf(c, t, j) + SizeOf(c, t, j) <= c.g_dim_sizes[j]
    <3>1. SizeOf(c, t, j) = IF c.g_dim_sizes[j] - StartOf(c, t, j) < Side(c, j)
                            THEN c.g_dim_sizes[j] - StartOf(c, t, j) ELSE Side(c, j)
      BY <2>3, SizeFacts
    <3> DEFINE x == SizeOf(c, t, j)
               s == StartOf(c, t, j)
               m == Side(c, j)
    <3> HIDE DEF x, s, m
    <3>2. s + x <= c.g_dim_sizes[j]
      BY <2>1, <3>1 DEF x, s, m
    <3> QED BY <3>2 DEF x, s
  <2> QED BY <2>1, <2>2, <2>3
<1>2. \A j \in Dims(c) : Starts(c, t)[j] = StartOf(c, t, j) /\ Sizes(c, t)[j] = SizeOf(c, t, j)
  BY DEF Starts, Sizes
<1>3. ~TooLarge(c, t) => Boxed(c.num_dims, c.g_dim_sizes, Starts(c, t), Sizes(c, t))
  BY <1>1, <1>2, CartFacts DEF Boxed
<1>4. t \in 0 .. LowWeight(c.g_dim_divs, c.num_dims) - 1
  BY CartFacts
<1> QED BY <1>1, <1>2, <1>3, <1>4

\* Coordinates of a block, before it is cut.
InSides(c, t, x) == \A j \in Dims(c) : x[j] \in StartOf(c, t, j) .. StartOf(c, t, j) + Side(c, j) - 1

\* An element is of the task in whose block it is.
LEMMA OwnerIs ==
  ASSUME NEW c \in Carts, NEW t \in Tasks(c), NEW e \in Elements(c)
  PROVE  /\ \A j \in Dims(c) : CoordIn(c, e)[j] \in 0 .. c.g_dim_sizes[j] - 1
         /\ OwnerIn(c, e) = t <=> InSides(c, t, CoordIn(c, e))
<1> DEFINE n == c.num_dims
           V == c.g_dim_divs
           x == CoordIn(c, e)
           y == [j \in Dims(c) |-> x[j] \div Side(c, j)]
<1>1. /\ n \in Nat \ {0} /\ Dims(c) = 0 .. n - 1 /\ Radices(n, V) /\ Radices(n, c.g_dim_sizes)
      /\ t \in 0 .. LowWeight(V, n) - 1 /\ e \in Nat
  BY CartFacts, Blocks DEF Elements
<1>2. \A j \in Dims(c) : x[j] \in 0 .. c.g_dim_sizes[j] - 1
  BY <1>1, DigitNat DEF CoordIn
<1>3. \A j \in Dims(c) : y[j] = x[j] \div Side(c, j)
  OBVIOUS
<1>4. OwnerIn(c, e) = Low(n, V, y)
  BY DEF OwnerIn
<1> HIDE DEF x, y, n, V
<1>5. ASSUME NEW j \in Dims(c)
      PROVE  /\ y[j] \in 0 .. V[j] - 1
             /\ y[j] = LowDigit(V, t, j) <=> x[j] \in StartOf(c, t, j) .. StartOf(c, t, j) + Side(c, j) - 1
  <2> DEFINE m == Side(c, j)
             v == V[j]
             g == c.g_dim_sizes[j]
             h == LowDigit(V, t, j)
             z == x[j]
  <2>1. m \in Nat \ {0} /\ v \in Nat \ {0} /\ g \in Nat \ {0} /\ m * v \in g .. g + v - 1
    BY CartFacts, CeilDivIs DEF Side, V
  <2>2. z \in 0 .. g - 1
    BY <1>2
  <2>3. h \in Nat
    <3>1. t \in Nat
      BY <1>1
    <3>2. h \in 0 .. V[j] - 1
      BY <1>1, <3>1, DigitNat
    <3> QED BY <2>1, <3>2
  <2>4. StartOf(c, t, j) = h * m
    BY DEF StartOf, V
  <2> HIDE DEF m, v, g, h, z
  <2>5. z \in Nat
    BY <2>1, <2>2
  <2>6. z \div m = h <=> z \in h * m .. h * m + m - 1
    BY <2>1, <2>3, <2>5, QuotientIs
  <2>7. z \div m \in 0 .. v - 1
    <3> DEFINE q == z \div m
    <3>1. q \in Nat /\ z >= m * q
      BY <2>1, <2>5, DivMod
    <3> HIDE DEF q
    <3>2. q < v
      <4> SUFFICES ASSUME q >= v PROVE FALSE
        BY <2>1, <3>1
      <4> DEFINE d == q - v
      <4>1. d \in Nat /\ q = v + d
        BY <2>1, <3>1
      <4> HIDE DEF d
      <4>2. m * q = m * v + m * d /\ m * d \in Nat
        BY <2>1, <4>1
      <4> QED BY <2>1, <2>2, <3>1, <4>2
    <3> QED BY <2>1, <3>1, <3>2 DEF q
  <2>8. y[j] = z \div m
    BY <1>3 DEF z, m
  <2> QED BY <2>4, <2>6, <2>7, <2>8 DEF m, v, h, z
<1>6. Digits(n, V, y)
  BY <1>1, <1>5 DEF Digits
<1>7. ASSUME Low(n, V, y) = t PROVE \A j \in Dims(c) : y[j] = LowDigit(V, t, j)
  BY <1>1, <1>6, <1>7, LowDigits
<1>8. ASSUME \A j \in Dims(c) : y[j] = LowDigit(V, t, j) PROVE Low(n, V, y) = t
  BY <1>1, <1>8, LowValue
<1>9. (\A j \in Dims(c) : y[j] = LowDigit(V, t, j)) <=> InSides(c, t, x)
  BY <1>5 DEF InSides
<1> QED BY <1>2, <1>4, <1>7, <1>8, <1>9 DEF x

\* A block that starts behind the end has none.
LEMMA OwnedNone ==
  ASSUME NEW c \in Carts, NEW t \in Tasks(c), TooLarge(c, t)
  PROVE  Owned(c, t) = {}
<1> SUFFICES ASSUME NEW e \in Elements(c), OwnerIn(c, e) = t PROVE FALSE
  BY DEF Owned
<1>1. PICK j \in Dims(c) : SizeOf(c, t, j) > Side(c, j)
  BY DEF TooLarge
<1>2. StartOf(c, t, j) \in Nat /\ StartOf(c, t, j) > c.g_dim_sizes[j] /\ Side(c, j) \in Nat
  BY <1>1, SizeFacts
<1>3. c.g_dim_sizes[j] \in Nat
  BY CartFacts
<1>4. CoordIn(c, e)[j] \in 0 .. c.g_dim_sizes[j] - 1
  BY OwnerIs
<1>5. InSides(c, t, CoordIn(c, e))
  BY OwnerIs
<1>6. CoordIn(c, e)[j] \in StartOf(c, t, j) .. StartOf(c, t, j) + Side(c, j) - 1
  BY <1>5 DEF InSides
<1> QED BY <1>2, <1>3, <1>4, <1>6

\* A block that starts before has those that are in it.
LEMMA OwnedAre ==
  ASSUME NEW c \in Carts, NEW t \in Tasks(c), ~TooLarge(c, t)
  PROVE  \A e : e \in Owned(c, t) <=>
           \E x : /\ InBox(c.num_dims, Starts(c, t), Sizes(c, t), x)
                  /\ e = High(c.num_dims, c.g_dim_sizes, x)
<1> DEFINE n == c.num_dims
           G == c.g_dim_sizes
           S == Starts(c, t)
           B == Sizes(c, t)
<1>0. /\ n \in Nat \ {0} /\ Dims(c) = 0 .. n - 1 /\ Radices(n, G) /\ Boxed(n, G, S, B)
      /\ \A j \in Dims(c) : /\ S[j] = StartOf(c, t, j) /\ B[j] = SizeOf(c, t, j)
                            /\ S[j] \in Nat /\ B[j] \in Nat /\ Side(c, j) \in Nat
                            /\ B[j] <= Side(c, j) /\ G[j] \in Nat
  BY CartFacts, Blocks
<1>1. ASSUME NEW e \in Elements(c), OwnerIn(c, e) = t
      PROVE  InBox(n, S, B, CoordIn(c, e)) /\ e = High(n, G, CoordIn(c, e))
  <2> DEFINE x == CoordIn(c, e)
  <2>1. \A j \in Dims(c) : x[j] = HighDigit(n, G, e, j)
    BY DEF CoordIn
  <2>2. \A j \in Dims(c) : x[j] \in 0 .. G[j] - 1
    BY OwnerIs
  <2>3. InSides(c, t, x)
    BY <1>1, OwnerIs
  <2> HIDE DEF x, n, G, S, B
  <2>4. High(n, G, x) = e
    <3>1. e \in 0 .. HighWeight(n, G, 0) - 1
      BY DEF Elements, n, G
    <3>2. n \in Nat /\ \A j \in 0 .. n - 1 : x[j] = HighDigit(n, G, e, j)
      BY <1>0, <2>1
    <3> QED BY <1>0, <3>1, <3>2, HighValue
  <2>5. ASSUME NEW j \in Dims(c) PROVE x[j] \in S[j] .. S[j] + B[j] - 1
    <3>1. B[j] = IF G[j] - S[j] < Side(c, j) THEN G[j] - S[j] ELSE Side(c, j)
      <4>1. SizeOf(c, t, j) <= Side(c, j)
        BY <1>0
      <4> QED BY <1>0, <4>1, SizeFacts DEF G
    <3>2. x[j] \in S[j] .. S[j] + Side(c, j) - 1 /\ x[j] \in 0 .. G[j] - 1
      BY <1>0, <2>2, <2>3 DEF InSides
    <3> QED BY <1>0, <3>1, <3>2
  <2> QED BY <1>0, <2>4, <2>5 DEF InBox, x
<1>2. ASSUME NEW e, NEW x, InBox(n, S, B, x), e = High(n, G, x)
      PROVE  e \in Elements(c) /\ OwnerIn(c, e) = t
  <2>1. Digits(n, G, x)
    BY <1>0, <1>2, BoxDigits
  <2>2. e \in 0 .. HighWeight(n, G, 0) - 1 /\ \A j \in 0 .. n - 1 : HighDigit(n, G, e, j) = x[j]
    BY <1>0, <1>2, <2>1, HighDigits
  <2>3. e \in Elements(c) /\ \A j \in Dims(c) : CoordIn(c, e)[j] = x[j]
    BY <1>0, <2>2 DEF Elements, CoordIn
  <2> HIDE DEF n, S, B, G
  <2>4. InSides(c, t, CoordIn(c, e))
    <3> SUFFICES ASSUME NEW j \in Dims(c)
                 PROVE  CoordIn(c, e)[j] \in StartOf(c, t, j) .. StartOf(c, t, j) + Side(c, j) - 1
      BY DEF InSides
    <3>1. x[j] \in S[j] .. S[j] + B[j] - 1
      BY <1>0, <1>2 DEF InBox
    <3>2. x[j] \in S[j] .. S[j] + Side(c, j) - 1
      BY <1>0, <3>1
    <3> QED BY <1>0, <2>3, <3>2
  <2> QED BY <2>3, <2>4, OwnerIs
<1> QED BY <1>1, <1>2 DEF Owned

\* A block of nothing has none; another has the places of its elements.
LEMMA OwnedPlaces ==
  ASSUME NEW c \in Carts, NEW t \in Tasks(c), ~TooLarge(c, t)
  PROVE  LET n == c.num_dims
             B == Sizes(c, t) IN
         /\ Size(n, B) \in Nat
         /\ Size(n, B) = 0 => Owned(c, t) = {}
         /\ Size(n, B) # 0 =>
              /\ Radices(n, B)
              /\ Owned(c, t) = {PlaceOf(n, c.g_dim_sizes, Starts(c, t), B, q) : q \in 0 .. Size(n, B) - 1}
<1> DEFINE n == c.num_dims
           G == c.g_dim_sizes
           S == Starts(c, t)
           B == Sizes(c, t)
<1>1. Boxed(n, G, S, B) /\ n \in Nat /\ \A j \in 0 .. n - 1 : B[j] \in Nat
  BY Blocks DEF Boxed
<1>2. \A e : e \in Owned(c, t) <=> \E x : InBox(n, S, B, x) /\ e = High(n, G, x)
  BY OwnedAre
<1> HIDE DEF n, G, S, B
<1>3. Size(n, B) \in Nat /\ (Size(n, B) # 0 <=> Radices(n, B))
  BY <1>1, SizeRadices
<1>4. ASSUME Size(n, B) = 0, NEW x, InBox(n, S, B, x) PROVE FALSE
  <2>1. PICK j \in 0 .. n - 1 : B[j] = 0
    BY <1>1, <1>3, <1>4 DEF Radices
  <2>2. x[j] \in S[j] .. S[j] + B[j] - 1 /\ S[j] \in Nat
    BY <1>1, <1>4 DEF InBox, Boxed
  <2> QED BY <2>1, <2>2
<1>5. ASSUME Size(n, B) # 0
      PROVE  Owned(c, t) = {PlaceOf(n, G, S, B, q) : q \in 0 .. Size(n, B) - 1}
  <2>1. \A e : (\E x : InBox(n, S, B, x) /\ e = High(n, G, x))
                  <=> (\E q \in 0 .. Size(n, B) - 1 : e = PlaceOf(n, G, S, B, q))
    BY <1>1, <1>3, <1>5, PlacesAre
  <2> QED BY <1>2, <2>1
<1> QED BY <1>2, <1>3, <1>4, <1>5 DEF n, G, S, B

-------------------------------------------------------------------------------
(* Rows, and the places of elements.                                       *)

Rows(n, B) == ProductOnSet(B, 0 .. n - 2)

\* A block has its elements in rows.
LEMMA RowsOfSize ==
  ASSUME NEW n \in Nat \ {0}, NEW B, \A j \in 0 .. n - 1 : B[j] \in Nat
  PROVE  /\ Rows(n, B) \in Nat /\ B[n - 1] \in Nat
         /\ Size(n, B) = Rows(n, B) * B[n - 1]
         /\ Radices(n, B) => B[n - 1] \in Nat \ {0}
<1> DEFINE k == n - 1
<1>1. k \in Int /\ 0 <= k /\ k - 1 = n - 2 /\ k \in 0 .. n - 1 /\ 0 \in Int
  OBVIOUS
<1>2. \A x \in 0 .. k : B[x] \in Nat
  OBVIOUS
<1> HIDE DEF k
<1>3. ProductOnSet(B, 0 .. k) = B[k] * ProductOnSet(B, 0 .. k - 1)
  BY <1>1, <1>2, ProductInterval
<1>4. k - 1 \in Int /\ \A x \in 0 .. k - 1 : B[x] \in Nat
  BY <1>1, <1>2
<1>5. ProductOnSet(B, 0 .. k - 1) \in Nat
  BY <1>1, <1>4, ProductInterval
<1>6. Size(n, B) = B[k] * Rows(n, B) /\ Rows(n, B) \in Nat /\ B[k] \in Nat
  BY <1>1, <1>2, <1>3, <1>5 DEF Size, HighWeight, Rows, k
<1> QED BY <1>1, <1>6 DEF Radices, k

LEMMA TimesMore == ASSUME NEW a \in Nat, NEW b \in Nat \ {0} PROVE a <= a * b
<1>1. 1 <= b /\ a <= a /\ b \in Nat /\ a * 1 = a
  OBVIOUS
<1>2. a * 1 <= a * b
  BY <1>1, FactorsGrow
<1> QED BY <1>1, <1>2

\* A block no larger has no more rows, nor elements.
LEMMA ProductBelow ==
  ASSUME NEW n \in Nat \ {0}, NEW B, NEW W,
         \A i \in 0 .. n - 1 : B[i] \in Nat /\ W[i] \in Nat \ {0} /\ B[i] <= W[i],
         NEW u \in Nat, Size(n, W) < u
  PROVE  Size(n, B) < u /\ Rows(n, B) < u /\ Rows(n, B) \in Nat
<1> DEFINE k == n - 1
           z == 0
           w == W[k]
<1>1. k \in Int /\ z \in Int /\ k - 1 \in Int /\ k - 1 = n - 2
  OBVIOUS
<1>2. IsFiniteSet(z .. k) /\ IsFiniteSet(z .. k - 1)
  <2> DEFINE j == k - 1
  <2>1. j \in Int
    OBVIOUS
  <2> HIDE DEF k, z, j
  <2>2. IsFiniteSet(z .. k) /\ IsFiniteSet(z .. j)
    BY <1>1, <2>1, FS_Interval
  <2> QED BY <2>2 DEF j
<1>3. /\ \A i \in z .. k : B[i] \in Nat /\ W[i] \in Nat \ {0} /\ B[i] <= W[i]
      /\ \A i \in z .. k - 1 : B[i] \in Nat /\ W[i] \in Nat \ {0} /\ B[i] <= W[i]
  OBVIOUS
<1>4. Size(n, W) = Rows(n, W) * w /\ w \in Nat \ {0}
  BY RowsOfSize
<1> HIDE DEF k, z, w
<1>5. /\ ProductOnSet(B, z .. k) \in Nat /\ ProductOnSet(W, z .. k) \in Nat
      /\ ProductOnSet(B, z .. k) <= ProductOnSet(W, z .. k)
  BY ONLY <1>2, <1>3, ProductLess
<1>6. /\ ProductOnSet(B, z .. k - 1) \in Nat /\ ProductOnSet(W, z .. k - 1) \in Nat
      /\ ProductOnSet(B, z .. k - 1) <= ProductOnSet(W, z .. k - 1)
  BY ONLY <1>2, <1>3, ProductLess
<1>7. /\ Size(n, B) \in Nat /\ Size(n, W) \in Nat /\ Size(n, B) <= Size(n, W)
      /\ Rows(n, B) \in Nat /\ Rows(n, W) \in Nat /\ Rows(n, B) <= Rows(n, W)
  BY <1>1, <1>5, <1>6 DEF Size, HighWeight, Rows, k, z
<1> DEFINE r == Rows(n, W)
<1>8. r <= r * w
  <2>1. r \in Nat
    BY <1>7
  <2> HIDE DEF r
  <2> QED BY <1>4, <2>1, TimesMore
<1>9. Rows(n, W) <= Size(n, W)
  BY <1>4, <1>8
<1> QED BY <1>7, <1>9

\* The place of element q of a block: where it is in the whole dataset, or in a file
\* of the task's own that has nothing else.
PlaceIn(c, a, S, B, q) ==
  IF c.file_mode = "NX1" \/ a = "mpi view" THEN PlaceOf(c.num_dims, c.g_dim_sizes, S, B, q) ELSE q

\* Every element has a place, and they are in order.
LEMMA PlaceNat ==
  ASSUME NEW c, NEW a, NEW S, NEW B, Boxed(c.num_dims, c.g_dim_sizes, S, B),
         Radices(c.num_dims, B), NEW q \in Nat
  PROVE  PlaceIn(c, a, S, B, q) \in Nat
<1> DEFINE n == c.num_dims
           G == c.g_dim_sizes
           x == At(n, S, B, q)
<1>1. InBox(n, S, B, x) /\ n \in Nat /\ Radices(n, G)
  BY AtInBox DEF Boxed
<1>2. Digits(n, G, x)
  BY <1>1, BoxDigits
<1> HIDE DEF x, n, G
<1>3. High(n, G, x) \in 0 .. HighWeight(n, G, 0) - 1
  BY <1>1, <1>2, HighDigits
<1>4. High(n, G, x) \in Nat
  BY <1>3
<1> QED BY <1>4 DEF PlaceIn, PlaceOf, x, n, G

LEMMA PlacesOrdered ==
  ASSUME NEW c, NEW a, NEW S, NEW B, Boxed(c.num_dims, c.g_dim_sizes, S, B),
         Radices(c.num_dims, B), NEW p \in 0 .. Size(c.num_dims, B) - 1,
         NEW q \in 0 .. Size(c.num_dims, B) - 1, p < q
  PROVE  PlaceIn(c, a, S, B, p) < PlaceIn(c, a, S, B, q)
BY PlacesGrow DEF PlaceIn

\* The b elements from element s on follow each other.
RowAt(c, a, S, B, s, b) ==
  \A m \in 0 .. b - 1 : PlaceIn(c, a, S, B, s + m) = PlaceIn(c, a, S, B, s) + m

\* The elements of a row are side by side, in either kind of file.
LEMMA PlacesOfRow ==
  ASSUME NEW c, NEW a, NEW S, NEW B, Boxed(c.num_dims, c.g_dim_sizes, S, B),
         Radices(c.num_dims, B), NEW k \in Nat, k < Rows(c.num_dims, B), NEW b,
         b = B[c.num_dims - 1], NEW s, s = k * b
  PROVE  RowAt(c, a, S, B, s, b)
<1> SUFFICES ASSUME NEW m \in 0 .. b - 1
             PROVE  PlaceIn(c, a, S, B, s + m) = PlaceIn(c, a, S, B, s) + m
  BY DEF RowAt
<1> DEFINE n == c.num_dims
           G == c.g_dim_sizes
           r == Rows(n, B)
<1>1. n \in Nat \ {0} /\ \A j \in 0 .. n - 1 : B[j] \in Nat
  BY DEF Boxed
<1>2. b \in Nat \ {0} /\ r \in Nat /\ Size(n, B) = r * b
  BY <1>1, RowsOfSize
<1>3. k * b < Size(n, B)
  <2> HIDE DEF r
  <2> DEFINE d == r - k - 1
  <2>1. d \in Nat /\ r = k + d + 1
    BY <1>2 DEF r
  <2> HIDE DEF d
  <2>2. r * b = k * b + d * b + b /\ d * b \in Nat /\ k * b \in Nat
    BY <1>2, <2>1
  <2> QED BY <1>2, <2>2
<1>4. PlaceOf(n, G, S, B, k * b + m) = PlaceOf(n, G, S, B, k * b) + m
  BY <1>3, RowPlaces
<1> QED BY <1>4 DEF PlaceIn

-------------------------------------------------------------------------------
(* Places that grow.                                                       *)

Growing(m, P) ==
  /\ \A q \in 0 .. m - 1 : P[q] \in Nat
  /\ \A p, q \in 0 .. m - 1 : p < q => P[p] < P[q]

\* The q-th place has q places before it.
LEMMA RankOfPlace ==
  ASSUME NEW m \in Nat, NEW P, Growing(m, P), NEW q \in 0 .. m - 1
  PROVE  Cardinality({f \in {P[x] : x \in 0 .. m - 1} : f < P[q]}) = q
<1> DEFINE T == 0 .. q - 1
           W == {f \in {P[x] : x \in 0 .. m - 1} : f < P[q]}
           h == [x \in T |-> P[x]]
<1>1. IsFiniteSet(T) /\ Cardinality(T) = q
  <2> DEFINE k == q - 1
  <2>1. 0 \in Int /\ k \in Int
    OBVIOUS
  <2> HIDE DEF k
  <2>2. IsFiniteSet(0 .. k) /\ Cardinality(0 .. k) = IF 0 > k THEN 0 ELSE k - 0 + 1
    BY <2>1, FS_Interval
  <2> QED BY <2>2 DEF k
<1>2. ASSUME NEW x \in T PROVE h[x] \in W
  BY DEF Growing
<1>3. ASSUME NEW f \in W PROVE \E x \in T : h[x] = f
  <2>1. PICK x \in 0 .. m - 1 : f = P[x]
    OBVIOUS
  <2>2. P[x] < P[q] /\ P[x] \in Nat /\ P[q] \in Nat
    BY <2>1 DEF Growing
  <2>3. ~(q < x) /\ x # q
    BY <2>2 DEF Growing
  <2> QED BY <2>1, <2>3
<1>4. ASSUME NEW x \in T, NEW y \in T, h[x] = h[y] PROVE x = y
  <2>1. x \in 0 .. m - 1 /\ y \in 0 .. m - 1
    OBVIOUS
  <2>2. P[x] = P[y] /\ P[x] \in Nat /\ P[y] \in Nat
    BY <1>4, <2>1 DEF Growing
  <2>3. ~(x < y) /\ ~(y < x)
    BY <2>1, <2>2 DEF Growing
  <2> QED BY <2>1, <2>3
<1>5. h \in Bijection(T, W)
  <2>1. h \in [T -> W]
    BY <1>2
  <2> HIDE DEF T, W, h
  <2> QED BY <1>3, <1>4, <2>1, Fun_IsBij
<1> HIDE DEF T, W, h
<1>6. ExistsBijection(T, W)
  BY <1>5 DEF ExistsBijection
<1>7. Cardinality(W) = q
  BY <1>1, <1>6, FS_Bijection
<1> QED BY <1>7 DEF W

\* What is in the buffer: of element q its place there.
ValueIn(a, b, q) == IF a = "mpi seek" THEN q % b ELSE q
Buffered(c, a, S, B, m, x) ==
  /\ DOMAIN x = {PlaceIn(c, a, S, B, q) : q \in 0 .. m - 1}
  /\ \A q \in 0 .. m - 1 : x[PlaceIn(c, a, S, B, q)] = ValueIn(a, B[c.num_dims - 1], q)

\* So the place in the buffer follows from the order of the file.
InOrder(a, b, x) ==
  \A e \in DOMAIN x : x[e] = ValueIn(a, b, Cardinality({f \in DOMAIN x : f < e}))

\* All of a block's elements are in the buffer in the order of their places.
LEMMA BufferedInOrder ==
  ASSUME NEW c, NEW a, NEW S, NEW B, Boxed(c.num_dims, c.g_dim_sizes, S, B),
         Radices(c.num_dims, B), NEW x, Buffered(c, a, S, B, Size(c.num_dims, B), x)
  PROVE  InOrder(a, B[c.num_dims - 1], x)
<1> DEFINE m == Size(c.num_dims, B)
           P == [q \in 0 .. m - 1 |-> PlaceIn(c, a, S, B, q)]
<1>1. m \in Nat
  BY SizeRadices DEF Boxed
<1>2. Growing(m, P)
  <2>1. ASSUME NEW q \in 0 .. m - 1 PROVE P[q] \in Nat
    <3>1. q \in Nat
      BY <1>1
    <3> QED BY <3>1, PlaceNat
  <2>2. ASSUME NEW p \in 0 .. m - 1, NEW q \in 0 .. m - 1, p < q PROVE P[p] < P[q]
    BY <2>2, PlacesOrdered
  <2> HIDE DEF P, m
  <2> QED BY <2>1, <2>2 DEF Growing
<1>3. DOMAIN x = {P[q] : q \in 0 .. m - 1} /\ \A q \in 0 .. m - 1 : x[P[q]] = ValueIn(a, B[c.num_dims - 1], q)
  BY DEF Buffered
<1> HIDE DEF P, m
<1> SUFFICES ASSUME NEW e \in DOMAIN x
             PROVE  x[e] = ValueIn(a, B[c.num_dims - 1], Cardinality({f \in DOMAIN x : f < e}))
  BY DEF InOrder
<1>4. PICK q \in 0 .. m - 1 : e = P[q]
  BY <1>3
<1>5. Cardinality({f \in {P[y] : y \in 0 .. m - 1} : f < P[q]}) = q
  BY <1>1, <1>2, RankOfPlace
<1>6. Cardinality({f \in DOMAIN x : f < e}) = q
  BY <1>3, <1>4, <1>5
<1> QED BY <1>3, <1>4, <1>6

-------------------------------------------------------------------------------
(* Counting through a block.                                               *)

InDim(S, B, x, j) == x[j] \in S[j] .. S[j] + B[j] - 1

\* At the first element of row k.
Standing(n, S, B, x, k) ==
  /\ \A j \in 0 .. n - 1 : InDim(S, B, x, j)
  /\ x[n - 1] = S[n - 1]
  /\ Rank(n, S, B, x) = k * B[n - 1]

\* There, but dimension i may have to be carried.
Carrying(n, S, B, x, i, k) ==
  /\ \A j \in 0 .. n - 1 : j # i => InDim(S, B, x, j)
  /\ x[i] \in S[i] .. S[i] + B[i]
  /\ x[n - 1] = S[n - 1]
  /\ Rank(n, S, B, x) = k * B[n - 1]

\* In all dimensions: in the block.
LEMMA InDims ==
  ASSUME NEW n, NEW G, NEW S, NEW B, Boxed(n, G, S, B), NEW x
  PROVE  /\ (\A j \in 0 .. n - 1 : InDim(S, B, x, j)) <=> InBox(n, S, B, x)
         /\ n \in Nat \ {0} /\ \A j \in 0 .. n - 1 : S[j] \in Nat /\ B[j] \in Nat
BY DEF InDim, InBox, Boxed

LEMMA CarryingFrom ==
  ASSUME NEW n, NEW G, NEW S, NEW B, Boxed(n, G, S, B), NEW x, NEW i, NEW k,
         Carrying(n, S, B, x, i, k)
  PROVE  FromBox(n, S, x)
<1>1. ASSUME NEW j \in 0 .. n - 1 PROVE x[j] \in Nat /\ S[j] \in Nat /\ S[j] <= x[j]
  <2>1. S[j] \in Nat /\ B[j] \in Nat
    BY InDims
  <2>2. CASE j = i
    <3>1. x[j] \in S[j] .. S[j] + B[j]
      BY <2>2 DEF Carrying
    <3> QED BY <2>1, <3>1
  <2>3. CASE j # i
    <3>1. x[j] \in S[j] .. S[j] + B[j] - 1
      BY <2>3 DEF Carrying, InDim
    <3> QED BY <2>1, <3>1
  <2> QED BY <2>2, <2>3
<1> QED BY <1>1 DEF FromBox

\* Counting starts at the first row.
LEMMA StartsStanding ==
  ASSUME NEW n, NEW G, NEW S, NEW B, Boxed(n, G, S, B), Radices(n, B)
  PROVE  Standing(n, S, B, S, 0)
<1>1. n \in Nat \ {0} /\ n \in Nat /\ \A j \in 0 .. n - 1 : S[j] \in Nat /\ B[j] \in Nat \ {0}
  BY DEF Boxed, Radices
<1>2. \A j \in 0 .. n - 1 : InDim(S, B, S, j)
  BY <1>1 DEF InDim
<1> DEFINE x == Inside(n, S, S)
           t == 0
<1>3. ASSUME NEW j \in 0 .. n - 1 PROVE x[j] = HighDigit(n, B, t, j)
  <2> DEFINE w == HighWeight(n, B, j + 1)
             b == B[j]
  <2>1. j + 1 \in 0 .. n
    BY <1>1
  <2>2. w \in Nat \ {0}
    BY <1>1, <2>1, HighWeightsAre
  <2>3. b \in Nat \ {0} /\ S[j] \in Nat
    BY <1>1
  <2>4. HighDigit(n, B, t, j) = (0 \div w) % b
    BY DEF HighDigit
  <2>5. x[j] = S[j] - S[j]
    BY DEF Inside
  <2> HIDE DEF w, b
  <2>6. 0 \div w = 0
    BY <2>2
  <2>7. 0 % b = 0
    BY <2>3
  <2> QED BY <2>3, <2>4, <2>5, <2>6, <2>7
<1>4. t \in 0 .. HighWeight(n, B, 0) - 1
  <2>1. 0 \in 0 .. n
    BY <1>1
  <2>2. HighWeight(n, B, 0) \in Nat \ {0}
    BY <1>1, <2>1, HighWeightsAre
  <2> QED BY <2>2
<1> HIDE DEF x, t
<1>5. High(n, B, x) = t
  BY <1>1, <1>3, <1>4, HighValue
<1>6. n - 1 \in 0 .. n - 1
  BY <1>1
<1>7. 0 * B[n - 1] = 0
  BY <1>1, <1>6
<1> QED BY <1>2, <1>5, <1>7 DEF Standing, Rank, x, t

\* It is the place of the first element of the row.
LEMMA StandingPlace ==
  ASSUME NEW n, NEW G, NEW S, NEW B, Boxed(n, G, S, B), Radices(n, B), NEW x, NEW k \in Nat,
         Standing(n, S, B, x, k)
  PROVE  High(n, G, x) = PlaceOf(n, G, S, B, k * B[n - 1])
<1> DEFINE q == Rank(n, S, B, x)
<1>1. InBox(n, S, B, x) /\ q = k * B[n - 1] /\ n \in Nat
  BY InDims DEF Standing
<1>2. \A j \in 0 .. n - 1 : At(n, S, B, q)[j] = x[j]
  BY <1>1, RankIs
<1> HIDE DEF q
<1>3. High(n, G, At(n, S, B, q)) = High(n, G, x)
  BY <1>1, <1>2, HighSame
<1> QED BY <1>1, <1>3 DEF PlaceOf

\* What is counted up may have to be carried.
LEMMA StandingOn ==
  ASSUME NEW n, NEW G, NEW S, NEW B, Boxed(n, G, S, B), Radices(n, B), NEW x, NEW y,
         NEW k \in Nat, Standing(n, S, B, x, k), n > 1, Further(n, x, y, n - 2, 1)
  PROVE  Carrying(n, S, B, y, n - 2, k + 1)
<1> DEFINE i == n - 2
           b == B[n - 1]
<1>1. /\ n \in Nat \ {0} /\ i \in 0 .. n - 1 /\ n - 1 \in 0 .. n - 1 /\ i # n - 1
      /\ \A j \in 0 .. n - 1 : S[j] \in Nat /\ B[j] \in Nat
  BY InDims
<1>2. y[i] = x[i] + 1 /\ \A j \in 0 .. n - 1 : j # i => y[j] = x[j]
  BY DEF Further
<1>3. \A j \in 0 .. n - 1 : InDim(S, B, x, j)
  BY DEF Standing
<1>4. Carrying(n, S, B, x, i, k)
  <2>1. x[i] \in S[i] .. S[i] + B[i]
    BY <1>1, <1>3 DEF InDim
  <2> QED BY <1>3, <2>1 DEF Carrying, Standing
<1>5. FromBox(n, S, x)
  BY <1>4, CarryingFrom
<1>6. Rank(n, S, B, y) = Rank(n, S, B, x) + b
  BY <1>1, <1>5, RankRow
<1>7. Rank(n, S, B, x) = k * b /\ b \in Nat /\ x[n - 1] = S[n - 1]
  BY <1>1 DEF Standing
<1>8. y[i] \in S[i] .. S[i] + B[i]
  BY <1>1, <1>2, <1>3 DEF InDim
<1>9. \A j \in 0 .. n - 1 : j # i => InDim(S, B, y, j)
  BY <1>2, <1>3 DEF InDim
<1> HIDE DEF i, b
<1>10. (k + 1) * b = k * b + b
  BY <1>7
<1>11. Rank(n, S, B, y) = (k + 1) * b /\ y[n - 1] = S[n - 1]
  BY <1>1, <1>2, <1>6, <1>7, <1>10
<1> QED BY <1>8, <1>9, <1>11 DEF Carrying, i, b

\* Carrying goes on in the dimension before.
LEMMA CarryingOn ==
  ASSUME NEW n, NEW G, NEW S, NEW B, Boxed(n, G, S, B), Radices(n, B), NEW x, NEW y, NEW k \in Nat,
         NEW i \in 1 .. n - 2, Carrying(n, S, B, x, i, k), x[i] = S[i] + B[i],
         y[i] = S[i], y[i - 1] = x[i - 1] + 1,
         \A j \in 0 .. n - 1 : j # i /\ j # i - 1 => y[j] = x[j]
  PROVE  Carrying(n, S, B, y, i - 1, k)
<1>1. /\ n \in Nat /\ i \in 1 .. n - 1 /\ i \in 0 .. n - 1 /\ i - 1 \in 0 .. n - 1 /\ i - 1 # i
      /\ n - 1 \in 0 .. n - 1 /\ n - 1 # i /\ n - 1 # i - 1
      /\ \A j \in 0 .. n - 1 : S[j] \in Nat /\ B[j] \in Nat /\ B[j] # 0
  <2>1. n \in Nat \ {0} /\ \A j \in 0 .. n - 1 : S[j] \in Nat /\ B[j] \in Nat
    BY InDims
  <2>2. \A j \in 0 .. n - 1 : B[j] # 0
    BY DEF Radices
  <2> QED BY <2>1, <2>2
<1>2. FromBox(n, S, x)
  BY CarryingFrom
<1>3. Rank(n, S, B, y) = Rank(n, S, B, x)
  BY <1>1, <1>2, RankCarry
<1> DEFINE h == i - 1
<1>4. \A j \in 0 .. n - 1 : j # h => InDim(S, B, y, j)
  <2> SUFFICES ASSUME NEW j \in 0 .. n - 1, j # h PROVE InDim(S, B, y, j)
    OBVIOUS
  <2>1. CASE j = i
    BY <1>1, <2>1 DEF InDim
  <2>2. CASE j # i
    <3>1. y[j] = x[j] /\ InDim(S, B, x, j)
      BY <2>2 DEF Carrying
    <3> QED BY <3>1 DEF InDim
  <2> QED BY <2>1, <2>2
<1>5. y[h] \in S[h] .. S[h] + B[h]
  <2>1. y[h] = x[h] + 1
    OBVIOUS
  <2>2. x[h] \in S[h] .. S[h] + B[h] - 1 /\ S[h] \in Nat /\ B[h] \in Nat
    BY <1>1 DEF Carrying, InDim
  <2> HIDE DEF h
  <2> QED BY <2>1, <2>2
<1>6. y[n - 1] = S[n - 1]
  BY <1>1 DEF Carrying
<1>7. Rank(n, S, B, y) = k * B[n - 1]
  BY <1>3 DEF Carrying
<1> QED BY <1>4, <1>5, <1>6, <1>7 DEF Carrying

\* Where it ends is the first element of a row, if there is one.
LEMMA CarryingEnd ==
  ASSUME NEW n, NEW G, NEW S, NEW B, Boxed(n, G, S, B), Radices(n, B), NEW x, NEW k \in Nat,
         NEW i \in 0 .. n - 2, Carrying(n, S, B, x, i, k), ~(i > 0 /\ x[i] = S[i] + B[i]),
         k < Rows(n, B)
  PROVE  Standing(n, S, B, x, k)
<1>1. /\ n \in Nat \ {0} /\ i \in 0 .. n - 1
      /\ \A j \in 0 .. n - 1 : S[j] \in Nat /\ B[j] \in Nat
  BY InDims
<1>2. FromBox(n, S, x)
  BY CarryingFrom
<1> DEFINE b == B[n - 1]
           r == Rows(n, B)
<1>3. b \in Nat \ {0} /\ r \in Nat /\ Size(n, B) = r * b
  BY <1>1, RowsOfSize
<1>4. Rank(n, S, B, x) = k * b
  BY DEF Carrying
<1>5. x[i] # S[i] + B[i]
  <2> SUFFICES ASSUME i = 0, x[0] = S[0] + B[0] PROVE FALSE
    BY <1>1
  <2>1. r * b <= k * b
    BY <1>1, <1>2, <1>3, <1>4, RankEnd
  <2>2. k < r
    OBVIOUS
  <2> HIDE DEF b, r
  <2> DEFINE d == r - k - 1
  <2>3. d \in Nat /\ r = k + d + 1
    BY <1>3, <2>2
  <2> HIDE DEF d
  <2>4. r * b = k * b + d * b + b /\ d * b \in Nat /\ k * b \in Nat
    BY <1>3, <2>3
  <2> QED BY <1>3, <2>1, <2>4
<1>6. \A j \in 0 .. n - 1 : InDim(S, B, x, j)
  <2> SUFFICES ASSUME NEW j \in 0 .. n - 1 PROVE InDim(S, B, x, j)
    OBVIOUS
  <2>1. CASE j = i
    <3>1. x[i] \in S[i] .. S[i] + B[i]
      BY DEF Carrying
    <3> QED BY <1>1, <1>5, <2>1, <3>1 DEF InDim
  <2>2. CASE j # i
    BY <2>2 DEF Carrying
  <2> QED BY <2>1, <2>2
<1> QED BY <1>6 DEF Standing, Carrying

-------------------------------------------------------------------------------
(* The list of offsets, and what is transferred.                           *)

\* The offsets in o are those of the first rows.
Listed(c, a, S, B, o) ==
  /\ Len(o) <= Rows(c.num_dims, B)
  /\ \A k \in 1 .. Len(o) : o[k] = PlaceIn(c, a, S, B, (k - 1) * B[c.num_dims - 1])

\* A place more for the list.
LEMMA ListedMore ==
  ASSUME NEW c, NEW a, NEW S, NEW B, NEW o \in Seq(Nat), NEW x, Listed(c, a, S, B, o),
         Rows(c.num_dims, B) \in Nat, Len(o) < Rows(c.num_dims, B),
         x = PlaceIn(c, a, S, B, Len(o) * B[c.num_dims - 1])
  PROVE  Listed(c, a, S, B, Append(o, x))
<1> DEFINE p == Append(o, x)
           b == B[c.num_dims - 1]
<1>1. /\ Len(p) = Len(o) + 1 /\ p[Len(o) + 1] = x
      /\ \A k \in 1 .. Len(o) : p[k] = o[k]
      /\ Len(o) \in Nat
  OBVIOUS
<1> HIDE DEF p, b
<1>2. ASSUME NEW k \in 1 .. Len(p) PROVE p[k] = PlaceIn(c, a, S, B, (k - 1) * b)
  <2>1. CASE k \in 1 .. Len(o)
    BY <1>1, <2>1 DEF Listed, b
  <2>2. CASE k = Len(o) + 1
    <3>1. k - 1 = Len(o)
      BY <1>1, <2>2
    <3> QED BY <1>1, <2>2, <3>1 DEF b
  <2>3. k \in 1 .. Len(o) \/ k = Len(o) + 1
    BY <1>1
  <2> QED BY <2>1, <2>2, <2>3
<1>3. Len(p) <= Rows(c.num_dims, B)
  BY <1>1
<1> QED BY <1>2, <1>3 DEF Listed, p, b

\* Rows that are left have elements that are left.
LEMMA RowsLess ==
  ASSUME NEW r \in Nat, NEW k \in Nat, NEW b \in Nat \ {0}
  PROVE  /\ r * b \in Nat /\ k * b \in Nat /\ (k < r <=> k * b < r * b)
         /\ (k + 1) * b = k * b + b
         /\ k < r => (k + 1) * b <= r * b
         /\ (k * b) \div b = k
<1>1. r * b \in Nat /\ k * b \in Nat /\ (k + 1) * b = k * b + b
  OBVIOUS
<1>2. ASSUME k < r PROVE (k + 1) * b <= r * b
  <2> DEFINE d == r - k - 1
  <2>1. d \in Nat /\ r = k + d + 1
    BY <1>2
  <2> HIDE DEF d
  <2>2. r * b = k * b + d * b + b /\ d * b \in Nat
    BY <2>1
  <2> QED BY <1>1, <2>2
<1>3. ASSUME r <= k PROVE r * b <= k * b
  <2> DEFINE d == k - r
  <2>1. d \in Nat /\ k = r + d
    BY <1>3
  <2> HIDE DEF d
  <2>2. k * b = r * b + d * b /\ d * b \in Nat
    BY <2>1
  <2> QED BY <1>1, <2>2
<1>4. (k * b) \div b = k
  <2>1. 0 \in 0 .. b - 1
    OBVIOUS
  <2>2. (b * k + 0) \div b = k
    BY <2>1, DivModIs
  <2>3. b * k + 0 = k * b
    OBVIOUS
  <2> QED BY <2>2, <2>3
<1>5. k < r <=> k * b < r * b
  BY <1>1, <1>2, <1>3
<1> QED BY <1>1, <1>2, <1>4, <1>5

\* At first nothing is in the buffer.
LEMMA BufferedNone ==
  ASSUME NEW c, NEW a, NEW S, NEW B
  PROVE  Buffered(c, a, S, B, 0, <<>>)
<1>1. 0 .. 0 - 1 = {} /\ DOMAIN <<>> = {}
  OBVIOUS
<1> QED BY <1>1 DEF Buffered

\* Places that go on by b, one after the other.
OneRow(P, s, b, o) == \A m \in 0 .. b - 1 : P[s + m] = o + m
Adds(P, s, t, b, o, D) ==
  /\ D \cup (o .. o + b - 1) = {P[q] : q \in 0 .. t - 1}
  /\ \A q \in 0 .. s - 1 : P[q] \in D /\ P[q] \notin o .. o + b - 1
  /\ \A q \in 0 .. t - 1 : q \notin 0 .. s - 1 =>
       P[q] \in o .. o + b - 1 /\ P[q] - o = q - s /\ q - s \in 0 .. b - 1

\* A row more of the block: its places are all new.
LEMMA PlacesMore ==
  ASSUME NEW s \in Nat, NEW b \in Nat \ {0}, NEW t, t = s + b, NEW P, Growing(t, P), NEW o \in Nat,
         OneRow(P, s, b, o), NEW D, D = {P[q] : q \in 0 .. s - 1}
  PROVE  Adds(P, s, t, b, o, D)
<1> DEFINE W == o .. o + b - 1
<1>1. ASSUME NEW q \in 0 .. s - 1 PROVE q \in 0 .. t - 1 /\ P[q] \in D /\ P[q] \notin W
  <2>1. q \in 0 .. t - 1 /\ s + 0 \in 0 .. t - 1 /\ q < s + 0 /\ 0 \in 0 .. b - 1
    OBVIOUS
  <2>2. P[q] < P[s + 0] /\ P[q] \in Nat
    BY <2>1 DEF Growing
  <2>3. P[s + 0] = o + 0
    BY <2>1 DEF OneRow
  <2> QED BY <2>1, <2>2, <2>3
<1>2. ASSUME NEW q \in 0 .. t - 1, q \notin 0 .. s - 1
      PROVE  P[q] \in W /\ P[q] - o = q - s /\ q - s \in 0 .. b - 1
  <2> DEFINE m == q - s
  <2>1. m \in 0 .. b - 1 /\ s + m = q
    BY <1>2
  <2> HIDE DEF m
  <2>2. P[q] = o + m
    BY <2>1 DEF OneRow
  <2> QED BY <2>1, <2>2 DEF m
<1>3. ASSUME NEW e \in W PROVE \E q \in 0 .. t - 1 : e = P[q]
  <2> DEFINE m == e - o
  <2>1. m \in 0 .. b - 1 /\ o + m = e
    OBVIOUS
  <2> HIDE DEF m
  <2>2. s + m \in 0 .. t - 1 /\ P[s + m] = e
    BY <2>1 DEF OneRow
  <2> QED BY <2>2
<1> HIDE DEF W
<1>4. D \cup W = {P[q] : q \in 0 .. t - 1}
  BY <1>1, <1>2, <1>3
<1> QED BY <1>1, <1>2, <1>4 DEF Adds, W

\* One more row, from place s of the buffer on, is at o.
RowAdded(a, o, b, s, x, y) ==
  /\ DOMAIN y = DOMAIN x \cup (o .. o + b - 1)
  /\ \A e \in o .. o + b - 1 : y[e] = IF a = "mpi seek" THEN e - o ELSE s + (e - o)
  /\ \A e \in DOMAIN x : e \notin o .. o + b - 1 => y[e] = x[e]

\* A row more in the buffer.
LEMMA BufferedMore ==
  ASSUME NEW c, NEW a, NEW S, NEW B, Boxed(c.num_dims, c.g_dim_sizes, S, B),
         Radices(c.num_dims, B), NEW k \in Nat, k < Rows(c.num_dims, B), NEW x, NEW o, NEW b,
         b = B[c.num_dims - 1], Buffered(c, a, S, B, k * b, x), o = PlaceIn(c, a, S, B, k * b),
         NEW y, RowAdded(a, o, b, k * b, x, y)
  PROVE  Buffered(c, a, S, B, (k + 1) * b, y)
<1> DEFINE n == c.num_dims
           r == Rows(n, B)
           s == k * b
           t == s + b
           P == [q \in 0 .. t - 1 |-> PlaceIn(c, a, S, B, q)]
           W == o .. o + b - 1
           m == Size(n, B)
<1>1. n \in Nat \ {0} /\ \A j \in 0 .. n - 1 : B[j] \in Nat
  BY DEF Boxed
<1>2. b \in Nat \ {0} /\ r \in Nat /\ m = r * b
  BY <1>1, RowsOfSize
<1>3. s \in Nat /\ (k + 1) * b = t /\ t <= m /\ m \in Nat /\ t = s + b
  <2>1. k < r
    OBVIOUS
  <2> HIDE DEF r, m
  <2> QED BY <1>2, <2>1, RowsLess
<1>4. \A q \in 0 .. t - 1 : P[q] = PlaceIn(c, a, S, B, q)
  OBVIOUS
<1>5. ASSUME NEW q \in 0 .. b - 1 PROVE PlaceIn(c, a, S, B, s + q) = o + q
  <2>1. RowAt(c, a, S, B, s, b)
    BY PlacesOfRow
  <2> QED BY <2>1 DEF RowAt
<1>6. \A q \in Nat : PlaceIn(c, a, S, B, q) \in Nat
  BY PlaceNat
<1>7. \A p, q \in 0 .. m - 1 : p < q => PlaceIn(c, a, S, B, p) < PlaceIn(c, a, S, B, q)
  BY PlacesOrdered
<1>8. /\ DOMAIN x = {PlaceIn(c, a, S, B, q) : q \in 0 .. s - 1}
      /\ \A q \in 0 .. s - 1 : x[PlaceIn(c, a, S, B, q)] = ValueIn(a, b, q)
  BY DEF Buffered
<1>9. /\ DOMAIN y = DOMAIN x \cup W
      /\ \A e \in W : y[e] = IF a = "mpi seek" THEN e - o ELSE s + (e - o)
      /\ \A e \in DOMAIN x : e \notin W => y[e] = x[e]
  BY DEF RowAdded
<1>10. o = PlaceIn(c, a, S, B, s) /\ s = b * k
  <2>1. k * b = b * k
    BY <1>2
  <2> QED BY <2>1
<1> HIDE DEF s, t, r, m, P
<1>11. Growing(t, P)
  BY <1>2, <1>3, <1>4, <1>6, <1>7 DEF Growing
<1>12. o \in Nat
  BY <1>3, <1>6, <1>10
<1>13. OneRow(P, s, b, o)
  <2> SUFFICES ASSUME NEW q \in 0 .. b - 1 PROVE P[s + q] = o + q
    BY DEF OneRow
  <2>1. s + q \in 0 .. t - 1
    BY <1>2, <1>3
  <2> QED BY <1>4, <1>5, <2>1
<1>14. \A q \in 0 .. s - 1 : q \in 0 .. t - 1
  BY <1>2, <1>3
<1>15. DOMAIN x = {P[q] : q \in 0 .. s - 1} /\ \A q \in 0 .. s - 1 : x[P[q]] = ValueIn(a, b, q)
  BY <1>4, <1>8, <1>14
<1> HIDE DEF W
<1>16. /\ DOMAIN y = {P[q] : q \in 0 .. t - 1}
       /\ \A q \in 0 .. s - 1 : P[q] \in DOMAIN x /\ P[q] \notin W
       /\ \A q \in 0 .. t - 1 : q \notin 0 .. s - 1 =>
            P[q] \in W /\ P[q] - o = q - s /\ q - s \in 0 .. b - 1
  <2> DEFINE D == DOMAIN x
  <2>1. D = {P[q] : q \in 0 .. s - 1}
    BY <1>15
  <2> HIDE DEF D
  <2>2. Adds(P, s, t, b, o, D)
    BY <1>2, <1>3, <1>11, <1>12, <1>13, <2>1, PlacesMore
  <2> QED BY <1>9, <2>2 DEF D, Adds, W
<1>17. ASSUME NEW q \in 0 .. t - 1 PROVE y[P[q]] = ValueIn(a, b, q)
  <2>1. CASE q \in 0 .. s - 1
    BY <1>9, <1>15, <1>16, <2>1
  <2>2. CASE q \notin 0 .. s - 1
    <3> DEFINE i == q - s
    <3>1. P[q] \in W /\ P[q] - o = i /\ i \in 0 .. b - 1
      BY <1>16, <2>2
    <3>2. q = s + i
      BY <1>3
    <3>3. y[P[q]] = IF a = "mpi seek" THEN i ELSE q
      BY <1>9, <3>1, <3>2
    <3> HIDE DEF i
    <3>4. (b * k + i) % b = i
      BY <1>2, <3>1, DivModIs
    <3> QED BY <1>10, <3>2, <3>3, <3>4 DEF ValueIn
  <2> QED BY <2>1, <2>2
<1>18. DOMAIN y = {PlaceIn(c, a, S, B, q) : q \in 0 .. t - 1}
  BY <1>4, <1>16
<1>19. \A q \in 0 .. t - 1 : y[PlaceIn(c, a, S, B, q)] = ValueIn(a, b, q)
  BY <1>4, <1>17
<1> QED BY <1>3, <1>18, <1>19 DEF Buffered

\* All at once, in the order of the file.
LEMMA BufferedView ==
  ASSUME NEW c, NEW S, NEW B, Boxed(c.num_dims, c.g_dim_sizes, S, B), NEW a, a # "mpi seek",
         Radices(c.num_dims, B), NEW W, NEW y,
         W = {PlaceIn(c, a, S, B, q) : q \in 0 .. Size(c.num_dims, B) - 1},
         y = [e \in W |-> Cardinality({f \in W : f < e})]
  PROVE  Buffered(c, a, S, B, Size(c.num_dims, B), y)
<1> DEFINE m == Size(c.num_dims, B)
           P == [q \in 0 .. m - 1 |-> PlaceIn(c, a, S, B, q)]
<1>1. m \in Nat
  BY SizeRadices DEF Boxed
<1>2. Growing(m, P)
  <2>1. ASSUME NEW q \in 0 .. m - 1 PROVE P[q] \in Nat
    <3>1. q \in Nat
      <4> HIDE DEF m
      <4> QED BY ONLY <1>1, q \in 0 .. m - 1
    <3> QED BY <3>1, PlaceNat
  <2>2. ASSUME NEW p \in 0 .. m - 1, NEW q \in 0 .. m - 1, p < q PROVE P[p] < P[q]
    BY <2>2, PlacesOrdered
  <2> HIDE DEF P, m
  <2> QED BY <2>1, <2>2 DEF Growing
<1>3. \A q \in 0 .. m - 1 : P[q] = PlaceIn(c, a, S, B, q)
  OBVIOUS
<1>4. W = {P[q] : q \in 0 .. m - 1}
  OBVIOUS
<1> HIDE DEF P, m
<1>5. ASSUME NEW q \in 0 .. m - 1 PROVE y[P[q]] = q
  <2>1. Cardinality({f \in {P[x] : x \in 0 .. m - 1} : f < P[q]}) = q
    BY <1>1, <1>2, RankOfPlace
  <2>2. P[q] \in W /\ y[P[q]] = Cardinality({f \in W : f < P[q]})
    BY <1>4
  <2> QED BY <1>4, <2>1, <2>2
<1>6. DOMAIN y = {PlaceIn(c, a, S, B, q) : q \in 0 .. m - 1}
  BY DEF m
<1>7. \A q \in 0 .. m - 1 : y[PlaceIn(c, a, S, B, q)] = ValueIn(a, B[c.num_dims - 1], q)
  BY <1>3, <1>5 DEF ValueIn
<1> QED BY <1>6, <1>7 DEF Buffered, m

-------------------------------------------------------------------------------
(* The state.                                                              *)

\* A block's elements and rows are not more than an unsigned number counts.
LEMMA BlockFits ==
  ASSUME NEW c \in Carts, NEW t \in Tasks(c), ~TooLarge(c, t)
  PROVE  /\ Size(c.num_dims, Sizes(c, t)) < UIntMod
         /\ Rows(c.num_dims, Sizes(c, t)) < UIntMod
         /\ Rows(c.num_dims, Sizes(c, t)) % UIntMod = Rows(c.num_dims, Sizes(c, t))
<1> DEFINE n == c.num_dims
           B == Sizes(c, t)
           W == Whole(c)
           D == 0 .. n - 1
<1>1. n \in Nat \ {0} /\ Dims(c) = D /\ UIntMod \in Nat \ {0} /\ ProductOnSet(W, D) < UIntMod
  BY CartFacts
<1>2. \A i \in D : B[i] \in Nat /\ W[i] \in Nat \ {0} /\ B[i] <= W[i]
  BY <1>1, Blocks DEF Whole, Side
<1> HIDE DEF n, B, W, D
<1>3. Size(n, W) < UIntMod
  BY <1>1 DEF Size, HighWeight, D
<1>4. Size(n, B) < UIntMod /\ Rows(n, B) < UIntMod /\ Rows(n, B) \in Nat
  <2> DEFINE u == UIntMod
  <2>1. u \in Nat /\ Size(n, W) < u /\ \A i \in 0 .. n - 1 : B[i] \in Nat /\ W[i] \in Nat \ {0} /\ B[i] <= W[i]
    BY <1>1, <1>2, <1>3 DEF D
  <2> HIDE DEF u
  <2>2. Size(n, B) < u /\ Rows(n, B) < u /\ Rows(n, B) \in Nat
    BY <1>1, <2>1, ProductBelow
  <2> QED BY <2>2 DEF u
<1>5. Rows(n, B) % UIntMod = Rows(n, B)
  BY <1>1, <1>4
<1> QED BY <1>4, <1>5 DEF n, B

\* What the operators of the model are.
LEMMA InTerms ==
  ASSUME cart \in Carts
  PROVE  LET n == cart.num_dims
             G == cart.g_dim_sizes
             B == my_dim_sizes IN
         /\ [i \in Dims(cart) |-> StartCoord(i)] = Starts(cart, task_id)
         /\ [i \in Dims(cart) |-> DimSize(i)] = Sizes(cart, task_id)
         /\ \A i \in Dims(cart) : MaxDimSize(i) = Side(cart, i) /\ StartCoord(i) = StartOf(cart, task_id, i)
         /\ Last = n - 1 /\ ReqSize = B[n - 1]
         /\ OffsLen = Rows(n, B) % UIntMod /\ MySize = Size(n, B)
         /\ \A x : Linear(x) = High(n, G, x)
<1> DEFINE n == cart.num_dims
           G == cart.g_dim_sizes
           B == my_dim_sizes
<1>0. n \in Nat \ {0} /\ Dims(cart) = 0 .. n - 1
  BY CartFacts
<1>1. Last = n - 1 /\ ReqSize = B[n - 1] /\ Last - 1 = n - 2
  BY <1>0 DEF Last, ReqSize
<1>2. \A i \in Dims(cart) : MaxDimSize(i) = Side(cart, i)
  BY DEF MaxDimSize, Side
<1>3. \A i \in Dims(cart) : StartCoord(i) = StartOf(cart, task_id, i)
  <2> TAKE i \in Dims(cart)
  <2>1. Fac(i) = LowWeight(cart.g_dim_divs, i)
    BY Products DEF Fac, LowWeight
  <2> QED BY <1>2, <2>1 DEF StartCoord, StartOf, LowDigit
<1>4. \A i \in Dims(cart) : DimSize(i) = SizeOf(cart, task_id, i)
  BY <1>2, <1>3 DEF DimSize, SizeOf
<1>5. OffsLen = Rows(n, B) % UIntMod /\ MySize = Size(n, B)
  BY <1>0, <1>1, Products DEF OffsLen, Rows, MySize, Size, HighWeight
<1>6. ASSUME NEW x PROVE Linear(x) = High(n, G, x)
  <2>1. \A j \in Dims(cart) : Product(G, j + 1 .. Last) = HighWeight(n, G, j + 1)
    BY <1>1, Products DEF HighWeight
  <2>2. [j \in Dims(cart) |-> x[j] * Product(G, j + 1 .. Last)] = HighTerms(n, G, x)
    BY <1>0, <2>1 DEF HighTerms
  <2> QED BY <2>2 DEF Linear, High
<1>7. [i \in Dims(cart) |-> StartCoord(i)] = Starts(cart, task_id)
  BY <1>3 DEF Starts
<1>8. [i \in Dims(cart) |-> DimSize(i)] = Sizes(cart, task_id)
  BY <1>4 DEF Sizes
<1> QED BY <1>1, <1>2, <1>3, <1>5, <1>6, <1>7, <1>8

\* Whose elements are whose.
LEMMA OwnersInTerms ==
  ASSUME cart \in Carts
  PROVE  /\ 0 .. Product(cart.g_dim_sizes, Dims(cart)) - 1 = Elements(cart)
         /\ \A e : Owner(e) = OwnerIn(cart, e)
<1> DEFINE n == cart.num_dims
           G == cart.g_dim_sizes
<1>0. n \in Nat \ {0} /\ Dims(cart) = 0 .. n - 1 /\ Last = n - 1
  BY CartFacts DEF Last
<1>1. 0 .. Product(G, Dims(cart)) - 1 = Elements(cart)
  BY <1>0, Products DEF Elements, HighWeight
<1>2. ASSUME NEW e PROVE Owner(e) = OwnerIn(cart, e)
  <2>1. \A j \in Dims(cart) : Product(G, j + 1 .. Last) = HighWeight(n, G, j + 1)
    BY <1>0, Products DEF HighWeight
  <2>2. CoordOf(e) = CoordIn(cart, e)
    BY <2>1 DEF CoordOf, CoordIn, HighDigit
  <2> DEFINE y == [j \in Dims(cart) |-> CoordIn(cart, e)[j] \div Side(cart, j)]
             V == cart.g_dim_divs
  <2>3. \A j \in Dims(cart) : Product(V, 0 .. j - 1) = LowWeight(V, j)
    BY Products DEF LowWeight
  <2>4. \A j \in Dims(cart) : y[j] = CoordOf(e)[j] \div MaxDimSize(j)
    BY <2>2, InTerms
  <2> HIDE DEF y
  <2>5. [j \in Dims(cart) |-> (CoordOf(e)[j] \div MaxDimSize(j)) * Product(V, 0 .. j - 1)]
          = LowTerms(n, V, y)
    BY <1>0, <2>3, <2>4 DEF LowTerms
  <2> QED BY <2>5 DEF Owner, OwnerIn, Low, y
<1> QED BY <1>1, <1>2

\* The set of the sizes has a greatest.
LEMMA MaxOfSizes ==
  ASSUME NEW c \in Carts
  PROVE  \A j \in Dims(c) : /\ Max(Range(c.g_dim_sizes)) \in Nat
                            /\ c.g_dim_sizes[j] <= Max(Range(c.g_dim_sizes))
<1> DEFINE T == Range(c.g_dim_sizes)
           G == c.g_dim_sizes
           h == UIntMod \div 2
<1>1. CartValid(c) /\ UIntMod \in Nat \ {0}
  BY CartDsetAssumption
<1>2. G \in [Dims(c) -> 1 .. h - 1] /\ h \in Nat
  BY <1>1 DEF CartValid
<1>3. T = {G[j] : j \in Dims(c)}
  <2>1. DOMAIN G = Dims(c)
    BY <1>2
  <2> QED BY <2>1 DEF Range
<1> HIDE DEF T, G, h
<1>4. T \in SUBSET (0 .. h - 1)
  BY <1>2, <1>3
<1> TAKE j \in Dims(c)
<1>5. G[j] \in T
  BY <1>3
<1>6. \E x \in T : \A y \in T : y <= x
  BY <1>2, <1>4, <1>5, Greatest
<1>7. \A x, y \in T : x >= y <=> y <= x
  BY <1>2, <1>4
<1>8. \E x \in T : \A y \in T : x >= y
  BY <1>6, <1>7
<1>9. Max(T) \in T /\ \A y \in T : Max(T) >= y
  BY <1>8 DEF Max
<1>10. Max(T) \in Nat /\ G[j] <= Max(T)
  <2>1. G[j] <= Max(T) /\ Max(T) \in T
    BY <1>5, <1>7, <1>9
  <2> DEFINE m == Max(T)
  <2> HIDE DEF m
  <2>2. m \in 0 .. h - 1
    BY <1>4, <2>1 DEF m
  <2>3. h \in Nat
    BY <1>2
  <2>4. m \in Nat
    BY ONLY <2>2, <2>3
  <2> QED BY <2>1, <2>4 DEF m
<1> QED BY <1>10 DEF T, G

\* A view has the places of the elements.
LEMMA ViewIs ==
  ASSUME cart \in Carts,
         Boxed(cart.num_dims, cart.g_dim_sizes, my_start_coord, my_dim_sizes),
         Radices(cart.num_dims, my_dim_sizes)
  PROVE  View = {PlaceOf(cart.num_dims, cart.g_dim_sizes, my_start_coord, my_dim_sizes, q) :
                   q \in 0 .. Size(cart.num_dims, my_dim_sizes) - 1}
<1> DEFINE n == cart.num_dims
           G == cart.g_dim_sizes
           S == my_start_coord
           B == my_dim_sizes
           Top == Max(Range(G))
           Coords == [Dims(cart) -> 0 .. Top]
<1>1. n \in Nat \ {0} /\ n \in Nat /\ Dims(cart) = 0 .. n - 1
  BY CartFacts
<1>2. \A j \in 0 .. n - 1 : Top \in Nat /\ G[j] <= Top /\ G[j] \in Nat
  BY <1>1, MaxOfSizes, CartFacts
<1>3. \A j \in 0 .. n - 1 : S[j] \in Nat /\ B[j] \in Nat /\ S[j] + B[j] <= G[j]
  BY DEF Boxed
<1>4. View = {High(n, G, x) : x \in {d \in Coords : InView(d)}}
  BY InTerms DEF View
<1> HIDE DEF n, G, S, B, Top
<1>5. ASSUME NEW x \in Coords PROVE InView(x) <=> InBox(n, S, B, x)
  <2>1. ASSUME NEW i \in 0 .. n - 1
        PROVE  x[i] - S[i] \in 0 .. B[i] - 1 <=> x[i] \in S[i] .. S[i] + B[i] - 1
    <3>1. x[i] \in 0 .. Top /\ Top \in Nat /\ S[i] \in Nat /\ B[i] \in Nat
      BY <1>1, <1>2, <1>3, <2>1
    <3> QED BY <3>1
  <2>2. InView(x) <=> \A i \in 0 .. n - 1 : x[i] - S[i] \in 0 .. B[i] - 1
    BY <1>1 DEF InView, S, B
  <2> QED BY <2>1, <2>2 DEF InBox
<1>6. ASSUME NEW x, InBox(n, S, B, x)
      PROVE  \E y \in Coords : InView(y) /\ High(n, G, y) = High(n, G, x)
  <2> DEFINE y == [j \in 0 .. n - 1 |-> x[j]]
  <2>1. ASSUME NEW j \in 0 .. n - 1 PROVE x[j] \in 0 .. Top
    <3>1. /\ x[j] \in S[j] .. S[j] + B[j] - 1 /\ S[j] \in Nat /\ B[j] \in Nat
          /\ S[j] + B[j] <= G[j] /\ G[j] <= Top /\ Top \in Nat /\ G[j] \in Nat
      BY <1>2, <1>3, <1>6 DEF InBox
    <3> QED BY <3>1
  <2>2. \A j \in 0 .. n - 1 : y[j] = x[j]
    OBVIOUS
  <2>3. y \in Coords
    BY <1>1, <2>1
  <2> HIDE DEF y
  <2>4. InBox(n, S, B, y)
    BY <1>6, <2>2 DEF InBox
  <2>5. High(n, G, y) = High(n, G, x)
    BY <1>1, <2>2, HighSame
  <2> QED BY <1>5, <2>3, <2>4, <2>5
<1>7. \A e : e \in View <=> \E x : InBox(n, S, B, x) /\ e = High(n, G, x)
  <2> HIDE DEF Coords
  <2> QED BY <1>4, <1>5, <1>6
<1>8. \A e : (\E x : InBox(n, S, B, x) /\ e = High(n, G, x))
               <=> (\E q \in 0 .. Size(n, B) - 1 : e = PlaceOf(n, G, S, B, q))
  BY PlacesAre DEF n, G, S, B
<1>9. View = {PlaceOf(n, G, S, B, q) : q \in 0 .. Size(n, B) - 1}
  BY <1>7, <1>8
<1> QED BY <1>9 DEF n, G, S, B

-------------------------------------------------------------------------------
(* The inductive invariant.                                                *)

N == cart.num_dims
Nonempty == Size(N, my_dim_sizes) # 0

TypeOK ==
  /\ cart \in Carts /\ access \in Access /\ task_id \in Tasks(cart)
  /\ pc \in {"prep", "row", "carry", "xfer", "view", "done", "failed", "oversize"}
  /\ offs \in Seq(Nat) /\ nbytes \in Nat
  /\ pc = "prep" => offs = <<>> /\ nbytes = 0 /\ xferred = <<>>
  /\ pc # "prep" => coord \in [Dims(cart) -> Nat]

\* With a view there is no list of offsets.
Ways ==
  /\ pc \in {"row", "carry", "xfer"} => access # "mpi view"
  /\ pc \in {"view", "failed"} => access = "mpi view"

\* The block is that of the task, and starts before the end in all dimensions but
\* where the model ends.
Blocked ==
  pc # "prep" =>
    /\ my_start_coord = Starts(cart, task_id)
    /\ my_dim_sizes = Sizes(cart, task_id)
    /\ pc = "oversize" <=> TooLarge(cart, task_id)

\* Where coord is, and what is in the list.
Carries ==
  pc = "carry" => cart.file_mode = "NX1" /\ IF N = 1 THEN l = -1 ELSE l \in 0 .. N - 2
Counted ==
  pc \in {"row", "carry", "xfer"} /\ Nonempty =>
    /\ Listed(cart, access, my_start_coord, my_dim_sizes, offs)
    /\ pc = "row" /\ cart.file_mode = "NX1" /\ Len(offs) < Rows(N, my_dim_sizes) =>
         Standing(N, my_start_coord, my_dim_sizes, coord, Len(offs))
    /\ pc = "carry" => IF N = 1 THEN Len(offs) = Rows(N, my_dim_sizes)
                       ELSE Carrying(N, my_start_coord, my_dim_sizes, coord, l, Len(offs))
    /\ pc = "xfer" => Len(offs) = Rows(N, my_dim_sizes)

\* Rows are transferred in their order.
Transferred ==
  pc \notin {"prep", "oversize"} =>
    /\ ~Nonempty => nbytes = 0 /\ xferred = <<>>
    /\ Nonempty =>
         /\ \E r \in 0 .. Rows(N, my_dim_sizes) : nbytes = r * my_dim_sizes[N - 1]
         /\ pc \in {"row", "carry", "view"} => nbytes = 0
         /\ pc = "done" => nbytes = Size(N, my_dim_sizes)
         /\ pc # "failed"
         /\ Buffered(cart, access, my_start_coord, my_dim_sizes, nbytes, xferred)

IInv == TypeOK /\ Ways /\ Blocked /\ Carries /\ Counted /\ Transferred

\* What follows for the block.
LEMMA BlockFacts ==
  ASSUME IInv, pc \notin {"prep", "oversize"}
  PROVE  /\ N \in Nat \ {0} /\ Dims(cart) = 0 .. N - 1 /\ cart \in Carts
         /\ Boxed(N, cart.g_dim_sizes, my_start_coord, my_dim_sizes)
         /\ Rows(N, my_dim_sizes) \in Nat /\ my_dim_sizes[N - 1] \in Nat
         /\ Size(N, my_dim_sizes) = Rows(N, my_dim_sizes) * my_dim_sizes[N - 1]
         /\ Size(N, my_dim_sizes) \in Nat
         /\ Nonempty => Radices(N, my_dim_sizes) /\ my_dim_sizes[N - 1] \in Nat \ {0}
         /\ Last = N - 1 /\ ReqSize = my_dim_sizes[N - 1]
         /\ OffsLen = Rows(N, my_dim_sizes) /\ MySize = Size(N, my_dim_sizes)
         /\ \A x : Linear(x) = High(N, cart.g_dim_sizes, x)
<1>1. cart \in Carts /\ task_id \in Tasks(cart)
  BY DEF IInv, TypeOK
<1>2. N \in Nat \ {0} /\ Dims(cart) = 0 .. N - 1
  BY <1>1, CartFacts DEF N
<1>3. /\ my_start_coord = Starts(cart, task_id)
      /\ my_dim_sizes = Sizes(cart, task_id)
      /\ ~TooLarge(cart, task_id)
  BY DEF IInv, Blocked
<1>4. Boxed(N, cart.g_dim_sizes, my_start_coord, my_dim_sizes)
  BY <1>1, <1>3, Blocks DEF N
<1> DEFINE n == N
           B == my_dim_sizes
<1>5. n \in Nat \ {0} /\ n \in Nat /\ \A j \in 0 .. n - 1 : B[j] \in Nat
  BY <1>2, <1>4 DEF Boxed
<1> HIDE DEF n, B
<1>6. /\ Rows(n, B) \in Nat /\ B[n - 1] \in Nat /\ Size(n, B) = Rows(n, B) * B[n - 1]
      /\ Radices(n, B) => B[n - 1] \in Nat \ {0}
  BY <1>5, RowsOfSize
<1>7. Size(n, B) \in Nat /\ (Size(n, B) # 0 <=> Radices(n, B))
  BY <1>5, SizeRadices
<1>8. Nonempty <=> Size(n, B) # 0
  BY DEF Nonempty, n, B
<1>9. /\ Last = N - 1 /\ ReqSize = B[N - 1] /\ OffsLen = Rows(N, B) % UIntMod /\ MySize = Size(N, B)
      /\ \A x : Linear(x) = High(N, cart.g_dim_sizes, x)
  BY <1>1, InTerms DEF N, B
<1>10. OffsLen = Rows(N, B)
  BY <1>1, <1>3, <1>9, BlockFits DEF N, B
<1> QED BY <1>1, <1>2, <1>4, <1>6, <1>7, <1>8, <1>9, <1>10 DEF n, B

\* The invariant holds initially.
LEMMA InitInv ==
  ASSUME Init
  PROVE  IInv
<1>1. <<>> \in Seq(Nat)
  OBVIOUS
<1>2. TypeOK
  BY <1>1 DEF Init, TypeOK
<1>3. Ways /\ Blocked /\ Carries /\ Counted /\ Transferred
  BY DEF Init, Ways, Blocked, Carries, Counted, Transferred
<1> QED BY <1>2, <1>3 DEF IInv

\* What no action but the first changes.
LEMMA BlockStays ==
  ASSUME IInv, UNCHANGED <<given, block>>, pc \notin {"prep", "oversize"},
         pc' \notin {"prep", "oversize"}
  PROVE  /\ cart' = cart /\ access' = access /\ task_id' = task_id
         /\ my_start_coord' = my_start_coord /\ my_dim_sizes' = my_dim_sizes
         /\ N' = N /\ Nonempty' = Nonempty /\ Dims(cart)' = Dims(cart)
         /\ Blocked'
<1>1. /\ cart' = cart /\ access' = access /\ task_id' = task_id
      /\ my_start_coord' = my_start_coord /\ my_dim_sizes' = my_dim_sizes
  BY DEF given, block
<1>2. N' = N /\ Nonempty' = Nonempty /\ Dims(cart)' = Dims(cart)
  BY <1>1 DEF N, Nonempty
<1>3. Blocked'
  BY <1>1 DEF IInv, Blocked
<1> QED BY <1>1, <1>2, <1>3

\* Every action preserves the invariant.
LEMMA PrepStep ==
  ASSUME IInv, Prep
  PROVE  IInv'
<1> DEFINE n == cart.num_dims
           S == Starts(cart, task_id)
           B == Sizes(cart, task_id)
           bad == TooLarge(cart, task_id)
<1>1. cart \in Carts /\ access \in Access /\ task_id \in Tasks(cart)
  BY DEF IInv, TypeOK
<1>2. /\ n \in Nat \ {0} /\ n \in Nat /\ Dims(cart) = 0 .. n - 1
      /\ \A j \in Dims(cart) : S[j] = StartOf(cart, task_id, j) /\ B[j] = SizeOf(cart, task_id, j)
      /\ \A j \in Dims(cart) : S[j] \in Nat /\ B[j] \in Nat
      /\ ~bad => Boxed(n, cart.g_dim_sizes, S, B)
  <2>1. /\ \A j \in Dims(cart) : S[j] = StartOf(cart, task_id, j) /\ B[j] = SizeOf(cart, task_id, j)
        /\ \A j \in Dims(cart) : StartOf(cart, task_id, j) \in Nat /\ SizeOf(cart, task_id, j) \in Nat
        /\ ~bad => Boxed(n, cart.g_dim_sizes, S, B)
    BY <1>1, Blocks
  <2> QED BY <1>1, <2>1, CartFacts
<1>3. pc = "prep" /\ offs = <<>> /\ nbytes = 0 /\ xferred = <<>>
  BY DEF Prep, IInv, TypeOK
<1>4. /\ cart' = cart /\ access' = access /\ task_id' = task_id
      /\ offs' = <<>> /\ nbytes' = 0 /\ xferred' = <<>>
  BY <1>3 DEF Prep, given
<1>5. my_start_coord' = S /\ my_dim_sizes' = B /\ coord' = S
  BY <1>1, InTerms DEF Prep
<1>6. pc' = IF bad THEN "oversize" ELSE IF access = "mpi view" THEN "view" ELSE "row"
  <2>1. \A i \in Dims(cart) : my_dim_sizes'[i] = SizeOf(cart, task_id, i) /\ MaxDimSize(i) = Side(cart, i)
    BY <1>1, <1>2, <1>5, InTerms
  <2>2. Oversize <=> bad
    BY <2>1 DEF Oversize, TooLarge
  <2> QED BY <2>2 DEF Prep
<1>7. S \in [Dims(cart) -> Nat]
  BY <1>2 DEF Starts
<1>8. N' = n /\ Dims(cart)' = Dims(cart) /\ Nonempty' = (Size(n, B) # 0)
  BY <1>4, <1>5 DEF N, Nonempty
<1> HIDE DEF n, S, B, bad
<1>9. TypeOK'
  <2>1. <<>> \in Seq(Nat)
    OBVIOUS
  <2>2. offs' \in Seq(Nat) /\ nbytes' \in Nat /\ pc' # "prep"
    BY <1>4, <1>6, <2>1
  <2>3. pc' \in {"prep", "row", "carry", "xfer", "view", "done", "failed", "oversize"}
    BY <1>6
  <2>4. coord' \in [Dims(cart)' -> Nat]
    BY <1>5, <1>7, <1>8
  <2>5. cart' \in Carts /\ access' \in Access /\ task_id' \in Tasks(cart')
    BY <1>1, <1>4
  <2> QED BY <2>2, <2>3, <2>4, <2>5 DEF TypeOK
<1>10. Ways'
  BY <1>4, <1>6 DEF Ways
<1>11. Blocked'
  BY <1>4, <1>5, <1>6 DEF Blocked, S, B, bad
<1>12. Carries'
  BY <1>6 DEF Carries
<1>13. ASSUME ~bad, Size(n, B) # 0
       PROVE  /\ Boxed(n, cart.g_dim_sizes, S, B) /\ Radices(n, B)
              /\ Rows(n, B) \in Nat /\ B[n - 1] \in Nat
              /\ Size(n, B) \in Nat
  <2>1. \A j \in 0 .. n - 1 : B[j] \in Nat
    BY <1>2
  <2>2. Rows(n, B) \in Nat /\ B[n - 1] \in Nat
    BY <1>2, <2>1, RowsOfSize
  <2>3. Size(n, B) \in Nat /\ (Size(n, B) # 0 <=> Radices(n, B))
    BY <1>2, <2>1, SizeRadices
  <2> QED BY <1>2, <1>13, <2>2, <2>3
<1>14. Counted'
  <2> SUFFICES ASSUME pc' = "row", Size(n, B) # 0
               PROVE  /\ Listed(cart, access, S, B, <<>>)
                      /\ Standing(n, S, B, S, 0)
    <3>1. Len(<<>>) = 0
      OBVIOUS
    <3>2. ~(pc' = "carry") /\ ~(pc' = "xfer")
      BY <1>6
    <3> QED BY <1>4, <1>5, <1>8, <3>1, <3>2 DEF Counted
  <2>1. ~bad
    BY <1>6
  <2>2. Standing(n, S, B, S, 0)
    BY <1>13, <2>1, StartsStanding
  <2>3. Len(<<>>) = 0 /\ 1 .. 0 = {}
    OBVIOUS
  <2>4. 0 <= Rows(n, B)
    BY <1>13, <2>1
  <2>5. Listed(cart, access, S, B, <<>>)
    BY <2>3, <2>4 DEF Listed, n
  <2> QED BY <2>2, <2>5
<1>15. Transferred'
  <2> SUFFICES ASSUME pc' \in {"row", "view"}, Size(n, B) # 0
               PROVE  /\ \E r \in 0 .. Rows(n, B) : 0 = r * B[n - 1]
                      /\ Buffered(cart, access, S, B, 0, <<>>)
    <3>1. pc' \in {"row", "view", "oversize"}
      BY <1>6
    <3> QED BY <1>4, <1>5, <1>8, <3>1 DEF Transferred
  <2>1. ~bad
    BY <1>6
  <2>2. 0 \in 0 .. Rows(n, B) /\ 0 = 0 * B[n - 1]
    BY <1>13, <2>1
  <2> QED BY <2>2, BufferedNone
<1> QED BY <1>9, <1>10, <1>11, <1>12, <1>14, <1>15 DEF IInv

\* Helpers of the steps.
LEMMA HighNat ==
  ASSUME NEW n \in Nat, NEW R, Radices(n, R), NEW d, Counts(n, d)
  PROVE  High(n, R, d) \in Nat
<1>1. PICK s : Values(n, HighWeights(n, R), Mirrored(n, d), s) /\ s[n] = High(n, R, d)
  BY HighValues DEF Counts
<1>2. n \in 0 .. n
  OBVIOUS
<1> QED BY <1>1, <1>2 DEF Values

LEMMA LenIsNat == ASSUME NEW s \in Seq(Nat) PROVE Len(s) \in Nat
OBVIOUS

LEMMA CountsUp ==
  ASSUME NEW T, NEW d \in [T -> Nat]
  PROVE  \A i \in T : [d EXCEPT ![i] = @ + 1] \in [T -> Nat]
OBVIOUS

LEMMA AppendsOne ==
  ASSUME NEW s \in Seq(Nat), NEW x \in Nat
  PROVE  Append(s, x) \in Seq(Nat) /\ Len(Append(s, x)) = Len(s) + 1
OBVIOUS

\* A dataset of one dimension has one row.
LEMMA OneRowOnly == ASSUME NEW B PROVE Rows(1, B) = 1
<1> DEFINE k == 1 - 2
<1>1. k \in Int /\ 0 > k /\ 0 \in Int /\ \A x \in 0 .. k : B[x] \in Nat
  OBVIOUS
<1> HIDE DEF k
<1>2. ProductOnSet(B, 0 .. k) = 1
  BY <1>1, ProductInterval
<1> QED BY <1>2 DEF Rows, k

\* Where nothing is transferred.
LEMMA TransferredStays ==
  ASSUME IInv, UNCHANGED <<given, block, nbytes, xferred>>, pc \notin {"prep", "oversize"},
         pc' \in {"row", "carry", "xfer"},
         pc' \in {"row", "carry"} => pc \in {"row", "carry"}
  PROVE  Transferred'
<1>1. UNCHANGED <<given, block>> /\ pc' \notin {"prep", "oversize"}
  OBVIOUS
<1>2. /\ cart' = cart /\ access' = access
      /\ my_start_coord' = my_start_coord /\ my_dim_sizes' = my_dim_sizes
      /\ N' = N /\ Nonempty' = Nonempty
  BY <1>1, BlockStays
<1>3. nbytes' = nbytes /\ xferred' = xferred
  OBVIOUS
<1>4. Transferred
  BY DEF IInv
<1> QED BY <1>2, <1>3, <1>4 DEF Transferred

\* The places in a file of a task's own are not cut.
LEMMA OffsetUncut ==
  ASSUME NEW r \in Nat, NEW k \in Nat, k < r, NEW b \in Nat, NEW u \in Nat, NEW s, s = r * b, s < u,
         NEW x, x = k * b
  PROVE  x \in Nat /\ x % u = x
<1>1. x \in Nat /\ s \in Nat
  OBVIOUS
<1>2. k * b <= r * b
  BY k <= r, b <= b, FactorsGrow
<1>3. x < u
  <2>1. x <= s
    BY <1>2
  <2> QED BY ONLY <1>1, <2>1, s < u, u \in Nat
<1> QED BY ONLY <1>1, <1>3, u \in Nat

LEMMA RowStep ==
  ASSUME IInv, Row
  PROVE  IInv'
<1> DEFINE G == cart.g_dim_sizes
           S == my_start_coord
           B == my_dim_sizes
           k == Len(offs)
           b == B[N - 1]
<1>1. pc = "row" /\ offs' = Append(offs, Offset) /\ UNCHANGED <<given, block, nbytes, xferred>>
  BY DEF Row
<1>2. CASE cart.file_mode = "NX1"
  <2>1. l' = Last - 1 /\ coord' = Advanced /\ pc' = "carry"
    BY <1>2 DEF Row
  <2>2. /\ UNCHANGED <<given, block>> /\ pc \notin {"prep", "oversize"} /\ pc' \notin {"prep", "oversize"}
    BY <1>1, <2>1
  <2>3. /\ cart' = cart /\ access' = access /\ task_id' = task_id
        /\ my_start_coord' = S /\ my_dim_sizes' = B
        /\ N' = N /\ Nonempty' = Nonempty /\ Dims(cart)' = Dims(cart)
        /\ Blocked'
    BY <2>2, BlockStays
  <2>4. /\ N \in Nat \ {0} /\ N \in Nat /\ Dims(cart) = 0 .. N - 1 /\ Boxed(N, G, S, B)
        /\ Rows(N, B) \in Nat /\ Last = N - 1 /\ OffsLen = Rows(N, B)
        /\ Nonempty => Radices(N, B)
        /\ \A x : Linear(x) = High(N, G, x)
    BY <2>2, BlockFacts
  <2>5. /\ offs \in Seq(Nat) /\ coord \in [Dims(cart) -> Nat] /\ nbytes \in Nat
        /\ cart \in Carts /\ access \in Access /\ task_id \in Tasks(cart) /\ access # "mpi view"
    BY <1>1 DEF IInv, TypeOK, Ways
  <2>6. k \in Nat /\ k < Rows(N, B)
    <3>1. Len(offs) < OffsLen
      BY DEF Row
    <3>2. Len(offs) \in Nat
      BY <2>5, LenIsNat
    <3> QED BY <2>4, <3>1, <3>2
  <2>7. Offset = High(N, G, coord) /\ Offset \in Nat
    <3>1. Counts(N, coord)
      BY <2>4, <2>5 DEF Counts
    <3>2. Radices(N, G)
      BY <2>4 DEF Boxed
    <3>3. High(N, G, coord) \in Nat
      BY <2>4, <3>1, <3>2, HighNat
    <3> QED BY <1>2, <2>4, <3>3 DEF Offset
  <2>8. offs' \in Seq(Nat) /\ Len(offs') = k + 1
    BY <1>1, <2>5, <2>7, AppendsOne
  <2>9. l' = N - 2 /\ (IF N = 1 THEN l' = -1 ELSE l' \in 0 .. N - 2 /\ l' \in Dims(cart))
    <3> HIDE DEF G, S, B, k, b
    <3> QED BY <2>1, <2>4
  <2>10. coord' \in [Dims(cart) -> Nat]
    <3>1. coord' = IF l' \in Dims(cart) THEN [coord EXCEPT ![l'] = @ + 1] ELSE coord
      BY <2>1 DEF Advanced
    <3>2. \A i \in Dims(cart) : [coord EXCEPT ![i] = @ + 1] \in [Dims(cart) -> Nat]
      BY <2>5, CountsUp
    <3> QED BY <2>5, <3>1, <3>2
  <2>11. TypeOK'
    BY <1>1, <2>1, <2>3, <2>5, <2>8, <2>10 DEF TypeOK
  <2>12. Ways'
    BY <2>1, <2>3, <2>5 DEF Ways
  <2>13. Carries'
    BY <1>2, <2>3, <2>9 DEF Carries
  <2>14. Transferred'
    <3>1. pc \notin {"prep", "oversize"} /\ pc' \in {"row", "carry", "xfer"}
          /\ (pc' \in {"row", "carry"} => pc \in {"row", "carry"})
      BY <1>1, <2>1
    <3> QED BY <1>1, <3>1, TransferredStays
  <2>15. Counted'
    <3> SUFFICES ASSUME Nonempty
                 PROVE  /\ Listed(cart, access, S, B, offs')
                        /\ IF N = 1 THEN Len(offs') = Rows(N, B) ELSE Carrying(N, S, B, coord', l', Len(offs'))
      BY <2>1, <2>3 DEF Counted
    <3>1. Listed(cart, access, S, B, offs) /\ Standing(N, S, B, coord, k)
      BY <1>1, <1>2, <2>6 DEF IInv, Counted
    <3>2. High(N, G, coord) = PlaceOf(N, G, S, B, k * b)
      BY <2>4, <2>6, <3>1, StandingPlace
    <3>3. Offset = PlaceIn(cart, access, S, B, k * b)
      BY <1>2, <2>7, <3>2 DEF PlaceIn, N
    <3>4. Listed(cart, access, S, B, offs')
      BY <1>1, <2>4, <2>5, <2>6, <3>1, <3>3, ListedMore DEF N
    <3>5. ASSUME N = 1 PROVE Len(offs') = Rows(N, B)
      <4>1. Rows(N, B) = 1
        BY <3>5, OneRowOnly
      <4> QED BY <2>6, <2>8, <4>1
    <3>6. ASSUME N # 1 PROVE Carrying(N, S, B, coord', l', Len(offs'))
      <4>1. coord' = [coord EXCEPT ![N - 2] = @ + 1]
        BY <2>1, <2>9, <3>6 DEF Advanced
      <4>2. Further(N, coord, coord', N - 2, 1)
        <5>1. N - 2 \in Dims(cart)
          BY <2>9, <3>6
        <5>2. \A i \in Dims(cart) : coord'[i] = IF i = N - 2 THEN coord[i] + 1 ELSE coord[i]
          BY <2>5, <4>1
        <5> QED BY <2>4, <5>1, <5>2 DEF Further
      <4>3. N > 1
        BY <2>4, <3>6
      <4>4. Carrying(N, S, B, coord', N - 2, k + 1)
        BY <2>4, <2>6, <3>1, <4>2, <4>3, StandingOn
      <4> QED BY <2>8, <2>9, <4>4
    <3> QED BY <3>4, <3>5, <3>6
  <2> QED BY <2>3, <2>11, <2>12, <2>13, <2>14, <2>15 DEF IInv
<1>3. CASE cart.file_mode # "NX1"
  <2>1. UNCHANGED <<l, coord, pc>>
    BY <1>3 DEF Row
  <2>2. /\ UNCHANGED <<given, block>> /\ pc \notin {"prep", "oversize"} /\ pc' \notin {"prep", "oversize"}
    BY <1>1, <2>1
  <2>3. /\ cart' = cart /\ access' = access /\ task_id' = task_id
        /\ my_start_coord' = S /\ my_dim_sizes' = B
        /\ N' = N /\ Nonempty' = Nonempty /\ Dims(cart)' = Dims(cart)
        /\ Blocked'
    BY <2>2, BlockStays
  <2>4. /\ N \in Nat \ {0} /\ Last = N - 1 /\ b \in Nat /\ Rows(N, B) \in Nat /\ OffsLen = Rows(N, B)
    BY <2>2, BlockFacts
  <2>5. /\ offs \in Seq(Nat) /\ coord \in [Dims(cart) -> Nat] /\ nbytes \in Nat
        /\ cart \in Carts /\ access \in Access /\ task_id \in Tasks(cart) /\ access # "mpi view"
    BY <1>1 DEF IInv, TypeOK, Ways
  <2>6. k \in Nat /\ k < Rows(N, B)
    <3>1. Len(offs) < OffsLen
      BY DEF Row
    <3>2. Len(offs) \in Nat
      BY <2>5, LenIsNat
    <3> QED BY <2>4, <3>1, <3>2
  <2>7. Offset = k * b /\ Offset \in Nat
    <3>1. Offset = (k * b) % UIntMod
      BY <1>3, <2>4 DEF Offset
    <3>2. Size(N, B) = Rows(N, B) * b /\ Size(N, B) < UIntMod /\ UIntMod \in Nat
      <4>1. Size(N, B) = Rows(N, B) * b
        BY <2>2, BlockFacts
      <4>2. B = Sizes(cart, task_id) /\ ~TooLarge(cart, task_id)
        BY <1>1 DEF IInv, Blocked
      <4>3. Size(N, B) < UIntMod
        BY <2>5, <4>2, BlockFits DEF N
      <4>4. UIntMod \in Nat
        BY CartDsetAssumption
      <4> QED BY <4>1, <4>3, <4>4
    <3>3. k * b \in Nat /\ (k * b) % UIntMod = k * b
      <4> DEFINE r == Rows(N, B)
                 s == Size(N, B)
                 x == k * b
                 u == UIntMod
      <4>1. k \in Nat /\ k < r /\ r \in Nat /\ b \in Nat
        BY <2>4, <2>6
      <4>2. s = r * b /\ s < u /\ u \in Nat
        BY <3>2
      <4>3. x = k * b
        OBVIOUS
      <4> HIDE DEF k, b, B, r, s, x, u
      <4>4. x \in Nat /\ x % u = x
        BY ONLY <4>1, <4>2, <4>3, OffsetUncut
      <4> QED BY <4>4 DEF x, u
    <3> QED BY <3>1, <3>3
  <2>8. offs' \in Seq(Nat)
    BY <1>1, <2>5, <2>7, AppendsOne
  <2>11. TypeOK'
    BY <1>1, <2>1, <2>3, <2>5, <2>8 DEF TypeOK
  <2>12. Ways'
    BY <1>1, <2>1, <2>3, <2>5 DEF Ways
  <2>13. Carries'
    BY <1>1, <2>1 DEF Carries
  <2>14. Transferred'
    <3>1. pc \notin {"prep", "oversize"} /\ pc' \in {"row", "carry", "xfer"}
          /\ (pc' \in {"row", "carry"} => pc \in {"row", "carry"})
      BY <1>1, <2>1
    <3> QED BY <1>1, <3>1, TransferredStays
  <2>15. Counted'
    <3> SUFFICES ASSUME Nonempty
                 PROVE  Listed(cart, access, S, B, offs')
      BY <1>1, <1>3, <2>1, <2>3 DEF Counted
    <3>1. Listed(cart, access, S, B, offs)
      BY <1>1 DEF IInv, Counted
    <3>3. Offset = PlaceIn(cart, access, S, B, k * b)
      BY <1>3, <2>5, <2>7 DEF PlaceIn
    <3> QED BY <1>1, <2>4, <2>5, <2>6, <3>1, <3>3, ListedMore DEF N
  <2> QED BY <2>3, <2>11, <2>12, <2>13, <2>14, <2>15 DEF IInv
<1> QED BY <1>2, <1>3

\* What all states have where the block is known.
LEMMA StateFacts ==
  ASSUME IInv, pc \notin {"prep", "oversize"}
  PROVE  /\ offs \in Seq(Nat) /\ Len(offs) \in Nat
         /\ coord \in [Dims(cart) -> Nat] /\ nbytes \in Nat
         /\ cart \in Carts /\ access \in Access /\ task_id \in Tasks(cart)
<1>1. /\ offs \in Seq(Nat) /\ coord \in [Dims(cart) -> Nat] /\ nbytes \in Nat
      /\ cart \in Carts /\ access \in Access /\ task_id \in Tasks(cart)
  BY DEF IInv, TypeOK
<1>2. Len(offs) \in Nat
  BY <1>1, LenIsNat
<1> QED BY <1>1, <1>2

LEMMA CarryStep ==
  ASSUME IInv, Carry
  PROVE  IInv'
<1> DEFINE G == cart.g_dim_sizes
           S == my_start_coord
           B == my_dim_sizes
<1>1. /\ pc = "carry" /\ pc' = "carry" /\ offs' = offs /\ UNCHANGED <<given, block, nbytes, xferred>>
      /\ l > 0 /\ coord[l] = S[l] + B[l] /\ l' = l - 1
      /\ coord' = [coord EXCEPT ![l] = S[l], ![l - 1] = @ + 1]
  BY DEF Carry, Full
<1>2. /\ UNCHANGED <<given, block>> /\ pc \notin {"prep", "oversize"} /\ pc' \notin {"prep", "oversize"}
  BY <1>1
<1>3. /\ cart' = cart /\ access' = access /\ task_id' = task_id
      /\ my_start_coord' = S /\ my_dim_sizes' = B
      /\ N' = N /\ Nonempty' = Nonempty /\ Dims(cart)' = Dims(cart)
      /\ Blocked'
  BY <1>2, BlockStays
<1>4. /\ N \in Nat \ {0} /\ N \in Nat /\ Dims(cart) = 0 .. N - 1 /\ Boxed(N, G, S, B)
      /\ Nonempty => Radices(N, B)
  BY <1>2, BlockFacts
<1>5. /\ offs \in Seq(Nat) /\ Len(offs) \in Nat /\ coord \in [Dims(cart) -> Nat] /\ nbytes \in Nat
      /\ cart \in Carts /\ access \in Access /\ task_id \in Tasks(cart)
  BY <1>2, StateFacts
<1>6. /\ cart.file_mode = "NX1" /\ (IF N = 1 THEN l = -1 ELSE l \in 0 .. N - 2)
      /\ access # "mpi view"
  BY <1>1 DEF IInv, Carries, Ways
<1>7. N # 1 /\ l \in 1 .. N - 2 /\ l - 1 \in 0 .. N - 2 /\ l \in 0 .. N - 1 /\ l - 1 \in 0 .. N - 1 /\ l # l - 1
  <2>1. l > 0
    BY <1>1
  <2>2. N # 1
    <3>1. l = -1 => ~(l > 0)
      OBVIOUS
    <3> QED BY <1>6, <2>1, <3>1
  <2>3. l \in 0 .. N - 2 /\ N \in Nat
    BY <1>4, <1>6, <2>2
  <2> QED BY ONLY <2>1, <2>2, <2>3
<1>8. /\ coord'[l] = S[l] /\ coord'[l - 1] = coord[l - 1] + 1
      /\ \A j \in 0 .. N - 1 : j # l /\ j # l - 1 => coord'[j] = coord[j]
      /\ DOMAIN coord' = Dims(cart)
  <2> DEFINE h == l - 1
  <2>1. h \in Dims(cart) /\ l \in Dims(cart) /\ h # l
    BY <1>4, <1>7
  <2>2. coord' = [coord EXCEPT ![l] = S[l], ![h] = @ + 1]
    BY <1>1
  <2>3. DOMAIN coord = Dims(cart)
    BY <1>5
  <2> HIDE DEF h
  <2>4. /\ coord'[l] = S[l] /\ coord'[h] = coord[h] + 1
        /\ \A j \in Dims(cart) : j # l /\ j # h => coord'[j] = coord[j]
        /\ DOMAIN coord' = Dims(cart)
    BY <2>1, <2>2, <2>3
  <2> QED BY <1>4, <2>4 DEF h
<1>9. coord' \in [Dims(cart) -> Nat]
  <2>1. ASSUME NEW j \in Dims(cart) PROVE coord'[j] \in Nat
    <3>1. coord[j] \in Nat /\ S[j] \in Nat
      BY <1>4, <1>5 DEF Boxed
    <3>2. CASE j = l
      BY <1>8, <3>1, <3>2
    <3>3. CASE j = l - 1
      BY <1>8, <3>1, <3>3
    <3>4. CASE j # l /\ j # l - 1
      BY <1>4, <1>8, <3>1, <3>4
    <3> QED BY <3>2, <3>3, <3>4
  <2>2. coord' = [j \in Dims(cart) |-> coord'[j]]
    BY <1>1, <1>5
  <2> QED BY <2>1, <2>2
<1>10. TypeOK'
  BY <1>1, <1>3, <1>5, <1>9 DEF TypeOK
<1>11. Ways'
  BY <1>1, <1>3, <1>6 DEF Ways
<1>12. Carries'
  BY <1>1, <1>3, <1>6, <1>7 DEF Carries
<1>13. Transferred'
  <2>1. pc \notin {"prep", "oversize"} /\ pc' \in {"row", "carry", "xfer"}
        /\ (pc' \in {"row", "carry"} => pc \in {"row", "carry"})
    BY <1>1
  <2> QED BY <1>1, <2>1, TransferredStays
<1>14. Counted'
  <2> SUFFICES ASSUME Nonempty
               PROVE  /\ Listed(cart, access, S, B, offs)
                      /\ Carrying(N, S, B, coord', l - 1, Len(offs))
    BY <1>1, <1>3, <1>7 DEF Counted
  <2>1. Listed(cart, access, S, B, offs) /\ Carrying(N, S, B, coord, l, Len(offs))
    BY <1>1, <1>7 DEF IInv, Counted
  <2>2. coord[l] = S[l] + B[l]
    BY <1>1
  <2> QED BY <1>4, <1>5, <1>7, <1>8, <2>1, <2>2, CarryingOn
<1> QED BY <1>3, <1>10, <1>11, <1>12, <1>13, <1>14 DEF IInv

LEMMA CarryEndStep ==
  ASSUME IInv, CarryEnd
  PROVE  IInv'
<1> DEFINE G == cart.g_dim_sizes
           S == my_start_coord
           B == my_dim_sizes
<1>1. /\ pc = "carry" /\ pc' = "row" /\ offs' = offs /\ coord' = coord /\ l' = l
      /\ UNCHANGED <<given, block, nbytes, xferred>>
      /\ ~(l > 0 /\ coord[l] = S[l] + B[l])
  BY DEF CarryEnd, Full
<1>2. /\ UNCHANGED <<given, block>> /\ pc \notin {"prep", "oversize"} /\ pc' \notin {"prep", "oversize"}
  BY <1>1
<1>3. /\ cart' = cart /\ access' = access /\ task_id' = task_id
      /\ my_start_coord' = S /\ my_dim_sizes' = B
      /\ N' = N /\ Nonempty' = Nonempty /\ Dims(cart)' = Dims(cart)
      /\ Blocked'
  BY <1>2, BlockStays
<1>4. /\ N \in Nat \ {0} /\ N \in Nat /\ Dims(cart) = 0 .. N - 1 /\ Boxed(N, G, S, B)
      /\ Rows(N, B) \in Nat
      /\ Nonempty => Radices(N, B)
  BY <1>2, BlockFacts
<1>5. /\ offs \in Seq(Nat) /\ Len(offs) \in Nat /\ coord \in [Dims(cart) -> Nat] /\ nbytes \in Nat
      /\ cart \in Carts /\ access \in Access /\ task_id \in Tasks(cart)
  BY <1>2, StateFacts
<1>6. /\ cart.file_mode = "NX1" /\ (IF N = 1 THEN l = -1 ELSE l \in 0 .. N - 2)
      /\ access # "mpi view"
  BY <1>1 DEF IInv, Carries, Ways
<1>7. TypeOK'
  BY <1>1, <1>3, <1>5 DEF TypeOK
<1>8. Ways' /\ Carries'
  BY <1>1, <1>3, <1>6 DEF Ways, Carries
<1>9. Transferred'
  <2>1. pc \notin {"prep", "oversize"} /\ pc' \in {"row", "carry", "xfer"}
        /\ (pc' \in {"row", "carry"} => pc \in {"row", "carry"})
    BY <1>1
  <2> QED BY <1>1, <2>1, TransferredStays
<1>10. Counted'
  <2> SUFFICES ASSUME Nonempty
               PROVE  /\ Listed(cart, access, S, B, offs)
                      /\ Len(offs) < Rows(N, B) => Standing(N, S, B, coord, Len(offs))
    BY <1>1, <1>3 DEF Counted
  <2>1. /\ Listed(cart, access, S, B, offs)
        /\ IF N = 1 THEN Len(offs) = Rows(N, B) ELSE Carrying(N, S, B, coord, l, Len(offs))
    BY <1>1 DEF IInv, Counted
  <2>2. ASSUME Len(offs) < Rows(N, B) PROVE Standing(N, S, B, coord, Len(offs))
    <3>1. N # 1
      <4> DEFINE k == Len(offs)
                 r == Rows(N, B)
      <4>1. (N = 1 => k = r) /\ k < r /\ k \in Nat /\ r \in Nat
        BY <1>4, <1>5, <2>1, <2>2
      <4> HIDE DEF k, r
      <4> QED BY <4>1
    <3>2. l \in 0 .. N - 2 /\ Carrying(N, S, B, coord, l, Len(offs))
      BY <1>6, <2>1, <3>1
    <3> QED BY <1>1, <1>4, <1>5, <2>2, <3>2, CarryingEnd
  <2> QED BY <2>1, <2>2
<1> QED BY <1>3, <1>7, <1>8, <1>9, <1>10 DEF IInv

LEMMA RowsEndStep ==
  ASSUME IInv, RowsEnd
  PROVE  IInv'
<1> DEFINE B == my_dim_sizes
<1>1. /\ pc = "row" /\ pc' = "xfer" /\ offs' = offs /\ coord' = coord /\ l' = l
      /\ UNCHANGED <<given, block, nbytes, xferred>> /\ Len(offs) = OffsLen
  BY DEF RowsEnd
<1>2. /\ UNCHANGED <<given, block>> /\ pc \notin {"prep", "oversize"} /\ pc' \notin {"prep", "oversize"}
  BY <1>1
<1>3. /\ cart' = cart /\ access' = access /\ task_id' = task_id
      /\ my_start_coord' = my_start_coord /\ my_dim_sizes' = my_dim_sizes
      /\ N' = N /\ Nonempty' = Nonempty /\ Dims(cart)' = Dims(cart)
      /\ Blocked'
  BY <1>2, BlockStays
<1>4. OffsLen = Rows(N, B)
  BY <1>2, BlockFacts
<1>5. /\ offs \in Seq(Nat) /\ coord \in [Dims(cart) -> Nat] /\ nbytes \in Nat
      /\ cart \in Carts /\ access \in Access /\ task_id \in Tasks(cart)
  BY <1>2, StateFacts
<1>6. TypeOK'
  BY <1>1, <1>3, <1>5 DEF TypeOK
<1>7. Ways' /\ Carries'
  BY <1>1, <1>3 DEF Ways, Carries, IInv
<1>8. Transferred'
  <2>1. pc \notin {"prep", "oversize"} /\ pc' \in {"row", "carry", "xfer"}
        /\ (pc' \in {"row", "carry"} => pc \in {"row", "carry"})
    BY <1>1
  <2> QED BY <1>1, <2>1, TransferredStays
<1>9. Counted'
  BY <1>1, <1>3, <1>4 DEF IInv, Counted
<1> QED BY <1>3, <1>6, <1>7, <1>8, <1>9 DEF IInv

LEMMA XferStep ==
  ASSUME IInv, Xfer
  PROVE  IInv'
<1> DEFINE S == my_start_coord
           B == my_dim_sizes
           b == B[N - 1]
           rows == Rows(N, B)
           o == offs[Requests + 1]
           Places == o .. o + ReqSize - 1
<1>1. /\ pc = "xfer" /\ pc' = "xfer" /\ offs' = offs /\ coord' = coord /\ l' = l
      /\ UNCHANGED <<given, block>> /\ nbytes < MySize /\ nbytes' = nbytes + ReqSize
      /\ xferred' = [e \in DOMAIN xferred \cup Places |->
                       IF e \in Places THEN InBuffer(e - o) ELSE xferred[e]]
  BY Zenon DEF Xfer
<1>2. /\ UNCHANGED <<given, block>> /\ pc \notin {"prep", "oversize"} /\ pc' \notin {"prep", "oversize"}
  BY <1>1
<1>3. /\ cart' = cart /\ access' = access /\ task_id' = task_id
      /\ my_start_coord' = S /\ my_dim_sizes' = B
      /\ N' = N /\ Nonempty' = Nonempty /\ Dims(cart)' = Dims(cart)
      /\ Blocked'
  BY <1>2, BlockStays
<1>4. /\ N \in Nat \ {0} /\ Boxed(N, cart.g_dim_sizes, S, B)
      /\ rows \in Nat /\ Size(N, B) = rows * b /\ Size(N, B) \in Nat
      /\ Nonempty => Radices(N, B) /\ b \in Nat \ {0}
      /\ ReqSize = b /\ MySize = Size(N, B)
  BY <1>2, BlockFacts
<1>5. /\ offs \in Seq(Nat) /\ coord \in [Dims(cart) -> Nat] /\ nbytes \in Nat
      /\ cart \in Carts /\ access \in Access /\ task_id \in Tasks(cart)
  BY <1>2, StateFacts
<1>6. Nonempty
  BY <1>1, <1>4, <1>5 DEF Nonempty
<1>7. Radices(N, B) /\ b \in Nat \ {0}
  BY <1>4, <1>6
<1>8. /\ Listed(cart, access, S, B, offs) /\ Len(offs) = rows
      /\ \E r \in 0 .. rows : nbytes = r * b
      /\ Buffered(cart, access, S, B, nbytes, xferred)
  BY <1>1, <1>6 DEF IInv, Counted, Transferred
<1>9. PICK r \in 0 .. rows : nbytes = r * b
  BY <1>8
<1> HIDE DEF b, rows
<1>10. r \in Nat /\ r < rows /\ nbytes \div b = r /\ (r + 1) * b = nbytes + b /\ r + 1 \in 0 .. rows
  <2>1. r \in Nat
    BY <1>4
  <2>2. nbytes < rows * b
    BY <1>1, <1>4
  <2>3. r < rows /\ nbytes \div b = r /\ (r + 1) * b = nbytes + b
    BY <1>4, <1>7, <1>9, <2>1, <2>2, RowsLess
  <2> QED BY <1>4, <2>1, <2>3
<1>11. o = PlaceIn(cart, access, S, B, r * b)
  <2>1. Requests = r
    BY <1>4, <1>10 DEF Requests
  <2>2. r + 1 \in 1 .. Len(offs) /\ (r + 1) - 1 = r
    BY <1>4, <1>8, <1>10
  <2>3. offs[r + 1] = PlaceIn(cart, access, S, B, ((r + 1) - 1) * b)
    BY <1>8, <2>2 DEF Listed, b, N
  <2> QED BY <2>1, <2>2, <2>3
<1>12. RowAdded(access, o, b, r * b, xferred, xferred')
  <2>1. Places = o .. o + b - 1
    BY <1>4
  <2> HIDE DEF Places, o
  <2>2. /\ DOMAIN xferred' = DOMAIN xferred \cup Places
        /\ \A e \in Places : xferred'[e] = InBuffer(e - o)
        /\ \A e \in DOMAIN xferred : e \notin Places => xferred'[e] = xferred[e]
    BY <1>1
  <2>3. \A k : InBuffer(k) = IF access = "mpi seek" THEN k ELSE r * b + k
    BY <1>9 DEF InBuffer
  <2> QED BY <2>1, <2>2, <2>3 DEF RowAdded
<1>13. Buffered(cart, access, S, B, (r + 1) * b, xferred')
  <2> DEFINE y == xferred'
  <2>1. RowAdded(access, o, b, r * b, xferred, y)
    BY <1>12
  <2>2. b = B[cart.num_dims - 1] /\ Buffered(cart, access, S, B, r * b, xferred)
    BY <1>8, <1>9 DEF b, N
  <2>3. Boxed(cart.num_dims, cart.g_dim_sizes, S, B) /\ Radices(cart.num_dims, B)
        /\ r < Rows(cart.num_dims, B)
    BY <1>4, <1>7, <1>10 DEF rows, N
  <2> HIDE DEF y, o
  <2>4. Buffered(cart, access, S, B, (r + 1) * b, y)
    BY <1>10, <1>11, <2>1, <2>2, <2>3, BufferedMore
  <2> QED BY <2>4 DEF y
<1>14. nbytes' = (r + 1) * b
  BY <1>1, <1>4, <1>10
<1>15. TypeOK'
  <2>1. nbytes' \in Nat
    BY <1>1, <1>4, <1>5, <1>7
  <2> QED BY <1>1, <1>3, <1>5, <2>1 DEF TypeOK
<1>16. Ways' /\ Carries'
  BY <1>1, <1>3 DEF Ways, Carries, IInv
<1>17. Counted'
  BY <1>1, <1>3, <1>8 DEF Counted, rows
<1>18. Transferred'
  <2>1. \E x \in 0 .. rows : nbytes' = x * b
    BY <1>10, <1>14
  <2>2. Buffered(cart, access, S, B, nbytes', xferred')
    BY <1>13, <1>14
  <2> QED BY <1>1, <1>3, <1>6, <2>1, <2>2 DEF Transferred, rows, b
<1> QED BY <1>3, <1>15, <1>16, <1>17, <1>18 DEF IInv

LEMMA XferEndStep ==
  ASSUME IInv, XferEnd
  PROVE  IInv'
<1> DEFINE B == my_dim_sizes
           b == B[N - 1]
           rows == Rows(N, B)
<1>1. /\ pc = "xfer" /\ pc' = "done" /\ offs' = offs /\ coord' = coord /\ nbytes' = nbytes
      /\ xferred' = xferred /\ UNCHANGED <<given, block>> /\ nbytes >= MySize
  BY DEF XferEnd
<1>2. /\ UNCHANGED <<given, block>> /\ pc \notin {"prep", "oversize"} /\ pc' \notin {"prep", "oversize"}
  BY <1>1
<1>3. /\ cart' = cart /\ access' = access /\ task_id' = task_id
      /\ my_start_coord' = my_start_coord /\ my_dim_sizes' = B
      /\ N' = N /\ Nonempty' = Nonempty /\ Dims(cart)' = Dims(cart)
      /\ Blocked'
  BY <1>2, BlockStays
<1>4. /\ rows \in Nat /\ Size(N, B) = rows * b
      /\ Nonempty => b \in Nat \ {0}
      /\ MySize = Size(N, B)
  BY <1>2, BlockFacts
<1>5. /\ offs \in Seq(Nat) /\ coord \in [Dims(cart) -> Nat] /\ nbytes \in Nat
      /\ cart \in Carts /\ access \in Access /\ task_id \in Tasks(cart)
  BY <1>2, StateFacts
<1>6. TypeOK' /\ Ways' /\ Carries' /\ Counted'
  BY <1>1, <1>3, <1>5 DEF TypeOK, Ways, Carries, Counted
<1>7. ASSUME Nonempty PROVE nbytes = Size(N, B)
  <2>1. PICK r \in 0 .. rows : nbytes = r * b
    BY <1>1, <1>7 DEF IInv, Transferred
  <2> HIDE DEF rows, b
  <2>2. r \in Nat /\ r <= rows /\ b \in Nat \ {0}
    BY <1>4, <1>7
  <2>3. ~(r < rows)
    <3>1. r * b >= rows * b /\ r * b \in Nat /\ rows * b \in Nat
      BY <1>1, <1>4, <2>1, <2>2
    <3>2. r < rows => r * b < rows * b
      BY <1>4, <2>2, RowsLess
    <3> QED BY <3>1, <3>2
  <2>4. r = rows
    BY <1>4, <2>2, <2>3
  <2> QED BY <1>4, <2>1, <2>4
<1>8. Transferred'
  BY <1>1, <1>3, <1>7 DEF IInv, Transferred
<1> QED BY <1>3, <1>6, <1>8 DEF IInv

LEMMA XferViewStep ==
  ASSUME IInv, XferView
  PROVE  IInv'
<1> DEFINE S == my_start_coord
           B == my_dim_sizes
           b == B[N - 1]
           rows == Rows(N, B)
<1>1. /\ pc = "view" /\ pc' \in {"done", "failed"} /\ offs' = offs /\ coord' = coord
      /\ UNCHANGED <<given, block>>
      /\ IF MySize = 0 THEN pc' = "failed" /\ nbytes' = nbytes /\ xferred' = xferred
         ELSE /\ xferred' = [e \in View |-> Cardinality({f \in View : f < e})]
              /\ nbytes' = MySize /\ pc' = "done"
  <2>1. pc = "view" /\ UNCHANGED <<given, block, coord, l, offs>>
    BY DEF XferView
  <2>2. IF MySize = 0 THEN pc' = "failed" /\ nbytes' = nbytes /\ xferred' = xferred
         ELSE /\ xferred' = [e \in View |-> Cardinality({f \in View : f < e})]
              /\ nbytes' = MySize /\ pc' = "done"
    BY Zenon DEF XferView
  <2> QED BY <2>1, <2>2
<1>2. /\ UNCHANGED <<given, block>> /\ pc \notin {"prep", "oversize"} /\ pc' \notin {"prep", "oversize"}
  BY <1>1
<1>3. /\ cart' = cart /\ access' = access /\ task_id' = task_id
      /\ my_start_coord' = S /\ my_dim_sizes' = B
      /\ N' = N /\ Nonempty' = Nonempty /\ Dims(cart)' = Dims(cart)
      /\ Blocked'
  BY <1>2, BlockStays
<1>4. /\ N \in Nat \ {0} /\ Boxed(N, cart.g_dim_sizes, S, B)
      /\ rows \in Nat /\ Size(N, B) = rows * b /\ Size(N, B) \in Nat
      /\ Nonempty => Radices(N, B)
      /\ MySize = Size(N, B)
  BY <1>2, BlockFacts
<1>5. /\ offs \in Seq(Nat) /\ coord \in [Dims(cart) -> Nat] /\ nbytes \in Nat
      /\ cart \in Carts /\ access \in Access /\ task_id \in Tasks(cart) /\ access = "mpi view"
  BY <1>1, <1>2, StateFacts DEF IInv, Ways
<1>6. Nonempty <=> MySize # 0
  BY <1>4 DEF Nonempty
<1>7. TypeOK'
  <2>1. nbytes' \in Nat
    BY <1>1, <1>4, <1>5
  <2> QED BY <1>1, <1>3, <1>5, <2>1 DEF TypeOK
<1>8. Ways' /\ Carries' /\ Counted'
  BY <1>1, <1>3, <1>5 DEF Ways, Carries, Counted
<1>9. CASE ~Nonempty
  <2>1. pc' = "failed" /\ nbytes' = nbytes /\ xferred' = xferred
    BY <1>1, <1>6, <1>9
  <2>2. nbytes = 0 /\ xferred = <<>>
    BY <1>1, <1>9 DEF IInv, Transferred
  <2>3. Transferred'
    BY <1>3, <1>9, <2>1, <2>2 DEF Transferred
  <2> QED BY <1>3, <1>7, <1>8, <2>3 DEF IInv
<1>10. CASE Nonempty
  <2>1. /\ xferred' = [e \in View |-> Cardinality({f \in View : f < e})]
        /\ nbytes' = Size(N, B) /\ pc' = "done"
    BY <1>1, <1>4, <1>6, <1>10
  <2>2. View = {PlaceOf(N, cart.g_dim_sizes, S, B, q) : q \in 0 .. Size(N, B) - 1}
    BY <1>4, <1>5, <1>10, ViewIs DEF N
  <2>3. \A q : PlaceIn(cart, access, S, B, q) = PlaceOf(N, cart.g_dim_sizes, S, B, q)
    BY <1>5 DEF PlaceIn, N
  <2> DEFINE W == View
             y == xferred'
             c == cart
             a == access
  <2>4. y = [e \in W |-> Cardinality({f \in W : f < e})]
    BY <2>1
  <2>5. W = {PlaceIn(c, a, S, B, q) : q \in 0 .. Size(c.num_dims, B) - 1}
    BY <2>2, <2>3 DEF N
  <2>6. a # "mpi seek" /\ Boxed(c.num_dims, c.g_dim_sizes, S, B) /\ Radices(c.num_dims, B)
    BY <1>4, <1>5, <1>10 DEF N
  <2> HIDE DEF W, y, c, a
  <2>7. Buffered(c, a, S, B, Size(c.num_dims, B), y)
    BY <2>4, <2>5, <2>6, BufferedView
  <2>8. Buffered(cart, access, S, B, nbytes', xferred')
    BY <2>1, <2>7 DEF c, a, y, N
  <2>9. \E r \in 0 .. rows : nbytes' = r * b
    <3> HIDE DEF rows, b
    <3>1. rows \in 0 .. rows
      BY <1>4
    <3> QED BY <1>4, <2>1, <3>1
  <2>10. Transferred'
    BY <1>3, <1>10, <2>1, <2>8, <2>9 DEF Transferred, rows, b
  <2> QED BY <1>3, <1>7, <1>8, <2>10 DEF IInv
<1> QED BY <1>9, <1>10

LEMMA InvNext ==
  ASSUME IInv, [Next]_vars
  PROVE  IInv'
<1>1. CASE UNCHANGED vars
  <2>1. /\ UNCHANGED <<pc, coord, l, offs, nbytes, xferred, my_start_coord, my_dim_sizes>>
        /\ UNCHANGED <<cart, access, task_id>>
    BY <1>1 DEF vars, given, block
  <2>2. TypeOK' /\ Ways' /\ Blocked' /\ Carries'
    BY <2>1 DEF IInv, TypeOK, Ways, Blocked, Carries, N
  <2>3. Counted' /\ Transferred'
    BY <2>1 DEF IInv, Counted, Transferred, N, Nonempty
  <2> QED BY <2>2, <2>3 DEF IInv
<1>2. CASE Next
  BY <1>2, PrepStep, RowStep, CarryStep, CarryEndStep, RowsEndStep, XferStep, XferEndStep,
     XferViewStep DEF Next
<1> QED BY <1>1, <1>2

\* Whatever the dataset and the task: the list of offsets is that of the block's
\* first rows, coord stands at the first element of the next row or is carried
\* there by dset_to_off(), and as many rows as have been transferred are in the
\* buffer in the order of the file.
THEOREM Invariance == Spec => []IInv
<1>1. Init => IInv
  BY InitInv
<1>2. IInv /\ [Next]_vars => IInv'
  BY InvNext
<1> QED BY <1>1, <1>2, PTL DEF Spec

\* What a task owns, in the terms of the properties.
LEMMA OwnedIs ==
  ASSUME IInv, pc # "prep"
  PROVE  /\ Owned(cart, task_id)
              = {e \in 0 .. Product(cart.g_dim_sizes, Dims(cart)) - 1 : Owner(e) = task_id}
         /\ pc = "oversize" => Owned(cart, task_id) = {}
         /\ pc # "oversize" => /\ ~Nonempty => Owned(cart, task_id) = {}
                               /\ Nonempty => Owned(cart, task_id)
                                    = {PlaceOf(N, cart.g_dim_sizes, my_start_coord, my_dim_sizes, q) :
                                         q \in 0 .. Size(N, my_dim_sizes) - 1}
<1>1. cart \in Carts /\ task_id \in Tasks(cart)
  BY DEF IInv, TypeOK
<1>2. /\ my_start_coord = Starts(cart, task_id)
      /\ my_dim_sizes = Sizes(cart, task_id)
      /\ pc = "oversize" <=> TooLarge(cart, task_id)
  BY DEF IInv, Blocked
<1>3. Owned(cart, task_id)
        = {e \in 0 .. Product(cart.g_dim_sizes, Dims(cart)) - 1 : Owner(e) = task_id}
  <2>1. 0 .. Product(cart.g_dim_sizes, Dims(cart)) - 1 = Elements(cart)
    BY <1>1, OwnersInTerms
  <2>2. \A e : Owner(e) = OwnerIn(cart, e)
    BY <1>1, OwnersInTerms
  <2> QED BY ONLY <2>1, <2>2, Zenon DEF Owned
<1>4. pc = "oversize" => Owned(cart, task_id) = {}
  BY <1>1, <1>2, OwnedNone
<1>5. ASSUME pc # "oversize"
      PROVE  /\ ~Nonempty => Owned(cart, task_id) = {}
             /\ Nonempty => Owned(cart, task_id)
                  = {PlaceOf(N, cart.g_dim_sizes, my_start_coord, my_dim_sizes, q) :
                       q \in 0 .. Size(N, my_dim_sizes) - 1}
  BY <1>1, <1>2, <1>5, OwnedPlaces DEF Nonempty, N
<1> QED BY <1>3, <1>4, <1>5

LEMMA InvOwnBlock == IInv => OwnBlock
<1> SUFFICES ASSUME IInv, pc = "done"
             PROVE  DOMAIN xferred =
                      IF cart.file_mode = "NX1" \/ access = "mpi view"
                      THEN {e \in 0 .. Product(cart.g_dim_sizes, Dims(cart)) - 1 : Owner(e) = task_id}
                      ELSE 0 .. MySize - 1
  BY DEF OwnBlock
<1> DEFINE m == Size(N, my_dim_sizes)
<1>1. m \in Nat /\ MySize = m
  BY BlockFacts
<1>2. /\ Owned(cart, task_id)
           = {e \in 0 .. Product(cart.g_dim_sizes, Dims(cart)) - 1 : Owner(e) = task_id}
      /\ ~Nonempty => Owned(cart, task_id) = {}
      /\ Nonempty => Owned(cart, task_id)
           = {PlaceOf(N, cart.g_dim_sizes, my_start_coord, my_dim_sizes, q) : q \in 0 .. m - 1}
  BY OwnedIs
<1> HIDE DEF m
<1>3. CASE Nonempty
  <2>1. nbytes = m /\ Buffered(cart, access, my_start_coord, my_dim_sizes, nbytes, xferred)
    BY <1>3 DEF IInv, Transferred, m
  <2>2. DOMAIN xferred = {PlaceIn(cart, access, my_start_coord, my_dim_sizes, q) : q \in 0 .. m - 1}
    BY <2>1 DEF Buffered
  <2>3. CASE cart.file_mode = "NX1" \/ access = "mpi view"
    <3>1. \A q : PlaceIn(cart, access, my_start_coord, my_dim_sizes, q)
                   = PlaceOf(N, cart.g_dim_sizes, my_start_coord, my_dim_sizes, q)
      BY <2>3 DEF PlaceIn, N
    <3> QED BY <1>2, <1>3, <2>2, <2>3, <3>1
  <2>4. CASE ~(cart.file_mode = "NX1" \/ access = "mpi view")
    <3>1. \A q : PlaceIn(cart, access, my_start_coord, my_dim_sizes, q) = q
      BY <2>4 DEF PlaceIn
    <3>2. DOMAIN xferred = 0 .. m - 1
      BY <2>2, <3>1
    <3> QED BY <1>1, <2>4, <3>2
  <2> QED BY <2>3, <2>4
<1>4. CASE ~Nonempty
  <2>1. m = 0 /\ xferred = <<>>
    BY <1>4 DEF IInv, Transferred, Nonempty, m
  <2>2. DOMAIN xferred = {} /\ 0 .. m - 1 = {}
    BY <2>1
  <2> QED BY <1>1, <1>2, <1>4, <2>2
<1> QED BY <1>3, <1>4

LEMMA InvBufferInOrder == IInv => BufferInOrder
<1> SUFFICES ASSUME IInv, pc = "done", NEW e \in DOMAIN xferred
             PROVE  LET rank == Cardinality({f \in DOMAIN xferred : f < e}) IN
                    xferred[e] = IF access = "mpi seek" THEN rank % ReqSize ELSE rank
  BY DEF BufferInOrder
<1>1. Nonempty
  <2> SUFFICES ASSUME ~Nonempty PROVE FALSE
    OBVIOUS
  <2>1. xferred = <<>>
    BY DEF IInv, Transferred
  <2> QED BY <2>1
<1>2. /\ nbytes = Size(N, my_dim_sizes)
      /\ Buffered(cart, access, my_start_coord, my_dim_sizes, nbytes, xferred)
  BY <1>1 DEF IInv, Transferred
<1>3. /\ Boxed(N, cart.g_dim_sizes, my_start_coord, my_dim_sizes) /\ Radices(N, my_dim_sizes)
      /\ ReqSize = my_dim_sizes[N - 1]
  BY <1>1, BlockFacts
<1>4. xferred[e] = ValueIn(access, my_dim_sizes[N - 1], Cardinality({f \in DOMAIN xferred : f < e}))
  <2>1. /\ Boxed(cart.num_dims, cart.g_dim_sizes, my_start_coord, my_dim_sizes)
        /\ Radices(cart.num_dims, my_dim_sizes)
        /\ Buffered(cart, access, my_start_coord, my_dim_sizes, Size(cart.num_dims, my_dim_sizes), xferred)
    BY <1>2, <1>3 DEF N
  <2>2. InOrder(access, my_dim_sizes[cart.num_dims - 1], xferred)
    BY <2>1, BufferedInOrder
  <2> QED BY <2>2 DEF InOrder, N
<1> QED BY <1>3, <1>4 DEF ValueIn

LEMMA InvOnlySurplusFails == IInv => OnlySurplusFails
<1> SUFFICES ASSUME IInv, pc \in {"oversize", "failed"}
             PROVE  \A e \in 0 .. Product(cart.g_dim_sizes, Dims(cart)) - 1 : Owner(e) # task_id
  BY DEF OnlySurplusFails
<1>1. Owned(cart, task_id) = {}
  <2>1. CASE pc = "oversize"
    BY <2>1, OwnedIs
  <2>2. CASE pc = "failed"
    <3>1. ~Nonempty
      BY <2>2 DEF IInv, Transferred
    <3> QED BY <2>2, <3>1, OwnedIs
  <2> QED BY <2>1, <2>2
<1>2. Owned(cart, task_id)
        = {e \in 0 .. Product(cart.g_dim_sizes, Dims(cart)) - 1 : Owner(e) = task_id}
  BY OwnedIs
<1> QED BY <1>1, <1>2

LEMMA InvArraysSuffice == IInv => ArraysSuffice
<1> SUFFICES ASSUME IInv PROVE ArraysSuffice
  OBVIOUS
<1>1. ASSUME pc = "xfer", nbytes < MySize PROVE Requests < Len(offs)
  <2> DEFINE B == my_dim_sizes
             b == B[N - 1]
             rows == Rows(N, B)
  <2>1. /\ rows \in Nat /\ Size(N, B) = rows * b /\ Size(N, B) \in Nat
        /\ Nonempty => b \in Nat \ {0}
        /\ MySize = Size(N, B) /\ ReqSize = b
    BY <1>1, BlockFacts
  <2>2. nbytes \in Nat
    BY <1>1, StateFacts
  <2>3. Nonempty
    BY <1>1, <2>1, <2>2 DEF Nonempty
  <2>4. Len(offs) = rows
    BY <1>1, <2>3 DEF IInv, Counted
  <2>5. PICK r \in 0 .. rows : nbytes = r * b
    BY <1>1, <2>3 DEF IInv, Transferred
  <2> HIDE DEF b, rows
  <2>6. r \in Nat /\ b \in Nat \ {0} /\ nbytes < rows * b
    BY <1>1, <2>1, <2>3
  <2>7. r < rows /\ nbytes \div b = r
    BY <2>1, <2>5, <2>6, RowsLess
  <2> QED BY <2>1, <2>4, <2>7 DEF Requests
<1>2. ASSUME pc = "carry" PROVE IF cart.num_dims = 1 THEN l = -1 ELSE l \in Dims(cart)
  <2>1. N \in Nat \ {0} /\ Dims(cart) = 0 .. N - 1
    BY <1>2, BlockFacts
  <2>2. IF N = 1 THEN l = -1 ELSE l \in 0 .. N - 2
    BY <1>2 DEF IInv, Carries
  <2>3. \A i \in 0 .. N - 2 : i \in 0 .. N - 1
    BY <2>1
  <2> QED BY <2>1, <2>2, <2>3 DEF N
<1> QED BY <1>1, <1>2 DEF ArraysSuffice

\* A block is cut nowhere in a dimension just when it is of the full size there.
LEMMA NotCut ==
  ASSUME NEW c \in Carts, NEW t \in Tasks(c), NEW i \in Dims(c), SizeOf(c, t, i) <= Side(c, i)
  PROVE  SizeOf(c, t, i) = Side(c, i) <=> StartOf(c, t, i) + Side(c, i) <= c.g_dim_sizes[i]
<1> DEFINE s == StartOf(c, t, i)
           m == Side(c, i)
           x == SizeOf(c, t, i)
           g == c.g_dim_sizes[i]
<1>1. s \in Nat /\ m \in Nat /\ x \in Nat /\ g \in Nat
  BY SizeFacts, CartFacts
<1>2. x = IF g - s < m THEN g - s ELSE m
  BY SizeFacts
<1> HIDE DEF s, m, x, g
<1>3. x = m <=> s + m <= g
  BY <1>1, <1>2
<1> QED BY <1>3 DEF s, m, x, g

\* The dimensions that rows are counted in.
LEMMA DimsBelow ==
  ASSUME NEW n \in Nat \ {0}
  PROVE  /\ IsFiniteSet(0 .. n - 2)
         /\ \A i \in 0 .. n - 2 : i \in 0 .. n - 1
         /\ n - 1 - 1 = n - 2
<1> DEFINE k == n - 2
           z == 0
<1>1. k \in Int /\ z \in Int
  OBVIOUS
<1>2. IsFiniteSet(z .. k)
  <2> HIDE DEF k, z
  <2> QED BY <1>1, FS_Interval
<1> QED BY <1>2

\* Rows that are not empty have a first element.
LEMMA RowsLeast ==
  ASSUME NEW r \in Nat, NEW b \in Nat \ {0}, NEW s, s = r * b, s # 0
  PROVE  0 \in 0 .. s - 1
<1>1. s \in Nat
  OBVIOUS
<1> QED BY ONLY <1>1, s # 0

LEMMA ZeroRows ==
  ASSUME NEW b \in Nat, b # 0
  PROVE  0 \div b = 0
OBVIOUS

LEMMA InvCollectiveRequests == IInv => CollectiveRequests
<1> DEFINE M == [i \in Dims(cart) |-> MaxDimSize(i)]
           B == my_dim_sizes
           b == B[N - 1]
           rows == Rows(N, B)
           requests == IF ReqSize = 0 THEN 0 ELSE Requests
           all == Product(M, 0 .. Last - 1)
           full == \A i \in 0 .. Last - 1 : StartCoord(i) + MaxDimSize(i) <= cart.g_dim_sizes[i]
<1> SUFFICES ASSUME IInv, pc = "done", access # "mpi view"
             PROVE  requests = all <=> DOMAIN xferred # {} /\ full
  BY DEF CollectiveRequests
<1>1. /\ N \in Nat \ {0} /\ Dims(cart) = 0 .. N - 1 /\ cart \in Carts
      /\ rows \in Nat /\ b \in Nat /\ Size(N, B) = rows * b /\ Size(N, B) \in Nat
      /\ Nonempty => Radices(N, B) /\ b \in Nat \ {0}
      /\ Last = N - 1 /\ ReqSize = b
  BY BlockFacts
<1>2. /\ task_id \in Tasks(cart) /\ B = Sizes(cart, task_id) /\ ~TooLarge(cart, task_id)
  BY DEF IInv, TypeOK, Blocked
<1>3. \A i \in Dims(cart) : /\ M[i] = Side(cart, i) /\ M[i] \in Nat \ {0}
                            /\ MaxDimSize(i) = M[i] /\ StartCoord(i) = StartOf(cart, task_id, i)
                            /\ B[i] = SizeOf(cart, task_id, i) /\ B[i] \in Nat /\ B[i] <= M[i]
  <2>1. \A i \in Dims(cart) : MaxDimSize(i) = Side(cart, i) /\ StartCoord(i) = StartOf(cart, task_id, i)
    BY <1>1, InTerms
  <2>2. \A i \in Dims(cart) : /\ B[i] = SizeOf(cart, task_id, i) /\ SizeOf(cart, task_id, i) \in Nat
                              /\ Side(cart, i) \in Nat \ {0}
                              /\ SizeOf(cart, task_id, i) <= Side(cart, i)
    BY <1>1, <1>2, Blocks
  <2>3. \A i \in Dims(cart) : M[i] = MaxDimSize(i)
    OBVIOUS
  <2> HIDE DEF M, B
  <2> QED BY <2>1, <2>2, <2>3
<1> DEFINE T == 0 .. N - 2
<1>4. /\ IsFiniteSet(T) /\ (\A i \in T : i \in Dims(cart))
      /\ 0 .. Last - 1 = T
  <2> DEFINE n == N
  <2>1. n \in Nat \ {0} /\ Dims(cart) = 0 .. n - 1 /\ Last = n - 1
    BY <1>1
  <2> HIDE DEF n
  <2>2. /\ IsFiniteSet(0 .. n - 2)
        /\ \A i \in 0 .. n - 2 : i \in 0 .. n - 1
        /\ n - 1 - 1 = n - 2
    BY ONLY <2>1, DimsBelow
  <2>3. /\ IsFiniteSet(0 .. n - 2) /\ (\A i \in 0 .. n - 2 : i \in Dims(cart))
        /\ 0 .. Last - 1 = 0 .. n - 2
    BY ONLY <2>1, <2>2
  <2> QED BY <2>3 DEF n
<1>5. all = ProductOnSet(M, T) /\ rows = ProductOnSet(B, T)
  BY <1>4, Products DEF Rows
<1>6. full <=> \A i \in T : B[i] = M[i]
  <2>1. ASSUME NEW i \in Dims(cart)
        PROVE  B[i] = M[i] <=> StartCoord(i) + MaxDimSize(i) <= cart.g_dim_sizes[i]
    <3>1. SizeOf(cart, task_id, i) <= Side(cart, i)
      BY <1>3
    <3>2. SizeOf(cart, task_id, i) = Side(cart, i)
            <=> StartOf(cart, task_id, i) + Side(cart, i) <= cart.g_dim_sizes[i]
      BY <1>1, <1>2, <3>1, NotCut
    <3> HIDE DEF M, B
    <3> QED BY <1>3, <3>2
  <2> HIDE DEF M, B, T
  <2> QED BY <1>4, <2>1
<1> HIDE DEF M, B, b, rows, requests, all, full, T
<1>7. CASE Nonempty
  <2>1. nbytes = rows * b /\ Buffered(cart, access, my_start_coord, B, nbytes, xferred)
    BY <1>1, <1>7 DEF IInv, Transferred, B
  <2>2. b \in Nat \ {0} /\ Radices(N, B) /\ Size(N, B) # 0
    BY <1>1, <1>7 DEF Nonempty, B
  <2>3. requests = rows
    <3>1. nbytes \div b = rows
      BY <1>1, <2>1, <2>2, RowsLess
    <3> QED BY <1>1, <2>2, <3>1 DEF requests, Requests
  <2>4. DOMAIN xferred # {}
    <3>1. 0 \in 0 .. nbytes - 1
      <4>1. rows \in Nat /\ b \in Nat \ {0} /\ nbytes = rows * b /\ nbytes # 0
        BY <1>1, <2>1, <2>2
      <4> QED BY ONLY <4>1, RowsLeast
    <3> QED BY <2>1, <3>1 DEF Buffered
  <2>5. \A i \in T : B[i] \in Nat \ {0} /\ M[i] \in Nat \ {0} /\ B[i] <= M[i]
    BY <1>1, <1>3, <1>4, <2>2 DEF Radices
  <2>6. ProductOnSet(B, T) = ProductOnSet(M, T) <=> \A i \in T : B[i] = M[i]
    BY ONLY <1>4, <2>5, ProductGrows
  <2> QED BY <1>5, <1>6, <2>3, <2>4, <2>6
<1>8. CASE ~Nonempty
  <2>1. nbytes = 0 /\ xferred = <<>>
    BY <1>8 DEF IInv, Transferred
  <2>2. requests = 0
    <3>1. b # 0 => nbytes \div b = 0
      <4>1. b \in Nat /\ nbytes = 0
        BY <1>1, <2>1
      <4> QED BY ONLY <4>1, ZeroRows
    <3> QED BY <1>1, <3>1 DEF requests, Requests
  <2>3. all # 0
    <3>1. \A i \in T : M[i] \in Nat /\ M[i] # 0
      BY <1>3, <1>4
    <3>2. ProductOnSet(M, T) # 0
      BY <1>4, <3>1, ProductPositive
    <3> QED BY <1>5, <3>2
  <2>4. DOMAIN xferred = {}
    <3>1. DOMAIN <<>> = {}
      BY ONLY TRUE
    <3> QED BY ONLY <2>1, <3>1
  <2> QED BY <2>2, <2>3, <2>4
<1> QED BY <1>7, <1>8

\* Exactly once is every element written or read by write_dset() and read_dset(),
\* by the task whose block it is in, for all datasets that pass the validation.
THEOREM OwnBlocks == Spec => []OwnBlock
BY Invariance, InvOwnBlock, PTL

\* Offsets, calls and views find the block at the same places of the buffer, but
\* for MPI_File_seek(), whose requests all have the buffer's first row.
THEOREM BuffersInOrder == Spec => []BufferInOrder
BY Invariance, InvBufferInOrder, PTL

\* Where a task's block is so far behind the end of a dimension that
\* test_dset_cart_type_prep() computes a wrong size, or so that its view is
\* refused, the task owns no element: the other tasks own all.
THEOREM OnlySurplus == Spec => []OnlySurplusFails
BY Invariance, InvOnlySurplusFails, PTL

\* The number of collective requests of write_dset() and read_dset() differs from
\* that of the first task exactly when the block is cut before its last dimension,
\* or empty.
THEOREM Collective == Spec => []CollectiveRequests
BY Invariance, InvCollectiveRequests, PTL

\* The loops of the backends never read behind the list that dset_to_off() makes,
\* and its counting never leaves the coordinates but in a dataset of one dimension.
THEOREM Arrays == Spec => []ArraysSuffice
BY Invariance, InvArraysSuffice, PTL

===============================================================================
