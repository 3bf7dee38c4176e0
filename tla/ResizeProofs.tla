----------------------------- MODULE ResizeProofs -----------------------------
(***************************************************************************)
(* Proofs about module Resize, for every partition table, every target     *)
(* disk and every answer of the user.                                      *)
(*                                                                         *)
(* What the second round has written is determined by the rows of the      *)
(* first: a partition begins where the sizes of those before it add up to. *)
(* The invariant says so row by row.  That the layout fits is then a       *)
(* matter of sums: shares that are cut off add up to no more than the      *)
(* share of the sum.                                                       *)
(***************************************************************************)
EXTENDS Resize, WellFoundedInduction, TLAPS

-----------------------------------------------------------------------------
(* Sets of numbers, and sums *)

\* A non-empty set of natural numbers has a least element.
LEMMA LeastElement ==
    ASSUME NEW S \in SUBSET Nat, S # {}
    PROVE  \E n \in S : \A m \in S : n <= m
<1>1. PICK R : R = OpToRel(<, Nat)
  BY Zenon
<1>2. IsWellFoundedOn(R, Nat)
  BY <1>1, NatLessThanWellFounded, Zenon
<1>3. PICK n \in S : \A m \in S : ~ (<<m, n>> \in R)
  BY <1>2, WFMin
<1>4. \A a, b \in Nat : a < b => <<a, b>> \in R
  BY <1>1 DEF OpToRel
<1>5. \A m \in S : n \in Nat /\ m \in Nat /\ ~ (m < n)
  BY <1>3, <1>4
<1> QED
  BY <1>3, <1>5

\* Induction: a set with 0 and every successor is the set of all numbers.
LEMMA SetInduction ==
    ASSUME NEW S \in SUBSET Nat, 0 \in S, \A n \in S : n + 1 \in S
    PROVE  S = Nat
<1> DEFINE T == Nat \ S
<1>1. CASE T # {}
  <2>1. PICK n \in T : \A m \in T : n <= m
    BY <1>1, LeastElement
  <2>2. n # 0 /\ n - 1 \in Nat /\ n - 1 \notin T
    BY <2>1
  <2> QED
    BY <2>1, <2>2
<1> QED
  BY <1>1

\* A prefix of the numbers that a property holds for goes on for ever.
LEMMA PrefixInduction ==
    ASSUME NEW n \in Nat, NEW S, 0 \in S, \A k \in 0 .. n - 1 : k \in S => k + 1 \in S
    PROVE  0 .. n \subseteq S
<1> DEFINE A == {k \in Nat : k <= n => k \in S}
<1>1. A \in SUBSET Nat /\ 0 \in A /\ \A k \in A : k + 1 \in A
  OBVIOUS
<1>2. A = Nat
  <2> HIDE DEF A
  <2> QED
    BY <1>1, SetInduction
<1> QED
  BY <1>2

\* Running sums of g.
Runs(f, g, n) == /\ f[0] = 0
                 /\ \A k \in 1 .. n : f[k] = f[k - 1] + g[k]

\* There are running sums.
LEMMA RunsExist ==
    ASSUME NEW n \in Nat, NEW g, \A k \in 1 .. n : g[k] \in Int
    PROVE  \E f \in [0 .. n -> Int] : Runs(f, g, n)
<1> DEFINE S == {m \in Nat : \E f \in [0 .. m -> Int] : Runs(f, g, m)}
<1>1. 0 \in S
  <2>1. [k \in 0 .. 0 |-> 0] \in [0 .. 0 -> Int] /\ Runs([k \in 0 .. 0 |-> 0], g, 0)
    BY DEF Runs
  <2> QED
    BY <2>1
<1>2. ASSUME NEW m \in 0 .. n - 1, m \in S
      PROVE  m + 1 \in S
  <2>1. PICK f \in [0 .. m -> Int] : Runs(f, g, m)
    BY <1>2
  <2> DEFINE h == [k \in 0 .. m + 1 |-> IF k = m + 1 THEN f[m] + g[m + 1] ELSE f[k]]
  <2>2. f[m] \in Int /\ g[m + 1] \in Int
    OBVIOUS
  <2>3. h \in [0 .. m + 1 -> Int]
    BY <2>2
  <2>4. Runs(h, g, m + 1)
    <3>1. h[0] = 0
      BY <2>1 DEF Runs
    <3>2. ASSUME NEW k \in 1 .. m + 1
          PROVE  h[k] = h[k - 1] + g[k]
      <4>1. k \in 0 .. m + 1 /\ k - 1 \in 0 .. m + 1 /\ k - 1 # m + 1
        OBVIOUS
      <4>2. h[k - 1] = f[k - 1]
        BY <4>1
      <4>3. CASE k = m + 1
        <5>1. h[k] = f[m] + g[m + 1] /\ k - 1 = m
          BY <4>1, <4>3
        <5> QED
          BY <4>2, <4>3, <5>1
      <4>4. CASE k # m + 1
        <5>1. h[k] = f[k] /\ k \in 1 .. m
          BY <4>1, <4>4
        <5>2. f[k] = f[k - 1] + g[k]
          BY <2>1, <5>1 DEF Runs
        <5> QED
          BY <4>2, <5>1, <5>2
      <4> QED
        BY <4>3, <4>4
    <3> HIDE DEF h
    <3> QED
      BY <3>1, <3>2 DEF Runs
  <2> HIDE DEF h
  <2> QED
    BY <2>3, <2>4
<1>3. 0 .. n \subseteq S
  <2> HIDE DEF S
  <2> QED
    BY <1>1, <1>2, PrefixInduction
<1> QED
  BY <1>3

\* There is only one way to add up.
LEMMA RunsUnique ==
    ASSUME NEW n \in Nat, NEW g, NEW f, NEW h, Runs(f, g, n), Runs(h, g, n),
           NEW k \in 0 .. n
    PROVE  f[k] = h[k]
<1> DEFINE S == {m \in Nat : f[m] = h[m]}
<1>1. 0 \in S
  BY DEF Runs
<1>2. ASSUME NEW m \in 0 .. n - 1, m \in S
      PROVE  m + 1 \in S
  <2>1. m + 1 \in 1 .. n /\ (m + 1) - 1 = m
    OBVIOUS
  <2>2. f[m + 1] = f[m] + g[m + 1] /\ h[m + 1] = h[m] + g[m + 1]
    BY <2>1 DEF Runs
  <2> QED
    BY <1>2, <2>2
<1>3. 0 .. n \subseteq S
  <2> HIDE DEF S
  <2> QED
    BY <1>1, <1>2, PrefixInduction
<1> QED
  BY <1>3

\* Added is the last of the running sums.
LEMMA AddedRuns ==
    ASSUME NEW n \in Nat, NEW g, \A k \in 1 .. n : g[k] \in Int,
           NEW f \in [0 .. n -> Int], Runs(f, g, n)
    PROVE  Added(g, n) = f[n]
<1> DEFINE Eq(t) == t = [k \in 0 .. n |-> IF k = 0 THEN 0 ELSE t[k - 1] + g[k]]
           to == CHOOSE t : Eq(t)
<1>1. Eq(f)
  <2> DEFINE e == [k \in 0 .. n |-> IF k = 0 THEN 0 ELSE f[k - 1] + g[k]]
  <2>1. \A k \in 0 .. n : f[k] = e[k]
    BY DEF Runs
  <2>2. DOMAIN f = 0 .. n /\ DOMAIN e = 0 .. n
    OBVIOUS
  <2> QED
    BY <2>1, <2>2
<1>2. Eq(to)
  <2> HIDE DEF Eq
  <2> QED
    BY <1>1
<1>3. Added(g, n) = to[n]
  BY DEF Added
<1> HIDE DEF to
<1>4. Runs(to, g, n)
  BY <1>2 DEF Runs
<1> QED
  BY <1>3, <1>4, RunsUnique

\* The sum of nothing, of one more number, and its type.
LEMMA AddedNext ==
    ASSUME NEW n \in Nat, NEW g, \A k \in 1 .. n + 1 : g[k] \in Int
    PROVE  /\ Added(g, 0) = 0
           /\ Added(g, n) \in Int
           /\ Added(g, n + 1) = Added(g, n) + g[n + 1]
<1>1. PICK f \in [0 .. n + 1 -> Int] : Runs(f, g, n + 1)
  BY RunsExist
<1> DEFINE h == [k \in 0 .. n |-> f[k]]
           z == [k \in 0 .. 0 |-> 0]
<1>2. h \in [0 .. n -> Int] /\ Runs(h, g, n)
  BY <1>1 DEF Runs
<1>3. z \in [0 .. 0 -> Int] /\ Runs(z, g, 0)
  BY DEF Runs
<1>4. Added(g, n + 1) = f[n + 1]
  BY <1>1, AddedRuns
<1>5. Added(g, n) = h[n] /\ h[n] = f[n]
  <2>1. h[n] = f[n]
    OBVIOUS
  <2> HIDE DEF h
  <2> QED
    BY <1>2, <2>1, AddedRuns
<1>6. Added(g, 0) = 0
  <2>1. z[0] = 0 /\ 0 \in Nat /\ \A k \in 1 .. 0 : g[k] \in Int
    OBVIOUS
  <2> HIDE DEF z
  <2> QED
    BY <1>3, <2>1, AddedRuns
<1> QED
  BY <1>1, <1>4, <1>5, <1>6 DEF Runs

\* The sums of all beginnings.
LEMMA AddedAll ==
    ASSUME NEW n \in Nat, NEW g, \A k \in 1 .. n : g[k] \in Int
    PROVE  /\ Added(g, 0) = 0
           /\ \A k \in 0 .. n : Added(g, k) \in Int
           /\ \A k \in 1 .. n : Added(g, k) = Added(g, k - 1) + g[k]
<1>1. Added(g, 0) = 0
  <2>1. [k \in 0 .. 0 |-> 0] \in [0 .. 0 -> Int] /\ Runs([k \in 0 .. 0 |-> 0], g, 0)
    BY DEF Runs
  <2>2. 0 \in Nat /\ \A k \in 1 .. 0 : g[k] \in Int
    OBVIOUS
  <2>3. Added(g, 0) = [k \in 0 .. 0 |-> 0][0]
    BY <2>1, <2>2, AddedRuns
  <2> QED
    BY <2>3
<1>2. ASSUME NEW k \in 1 .. n
      PROVE  Added(g, k) = Added(g, k - 1) + g[k] /\ Added(g, k - 1) \in Int
  <2>1. k - 1 \in Nat /\ (k - 1) + 1 = k /\ \A m \in 1 .. (k - 1) + 1 : g[m] \in Int
    OBVIOUS
  <2>2. /\ Added(g, k - 1) \in Int
        /\ Added(g, (k - 1) + 1) = Added(g, k - 1) + g[(k - 1) + 1]
    BY <2>1, AddedNext
  <2> QED
    BY <2>1, <2>2
<1>3. ASSUME NEW k \in 0 .. n
      PROVE  Added(g, k) \in Int
  <2>1. CASE k = 0
    BY <1>1, <2>1
  <2>2. CASE k # 0
    BY <1>2, <2>2
  <2> QED
    BY <2>1, <2>2
<1> QED
  BY <1>1, <1>2, <1>3

\* Sums of equal numbers are equal.
LEMMA AddedSame ==
    ASSUME NEW n \in Nat, NEW g, NEW h, \A k \in 1 .. n : g[k] \in Int /\ h[k] = g[k]
    PROVE  Added(h, n) = Added(g, n)
<1>1. PICK f \in [0 .. n -> Int] : Runs(f, g, n)
  BY RunsExist
<1>2. Runs(f, h, n)
  BY <1>1 DEF Runs
<1>3. \A k \in 1 .. n : h[k] \in Int
  OBVIOUS
<1> QED
  BY <1>1, <1>2, <1>3, AddedRuns

\* One more number.
LEMMA AddedAppend ==
    ASSUME NEW n \in Nat, NEW g, NEW h, \A k \in 1 .. n : g[k] \in Int /\ h[k] = g[k],
           h[n + 1] \in Int
    PROVE  Added(g, n) \in Int /\ Added(h, n + 1) = Added(g, n) + h[n + 1]
<1>1. \A k \in 1 .. n + 1 : h[k] \in Int
  OBVIOUS
<1>2. Added(h, n + 1) = Added(h, n) + h[n + 1] /\ Added(h, n) \in Int
  BY <1>1, AddedNext
<1>3. Added(h, n) = Added(g, n)
  BY AddedSame
<1> QED
  BY <1>2, <1>3

\* Numbers with a bound, c times the first and d times the second, have a sum
\* with that bound.
LEMMA AddedBound ==
    ASSUME NEW n \in Nat, NEW a, NEW b, NEW e, NEW c \in Int, NEW d \in Int,
           \A k \in 1 .. n : a[k] \in Int /\ b[k] \in Int /\ e[k] \in Int
                             /\ d * a[k] <= c * b[k] + d * e[k]
    PROVE  d * Added(a, n) <= c * Added(b, n) + d * Added(e, n)
<1> DEFINE S == {k \in Nat : d * Added(a, k) <= c * Added(b, k) + d * Added(e, k)}
<1>1. /\ Added(a, 0) = 0 /\ Added(b, 0) = 0 /\ Added(e, 0) = 0
      /\ \A k \in 0 .. n : Added(a, k) \in Int /\ Added(b, k) \in Int /\ Added(e, k) \in Int
      /\ \A k \in 1 .. n : /\ Added(a, k) = Added(a, k - 1) + a[k]
                           /\ Added(b, k) = Added(b, k - 1) + b[k]
                           /\ Added(e, k) = Added(e, k - 1) + e[k]
  BY AddedAll
<1>2. 0 \in S
  BY <1>1
<1>3. ASSUME NEW k \in 0 .. n - 1, k \in S
      PROVE  k + 1 \in S
  <2>1. k + 1 \in 1 .. n /\ k \in 0 .. n /\ (k + 1) - 1 = k
    OBVIOUS
  <2>2. /\ Added(a, k + 1) = Added(a, k) + a[k + 1]
        /\ Added(b, k + 1) = Added(b, k) + b[k + 1]
        /\ Added(e, k + 1) = Added(e, k) + e[k + 1]
    BY <1>1, <2>1
  <2>3. \A x, y, z, u, v, w \in Int :
            d * x <= c * y + d * z /\ d * u <= c * v + d * w
            => d * (x + u) <= c * (y + v) + d * (z + w)
    <3>1. \A x, u \in Int : d * (x + u) = d * x + d * u
      OBVIOUS
    <3>2. \A x, u \in Int : c * (x + u) = c * x + c * u
      OBVIOUS
    <3>3. \A x \in Int : d * x \in Int /\ c * x \in Int
      OBVIOUS
    <3> QED
      BY <3>1, <3>2, <3>3
  <2>4. d * Added(a, k + 1) <= c * Added(b, k + 1) + d * Added(e, k + 1)
    <3>1. /\ Added(a, k) \in Int /\ Added(b, k) \in Int /\ Added(e, k) \in Int
          /\ a[k + 1] \in Int /\ b[k + 1] \in Int /\ e[k + 1] \in Int
          /\ d * a[k + 1] <= c * b[k + 1] + d * e[k + 1]
          /\ d * Added(a, k) <= c * Added(b, k) + d * Added(e, k)
      BY <1>1, <1>3, <2>1
    <3> QED
      BY <2>2, <2>3, <3>1
  <2> QED
    BY <2>4
<1>4. 0 .. n \subseteq S
  <2> HIDE DEF S
  <2> QED
    BY <1>2, <1>3, PrefixInduction
<1> QED
  BY <1>4

\* Sums of natural numbers grow.
LEMMA AddedGrows ==
    ASSUME NEW n \in Nat, NEW g, \A k \in 1 .. n : g[k] \in Nat,
           NEW j \in 0 .. n
    PROVE  /\ Added(g, j) \in Nat
           /\ \A k \in j .. n : Added(g, j) <= Added(g, k)
<1>1. /\ Added(g, 0) = 0
      /\ \A k \in 0 .. n : Added(g, k) \in Int
      /\ \A k \in 1 .. n : Added(g, k) = Added(g, k - 1) + g[k]
  BY AddedAll
<1> DEFINE A == {k \in Nat : Added(g, k) >= 0}
           S == {k \in Nat : k >= j => Added(g, j) <= Added(g, k)}
<1>2. 0 .. n \subseteq A
  <2>1. 0 \in A
    BY <1>1
  <2>2. ASSUME NEW k \in 0 .. n - 1, k \in A
        PROVE  k + 1 \in A
    BY <1>1, <2>2
  <2> HIDE DEF A
  <2> QED
    BY <2>1, <2>2, PrefixInduction
<1>3. 0 .. n \subseteq S
  <2>1. 0 \in S
    BY <1>1
  <2>2. ASSUME NEW k \in 0 .. n - 1, k \in S
        PROVE  k + 1 \in S
    <3>1. /\ k + 1 \in 1 .. n /\ Added(g, k + 1) = Added(g, k) + g[k + 1]
          /\ Added(g, k) \in Int /\ g[k + 1] \in Nat /\ Added(g, j) \in Int
      BY <1>1
    <3>2. CASE j <= k
      BY <2>2, <3>1, <3>2
    <3>3. CASE j = k + 1
      BY <3>1, <3>3
    <3>4. CASE j > k + 1
      BY <3>4
    <3> QED
      BY <3>2, <3>3, <3>4
  <2> HIDE DEF S
  <2> QED
    BY <2>1, <2>2, PrefixInduction
<1> QED
  BY <1>1, <1>2, <1>3

-----------------------------------------------------------------------------
(* Of two numbers, and division *)

\* The larger and the smaller of two numbers.
LEMMA OfTwo ==
    ASSUME NEW a \in Int, NEW b \in Int
    PROVE  /\ Max({a, b}) = IF a >= b THEN a ELSE b
           /\ Min({a, b}) = IF a <= b THEN a ELSE b
<1>1. \E x \in {a, b} : \A y \in {a, b} : x >= y
  OBVIOUS
<1>2. Max({a, b}) \in {a, b} /\ \A y \in {a, b} : Max({a, b}) >= y
  BY <1>1 DEF Max
<1>3. \E x \in {a, b} : \A y \in {a, b} : x <= y
  OBVIOUS
<1>4. Min({a, b}) \in {a, b} /\ \A y \in {a, b} : Min({a, b}) <= y
  BY <1>3 DEF Min
<1> QED
  BY <1>2, <1>4

\* The largest of one number.
LEMMA OfOne ==
    ASSUME NEW a \in Int
    PROVE  Max({a}) = a
BY DEF Max

\* The quotient.
LEMMA Quotient ==
    ASSUME NEW a \in Nat, NEW b \in Nat, b > 0
    PROVE  a \div b \in Nat /\ b * (a \div b) <= a /\ a < b * (a \div b) + b
OBVIOUS

\* What is cut off makes a number no larger, and no smaller than any whole number
\* below it.
LEMMA CutNat ==
    ASSUME NEW a \in Nat, NEW b \in Nat, b > 0
    PROVE  /\ Cut(a, b) \in Nat
           /\ b * Cut(a, b) <= a
           /\ \A x \in Int : b * x <= a => x <= Cut(a, b)
<1>1. Cut(a, b) = a \div b
  BY DEF Cut
<1>2. a \div b \in Nat /\ b * (a \div b) <= a /\ a < b * (a \div b) + b
  BY Quotient
<1>3. ASSUME NEW x \in Int, b * x <= a, x > a \div b
      PROVE  FALSE
  <2>1. PICK q \in Nat : q = a \div b
    BY <1>2
  <2>2. x >= q + 1
    BY <1>3, <2>1
  <2>3. PICK d \in Nat : x = q + 1 + d
    <3>1. x - (q + 1) \in Nat /\ x = q + 1 + (x - (q + 1))
      BY <2>2
    <3> QED
      BY <3>1
  <2>4. b * x = b * q + b + b * d
    BY <2>3
  <2>5. b * d \in Nat /\ b * q \in Nat
    OBVIOUS
  <2> QED
    BY <1>2, <1>3, <2>1, <2>4, <2>5
<1> QED
  BY <1>1, <1>2, <1>3

\* A factor that is no larger makes a product that is no larger, and the other way
\* round.
LEMMA SmallerFactor ==
    ASSUME NEW d \in Nat, d > 0, NEW a \in Int, NEW b \in Int, d * a <= d * b
    PROVE  a <= b
<1>1. CASE a > b
  <2>1. PICK c \in Nat : a = b + 1 + c
    <3>1. a - (b + 1) \in Nat /\ a = b + 1 + (a - (b + 1))
      BY <1>1
    <3> QED
      BY <3>1
  <2>2. d * (b + 1 + c) = d * b + d + d * c
    OBVIOUS
  <2>3. d * c \in Nat /\ d * b \in Int
    OBVIOUS
  <2> QED
    BY <2>1, <2>2, <2>3
<1> QED
  BY <1>1

\* A negative number is cut to no more than nothing.
LEMMA CutNegative ==
    ASSUME NEW a \in Int, a < 0, NEW b \in Nat, b > 0
    PROVE  Cut(a, b) \in Int /\ Cut(a, b) <= 0
<1>1. Cut(a, b) = -((-a) \div b) /\ -a \in Nat
  BY DEF Cut
<1>2. (-a) \div b \in Nat
  BY <1>1, Quotient
<1> QED
  BY <1>1, <1>2

-----------------------------------------------------------------------------
(* The first round *)

Scaled(p) == IF Scalable(p) THEN p.size ELSE 0
Kept(p) == IF Scalable(p) THEN 0 ELSE p.size
\* What total_fixed is charged for row k.
Charged(p, k) == (IF p.id = "5" THEN 0 ELSE Kept(p)) + Count(k = 1) * p.start
                 + Count(k > 4 /\ p.size = 0)

Disks == source \in Tables /\ target \in Targets

\* Row k of /tmp/sfdisk.tmp.
RowOK(p, k) ==
    /\ p.backup = source[k].backup
    /\ p.backup => p = source[k]
    /\ p.id = "5" <=> source[k].id = "5"
    /\ p.id = "0" => p.size = 0
    /\ k = 4 /\ p.size = 0 => p.id \in {"0", "82"}
    /\ k = 1 /\ p.id # "0" => p.start > 0

Rows ==
    /\ tmp \in Seq(Partition)
    /\ Len(tmp) <= Len(source)
    /\ \A k \in 1 .. Len(tmp) : RowOK(tmp[k], k)

Sums ==
    /\ sum.scalable = Added([m \in 1 .. Len(tmp) |-> Scaled(tmp[m])], Len(tmp))
    /\ sum.fixed = Added([m \in 1 .. Len(tmp) |-> Charged(tmp[m], m)], Len(tmp))
    /\ sum.extScalable =
          Added([m \in 1 .. Len(tmp) |-> Count(m > 4) * Scaled(tmp[m])], Len(tmp))
    /\ sum.extFixed =
          Added([m \in 1 .. Len(tmp) |-> Count(m > 4) * Kept(tmp[m])], Len(tmp))
    /\ sum.extUsed =
          Added([m \in 1 .. Len(tmp) |-> Count(m > 4) * tmp[m].used], Len(tmp))

\* What a row adds is a natural number.
LEMMA RowNat ==
    ASSUME NEW p \in Partition, NEW k \in Nat
    PROVE  /\ Scaled(p) \in Nat /\ Kept(p) \in Nat /\ Charged(p, k) \in Nat
           /\ Count(k > 4) * Scaled(p) \in Nat /\ Count(k > 4) * Kept(p) \in Nat
           /\ Count(k > 4) * p.used \in Nat
<1>1. /\ p.size \in Nat /\ p.start \in Nat /\ p.used \in Nat
      /\ p.backup \in BOOLEAN /\ p.fixed \in BOOLEAN
  BY DEF Partition
<1>2. Scaled(p) \in Nat /\ Kept(p) \in Nat
  BY <1>1 DEF Scaled, Kept, Scalable
<1>3. /\ Count(k > 4) \in {0, 1} /\ Count(k = 1) \in {0, 1}
      /\ Count(k > 4 /\ p.size = 0) \in {0, 1}
  BY DEF Count
<1>4. \A c \in {0, 1}, n \in Nat : c * n \in Nat
  OBVIOUS
<1>5. Charged(p, k) \in Nat
  <2>1. Count(k = 1) * p.start \in Nat
    BY <1>1, <1>3, <1>4
  <2>2. (IF p.id = "5" THEN 0 ELSE Kept(p)) \in Nat
    BY <1>2
  <2> QED
    BY <1>3, <2>1, <2>2 DEF Charged
<1> QED
  BY <1>1, <1>2, <1>3, <1>4, <1>5

\* The sums are natural numbers.
LEMMA SumsNat ==
    ASSUME Rows, Sums
    PROVE  /\ sum.scalable \in Nat /\ sum.fixed \in Nat /\ sum.extScalable \in Nat
           /\ sum.extFixed \in Nat /\ sum.extUsed \in Nat
<1>1. Len(tmp) \in Nat /\ \A m \in 1 .. Len(tmp) : tmp[m] \in Partition /\ m \in Nat
  BY DEF Rows
<1>2. ASSUME NEW g, \A m \in 1 .. Len(tmp) : g[m] \in Nat
      PROVE  Added(g, Len(tmp)) \in Nat
  <2>1. Len(tmp) \in 0 .. Len(tmp)
    BY <1>1
  <2> QED
    BY <1>1, <1>2, <2>1, AddedGrows
<1>3. \A m \in 1 .. Len(tmp) :
        /\ Scaled(tmp[m]) \in Nat /\ Charged(tmp[m], m) \in Nat
        /\ Count(m > 4) * Scaled(tmp[m]) \in Nat /\ Count(m > 4) * Kept(tmp[m]) \in Nat
        /\ Count(m > 4) * tmp[m].used \in Nat
  BY <1>1, RowNat
<1>4. sum.scalable \in Nat
  <2> DEFINE g == [m \in 1 .. Len(tmp) |-> Scaled(tmp[m])]
  <2>1. \A m \in 1 .. Len(tmp) : g[m] \in Nat
    BY <1>3
  <2>2. sum.scalable = Added(g, Len(tmp))
    BY DEF Sums
  <2> HIDE DEF g
  <2> QED
    BY <1>2, <2>1, <2>2
<1>5. sum.fixed \in Nat
  <2> DEFINE g == [m \in 1 .. Len(tmp) |-> Charged(tmp[m], m)]
  <2>1. \A m \in 1 .. Len(tmp) : g[m] \in Nat
    BY <1>3
  <2>2. sum.fixed = Added(g, Len(tmp))
    BY DEF Sums
  <2> HIDE DEF g
  <2> QED
    BY <1>2, <2>1, <2>2
<1>6. sum.extScalable \in Nat
  <2> DEFINE g == [m \in 1 .. Len(tmp) |-> Count(m > 4) * Scaled(tmp[m])]
  <2>1. \A m \in 1 .. Len(tmp) : g[m] \in Nat
    BY <1>3
  <2>2. sum.extScalable = Added(g, Len(tmp))
    BY DEF Sums
  <2> HIDE DEF g
  <2> QED
    BY <1>2, <2>1, <2>2
<1>7. sum.extFixed \in Nat
  <2> DEFINE g == [m \in 1 .. Len(tmp) |-> Count(m > 4) * Kept(tmp[m])]
  <2>1. \A m \in 1 .. Len(tmp) : g[m] \in Nat
    BY <1>3
  <2>2. sum.extFixed = Added(g, Len(tmp))
    BY DEF Sums
  <2> HIDE DEF g
  <2> QED
    BY <1>2, <2>1, <2>2
<1>8. sum.extUsed \in Nat
  <2> DEFINE g == [m \in 1 .. Len(tmp) |-> Count(m > 4) * tmp[m].used]
  <2>1. \A m \in 1 .. Len(tmp) : g[m] \in Nat
    BY <1>3
  <2>2. sum.extUsed = Added(g, Len(tmp))
    BY DEF Sums
  <2> HIDE DEF g
  <2> QED
    BY <1>2, <2>1, <2>2
<1> QED
  BY <1>4, <1>5, <1>6, <1>7, <1>8

\* A row that is added keeps the rows and the sums.
LEMMA AddRow ==
    ASSUME Rows, Sums, ipart = Len(tmp) + 1, ipart <= Len(source),
           NEW p \in Partition, RowOK(p, ipart), NEW counted \in BOOLEAN,
           ~counted => Scaled(p) = 0 /\ (p.id = "5" \/ Kept(p) = 0),
           counted => p.id # "5",
           Add(p, counted), UNCHANGED source
    PROVE  Rows' /\ Sums' /\ Len(tmp') = ipart /\ ipart' = ipart + 1
<1> DEFINE n == Len(tmp)
<1>1. /\ n \in Nat /\ ipart \in Nat /\ tmp' = Append(tmp, p) /\ ipart' = ipart + 1
      /\ \A m \in 1 .. n : tmp[m] \in Partition
  BY DEF Rows, Add
<1>2. /\ tmp' \in Seq(Partition) /\ Len(tmp') = n + 1
      /\ \A m \in 1 .. n : tmp'[m] = tmp[m]
      /\ tmp'[n + 1] = p
  BY <1>1 DEF Rows
<1>3. Rows'
  <2>1. \A k \in 1 .. n + 1 : RowOK(tmp'[k], k)
    <3> SUFFICES ASSUME NEW k \in 1 .. n + 1
                 PROVE  RowOK(tmp'[k], k)
      OBVIOUS
    <3>1. CASE k = n + 1
      BY <1>2, <3>1
    <3>2. CASE k # n + 1
      BY <1>1, <1>2, <3>2 DEF Rows
    <3> QED
      BY <3>1, <3>2
  <2>2. (\A k \in 1 .. Len(tmp) : RowOK(tmp[k], k))'
    BY <1>2, <2>1 DEF RowOK
  <2>3. (Len(tmp) <= Len(source))'
    BY <1>1, <1>2
  <2> QED
    BY <1>2, <2>2, <2>3 DEF Rows
<1>4. /\ Scaled(p) \in Nat /\ Kept(p) \in Nat /\ Charged(p, n + 1) \in Nat
      /\ Count(n + 1 > 4) * Scaled(p) \in Nat /\ Count(n + 1 > 4) * Kept(p) \in Nat
      /\ Count(n + 1 > 4) * p.used \in Nat
      /\ p.start \in Nat /\ p.size \in Nat /\ p.used \in Nat
  BY <1>1, RowNat DEF Partition
<1>5. \A m \in 1 .. n : 
        /\ Scaled(tmp[m]) \in Int /\ Charged(tmp[m], m) \in Int
        /\ Count(m > 4) * Scaled(tmp[m]) \in Int /\ Count(m > 4) * Kept(tmp[m]) \in Int
        /\ Count(m > 4) * tmp[m].used \in Int
  <2> SUFFICES ASSUME NEW m \in 1 .. n
               PROVE  /\ Scaled(tmp[m]) \in Int /\ Charged(tmp[m], m) \in Int
                      /\ Count(m > 4) * Scaled(tmp[m]) \in Int
                      /\ Count(m > 4) * Kept(tmp[m]) \in Int
                      /\ Count(m > 4) * tmp[m].used \in Int
    OBVIOUS
  <2>1. m \in Nat /\ tmp[m] \in Partition
    BY <1>1
  <2>2. /\ Scaled(tmp[m]) \in Nat /\ Charged(tmp[m], m) \in Nat
        /\ Count(m > 4) * Scaled(tmp[m]) \in Nat /\ Count(m > 4) * Kept(tmp[m]) \in Nat
        /\ Count(m > 4) * tmp[m].used \in Nat
    BY <2>1, RowNat
  <2> QED
    BY <2>2
<1>6. ASSUME NEW g, NEW h, \A m \in 1 .. n : g[m] \in Int /\ h[m] = g[m],
             h[n + 1] \in Int
      PROVE  Added(h, n + 1) = Added(g, n) + h[n + 1]
  BY <1>1, <1>6, AddedAppend
<1>7. /\ sum'.scalable = sum.scalable + Count(counted) * Scaled(p)
      /\ sum'.fixed = sum.fixed + Count(counted) * Kept(p) + Count(ipart = 1) * p.start
                      + Count(Logical(ipart)) * Count(p.size = 0)
      /\ sum'.extScalable = sum.extScalable + Count(Logical(ipart)) * Scaled(p)
      /\ sum'.extFixed = sum.extFixed + Count(Logical(ipart)) * Kept(p)
      /\ sum'.extUsed = sum.extUsed + Count(Logical(ipart)) * p.used
  BY DEF Add, Scaled, Kept
<1>8. /\ sum.scalable \in Nat /\ sum.fixed \in Nat /\ sum.extScalable \in Nat
      /\ sum.extFixed \in Nat /\ sum.extUsed \in Nat
  BY SumsNat
<1>9. Count(Logical(ipart)) = Count(n + 1 > 4)
  BY DEF Logical
<1>10. sum'.scalable = Added([m \in 1 .. Len(tmp') |-> Scaled(tmp'[m])], Len(tmp'))
  <2> DEFINE g == [m \in 1 .. n |-> Scaled(tmp[m])]
             h == [m \in 1 .. n + 1 |-> Scaled(tmp'[m])]
  <2>1. /\ \A m \in 1 .. n : g[m] \in Int /\ h[m] = g[m]
        /\ h[n + 1] = Scaled(p) /\ h[n + 1] \in Int
    BY <1>1, <1>2, <1>4, <1>5
  <2>2. Added(h, n + 1) = Added(g, n) + Scaled(p)
    <3> HIDE DEF g, h, n
    <3> QED
      BY <1>6, <2>1
  <2>3. sum.scalable = Added(g, n)
    BY DEF Sums
  <2>4. Count(counted) * Scaled(p) = Scaled(p)
    BY <1>4 DEF Count
  <2>5. sum'.scalable = Added(h, n + 1)
    BY <1>7, <2>2, <2>3, <2>4
  <2> QED
    BY <1>2, <2>5
<1>11. sum'.fixed = Added([m \in 1 .. Len(tmp') |-> Charged(tmp'[m], m)], Len(tmp'))
  <2> DEFINE g == [m \in 1 .. n |-> Charged(tmp[m], m)]
             h == [m \in 1 .. n + 1 |-> Charged(tmp'[m], m)]
  <2>1. /\ \A m \in 1 .. n : g[m] \in Int /\ h[m] = g[m]
        /\ h[n + 1] = Charged(p, n + 1) /\ h[n + 1] \in Int
    BY <1>1, <1>2, <1>4, <1>5
  <2>2. Added(h, n + 1) = Added(g, n) + Charged(p, n + 1)
    <3> HIDE DEF g, h, n
    <3> QED
      BY <1>6, <2>1
  <2>3. sum.fixed = Added(g, n)
    BY DEF Sums
  <2>4. Count(counted) * Kept(p) = IF p.id = "5" THEN 0 ELSE Kept(p)
    BY <1>4 DEF Count
  <2>5. Count(Logical(ipart)) * Count(p.size = 0) = Count(n + 1 > 4 /\ p.size = 0)
    BY DEF Count, Logical
  <2>6. Count(counted) * Kept(p) + Count(ipart = 1) * p.start
            + Count(Logical(ipart)) * Count(p.size = 0) = Charged(p, n + 1)
    BY <2>4, <2>5 DEF Charged
  <2>7. /\ Count(counted) * Kept(p) \in Int /\ Count(ipart = 1) * p.start \in Int
        /\ Count(Logical(ipart)) * Count(p.size = 0) \in Int
    <3>1. /\ Count(counted) \in {0, 1} /\ Count(ipart = 1) \in {0, 1}
          /\ Count(Logical(ipart)) \in {0, 1} /\ Count(p.size = 0) \in {0, 1}
      BY DEF Count
    <3>2. \A c \in {0, 1}, x \in Nat : c * x \in Int
      OBVIOUS
    <3> QED
      BY <1>4, <3>1, <3>2
  <2>8. sum'.fixed = Added(h, n + 1)
    BY <1>7, <1>8, <2>2, <2>3, <2>6, <2>7
  <2> QED
    BY <1>2, <2>8
<1>12. sum'.extScalable =
          Added([m \in 1 .. Len(tmp') |-> Count(m > 4) * Scaled(tmp'[m])], Len(tmp'))
  <2> DEFINE g == [m \in 1 .. n |-> Count(m > 4) * Scaled(tmp[m])]
             h == [m \in 1 .. n + 1 |-> Count(m > 4) * Scaled(tmp'[m])]
  <2>1. /\ \A m \in 1 .. n : g[m] \in Int /\ h[m] = g[m]
        /\ h[n + 1] = Count(n + 1 > 4) * Scaled(p) /\ h[n + 1] \in Int
    BY <1>1, <1>2, <1>4, <1>5
  <2>2. Added(h, n + 1) = Added(g, n) + h[n + 1]
    <3> HIDE DEF g, h, n
    <3> QED
      BY <1>6, <2>1
  <2>3. sum.extScalable = Added(g, n)
    BY DEF Sums
  <2>4. sum'.extScalable = Added(h, n + 1)
    BY <1>7, <1>9, <2>1, <2>2, <2>3
  <2> QED
    BY <1>2, <2>4
<1>13. sum'.extFixed =
          Added([m \in 1 .. Len(tmp') |-> Count(m > 4) * Kept(tmp'[m])], Len(tmp'))
  <2> DEFINE g == [m \in 1 .. n |-> Count(m > 4) * Kept(tmp[m])]
             h == [m \in 1 .. n + 1 |-> Count(m > 4) * Kept(tmp'[m])]
  <2>1. /\ \A m \in 1 .. n : g[m] \in Int /\ h[m] = g[m]
        /\ h[n + 1] = Count(n + 1 > 4) * Kept(p) /\ h[n + 1] \in Int
    BY <1>1, <1>2, <1>4, <1>5
  <2>2. Added(h, n + 1) = Added(g, n) + h[n + 1]
    <3> HIDE DEF g, h, n
    <3> QED
      BY <1>6, <2>1
  <2>3. sum.extFixed = Added(g, n)
    BY DEF Sums
  <2>4. sum'.extFixed = Added(h, n + 1)
    BY <1>7, <1>9, <2>1, <2>2, <2>3
  <2> QED
    BY <1>2, <2>4
<1>14. sum'.extUsed =
          Added([m \in 1 .. Len(tmp') |-> Count(m > 4) * tmp'[m].used], Len(tmp'))
  <2> DEFINE g == [m \in 1 .. n |-> Count(m > 4) * tmp[m].used]
             h == [m \in 1 .. n + 1 |-> Count(m > 4) * tmp'[m].used]
  <2>1. /\ \A m \in 1 .. n : g[m] \in Int /\ h[m] = g[m]
        /\ h[n + 1] = Count(n + 1 > 4) * p.used /\ h[n + 1] \in Int
    BY <1>1, <1>2, <1>4, <1>5
  <2>2. Added(h, n + 1) = Added(g, n) + h[n + 1]
    <3> HIDE DEF g, h, n
    <3> QED
      BY <1>6, <2>1
  <2>3. sum.extUsed = Added(g, n)
    BY DEF Sums
  <2>4. sum'.extUsed = Added(h, n + 1)
    BY <1>7, <1>9, <2>1, <2>2, <2>3
  <2> QED
    BY <1>2, <2>4
<1>15. Sums'
  BY <1>10, <1>11, <1>12, <1>13, <1>14 DEF Sums
<1> QED
  BY <1>1, <1>2, <1>3, <1>15

\* What the tables and the disks are.
LEMMA DisksFacts ==
    ASSUME Disks
    PROVE  /\ IsTable(source) /\ Len(source) \in Nat /\ Len(source) >= 4
           /\ \A k \in 1 .. Len(source) : source[k] \in Partition
           /\ target.size \in Nat
           /\ \A k \in 1 .. 2 : /\ target.first[k].start \in Nat
                                /\ target.first[k].size \in Nat
                                /\ target.first[k].id = "dos" => target.first[k].start > 0
<1>1. IsTable(source)
  BY ResizeAssumption DEF Disks
<1>2. source \in Seq(Partition) /\ Len(source) >= 4
  BY <1>1 DEF IsTable
<1>3. Len(source) \in Nat /\ \A k \in 1 .. Len(source) : source[k] \in Partition
  BY <1>2
<1> QED
  BY <1>1, <1>2, <1>3, ResizeAssumption DEF Disks

\* A row that is taken over is in order.
LEMMA SameRow ==
    ASSUME Disks, NEW k \in 1 .. Len(source)
    PROVE  /\ source[k] \in Partition /\ RowOK(source[k], k)
           /\ source[k].backup => source[k].id \in {"83", "dos"}
           /\ source[k].id = "0" => source[k].size = 0
<1>1. IsTable(source) /\ source[k] \in Partition
  BY DisksFacts
<1>2. source[k].backup => source[k].id \in {"83", "dos"}
  BY <1>1 DEF IsTable
<1>3. /\ source[k].id = "0" => source[k].size = 0
      /\ k <= 4 /\ source[k].size = 0 => source[k].id = "0"
      /\ k = 1 /\ source[k].id # "0" => source[k].start > 0
  BY <1>1 DEF IsTable
<1>4. RowOK(source[k], k)
  BY <1>3 DEF RowOK
<1> QED
  BY <1>1, <1>2, <1>3, <1>4

\* The first round keeps the rows and the sums.
LEMMA FirstStep ==
    ASSUME Disks, Rows, Sums, ipart = Len(tmp) + 1, step = "first",
           FirstUnsaved \/ FirstSwap \/ FirstOther
    PROVE  Rows' /\ Sums' /\ Len(tmp') = ipart /\ ipart' = ipart + 1 /\ ipart <= Len(source)
<1>1. /\ IsTable(source) /\ Len(source) \in Nat /\ Len(source) >= 4
      /\ \A k \in 1 .. Len(source) : source[k] \in Partition
      /\ \A k \in 1 .. 2 : /\ target.first[k].start \in Nat
                           /\ target.first[k].size \in Nat
                           /\ target.first[k].id = "dos" => target.first[k].start > 0
  BY DisksFacts
<1>2. ipart \in Nat /\ ipart >= 1
  BY DEF Rows
<1>3. ipart <= Len(source) /\ UNCHANGED source
  <2>1. UNCHANGED disks /\ (ipart <= 2 \/ ipart <= Len(source))
    BY DEF FirstUnsaved, FirstSwap, FirstOther, LastPartNr
  <2> QED
    BY <1>1, <1>2, <2>1 DEF disks
<1> DEFINE q == source[ipart]
<1>4. /\ q \in Partition /\ RowOK(q, ipart) /\ (q.backup => q.id \in {"83", "dos"})
      /\ (q.id = "0" => q.size = 0)
  BY <1>2, <1>3, SameRow
<1>5. /\ q.start \in Nat /\ q.size \in Nat /\ q.used \in Nat /\ q.id \in Ids
      /\ q.backup \in BOOLEAN /\ q.fixed \in BOOLEAN
  BY <1>4 DEF Partition
<1>6. CASE FirstUnsaved
  <2>1. ~q.backup /\ q.id # "5" /\ ipart \in 1 .. 2
    BY <1>2, <1>6 DEF FirstUnsaved
  <2>2. CASE Add(q, TRUE)
    BY <1>3, <1>4, <2>1, <2>2, AddRow
  <2>3. CASE Add([q EXCEPT !.start = 0, !.size = 0, !.id = "0"], FALSE)
    <3> DEFINE p == [q EXCEPT !.start = 0, !.size = 0, !.id = "0"]
    <3>1. p \in Partition /\ p.size = 0 /\ p.id = "0" /\ ~p.backup
      BY <1>4, <2>1 DEF Partition, Ids
    <3>2. RowOK(p, ipart) /\ Scaled(p) = 0 /\ Kept(p) = 0
      BY <2>1, <3>1 DEF RowOK, Scaled, Kept, Scalable
    <3>3. Add(p, FALSE)
      BY <2>3
    <3> HIDE DEF p
    <3> QED
      BY <1>3, <3>1, <3>2, <3>3, AddRow
  <2>4. CASE /\ target.first[ipart].id = "dos"
             /\ Add([q EXCEPT !.start = target.first[ipart].start,
                              !.size = target.first[ipart].size, !.id = "dos"], TRUE)
    <3> DEFINE p == [q EXCEPT !.start = target.first[ipart].start,
                              !.size = target.first[ipart].size, !.id = "dos"]
    <3>1. /\ p \in Partition /\ p.id = "dos" /\ ~p.backup
          /\ p.start = target.first[ipart].start
      BY <1>1, <1>4, <2>1 DEF Partition, Ids
    <3>2. RowOK(p, ipart)
      BY <1>1, <2>1, <2>4, <3>1 DEF RowOK
    <3>3. Add(p, TRUE)
      BY <2>4
    <3> HIDE DEF p
    <3> QED
      BY <1>3, <3>1, <3>2, <3>3, AddRow
  <2> QED
    BY <1>6, <2>2, <2>3, <2>4 DEF FirstUnsaved
<1>7. CASE FirstSwap
  <2>1. PICK choice \in 1 .. 5 :
           Add([q EXCEPT !.size = (q.size * (choice + 1)) \div 4,
                         !.used = (q.size * (choice + 1)) \div 4], TRUE)
    BY <1>7 DEF FirstSwap
  <2> DEFINE size == (q.size * (choice + 1)) \div 4
             p == [q EXCEPT !.size = size, !.used = size]
  <2>2. q.id = "82" /\ ipart > 2 /\ ~q.backup
    BY <1>4, <1>7 DEF FirstSwap
  <2>3. size \in Nat
    <3>1. q.size * (choice + 1) \in Nat
      BY <1>5
    <3> QED
      BY <3>1
  <2>4. p \in Partition /\ p.id = "82" /\ ~p.backup
    BY <1>4, <2>2, <2>3 DEF Partition
  <2>5. RowOK(p, ipart)
    BY <2>2, <2>4 DEF RowOK
  <2>6. Add(p, TRUE)
    BY <2>1
  <2> HIDE DEF p
  <2> QED
    BY <1>3, <2>4, <2>5, <2>6, AddRow
<1>8. CASE FirstOther
  <2>1. Add(q, q.id \notin {"0", "5"})
    BY <1>8 DEF FirstOther
  <2>2. q.id \in {"0", "5"} => Scaled(q) = 0 /\ (q.id = "5" \/ Kept(q) = 0)
    BY <1>4 DEF Scaled, Kept, Scalable
  <2>3. (q.id \notin {"0", "5"}) \in BOOLEAN
    OBVIOUS
  <2> HIDE DEF q
  <2> QED
    BY <1>3, <1>4, <2>1, <2>2, <2>3, AddRow
<1> QED
  BY <1>3, <1>6, <1>7, <1>8

-----------------------------------------------------------------------------
(* The second round *)

\* The sectors that row k takes of the disk, and where the sizes of the rows
\* before it add up to.
Taken(k) == IF tmp[k].id \in {"0", "5"} THEN 0 ELSE Sized(k)
Takes == [m \in 1 .. Len(tmp) |-> Taken(m)]
Upto(k) == tmp[1].start + Added(Takes, k - 1)

\* Behind the extended partition next_sector is a track ahead.
Shift(k) == IF \E j \in 1 .. k - 1 : tmp[j].id = "5" THEN tmp[1].start ELSE 0

Extent == Max({Multiply(sum.extScalable) + sum.extFixed, sum.extUsed})

Line == [start : Nat, size : Int \cup {Blank}, id : Ids]
\* With starts that may be blank.
AnyLine == [start : Nat \cup {Blank}, size : Int \cup {Blank}, id : Ids]

\* l is a line of the input of sfdisk for row k.
Laid(l, k) ==
    /\ l.id = tmp[k].id
    /\ tmp[k].id = "0" => l.start = 0 /\ l.size = 0
    /\ tmp[k].id # "0" => l.start = Upto(k) + Shift(k)
    /\ tmp[k].id = "5" => l.size = Min({Extent, target.size - l.start})
    /\ tmp[k].id \notin {"0", "5"} =>
          l.size = IF k # Len(source) THEN Sized(k) ELSE Blank

\* What holds of the second round when a share vanishes, too.
Shape ==
    /\ Len(tmp) = Len(source)
    /\ ipart \in 1 .. Len(source) + 1
    /\ out \in Seq(AnyLine) /\ Len(out) = ipart - 1
    /\ next \in Nat \cup {Blank} /\ total \in Nat \cup {Blank}
    /\ ext \in Int \cup {Blank}

Layout ==
    /\ Len(tmp) = Len(source)
    /\ ipart \in 1 .. Len(source) + 1
    /\ out \in Seq(Line) /\ Len(out) = ipart - 1
    /\ \A k \in 1 .. ipart - 1 : Laid(out[k], k)
    /\ ipart > 1 => total = Upto(ipart)
    /\ ipart > 1 /\ ipart <= Len(source) => next = Upto(ipart) + Shift(ipart)
    /\ (\A j \in 1 .. ipart - 1 : tmp[j].id # "5") => ext = Extent

\* The share of a number of sectors.
LEMMA MultiplyFacts ==
    ASSUME Disks, Rows, Sums, NEW n \in Nat, ~Vanishes(n)
    PROVE  /\ Ratio \in Int /\ Multiply(n) \in Int
           /\ n * Ratio >= 0 => /\ Multiply(n) \in Nat
                                /\ Digits * Multiply(n) <= n * Ratio
                                /\ \A x \in Int : Digits * x <= n * Ratio => x <= Multiply(n)
           /\ n * Ratio < 0 => Multiply(n) <= 0
<1>1. /\ sum.scalable \in Nat /\ sum.fixed \in Nat /\ target.size \in Nat
      /\ Digits \in Nat /\ Digits > 0
  BY SumsNat, DisksFacts, ResizeAssumption
<1>2. ASSUME NEW a \in Int, NEW b \in Nat, b > 0
      PROVE  Cut(a, b) \in Int
  <2>1. CASE a >= 0
    BY <1>2, <2>1, CutNat
  <2>2. CASE a < 0
    BY <1>2, <2>2, CutNegative
  <2> QED
    BY <2>1, <2>2
<1>3. Ratio \in Int
  <2>1. CASE sum.scalable < 1
    BY <2>1 DEF Ratio
  <2>2. CASE sum.scalable >= 1
    <3>1. (target.size - sum.fixed) * Digits \in Int
      BY <1>1
    <3> QED
      BY <1>1, <1>2, <2>2, <3>1 DEF Ratio
  <2> QED
    BY <1>1, <2>1, <2>2
<1>4. PICK a \in Int : a = n * Ratio
  BY <1>3
<1>5. Multiply(n) = Cut(a, Digits)
  <2>1. Multiply(n) = Cut(n * Ratio, Digits)
    BY DEF Multiply
  <2> QED
    BY <1>4, <2>1
<1>6. CASE a >= 0
  BY <1>1, <1>3, <1>4, <1>5, <1>6, CutNat
<1>7. CASE a < 0
  BY <1>1, <1>3, <1>4, <1>5, <1>7, CutNegative
<1> QED
  BY <1>6, <1>7

\* The size of a partition is enough for its share and for what it holds.
LEMMA SizedFacts ==
    ASSUME Disks, Rows, Sums, Whole, NEW k \in 1 .. Len(tmp)
    PROVE  /\ Share(k) \in Int /\ Sized(k) \in Nat /\ Taken(k) \in Nat
           /\ Sized(k) >= Share(k)
           /\ Scalable(tmp[k]) => /\ Sized(k) >= tmp[k].used
                                  /\ Share(k) = Multiply(tmp[k].size)
           /\ ~Scalable(tmp[k]) => Share(k) = tmp[k].size
           /\ Share(k) >= 1 /\ (Scalable(tmp[k]) => Share(k) >= tmp[k].used)
              => Sized(k) = Share(k)
<1>1. tmp[k].size \in Nat /\ tmp[k].used \in Nat /\ k \in Nat
  <2>1. tmp[k] \in Partition /\ k \in Nat
    BY DEF Rows
  <2> QED
    BY <2>1 DEF Partition
<1>2. Scalable(tmp[k]) => Multiply(tmp[k].size) \in Int
  <2>1. Scalable(tmp[k]) => ~Vanishes(tmp[k].size)
    BY DEF Whole
  <2> QED
    BY <1>1, <2>1, MultiplyFacts
<1>3. PICK a \in Int : a = Share(k)
  BY <1>1, <1>2 DEF Share
<1>b. Share(k) # Blank
  BY <1>3, ResizeAssumption
<1>4. ~Scalable(tmp[k]) => a = tmp[k].size
  BY <1>3 DEF Share
<1>5. Scalable(tmp[k]) => a = Multiply(tmp[k].size)
  BY <1>3 DEF Share
<1> DEFINE u == tmp[k].used
           s == IF Scalable(tmp[k]) /\ a < u THEN (u * 111) \div 100 ELSE a
<1>6. Sized(k) = IF tmp[k].id # "82" /\ k >= 4 /\ s = 0 THEN 1 ELSE s
  BY <1>3, <1>b DEF Sized
<1>7. (u * 111) \div 100 \in Nat /\ (u * 111) \div 100 >= u
  BY <1>1
<1>8. s \in Nat /\ s >= a /\ (Scalable(tmp[k]) => s >= u)
  <2>1. CASE Scalable(tmp[k]) /\ a < u
    BY <1>1, <1>7, <2>1
  <2>2. CASE Scalable(tmp[k]) /\ a >= u
    BY <1>1, <2>2
  <2>3. CASE ~Scalable(tmp[k])
    BY <1>1, <1>4, <2>3
  <2> QED
    BY <1>1, <2>1, <2>2, <2>3
<1>9. a >= 1 /\ (Scalable(tmp[k]) => a >= u) => s = a
  BY <1>1
<1> HIDE DEF s, u
<1>10. /\ Sized(k) \in Nat /\ Sized(k) >= a /\ (Scalable(tmp[k]) => Sized(k) >= u)
       /\ a >= 1 /\ (Scalable(tmp[k]) => a >= u) => Sized(k) = a
  <2>1. CASE tmp[k].id # "82" /\ k >= 4 /\ s = 0
    <3>1. Sized(k) = 1
      BY <1>6, <2>1
    <3> QED
      BY <1>1, <1>8, <1>9, <2>1, <3>1 DEF u
  <2>2. CASE ~(tmp[k].id # "82" /\ k >= 4 /\ s = 0)
    <3>1. Sized(k) = s
      BY <1>6, <2>2
    <3> QED
      BY <1>8, <1>9, <3>1
  <2> QED
    BY <2>1, <2>2
<1>11. Taken(k) \in Nat
  BY <1>10 DEF Taken
<1> QED
  BY <1>3, <1>4, <1>5, <1>10, <1>11 DEF u

\* Where a partition begins.
LEMMA UptoFacts ==
    ASSUME Disks, Rows, Sums, Whole, Len(tmp) >= 1
    PROVE  /\ Upto(1) = tmp[1].start /\ tmp[1].start \in Nat
           /\ \A k \in 1 .. Len(tmp) + 1 : Upto(k) \in Nat /\ Shift(k) \in Nat
           /\ \A k \in 1 .. Len(tmp) : Upto(k + 1) = Upto(k) + Taken(k)
           /\ \A j, k \in 1 .. Len(tmp) + 1 : j <= k => Upto(j) <= Upto(k)
<1>1. Len(tmp) \in Nat /\ tmp[1].start \in Nat
  <2>1. Len(tmp) \in Nat /\ tmp[1] \in Partition
    BY DEF Rows
  <2> QED
    BY <2>1 DEF Partition
<1>2. \A m \in 1 .. Len(tmp) : Takes[m] = Taken(m) /\ Takes[m] \in Nat
  BY SizedFacts DEF Takes
<1>3. /\ Added(Takes, 0) = 0
      /\ \A k \in 1 .. Len(tmp) : Added(Takes, k) = Added(Takes, k - 1) + Takes[k]
  <2>1. \A m \in 1 .. Len(tmp) : Takes[m] \in Int
    BY <1>2
  <2> QED
    BY <1>1, <2>1, AddedAll
<1>4. \A j \in 0 .. Len(tmp) : /\ Added(Takes, j) \in Nat
                               /\ \A k \in j .. Len(tmp) : Added(Takes, j) <= Added(Takes, k)
  BY <1>1, <1>2, AddedGrows
<1>5. Upto(1) = tmp[1].start
  BY <1>1, <1>3 DEF Upto
<1>6. \A k \in 1 .. Len(tmp) + 1 : Upto(k) \in Nat /\ Shift(k) \in Nat
  BY <1>1, <1>4 DEF Upto, Shift
<1>7. ASSUME NEW k \in 1 .. Len(tmp)
      PROVE  Upto(k + 1) = Upto(k) + Taken(k)
  <2>1. (k + 1) - 1 = k /\ k - 1 \in 0 .. Len(tmp) /\ k \in 0 .. Len(tmp)
    BY <1>1
  <2>2. /\ Added(Takes, k) = Added(Takes, k - 1) + Taken(k)
        /\ Added(Takes, k - 1) \in Nat /\ Taken(k) \in Nat
    BY <1>2, <1>3, <1>4, <2>1
  <2> QED
    BY <1>1, <2>1, <2>2 DEF Upto
<1>8. ASSUME NEW j \in 1 .. Len(tmp) + 1, NEW k \in 1 .. Len(tmp) + 1, j <= k
      PROVE  Upto(j) <= Upto(k)
  <2>1. j - 1 \in 0 .. Len(tmp) /\ k - 1 \in (j - 1) .. Len(tmp) /\ k - 1 \in 0 .. Len(tmp)
    BY <1>1, <1>8
  <2>2. /\ Added(Takes, j - 1) <= Added(Takes, k - 1)
        /\ Added(Takes, j - 1) \in Nat /\ Added(Takes, k - 1) \in Nat
    BY <1>4, <2>1
  <2> QED
    BY <1>1, <2>2 DEF Upto
<1> QED
  BY <1>1, <1>5, <1>6, <1>7, <1>8

\* The second round changes nothing of what the layout is determined by.
LEMMA Determined ==
    ASSUME UNCHANGED <<source, target, tmp, sum>>
    PROVE  /\ Disks' = Disks /\ Rows' = Rows /\ Sums' = Sums
           /\ \A k : /\ Sized(k)' = Sized(k) /\ Upto(k)' = Upto(k) /\ Shift(k)' = Shift(k)
           /\ Extent' = Extent /\ Takes' = Takes /\ Whole' = Whole
<1>1. source' = source /\ target' = target /\ tmp' = tmp /\ sum' = sum
  OBVIOUS
<1>2. Disks' = Disks /\ Rows' = Rows /\ Sums' = Sums
  BY <1>1 DEF Disks, Rows, RowOK, Sums
<1>3. Ratio' = Ratio
  BY <1>1 DEF Ratio
<1>v. \A n : Vanishes(n)' = Vanishes(n)
  BY <1>3 DEF Vanishes
<1>w. Whole' = Whole
  BY <1>1, <1>3 DEF Whole, Vanishes
<1>4. \A n : Multiply(n)' = Multiply(n)
  BY <1>3, <1>v DEF Multiply
<1>5. \A k : Share(k)' = Share(k)
  BY <1>1, <1>4 DEF Share
<1>6. \A k : Sized(k)' = Sized(k)
  BY <1>1, <1>5 DEF Sized
<1>7. \A k : Taken(k)' = Taken(k)
  BY <1>1, <1>6 DEF Taken
<1>8. Takes' = Takes
  BY <1>1, <1>7 DEF Takes
<1>9. \A k : Upto(k)' = Upto(k)
  BY <1>1, <1>8 DEF Upto
<1>10. \A k : Shift(k)' = Shift(k)
  BY <1>1 DEF Shift
<1>11. Extent' = Extent
  BY <1>1, <1>3 DEF Extent, Multiply, Vanishes
<1> QED
  BY <1>2, <1>6, <1>8, <1>9, <1>10, <1>11, <1>w

\* A line that is added keeps the layout.
LEMMA AddLine ==
    ASSUME Disks, Rows, Sums, Whole, Layout, ipart <= Len(source),
           UNCHANGED <<source, target, tmp, sum>>,
           NEW l \in Line, Laid(l, ipart), out' = Append(out, l), ipart' = ipart + 1,
           total' = Upto(ipart + 1),
           ipart < Len(source) => next' = Upto(ipart + 1) + Shift(ipart + 1),
           tmp[ipart].id # "5" => ext' = ext
    PROVE  Layout'
<1>1. /\ Disks' = Disks /\ Rows' = Rows /\ Sums' = Sums
      /\ \A k : /\ Sized(k)' = Sized(k) /\ Upto(k)' = Upto(k) /\ Shift(k)' = Shift(k)
      /\ Extent' = Extent /\ Takes' = Takes
  BY Determined
<1>2. /\ source' = source /\ target' = target /\ tmp' = tmp /\ Len(source) \in Nat
      /\ ipart \in Nat /\ ipart >= 1 /\ Len(out) = ipart - 1 /\ out \in Seq(Line)
  BY DisksFacts DEF Layout
<1>3. /\ out' \in Seq(Line) /\ Len(out') = ipart' - 1 /\ out'[ipart] = l
      /\ \A k \in 1 .. ipart - 1 : out'[k] = out[k]
  BY <1>2
<1>4. (Len(tmp) = Len(source))' /\ (ipart \in 1 .. Len(source) + 1)'
  BY <1>2 DEF Layout
<1>5. (\A k \in 1 .. ipart - 1 : Laid(out[k], k))'
  <2>1. \A k \in 1 .. ipart : Laid(out'[k], k)
    <3> SUFFICES ASSUME NEW k \in 1 .. ipart
                 PROVE  Laid(out'[k], k)
      OBVIOUS
    <3>1. CASE k = ipart
      BY <1>3, <3>1
    <3>2. CASE k # ipart
      BY <1>2, <1>3, <3>2 DEF Layout
    <3> QED
      BY <3>1, <3>2
  <2>2. ASSUME NEW k \in 1 .. ipart
        PROVE  Laid(out[k], k)'
    <3>1. /\ Sized(k)' = Sized(k) /\ Upto(k)' = Upto(k) /\ Shift(k)' = Shift(k)
          /\ Extent' = Extent /\ tmp' = tmp /\ target' = target /\ source' = source
      BY <1>1, <1>2
    <3>2. Laid(out'[k], k)
      BY <2>1
    <3> QED
      BY <3>1, <3>2 DEF Laid
  <2>3. 1 .. ipart' - 1 = 1 .. ipart
    BY <1>2
  <2> QED
    BY <2>2, <2>3
<1>6. (ipart > 1 => total = Upto(ipart))'
  BY <1>1, <1>2 DEF Upto
<1>7. (ipart > 1 /\ ipart <= Len(source) => next = Upto(ipart) + Shift(ipart))'
  <2>1. ASSUME ipart' <= Len(source')
        PROVE  next' = Upto(ipart + 1) + Shift(ipart + 1)
    BY <1>2, <2>1
  <2> QED
    BY <1>1, <1>2, <2>1 DEF Upto, Shift
<1>8. ((\A j \in 1 .. ipart - 1 : tmp[j].id # "5") => ext = Extent)'
  <2>1. ASSUME \A j \in 1 .. ipart : tmp[j].id # "5"
        PROVE  ext' = Extent
    <3>1. tmp[ipart].id # "5" /\ \A j \in 1 .. ipart - 1 : tmp[j].id # "5"
      BY <1>2, <2>1
    <3> QED
      BY <3>1 DEF Layout
  <2>2. ipart' - 1 = ipart
    BY <1>2
  <2> QED
    BY <1>1, <1>2, <2>1, <2>2
<1> QED
  BY <1>3, <1>4, <1>5, <1>6, <1>7, <1>8 DEF Layout

\* There is one extended partition, and it is in the main table.
LEMMA OneExtended ==
    ASSUME Disks, Rows
    PROVE  /\ \A k \in 1 .. Len(tmp) : tmp[k].id = "5" => k <= 4
           /\ \A j, k \in 1 .. Len(tmp) : tmp[j].id = "5" /\ tmp[k].id = "5" => j = k
<1>1. IsTable(source) /\ Len(source) \in Nat
  BY DisksFacts
<1>2. Len(tmp) \in Nat /\ 1 .. Len(tmp) \subseteq 1 .. Len(source)
  BY <1>1 DEF Rows
<1>3. \A k \in 1 .. Len(tmp) : tmp[k].id = "5" => source[k].id = "5"
  BY DEF Rows, RowOK
<1>4. /\ \A k \in 1 .. Len(source) : source[k].id = "5" => k <= 4
      /\ \A j, k \in 1 .. Len(source) : source[j].id = "5" /\ source[k].id = "5" => j = k
  BY <1>1 DEF IsTable
<1> QED
  BY <1>2, <1>3, <1>4

\* The second round keeps the layout.
LEMMA SecondStep ==
    ASSUME Disks, Rows, Sums, Whole, Layout,
           SecondEmpty \/ SecondExtended \/ SecondOther
    PROVE  Layout' /\ UNCHANGED <<source, target, tmp, sum, step>>
<1>1. /\ step = "second" /\ ipart <= Len(source)
      /\ ipart \in Nat /\ ipart >= 1 /\ Len(source) \in Nat /\ Len(tmp) = Len(source)
      /\ ipart \in 1 .. Len(tmp) /\ ipart + 1 \in 1 .. Len(tmp) + 1
      /\ ipart \in 1 .. Len(tmp) + 1
  BY DisksFacts DEF SecondEmpty, SecondExtended, SecondOther, Second, LastPartNr, Layout
<1>2. UNCHANGED <<source, target, tmp, sum, step>> /\ ipart' = ipart + 1
  BY DEF SecondEmpty, SecondExtended, SecondOther, disks
<1>3. /\ Upto(1) = tmp[1].start /\ tmp[1].start \in Nat
      /\ Upto(ipart) \in Nat /\ Shift(ipart) \in Nat
      /\ Upto(ipart + 1) = Upto(ipart) + Taken(ipart)
  BY <1>1, UptoFacts
<1>4. Start = Upto(ipart) + Shift(ipart) /\ Total1 = Upto(ipart)
  <2>1. CASE ipart = 1
    <3>1. Shift(1) = 0
      BY DEF Shift
    <3> QED
      BY <1>3, <2>1, <3>1 DEF Start, Total1, Row
  <2>2. CASE ipart > 1
    BY <1>1, <2>2 DEF Start, Total1, Layout
  <2> QED
    BY <1>1, <2>1, <2>2
<1>5. Start \in Nat /\ Total1 \in Nat
  BY <1>3, <1>4
<1>b. Start # Blank /\ Total1 # Blank /\ \A a, b \in Nat : Plus(a, b) = a + b
  BY <1>5, ResizeAssumption DEF Plus
<1>6. tmp[ipart] \in Partition /\ tmp[ipart].id \in Ids
  <2>1. tmp[ipart] \in Partition
    BY <1>1 DEF Rows
  <2> QED
    BY <2>1 DEF Partition
<1>7. tmp[ipart].id # "5" => Shift(ipart + 1) = Shift(ipart)
  <2>1. (ipart + 1) - 1 = ipart /\ 1 .. ipart = (1 .. ipart - 1) \cup {ipart}
    BY <1>1
  <2> QED
    BY <2>1 DEF Shift
<1>8. tmp[ipart].id = "5" => Shift(ipart) = 0 /\ Shift(ipart + 1) = tmp[1].start
  <2>1. (ipart + 1) - 1 = ipart /\ ipart \in 1 .. ipart
    BY <1>1
  <2>2. \A j \in 1 .. ipart - 1 : j \in 1 .. Len(tmp) /\ j # ipart
    BY <1>1
  <2> QED
    BY <1>1, <2>1, <2>2, OneExtended DEF Shift
<1>9. CASE SecondEmpty
  <2> DEFINE l == [start |-> 0, size |-> 0, id |-> "0"]
  <2>1. /\ tmp[ipart].id = "0" /\ out' = Append(out, l) /\ next' = Start
        /\ total' = Total1 /\ ext' = ext
    BY <1>9 DEF SecondEmpty, Second, Row
  <2>2. l \in Line /\ Laid(l, ipart)
    BY <2>1 DEF Line, Laid, Ids
  <2>3. Taken(ipart) = 0
    BY <2>1 DEF Taken
  <2>4. total' = Upto(ipart + 1) /\ next' = Upto(ipart + 1) + Shift(ipart + 1)
    BY <1>3, <1>4, <1>7, <2>1, <2>3
  <2> HIDE DEF l
  <2> QED
    BY <1>1, <1>2, <2>1, <2>2, <2>4, AddLine
<1>10. CASE SecondExtended
  <2>0. /\ tmp[ipart].id = "5"
        /\ ext' = IF Blank \in {ext, Start} THEN ext ELSE Min({ext, target.size - Start})
        /\ out' = Append(out, [start |-> Start, size |-> ext', id |-> "5"])
        /\ next' = Plus(Start, tmp[1].start) /\ total' = Total1
    BY <1>10 DEF SecondExtended, Second, Row
  <2> DEFINE l == [start |-> Start, size |-> ext', id |-> "5"]
  <2>2. ext = Extent
    <3>1. \A j \in 1 .. ipart - 1 : j \in 1 .. Len(tmp) /\ j # ipart
      BY <1>1
    <3> QED
      BY <1>1, <2>0, <3>1, OneExtended DEF Layout
  <2>3. ext \in Int /\ target.size - Start \in Int
    <3>1. sum.extScalable \in Nat /\ sum.extFixed \in Nat /\ sum.extUsed \in Nat
      BY SumsNat
    <3>2. Multiply(sum.extScalable) \in Int
      BY <3>1, MultiplyFacts DEF Whole
    <3>3. Multiply(sum.extScalable) + sum.extFixed \in Int /\ sum.extUsed \in Int
      BY <3>1, <3>2
    <3>4. Extent \in Int
      BY <3>3, OfTwo DEF Extent
    <3> QED
      BY <1>5, <2>2, <3>4, DisksFacts
  <2>1. /\ tmp[ipart].id = "5" /\ ext' = Min({ext, target.size - Start})
        /\ out' = Append(out, [start |-> Start, size |-> ext', id |-> "5"])
        /\ next' = Start + tmp[1].start /\ total' = Total1
    BY <1>3, <1>5, <1>b, <2>0, <2>3, ResizeAssumption
  <2>4. ext' \in Int
    BY <2>1, <2>3, OfTwo
  <2>5. l \in Line
    BY <1>5, <2>4 DEF Line, Ids
  <2>6. Laid(l, ipart)
    BY <1>4, <2>1, <2>2 DEF Laid
  <2>7. Taken(ipart) = 0
    BY <2>1 DEF Taken
  <2>8. total' = Upto(ipart + 1) /\ next' = Upto(ipart + 1) + Shift(ipart + 1)
    BY <1>3, <1>4, <1>8, <2>1, <2>7
  <2>9. out' = Append(out, l)
    BY <2>1
  <2> HIDE DEF l
  <2> QED
    BY <1>1, <1>2, <2>1, <2>5, <2>6, <2>8, <2>9, AddLine
<1>11. CASE SecondOther
  <2>0. /\ tmp[ipart].id \notin {"0", "5"}
        /\ total' = Plus(Total1, Sized(ipart))
        /\ next' = IF ipart # Len(source) THEN Plus(Start, Sized(ipart)) ELSE Start
        /\ out' = Append(out,
              [start |-> Start,
               size |-> IF ipart # Len(source) THEN Sized(ipart) ELSE Blank,
               id |-> tmp[ipart].id])
        /\ ext' = ext
    BY <1>11 DEF SecondOther, Second, Row, LastPartNr
  <2> DEFINE l == [start |-> Start,
                   size |-> IF ipart # Len(source) THEN Sized(ipart) ELSE Blank,
                   id |-> tmp[ipart].id]
  <2>2. Sized(ipart) \in Nat
    BY <1>1, SizedFacts
  <2>1. /\ tmp[ipart].id \notin {"0", "5"}
        /\ total' = Total1 + Sized(ipart)
        /\ next' = IF ipart # Len(source) THEN Start + Sized(ipart) ELSE Start
        /\ out' = Append(out,
              [start |-> Start,
               size |-> IF ipart # Len(source) THEN Sized(ipart) ELSE Blank,
               id |-> tmp[ipart].id])
        /\ ext' = ext
    BY <1>5, <1>b, <2>0, <2>2
  <2>3. l \in Line
    BY <1>5, <1>6, <2>2 DEF Line
  <2>4. Laid(l, ipart)
    BY <1>4, <2>1 DEF Laid
  <2>5. Taken(ipart) = Sized(ipart)
    BY <2>1 DEF Taken
  <2>6. total' = Upto(ipart + 1)
    BY <1>3, <1>4, <2>1, <2>5
  <2>7. ipart < Len(source) => next' = Upto(ipart + 1) + Shift(ipart + 1)
    BY <1>1, <1>3, <1>4, <1>7, <2>1, <2>2, <2>5
  <2>8. out' = Append(out, l)
    BY <2>1
  <2> HIDE DEF l
  <2> QED
    BY <1>1, <1>2, <2>1, <2>3, <2>4, <2>6, <2>7, <2>8, AddLine
<1> QED
  BY <1>2, <1>9, <1>10, <1>11

\* The size of the extended partition when the first round is done.
LEMMA ExtendedSize ==
    ASSUME Disks, Rows, Sums,
           ext' = (IF ScaledExtended = Blank THEN Blank
                   ELSE Max({ScaledExtended, sum.extUsed}))
    PROVE  ext' \in Int \cup {Blank} /\ (Whole => ext' = Extent)
<1>1. sum.extScalable \in Nat /\ sum.extFixed \in Nat /\ sum.extUsed \in Nat
  BY SumsNat
<1>2. ~Vanishes(sum.extScalable) => Multiply(sum.extScalable) \in Int
  BY <1>1, MultiplyFacts
<1>3. Vanishes(sum.extScalable) => Multiply(sum.extScalable) = Blank
  BY DEF Multiply
<1>4. ScaledExtended \in Int \cup {Blank}
  BY <1>1, <1>2, <1>3 DEF ScaledExtended, Plus
<1>5. ext' \in Int \cup {Blank}
  <2>1. CASE ScaledExtended = Blank
    BY <2>1
  <2>2. CASE ScaledExtended # Blank
    <3>1. ScaledExtended \in Int /\ sum.extUsed \in Int
      BY <1>1, <1>4, <2>2
    <3>2. Max({ScaledExtended, sum.extUsed}) \in Int
      BY <3>1, OfTwo
    <3> QED
      BY <2>2, <3>2
  <2> QED
    BY <2>1, <2>2
<1>6. ASSUME Whole PROVE ext' = Extent
  <2>1. ~Vanishes(sum.extScalable)
    BY <1>6 DEF Whole
  <2>2. ScaledExtended = Multiply(sum.extScalable) + sum.extFixed
    BY <1>1, <1>2, <2>1, ResizeAssumption DEF ScaledExtended, Plus
  <2>3. ScaledExtended # Blank
    BY <1>1, <1>2, <2>1, <2>2, ResizeAssumption
  <2> QED
    BY <2>2, <2>3 DEF Extent
<1> QED
  BY <1>5, <1>6

\* What expr prints is a number or nothing.
LEMMA PlusFacts ==
    ASSUME NEW a \in Nat \cup {Blank}, NEW b \in Nat \cup {Blank}
    PROVE  Plus(a, b) \in Nat \cup {Blank}
BY ResizeAssumption DEF Plus

\* The size of a partition is a number or blank.
LEMMA SizedType ==
    ASSUME Disks, Rows, Sums, NEW k \in 1 .. Len(tmp)
    PROVE  Sized(k) \in Nat \cup {Blank}
<1>1. tmp[k].size \in Nat /\ tmp[k].used \in Nat
  <2>1. tmp[k] \in Partition
    BY DEF Rows
  <2> QED
    BY <2>1 DEF Partition
<1>2. CASE Share(k) = Blank
  BY <1>2, ResizeAssumption DEF Sized
<1>3. CASE Share(k) # Blank
  <2>1. Scalable(tmp[k]) => Share(k) \in Int
    <3>1. Scalable(tmp[k]) => Share(k) = Multiply(tmp[k].size)
      BY DEF Share
    <3>2. Vanishes(tmp[k].size) => Multiply(tmp[k].size) = Blank
      BY DEF Multiply
    <3>3. ~Vanishes(tmp[k].size) => Multiply(tmp[k].size) \in Int
      BY <1>1, MultiplyFacts
    <3> QED
      BY <1>3, <3>1, <3>2, <3>3
  <2>2. ~Scalable(tmp[k]) => Share(k) = tmp[k].size
    BY DEF Share
  <2>3. (tmp[k].used * 111) \div 100 \in Nat
    BY <1>1
  <2>4. PICK s : s = IF Share(k) # Blank /\ Scalable(tmp[k]) /\ Share(k) < tmp[k].used
                     THEN (tmp[k].used * 111) \div 100 ELSE Share(k)
    OBVIOUS
  <2>5. s \in Nat
    <3>1. CASE Scalable(tmp[k]) /\ Share(k) < tmp[k].used
      BY <1>3, <2>3, <2>4, <3>1
    <3>2. CASE Scalable(tmp[k]) /\ ~(Share(k) < tmp[k].used)
      BY <1>1, <2>1, <2>4, <3>2
    <3>3. CASE ~Scalable(tmp[k])
      BY <1>1, <2>2, <2>4, <3>3
    <3> QED
      BY <3>1, <3>2, <3>3
  <2>6. Sized(k) = IF tmp[k].id # "82" /\ k >= 4 /\ s = 0 THEN 1 ELSE s
    BY <2>4 DEF Sized
  <2> QED
    BY <2>5, <2>6
<1> QED
  BY <1>2, <1>3

\* The second round keeps the shape of what it writes.
LEMMA ShapeStep ==
    ASSUME Disks, Rows, Sums, Shape,
           SecondEmpty \/ SecondExtended \/ SecondOther
    PROVE  Shape' /\ UNCHANGED <<source, target, tmp, sum, step>>
<1>1. /\ ipart <= Len(source)
      /\ ipart \in Nat /\ ipart >= 1 /\ Len(source) \in Nat /\ Len(tmp) = Len(source)
      /\ ipart \in 1 .. Len(tmp) /\ Len(out) = ipart - 1 /\ out \in Seq(AnyLine)
      /\ target.size \in Nat /\ Len(tmp) >= 1
  BY DisksFacts DEF SecondEmpty, SecondExtended, SecondOther, Second, LastPartNr, Shape
<1>2. UNCHANGED <<source, target, tmp, sum, step>> /\ ipart' = ipart + 1
  BY DEF SecondEmpty, SecondExtended, SecondOther, disks
<1>3. \A k \in 1 .. Len(tmp) : tmp[k].start \in Nat /\ tmp[k].id \in Ids
  <2>1. \A k \in 1 .. Len(tmp) : tmp[k] \in Partition
    BY DEF Rows
  <2> QED
    BY <2>1 DEF Partition
<1>4. Start \in Nat \cup {Blank} /\ Total1 \in Nat \cup {Blank}
  BY <1>1, <1>3 DEF Start, Total1, Row, Shape
<1>5. ASSUME \E l \in AnyLine : out' = Append(out, l), next' \in Nat \cup {Blank},
             total' \in Nat \cup {Blank}, ext' \in Int \cup {Blank}
      PROVE  Shape'
  <2>1. out' \in Seq(AnyLine) /\ Len(out') = ipart' - 1
    <3>1. PICK l \in AnyLine : out' = Append(out, l)
      BY <1>5
    <3> QED
      BY <1>1, <1>2, <3>1
  <2>2. ipart' \in 1 .. Len(source') + 1 /\ Len(tmp') = Len(source')
    BY <1>1, <1>2
  <2> QED
    BY <1>5, <2>1, <2>2 DEF Shape
<1>6. CASE SecondEmpty
  <2>1. /\ out' = Append(out, [start |-> 0, size |-> 0, id |-> "0"]) /\ next' = Start
        /\ total' = Total1 /\ ext' = ext
    BY <1>6 DEF SecondEmpty
  <2>2. [start |-> 0, size |-> 0, id |-> "0"] \in AnyLine
    BY DEF AnyLine, Ids
  <2>3. /\ next' \in Nat \cup {Blank} /\ total' \in Nat \cup {Blank}
        /\ ext' \in Int \cup {Blank}
    BY <1>4, <2>1 DEF Shape
  <2>4. \E l \in AnyLine : out' = Append(out, l)
    BY <2>1, <2>2
  <2> QED
    BY <1>2, <1>5, <2>3, <2>4
<1>7. CASE SecondExtended
  <2>1. /\ ext' = IF Blank \in {ext, Start} THEN ext ELSE Min({ext, target.size - Start})
        /\ out' = Append(out, [start |-> Start, size |-> ext', id |-> "5"])
        /\ next' = Plus(Start, tmp[1].start) /\ total' = Total1
    BY <1>7 DEF SecondExtended
  <2>2. ext' \in Int \cup {Blank}
    <3>1. CASE Blank \in {ext, Start}
      BY <2>1, <3>1 DEF Shape
    <3>2. CASE Blank \notin {ext, Start}
      <4>1. ext \in Int /\ target.size - Start \in Int
        BY <1>1, <1>4, <3>2 DEF Shape
      <4>2. Min({ext, target.size - Start}) \in Int
        BY <4>1, OfTwo
      <4> QED
        BY <2>1, <3>2, <4>2
    <3> QED
      BY <3>1, <3>2
  <2>3. [start |-> Start, size |-> ext', id |-> "5"] \in AnyLine
    BY <1>4, <2>2 DEF AnyLine, Ids
  <2>4. next' \in Nat \cup {Blank}
    <3>1. tmp[1].start \in Nat \cup {Blank}
      BY <1>1, <1>3
    <3> QED
      BY <1>4, <2>1, <3>1, PlusFacts
  <2>5. \E l \in AnyLine : out' = Append(out, l)
    BY <2>1, <2>3
  <2>6. total' \in Nat \cup {Blank}
    BY <1>4, <2>1
  <2> QED
    BY <1>2, <1>5, <2>2, <2>4, <2>5, <2>6
<1>8. CASE SecondOther
  <2>1. /\ total' = Plus(Total1, Sized(ipart))
        /\ next' = IF ipart # Len(source) THEN Plus(Start, Sized(ipart)) ELSE Start
        /\ out' = Append(out,
              [start |-> Start,
               size |-> IF ipart # Len(source) THEN Sized(ipart) ELSE Blank,
               id |-> tmp[ipart].id])
        /\ ext' = ext
    BY <1>8 DEF SecondOther, Second, Row, LastPartNr
  <2>2. Sized(ipart) \in Nat \cup {Blank}
    BY <1>1, SizedType
  <2>3. [start |-> Start,
         size |-> IF ipart # Len(source) THEN Sized(ipart) ELSE Blank,
         id |-> tmp[ipart].id] \in AnyLine
    BY <1>1, <1>3, <1>4, <2>2 DEF AnyLine
  <2>4. next' \in Nat \cup {Blank} /\ total' \in Nat \cup {Blank}
    BY <1>4, <2>1, <2>2, PlusFacts
  <2>5. \E l \in AnyLine : out' = Append(out, l)
    BY <2>1, <2>3
  <2>6. ext' \in Int \cup {Blank}
    BY <2>1 DEF Shape
  <2> QED
    BY <1>2, <1>5, <2>4, <2>5, <2>6
<1> QED
  BY <1>2, <1>6, <1>7, <1>8

-----------------------------------------------------------------------------
(* The invariant *)

ResizeInv ==
    /\ Disks /\ Rows /\ Sums
    /\ step \in {"first", "second", "done", "failed"}
    /\ step = "first" => ipart = Len(tmp) + 1 /\ out = <<>> /\ total = 0
    /\ step # "first" => Shape /\ (Whole => Layout)
    /\ step = "first" => next = 0
    /\ step \in {"done", "failed"} => ipart = Len(source) + 1
    /\ step = "done" /\ Whole => total <= target.size
    /\ step = "failed" /\ Whole => target.size < total

\* It holds in the beginning: there are no rows.
LEMMA InitInv == Init => ResizeInv
<1> SUFFICES ASSUME Init PROVE ResizeInv
  OBVIOUS
<1>1. Disks /\ tmp = <<>> /\ Len(tmp) = 0 /\ step = "first" /\ out = <<>> /\ total = 0
      /\ ipart = 1 /\ next = 0
  BY DEF Init, Disks
<1>2. Rows
  BY <1>1, DisksFacts DEF Rows
<1>3. \A g : Added(g, 0) = 0
  <2> SUFFICES ASSUME NEW g PROVE Added(g, 0) = 0
    OBVIOUS
  <2>1. \A k \in 1 .. 0 : g[k] \in Int
    OBVIOUS
  <2> QED
    BY <2>1, AddedAll
<1>4. Sums
  BY <1>1, <1>3 DEF Sums, Init
<1> QED
  BY <1>1, <1>2, <1>4 DEF ResizeInv

\* Where nothing of the layout changes it is kept.
LEMMA SameLayout ==
    ASSUME Layout, UNCHANGED <<source, target, ipart, tmp, sum, ext, next, total, out>>
    PROVE  Layout'
<1>1. /\ \A k : /\ Sized(k)' = Sized(k) /\ Upto(k)' = Upto(k) /\ Shift(k)' = Shift(k)
      /\ Takes' = Takes /\ Extent' = Extent
  BY Determined
<1>2. (\A k \in 1 .. ipart - 1 : Laid(out[k], k))'
  <2>1. ASSUME NEW k \in 1 .. ipart - 1
        PROVE  Laid(out[k], k)'
    <3>1. /\ Sized(k)' = Sized(k) /\ Upto(k)' = Upto(k) /\ Shift(k)' = Shift(k)
          /\ Extent' = Extent /\ out' = out
          /\ tmp' = tmp /\ target' = target /\ source' = source
      BY <1>1
    <3>2. Laid(out[k], k)
      BY DEF Layout
    <3> QED
      BY <3>1, <3>2 DEF Laid
  <2> QED
    BY <2>1
<1>3. (ipart > 1 => total = Upto(ipart))'
  BY <1>1 DEF Layout, Upto
<1>4. (ipart > 1 /\ ipart <= Len(source) => next = Upto(ipart) + Shift(ipart))'
  BY <1>1 DEF Layout, Upto, Shift
<1> QED
  BY <1>1, <1>2, <1>3, <1>4 DEF Layout

\* Every step keeps it.
LEMMA StepInv == ResizeInv /\ [Next]_vars => ResizeInv'
<1> SUFFICES ASSUME ResizeInv, [Next]_vars
             PROVE  ResizeInv'
  OBVIOUS
<1>a. /\ Disks /\ Rows /\ Sums
      /\ step \in {"first", "second", "done", "failed"}
      /\ step = "first" => ipart = Len(tmp) + 1 /\ out = <<>> /\ total = 0 /\ next = 0
      /\ step # "first" => Shape /\ (Whole => Layout)
  BY DEF ResizeInv
<1>b. Len(source) \in Nat /\ Len(source) >= 4 /\ target.size \in Nat
  BY <1>a, DisksFacts
<1>1. CASE FirstUnsaved \/ FirstSwap \/ FirstOther
  <2>1. step = "first" /\ UNCHANGED <<disks, step, out, total, next>>
    BY <1>1 DEF FirstUnsaved, FirstSwap, FirstOther
  <2>2. Rows' /\ Sums' /\ Len(tmp') = ipart /\ ipart' = ipart + 1
    BY <1>1, <1>a, <2>1, FirstStep
  <2> QED
    BY <1>a, <2>1, <2>2 DEF ResizeInv, Disks, disks
<1>2. CASE FirstDone
  <2>1. /\ step = "first" /\ ipart > Len(source) /\ step' = "second" /\ ipart' = 1
        /\ ext' = (IF ScaledExtended = Blank THEN Blank
                   ELSE Max({ScaledExtended, sum.extUsed}))
        /\ UNCHANGED <<source, target, tmp, sum, next, total, out>>
    BY <1>2 DEF FirstDone, LastPartNr, disks
  <2>2. Disks' /\ Rows' /\ Sums' /\ Extent' = Extent /\ Whole' = Whole
    BY <1>a, <2>1, Determined
  <2>e. ext' \in Int \cup {Blank} /\ (Whole => ext' = Extent)
    BY <1>a, <2>1, ExtendedSize
  <2>3. Len(tmp') = Len(source') /\ out' \in Seq(Line) /\ Len(out') = 0
        /\ out' \in Seq(AnyLine) /\ next' = 0 /\ total' = 0
    <3>1. Len(tmp) \in Nat /\ Len(tmp) <= Len(source) /\ ipart = Len(tmp) + 1 /\ out = <<>>
      BY <1>a, <2>1 DEF Rows
    <3> QED
      BY <1>a, <1>b, <2>1, <3>1
  <2>4. Whole' => Layout'
    BY <1>b, <2>1, <2>2, <2>3, <2>e DEF Layout
  <2>5. Shape'
    BY <1>b, <2>1, <2>3, <2>e DEF Shape
  <2> QED
    BY <2>1, <2>2, <2>4, <2>5 DEF ResizeInv
<1>3. CASE SecondEmpty \/ SecondExtended \/ SecondOther
  <2>1. step = "second"
    BY <1>3 DEF SecondEmpty, SecondExtended, SecondOther, Second
  <2>2. Shape' /\ UNCHANGED <<source, target, tmp, sum, step>>
    BY <1>3, <1>a, <2>1, ShapeStep
  <2>3. Disks' /\ Rows' /\ Sums' /\ Whole' = Whole
    BY <1>a, <2>2, Determined
  <2>4. ASSUME Whole PROVE Layout'
    BY <1>3, <1>a, <2>1, <2>4, SecondStep
  <2> QED
    BY <2>1, <2>2, <2>3, <2>4 DEF ResizeInv
<1>4. CASE SecondDone
  <2>1. /\ step = "second" /\ ipart > Len(source)
        /\ step' = IF total # Blank /\ target.size < total THEN "failed" ELSE "done"
        /\ UNCHANGED <<source, target, ipart, tmp, sum, ext, next, total, out>>
    BY <1>4 DEF SecondDone, LastPartNr, disks
  <2>2. Disks' /\ Rows' /\ Sums' /\ Whole' = Whole /\ Shape'
    <3>1. Disks' /\ Rows' /\ Sums' /\ Whole' = Whole /\ Shape
      BY <1>a, <2>1, Determined
    <3> QED
      BY <2>1, <3>1 DEF Shape
  <2>l. ASSUME Whole PROVE Layout'
    BY <1>a, <2>1, <2>l, SameLayout
  <2>3. ipart = Len(source) + 1
    <3>2. ipart \in 1 .. Len(source) + 1
      BY <1>a, <2>1 DEF Shape
    <3> QED
      BY <1>b, <2>1, <3>2
  <2>4. ASSUME Whole PROVE total \in Int /\ total # Blank
    <3>1. Layout
      BY <1>a, <2>1, <2>4
    <3>2. Len(tmp) = Len(source)
      BY <3>1 DEF Layout
    <3>4. total = Upto(ipart) /\ Len(tmp) >= 1 /\ ipart \in 1 .. Len(tmp) + 1
      BY <1>b, <2>3, <3>1, <3>2 DEF Layout
    <3>5. Upto(ipart) \in Nat
      BY <1>a, <2>4, <3>4, UptoFacts
    <3> QED
      BY <3>4, <3>5, ResizeAssumption
  <2>5. Whole' => (step' = "done" => total' <= target'.size)
                  /\ (step' = "failed" => target'.size < total')
    BY <1>b, <2>1, <2>2, <2>4
  <2>6. Whole' => Layout'
    BY <2>2, <2>l
  <2>7. step' \in {"done", "failed"} /\ ipart' = Len(source') + 1
    BY <2>1, <2>3
  <2> QED
    BY <2>2, <2>5, <2>6, <2>7 DEF ResizeInv
<1>5. CASE UNCHANGED vars
  <2>1. UNCHANGED <<source, target, step, ipart, tmp, sum, ext, next, total, out>>
    BY <1>5 DEF vars
  <2>2. Disks' /\ Rows' /\ Sums' /\ Extent' = Extent /\ Whole' = Whole
    BY <1>a, <2>1, Determined
  <2>3. ASSUME Layout PROVE Layout'
    BY <2>1, <2>3, SameLayout
  <2>4. ASSUME Shape PROVE Shape'
    BY <2>1, <2>4 DEF Shape
  <2> QED
    BY <2>1, <2>2, <2>3, <2>4 DEF ResizeInv
<1> QED
  BY <1>1, <1>2, <1>3, <1>4, <1>5 DEF Next, Stop

\* The invariant holds in every state.
LEMMA Invariant == Spec => []ResizeInv
<1>1. Init => ResizeInv
  BY InitInv
<1>2. ResizeInv /\ [Next]_vars => ResizeInv'
  BY StepInv
<1> QED
  BY <1>1, <1>2, PTL DEF Spec

\* What the sizes of lines are.
LEMMA LineFacts ==
    ASSUME ResizeInv, Whole, step # "first"
    PROVE  /\ Disks /\ Rows /\ Sums /\ Layout /\ Len(tmp) = Len(source)
           /\ Len(source) \in Nat /\ Len(source) >= 4 /\ target.size \in Nat
           /\ ipart \in 1 .. Len(source) + 1 /\ Len(out) = ipart - 1
           /\ \A k \in 1 .. Len(out) : out[k].start \in Nat /\ Laid(out[k], k)
<1>1. Disks /\ Rows /\ Sums /\ Layout
  BY DEF ResizeInv
<1>2. Len(source) \in Nat /\ Len(source) >= 4 /\ target.size \in Nat
  BY <1>1, DisksFacts
<1>3. /\ Len(tmp) = Len(source) /\ ipart \in 1 .. Len(source) + 1
      /\ Len(out) = ipart - 1 /\ out \in Seq(Line)
  BY <1>1 DEF Layout
<1>4. ASSUME NEW k \in 1 .. Len(out)
      PROVE  out[k].start \in Nat /\ Laid(out[k], k)
  <2>1. out[k] \in Line
    BY <1>3
  <2>2. Laid(out[k], k)
    BY <1>1, <1>3 DEF Layout
  <2> QED
    BY <2>1, <2>2 DEF Line
<1> QED
  BY <1>1, <1>2, <1>3, <1>4

\* The types of the variables, in every state: the tables have the rows they
\* should, and no start lies before the disk.
THEOREM TypeCorrect == Spec => []TypeOK
<1>1. ResizeInv => TypeOK
  <2> SUFFICES ASSUME ResizeInv PROVE TypeOK
    OBVIOUS
  <2>1. Disks /\ Rows /\ step \in {"first", "second", "done", "failed"}
    BY DEF ResizeInv
  <2>2. \A k \in 1 .. Len(tmp) : tmp[k].size \in Nat /\ tmp[k].start \in Nat
    <3>1. \A k \in 1 .. Len(tmp) : tmp[k] \in Partition
      BY <2>1 DEF Rows
    <3> QED
      BY <3>1 DEF Partition
  <2>3. CASE step = "first"
    <3>1. ipart = Len(tmp) + 1 /\ out = <<>> /\ Len(tmp) \in Nat /\ Len(tmp) <= Len(source)
      BY <2>1, <2>3 DEF ResizeInv, Rows
    <3>2. ipart \in 1 .. Len(source) + 1 /\ Len(tmp) = ipart - 1 /\ Len(out) = 0
      BY <2>1, <3>1, DisksFacts
    <3> QED
      BY <2>1, <2>2, <2>3, <3>2 DEF TypeOK, LastPartNr
  <2>4. CASE step # "first"
    <3>1. /\ Len(tmp) = Len(source) /\ ipart \in 1 .. Len(source) + 1
          /\ out \in Seq(AnyLine) /\ Len(out) = ipart - 1
      BY <2>4 DEF ResizeInv, Shape
    <3>2. \A k \in 1 .. Len(out) : out[k] \in AnyLine
      BY <3>1
    <3>3. \A k \in 1 .. Len(out) : /\ out[k].size \in Int \cup {Blank}
                                   /\ out[k].start \in Nat \cup {Blank}
      BY <3>2 DEF AnyLine
    <3> QED
      BY <2>1, <2>2, <2>4, <3>1, <3>3 DEF TypeOK, LastPartNr
  <2> QED
    BY <2>3, <2>4
<1> QED
  BY <1>1, Invariant, PTL

-----------------------------------------------------------------------------
(* Where the partitions come to lie *)

\* A layout that is finished.
LEMMA DoneFacts ==
    ASSUME ResizeInv, Whole, Finished
    PROVE  /\ Len(out) = Len(source) /\ Len(tmp) = Len(source)
           /\ Len(source) \in Nat /\ Len(source) >= 4 /\ target.size \in Nat
           /\ Disks /\ Rows /\ Sums
           /\ \A k \in 1 .. Len(source) : Laid(out[k], k) /\ out[k].id = tmp[k].id
           /\ total = Upto(Len(source) + 1)
           /\ Upto(1) = tmp[1].start /\ tmp[1].start \in Nat
           /\ \A k \in 1 .. Len(source) + 1 : Upto(k) \in Nat /\ Shift(k) \in Nat
           /\ \A k \in 1 .. Len(source) : Upto(k + 1) = Upto(k) + Taken(k)
           /\ \A j, k \in 1 .. Len(source) + 1 : j <= k => Upto(j) <= Upto(k)
<1>1. step # "first" /\ ipart = Len(source) + 1
  BY DEF Finished, ResizeInv
<1>2. /\ Disks /\ Rows /\ Sums /\ Layout /\ Len(tmp) = Len(source)
      /\ Len(source) \in Nat /\ Len(source) >= 4 /\ target.size \in Nat
      /\ Len(out) = ipart - 1
      /\ \A k \in 1 .. Len(out) : Laid(out[k], k)
  BY <1>1, LineFacts
<1>3. Len(out) = Len(source) /\ total = Upto(Len(source) + 1) /\ Len(tmp) >= 1
  BY <1>1, <1>2 DEF Layout
<1>4. \A k \in 1 .. Len(source) : Laid(out[k], k) /\ out[k].id = tmp[k].id
  BY <1>2, <1>3 DEF Laid
<1> QED
  BY <1>2, <1>3, <1>4, UptoFacts

\* A row of the main table other than an empty one.
LEMMA PrimaryFacts ==
    ASSUME ResizeInv, Whole, Finished, NEW k \in 1 .. 4, tmp[k].id # "0"
    PROVE  /\ Lo(k) = Upto(k) + Shift(k)
           /\ tmp[k].id # "5" /\ k # Len(source) => Hi(k) = Lo(k) + Taken(k)
           /\ tmp[k].id # "5" /\ k = Len(source) => Hi(k) = target.size
<1>1. /\ Len(source) \in Nat /\ Len(source) >= 4 /\ Len(tmp) = Len(source)
      /\ Disks /\ Rows /\ Sums
      /\ \A m \in 1 .. Len(source) : Laid(out[m], m) /\ out[m].id = tmp[m].id
  BY DoneFacts
<1>2. k \in 1 .. Len(source) /\ k \in 1 .. Len(tmp) /\ ~Logical(k)
  BY <1>1 DEF Logical
<1>3. Lo(k) = Upto(k) + Shift(k)
  BY <1>1, <1>2 DEF Lo, Laid
<1>4. ASSUME tmp[k].id # "5", k # Len(source)
      PROVE  Hi(k) = Lo(k) + Taken(k)
  <2>1. out[k].size = Sized(k) /\ Taken(k) = Sized(k)
    BY <1>1, <1>2, <1>4 DEF Laid, Taken
  <2>2. Sized(k) \in Nat
    BY <1>1, <1>2, SizedFacts
  <2>3. out[k].size # Blank
    BY <2>1, <2>2, ResizeAssumption
  <2> QED
    BY <2>1, <2>3 DEF Hi
<1>5. ASSUME tmp[k].id # "5", k = Len(source)
      PROVE  Hi(k) = target.size
  <2>1. out[k].size = Blank
    BY <1>1, <1>2, <1>5 DEF Laid
  <2> QED
    BY <1>2, <2>1 DEF Hi
<1> QED
  BY <1>3, <1>4, <1>5

\* The extended partition has a size: it begins before the disk ends.
LEMMA ExtendedFacts ==
    ASSUME ResizeInv, Whole, Finished, total <= target.size, NEW x \in 1 .. 4, tmp[x].id = "5"
    PROVE  /\ Extended = {x} /\ Max(Extended) = x /\ Shift(x) = 0 /\ out[x].start = Upto(x)
           /\ Extent \in Nat /\ out[x].size \in Nat
           /\ out[x].size = IF Extent <= target.size - Upto(x) THEN Extent
                            ELSE target.size - Upto(x)
           /\ Extent >= Multiply(sum.extScalable) + sum.extFixed
<1>1. /\ Len(source) \in Nat /\ Len(source) >= 4 /\ Len(tmp) = Len(source)
      /\ Disks /\ Rows /\ Sums /\ target.size \in Nat
      /\ \A m \in 1 .. Len(source) : Laid(out[m], m) /\ out[m].id = tmp[m].id
      /\ total = Upto(Len(source) + 1)
      /\ \A k \in 1 .. Len(source) + 1 : Upto(k) \in Nat /\ Shift(k) \in Nat
      /\ \A j, k \in 1 .. Len(source) + 1 : j <= k => Upto(j) <= Upto(k)
  BY DoneFacts
<1>2. x \in 1 .. Len(source) /\ 1 .. 4 \subseteq 1 .. Len(source)
  BY <1>1
<1>3. \A k \in 1 .. Len(tmp) : tmp[k].id = "5" => k = x
  BY <1>1, <1>2, OneExtended
<1>4. Extended = {x}
  BY <1>1, <1>2, <1>3 DEF Extended
<1>5. Max(Extended) = x
  BY <1>4, OfOne
<1>6. Shift(x) = 0
  <2>1. \A j \in 1 .. x - 1 : j \in 1 .. Len(tmp) /\ j # x
    BY <1>1
  <2> QED
    BY <1>3, <2>1 DEF Shift
<1>7. sum.extScalable \in Nat /\ sum.extFixed \in Nat /\ sum.extUsed \in Nat
  BY <1>1, SumsNat
<1>8. Multiply(sum.extScalable) + sum.extFixed \in Int
  <2>1. Multiply(sum.extScalable) \in Int
    BY <1>1, <1>7, MultiplyFacts DEF Whole
  <2> QED
    BY <1>7, <2>1
<1>9. Extent \in Nat /\ Extent >= Multiply(sum.extScalable) + sum.extFixed
  <2>1. PICK a \in Int : a = Multiply(sum.extScalable) + sum.extFixed
    BY <1>8
  <2>2. Extent = IF a >= sum.extUsed THEN a ELSE sum.extUsed
    BY <1>7, <2>1, OfTwo DEF Extent
  <2> QED
    BY <1>7, <2>1, <2>2
<1>10. /\ Upto(x) \in Nat /\ target.size - Upto(x) \in Nat
  <2>1. /\ x \in 1 .. Len(source) + 1 /\ Len(source) + 1 \in 1 .. Len(source) + 1
        /\ x <= Len(source) + 1
    BY <1>1
  <2>2. Upto(x) \in Nat /\ Upto(x) <= total /\ total \in Nat
    BY <1>1, <2>1
  <2> QED
    BY <1>1, <2>2
<1>11. out[x].start = Upto(x) /\ out[x].size = Min({Extent, target.size - Upto(x)})
  <2>1. /\ out[x].start = Upto(x) + Shift(x)
        /\ out[x].size = Min({Extent, target.size - out[x].start})
    BY <1>1, <1>2 DEF Laid
  <2>2. Upto(x) + Shift(x) = Upto(x)
    BY <1>6, <1>10
  <2> QED
    BY <2>1, <2>2
<1>12. out[x].size = IF Extent <= target.size - Upto(x) THEN Extent
                     ELSE target.size - Upto(x)
  <2>1. Extent \in Int /\ target.size - Upto(x) \in Int
    BY <1>9, <1>10
  <2> QED
    BY <1>11, <2>1, OfTwo
<1> QED
  BY <1>4, <1>5, <1>6, <1>9, <1>10, <1>11, <1>12

\* In a layout that is not refused no partition of the main table overlaps
\* another or leaves the disk, whatever the disks and the answers were.
THEOREM NoOverlapHolds == Spec => []NoOverlap
<1>1. ResizeInv => NoOverlap
  <2> SUFFICES ASSUME ResizeInv, step = "done", Whole, out[1].id # "0",
                      \A j \in Extended, k \in Primaries : k <= j,
                      NEW k \in Primaries
               PROVE  /\ 0 < Lo(k) /\ Lo(k) <= Hi(k) /\ Hi(k) <= target.size
                      /\ \A j \in Primaries : j < k => Hi(j) <= Lo(k)
    BY DEF NoOverlap
  <2>1. Finished /\ total <= target.size
    BY DEF Finished, ResizeInv
  <2>2. /\ Len(source) \in Nat /\ Len(source) >= 4 /\ Len(out) = Len(source)
        /\ Len(tmp) = Len(source) /\ target.size \in Nat /\ Disks /\ Rows /\ Sums
        /\ \A m \in 1 .. Len(source) : out[m].id = tmp[m].id
        /\ total = Upto(Len(source) + 1) /\ Upto(1) = tmp[1].start
        /\ \A m \in 1 .. Len(source) + 1 : Upto(m) \in Nat /\ Shift(m) \in Nat
        /\ \A m \in 1 .. Len(source) : Upto(m + 1) = Upto(m) + Taken(m)
        /\ \A i, m \in 1 .. Len(source) + 1 : i <= m => Upto(i) <= Upto(m)
    BY <2>1, DoneFacts
  <2>3. \A m \in Primaries : /\ m \in 1 .. 4 /\ m \in 1 .. Len(source) /\ tmp[m].id # "0"
                             /\ m \in 1 .. Len(source) + 1 /\ m + 1 \in 1 .. Len(source) + 1
    <3> SUFFICES ASSUME NEW m \in Primaries
                 PROVE  /\ m \in 1 .. 4 /\ m \in 1 .. Len(source) /\ tmp[m].id # "0"
                        /\ m \in 1 .. Len(source) + 1 /\ m + 1 \in 1 .. Len(source) + 1
      OBVIOUS
    <3>1. m \in 1 .. Len(out) /\ out[m].id # "0" /\ m <= 4
      BY DEF Primaries, Used
    <3>2. m \in 1 .. Len(source) /\ m \in 1 .. 4
      BY <2>2, <3>1
    <3> QED
      BY <2>2, <3>1, <3>2
  <2>4. Upto(1) > 0
    <3>1. 1 \in 1 .. Len(tmp) /\ tmp[1].id # "0"
      BY <2>2
    <3> QED
      BY <2>2, <3>1 DEF Rows, RowOK
  <2>5. ASSUME NEW m \in Primaries
        PROVE  Shift(m) = 0 /\ Lo(m) = Upto(m)
    <3>1. ASSUME NEW j \in 1 .. m - 1, tmp[j].id = "5"
          PROVE  FALSE
      <4>1. j \in 1 .. 4 /\ j \in 1 .. Len(source) /\ j < m
        BY <2>3
      <4>2. j \in Extended
        BY <2>2, <3>1, <4>1 DEF Extended
      <4> QED
        BY <2>3, <4>1, <4>2
    <3>2. Shift(m) = 0
      BY <3>1 DEF Shift
    <3>3. Lo(m) = Upto(m) + Shift(m)
      BY <2>1, <2>3, PrimaryFacts
    <3> QED
      BY <2>2, <2>3, <3>2, <3>3
  <2>6. 0 < Lo(k)
    <3>1. Upto(1) <= Upto(k) /\ Upto(1) \in Nat /\ Upto(k) \in Nat
      <4>1. 1 \in 1 .. Len(source) + 1 /\ 1 <= k
        BY <2>2, <2>3
      <4> QED
        BY <2>2, <2>3, <4>1
    <3> QED
      BY <2>4, <2>5, <3>1
  <2>7. /\ Upto(k) \in Nat /\ Upto(k + 1) \in Nat /\ Upto(k) <= Upto(k + 1)
        /\ Upto(k + 1) <= total /\ total \in Nat
    <3>1. k <= k + 1 /\ k + 1 <= Len(source) + 1
          /\ Len(source) + 1 \in 1 .. Len(source) + 1
      BY <2>2, <2>3
    <3> QED
      BY <2>2, <2>3, <3>1
  <2>8. Lo(k) <= Hi(k) /\ Hi(k) <= target.size
    <3>1. CASE tmp[k].id = "5"
      <4>1. /\ Max(Extended) = k /\ out[k].start = Upto(k) /\ out[k].size \in Nat
            /\ Extent \in Nat
            /\ out[k].size = IF Extent <= target.size - Upto(k) THEN Extent
                             ELSE target.size - Upto(k)
        BY <2>1, <2>3, <3>1, ExtendedFacts
      <4>2. Hi(k) = Upto(k) + out[k].size
        BY <2>5, <4>1, ResizeAssumption DEF Hi
      <4> QED
        BY <2>2, <2>5, <2>7, <4>1, <4>2
    <3>2. CASE tmp[k].id # "5" /\ k # Len(source)
      <4>1. Hi(k) = Upto(k + 1)
        BY <2>1, <2>2, <2>3, <2>5, <3>2, PrimaryFacts
      <4> QED
        BY <2>1, <2>2, <2>5, <2>7, <4>1
    <3>3. CASE tmp[k].id # "5" /\ k = Len(source)
      <4>1. Hi(k) = target.size
        BY <2>1, <2>3, <3>3, PrimaryFacts
      <4> QED
        BY <2>1, <2>2, <2>5, <2>7, <4>1
    <3> QED
      BY <3>1, <3>2, <3>3
  <2>9. ASSUME NEW j \in Primaries, j < k
        PROVE  Hi(j) <= Lo(k)
    <3>1. j \in 1 .. 4 /\ tmp[j].id # "0" /\ j # Len(source)
      BY <2>2, <2>3, <2>9
    <3>2. tmp[j].id # "5"
      <4>1. ASSUME tmp[j].id = "5" PROVE FALSE
        <5>1. j \in Extended
          BY <2>2, <2>3, <4>1 DEF Extended
        <5> QED
          BY <2>3, <2>9, <5>1
      <4> QED
        BY <4>1
    <3>3. Hi(j) = Upto(j) + Taken(j)
      BY <2>1, <2>5, <3>1, <3>2, PrimaryFacts
    <3>4. Hi(j) = Upto(j + 1)
      BY <2>2, <2>3, <3>3
    <3>5. j + 1 <= k
      BY <2>3, <2>9
    <3> QED
      BY <2>2, <2>3, <2>5, <3>4, <3>5
  <2> QED
    BY <2>6, <2>8, <2>9
<1> QED
  BY <1>1, Invariant, PTL

-----------------------------------------------------------------------------
(* Room *)

\* The logical partitions before k lie behind one another, a track apart.
LEMMA BeforeFacts ==
    ASSUME ResizeInv, Whole, Finished, Len(source) > 4
    PROVE  Before(Len(source)) = (Upto(Len(source)) - Upto(5)) + Track * (Len(source) - 5)
<1> DEFINE n == Len(source)
           g == [m \in 1 .. n - 5 |-> out[m + 4].size + Track]
           f == [j \in 0 .. n - 5 |-> (Upto(j + 5) - Upto(5)) + Track * j]
<1>1. /\ n \in Nat /\ Len(tmp) = n /\ Disks /\ Rows /\ Sums
      /\ \A m \in 1 .. n : Laid(out[m], m)
      /\ \A k \in 1 .. n + 1 : Upto(k) \in Nat
      /\ \A k \in 1 .. n : Upto(k + 1) = Upto(k) + Taken(k)
  BY DoneFacts
<1>2. Track \in Nat
  BY ResizeAssumption
<1>3. ASSUME NEW m \in 1 .. n - 5
      PROVE  g[m] = Taken(m + 4) + Track /\ Taken(m + 4) \in Nat
  <2>1. m + 4 \in 1 .. n /\ m + 4 # n /\ m + 4 > 4
    BY <1>1
  <2>2. tmp[m + 4].id # "5"
    BY <1>1, <2>1, OneExtended
  <2>3. out[m + 4].size = Taken(m + 4)
    BY <1>1, <2>1, <2>2 DEF Laid, Taken
  <2> QED
    BY <1>1, <2>1, <2>3, SizedFacts
<1>4. \A m \in 1 .. n - 5 : g[m] \in Int
  <2> HIDE DEF g
  <2> QED
    BY <1>2, <1>3
<1>5. f \in [0 .. n - 5 -> Int]
  <2>1. ASSUME NEW j \in 0 .. n - 5
        PROVE  (Upto(j + 5) - Upto(5)) + Track * j \in Int
    <3>1. j + 5 \in 1 .. n + 1 /\ 5 \in 1 .. n + 1
      BY <1>1
    <3>2. Track * j \in Int
      BY <1>2
    <3> QED
      BY <1>1, <3>1, <3>2
  <2> QED
    BY <2>1
<1>6. Runs(f, g, n - 5)
  <2>1. f[0] = 0
    BY <1>1, <1>2
  <2>2. ASSUME NEW k \in 1 .. n - 5
        PROVE  f[k] = f[k - 1] + g[k]
    <3>1. /\ k + 4 \in 1 .. n /\ (k + 4) + 1 = k + 5 /\ (k - 1) + 5 = k + 4
          /\ k - 1 \in 0 .. n - 5 /\ k \in 0 .. n - 5 /\ 5 \in 1 .. n + 1
          /\ k + 4 \in 1 .. n + 1
      BY <1>1
    <3>2. Upto(k + 5) = Upto(k + 4) + Taken(k + 4)
      BY <1>1, <3>1
    <3>3. /\ f[k] = (Upto(k + 5) - Upto(5)) + Track * k
          /\ f[k - 1] = (Upto(k + 4) - Upto(5)) + Track * (k - 1)
      BY <3>1
    <3>4. Track * (k - 1) = Track * k - Track /\ Track * k \in Int
      BY <1>2
    <3>5. g[k] = Taken(k + 4) + Track /\ Taken(k + 4) \in Nat
      BY <1>3
    <3>6. Upto(k + 4) \in Nat /\ Upto(5) \in Nat
      BY <1>1, <3>1
    <3> HIDE DEF f, g
    <3> QED
      BY <1>2, <3>2, <3>3, <3>4, <3>5, <3>6
  <2> HIDE DEF f, g
  <2> QED
    BY <2>1, <2>2 DEF Runs
<1>7. n - 5 \in Nat
  BY <1>1
<1>8. Added(g, n - 5) = f[n - 5]
  <2> HIDE DEF f, g
  <2> QED
    BY <1>4, <1>5, <1>6, <1>7, AddedRuns
<1>9. f[n - 5] = (Upto(n) - Upto(5)) + Track * (n - 5)
  <2>1. (n - 5) + 5 = n /\ n - 5 \in 0 .. n - 5
    BY <1>1, <1>7
  <2> QED
    BY <2>1
<1> QED
  BY <1>8, <1>9 DEF Before

\* Logical partitions that get their shares.
Contented(m) == Share(m) >= 1 /\ (Scalable(tmp[m]) => Share(m) >= tmp[m].used)

\* Then the extended partition, whose share is that of the sum, is large enough.
LEMMA ExtentFacts ==
    ASSUME ResizeInv, Whole, Finished, Len(source) > 4,
           \A m \in 5 .. Len(source) : Contented(m)
    PROVE  Upto(Len(source) + 1) - Upto(5) <= Multiply(sum.extScalable) + sum.extFixed
<1> DEFINE n == Len(source)
           r == Ratio
           a == [m \in 1 .. n |-> Count(m > 4) * Taken(m)]
           b == [m \in 1 .. n |-> Count(m > 4) * Scaled(tmp[m])]
           e == [m \in 1 .. n |-> Count(m > 4) * Kept(tmp[m])]
           f == [j \in 0 .. n |-> IF j <= 4 THEN 0 ELSE Upto(j + 1) - Upto(5)]
<1>1. /\ n \in Nat /\ Len(tmp) = n /\ Disks /\ Rows /\ Sums
      /\ \A k \in 1 .. n + 1 : Upto(k) \in Nat
      /\ \A k \in 1 .. n : Upto(k + 1) = Upto(k) + Taken(k)
  BY DoneFacts
<1>2. sum.extScalable = Added(b, n) /\ sum.extFixed = Added(e, n)
  BY <1>1 DEF Sums
<1>3. sum.extScalable \in Nat /\ sum.extFixed \in Nat
  BY <1>1, SumsNat
<1>4. Digits \in Nat /\ Digits > 0 /\ r \in Int
  BY <1>1, <1>3, MultiplyFacts, ResizeAssumption DEF Whole
<1>5. ASSUME NEW m \in 1 .. n
      PROVE  /\ a[m] \in Int /\ b[m] \in Int /\ e[m] \in Int
             /\ Digits * a[m] <= r * b[m] + Digits * e[m]
             /\ 1 * b[m] <= r * b[m] + 1 * b[m]
             /\ a[m] = IF m <= 4 THEN 0 ELSE Taken(m)
  <2>1. /\ tmp[m] \in Partition /\ m \in Nat /\ m \in 1 .. Len(tmp)
    BY <1>1 DEF Rows
  <2>2. tmp[m].size \in Nat /\ Scaled(tmp[m]) \in Nat /\ Kept(tmp[m]) \in Nat
    BY <2>1, RowNat DEF Partition
  <2>3. /\ Share(m) \in Int /\ Taken(m) \in Nat
        /\ Scalable(tmp[m]) => Share(m) = Multiply(tmp[m].size)
        /\ ~Scalable(tmp[m]) => Share(m) = tmp[m].size
        /\ Contented(m) => Sized(m) = Share(m)
    BY <1>1, <2>1, SizedFacts DEF Contented
  <2>4. CASE m <= 4
    <3>1. a[m] = 0 /\ b[m] = 0 /\ e[m] = 0
      BY <2>1, <2>2, <2>3, <2>4 DEF Count
    <3> HIDE DEF a, b, e
    <3> QED
      BY <1>4, <2>4, <3>1
  <2>5. CASE m > 4
    <3>1. a[m] = Taken(m) /\ b[m] = Scaled(tmp[m]) /\ e[m] = Kept(tmp[m])
      BY <2>1, <2>2, <2>3, <2>5 DEF Count
    <3>2. Contented(m)
      BY <1>1, <2>1, <2>5
    <3>3. Sized(m) = Share(m) /\ Share(m) >= 1
      BY <2>3, <3>2 DEF Contented
    <3>4. tmp[m].id # "5"
      BY <1>1, <2>1, <2>5, OneExtended
    <3>5. tmp[m].id # "0"
      <4>1. ASSUME tmp[m].id = "0" PROVE FALSE
        <5>1. tmp[m].size = 0 /\ tmp[m].backup = source[m].backup
              /\ (tmp[m].backup => tmp[m] = source[m])
          BY <1>1, <2>1, <4>1 DEF Rows, RowOK
        <5>2. source[m].backup => source[m].id \in {"83", "dos"}
          BY <1>1, <2>1, SameRow
        <5>3. ~Scalable(tmp[m])
          BY <4>1, <5>1, <5>2 DEF Scalable
        <5> QED
          BY <2>3, <3>3, <5>1, <5>3
      <4> QED
        BY <4>1
    <3>6. Taken(m) = Share(m)
      BY <3>3, <3>4, <3>5 DEF Taken
    <3>7. CASE Scalable(tmp[m])
      <4>0. ~Vanishes(tmp[m].size)
        BY <2>1, <3>7 DEF Whole
      <4>1. /\ Scaled(tmp[m]) = tmp[m].size /\ Kept(tmp[m]) = 0
            /\ Taken(m) = Multiply(tmp[m].size)
        BY <2>3, <3>6, <3>7 DEF Scaled, Kept
      <4>2. /\ tmp[m].size * Ratio \in Int /\ tmp[m].size * Ratio >= 0
            /\ Digits * Multiply(tmp[m].size) <= tmp[m].size * Ratio
        <5>1. tmp[m].size * Ratio \in Int
          BY <1>4, <2>2
        <5>2. Multiply(tmp[m].size) >= 1
          BY <2>3, <3>3, <3>7
        <5>3. ~(tmp[m].size * Ratio < 0)
          <6>1. tmp[m].size * Ratio < 0 => Multiply(tmp[m].size) <= 0 /\ Multiply(tmp[m].size) \in Int
            BY <1>1, <2>2, <4>0, MultiplyFacts
          <6> QED
            BY <5>2, <6>1
        <5>4. tmp[m].size * Ratio >= 0
          BY <5>1, <5>3
        <5> QED
          BY <1>1, <2>2, <4>0, <5>1, <5>4, MultiplyFacts
      <4>3. r * b[m] = tmp[m].size * Ratio /\ Digits * e[m] = 0
        <5>1. b[m] = tmp[m].size /\ e[m] = 0
          BY <3>1, <4>1
        <5> HIDE DEF b, e
        <5> QED
          BY <1>4, <2>2, <5>1
      <4>4. /\ Digits * a[m] <= r * b[m] + Digits * e[m]
            /\ b[m] <= r * b[m] + b[m]
        <5>1. a[m] = Multiply(tmp[m].size) /\ b[m] = tmp[m].size
          BY <3>1, <4>1
        <5> HIDE DEF a, b, e, r
        <5> QED
          BY <1>4, <2>2, <4>2, <4>3, <5>1
      <4>5. a[m] \in Int /\ b[m] \in Int /\ e[m] \in Int
        BY <2>2, <2>3, <3>1
      <4>6. a[m] = IF m <= 4 THEN 0 ELSE Taken(m)
        BY <2>5, <3>1
      <4> HIDE DEF a, b, e, r
      <4> QED
        BY <4>4, <4>5, <4>6
    <3>8. CASE ~Scalable(tmp[m])
      <4>1. /\ Scaled(tmp[m]) = 0 /\ Kept(tmp[m]) = tmp[m].size
            /\ Taken(m) = tmp[m].size
        BY <2>3, <3>6, <3>8 DEF Scaled, Kept
      <4>2. a[m] = tmp[m].size /\ b[m] = 0 /\ e[m] = tmp[m].size /\ a[m] = Taken(m)
        BY <3>1, <4>1
      <4> HIDE DEF a, b, e, r
      <4> QED
        BY <1>4, <2>2, <2>5, <4>2
    <3> QED
      BY <3>7, <3>8
  <2> QED
    BY <2>1, <2>4, <2>5
<1>6. f \in [0 .. n -> Int]
  <2>1. \A j \in 0 .. n : (IF j <= 4 THEN 0 ELSE Upto(j + 1) - Upto(5)) \in Int
    BY <1>1
  <2> QED
    BY <2>1
<1>7. Runs(f, a, n)
  <2>1. f[0] = 0
    BY <1>1
  <2>2. ASSUME NEW k \in 1 .. n
        PROVE  f[k] = f[k - 1] + a[k]
    <3>1. a[k] = IF k <= 4 THEN 0 ELSE Taken(k)
      BY <1>5
    <3>2. /\ k \in 0 .. n /\ k - 1 \in 0 .. n /\ (k - 1) + 1 = k /\ k \in 1 .. n + 1
          /\ 5 \in 1 .. n + 1
      BY <1>1
    <3>3. /\ f[k] = IF k <= 4 THEN 0 ELSE Upto(k + 1) - Upto(5)
          /\ f[k - 1] = IF k - 1 <= 4 THEN 0 ELSE Upto(k) - Upto(5)
      BY <3>2
    <3>4. Upto(k + 1) = Upto(k) + Taken(k) /\ Upto(k) \in Nat /\ Upto(5) \in Nat
      BY <1>1, <3>2
    <3>5. Taken(k) \in Nat
      BY <1>1, SizedFacts
    <3> HIDE DEF f, a
    <3>6. CASE k <= 4
      BY <3>1, <3>3, <3>6
    <3>7. CASE k = 5
      BY <3>1, <3>3, <3>4, <3>5, <3>7
    <3>8. CASE k > 5
      BY <3>1, <3>3, <3>4, <3>5, <3>8
    <3> QED
      BY <3>6, <3>7, <3>8
  <2> HIDE DEF f, a
  <2> QED
    BY <2>1, <2>2 DEF Runs
<1>8. Added(a, n) = f[n]
  <2>1. \A m \in 1 .. n : a[m] \in Int
    BY <1>5
  <2> HIDE DEF a, f
  <2> QED
    BY <1>1, <1>6, <1>7, <2>1, AddedRuns
<1>9. f[n] = Upto(n + 1) - Upto(5)
  BY <1>1
<1>10. PICK x \in Int : x = Upto(n + 1) - Upto(5)
  <2>1. n + 1 \in 1 .. n + 1 /\ 5 \in 1 .. n + 1
    BY <1>1
  <2> QED
    BY <1>1, <2>1
<1>11. Digits * x <= r * sum.extScalable + Digits * sum.extFixed
  <2> HIDE DEF a, b, e, f, r
  <2>1. Digits * Added(a, n) <= r * Added(b, n) + Digits * Added(e, n)
    <3>1. /\ n \in Nat /\ Digits \in Int /\ r \in Int
          /\ \A m \in 1 .. n : a[m] \in Int /\ b[m] \in Int /\ e[m] \in Int
                              /\ Digits * a[m] <= r * b[m] + Digits * e[m]
      BY <1>1, <1>4, <1>5
    <3> HIDE DEF n
    <3> QED
      BY <3>1, AddedBound, Zenon
  <2> QED
    BY <1>2, <1>8, <1>9, <1>10, <2>1
<1>12. r * sum.extScalable >= 0
  <2> HIDE DEF b, r, a, e
  <2>1. 1 * Added(b, n) <= r * Added(b, n) + 1 * Added(b, n)
    <3>1. /\ n \in Nat /\ 1 \in Int /\ r \in Int
          /\ \A m \in 1 .. n : b[m] \in Int /\ b[m] \in Int /\ b[m] \in Int
                              /\ 1 * b[m] <= r * b[m] + 1 * b[m]
      BY <1>1, <1>4, <1>5
    <3> HIDE DEF n
    <3> QED
      BY <3>1, AddedBound, Zenon
  <2>2. r * sum.extScalable \in Int
    BY <1>3, <1>4
  <2> QED
    BY <1>2, <1>3, <2>1, <2>2
<1>13. x - sum.extFixed <= Multiply(sum.extScalable)
  <2>1. r * sum.extScalable = sum.extScalable * Ratio
    BY <1>3, <1>4
  <2>2. x - sum.extFixed \in Int /\ Digits * (x - sum.extFixed) <= sum.extScalable * Ratio
    <3>1. PICK y \in Int : y = sum.extScalable * Ratio
      BY <1>3, <1>4
    <3>2. Digits * x <= y + Digits * sum.extFixed
      BY <1>11, <2>1, <3>1
    <3>3. PICK z \in Nat : z = sum.extFixed
      BY <1>3
    <3>4. Digits * (x - z) = Digits * x - Digits * z
      BY <1>4
    <3>5. Digits * x \in Int /\ Digits * z \in Int
      BY <1>4
    <3>6. Digits * (x - z) <= y
      BY <3>2, <3>3, <3>4, <3>5
    <3> QED
      BY <3>1, <3>3, <3>6
  <2>3. sum.extScalable * Ratio >= 0
    BY <1>12, <2>1
  <2> QED
    BY <1>1, <1>3, <2>2, <2>3, MultiplyFacts DEF Whole
<1>14. Multiply(sum.extScalable) \in Int
  BY <1>1, <1>3, MultiplyFacts DEF Whole
<1> QED
  BY <1>3, <1>10, <1>13, <1>14

\* A partition has at least its size, less what the sums do not know of; the last
\* logical one if all logical ones get their shares.
LEMMA RoomFacts ==
    ASSUME ResizeInv, Whole, Finished, total <= target.size,
           NEW k \in 1 .. Len(source), tmp[k].id \notin {"0", "5"},
           k > 4 /\ k = Len(source) => \A m \in 5 .. Len(source) : Contented(m)
    PROVE  Room(k) \in Int /\ Lost(k) \in Nat /\ Room(k) >= Sized(k) - Lost(k)
<1> DEFINE n == Len(source)
<1>1. /\ n \in Nat /\ n >= 4 /\ Len(tmp) = n /\ target.size \in Nat /\ Disks /\ Rows /\ Sums
      /\ \A m \in 1 .. n : Laid(out[m], m) /\ out[m].id = tmp[m].id
      /\ total = Upto(n + 1) /\ tmp[1].start \in Nat
      /\ \A j \in 1 .. n + 1 : Upto(j) \in Nat /\ Shift(j) \in Nat
      /\ \A j \in 1 .. n : Upto(j + 1) = Upto(j) + Taken(j)
      /\ \A i, j \in 1 .. n + 1 : i <= j => Upto(i) <= Upto(j)
  BY DoneFacts
<1>2. /\ Sized(k) \in Nat /\ Taken(k) = Sized(k) /\ Taken(k) \in Nat
      /\ k \in 1 .. n + 1 /\ k + 1 \in 1 .. n + 1 /\ n + 1 \in 1 .. n + 1
      /\ Upto(k + 1) = Upto(k) + Taken(k) /\ Upto(k) \in Nat /\ Shift(k) \in Nat
      /\ Upto(k + 1) <= total /\ total \in Nat
  <2>1. k \in 1 .. Len(tmp) /\ k \in 1 .. n
    BY <1>1
  <2>2. Sized(k) \in Nat /\ Taken(k) = Sized(k)
    BY <1>1, <2>1, SizedFacts DEF Taken
  <2>3. k \in 1 .. n + 1 /\ k + 1 \in 1 .. n + 1 /\ n + 1 \in 1 .. n + 1 /\ k + 1 <= n + 1
    BY <1>1
  <2> QED
    BY <1>1, <2>1, <2>2, <2>3
<1>3. Track \in Nat
  BY ResizeAssumption
<1>4. CASE k <= 4 /\ k # n
  <2>1. k \in 1 .. 4 /\ tmp[k].id # "0" /\ tmp[k].id # "5"
    BY <1>4
  <2>2. Lo(k) = Upto(k) + Shift(k) /\ Hi(k) = Lo(k) + Taken(k)
    BY <1>4, <2>1, PrimaryFacts
  <2>3. Lost(k) = 0
    BY <1>4 DEF Lost, LastPartNr
  <2> QED
    BY <1>2, <2>2, <2>3 DEF Room
<1>5. CASE k <= 4 /\ k = n
  <2>1. k \in 1 .. 4 /\ tmp[k].id # "0" /\ tmp[k].id # "5"
    BY <1>5
  <2>2. Lo(k) = Upto(k) + Shift(k) /\ Hi(k) = target.size
    BY <1>5, <2>1, PrimaryFacts
  <2>3. Lost(k) = Shift(k)
    <3>1. (\E j \in Extended : j < k) <=> (\E j \in 1 .. k - 1 : tmp[j].id = "5")
      <4>1. k = 4 /\ \A j \in 1 .. 4 : out[j].id = tmp[j].id
        BY <1>1, <1>5
      <4>2. \A j \in 1 .. 3 : j \in 1 .. 4 /\ j < 4
        OBVIOUS
      <4>3. \A j \in 1 .. 4 : j < 4 => j \in 1 .. 3
        OBVIOUS
      <4>4. 1 .. k - 1 = 1 .. 3
        BY <4>1
      <4> QED
        BY <4>1, <4>2, <4>3, <4>4 DEF Extended
    <3> QED
      BY <1>5, <3>1 DEF Lost, LastPartNr, Shift, Logical
  <2>4. Upto(k) + Sized(k) <= target.size
    BY <1>1, <1>2
  <2>5. Room(k) = target.size - (Upto(k) + Shift(k))
    BY <2>2 DEF Room
  <2>6. target.size \in Nat /\ Upto(k) \in Nat /\ Shift(k) \in Nat /\ Sized(k) \in Nat
    BY <1>1, <1>2
  <2> QED
    BY <2>3, <2>4, <2>5, <2>6
<1>6. CASE k > 4
  <2>1. PICK x \in 1 .. 4 : tmp[x].id = "5"
    <3>1. IsTable(source)
      BY <1>1, DisksFacts
    <3>2. PICK x \in 1 .. 4 : source[x].id = "5"
      BY <1>1, <1>6, <3>1 DEF IsTable
    <3>3. x \in 1 .. Len(tmp) /\ tmp[x].id = "5"
      BY <1>1, <3>2 DEF Rows, RowOK
    <3> QED
      BY <3>3
  <2>2. /\ Max(Extended) = x /\ out[x].start = Upto(x) /\ out[x].size \in Nat
        /\ Extent \in Nat
        /\ out[x].size = IF Extent <= target.size - Upto(x) THEN Extent
                         ELSE target.size - Upto(x)
        /\ Extent >= Multiply(sum.extScalable) + sum.extFixed
    BY <2>1, ExtendedFacts
  <2>3. /\ Upto(x) \in Nat /\ Upto(5) \in Nat /\ Upto(x) <= Upto(5) /\ Upto(5) <= Upto(k)
    <3>1. x \in 1 .. n + 1 /\ 5 \in 1 .. n + 1 /\ x <= 5 /\ 5 <= k
      BY <1>1, <1>6
    <3> QED
      BY <1>1, <1>2, <3>1
  <2>4. Lo(k) = Upto(x) + Before(k) + Track
    BY <1>6, <2>2 DEF Lo, Logical
  <2>5. CASE k # n
    <3>1. out[k].size = Sized(k)
      BY <1>1, <2>5 DEF Laid
    <3>2. Hi(k) = Lo(k) + Sized(k)
      BY <1>2, <3>1, ResizeAssumption DEF Hi
    <3>3. Before(k) \in Int
      <4> DEFINE g == [m \in 1 .. k - 5 |-> out[m + 4].size + Track]
      <4>1. \A m \in 1 .. k - 5 : g[m] \in Int
        <5> SUFFICES ASSUME NEW m \in 1 .. k - 5
                     PROVE  out[m + 4].size + Track \in Int
          OBVIOUS
        <5>1. m + 4 \in 1 .. n /\ m + 4 # n /\ m + 4 > 4 /\ m + 4 \in 1 .. Len(tmp)
          BY <1>1
        <5>2. tmp[m + 4].id # "5"
          BY <1>1, <5>1, OneExtended
        <5>3. Sized(m + 4) \in Nat
          BY <1>1, <5>1, SizedFacts
        <5>4. out[m + 4].size \in Int
          <6>1. Laid(out[m + 4], m + 4)
            BY <1>1, <5>1
          <6>2. tmp[m + 4].id = "0" => out[m + 4].size = 0
            BY <6>1 DEF Laid
          <6>3. tmp[m + 4].id # "0" => out[m + 4].size = Sized(m + 4)
            BY <5>1, <5>2, <6>1 DEF Laid
          <6> QED
            BY <5>3, <6>2, <6>3
        <5> QED
          BY <1>3, <5>4
      <4>2. k - 5 \in Nat /\ k - 5 \in 0 .. k - 5
        BY <1>1, <1>6
      <4>3. Added(g, k - 5) \in Int
        <5> HIDE DEF g
        <5> QED
          BY <4>1, <4>2, AddedAll
      <4> QED
        BY <4>3 DEF Before
    <3>4. Lost(k) = 0
      BY <2>5 DEF Lost, LastPartNr
    <3> QED
      BY <1>2, <1>3, <2>3, <2>4, <3>2, <3>3, <3>4 DEF Room
  <2>6. CASE k = n
    <3>1. out[k].size = Blank
      BY <1>1, <2>6 DEF Laid
    <3>2. Hi(k) = Upto(x) + out[x].size
      BY <1>6, <2>2, <3>1 DEF Hi, Logical
    <3>3. Before(k) = (Upto(k) - Upto(5)) + Track * (n - 5)
      BY <1>1, <1>6, <2>6, BeforeFacts
    <3>4. Lost(k) = Track * (n - 4)
      BY <1>6, <2>6 DEF Lost, LastPartNr, Logical
    <3>5. /\ Track * (n - 4) = Track * (n - 5) + Track
          /\ Track * (n - 5) \in Nat /\ Track * (n - 4) \in Nat
      <4>1. n - 5 \in Nat /\ n - 4 \in Nat /\ n - 4 = (n - 5) + 1
        BY <1>1, <1>6, <2>6
      <4>2. \A i \in Nat : Track * (i + 1) = Track * i + Track /\ Track * i \in Nat
        BY <1>3
      <4> QED
        BY <4>1, <4>2
    <3>6. Room(k) = (out[x].size - (Upto(k) - Upto(5))) - Lost(k)
      <4>1. PICK c \in Nat : c = Track * (n - 5)
        BY <3>5
      <4>2. /\ Lo(k) = Upto(x) + ((Upto(k) - Upto(5)) + c) + Track
            /\ Hi(k) = Upto(x) + out[x].size /\ Lost(k) = c + Track
        BY <2>4, <3>2, <3>3, <3>4, <3>5, <4>1
      <4>3. Upto(x) \in Nat /\ Upto(k) \in Nat /\ Upto(5) \in Nat /\ out[x].size \in Nat
        BY <1>2, <2>2, <2>3
      <4> QED
        BY <1>3, <4>2, <4>3 DEF Room
    <3>7. out[x].size >= Upto(k + 1) - Upto(5)
      <4>1. CASE out[x].size = target.size - Upto(x)
        <5>1. Upto(k + 1) \in Nat /\ target.size \in Nat
          BY <1>1, <1>2
        <5>2. Upto(k + 1) <= target.size
          BY <1>2, <5>1
        <5> QED
          BY <2>3, <4>1, <5>1, <5>2
      <4>2. CASE out[x].size = Extent
        <5>1. Upto(n + 1) - Upto(5) <= Multiply(sum.extScalable) + sum.extFixed
          BY <1>1, <1>6, <2>6, ExtentFacts
        <5>2. Multiply(sum.extScalable) + sum.extFixed \in Int
          <6>1. sum.extScalable \in Nat /\ sum.extFixed \in Nat
            BY <1>1, SumsNat
          <6>2. Multiply(sum.extScalable) \in Int
            BY <1>1, <6>1, MultiplyFacts DEF Whole
          <6> QED
            BY <6>1, <6>2
        <5> QED
          BY <1>2, <2>2, <2>3, <2>6, <4>2, <5>1, <5>2
      <4> QED
        BY <2>2, <4>1, <4>2
    <3>8. /\ Upto(k) \in Nat /\ Upto(5) \in Nat /\ out[x].size \in Nat /\ Lost(k) \in Nat
          /\ Sized(k) \in Nat /\ Upto(k + 1) = Upto(k) + Sized(k)
      BY <1>2, <2>2, <2>3, <3>4, <3>5
    <3> QED
      BY <3>6, <3>7, <3>8
  <2> QED
    BY <2>5, <2>6
<1> QED
  BY <1>1, <1>4, <1>5, <1>6

\* A partition to be restored is the row it was.
LEMMA RestoredFacts ==
    ASSUME ResizeInv, Whole, Finished, NEW k \in Used, source[k].backup
    PROVE  /\ k \in 1 .. Len(source) /\ k \in 1 .. Len(tmp) /\ tmp[k] = source[k]
           /\ tmp[k].id \notin {"0", "5"} /\ tmp[k].used <= tmp[k].size
           /\ tmp[k].used \in Nat /\ tmp[k].size \in Nat
<1>1. /\ Len(source) \in Nat /\ Len(tmp) = Len(source) /\ Len(out) = Len(source)
      /\ Disks /\ Rows
  BY DoneFacts
<1>2. k \in 1 .. Len(source) /\ k \in 1 .. Len(tmp)
  BY <1>1 DEF Used
<1>3. tmp[k] = source[k]
  BY <1>1, <1>2 DEF Rows, RowOK
<1>4. source[k] \in Partition /\ source[k].id \in {"83", "dos"}
  BY <1>1, <1>2, SameRow
<1>5. source[k].used <= source[k].size
  BY <1>1, <1>2, DisksFacts DEF IsTable
<1>6. source[k].used \in Nat /\ source[k].size \in Nat
  BY <1>4 DEF Partition
<1> QED
  BY <1>2, <1>3, <1>4, <1>5, <1>6

\* In a layout that is not refused every partition to be restored has room for
\* what was on it, whatever the disks and the answers were.
THEOREM RoomForDataHolds == Spec => []RoomForData
<1>1. ResizeInv => RoomForData
  <2> SUFFICES ASSUME ResizeInv, step = "done", Whole, NEW k \in Used, source[k].backup,
                      ~(/\ Logical(k) /\ k = LastPartNr
                        /\ \E m \in 5 .. LastPartNr : Share(m) < Max({tmp[m].used, 1}))
               PROVE  Room(k) >= source[k].used - Lost(k)
    BY DEF RoomForData
  <2>1. Finished /\ total <= target.size
    BY DEF Finished, ResizeInv
  <2>2. /\ k \in 1 .. Len(source) /\ k \in 1 .. Len(tmp) /\ tmp[k] = source[k]
        /\ tmp[k].id \notin {"0", "5"} /\ tmp[k].used <= tmp[k].size
        /\ tmp[k].used \in Nat /\ tmp[k].size \in Nat
    BY <2>1, RestoredFacts
  <2>3. Disks /\ Rows /\ Sums /\ Len(tmp) = Len(source) /\ Len(source) \in Nat
    BY <2>1, DoneFacts
  <2>4. ASSUME k > 4, k = Len(source), NEW m \in 5 .. Len(source)
        PROVE  Contented(m)
    <3>1. ~(Share(m) < Max({tmp[m].used, 1}))
      BY <2>4 DEF Logical, LastPartNr
    <3>2. m \in 1 .. Len(tmp) /\ tmp[m] \in Partition
      BY <2>3 DEF Rows
    <3>3. tmp[m].used \in Int /\ 1 \in Int
      BY <3>2 DEF Partition
    <3>4. Max({tmp[m].used, 1}) = IF tmp[m].used >= 1 THEN tmp[m].used ELSE 1
      BY <3>3, OfTwo
    <3>5. Share(m) \in Int
      BY <2>3, <3>2, SizedFacts
    <3> QED
      BY <3>1, <3>3, <3>4, <3>5 DEF Contented
  <2>5. Room(k) \in Int /\ Lost(k) \in Nat /\ Room(k) >= Sized(k) - Lost(k)
    BY <2>1, <2>2, <2>4, RoomFacts
  <2>6. Sized(k) \in Nat /\ Sized(k) >= tmp[k].used
    <3>1. /\ Sized(k) \in Nat /\ Share(k) \in Int /\ Sized(k) >= Share(k)
          /\ Scalable(tmp[k]) => Sized(k) >= tmp[k].used
          /\ ~Scalable(tmp[k]) => Share(k) = tmp[k].size
      BY <2>2, <2>3, SizedFacts
    <3>2. CASE Scalable(tmp[k])
      BY <3>1, <3>2
    <3>3. CASE ~Scalable(tmp[k])
      BY <2>2, <3>1, <3>3
    <3> QED
      BY <3>2, <3>3
  <2> QED
    BY <2>2, <2>5, <2>6
<1> QED
  BY <1>1, Invariant, PTL

-----------------------------------------------------------------------------
(* A target disk that is large enough *)

\* No number is more than the sum it is part of.
LEMMA AddedPart ==
    ASSUME NEW n \in Nat, NEW g, \A k \in 1 .. n : g[k] \in Nat, NEW k \in 1 .. n
    PROVE  g[k] <= Added(g, n)
<1>1. k - 1 \in 0 .. n /\ k \in 0 .. n /\ n \in k .. n
  OBVIOUS
<1>2. Added(g, k - 1) \in Nat /\ Added(g, k) \in Nat /\ Added(g, k) <= Added(g, n)
  BY <1>1, AddedGrows
<1>3. Added(g, k) = Added(g, k - 1) + g[k]
  <2>1. \A m \in 1 .. n : g[m] \in Int
    OBVIOUS
  <2> QED
    BY <2>1, AddedAll
<1>4. Added(g, n) \in Nat
  <2>1. n \in 0 .. n
    OBVIOUS
  <2> QED
    BY <2>1, AddedGrows
<1> QED
  BY <1>2, <1>3, <1>4

\* The ratio is one at least, or there is nothing to scale.
LEMMA RatioFacts ==
    ASSUME Disks, Rows, Sums, target.size >= sum.fixed + sum.scalable
    PROVE  /\ Ratio \in Int /\ Ratio * sum.scalable <= Digits * (target.size - sum.fixed)
           /\ Ratio >= Digits \/ (Ratio = 0 /\ sum.scalable = 0)
<1>1. /\ sum.scalable \in Nat /\ sum.fixed \in Nat /\ target.size \in Nat
      /\ Digits \in Nat /\ Digits > 0
  BY SumsNat, DisksFacts, ResizeAssumption
<1>2. PICK d \in Nat : d = target.size - sum.fixed
  BY <1>1
<1>3. d >= sum.scalable
  BY <1>1, <1>2
<1>4. CASE sum.scalable < 1
  <2>1. Ratio = 0 /\ sum.scalable = 0
    BY <1>1, <1>4 DEF Ratio
  <2> QED
    BY <1>1, <1>2, <2>1
<1>5. CASE sum.scalable >= 1
  <2>1. PICK a \in Nat : a = d * Digits
    BY <1>1
  <2>2. Ratio = Cut(a, sum.scalable)
    BY <1>1, <1>2, <1>5, <2>1 DEF Ratio
  <2>3. /\ Ratio \in Nat /\ sum.scalable * Ratio <= a
        /\ \A x \in Int : sum.scalable * x <= a => x <= Ratio
    BY <1>1, <1>5, <2>2, CutNat
  <2>4. sum.scalable * Digits <= a /\ Digits \in Int
    BY <1>1, <1>3, <2>1
  <2>5. Digits <= Ratio
    BY <2>3, <2>4
  <2>6. Ratio * sum.scalable = sum.scalable * Ratio
    BY <1>1, <2>3
  <2>7. Digits * (target.size - sum.fixed) = a
    BY <1>1, <1>2, <2>1
  <2> QED
    BY <1>1, <2>3, <2>5, <2>6, <2>7
<1> QED
  BY <1>1, <1>4, <1>5

\* A number times the ratio is then nothing or one at least.
LEMMA NoneVanishes ==
    ASSUME Disks, Rows, Sums, target.size >= sum.fixed + sum.scalable, NEW n \in Nat
    PROVE  ~Vanishes(n)
<1>1. /\ Ratio \in Int /\ (Ratio >= Digits \/ Ratio = 0)
      /\ Digits \in Nat /\ Digits > 0
  BY RatioFacts, ResizeAssumption
<1>2. CASE Ratio = 0 \/ n = 0
  <2>1. n * Ratio = 0
    BY <1>1, <1>2
  <2> QED
    BY <2>1 DEF Vanishes
<1>3. CASE Ratio >= Digits /\ n >= 1
  <2>1. PICK d \in Nat : Ratio = Digits + d
    <3>1. Ratio - Digits \in Nat /\ Ratio = Digits + (Ratio - Digits)
      BY <1>1, <1>3
    <3> QED
      BY <3>1
  <2>2. PICK m \in Nat : n = m + 1
    <3>1. n - 1 \in Nat /\ n = (n - 1) + 1
      BY <1>3
    <3> QED
      BY <3>1
  <2>3. (m + 1) * (Digits + d) = m * (Digits + d) + (Digits + d)
    BY <1>1
  <2>4. m * (Digits + d) \in Nat
    BY <1>1
  <2>5. n * Ratio >= Digits /\ n * Ratio \in Int
    BY <1>1, <2>1, <2>2, <2>3, <2>4
  <2> QED
    BY <1>1, <2>5 DEF Vanishes
<1> QED
  BY <1>1, <1>2, <1>3

\* So all shares are numbers.
LEMMA LargeWhole ==
    ASSUME Disks, Rows, Sums, target.size >= sum.fixed + sum.scalable
    PROVE  Whole
<1>1. ~Vanishes(sum.extScalable)
  BY SumsNat, NoneVanishes
<1>2. ASSUME NEW k \in 1 .. Len(tmp)
      PROVE  ~Vanishes(tmp[k].size)
  <2>1. tmp[k] \in Partition
    BY DEF Rows
  <2>2. tmp[k].size \in Nat
    BY <2>1 DEF Partition
  <2> QED
    BY <2>2, NoneVanishes
<1> QED
  BY <1>1, <1>2 DEF Whole

\* Then every share is the size at least.
LEMMA LargeShare ==
    ASSUME Disks, Rows, Sums, target.size >= sum.fixed + sum.scalable,
           NEW k \in 1 .. Len(tmp)
    PROVE  /\ Share(k) \in Nat /\ Share(k) >= tmp[k].size
           /\ Scalable(tmp[k]) => Share(k) >= tmp[k].used
           /\ Digits * Share(k) <= Ratio * Scaled(tmp[k]) + Digits * Kept(tmp[k])
<1>1. tmp[k] \in Partition /\ k \in Nat /\ Len(tmp) \in Nat
  BY DEF Rows
<1>2. /\ tmp[k].size \in Nat /\ tmp[k].used \in Nat /\ Digits \in Nat /\ Digits > 0
      /\ Whole
  BY <1>1, LargeWhole, ResizeAssumption DEF Partition
<1>3. /\ Ratio \in Int
      /\ Ratio >= Digits \/ (Ratio = 0 /\ sum.scalable = 0)
  BY RatioFacts
<1>4. CASE ~Scalable(tmp[k])
  <2>1. Share(k) = tmp[k].size /\ Scaled(tmp[k]) = 0 /\ Kept(tmp[k]) = tmp[k].size
    BY <1>2, <1>4, SizedFacts DEF Scaled, Kept
  <2> QED
    BY <1>2, <1>3, <1>4, <2>1
<1>5. CASE Scalable(tmp[k])
  <2>1. Share(k) = Multiply(tmp[k].size) /\ Scaled(tmp[k]) = tmp[k].size /\ Kept(tmp[k]) = 0
    BY <1>2, <1>5, SizedFacts DEF Scaled, Kept
  <2>2. tmp[k].used <= tmp[k].size
    <3>1. k \in 1 .. Len(source)
      BY <1>1, DisksFacts DEF Rows
    <3>2. tmp[k] = source[k]
      BY <1>5 DEF Rows, RowOK, Scalable
    <3>3. source[k].used <= source[k].size
      BY <3>1, DisksFacts DEF IsTable
    <3> QED
      BY <3>2, <3>3
  <2>3. Digits * tmp[k].size <= tmp[k].size * Ratio /\ tmp[k].size * Ratio \in Nat
    <3>1. CASE Ratio >= Digits
      <4>1. PICK d \in Nat : Ratio = Digits + d
        <5>1. Ratio - Digits \in Nat /\ Ratio = Digits + (Ratio - Digits)
          BY <1>2, <1>3, <3>1
        <5> QED
          BY <5>1
      <4>2. tmp[k].size * Ratio = Digits * tmp[k].size + tmp[k].size * d
        <5>1. PICK z \in Nat : z = tmp[k].size
          BY <1>2
        <5>2. z * (Digits + d) = Digits * z + z * d
          BY <1>2
        <5> QED
          BY <1>2, <4>1, <5>1, <5>2
      <4>3. tmp[k].size * d \in Nat
        BY <1>2
      <4> QED
        BY <1>2, <4>2, <4>3
    <3>2. CASE Ratio = 0 /\ sum.scalable = 0
      <4> DEFINE g == [m \in 1 .. Len(tmp) |-> Scaled(tmp[m])]
      <4>1. \A m \in 1 .. Len(tmp) : g[m] \in Nat
        <5> SUFFICES ASSUME NEW m \in 1 .. Len(tmp)
                     PROVE  Scaled(tmp[m]) \in Nat
          OBVIOUS
        <5>1. m \in Nat /\ tmp[m] \in Partition
          BY DEF Rows
        <5> QED
          BY <5>1, RowNat
      <4>2. g[k] = tmp[k].size /\ sum.scalable = Added(g, Len(tmp))
        BY <2>1 DEF Sums
      <4>3. g[k] <= Added(g, Len(tmp))
        <5> HIDE DEF g
        <5> QED
          BY <1>1, <4>1, AddedPart
      <4>4. tmp[k].size = 0
        BY <1>2, <3>2, <4>2, <4>3
      <4> QED
        BY <1>2, <3>2, <4>4
    <3> QED
      BY <1>3, <3>1, <3>2
  <2>4. PICK y \in Nat : y = tmp[k].size * Ratio
    BY <2>3
  <2>5. /\ Multiply(tmp[k].size) \in Nat
        /\ Digits * Multiply(tmp[k].size) <= y
        /\ \A x \in Int : Digits * x <= y => x <= Multiply(tmp[k].size)
    <3>1. PICK z \in Nat : z = tmp[k].size
      BY <1>2
    <3>2. z * Ratio >= 0 => /\ Multiply(z) \in Nat
                            /\ Digits * Multiply(z) <= z * Ratio
                            /\ \A x \in Int : Digits * x <= z * Ratio => x <= Multiply(z)
      BY MultiplyFacts, NoneVanishes
    <3>3. z * Ratio = y /\ y >= 0
      BY <2>4, <3>1
    <3> QED
      BY <3>1, <3>2, <3>3
  <2>6. Ratio * Scaled(tmp[k]) = y /\ Digits * Kept(tmp[k]) = 0
    BY <1>2, <1>3, <2>1, <2>4
  <2>7. Multiply(tmp[k].size) >= tmp[k].size
    BY <1>2, <2>3, <2>4, <2>5
  <2> QED
    BY <1>2, <1>5, <2>1, <2>2, <2>5, <2>6, <2>7
<1> QED
  BY <1>4, <1>5

\* And no row takes more than it is charged for.
LEMMA LargeTaken ==
    ASSUME Disks, Rows, Sums, target.size >= sum.fixed + sum.scalable,
           NEW k \in 1 .. Len(tmp)
    PROVE  Digits * (Taken(k) + Count(k = 1) * tmp[k].start)
           <= Ratio * Scaled(tmp[k]) + Digits * Charged(tmp[k], k)
<1>1. tmp[k] \in Partition /\ k \in Nat /\ Digits \in Nat /\ Digits > 0 /\ Whole
  BY LargeWhole, ResizeAssumption DEF Rows
<1>2. /\ tmp[k].size \in Nat /\ tmp[k].start \in Nat
      /\ Scaled(tmp[k]) \in Nat /\ Kept(tmp[k]) \in Nat
  <2>1. tmp[k].size \in Nat /\ tmp[k].start \in Nat
    BY <1>1 DEF Partition
  <2> QED
    BY <2>1 DEF Scaled, Kept
<1>3. PICK t \in Nat : t = Count(k = 1) * tmp[k].start
  BY <1>2 DEF Count
<1>4. PICK c \in {0, 1} : c = Count(k > 4 /\ tmp[k].size = 0)
  BY DEF Count
<1>5. Charged(tmp[k], k) = (IF tmp[k].id = "5" THEN 0 ELSE Kept(tmp[k])) + t + c
  BY <1>3, <1>4 DEF Charged
<1>6. Ratio \in Int /\ (Ratio >= Digits \/ Ratio = 0)
  BY RatioFacts
<1>7. PICK y \in Nat : y = Ratio * Scaled(tmp[k])
  <2>1. Ratio \in Nat
    BY <1>1, <1>6
  <2> QED
    BY <1>2, <2>1
<1>8. CASE tmp[k].id \in {"0", "5"}
  <2>1. Taken(k) = 0
    BY <1>8 DEF Taken
  <2>2. PICK h \in Nat : Charged(tmp[k], k) = h + t + c
    BY <1>2, <1>5
  <2>3. Digits * (h + t + c) = Digits * h + Digits * t + Digits * c
    BY <1>1, <1>4
  <2>4. /\ Digits * h \in Nat /\ Digits * t \in Nat /\ Digits * c \in Nat
    BY <1>1, <1>4
  <2>5. 0 + t = t
    OBVIOUS
  <2>6. Digits * t <= y + Digits * (h + t + c)
    BY <1>4, <2>3, <2>4
  <2> QED
    BY <1>3, <1>7, <2>1, <2>2, <2>5, <2>6
<1>9. CASE tmp[k].id \notin {"0", "5"}
  <2>1. /\ Share(k) \in Nat /\ Share(k) >= tmp[k].size
        /\ Scalable(tmp[k]) => Share(k) >= tmp[k].used
        /\ Digits * Share(k) <= y + Digits * Kept(tmp[k])
    BY <1>7, LargeShare
  <2>2. Charged(tmp[k], k) = Kept(tmp[k]) + t + c /\ Taken(k) = Sized(k)
    BY <1>5, <1>9 DEF Taken
  <2>3. Sized(k) \in Nat /\ Sized(k) <= Share(k) + c
    <3>1. CASE Share(k) >= 1
      <4>1. Sized(k) = Share(k)
        BY <1>1, <2>1, <3>1, SizedFacts
      <4> QED
        BY <1>4, <2>1, <4>1
    <3>2. CASE Share(k) = 0
      <4>1. tmp[k].size = 0
        BY <1>2, <2>1, <3>2
      <4>2. ~(Scalable(tmp[k]) /\ Share(k) < tmp[k].used)
        <5>1. tmp[k].used \in Nat
          BY <1>1 DEF Partition
        <5> QED
          BY <2>1, <5>1
      <4>3. Sized(k) = IF tmp[k].id # "82" /\ k >= 4 THEN 1 ELSE 0
        BY <3>2, <4>2 DEF Sized
      <4>4. k = 4 => tmp[k].id = "82"
        BY <1>9, <4>1 DEF Rows, RowOK
      <4>5. k > 4 => c = 1
        BY <1>4, <4>1 DEF Count
      <4> QED
        BY <1>1, <1>4, <3>2, <4>3, <4>4, <4>5
    <3> QED
      BY <2>1, <3>1, <3>2
  <2>4. Digits * (Taken(k) + t) <= y + Digits * Charged(tmp[k], k)
    <3>1. PICK h \in Nat : h = Kept(tmp[k])
      BY <1>2
    <3>2. PICK z \in Nat : z = Share(k)
      BY <2>1
    <3>3. PICK w \in Nat : w = Taken(k)
      BY <2>2, <2>3
    <3>4. Digits * z <= y + Digits * h /\ w <= z + c /\ Charged(tmp[k], k) = h + t + c
      BY <1>1, <2>1, <2>2, <2>3, <3>1, <3>2, <3>3
    <3>5. Digits * (w + t) <= y + Digits * (h + t + c)
      <4>1. PICK d \in Nat : z + c = w + d
        <5>1. z + c - w \in Nat /\ z + c = w + (z + c - w)
          BY <1>4, <3>4
        <5> QED
          BY <5>1
      <4>2. /\ Digits * (w + t) = Digits * w + Digits * t
            /\ Digits * (h + t + c) = Digits * h + Digits * t + Digits * c
            /\ Digits * (z + c) = Digits * z + Digits * c
            /\ Digits * (w + d) = Digits * w + Digits * d
        BY <1>1, <1>4
      <4>3. /\ Digits * w \in Nat /\ Digits * t \in Nat /\ Digits * h \in Nat
            /\ Digits * c \in Nat /\ Digits * z \in Nat /\ Digits * d \in Nat
        BY <1>1, <1>4
      <4>4. Digits * z + Digits * c = Digits * w + Digits * d
        BY <4>1, <4>2
      <4>5. Digits * z <= y + Digits * h
        BY <3>4
      <4>6. Digits * w + Digits * t <= y + (Digits * h + Digits * t + Digits * c)
        <5>1. \A p, q, e, i, j, o \in Nat : p + q = e + i /\ p <= y + j
                                          => e + o <= y + (j + o + q)
          OBVIOUS
        <5> QED
          BY <4>3, <4>4, <4>5, <5>1
      <4> QED
        BY <4>2, <4>6
    <3> QED
      BY <1>1, <3>3, <3>4, <3>5
  <2> QED
    BY <1>3, <1>7, <2>4
<1> QED
  BY <1>8, <1>9

\* So the sum is no more than the disk.
LEMMA LargeTotal ==
    ASSUME ResizeInv, Finished, target.size >= sum.fixed + sum.scalable
    PROVE  total <= target.size
<1> DEFINE n == Len(source)
           a == [m \in 1 .. n |-> Taken(m) + Count(m = 1) * tmp[m].start]
           b == [m \in 1 .. n |-> Scaled(tmp[m])]
           e == [m \in 1 .. n |-> Charged(tmp[m], m)]
           f == [j \in 0 .. n |-> IF j = 0 THEN 0 ELSE Upto(j + 1)]
<1>0. Whole
  BY LargeWhole DEF ResizeInv
<1>1. /\ n \in Nat /\ n >= 4 /\ Len(tmp) = n /\ Disks /\ Rows /\ Sums /\ Whole
      /\ target.size \in Nat /\ total = Upto(n + 1)
      /\ Upto(1) = tmp[1].start /\ tmp[1].start \in Nat
      /\ \A k \in 1 .. n + 1 : Upto(k) \in Nat
      /\ \A k \in 1 .. n : Upto(k + 1) = Upto(k) + Taken(k)
  BY <1>0, DoneFacts
<1>2. sum.scalable = Added(b, n) /\ sum.fixed = Added(e, n)
  BY <1>1 DEF Sums
<1>3. sum.scalable \in Nat /\ sum.fixed \in Nat /\ Digits \in Nat /\ Digits > 0
  BY <1>1, SumsNat, ResizeAssumption
<1>4. Ratio \in Int /\ Ratio * sum.scalable <= Digits * (target.size - sum.fixed)
  BY <1>1, RatioFacts
<1>5. ASSUME NEW m \in 1 .. n
      PROVE  /\ a[m] \in Int /\ b[m] \in Int /\ e[m] \in Int
             /\ Digits * a[m] <= Ratio * b[m] + Digits * e[m]
             /\ a[m] = IF m = 1 THEN Taken(1) + tmp[1].start ELSE Taken(m)
             /\ Taken(m) \in Nat
  <2>1. tmp[m] \in Partition /\ m \in Nat /\ m \in 1 .. Len(tmp)
    BY <1>1 DEF Rows
  <2>2. Scaled(tmp[m]) \in Nat /\ Charged(tmp[m], m) \in Nat /\ tmp[m].start \in Nat
    BY <2>1, RowNat DEF Partition
  <2>3. Taken(m) \in Nat
    BY <1>1, <2>1, SizedFacts
  <2>4. /\ a[m] = Taken(m) + Count(m = 1) * tmp[m].start
        /\ b[m] = Scaled(tmp[m]) /\ e[m] = Charged(tmp[m], m)
    OBVIOUS
  <2>5. Digits * (Taken(m) + Count(m = 1) * tmp[m].start)
           <= Ratio * Scaled(tmp[m]) + Digits * Charged(tmp[m], m)
    BY <1>1, <2>1, LargeTaken
  <2>6. Taken(m) + Count(m = 1) * tmp[m].start =
           IF m = 1 THEN Taken(1) + tmp[1].start ELSE Taken(m)
    BY <2>2, <2>3 DEF Count
  <2> HIDE DEF a, b, e
  <2> QED
    BY <2>2, <2>3, <2>4, <2>5, <2>6
<1>6. f \in [0 .. n -> Int]
  <2>1. \A j \in 0 .. n : (IF j = 0 THEN 0 ELSE Upto(j + 1)) \in Int
    BY <1>1
  <2> QED
    BY <2>1
<1>7. Runs(f, a, n)
  <2>1. f[0] = 0
    BY <1>1
  <2>2. ASSUME NEW k \in 1 .. n
        PROVE  f[k] = f[k - 1] + a[k]
    <3>1. a[k] = (IF k = 1 THEN Taken(1) + tmp[1].start ELSE Taken(k)) /\ Taken(k) \in Nat
      BY <1>5
    <3>2. k \in 0 .. n /\ k - 1 \in 0 .. n /\ (k - 1) + 1 = k /\ k \in 1 .. n + 1
      BY <1>1
    <3>3. f[k] = Upto(k + 1) /\ f[k - 1] = IF k = 1 THEN 0 ELSE Upto(k)
      BY <3>2
    <3>4. Upto(k + 1) = Upto(k) + Taken(k) /\ Upto(k) \in Nat
      BY <1>1, <3>2
    <3> HIDE DEF f, a
    <3>5. CASE k = 1
      BY <1>1, <3>1, <3>3, <3>4, <3>5
    <3>6. CASE k # 1
      BY <3>1, <3>3, <3>4, <3>6
    <3> QED
      BY <3>5, <3>6
  <2> HIDE DEF f, a
  <2> QED
    BY <2>1, <2>2 DEF Runs
<1>8. Added(a, n) = f[n] /\ f[n] = total
  <2>1. \A m \in 1 .. n : a[m] \in Int
    BY <1>5
  <2>2. f[n] = total
    BY <1>1
  <2> HIDE DEF a, f
  <2> QED
    BY <1>1, <1>6, <1>7, <2>1, <2>2, AddedRuns
<1>9. Digits * total <= Ratio * sum.scalable + Digits * sum.fixed
  <2>1. /\ n \in Nat /\ Digits \in Int /\ Ratio \in Int
        /\ \A m \in 1 .. n : a[m] \in Int /\ b[m] \in Int /\ e[m] \in Int
                             /\ Digits * a[m] <= Ratio * b[m] + Digits * e[m]
    BY <1>1, <1>3, <1>4, <1>5
  <2> HIDE DEF a, b, e, f, n
  <2>2. Digits * Added(a, n) <= Ratio * Added(b, n) + Digits * Added(e, n)
    BY <2>1, AddedBound, Zenon
  <2> QED
    BY <1>2, <1>8, <2>2
<1>10. PICK y \in Int : y = Ratio * sum.scalable
  BY <1>3, <1>4
<1>11. total \in Nat
  <2>1. n + 1 \in 1 .. n + 1
    BY <1>1
  <2> QED
    BY <1>1, <2>1
<1>12. Digits * total <= y + Digits * sum.fixed /\ y <= Digits * (target.size - sum.fixed)
  BY <1>3, <1>4, <1>9, <1>10
<1>13. total \in Int /\ sum.fixed \in Int /\ target.size \in Int
  BY <1>1, <1>3, <1>11
<1> HIDE DEF a, b, e, f, n
<1>14. Digits * total <= Digits * target.size
  <2>1. Digits * (target.size - sum.fixed) = Digits * target.size - Digits * sum.fixed
    BY <1>3, <1>13
  <2>2. /\ Digits * total \in Int /\ Digits * sum.fixed \in Int
        /\ Digits * target.size \in Int
    BY <1>3, <1>13
  <2> QED
    BY <1>12, <2>1, <2>2
<1> QED
  BY <1>3, <1>13, <1>14, SmallerFactor

\* On a disk with room for all partitions as they were the layout is not refused
\* and no partition to be restored becomes smaller.
THEOREM NeverShrinksHolds == Spec => []NeverShrinks
<1>1. ResizeInv => NeverShrinks
  <2> SUFFICES ASSUME ResizeInv, Finished, target.size >= sum.fixed + sum.scalable
               PROVE  /\ step = "done"
                      /\ \A k \in Used : source[k].backup =>
                            \/ Room(k) >= source[k].size - Lost(k)
                            \/ /\ Logical(k) /\ k = LastPartNr
                               /\ \E m \in 5 .. LastPartNr : tmp[m].size = 0
    BY DEF NeverShrinks
  <2>0. Whole
    BY LargeWhole DEF ResizeInv
  <2>1. total <= target.size
    BY LargeTotal
  <2>2. /\ Disks /\ Rows /\ Sums /\ Len(tmp) = Len(source) /\ Len(source) \in Nat
        /\ target.size \in Nat /\ total \in Nat
    <3>1. Len(source) + 1 \in 1 .. Len(source) + 1
      BY <2>0, DoneFacts
    <3> QED
      BY <2>0, <3>1, DoneFacts
  <2>3. step = "done"
    BY <2>0, <2>1, <2>2 DEF ResizeInv, Finished
  <2>4. ASSUME NEW k \in Used, source[k].backup,
               ~(/\ Logical(k) /\ k = LastPartNr
                 /\ \E m \in 5 .. LastPartNr : tmp[m].size = 0)
        PROVE  Room(k) >= source[k].size - Lost(k)
    <3>1. /\ k \in 1 .. Len(source) /\ k \in 1 .. Len(tmp) /\ tmp[k] = source[k]
          /\ tmp[k].id \notin {"0", "5"} /\ tmp[k].size \in Nat
      BY <2>0, <2>4, RestoredFacts
    <3>2. ASSUME k > 4, k = Len(source), NEW m \in 5 .. Len(source)
          PROVE  Contented(m)
      <4>1. m \in 1 .. Len(tmp) /\ tmp[m].size # 0
        BY <2>2, <2>4, <3>2 DEF Logical, LastPartNr
      <4>2. tmp[m].size \in Nat
        <5>1. tmp[m] \in Partition
          BY <2>2, <4>1 DEF Rows
        <5> QED
          BY <5>1 DEF Partition
      <4>3. /\ Share(m) \in Nat /\ Share(m) >= tmp[m].size
            /\ Scalable(tmp[m]) => Share(m) >= tmp[m].used
        BY <2>2, <4>1, LargeShare
      <4> QED
        BY <4>1, <4>2, <4>3 DEF Contented
    <3>3. Room(k) \in Int /\ Lost(k) \in Nat /\ Room(k) >= Sized(k) - Lost(k)
      BY <2>0, <2>1, <3>1, <3>2, RoomFacts
    <3>4. Sized(k) \in Nat /\ Sized(k) >= Share(k) /\ Share(k) \in Int
      BY <2>0, <2>2, <3>1, SizedFacts
    <3>5. Share(k) >= tmp[k].size
      BY <2>2, <3>1, LargeShare
    <3> QED
      BY <3>1, <3>3, <3>4, <3>5
  <2> QED
    BY <2>3, <2>4
<1> QED
  BY <1>1, Invariant, PTL
=============================================================================
