--------------------------- MODULE MediacheckProofs ---------------------------
(***************************************************************************)
(* Proofs about modules Md5 and Mediacheck, for every block, buffer and    *)
(* sector length and every image.                                          *)
(***************************************************************************)
EXTENDS Mediacheck, SequenceTheorems, TLAPS

-----------------------------------------------------------------------------
(* Numbers *)

\* Quotient and remainder.
LEMMA DivMod ==
    ASSUME NEW a \in Nat, NEW b \in Nat, b > 0
    PROVE  \E q, w \in Nat : /\ q = a \div b /\ w = a % b /\ w < b
                            /\ a = q * b + w
<1>1. a \div b \in Nat /\ a % b \in Nat /\ a % b < b
  OBVIOUS
<1>2. a % b = a - b * (a \div b)
  OBVIOUS
<1>3. PICK q \in Nat, w \in Nat : q = a \div b /\ w = a % b /\ w < b
  BY <1>1
<1>4. b * q = q * b /\ q * b \in Nat
  OBVIOUS
<1>5. w = a - q * b
  BY <1>2, <1>3, <1>4
<1>6. a = q * b + w
  BY <1>4, <1>5
<1> QED
  BY <1>3, <1>6

\* There is only one way to divide.
LEMMA DivUnique ==
    ASSUME NEW b \in Nat, b > 0, NEW q \in Nat, NEW w \in Nat, w < b
    PROVE  (q * b + w) \div b = q /\ (q * b + w) % b = w
<1>1. PICK a \in Nat : a = q * b + w
  <2>1. q * b \in Nat
    OBVIOUS
  <2> QED
    BY <2>1
<1>2. PICK p \in Nat, v \in Nat : p = a \div b /\ v = a % b /\ v < b /\ a = p * b + v
  BY DivMod
<1>3. ASSUME NEW x \in Nat, NEW y \in Nat, NEW r \in Nat, NEW s \in Nat,
             r < b, s < b, x * b + r = y * b + s, x < y
      PROVE  FALSE
  <2>1. PICK d \in Nat : y = x + 1 + d
    <3>1. y - (x + 1) \in Nat /\ y = x + 1 + (y - (x + 1))
      BY <1>3
    <3> QED
      BY <3>1
  <2>2. y * b = x * b + b + d * b
    BY <2>1
  <2>3. x * b \in Nat /\ d * b \in Nat
    OBVIOUS
  <2> QED
    BY <1>3, <2>2, <2>3
<1>4. ~(p < q) /\ ~(q < p)
  BY <1>1, <1>2, <1>3
<1>5. p = q
  BY <1>4
<1>6. v = w
  <2>1. q * b \in Nat
    OBVIOUS
  <2> QED
    BY <1>1, <1>2, <1>5, <2>1
<1> QED
  BY <1>1, <1>2, <1>5, <1>6

\* A remainder of a sum.
LEMMA ModSum ==
    ASSUME NEW b \in Nat, b > 0, NEW a \in Nat, NEW c \in Nat
    PROVE  ((a % b) + c) % b = (a + c) % b
<1>1. PICK q \in Nat, u \in Nat : q = a \div b /\ u = a % b /\ u < b /\ a = q * b + u
  BY DivMod
<1>2. PICK p \in Nat, v \in Nat : /\ p = (u + c) \div b /\ v = (u + c) % b /\ v < b
                                  /\ u + c = p * b + v
  <2>1. u + c \in Nat
    OBVIOUS
  <2> QED
    BY <2>1, DivMod
<1>3. a + c = (q + p) * b + v
  <2>1. (q + p) * b = q * b + p * b /\ q * b \in Nat /\ p * b \in Nat
    OBVIOUS
  <2> QED
    BY <1>1, <1>2, <2>1
<1>4. (a + c) % b = v
  <2>1. PICK e \in Nat : e = q + p
    OBVIOUS
  <2>2. (e * b + v) % b = v
    BY <1>2, DivUnique
  <2> QED
    BY <1>3, <2>1, <2>2
<1> QED
  BY <1>1, <1>2, <1>4

\* The smaller of two numbers.
LEMMA MinOf ==
    ASSUME NEW a \in Int, NEW b \in Int
    PROVE  Min({a, b}) = IF a <= b THEN a ELSE b
<1>1. \E x \in {a, b} : \A y \in {a, b} : x <= y
  OBVIOUS
<1>2. Min({a, b}) \in {a, b} /\ \A y \in {a, b} : Min({a, b}) <= y
  BY <1>1 DEF Min
<1> QED
  BY <1>2

-----------------------------------------------------------------------------
(* Sequences of cells *)

Cells == Seq(Int)

\* A part of a sequence.
LEMMA Part ==
    ASSUME NEW S, NEW s \in Seq(S), NEW m \in Nat, NEW n \in Nat, m <= n, n <= Len(s)
    PROVE  /\ SubSeq(s, m + 1, n) \in Seq(S) /\ Len(SubSeq(s, m + 1, n)) = n - m
           /\ \A i \in 1 .. n - m : SubSeq(s, m + 1, n)[i] = s[m + i]
<1>1. Len(s) \in Nat /\ \A i \in 1 .. Len(s) : s[i] \in S
  OBVIOUS
<1>2. SubSeq(s, m + 1, n) = [i \in 1 .. n - m |-> s[m + i]]
  OBVIOUS
<1> QED
  BY <1>1, <1>2

\* Sequences with the same elements are the same.
LEMMA SameSeq ==
    ASSUME NEW S, NEW s \in Seq(S), NEW t \in Seq(S), Len(s) = Len(t),
           \A i \in 1 .. Len(s) : s[i] = t[i]
    PROVE  s = t
OBVIOUS

\* Two sequences behind one another.
LEMMA Joined ==
    ASSUME NEW S, NEW s \in Seq(S), NEW t \in Seq(S)
    PROVE  /\ s \o t \in Seq(S) /\ Len(s \o t) = Len(s) + Len(t)
           /\ \A i \in 1 .. Len(s) : (s \o t)[i] = s[i]
           /\ \A i \in 1 .. Len(t) : (s \o t)[Len(s) + i] = t[i]
OBVIOUS

\* The same of cells.
LEMMA CellsJoined ==
    ASSUME NEW s \in Cells, NEW t \in Cells
    PROVE  /\ s \o t \in Cells /\ Len(s \o t) = Len(s) + Len(t)
           /\ \A i \in 1 .. Len(s) : (s \o t)[i] = s[i]
           /\ \A i \in 1 .. Len(t) : (s \o t)[Len(s) + i] = t[i]
<1>1. s \in Seq(Int) /\ t \in Seq(Int)
  BY DEF Cells
<1> QED
  BY <1>1 DEF Cells

\* The same of blocks.
LEMMA BlocksJoined ==
    ASSUME NEW s \in Seq(Cells), NEW t \in Seq(Cells)
    PROVE  /\ s \o t \in Seq(Cells) /\ Len(s \o t) = Len(s) + Len(t)
           /\ \A i \in 1 .. Len(s) : (s \o t)[i] = s[i]
           /\ \A i \in 1 .. Len(t) : (s \o t)[Len(s) + i] = t[i]
OBVIOUS

\* Lengths are numbers.
LEMMA CellsLen ==
    ASSUME NEW s \in Cells
    PROVE  Len(s) \in Nat /\ \A i \in 1 .. Len(s) : s[i] \in Int
<1>1. s \in Seq(Int)
  BY DEF Cells
<1> QED
  BY <1>1

\* Messages with the same cells are the same.
LEMMA SameCells ==
    ASSUME NEW s \in Cells, NEW t \in Cells, Len(s) = Len(t),
           \A i \in 1 .. Len(s) : s[i] = t[i]
    PROVE  s = t
<1>1. s \in Seq(Int) /\ t \in Seq(Int)
  BY DEF Cells
<1> QED
  BY <1>1, SameSeq

\* A part of a message.
LEMMA CellsPart ==
    ASSUME NEW s \in Cells, NEW m \in Nat, NEW n \in Nat, m <= n, n <= Len(s)
    PROVE  /\ SubSeq(s, m + 1, n) \in Cells /\ Len(SubSeq(s, m + 1, n)) = n - m
           /\ \A i \in 1 .. n - m : SubSeq(s, m + 1, n)[i] = s[m + i]
<1>1. s \in Seq(Int)
  BY DEF Cells
<1> QED
  BY <1>1, Part DEF Cells

-----------------------------------------------------------------------------
(* The blocks of a message *)

\* Products grow.
LEMMA Times ==
    ASSUME NEW a \in Nat, NEW c \in Nat, NEW b \in Nat, a <= c
    PROVE  a * b \in Nat /\ c * b \in Nat /\ a * b <= c * b
<1>1. PICK d \in Nat : c = a + d
  <2>1. c - a \in Nat /\ c = a + (c - a)
    OBVIOUS
  <2> QED
    BY <2>1
<1>2. c * b = a * b + d * b /\ a * b \in Nat /\ d * b \in Nat
  BY <1>1
<1> QED
  BY <1>2

\* Place i of block k lies in the message.
LEMMA Place ==
    ASSUME NEW q \in Nat, NEW k \in 1 .. q, NEW i \in 1 .. Block
    PROVE  /\ (k - 1) * Block \in Nat /\ k * Block = (k - 1) * Block + Block
           /\ k * Block <= q * Block /\ q * Block \in Nat
           /\ (k - 1) * Block + i \in 1 .. q * Block
<1>1. Block \in Nat
  BY Md5Assumption
<1>2. PICK j \in Nat : k = j + 1
  <2>1. k - 1 \in Nat /\ k = (k - 1) + 1
    OBVIOUS
  <2> QED
    BY <2>1
<1>3. (j + 1) * Block = j * Block + Block /\ j * Block \in Nat
  BY <1>1
<1>4. (j + 1) * Block <= q * Block /\ q * Block \in Nat
  <2>1. j + 1 \in Nat /\ j + 1 <= q
    BY <1>2
  <2> QED
    BY <1>1, <2>1, Times
<1>5. k - 1 = j
  BY <1>2
<1> QED
  BY <1>1, <1>2, <1>3, <1>4, <1>5

\* The full blocks of a message and the rest.
LEMMA WholeFacts ==
    ASSUME NEW d \in Cells, NEW q \in Nat, NEW w \in Nat, w < Block,
           Len(d) = q * Block + w
    PROVE  /\ Len(d) % Block = w
           /\ Whole(d) \in Seq(Cells) /\ Len(Whole(d)) = q
           /\ \A k \in 1 .. q :
                 /\ Whole(d)[k] \in Cells /\ Len(Whole(d)[k]) = Block
                 /\ \A i \in 1 .. Block : Whole(d)[k][i] = d[(k - 1) * Block + i]
           /\ Rest(d) \in Cells /\ Len(Rest(d)) = w
           /\ \A i \in 1 .. w : Rest(d)[i] = d[q * Block + i]
<1>1. Block \in Nat /\ Block > 0
  BY Md5Assumption DEF Trailer
<1>2. Len(d) \div Block = q /\ Len(d) % Block = w
  BY <1>1, DivUnique
<1>3. q * Block \in Nat
  BY <1>1
<1>4. ASSUME NEW k \in 1 .. q
      PROVE  LET b == SubSeq(d, (k - 1) * Block + 1, k * Block)
             IN  /\ b \in Cells /\ Len(b) = Block
                 /\ \A i \in 1 .. Block : b[i] = d[(k - 1) * Block + i]
  <2>1. PICK m \in Nat : m = (k - 1) * Block /\ k * Block = m + Block
                         /\ m + Block <= q * Block
    <3>1. 1 \in 1 .. Block
      BY <1>1
    <3> QED
      BY <3>1, Place
  <2>2. m + Block <= Len(d) /\ m + Block \in Nat /\ m <= m + Block /\ (m + Block) - m = Block
    BY <1>1, <1>3, <2>1
  <2>3. /\ SubSeq(d, m + 1, m + Block) \in Cells
        /\ Len(SubSeq(d, m + 1, m + Block)) = Block
        /\ \A i \in 1 .. Block : SubSeq(d, m + 1, m + Block)[i] = d[m + i]
    <3>1. d \in Seq(Int)
      BY DEF Cells
    <3>2. /\ SubSeq(d, m + 1, m + Block) \in Seq(Int)
          /\ Len(SubSeq(d, m + 1, m + Block)) = (m + Block) - m
          /\ \A i \in 1 .. (m + Block) - m : SubSeq(d, m + 1, m + Block)[i] = d[m + i]
      BY <2>2, <3>1, Part
    <3> QED
      BY <2>2, <3>2 DEF Cells
  <2> QED
    BY <2>1, <2>3
<1>5. Whole(d) = [k \in 1 .. q |-> SubSeq(d, (k - 1) * Block + 1, k * Block)]
  BY <1>2 DEF Whole
<1> DEFINE b(k) == SubSeq(d, (k - 1) * Block + 1, k * Block)
<1>a. \A k \in 1 .. q :
         /\ b(k) \in Cells /\ Len(b(k)) = Block
         /\ \A i \in 1 .. Block : b(k)[i] = d[(k - 1) * Block + i]
  BY <1>4
<1>b. Whole(d) = [k \in 1 .. q |-> b(k)]
  BY <1>5
<1> HIDE DEF b
<1>6. /\ Whole(d) \in Seq(Cells) /\ Len(Whole(d)) = q
      /\ \A k \in 1 .. q : Whole(d)[k] = b(k)
  <2>1. \A k \in 1 .. q : b(k) \in Cells
    BY <1>a
  <2>2. [k \in 1 .. q |-> b(k)] \in Seq(Cells) /\ Len([k \in 1 .. q |-> b(k)]) = q
    BY <2>1
  <2> QED
    BY <1>b, <2>2
<1>7. \A k \in 1 .. q :
         /\ Whole(d)[k] \in Cells /\ Len(Whole(d)[k]) = Block
         /\ \A i \in 1 .. Block : Whole(d)[k][i] = d[(k - 1) * Block + i]
  <2>1. \A k \in 1 .. q : Whole(d)[k] = b(k)
    BY <1>6
  <2> QED
    BY <1>a, <2>1
<1>8. /\ Rest(d) \in Cells /\ Len(Rest(d)) = w
      /\ \A i \in 1 .. w : Rest(d)[i] = d[q * Block + i]
  <2>1. PICK m \in Nat : m = q * Block
    BY <1>3
  <2>2. m + w = Len(d) /\ (m + w) - m = w /\ m <= m + w /\ m + w \in Nat
    BY <2>1
  <2>3. Rest(d) = SubSeq(d, m + 1, m + w)
    BY <1>2, <2>1, <2>2 DEF Rest
  <2>4. /\ SubSeq(d, m + 1, m + w) \in Seq(Int)
        /\ Len(SubSeq(d, m + 1, m + w)) = (m + w) - m
        /\ \A i \in 1 .. (m + w) - m : SubSeq(d, m + 1, m + w)[i] = d[m + i]
    <3>1. d \in Seq(Int)
      BY DEF Cells
    <3> QED
      BY <2>2, <3>1, Part
  <2> QED
    BY <2>1, <2>2, <2>3, <2>4 DEF Cells
<1> QED
  BY <1>2, <1>6, <1>7, <1>8

\* The length of a message in blocks.
LEMMA Lengths ==
    ASSUME NEW d \in Cells
    PROVE  \E q, w \in Nat : w < Block /\ Len(d) = q * Block + w /\ w = Len(d) % Block
                             /\ q = Len(d) \div Block
<1>1. Block \in Nat /\ Block > 0 /\ Len(d) \in Nat
  BY Md5Assumption DEF Trailer, Cells
<1> QED
  BY <1>1, DivMod

\* What follows full blocks can be cut by itself.
LEMMA WholeJoined ==
    ASSUME NEW c \in Cells, NEW q \in Nat, Len(c) = q * Block, NEW e \in Cells
    PROVE  Whole(c \o e) = Whole(c) \o Whole(e) /\ Rest(c \o e) = Rest(e)
<1>1. Block \in Nat /\ Block > 0
  BY Md5Assumption DEF Trailer
<1>2. PICK p, w \in Nat : w < Block /\ Len(e) = p * Block + w
  BY Lengths
<1>3. /\ c \o e \in Cells /\ Len(c \o e) = Len(c) + Len(e)
      /\ \A i \in 1 .. Len(c) : (c \o e)[i] = c[i]
      /\ \A i \in 1 .. Len(e) : (c \o e)[Len(c) + i] = e[i]
  BY CellsJoined
<1>4. /\ q * Block \in Nat /\ p * Block \in Nat /\ q + p \in Nat
      /\ (q + p) * Block = q * Block + p * Block
  BY <1>1
<1>5. Len(c \o e) = (q + p) * Block + w
  <2>1. Len(c \o e) = q * Block + (p * Block + w)
    BY <1>2, <1>3
  <2> QED
    BY <1>4, <2>1
<1> DEFINE s == c \o e
<1>6. /\ Whole(s) \in Seq(Cells) /\ Len(Whole(s)) = q + p
      /\ \A k \in 1 .. q + p :
            /\ Whole(s)[k] \in Cells /\ Len(Whole(s)[k]) = Block
            /\ \A i \in 1 .. Block : Whole(s)[k][i] = s[(k - 1) * Block + i]
      /\ Rest(s) \in Cells /\ Len(Rest(s)) = w
      /\ \A i \in 1 .. w : Rest(s)[i] = s[(q + p) * Block + i]
  <2>1. s \in Cells /\ q + p \in Nat /\ Len(s) = (q + p) * Block + w
    BY <1>3, <1>4, <1>5
  <2> HIDE DEF s
  <2>2. PICK r \in Nat : r = q + p
    BY <2>1
  <2>3. Len(s) = r * Block + w
    BY <2>1, <2>2
  <2>4. /\ Whole(s) \in Seq(Cells) /\ Len(Whole(s)) = r
        /\ \A k \in 1 .. r :
              /\ Whole(s)[k] \in Cells /\ Len(Whole(s)[k]) = Block
              /\ \A i \in 1 .. Block : Whole(s)[k][i] = s[(k - 1) * Block + i]
        /\ Rest(s) \in Cells /\ Len(Rest(s)) = w
        /\ \A i \in 1 .. w : Rest(s)[i] = s[r * Block + i]
    <3>1. s \in Cells
      BY <2>1
    <3>2. w < Block
      BY <1>2
    <3> QED
      BY <2>3, <3>1, <3>2, WholeFacts, Zenon
  <2> QED
    BY <2>2, <2>4
<1>7. /\ Whole(c) \in Seq(Cells) /\ Len(Whole(c)) = q
      /\ \A k \in 1 .. q :
            /\ Whole(c)[k] \in Cells /\ Len(Whole(c)[k]) = Block
            /\ \A i \in 1 .. Block : Whole(c)[k][i] = c[(k - 1) * Block + i]
  <2>1. Len(c) = q * Block + 0 /\ 0 \in Nat /\ 0 < Block
    BY <1>1, <1>4
  <2> QED
    BY <2>1, WholeFacts
<1>8. /\ Whole(e) \in Seq(Cells) /\ Len(Whole(e)) = p
      /\ \A k \in 1 .. p :
            /\ Whole(e)[k] \in Cells /\ Len(Whole(e)[k]) = Block
            /\ \A i \in 1 .. Block : Whole(e)[k][i] = e[(k - 1) * Block + i]
      /\ Rest(e) \in Cells /\ Len(Rest(e)) = w
      /\ \A i \in 1 .. w : Rest(e)[i] = e[p * Block + i]
  BY <1>2, WholeFacts
<1> HIDE DEF s
<1>9. /\ Whole(c) \o Whole(e) \in Seq(Cells) /\ Len(Whole(c) \o Whole(e)) = q + p
      /\ \A k \in 1 .. q : (Whole(c) \o Whole(e))[k] = Whole(c)[k]
      /\ \A k \in 1 .. p : (Whole(c) \o Whole(e))[q + k] = Whole(e)[k]
  <2>1. Whole(c) \in Seq(Cells) /\ Whole(e) \in Seq(Cells)
    BY <1>7, <1>8
  <2>2. Len(Whole(c)) = q /\ Len(Whole(e)) = p
    BY <1>7, <1>8
  <2>3. /\ Whole(c) \o Whole(e) \in Seq(Cells)
        /\ Len(Whole(c) \o Whole(e)) = Len(Whole(c)) + Len(Whole(e))
        /\ \A k \in 1 .. Len(Whole(c)) : (Whole(c) \o Whole(e))[k] = Whole(c)[k]
        /\ \A k \in 1 .. Len(Whole(e)) :
              (Whole(c) \o Whole(e))[Len(Whole(c)) + k] = Whole(e)[k]
    BY <2>1, BlocksJoined
  <2> QED
    BY <2>2, <2>3
<1>10. ASSUME NEW k \in 1 .. q
       PROVE  Whole(s)[k] = Whole(c)[k]
  <2>1. k \in 1 .. q + p
    OBVIOUS
  <2>2. ASSUME NEW i \in 1 .. Block
        PROVE  Whole(s)[k][i] = Whole(c)[k][i]
    <3>1. (k - 1) * Block + i \in 1 .. q * Block
      BY Place
    <3>2. s[(k - 1) * Block + i] = c[(k - 1) * Block + i]
      BY <1>3, <3>1 DEF s
    <3> QED
      BY <1>6, <1>7, <2>1, <3>2
  <2> QED
    BY <1>6, <1>7, <2>1, <2>2, SameSeq DEF Cells
<1>11. ASSUME NEW k \in 1 .. p
       PROVE  Whole(s)[q + k] = Whole(e)[k]
  <2>1. q + k \in 1 .. q + p
    OBVIOUS
  <2>2. ASSUME NEW i \in 1 .. Block
        PROVE  Whole(s)[q + k][i] = Whole(e)[k][i]
    <3>1. (k - 1) * Block + i \in 1 .. p * Block
      BY Place
    <3>2. (k - 1) * Block + i \in 1 .. Len(e)
      BY <1>2, <1>4, <3>1
    <3>3. ((q + k) - 1) * Block + i = Len(c) + ((k - 1) * Block + i)
      <4>1. PICK j \in Nat : j = k - 1
        OBVIOUS
      <4>2. (q + j) * Block = q * Block + j * Block /\ j * Block \in Nat
        BY <1>1
      <4>3. (q + k) - 1 = q + j
        BY <4>1
      <4> QED
        BY <1>4, <4>1, <4>2, <4>3
    <3>4. s[((q + k) - 1) * Block + i] = e[(k - 1) * Block + i]
      BY <1>3, <3>2, <3>3 DEF s
    <3> QED
      BY <1>6, <1>8, <2>1, <3>4
  <2> QED
    BY <1>6, <1>8, <2>1, <2>2, SameSeq DEF Cells
<1>12. Whole(s) = Whole(c) \o Whole(e)
  <2>1. ASSUME NEW k \in 1 .. q + p
        PROVE  Whole(s)[k] = (Whole(c) \o Whole(e))[k]
    <3>1. CASE k \in 1 .. q
      BY <1>9, <1>10, <3>1
    <3>2. CASE k \notin 1 .. q
      <4>1. PICK j \in 1 .. p : k = q + j
        <5>1. k - q \in 1 .. p /\ k = q + (k - q)
          BY <3>2
        <5> QED
          BY <5>1
      <4> QED
        BY <1>9, <1>11, <4>1
    <3> QED
      BY <3>1, <3>2
  <2> QED
    BY <1>6, <1>9, <2>1, SameSeq
<1>13. Rest(s) = Rest(e)
  <2>1. ASSUME NEW i \in 1 .. w
        PROVE  Rest(s)[i] = Rest(e)[i]
    <3>1. p * Block + i \in 1 .. Len(e)
      BY <1>2, <1>4
    <3>2. (q + p) * Block + i = Len(c) + (p * Block + i)
      BY <1>4
    <3>3. s[(q + p) * Block + i] = e[p * Block + i]
      BY <1>3, <3>1, <3>2 DEF s
    <3> QED
      BY <1>6, <1>8, <3>3
  <2> QED
    BY <1>6, <1>8, <2>1, SameSeq DEF Cells
<1> QED
  BY <1>12, <1>13 DEF s

\* Less than a block.
LEMMA Short ==
    ASSUME NEW x \in Cells, Len(x) < Block
    PROVE  Whole(x) = <<>> /\ Rest(x) = x
<1>1. Block \in Nat /\ Len(x) \in Nat
  BY Md5Assumption, CellsLen
<1>2. Len(x) = 0 * Block + Len(x)
  BY <1>1
<1>3. /\ Whole(x) \in Seq(Cells) /\ Len(Whole(x)) = 0
      /\ Rest(x) \in Cells /\ Len(Rest(x)) = Len(x)
      /\ \A i \in 1 .. Len(x) : Rest(x)[i] = x[0 * Block + i]
  <2>1. PICK z \in Nat, w \in Nat : z = 0 /\ w = Len(x)
    BY <1>1
  <2>2. Len(x) = z * Block + w /\ w < Block
    BY <1>2, <2>1
  <2>3. /\ Whole(x) \in Seq(Cells) /\ Len(Whole(x)) = z
        /\ Rest(x) \in Cells /\ Len(Rest(x)) = w
        /\ \A i \in 1 .. w : Rest(x)[i] = x[z * Block + i]
    BY <2>2, WholeFacts
  <2> QED
    BY <2>1, <2>3
<1>4. Whole(x) = <<>>
  BY <1>3
<1>5. \A i \in 1 .. Len(Rest(x)) : Rest(x)[i] = x[i]
  <2>1. 0 * Block = 0
    BY <1>1
  <2> QED
    BY <1>3, <2>1
<1>6. Rest(x) = x
  BY <1>3, <1>5, SameCells
<1> QED
  BY <1>4, <1>6

\* Exactly a block.
LEMMA Single ==
    ASSUME NEW x \in Cells, Len(x) = Block
    PROVE  Whole(x) = <<x>> /\ Rest(x) = <<>>
<1>1. Block \in Nat /\ Block > 0
  BY Md5Assumption DEF Trailer
<1>2. PICK o \in Nat, w \in Nat : o = 1 /\ w = 0
  OBVIOUS
<1>3. Len(x) = o * Block + w
  BY <1>1, <1>2
<1>a. w < Block
  BY <1>1, <1>2
<1>4. /\ Whole(x) \in Seq(Cells) /\ Len(Whole(x)) = o
      /\ \A k \in 1 .. o :
            /\ Whole(x)[k] \in Cells /\ Len(Whole(x)[k]) = Block
            /\ \A i \in 1 .. Block : Whole(x)[k][i] = x[(k - 1) * Block + i]
      /\ Rest(x) \in Cells /\ Len(Rest(x)) = w
  <2>1. /\ Len(x) % Block = w
        /\ Whole(x) \in Seq(Cells) /\ Len(Whole(x)) = o
        /\ \A k \in 1 .. o :
              /\ Whole(x)[k] \in Cells /\ Len(Whole(x)[k]) = Block
              /\ \A i \in 1 .. Block : Whole(x)[k][i] = x[(k - 1) * Block + i]
        /\ Rest(x) \in Cells /\ Len(Rest(x)) = w
        /\ \A i \in 1 .. w : Rest(x)[i] = x[o * Block + i]
    BY <1>3, <1>a, WholeFacts, Zenon
  <2> QED
    BY <2>1
<1>5. Rest(x) = <<>>
  <2>1. Rest(x) \in Seq(Int) /\ Len(Rest(x)) = 0
    BY <1>2, <1>4 DEF Cells
  <2> QED
    BY <2>1
<1>6. Whole(x)[1] = x
  <2>1. /\ Whole(x)[1] \in Cells /\ Len(Whole(x)[1]) = Block
        /\ \A i \in 1 .. Block : Whole(x)[1][i] = x[(1 - 1) * Block + i]
    <3>1. 1 \in 1 .. o
      BY <1>2
    <3> QED
      BY <1>4, <3>1
  <2>2. (1 - 1) * Block = 0
    BY <1>1
  <2>3. \A i \in 1 .. Block : Whole(x)[1][i] = x[i]
    BY <2>1, <2>2
  <2> QED
    BY <2>1, <2>3, SameCells
<1>7. Whole(x) = <<x>>
  <2>1. Whole(x) \in Seq(Cells) /\ Len(Whole(x)) = 1
    BY <1>2, <1>4
  <2>2. Len(<<x>>) = 1 /\ <<x>>[1] = x /\ <<x>> \in Seq(Cells)
    OBVIOUS
  <2>3. \A k \in 1 .. Len(Whole(x)) : Whole(x)[k] = <<x>>[k]
    BY <1>6, <2>1, <2>2
  <2> QED
    BY <2>1, <2>2, <2>3, SameSeq
<1> QED
  BY <1>5, <1>7

\* Joining is associative.
LEMMA Assoc ==
    ASSUME NEW a \in Cells, NEW b \in Cells, NEW c \in Cells
    PROVE  (a \o b) \o c = a \o (b \o c)
<1>1. a \in Seq(Int) /\ b \in Seq(Int) /\ c \in Seq(Int)
  BY DEF Cells
<1> QED
  BY <1>1

\* A message is cut in two at any place.
LEMMA CutAt ==
    ASSUME NEW s \in Cells, NEW m \in Nat, m <= Len(s)
    PROVE  /\ SubSeq(s, 1, m) \in Cells /\ Len(SubSeq(s, 1, m)) = m
           /\ SubSeq(s, m + 1, Len(s)) \in Cells
           /\ Len(SubSeq(s, m + 1, Len(s))) = Len(s) - m
           /\ \A i \in 1 .. m : SubSeq(s, 1, m)[i] = s[i]
           /\ s = SubSeq(s, 1, m) \o SubSeq(s, m + 1, Len(s))
<1>1. Len(s) \in Nat
  BY CellsLen
<1>2. /\ SubSeq(s, 0 + 1, m) \in Cells /\ Len(SubSeq(s, 0 + 1, m)) = m - 0
      /\ \A i \in 1 .. m - 0 : SubSeq(s, 0 + 1, m)[i] = s[0 + i]
  <2>1. PICK z \in Nat : z = 0
    OBVIOUS
  <2>2. z <= m
    BY <2>1
  <2>3. /\ SubSeq(s, z + 1, m) \in Cells /\ Len(SubSeq(s, z + 1, m)) = m - z
        /\ \A i \in 1 .. m - z : SubSeq(s, z + 1, m)[i] = s[z + i]
    BY <2>2, CellsPart
  <2> QED
    BY <2>1, <2>3
<1> DEFINE a == SubSeq(s, 1, m)
           b == SubSeq(s, m + 1, Len(s))
<1>3. a \in Cells /\ Len(a) = m /\ \A i \in 1 .. m : a[i] = s[i]
  <2>1. 0 + 1 = 1 /\ m - 0 = m /\ \A i \in 1 .. m : 0 + i = i
    OBVIOUS
  <2> QED
    BY <1>2, <2>1
<1>4. b \in Cells /\ Len(b) = Len(s) - m /\ \A i \in 1 .. Len(s) - m : b[i] = s[m + i]
  <2>1. PICK n \in Nat : n = Len(s)
    BY <1>1
  <2>2. m <= n /\ n <= Len(s)
    BY <2>1
  <2>3. /\ SubSeq(s, m + 1, n) \in Cells /\ Len(SubSeq(s, m + 1, n)) = n - m
        /\ \A i \in 1 .. n - m : SubSeq(s, m + 1, n)[i] = s[m + i]
    BY <2>2, CellsPart
  <2> QED
    BY <2>1, <2>3
<1> HIDE DEF a, b
<1>5. /\ a \o b \in Cells /\ Len(a \o b) = Len(a) + Len(b)
      /\ \A i \in 1 .. Len(a) : (a \o b)[i] = a[i]
      /\ \A i \in 1 .. Len(b) : (a \o b)[Len(a) + i] = b[i]
  BY <1>3, <1>4, CellsJoined
<1>6. Len(a \o b) = Len(s)
  BY <1>1, <1>3, <1>4, <1>5
<1>7. ASSUME NEW k \in 1 .. Len(a \o b)
      PROVE  (a \o b)[k] = s[k]
  <2>1. CASE k <= m
    <3>1. k \in 1 .. m
      BY <1>1, <1>6, <2>1
    <3> QED
      BY <1>3, <1>5, <3>1
  <2>2. CASE ~(k <= m)
    <3>1. PICK j \in 1 .. Len(s) - m : k = m + j
      <4>1. k - m \in 1 .. Len(s) - m /\ k = m + (k - m)
        BY <1>1, <1>6, <2>2
      <4> QED
        BY <4>1
    <3>2. (a \o b)[m + j] = b[j]
      BY <1>3, <1>4, <1>5
    <3> QED
      BY <1>4, <3>1, <3>2
  <2> QED
    BY <2>1, <2>2
<1>8. s = a \o b
  BY <1>5, <1>6, <1>7, SameCells
<1> QED
  BY <1>3, <1>4, <1>8 DEF a, b

\* The rest begins where the blocks end.
LEMMA Extend ==
    ASSUME NEW f \in Cells, NEW e \in Cells
    PROVE  /\ Rest(f) \in Cells /\ Len(Rest(f)) = Len(f) % Block
           /\ Whole(f) \in Seq(Cells)
           /\ Whole(f \o e) = Whole(f) \o Whole(Rest(f) \o e)
           /\ Rest(f \o e) = Rest(Rest(f) \o e)
<1>1. Block \in Nat /\ Block > 0 /\ Len(f) \in Nat
  BY Md5Assumption, CellsLen DEF Trailer
<1>2. PICK q, w \in Nat : w < Block /\ Len(f) = q * Block + w /\ w = Len(f) % Block
                             /\ q = Len(f) \div Block
  BY Lengths
<1>3. PICK m \in Nat : m = q * Block
  BY <1>1
<1>a. Len(f) = m + w
  BY <1>2, <1>3
<1>b. (Len(f) \div Block) * Block = m
  BY <1>2, <1>3
<1>4. m <= Len(f) /\ Rest(f) = SubSeq(f, m + 1, Len(f))
  BY <1>a, <1>b DEF Rest
<1> DEFINE h == SubSeq(f, 1, m)
<1>5. /\ h \in Cells /\ Len(h) = m /\ Rest(f) \in Cells /\ Len(Rest(f)) = Len(f) - m
      /\ f = h \o Rest(f)
  BY <1>4, CutAt
<1> HIDE DEF h
<1>6. Len(Rest(f)) = w
  BY <1>1, <1>a, <1>5
<1>7. Len(h) = q * Block
  BY <1>3, <1>5
<1>8. Whole(f) = Whole(h)
  <2>1. Whole(h \o Rest(f)) = Whole(h) \o Whole(Rest(f))
    BY <1>5, <1>7, WholeJoined
  <2>2. Whole(Rest(f)) = <<>>
    BY <1>2, <1>5, <1>6, Short
  <2>3. Whole(h) \in Seq(Cells)
    <3>1. PICK z \in Nat : z = 0
      OBVIOUS
    <3>2. Len(h) = q * Block + z /\ z < Block
      BY <1>1, <1>7, <3>1
    <3> QED
      BY <1>5, <3>2, WholeFacts
  <2>4. Whole(h) \o <<>> = Whole(h)
    BY <2>3
  <2> QED
    BY <1>5, <2>1, <2>2, <2>4
<1>9. Rest(f) \o e \in Cells
  BY <1>5, CellsJoined
<1>10. f \o e = h \o (Rest(f) \o e)
  <2>1. PICK r \in Cells : r = Rest(f)
    BY <1>5
  <2>2. (h \o r) \o e = h \o (r \o e)
    BY <1>5, Assoc
  <2>3. f = h \o r
    BY <1>5, <2>1
  <2> QED
    BY <2>1, <2>2, <2>3
<1>11. /\ Whole(h \o (Rest(f) \o e)) = Whole(h) \o Whole(Rest(f) \o e)
       /\ Rest(h \o (Rest(f) \o e)) = Rest(Rest(f) \o e)
  BY <1>5, <1>7, <1>9, WholeJoined
<1>12. Whole(f) \in Seq(Cells)
  BY <1>2, WholeFacts
<1> QED
  BY <1>2, <1>5, <1>6, <1>8, <1>10, <1>11, <1>12

-----------------------------------------------------------------------------
(* MD5_Update *)

\* A remainder stays when a multiple of the divisor is added.
LEMMA ModTimes ==
    ASSUME NEW b \in Nat, b > 0, NEW m \in Nat, NEW a \in Nat
    PROVE  (m * b + a) % b = a % b
<1>1. PICK q \in Nat, w \in Nat : q = a \div b /\ w = a % b /\ w < b /\ a = q * b + w
  BY DivMod
<1>2. PICK e \in Nat : e = m + q
  OBVIOUS
<1>3. e * b = m * b + q * b /\ m * b \in Nat /\ q * b \in Nat
  BY <1>2
<1>4. m * b + a = e * b + w
  BY <1>1, <1>3
<1>5. (e * b + w) % b = w
  BY <1>1, DivUnique
<1> QED
  BY <1>1, <1>4, <1>5

\* The low counter word says how much of a block is used.
LEMMA WordBlock ==
    ASSUME NEW n \in Nat
    PROVE  (n % Word) % Block = n % Block
<1>1. Block \in Nat /\ Block > 0 /\ Word \in Nat /\ Word > 0
  BY Md5Assumption DEF Trailer
<1>2. PICK z \in Nat : Word = z * Block
  <2>1. PICK q \in Nat, w \in Nat : w = Word % Block /\ Word = q * Block + w
    BY <1>1, DivMod
  <2>2. w = 0
    BY <2>1, Md5Assumption
  <2>3. Word = q * Block
    BY <1>1, <2>1, <2>2
  <2> QED
    BY <2>3
<1>3. PICK q \in Nat, w \in Nat : q = n \div Word /\ w = n % Word /\ n = q * Word + w
  BY <1>1, DivMod
<1>4. PICK m \in Nat : m = q * z
  OBVIOUS
<1>5. q * (z * Block) = (q * z) * Block
  BY <1>1
<1>6. n = m * Block + w
  BY <1>2, <1>3, <1>4, <1>5
<1>7. (m * Block + w) % Block = w % Block
  BY <1>1, ModTimes
<1> QED
  BY <1>3, <1>6, <1>7

\* The counter words of a message of n cells.
Low(n) == n % Word
High(n) == (n \div Word) % Word

\* The counter words are counted on with the carry.
LEMMA CountFacts ==
    ASSUME NEW n \in Nat, NEW len \in Nat
    PROVE  /\ (Low(n) + len) % Word = Low(n + len)
           /\ (High(n) + (IF (Low(n) + len) % Word < Low(n) THEN 1 ELSE 0)
                 + (len \div Word)) % Word = High(n + len)
<1>1. Word \in Nat /\ Word > 0
  BY Md5Assumption
<1>2. PICK q \in Nat, w \in Nat : q = n \div Word /\ w = n % Word /\ w < Word
                                  /\ n = q * Word + w
  BY <1>1, DivMod
<1>3. PICK p \in Nat, v \in Nat : p = len \div Word /\ v = len % Word /\ v < Word
                                  /\ len = p * Word + v
  BY <1>1, DivMod
<1>4. Low(n) = w /\ High(n) = q % Word
  BY <1>2 DEF Low, High
<1>5. (Low(n) + len) % Word = Low(n + len)
  BY <1>1, ModSum DEF Low
<1>6. PICK c \in {0, 1} : /\ n + len = (q + p + c) * Word + (w + v - c * Word)
                          /\ w + v - c * Word \in Nat /\ w + v - c * Word < Word
                          /\ (w + v - c * Word < w) <=> (c = 1)
  <2>1. (q + p + 0) * Word = q * Word + p * Word /\ (q + p + 1) * Word = q * Word + p * Word + Word
        /\ q * Word \in Nat /\ p * Word \in Nat
    BY <1>1
  <2>2. CASE w + v < Word
    <3>1. /\ n + len = (q + p + 0) * Word + (w + v - 0 * Word)
          /\ w + v - 0 * Word \in Nat /\ w + v - 0 * Word < Word
          /\ (w + v - 0 * Word < w) <=> (0 = 1)
      BY <1>1, <1>2, <1>3, <2>1, <2>2
    <3> QED
      BY <3>1
  <2>3. CASE ~(w + v < Word)
    <3>1. /\ n + len = (q + p + 1) * Word + (w + v - 1 * Word)
          /\ w + v - 1 * Word \in Nat /\ w + v - 1 * Word < Word
          /\ (w + v - 1 * Word < w) <=> (1 = 1)
      BY <1>1, <1>2, <1>3, <2>1, <2>3
    <3> QED
      BY <3>1
  <2> QED
    BY <2>2, <2>3
<1>7. PICK e \in Nat, r \in Nat : e = q + p + c /\ r = w + v - c * Word
  <2>1. q + p + c \in Nat
    OBVIOUS
  <2>2. w + v - c * Word \in Nat
    BY <1>6
  <2> QED
    BY <2>1, <2>2, Zenon
<1>8. n + len = e * Word + r /\ r < Word /\ ((r < w) <=> (c = 1))
  BY <1>6, <1>7
<1>9. (n + len) \div Word = e /\ (n + len) % Word = r
  <2>1. (e * Word + r) \div Word = e /\ (e * Word + r) % Word = r
    BY <1>1, <1>8, DivUnique
  <2> QED
    BY <1>8, <2>1
<1>10. (Low(n) + len) % Word = r
  BY <1>5, <1>9 DEF Low
<1>11. (IF (Low(n) + len) % Word < Low(n) THEN 1 ELSE 0) = c
  BY <1>4, <1>8, <1>10
<1>12. ((q % Word) + (c + p)) % Word = (q + (c + p)) % Word
  <2>1. c + p \in Nat
    OBVIOUS
  <2> QED
    BY <1>1, <2>1, ModSum
<1>13. q + (c + p) = e
  BY <1>7
<1>14. High(n + len) = e % Word
  BY <1>9 DEF High
<1>15. q % Word \in Nat
  BY <1>1
<1>16. High(n) + c + p = (q % Word) + (c + p)
  BY <1>4, <1>15
<1> QED
  BY <1>3, <1>5, <1>11, <1>12, <1>13, <1>14, <1>16

\* What memcpy leaves.
LEMMA CopyFacts ==
    ASSUME NEW in \in Cells, Len(in) = Block, NEW u \in Nat, NEW d \in Cells,
           u + Len(d) <= Block
    PROVE  /\ Copy(in, u, d) \in Cells /\ Len(Copy(in, u, d)) = Block
           /\ SubSeq(Copy(in, u, d), 1, u + Len(d)) = SubSeq(in, 1, u) \o d
           /\ u + Len(d) = Block => Copy(in, u, d) = SubSeq(in, 1, u) \o d
<1>1. Block \in Nat /\ Len(d) \in Nat /\ u <= Len(in)
  BY Md5Assumption, CellsLen
<1>2. PICK n \in Nat : n = u + Len(d)
  BY <1>1
<1>3. SubSeq(in, 1, u) \in Cells /\ Len(SubSeq(in, 1, u)) = u
  BY <1>1, CutAt
<1>4. SubSeq(in, n + 1, Len(in)) \in Cells /\ Len(SubSeq(in, n + 1, Len(in))) = Len(in) - n
  BY <1>1, <1>2, CutAt
<1> DEFINE a == SubSeq(in, 1, u) \o d
           z == SubSeq(in, n + 1, Block)
<1>5. a \in Cells /\ Len(a) = n
  BY <1>2, <1>3, CellsJoined
<1>6. z \in Cells /\ Len(z) = Block - n
  BY <1>4
<1>7. Copy(in, u, d) = a \o z
  BY <1>2 DEF Copy
<1> HIDE DEF a, z
<1>8. /\ a \o z \in Cells /\ Len(a \o z) = Len(a) + Len(z)
      /\ \A i \in 1 .. Len(a) : (a \o z)[i] = a[i]
  BY <1>5, <1>6, CellsJoined
<1>9. Len(a \o z) = Block
  BY <1>1, <1>2, <1>5, <1>6, <1>8
<1>10. SubSeq(a \o z, 1, n) = a
  <2>1. n <= Len(a \o z)
    BY <1>2, <1>9
  <2>2. /\ SubSeq(a \o z, 1, n) \in Cells /\ Len(SubSeq(a \o z, 1, n)) = n
        /\ \A i \in 1 .. n : SubSeq(a \o z, 1, n)[i] = (a \o z)[i]
    BY <1>8, <2>1, CutAt
  <2>3. \A i \in 1 .. n : SubSeq(a \o z, 1, n)[i] = a[i]
    BY <1>5, <1>8, <2>2
  <2> QED
    BY <1>5, <2>2, <2>3, SameCells
<1>11. ASSUME n = Block
       PROVE  a \o z = a
  <2>1. z = <<>>
    <3>1. z \in Seq(Int) /\ Len(z) = 0
      BY <1>1, <1>6, <1>11 DEF Cells
    <3> QED
      BY <3>1
  <2>2. a \in Seq(Int)
    BY <1>5 DEF Cells
  <2> QED
    BY <2>1, <2>2
<1> QED
  BY <1>2, <1>7, <1>8, <1>9, <1>10, <1>11 DEF a

\* Nothing in front of a message.
LEMMA NoneJoined ==
    ASSUME NEW s \in Cells, NEW t
    PROVE  <<>> \o s = s /\ s \o <<>> = s /\ SubSeq(t, 1, 0) = <<>>
<1>1. s \in Seq(Int)
  BY DEF Cells
<1>2. <<>> \o s = s /\ s \o <<>> = s
  BY <1>1, ConcatEmptySeq
<1> QED
  BY <1>2

\* The state of the digest after the message f: the full blocks are digested,
\* the rest lies in the buffer, and the counter is its length.
Digest(c, f) ==
    /\ f \in Cells
    /\ c \in [low : Nat, high : Nat, in : Cells, buf : Seq(Cells)]
    /\ c.low = Low(Len(f)) /\ c.high = High(Len(f)) /\ c.buf = Whole(f)
    /\ Len(c.in) = Block
    /\ SubSeq(c.in, 1, Len(f) % Block) = Rest(f)

\* Nothing is digested at first.
LEMMA DigestInit == Digest(MD5_Init, <<>>)
<1>1. Block \in Nat /\ Block > 0 /\ Word \in Nat /\ Word > 0
  BY Md5Assumption DEF Trailer
<1>2. <<>> \in Cells /\ Len(<<>>) = 0
  BY DEF Cells
<1>3. Whole(<<>>) = <<>> /\ Rest(<<>>) = <<>>
  BY <1>1, <1>2, Short
<1>4. 0 % Word = 0 /\ 0 \div Word = 0 /\ 0 % Block = 0
  BY <1>1
<1>5. Zeros(Block) \in Cells /\ Len(Zeros(Block)) = Block
  BY <1>1 DEF Zeros, Cells
<1>6. SubSeq(Zeros(Block), 1, 0) = <<>>
  OBVIOUS
<1>7. MD5_Init \in [low : Nat, high : Nat, in : Cells, buf : Seq(Cells)]
  BY <1>5 DEF MD5_Init
<1>8. MD5_Init.low = 0 /\ MD5_Init.high = 0 /\ MD5_Init.in = Zeros(Block) /\ MD5_Init.buf = <<>>
  BY DEF MD5_Init
<1>9. Low(0) = 0 /\ High(0) = 0
  BY <1>4 DEF Low, High
<1> QED
  BY <1>2, <1>3, <1>4, <1>5, <1>6, <1>7, <1>8, <1>9 DEF Digest

\* The parts of a digest.
LEMMA DigestFacts ==
    ASSUME NEW c, NEW f, Digest(c, f)
    PROVE  /\ f \in Cells /\ Len(f) \in Nat
           /\ c.low = Low(Len(f)) /\ c.high = High(Len(f)) /\ c.buf = Whole(f)
           /\ c.in \in Cells /\ Len(c.in) = Block
           /\ c.low % Block = Len(f) % Block /\ Len(f) % Block \in Nat
           /\ Len(f) % Block < Block /\ Len(Rest(f)) = Len(f) % Block
           /\ SubSeq(c.in, 1, Len(f) % Block) = Rest(f)
           /\ Rest(f) \in Cells /\ Whole(f) \in Seq(Cells)
<1>1. f \in Cells /\ Len(f) \in Nat
  BY CellsLen DEF Digest
<1>2. c.low = Low(Len(f)) /\ c.high = High(Len(f)) /\ c.buf = Whole(f)
  BY DEF Digest
<1>3. c.low % Block = Len(f) % Block
  BY <1>1, <1>2, WordBlock DEF Low
<1>4. Len(f) % Block \in Nat /\ Len(f) % Block < Block
  BY <1>1, Md5Assumption DEF Trailer
<1>5. Rest(f) \in Cells /\ Len(Rest(f)) = Len(f) % Block /\ Whole(f) \in Seq(Cells)
  BY <1>1, Extend DEF Cells
<1> QED
  BY <1>1, <1>2, <1>3, <1>4, <1>5 DEF Digest

\* The counter words are numbers.
LEMMA CounterType ==
    ASSUME NEW n \in Nat
    PROVE  Low(n) \in 0 .. Word - 1 /\ High(n) \in 0 .. Word - 1
<1>1. Word \in Nat /\ Word > 0
  BY Md5Assumption
<1>2. n % Word \in 0 .. Word - 1 /\ n \div Word \in Nat
  BY <1>1
<1>3. (n \div Word) % Word \in 0 .. Word - 1
  BY <1>1, <1>2
<1> QED
  BY <1>2, <1>3 DEF Low, High

\* Whatever follows: blocks, rest and counter.
LEMMA DigestNext ==
    ASSUME NEW c, NEW f, Digest(c, f), NEW d \in Cells, NEW in \in Cells,
           Len(in) = Block, NEW e \in Cells, NEW b, NEW r \in Cells,
           Rest(f) \o d = e, b = Whole(e), r = Rest(e),
           SubSeq(in, 1, Len(r)) = r
    PROVE  Digest(Absorb(c, Len(d), b, in), f \o d)
<1>1. /\ f \in Cells /\ Len(f) \in Nat /\ Rest(f) \in Cells
      /\ c.low = Low(Len(f)) /\ c.high = High(Len(f)) /\ c.buf = Whole(f)
  BY DigestFacts
<1>2. Len(d) \in Nat
  BY CellsLen
<1>3. c \in [low : Nat, high : Nat, in : Cells, buf : Seq(Cells)]
  BY DEF Digest
<1>4. f \o d \in Cells /\ Len(f \o d) = Len(f) + Len(d)
  BY <1>1, CellsJoined
<1>5. /\ (Low(Len(f)) + Len(d)) % Word = Low(Len(f) + Len(d))
      /\ (High(Len(f)) + (IF (Low(Len(f)) + Len(d)) % Word < Low(Len(f)) THEN 1 ELSE 0)
              + (Len(d) \div Word)) % Word = High(Len(f) + Len(d))
  BY <1>1, <1>2, CountFacts
<1>6. PICK l \in Nat, h \in Nat : l = Low(Len(f) + Len(d)) /\ h = High(Len(f) + Len(d))
  <2>1. Len(f) + Len(d) \in Nat
    BY <1>1, <1>2
  <2> QED
    BY <2>1, CounterType
<1>7. Count(c, Len(d)) = [c EXCEPT !.low = l, !.high = h]
  <2>1. Count(c, Len(d)) =
          [c EXCEPT !.low = (c.low + Len(d)) % Word,
                    !.high = (c.high + (IF (c.low + Len(d)) % Word < c.low THEN 1 ELSE 0)
                                + (Len(d) \div Word)) % Word]
    BY DEF Count
  <2> QED
    BY <1>1, <1>5, <1>6, <2>1
<1>8. /\ Count(c, Len(d)) \in [low : Nat, high : Nat, in : Cells, buf : Seq(Cells)]
      /\ Count(c, Len(d)).low = l /\ Count(c, Len(d)).high = h
  BY <1>3, <1>7
<1>9. Whole(f \o d) = Whole(f) \o b /\ Rest(f \o d) = r
  BY <1>1, Extend
<1>10. Len(Rest(f \o d)) = Len(f \o d) % Block /\ Whole(f \o d) \in Seq(Cells)
  BY <1>4, Extend DEF Cells
<1> DEFINE n == Absorb(c, Len(d), b, in)
<1>11. /\ n \in [low : Nat, high : Nat, in : Cells, buf : Seq(Cells)]
       /\ n.low = l /\ n.high = h /\ n.in = in /\ n.buf = Whole(f) \o b
  <2>1. PICK k \in [low : Nat, high : Nat, in : Cells, buf : Seq(Cells)] :
           k = Count(c, Len(d)) /\ k.low = l /\ k.high = h
    BY <1>8
  <2>2. PICK w \in Seq(Cells) : w = Whole(f) \o b
    BY <1>9, <1>10
  <2>3. n = [k EXCEPT !.buf = w, !.in = in]
    BY <1>1, <2>1, <2>2 DEF Absorb
  <2> HIDE DEF n
  <2> QED
    BY <2>1, <2>2, <2>3
<1> HIDE DEF n
<1>12. Digest(n, f \o d)
  BY <1>4, <1>6, <1>9, <1>10, <1>11 DEF Digest
<1> QED
  BY <1>12 DEF n

\* MD5_Update goes from one digest to the next.
LEMMA DigestUpdate ==
    ASSUME NEW c, NEW f, Digest(c, f), NEW d \in Cells
    PROVE  Digest(MD5_Update(c, d), f \o d)
<1>1. /\ f \in Cells /\ Len(f) \in Nat /\ c.buf = Whole(f)
      /\ c.in \in Cells /\ Len(c.in) = Block /\ Whole(f) \in Seq(Cells)
  BY DigestFacts
<1>2. PICK u \in Nat : /\ u = Len(f) % Block /\ u < Block /\ c.low % Block = u
                       /\ SubSeq(c.in, 1, u) = Rest(f) /\ Len(Rest(f)) = u
  BY DigestFacts
<1>3. PICK r \in Cells : r = Rest(f)
  BY DigestFacts
<1>4. Len(d) \in Nat /\ Block \in Nat
  BY CellsLen, Md5Assumption
<1>5. PICK e \in Cells : e = r \o d /\ Len(e) = u + Len(d)
  <2>1. r \o d \in Cells /\ Len(r \o d) = Len(r) + Len(d)
    BY CellsJoined
  <2>2. Len(r) = u
    BY <1>2, <1>3
  <2> QED
    BY <2>1, <2>2
<1>10. CASE u > 0 /\ Len(d) < Block - u
  <2>1. MD5_Update(c, d) = Absorb(c, Len(d), <<>>, Copy(c.in, u, d))
    BY <1>2, <1>10 DEF MD5_Update
  <2>2. u + Len(d) <= Block /\ Len(e) < Block
    BY <1>4, <1>5, <1>10
  <2>3. Whole(e) = <<>> /\ Rest(e) = e
    BY <2>2, Short
  <2>4. /\ Copy(c.in, u, d) \in Cells /\ Len(Copy(c.in, u, d)) = Block
        /\ SubSeq(Copy(c.in, u, d), 1, u + Len(d)) = SubSeq(c.in, 1, u) \o d
    BY <1>1, <2>2, CopyFacts
  <2>5. PICK in \in Cells : /\ in = Copy(c.in, u, d) /\ Len(in) = Block
                            /\ SubSeq(in, 1, Len(e)) = e
    BY <1>2, <1>3, <1>5, <2>4
  <2>6. Digest(Absorb(c, Len(d), Whole(e), in), f \o d)
    BY <1>3, <1>5, <2>3, <2>5, DigestNext
  <2> QED
    BY <2>1, <2>3, <2>5, <2>6
<1>11. CASE u = 0
  <2>1. r = <<>> /\ e = d
    <3>1. r \in Seq(Int) /\ Len(r) = 0 /\ d \in Seq(Int)
      BY <1>2, <1>3, <1>11 DEF Cells
    <3>2. r = <<>>
      BY <3>1
    <3> QED
      BY <1>5, <3>1, <3>2
  <2>2. SubSeq(d, 0 + 1, Len(d)) = d
    <3>1. d \in Seq(Int)
      BY DEF Cells
    <3> QED
      BY <3>1
  <2>3. PICK t \in Cells : t = Rest(d) /\ Len(t) < Block
    <3>1. Rest(d) \in Cells /\ Len(Rest(d)) = Len(d) % Block
      BY Extend DEF Cells
    <3>2. Len(d) % Block < Block
      BY <1>4, Md5Assumption DEF Trailer
    <3> QED
      BY <3>1, <3>2
  <2>4. PICK in \in Cells : /\ in = Copy(c.in, 0, t) /\ Len(in) = Block
                            /\ SubSeq(in, 1, Len(t)) = t
    <3>1. PICK z \in Nat : z = 0
      OBVIOUS
    <3>2. z + Len(t) <= Block /\ z + Len(t) = Len(t)
      BY <1>4, <2>3, <3>1, CellsLen
    <3>3. /\ Copy(c.in, z, t) \in Cells /\ Len(Copy(c.in, z, t)) = Block
          /\ SubSeq(Copy(c.in, z, t), 1, z + Len(t)) = SubSeq(c.in, 1, z) \o t
      BY <1>1, <3>2, CopyFacts
    <3>4. SubSeq(c.in, 1, z) \o t = t
      BY <3>1, NoneJoined
    <3> QED
      BY <3>1, <3>2, <3>3, <3>4
  <2>5. Digest(Absorb(c, Len(d), Whole(e), in), f \o d)
    BY <1>3, <1>5, <2>1, <2>3, <2>4, DigestNext
  <2>6. MD5_Update(c, d) = Absorb(c, Len(d), <<>> \o Whole(d), Copy(c.in, 0, Rest(d)))
    <3>1. c.low % Block = 0 /\ ~(0 > 0)
      BY <1>2, <1>11
    <3>2. MD5_Update(c, d) =
            LET g == SubSeq(d, 0 + 1, Len(d))
            IN  Absorb(c, Len(d), <<>> \o Whole(g), Copy(c.in, 0, Rest(g)))
      BY <3>1, Zenon DEF MD5_Update
    <3> QED
      BY <2>2, <3>2
  <2>7. <<>> \o Whole(d) = Whole(d)
    <3>1. Whole(d) \in Seq(Cells)
      BY Extend DEF Cells
    <3> QED
      BY <3>1, ConcatEmptySeq
  <2> QED
    BY <2>1, <2>3, <2>4, <2>5, <2>6, <2>7
<1>12. CASE u > 0 /\ ~(Len(d) < Block - u)
  <2>1. PICK m \in Nat : m = Block - u /\ m <= Len(d)
    BY <1>2, <1>4, <1>12
  <2> DEFINE d1 == SubSeq(d, 1, m)
             t == SubSeq(d, m + 1, Len(d))
  <2>2. d1 \in Cells /\ Len(d1) = m /\ t \in Cells /\ d = d1 \o t
    BY <2>1, CutAt
  <2>3. MD5_Update(c, d) =
          Absorb(c, Len(d), <<Copy(c.in, u, d1)>> \o Whole(t), Copy(c.in, 0, Rest(t)))
    BY <1>2, <1>12, <2>1 DEF MD5_Update
  <2> HIDE DEF d1, t
  <2>4. PICK x \in Cells : x = Copy(c.in, u, d1) /\ Len(x) = Block /\ x = r \o d1
    <3>1. u + Len(d1) = Block
      BY <1>4, <2>1, <2>2
    <3>2. u + Len(d1) <= Block
      BY <1>4, <3>1
    <3>3. /\ Copy(c.in, u, d1) \in Cells /\ Len(Copy(c.in, u, d1)) = Block
          /\ u + Len(d1) = Block => Copy(c.in, u, d1) = SubSeq(c.in, 1, u) \o d1
      <4>1. d1 \in Cells
        BY <2>2
      <4> QED
        BY <1>1, <3>2, <4>1, CopyFacts
    <3> QED
      BY <1>2, <1>3, <3>1, <3>3
  <2>5. e = x \o t
    <3>a. d1 \in Cells /\ t \in Cells
      BY <2>2
    <3>1. (r \o d1) \o t = r \o (d1 \o t)
      BY <3>a, Assoc
    <3> QED
      BY <1>5, <2>2, <2>4, <3>1
  <2>6. Whole(e) = <<x>> \o Whole(t) /\ Rest(e) = Rest(t)
    <3>1. PICK o \in Nat : o = 1
      OBVIOUS
    <3>2. Len(x) = o * Block
      BY <1>4, <2>4, <3>1
    <3>3. Whole(x \o t) = Whole(x) \o Whole(t) /\ Rest(x \o t) = Rest(t)
      BY <2>2, <3>2, WholeJoined
    <3>4. Whole(x) = <<x>>
      BY <2>4, Single
    <3> QED
      BY <2>5, <3>3, <3>4
  <2>7. PICK v \in Cells : v = Rest(t) /\ Len(v) < Block
    <3>1. Rest(t) \in Cells /\ Len(Rest(t)) = Len(t) % Block
      BY <2>2, Extend
    <3>2. Len(t) % Block < Block
      BY <2>2, CellsLen, Md5Assumption DEF Trailer
    <3> QED
      BY <3>1, <3>2
  <2>8. PICK in \in Cells : /\ in = Copy(c.in, 0, v) /\ Len(in) = Block
                            /\ SubSeq(in, 1, Len(v)) = v
    <3>1. PICK z \in Nat : z = 0
      OBVIOUS
    <3>2. z + Len(v) <= Block /\ z + Len(v) = Len(v)
      BY <1>4, <2>7, <3>1, CellsLen
    <3>3. /\ Copy(c.in, z, v) \in Cells /\ Len(Copy(c.in, z, v)) = Block
          /\ SubSeq(Copy(c.in, z, v), 1, z + Len(v)) = SubSeq(c.in, 1, z) \o v
      <4>1. c.in \in Cells /\ Len(c.in) = Block /\ z + Len(v) <= Block
        BY <1>1, <3>2
      <4> QED
        BY <4>1, CopyFacts
    <3>4. SubSeq(c.in, 1, z) \o v = v
      BY <3>1, NoneJoined
    <3> QED
      BY <3>1, <3>2, <3>3, <3>4
  <2>9. Digest(Absorb(c, Len(d), Whole(e), in), f \o d)
    BY <1>3, <1>5, <2>6, <2>7, <2>8, DigestNext
  <2> QED
    BY <2>3, <2>4, <2>6, <2>7, <2>8, <2>9
<1> QED
  BY <1>2, <1>4, <1>10, <1>11, <1>12

-----------------------------------------------------------------------------
(* MD5_Final *)

\* A copy to the end of the buffer.
LEMMA CopyFull ==
    ASSUME NEW in \in Cells, Len(in) = Block, NEW u \in Nat, NEW d \in Cells,
           u + Len(d) = Block
    PROVE  Copy(in, u, d) = SubSeq(in, 1, u) \o d
<1>1. u + Len(d) <= Block
  BY Md5Assumption
<1> QED
  BY <1>1, CopyFacts

\* Two blocks.
LEMMA TwoBlocks ==
    ASSUME NEW x \in Cells, NEW y \in Cells
    PROVE  <<x>> \o <<y>> = <<x, y>>
<1>1. <<x>> \in Seq(Cells) /\ Len(<<x>>) = 1 /\ <<x>>[1] = x
  OBVIOUS
<1>2. <<y>> \in Seq(Cells) /\ Len(<<y>>) = 1 /\ <<y>>[1] = y
  OBVIOUS
<1>3. <<x, y>> \in Seq(Cells) /\ Len(<<x, y>>) = 2 /\ <<x, y>>[1] = x /\ <<x, y>>[2] = y
  OBVIOUS
<1>4. PICK a \in Seq(Cells), b \in Seq(Cells), c \in Seq(Cells) :
         a = <<x>> /\ b = <<y>> /\ c = <<x, y>>
  BY <1>1, <1>2, <1>3
<1>5. /\ a \o b \in Seq(Cells) /\ Len(a \o b) = Len(a) + Len(b)
      /\ \A i \in 1 .. Len(a) : (a \o b)[i] = a[i]
      /\ \A i \in 1 .. Len(b) : (a \o b)[Len(a) + i] = b[i]
  BY BlocksJoined
<1>6. Len(a) = 1 /\ Len(b) = 1 /\ a[1] = x /\ b[1] = y
  BY <1>1, <1>2, <1>4
<1>7. Len(a \o b) = 2 /\ (a \o b)[1] = x /\ (a \o b)[1 + 1] = y
  <2>1. 1 \in 1 .. 1
    OBVIOUS
  <2> QED
    BY <1>5, <1>6, <2>1
<1>8. Len(c) = 2 /\ c[1] = x /\ c[2] = y
  BY <1>3, <1>4
<1>9. \A i \in 1 .. Len(a \o b) : (a \o b)[i] = c[i]
  <2>1. \A i \in 1 .. 2 : i = 1 \/ i = 1 + 1
    OBVIOUS
  <2>2. 1 + 1 = 2
    OBVIOUS
  <2> QED
    BY <1>7, <1>8, <2>1, <2>2
<1>10. a \o b = c
  BY <1>5, <1>7, <1>8, <1>9, SameSeq
<1> QED
  BY <1>4, <1>10

\* A run of zeros is a message, and can be made in two parts.
LEMMA ZerosFacts ==
    ASSUME NEW n \in Nat, NEW m \in Nat
    PROVE  /\ Zeros(n) \in Cells /\ Len(Zeros(n)) = n
           /\ Zeros(n + m) = Zeros(n) \o Zeros(m)
<1>1. \A k \in Nat : Zeros(k) \in Cells /\ Len(Zeros(k)) = k
                     /\ \A i \in 1 .. k : Zeros(k)[i] = 0
  BY DEF Zeros, Cells
<1>2. PICK e \in Nat : e = n + m
  OBVIOUS
<1>3. /\ Zeros(n) \o Zeros(m) \in Cells
      /\ Len(Zeros(n) \o Zeros(m)) = Len(Zeros(n)) + Len(Zeros(m))
      /\ \A i \in 1 .. Len(Zeros(n)) : (Zeros(n) \o Zeros(m))[i] = Zeros(n)[i]
      /\ \A i \in 1 .. Len(Zeros(m)) : (Zeros(n) \o Zeros(m))[Len(Zeros(n)) + i] = Zeros(m)[i]
  BY <1>1, CellsJoined
<1> DEFINE j == Zeros(n) \o Zeros(m)
<1>4. /\ j \in Cells /\ Len(j) = e
      /\ \A i \in 1 .. n : j[i] = Zeros(n)[i]
      /\ \A i \in 1 .. m : j[n + i] = Zeros(m)[i]
  BY <1>1, <1>2, <1>3
<1> HIDE DEF j
<1>5. ASSUME NEW k \in 1 .. e
      PROVE  j[k] = 0
  <2>1. CASE k <= n
    <3>1. k \in 1 .. n
      BY <2>1
    <3> QED
      BY <1>1, <1>4, <3>1
  <2>2. CASE ~(k <= n)
    <3>1. PICK i \in 1 .. m : k = n + i
      <4>1. k - n \in 1 .. m /\ k = n + (k - n)
        BY <1>2, <2>2
      <4> QED
        BY <4>1
    <3> QED
      BY <1>1, <1>4, <3>1
  <2> QED
    BY <2>1, <2>2
<1>6. Zeros(e) \in Cells /\ Len(Zeros(e)) = Len(j) /\ \A i \in 1 .. Len(Zeros(e)) : Zeros(e)[i] = j[i]
  BY <1>1, <1>4, <1>5
<1>7. Zeros(e) = j
  BY <1>4, <1>6, SameCells
<1> QED
  BY <1>1, <1>2, <1>7 DEF j

\* The digest of a message does not depend on the chunks it came in.
LEMMA DigestFinal ==
    ASSUME NEW c, NEW f, Digest(c, f)
    PROVE  MD5_Final(c) = Reference(f)
<1>1. /\ f \in Cells /\ Len(f) \in Nat /\ c.buf = Whole(f)
      /\ c.in \in Cells /\ Len(c.in) = Block /\ Whole(f) \in Seq(Cells)
      /\ c.low = Low(Len(f)) /\ c.high = High(Len(f))
  BY DigestFacts
<1>2. PICK u \in Nat : /\ u = Len(f) % Block /\ u < Block /\ c.low % Block = u
                       /\ SubSeq(c.in, 1, u) = Rest(f) /\ Len(Rest(f)) = u
  BY DigestFacts
<1>3. PICK r : r \in Cells /\ r = Rest(f)
  BY DigestFacts
<1>4. Block \in Nat /\ Block > 2 /\ Trailer = 2
  BY Md5Assumption DEF Trailer
<1>5. PICK low \in Nat, high \in Nat : low = c.low /\ high = c.high
  BY <1>1, CounterType
<1>6. PICK cnt : cnt \in Cells /\ cnt = <<low, high>> /\ Len(cnt) = 2
  <2>1. <<low, high>> \in Seq(Int) /\ Len(<<low, high>>) = 2
    OBVIOUS
  <2> QED
    BY <2>1 DEF Cells
<1>7. PICK mark : mark \in Cells /\ mark = <<128>> /\ Len(mark) = 1
  <2>1. <<128>> \in Seq(Int) /\ Len(<<128>>) = 1
    OBVIOUS
  <2> QED
    BY <2>1 DEF Cells
<1>8. PICK in1 : /\ in1 \in Cells /\ in1 = Copy(c.in, u, <<128>>) /\ Len(in1) = Block
                           /\ SubSeq(in1, 1, u + 1) = r \o mark
  <2>1. u + Len(mark) <= Block /\ u + Len(mark) = u + 1
    BY <1>2, <1>4, <1>7
  <2>2. /\ Copy(c.in, u, mark) \in Cells /\ Len(Copy(c.in, u, mark)) = Block
        /\ SubSeq(Copy(c.in, u, mark), 1, u + Len(mark)) = SubSeq(c.in, 1, u) \o mark
    <3>1. mark \in Cells /\ c.in \in Cells /\ Len(c.in) = Block /\ u + Len(mark) <= Block
      BY <1>1, <1>7, <2>1
    <3> QED
      BY <3>1, CopyFacts
  <2> QED
    BY <1>2, <1>3, <1>7, <2>1, <2>2
<1>9. PICK z \in Nat : z = (2 * Block - 1 - Trailer - u) % Block
  <2>1. 2 * Block - 1 - Trailer - u \in Nat
    BY <1>2, <1>4
  <2> QED
    BY <1>4, <2>1
<1>10. PICK a : a \in Cells /\ a = r \o mark /\ Len(a) = u + 1
  <2>1. r \o mark \in Cells /\ Len(r \o mark) = Len(r) + Len(mark)
    BY <1>3, <1>7, CellsJoined
  <2> QED
    BY <1>2, <1>3, <1>7, <2>1
<1>11. PICK o : o \in Cells /\ o = Zeros(z) /\ Len(o) = z
  BY ZerosFacts
<1>12. Reference(f) = Whole(f) \o Whole((a \o o) \o cnt)
  <2>1. Reference(f) = Whole(((f \o mark) \o o) \o cnt)
    <3>1. Reference(f) = Whole(f \o <<128>> \o Zeros(z)
                                 \o <<Len(f) % Word, (Len(f) \div Word) % Word>>)
      BY <1>2, <1>9, Zenon DEF Reference
    <3>2. cnt = <<Len(f) % Word, (Len(f) \div Word) % Word>>
      BY <1>1, <1>5, <1>6 DEF Low, High
    <3> QED
      BY <1>7, <1>11, <3>1, <3>2
  <2>2. PICK e : e \in Cells /\ e = (mark \o o) \o cnt
    <3>1. mark \o o \in Cells
      BY <1>7, <1>11, CellsJoined
    <3>2. (mark \o o) \o cnt \in Cells
      BY <1>6, <3>1, CellsJoined
    <3> QED
      BY <3>2
  <2>3. ASSUME NEW x \in Cells
        PROVE  ((x \o mark) \o o) \o cnt = x \o e
    <3>1. (x \o mark) \o o = x \o (mark \o o)
      BY Assoc
    <3>2. PICK y : y \in Cells /\ y = mark \o o
      BY <1>7, <1>11, CellsJoined
    <3>3. (x \o y) \o cnt = x \o (y \o cnt)
      BY Assoc
    <3> QED
      BY <2>2, <3>1, <3>2, <3>3
  <2>4. Whole(f \o e) = Whole(f) \o Whole(Rest(f) \o e)
    BY <1>1, <2>2, Extend
  <2>5. ((f \o mark) \o o) \o cnt = f \o e
    BY <1>1, <2>3
  <2>6. ((r \o mark) \o o) \o cnt = r \o e
    BY <1>3, <2>3
  <2> QED
    BY <1>3, <1>10, <2>1, <2>4, <2>5, <2>6
<1>13. PICK n \in Nat : n = Block - 1 - u
  BY <1>2, <1>4
<1>14. /\ MD5_Final(c) =
            IF n < 2
            THEN Whole(f) \o << Copy(in1, u + 1, Zeros(n)), Zeros(Block - 2) \o cnt >>
            ELSE Append(Whole(f), Copy(Copy(in1, u + 1, Zeros(n - 2)), Block - 2, cnt))
  <2>1. MD5_Final(c) =
            IF Block - 1 - u < Trailer
            THEN c.buf \o << Copy(Copy(c.in, u, <<128>>), u + 1, Zeros(Block - 1 - u)),
                           Zeros(Block - Trailer) \o <<c.low, c.high>> >>
            ELSE Append(c.buf, Copy(Copy(Copy(c.in, u, <<128>>), u + 1,
                                         Zeros(Block - 1 - u - Trailer)),
                                    Block - Trailer, <<c.low, c.high>>))
    BY <1>2, Zenon DEF MD5_Final
  <2> QED
    BY <1>1, <1>4, <1>5, <1>6, <1>8, <1>13, <2>1
<1>15. CASE n < 2
  <2>1. z = n + (Block - 2) /\ Block - 2 \in Nat
    <3>1. 2 * Block - 1 - Trailer - u = n + (Block - 2) /\ n + (Block - 2) \in 0 .. Block - 1
      BY <1>2, <1>4, <1>13, <1>15
    <3>2. \A y \in 0 .. Block - 1 : y % Block = y
      BY <1>4
    <3> QED
      BY <1>4, <1>9, <3>1, <3>2
  <2>2. PICK m \in Nat : m = Block - 2
    BY <2>1
  <2>3. PICK zn, zm :
          /\ zn \in Cells /\ zm \in Cells /\ zn = Zeros(n) /\ Len(zn) = n /\ Zeros(n + m) = zn \o zm
          /\ zm = Zeros(m) /\ Len(zm) = m
    BY ZerosFacts
  <2>4. PICK t1 : t1 \in Cells /\ t1 = a \o zn /\ Len(t1) = Block
    <3>1. a \o zn \in Cells /\ Len(a \o zn) = Len(a) + Len(zn)
      BY <1>10, <2>3, CellsJoined
    <3>2. Len(a) + Len(zn) = Block
      BY <1>4, <1>10, <1>13, <2>3
    <3> QED
      BY <3>1, <3>2
  <2>5. PICK t2 : t2 \in Cells /\ t2 = zm \o cnt /\ Len(t2) = Block
    <3>1. zm \o cnt \in Cells /\ Len(zm \o cnt) = Len(zm) + Len(cnt)
      BY <1>6, <2>3, CellsJoined
    <3>2. Len(zm) + Len(cnt) = Block
      BY <1>4, <1>6, <2>2, <2>3
    <3> QED
      BY <3>1, <3>2
  <2>6. Copy(in1, u + 1, Zeros(n)) = t1
    <3>1. PICK v \in Nat : v = u + 1
      OBVIOUS
    <3>2. v + Len(zn) = Block /\ Len(in1) = Block
      BY <1>4, <1>8, <1>13, <2>3, <3>1
    <3>3. Copy(in1, v, zn) = SubSeq(in1, 1, v) \o zn
      <4>1. in1 \in Cells /\ zn \in Cells
        BY <1>8, <2>3
      <4> QED
        BY <3>2, <4>1, CopyFull
    <3> QED
      BY <1>8, <1>10, <2>3, <2>4, <3>1, <3>3
  <2>7. (a \o o) \o cnt = t1 \o t2
    <3>1. o = zn \o zm
      BY <1>11, <2>1, <2>2, <2>3
    <3>2. (a \o zn) \o zm = a \o (zn \o zm)
      BY Assoc
    <3>3. (t1 \o zm) \o cnt = t1 \o (zm \o cnt)
      BY Assoc
    <3> QED
      BY <2>4, <2>5, <3>1, <3>2, <3>3
  <2>8. Whole(t1 \o t2) = <<t1>> \o <<t2>>
    <3>1. PICK i \in Nat : i = 1
      OBVIOUS
    <3>2. Len(t1) = i * Block
      BY <1>4, <2>4, <3>1
    <3>3. Whole(t1 \o t2) = Whole(t1) \o Whole(t2)
      BY <2>4, <2>5, <3>2, WholeJoined
    <3> QED
      BY <2>4, <2>5, <3>3, Single
  <2>9. <<t1>> \o <<t2>> = <<t1, t2>>
    BY <2>4, <2>5, TwoBlocks
  <2>10. MD5_Final(c) = Whole(f) \o <<t1, t2>>
    BY <1>14, <1>15, <2>2, <2>3, <2>5, <2>6
  <2> QED
    BY <1>12, <2>7, <2>8, <2>9, <2>10
<1>16. CASE ~(n < 2)
  <2>1. PICK m \in Nat : m = n - 2
    BY <1>13, <1>16
  <2>2. z = m
    <3>1. 2 * Block - 1 - Trailer - u = 1 * Block + m /\ m < Block
      BY <1>2, <1>4, <1>13, <1>16, <2>1
    <3>2. PICK i \in Nat : i = 1
      OBVIOUS
    <3>3. (i * Block + m) % Block = m
      BY <1>4, <3>1, DivUnique
    <3> QED
      BY <1>9, <3>1, <3>2, <3>3
  <2>3. PICK t : t \in Cells /\ t = (a \o o) \o cnt /\ Len(t) = Block
    <3>1. a \o o \in Cells /\ Len(a \o o) = Len(a) + Len(o)
      BY <1>10, <1>11, CellsJoined
    <3>2. (a \o o) \o cnt \in Cells /\ Len((a \o o) \o cnt) = Len(a \o o) + Len(cnt)
      BY <1>6, <3>1, CellsJoined
    <3>3. Len((a \o o) \o cnt) = Block
      <4>1. Len((a \o o) \o cnt) = ((u + 1) + m) + 2
        BY <1>6, <1>10, <1>11, <2>2, <3>1, <3>2
      <4>2. ((u + 1) + m) + 2 = Block
        BY <1>4, <1>13, <2>1
      <4> QED
        BY <4>1, <4>2
    <3> QED
      BY <3>2, <3>3
  <2>4. PICK v \in Nat : v = u + 1
    OBVIOUS
  <2>5. PICK g \in Nat : g = Block - 2 /\ v + Len(o) = g
    BY <1>4, <1>11, <1>13, <2>1, <2>2, <2>4
  <2>6. PICK in2 : /\ in2 \in Cells /\ in2 = Copy(in1, v, o) /\ Len(in2) = Block
                             /\ SubSeq(in2, 1, g) = a \o o
    <3>1. v + Len(o) <= Block
      BY <1>4, <2>5
    <3>2. /\ Copy(in1, v, o) \in Cells /\ Len(Copy(in1, v, o)) = Block
          /\ SubSeq(Copy(in1, v, o), 1, v + Len(o)) = SubSeq(in1, 1, v) \o o
      <4>1. in1 \in Cells /\ o \in Cells /\ Len(in1) = Block
        BY <1>8, <1>11
      <4> QED
        BY <3>1, <4>1, CopyFacts
    <3> QED
      BY <1>8, <1>10, <2>4, <2>5, <3>2
  <2>7. Copy(in2, g, cnt) = t
    <3>1. g + Len(cnt) = Block /\ Len(in2) = Block
      BY <1>4, <1>6, <2>5, <2>6
    <3>2. Copy(in2, g, cnt) = SubSeq(in2, 1, g) \o cnt
      BY <1>6, <2>6, <3>1, CopyFull
    <3> QED
      BY <2>3, <2>6, <3>1, <3>2
  <2>8. MD5_Final(c) = Append(Whole(f), t)
    BY <1>11, <1>14, <1>16, <2>1, <2>2, <2>4, <2>5, <2>6, <2>7
  <2>9. Append(Whole(f), t) = Whole(f) \o <<t>>
    BY <1>1
  <2>10. Whole(t) = <<t>>
    BY <2>3, Single
  <2> QED
    BY <1>12, <2>3, <2>8, <2>9, <2>10
<1> QED
  BY <1>15, <1>16

-----------------------------------------------------------------------------
(* The digest of a message is that of no other *)

\* Two numbers less than b apart with the same remainder.
LEMMA SameMod ==
    ASSUME NEW b \in Nat, b > 0, NEW x \in Nat, NEW y \in Nat, x % b = y % b, x < y
    PROVE  y >= x + b
<1>1. PICK q \in Nat, w \in Nat : w = x % b /\ x = q * b + w
  BY DivMod
<1>2. PICK p \in Nat, v \in Nat : v = y % b /\ y = p * b + v
  BY DivMod
<1>3. v = w
  BY <1>1, <1>2
<1>4. q * b \in Nat /\ p * b \in Nat
  OBVIOUS
<1>5. q < p
  <2>1. CASE p <= q
    <3>1. p * b <= q * b
      BY <2>1, Times
    <3> QED
      BY <1>1, <1>2, <1>3, <1>4, <3>1
  <2> QED
    BY <2>1
<1>6. q + 1 \in Nat /\ q + 1 <= p
  BY <1>5
<1>7. (q + 1) * b <= p * b
  BY <1>6, Times
<1>8. (q + 1) * b = q * b + b
  OBVIOUS
<1> QED
  BY <1>1, <1>2, <1>3, <1>4, <1>7, <1>8

\* The message with its padding.
LEMMA Padded ==
    ASSUME NEW f \in Cells
    PROVE  \E x \in Cells, p \in Nat :
              /\ Reference(f) = Whole(x) /\ Len(x) = p * Block /\ p > 0
              /\ Len(f) + 3 <= Len(x) /\ Len(x) < Len(f) + 3 + Block
              /\ \A k \in 1 .. Len(f) : x[k] = f[k]
              /\ x[Len(x) - 1] = Low(Len(f))
<1>1. Block \in Nat /\ Block > 2 /\ Trailer = 2
  BY Md5Assumption DEF Trailer
<1>2. PICK q, u \in Nat : u < Block /\ Len(f) = q * Block + u /\ u = Len(f) % Block
  BY Lengths
<1>3. PICK s \in Nat : s = 2 * Block - 1 - Trailer - u
  BY <1>1, <1>2
<1>4. PICK t \in Nat, z \in Nat : t = s \div Block /\ z = s % Block /\ z < Block
                                  /\ s = t * Block + z
  BY <1>1, DivMod
<1>5. t \in {0, 1}
  <2>1. CASE t >= 2
    <3>1. 2 * Block <= t * Block /\ t * Block \in Nat
      <4>1. PICK i \in Nat : i = 2
        OBVIOUS
      <4>2. i * Block <= t * Block /\ t * Block \in Nat
        BY <1>1, <2>1, <4>1, Times
      <4> QED
        BY <4>1, <4>2
    <3> QED
      BY <1>1, <1>3, <1>4, <3>1
  <2> QED
    BY <2>1
<1>6. PICK p \in Nat : p = q + 2 - t /\ p > 0
  BY <1>5
<1>7. Len(f) + 3 + z = p * Block
  <2>1. q * Block \in Nat /\ u + 3 + z = 2 * Block - t * Block /\ t * Block \in Nat
    BY <1>1, <1>3, <1>4
  <2>2. p * Block = q * Block + (2 * Block - t * Block)
    <3>1. CASE t = 0
      BY <1>1, <1>6, <3>1
    <3>2. CASE t = 1
      BY <1>1, <1>6, <3>2
    <3> QED
      BY <1>5, <3>1, <3>2
  <2> QED
    BY <1>2, <2>1, <2>2
<1>8. Low(Len(f)) \in Int /\ High(Len(f)) \in Int /\ Len(f) \in Nat
  BY CellsLen, CounterType
<1>9. PICK low, high : /\ low \in Int /\ high \in Int
                       /\ low = Low(Len(f)) /\ high = High(Len(f))
  BY <1>8
<1>10. PICK cnt : cnt \in Cells /\ cnt = <<low, high>> /\ Len(cnt) = 2 /\ cnt[1] = low
  <2>1. <<low, high>> \in Seq(Int) /\ Len(<<low, high>>) = 2 /\ <<low, high>>[1] = low
    BY <1>9
  <2> QED
    BY <2>1 DEF Cells
<1>11. PICK mark : mark \in Cells /\ mark = <<128>> /\ Len(mark) = 1
  <2>1. <<128>> \in Seq(Int) /\ Len(<<128>>) = 1
    OBVIOUS
  <2> QED
    BY <2>1 DEF Cells
<1>12. PICK o : o \in Cells /\ o = Zeros(z) /\ Len(o) = z
  BY ZerosFacts
<1>13. Reference(f) = Whole(((f \o mark) \o o) \o cnt)
  <2>1. Reference(f) = Whole(f \o <<128>> \o Zeros(z)
                               \o <<Len(f) % Word, (Len(f) \div Word) % Word>>)
    BY <1>2, <1>3, <1>4, Zenon DEF Reference
  <2>2. cnt = <<Len(f) % Word, (Len(f) \div Word) % Word>>
    BY <1>9, <1>10 DEF Low, High
  <2> QED
    BY <1>11, <1>12, <2>1, <2>2
<1>14. PICK a : /\ a \in Cells /\ a = f \o mark /\ Len(a) = Len(f) + 1
                /\ \A k \in 1 .. Len(f) : a[k] = f[k]
  <2>1. mark \in Cells
    BY <1>11
  <2>2. /\ f \o mark \in Cells /\ Len(f \o mark) = Len(f) + Len(mark)
        /\ \A i \in 1 .. Len(f) : (f \o mark)[i] = f[i]
    BY <2>1, CellsJoined
  <2> QED
    BY <1>11, <2>2
<1>15. PICK b : /\ b \in Cells /\ b = a \o o /\ Len(b) = Len(f) + 1 + z
                /\ \A k \in 1 .. Len(f) : b[k] = f[k]
  <2>1. o \in Cells /\ a \in Cells
    BY <1>12, <1>14
  <2>2. /\ a \o o \in Cells /\ Len(a \o o) = Len(a) + Len(o)
        /\ \A i \in 1 .. Len(a) : (a \o o)[i] = a[i]
    BY <2>1, CellsJoined
  <2>3. \A k \in 1 .. Len(f) : k \in 1 .. Len(a)
    BY <1>8, <1>14
  <2>4. \A k \in 1 .. Len(f) : (a \o o)[k] = f[k]
    BY <1>14, <2>2, <2>3
  <2> QED
    BY <1>12, <1>14, <2>2, <2>4
<1>16. PICK x : /\ x \in Cells /\ x = b \o cnt /\ Len(x) = Len(f) + 3 + z
                /\ \A k \in 1 .. Len(f) : x[k] = f[k]
                /\ x[Len(b) + 1] = low
  <2>1. b \in Cells /\ cnt \in Cells
    BY <1>10, <1>15
  <2>2. /\ b \o cnt \in Cells /\ Len(b \o cnt) = Len(b) + Len(cnt)
        /\ \A i \in 1 .. Len(b) : (b \o cnt)[i] = b[i]
        /\ \A i \in 1 .. Len(cnt) : (b \o cnt)[Len(b) + i] = cnt[i]
    BY <2>1, CellsJoined
  <2>3. \A k \in 1 .. Len(f) : k \in 1 .. Len(b)
    BY <1>8, <1>15
  <2>4. \A k \in 1 .. Len(f) : (b \o cnt)[k] = f[k]
    BY <1>15, <2>2, <2>3
  <2>5. 1 \in 1 .. Len(cnt)
    BY <1>10
  <2>6. (b \o cnt)[Len(b) + 1] = low
    BY <1>10, <2>2, <2>5
  <2>7. Len(b \o cnt) = Len(f) + 3 + z
    BY <1>8, <1>10, <1>15, <2>2
  <2> QED
    BY <2>2, <2>4, <2>6, <2>7
<1>17. Len(b) + 1 = Len(x) - 1
  BY <1>8, <1>15, <1>16
<1>18. Reference(f) = Whole(x)
  BY <1>13, <1>14, <1>15, <1>16
<1>19. Len(f) + 3 <= Len(x) /\ Len(x) < Len(f) + 3 + Block
  BY <1>1, <1>4, <1>8, <1>16
<1>20. x[Len(x) - 1] = Low(Len(f))
  BY <1>9, <1>16, <1>17
<1>21. Len(x) = p * Block
  BY <1>7, <1>16
<1> QED
  BY <1>6, <1>16, <1>18, <1>19, <1>20, <1>21

\* Full blocks determine the message.
LEMMA WholeInjective ==
    ASSUME NEW x \in Cells, NEW p \in Nat, Len(x) = p * Block,
           NEW y \in Cells, NEW r \in Nat, Len(y) = r * Block, Whole(x) = Whole(y)
    PROVE  p = r /\ x = y
<1>1. Block \in Nat /\ Block > 0
  BY Md5Assumption DEF Trailer
<1>2. ASSUME NEW s \in Cells, NEW n \in Nat, Len(s) = n * Block
      PROVE  /\ Len(Whole(s)) = n
             /\ \A k \in 1 .. n : \A i \in 1 .. Block : Whole(s)[k][i] = s[(k - 1) * Block + i]
  <2>1. PICK w \in Nat : w = 0
    OBVIOUS
  <2>2. n * Block \in Nat
    BY <1>1
  <2>3. Len(s) = n * Block + w
    BY <1>2, <2>1, <2>2
  <2>4. w < Block
    BY <1>1, <2>1
  <2>5. /\ Len(s) % Block = w
        /\ Whole(s) \in Seq(Cells) /\ Len(Whole(s)) = n
        /\ \A k \in 1 .. n :
              /\ Whole(s)[k] \in Cells /\ Len(Whole(s)[k]) = Block
              /\ \A i \in 1 .. Block : Whole(s)[k][i] = s[(k - 1) * Block + i]
        /\ Rest(s) \in Cells /\ Len(Rest(s)) = w
        /\ \A i \in 1 .. w : Rest(s)[i] = s[n * Block + i]
    BY <2>3, <2>4, WholeFacts, Zenon
  <2> QED
    BY <2>5
<1>3. /\ Len(Whole(x)) = p
      /\ \A k \in 1 .. p : \A i \in 1 .. Block : Whole(x)[k][i] = x[(k - 1) * Block + i]
  BY <1>2
<1>4. /\ Len(Whole(y)) = r
      /\ \A k \in 1 .. r : \A i \in 1 .. Block : Whole(y)[k][i] = y[(k - 1) * Block + i]
  BY <1>2
<1>5. p = r
  BY <1>3, <1>4
<1>6. ASSUME NEW n \in 1 .. Len(x)
      PROVE  x[n] = y[n]
  <2>1. PICK j \in Nat, w \in Nat : w < Block /\ n - 1 = j * Block + w
    <3>1. n - 1 \in Nat
      BY CellsLen
    <3> QED
      BY <1>1, <3>1, DivMod
  <2>2. j < p
    <3>1. CASE p <= j
      <4>1. p * Block <= j * Block /\ j * Block \in Nat
        BY <1>1, <3>1, Times
      <4>2. n - 1 < p * Block
        BY CellsLen
      <4> QED
        BY <2>1, <4>1, <4>2
    <3> QED
      BY <3>1
  <2>3. PICK k \in 1 .. p, i \in 1 .. Block : k = j + 1 /\ i = w + 1
    BY <1>1, <2>1, <2>2
  <2>4. (k - 1) * Block + i = n
    <3>1. k - 1 = j /\ j * Block \in Nat
      BY <1>1, <2>3
    <3> QED
      BY <2>1, <2>3, <3>1
  <2>5. x[(k - 1) * Block + i] = y[(k - 1) * Block + i]
    <3>1. Whole(x)[k][i] = x[(k - 1) * Block + i]
      BY <1>3
    <3>2. k \in 1 .. r
      BY <1>5
    <3>3. Whole(y)[k][i] = y[(k - 1) * Block + i]
      BY <1>4, <3>2
    <3> QED
      BY <3>1, <3>3
  <2> QED
    BY <2>4, <2>5
<1>7. Len(x) = Len(y)
  BY <1>5
<1>8. x = y
  BY <1>6, <1>7, SameCells
<1> QED
  BY <1>5, <1>8

\* Only one message has a digest, and no digest is empty.
LEMMA ReferenceInjective ==
    ASSUME NEW f \in Cells, NEW g \in Cells
    PROVE  /\ Reference(f) # <<>>
           /\ Reference(f) = Reference(g) => f = g
<1>1. /\ Block \in Nat /\ Block > 0 /\ Word \in Nat /\ Word > 0
      /\ Len(f) \in Nat /\ Len(g) \in Nat
  BY Md5Assumption, CellsLen DEF Trailer
<1>2. Block <= Word
  <2>a. Word \in Nat /\ Block \in Nat /\ Block > 0
    BY <1>1
  <2>1. PICK q \in Nat, w \in Nat : w = Word % Block /\ Word = q * Block + w
    BY <2>a, DivMod
  <2>2. w = 0 /\ q * Block \in Nat
    BY <1>1, <2>1, Md5Assumption
  <2>3. q >= 1
    <3>1. CASE q = 0
      BY <1>1, <2>1, <2>2, <3>1
    <3> QED
      BY <3>1
  <2>4. PICK i \in Nat : i = 1
    OBVIOUS
  <2>5. i * Block <= q * Block
    BY <1>1, <2>3, <2>4, Times
  <2> QED
    BY <1>1, <2>1, <2>2, <2>4, <2>5
<1>3. PICK x \in Cells, p \in Nat :
              /\ Reference(f) = Whole(x) /\ Len(x) = p * Block /\ p > 0
              /\ Len(f) + 3 <= Len(x) /\ Len(x) < Len(f) + 3 + Block
              /\ \A k \in 1 .. Len(f) : x[k] = f[k]
              /\ x[Len(x) - 1] = Low(Len(f))
  BY Padded
<1>4. PICK y \in Cells, r \in Nat :
              /\ Reference(g) = Whole(y) /\ Len(y) = r * Block /\ r > 0
              /\ Len(g) + 3 <= Len(y) /\ Len(y) < Len(g) + 3 + Block
              /\ \A k \in 1 .. Len(g) : y[k] = g[k]
              /\ y[Len(y) - 1] = Low(Len(g))
  BY Padded
<1>5. Reference(f) # <<>>
  <2>1. Whole(x) \in Seq(Cells) /\ Len(Whole(x)) = p
    <3>1. PICK w \in Nat : w = 0
      OBVIOUS
    <3>2. p * Block \in Nat
      BY <1>1
    <3>3. Len(x) = p * Block + w
      BY <1>3, <3>1, <3>2
    <3>4. w < Block
      BY <1>1, <3>1
    <3>5. /\ Len(x) % Block = w
          /\ Whole(x) \in Seq(Cells) /\ Len(Whole(x)) = p
          /\ \A k \in 1 .. p :
                /\ Whole(x)[k] \in Cells /\ Len(Whole(x)[k]) = Block
                /\ \A i \in 1 .. Block : Whole(x)[k][i] = x[(k - 1) * Block + i]
          /\ Rest(x) \in Cells /\ Len(Rest(x)) = w
          /\ \A i \in 1 .. w : Rest(x)[i] = x[p * Block + i]
      BY <3>3, <3>4, WholeFacts, Zenon
    <3> QED
      BY <3>5
  <2>2. Whole(x) # <<>>
    BY <1>3, <2>1
  <2> QED
    BY <1>3, <2>2
<1>6. ASSUME Reference(f) = Reference(g)
      PROVE  f = g
  <2>1. x = y
    <3>1. Whole(x) = Whole(y) /\ Len(x) = p * Block /\ Len(y) = r * Block
      BY <1>3, <1>4, <1>6
    <3> QED
      BY <3>1, WholeInjective
  <2>2. Len(f) % Word = Len(g) % Word
    BY <1>3, <1>4, <2>1 DEF Low
  <2>3. Len(x) \in Nat
    BY CellsLen
  <2>4. PICK m \in Nat, n \in Nat : m = Len(f) /\ n = Len(g)
    BY <1>1
  <2>5. m < n + Block /\ n < m + Block
    BY <1>1, <1>3, <1>4, <2>1, <2>3, <2>4
  <2>6. m % Word = n % Word
    BY <2>2, <2>4
  <2>7. ~(m < n)
    <3>1. CASE m < n
      <4>1. n >= m + Word
        BY <1>1, <2>6, <3>1, SameMod
      <4> QED
        BY <1>1, <1>2, <2>5, <4>1
    <3> QED
      BY <3>1
  <2>8. ~(n < m)
    <3>1. CASE n < m
      <4>1. m >= n + Word
        BY <1>1, <2>6, <3>1, SameMod
      <4> QED
        BY <1>1, <1>2, <2>5, <4>1
    <3> QED
      BY <3>1
  <2>9. Len(f) = Len(g)
    BY <2>4, <2>7, <2>8
  <2>10. \A k \in 1 .. Len(f) : f[k] = g[k]
    BY <1>3, <1>4, <2>1, <2>9
  <2> QED
    BY <2>9, <2>10, SameCells
<1> QED
  BY <1>5, <1>6

-----------------------------------------------------------------------------
(* Descriptors *)

First == FirstSector * Sector

\* The constants.
LEMMA Constants ==
    /\ Sector \in Nat /\ Sector > 0 /\ First \in Nat /\ Buffer \in Nat /\ Buffer > 0
    /\ UInt \in Nat /\ UInt > 0 /\ AppLength \in Nat /\ AppLength > 0
    /\ AppOffset \in Nat /\ SizeOffset \in Nat /\ SkipSectors \in Nat
    /\ AppOffset + AppLength <= Sector /\ SizeOffset < AppOffset /\ Buffer % Sector = 0
<1>1. FirstSector \in Nat /\ Sector \in Nat /\ Sector > 0
  BY MediacheckAssumption
<1>2. First \in Nat
  BY <1>1 DEF First
<1> QED
  BY <1>1, <1>2, MediacheckAssumption

\* The application data of the descriptor at d.
Area(d) == d + AppOffset + 1 .. d + AppOffset + AppLength

\* The sectors before p are neither primary descriptor nor terminator.
Scanned(img, p) ==
    /\ p \in Nat /\ p % Sector = 0 /\ First <= p
    /\ \A s \in First .. p - 1 :
          s % Sector = 0 => s < Len(img) /\ img[s + 1] \notin {Primary, Terminator}

\* Where parsepvd finds the primary descriptor.
Found(img, d) == Scanned(img, d) /\ d < Len(img) /\ img[d + 1] = Primary

\* Before the first sector nothing is looked at.
LEMMA ScannedFirst == ASSUME NEW img PROVE Scanned(img, First)
<1>1. First \in Nat /\ Sector \in Nat /\ Sector > 0 /\ FirstSector \in Nat
  BY Constants, MediacheckAssumption
<1>2. First % Sector = 0
  <2>1. PICK z \in Nat : z = 0
    OBVIOUS
  <2>2. (FirstSector * Sector + z) % Sector = z
    BY <1>1, <2>1, DivUnique
  <2>3. FirstSector * Sector + z = First
    BY <1>1, <2>1 DEF First
  <2> QED
    BY <2>1, <2>2, <2>3
<1>3. First .. First - 1 = {}
  BY <1>1
<1> QED
  BY <1>1, <1>2, <1>3 DEF Scanned

\* Parsing goes on with the next sector.
LEMMA ScannedNext ==
    ASSUME NEW img, NEW p, Scanned(img, p), p < Len(img),
           img[p + 1] \notin {Primary, Terminator}
    PROVE  Scanned(img, p + Sector)
<1>1. Sector \in Nat /\ Sector > 0 /\ First \in Nat
  BY Constants
<1>2. p \in Nat /\ p % Sector = 0 /\ First <= p
  BY DEF Scanned
<1>3. (p + Sector) % Sector = 0
  <2>1. PICK i \in Nat : i = 1
    OBVIOUS
  <2>2. (i * Sector + p) % Sector = p % Sector
    BY <1>1, <1>2, ModTimes
  <2>3. i * Sector + p = p + Sector
    BY <1>1, <1>2, <2>1
  <2> QED
    BY <1>2, <2>2, <2>3
<1>a. PICK r \in Nat : r = p + Sector
  BY <1>1, <1>2
<1>4. ASSUME NEW s \in First .. r - 1, s % Sector = 0
      PROVE  s < Len(img) /\ img[s + 1] \notin {Primary, Terminator}
  <2>1. CASE s < p
    <3>1. s \in First .. p - 1
      BY <1>1, <1>2, <2>1
    <3> QED
      BY <1>4, <3>1 DEF Scanned
  <2>2. CASE s = p
    BY <2>2
  <2>3. CASE s > p
    <3>1. s \in Nat /\ p % Sector = s % Sector
      BY <1>1, <1>2, <1>4
    <3>2. s >= p + Sector
      BY <1>1, <1>2, <2>3, <3>1, SameMod
    <3> QED
      BY <1>1, <1>2, <1>a, <3>2
  <2> QED
    BY <1>1, <1>2, <2>1, <2>2, <2>3
<1>5. p + Sector \in Nat /\ First <= p + Sector
  BY <1>1, <1>2
<1>7. \A s \in First .. r - 1 :
         s % Sector = 0 => s < Len(img) /\ img[s + 1] \notin {Primary, Terminator}
  BY <1>4
<1>8. Scanned(img, r)
  BY <1>3, <1>5, <1>a, <1>7 DEF Scanned
<1> QED
  BY <1>a, <1>8

\* The least element.
LEMMA MinIs ==
    ASSUME NEW S \in SUBSET Int, NEW x \in S, \A y \in S : x <= y
    PROVE  Min(S) = x
<1>1. Min(S) \in S /\ \A y \in S : Min(S) <= y
  <2>1. \E z \in S : \A y \in S : z <= y
    OBVIOUS
  <2> QED
    BY <2>1 DEF Min
<1>2. PICK z \in S : z = Min(S)
  BY <1>1
<1>3. z <= x /\ x <= z /\ z \in Int /\ x \in Int
  BY <1>1, <1>2
<1> QED
  BY <1>2, <1>3

\* What parsepvd finds is the first descriptor.
LEMMA FoundFirst ==
    ASSUME NEW img \in Cells, NEW d, Found(img, d)
    PROVE  Descriptor(img) = d /\ Descriptors(img) # {}
<1>1. d \in Nat /\ d % Sector = 0 /\ First <= d /\ d < Len(img) /\ img[d + 1] = Primary
  BY DEF Found, Scanned
<1>2. Len(img) \in Nat /\ First \in Nat
  BY CellsLen, Constants
<1>3. Descriptors(img) = {p \in First .. Len(img) - 1 : p % Sector = 0 /\ img[p + 1] = Primary}
  BY DEF Descriptors, First
<1>4. d \in Descriptors(img)
  BY <1>1, <1>2, <1>3
<1>5. ASSUME NEW y \in Descriptors(img)
      PROVE  d <= y
  <2>1. y \in First .. Len(img) - 1 /\ y % Sector = 0 /\ img[y + 1] = Primary
    BY <1>3
  <2>2. CASE y < d
    <3>1. y \in First .. d - 1
      BY <1>1, <1>2, <2>1, <2>2
    <3>2. img[y + 1] # Primary
      BY <2>1, <3>1 DEF Found, Scanned
    <3> QED
      BY <2>1, <3>2
  <2> QED
    BY <1>1, <1>2, <2>1, <2>2
<1>6. Descriptors(img) \in SUBSET Int
  BY <1>2, <1>3
<1>7. Min(Descriptors(img)) = d
  BY <1>4, <1>5, <1>6, MinIs
<1> QED
  BY <1>4, <1>7 DEF Descriptor

\* A descriptor lies in the image.
LEMMA Fits ==
    ASSUME NEW img \in Cells, Len(img) % Sector = 0, NEW d, Found(img, d)
    PROVE  /\ d \in Nat /\ d % Sector = 0 /\ First <= d /\ d + Sector <= Len(img)
           /\ \A k \in Area(d) : k \in 1 .. Len(img)
           /\ d + 1 \in 1 .. Len(img) /\ d + SizeOffset + 1 \in 1 .. Len(img)
           /\ CoverOf(img, d) \in Int
<1>1. d \in Nat /\ d % Sector = 0 /\ First <= d /\ d < Len(img)
  BY DEF Found, Scanned
<1>2. Len(img) \in Nat /\ \A i \in 1 .. Len(img) : img[i] \in Int
  BY CellsLen
<1>3. d + Sector <= Len(img)
  <2>1. PICK n \in Nat : n = Len(img)
    BY <1>2
  <2>2. d % Sector = n % Sector /\ d < n
    BY <1>1, <2>1
  <2>3. Sector \in Nat /\ Sector > 0
    BY Constants
  <2>4. n >= d + Sector
    BY <1>1, <2>2, <2>3, SameMod
  <2> QED
    BY <1>1, <2>1, <2>3, <2>4
<1>4. \A k \in Area(d) : k \in 1 .. Len(img)
  BY <1>1, <1>2, <1>3, Constants DEF Area
<1>5. d + 1 \in 1 .. Len(img) /\ d + SizeOffset + 1 \in 1 .. Len(img)
  BY <1>1, <1>2, <1>3, Constants
<1>6. CoverOf(img, d) \in Int
  <2>1. img[d + SizeOffset + 1] - SkipSectors \in Int /\ Sector \in Int
    BY <1>2, <1>5, Constants
  <2> QED
    BY <2>1 DEF CoverOf
<1> QED
  BY <1>1, <1>3, <1>4, <1>5, <1>6

\* The application data are at the beginning of no sector, nor is the size
\* among them.
LEMMA OutsideArea ==
    ASSUME NEW d \in Nat, d % Sector = 0
    PROVE  /\ \A s \in Nat : s % Sector = 0 => s + 1 \notin Area(d)
           /\ d + SizeOffset + 1 \notin Area(d)
<1>1. /\ Sector \in Nat /\ Sector > 0 /\ AppOffset \in Nat /\ AppLength \in Nat
      /\ SizeOffset \in Nat /\ AppOffset + AppLength <= Sector /\ SizeOffset < AppOffset
  BY Constants
<1>2. ASSUME NEW s \in Nat, s % Sector = 0, s + 1 \in Area(d)
      PROVE  FALSE
  <2>1. d < s /\ s < d + Sector
    BY <1>1, <1>2 DEF Area
  <2>2. d % Sector = s % Sector
    BY <1>2
  <2>3. s >= d + Sector
    BY <1>1, <2>1, <2>2, SameMod
  <2> QED
    BY <1>1, <2>1, <2>3
<1>3. d + SizeOffset + 1 \notin Area(d)
  BY <1>1 DEF Area
<1> QED
  BY <1>2, <1>3

\* Images that agree outside of the application data have the same descriptor
\* and the same size in it.
LEMMA SameFound ==
    ASSUME NEW img \in Cells, NEW m \in Cells, Len(m) = Len(img), Len(img) % Sector = 0,
           NEW d, Found(img, d),
           \A k \in 1 .. Len(img) : k \in Area(d) \/ m[k] = img[k]
    PROVE  Found(m, d) /\ CoverOf(m, d) = CoverOf(img, d)
<1>1. /\ d \in Nat /\ d % Sector = 0 /\ First <= d
      /\ d + 1 \in 1 .. Len(img) /\ d + SizeOffset + 1 \in 1 .. Len(img)
  BY Fits
<1>2. Len(img) \in Nat /\ First \in Nat
  BY CellsLen, Constants
<1>3. ASSUME NEW s \in Nat, s % Sector = 0, s < Len(img)
      PROVE  m[s + 1] = img[s + 1]
  <2>1. s + 1 \in 1 .. Len(img)
    BY <1>2, <1>3
  <2>2. s + 1 \notin Area(d)
    BY <1>1, <1>3, OutsideArea
  <2> QED
    BY <2>1, <2>2
<1>4. m[d + 1] = Primary
  BY <1>1, <1>3 DEF Found
<1>5. ASSUME NEW s \in First .. d - 1, s % Sector = 0
      PROVE  s < Len(m) /\ m[s + 1] \notin {Primary, Terminator}
  <2>1. s < Len(img) /\ img[s + 1] \notin {Primary, Terminator}
    BY <1>5 DEF Found, Scanned
  <2>2. s \in Nat
    BY <1>2
  <2> QED
    BY <1>3, <1>5, <2>1, <2>2
<1>6. Found(m, d)
  BY <1>1, <1>4, <1>5 DEF Found, Scanned
<1>7. d + SizeOffset + 1 \notin Area(d)
  BY <1>1, OutsideArea
<1>8. m[d + SizeOffset + 1] = img[d + SizeOffset + 1]
  BY <1>1, <1>7
<1> QED
  BY <1>6, <1>8 DEF CoverOf

\* What is summed are whole sectors.
LEMMA CoverMod ==
    ASSUME NEW img \in Cells, Len(img) % Sector = 0, NEW d, Found(img, d),
           CoverOf(img, d) >= 0
    PROVE  CoverOf(img, d) \in Nat /\ CoverOf(img, d) % Sector = 0
<1>1. CoverOf(img, d) \in Int /\ d + SizeOffset + 1 \in 1 .. Len(img)
  BY Fits
<1>2. Sector \in Nat /\ Sector > 0 /\ SkipSectors \in Nat
  BY Constants
<1>3. PICK c \in Int : c = img[d + SizeOffset + 1] - SkipSectors
  BY <1>1, <1>2, CellsLen
<1>4. CoverOf(img, d) = c * Sector
  BY <1>3 DEF CoverOf
<1>5. c >= 0
  <2>1. CASE c < 0
    <3>1. PICK e \in Nat : c = -e /\ 1 <= e
      <4>1. -c \in Nat /\ c = -(-c) /\ 1 <= -c
        BY <2>1
      <4> QED
        BY <4>1
    <3>2. PICK i \in Nat : i = 1
      OBVIOUS
    <3>3. i * Sector <= e * Sector /\ e * Sector \in Nat
      BY <1>2, <3>1, <3>2, Times
    <3>4. c * Sector = -(e * Sector)
      BY <1>2, <3>1
    <3>5. i * Sector = Sector
      BY <1>2, <3>2
    <3> QED
      BY <1>1, <1>2, <1>4, <3>3, <3>4, <3>5
  <2> QED
    BY <2>1
<1>6. PICK n \in Nat, z \in Nat : n = c /\ z = 0
  BY <1>5
<1>7. (n * Sector + z) % Sector = z
  BY <1>2, <1>6, DivUnique
<1>8. n * Sector + z = CoverOf(img, d)
  BY <1>1, <1>4, <1>6
<1> QED
  BY <1>1, <1>6, <1>7, <1>8

\* What is read.
LEMMA ReadFacts ==
    ASSUME image \in Cells, at \in Nat, at <= Len(image), NEW n \in Nat
    PROVE  /\ Read(n) \in Cells /\ Len(Read(n)) \in Nat
           /\ Len(Read(n)) <= n /\ at + Len(Read(n)) <= Len(image)
           /\ \A i \in 1 .. Len(Read(n)) : Read(n)[i] = image[at + i]
           /\ at + n <= Len(image) => Len(Read(n)) = n
           /\ Read(n) = <<>> => n = 0 \/ at = Len(image)
<1>1. Len(image) \in Nat
  BY CellsLen
<1>2. PICK e \in Nat : e = (IF at + n <= Len(image) THEN at + n ELSE Len(image))
  BY <1>1
<1>3. Min({at + n, Len(image)}) = e
  <2>1. at + n \in Int /\ Len(image) \in Int
    BY <1>1
  <2> QED
    BY <1>2, <2>1, MinOf
<1>4. Read(n) = SubSeq(image, at + 1, e)
  BY <1>3 DEF Read
<1>5. at <= e /\ e <= Len(image)
  BY <1>1, <1>2
<1>6. /\ SubSeq(image, at + 1, e) \in Cells /\ Len(SubSeq(image, at + 1, e)) = e - at
      /\ \A i \in 1 .. e - at : SubSeq(image, at + 1, e)[i] = image[at + i]
  BY <1>5, CellsPart
<1>7. PICK l \in Nat : l = e - at
  BY <1>5
<1>8. /\ Read(n) \in Cells /\ Len(Read(n)) = l
      /\ \A i \in 1 .. l : Read(n)[i] = image[at + i]
  BY <1>4, <1>6, <1>7
<1>9. l <= n /\ at + l <= Len(image) /\ (at + n <= Len(image) => l = n)
  BY <1>1, <1>2, <1>7
<1>10. ASSUME Read(n) = <<>> PROVE n = 0 \/ at = Len(image)
  <2>1. l = 0
    BY <1>8, <1>10
  <2> QED
    BY <1>1, <1>2, <1>7, <2>1
<1> QED
  BY <1>8, <1>9, <1>10

-----------------------------------------------------------------------------
(* The invariant *)

\* Types, whole sectors, and the digest of what was given to it.
Shape ==
    /\ pc \in {"parse", "sum", "insert", "burn", "cparse", "csum", "end"}
    /\ image \in Cells /\ Len(image) % Sector = 0
    /\ at \in Nat /\ pvd \in Nat /\ total \in 0 .. UInt - 1
    /\ implanted \in {"no", "fresh", "forced"}
    /\ verdict \in {"none", "na", "differ", "match", "crash"}
    /\ Digest(ctx, fed)

\* Nothing is implanted or said yet.
Untouched ==
    /\ image \in Images
    /\ implanted = "no" /\ mediasum = <<>> /\ verdict = "none"

\* implantisomd5 looks for the descriptor.
Parsing == Untouched /\ Scanned(image, at) /\ total = 0 /\ fed = <<>>

\* implantisomd5 sums the image from its beginning; total is no more than that,
\* and exactly that where it cannot overflow.
Summing ==
    /\ Untouched
    /\ Found(image, pvd)
    /\ force \/ AppData(image, pvd) = Blank(AppLength)
    /\ Len(fed) = at /\ at <= Len(image) /\ at % Sector = 0
    /\ \A k \in 1 .. at : fed[k] = image[k]
    /\ total <= at
    /\ Covered < UInt => total = at /\ (at = 0 \/ at <= Covered)

\* The message f was summed in the image m with its descriptor at d.
Imprint(m, d, f) ==
    /\ Found(m, d)
    /\ Len(f) <= Len(m) /\ CoverOf(m, d) <= Len(f)
    /\ \A k \in 1 .. Len(f) : k \in Area(d) \/ f[k] = m[k]
    /\ CoverOf(m, d) >= 0 /\ CoverOf(m, d) < UInt => Len(f) = CoverOf(m, d)
    /\ implanted = "fresh" =>
          /\ \A k \in 1 .. Len(f) : k \in Area(d) => f[k] = Space
          /\ m[d + AppOffset + 1] = Digits
          /\ \A k \in Area(d) : k # d + AppOffset + 1 => m[k] = Space

\* The sum of the image m, if it has one.
Marked(m) ==
    /\ m \in Cells /\ Len(m) % Sector = 0
    /\ implanted = "no" => mediasum = <<>>
    /\ implanted # "no" =>
          \E d \in Nat, f \in Cells :
             Imprint(m, d, f) /\ mediasum \in {<<>>, Reference(f)}

\* The image can be burnt.
Ready ==
    /\ Marked(image) /\ verdict = "none"
    /\ implanted # "no" => mediasum # <<>>

\* The first step of the proof: up to the image that is burnt.
Implanting ==
    /\ pc = "parse" => Parsing
    /\ pc \in {"sum", "insert"} => Summing
    /\ pc = "insert" => total >= Covered \/ at = Len(image)
    /\ pc = "burn" => Ready

-----------------------------------------------------------------------------
(* implantisomd5 *)

\* What Kind says of the image.
LEMMA KindFacts ==
    ASSUME at \in Nat
    PROVE  /\ Kind = Other => at < Len(image) /\ image[at + 1] \notin {Primary, Terminator}
           /\ Kind = Primary => at < Len(image) /\ image[at + 1] = Primary
           /\ Kind = Terminator => at < Len(image) /\ image[at + 1] = Terminator
           /\ Kind = Eof => ~(at < Len(image))
<1>1. CASE at >= Len(image)
  <2>1. Kind = Eof
    BY <1>1 DEF Kind
  <2> QED
    BY <1>1, <2>1 DEF Other, Eof, Primary, Terminator
<1>2. CASE ~(at >= Len(image))
  <2>1. Kind = IF image[at + 1] \in {Primary, Terminator} THEN image[at + 1] ELSE Other
    BY <1>2 DEF Kind, Cell
  <2> QED
    BY <1>2, <2>1 DEF Other, Eof, Primary, Terminator
<1> QED
  BY <1>1, <1>2

\* Images are made of cells and whole sectors.
LEMMA ImageFacts ==
    ASSUME NEW img \in Images
    PROVE  /\ img \in Cells /\ Len(img) % Sector = 0
           /\ \A d : Found(img, d) => CoverOf(img, d) <= Len(img)
<1>1. IsImage(img)
  BY MediacheckAssumption
<1>2. img \in Cells /\ Len(img) % Sector = 0
  BY <1>1 DEF IsImage, Cells
<1>3. ASSUME NEW d, Found(img, d) PROVE CoverOf(img, d) <= Len(img)
  <2>1. Descriptor(img) = d /\ Descriptors(img) # {}
    BY <1>2, <1>3, FoundFirst
  <2> QED
    BY <1>1, <2>1 DEF IsImage
<1> QED
  BY <1>2, <1>3

\* At the beginning.
LEMMA InitFacts == Init => Shape /\ Implanting
<1> SUFFICES ASSUME Init PROVE Shape /\ Implanting
  OBVIOUS
<1>1. image \in Cells /\ Len(image) % Sector = 0
  BY ImageFacts DEF Init
<1>2. Digest(ctx, fed)
  BY DigestInit DEF Init
<1>3. at = First /\ at \in Nat /\ Scanned(image, at)
  BY Constants, ScannedFirst DEF Init, First
<1>4. total \in 0 .. UInt - 1
  BY Constants DEF Init
<1>5. Shape
  BY <1>1, <1>2, <1>3, <1>4 DEF Shape, Init
<1>6. Parsing
  BY <1>3 DEF Parsing, Untouched, Init
<1> QED
  BY <1>5, <1>6 DEF Implanting, Init

\* The steps that find the descriptor.
LEMMA ParseSteps ==
    Shape /\ Implanting /\ (ParseNext \/ ParseFails \/ ImplantStart)
       => Shape' /\ Implanting'
<1> SUFFICES ASSUME Shape, Implanting, ParseNext \/ ParseFails \/ ImplantStart
             PROVE  Shape' /\ Implanting'
  OBVIOUS
<1>1. Parsing
  BY DEF Implanting, ParseNext, ParseFails, ImplantStart
<1>2. at \in Nat /\ Sector \in Nat /\ image \in Cells
  BY Constants DEF Shape
<1>3. CASE ParseNext
  <2>1. Scanned(image, at + Sector)
    <3>1. at < Len(image) /\ image[at + 1] \notin {Primary, Terminator}
      BY <1>2, <1>3, KindFacts DEF ParseNext
    <3> QED
      BY <1>1, <3>1, ScannedNext DEF Parsing
  <2>2. Parsing'
    BY <1>1, <1>3, <2>1 DEF Parsing, Untouched, ParseNext
  <2>3. Shape'
    BY <1>2, <1>3 DEF Shape, ParseNext
  <2> QED
    BY <1>3, <2>2, <2>3 DEF Implanting, ParseNext
<1>4. CASE ParseFails
  <2>1. Shape'
    BY <1>4 DEF Shape, ParseFails
  <2>2. Ready'
    BY <1>1, <1>4 DEF Ready, Marked, Parsing, Untouched, ParseFails, Shape
  <2> QED
    BY <1>4, <2>1, <2>2 DEF Implanting, ParseFails
<1>5. CASE ImplantStart
  <2>1. pc' \in {"sum", "burn"}
    BY <1>5 DEF ImplantStart
  <2>2. Shape'
    BY <1>2, <1>5, <2>1 DEF Shape, ImplantStart
  <2>3. ASSUME pc' = "burn" PROVE Ready'
    BY <1>1, <1>5 DEF Ready, Marked, Parsing, Untouched, ImplantStart, Shape
  <2>4. ASSUME pc' = "sum" PROVE Summing'
    <3>1. at < Len(image) /\ image[at + 1] = Primary
      BY <1>2, <1>5, KindFacts DEF ImplantStart
    <3>2. Found(image, at)
      BY <1>1, <3>1 DEF Found, Parsing
    <3>3. force \/ AppData(image, at) = Blank(AppLength)
      BY <1>5, <2>4 DEF ImplantStart
    <3>4. Len(fed) = 0 /\ Len(image) \in Nat /\ 0 % Sector = 0 /\ total = 0
      <4>1. Sector > 0
        BY Constants
      <4> QED
        BY <1>1, <1>2, <4>1, CellsLen DEF Parsing
    <3>5. /\ pvd' = at /\ at' = 0 /\ image' = image /\ fed' = fed /\ total' = total
          /\ force' = force /\ implanted' = implanted /\ mediasum' = mediasum
          /\ verdict' = verdict
      BY <1>5 DEF ImplantStart, setting
    <3>6. Untouched'
      BY <1>1, <3>5 DEF Untouched, Parsing
    <3>7. \A k \in 1 .. at' : fed'[k] = image'[k]
      BY <3>5
    <3>8. /\ Found(image', pvd') /\ (force' \/ AppData(image', pvd') = Blank(AppLength))
          /\ Len(fed') = at' /\ at' <= Len(image') /\ at' % Sector = 0 /\ total' <= at'
          /\ total' = at'
      BY <3>2, <3>3, <3>4, <3>5
    <3>9. Found(image, pvd)' /\ (AppData(image, pvd))' = AppData(image', pvd')
      BY <3>8 DEF Found, Scanned, AppData
    <3> QED
      BY <3>5, <3>6, <3>7, <3>8, <3>9 DEF Summing
  <2> QED
    BY <2>1, <2>2, <2>3, <2>4 DEF Implanting
<1> QED
  BY <1>3, <1>4, <1>5

\* A sector is summed.
LEMMA SumStep == Shape /\ Implanting /\ ImplantSum => Shape' /\ Implanting'
<1> SUFFICES ASSUME Shape, Implanting, ImplantSum
             PROVE  Shape' /\ Implanting'
  OBVIOUS
<1>1. Summing /\ pc = "sum"
  BY DEF Implanting, ImplantSum
<1>2. /\ at \in Nat /\ image \in Cells /\ Len(image) \in Nat /\ at <= Len(image)
      /\ Len(image) % Sector = 0 /\ at % Sector = 0 /\ total \in 0 .. UInt - 1
  BY <1>1, CellsLen DEF Shape, Summing
<1>3. Sector \in Nat /\ Sector > 0 /\ UInt \in Nat /\ UInt > 0
  BY Constants
<1>4. /\ setting' = setting /\ image' = image /\ mediasum' = mediasum /\ pvd' = pvd
      /\ implanted' = implanted /\ verdict' = verdict /\ force' = force
  BY DEF ImplantSum, setting
<1>5. Covered \in Int
  BY <1>1, <1>2, Fits DEF Covered, Summing
<1>6. Covered' = Covered
  BY <1>4 DEF Covered, CoverOf
<1> DEFINE data == Read(Sector)
<1>7. /\ data \in Cells /\ Len(data) \in Nat /\ Len(data) <= Sector
      /\ \A i \in 1 .. Len(data) : data[i] = image[at + i]
      /\ at + Sector <= Len(image) => Len(data) = Sector
      /\ data = <<>> => at = Len(image)
  <2>1. image \in Cells /\ at \in Nat /\ at <= Len(image) /\ Sector \in Nat
    BY <1>2, <1>3
  <2>2. /\ Read(Sector) \in Cells /\ Len(Read(Sector)) \in Nat
        /\ Len(Read(Sector)) <= Sector /\ at + Len(Read(Sector)) <= Len(image)
        /\ \A i \in 1 .. Len(Read(Sector)) : Read(Sector)[i] = image[at + i]
        /\ at + Sector <= Len(image) => Len(Read(Sector)) = Sector
        /\ Read(Sector) = <<>> => Sector = 0 \/ at = Len(image)
    BY <2>1, ReadFacts
  <2>3. Sector # 0
    BY <1>3
  <2> QED
    BY <2>2, <2>3
<1>8. CASE total < Covered /\ data # <<>>
  <2>1. /\ ctx' = MD5_Update(ctx, data) /\ fed' = fed \o data
        /\ at' = at + Len(data) /\ total' = (total + Len(data)) % UInt /\ pc' = pc
    BY <1>8 DEF ImplantSum
  <2> HIDE DEF data
  <2>2. at < Len(image)
    <3>1. at # Len(image)
      <4>1. CASE at = Len(image)
        <5>1. Len(data) = 0
          BY <1>2, <4>1, ReadFacts, <1>3 DEF data
        <5>2. data = <<>>
          BY <1>7, <5>1 DEF Cells
        <5> QED
          BY <1>8, <5>2
      <4> QED
        BY <4>1
    <3> QED
      BY <1>2, <3>1
  <2>3. at + Sector <= Len(image)
    <3>1. PICK n \in Nat : n = Len(image)
      BY <1>2
    <3>2. at % Sector = n % Sector /\ at < n
      BY <1>2, <2>2, <3>1
    <3>3. n >= at + Sector
      BY <1>2, <1>3, <3>2, SameMod
    <3> QED
      BY <1>2, <1>3, <3>1, <3>3
  <2>4. Len(data) = Sector /\ at' = at + Sector /\ total' = (total + Sector) % UInt
    BY <1>7, <2>1, <2>3
  <2>5. at' % Sector = 0
    <3>1. PICK i \in Nat : i = 1
      OBVIOUS
    <3>2. (i * Sector + at) % Sector = at % Sector
      BY <1>2, <1>3, ModTimes
    <3>3. i * Sector + at = at + Sector
      BY <1>2, <1>3, <3>1
    <3> QED
      BY <1>2, <2>4, <3>2, <3>3
  <2>6. fed \in Cells /\ Digest(ctx', fed')
    <3>1. Digest(ctx, fed)
      BY DEF Shape
    <3>2. Digest(MD5_Update(ctx, data), fed \o data)
      BY <1>7, <3>1, DigestUpdate
    <3> QED
      BY <2>1, <3>1, <3>2 DEF Digest
  <2>7. Len(fed') = at' /\ \A k \in 1 .. at' : fed'[k] = image'[k]
    <3>1. /\ Len(fed \o data) = Len(fed) + Len(data)
          /\ \A i \in 1 .. Len(fed) : (fed \o data)[i] = fed[i]
          /\ \A i \in 1 .. Len(data) : (fed \o data)[Len(fed) + i] = data[i]
      BY <1>7, <2>6, CellsJoined
    <3>2. Len(fed) = at /\ \A k \in 1 .. at : fed[k] = image[k]
      BY <1>1 DEF Summing
    <3>3. ASSUME NEW k \in 1 .. at' PROVE fed'[k] = image'[k]
      <4>1. CASE k \in 1 .. at
        BY <1>4, <2>1, <3>1, <3>2, <4>1
      <4>2. CASE k \notin 1 .. at
        <5>1. PICK i \in 1 .. Sector : k = at + i
          <6>1. k - at \in 1 .. Sector /\ k = at + (k - at)
            BY <1>2, <1>3, <2>4, <4>2
          <6> QED
            BY <6>1
        <5>2. (fed \o data)[at + i] = data[i] /\ data[i] = image[at + i]
          BY <1>7, <2>4, <3>1, <3>2
        <5> QED
          BY <1>4, <2>1, <5>1, <5>2
      <4> QED
        BY <4>1, <4>2
    <3> QED
      BY <2>1, <3>1, <3>2, <3>3
  <2>8. total' \in 0 .. UInt - 1 /\ total' <= at'
    <3>1. PICK n \in Nat : n = total + Sector
      BY <1>2, <1>3
    <3>2. n % UInt \in 0 .. UInt - 1 /\ n % UInt <= n
      <4>a. UInt \in Nat /\ UInt > 0
        BY <1>3
      <4>1. PICK q \in Nat, w \in Nat : w = n % UInt /\ w < UInt /\ n = q * UInt + w
        BY <4>a, DivMod
      <4>2. q * UInt \in Nat
        BY <1>3
      <4> QED
        BY <1>3, <4>1, <4>2
    <3>3. total <= at
      BY <1>1 DEF Summing
    <3> QED
      BY <1>2, <1>3, <2>4, <3>1, <3>2, <3>3
  <2>9. ASSUME Covered < UInt PROVE total' = at' /\ at' <= Covered
    <3>1. total = at /\ at < Covered
      BY <1>1, <1>8, <2>9 DEF Summing
    <3>2. PICK n \in Nat : n = Covered /\ n % Sector = 0
      <4>1. CoverOf(image, pvd) >= 0
        BY <1>2, <1>5, <3>1 DEF Covered
      <4>2. CoverOf(image, pvd) \in Nat /\ CoverOf(image, pvd) % Sector = 0
        BY <1>1, <1>2, <4>1, CoverMod DEF Summing
      <4> QED
        BY <4>2 DEF Covered
    <3>3. at % Sector = n % Sector /\ at < n
      BY <1>2, <3>1, <3>2
    <3>4. n >= at + Sector
      BY <1>2, <1>3, <3>3, SameMod
    <3>5. PICK e \in Nat : e = at + Sector
      BY <1>2, <1>3
    <3>6. e <= n /\ e < UInt
      BY <1>3, <2>9, <3>2, <3>4, <3>5
    <3>7. e % UInt = e
      BY <1>3, <3>6
    <3> QED
      BY <2>4, <3>1, <3>2, <3>5, <3>6, <3>7
  <2>10. Shape'
    BY <1>1, <1>2, <1>3, <1>4, <2>1, <2>4, <2>6, <2>8 DEF Shape
  <2>11. Summing'
    <3>1. Untouched' /\ Found(image, pvd)'
          /\ (force \/ AppData(image, pvd) = Blank(AppLength))'
      BY <1>1, <1>4 DEF Summing, Untouched, Found, Scanned, AppData
    <3>2. at' <= Len(image')
      BY <1>4, <2>3, <2>4
    <3>3. (Covered < UInt => total = at /\ (at = 0 \/ at <= Covered))'
      BY <1>6, <2>9
    <3> QED
      BY <2>5, <2>7, <2>8, <3>1, <3>2, <3>3 DEF Summing
  <2> QED
    BY <1>1, <2>1, <2>10, <2>11 DEF Implanting
<1>9. CASE ~(total < Covered /\ data # <<>>)
  <2>1. pc' = "insert" /\ ctx' = ctx /\ fed' = fed /\ at' = at /\ total' = total
    BY <1>9 DEF ImplantSum
  <2>2. Shape'
    BY <1>4, <2>1 DEF Shape
  <2>3. Summing'
    BY <1>1, <1>4, <1>6, <2>1 DEF Summing, Untouched, Found, Scanned, AppData
  <2>4. total >= Covered \/ at = Len(image)
    BY <1>2, <1>5, <1>7, <1>9
  <2>5. (total >= Covered \/ at = Len(image))'
    BY <1>4, <1>6, <2>1, <2>4
  <2> QED
    BY <2>1, <2>2, <2>3, <2>5 DEF Implanting
<1> QED
  BY <1>8, <1>9

\* new_appdata takes the place of the application data and of nothing else.
LEMMA InsertedFacts ==
    ASSUME image \in Cells, Len(image) % Sector = 0, pvd \in Nat, Found(image, pvd)
    PROVE  /\ Inserted \in Cells /\ Len(Inserted) = Len(image)
           /\ \A k \in 1 .. Len(image) : k \in Area(pvd) \/ Inserted[k] = image[k]
           /\ Inserted[pvd + AppOffset + 1] = Digits
           /\ \A k \in Area(pvd) : k # pvd + AppOffset + 1 => Inserted[k] = Space
<1>1. /\ AppOffset \in Nat /\ AppLength \in Nat /\ AppLength > 0
      /\ Len(image) \in Nat /\ \A k \in 1 .. Len(image) : image[k] \in Int
  BY Constants, CellsLen
<1>2. \A k \in Area(pvd) : k \in 1 .. Len(image)
  BY Fits
<1>3. PICK g \in Nat : g = pvd + AppOffset
  BY <1>1
<1> DEFINE c(k) == IF k = g + 1 THEN Digits
                   ELSE IF k \in g + 2 .. g + AppLength THEN Space ELSE image[k]
<1>4. \A k \in 1 .. Len(image) : c(k) \in Int
  BY <1>1 DEF Digits, Space
<1>5. Inserted = [k \in 1 .. Len(image) |-> c(k)]
  BY <1>3 DEF Inserted
<1>6. Area(pvd) = g + 1 .. g + AppLength
  BY <1>3 DEF Area
<1>7. \A k \in 1 .. Len(image) : k \in Area(pvd) \/ c(k) = image[k]
  BY <1>1, <1>6
<1>8. g + 1 \in Area(pvd) /\ c(g + 1) = Digits
  BY <1>1, <1>6
<1>9. \A k \in Area(pvd) : k # g + 1 => c(k) = Space
  BY <1>1, <1>6
<1> HIDE DEF c
<1>10. [k \in 1 .. Len(image) |-> c(k)] \in Seq(Int)
       /\ Len([k \in 1 .. Len(image) |-> c(k)]) = Len(image)
  BY <1>1, <1>4
<1>11. Inserted \in Cells /\ Len(Inserted) = Len(image)
  BY <1>5, <1>10 DEF Cells
<1>12. \A k \in 1 .. Len(image) : Inserted[k] = c(k)
  BY <1>5
<1>13. \A k \in 1 .. Len(image) : k \in Area(pvd) \/ Inserted[k] = image[k]
  BY <1>7, <1>12
<1>14. Inserted[g + 1] = Digits
  BY <1>2, <1>8, <1>12
<1>15. \A k \in Area(pvd) : k # g + 1 => Inserted[k] = Space
  BY <1>2, <1>9, <1>12
<1> QED
  BY <1>3, <1>11, <1>13, <1>14, <1>15

\* Unused application data are blanks.
LEMMA BlankArea ==
    ASSUME NEW img \in Cells, Len(img) % Sector = 0, NEW d \in Nat, Found(img, d),
           AppData(img, d) = Blank(AppLength), NEW k \in Area(d)
    PROVE  img[k] = Space
<1>1. AppOffset \in Nat /\ AppLength \in Nat /\ Sector \in Nat /\ AppOffset + AppLength <= Sector
  BY Constants
<1>2. d + Sector <= Len(img) /\ Len(img) \in Nat
  BY Fits, CellsLen
<1>3. PICK g \in Nat : g = d + AppOffset
  BY <1>1
<1>4. PICK e \in Nat : e = g + AppLength
  BY <1>1
<1>5. g <= e /\ e <= Len(img)
  BY <1>1, <1>2, <1>3, <1>4
<1>6. \A i \in 1 .. e - g : SubSeq(img, g + 1, e)[i] = img[g + i]
  BY <1>5, CellsPart
<1>7. AppData(img, d) = SubSeq(img, g + 1, e)
  BY <1>3, <1>4 DEF AppData
<1>8. PICK i \in 1 .. AppLength : k = g + i
  <2>1. k - g \in 1 .. AppLength /\ k = g + (k - g)
    BY <1>1, <1>3 DEF Area
  <2> QED
    BY <2>1
<1>9. Blank(AppLength)[i] = Space
  BY DEF Blank
<1>10. i \in 1 .. e - g
  BY <1>1, <1>4
<1> QED
  BY <1>6, <1>7, <1>8, <1>9, <1>10

\* The sum is written, or cannot be.
LEMMA InsertSteps ==
    Shape /\ Implanting /\ (Insert \/ InsertFails) => Shape' /\ Implanting'
<1> SUFFICES ASSUME Shape, Implanting, Insert \/ InsertFails
             PROVE  Shape' /\ Implanting'
  OBVIOUS
<1>1. /\ Summing /\ (total >= Covered \/ at = Len(image))
  BY DEF Implanting, Insert, InsertFails
<1>2. /\ at \in Nat /\ image \in Cells /\ Len(image) \in Nat /\ at <= Len(image)
      /\ Len(image) % Sector = 0 /\ total \in Nat /\ pvd \in Nat
      /\ Found(image, pvd) /\ image \in Images /\ total <= at /\ Len(fed) = at
      /\ Digest(ctx, fed) /\ fed \in Cells
  BY <1>1, CellsLen, Constants DEF Shape, Summing, Untouched, Digest
<1>3. CASE InsertFails
  <2>1. Shape'
    BY <1>3 DEF Shape, InsertFails
  <2>2. Ready'
    BY <1>1, <1>3 DEF Ready, Marked, Summing, Untouched, InsertFails, Shape
  <2> QED
    BY <1>3, <2>1, <2>2 DEF Implanting, InsertFails
<1>4. CASE Insert
  <2>1. /\ image' = Inserted /\ mediasum' = MD5_Final(ctx) /\ pc' = "burn" /\ at' = at
        /\ pvd' = pvd /\ total' = total /\ ctx' = ctx /\ fed' = fed /\ verdict' = verdict
        /\ implanted' = IF AppData(image, pvd) = Blank(AppLength) THEN "fresh" ELSE "forced"
    BY <1>4 DEF Insert
  <2>2. /\ Inserted \in Cells /\ Len(Inserted) = Len(image)
        /\ \A k \in 1 .. Len(image) : k \in Area(pvd) \/ Inserted[k] = image[k]
        /\ Inserted[pvd + AppOffset + 1] = Digits
        /\ \A k \in Area(pvd) : k # pvd + AppOffset + 1 => Inserted[k] = Space
    BY <1>2, InsertedFacts
  <2>3. PICK m \in Cells : m = Inserted /\ Len(m) = Len(image)
    BY <2>2
  <2>4. Found(m, pvd) /\ CoverOf(m, pvd) = Covered
    <3>1. \A k \in 1 .. Len(image) : k \in Area(pvd) \/ m[k] = image[k]
      BY <2>2, <2>3
    <3> QED
      BY <1>2, <2>3, <3>1, SameFound DEF Covered
  <2>5. Covered \in Int /\ Covered <= Len(image)
    BY <1>2, Fits, ImageFacts DEF Covered
  <2>6. \A k \in 1 .. at : fed[k] = image[k]
    BY <1>1 DEF Summing
  <2>7. Covered <= at
    BY <1>1, <1>2, <2>5
  <2>8. ASSUME Covered >= 0, Covered < UInt PROVE at = Covered
    <3>1. total = at /\ (at = 0 \/ at <= Covered)
      BY <1>1, <2>8 DEF Summing
    <3> QED
      BY <1>2, <2>5, <2>7, <2>8, <3>1
  <2>9. ASSUME NEW k \in 1 .. at PROVE k \in Area(pvd) \/ fed[k] = m[k]
    <3>1. k \in 1 .. Len(image)
      BY <1>2
    <3> QED
      BY <2>2, <2>3, <2>6, <3>1
  <2>10. ASSUME AppData(image, pvd) = Blank(AppLength), NEW k \in 1 .. at, k \in Area(pvd)
         PROVE  fed[k] = Space
    <3>1. image[k] = Space
      BY <1>2, <2>10, BlankArea
    <3> QED
      BY <2>6, <3>1
  <2>11. /\ m[pvd + AppOffset + 1] = Digits
         /\ \A k \in Area(pvd) : k # pvd + AppOffset + 1 => m[k] = Space
    BY <2>2, <2>3
  <2>12. implanted' = "fresh" => AppData(image, pvd) = Blank(AppLength)
    BY <2>1
  <2>13. /\ Found(m, pvd)
         /\ Len(fed) <= Len(m) /\ CoverOf(m, pvd) <= Len(fed)
         /\ \A k \in 1 .. Len(fed) : k \in Area(pvd) \/ fed[k] = m[k]
         /\ CoverOf(m, pvd) >= 0 /\ CoverOf(m, pvd) < UInt => Len(fed) = CoverOf(m, pvd)
         /\ implanted' = "fresh" =>
               /\ \A k \in 1 .. Len(fed) : k \in Area(pvd) => fed[k] = Space
               /\ m[pvd + AppOffset + 1] = Digits
               /\ \A k \in Area(pvd) : k # pvd + AppOffset + 1 => m[k] = Space
    <3>1. Len(fed) <= Len(m) /\ CoverOf(m, pvd) <= Len(fed)
      BY <1>2, <2>3, <2>4, <2>7
    <3>2. \A k \in 1 .. Len(fed) : k \in Area(pvd) \/ fed[k] = m[k]
      BY <1>2, <2>9
    <3>3. CoverOf(m, pvd) >= 0 /\ CoverOf(m, pvd) < UInt => Len(fed) = CoverOf(m, pvd)
      BY <1>2, <2>4, <2>8
    <3>4. implanted' = "fresh" => \A k \in 1 .. Len(fed) : k \in Area(pvd) => fed[k] = Space
      BY <1>2, <2>10, <2>12
    <3> QED
      BY <2>4, <2>11, <3>1, <3>2, <3>3, <3>4
  <2>14. PICK d \in Nat, f \in Cells : d = pvd /\ f = fed
    BY <1>2
  <2>15. image' = m /\ mediasum' = Reference(f)
    BY <1>2, <2>1, <2>3, <2>14, DigestFinal
  <2>16. Imprint(image, d, f)'
    BY <2>13, <2>14, <2>15 DEF Imprint, Found, Scanned, CoverOf
  <2>17. Reference(f) # <<>>
    BY ReferenceInjective
  <2>18. implanted' \in {"fresh", "forced"}
    BY <2>1
  <2>19. Len(m) % Sector = 0
    BY <1>2, <2>3
  <2>20. Marked(image)'
    BY <2>15, <2>16, <2>18, <2>19 DEF Marked
  <2>21. verdict' = "none"
    BY <1>1, <2>1 DEF Summing, Untouched
  <2>22. Ready'
    BY <2>15, <2>17, <2>20, <2>21 DEF Ready
  <2>23. Shape'
    BY <2>1, <2>15, <2>18, <2>19 DEF Shape
  <2> QED
    BY <2>1, <2>22, <2>23 DEF Implanting
<1> QED
  BY <1>3, <1>4

-----------------------------------------------------------------------------
(* The medium and the check *)

\* A medium has one wrong cell at most, which does not read as a descriptor.
Burnt ==
    /\ \E b \in Nat : \A k \in 1 .. Len(image) :
          k <= Len(master) /\ k # b => image[k] = master[k]
    /\ \A k \in 1 .. Len(image) :
          k <= Len(master) => image[k] = master[k] \/ image[k] \notin {Primary, Terminator}

\* The medium is good, as far as it is summed.
Good ==
    /\ implanted = "fresh" /\ Agrees(FALSE) /\ MaskFits
    /\ CoverOf(master, Descriptor(master)) < UInt

\* The checker looks for the descriptor.
Looking ==
    /\ Scanned(image, at) /\ fed = <<>> /\ verdict = "none"
    /\ implanted # "no" => mediasum # <<>>
    /\ Good => at <= Descriptor(master)

\* What the checker sums of a good medium is what was summed of the image.
Exact ==
    /\ mediasum # <<>> /\ pvd = Descriptor(master)
    /\ at <= CoverOf(master, pvd)
    /\ at = CoverOf(master, pvd) \/ at % Buffer = 0
    /\ \A k \in 1 .. at : k \in Area(pvd) => fed[k] = Space

\* The checker sums the medium, with blanks in the application data.
Reading ==
    /\ Found(image, pvd)
    /\ Len(fed) = at /\ at <= Len(image) /\ verdict = "none"
    /\ \A k \in 1 .. at : fed[k] = image[k] \/ (k \in Area(pvd) /\ fed[k] = Space)
    /\ Good => Exact

\* What the two properties say in the end.
Outcome ==
    /\ verdict = "match" => implanted # "no" /\ Agrees(TRUE)
    /\ Good => verdict = "match"

Checking ==
    /\ pc \in {"cparse", "csum", "end"} => Marked(master) /\ Burnt
    /\ pc = "cparse" => Looking
    /\ pc = "csum" => Reading
    /\ pc = "end" => Outcome

\* The image that is burnt.
LEMMA BurnStep == Shape /\ Implanting /\ Burn => Shape' /\ Checking'
<1> SUFFICES ASSUME Shape, Implanting, Burn
             PROVE  Shape' /\ Checking'
  OBVIOUS
<1>1. Ready
  BY DEF Implanting, Burn
<1>2. /\ image \in Cells /\ Len(image) \in Nat /\ Len(image) % Sector = 0
      /\ \A k \in 1 .. Len(image) : image[k] \in Int
      /\ Sector \in Nat /\ Sector > 0 /\ First \in Nat
  BY CellsLen, Constants DEF Shape
<1>3. /\ master' = image /\ pc' = "cparse" /\ at' = First /\ pvd' = 0
      /\ ctx' = MD5_Init /\ fed' = <<>> /\ mediasum' = mediasum /\ total' = total
      /\ implanted' = implanted /\ verdict' = verdict
  BY DEF Burn, First
<1>4. Marked(master)'
  BY <1>1, <1>3 DEF Ready, Marked, Imprint, Found, Scanned, CoverOf
<1> DEFINE Medium ==
      /\ image' \in Cells /\ Len(image') % Sector = 0
      /\ \E b \in Nat : \A k \in 1 .. Len(image') :
            k <= Len(image) /\ k # b => image'[k] = image[k]
      /\ \A k \in 1 .. Len(image') :
            k <= Len(image) => image'[k] = image[k] \/ image'[k] \notin {Primary, Terminator}
<1>5. Medium
  <2>1. ASSUME NEW b \in 1 .. Len(image), NEW v \in {Wrong, Space},
               image' = [image EXCEPT ![b] = v]
        PROVE  Medium
    <3>1. v \in Int /\ v \notin {Primary, Terminator}
      BY DEF Wrong, Space, Primary, Terminator
    <3>2. image \in Seq(Int)
      BY <1>2 DEF Cells
    <3>3. /\ image' \in Seq(Int) /\ Len(image') = Len(image)
          /\ \A k \in 1 .. Len(image) : image'[k] = IF k = b THEN v ELSE image[k]
      BY <2>1, <3>1, <3>2, ExceptSeq
    <3>4. b \in Nat
      BY <1>2
    <3>5. \A k \in 1 .. Len(image') : k <= Len(image) /\ k # b => image'[k] = image[k]
      BY <3>3
    <3>6. \A k \in 1 .. Len(image') :
             k <= Len(image) => image'[k] = image[k] \/ image'[k] \notin {Primary, Terminator}
      BY <3>1, <3>3
    <3> QED
      BY <1>2, <3>3, <3>4, <3>5, <3>6 DEF Cells
  <2>2. ASSUME image' \in Cells, Len(image') % Sector = 0,
               \A k \in 1 .. Len(image') : k <= Len(image) => image'[k] = image[k]
        PROVE  Medium
    BY <2>2
  <2>3. ASSUME NEW n \in 1 .. Len(image) \div Sector - FirstSector - 1,
               image' = SubSeq(image, 1, Len(image) - n * Sector)
        PROVE  Medium
    <3>1. PICK q \in Nat, w \in Nat : q = Len(image) \div Sector /\ w = Len(image) % Sector
                                      /\ Len(image) = q * Sector + w
      <4>1. Len(image) \in Nat /\ Sector \in Nat /\ Sector > 0
        BY <1>2
      <4> QED
        BY <4>1, DivMod
    <3>2. FirstSector \in Nat
      BY MediacheckAssumption
    <3>3. PICK e \in Nat : q = e + n /\ n \in Nat
      <4>1. n \in Nat /\ n <= q /\ q - n \in Nat /\ q = (q - n) + n
        BY <3>1, <3>2
      <4> QED
        BY <4>1
    <3>4. q * Sector = e * Sector + n * Sector /\ e * Sector \in Nat /\ n * Sector \in Nat
      BY <1>2, <3>3
    <3>5. PICK m \in Nat : m = e * Sector /\ m <= Len(image) /\ Len(image) - n * Sector = m
      <4>1. PICK x \in Nat, y \in Nat, z \in Nat :
               x = e * Sector /\ y = n * Sector /\ z = q * Sector /\ z = x + y
        BY <3>4
      <4>2. w = 0
        BY <1>2, <3>1
      <4>3. Len(image) = x + y
        BY <3>1, <4>1, <4>2
      <4>4. x <= Len(image) /\ Len(image) - y = x
        BY <4>3
      <4> QED
        BY <4>1, <4>4
    <3>6. /\ SubSeq(image, 1, m) \in Cells /\ Len(SubSeq(image, 1, m)) = m
          /\ \A i \in 1 .. m : SubSeq(image, 1, m)[i] = image[i]
      BY <1>2, <3>5, CutAt
    <3>7. m % Sector = 0
      <4>1. PICK z \in Nat : z = 0
        OBVIOUS
      <4>2. (e * Sector + z) % Sector = z
        BY <1>2, <4>1, DivUnique
      <4>3. e * Sector + z = m
        BY <3>4, <3>5, <4>1
      <4> QED
        BY <4>1, <4>2, <4>3
    <3>8. image' = SubSeq(image, 1, m)
      BY <2>3, <3>5
    <3> QED
      BY <2>2, <3>6, <3>7, <3>8
  <2>4. ASSUME image' = image \o [k \in 1 .. Sector |-> 0]
        PROVE  Medium
    <3>1. PICK z \in Cells : z = [k \in 1 .. Sector |-> 0] /\ Len(z) = Sector
      <4>1. Sector \in Nat
        BY <1>2
      <4>2. Zeros(Sector) \in Cells /\ Len(Zeros(Sector)) = Sector
        BY <4>1, ZerosFacts
      <4> QED
        BY <4>2 DEF Zeros
    <3>2. /\ image \o z \in Cells /\ Len(image \o z) = Len(image) + Len(z)
          /\ \A i \in 1 .. Len(image) : (image \o z)[i] = image[i]
      BY <1>2, CellsJoined
    <3>3. (Len(image) + Sector) % Sector = 0
      <4>1. PICK i \in Nat, l \in Nat : i = 1 /\ l = Len(image)
        BY <1>2
      <4>2. (i * Sector + l) % Sector = l % Sector
        BY <1>2, ModTimes
      <4>3. i * Sector + l = Len(image) + Sector
        BY <1>2, <4>1
      <4> QED
        BY <1>2, <4>1, <4>2, <4>3
    <3>4. image' = image \o z
      BY <2>4, <3>1
    <3>5. Len(image') % Sector = 0 /\ image' \in Cells
      BY <3>1, <3>2, <3>3, <3>4
    <3>6. \A k \in 1 .. Len(image') : k <= Len(image) => image'[k] = image[k]
      BY <1>2, <3>2, <3>4
    <3> QED
      BY <2>2, <3>5, <3>6
  <2>5. \/ \E k \in 1 .. Len(image) : image' = [image EXCEPT ![k] = Wrong]
        \/ \E k \in 1 .. Len(image) : image' = [image EXCEPT ![k] = Space]
        \/ \E n \in 1 .. Len(image) \div Sector - FirstSector - 1 :
              image' = SubSeq(image, 1, Len(image) - n * Sector)
        \/ image' = image
        \/ image' = image \o [k \in 1 .. Sector |-> 0]
    BY DEF Burn
  <2>6. CASE \E k \in 1 .. Len(image) : image' = [image EXCEPT ![k] = Wrong]
    BY <2>1, <2>6
  <2>7. CASE \E k \in 1 .. Len(image) : image' = [image EXCEPT ![k] = Space]
    BY <2>1, <2>7
  <2>8. CASE image' = image
    BY <1>2, <2>2, <2>8
  <2> QED
    BY <2>3, <2>4, <2>5, <2>6, <2>7, <2>8
<1>6. Burnt'
  BY <1>3, <1>5 DEF Burnt
<1>7. Shape'
  <2>1. Digest(ctx', fed')
    BY <1>3, DigestInit
  <2> QED
    BY <1>2, <1>3, <1>5, <2>1 DEF Shape
<1>8. Looking'
  <2>1. Scanned(image', First)
    BY ScannedFirst
  <2>2. verdict' = "none" /\ (implanted' # "no" => mediasum' # <<>>)
    BY <1>1, <1>3 DEF Ready
  <2>3. ASSUME implanted # "no" PROVE First <= Descriptor(image)
    <3>1. PICK d \in Nat : Found(image, d)
      BY <1>1, <2>3 DEF Ready, Marked, Imprint
    <3>2. Descriptor(image) = d
      BY <1>2, <3>1, FoundFirst
    <3> QED
      BY <3>1, <3>2 DEF Found, Scanned
  <2>4. Descriptor(master)' = Descriptor(image)
    BY <1>3 DEF Descriptor, Descriptors
  <2>5. Good' => at' <= Descriptor(master)'
    BY <1>3, <2>3, <2>4 DEF Good
  <2>6. Scanned(image, at)'
    BY <1>3, <2>1 DEF Scanned
  <2> QED
    BY <1>3, <2>2, <2>5, <2>6 DEF Looking
<1> QED
  BY <1>3, <1>4, <1>6, <1>7, <1>8 DEF Checking

\* Multiples of a buffer are multiples of a sector.
LEMMA BufferSector ==
    ASSUME NEW n \in Nat, n % Buffer = 0
    PROVE  n % Sector = 0
<1>1. Sector \in Nat /\ Sector > 0 /\ Buffer \in Nat /\ Buffer > 0 /\ Buffer % Sector = 0
  BY Constants
<1>2. PICK z \in Nat : Buffer = z * Sector
  <2>a. Buffer \in Nat /\ Sector \in Nat /\ Sector > 0
    BY <1>1
  <2>1. PICK q \in Nat, w \in Nat : w = Buffer % Sector /\ Buffer = q * Sector + w
    BY <2>a, DivMod
  <2>2. w = 0 /\ q * Sector \in Nat
    BY <1>1, <2>1
  <2>3. Buffer = q * Sector
    BY <2>1, <2>2
  <2> QED
    BY <2>3
<1>3. PICK q \in Nat, w \in Nat : w = n % Buffer /\ n = q * Buffer + w
  <2>a. Buffer \in Nat /\ Buffer > 0
    BY <1>1
  <2> QED
    BY <2>a, DivMod
<1>4. PICK m \in Nat : m = q * z
  OBVIOUS
<1>5. q * (z * Sector) = (q * z) * Sector
  BY <1>1
<1>6. q * Buffer = m * Sector
  BY <1>2, <1>4, <1>5
<1>7. w = 0
  BY <1>3
<1>8. n = m * Sector + w
  BY <1>3, <1>6
<1>9. (m * Sector + w) % Sector = w
  BY <1>1, <1>7, DivUnique
<1> QED
  BY <1>7, <1>8, <1>9

\* What is known of a good medium: d is the descriptor, c what is summed, s the
\* place of the digits in their buffer.
GoodAt(d, c, s) ==
    /\ d \in Nat /\ c \in Nat /\ s \in Nat
    /\ d = Descriptor(master) /\ c = CoverOf(master, d) /\ s = (d + AppOffset) % Buffer
    /\ d % Sector = 0 /\ c % Sector = 0 /\ c < UInt
    /\ s > 0 /\ 2 * s < Buffer /\ 2 * s < c - (d + AppOffset - s) /\ d + AppOffset + 1 <= c
    /\ c <= Len(image) /\ c <= Len(master)
    /\ \A k \in 1 .. c : image[k] = master[k]
    /\ Found(master, d)
    /\ master[d + AppOffset + 1] = Digits
    /\ \A k \in Area(d) : k # d + AppOffset + 1 => master[k] = Space

\* These facts follow from Good.
LEMMA GoodFacts ==
    ASSUME Marked(master), image \in Cells, Good
    PROVE  \E d, c, s : GoodAt(d, c, s)
<1>1. PICK d \in Nat, f \in Cells : Imprint(master, d, f)
  BY DEF Marked, Good
<1>2. master \in Cells /\ Len(master) % Sector = 0 /\ Found(master, d)
  BY <1>1 DEF Marked, Imprint
<1>3. Descriptor(master) = d
  BY <1>2, FoundFirst
<1>4. /\ Sector \in Nat /\ Sector > 0 /\ Buffer \in Nat /\ Buffer > 0 /\ AppOffset \in Nat
      /\ AppLength \in Nat /\ AppLength > 0 /\ AppOffset + AppLength <= Sector
      /\ SizeOffset \in Nat /\ SizeOffset < AppOffset
  BY Constants
<1>5. d % Sector = 0 /\ CoverOf(master, d) \in Int
  BY <1>2, Fits
<1>6. PICK c \in Int : c = CoverOf(master, d)
  BY <1>5
<1>7. PICK a \in Nat : a = d + AppOffset
  BY <1>4
<1>8. PICK q \in Nat, s \in Nat : s = a % Buffer /\ s < Buffer /\ a = q * Buffer + s
  <2>1. Buffer \in Nat /\ Buffer > 0
    BY <1>4
  <2> QED
    BY <2>1, DivMod
<1>9. s <= a
  <2>1. q * Buffer \in Nat
    BY <1>4
  <2> QED
    BY <1>8, <2>1
<1>10. 2 * s < Buffer /\ 2 * s < c - (a - s)
  <2>1. 2 * s < Min({Buffer, c - (a - s)})
    BY <1>3, <1>6, <1>7, <1>8 DEF Good, MaskFits
  <2>2. Buffer \in Int /\ c - (a - s) \in Int
    BY <1>4
  <2>3. Min({Buffer, c - (a - s)}) = IF Buffer <= c - (a - s) THEN Buffer ELSE c - (a - s)
    BY <2>2, MinOf
  <2> QED
    BY <1>4, <2>1, <2>2, <2>3
<1>11. a + 1 <= c /\ c \in Nat
  BY <1>9, <1>10
<1>12. s > 0
  <2>1. CASE s = 0
    <3>1. a % Sector = 0
      BY <1>8, <2>1, BufferSector
    <3>2. d < a /\ d % Sector = a % Sector
      BY <1>4, <1>5, <1>7, <3>1
    <3>3. a >= d + Sector
      BY <1>4, <3>2, SameMod
    <3> QED
      BY <1>4, <1>7, <3>3
  <2> QED
    BY <2>1
<1>13. c % Sector = 0
  <2>1. CoverOf(master, d) >= 0
    BY <1>6, <1>11
  <2>2. CoverOf(master, d) % Sector = 0
    BY <1>2, <2>1, CoverMod
  <2> QED
    BY <1>6, <2>2
<1>14. \A k \in 1 .. c : k <= Len(image) /\ k <= Len(master) /\ image[k] = master[k]
  BY <1>3, <1>6 DEF Good, Agrees
<1>15. c <= Len(image) /\ c <= Len(master)
  <2>1. c \in 1 .. c
    BY <1>11
  <2> QED
    BY <1>14, <2>1
<1>16. c < UInt
  BY <1>3, <1>6 DEF Good
<1>17. /\ master[d + AppOffset + 1] = Digits
       /\ \A k \in Area(d) : k # d + AppOffset + 1 => master[k] = Space
  BY <1>1 DEF Imprint, Good
<1>18. GoodAt(d, c, s)
  <2>1. d = Descriptor(master) /\ c = CoverOf(master, d) /\ s = (d + AppOffset) % Buffer
    BY <1>3, <1>6, <1>7, <1>8
  <2>a. d + AppOffset - s = a - s /\ d + AppOffset + 1 = a + 1
    <3>1. AppOffset \in Nat
      BY <1>4
    <3> QED
      BY <1>7, <3>1
  <2>2. 2 * s < c - (d + AppOffset - s) /\ d + AppOffset + 1 <= c
    BY <1>10, <1>11, <2>a
  <2> QED
    BY <1>2, <1>5, <1>10, <1>11, <1>12, <1>13, <1>14, <1>15, <1>16, <1>17, <2>1, <2>2 DEF GoodAt
<1> QED
  BY <1>18

\* The digits are on a good medium.
LEMMA GoodDigits ==
    ASSUME NEW d, NEW c, NEW s, GoodAt(d, c, s)
    PROVE  /\ d + AppOffset + 1 \in 1 .. c /\ master[d + AppOffset + 1] = Digits
           /\ \A k \in 1 .. c : image[k] = master[k]
           /\ c \in Nat /\ d = Descriptor(master) /\ c = CoverOf(master, d)
<1>1. d \in Nat /\ c \in Nat /\ d + AppOffset + 1 <= c
  BY DEF GoodAt
<1>2. AppOffset \in Nat
  BY Constants
<1>3. d + AppOffset + 1 \in 1 .. c
  BY <1>1, <1>2
<1> QED
  BY <1>1, <1>3 DEF GoodAt

\* A step that leaves the medium, the image and the sum as they are.
LEMMA SameMedium ==
    ASSUME image' = image, master' = master, implanted' = implanted
    PROVE  /\ Good' = Good /\ Burnt' = Burnt /\ Descriptor(master)' = Descriptor(master)
           /\ Agrees(TRUE)' = Agrees(TRUE)
<1>1. Descriptor(master)' = Descriptor(master)
  BY DEF Descriptor, Descriptors
<1>2. Agrees(FALSE)' = Agrees(FALSE) /\ Agrees(TRUE)' = Agrees(TRUE)
  BY <1>1 DEF Agrees, CoverOf
<1>3. MaskFits' = MaskFits
  BY <1>1 DEF MaskFits, CoverOf
<1>4. Good' = Good
  BY <1>1, <1>2, <1>3 DEF Good, CoverOf
<1> QED
  BY <1>1, <1>2, <1>4 DEF Burnt

\* Marks stay while the sum stays or is dropped.
LEMMA SameMarks ==
    ASSUME Marked(master), master' = master, implanted' = implanted,
           mediasum' = mediasum \/ mediasum' = <<>>
    PROVE  Marked(master)'
<1>1. \A d, f : Imprint(master, d, f)' = Imprint(master, d, f)
  BY DEF Imprint, Found, Scanned, CoverOf
<1>2. CASE implanted = "no"
  BY <1>2 DEF Marked
<1>3. CASE implanted # "no"
  <2>1. PICK d \in Nat, f \in Cells : Imprint(master, d, f) /\ mediasum \in {<<>>, Reference(f)}
    BY <1>3 DEF Marked
  <2>2. Imprint(master, d, f)' /\ mediasum' \in {<<>>, Reference(f)}
    BY <1>1, <2>1
  <2> QED
    BY <1>3, <2>2 DEF Marked
<1> QED
  BY <1>2, <1>3

\* The steps that look for the descriptor.
LEMMA LookSteps ==
    Shape /\ Checking /\ (CheckNext \/ CheckNA \/ CheckStart) => Shape' /\ Checking'
<1> SUFFICES ASSUME Shape, Checking, CheckNext \/ CheckNA \/ CheckStart
             PROVE  Shape' /\ Checking'
  OBVIOUS
<1>1. Looking /\ Marked(master) /\ Burnt
  BY DEF Checking, CheckNext, CheckNA, CheckStart
<1>2. at \in Nat /\ Sector \in Nat /\ Sector > 0 /\ image \in Cells /\ Scanned(image, at)
  BY <1>1, Constants DEF Shape, Looking
<1>3. /\ image' = image /\ master' = master /\ implanted' = implanted /\ total' = total
      /\ ctx' = ctx /\ fed' = fed /\ (mediasum' = mediasum \/ mediasum' = <<>>)
  BY DEF CheckNext, CheckNA, CheckStart
<1>4. /\ Good' = Good /\ Burnt' /\ Descriptor(master)' = Descriptor(master)
      /\ Marked(master)' /\ Agrees(TRUE)' = Agrees(TRUE)
  BY <1>1, <1>3, SameMedium, SameMarks
<1>5. ASSUME Good
      PROVE  \E d, c, s : /\ GoodAt(d, c, s) /\ at <= d /\ at < Len(image)
                          /\ (image[at + 1] = Primary <=> at = d)
                          /\ (image[at + 1] \notin {Primary, Terminator} <=> at < d)
  <2>1. PICK d, c, s : GoodAt(d, c, s)
    BY <1>1, <1>2, <1>5, GoodFacts
  <2>2. /\ d \in Nat /\ d = Descriptor(master) /\ Found(master, d) /\ c \in Nat
        /\ d + AppOffset + 1 <= c /\ c <= Len(image) /\ \A k \in 1 .. c : image[k] = master[k]
    BY <2>1 DEF GoodAt
  <2>3. at <= d
    BY <1>1, <1>5, <2>2 DEF Looking
  <2>4. at < c /\ at + 1 \in 1 .. c /\ Len(image) \in Nat
    BY <1>2, <2>2, <2>3, Constants, CellsLen
  <2>5. image[at + 1] = master[at + 1]
    BY <2>2, <2>4
  <2>6. CASE at = d
    <3>1. master[at + 1] = Primary
      BY <2>2, <2>6 DEF Found
    <3> QED
      BY <1>2, <2>1, <2>2, <2>3, <2>4, <2>5, <2>6, <3>1
  <2>7. CASE at < d
    <3>1. at \in First .. d - 1 /\ at % Sector = 0
      BY <1>2, <2>2, <2>7, Constants DEF Scanned
    <3>2. master[at + 1] \notin {Primary, Terminator}
      BY <2>2, <3>1 DEF Found, Scanned
    <3> QED
      BY <1>2, <2>1, <2>2, <2>3, <2>4, <2>5, <2>7, <3>2
  <2> QED
    BY <1>2, <2>2, <2>3, <2>6, <2>7
<1>6. CASE CheckNext
  <2>1. at < Len(image) /\ image[at + 1] \notin {Primary, Terminator}
    BY <1>2, <1>6, KindFacts DEF CheckNext
  <2>2. Scanned(image, at + Sector)
    BY <1>2, <2>1, ScannedNext
  <2>3. /\ at' = at + Sector /\ pc' = "cparse" /\ verdict' = verdict /\ mediasum' = mediasum
        /\ pvd' = pvd
    BY <1>6 DEF CheckNext
  <2>4. ASSUME Good PROVE at' <= Descriptor(master)
    <3>1. PICK d, c, s : GoodAt(d, c, s) /\ at < d
      BY <1>5, <2>1, <2>4
    <3>2. d \in Nat /\ d % Sector = 0 /\ d = Descriptor(master) /\ at % Sector = 0
      BY <1>2, <3>1 DEF GoodAt, Scanned
    <3>3. d >= at + Sector
      <4>1. at % Sector = d % Sector
        BY <3>2
      <4> QED
        BY <1>2, <3>1, <3>2, <4>1, SameMod
    <3> QED
      BY <1>2, <2>3, <3>2, <3>3
  <2>5. Scanned(image, at)'
    BY <1>3, <2>2, <2>3 DEF Scanned
  <2>6. Looking'
    BY <1>1, <1>3, <1>4, <2>3, <2>4, <2>5 DEF Looking
  <2>7. Shape'
    BY <1>2, <1>3, <2>3 DEF Shape
  <2> QED
    BY <1>4, <2>3, <2>6, <2>7 DEF Checking
<1>7. CASE CheckNA
  <2>1. pc' = "end" /\ verdict' = "na" /\ at' = at /\ pvd' = pvd
    BY <1>7 DEF CheckNA
  <2>2. ~Good
    <3> SUFFICES ASSUME Good PROVE FALSE
      OBVIOUS
    <3>1. PICK d, c, s : /\ GoodAt(d, c, s) /\ at <= d /\ at < Len(image)
                         /\ (image[at + 1] = Primary <=> at = d)
                         /\ (image[at + 1] \notin {Primary, Terminator} <=> at < d)
      BY <1>5
    <3>2. Kind = Primary /\ Cell(at + AppOffset) = Space
      <4>1. Kind # Eof
        BY <1>2, <3>1, KindFacts
      <4>2. Kind # Terminator
        <5>1. CASE Kind = Terminator
          <6>1. image[at + 1] = Terminator
            BY <1>2, <5>1, KindFacts
          <6>2. image[at + 1] # Primary
            BY <6>1 DEF Terminator, Primary
          <6> QED
            BY <1>2, <3>1, <6>1, <6>2 DEF GoodAt
        <5> QED
          BY <5>1
      <4> QED
        BY <1>7, <4>1, <4>2 DEF CheckNA
    <3>3. image[at + 1] = Primary
      BY <1>2, <3>2, KindFacts
    <3>4. at = d
      BY <3>1, <3>3
    <3>5. d + AppOffset + 1 \in 1 .. c /\ master[d + AppOffset + 1] = Digits
          /\ \A k \in 1 .. c : image[k] = master[k]
      BY <3>1, GoodDigits
    <3>6. image[at + AppOffset + 1] = Digits
      BY <3>4, <3>5
    <3>7. Cell(at + AppOffset) = image[at + AppOffset + 1]
      BY DEF Cell
    <3> QED
      BY <3>2, <3>6, <3>7 DEF Digits, Space
  <2>3. Outcome'
    BY <1>4, <2>1, <2>2 DEF Outcome
  <2>4. Shape'
    BY <1>3, <2>1 DEF Shape
  <2> QED
    BY <1>4, <2>1, <2>3, <2>4 DEF Checking
<1>8. CASE CheckStart
  <2>1. /\ pc' = "csum" /\ pvd' = at /\ at' = 0 /\ verdict' = verdict
        /\ mediasum' = IF Cell(at + AppOffset) = Digits THEN mediasum ELSE <<>>
    BY <1>8 DEF CheckStart
  <2>2. at < Len(image) /\ image[at + 1] = Primary
    BY <1>2, <1>8, KindFacts DEF CheckStart
  <2>3. Found(image, at)
    BY <1>2, <2>2 DEF Found
  <2>4. Found(image, pvd)'
    BY <1>3, <2>1, <2>3 DEF Found, Scanned
  <2>5. Len(fed') = 0 /\ verdict' = "none"
    BY <1>1, <1>3, <2>1 DEF Looking
  <2>6. ASSUME Good PROVE Exact'
    <3>1. PICK d, c, s : GoodAt(d, c, s) /\ at = d
      BY <1>5, <2>2, <2>6
    <3>2. /\ d + AppOffset + 1 \in 1 .. c /\ master[d + AppOffset + 1] = Digits
          /\ \A k \in 1 .. c : image[k] = master[k]
          /\ c \in Nat /\ d = Descriptor(master) /\ c = CoverOf(master, d)
      BY <3>1, GoodDigits
    <3>3. Cell(at + AppOffset) = Digits
      BY <3>1, <3>2 DEF Cell
    <3>4. mediasum' # <<>>
      BY <1>1, <2>1, <2>6, <3>3 DEF Looking, Good
    <3>5. 0 % Buffer = 0
      BY Constants
    <3>6. pvd' = d /\ CoverOf(master, pvd)' = c /\ Descriptor(master)' = d
      <4>1. pvd' = d /\ Descriptor(master)' = d
        BY <1>4, <2>1, <3>1, <3>2
      <4> QED
        BY <1>3, <3>2, <4>1 DEF CoverOf
    <3> QED
      BY <2>1, <3>2, <3>4, <3>5, <3>6 DEF Exact
  <2>7. Reading'
    <3>1. at' <= Len(image')
      BY <1>2, <1>3, <2>1, CellsLen
    <3>2. \A k \in 1 .. at' : fed'[k] = image'[k] \/ (k \in Area(pvd') /\ fed'[k] = Space)
      BY <2>1
    <3>3. Good' => Exact'
      BY <1>4, <2>6
    <3> QED
      BY <2>1, <2>4, <2>5, <3>1, <3>2, <3>3 DEF Reading, Area
  <2>8. Shape'
    BY <1>2, <1>3, <2>1 DEF Shape
  <2> QED
    BY <1>4, <2>1, <2>7, <2>8 DEF Checking
<1> QED
  BY <1>6, <1>7, <1>8

\* A buffer with a part of it blanked.
Sent(d, a, b) == SubSeq(d, 1, a) \o Blank(b - a) \o SubSeq(d, b + 1, Len(d))

\* Its cells.
LEMMA SentFacts ==
    ASSUME NEW d \in Cells, NEW a \in Nat, NEW b \in Nat, a <= b, b <= Len(d),
           NEW t, t = Sent(d, a, b)
    PROVE  /\ t \in Cells /\ Len(t) = Len(d)
           /\ \A i \in 1 .. Len(d) : t[i] = IF i \in a + 1 .. b THEN Space ELSE d[i]
<1>1. Len(d) \in Nat
  BY CellsLen
<1>2. PICK n \in Nat : n = b - a
  OBVIOUS
<1>3. PICK x : x = SubSeq(d, 1, a)
  OBVIOUS
<1>4. x \in Cells /\ Len(x) = a /\ \A i \in 1 .. a : x[i] = d[i]
  <2>1. a <= Len(d)
    BY <1>1
  <2> QED
    BY <1>3, <2>1, CutAt
<1>5. PICK y : y = Blank(n)
  OBVIOUS
<1>6. y \in Cells /\ Len(y) = n /\ \A i \in 1 .. n : y[i] = Space
  BY <1>5 DEF Blank, Cells, Space
<1>7. PICK z : z = SubSeq(d, b + 1, Len(d))
  OBVIOUS
<1>8. z \in Cells /\ Len(z) = Len(d) - b /\ \A i \in 1 .. Len(d) - b : z[i] = d[b + i]
  <2>1. PICK l \in Nat : l = Len(d)
    BY <1>1
  <2>2. b <= l /\ l <= Len(d)
    BY <2>1
  <2>3. /\ SubSeq(d, b + 1, l) \in Cells /\ Len(SubSeq(d, b + 1, l)) = l - b
        /\ \A i \in 1 .. l - b : SubSeq(d, b + 1, l)[i] = d[b + i]
    BY <2>2, CellsPart
  <2> QED
    BY <1>7, <2>1, <2>3
<1>9. PICK u : u = x \o y
  OBVIOUS
<1>10. /\ u \in Cells /\ Len(u) = b
       /\ \A i \in 1 .. a : u[i] = d[i]
       /\ \A i \in 1 .. n : u[a + i] = Space
  <2>1. /\ x \o y \in Cells /\ Len(x \o y) = Len(x) + Len(y)
        /\ \A i \in 1 .. Len(x) : (x \o y)[i] = x[i]
        /\ \A i \in 1 .. Len(y) : (x \o y)[Len(x) + i] = y[i]
    BY <1>4, <1>6, CellsJoined
  <2> QED
    BY <1>2, <1>4, <1>6, <1>9, <2>1
<1>11. t = u \o z
  BY <1>2, <1>3, <1>5, <1>7, <1>9 DEF Sent
<1>12. /\ t \in Cells /\ Len(t) = Len(d)
       /\ \A i \in 1 .. b : t[i] = u[i]
       /\ \A i \in 1 .. Len(d) - b : t[b + i] = d[b + i]
  <2>1. /\ u \o z \in Cells /\ Len(u \o z) = Len(u) + Len(z)
        /\ \A i \in 1 .. Len(u) : (u \o z)[i] = u[i]
        /\ \A i \in 1 .. Len(z) : (u \o z)[Len(u) + i] = z[i]
    BY <1>8, <1>10, CellsJoined
  <2>2. Len(u) + Len(z) = Len(d)
    BY <1>1, <1>8, <1>10
  <2> QED
    BY <1>8, <1>10, <1>11, <2>1, <2>2
<1>13. ASSUME NEW i \in 1 .. Len(d)
       PROVE  t[i] = IF i \in a + 1 .. b THEN Space ELSE d[i]
  <2>1. CASE i <= a
    <3>1. i \in 1 .. a /\ i \in 1 .. b /\ i \notin a + 1 .. b
      BY <1>1, <2>1
    <3> QED
      BY <1>10, <1>12, <3>1
  <2>2. CASE i > a /\ i <= b
    <3>1. PICK j \in 1 .. n : i = a + j
      <4>1. i - a \in 1 .. n /\ i = a + (i - a)
        BY <1>1, <1>2, <2>2
      <4> QED
        BY <4>1
    <3>2. u[a + j] = Space
      BY <1>10
    <3>3. i \in a + 1 .. b /\ i \in 1 .. b
      BY <1>1, <2>2
    <3> QED
      BY <1>12, <3>1, <3>2, <3>3
  <2>3. CASE i > b
    <3>1. PICK j \in 1 .. Len(d) - b : i = b + j
      <4>1. i - b \in 1 .. Len(d) - b /\ i = b + (i - b)
        BY <1>1, <2>3
      <4> QED
        BY <4>1
    <3>2. i \notin a + 1 .. b
      BY <2>3
    <3> QED
      BY <1>12, <3>1, <3>2
  <2>4. i <= a \/ (i > a /\ i <= b) \/ i > b
    BY <1>1
  <2> QED
    BY <2>1, <2>2, <2>3, <2>4, Zenon
<1> QED
  BY <1>12, <1>13

\* From a to b the buffer of n cells is blanked: application data, and all of
\* them that can be wrong where MaskFits.
Masks(n, a, b) ==
    /\ Region(n).start = a /\ Region(n).end = b /\ b <= n
    /\ \A i \in a + 1 .. b : at + i \in Area(pvd)
    /\ at < pvd + AppOffset /\ at + n >= pvd + AppOffset =>
          /\ a = pvd + AppOffset - at
          /\ 2 * a < n => a < b
    /\ ~(at < pvd + AppOffset /\ at + n >= pvd + AppOffset) => a <= b

\* What is blanked of n cells is among the application data.
LEMMA RegionFacts ==
    ASSUME at \in Nat, pvd \in Nat, NEW n \in Nat
    PROVE  \E a \in Nat, b \in Int : Masks(n, a, b)
<1>1. AppOffset \in Nat /\ AppLength \in Nat /\ AppLength > 0
  BY Constants
<1>2. PICK app \in Nat : app = pvd + AppOffset
  BY <1>1
<1>3. Area(pvd) = app + 1 .. app + AppLength
  BY <1>2 DEF Area
<1>4. CASE at < app /\ at + n >= app
  <2>1. Region(n) = [start |-> app - at,
                     end |-> Min({app - at + Min({n, AppLength}), at + n - app})]
    BY <1>2, <1>4 DEF Region
  <2>2. PICK a \in Nat : a = app - at
    BY <1>4
  <2>3. PICK m \in Nat : m = Min({n, AppLength}) /\ m <= AppLength /\ (n > 0 => m > 0)
    <3>1. Min({n, AppLength}) = IF n <= AppLength THEN n ELSE AppLength
      BY <1>1, MinOf
    <3> QED
      BY <1>1, <3>1
  <2>4. PICK b \in Int : b = Min({a + m, at + n - app}) /\ b <= a + m /\ b <= at + n - app
                         /\ (b = a + m \/ b = at + n - app)
    <3>1. a + m \in Int /\ at + n - app \in Int
      OBVIOUS
    <3>2. Min({a + m, at + n - app}) = IF a + m <= at + n - app THEN a + m ELSE at + n - app
      BY <3>1, MinOf
    <3> QED
      BY <3>1, <3>2
  <2>5. Region(n).start = a /\ Region(n).end = b
    <3>1. Min({app - at + Min({n, AppLength}), at + n - app}) = b
      <4>1. app - at + Min({n, AppLength}) = a + m
        BY <2>2, <2>3
      <4> QED
        BY <2>4, <4>1
    <3>2. Region(n) = [start |-> a, end |-> b]
      BY <2>1, <2>2, <3>1
    <3> QED
      BY <3>2
  <2>6. b <= n
    BY <1>4, <2>4
  <2>7. \A i \in a + 1 .. b : at + i \in Area(pvd)
    BY <1>1, <1>3, <2>2, <2>3, <2>4
  <2>8. 2 * a < n => a < b
    BY <2>2, <2>3, <2>4
  <2>9. at < pvd + AppOffset /\ at + n >= pvd + AppOffset /\ a = pvd + AppOffset - at
    BY <1>1, <1>2, <1>4, <2>2
  <2>10. Masks(n, a, b)
    BY <2>5, <2>6, <2>7, <2>8, <2>9, Zenon DEF Masks
  <2> QED
    BY <2>10
<1>5. CASE ~(at < app /\ at + n >= app)
  <2>1. ASSUME NEW b \in Nat, Region(n) = [start |-> 0, end |-> b], b <= n,
               \A i \in 1 .. b : at + i \in Area(pvd)
        PROVE  \E a \in Nat, c \in Int : Masks(n, a, c)
    <3>1. PICK a \in Nat : a = 0
      OBVIOUS
    <3>2. Region(n).start = a /\ Region(n).end = b
      BY <2>1, <3>1
    <3>3. \A i \in a + 1 .. b : at + i \in Area(pvd)
      BY <2>1, <3>1
    <3>4. ~(at < pvd + AppOffset /\ at + n >= pvd + AppOffset) /\ a <= b
      BY <1>2, <1>5, <3>1
    <3>5. Masks(n, a, b)
      BY <2>1, <3>2, <3>3, <3>4 DEF Masks
    <3> QED
      BY <3>5
  <2>2. CASE at >= app /\ at + n < app + AppLength
    <3>1. Region(n) = [start |-> 0, end |-> n]
      <4>1. ~(at < pvd + AppOffset /\ at + n >= pvd + AppOffset)
        BY <1>2, <1>5
      <4>2. at >= pvd + AppOffset /\ at + n < pvd + AppOffset + AppLength
        BY <1>1, <1>2, <2>2
      <4>3. ~(/\ at >= pvd + AppOffset /\ at < pvd + AppOffset + AppLength
              /\ at + n >= pvd + AppOffset + AppLength)
        BY <1>1, <1>2, <2>2
      <4> QED
        BY <4>1, <4>2, <4>3 DEF Region
    <3>2. \A i \in 1 .. n : at + i \in Area(pvd)
      BY <1>1, <1>3, <2>2
    <3> QED
      BY <2>1, <3>1, <3>2
  <2>3. CASE at >= app /\ at < app + AppLength /\ at + n >= app + AppLength
    <3>1. PICK b \in Nat : b = app + AppLength - at /\ b <= n
      BY <1>1, <2>3
    <3>2. Region(n) = [start |-> 0, end |-> b]
      <4>1. ~(at < pvd + AppOffset /\ at + n >= pvd + AppOffset)
        BY <1>2, <1>5
      <4>2. ~(at >= pvd + AppOffset /\ at + n < pvd + AppOffset + AppLength)
        BY <1>1, <1>2, <2>3
      <4>3. /\ at >= pvd + AppOffset /\ at < pvd + AppOffset + AppLength
            /\ at + n >= pvd + AppOffset + AppLength
        BY <1>1, <1>2, <2>3
      <4>4. b = pvd + AppOffset + AppLength - at
        BY <1>1, <1>2, <3>1
      <4> QED
        BY <4>1, <4>2, <4>3, <4>4 DEF Region
    <3>3. \A i \in 1 .. b : at + i \in Area(pvd)
      BY <1>1, <1>3, <2>3, <3>1
    <3> QED
      BY <2>1, <3>1, <3>2, <3>3
  <2>4. CASE ~(at >= app /\ at + n < app + AppLength)
             /\ ~(at >= app /\ at < app + AppLength /\ at + n >= app + AppLength)
    <3>1. Region(n) = [start |-> 0, end |-> 0]
      BY <1>2, <1>5, <2>4 DEF Region
    <3>2. 0 \in Nat /\ 0 <= n /\ \A i \in 1 .. 0 : at + i \in Area(pvd)
      OBVIOUS
    <3> QED
      BY <2>1, <3>1, <3>2
  <2> QED
    BY <2>2, <2>3, <2>4
<1> QED
  BY <1>4, <1>5

\* What a good medium says of its size.
LEMMA GoodCover ==
    ASSUME NEW d, NEW c, NEW s, GoodAt(d, c, s), pvd = d
    PROVE  Covered = c
<1>1. d \in Nat /\ c \in Nat /\ d + AppOffset + 1 <= c
  BY DEF GoodAt
<1>2. AppOffset \in Nat /\ SizeOffset \in Nat /\ SizeOffset < AppOffset
  BY Constants
<1>3. d + SizeOffset + 1 \in 1 .. c
  BY <1>1, <1>2
<1>4. image[d + SizeOffset + 1] = master[d + SizeOffset + 1]
  BY <1>3 DEF GoodAt
<1>5. CoverOf(image, d) = CoverOf(master, d)
  BY <1>4 DEF CoverOf
<1> QED
  BY <1>5 DEF Covered, GoodAt

\* The digits of a good medium are in the first half of what is read with them.
LEMMA GoodBuffer ==
    ASSUME NEW d, NEW c, NEW s, GoodAt(d, c, s), at \in Nat, at % Buffer = 0, at < c,
           NEW n \in Nat, n = IF c - at <= Buffer THEN c - at ELSE Buffer
    PROVE  /\ at < d + AppOffset /\ at + n >= d + AppOffset =>
                 d + AppOffset - at = s /\ 2 * s < n
           /\ at # d + AppOffset
           /\ at + n <= c
           /\ at + n = c \/ (at + n) % Buffer = 0
<1>1. Buffer \in Nat /\ Buffer > 0 /\ AppOffset \in Nat
  BY Constants
<1>2. c \in Nat /\ d \in Nat /\ s \in Nat /\ s > 0 /\ 2 * s < Buffer
  BY DEF GoodAt
<1>3. PICK p : p \in Nat /\ p = d + AppOffset
  BY <1>1, <1>2
<1>4. s = p % Buffer /\ 2 * s < c - (p - s) /\ p + 1 <= c
  <2>1. s = (d + AppOffset) % Buffer /\ 2 * s < c - (d + AppOffset - s) /\ d + AppOffset + 1 <= c
    BY DEF GoodAt
  <2>2. d + AppOffset - s = p - s /\ d + AppOffset + 1 = p + 1
    BY <1>1, <1>2, <1>3
  <2> QED
    BY <1>3, <2>1, <2>2
<1>5. at + n <= c
  BY <1>1, <1>2
<1>6. at + n = c \/ (n = Buffer /\ (at + n) % Buffer = 0)
  <2>1. CASE n = Buffer
    <3>1. PICK i \in Nat : i = 1
      OBVIOUS
    <3>2. (i * Buffer + at) % Buffer = at % Buffer
      BY <1>1, ModTimes
    <3>3. i * Buffer + at = at + n
      BY <1>1, <2>1, <3>1
    <3> QED
      BY <2>1, <3>2, <3>3
  <2> QED
    BY <1>1, <1>2, <2>1
<1>7. at # p
  BY <1>2, <1>4
<1>8. ASSUME at < p, at + n >= p
      PROVE  p - at = s /\ 2 * s < n
  <2>1. at + n # p
    BY <1>2, <1>4, <1>6
  <2>2. PICK w : w \in Nat /\ w = p - at /\ w < n /\ w < Buffer
    BY <1>1, <1>2, <1>3, <1>8, <2>1
  <2>3. PICK q \in Nat, v \in Nat : v = at % Buffer /\ at = q * Buffer + v
    <3>1. at \in Nat /\ Buffer \in Nat /\ Buffer > 0
      BY <1>1
    <3>2. PICK q \in Nat, v \in Nat : /\ q = at \div Buffer /\ v = at % Buffer /\ v < Buffer
                                      /\ at = q * Buffer + v
      BY <3>1, DivMod
    <3> QED
      BY <3>2
  <2>4. q * Buffer + w = p
    <3>1. q * Buffer \in Nat
      BY <1>1
    <3> QED
      BY <1>3, <2>2, <2>3, <3>1
  <2>5. (q * Buffer + w) % Buffer = w
    BY <1>1, <2>2, DivUnique
  <2>6. w = s
    BY <1>4, <2>4, <2>5
  <2>7. c - (p - s) = c - at
    BY <1>2, <1>3, <2>2, <2>6
  <2>8. 2 * s < c - at
    BY <1>4, <2>7
  <2> QED
    BY <1>2, <2>2, <2>6, <2>8
<1>9. d + AppOffset - at = p - at
  BY <1>1, <1>2, <1>3
<1> QED
  BY <1>3, <1>5, <1>6, <1>7, <1>8, <1>9

\* The checker sums another buffer.
LEMMA ReadStep == Shape /\ Checking /\ CheckSum => Shape' /\ Checking'
<1> SUFFICES ASSUME Shape, Checking, CheckSum
             PROVE  Shape' /\ Checking'
  OBVIOUS
<1>1. pc = "csum" /\ at < Covered /\ Reading /\ Marked(master) /\ Burnt
  BY DEF Checking, CheckSum
<1>2. /\ at \in Nat /\ pvd \in Nat /\ image \in Cells /\ Len(image) \in Nat /\ at <= Len(image)
      /\ Len(image) % Sector = 0 /\ Found(image, pvd) /\ Len(fed) = at /\ fed \in Cells
      /\ Digest(ctx, fed)
  BY <1>1, CellsLen DEF Shape, Reading, Digest
<1>3. Buffer \in Nat /\ Buffer > 0
  BY Constants
<1>4. Covered \in Int
  BY <1>2, Fits DEF Covered
<1>5. PICK n : n \in Nat /\ n = Min({Covered - at, Buffer})
               /\ n = IF Covered - at <= Buffer THEN Covered - at ELSE Buffer
  <2>1. Covered - at \in Int /\ Buffer \in Int
    BY <1>2, <1>3, <1>4
  <2>2. Min({Covered - at, Buffer}) = IF Covered - at <= Buffer THEN Covered - at ELSE Buffer
    BY <2>1, MinOf
  <2> QED
    BY <1>1, <1>2, <1>3, <1>4, <2>2
<1>6. PICK data : data = Read(n)
  OBVIOUS
<1>7. PICK l : l \in Nat /\ l = Len(data) /\ data \in Cells /\ at + l <= Len(image)
               /\ (\A i \in 1 .. l : data[i] = image[at + i])
               /\ (at + n <= Len(image) => l = n)
  <2>1. image \in Cells /\ at \in Nat /\ at <= Len(image) /\ n \in Nat
    BY <1>2, <1>5
  <2>2. /\ Read(n) \in Cells /\ Len(Read(n)) \in Nat
        /\ Len(Read(n)) <= n /\ at + Len(Read(n)) <= Len(image)
        /\ \A i \in 1 .. Len(Read(n)) : Read(n)[i] = image[at + i]
        /\ at + n <= Len(image) => Len(Read(n)) = n
        /\ Read(n) = <<>> => n = 0 \/ at = Len(image)
    BY <2>1, ReadFacts
  <2> QED
    BY <1>6, <2>2
<1>8. PICK a, b : a \in Nat /\ b \in Int /\ Masks(l, a, b)
  <2>1. at \in Nat /\ pvd \in Nat /\ l \in Nat
    BY <1>2, <1>7
  <2>2. \E a \in Nat, b \in Int : Masks(l, a, b)
    BY <2>1, RegionFacts
  <2> QED
    BY <2>2
<1>9. /\ Region(l).start = a /\ Region(l).end = b /\ b <= l
      /\ \A i \in a + 1 .. b : at + i \in Area(pvd)
  BY <1>8 DEF Masks
<1>10. /\ image' = image /\ master' = master /\ mediasum' = mediasum /\ pvd' = pvd
       /\ total' = total /\ implanted' = implanted
  BY DEF CheckSum
<1>11. /\ Good' = Good /\ Burnt' /\ Descriptor(master)' = Descriptor(master)
       /\ Marked(master)'
  BY <1>1, <1>10, SameMedium, SameMarks
<1>12. ASSUME Good
       PROVE  \E d, c, s :
                 /\ GoodAt(d, c, s) /\ pvd = d /\ l = n /\ at < c /\ at % Buffer = 0
                 /\ (at < d + AppOffset /\ at + l >= d + AppOffset =>
                        d + AppOffset - at = s /\ 2 * s < l)
                 /\ at # d + AppOffset /\ at + l <= c
                 /\ (at + l = c \/ (at + l) % Buffer = 0)
  <2>1. PICK d, c, s : GoodAt(d, c, s)
    BY <1>1, <1>2, <1>12, GoodFacts
  <2>2. Exact
    BY <1>1, <1>12 DEF Reading
  <2>3. pvd = d /\ c = CoverOf(master, d) /\ c \in Nat /\ c <= Len(image)
    BY <2>1, <2>2 DEF Exact, GoodAt
  <2>4. Covered = c
    BY <2>1, <2>3, GoodCover
  <2>5. at < c /\ at % Buffer = 0
    BY <1>1, <1>2, <2>2, <2>3, <2>4 DEF Exact
  <2>6. n = IF c - at <= Buffer THEN c - at ELSE Buffer
    BY <1>5, <2>4
  <2>7. at \in Nat /\ n \in Nat
    BY <1>2, <1>5
  <2>8. /\ at < d + AppOffset /\ at + n >= d + AppOffset =>
                 d + AppOffset - at = s /\ 2 * s < n
        /\ at # d + AppOffset
        /\ at + n <= c
        /\ at + n = c \/ (at + n) % Buffer = 0
    BY <2>1, <2>5, <2>6, <2>7, GoodBuffer
  <2>9. l = n
    BY <1>2, <1>7, <2>3, <2>7, <2>8
  <2> QED
    BY <2>1, <2>3, <2>5, <2>8, <2>9
<1>13. ASSUME Good
       PROVE  /\ a <= b
              /\ \A k \in at + 1 .. at + l : k = pvd + AppOffset + 1 => k - at \in a + 1 .. b
  <2>1. PICK d, c, s : /\ GoodAt(d, c, s) /\ pvd = d
                       /\ (at < d + AppOffset /\ at + l >= d + AppOffset =>
                              d + AppOffset - at = s /\ 2 * s < l)
                       /\ at # d + AppOffset
    BY <1>12, <1>13
  <2>2. AppOffset \in Nat
    BY Constants
  <2>3. PICK p : p \in Nat /\ p = pvd + AppOffset
    BY <1>2, <2>2
  <2>4. CASE at < p /\ at + l >= p
    <3>1. a = pvd + AppOffset - at /\ (2 * a < l => a < b)
      BY <1>8, <2>3, <2>4 DEF Masks
    <3>2. a = s /\ 2 * s < l
      BY <2>1, <2>3, <2>4, <3>1
    <3>3. a < b
      BY <3>1, <3>2
    <3>4. a = p - at
      BY <1>2, <2>2, <2>3, <3>1
    <3>5. ASSUME NEW k \in at + 1 .. at + l, k = pvd + AppOffset + 1
          PROVE  k - at \in a + 1 .. b
      <4>1. k = p + 1
        BY <1>2, <2>2, <2>3, <3>5
      <4> QED
        BY <1>2, <1>8, <2>3, <3>3, <3>4, <4>1
    <3> QED
      BY <1>8, <3>3, <3>5
  <2>5. CASE ~(at < p /\ at + l >= p)
    <3>1. a <= b
      BY <1>8, <2>3, <2>5 DEF Masks
    <3>2. ASSUME NEW k \in at + 1 .. at + l, k = pvd + AppOffset + 1
          PROVE  FALSE
      <4>1. k = p + 1 /\ at # p
        BY <1>2, <2>1, <2>2, <2>3, <3>2
      <4> QED
        BY <1>2, <1>7, <2>3, <2>5, <4>1
    <3> QED
      BY <3>1, <3>2
  <2> QED
    BY <2>4, <2>5
<1>14. CASE b < a
  <2>1. pc' = "end" /\ verdict' = "crash" /\ ctx' = ctx /\ fed' = fed /\ at' = at
    BY <1>5, <1>6, <1>7, <1>9, <1>14 DEF CheckSum
  <2>2. ~Good
    BY <1>8, <1>13, <1>14
  <2>3. Outcome'
    BY <1>11, <2>1, <2>2 DEF Outcome
  <2>4. Shape'
    BY <1>10, <2>1 DEF Shape
  <2> QED
    BY <1>11, <2>1, <2>3, <2>4 DEF Checking
<1>15. CASE ~(b < a)
  <2>1. PICK t : t = Sent(data, a, b)
    OBVIOUS
  <2>2. /\ pc' = pc /\ verdict' = verdict /\ ctx' = MD5_Update(ctx, t) /\ fed' = fed \o t
        /\ at' = at + l
    BY <1>5, <1>6, <1>7, <1>9, <1>15, <2>1 DEF CheckSum, Sent
  <2>3. /\ t \in Cells /\ Len(t) = l
        /\ \A i \in 1 .. l : t[i] = IF i \in a + 1 .. b THEN Space ELSE data[i]
    <3>1. b \in Nat /\ a \in Nat /\ a <= b /\ b <= Len(data) /\ data \in Cells
      BY <1>7, <1>8, <1>9, <1>15
    <3>2. /\ t \in Cells /\ Len(t) = Len(data)
          /\ \A i \in 1 .. Len(data) : t[i] = IF i \in a + 1 .. b THEN Space ELSE data[i]
      BY <2>1, <3>1, SentFacts
    <3> QED
      BY <1>7, <3>2
  <2>4. Digest(ctx', fed')
    <3>1. Digest(MD5_Update(ctx, t), fed \o t)
      BY <1>2, <2>3, DigestUpdate
    <3> QED
      BY <2>2, <3>1
  <2>5. /\ Len(fed') = at + l
        /\ \A i \in 1 .. at : fed'[i] = fed[i]
        /\ \A i \in 1 .. l : fed'[at + i] = t[i]
    <3>1. /\ fed \o t \in Cells /\ Len(fed \o t) = Len(fed) + Len(t)
          /\ \A i \in 1 .. Len(fed) : (fed \o t)[i] = fed[i]
          /\ \A i \in 1 .. Len(t) : (fed \o t)[Len(fed) + i] = t[i]
      BY <1>2, <2>3, CellsJoined
    <3> QED
      BY <1>2, <2>2, <2>3, <3>1
  <2>6. ASSUME NEW k \in 1 .. at + l
        PROVE  \/ k \in 1 .. at /\ fed'[k] = fed[k]
               \/ k \in at + 1 .. at + l /\ k - at \in a + 1 .. b /\ k \in Area(pvd)
                    /\ fed'[k] = Space
               \/ k \in at + 1 .. at + l /\ k - at \notin a + 1 .. b /\ fed'[k] = image[k]
    <3>1. CASE k <= at
      <4>1. k \in 1 .. at
        BY <1>2, <3>1
      <4> QED
        BY <2>5, <4>1
    <3>2. CASE k > at
      <4>1. PICK i : i \in 1 .. l /\ k = at + i /\ k - at = i
        <5>1. k - at \in 1 .. l /\ k = at + (k - at)
          BY <1>2, <1>7, <3>2
        <5> QED
          BY <5>1
      <4>2. k \in at + 1 .. at + l
        BY <1>2, <1>7, <3>2
      <4>3. fed'[k] = t[i] /\ data[i] = image[k]
        BY <1>7, <2>5, <4>1
      <4>4. CASE i \in a + 1 .. b
        <5>1. t[i] = Space /\ at + i \in Area(pvd)
          BY <1>9, <2>3, <4>1, <4>4
        <5> QED
          BY <4>1, <4>2, <4>3, <4>4, <5>1
      <4>5. CASE i \notin a + 1 .. b
        <5>1. t[i] = data[i]
          BY <2>3, <4>1, <4>5
        <5> QED
          BY <4>1, <4>2, <4>3, <4>5, <5>1
      <4> QED
        BY <4>4, <4>5
    <3> QED
      BY <1>2, <3>1, <3>2
  <2>7. ASSUME NEW k \in 1 .. at + l
        PROVE  fed'[k] = image[k] \/ (k \in Area(pvd) /\ fed'[k] = Space)
    <3>1. \A j \in 1 .. at : fed[j] = image[j] \/ (j \in Area(pvd) /\ fed[j] = Space)
      BY <1>1 DEF Reading
    <3> QED
      BY <2>6, <3>1
  <2>8. ASSUME Good PROVE Exact'
    <3>1. PICK d, c, s : /\ GoodAt(d, c, s) /\ pvd = d /\ at + l <= c
                         /\ (at + l = c \/ (at + l) % Buffer = 0)
      BY <1>12, <2>8
    <3>2. /\ c \in Nat /\ d \in Nat /\ d = Descriptor(master) /\ c = CoverOf(master, d)
          /\ \A k \in 1 .. c : image[k] = master[k]
          /\ \A k \in Area(d) : k # d + AppOffset + 1 => master[k] = Space
      BY <3>1 DEF GoodAt
    <3>3. Exact
      BY <1>1, <2>8 DEF Reading
    <3>4. ASSUME NEW k \in 1 .. at + l, k \in Area(d)
          PROVE  fed'[k] = Space
      <4>1. CASE k \in 1 .. at /\ fed'[k] = fed[k]
        BY <3>1, <3>3, <3>4, <4>1 DEF Exact
      <4>2. CASE fed'[k] = Space
        BY <4>2
      <4>3. CASE k \in at + 1 .. at + l /\ k - at \notin a + 1 .. b /\ fed'[k] = image[k]
        <5>1. k # d + AppOffset + 1
          BY <1>13, <2>8, <3>1, <4>3
        <5>2. k \in 1 .. c
          BY <1>2, <1>7, <3>1, <3>2, <3>4
        <5> QED
          BY <3>2, <3>4, <4>3, <5>1, <5>2
      <4> QED
        BY <2>6, <3>4, <4>1, <4>2, <4>3
    <3>5. CoverOf(master, pvd)' = c /\ pvd' = d /\ Descriptor(master)' = d
          /\ Area(pvd)' = Area(d)
      <4>1. pvd' = d /\ Descriptor(master)' = d
        BY <1>10, <1>11, <3>1, <3>2
      <4> QED
        BY <1>10, <3>2, <4>1 DEF CoverOf, Area
    <3>6. mediasum' # <<>>
      BY <1>10, <3>3 DEF Exact
    <3> QED
      BY <2>2, <3>1, <3>4, <3>5, <3>6 DEF Exact
  <2>9. Reading'
    <3>1. Found(image, pvd)' /\ Area(pvd)' = Area(pvd)
      BY <1>2, <1>10 DEF Found, Scanned, Area
    <3>2. Len(fed') = at' /\ at' <= Len(image') /\ verdict' = "none"
      BY <1>1, <1>7, <1>10, <2>2, <2>5 DEF Reading
    <3>3. \A k \in 1 .. at' : fed'[k] = image'[k] \/ (k \in Area(pvd)' /\ fed'[k] = Space)
      BY <1>10, <2>2, <2>7, <3>1
    <3>4. Good' => Exact'
      BY <1>11, <2>8
    <3> QED
      BY <3>1, <3>2, <3>3, <3>4 DEF Reading
  <2>10. Shape'
    <3>1. at' \in Nat
      BY <1>2, <1>7, <2>2
    <3> QED
      BY <1>10, <2>2, <2>4, <3>1 DEF Shape
  <2> QED
    BY <1>1, <1>11, <2>2, <2>9, <2>10 DEF Checking
<1> QED
  BY <1>14, <1>15

\* A descriptor that is found on the medium is the one of the image, unless
\* that is the cell that is wrong.
LEMMA SameDescriptor ==
    ASSUME image \in Cells, master \in Cells, Burnt, NEW d, Found(master, d), pvd \in Nat,
           Found(image, pvd), NEW k \in Area(pvd), k \in 1 .. Len(image), k <= Len(master),
           d < Len(image), image[k] # master[k]
    PROVE  pvd = d
<1>1. /\ d \in Nat /\ d % Sector = 0 /\ First <= d /\ d < Len(master) /\ master[d + 1] = Primary
      /\ pvd % Sector = 0 /\ First <= pvd /\ pvd < Len(image) /\ image[pvd + 1] = Primary
  BY DEF Found, Scanned
<1>2. Len(image) \in Nat /\ Len(master) \in Nat /\ First \in Nat
  BY CellsLen, Constants
<1>3. CASE pvd < d
  <2>1. pvd + 1 \in 1 .. Len(image) /\ pvd + 1 <= Len(master) /\ pvd \in First .. d - 1
    BY <1>1, <1>2, <1>3
  <2>2. image[pvd + 1] = master[pvd + 1]
    BY <1>1, <2>1 DEF Burnt
  <2>3. master[pvd + 1] # Primary
    BY <1>1, <2>1 DEF Found, Scanned
  <2> QED
    BY <1>1, <2>2, <2>3
<1>4. CASE d < pvd
  <2>1. d + 1 \in 1 .. Len(image) /\ d + 1 <= Len(master) /\ d \in First .. pvd - 1
    BY <1>1, <1>2, <1>4
  <2>2. image[d + 1] # Primary
    BY <1>1, <2>1 DEF Found, Scanned
  <2>3. image[d + 1] # master[d + 1]
    BY <1>1, <2>2
  <2>4. PICK b \in Nat : \A j \in 1 .. Len(image) :
            j <= Len(master) /\ j # b => image[j] = master[j]
    BY DEF Burnt
  <2>5. b = d + 1 /\ b = k
    BY <2>1, <2>3, <2>4
  <2>6. d + 1 \notin Area(pvd)
    BY <1>1, OutsideArea
  <2> QED
    BY <2>5, <2>6
<1> QED
  BY <1>1, <1>3, <1>4

\* The sums are compared.
LEMMA CompareStep == Shape /\ Checking /\ Compare => Shape' /\ Checking'
<1> SUFFICES ASSUME Shape, Checking, Compare
             PROVE  Shape' /\ Checking'
  OBVIOUS
<1>1. /\ Reading /\ Marked(master) /\ Burnt /\ (at >= Covered \/ Read(Buffer) = <<>>)
      /\ verdict' = (IF mediasum = MD5_Final(ctx) THEN "match" ELSE "differ")
      /\ pc' = "end"
  BY DEF Checking, Compare
<1>2. /\ image' = image /\ master' = master /\ mediasum' = mediasum /\ pvd' = pvd
      /\ total' = total /\ implanted' = implanted /\ at' = at /\ ctx' = ctx /\ fed' = fed
  BY DEF Compare
<1>3. /\ at \in Nat /\ pvd \in Nat /\ image \in Cells /\ Len(image) \in Nat /\ at <= Len(image)
      /\ Len(image) % Sector = 0 /\ Found(image, pvd) /\ Len(fed) = at /\ fed \in Cells
      /\ Digest(ctx, fed)
      /\ \A k \in 1 .. at : fed[k] = image[k] \/ (k \in Area(pvd) /\ fed[k] = Space)
  BY <1>1, CellsLen DEF Shape, Reading, Digest
<1>4. /\ Good' = Good /\ Burnt' /\ Descriptor(master)' = Descriptor(master)
      /\ Marked(master)' /\ Agrees(TRUE)' = Agrees(TRUE)
  BY <1>1, <1>2, SameMedium, SameMarks
<1>5. MD5_Final(ctx) = Reference(fed) /\ Reference(fed) # <<>>
  BY <1>3, DigestFinal, ReferenceInjective
<1>6. ASSUME mediasum = Reference(fed)
      PROVE  implanted # "no" /\ Agrees(TRUE)
  <2>1. implanted # "no"
    BY <1>1, <1>5, <1>6 DEF Marked
  <2>2. PICK d, f : /\ d \in Nat /\ f \in Cells /\ Imprint(master, d, f)
                    /\ mediasum \in {<<>>, Reference(f)}
    BY <1>1, <2>1 DEF Marked
  <2>3. f = fed
    <3>1. Reference(f) = Reference(fed)
      BY <1>5, <1>6, <2>2
    <3> QED
      BY <1>3, <2>2, <3>1, ReferenceInjective
  <2>4. master \in Cells /\ Len(master) % Sector = 0 /\ Found(master, d) /\ Len(master) \in Nat
    BY <1>1, <2>2, CellsLen DEF Marked, Imprint
  <2>5. Descriptor(master) = d
    BY <2>4, FoundFirst
  <2>6. /\ at <= Len(master) /\ CoverOf(master, d) <= at
        /\ \A k \in 1 .. at : k \in Area(d) \/ fed[k] = master[k]
    BY <1>3, <2>2, <2>3 DEF Imprint
  <2>7. CoverOf(master, d) \in Int /\ d \in Nat
    BY <2>2, <2>4, Fits
  <2>8. ASSUME NEW k \in 1 .. CoverOf(master, d), k \notin Area(d)
        PROVE  k <= Len(image) /\ k <= Len(master) /\ image[k] = master[k]
    <3>1. k \in 1 .. at /\ k <= Len(image) /\ k <= Len(master) /\ k \in 1 .. Len(image)
      BY <1>3, <2>4, <2>6, <2>7
    <3>2. fed[k] = master[k]
      BY <2>6, <2>8, <3>1
    <3>3. CASE image[k] # master[k]
      <4>1. k \in Area(pvd)
        BY <1>3, <3>1, <3>2, <3>3
      <4>2. CASE d < Len(image)
        <5>1. pvd = d
          BY <1>1, <1>3, <2>4, <3>1, <3>3, <4>1, <4>2, SameDescriptor
        <5> QED
          BY <2>8, <4>1, <5>1
      <4>3. CASE d >= Len(image)
        <5>1. pvd + 1 \in 1 .. Len(image) /\ pvd % Sector = 0 /\ First <= pvd
          BY <1>3, Fits
        <5>2. pvd \in First .. d - 1 /\ image[pvd + 1] = Primary /\ pvd + 1 <= Len(master)
          BY <1>3, <2>4, <2>7, <4>3, <5>1, Constants DEF Found
        <5>3. master[pvd + 1] # Primary
          BY <2>4, <5>1, <5>2 DEF Found, Scanned
        <5>4. image[pvd + 1] = master[pvd + 1]
          BY <1>1, <5>1, <5>2 DEF Burnt
        <5> QED
          BY <5>2, <5>3, <5>4
      <4> QED
        BY <1>3, <2>7, <4>2, <4>3
    <3> QED
      BY <3>1, <3>3
  <2>9. Agrees(TRUE)
    BY <2>5, <2>8 DEF Agrees, Area
  <2> QED
    BY <2>1, <2>9
<1>7. ASSUME Good
      PROVE  mediasum = Reference(fed)
  <2>1. PICK d, c, s : GoodAt(d, c, s)
    BY <1>1, <1>3, <1>7, GoodFacts
  <2>2. Exact
    BY <1>1, <1>7 DEF Reading
  <2>3. /\ d \in Nat /\ c \in Nat /\ d = Descriptor(master) /\ c = CoverOf(master, d) /\ c < UInt
        /\ c <= Len(image) /\ \A k \in 1 .. c : image[k] = master[k]
    BY <2>1 DEF GoodAt
  <2>4. pvd = d /\ at <= c
    BY <2>2, <2>3 DEF Exact
  <2>5. Covered = c
    BY <2>1, <2>4, GoodCover
  <2>6. at = c
    <3>1. CASE at >= Covered
      BY <1>3, <2>3, <2>4, <2>5, <3>1
    <3>2. CASE Read(Buffer) = <<>>
      <4>1. image \in Cells /\ at \in Nat /\ at <= Len(image) /\ Buffer \in Nat /\ Buffer # 0
        BY <1>3, Constants
      <4>2. Read(Buffer) = <<>> => Buffer = 0 \/ at = Len(image)
        BY <4>1, ReadFacts
      <4> QED
        BY <1>3, <2>3, <2>4, <3>2, <4>1, <4>2
    <3> QED
      BY <1>1, <3>1, <3>2
  <2>7. PICK e, f : /\ e \in Nat /\ f \in Cells /\ Imprint(master, e, f)
                    /\ mediasum \in {<<>>, Reference(f)}
    BY <1>1, <1>7 DEF Marked, Good
  <2>8. e = d
    <3>1. master \in Cells /\ Found(master, e)
      BY <1>1, <2>7 DEF Marked, Imprint
    <3>2. Descriptor(master) = e
      BY <3>1, FoundFirst
    <3> QED
      BY <2>3, <3>2
  <2>9. /\ Len(f) = c
        /\ \A k \in 1 .. c : k \in Area(d) \/ f[k] = master[k]
        /\ \A k \in 1 .. c : k \in Area(d) => f[k] = Space
    <3>1. Len(f) = c
      <4>1. CoverOf(master, d) >= 0 /\ CoverOf(master, d) < UInt => Len(f) = CoverOf(master, d)
        BY <2>7, <2>8 DEF Imprint
      <4>2. CoverOf(master, d) >= 0 /\ CoverOf(master, d) < UInt
        BY <2>3
      <4> QED
        BY <2>3, <4>1, <4>2
    <3>2. implanted = "fresh"
      BY <1>7 DEF Good
    <3> QED
      BY <2>7, <2>8, <3>1, <3>2 DEF Imprint
  <2>10. ASSUME NEW k \in 1 .. c
         PROVE  fed[k] = f[k]
    <3>1. CASE k \in Area(d)
      <4>1. fed[k] = Space
        BY <2>2, <2>4, <2>6, <3>1 DEF Exact
      <4> QED
        BY <2>9, <3>1, <4>1
    <3>2. CASE k \notin Area(d)
      <4>1. fed[k] = image[k]
        BY <1>3, <2>4, <2>6, <3>2
      <4> QED
        BY <2>3, <2>9, <3>2, <4>1
    <3> QED
      BY <3>1, <3>2
  <2>11. fed = f
    <3>1. fed \in Cells /\ f \in Cells /\ Len(fed) = Len(f)
          /\ \A k \in 1 .. Len(fed) : fed[k] = f[k]
      BY <1>3, <2>6, <2>7, <2>9, <2>10
    <3> QED
      BY <3>1, SameCells
  <2>12. mediasum # <<>>
    BY <2>2 DEF Exact
  <2> QED
    BY <2>7, <2>11, <2>12
<1>8. Outcome'
  <2>1. verdict' = "match" => implanted' # "no" /\ Agrees(TRUE)'
    BY <1>1, <1>2, <1>4, <1>5, <1>6
  <2>2. Good' => verdict' = "match"
    BY <1>1, <1>4, <1>5, <1>7
  <2> QED
    BY <2>1, <2>2 DEF Outcome
<1>9. Shape'
  BY <1>1, <1>2 DEF Shape
<1> QED
  BY <1>1, <1>4, <1>8, <1>9 DEF Checking

-----------------------------------------------------------------------------
(* The theorems *)

\* The inductive invariant.
MediaInv == Shape /\ Implanting /\ Checking

\* An invariant of all behaviours.
LEMMA Invariant == Spec => []MediaInv
<1>1. Init => MediaInv
  <2>1. Init => pc = "parse"
    BY DEF Init
  <2> QED
    BY <2>1, InitFacts DEF MediaInv, Checking
<1>2. MediaInv /\ [Next]_vars => MediaInv'
  <2> SUFFICES ASSUME Shape, Implanting, Checking, [Next]_vars
               PROVE  Shape' /\ Implanting' /\ Checking'
    BY DEF MediaInv
  <2>1. CASE ParseNext \/ ParseFails \/ ImplantStart
    <3>1. Shape' /\ Implanting'
      BY <2>1, ParseSteps
    <3>2. pc' \in {"parse", "sum", "burn"}
      BY <2>1 DEF ParseNext, ParseFails, ImplantStart
    <3> QED
      BY <3>1, <3>2 DEF Checking
  <2>2. CASE ImplantSum
    <3>1. Shape' /\ Implanting'
      BY <2>2, SumStep
    <3>2. pc' \in {"sum", "insert"}
      BY <2>2 DEF ImplantSum
    <3> QED
      BY <3>1, <3>2 DEF Checking
  <2>3. CASE Insert \/ InsertFails
    <3>1. Shape' /\ Implanting'
      BY <2>3, InsertSteps
    <3>2. pc' = "burn"
      BY <2>3 DEF Insert, InsertFails
    <3> QED
      BY <3>1, <3>2 DEF Checking
  <2>4. CASE Burn
    <3>1. Shape' /\ Checking'
      BY <2>4, BurnStep
    <3>2. pc' = "cparse"
      BY <2>4 DEF Burn
    <3> QED
      BY <3>1, <3>2 DEF Implanting
  <2>5. CASE CheckNext \/ CheckNA \/ CheckStart
    <3>1. Shape' /\ Checking'
      BY <2>5, LookSteps
    <3>2. pc' \in {"cparse", "end", "csum"}
      BY <2>5 DEF CheckNext, CheckNA, CheckStart
    <3> QED
      BY <3>1, <3>2 DEF Implanting
  <2>6. CASE CheckSum
    <3>1. Shape' /\ Checking'
      BY <2>6, ReadStep
    <3>2. pc' \in {"end", "csum"}
      BY <2>6 DEF CheckSum
    <3> QED
      BY <3>1, <3>2 DEF Implanting
  <2>7. CASE Compare
    <3>1. Shape' /\ Checking'
      BY <2>7, CompareStep
    <3>2. pc' = "end"
      BY <2>7 DEF Compare
    <3> QED
      BY <3>1, <3>2 DEF Implanting
  <2>8. CASE UNCHANGED vars
    <3>1. /\ pc' = pc /\ force' = force /\ image' = image /\ master' = master
          /\ mediasum' = mediasum /\ at' = at /\ pvd' = pvd /\ total' = total /\ ctx' = ctx
          /\ fed' = fed /\ implanted' = implanted /\ verdict' = verdict
      BY <2>8 DEF vars
    <3>2. Shape'
      BY <3>1 DEF Shape
    <3>3. Covered' = Covered /\ Found(image, pvd)' = Found(image, pvd)
          /\ Scanned(image, at)' = Scanned(image, at) /\ Area(pvd)' = Area(pvd)
      BY <3>1 DEF Covered, CoverOf, Found, Scanned, Area
    <3>4. \A m, d, f : Imprint(m, d, f)' = Imprint(m, d, f)
      BY <3>1 DEF Imprint, Found, Scanned, CoverOf
    <3>5. Marked(image)' = Marked(image) /\ Marked(master)' = Marked(master)
      BY <3>1, <3>4 DEF Marked
    <3>6. Implanting'
      <4>1. Parsing' = Parsing
        BY <3>1, <3>3 DEF Parsing, Untouched
      <4>2. Summing' = Summing
        BY <3>1, <3>3 DEF Summing, Untouched, AppData
      <4>3. Ready' = Ready
        BY <3>1, <3>5 DEF Ready
      <4> QED
        BY <3>1, <3>3, <4>1, <4>2, <4>3 DEF Implanting
    <3>7. Checking'
      <4>1. /\ Good' = Good /\ Burnt' = Burnt /\ Descriptor(master)' = Descriptor(master)
            /\ Agrees(TRUE)' = Agrees(TRUE)
        BY <3>1, SameMedium
      <4>2. Looking' = Looking
        BY <3>1, <3>3, <4>1 DEF Looking
      <4>3. Exact' = Exact
        BY <3>1, <3>3, <4>1 DEF Exact, CoverOf
      <4>4. Reading' = Reading
        BY <3>1, <3>3, <4>1, <4>3 DEF Reading
      <4>5. Outcome' = Outcome
        BY <3>1, <4>1 DEF Outcome
      <4> QED
        BY <3>1, <3>5, <4>1, <4>2, <4>4, <4>5 DEF Checking
    <3> QED
      BY <3>2, <3>6, <3>7
  <2> QED
    BY <2>1, <2>2, <2>3, <2>4, <2>5, <2>6, <2>7, <2>8
       DEF Next, Steps, CheckSpins, Terminated
<1> QED
  BY <1>1, <1>2, PTL DEF Spec

\* Types of every state of implantisomd5, the medium and the checkers: the
\* counters keep their width and the buffer of md5.c its length.
THEOREM TypeCorrect == Spec => []TypeOK
<1>1. MediaInv => TypeOK
  <2> SUFFICES ASSUME Shape PROVE TypeOK
    BY DEF MediaInv
  <2>1. Digest(ctx, fed)
    BY DEF Shape
  <2>2. Len(fed) \in Nat /\ ctx.low = Low(Len(fed)) /\ ctx.high = High(Len(fed))
        /\ Len(ctx.in) = Block
    BY <2>1, DigestFacts
  <2>3. ctx.low \in 0 .. Word - 1 /\ ctx.high \in 0 .. Word - 1
    BY <2>2, CounterType
  <2> QED
    BY <2>2, <2>3 DEF TypeOK, Shape
<1> QED
  BY <1>1, Invariant, PTL

\* At any time the context of md5.c stands for exactly what was given to
\* MD5_Update, and MD5_Final yields its digest, whatever chunks it came in:
\* sectors in implantisomd5, buffers with a blanked part in the checkers.
THEOREM Md5ChunksHolds == Spec => []Md5Chunks
<1>1. MediaInv => Md5Chunks
  <2> SUFFICES ASSUME Shape PROVE Md5Chunks
    BY DEF MediaInv
  <2>1. Digest(ctx, fed)
    BY DEF Shape
  <2>2. /\ ctx.buf = Whole(fed) /\ ctx.low % Block = Len(fed) % Block
        /\ SubSeq(ctx.in, 1, Len(fed) % Block) = Rest(fed)
    BY <2>1, DigestFacts
  <2>3. MD5_Final(ctx) = Reference(fed)
    BY <2>1, DigestFinal
  <2> QED
    BY <2>2, <2>3 DEF Md5Chunks
<1> QED
  BY <1>1, Invariant, PTL

\* "Md5sums match." is only said of a medium with every byte that was summed,
\* for images of any size and media with one wrong cell, cut short or padded.
THEOREM DamageDetectedHolds == Spec => []DamageDetected
<1>1. MediaInv => DamageDetected
  <2> SUFFICES ASSUME Shape, Implanting, Checking, verdict = "match"
               PROVE  implanted # "no" /\ Agrees(TRUE)
    BY DEF MediaInv, DamageDetected
  <2>1. pc = "end"
    BY DEF Shape, Implanting, Checking, Parsing, Summing, Untouched, Ready, Looking, Reading
  <2> QED
    BY <2>1 DEF Checking, Outcome
<1> QED
  BY <1>1, Invariant, PTL

\* What implantisomd5 put on an image of less than 2^32 bytes is accepted by the
\* checkers, where the digits lie in the first half of what is read with them.
THEOREM ImplantedAcceptedHolds == Spec => []ImplantedAccepted
<1>1. MediaInv => ImplantedAccepted
  BY DEF MediaInv, Checking, Outcome, Good, ImplantedAccepted
<1> QED
  BY <1>1, Invariant, PTL

\* implantisomd5 changes the application data of the descriptor only, and
\* without -f only where they were unused.
THEOREM OnlyAppdataHolds == Spec => OnlyAppdata
<1> DEFINE A == image' # image /\ pc # "burn" =>
                  /\ force \/ AppData(image, pvd) = Blank(AppLength)
                  /\ \A k \in 1 .. Len(image) : image'[k] # image[k] =>
                        k \in pvd + AppOffset + 1 .. pvd + AppOffset + AppLength
<1>1. MediaInv /\ [Next]_vars => [A]_vars
  <2> SUFFICES ASSUME Shape, Implanting, Next, image' # image, pc # "burn"
               PROVE  /\ force \/ AppData(image, pvd) = Blank(AppLength)
                      /\ \A k \in 1 .. Len(image) : image'[k] # image[k] => k \in Area(pvd)
    BY DEF MediaInv, Area
  <2>1. Insert
    BY DEF Next, Steps, ParseNext, ParseFails, ImplantStart, ImplantSum, InsertFails, Burn,
           CheckNext, CheckNA, CheckStart, CheckSum, Compare, CheckSpins, Terminated, vars
  <2>2. Summing /\ image' = Inserted
    BY <2>1 DEF Implanting, Insert
  <2>3. \A k \in 1 .. Len(image) : k \in Area(pvd) \/ Inserted[k] = image[k]
    <3>1. AppOffset \in Nat /\ AppLength \in Nat /\ AppLength > 0 /\ pvd \in Nat
      BY Constants DEF Shape
    <3> QED
      BY <3>1 DEF Inserted, Area
  <2> QED
    BY <2>2, <2>3 DEF Summing
<1>2. []MediaInv /\ [][Next]_vars => [][A]_vars
  BY <1>1, PTL
<1> QED
  BY <1>2, Invariant, PTL DEF Spec, OnlyAppdata
=============================================================================
