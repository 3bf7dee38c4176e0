---------------------------- MODULE RestoreProofs ----------------------------
(***************************************************************************)
(* Proofs about module Restore: whatever the media set, tar gets the parts *)
(* of a stream in order, a file system on a single disc is restored whole  *)
(* in any order, and every file system is when the order is that of the    *)
(* backup.                                                                 *)
(***************************************************************************)
EXTENDS Restore, FiniteSetsExt, FiniteSetTheorems, FunctionTheorems,
        WellFoundedInduction, TLAPS

-----------------------------------------------------------------------------
(* Sets of numbers *)

\* A non-empty set of natural numbers has a least element.
LEMMA LeastElement ==
    ASSUME NEW S \in SUBSET Nat, S # {}
    PROVE  \E n \in S : \A m \in S : n <= m
<1>1. PICK R : R = OpToRel(<, Nat)
  BY Zenon
<1>2. IsWellFoundedOn(R, Nat)
  BY <1>1, NatLessThanWellFounded, Zenon
<1>3. PICK n \in S : \A m \in S : ~ (<<m, n>> \in R)
  BY <1>2, WFMin
<1>4. \A a, b \in Nat : a < b => <<a, b>> \in R
  BY <1>1 DEF OpToRel
<1>5. \A m \in S : n \in Nat /\ m \in Nat /\ ~ (m < n)
  BY <1>3, <1>4
<1> QED
  BY <1>3, <1>5

\* Max of a non-empty set of natural numbers below a bound is an element of it.
LEMMA MaxElement ==
    ASSUME NEW b \in Nat, NEW S \in SUBSET (0 .. b), S # {}
    PROVE  Max(S) \in S /\ \A m \in S : m <= Max(S)
<1> DEFINE T == {n \in 0 .. b : b - n \in S}
<1>1. T \in SUBSET Nat /\ T # {}
  <2>1. PICK n \in S : n \in 0 .. b
    OBVIOUS
  <2>2. b - n \in T
    BY <2>1
  <2> QED
    BY <2>2
<1>2. PICK n \in T : \A m \in T : n <= m
  <2> HIDE DEF T
  <2> QED
    BY <1>1, LeastElement
<1>3. b - n \in S
  BY <1>2
<1>4. \A m \in S : m <= b - n
  <2> SUFFICES ASSUME NEW m \in S
               PROVE  m <= b - n
    OBVIOUS
  <2>1. m \in 0 .. b /\ b - m \in T
    OBVIOUS
  <2>2. n <= b - m
    BY <1>2, <2>1
  <2> QED
    BY <2>1, <2>2, <1>2
<1> QED
  BY <1>3, <1>4 DEF Max

\* Induction: a set with 0 and every successor is the set of all numbers.
LEMMA SetInduction ==
    ASSUME NEW S \in SUBSET Nat, 0 \in S, \A n \in S : n + 1 \in S
    PROVE  S = Nat
<1> DEFINE T == Nat \ S
<1>1. CASE T # {}
  <2>1. PICK n \in T : \A m \in T : n <= m
    BY <1>1, LeastElement
  <2>2. n # 0 /\ n - 1 \in Nat /\ n - 1 \notin T
    BY <2>1
  <2> QED
    BY <2>1, <2>2
<1> QED
  BY <1>1

-----------------------------------------------------------------------------
(* Media sets *)

MediaOK == MediaType(discs, sizes) /\ WellFormed(discs, sizes)

\* n discs that have the labels 1 to n among them have no other label.
LEMMA LabelsCover ==
    ASSUME NEW S, IsFiniteSet(S), NEW n \in Nat, n = Cardinality(S),
           \A k \in 1 .. n : \E d \in S : d.labels = {k}
    PROVE  /\ \A d \in S : \E k \in 1 .. n : d.labels = {k}
           /\ \A d, e \in S : d.labels = e.labels => d = e
<1> DEFINE F == [k \in 1 .. n |-> CHOOSE d \in S : d.labels = {k}]
<1>1. \A k \in 1 .. n : F[k] \in S /\ F[k].labels = {k}
  OBVIOUS
<1>2. \A k, m : {k} = {m} => k = m
  OBVIOUS
<1>3. F \in [1 .. n -> S]
  BY <1>1
<1> HIDE DEF F
<1>4. ASSUME NEW k \in 1 .. n, NEW m \in 1 .. n, F[k] = F[m]
      PROVE  k = m
  <2>1. {k} = {m}
    BY <1>1, <1>4
  <2> QED
    BY <1>2, <2>1
<1>5. F \in Injection(1 .. n, S)
  BY <1>3, <1>4, Fun_IsInj
<1>6. IsFiniteSet(1 .. n) /\ Cardinality(1 .. n) = n
  BY FS_Interval
<1>7. F \in Surjection(1 .. n, S)
  BY <1>5, <1>6, FS_Injection
<1>8. \A d \in S : \E k \in 1 .. n : F[k] = d
  BY <1>7 DEF Surjection
<1>9. \A d \in S : \E k \in 1 .. n : F[k] = d /\ d.labels = {k}
  BY <1>1, <1>8
<1>10. ASSUME NEW d \in S, NEW e \in S, d.labels = e.labels
       PROVE  d = e
  <2>1. PICK k \in 1 .. n : F[k] = d /\ d.labels = {k}
    BY <1>9
  <2>2. PICK m \in 1 .. n : F[m] = e /\ e.labels = {m}
    BY <1>9
  <2>3. k = m
    BY <1>2, <1>10, <2>1, <2>2
  <2> QED
    BY <2>1, <2>2, <2>3
<1> QED
  BY <1>9, <1>10

\* Every disc of a set has one label of its own; the one with LAST_CD has the
\* highest, and any other is followed by the disc with the next label.
LEMMA DiscFacts ==
    ASSUME MediaOK
    PROVE  /\ \A d \in discs : Label(d) \in Nat /\ d.labels = {Label(d)}
           /\ \A d, e \in discs : Label(d) = Label(e) => d = e
           /\ \A d, e \in discs : d.last => Label(e) <= Label(d)
           /\ \A d \in discs : ~d.last =>
                 \E e \in discs : e.labels = {Label(d) + 1}
           /\ \A d \in discs : Label(d) = 0 => discs = {d} /\ d.last
           /\ \E d \in discs : d.labels \in {{0}, {1}}
<1>a. \A k, m : {k} = {m} => k = m
  OBVIOUS
<1>b. ASSUME NEW d, NEW k, d.labels = {k}
      PROVE  Label(d) = k
  BY <1>b DEF Label
<1>c. IsFiniteSet(discs) /\ Numbered(discs)
  BY DEF MediaOK, MediaType, WellFormed
<1>1. CASE \E d \in discs : discs = {d} /\ d.labels = {0} /\ d.last
  <2>1. PICK d \in discs : discs = {d} /\ d.labels = {0} /\ d.last
    BY <1>1
  <2>2. Label(d) = 0
    BY <1>b, <2>1
  <2> QED
    BY <2>1, <2>2
<1>2. CASE LET n == Cardinality(discs) IN
           /\ n > 1
           /\ \A k \in 1 .. n : \E d \in discs : d.labels = {k}
           /\ \A d \in discs : d.last <=> d.labels = {n}
  <2> DEFINE n == Cardinality(discs)
  <2>1. n \in Nat
    BY <1>c, FS_CardinalityType
  <2>2. /\ n > 1
        /\ \A k \in 1 .. n : \E d \in discs : d.labels = {k}
        /\ \A d \in discs : d.last <=> d.labels = {n}
    BY <1>2
  <2>3. /\ \A d \in discs : \E k \in 1 .. n : d.labels = {k}
        /\ \A d, e \in discs : d.labels = e.labels => d = e
    BY <1>c, <2>1, <2>2, LabelsCover
  <2> HIDE DEF n
  <2>4. \A d \in discs : Label(d) \in 1 .. n /\ d.labels = {Label(d)}
    BY <1>b, <2>3
  <2>5. \A d \in discs : d.last <=> Label(d) = n
    <3> SUFFICES ASSUME NEW d \in discs
                 PROVE  d.last <=> Label(d) = n
      OBVIOUS
    <3>1. d.labels = {Label(d)} /\ (d.last <=> d.labels = {n})
      BY <2>2, <2>4
    <3> QED
      BY <1>a, <3>1
  <2>6. \A d \in discs : ~d.last => \E e \in discs : e.labels = {Label(d) + 1}
    <3> SUFFICES ASSUME NEW d \in discs, ~d.last
                 PROVE  \E e \in discs : e.labels = {Label(d) + 1}
      OBVIOUS
    <3>1. Label(d) + 1 \in 1 .. n
      BY <2>1, <2>4, <2>5
    <3> QED
      BY <2>2, <3>1
  <2>7. \E d \in discs : d.labels = {1}
    BY <2>1, <2>2
  <2>8. \A d, e \in discs : Label(d) = Label(e) => d = e
    BY <2>3, <2>4
  <2>9. \A d, e \in discs : d.last => Label(e) <= Label(d)
    BY <2>1, <2>4, <2>5
  <2>10. \A d \in discs : Label(d) \in Nat /\ Label(d) # 0
    BY <2>1, <2>4
  <2>11. \E d \in discs : d.labels \in {{0}, {1}}
    BY <2>7
  <2> QED
    BY <2>4, <2>6, <2>8, <2>9, <2>10, <2>11
<1> QED
  BY <1>1, <1>2, <1>c DEF Numbered

\* The disc the rescue system boots from is in the set, before all others.
LEMMA FirstDiscFacts ==
    ASSUME MediaOK
    PROVE  FirstDisc \in discs /\ \A d \in discs : Label(FirstDisc) <= Label(d)
<1>1. FirstDisc \in discs /\ FirstDisc.labels \in {{0}, {1}}
  BY DiscFacts DEF FirstDisc
<1>2. FirstDisc.labels = {Label(FirstDisc)}
  BY <1>1, DiscFacts
<1>3. Label(FirstDisc) \in {0, 1}
  BY <1>1, <1>2
<1>4. ASSUME NEW d \in discs
      PROVE  Label(FirstDisc) <= Label(d)
  <2>1. Label(d) \in Nat /\ (Label(d) = 0 => discs = {d})
    BY DiscFacts
  <2> QED
    BY <1>1, <1>3, <2>1
<1> QED
  BY <1>1, <1>4

\* There is only one disc to boot from.
LEMMA OneFirstDisc ==
    ASSUME MediaOK, NEW d \in discs, d.labels \in {{0}, {1}}
    PROVE  d = FirstDisc
<1>1. d.labels = {Label(d)} /\ Label(d) \in Nat
  BY DiscFacts
<1>2. Label(d) \in {0, 1}
  BY <1>1
<1>3. FirstDisc \in discs /\ Label(FirstDisc) <= Label(d) /\ Label(FirstDisc) \in Nat
  BY FirstDiscFacts, DiscFacts
<1>4. CASE Label(FirstDisc) = 0
  <2>1. discs = {FirstDisc}
    BY <1>3, <1>4, DiscFacts
  <2> QED
    BY <2>1
<1>5. CASE Label(FirstDisc) # 0
  <2>1. Label(FirstDisc) = Label(d)
    BY <1>2, <1>3, <1>5
  <2> QED
    BY <1>3, <2>1, DiscFacts
<1> QED
  BY <1>4, <1>5

\* What the files of a set are.
LEMMA PieceFacts ==
    ASSUME MediaOK
    PROVE  \A d \in discs : \A p \in d.files :
              /\ p.fs \in 1 .. Len(sizes) /\ p.lo \in Nat /\ p.hi \in Nat
              /\ p.more \in BOOLEAN /\ p.lo <= p.hi
              /\ \A q \in d.files : p.fs = q.fs => p = q
              /\ ~p.more => p.hi = sizes[p.fs]
              /\ p.more => ~d.last /\
                    \E e \in discs : \E q \in e.files :
                       q.fs = p.fs /\ q.lo = p.hi /\ Label(e) = Label(d) + 1
<1> SUFFICES ASSUME NEW d \in discs, NEW p \in d.files
             PROVE  /\ p.fs \in 1 .. Len(sizes) /\ p.lo \in Nat /\ p.hi \in Nat
                    /\ p.more \in BOOLEAN /\ p.lo <= p.hi
                    /\ \A q \in d.files : p.fs = q.fs => p = q
                    /\ ~p.more => p.hi = sizes[p.fs]
                    /\ p.more => ~d.last /\
                          \E e \in discs : \E q \in e.files :
                             q.fs = p.fs /\ q.lo = p.hi /\ Label(e) = Label(d) + 1
  OBVIOUS
<1>1. /\ p.fs \in 1 .. Len(sizes) /\ p.lo \in Nat /\ p.hi \in Nat
      /\ p.more \in BOOLEAN
  BY DEF MediaOK, MediaType
<1>2. Chained(discs, sizes) /\ DOMAIN sizes = 1 .. Len(sizes)
  BY DEF MediaOK, WellFormed, MediaType
<1>3. \A q \in d.files : p.fs = q.fs => p = q
  BY <1>1, <1>2 DEF Chained
<1>4. /\ p.lo <= p.hi
      /\ IF p.more
         THEN \E e \in discs : \E q \in e.files :
                 /\ q.fs = p.fs /\ q.lo = p.hi
                 /\ \E k \in d.labels : e.labels = {k + 1}
         ELSE p.hi = sizes[p.fs]
  <2>1. PICK f \in DOMAIN sizes : p.fs = f
    BY <1>1, <1>2
  <2>2. \A c \in discs : \A r \in c.files :
           r.fs = f =>
              /\ r.lo <= r.hi
              /\ IF r.more
                 THEN \E e \in discs : \E q \in e.files :
                         /\ q.fs = f /\ q.lo = r.hi
                         /\ \E k \in c.labels : e.labels = {k + 1}
                 ELSE r.hi = sizes[f]
    BY <1>2, Zenon DEF Chained
  <2>3. /\ p.lo <= p.hi
        /\ IF p.more
           THEN \E e \in discs : \E q \in e.files :
                   /\ q.fs = f /\ q.lo = p.hi
                   /\ \E k \in d.labels : e.labels = {k + 1}
           ELSE p.hi = sizes[f]
    BY <2>1, <2>2, Zenon
  <2> QED
    BY <2>1, <2>3
<1>5. ASSUME p.more
      PROVE  ~d.last /\ \E e \in discs : \E q \in e.files :
                q.fs = p.fs /\ q.lo = p.hi /\ Label(e) = Label(d) + 1
  <2>1. PICK e \in discs : \E q \in e.files :
                 /\ q.fs = p.fs /\ q.lo = p.hi
                 /\ \E k \in d.labels : e.labels = {k + 1}
    BY <1>4, <1>5
  <2>2. PICK q \in e.files : /\ q.fs = p.fs /\ q.lo = p.hi
                             /\ \E k \in d.labels : e.labels = {k + 1}
    BY <2>1
  <2>3. d.labels = {Label(d)} /\ e.labels = {Label(e)} /\ Label(d) \in Nat
    BY DiscFacts
  <2>4. {Label(e)} = {Label(d) + 1}
    BY <2>2, <2>3
  <2>5. Label(e) = Label(d) + 1
    BY <2>4
  <2>6. ~d.last
    <3>1. d.last => Label(e) <= Label(d)
      BY DiscFacts
    <3> QED
      BY <2>3, <2>5, <3>1
  <2> QED
    BY <2>2, <2>5, <2>6
<1> QED
  BY <1>1, <1>3, <1>4, <1>5

\* A file on a later disc is of a later file system or goes on with a "_" file.
LEMMA TurnFacts ==
    ASSUME MediaOK, NEW d \in discs, NEW e \in discs, Label(d) < Label(e),
           NEW p \in d.files, NEW q \in e.files
    PROVE  p.fs < q.fs \/ (p.fs = q.fs /\ p.more)
<1>1. Label(d) \in d.labels /\ Label(e) \in e.labels
  BY DiscFacts
<1>2. InTurn(discs)
  BY DEF MediaOK, WellFormed
<1> QED
  BY <1>1, <1>2 DEF InTurn

\* A part that is found on the next disc goes on where the previous one ends.
LEMMA NextPart ==
    ASSUME MediaOK, NEW d \in discs, NEW e \in discs, Label(e) = Label(d) + 1,
           NEW p \in d.files, NEW q \in e.files, p.fs = q.fs
    PROVE  p.more /\ p.hi = q.lo
<1>1. Label(d) \in Nat
  BY DiscFacts
<1>2. p.fs \in Nat /\ q.fs \in Nat
  BY PieceFacts DEF MediaOK, MediaType
<1>3. p.more
  <2>1. Label(d) < Label(e)
    BY <1>1
  <2>2. p.fs < q.fs \/ (p.fs = q.fs /\ p.more)
    BY <2>1, TurnFacts
  <2> QED
    BY <1>2, <2>2
<1>4. PICK e1 \in discs : \E r \in e1.files :
         r.fs = p.fs /\ r.lo = p.hi /\ Label(e1) = Label(d) + 1
  BY <1>3, PieceFacts
<1>5. e1 = e
  BY <1>4, DiscFacts
<1>6. PICK r \in e.files : r.fs = p.fs /\ r.lo = p.hi
  BY <1>4, <1>5
<1>7. r = q
  BY <1>6, PieceFacts
<1> QED
  BY <1>3, <1>6, <1>7

\* Every stream has a first part on some disc.
LEMMA StartExists ==
    ASSUME MediaOK, NEW f \in 1 .. Len(sizes)
    PROVE  \E d \in discs : \E p \in d.files : p.fs = f /\ p.lo = 0
<1>1. Chained(discs, sizes) /\ DOMAIN sizes = 1 .. Len(sizes)
  BY DEF MediaOK, WellFormed, MediaType
<1> QED
  BY <1>1 DEF Chained

\* If a stream starts on disc e and has a part on an earlier disc d, that part
\* is an empty one: the parts are on consecutive discs, each "_" part is
\* continued on the next, and so all of them from d on start at 0.
LEMMA StartsBefore ==
    ASSUME MediaOK, NEW d \in discs, NEW e \in discs, Label(d) < Label(e),
           NEW p \in d.files, NEW q \in e.files, p.fs = q.fs,
           q.lo = 0
    PROVE  p.lo = 0
<1> DEFINE Has(m) == \E c \in discs : \E r \in c.files :
                        Label(c) = m /\ r.fs = p.fs /\ r.lo = 0
           N == Label(e) - Label(d)
<1>a. Label(d) \in Nat /\ Label(e) \in Nat /\ N \in Nat
  BY DiscFacts
<1>b. p.fs \in Nat
  BY PieceFacts DEF MediaOK, MediaType
\* The parts from d on.
<1> DEFINE On(m) == \E c \in discs : \E r \in c.files :
                       Label(c) = Label(d) + m /\ r.fs = p.fs
           A == {m \in Nat : m <= N => On(m)}
<1>1. A = Nat
  <2>1. 0 \in A
    BY <1>a
  <2>2. ASSUME NEW m \in A
        PROVE  m + 1 \in A
    <3> SUFFICES ASSUME m + 1 <= N
                 PROVE  On(m + 1)
      OBVIOUS
    <3>1. PICK c \in discs : \E r \in c.files : Label(c) = Label(d) + m /\ r.fs = p.fs
      BY <1>a
    <3>2. PICK r \in c.files : Label(c) = Label(d) + m /\ r.fs = p.fs
      BY <3>1
    <3>3. Label(c) < Label(e)
      BY <1>a, <3>2
    <3>4. r.more
      BY <1>b, <3>2, <3>3, TurnFacts
    <3>5. PICK c1 \in discs : \E r1 \in c1.files :
             r1.fs = r.fs /\ Label(c1) = Label(c) + 1
      BY <3>4, PieceFacts
    <3> QED
      BY <1>a, <3>2, <3>5
  <2>3. A \in SUBSET Nat
    OBVIOUS
  <2> HIDE DEF A
  <2> QED
    BY <2>1, <2>2, <2>3, SetInduction
\* The parts from e back to d start at 0.
<1> DEFINE B == {m \in Nat : m <= N => Has(Label(e) - m)}
<1>2. B = Nat
  <2>1. 0 \in B
    BY <1>a
  <2>2. ASSUME NEW m \in B
        PROVE  m + 1 \in B
    <3> SUFFICES ASSUME m + 1 <= N
                 PROVE  Has(Label(e) - (m + 1))
      OBVIOUS
    <3>1. PICK c \in discs : \E r \in c.files :
             Label(c) = Label(e) - m /\ r.fs = p.fs /\ r.lo = 0
      BY <1>a
    <3>2. PICK r \in c.files : Label(c) = Label(e) - m /\ r.fs = p.fs /\ r.lo = 0
      BY <3>1
    <3>3. N - (m + 1) \in Nat /\ N - (m + 1) <= N
      BY <1>a
    <3>4. On(N - (m + 1))
      BY <1>1, <3>3
    <3>5. PICK c1 \in discs : \E r1 \in c1.files :
             Label(c1) = Label(d) + (N - (m + 1)) /\ r1.fs = p.fs
      BY <3>4
    <3>6. PICK r1 \in c1.files : Label(c1) = Label(d) + (N - (m + 1)) /\ r1.fs = p.fs
      BY <3>5
    <3>7. Label(c1) = Label(e) - (m + 1) /\ Label(c) = Label(c1) + 1
      BY <1>a, <3>2, <3>6
    <3>8. r1.hi = r.lo
      BY <3>2, <3>6, <3>7, NextPart
    <3>9. r1.lo \in Nat /\ r1.hi \in Nat /\ r1.lo <= r1.hi
      BY PieceFacts
    <3>10. r1.lo = 0
      BY <3>2, <3>8, <3>9
    <3> QED
      BY <3>6, <3>7, <3>10
  <2>3. B \in SUBSET Nat
    OBVIOUS
  <2> HIDE DEF B
  <2> QED
    BY <2>1, <2>2, <2>3, SetInduction
<1>3. Has(Label(e) - N)
  BY <1>2, <1>a
<1>4. PICK c \in discs : \E r \in c.files :
         Label(c) = Label(d) /\ r.fs = p.fs /\ r.lo = 0
  BY <1>3, <1>a
<1>5. c = d
  BY <1>4, DiscFacts
<1> QED
  BY <1>4, <1>5, PieceFacts

\* A part of a stream with none on an earlier disc is its first.
LEMMA FirstPart ==
    ASSUME MediaOK, NEW d \in discs, NEW p \in d.files,
           \A e \in discs : \A q \in e.files : q.fs = p.fs => Label(d) <= Label(e)
    PROVE  p.lo = 0
<1>1. p.fs \in 1 .. Len(sizes)
  BY PieceFacts
<1>2. PICK e \in discs : \E q \in e.files : q.fs = p.fs /\ q.lo = 0
  BY <1>1, StartExists
<1>3. PICK q \in e.files : q.fs = p.fs /\ q.lo = 0
  BY <1>2
<1>4. Label(d) \in Nat /\ Label(e) \in Nat /\ Label(d) <= Label(e)
  BY <1>3, DiscFacts
<1>5. CASE Label(d) = Label(e)
  <2>1. d = e
    BY <1>5, DiscFacts
  <2> QED
    BY <1>3, <2>1, PieceFacts
<1>6. CASE Label(d) < Label(e)
  BY <1>3, <1>6, StartsBefore
<1> QED
  BY <1>4, <1>5, <1>6
-----------------------------------------------------------------------------
(* The order of the file systems *)

\* Disk by disk, and on a disk in the order of To_Restore.
InDiskOrder(s, n, target) ==
    \A i, j \in 1 .. n : i < j =>
        \/ target[s[i]] < target[s[j]]
        \/ target[s[i]] = target[s[j]] /\ s[i] < s[j]

\* Where a number goes in an ascending list: behind all that are not larger.
LEMMA InsertAt ==
    ASSUME NEW m \in Nat, NEW v \in [1 .. m -> Nat], NEW w \in Nat,
           \A i, j \in 1 .. m : i < j => v[i] <= v[j]
    PROVE  \E p \in 0 .. m : /\ \A i \in 1 .. m : i <= p => v[i] <= w
                             /\ \A i \in 1 .. m : i > p => w < v[i]
<1> DEFINE P == {i \in 1 .. m : v[i] <= w}
<1>1. CASE P = {}
  <2>1. \A i \in 1 .. m : w < v[i]
    BY <1>1
  <2>2. 0 \in 0 .. m /\ \A i \in 1 .. m : ~(i <= 0)
    OBVIOUS
  <2> QED
    BY <2>1, <2>2
<1>2. CASE P # {}
  <2>1. P \in SUBSET (0 .. m)
    OBVIOUS
  <2>2. Max(P) \in P /\ \A i \in P : i <= Max(P)
    BY <1>2, <2>1, MaxElement
  <2>3. PICK q \in P : \A i \in P : i <= q
    BY <2>2
  <2>4. q \in 0 .. m /\ q \in 1 .. m /\ v[q] <= w
    BY <2>3
  <2>5. \A i \in 1 .. m : i <= q => v[i] <= w
    BY <2>4
  <2>6. \A i \in 1 .. m : i > q => w < v[i]
    BY <2>3, <2>4
  <2> QED
    BY <2>4, <2>5, <2>6
<1> QED
  BY <1>1, <1>2

\* One more line of To_Restore goes behind those of its own and earlier disks.
LEMMA OrderGrows ==
    ASSUME NEW m \in Nat, NEW t \in [1 .. (m + 1) -> Nat],
           NEW s \in [1 .. m -> 1 .. m], InDiskOrder(s, m, t)
    PROVE  \E u \in [1 .. (m + 1) -> 1 .. (m + 1)] : InDiskOrder(u, m + 1, t)
<1> DEFINE v == [i \in 1 .. m |-> t[s[i]]]
           w == t[m + 1]
<1>1. \A i \in 1 .. m : s[i] \in 1 .. m /\ s[i] \in 1 .. (m + 1) /\ v[i] = t[s[i]]
  <2>1. \A i \in 1 .. m : s[i] \in 1 .. m
    OBVIOUS
  <2>2. \A k \in 1 .. m : k \in 1 .. (m + 1)
    OBVIOUS
  <2> QED
    BY <2>1, <2>2
<1>2. v \in [1 .. m -> Nat] /\ w \in Nat
  <2>1. \A i \in 1 .. m : t[s[i]] \in Nat
    BY <1>1
  <2>2. m + 1 \in 1 .. (m + 1)
    OBVIOUS
  <2> QED
    BY <2>1, <2>2
<1>3. \A i, j \in 1 .. m : i < j =>
         v[i] < v[j] \/ (v[i] = v[j] /\ s[i] < s[j])
  BY <1>1 DEF InDiskOrder
<1> HIDE DEF v, w
<1>4. \A i, j \in 1 .. m : i < j => v[i] <= v[j]
  <2> SUFFICES ASSUME NEW i \in 1 .. m, NEW j \in 1 .. m, i < j
               PROVE  v[i] <= v[j]
    OBVIOUS
  <2>1. PICK a \in Nat, b \in Nat : a = v[i] /\ b = v[j]
    BY <1>2
  <2>2. a < b \/ a = b
    BY <1>3, <2>1
  <2>3. a <= b
    BY <2>2
  <2> QED
    BY <2>1, <2>3
<1>5. PICK p \in 0 .. m : /\ \A i \in 1 .. m : i <= p => v[i] <= w
                          /\ \A i \in 1 .. m : i > p => w < v[i]
  BY <1>2, <1>4, InsertAt
<1> DEFINE u == [i \in 1 .. (m + 1) |-> IF i <= p THEN s[i]
                                        ELSE IF i = p + 1 THEN m + 1 ELSE s[i - 1]]
<1>6. ASSUME NEW i \in 1 .. (m + 1), i <= p
      PROVE  i \in 1 .. m /\ u[i] = s[i] /\ t[u[i]] = v[i]
  BY <1>1, <1>6
<1>7. ASSUME NEW i \in 1 .. (m + 1), i = p + 1
      PROVE  u[i] = m + 1 /\ t[u[i]] = w
  BY <1>7 DEF w
<1>8. ASSUME NEW i \in 1 .. (m + 1), i > p + 1
      PROVE  i - 1 \in 1 .. m /\ i - 1 > p /\ u[i] = s[i - 1] /\ t[u[i]] = v[i - 1]
  <2>1. i - 1 \in 1 .. m /\ i - 1 > p /\ ~(i <= p) /\ i # p + 1
    BY <1>8
  <2> QED
    BY <1>1, <2>1
<1>9. u \in [1 .. (m + 1) -> 1 .. (m + 1)]
  <2>1. ASSUME NEW i \in 1 .. (m + 1)
        PROVE  u[i] \in 1 .. (m + 1)
    <3>1. i <= p \/ i = p + 1 \/ i > p + 1
      OBVIOUS
    <3>2. m + 1 \in 1 .. (m + 1)
      OBVIOUS
    <3> HIDE DEF u
    <3>3. CASE i <= p
      BY <1>1, <1>6, <3>3
    <3>4. CASE i = p + 1
      BY <1>7, <3>2, <3>4
    <3>5. CASE i > p + 1
      BY <1>1, <1>8, <3>5
    <3> QED
      BY <3>1, <3>3, <3>4, <3>5
  <2> QED
    BY <2>1
<1> HIDE DEF u
<1>10. ASSUME NEW i \in 1 .. (m + 1), NEW j \in 1 .. (m + 1), i < j
       PROVE  \/ t[u[i]] < t[u[j]]
              \/ t[u[i]] = t[u[j]] /\ u[i] < u[j]
  <2>1. CASE j <= p
    <3>1. i <= p
      BY <1>10, <2>1
    <3>2. i \in 1 .. m /\ u[i] = s[i] /\ t[u[i]] = v[i]
      BY <1>6, <3>1
    <3>3. j \in 1 .. m /\ u[j] = s[j] /\ t[u[j]] = v[j]
      BY <1>6, <2>1
    <3> QED
      BY <1>3, <1>10, <3>2, <3>3
  <2>2. CASE j = p + 1
    <3>1. i <= p
      BY <1>10, <2>2
    <3>2. i \in 1 .. m /\ u[i] = s[i] /\ t[u[i]] = v[i]
      BY <1>6, <3>1
    <3>3. u[j] = m + 1 /\ t[u[j]] = w
      BY <1>7, <2>2
    <3>4. v[i] <= w /\ v[i] \in Nat
      BY <1>2, <1>5, <3>1, <3>2
    <3>5. s[i] \in 1 .. m
      BY <1>1, <3>2
    <3>6. s[i] < m + 1
      BY <3>5
    <3> QED
      BY <1>2, <3>2, <3>3, <3>4, <3>6
  <2>3. CASE j > p + 1
    <3>1. j - 1 \in 1 .. m /\ j - 1 > p /\ u[j] = s[j - 1] /\ t[u[j]] = v[j - 1]
      BY <1>8, <2>3
    <3>2. CASE i <= p
      <4>1. i \in 1 .. m /\ u[i] = s[i] /\ t[u[i]] = v[i]
        BY <1>6, <3>2
      <4>2. i < j - 1
        BY <3>2, <3>1
      <4> QED
        BY <1>3, <3>1, <4>1, <4>2
    <3>3. CASE i = p + 1
      <4>1. t[u[i]] = w
        BY <1>7, <3>3
      <4> QED
        BY <1>5, <3>1, <4>1
    <3>4. CASE i > p + 1
      <4>1. i - 1 \in 1 .. m /\ u[i] = s[i - 1] /\ t[u[i]] = v[i - 1]
        BY <1>8, <3>4
      <4>2. i - 1 < j - 1
        BY <1>10
      <4> QED
        BY <1>3, <3>1, <4>1, <4>2
    <3> QED
      BY <3>2, <3>3, <3>4
  <2> QED
    BY <2>1, <2>2, <2>3
<1>11. InDiskOrder(u, m + 1, t)
  BY <1>10 DEF InDiskOrder
<1> QED
  BY <1>9, <1>11

\* The loops over the disks and over To_Restore visit the file systems in some
\* such order.
LEMMA OrderExists ==
    ASSUME NEW n \in Nat, NEW target \in [1 .. n -> Nat]
    PROVE  \E s \in [1 .. n -> 1 .. n] : InDiskOrder(s, n, target)
<1> DEFINE Ordered(m) == \A t \in [1 .. m -> Nat] :
                            \E s \in [1 .. m -> 1 .. m] : InDiskOrder(s, m, t)
           S == {m \in Nat : Ordered(m)}
<1>1. 0 \in S
  <2> SUFFICES ASSUME NEW t \in [1 .. 0 -> Nat]
               PROVE  \E s \in [1 .. 0 -> 1 .. 0] : InDiskOrder(s, 0, t)
    OBVIOUS
  <2>1. [i \in 1 .. 0 |-> i] \in [1 .. 0 -> 1 .. 0]
    OBVIOUS
  <2>2. InDiskOrder([i \in 1 .. 0 |-> i], 0, t)
    BY DEF InDiskOrder
  <2> QED
    BY <2>1, <2>2
<1>2. ASSUME NEW m \in S
      PROVE  m + 1 \in S
  <2>1. m \in Nat /\ m + 1 \in Nat /\ Ordered(m)
    <3> HIDE DEF Ordered
    <3> QED
      OBVIOUS
  <2>2. ASSUME NEW t \in [1 .. (m + 1) -> Nat]
        PROVE  \E s \in [1 .. (m + 1) -> 1 .. (m + 1)] : InDiskOrder(s, m + 1, t)
    <3>1. [i \in 1 .. m |-> t[i]] \in [1 .. m -> Nat]
      BY <2>1
    <3>2. PICK s \in [1 .. m -> 1 .. m] : InDiskOrder(s, m, [i \in 1 .. m |-> t[i]])
      BY <2>1, <3>1
    <3>3. InDiskOrder(s, m, t)
      <4>1. \A i \in 1 .. m : [k \in 1 .. m |-> t[k]][s[i]] = t[s[i]]
        BY <2>1
      <4> QED
        BY <3>2, <4>1 DEF InDiskOrder
    <3> QED
      BY <2>1, <3>3, OrderGrows
  <2> QED
    BY <2>1, <2>2
<1>3. S \in SUBSET Nat
  OBVIOUS
<1>4. S = Nat
  <2> HIDE DEF S
  <2> QED
    BY <1>1, <1>2, <1>3, SetInduction
<1>5. Ordered(n)
  BY <1>4
<1> QED
  BY <1>5

\* The file systems that are to be restored are those that were backed up.
LEMMA OrderIsOrder ==
    ASSUME NEW n \in Nat, NEW target \in [1 .. n -> Nat]
    PROVE  /\ RestoreOrder(n, target) \in [1 .. n -> 1 .. n]
           /\ InDiskOrder(RestoreOrder(n, target), n, target)
<1>1. RestoreOrder(n, target) = CHOOSE s \in [1 .. n -> 1 .. n] :
                                   InDiskOrder(s, n, target)
  BY DEF RestoreOrder, InDiskOrder
<1> QED
  BY <1>1, OrderExists

\* When the disks are in the order of To_Backup, so are the file systems.
LEMMA OrderIsIdentity ==
    ASSUME NEW n \in Nat, NEW target \in [1 .. n -> Nat],
           \A f, g \in 1 .. n : f < g => target[f] <= target[g]
    PROVE  \A i \in 1 .. n : RestoreOrder(n, target)[i] = i
<1> DEFINE s == RestoreOrder(n, target)
<1>1. s \in [1 .. n -> 1 .. n] /\ InDiskOrder(s, n, target)
  BY OrderIsOrder
<1> HIDE DEF s
<1>2. \A i \in 1 .. n : s[i] \in 1 .. n /\ target[s[i]] \in Nat
  BY <1>1
<1>3. ASSUME NEW i \in 1 .. n, NEW j \in 1 .. n, i < j
      PROVE  s[i] < s[j]
  <2>1. \/ target[s[i]] < target[s[j]]
        \/ target[s[i]] = target[s[j]] /\ s[i] < s[j]
    BY <1>1, <1>3 DEF InDiskOrder
  <2>2. s[j] < s[i] => target[s[j]] <= target[s[i]]
    BY <1>2
  <2>3. s[i] = s[j] => target[s[i]] = target[s[j]]
    OBVIOUS
  <2> QED
    BY <1>2, <2>1, <2>2, <2>3
<1>4. \A i \in 1 .. n : i <= s[i]
  <2> DEFINE Low == {i \in 1 .. n : s[i] < i}
  <2>1. CASE Low # {}
    <3>1. Low \in SUBSET Nat
      OBVIOUS
    <3>2. PICK i \in Low : \A j \in Low : i <= j
      BY <2>1, <3>1, LeastElement
    <3>3. i \in 1 .. n /\ s[i] < i /\ s[i] \in 1 .. n
      BY <1>2, <3>2
    <3>4. i - 1 \in 1 .. n /\ i - 1 \notin Low
      BY <3>2, <3>3
    <3>5. s[i - 1] < s[i] /\ s[i - 1] \in 1 .. n
      BY <1>2, <1>3, <3>3, <3>4
    <3>6. i - 1 <= s[i - 1]
      BY <3>4, <3>5
    <3> QED
      BY <3>3, <3>5, <3>6
  <2>2. CASE Low = {}
    BY <1>2, <2>2
  <2> QED
    BY <2>1, <2>2
<1>5. \A i \in 1 .. n : s[i] <= i
  <2> DEFINE High == {i \in 1 .. n : s[i] > i}
  <2>1. CASE High # {}
    <3>1. High \in SUBSET (0 .. n)
      OBVIOUS
    <3>2. Max(High) \in High /\ \A j \in High : j <= Max(High)
      BY <2>1, <3>1, MaxElement
    <3>3. PICK i \in High : \A j \in High : j <= i
      BY <3>2
    <3>4. i \in 1 .. n /\ s[i] > i /\ s[i] \in 1 .. n
      BY <1>2, <3>3
    <3>5. i + 1 \in 1 .. n /\ i + 1 \notin High
      BY <3>3, <3>4
    <3>6. s[i] < s[i + 1] /\ s[i + 1] \in 1 .. n
      BY <1>2, <1>3, <3>4, <3>5
    <3>7. s[i + 1] <= i + 1
      BY <3>5, <3>6
    <3> QED
      BY <3>4, <3>6, <3>7
  <2>2. CASE High = {}
    BY <1>2, <2>2
  <2> QED
    BY <2>1, <2>2
<1> QED
  BY <1>2, <1>4, <1>5 DEF s
-----------------------------------------------------------------------------
(* The inductive invariants *)

Streaming == {"cat", "paste", "ask", "insert", "done"}
InProgress == IF rpc \in {"next", "end"} THEN 0 ELSE 1
LastOut == out[Len(out)]
Part == Found(FALSE) \cup Found(TRUE)

\* Types, and every file system is waiting, being restored or restored.
BaseInv ==
    /\ MediaOK /\ disk \in [1 .. Len(sizes) -> Nat]
    /\ rpc \in {"next", "look", "swap", "end"} \cup Streaming
    /\ fs \in 0 .. Len(sizes) /\ (InProgress = 1 => fs # 0)
    /\ cdrom \in discs /\ volno \in Nat
    /\ suffix \in BOOLEAN /\ tmpMore \in {0, 1}
    /\ tmpRestore \in [fs : 0 .. Len(sizes), suffix : BOOLEAN]
    /\ out \in Seq(Pieces(discs))
    /\ todo \in Seq(1 .. Len(sizes))
    /\ restored \in Seq([fs : 1 .. Len(sizes), out : Seq(Pieces(discs))])
    /\ Len(todo) + InProgress + Len(restored) = Len(sizes)
    /\ restarts \in Seq(Restarts) /\ Len(restarts) <= MaxRestarts

\* What has been sent for fs is in order.
SentInv ==
    /\ \A j \in 1 .. Len(out) : out[j].fs = fs
    /\ \A j \in 1 .. Len(out) - 1 : out[j].hi = out[j + 1].lo
    /\ rpc \in {"look", "swap"} => out = <<>> /\ ~suffix

\* The disc that is looked for, asked for or in the drive is the one after the
\* disc with the last part that was sent.
PlaceInv ==
    /\ rpc \in {"ask", "insert"} => out # <<>>
    /\ rpc = "ask" => LastOut \in cdrom.files /\ ~cdrom.last
    /\ rpc = "insert" =>
          \E d \in discs : LastOut \in d.files /\ volno = Label(d) + 1
    /\ rpc \in {"cat", "paste"} /\ out # <<>> =>
          \E d \in discs : LastOut \in d.files /\ Label(cdrom) = Label(d) + 1

\* What the two files in /tmp say to the program that joins the parts,
\* whatever was restored before.
TmpInv ==
    /\ suffix => \E p \in Pieces(discs) : p.fs = fs /\ p.more
    /\ rpc \in Streaming /\ suffix => tmpRestore.fs = fs
    /\ rpc = "cat" => Reader(suffix) = "cat"
    /\ rpc = "paste" => suffix /\ (tmpMore = 1 <=> tmpRestore.suffix)
    /\ rpc \in {"ask", "insert"} /\ Reader(suffix) = "paste" => tmpRestore.suffix

StreamInv == SentInv /\ PlaceInv /\ TmpInv

\* The file system is on a single disc.
Unsplit(f) == \A p \in Pieces(discs) : p.fs = f => ~p.more

UnsplitInv ==
    rpc \in Streaming /\ Unsplit(fs) =>
        \/ Whole(out, sizes[fs])
        \/ rpc = "cat" /\ out = <<>> /\ Found(FALSE) # {}

\* No disc before the one with label k has a file of fs or of one behind it.
Behind(k, f) == \A d \in discs : Label(d) < k => \A p \in d.files : p.fs < f

\* The file systems that are left, in the order of To_Backup.
TodoInv ==
    /\ \A i \in 1 .. Len(todo) : todo[i] = Len(sizes) - Len(todo) + i
    /\ InProgress = 1 => fs = Len(sizes) - Len(todo)

\* The search for the first part has not gone past it.
SearchInv ==
    /\ rpc \in {"next", "look", "swap"} => tmpMore = 0
    /\ rpc = "next" => Behind(Label(cdrom), Len(sizes) - Len(todo) + 1)
    /\ rpc = "look" => volno = Label(cdrom) /\ Behind(Label(cdrom), fs)
    /\ rpc = "swap" => Behind(volno, fs)

\* /tmp is right about the part that is next, and what was sent is the
\* beginning of the stream.
JoinInv ==
    /\ rpc \in {"cat", "paste"} =>
          /\ Part # {}
          /\ tmpMore = 1 <=> Found(TRUE) # {}
          /\ Found(TRUE) # {} => suffix
          /\ suffix => tmpRestore = [fs |-> fs, suffix |-> Found(TRUE) # {}]
          /\ IF out = <<>> THEN \A p \in Part : p.lo = 0 ELSE out[1].lo = 0
    /\ rpc \in {"ask", "insert"} =>
          /\ out[1].lo = 0 /\ LastOut.more
          /\ suffix /\ tmpRestore = [fs |-> fs, suffix |-> TRUE]
    /\ rpc = "done" =>
          /\ Whole(out, sizes[fs])
          /\ tmpMore = 0 /\ Found(FALSE) # {}

OrderInv == InOrder => TodoInv /\ SearchInv /\ JoinInv
-----------------------------------------------------------------------------
(* Types *)

\* A function on 1 .. n is a list of n elements.
LEMMA OrderIsList ==
    ASSUME MediaOK, disk \in [1 .. Len(sizes) -> Nat]
    PROVE  /\ RestoreOrder(Len(sizes), disk) \in Seq(1 .. Len(sizes))
           /\ Len(RestoreOrder(Len(sizes), disk)) = Len(sizes)
<1>1. Len(sizes) \in Nat
  BY DEF MediaOK, MediaType
<1>2. RestoreOrder(Len(sizes), disk) \in [1 .. Len(sizes) -> 1 .. Len(sizes)]
  BY <1>1, OrderIsOrder
<1> QED
  BY <1>1, <1>2

\* A restore begins: any set of discs will do, if it is well formed.
Ready ==
    /\ MediaOK /\ disk \in [1 .. Len(sizes) -> Nat]
    /\ rpc = "next" /\ todo = RestoreOrder(Len(sizes), disk)
    /\ fs = 0 /\ volno = 0 /\ cdrom = FirstDisc
    /\ suffix = FALSE /\ tmpMore = 0 /\ tmpRestore = NoFile
    /\ out = <<>> /\ restored = <<>> /\ restarts = <<>>

\* The restore starts as the proofs assume it.
LEMMA InitIsReady == Init => Ready
<1> SUFFICES ASSUME Init
             PROVE  Ready
  OBVIOUS
<1>1. MediaOK
  BY RestoreAssumption DEF MediaOK, Init
<1>2. disk \in [1 .. Len(sizes) -> Nat]
  BY RestoreAssumption DEF Init
<1> QED
  BY <1>1, <1>2 DEF Init, Ready

\* The basic invariant holds at the beginning.
LEMMA BaseInit == Ready => BaseInv
<1> SUFFICES ASSUME Ready
             PROVE  BaseInv
  OBVIOUS
<1> USE DEF Ready
<1>1. MediaOK
  OBVIOUS
<1>2. disk \in [1 .. Len(sizes) -> Nat]
  OBVIOUS
<1>3. todo \in Seq(1 .. Len(sizes)) /\ Len(todo) = Len(sizes)
  BY <1>1, <1>2, OrderIsList
<1>4. Len(sizes) \in Nat
  BY <1>1 DEF MediaOK, MediaType
<1>5. cdrom \in discs
  BY <1>1, FirstDiscFacts
<1>6. tmpRestore \in [fs : 0 .. Len(sizes), suffix : BOOLEAN]
  BY <1>4 DEF NoFile
<1>7. /\ out \in Seq(Pieces(discs))
      /\ restored \in Seq([fs : 1 .. Len(sizes), out : Seq(Pieces(discs))])
      /\ restarts \in Seq(Restarts)
      /\ Len(restored) = 0 /\ Len(restarts) = 0
  OBVIOUS
<1>8. Len(restarts) <= MaxRestarts
  BY <1>7, RestoreAssumption
<1>9. InProgress = 0
  BY DEF InProgress
<1>10. Len(todo) + InProgress + Len(restored) = Len(sizes)
  BY <1>3, <1>4, <1>7, <1>9
<1>11. fs \in 0 .. Len(sizes)
  BY <1>4
<1>12. /\ rpc \in {"next", "look", "swap", "end"} \cup Streaming
       /\ volno \in Nat /\ tmpMore \in {0, 1}
  OBVIOUS
<1>13. suffix \in BOOLEAN
  OBVIOUS
<1>14. InProgress = 1 => fs # 0
  BY <1>9
<1> HIDE DEF Ready
<1> QED
  BY <1>1, <1>2, <1>3, <1>5, <1>6, <1>7, <1>8, <1>9, <1>10, <1>11,
     <1>12, <1>13, <1>14 DEF BaseInv

\* The step leaves the media as they are, and appends at most one piece that
\* is on the disc in the drive.
LEMMA BaseNext == BaseInv /\ [Next]_vars => BaseInv'
<1> SUFFICES ASSUME BaseInv, [Next]_vars
             PROVE  BaseInv'
  OBVIOUS
<1> USE DEF BaseInv
<1>n. Len(sizes) \in Nat
  BY DEF MediaOK, MediaType
<1>c. Len(todo) \in Nat /\ Len(restored) \in Nat /\ Len(restarts) \in Nat
  OBVIOUS
<1>f. \A f, more : Files(cdrom, f, more) \subseteq Pieces(discs)
  BY DEF Files, Pieces
<1>d. /\ \A d \in discs : Label(d) \in Nat
      /\ FirstDisc \in discs
  BY DiscFacts, FirstDiscFacts
<1>m. /\ sizes' = sizes /\ discs' = discs /\ disk' = disk /\ MediaOK'
  BY DEF Next, Steps, NextFs, Look, Swap, Cat, CatFails, Paste, AskForCd, Insert,
         FsDone, Finish, InsertOther, Restart, Terminated, media, vars, MediaOK
<1>1. CASE NextFs
  <2> USE <1>1 DEF NextFs, media, tmp
  <2>1. fs' \in 1 .. Len(sizes) /\ todo' \in Seq(1 .. Len(sizes))
        /\ Len(todo') = Len(todo) - 1
    OBVIOUS
  <2>2. rpc' \in {"cat", "look"} /\ volno' \in Nat
    BY <1>d
  <2>3. InProgress = 0 /\ InProgress' = 1
    BY <2>2 DEF InProgress
  <2>4. out' \in Seq(Pieces(discs))
    OBVIOUS
  <2>5. Len(todo') + InProgress' + Len(restored') = Len(sizes)
    BY <1>n, <1>c, <2>1, <2>3
  <2>6. fs' \in 0 .. Len(sizes) /\ fs' # 0
    BY <1>n, <2>1
  <2> QED
    BY <1>m, <2>1, <2>2, <2>4, <2>5, <2>6 DEF Streaming
<1>2. CASE Look
  <2>1. /\ rpc = "look" /\ rpc' \in {"cat", "paste", "swap"}
        /\ suffix' \in BOOLEAN /\ tmpMore' \in {0, 1}
    BY <1>2 DEF Look, tmp, Reader
  <2>2. volno' \in Nat
    <3>1. volno' = volno \/ volno' = 1 \/ volno' = volno + 1
      BY <1>2 DEF Look
    <3>2. volno \in Nat
      OBVIOUS
    <3> HIDE DEF BaseInv
    <3> QED
      BY <3>1, <3>2
  <2>3. tmpRestore' \in {tmpRestore, [fs |-> fs, suffix |-> TRUE]}
    BY <1>2 DEF Look, tmp
  <2>4. [fs |-> fs, suffix |-> TRUE] \in [fs : 0 .. Len(sizes), suffix : BOOLEAN]
    OBVIOUS
  <2>5. tmpRestore' \in [fs : 0 .. Len(sizes), suffix : BOOLEAN]
    BY <2>3, <2>4
  <2>6. InProgress = 1 /\ InProgress' = 1
    BY <2>1 DEF InProgress
  <2> QED
    BY <1>2, <1>m, <1>n, <2>1, <2>2, <2>5, <2>6 DEF Look, Streaming
<1>3. CASE Swap
  <2>1. cdrom' \in discs /\ InProgress = 1 /\ InProgress' = 1
    BY <1>3 DEF Swap, Labelled, InProgress
  <2> QED
    BY <1>3, <1>m, <1>n, <2>1 DEF Swap, media, tmp
<1>4. CASE Cat
  <2>1. PICK more \in BOOLEAN :
            /\ Found(more) # {} /\ suffix' = more
            /\ out' = Append(out, CHOOSE p \in Found(more) : TRUE)
    <3>1. (suffix /\ Found(TRUE) # {}) \in BOOLEAN
      OBVIOUS
    <3> QED
      BY <1>4, <3>1 DEF Cat
  <2>2. PICK p \in Pieces(discs) : p = CHOOSE q \in Found(more) : TRUE
    BY <2>1, <1>f DEF Found
  <2>3. out' \in Seq(Pieces(discs))
    BY <2>1, <2>2
  <2>4. rpc = "cat" /\ rpc' \in {"ask", "done"}
    BY <1>4 DEF Cat
  <2>5. InProgress = 1 /\ InProgress' = 1
    BY <2>4 DEF InProgress
  <2> QED
    BY <1>4, <1>m, <1>n, <2>1, <2>3, <2>4, <2>5 DEF Cat, media, tmp, Streaming
<1>5. CASE CatFails
  <2>1. InProgress = 1 /\ InProgress' = 1
    BY <1>5 DEF CatFails, InProgress
  <2> QED
    BY <1>5, <1>m, <1>n, <2>1 DEF CatFails, media, tmp, Streaming
<1>6. CASE Paste
  <2> USE <1>6 DEF Paste, media, tmp
  <2>1. Named # {} => (CHOOSE p \in Named : TRUE) \in Pieces(discs)
    BY <1>f DEF Named
  <2>2. out' \in Seq(Pieces(discs))
    BY <2>1
  <2>3. rpc' \in {"ask", "done"}
    OBVIOUS
  <2>4. InProgress = 1 /\ InProgress' = 1
    BY <2>3 DEF InProgress
  <2> QED
    BY <1>m, <1>n, <2>2, <2>3, <2>4 DEF Streaming
<1>7. CASE AskForCd
  <2>1. InProgress = 1 /\ InProgress' = 1 /\ volno' \in Nat
    BY <1>7, <1>d DEF AskForCd, InProgress
  <2> QED
    BY <1>7, <1>m, <1>n, <2>1 DEF AskForCd, media, tmp, Streaming
<1>8. CASE Insert
  <2> USE <1>8 DEF Insert, media, tmp
  <2>1. tmpMore' \in {0, 1} /\ tmpRestore' \in [fs : 0 .. Len(sizes), suffix : BOOLEAN]
    OBVIOUS
  <2>2. rpc' \in {"cat", "paste"} /\ cdrom' \in discs
    BY DEF Reader, Labelled
  <2>3. InProgress = 1 /\ InProgress' = 1
    BY <2>2 DEF InProgress
  <2> QED
    BY <1>m, <1>n, <2>1, <2>2, <2>3 DEF Streaming
<1>9. CASE InsertOther
  <2>1. cdrom' \in discs /\ InProgress' = InProgress
    BY <1>9 DEF InsertOther, InProgress
  <2> QED
    BY <1>9, <1>m, <1>n, <2>1 DEF InsertOther, media, tmp
<1>10. CASE FsDone
  <2> USE <1>10 DEF FsDone, media, tmp
  <2>1. InProgress = 1 /\ InProgress' = 0
    BY DEF InProgress
  <2>2. [fs |-> fs, out |-> out] \in [fs : 1 .. Len(sizes), out : Seq(Pieces(discs))]
    BY <2>1
  <2>3. restored' \in Seq([fs : 1 .. Len(sizes), out : Seq(Pieces(discs))])
        /\ Len(restored') = Len(restored) + 1
    BY <2>2
  <2> QED
    BY <1>m, <1>n, <1>c, <2>1, <2>3
<1>11. CASE Finish
  <2>1. InProgress = 0 /\ InProgress' = 0
    BY <1>11 DEF Finish, InProgress
  <2> QED
    BY <1>11, <1>m, <1>n, <2>1 DEF Finish, media, tmp
<1>12. CASE Restart
  <2> USE <1>12 DEF Restart, media, tmp
  <2>1. todo' \in Seq(1 .. Len(sizes)) /\ Len(todo') = Len(sizes)
    BY OrderIsList
  <2>2. NoFile \in [fs : 0 .. Len(sizes), suffix : BOOLEAN]
    BY <1>n DEF NoFile
  <2>3. tmpMore' \in {0, 1} /\ tmpRestore' \in [fs : 0 .. Len(sizes), suffix : BOOLEAN]
    BY <2>2
  <2>4. restarts' \in Seq(Restarts) /\ Len(restarts') = Len(restarts) + 1
    OBVIOUS
  <2>5. Len(restarts') <= MaxRestarts
    BY <1>c, <2>4, RestoreAssumption
  <2>6. /\ restored' \in Seq([fs : 1 .. Len(sizes), out : Seq(Pieces(discs))])
        /\ out' \in Seq(Pieces(discs)) /\ Len(restored') = 0
    OBVIOUS
  <2>7. InProgress' = 0
    BY DEF InProgress
  <2> QED
    BY <1>d, <1>m, <1>n, <2>1, <2>3, <2>4, <2>5, <2>6, <2>7
<1>13. CASE UNCHANGED vars
  BY <1>13, <1>m DEF vars, InProgress
<1> QED
  BY <1>1, <1>2, <1>3, <1>4, <1>5, <1>6, <1>7, <1>8, <1>9, <1>10, <1>11, <1>12,
     <1>13 DEF Next, Steps, Terminated

\* The types: whatever discs there are and however often a restore is taken up
\* again, no file system is restored more often than it was backed up, and the
\* disc that is looked at is always one of the set.
THEOREM TypeCorrect == Spec => []TypeOK
<1>1. BaseInv => TypeOK
  <2> SUFFICES ASSUME BaseInv
               PROVE  TypeOK
    OBVIOUS
  <2>1. Len(todo) \in Nat /\ Len(restored) \in Nat /\ InProgress \in {0, 1}
    BY DEF BaseInv, InProgress
  <2>2. Len(todo) + Len(restored) <= Len(sizes)
    BY <2>1 DEF BaseInv
  <2> QED
    BY <2>2 DEF BaseInv, TypeOK, Streaming
<1> QED
  BY <1>1, InitIsReady, BaseInit, BaseNext, PTL DEF Spec
-----------------------------------------------------------------------------
(* The parts of a stream come in order *)

\* Found(TRUE) is the "_" file of fs on the disc in the drive, Found(FALSE) the
\* one without "_".
LEMMA FoundFacts ==
    ASSUME BaseInv
    PROVE  /\ \A p \in Found(TRUE) : p \in cdrom.files /\ p.fs = fs /\ p.more
           /\ \A p \in Found(FALSE) : p \in cdrom.files /\ p.fs = fs /\ ~p.more
           /\ \A p \in cdrom.files : p.fs = fs /\ p.more => p \in Found(TRUE)
           /\ \A p \in cdrom.files : p.fs = fs /\ ~p.more => p \in Found(FALSE)
           /\ Found(TRUE) # {} => Found(FALSE) = {} /\ ~cdrom.last
<1>1. MediaOK /\ cdrom \in discs
  BY DEF BaseInv
<1>2. \A p \in cdrom.files : p.more \in BOOLEAN
  BY <1>1, PieceFacts
<1>3. \A p \in Found(TRUE) : p \in cdrom.files /\ p.fs = fs /\ p.more
  BY DEF Found, Files
<1>4. \A p \in Found(FALSE) : p \in cdrom.files /\ p.fs = fs /\ ~p.more
  BY DEF Found, Files
<1>5. /\ \A p \in cdrom.files : p.fs = fs /\ p.more => p \in Found(TRUE)
      /\ \A p \in cdrom.files : p.fs = fs /\ ~p.more => p \in Found(FALSE)
  BY <1>2 DEF Found, Files
<1>6. ASSUME NEW p \in Found(TRUE)
      PROVE  Found(FALSE) = {} /\ ~cdrom.last
  <2>1. p \in cdrom.files /\ p.fs = fs /\ p.more
    BY <1>3
  <2>2. ~cdrom.last /\ \A q \in cdrom.files : p.fs = q.fs => p = q
    BY <1>1, <2>1, PieceFacts
  <2>3. \A q \in Found(FALSE) : FALSE
    BY <1>4, <2>1, <2>2
  <2> QED
    BY <2>2, <2>3
<1> QED
  BY <1>3, <1>4, <1>5, <1>6

\* A part from the disc after that of the last one continues what was sent.
LEMMA SentGrows ==
    ASSUME BaseInv, SentInv, NEW q \in cdrom.files, q.fs = fs,
           out # <<>> => \E d \in discs :
                            LastOut \in d.files /\ Label(cdrom) = Label(d) + 1,
           NEW o, o = Append(out, q)
    PROVE  /\ o # <<>> /\ o[Len(o)] = q /\ Len(o) = Len(out) + 1
           /\ o[1] = IF out = <<>> THEN q ELSE out[1]
           /\ \A j \in 1 .. Len(o) : o[j].fs = fs
           /\ \A j \in 1 .. Len(o) - 1 : o[j].hi = o[j + 1].lo
           /\ \A j \in 1 .. Len(out) : o[j] = out[j]
<1>1. MediaOK /\ cdrom \in discs /\ out \in Seq(Pieces(discs)) /\ q \in Pieces(discs)
  BY DEF BaseInv, Pieces
<1>2. /\ o \in Seq(Pieces(discs)) /\ Len(o) = Len(out) + 1 /\ o[Len(out) + 1] = q
      /\ \A j \in 1 .. Len(out) : o[j] = out[j]
      /\ Len(out) \in Nat
  BY <1>1
<1>3. o # <<>> /\ o[Len(o)] = q
  BY <1>2
<1>4. o[1] = IF out = <<>> THEN q ELSE out[1]
  <2>1. CASE out = <<>>
    BY <1>2, <2>1
  <2>2. CASE out # <<>>
    <3>1. 1 \in 1 .. Len(out)
      BY <1>1, <2>2
    <3> QED
      BY <1>2, <2>2, <3>1
  <2> QED
    BY <2>1, <2>2
<1>5. ASSUME NEW j \in 1 .. Len(o)
      PROVE  o[j].fs = fs
  <2>1. j \in 1 .. Len(out) \/ j = Len(out) + 1
    BY <1>2
  <2> QED
    BY <1>2, <2>1 DEF SentInv
<1>6. ASSUME NEW j \in 1 .. Len(o) - 1
      PROVE  o[j].hi = o[j + 1].lo
  <2>1. j \in 1 .. Len(out)
    BY <1>2
  <2>2. CASE j = Len(out)
    <3>1. out # <<>> /\ o[j] = LastOut /\ o[j + 1] = q
      BY <1>2, <2>1, <2>2 DEF LastOut
    <3>2. PICK d \in discs : LastOut \in d.files /\ Label(cdrom) = Label(d) + 1
      BY <3>1
    <3>3. LastOut.fs = q.fs
      BY <2>1, <2>2 DEF SentInv, LastOut
    <3>4. LastOut.hi = q.lo
      BY <1>1, <3>2, <3>3, NextPart
    <3> QED
      BY <3>1, <3>4
  <2>3. CASE j # Len(out)
    <3>1. j \in 1 .. Len(out) - 1 /\ j + 1 \in 1 .. Len(out)
      BY <1>2, <2>1, <2>3
    <3> QED
      BY <1>2, <2>1, <3>1 DEF SentInv
  <2> QED
    BY <2>2, <2>3
<1> QED
  BY <1>2, <1>3, <1>4, <1>5, <1>6

\* What a round of restore_split_file does.
LEMMA CatStep ==
    ASSUME BaseInv, Cat
    PROVE  /\ suffix' <=> suffix /\ Found(TRUE) # {}
           /\ rpc' = IF tmpMore = 1 /\ ~cdrom.last THEN "ask" ELSE "done"
           /\ \E q \in cdrom.files : /\ q.fs = fs /\ (q.more <=> suffix')
                                     /\ out' = Append(out, q)
<1>1. rpc' = IF tmpMore = 1 /\ ~cdrom.last THEN "ask" ELSE "done"
  <2>1. tmpMore \in {0, 1}
    BY DEF BaseInv
  <2> QED
    BY <2>1 DEF Cat
<1>2. CASE suffix /\ Found(TRUE) # {}
  <2>1. (suffix /\ Found(TRUE) # {}) = TRUE
    BY <1>2
  <2>2. suffix' = TRUE /\ out' = Append(out, CHOOSE p \in Found(TRUE) : TRUE)
    BY <2>1 DEF Cat
  <2>3. PICK q \in Found(TRUE) : q = CHOOSE p \in Found(TRUE) : TRUE
    BY <1>2
  <2> QED
    BY <1>1, <1>2, <2>2, <2>3, FoundFacts
<1>3. CASE ~(suffix /\ Found(TRUE) # {})
  <2>1. (suffix /\ Found(TRUE) # {}) = FALSE
    BY <1>3
  <2>2. suffix' = FALSE /\ out' = Append(out, CHOOSE p \in Found(FALSE) : TRUE)
        /\ Found(FALSE) # {}
    BY <2>1 DEF Cat
  <2>3. PICK q \in Found(FALSE) : q = CHOOSE p \in Found(FALSE) : TRUE
    BY <2>2
  <2> QED
    BY <1>1, <1>3, <2>2, <2>3, FoundFacts
<1> QED
  BY <1>2, <1>3

\* What a round of pastestream does.
LEMMA PasteStep ==
    ASSUME BaseInv, Paste, tmpRestore.fs = fs
    PROVE  \/ /\ out' = out /\ rpc' = "done"
              /\ IF tmpRestore.suffix THEN Found(TRUE) = {} ELSE Found(FALSE) = {}
           \/ /\ rpc' = IF tmpMore = 1 THEN "ask" ELSE "done"
              /\ \E q \in cdrom.files :
                    /\ q.fs = fs /\ (q.more <=> tmpRestore.suffix)
                    /\ out' = Append(out, q)
<1>1. tmpMore \in {0, 1} /\ tmpRestore.suffix \in BOOLEAN
  BY DEF BaseInv
<1>2. IF tmpRestore.suffix THEN Named = Found(TRUE) ELSE Named = Found(FALSE)
  BY <1>1 DEF Named, Found
<1>3. CASE Named = {}
  BY <1>2, <1>3 DEF Paste
<1>4. CASE Named # {}
  <2>1. PICK q \in Named : q = CHOOSE p \in Named : TRUE
    BY <1>4
  <2>2. q \in cdrom.files /\ q.fs = fs /\ (q.more <=> tmpRestore.suffix)
    BY <1>2, <2>1, FoundFacts
  <2>3. out' = Append(out, q) /\ rpc' = IF tmpMore = 1 THEN "ask" ELSE "done"
    BY <1>1, <1>4, <2>1 DEF Paste
  <2> QED
    BY <2>2, <2>3
<1> QED
  BY <1>3, <1>4

\* The disc that is asked for has the label that is asked for.
LEMMA LabelledFacts ==
    ASSUME BaseInv, NEW d \in Labelled(volno)
    PROVE  d \in discs /\ Label(d) = volno
<1>1. d \in discs /\ d.labels = {volno}
  BY DEF Labelled
<1>2. d.labels = {Label(d)}
  BY <1>1, DiscFacts DEF BaseInv
<1>3. \A k, m : {k} = {m} => k = m
  OBVIOUS
<1> QED
  BY <1>1, <1>2, <1>3

\* The media set is not changed.
LEMMA MediaStay ==
    ASSUME [Next]_vars
    PROVE  sizes' = sizes /\ discs' = discs /\ paster' = paster /\ disk' = disk
BY DEF Next, Steps, NextFs, Look, Swap, Cat, CatFails, Paste, AskForCd, Insert,
       FsDone, Finish, InsertOther, Restart, Terminated, media, vars

\* Every step keeps the order of what pastestream has written.
LEMMA StreamNext == BaseInv /\ StreamInv /\ [Next]_vars => StreamInv'
<1> SUFFICES ASSUME BaseInv, StreamInv, [Next]_vars
             PROVE  StreamInv'
  OBVIOUS
<1>m. discs' = discs /\ paster' = paster
  BY MediaStay
<1>b. MediaOK /\ cdrom \in discs /\ out \in Seq(Pieces(discs))
  BY DEF BaseInv
<1>r. \A split \in BOOLEAN : /\ Reader(split) \in {"cat", "paste"}
                             /\ Reader(split) = "paste" => split
                             /\ Reader(split)' = Reader(split)
  BY <1>m DEF Reader
<1>s. suffix \in BOOLEAN /\ tmpMore \in {0, 1} /\ tmpRestore.suffix \in BOOLEAN
  BY DEF BaseInv
<1>1. CASE NextFs
  <2>1. rpc' \in {"cat", "look"} /\ out' = <<>> /\ suffix' = FALSE
    BY <1>1 DEF NextFs
  <2>2. ~suffix'
    BY <2>1
  <2>3. Reader(suffix') = "cat"
    BY <2>1 DEF Reader
  <2>4. SentInv'
    BY <2>1, <2>2 DEF SentInv
  <2>5. PlaceInv'
    BY <2>1 DEF PlaceInv
  <2>6. TmpInv'
    BY <1>m, <2>1, <2>2, <2>3 DEF TmpInv, Reader
  <2> QED
    BY <2>4, <2>5, <2>6 DEF StreamInv
<1>2. CASE Look
  <2>1. /\ rpc = "look" /\ out' = out /\ fs' = fs /\ cdrom' = cdrom
        /\ out = <<>> /\ ~suffix
    BY <1>2 DEF Look, StreamInv, SentInv
  <2>2. SentInv' \/ rpc' = "swap"
    <3>1. rpc' \in {"cat", "paste"} \/ rpc' = "swap"
      BY <1>2 DEF Look, Reader
    <3> QED
      BY <2>1, <3>1 DEF SentInv
  <2>3. CASE Found(FALSE) # {}
    <3>1. suffix' = FALSE /\ rpc' = "cat"
      BY <1>2, <2>3 DEF Look
    <3>2. ~suffix' /\ Reader(suffix') = "cat"
      BY <3>1 DEF Reader
    <3>3. PlaceInv'
      BY <2>1, <3>1 DEF PlaceInv
    <3>4. TmpInv'
      BY <1>m, <3>1, <3>2 DEF TmpInv, Reader
    <3> QED
      BY <2>2, <3>1, <3>3, <3>4 DEF StreamInv
  <2>4. CASE Found(FALSE) = {} /\ Found(TRUE) # {}
    <3>1. /\ suffix' = TRUE /\ rpc' = Reader(TRUE)
          /\ tmpRestore' = [fs |-> fs, suffix |-> TRUE] /\ tmpMore' = 1
      BY <1>2, <2>4 DEF Look
    <3>2. suffix' /\ rpc' \in {"cat", "paste"} /\ tmpRestore'.fs = fs
          /\ tmpRestore'.suffix
      BY <1>r, <3>1
    <3>3. PICK p \in Found(TRUE) : p \in cdrom.files /\ p.fs = fs /\ p.more
      BY <2>4, FoundFacts
    <3>4. p \in Pieces(discs)
      BY <1>b, <3>3 DEF Pieces
    <3>5. PlaceInv'
      BY <2>1, <3>2 DEF PlaceInv
    <3>6. Reader(suffix)' = rpc'
      BY <1>m, <3>1 DEF Reader
    <3>7. TmpInv'
      BY <1>m, <2>1, <3>1, <3>2, <3>3, <3>4, <3>6 DEF TmpInv
    <3> QED
      BY <2>2, <3>2, <3>5, <3>7 DEF StreamInv
  <2>5. CASE Found(FALSE) = {} /\ Found(TRUE) = {}
    <3>1. rpc' = "swap" /\ suffix' = suffix
      BY <1>2, <2>5 DEF Look
    <3>2. SentInv' /\ PlaceInv' /\ TmpInv'
      BY <2>1, <3>1 DEF SentInv, PlaceInv, TmpInv, Streaming
    <3> QED
      BY <3>2 DEF StreamInv
  <2> QED
    BY <2>3, <2>4, <2>5
<1>3. CASE Swap
  <2>1. rpc' = "look" /\ out' = out /\ suffix' = suffix /\ fs' = fs
        /\ out = <<>> /\ ~suffix
    BY <1>3 DEF Swap, StreamInv, SentInv
  <2>2. SentInv' /\ PlaceInv' /\ TmpInv'
    BY <2>1 DEF SentInv, PlaceInv, TmpInv, Streaming
  <2> QED
    BY <2>2 DEF StreamInv
<1>4. CASE Cat
  <2>0. rpc = "cat" /\ fs' = fs /\ cdrom' = cdrom /\ tmpRestore' = tmpRestore
    BY <1>4 DEF Cat, tmp
  <2>1. PICK q \in cdrom.files : /\ q.fs = fs /\ (q.more <=> suffix')
                                 /\ out' = Append(out, q)
    BY <1>4, CatStep
  <2>2. out # <<>> => \E d \in discs : LastOut \in d.files /\ Label(cdrom) = Label(d) + 1
    BY <2>0 DEF StreamInv, PlaceInv
  <2>3. /\ out' # <<>> /\ out'[Len(out')] = q
        /\ \A j \in 1 .. Len(out') : out'[j].fs = fs
        /\ \A j \in 1 .. Len(out') - 1 : out'[j].hi = out'[j + 1].lo
    BY <2>1, <2>2, SentGrows DEF StreamInv
  <2>4. /\ suffix' => suffix
        /\ rpc' \in {"ask", "done"}
        /\ rpc' = "ask" => ~cdrom.last
    BY <1>4, CatStep
  <2>5. SentInv'
    BY <2>0, <2>3, <2>4 DEF SentInv
  <2>6. PlaceInv'
    BY <2>0, <2>1, <2>3, <2>4 DEF PlaceInv, LastOut
  <2>7. Reader(suffix)' = "paste" => FALSE
    <3>1. Reader(suffix) = "cat"
      BY <2>0 DEF StreamInv, TmpInv
    <3> QED
      BY <1>m, <2>4, <3>1 DEF Reader
  <2>8. TmpInv'
    BY <1>m, <2>0, <2>4, <2>7 DEF StreamInv, TmpInv, Streaming
  <2> QED
    BY <2>5, <2>6, <2>8 DEF StreamInv
<1>5. CASE CatFails
  <2>1. rpc = "cat" /\ rpc' = "done" /\ out' = out /\ suffix' = suffix /\ fs' = fs
        /\ tmpRestore' = tmpRestore
    BY <1>5 DEF CatFails, tmp
  <2>2. SentInv' /\ PlaceInv'
    BY <2>1 DEF StreamInv, SentInv, PlaceInv
  <2>3. TmpInv'
    BY <1>m, <2>1 DEF StreamInv, TmpInv, Streaming
  <2> QED
    BY <2>2, <2>3 DEF StreamInv
<1>6. CASE Paste
  <2>0. /\ rpc = "paste" /\ fs' = fs /\ cdrom' = cdrom /\ tmpRestore' = tmpRestore
        /\ suffix' = suffix
    BY <1>6 DEF Paste, tmp
  <2>1. suffix /\ tmpRestore.fs = fs /\ (tmpMore = 1 <=> tmpRestore.suffix)
    BY <2>0 DEF StreamInv, TmpInv, Streaming
  <2>2. out # <<>> => \E d \in discs : LastOut \in d.files /\ Label(cdrom) = Label(d) + 1
    BY <2>0 DEF StreamInv, PlaceInv
  <2>3. CASE out' = out /\ rpc' = "done"
    <3>1. SentInv' /\ PlaceInv'
      BY <2>0, <2>3 DEF StreamInv, SentInv, PlaceInv
    <3>2. TmpInv'
      BY <1>m, <2>0, <2>3 DEF StreamInv, TmpInv, Streaming
    <3> QED
      BY <3>1, <3>2 DEF StreamInv
  <2>4. CASE /\ rpc' = IF tmpMore = 1 THEN "ask" ELSE "done"
             /\ \E q \in cdrom.files :
                   /\ q.fs = fs /\ (q.more <=> tmpRestore.suffix)
                   /\ out' = Append(out, q)
    <3>1. PICK q \in cdrom.files : /\ q.fs = fs /\ (q.more <=> tmpRestore.suffix)
                                   /\ out' = Append(out, q)
      BY <2>4
    <3>2. /\ out' # <<>> /\ out'[Len(out')] = q
          /\ \A j \in 1 .. Len(out') : out'[j].fs = fs
          /\ \A j \in 1 .. Len(out') - 1 : out'[j].hi = out'[j + 1].lo
      <4>1. SentInv /\ q.fs = fs /\ out' = Append(out, q)
        BY <3>1 DEF StreamInv
      <4> QED
        BY <2>2, <4>1, SentGrows
    <3>3. rpc' \in {"ask", "done"} /\ (rpc' = "ask" => tmpRestore.suffix)
      BY <2>1, <2>4
    <3>4. rpc' = "ask" => ~cdrom.last
      BY <1>b, <3>1, <3>3, PieceFacts
    <3>5. SentInv'
      BY <2>0, <3>2, <3>3 DEF SentInv
    <3>6. PlaceInv'
      BY <2>0, <3>1, <3>2, <3>3, <3>4 DEF PlaceInv, LastOut
    <3>7. TmpInv'
      BY <1>m, <2>0, <2>1, <3>3 DEF StreamInv, TmpInv, Streaming
    <3> QED
      BY <3>5, <3>6, <3>7 DEF StreamInv
  <2> QED
    BY <1>6, <2>1, <2>3, <2>4, PasteStep
<1>7. CASE AskForCd
  <2>1. /\ rpc = "ask" /\ rpc' = "insert" /\ fs' = fs /\ suffix' = suffix
        /\ tmpRestore' = tmpRestore /\ out' = out
    BY <1>7 DEF AskForCd, tmp
  <2>2. out # <<>> /\ LastOut \in cdrom.files /\ ~cdrom.last
    BY <2>1 DEF StreamInv, PlaceInv
  <2>3. volno' = Label(cdrom) + 1
    BY <1>7, <2>2 DEF AskForCd
  <2>4. SentInv' /\ PlaceInv'
    BY <1>b, <1>m, <2>1, <2>2, <2>3 DEF StreamInv, SentInv, PlaceInv, LastOut
  <2>5. TmpInv'
    BY <1>m, <2>1 DEF StreamInv, TmpInv, Streaming, Reader
  <2> QED
    BY <2>4, <2>5 DEF StreamInv
<1>8. CASE Insert
  <2>1. /\ rpc = "insert" /\ rpc' = Reader(suffix) /\ fs' = fs /\ suffix' = suffix
        /\ out' = out /\ cdrom' \in Labelled(volno)
    BY <1>8 DEF Insert
  <2>2. Label(cdrom') = volno
    BY <2>1, LabelledFacts
  <2>3. rpc' \in {"cat", "paste"}
    BY <1>r, <1>s, <2>1
  <2>4. SentInv' /\ PlaceInv'
    BY <1>m, <2>1, <2>2, <2>3 DEF StreamInv, SentInv, PlaceInv, LastOut
  <2>5. /\ tmpRestore'.fs = tmpRestore.fs
        /\ tmpMore' = 1 => tmpRestore'.suffix = tmpRestore.suffix
        /\ tmpMore' = 0 => tmpRestore'.suffix = FALSE
        /\ tmpMore' \in {0, 1}
    <3>1. tmpRestore \in [fs : 0 .. Len(sizes), suffix : BOOLEAN]
      BY DEF BaseInv
    <3> QED
      BY <1>8, <3>1 DEF Insert
  <2>6. Reader(suffix) = "paste" => tmpRestore.suffix
    BY <2>1 DEF StreamInv, TmpInv
  <2>7. rpc' = "paste" => suffix' /\ (tmpMore' = 1 <=> tmpRestore'.suffix)
    BY <1>r, <1>s, <2>1, <2>5, <2>6
  <2>8. Reader(suffix)' = rpc'
    BY <1>m, <2>1 DEF Reader
  <2>9. TmpInv'
    BY <1>m, <2>1, <2>3, <2>5, <2>7, <2>8 DEF StreamInv, TmpInv, Streaming
  <2> QED
    BY <2>4, <2>9 DEF StreamInv
<1>9. CASE InsertOther
  <2>1. /\ rpc = "insert" /\ rpc' = rpc /\ fs' = fs /\ suffix' = suffix
        /\ tmpRestore' = tmpRestore /\ out' = out /\ volno' = volno
    BY <1>9 DEF InsertOther, tmp
  <2>2. SentInv' /\ PlaceInv'
    BY <1>m, <2>1 DEF StreamInv, SentInv, PlaceInv, LastOut
  <2>3. TmpInv'
    BY <1>m, <2>1 DEF StreamInv, TmpInv, Streaming, Reader
  <2> QED
    BY <2>2, <2>3 DEF StreamInv
<1>10. CASE FsDone \/ Finish
  <2>1. /\ rpc' \in {"next", "end"} /\ fs' = fs /\ suffix' = suffix
        /\ tmpRestore' = tmpRestore /\ out' = out
    BY <1>10 DEF FsDone, Finish, tmp
  <2>2. SentInv' /\ PlaceInv'
    BY <2>1 DEF StreamInv, SentInv, PlaceInv
  <2>3. TmpInv'
    BY <1>m, <2>1 DEF StreamInv, TmpInv, Streaming
  <2> QED
    BY <2>2, <2>3 DEF StreamInv
<1>11. CASE Restart
  <2>1. rpc' = "next" /\ fs' = fs /\ suffix' = suffix /\ out' = <<>>
    BY <1>11 DEF Restart
  <2>2. SentInv' /\ PlaceInv'
    BY <2>1 DEF SentInv, PlaceInv
  <2>3. TmpInv'
    BY <1>m, <2>1 DEF StreamInv, TmpInv, Streaming
  <2> QED
    BY <2>2, <2>3 DEF StreamInv
<1>12. CASE UNCHANGED vars
  BY <1>12 DEF vars, StreamInv, SentInv, PlaceInv, TmpInv, LastOut, Reader
<1> QED
  BY <1>1, <1>2, <1>3, <1>4, <1>5, <1>6, <1>7, <1>8, <1>9, <1>10, <1>11, <1>12
  DEF Next, Steps, Terminated

\* Nothing has been written at the beginning.
LEMMA StreamInit == Ready => StreamInv
<1> SUFFICES ASSUME Ready
             PROVE  StreamInv
  OBVIOUS
<1>1. rpc = "next" /\ out = <<>> /\ suffix = FALSE
  BY DEF Ready
<1>2. ~suffix
  BY <1>1
<1> QED
  BY <1>1, <1>2 DEF StreamInv, SentInv, PlaceInv, TmpInv

\* restore_split_file and pastestream give tar the parts of a stream in their
\* order, none twice and none left out between two others, for any media set
\* that a backup can leave, in whatever order the file systems are restored and
\* whatever an aborted restore has left in /tmp.
THEOREM PartsInOrder == Spec => []StreamInOrder
<1>1. BaseInv /\ StreamInv => StreamInOrder
  <2> SUFFICES ASSUME BaseInv, StreamInv, NEW j \in 1 .. Len(out) - 1
               PROVE  out[j].fs = fs /\ out[j + 1].fs = fs /\ out[j].hi = out[j + 1].lo
    BY DEF StreamInOrder
  <2>1. Len(out) \in Nat
    BY DEF BaseInv
  <2>2. j \in 1 .. Len(out) /\ j + 1 \in 1 .. Len(out)
    BY <2>1
  <2> QED
    BY <2>2 DEF StreamInv, SentInv
<1>2. Init => BaseInv /\ StreamInv
  BY InitIsReady, BaseInit, StreamInit
<1>3. BaseInv /\ StreamInv /\ [Next]_vars => (BaseInv /\ StreamInv)'
  BY BaseNext, StreamNext
<1> QED
  BY <1>1, <1>2, <1>3, PTL DEF Spec
-----------------------------------------------------------------------------
(* A file system on a single disc *)

\* Its only file holds all of it.
LEMMA UnsplitPiece ==
    ASSUME MediaOK, NEW d \in discs, NEW p \in d.files, Unsplit(p.fs)
    PROVE  p.lo = 0 /\ p.hi = sizes[p.fs]
<1>1. p.fs \in 1 .. Len(sizes) /\ p.fs \in Nat
  BY PieceFacts DEF MediaOK, MediaType
<1>2. PICK e \in discs : \E q \in e.files : q.fs = p.fs /\ q.lo = 0
  BY <1>1, StartExists
<1>3. PICK q \in e.files : q.fs = p.fs /\ q.lo = 0
  BY <1>2
<1>4. ~p.more /\ ~q.more
  BY <1>3 DEF Unsplit, Pieces
<1>5. Label(d) \in Nat /\ Label(e) \in Nat
  BY DiscFacts
<1>6. ~(Label(d) < Label(e)) /\ ~(Label(e) < Label(d))
  BY <1>1, <1>3, <1>4, TurnFacts
<1>7. d = e
  BY <1>5, <1>6, DiscFacts
<1>8. p = q
  BY <1>3, <1>7, PieceFacts
<1> QED
  BY <1>3, <1>4, <1>8, PieceFacts

\* Every step keeps what is known of the file systems that were not split.
LEMMA UnsplitNext ==
    ASSUME BaseInv, StreamInv, UnsplitInv, [Next]_vars
    PROVE  UnsplitInv'
<1>m. sizes' = sizes /\ discs' = discs
  BY MediaStay
<1>b. MediaOK /\ cdrom \in discs /\ out \in Seq(Pieces(discs))
  BY DEF BaseInv
<1> SUFFICES ASSUME rpc' \in Streaming, Unsplit(fs')
             PROVE  \/ Whole(out', sizes[fs'])
                    \/ rpc' = "cat" /\ out' = <<>> /\ Files(cdrom', fs', FALSE) # {}
  BY <1>m DEF UnsplitInv, Unsplit, Whole, Found
<1>1. CASE NextFs
  <2>1. fs' \in 1 .. Len(sizes) /\ out' = <<>> /\ cdrom' = cdrom
    BY <1>1 DEF NextFs, BaseInv
  <2>2. rpc' = "cat" /\ Label(cdrom) = 0
    BY <1>1 DEF NextFs, Streaming
  <2>3. discs = {cdrom}
    BY <1>b, <2>2, DiscFacts
  <2>4. PICK p \in cdrom.files : p.fs = fs'
    BY <1>b, <2>1, <2>3, StartExists
  <2>5. ~p.more /\ p.more \in BOOLEAN
    BY <1>b, <2>4, PieceFacts DEF Unsplit, Pieces
  <2>6. p \in Files(cdrom, fs', FALSE)
    BY <2>4, <2>5 DEF Files
  <2> QED
    BY <2>1, <2>2, <2>6
<1>2. CASE Look
  <2>1. fs' = fs /\ cdrom' = cdrom /\ out' = <<>>
    BY <1>2 DEF Look, StreamInv, SentInv
  <2>2. Found(TRUE) = {}
    BY <1>b, <2>1, FoundFacts DEF Unsplit, Pieces
  <2>3. Found(FALSE) # {} /\ rpc' = "cat"
    BY <1>2, <2>2 DEF Look, Streaming
  <2> QED
    BY <2>1, <2>3 DEF Found
<1>3. CASE Cat
  <2>1. rpc = "cat" /\ fs' = fs
    BY <1>3 DEF Cat
  <2>2. PICK q \in cdrom.files : q.fs = fs /\ out' = Append(out, q)
    BY <1>3, CatStep
  <2>3. CASE out = <<>>
    <3>1. q.lo = 0 /\ q.hi = sizes[fs]
      BY <1>b, <2>1, <2>2, UnsplitPiece
    <3>2. out' = <<q>>
      BY <2>2, <2>3
    <3> QED
      BY <2>1, <3>1, <3>2 DEF Whole
  <2>4. CASE out # <<>>
    <3>1. PICK d \in discs : LastOut \in d.files /\ Label(cdrom) = Label(d) + 1
      BY <2>1, <2>4 DEF StreamInv, PlaceInv
    <3>2. Len(out) \in 1 .. Len(out)
      BY <1>b, <2>4
    <3>3. LastOut.fs = fs
      BY <3>2 DEF StreamInv, SentInv, LastOut
    <3>4. LastOut.more
      BY <1>b, <2>2, <3>1, <3>3, NextPart
    <3> QED
      BY <2>1, <3>1, <3>3, <3>4 DEF Unsplit, Pieces
  <2> QED
    BY <2>3, <2>4
<1>4. CASE CatFails
  <2>1. rpc = "cat" /\ Found(FALSE) = {} /\ out' = out /\ fs' = fs
    BY <1>4 DEF CatFails
  <2> QED
    BY <2>1 DEF UnsplitInv, Streaming
<1>5. CASE Paste
  <2>1. rpc = "paste" /\ fs' = fs
    BY <1>5 DEF Paste
  <2>2. \E p \in Pieces(discs) : p.fs = fs /\ p.more
    BY <2>1 DEF StreamInv, TmpInv
  <2> QED
    BY <2>1, <2>2 DEF Unsplit
<1>6. CASE AskForCd \/ Insert \/ InsertOther
  <2>1. rpc \in {"ask", "insert"} /\ out' = out /\ fs' = fs
    BY <1>6 DEF AskForCd, Insert, InsertOther
  <2> QED
    BY <2>1 DEF UnsplitInv, Streaming
<1>7. CASE Swap \/ FsDone \/ Finish \/ Restart
  BY <1>7 DEF Swap, FsDone, Finish, Restart, Streaming
<1>8. CASE UNCHANGED vars
  <2>1. rpc' = rpc /\ out' = out /\ fs' = fs /\ cdrom' = cdrom
    BY <1>8 DEF vars
  <2> QED
    BY <2>1 DEF UnsplitInv, Found
<1> QED
  BY <1>1, <1>2, <1>3, <1>4, <1>5, <1>6, <1>7, <1>8 DEF Next, Steps, Terminated

\* What is restored is what was sent when the file system was done.
LEMMA RestoredGrows ==
    ASSUME BaseInv, [Next]_vars
    PROVE  \/ restored' = restored
           \/ restored' = <<>>
           \/ /\ rpc = "done" /\ restored' = Append(restored, [fs |-> fs, out |-> out])
              /\ Len(restored') = Len(restored) + 1 /\ Len(restored) \in Nat
              /\ \A j \in 1 .. Len(restored) : restored'[j] = restored[j]
              /\ restored'[Len(restored) + 1] = [fs |-> fs, out |-> out]
              /\ rpc' = "next" /\ UNCHANGED <<todo, fs, cdrom, tmp, out, restarts>>
<1>1. CASE FsDone
  <2>1. rpc = "done" /\ restored' = Append(restored, [fs |-> fs, out |-> out])
    BY <1>1 DEF FsDone
  <2>2. InProgress = 1
    BY <2>1 DEF InProgress
  <2>3. [fs |-> fs, out |-> out] \in [fs : 1 .. Len(sizes), out : Seq(Pieces(discs))]
    BY <2>2 DEF BaseInv
  <2>4. /\ Len(restored') = Len(restored) + 1 /\ Len(restored) \in Nat
        /\ \A j \in 1 .. Len(restored) : restored'[j] = restored[j]
        /\ restored'[Len(restored) + 1] = [fs |-> fs, out |-> out]
    BY <2>1, <2>3 DEF BaseInv
  <2> QED
    BY <1>1, <2>1, <2>4 DEF FsDone
<1>2. CASE ~FsDone
  <2>1. restored' = restored \/ restored' = <<>>
    BY <1>2 DEF Next, Steps, NextFs, Look, Swap, Cat, CatFails, Paste, AskForCd,
                Insert, Finish, InsertOther, Restart, Terminated, vars
  <2> QED
    BY <2>1
<1> QED
  BY <1>1, <1>2

\* A file system whose backup is on one disc is given to tar from its first
\* byte to its last, on every path through Get_backup_back: with a stale
\* more_to_come after an aborted restore, and with the disks restored in
\* another order than they were backed up in.
THEOREM UnsplitRestored == Spec => []UnsplitWhole
<1> DEFINE Inv == BaseInv /\ StreamInv /\ UnsplitInv /\ UnsplitWhole
<1>1. Init => Inv
  <2> SUFFICES ASSUME Init
               PROVE  UnsplitInv /\ UnsplitWhole
    BY InitIsReady, BaseInit, StreamInit
  <2>1. rpc = "next" /\ restored = <<>>
    BY DEF Init
  <2> QED
    BY <2>1 DEF UnsplitInv, UnsplitWhole, Streaming
<1>2. Inv /\ [Next]_vars => Inv'
  <2> SUFFICES ASSUME Inv, [Next]_vars
               PROVE  Inv'
    OBVIOUS
  <2>1. UnsplitWhole'
    <3>m. sizes' = sizes /\ discs' = discs
      BY MediaStay
    <3>1. CASE restored' = restored
      BY <3>m, <3>1 DEF UnsplitWhole, Whole
    <3>2. CASE restored' = <<>>
      BY <3>2 DEF UnsplitWhole
    <3>3. CASE /\ rpc = "done"
               /\ Len(restored') = Len(restored) + 1 /\ Len(restored) \in Nat
               /\ \A j \in 1 .. Len(restored) : restored'[j] = restored[j]
               /\ restored'[Len(restored) + 1] = [fs |-> fs, out |-> out]
      <4> SUFFICES ASSUME NEW j \in 1 .. Len(restored'), Unsplit(restored'[j].fs)
                   PROVE  Whole(restored'[j].out, sizes[restored'[j].fs])
        BY <3>m DEF UnsplitWhole, Unsplit, Whole
      <4>1. CASE j = Len(restored) + 1
        <5>1. restored'[j].fs = fs /\ restored'[j].out = out
          BY <3>3, <4>1
        <5> QED
          BY <3>3, <5>1 DEF UnsplitInv, Streaming
      <4>2. CASE j # Len(restored) + 1
        <5>1. j \in 1 .. Len(restored) /\ restored'[j] = restored[j]
          BY <3>3, <4>2
        <5> QED
          BY <5>1 DEF UnsplitWhole, Unsplit
      <4> QED
        BY <4>1, <4>2
    <3> QED
      BY <3>1, <3>2, <3>3, RestoredGrows
  <2>2. BaseInv' /\ StreamInv' /\ UnsplitInv'
    BY BaseNext, StreamNext, UnsplitNext
  <2> QED
    BY <2>1, <2>2
<1>3. Inv => UnsplitWhole
  OBVIOUS
<1> QED
  BY <1>1, <1>2, <1>3, PTL DEF Spec
-----------------------------------------------------------------------------
(* The order of the backup *)

\* An order that is that of the backup now was so before, and an aborted
\* restore was then followed by a reboot.
LEMMA OrderBefore ==
    ASSUME BaseInv, [Next]_vars, InOrder'
    PROVE  InOrder /\ (Restart => tmpMore' = 0)
<1>m. sizes' = sizes /\ disk' = disk
  BY MediaStay
<1>1. CASE Restart
  <2>1. PICK how \in Restarts :
            /\ restarts' = Append(restarts, how)
            /\ IF how = "reboot" THEN tmpMore' = 0 /\ tmpRestore' = NoFile
               ELSE UNCHANGED tmp
    BY <1>1 DEF Restart
  <2>2. /\ Len(restarts) \in Nat /\ Len(restarts') = Len(restarts) + 1
        /\ \A j \in 1 .. Len(restarts) : restarts'[j] = restarts[j]
        /\ restarts'[Len(restarts) + 1] = how
    BY <2>1 DEF BaseInv
  <2>3. \A j \in 1 .. Len(restarts') : restarts'[j] = "reboot"
    BY DEF InOrder
  <2>4. \A j \in 1 .. Len(restarts) : restarts[j] = "reboot"
    BY <2>2, <2>3
  <2>5. how = "reboot"
    BY <2>2, <2>3
  <2> QED
    BY <1>m, <2>1, <2>4, <2>5 DEF InOrder
<1>2. CASE ~Restart
  <2>1. restarts' = restarts
    BY <1>2 DEF Next, Steps, NextFs, Look, Swap, Cat, CatFails, Paste, AskForCd,
                Insert, FsDone, Finish, InsertOther, Terminated, vars
  <2> QED
    BY <1>2, <1>m, <2>1 DEF InOrder
<1> QED
  BY <1>1, <1>2

\* Every step keeps what is known of the file systems still to be restored.
LEMMA TodoNext ==
    ASSUME BaseInv, InOrder, TodoInv, [Next]_vars
    PROVE  TodoInv'
<1>m. sizes' = sizes /\ disk' = disk
  BY MediaStay
<1>n. Len(sizes) \in Nat /\ Len(todo) \in Nat /\ todo \in Seq(1 .. Len(sizes))
  BY DEF BaseInv, MediaOK, MediaType
<1>1. CASE NextFs
  <2>1. /\ Len(todo') = Len(todo) - 1 /\ fs' = todo[1] /\ 1 \in 1 .. Len(todo)
        /\ \A i \in 1 .. Len(todo') : todo'[i] = todo[i + 1] /\ i + 1 \in 1 .. Len(todo)
    BY <1>1, <1>n DEF NextFs
  <2>2. fs' = Len(sizes) - Len(todo')
    BY <1>n, <2>1 DEF TodoInv
  <2>3. ASSUME NEW i \in 1 .. Len(todo')
        PROVE  todo'[i] = Len(sizes) - Len(todo') + i
    <3>1. todo'[i] = todo[i + 1] /\ i + 1 \in 1 .. Len(todo)
      BY <2>1
    <3>2. todo[i + 1] = Len(sizes) - Len(todo) + (i + 1)
      BY <3>1 DEF TodoInv
    <3> QED
      BY <1>n, <2>1, <3>1, <3>2
  <2> QED
    BY <1>m, <2>2, <2>3 DEF TodoInv
<1>2. CASE Restart
  <2>1. todo' = RestoreOrder(Len(sizes), disk) /\ rpc' = "next"
    BY <1>2 DEF Restart
  <2>2. Len(todo') = Len(sizes)
    BY <2>1, OrderIsList DEF BaseInv
  <2>3. \A i \in 1 .. Len(sizes) : todo'[i] = i
    BY <1>n, <2>1, OrderIsIdentity DEF InOrder, BaseInv
  <2>4. ASSUME NEW i \in 1 .. Len(todo')
        PROVE  todo'[i] = Len(sizes) - Len(todo') + i
    BY <1>n, <2>2, <2>3
  <2>5. InProgress' = 0
    BY <2>1 DEF InProgress
  <2> QED
    BY <1>m, <2>4, <2>5 DEF TodoInv
<1>3. CASE ~NextFs /\ ~Restart
  <2>1. todo' = todo /\ fs' = fs
    BY <1>3 DEF Next, Steps, Look, Swap, Cat, CatFails, Paste, AskForCd,
                Insert, FsDone, Finish, InsertOther, Terminated, vars
  <2>2. InProgress' = 1 => InProgress = 1
    BY <1>3 DEF Next, Steps, Look, Swap, Cat, CatFails, Paste, AskForCd, InProgress,
                Insert, FsDone, Finish, InsertOther, Terminated, vars
  <2> QED
    BY <1>m, <2>1, <2>2 DEF TodoInv
<1> QED
  BY <1>1, <1>2, <1>3

\* The search goes on to the next disc only when the first part is there or
\* further on.
LEMMA SearchOn ==
    ASSUME MediaOK, NEW c \in discs, NEW f \in 1 .. Len(sizes),
           Behind(Label(c), f), \A p \in c.files : p.fs # f
    PROVE  ~c.last /\ Behind(Label(c) + 1, f)
<1>1. PICK e \in discs : \E q \in e.files : q.fs = f
  BY StartExists
<1>2. PICK q \in e.files : q.fs = f
  BY <1>1
<1>3. /\ Label(c) \in Nat /\ Label(e) \in Nat /\ f \in Nat
      /\ \A d \in discs : Label(d) \in Nat
  BY DiscFacts DEF MediaOK, MediaType
<1>4. Label(c) < Label(e)
  <2>1. Label(e) # Label(c)
    BY <1>2, DiscFacts
  <2>2. ~(Label(e) < Label(c))
    BY <1>2, <1>3 DEF Behind
  <2> QED
    BY <1>3, <2>1, <2>2
<1>5. ~c.last
  BY <1>3, <1>4, DiscFacts
<1>6. ASSUME NEW d \in discs, Label(d) < Label(c) + 1, NEW p \in d.files
      PROVE  p.fs < f
  <2>1. CASE Label(d) < Label(c)
    BY <2>1 DEF Behind
  <2>2. CASE Label(d) = Label(c)
    <3>1. d = c
      BY <2>2, DiscFacts
    <3>2. p.fs < q.fs \/ (p.fs = q.fs /\ p.more)
      BY <1>4, <3>1, TurnFacts
    <3> QED
      BY <1>2, <3>1, <3>2
  <2> QED
    BY <1>3, <1>6, <2>1, <2>2
<1> QED
  BY <1>5, <1>6 DEF Behind

\* Every step keeps what is known of the search for the next piece.
LEMMA SearchNext ==
    ASSUME BaseInv, TodoInv, SearchInv, JoinInv, [Next]_vars, Restart => tmpMore' = 0
    PROVE  SearchInv'
<1>m. sizes' = sizes /\ discs' = discs
  BY MediaStay
<1>n. /\ Len(sizes) \in Nat /\ Len(todo) \in Nat /\ MediaOK /\ cdrom \in discs
      /\ todo \in Seq(1 .. Len(sizes))
  BY DEF BaseInv, MediaOK, MediaType
<1>1. CASE NextFs
  <2>1. /\ rpc = "next" /\ rpc' \in {"cat", "look"} /\ tmpMore' = tmpMore
        /\ volno' = Label(cdrom) /\ cdrom' = cdrom
    BY <1>1 DEF NextFs, tmp
  <2>2. fs' = Len(sizes) - Len(todo) + 1
    <3>1. fs' = todo[1] /\ 1 \in 1 .. Len(todo)
      BY <1>1, <1>n DEF NextFs
    <3> QED
      BY <3>1 DEF TodoInv
  <2>3. tmpMore = 0 /\ Behind(Label(cdrom), fs')
    BY <2>1, <2>2 DEF SearchInv
  <2> QED
    BY <1>m, <2>1, <2>3 DEF SearchInv, Behind
<1>2. CASE Look
  <2>1. CASE Found(FALSE) \cup Found(TRUE) # {}
    <3>1. rpc' \in {"cat", "paste"}
      BY <1>2, <2>1 DEF Look, Reader
    <3> QED
      BY <3>1 DEF SearchInv
  <2>2. CASE Found(FALSE) = {} /\ Found(TRUE) = {}
    <3>1. /\ rpc = "look" /\ rpc' = "swap" /\ tmpMore' = tmpMore /\ fs' = fs
          /\ volno' = IF cdrom.last THEN 1 ELSE volno + 1
      BY <1>2, <2>2 DEF Look, tmp
    <3>2. fs \in 1 .. Len(sizes)
      BY <1>n, <3>1 DEF BaseInv, InProgress
    <3>3. \A p \in cdrom.files : p.fs # fs
      BY <2>2, FoundFacts
    <3>4. tmpMore = 0 /\ volno = Label(cdrom) /\ Behind(Label(cdrom), fs)
      BY <3>1 DEF SearchInv
    <3>5. ~cdrom.last /\ Behind(Label(cdrom) + 1, fs)
      BY <1>n, <3>2, <3>3, <3>4, SearchOn
    <3> QED
      BY <1>m, <3>1, <3>4, <3>5 DEF SearchInv, Behind
  <2> QED
    BY <2>1, <2>2
<1>3. CASE Swap
  <2>1. /\ rpc = "swap" /\ rpc' = "look" /\ tmpMore' = tmpMore /\ fs' = fs
        /\ volno' = volno /\ cdrom' \in Labelled(volno)
    BY <1>3 DEF Swap, tmp
  <2>2. Label(cdrom') = volno
    BY <2>1, LabelledFacts
  <2> QED
    BY <1>m, <2>1, <2>2 DEF SearchInv, Behind
<1>4. CASE FsDone
  <2>1. /\ rpc = "done" /\ rpc' = "next" /\ tmpMore' = tmpMore /\ todo' = todo
        /\ cdrom' = cdrom
    BY <1>4 DEF FsDone, tmp
  <2>2. tmpMore = 0 /\ Found(FALSE) # {}
    BY <2>1 DEF JoinInv
  <2>3. PICK r \in cdrom.files : r.fs = fs
    BY <2>2, FoundFacts
  <2>4. fs = Len(sizes) - Len(todo) /\ fs \in Nat
    <3>1. InProgress = 1
      BY <2>1 DEF InProgress
    <3>2. fs \in 0 .. Len(sizes)
      BY DEF BaseInv
    <3> QED
      BY <1>n, <3>1, <3>2 DEF TodoInv
  <2>5. ASSUME NEW d \in discs, Label(d) < Label(cdrom), NEW p \in d.files
        PROVE  p.fs < fs + 1
    <3>1. p.fs \in Nat
      BY <1>n, PieceFacts
    <3>2. p.fs < r.fs \/ p.fs = r.fs
      BY <1>n, <2>5, TurnFacts
    <3> QED
      BY <2>3, <2>4, <3>1, <3>2
  <2> QED
    BY <1>m, <2>1, <2>2, <2>4, <2>5 DEF SearchInv, Behind
<1>5. CASE Restart
  <2>1. rpc' = "next" /\ tmpMore' = 0 /\ cdrom' = FirstDisc
    BY <1>5 DEF Restart
  <2>2. \A d \in discs : Label(d) \in Nat /\ Label(FirstDisc) <= Label(d)
        /\ Label(FirstDisc) \in Nat
    BY <1>n, DiscFacts, FirstDiscFacts
  <2>3. \A d \in discs : ~(Label(d) < Label(FirstDisc))
    BY <2>2
  <2> QED
    BY <1>m, <2>1, <2>3 DEF SearchInv, Behind
<1>6. CASE Cat \/ CatFails \/ Paste \/ AskForCd \/ Insert \/ InsertOther \/ Finish
  <2>1. rpc' \in {"ask", "done", "insert", "cat", "paste", "end"}
    BY <1>6 DEF Cat, CatFails, Paste, AskForCd, Insert, InsertOther, Finish, Reader
  <2> QED
    BY <2>1 DEF SearchInv
<1>7. CASE UNCHANGED vars
  BY <1>7 DEF vars, SearchInv, Behind
<1> QED
  BY <1>1, <1>2, <1>3, <1>4, <1>5, <1>6, <1>7 DEF Next, Steps, Terminated

\* A part that is sent when /tmp is right about it: what was sent is the
\* beginning of the stream, and the whole of it if the part has no "_".
LEMMA SentRight ==
    ASSUME BaseInv, StreamInv, JoinInv, rpc \in {"cat", "paste"},
           NEW q \in cdrom.files, q.fs = fs, q.more <=> Found(TRUE) # {},
           NEW o, o = Append(out, q)
    PROVE  /\ o[1].lo = 0 /\ o[Len(o)] = q
           /\ Found(TRUE) = {} => Whole(o, sizes[fs]) /\ Found(FALSE) # {}
<1>1. out # <<>> => \E d \in discs : LastOut \in d.files /\ Label(cdrom) = Label(d) + 1
  BY DEF StreamInv, PlaceInv
<1>2. /\ o # <<>> /\ o[Len(o)] = q
      /\ o[1] = IF out = <<>> THEN q ELSE out[1]
      /\ \A j \in 1 .. Len(o) - 1 : o[j].hi = o[j + 1].lo
  BY <1>1, SentGrows DEF StreamInv
<1>3. q \in Part
  BY FoundFacts DEF Part
<1>4. o[1].lo = 0
  BY <1>2, <1>3 DEF JoinInv
<1>5. ASSUME Found(TRUE) = {}
      PROVE  Whole(o, sizes[fs]) /\ Found(FALSE) # {}
  <2>1. ~q.more
    BY <1>5
  <2>2. q.hi = sizes[fs]
    BY <2>1, PieceFacts DEF BaseInv
  <2>3. q \in Found(FALSE)
    BY <2>1, FoundFacts
  <2> QED
    BY <1>2, <1>4, <2>2, <2>3 DEF Whole
<1> QED
  BY <1>2, <1>4, <1>5

\* The disc that ask.for.cd.sh has had inserted has the next part, and the
\* script finds out whether that is the last one.
LEMMA InsertRight ==
    ASSUME BaseInv, StreamInv, JoinInv, Insert
    PROVE  \E q \in cdrom'.files :
              /\ q.fs = fs
              /\ \A p \in cdrom'.files : p.fs = fs => p = q
              /\ IF q.more THEN tmpMore' = 1 /\ tmpRestore' = [fs |-> fs, suffix |-> TRUE]
                 ELSE tmpMore' = 0 /\ tmpRestore' = [fs |-> fs, suffix |-> FALSE]
<1>1. /\ rpc = "insert" /\ cdrom' \in Labelled(volno) /\ MediaOK
      /\ out \in Seq(Pieces(discs))
  BY DEF Insert, BaseInv
<1>2. cdrom' \in discs /\ Label(cdrom') = volno
  BY <1>1, LabelledFacts
<1>3. out # <<>>
  BY <1>1 DEF StreamInv, PlaceInv
<1>4. PICK d \in discs : LastOut \in d.files /\ volno = Label(d) + 1
  BY <1>1 DEF StreamInv, PlaceInv
<1>5. LastOut.more /\ tmpRestore = [fs |-> fs, suffix |-> TRUE]
  BY <1>1 DEF JoinInv
<1>6. LastOut.fs = fs
  <2>1. Len(out) \in 1 .. Len(out)
    BY <1>1, <1>3
  <2> QED
    BY <2>1 DEF StreamInv, SentInv, LastOut
<1>7. PICK e \in discs : \E q \in e.files : q.fs = fs /\ Label(e) = Label(d) + 1
  BY <1>1, <1>4, <1>5, <1>6, PieceFacts
<1>8. e = cdrom'
  BY <1>1, <1>2, <1>4, <1>7, DiscFacts
<1>9. PICK q \in cdrom'.files : q.fs = fs
  BY <1>7, <1>8
<1>10. q.more \in BOOLEAN /\ \A p \in cdrom'.files : p.fs = fs => p = q
  BY <1>1, <1>2, <1>9, PieceFacts
<1>11. CASE q.more
  <2>1. q \in Files(cdrom', tmpRestore.fs, tmpRestore.suffix)
    BY <1>5, <1>9, <1>10, <1>11 DEF Files
  <2>2. tmpMore' = 1 /\ tmpRestore' = tmpRestore
    BY <2>1 DEF Insert
  <2> QED
    BY <1>5, <1>9, <1>10, <1>11, <2>2
<1>12. CASE ~q.more
  <2>1. Files(cdrom', tmpRestore.fs, tmpRestore.suffix) = {}
    BY <1>5, <1>10, <1>12 DEF Files
  <2>2. tmpMore' = 0 /\ tmpRestore' = [tmpRestore EXCEPT !.suffix = FALSE]
    BY <2>1 DEF Insert
  <2>3. tmpRestore' = [fs |-> fs, suffix |-> FALSE]
    BY <1>5, <2>2
  <2> QED
    BY <1>9, <1>10, <1>12, <2>2, <2>3
<1> QED
  BY <1>10, <1>11, <1>12

\* Every step keeps what is known of the pieces that have been joined.
LEMMA JoinNext ==
    ASSUME BaseInv, StreamInv, TodoInv, SearchInv, JoinInv, [Next]_vars
    PROVE  JoinInv'
<1>m. sizes' = sizes /\ discs' = discs
  BY MediaStay
<1>n. /\ Len(sizes) \in Nat /\ MediaOK /\ cdrom \in discs
      /\ tmpMore \in {0, 1} /\ suffix \in BOOLEAN
  BY DEF BaseInv, MediaOK, MediaType
\* The first part is in the drive.
<1>f. ASSUME cdrom' = cdrom, Behind(Label(cdrom), fs'), NEW p \in cdrom.files, p.fs = fs'
      PROVE  p.lo = 0
  <2>1. /\ fs' \in Nat /\ Label(cdrom) \in Nat
        /\ \A d \in discs : Label(d) \in Nat
    BY <1>f, <1>n, PieceFacts, DiscFacts
  <2>2. ASSUME NEW e \in discs, NEW q \in e.files, q.fs = p.fs
        PROVE  Label(cdrom) <= Label(e)
    BY <1>f, <2>1, <2>2 DEF Behind
  <2> QED
    BY <1>n, <2>2, FirstPart
<1>1. CASE NextFs /\ rpc' = "cat"
  <2>1. /\ rpc = "next" /\ Label(cdrom) = 0 /\ fs' \in 1 .. Len(sizes)
        /\ cdrom' = cdrom /\ out' = <<>> /\ tmpMore' = tmpMore /\ suffix' = FALSE
    BY <1>1 DEF NextFs, tmp, BaseInv
  <2>2. discs = {cdrom} /\ cdrom.last
    BY <1>n, <2>1, DiscFacts
  <2>3. PICK p \in cdrom.files : p.fs = fs'
    BY <1>n, <2>1, <2>2, StartExists
  <2>4. BaseInv'
    BY BaseNext
  <2>5. Found(TRUE)' = {}
    <3>1. (Found(TRUE) # {} => Found(FALSE) = {} /\ ~cdrom.last)'
      BY <2>4, FoundFacts, PTL
    <3> QED
      BY <2>1, <2>2, <3>1
  <2>6. p \in Found(FALSE)'
    <3>1. p.more \in BOOLEAN /\ (p.more => ~cdrom.last)
      BY <1>n, PieceFacts
    <3> QED
      BY <2>1, <2>2, <2>3, <3>1 DEF Found, Files
  <2>7. \A r \in Part' : r.lo = 0
    <3> SUFFICES ASSUME NEW r \in Part'
                 PROVE  r.lo = 0
      OBVIOUS
    <3>1. r \in cdrom.files /\ r.fs = fs'
      BY <2>1 DEF Part, Found, Files
    <3>2. Behind(Label(cdrom), fs')
      BY <2>2, <2>1 DEF Behind
    <3> QED
      BY <1>f, <2>1, <3>1, <3>2
  <2>8. ~suffix'
    BY <2>1
  <2>9. ~(tmpMore' = 1)
    BY <2>1 DEF SearchInv
  <2>10. rpc' = "cat" /\ out' = <<>> /\ Part' # {}
    BY <1>1, <2>1, <2>6 DEF Part
  <2> QED
    BY <2>5, <2>7, <2>8, <2>9, <2>10 DEF JoinInv
<1>2. CASE Look /\ rpc' # "swap"
  <2>1. /\ rpc = "look" /\ out = <<>> /\ tmpMore = 0 /\ Behind(Label(cdrom), fs)
        /\ fs' = fs /\ cdrom' = cdrom /\ out' = out
    BY <1>2 DEF Look, StreamInv, SentInv, SearchInv
  <2>2. Found(TRUE)' = Found(TRUE) /\ Found(FALSE)' = Found(FALSE)
    BY <2>1 DEF Found
  <2>3. \A r \in Part' : r.lo = 0
    <3> SUFFICES ASSUME NEW r \in Part'
                 PROVE  r.lo = 0
      OBVIOUS
    <3>1. r \in cdrom.files /\ r.fs = fs'
      BY <2>1 DEF Part, Found, Files
    <3> QED
      BY <1>f, <2>1, <3>1
  <2>4. rpc' \in {"cat", "paste"} /\ Part' # {}
    BY <1>2, <2>2 DEF Look, Reader, Part
  <2>5. CASE Found(FALSE) # {}
    <3>1. tmpMore' = 0 /\ suffix' = FALSE
      BY <1>2, <2>1, <2>5 DEF Look, tmp
    <3>2. ~suffix' /\ Found(TRUE)' = {}
      BY <2>2, <2>5, <3>1, FoundFacts
    <3>3. ~(tmpMore' = 1)
      BY <3>1
    <3> QED
      BY <2>1, <2>3, <2>4, <3>2, <3>3 DEF JoinInv
  <2>6. CASE Found(FALSE) = {}
    <3>1. /\ tmpMore' = 1 /\ suffix' = TRUE /\ Found(TRUE) # {}
          /\ tmpRestore' = [fs |-> fs, suffix |-> TRUE]
      BY <1>2, <2>6 DEF Look
    <3>2. suffix' /\ (Found(TRUE)' # {}) = TRUE
      BY <2>2, <3>1
    <3> QED
      BY <2>1, <2>3, <2>4, <3>1, <3>2 DEF JoinInv
  <2> QED
    BY <2>5, <2>6
<1>3. CASE Cat
  <2>1. /\ rpc = "cat" /\ fs' = fs /\ cdrom' = cdrom /\ tmpMore' = tmpMore
        /\ tmpRestore' = tmpRestore
    BY <1>3 DEF Cat, tmp
  <2>2. /\ tmpMore = 1 <=> Found(TRUE) # {}
        /\ Found(TRUE) # {} => suffix
        /\ suffix => tmpRestore = [fs |-> fs, suffix |-> Found(TRUE) # {}]
    BY <2>1 DEF JoinInv
  <2>3. /\ suffix' <=> Found(TRUE) # {}
        /\ rpc' = IF tmpMore = 1 /\ ~cdrom.last THEN "ask" ELSE "done"
    BY <1>3, <2>2, CatStep
  <2>4. PICK q \in cdrom.files : q.fs = fs /\ (q.more <=> suffix') /\ out' = Append(out, q)
    BY <1>3, CatStep
  <2>5. /\ out'[1].lo = 0 /\ out'[Len(out')] = q
        /\ Found(TRUE) = {} => Whole(out', sizes[fs]) /\ Found(FALSE) # {}
    BY <2>1, <2>3, <2>4, SentRight
  <2>6. CASE Found(TRUE) # {}
    <3>1. rpc' = "ask" /\ suffix' /\ q.more
      BY <2>2, <2>3, <2>4, <2>6, FoundFacts
    <3>2. (Found(TRUE) # {}) = TRUE
      BY <2>6
    <3>3. tmpRestore' = [fs |-> fs, suffix |-> TRUE]
      BY <2>1, <2>2, <2>6, <3>2
    <3> QED
      BY <2>1, <2>5, <3>1, <3>3 DEF JoinInv, LastOut
  <2>7. CASE Found(TRUE) = {}
    <3>1. rpc' = "done" /\ tmpMore' = 0
      BY <1>n, <2>1, <2>2, <2>3, <2>7
    <3> QED
      BY <1>m, <2>1, <2>5, <2>7, <3>1 DEF JoinInv, Found, Whole
  <2> QED
    BY <2>6, <2>7
<1>4. CASE CatFails
  <2>1. rpc = "cat" /\ Found(FALSE) = {} /\ (suffix => Found(TRUE) = {})
    BY <1>4 DEF CatFails
  <2> QED
    BY <2>1 DEF JoinInv, Part
<1>5. CASE Paste
  <2>1. /\ rpc = "paste" /\ fs' = fs /\ cdrom' = cdrom /\ tmpMore' = tmpMore
        /\ tmpRestore' = tmpRestore /\ suffix' = suffix
    BY <1>5 DEF Paste, tmp
  <2>2. suffix
    BY <2>1 DEF StreamInv, TmpInv
  <2>3. /\ tmpMore = 1 <=> Found(TRUE) # {}
        /\ tmpRestore = [fs |-> fs, suffix |-> Found(TRUE) # {}]
        /\ Found(FALSE) # {} \/ Found(TRUE) # {}
    BY <2>1, <2>2 DEF JoinInv, Part
  <2>4. tmpRestore.fs = fs /\ (tmpRestore.suffix <=> Found(TRUE) # {})
    BY <2>3
  <2>5. /\ rpc' = IF tmpMore = 1 THEN "ask" ELSE "done"
        /\ \E q \in cdrom.files : /\ q.fs = fs /\ (q.more <=> tmpRestore.suffix)
                                  /\ out' = Append(out, q)
    BY <1>5, <2>3, <2>4, PasteStep
  <2>6. PICK q \in cdrom.files : /\ q.fs = fs /\ (q.more <=> tmpRestore.suffix)
                                 /\ out' = Append(out, q)
    BY <2>5
  <2>7. /\ out'[1].lo = 0 /\ out'[Len(out')] = q
        /\ Found(TRUE) = {} => Whole(out', sizes[fs]) /\ Found(FALSE) # {}
    BY <2>1, <2>4, <2>6, SentRight
  <2>8. CASE Found(TRUE) # {}
    <3>1. rpc' = "ask" /\ q.more
      BY <2>3, <2>4, <2>5, <2>6, <2>8
    <3>2. (Found(TRUE) # {}) = TRUE
      BY <2>8
    <3>3. tmpRestore' = [fs |-> fs, suffix |-> TRUE]
      BY <2>1, <2>3, <3>2
    <3> QED
      BY <2>1, <2>2, <2>7, <3>1, <3>3 DEF JoinInv, LastOut
  <2>9. CASE Found(TRUE) = {}
    <3>1. rpc' = "done" /\ tmpMore' = 0
      BY <1>n, <2>1, <2>3, <2>5, <2>9
    <3> QED
      BY <1>m, <2>1, <2>7, <2>9, <3>1 DEF JoinInv, Found, Whole
  <2> QED
    BY <2>8, <2>9
<1>6. CASE AskForCd \/ InsertOther
  <2>1. /\ rpc \in {"ask", "insert"} /\ rpc' = "insert" /\ fs' = fs /\ suffix' = suffix
        /\ tmpRestore' = tmpRestore /\ out' = out
    BY <1>6 DEF AskForCd, InsertOther, tmp
  <2> QED
    BY <2>1 DEF JoinInv, LastOut
<1>7. CASE Insert
  <2>1. /\ rpc = "insert" /\ rpc' \in {"cat", "paste"} /\ fs' = fs /\ suffix' = suffix
        /\ out' = out
    BY <1>7 DEF Insert, Reader
  <2>2. out[1].lo = 0 /\ suffix /\ out # <<>>
    BY <2>1 DEF JoinInv, StreamInv, PlaceInv
  <2>3. PICK q \in cdrom'.files :
              /\ q.fs = fs
              /\ \A p \in cdrom'.files : p.fs = fs => p = q
              /\ IF q.more THEN tmpMore' = 1 /\ tmpRestore' = [fs |-> fs, suffix |-> TRUE]
                 ELSE tmpMore' = 0 /\ tmpRestore' = [fs |-> fs, suffix |-> FALSE]
    BY <1>7, InsertRight
  <2>4. BaseInv'
    BY BaseNext
  <2>5. (/\ \A p \in Found(TRUE) : p \in cdrom.files /\ p.fs = fs /\ p.more
         /\ \A p \in cdrom.files : p.fs = fs /\ p.more => p \in Found(TRUE)
         /\ \A p \in cdrom.files : p.fs = fs /\ ~p.more => p \in Found(FALSE))'
    BY <2>4, FoundFacts, PTL
  <2>6. q \in Part' /\ (q.more <=> Found(TRUE)' # {})
    BY <2>1, <2>3, <2>5 DEF Part
  <2>7. tmpRestore' = [fs |-> fs, suffix |-> Found(TRUE)' # {}]
    <3>1. CASE q.more
      <4>1. (Found(TRUE)' # {}) = TRUE
        BY <2>6, <3>1
      <4> QED
        BY <2>3, <3>1, <4>1
    <3>2. CASE ~q.more
      <4>1. (Found(TRUE)' # {}) = FALSE
        BY <2>6, <3>2
      <4> QED
        BY <2>3, <3>2, <4>1
    <3> QED
      BY <3>1, <3>2
  <2>8. tmpMore' = 1 <=> Found(TRUE)' # {}
    <3>1. (q.more => tmpMore' = 1) /\ (~q.more => tmpMore' = 0)
      BY <2>3
    <3>2. CASE q.more
      BY <2>6, <3>1, <3>2
    <3>3. CASE ~q.more
      <4>1. tmpMore' # 1
        BY <3>1, <3>3
      <4> QED
        BY <2>6, <3>3, <4>1
    <3> QED
      BY <3>2, <3>3
  <2> QED
    BY <2>1, <2>2, <2>6, <2>7, <2>8 DEF JoinInv
<1>8. CASE \/ NextFs /\ rpc' # "cat"
           \/ Look /\ rpc' = "swap"
           \/ Swap \/ FsDone \/ Finish \/ Restart
  <2>1. rpc' \in {"next", "look", "swap", "end"}
    BY <1>8 DEF NextFs, Swap, FsDone, Finish, Restart
  <2> QED
    BY <2>1 DEF JoinInv
<1>9. CASE UNCHANGED vars
  BY <1>9 DEF vars, JoinInv, Part, Found, LastOut, Whole
<1> QED
  BY <1>1, <1>2, <1>3, <1>4, <1>5, <1>6, <1>7, <1>8, <1>9 DEF Next, Steps, Terminated

\* The order of the backup: the search for a stream never passes its first part,
\* /tmp is right about every part that is joined, and so every stream is whole.
OrderedInv == BaseInv /\ StreamInv /\ OrderInv /\ RestoredWhole

\* The invariant of discs given in order holds at the beginning.
LEMMA OrderedInit == Ready => OrderedInv
<1> SUFFICES ASSUME Ready, InOrder
             PROVE  TodoInv /\ SearchInv /\ JoinInv /\ RestoredWhole
  BY BaseInit, StreamInit DEF OrderedInv, OrderInv, RestoredWhole, Ready
<1>1. BaseInv
  BY BaseInit
<1>2. rpc = "next" /\ restored = <<>> /\ tmpMore = 0 /\ cdrom = FirstDisc
      /\ todo = RestoreOrder(Len(sizes), disk)
  BY DEF Ready
<1>3. Len(sizes) \in Nat /\ MediaOK /\ disk \in [1 .. Len(sizes) -> Nat]
  BY <1>1 DEF BaseInv, MediaOK, MediaType
<1>4. TodoInv
  <2>1. Len(todo) = Len(sizes)
    BY <1>2, <1>3, OrderIsList
  <2>2. \A i \in 1 .. Len(sizes) : todo[i] = i
    BY <1>2, <1>3, OrderIsIdentity DEF InOrder
  <2>3. ASSUME NEW i \in 1 .. Len(todo)
        PROVE  todo[i] = Len(sizes) - Len(todo) + i
    BY <1>3, <2>1, <2>2
  <2>4. InProgress = 0
    BY <1>2 DEF InProgress
  <2> QED
    BY <2>3, <2>4 DEF TodoInv
<1>5. SearchInv
  <2>1. \A d \in discs : Label(d) \in Nat /\ Label(FirstDisc) <= Label(d)
        /\ Label(FirstDisc) \in Nat
    BY <1>3, DiscFacts, FirstDiscFacts
  <2>2. \A d \in discs : ~(Label(d) < Label(FirstDisc))
    BY <2>1
  <2> QED
    BY <1>2, <2>2 DEF SearchInv, Behind
<1> QED
  BY <1>2, <1>4, <1>5 DEF JoinInv, RestoredWhole

\* Every step keeps it.
LEMMA OrderedNext == OrderedInv /\ [Next]_vars => OrderedInv'
<1> SUFFICES ASSUME OrderedInv, [Next]_vars
             PROVE  OrderedInv'
  OBVIOUS
<1>1. BaseInv /\ StreamInv /\ OrderInv /\ RestoredWhole
  BY DEF OrderedInv
<1>2. BaseInv' /\ StreamInv'
  BY <1>1, BaseNext, StreamNext
<1>3. ASSUME InOrder'
      PROVE  TodoInv' /\ SearchInv' /\ JoinInv' /\ RestoredWhole'
  <2>1. InOrder /\ (Restart => tmpMore' = 0)
    BY <1>1, <1>3, OrderBefore
  <2>2. TodoInv /\ SearchInv /\ JoinInv
    BY <1>1, <2>1 DEF OrderInv
  <2>3. TodoInv' /\ SearchInv' /\ JoinInv'
    BY <1>1, <2>1, <2>2, TodoNext, SearchNext, JoinNext
  <2>4. \A j \in 1 .. Len(restored) : Whole(restored[j].out, sizes[restored[j].fs])
    BY <1>1, <2>1 DEF RestoredWhole
  <2>m. sizes' = sizes
    BY MediaStay
  <2>5. CASE restored' = restored
    BY <2>m, <2>3, <2>4, <2>5 DEF RestoredWhole
  <2>6. CASE restored' = <<>>
    BY <2>3, <2>6 DEF RestoredWhole
  <2>7. CASE /\ rpc = "done"
             /\ Len(restored') = Len(restored) + 1 /\ Len(restored) \in Nat
             /\ \A j \in 1 .. Len(restored) : restored'[j] = restored[j]
             /\ restored'[Len(restored) + 1] = [fs |-> fs, out |-> out]
    <3> SUFFICES ASSUME NEW j \in 1 .. Len(restored')
                 PROVE  Whole(restored'[j].out, sizes[restored'[j].fs])
      BY <2>m, <2>3 DEF RestoredWhole, Whole
    <3>1. CASE j = Len(restored) + 1
      <4>1. restored'[j].fs = fs /\ restored'[j].out = out
        BY <2>7, <3>1
      <4> QED
        BY <2>2, <2>7, <4>1 DEF JoinInv
    <3>2. CASE j # Len(restored) + 1
      <4>1. j \in 1 .. Len(restored) /\ restored'[j] = restored[j]
        BY <2>7, <3>2
      <4> QED
        BY <2>4, <4>1
    <3> QED
      BY <3>1, <3>2
  <2> QED
    BY <1>1, <2>3, <2>5, <2>6, <2>7, RestoredGrows
<1>4. OrderInv' /\ RestoredWhole'
  BY <1>3 DEF OrderInv, RestoredWhole
<1> QED
  BY <1>2, <1>4 DEF OrderedInv

\* Restored in the order of the backup and after a reboot, every file system is
\* given to tar from its first byte to its last, across any number of discs and
\* by either program, for every media set that a backup can leave.
THEOREM StreamsRestored == Spec => []RestoredWhole
<1>1. OrderedInv => RestoredWhole
  BY DEF OrderedInv
<1> QED
  BY <1>1, InitIsReady, OrderedInit, OrderedNext, PTL DEF Spec

\* ask.for.cd.sh and the program that joins the parts agree: /tmp/more_to_come
\* says of every file that is about to be sent whether it is continued.
THEOREM MoreToComeIsRight == Spec => []Handshake
<1>1. OrderedInv => Handshake
  BY DEF OrderedInv, OrderInv, JoinInv, Handshake
<1> QED
  BY <1>1, InitIsReady, OrderedInit, OrderedNext, PTL DEF Spec

\* The file systems are restored in their turn, and the end is reached when
\* none is left.
Turns ==
    /\ rpc = "end" => todo = <<>>
    /\ InOrder => \A j \in 1 .. Len(restored) : restored[j].fs = j

\* Every step keeps the order of the file systems.
LEMMA TurnsNext ==
    ASSUME OrderedInv, Turns, [Next]_vars
    PROVE  Turns'
<1>1. BaseInv /\ OrderInv
  BY DEF OrderedInv
<1>2. rpc' = "end" => todo' = <<>>
  BY DEF Turns, Next, Steps, NextFs, Look, Swap, Cat, CatFails, Paste, AskForCd,
         Insert, FsDone, Finish, InsertOther, Restart, Terminated, vars, Reader
<1>3. ASSUME InOrder', NEW j \in 1 .. Len(restored')
      PROVE  restored'[j].fs = j
  <2>1. InOrder
    BY <1>1, <1>3, OrderBefore
  <2>2. \A i \in 1 .. Len(restored) : restored[i].fs = i
    BY <2>1 DEF Turns
  <2>3. CASE restored' = restored
    BY <1>3, <2>2, <2>3
  <2>4. CASE restored' = <<>>
    BY <1>3, <2>4
  <2>5. CASE /\ rpc = "done"
             /\ Len(restored') = Len(restored) + 1 /\ Len(restored) \in Nat
             /\ \A i \in 1 .. Len(restored) : restored'[i] = restored[i]
             /\ restored'[Len(restored) + 1] = [fs |-> fs, out |-> out]
    <3>1. InProgress = 1
      BY <2>5 DEF InProgress
    <3>2. /\ Len(todo) \in Nat /\ Len(sizes) \in Nat
          /\ Len(todo) + 1 + Len(restored) = Len(sizes)
      BY <1>1, <3>1 DEF BaseInv, MediaOK, MediaType
    <3>3. fs = Len(sizes) - Len(todo)
      BY <1>1, <2>1, <3>1 DEF OrderInv, TodoInv
    <3>4. fs = Len(restored) + 1
      BY <2>5, <3>2, <3>3
    <3>5. CASE j = Len(restored) + 1
      BY <2>5, <3>4, <3>5
    <3>6. CASE j # Len(restored) + 1
      <4>1. j \in 1 .. Len(restored) /\ restored'[j] = restored[j]
        BY <2>5, <3>6
      <4> QED
        BY <2>2, <4>1
    <3> QED
      BY <3>5, <3>6
  <2> QED
    BY <1>1, <2>3, <2>4, <2>5, RestoredGrows
<1> QED
  BY <1>2, <1>3 DEF Turns

\* In the end nothing is missing.
LEMMA WholeAtEnd ==
    ASSUME OrderedInv, Turns, InOrder, rpc = "end"
    PROVE  /\ Len(restored) = Len(sizes)
           /\ \A f \in 1 .. Len(sizes) :
                 restored[f].fs = f /\ Whole(restored[f].out, sizes[f])
<1>1. BaseInv /\ RestoredWhole
  BY DEF OrderedInv
<1>2. todo = <<>> /\ InProgress = 0
  BY DEF Turns, InProgress
<1>3. Len(restored) \in Nat /\ Len(todo) = 0 /\ Len(sizes) \in Nat
      /\ Len(todo) + 0 + Len(restored) = Len(sizes)
  BY <1>1, <1>2 DEF BaseInv, MediaOK, MediaType
<1>4. Len(restored) = Len(sizes)
  BY <1>3
<1>5. ASSUME NEW f \in 1 .. Len(sizes)
      PROVE  restored[f].fs = f /\ Whole(restored[f].out, sizes[f])
  <2>1. f \in 1 .. Len(restored)
    BY <1>4
  <2>2. restored[f].fs = f
    BY <2>1 DEF Turns
  <2>3. Whole(restored[f].out, sizes[restored[f].fs])
    BY <1>1, <2>1 DEF RestoredWhole
  <2> QED
    BY <2>2, <2>3
<1> QED
  BY <1>4, <1>5
=============================================================================
