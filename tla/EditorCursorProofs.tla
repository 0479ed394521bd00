--------------------------- MODULE EditorCursorProofs ---------------------------
(***************************************************************************)
(* Proofs about EditorCursor, for every text, alphabet, page and bound.      *)
(***************************************************************************)
EXTENDS EditorCursor, SequenceTheorems, FiniteSetTheorems, NumberLemmas

Ch == Typed \cup {Space}

-----------------------------------------------------------------------------
(* Numbers.                                                                   *)

(* The least and the greatest of some numbers are among them, and of two the    *)
(* smaller and the larger.                                                    *)
LEMMA LeastMember ==
  ASSUME NEW S \in SUBSET Nat, S # {}
  PROVE  Min(S) \in S /\ \A y \in S : Min(S) <= y
<1>1. \E x \in S : \A y \in S : x <= y
  BY LeastOf
<1> QED
  BY <1>1 DEF Min

(* The greatest of some numbers is among them.                                  *)
LEMMA GreatestMember ==
  ASSUME NEW n \in Nat, NEW S \in SUBSET (0 .. n), S # {}
  PROVE  Max(S) \in S /\ \A y \in S : y <= Max(S)
<1>1. \E x \in S : \A y \in S : y <= x
  BY GreatestOf
<1>2. \E x \in S : \A y \in S : x >= y
  BY <1>1
<1>3. Max(S) \in S /\ \A y \in S : Max(S) >= y
  BY <1>2 DEF Max
<1> QED
  BY <1>3

(* Of two numbers the least is the smaller one.                                 *)
LEMMA LeastOfTwo ==
  ASSUME NEW a \in Int, NEW b \in Int
  PROVE  Min({a, b}) = IF a <= b THEN a ELSE b
<1>1. \E x \in {a, b} : \A y \in {a, b} : x <= y
  OBVIOUS
<1>2. Min({a, b}) \in {a, b} /\ \A y \in {a, b} : Min({a, b}) <= y
  BY <1>1 DEF Min
<1> QED
  BY <1>2

(* Of two numbers the greatest is the larger one.                               *)
LEMMA GreatestOfTwo ==
  ASSUME NEW a \in Int, NEW b \in Int
  PROVE  Max({a, b}) = IF a <= b THEN b ELSE a
<1>1. \E x \in {a, b} : \A y \in {a, b} : x >= y
  OBVIOUS
<1>2. Max({a, b}) \in {a, b} /\ \A y \in {a, b} : Max({a, b}) >= y
  BY <1>1 DEF Max
<1> QED
  BY <1>2

(* The rank of a number in a set: how many are smaller.                         *)
RankIn(S, x) == Cardinality({r \in S : r < x})

(* A rank is a number, and no more than there are numbers in the set.           *)
LEMMA RankType ==
  ASSUME NEW n \in Nat, NEW S \in SUBSET (0 .. n), NEW x \in Nat
  PROVE  /\ IsFiniteSet(S) /\ IsFiniteSet({r \in S : r < x})
         /\ Cardinality(S) \in Nat /\ RankIn(S, x) \in Nat /\ RankIn(S, x) <= Cardinality(S)
<1>1. IsFiniteSet(S)
  <2>1. IsFiniteSet(0 .. n)
    BY FS_Interval
  <2> QED
    BY <2>1, FS_Subset
<1>2. {r \in S : r < x} \in SUBSET S
  OBVIOUS
<1>3. /\ IsFiniteSet({r \in S : r < x})
      /\ Cardinality({r \in S : r < x}) <= Cardinality(S)
  BY <1>1, <1>2, FS_Subset
<1> QED
  BY <1>1, <1>3, FS_CardinalityType DEF RankIn

(* Ranks grow with the members.                                               *)
LEMMA RankGrows ==
  ASSUME NEW n \in Nat, NEW S \in SUBSET (0 .. n), NEW x \in S, NEW y \in Nat, x < y
  PROVE  RankIn(S, x) < RankIn(S, y) /\ RankIn(S, x) < Cardinality(S)
<1> DEFINE A == {r \in S : r < x}
           B == {r \in S : r < y}
<1>1. x \in Nat /\ \A r \in S : r \in Nat
  OBVIOUS
<1>2. IsFiniteSet(A) /\ IsFiniteSet(B) /\ IsFiniteSet(S)
  BY <1>1, RankType
<1>3. A \cup {x} \in SUBSET B /\ x \notin A /\ B \in SUBSET S
  <2>1. \A r \in S : r < x => r < y
    BY <1>1
  <2>2. A \in SUBSET B
    BY <2>1
  <2>3. x \in B /\ x \notin A
    BY <1>1
  <2> QED
    BY <2>2, <2>3
<1> HIDE DEF A, B
<1>4. IsFiniteSet(A \cup {x}) /\ Cardinality(A \cup {x}) = Cardinality(A) + 1
  BY <1>2, <1>3, FS_AddElement
<1>5. Cardinality(A \cup {x}) <= Cardinality(B) /\ Cardinality(B) <= Cardinality(S)
  BY <1>2, <1>3, FS_Subset
<1>6. Cardinality(A) \in Nat /\ Cardinality(B) \in Nat /\ Cardinality(S) \in Nat
  BY <1>2, FS_CardinalityType
<1> QED
  BY <1>4, <1>5, <1>6 DEF RankIn, A, B

(* Every rank below the number of members is that of one.                       *)
LEMMA RankFound ==
  ASSUME NEW n \in Nat, NEW S \in SUBSET (0 .. n)
  PROVE  \A l \in Nat : l < Cardinality(S) => \E x \in S : RankIn(S, x) = l
<1> DEFINE P == {l \in Nat : l < Cardinality(S) => \E x \in S : RankIn(S, x) = l}
<1>1. IsFiniteSet(S) /\ Cardinality(S) \in Nat /\ S \in SUBSET Nat
  <2>1. S \in SUBSET Nat
    OBVIOUS
  <2>2. 0 \in Nat
    OBVIOUS
  <2> QED
    BY <2>1, <2>2, RankType
<1>2. 0 \in P
  <2> SUFFICES ASSUME 0 < Cardinality(S) PROVE \E x \in S : RankIn(S, x) = 0
    OBVIOUS
  <2>1. S # {}
    BY <1>1, FS_EmptySet
  <2>2. Min(S) \in S /\ \A y \in S : Min(S) <= y
    BY <1>1, <2>1, LeastMember
  <2>3. PICK x : x = Min(S)
    OBVIOUS
  <2>4. x \in S /\ \A r \in S : r \in Nat /\ x <= r
    BY <1>1, <2>2, <2>3
  <2>5. {r \in S : r < x} = {}
    <3>1. \A r \in S : ~ (r < x)
      BY <2>4, <1>1
    <3> QED
      BY <3>1
  <2> QED
    BY <2>4, <2>5, FS_EmptySet DEF RankIn
<1>3. ASSUME NEW l \in P PROVE l + 1 \in P
  <2>1. l \in Nat
    OBVIOUS
  <2> SUFFICES ASSUME l + 1 < Cardinality(S) PROVE \E x \in S : RankIn(S, x) = l + 1
    BY <2>1
  <2>2. PICK x \in S : RankIn(S, x) = l
    BY <1>1, <2>1
  <2> HIDE DEF P
  <2> DEFINE A == {r \in S : r < x}
             above == {r \in S : r > x}
  <2>3. x \in Nat /\ IsFiniteSet(A) /\ Cardinality(A) = l
    BY <1>1, <2>2, RankType DEF RankIn
  <2>4. IsFiniteSet(A \cup {x}) /\ Cardinality(A \cup {x}) = l + 1
    <3>1. x \notin A
      BY <2>3
    <3> HIDE DEF A
    <3> QED
      BY <2>3, <3>1, FS_AddElement
  <2>5. above # {}
    <3> SUFFICES ASSUME above = {} PROVE FALSE
      OBVIOUS
    <3>1. S = A \cup {x}
      <4>1. \A r \in S : r < x \/ r = x
        <5>1. \A r \in S : r \in Nat /\ ~ (r > x)
          BY <1>1
        <5> QED
          BY <2>3, <5>1
      <4> QED
        BY <2>2, <4>1, Zenon
    <3> HIDE DEF A
    <3> QED
      BY <1>1, <2>1, <2>4, <3>1
  <2>6. above \in SUBSET Nat
    BY <1>1
  <2>7. Min(above) \in above /\ \A y \in above : Min(above) <= y
    <3> HIDE DEF above
    <3> QED
      BY <2>5, <2>6, LeastMember
  <2>8. PICK z : z = Min(above)
    OBVIOUS
  <2>9. z \in S /\ z > x /\ \A r \in S : r > x => z <= r
    BY <2>7, <2>8
  <2>10. {r \in S : r < z} = A \cup {x}
    <3>1. z \in Nat /\ \A r \in S : r \in Nat
      BY <1>1, <2>9
    <3>2. \A r \in S : r < z <=> r < x \/ r = x
      BY <2>3, <2>9, <3>1
    <3> QED
      BY <2>2, <3>2, Zenon
  <2> QED
    BY <2>4, <2>9, <2>10 DEF RankIn
<1>4. P = Nat
  <2> HIDE DEF P
  <2>1. P \in SUBSET Nat
    BY DEF P
  <2> QED
    BY <1>2, <1>3, <2>1, SetInduction
<1> QED
  BY <1>4

-----------------------------------------------------------------------------
(* Lines.                                                                     *)

(* Where lines start.                                                         *)
LEMMA StartsType ==
  ASSUME NEW t \in Seq(Ch)
  PROVE  /\ Len(t) \in Nat /\ Starts(t) \in SUBSET (0 .. Len(t)) /\ 0 \in Starts(t)
         /\ IsFiniteSet(Starts(t)) /\ LineCount(t) \in Nat /\ LineCount(t) > 0
<1>1. Len(t) \in Nat /\ Starts(t) \in SUBSET (0 .. Len(t)) /\ 0 \in Starts(t)
  BY LenProperties DEF Starts
<1>2. 0 \in Nat
  OBVIOUS
<1>3. IsFiniteSet(Starts(t)) /\ Cardinality(Starts(t)) \in Nat
  BY <1>1, <1>2, RankType
<1>4. Cardinality(Starts(t)) # 0
  BY <1>1, <1>3, FS_EmptySet
<1> QED
  BY <1>1, <1>3, <1>4 DEF LineCount

(* A line has no newline but the one that ends it.                              *)
IsLine(t, l, s, n) ==
  /\ s \in Starts(t) /\ s \in Nat /\ RankIn(Starts(t), s) = l
  /\ n \in Nat /\ s + n <= Len(t)
  /\ \A i \in s .. s + n - 1 : At(t, i) # Newline
  /\ s + n = Len(t) \/ At(t, s + n) = Newline

(* The line the code looks up is the line with that number.                     *)
LEMMA LineIs ==
  ASSUME NEW t \in Seq(Ch), NEW l \in Nat, l < LineCount(t)
  PROVE  IsLine(t, l, Line(t, l).start, Line(t, l).length)
<1> DEFINE start == CHOOSE s \in Starts(t) : Cardinality({r \in Starts(t) : r < s}) = l
           ends == {i \in start .. Len(t) : i = Len(t) \/ At(t, i) = Newline}
<1>1. Len(t) \in Nat /\ Starts(t) \in SUBSET (0 .. Len(t))
  BY StartsType
<1>2. start \in Starts(t) /\ RankIn(Starts(t), start) = l
  <2>1. \E s \in Starts(t) : RankIn(Starts(t), s) = l
    BY <1>1, RankFound DEF LineCount
  <2> QED
    BY <2>1 DEF RankIn
<1>3. Line(t, l) = [start |-> start, length |-> Min(ends) - start]
  BY DEF Line
<1> HIDE DEF start
<1>4. start \in 0 .. Len(t)
  BY <1>1, <1>2
<1>5. ends \in SUBSET Nat /\ Len(t) \in ends
  BY <1>1, <1>4
<1>6. PICK end : end = Min(ends)
  OBVIOUS
<1>7. end \in ends /\ \A i \in ends : end <= i
  <2> HIDE DEF ends
  <2>1. ends # {}
    BY <1>5
  <2> QED
    BY <1>5, <1>6, <2>1, LeastMember
<1>8. /\ end \in start .. Len(t) /\ (end = Len(t) \/ At(t, end) = Newline)
      /\ \A i \in start .. end - 1 : At(t, i) # Newline
  <2>1. end \in start .. Len(t) /\ (end = Len(t) \/ At(t, end) = Newline)
    BY <1>7
  <2>2. ASSUME NEW i \in start .. end - 1, At(t, i) = Newline PROVE FALSE
    <3>1. i \in start .. Len(t) /\ ~ (end <= i)
      BY <1>1, <1>4, <2>1
    <3>2. i \in ends
      BY <2>2, <3>1
    <3> HIDE DEF ends
    <3> QED
      BY <1>7, <3>1, <3>2
  <2> QED
    BY <2>1, <2>2
<1> HIDE DEF ends
<1>9. Line(t, l).start = start /\ Line(t, l).length = end - start
  BY <1>3, <1>6
<1>10. start \in Nat /\ end - start \in Nat /\ start + (end - start) = end /\ end <= Len(t)
  BY <1>1, <1>4, <1>8
<1>11. IsLine(t, l, start, end - start)
  BY <1>2, <1>8, <1>10 DEF IsLine
<1> QED
  BY <1>9, <1>11

(* Lines follow each other, and no line starts between two that do.              *)
LEMMA LinesOrdered ==
  ASSUME NEW t \in Seq(Ch), NEW l \in Nat, l < LineCount(t), NEW s \in Starts(t)
  PROVE  /\ Line(t, l).start < s => l < RankIn(Starts(t), s)
         /\ s < Line(t, l).start => RankIn(Starts(t), s) < l
         /\ RankIn(Starts(t), s) = l => s = Line(t, l).start
         /\ RankIn(Starts(t), s) \in Nat /\ RankIn(Starts(t), s) < LineCount(t)
<1> DEFINE S == Starts(t)
           n == Len(t)
<1>1. PICK b : b = Line(t, l).start
  OBVIOUS
<1>2. b \in S /\ RankIn(S, b) = l
  BY <1>1, LineIs DEF IsLine
<1>3. n \in Nat /\ S \in SUBSET (0 .. n) /\ LineCount(t) = Cardinality(S)
  BY StartsType DEF LineCount
<1> HIDE DEF S, n
<1>4. s \in S
  BY DEF S
<1>5. s \in Nat /\ b \in Nat /\ s <= n
  BY <1>2, <1>3, <1>4
<1>6. b < s => l < RankIn(S, s)
  BY <1>2, <1>3, <1>4, <1>5, RankGrows
<1>7. s < b => RankIn(S, s) < l
  BY <1>2, <1>3, <1>4, <1>5, RankGrows
<1>8. RankIn(S, s) \in Nat
  BY <1>3, <1>5, RankType
<1>9. RankIn(S, s) < Cardinality(S)
  <2>1. n + 1 \in Nat /\ s < n + 1
    BY <1>3, <1>5
  <2> QED
    BY <1>3, <1>4, <2>1, RankGrows
<1>10. RankIn(S, s) = l => s = b
  BY <1>5, <1>6, <1>7, <1>8
<1> QED
  BY <1>1, <1>3, <1>6, <1>7, <1>8, <1>9, <1>10 DEF S

(* The line a position is in: it starts at or before it, and the next behind it.  *)
InLine(t, l, i) ==
  /\ l \in Nat /\ l < LineCount(t) /\ Line(t, l).start <= i
  /\ l = LineCount(t) - 1 \/ i < Line(t, l + 1).start

(* Then no newline lies between the start of the line and the position, and every *)
(* line before starts before it, every line after behind it.                     *)
LEMMA InLineIs ==
  ASSUME NEW t \in Seq(Ch), NEW l, NEW i \in Nat, InLine(t, l, i)
  PROVE  /\ \A j \in Line(t, l).start .. i - 1 : At(t, j) # Newline
         /\ \A m \in Nat : m < LineCount(t) => (m <= l => Line(t, m).start <= i)
                                           /\ (l < m => i < Line(t, m).start)
<1> DEFINE n == LineCount(t)
           Start(m) == Line(t, m).start
<1>1. /\ l \in Nat /\ n \in Nat /\ l < n /\ Start(l) <= i
      /\ l = n - 1 \/ i < Start(l + 1)
  BY StartsType DEF InLine
<1>2. \A m \in Nat : m < n => Start(m) \in Starts(t) /\ Start(m) \in Nat
                                /\ RankIn(Starts(t), Start(m)) = m
  BY LineIs DEF IsLine
<1>3. \A m \in Nat : \A k \in Nat : m < n /\ k < n /\ k < m => Start(k) < Start(m)
  <2> SUFFICES ASSUME NEW m \in Nat, NEW k \in Nat, m < n, k < n, k < m
               PROVE  Start(k) < Start(m)
    OBVIOUS
  <2>1. Start(m) \in Starts(t) /\ RankIn(Starts(t), Start(m)) = m
    BY <1>2
  <2>2. PICK s \in Starts(t) : s = Start(m)
    BY <2>1
  <2>3. s < Start(k) => RankIn(Starts(t), s) < k
    BY LinesOrdered
  <2>4. s # Start(k)
    BY <1>2, <2>1, <2>2
  <2> HIDE DEF Start
  <2>5. Start(m) \in Nat /\ Start(k) \in Nat
    BY <1>2
  <2> QED
    BY <2>1, <2>2, <2>3, <2>4, <2>5
<1>4. \A s \in Starts(t) : s > Start(l) => s > i
  <2> SUFFICES ASSUME NEW s \in Starts(t), s > Start(l) PROVE s > i
    OBVIOUS
  <2>1. /\ s \in Nat /\ l < RankIn(Starts(t), s)
        /\ RankIn(Starts(t), s) \in Nat /\ RankIn(Starts(t), s) < n
    <3>1. s \in Nat
      BY StartsType
    <3>2. Start(l) \in Nat /\ Start(l) < s
      BY <1>1, <1>2, <3>1
    <3> QED
      BY <1>1, <3>1, <3>2, LinesOrdered
  <2>2. l # n - 1 /\ l + 1 \in Nat /\ l + 1 < n
    BY <1>1, <2>1
  <2>3. ~ (s < Start(l + 1))
    <3>1. s < Start(l + 1) => RankIn(Starts(t), s) < l + 1
      BY <2>2, LinesOrdered
    <3> HIDE DEF Start
    <3> QED
      BY <1>1, <2>1, <3>1
  <2>4. Start(l + 1) \in Nat /\ i < Start(l + 1)
    BY <1>1, <1>2, <2>2
  <2> HIDE DEF Start
  <2> QED
    BY <2>1, <2>3, <2>4
<1>5. ASSUME NEW j \in Start(l) .. i - 1, At(t, j) = Newline PROVE FALSE
  <2>1. Start(l) \in Nat
    BY <1>1, <1>2
  <2> HIDE DEF Start
  <2>2. j \in Nat /\ j >= Start(l) /\ j + 1 <= i
    BY <2>1
  <2>3. j < Len(t)
    <3>1. Newline # Nul
      BY CursorAssumption
    <3>2. j \in 0 .. Len(t) - 1
      BY <1>5, <3>1 DEF At
    <3> QED
      BY <3>2, StartsType
  <2>4. j + 1 \in Starts(t)
    <3>1. j + 1 \in 1 .. Len(t) /\ (j + 1) - 1 = j
      BY <2>2, <2>3, StartsType
    <3> QED
      BY <1>5, <3>1 DEF Starts
  <2>5. j + 1 > Start(l) /\ ~ (j + 1 > i)
    BY <2>1, <2>2
  <2> QED
    BY <1>4, <2>4, <2>5
<1>6. ASSUME NEW m \in Nat, m < n, m <= l PROVE Start(m) <= i
  <2>1. Start(m) \in Nat /\ Start(l) \in Nat /\ (m < l => Start(m) < Start(l))
    BY <1>1, <1>2, <1>3, <1>6
  <2> HIDE DEF Start
  <2> QED
    BY <1>1, <1>6, <2>1
<1>7. ASSUME NEW m \in Nat, m < n, l < m PROVE i < Start(m)
  <2>1. Start(m) \in Starts(t) /\ Start(l) < Start(m) /\ Start(m) \in Nat /\ Start(l) \in Nat
    BY <1>1, <1>2, <1>3, <1>7
  <2> HIDE DEF Start
  <2>2. Start(m) > i
    BY <1>4, <2>1
  <2> QED
    BY <2>1, <2>2
<1> QED
  BY <1>5, <1>6, <1>7

(* Every position is in one line.                                              *)
LEMMA InSomeLine ==
  ASSUME NEW t \in Seq(Ch), NEW i \in Nat
  PROVE  \E l \in Nat : InLine(t, l, i)
<1> DEFINE S == Starts(t)
           before == {s \in S : s <= i}
<1>1. /\ Len(t) \in Nat /\ S \in SUBSET (0 .. Len(t)) /\ 0 \in S
      /\ LineCount(t) \in Nat /\ 0 < LineCount(t) /\ 0 \in Nat
  BY StartsType
<1>2. before \in SUBSET (0 .. Len(t)) /\ before # {}
  BY <1>1
<1>3. PICK s : s = Max(before)
  OBVIOUS
<1>4. s \in before /\ \A r \in before : r <= s
  <2> HIDE DEF before
  <2> QED
    BY <1>1, <1>2, <1>3, GreatestMember
<1>5. s \in S /\ s <= i /\ \A r \in S : r <= i => r <= s
  BY <1>4
<1>6. PICK l : l = RankIn(S, s)
  OBVIOUS
<1>7. l \in Nat /\ l < LineCount(t)
  BY <1>1, <1>5, <1>6, LinesOrdered
<1>8. Line(t, l).start = s
  BY <1>5, <1>6, <1>7, LinesOrdered
<1>9. ASSUME l # LineCount(t) - 1 PROVE i < Line(t, l + 1).start
  <2>1. l + 1 \in Nat /\ l + 1 < LineCount(t)
    BY <1>1, <1>7, <1>9
  <2>2. PICK r : r = Line(t, l + 1).start
    OBVIOUS
  <2>3. r \in S /\ RankIn(S, r) = l + 1 /\ r \in Nat
    BY <2>1, <2>2, LineIs DEF IsLine
  <2>4. r < s => RankIn(S, r) < l
    BY <1>7, <1>8, <2>3, LinesOrdered
  <2>5. r # s
    BY <1>6, <1>7, <2>3
  <2>6. s \in Nat
    BY <1>1, <1>5
  <2>7. ~ (r <= s)
    BY <1>7, <2>3, <2>4, <2>5, <2>6
  <2>8. ~ (r <= i)
    BY <1>5, <2>3, <2>7
  <2> QED
    BY <2>2, <2>3, <2>8
<1> QED
  BY <1>5, <1>7, <1>8, <1>9 DEF InLine

-----------------------------------------------------------------------------
(* Pieces of texts.                                                           *)

(* A position before, in or behind a text, at an end of it when it is not in it. *)
LEMMA ClampedIs ==
  ASSUME NEW t \in Seq(Ch), NEW at \in Int
  PROVE  /\ Clamped(t, at) = IF at < 0 THEN 0 ELSE IF at <= Len(t) THEN at ELSE Len(t)
         /\ Clamped(t, at) \in 0 .. Len(t)
<1>1. Len(t) \in Nat
  BY LenProperties
<1>2. PICK m : m = Min({at, Len(t)})
  OBVIOUS
<1>3. m \in Int /\ m = IF at <= Len(t) THEN at ELSE Len(t)
  BY <1>1, <1>2, LeastOfTwo
<1>4. Clamped(t, at) = Max({0, m})
  BY <1>2 DEF Clamped
<1>5. Max({0, m}) = IF 0 <= m THEN m ELSE 0
  BY <1>3, GreatestOfTwo
<1> QED
  BY <1>1, <1>3, <1>4, <1>5

(* What a piece of a text holds.                                              *)
LEMMA PieceIs ==
  ASSUME NEW t \in Seq(Ch), NEW from \in Nat, NEW to \in 0 .. Len(t)
  PROVE  /\ Piece(t, from, to) \in Seq(Ch)
         /\ Len(Piece(t, from, to)) = IF from <= to THEN to - from ELSE 0
         /\ \A i \in 1 .. to - from : Piece(t, from, to)[i] = t[from + i]
<1>1. Len(t) \in Nat /\ to \in Int /\ from + 1 \in Int
  BY LenProperties
<1>2. \A i \in from + 1 .. to : t[i] \in Ch
  <2>1. \A i \in from + 1 .. to : i \in 1 .. Len(t)
    BY <1>1
  <2> QED
    BY <2>1, ElementOfSeq
<1>3. /\ SubSeq(t, from + 1, to) \in Seq(Ch)
      /\ Len(SubSeq(t, from + 1, to)) = IF from + 1 <= to THEN to - (from + 1) + 1 ELSE 0
      /\ \A i \in 1 .. to - (from + 1) + 1 :
           SubSeq(t, from + 1, to)[i] = t[(from + 1) + i - 1]
  BY <1>1, <1>2, SubSeqProperties
<1>4. PICK p : p = SubSeq(t, from + 1, to)
  OBVIOUS
<1>5. Len(p) = IF from <= to THEN to - from ELSE 0
  BY <1>1, <1>3, <1>4
<1>6. ASSUME NEW i \in 1 .. to - from PROVE p[i] = t[from + i]
  <2>1. i \in 1 .. to - (from + 1) + 1 /\ (from + 1) + i - 1 = from + i
    BY <1>1
  <2> QED
    BY <1>3, <1>4, <2>1
<1> QED
  BY <1>3, <1>4, <1>5, <1>6 DEF Piece

(* Putting a text into another: the length, and what stays before it.          *)
LEMMA InsertIs ==
  ASSUME NEW t \in Seq(Ch), NEW s \in Seq(Ch), NEW at \in Nat
  PROVE  /\ Insert(t, s, at) \in Seq(Ch)
         /\ Len(Insert(t, s, at)) = Len(t) + Len(s)
         /\ \A i \in 1 .. Len(t) + Len(s) :
              Insert(t, s, at)[i] =
                IF i <= Clamped(t, at) THEN t[i]
                ELSE IF i <= Clamped(t, at) + Len(s) THEN s[i - Clamped(t, at)]
                ELSE t[i - Len(s)]
<1>1. PICK k : k = Clamped(t, at)
  OBVIOUS
<1>2. k \in 0 .. Len(t) /\ Len(t) \in Nat /\ Len(s) \in Nat
  BY <1>1, ClampedIs, LenProperties
<1>3. PICK p : p = Piece(t, 0, k)
  OBVIOUS
<1>4. PICK q : q = Piece(t, k, Len(t))
  OBVIOUS
<1>5. p \in Seq(Ch) /\ Len(p) = k /\ \A i \in 1 .. k : p[i] = t[i]
  <2>1. 0 \in Nat /\ k \in Nat /\ k - 0 = k /\ 0 <= k
    BY <1>2
  <2>2. /\ Piece(t, 0, k) \in Seq(Ch)
        /\ Len(Piece(t, 0, k)) = k - 0
        /\ \A i \in 1 .. k - 0 : Piece(t, 0, k)[i] = t[0 + i]
    BY <1>2, <2>1, PieceIs
  <2>3. \A i \in 1 .. k : 0 + i = i
    OBVIOUS
  <2> QED
    BY <1>3, <2>1, <2>2, <2>3
<1>6. q \in Seq(Ch) /\ Len(q) = Len(t) - k /\ \A i \in 1 .. Len(t) - k : q[i] = t[k + i]
  <2>1. Len(t) \in 0 .. Len(t) /\ k \in Nat /\ k <= Len(t)
    BY <1>2
  <2> QED
    BY <1>4, <2>1, PieceIs
<1>7. PICK ps : ps = p \o s
  OBVIOUS
<1>8. /\ ps \in Seq(Ch) /\ Len(ps) = k + Len(s)
      /\ \A i \in 1 .. k + Len(s) : ps[i] = IF i <= k THEN p[i] ELSE s[i - k]
  BY <1>5, <1>7, ConcatProperties
<1>9. PICK r : r = ps \o q
  OBVIOUS
<1>10. /\ r \in Seq(Ch) /\ Len(r) = Len(ps) + Len(q)
       /\ \A i \in 1 .. Len(ps) + Len(q) : r[i] = IF i <= Len(ps) THEN ps[i] ELSE q[i - Len(ps)]
  BY <1>6, <1>8, <1>9, ConcatProperties
<1>11. Insert(t, s, at) = r
  BY <1>1, <1>3, <1>4, <1>7, <1>9 DEF Insert
<1>12. Len(r) = Len(t) + Len(s)
  BY <1>2, <1>6, <1>8, <1>10
<1>13. ASSUME NEW i \in 1 .. Len(t) + Len(s)
       PROVE  r[i] = IF i <= k THEN t[i] ELSE IF i <= k + Len(s) THEN s[i - k] ELSE t[i - Len(s)]
  <2>1. r[i] = IF i <= k + Len(s) THEN ps[i] ELSE q[i - (k + Len(s))]
    BY <1>2, <1>6, <1>8, <1>10
  <2>2. CASE i <= k
    BY <1>2, <1>5, <1>8, <2>1, <2>2
  <2>3. CASE k < i /\ i <= k + Len(s)
    BY <1>2, <1>8, <2>1, <2>3
  <2>4. CASE k + Len(s) < i
    <3>1. /\ i - (k + Len(s)) \in 1 .. Len(t) - k
          /\ k + (i - (k + Len(s))) = i - Len(s)
      BY <1>2, <2>4
    <3>2. q[i - (k + Len(s))] = t[i - Len(s)]
      BY <1>6, <3>1
    <3> QED
      BY <1>2, <2>1, <2>4, <3>2
  <2> QED
    BY <1>2, <2>2, <2>3, <2>4
<1> QED
  BY <1>1, <1>10, <1>11, <1>12, <1>13

(* Taking a piece out of a text.                                              *)
LEMMA DeleteIs ==
  ASSUME NEW t \in Seq(Ch), NEW from \in Nat, NEW to \in Nat, from <= to
  PROVE  /\ Delete(t, from, to) \in Seq(Ch)
         /\ Len(Delete(t, from, to)) = Len(t) - (Clamped(t, to) - Clamped(t, from))
         /\ \A i \in 1 .. Len(t) - (Clamped(t, to) - Clamped(t, from)) :
              Delete(t, from, to)[i] =
                IF i <= Clamped(t, from) THEN t[i]
                ELSE t[i + (Clamped(t, to) - Clamped(t, from))]
<1>1. PICK f : f = Clamped(t, from)
  OBVIOUS
<1>2. PICK g : g = Clamped(t, to)
  OBVIOUS
<1>3. f \in 0 .. Len(t) /\ g \in f .. Len(t) /\ Len(t) \in Nat
  BY <1>1, <1>2, ClampedIs, LenProperties
<1>4. Clamped(t, f + (to - from)) = g
  <2>1. PICK e \in Int : e = f + (to - from)
    BY <1>3
  <2>2. Clamped(t, e) = IF e < 0 THEN 0 ELSE IF e <= Len(t) THEN e ELSE Len(t)
    BY ClampedIs
  <2>3. g = IF to <= Len(t) THEN to ELSE Len(t)
    BY <1>2, ClampedIs
  <2>4. f = IF from <= Len(t) THEN from ELSE Len(t)
    BY <1>1, ClampedIs
  <2> QED
    BY <1>3, <2>1, <2>2, <2>3, <2>4
<1>5. PICK p : p = Piece(t, 0, f)
  OBVIOUS
<1>6. PICK q : q = Piece(t, g, Len(t))
  OBVIOUS
<1>7. p \in Seq(Ch) /\ Len(p) = f /\ \A i \in 1 .. f : p[i] = t[i]
  <2>1. 0 \in Nat /\ f \in Nat /\ f - 0 = f /\ 0 <= f
    BY <1>3
  <2>2. /\ Piece(t, 0, f) \in Seq(Ch)
        /\ Len(Piece(t, 0, f)) = f - 0
        /\ \A i \in 1 .. f - 0 : Piece(t, 0, f)[i] = t[0 + i]
    BY <1>3, <2>1, PieceIs
  <2>3. \A i \in 1 .. f : 0 + i = i
    OBVIOUS
  <2> QED
    BY <1>5, <2>1, <2>2, <2>3
<1>8. q \in Seq(Ch) /\ Len(q) = Len(t) - g /\ \A i \in 1 .. Len(t) - g : q[i] = t[g + i]
  <2>1. Len(t) \in 0 .. Len(t) /\ g \in Nat /\ g <= Len(t)
    BY <1>3
  <2> QED
    BY <1>6, <2>1, PieceIs
<1>9. PICK r : r = p \o q
  OBVIOUS
<1>10. /\ r \in Seq(Ch) /\ Len(r) = Len(p) + Len(q)
      /\ \A i \in 1 .. Len(p) + Len(q) : r[i] = IF i <= Len(p) THEN p[i] ELSE q[i - Len(p)]
  BY <1>7, <1>8, <1>9, ConcatProperties
<1>11. Delete(t, from, to) = r
  BY <1>1, <1>4, <1>5, <1>6, <1>9 DEF Delete
<1>12. Len(r) = Len(t) - (g - f)
  BY <1>3, <1>7, <1>8, <1>10
<1>13. ASSUME NEW i \in 1 .. Len(t) - (g - f)
       PROVE  r[i] = IF i <= f THEN t[i] ELSE t[i + (g - f)]
  <2>1. i \in 1 .. Len(p) + Len(q)
    BY <1>3, <1>7, <1>8
  <2>2. CASE i <= f
    BY <1>3, <1>7, <1>10, <2>1, <2>2
  <2>3. CASE f < i
    <3>1. i - f \in 1 .. Len(t) - g /\ g + (i - f) = i + (g - f)
      BY <1>3, <2>3
    <3>2. q[i - f] = t[i + (g - f)]
      BY <1>8, <3>1
    <3>3. r[i] = q[i - f]
      BY <1>3, <1>7, <1>10, <2>1, <2>3
    <3> QED
      BY <1>3, <2>3, <3>2, <3>3
  <2> QED
    BY <1>3, <2>2, <2>3
<1> QED
  BY <1>1, <1>2, <1>10, <1>11, <1>12, <1>13

(* What is put in or taken out before a text is put in or taken out at its start. *)
LEMMA BeforeIsStart ==
  ASSUME NEW t \in Seq(Ch), NEW s \in Seq(Ch), NEW to \in Nat
  PROVE  Insert(t, s, -1) = Insert(t, s, 0) /\ Delete(t, -1, to) = Delete(t, 0, to + 1)
<1>1. Clamped(t, -1) = 0 /\ Clamped(t, 0) = 0
  BY LenProperties, ClampedIs
<1>2. 0 + (to - (-1)) = 0 + ((to + 1) - 0)
  OBVIOUS
<1> QED
  BY <1>1, <1>2 DEF Insert, Delete

(* Whatever place is meant, the outcome is a text.                              *)
LEMMA EditIsText ==
  ASSUME NEW t \in Seq(Ch), NEW s \in Seq(Ch), NEW at \in Nat \cup {-1},
         NEW to \in Nat, at <= to
  PROVE  Insert(t, s, at) \in Seq(Ch) /\ Delete(t, at, to) \in Seq(Ch)
<1>1. CASE at \in Nat
  BY <1>1, InsertIs, DeleteIs
<1>2. CASE at = -1
  <2>1. PICK n \in Nat : n = to + 1
    OBVIOUS
  <2>2. 0 \in Nat /\ 0 <= n
    BY <2>1
  <2>3. Insert(t, s, 0) \in Seq(Ch) /\ Delete(t, 0, n) \in Seq(Ch)
    BY <2>2, InsertIs, DeleteIs
  <2> QED
    BY <1>2, <2>1, <2>3, BeforeIsStart
<1> QED
  BY <1>1, <1>2

(* What was taken out of a text and is put back at the same place restores it.  *)
LEMMA PutBack ==
  ASSUME NEW t \in Seq(Ch), NEW from \in Nat, NEW to \in Nat, from <= to
  PROVE  Insert(Delete(t, from, to), Piece(t, from, Clamped(t, to)), from) = t
<1>1. PICK f : f = Clamped(t, from)
  OBVIOUS
<1>2. PICK g : g = Clamped(t, to)
  OBVIOUS
<1>3. /\ f \in 0 .. Len(t) /\ g \in f .. Len(t) /\ Len(t) \in Nat
      /\ f = IF from <= Len(t) THEN from ELSE Len(t)
  BY <1>1, <1>2, ClampedIs, LenProperties
<1>4. PICK d : d = Delete(t, from, to)
  OBVIOUS
<1>5. PICK p : p = Piece(t, from, g)
  OBVIOUS
<1>6. /\ d \in Seq(Ch) /\ Len(d) = Len(t) - (g - f)
      /\ \A i \in 1 .. Len(t) - (g - f) : d[i] = IF i <= f THEN t[i] ELSE t[i + (g - f)]
  BY <1>1, <1>2, <1>4, DeleteIs
<1>7. p \in Seq(Ch) /\ Len(p) = g - f /\ \A i \in 1 .. g - f : p[i] = t[f + i]
  <2>1. g \in 0 .. Len(t)
    BY <1>3
  <2>2. /\ p \in Seq(Ch) /\ Len(p) = IF from <= g THEN g - from ELSE 0
        /\ \A i \in 1 .. g - from : p[i] = t[from + i]
    BY <1>5, <2>1, PieceIs
  <2>3. CASE from <= Len(t)
    <3>1. f = from /\ from <= g
      BY <1>3, <2>3
    <3> QED
      BY <2>2, <3>1
  <2>4. CASE ~ (from <= Len(t))
    <3>1. f = Len(t) /\ g = Len(t) /\ ~ (from <= g) /\ g - f = 0
      BY <1>3, <2>4
    <3>2. \A i \in 1 .. g - f : FALSE
      BY <3>1
    <3> QED
      BY <2>2, <3>1, <3>2
  <2> QED
    BY <2>3, <2>4
<1>8. Clamped(d, from) = f
  <2>1. Clamped(d, from) = IF from <= Len(d) THEN from ELSE Len(d)
    BY <1>6, ClampedIs
  <2>2. Len(d) = Len(t) - (g - f) /\ (from <= Len(t) => from <= g)
    BY <1>2, <1>3, <1>6, ClampedIs
  <2> QED
    BY <1>3, <2>1, <2>2
<1>9. PICK r : r = Insert(d, p, from)
  OBVIOUS
<1>10. /\ r \in Seq(Ch) /\ Len(r) = Len(d) + Len(p)
       /\ \A i \in 1 .. Len(d) + Len(p) :
            r[i] = IF i <= f THEN d[i] ELSE IF i <= f + Len(p) THEN p[i - f] ELSE d[i - Len(p)]
  BY <1>6, <1>7, <1>8, <1>9, InsertIs
<1>11. Len(r) = Len(t)
  BY <1>3, <1>6, <1>7, <1>10
<1>12. ASSUME NEW i \in 1 .. Len(t) PROVE r[i] = t[i]
  <2>1. i \in 1 .. Len(d) + Len(p)
    BY <1>3, <1>6, <1>7
  <2>2. CASE i <= f
    <3>1. i \in 1 .. Len(t) - (g - f)
      BY <1>3, <2>2
    <3> QED
      BY <1>6, <1>10, <2>1, <2>2, <3>1
  <2>3. CASE f < i /\ i <= g
    <3>1. ~ (i <= f) /\ i <= f + Len(p) /\ i - f \in 1 .. g - f /\ f + (i - f) = i
      BY <1>3, <1>7, <2>3
    <3> QED
      BY <1>7, <1>10, <2>1, <3>1
  <2>4. CASE g < i
    <3>1. /\ ~ (i <= f) /\ ~ (i <= f + Len(p)) /\ i - (g - f) \in 1 .. Len(t) - (g - f)
          /\ ~ (i - (g - f) <= f) /\ (i - (g - f)) + (g - f) = i /\ Len(p) = g - f
      BY <1>3, <1>7, <2>4
    <3>2. r[i] = d[i - (g - f)]
      BY <1>10, <2>1, <3>1
    <3> QED
      BY <1>6, <3>1, <3>2
  <2> QED
    BY <1>3, <2>2, <2>3, <2>4
<1>13. r = t
  BY <1>10, <1>11, <1>12, SeqEqual
<1> QED
  BY <1>2, <1>4, <1>5, <1>9, <1>13

(* Half of the way is between the ends of it.                                  *)
LEMMA Midway ==
  ASSUME NEW a \in Nat, NEW b \in Nat
  PROVE  /\ a + (b - a) \div 2 \in Nat
         /\ a <= b => a <= a + (b - a) \div 2 /\ a + (b - a) \div 2 <= b
         /\ a < b => a + (b - a) \div 2 < b
         /\ b < a => b <= a + (b - a) \div 2 /\ a + (b - a) \div 2 <= a
<1>1. PICK d \in Int : d = b - a
  OBVIOUS
<1>2. PICK h \in Int : h = d \div 2
  OBVIOUS
<1>3. 2 * h <= d /\ d < 2 * h + 2
  BY <1>2
<1> QED
  BY <1>1, <1>2, <1>3

(* The binary search finds the line of a position: the function that gives this *)
(* line everywhere meets the equation of the search, and any function that does *)
(* gives it wherever the line is within the bounds, by induction on how far      *)
(* apart they are.                                                            *)
LEMMA SearchFinds ==
  ASSUME NEW t \in Seq(Ch), NEW i \in Nat
  PROVE  InLine(t, buffer_line_for_index(t, i), i)
<1> DEFINE last == LineCount(t) - 1
           start(l) == Line(t, l).start
           found(l) == start(l) <= i /\ (l = last \/ i < start(l + 1))
           Mid(min, max) == min + (max - min) \div 2
           F(f) == [b \in (0 .. last) \X (0 .. last) |->
                      IF found(Mid(b[1], b[2])) THEN Mid(b[1], b[2])
                      ELSE IF start(Mid(b[1], b[2])) > i THEN f[<<b[1], Mid(b[1], b[2])>>]
                      ELSE f[<<Mid(b[1], b[2]) + 1, b[2]>>]]
           search == CHOOSE f : f = F(f)
<1>1. buffer_line_for_index(t, i) = search[<<0, last>>]
  BY DEF buffer_line_for_index
<1>2. PICK n : n = last
  OBVIOUS
<1>3. n \in Nat /\ LineCount(t) = n + 1
  BY <1>2, StartsType
<1>4. PICK L \in Nat : InLine(t, L, i)
  BY InSomeLine
<1>5. /\ L \in 0 .. n
      /\ \A m \in 0 .. n : (m <= L => start(m) <= i) /\ (L < m => i < start(m))
      /\ \A m \in 0 .. n : start(m) \in Nat
  <2>1. L < n + 1
    BY <1>3, <1>4 DEF InLine
  <2>2. \A m \in Nat : m < n + 1 => (m <= L => start(m) <= i) /\ (L < m => i < start(m))
    BY <1>3, <1>4, InLineIs
  <2>3. \A m \in Nat : m < n + 1 => start(m) \in Nat
    BY <1>3, LineIs DEF IsLine
  <2>4. \A m \in 0 .. n : m \in Nat /\ m < n + 1
    BY <1>3
  <2> HIDE DEF start
  <2> QED
    BY <1>3, <2>1, <2>2, <2>3, <2>4
<1> HIDE DEF start
<1>6. ASSUME NEW m \in 0 .. n
      PROVE  /\ found(m) => m = L
             /\ ~ found(m) /\ start(m) > i => L < m
             /\ ~ found(m) /\ ~ (start(m) > i) => m < L /\ m + 1 \in 0 .. n
  <2>1. m < n => m + 1 \in 0 .. n
    BY <1>3
  <2>2. start(m) \in Nat /\ (m < n => start(m + 1) \in Nat)
    BY <1>5, <2>1
  <2>3. found(m) => m = L
    <3>1. CASE m < L
      <4>1. m # n /\ m + 1 \in 0 .. n /\ m + 1 <= L
        BY <1>3, <1>5, <3>1
      <4>2. start(m + 1) <= i /\ start(m + 1) \in Nat
        BY <1>5, <4>1
      <4> QED
        BY <1>2, <4>1, <4>2
    <3>2. CASE L < m
      BY <1>5, <2>2, <3>2
    <3> QED
      BY <1>3, <1>5, <3>1, <3>2
  <2>4. start(m) > i => L < m
    BY <1>3, <1>5, <2>2
  <2>5. ~ found(m) /\ ~ (start(m) > i) => m < L /\ m + 1 \in 0 .. n
    <3> SUFFICES ASSUME ~ found(m), ~ (start(m) > i) PROVE m < L /\ m + 1 \in 0 .. n
      OBVIOUS
    <3>1. start(m) <= i
      BY <2>2
    <3>2. m # n /\ ~ (i < start(m + 1))
      BY <1>2, <3>1
    <3>3. m + 1 \in 0 .. n /\ ~ (L < m + 1)
      BY <1>3, <1>5, <2>1, <3>2
    <3> QED
      BY <1>3, <1>5, <3>3
  <2> QED
    BY <2>3, <2>4, <2>5
<1> HIDE DEF found
<1>7. \A min \in 0 .. n, max \in 0 .. n : Mid(min, max) \in 0 .. n
  <2> SUFFICES ASSUME NEW min \in 0 .. n, NEW max \in 0 .. n PROVE Mid(min, max) \in 0 .. n
    OBVIOUS
  <2>1. PICK m : m = Mid(min, max)
    OBVIOUS
  <2>2. min \in Nat /\ max \in Nat /\ min <= n /\ max <= n
    BY <1>3
  <2>3. m \in Nat /\ (min <= max => m <= max) /\ (max < min => m <= min)
    BY <2>1, <2>2, Midway
  <2> QED
    BY <1>3, <2>1, <2>2, <2>3
<1> HIDE DEF Mid
<1>8. search = F(search)
  <2> DEFINE K == [b \in (0 .. last) \X (0 .. last) |-> L]
  <2>1. ASSUME NEW min \in 0 .. n, NEW max \in 0 .. n
        PROVE  (IF found(Mid(min, max)) THEN Mid(min, max)
                ELSE IF start(Mid(min, max)) > i THEN K[<<min, Mid(min, max)>>]
                ELSE K[<<Mid(min, max) + 1, max>>]) = L
    <3>1. PICK m \in 0 .. n : m = Mid(min, max)
      BY <1>7
    <3>2. K[<<min, m>>] = L
      BY <1>2, <3>1
    <3>3. m + 1 \in 0 .. n => K[<<m + 1, max>>] = L
      BY <1>2, <3>1
    <3> HIDE DEF K
    <3> QED
      BY <1>6, <3>1, <3>2, <3>3
  <2>2. K = F(K)
    BY <1>2, <2>1
  <2> HIDE DEF F, K
  <2> QED
    BY <2>2
<1> HIDE DEF search
<1>9. ASSUME NEW min \in 0 .. n, NEW max \in 0 .. n
      PROVE  search[<<min, max>>] = IF found(Mid(min, max)) THEN Mid(min, max)
                                ELSE IF start(Mid(min, max)) > i THEN search[<<min, Mid(min, max)>>]
                                ELSE search[<<Mid(min, max) + 1, max>>]
  <2>1. F(search)[<<min, max>>] = IF found(Mid(min, max)) THEN Mid(min, max)
                                ELSE IF start(Mid(min, max)) > i THEN search[<<min, Mid(min, max)>>]
                                ELSE search[<<Mid(min, max) + 1, max>>]
    BY <1>2
  <2> HIDE DEF F
  <2> QED
    BY <1>8, <2>1
<1> HIDE DEF F, last
<1> DEFINE D == {d \in Nat : \A min \in 0 .. n, max \in 0 .. n :
                   min <= L /\ L <= max /\ max - min <= d => search[<<min, max>>] = L}
<1>10. 0 \in D
  <2> SUFFICES ASSUME NEW min \in 0 .. n, NEW max \in 0 .. n,
                      min <= L, L <= max, max - min <= 0
               PROVE  search[<<min, max>>] = L
    OBVIOUS
  <2>1. min = L /\ max = L
    BY <1>5
  <2>2. PICK m : m = Mid(min, max)
    OBVIOUS
  <2>3. m = L
    <3>1. min \in Nat /\ max \in Nat
      BY <1>5, <2>1
    <3>2. min <= m /\ m <= max /\ m \in Nat
      BY <2>1, <2>2, <3>1, Midway DEF Mid
    <3> QED
      BY <2>1, <3>1, <3>2
  <2> HIDE DEF D
  <2>4. search[<<min, max>>] = L
    <3>1. m \in 0 .. n /\ ~ (L < m) /\ ~ (m < L)
      BY <1>5, <2>3
    <3>2. found(m)
      BY <1>6, <3>1
    <3>3. search[<<min, max>>] = m
      BY <1>9, <2>2, <3>2
    <3> QED
      BY <2>3, <3>3
  <2> QED
    BY <2>4
<1>11. ASSUME NEW d \in D PROVE d + 1 \in D
  <2>1. d \in Nat /\ \A min \in 0 .. n, max \in 0 .. n :
                       min <= L /\ L <= max /\ max - min <= d => search[<<min, max>>] = L
    OBVIOUS
  <2> SUFFICES ASSUME NEW min \in 0 .. n, NEW max \in 0 .. n,
                      min <= L, L <= max, max - min <= d + 1
               PROVE  search[<<min, max>>] = L
    BY <2>1
  <2>2. min \in Nat /\ max \in Nat /\ min <= max
    BY <1>3, <1>5
  <2>3. PICK m \in 0 .. n : m = Mid(min, max)
    BY <1>7
  <2>4. m \in Nat /\ min <= m /\ m <= max /\ (min < max => m < max)
    BY <2>2, <2>3, Midway DEF Mid
  <2>5. search[<<min, max>>] = IF found(m) THEN m
                           ELSE IF start(m) > i THEN search[<<min, m>>] ELSE search[<<m + 1, max>>]
    BY <1>9, <2>3
  <2> HIDE DEF D
  <2>6. CASE found(m)
    BY <1>6, <2>5, <2>6
  <2>7. CASE ~ found(m) /\ start(m) > i
    <3>1. L < m
      BY <1>6, <2>7
    <3>2. min <= L /\ L <= m /\ m - min <= d
      BY <1>5, <2>1, <2>2, <2>4, <3>1
    <3>3. search[<<min, m>>] = L
      BY <2>1, <3>2
    <3> QED
      BY <2>5, <2>7, <3>3
  <2>8. CASE ~ found(m) /\ ~ (start(m) > i)
    <3>1. m < L /\ m + 1 \in 0 .. n
      BY <1>6, <2>8
    <3>2. m + 1 <= L /\ L <= max /\ max - (m + 1) <= d
      BY <1>5, <2>1, <2>2, <2>4, <3>1
    <3>3. search[<<m + 1, max>>] = L
      BY <2>1, <3>1, <3>2
    <3> QED
      BY <2>5, <2>8, <3>3
  <2> QED
    BY <2>6, <2>7, <2>8
<1>12. D = Nat
  <2>1. D \in SUBSET Nat
    OBVIOUS
  <2> HIDE DEF D
  <2> QED
    BY <1>10, <1>11, <2>1, SetInduction
<1>13. search[<<0, n>>] = L
  <2>1. 0 \in 0 .. n /\ n \in 0 .. n /\ 0 <= L /\ L <= n /\ n - 0 <= n
    BY <1>3, <1>5
  <2>2. \A min \in 0 .. n, max \in 0 .. n :
          min <= L /\ L <= max /\ max - min <= n => search[<<min, max>>] = L
    BY <1>3, <1>12
  <2> HIDE DEF D
  <2> QED
    BY <2>1, <2>2
<1> QED
  BY <1>1, <1>2, <1>4, <1>13

-----------------------------------------------------------------------------
(* Positions.                                                                 *)

(* The position p, a line and a column, is that of the offset c: the column is   *)
(* counted from the start of the line, and no newline is in between.            *)
PosIs(t, c, p) ==
  /\ p.column <= c /\ c - p.column \in Starts(t)
  /\ p.line = RankIn(Starts(t), c - p.column)
  /\ \A i \in c - p.column .. c - 1 : At(t, i) # Newline


(* Its line is one of the text, and starts where the column is counted from.     *)
LEMMA PosLine ==
  ASSUME NEW t \in Seq(Ch), NEW c \in Nat, NEW p \in [line : Nat, column : Nat], PosIs(t, c, p)
  PROVE  p.line < LineCount(t) /\ Line(t, p.line).start = c - p.column
<1>1. PICK s \in Starts(t) : s = c - p.column
  BY DEF PosIs
<1>2. p.line = RankIn(Starts(t), s) /\ p.line \in Nat
  BY <1>1 DEF PosIs
<1>3. 0 \in Nat /\ 0 < LineCount(t)
  BY StartsType
<1>4. RankIn(Starts(t), s) < LineCount(t)
  BY <1>3, LinesOrdered
<1>5. s = Line(t, p.line).start
  BY <1>2, <1>4, LinesOrdered
<1> QED
  BY <1>1, <1>2, <1>4, <1>5

(* A column of a line, up to its end, is the position of the offset there.        *)
LEMMA PosInLine ==
  ASSUME NEW t \in Seq(Ch), NEW l \in Nat, l < LineCount(t),
         NEW k \in Nat, k <= Line(t, l).length,
         NEW c, c = Line(t, l).start + k, NEW p, p.line = l, p.column = k
  PROVE  PosIs(t, c, p) /\ c \in Nat /\ c <= Len(t)
<1>1. PICK s : s = Line(t, l).start
  OBVIOUS
<1>2. PICK n : n = Line(t, l).length
  OBVIOUS
<1>3. /\ s \in Starts(t) /\ s \in Nat /\ RankIn(Starts(t), s) = l /\ n \in Nat
      /\ s + n <= Len(t) /\ \A i \in s .. s + n - 1 : At(t, i) # Newline
  BY <1>1, <1>2, LineIs DEF IsLine
<1>4. c = s + k /\ k <= n /\ c - k = s /\ k <= c /\ c \in Nat /\ c <= Len(t)
  BY <1>1, <1>2, <1>3, StartsType
<1>5. \A i \in s .. c - 1 : At(t, i) # Newline
  <2>1. \A i \in s .. c - 1 : i \in s .. s + n - 1
    BY <1>3, <1>4
  <2> QED
    BY <1>3, <2>1
<1> QED
  BY <1>3, <1>4, <1>5 DEF PosIs

(* So is the column behind the start of the line that the search found.           *)
LEMMA PosFound ==
  ASSUME NEW t \in Seq(Ch), NEW l, NEW c \in Nat, InLine(t, l, c),
         NEW p, p.line = l, p.column = c - Line(t, l).start
  PROVE  PosIs(t, c, p) /\ p.line \in Nat /\ p.column \in Nat
<1>1. PICK s : s = Line(t, l).start
  OBVIOUS
<1>2. l \in Nat /\ l < LineCount(t) /\ s <= c
  BY <1>1 DEF InLine
<1>3. s \in Starts(t) /\ s \in Nat /\ RankIn(Starts(t), s) = l
  BY <1>1, <1>2, LineIs DEF IsLine
<1>4. \A i \in s .. c - 1 : At(t, i) # Newline
  BY <1>1, InLineIs
<1>5. p.column \in Nat /\ c - p.column = s /\ p.column <= c
  BY <1>1, <1>2, <1>3
<1> QED
  BY <1>2, <1>3, <1>4, <1>5 DEF PosIs

(* A text that is the same up to the offset has the same positions up to there.   *)
LEMMA PosKept ==
  ASSUME NEW t \in Seq(Ch), NEW u \in Seq(Ch), NEW c \in Nat, c <= Len(t), c <= Len(u),
         \A i \in 1 .. c : u[i] = t[i],
         NEW p \in [line : Nat, column : Nat], PosIs(t, c, p)
  PROVE  PosIs(u, c, p)
<1>1. Len(t) \in Nat /\ Len(u) \in Nat
  BY LenProperties
<1>2. ASSUME NEW i \in 0 .. c - 1 PROVE At(u, i) = At(t, i)
  <2>1. i \in 0 .. Len(t) - 1 /\ i \in 0 .. Len(u) - 1 /\ i + 1 \in 1 .. c
    BY <1>1
  <2> QED
    BY <2>1 DEF At
<1>3. ASSUME NEW r \in 0 .. c PROVE r \in Starts(u) <=> r \in Starts(t)
  <2>1. CASE r = 0
    BY <2>1, StartsType
  <2>2. CASE r # 0
    <3>1. r - 1 \in 0 .. c - 1 /\ r \in 1 .. Len(t) /\ r \in 1 .. Len(u)
      BY <1>1, <2>2
    <3>2. At(u, r - 1) = At(t, r - 1)
      BY <1>2, <3>1
    <3>3. r \in Starts(t) <=> At(t, r - 1) = Newline
      BY <2>2, <3>1 DEF Starts
    <3>4. r \in Starts(u) <=> At(u, r - 1) = Newline
      BY <2>2, <3>1 DEF Starts
    <3> QED
      BY <3>2, <3>3, <3>4
  <2> QED
    BY <2>1, <2>2
<1>4. PICK s : s = c - p.column
  OBVIOUS
<1>5. /\ s \in 0 .. c /\ s \in Starts(t) /\ p.line = RankIn(Starts(t), s)
      /\ \A i \in s .. c - 1 : At(t, i) # Newline
  BY <1>4 DEF PosIs
<1>6. {r \in Starts(u) : r < s} = {r \in Starts(t) : r < s}
  <2>1. \A r \in Starts(u) : r < s => r \in 0 .. c
    BY <1>5, StartsType
  <2>2. \A r \in Starts(t) : r < s => r \in 0 .. c
    BY <1>5, StartsType
  <2>3. \A r : (r \in Starts(u) /\ r < s) <=> (r \in Starts(t) /\ r < s)
    BY <1>3, <2>1, <2>2, Zenon
  <2> QED
    BY <2>3, Zenon
<1>7. s \in Starts(u) /\ p.line = RankIn(Starts(u), s)
  BY <1>3, <1>5, <1>6 DEF RankIn
<1>8. \A i \in s .. c - 1 : At(u, i) # Newline
  <2>1. \A i \in s .. c - 1 : i \in 0 .. c - 1
    BY <1>5
  <2> QED
    BY <1>2, <1>5, <2>1
<1>9. p.column <= c
  BY DEF PosIs
<1> QED
  BY <1>4, <1>7, <1>8, <1>9 DEF PosIs

(* The line of a position is the number of newlines before it.                    *)
LEMMA PosCounts ==
  ASSUME NEW t \in Seq(Ch), NEW c \in Nat, c <= Len(t),
         NEW p \in [line : Nat, column : Nat], PosIs(t, c, p)
  PROVE  p.line = Cardinality({i \in 0 .. c - 1 : At(t, i) = Newline})
<1>1. PICK s : s = c - p.column
  OBVIOUS
<1> DEFINE S == Starts(t)
           before == {r \in S : r < s}
           newlines == {i \in 0 .. c - 1 : At(t, i) = Newline}
           behind == {r \in S : 0 < r /\ r <= s}
<1>2. /\ s \in 0 .. c /\ s \in S /\ p.line = Cardinality(before)
      /\ \A i \in s .. c - 1 : At(t, i) # Newline
  BY <1>1 DEF PosIs, RankIn
<1>3. S \in SUBSET (0 .. Len(t)) /\ Len(t) \in Nat /\ 0 \in S /\ IsFiniteSet(S)
  BY StartsType
<1>4. \A r \in Nat \ {0} : r \in S <=> r <= Len(t) /\ At(t, r - 1) = Newline
  <2> SUFFICES ASSUME NEW r \in Nat \ {0}
               PROVE  r \in S <=> r <= Len(t) /\ At(t, r - 1) = Newline
    OBVIOUS
  <2>1. r \in 1 .. Len(t) <=> r <= Len(t)
    BY <1>3
  <2> QED
    BY <2>1 DEF Starts
<1>5. IsFiniteSet(before) /\ IsFiniteSet(behind)
  <2>1. before \in SUBSET S /\ behind \in SUBSET S
    OBVIOUS
  <2> QED
    BY <1>3, <2>1, FS_Subset
<1>6. Cardinality(before) = Cardinality(behind)
  <2>1. CASE s = 0
    <3>1. before = {}
      <4>1. \A r \in S : ~ (r < s)
        BY <1>3, <2>1
      <4> QED
        BY <4>1
    <3>2. behind = {}
      <4>1. \A r \in S : ~ (0 < r /\ r <= s)
        BY <1>3, <2>1
      <4> QED
        BY <4>1
    <3> QED
      BY <3>1, <3>2
  <2>2. CASE s # 0
    <3>1. before \cup {s} = behind \cup {0}
      <4>1. \A r \in S : (r < s \/ r = s) <=> (0 < r /\ r <= s) \/ r = 0
        BY <1>2, <1>3, <2>2
      <4>2. before \cup {s} = {r \in S : r < s \/ r = s}
        BY <1>2
      <4>3. behind \cup {0} = {r \in S : (0 < r /\ r <= s) \/ r = 0}
        BY <1>3
      <4> QED
        BY <4>1, <4>2, <4>3, Zenon
    <3>2. s \notin before /\ 0 \notin behind
      BY <1>2
    <3> HIDE DEF before, behind
    <3>3. /\ Cardinality(before \cup {s}) = Cardinality(before) + 1
          /\ Cardinality(behind \cup {0}) = Cardinality(behind) + 1
      BY <1>5, <3>2, FS_AddElement
    <3>4. Cardinality(before) \in Nat /\ Cardinality(behind) \in Nat
      BY <1>5, FS_CardinalityType
    <3>5. Cardinality(before \cup {s}) = Cardinality(behind \cup {0})
      BY <3>1, Zenon
    <3>6. Cardinality(before) + 1 = Cardinality(behind) + 1
      BY <3>3, <3>5, Zenon
    <3> QED
      BY <3>4, <3>6
  <2> QED
    BY <2>1, <2>2
<1>7. Cardinality(newlines) = Cardinality(behind)
  <2> DEFINE f == [i \in newlines |-> i + 1]
  <2>1. ASSUME NEW i \in newlines PROVE i + 1 \in behind
    <3>1. i \in Nat /\ i < c /\ At(t, i) = Newline
      BY <1>2
    <3>2. i < s
      BY <1>2, <3>1
    <3>3. i + 1 \in S
      <4>1. i + 1 \in Nat \ {0} /\ i + 1 <= Len(t) /\ (i + 1) - 1 = i
        BY <1>3, <3>1
      <4> HIDE DEF S
      <4> QED
        BY <1>4, <3>1, <4>1
    <3> QED
      BY <1>2, <3>1, <3>2, <3>3
  <2>2. ASSUME NEW r \in behind PROVE \E i \in newlines : r = i + 1
    <3>1. r \in S /\ r \in Nat \ {0} /\ r <= s
      BY <1>3
    <3>2. At(t, r - 1) = Newline
      <4> HIDE DEF S
      <4> QED
        BY <1>4, <3>1
    <3>3. r - 1 \in 0 .. c - 1 /\ r = (r - 1) + 1
      BY <1>2, <3>1
    <3> QED
      BY <3>2, <3>3
  <2>3. \A i, j \in newlines : i + 1 = j + 1 => i = j
    OBVIOUS
  <2> HIDE DEF newlines, behind
  <2>4. f \in [newlines -> behind]
    BY <2>1
  <2>5. \A i, j \in newlines : f[i] = f[j] => i = j
    BY <2>3
  <2>6. \A r \in behind : \E i \in newlines : f[i] = r
    BY <2>2
  <2> HIDE DEF f
  <2>7. f \in Injection(newlines, behind)
    BY <2>4, <2>5 DEF Injection, IsInjective
  <2>8. f \in Surjection(newlines, behind)
    BY <2>4, <2>6 DEF Surjection
  <2>9. ExistsBijection(newlines, behind)
    BY <2>7, <2>8 DEF Bijection, ExistsBijection
  <2>10. IsFiniteSet(newlines)
    <3>1. IsFiniteSet(0 .. c - 1)
      BY FS_Interval
    <3> QED
      BY <3>1, FS_Subset DEF newlines
  <2> QED
    BY <2>9, <2>10, FS_Bijection
<1> QED
  BY <1>2, <1>6, <1>7

(* A line that is not the last ends before the text does.                        *)
LEMMA NotLast ==
  ASSUME NEW t \in Seq(Ch), NEW l \in Nat, l + 1 < LineCount(t)
  PROVE  Line(t, l).start + Line(t, l).length < Len(t)
<1>1. PICK s : s = Line(t, l).start
  OBVIOUS
<1>2. PICK n : n = Line(t, l).length
  OBVIOUS
<1>3. l < LineCount(t) /\ Len(t) \in Nat
  BY StartsType
<1>4. /\ s \in Nat /\ n \in Nat /\ s + n <= Len(t) /\ RankIn(Starts(t), s) = l
      /\ \A i \in s .. s + n - 1 : At(t, i) # Newline
  BY <1>1, <1>2, <1>3, LineIs DEF IsLine
<1>5. PICK r : r = Line(t, l + 1).start
  OBVIOUS
<1>6. r \in Starts(t) /\ RankIn(Starts(t), r) = l + 1 /\ r \in 0 .. Len(t)
  <2>1. l + 1 \in Nat
    OBVIOUS
  <2>2. r \in Starts(t) /\ RankIn(Starts(t), r) = l + 1
    BY <1>5, <2>1, LineIs DEF IsLine
  <2> QED
    BY <2>2, StartsType
<1>7. s < r
  <2>1. r < Line(t, l).start => RankIn(Starts(t), r) < l
    BY <1>3, <1>6, LinesOrdered
  <2>2. s # r
    BY <1>4, <1>6
  <2> QED
    BY <1>1, <1>4, <1>6, <2>1, <2>2
<1>8. At(t, r - 1) = Newline
  <2>1. r # 0
    BY <1>4, <1>7
  <2> QED
    BY <1>6, <2>1 DEF Starts
<1>9. ~ (r - 1 \in s .. s + n - 1)
  BY <1>4, <1>8
<1> QED
  BY <1>1, <1>2, <1>3, <1>4, <1>6, <1>7, <1>9

-----------------------------------------------------------------------------
(* The inductive invariant.                                                   *)

(* What the variables may be; of a frame that is drawn the new cursor is the one   *)
(* that is shown, and the index that of the text.                               *)
Types ==
  /\ text \in Seq(Ch) /\ indexed \in Seq(Ch)
  /\ cursor \in Nat /\ pos \in [line : Nat, column : Nat]
  /\ newCursor \in Nat \cup {-1} /\ selection \in Nat \cup {-1}
  /\ cursorCol \in Nat \cup {-1} /\ goal \in Nat \cup {-1}
  /\ frame \in {"drawn", "pending", "command", "chars", "mouse"}
  /\ frame = "drawn" => newCursor = cursor /\ indexed = text

(* After a cut and until the next command the text is what it was but for the    *)
(* piece on the clipboard, and the cursor is where that piece was.               *)
CutHolds ==
  cut # NoCut =>
    /\ selection = -1 /\ newCursor # -1 /\ cut.before \in Seq(Ch)
    /\ \E to \in Nat :
         /\ newCursor <= to
         /\ text = Delete(cut.before, newCursor, to)
         /\ cut.clip = Piece(cut.before, newCursor, Clamped(cut.before, to))

(* Without a misstep that leads astray the new cursor and the selection are in    *)
(* the text, and where the new cursor is the drawn one, the position is its own.  *)
(* A first command that was taken from the list leaves the position of the cursor *)
(* that is drawn to the second one, unless it edited or wants another line.       *)
InText ==
  missteps \subseteq {"column"} =>
    /\ newCursor <= Len(text) /\ selection <= Len(text)
    /\ newCursor = cursor => PosIs(text, cursor, pos)
    /\ newCursor = -1 => pos.line < LineCount(text)
    /\ frame = "pending" /\ newCursor # -1 /\ text = indexed /\ cursor <= Len(text) =>
         PosIs(text, cursor, pos)

(* A run of vertical moves remembers the column it started from; a column that    *)
(* is remembered is the one that is drawn, as far as the line reaches.            *)
ColumnHeld ==
  missteps = {} =>
    /\ goal # -1 => cursorCol = goal
    /\ cursorCol # -1 /\ newCursor # -1 =>
         /\ newCursor = cursor
         /\ pos.column = Column(Line(text, pos.line))
         /\ goal = -1 => pos.column = cursorCol
    /\ cursorCol # -1 /\ newCursor = -1 /\ goal = -1 =>
         frame = "command" /\ cursorCol <= Line(text, pos.line).length

IInv == Types /\ CutHolds /\ InText /\ ColumnHeld

-----------------------------------------------------------------------------
(* Steps of one shape.                                                        *)

(* What the order of inputs in a frame comes to.                               *)
Taken ==
  /\ frame \in {"drawn", "pending", "chars"}
  /\ frame' \in {"pending", "command", "chars", "mouse"}
  /\ frame' = "pending" => frame = "drawn"
  /\ indexed' = indexed

(* Every input is taken in that order.                                         *)
LEMMA InputIsTaken ==
  ASSUME NEW input \in {"pending", "command", "chars", "mouse"}, InputTaken(input)
  PROVE  Taken /\ frame' = input
<1>1. frame \in MayFollow[input] /\ frame' = input /\ indexed' = indexed
  BY DEF InputTaken
<1>2. /\ MayFollow["pending"] = {"drawn"} /\ MayFollow["command"] = {"drawn", "pending"}
      /\ MayFollow["chars"] = {"drawn", "pending", "chars"}
      /\ MayFollow["mouse"] = {"drawn", "pending", "chars"}
  BY DEF MayFollow
<1> QED
  BY <1>1, <1>2 DEF Taken

(* A command runs in a frame in that order, and forgets the cut before it.       *)
LEMMA RunsIs ==
  ASSUME Runs \/ RunsByKey
  PROVE  Taken /\ frame' \in {"pending", "command"} /\ cut' = NoCut /\ frame' # "chars"
BY InputIsTaken DEF Runs, RunsByKey, Commanded, Takes

(* The mouse too.                                                              *)
LEMMA MouseIs ==
  ASSUME Takes("mouse")
  PROVE  Taken /\ frame' = "mouse" /\ cut' = NoCut
BY InputIsTaken DEF Takes

(* Missteps are never forgotten, and those that lead astray are noted.           *)
LEMMA MisstepsAre ==
  ASSUME NEW S, Missteps(S)
  PROVE  /\ missteps \subseteq missteps' /\ S \subseteq missteps'
         /\ missteps' \subseteq {"column"} =>
              ~ ReadsLastFrame /\ (newCursor = -1 => newCursor' # cursor')
<1>1. missteps' = missteps \cup S
        \cup (IF ReadsLastFrame THEN {"stale"} ELSE {})
        \cup (IF newCursor = -1 /\ newCursor' = cursor' THEN {"place"} ELSE {})
  BY DEF Missteps
<1>2. missteps \subseteq missteps' /\ S \subseteq missteps'
  BY <1>1
<1>3. ReadsLastFrame => "stale" \in missteps'
  BY <1>1
<1>4. newCursor = -1 /\ newCursor' = cursor' => "place" \in missteps'
  BY <1>1
<1> QED
  BY <1>2, <1>3, <1>4

(* An input that reads what the last frame left, and is no misstep: the text has   *)
(* its index, and the cursor that is drawn and its line are in it.                *)
LEMMA ReadyIs ==
  ASSUME IInv, Taken, frame' # "chars", NEW S, Missteps(S), missteps' \subseteq {"column"}
  PROVE  /\ text = indexed /\ cursor <= Len(text) /\ selection <= Len(text)
         /\ newCursor <= Len(text) /\ pos.line < LineCount(text)
         /\ newCursor # -1 => PosIs(text, cursor, pos)
         /\ newCursor = -1 => newCursor' # cursor'
<1>1. missteps \subseteq {"column"} /\ ~ ReadsLastFrame /\ (newCursor = -1 => newCursor' # cursor')
  BY MisstepsAre
<1>2. /\ text \in Seq(Ch) /\ cursor \in Nat /\ newCursor \in Nat \cup {-1}
      /\ pos \in [line : Nat, column : Nat]
      /\ frame = "drawn" => newCursor = cursor /\ indexed = text
  BY DEF IInv, Types
<1>3. /\ newCursor <= Len(text) /\ selection <= Len(text)
      /\ newCursor = cursor => PosIs(text, cursor, pos)
      /\ newCursor = -1 => pos.line < LineCount(text)
      /\ frame = "pending" /\ newCursor # -1 /\ text = indexed /\ cursor <= Len(text) =>
           PosIs(text, cursor, pos)
  BY <1>1 DEF IInv, InText
<1>4. Len(text) \in Nat
  BY <1>2, LenProperties
<1>5. frame \in {"drawn", "pending"}
  BY <1>1 DEF Taken, ReadsLastFrame
<1>6. text = indexed /\ cursor <= Len(text)
  <2>1. CASE frame = "drawn"
    BY <1>2, <1>3, <2>1
  <2>2. CASE frame = "pending"
    BY <1>1, <1>2, <1>4, <2>2 DEF ReadsLastFrame
  <2> QED
    BY <1>5, <2>1, <2>2
<1>7. newCursor # -1 => PosIs(text, cursor, pos)
  BY <1>2, <1>3, <1>5, <1>6
<1>8. newCursor # -1 => pos.line < LineCount(text)
  BY <1>2, <1>7, PosLine
<1> QED
  BY <1>1, <1>3, <1>6, <1>7, <1>8

(* A command that moves the new cursor, over a text that it may have changed.     *)
LEMMA MoveStep ==
  ASSUME IInv, Taken, cut' = NoCut, text' \in Seq(Ch), NEW to \in Nat \cup {-1}, Moves(to),
         selection' \in Nat \cup {-1}, missteps \subseteq missteps',
         missteps' \subseteq {"column"} =>
           /\ to # -1 /\ to <= Len(text') /\ selection' <= Len(text')
           /\ to = cursor => PosIs(text', cursor, pos)
  PROVE  IInv'
<1>1. /\ newCursor' = to /\ cursorCol' = -1 /\ goal' = -1 /\ cursor' = cursor /\ pos' = pos
  BY DEF Moves
<1>2. Types'
  <2>1. cursor \in Nat /\ pos \in [line : Nat, column : Nat] /\ indexed \in Seq(Ch)
    BY DEF IInv, Types
  <2>2. /\ frame' \in {"drawn", "pending", "command", "chars", "mouse"} /\ frame' # "drawn"
        /\ indexed' = indexed
    BY DEF Taken
  <2> QED
    BY <1>1, <2>1, <2>2 DEF Types
<1>3. CutHolds'
  BY DEF CutHolds
<1>4. InText'
  <2> SUFFICES ASSUME missteps' \subseteq {"column"}, frame' = "pending", text' = indexed'
               PROVE  PosIs(text', cursor, pos)
    BY <1>1 DEF InText
  <2>1. frame = "drawn" /\ indexed' = indexed /\ missteps \subseteq {"column"}
    BY DEF Taken
  <2>2. newCursor = cursor /\ indexed = text
    BY <2>1 DEF IInv, Types
  <2>3. PosIs(text, cursor, pos)
    BY <2>1, <2>2 DEF IInv, InText
  <2> QED
    BY <2>1, <2>2, <2>3
<1>5. ColumnHeld'
  BY <1>1 DEF ColumnHeld
<1> QED
  BY <1>2, <1>3, <1>4, <1>5 DEF IInv

(* A command that leaves the text and the cursor.                               *)
LEMMA StayStep ==
  ASSUME IInv, Taken, cut' = NoCut, Stays, text' = text,
         selection' \in Nat \cup {-1}, missteps \subseteq missteps',
         missteps' \subseteq {"column"} => selection' <= Len(text)
  PROVE  IInv'
<1>1. /\ newCursor' = newCursor /\ cursorCol' = cursorCol /\ goal' = goal /\ cursor' = cursor
      /\ pos' = pos
  BY DEF Stays
<1>2. /\ frame' \in {"drawn", "pending", "command", "chars", "mouse"} /\ frame' # "drawn"
      /\ indexed' = indexed /\ frame # "command" /\ (frame' = "pending" => frame = "drawn")
  BY DEF Taken
<1>3. Types'
  BY <1>1, <1>2 DEF IInv, Types
<1>4. CutHolds'
  BY DEF CutHolds
<1>5. InText'
  <2> SUFFICES ASSUME missteps' \subseteq {"column"}
               PROVE  /\ newCursor <= Len(text) /\ selection' <= Len(text)
                      /\ newCursor = cursor => PosIs(text, cursor, pos)
                      /\ newCursor = -1 => pos.line < LineCount(text)
                      /\ frame' = "pending" => PosIs(text, cursor, pos)
    BY <1>1 DEF InText
  <2>1. missteps \subseteq {"column"}
    OBVIOUS
  <2>2. /\ newCursor <= Len(text)
        /\ newCursor = cursor => PosIs(text, cursor, pos)
        /\ newCursor = -1 => pos.line < LineCount(text)
    BY <2>1 DEF IInv, InText
  <2>3. frame' = "pending" => newCursor = cursor
    BY <1>2 DEF IInv, Types
  <2> QED
    BY <2>2, <2>3
<1>6. ColumnHeld'
  <2> SUFFICES ASSUME missteps' = {}
               PROVE  /\ goal # -1 => cursorCol = goal
                      /\ cursorCol # -1 /\ newCursor # -1 =>
                           /\ newCursor = cursor
                           /\ pos.column = Column(Line(text, pos.line))
                           /\ goal = -1 => pos.column = cursorCol
                      /\ ~ (cursorCol # -1 /\ newCursor = -1 /\ goal = -1)
    BY <1>1 DEF ColumnHeld, Column
  <2>1. missteps = {}
    OBVIOUS
  <2> QED
    BY <1>2, <2>1 DEF IInv, ColumnHeld
<1> QED
  BY <1>3, <1>4, <1>5, <1>6 DEF IInv

(* What the selection is, is known of every state.                              *)
LEMMA SelectionIs ==
  ASSUME IInv
  PROVE  /\ text \in Seq(Ch) /\ Len(text) \in Nat /\ selection \in Nat \cup {-1}
         /\ missteps \subseteq {"column"} => selection <= Len(text)
BY LenProperties DEF IInv, Types, InText

(* A step that ends the editor, in the middle of a command.                       *)
LEMMA EndStep ==
  ASSUME IInv, NEW input \in {"pending", "command", "mouse"}, Takes(input), NEW how, Stops(how)
  PROVE  IInv'
<1>1. Taken /\ cut' = NoCut
  BY InputIsTaken DEF Takes
<1>2. /\ text' = text /\ selection' = selection /\ missteps' = missteps /\ Stays
  BY DEF Stops, view, Stays
<1>3. /\ selection' \in Nat \cup {-1} /\ missteps \subseteq missteps'
      /\ missteps' \subseteq {"column"} => selection' <= Len(text)
  BY <1>2, SelectionIs
<1> QED
  BY <1>1, <1>2, <1>3, StayStep

(* The selection that a moving command leaves.                                   *)
LEMMA SelectionManaged ==
  ASSUME IInv, NEW select, editor_manage_selection(select)
  PROVE  /\ selection' \in Nat \cup {-1}
         /\ cursor <= Len(text) /\ selection <= Len(text) => selection' <= Len(text)
<1>1. selection \in Nat \cup {-1} /\ cursor \in Nat /\ Len(text) \in Nat
  BY SelectionIs DEF IInv, Types
<1>2. selection' \in {-1, cursor, selection}
  BY DEF editor_manage_selection
<1> QED
  BY <1>1, <1>2

(* The two ends of a selection.                                                 *)
LEMMA SelectionEnds ==
  ASSUME selection \in Nat, newCursor \in Nat \cup {-1}
  PROVE  /\ From \in Nat \cup {-1} /\ To \in Nat /\ From <= To
         /\ newCursor # -1 => From \in Nat
         /\ newCursor = -1 => From = -1
         /\ From <= newCursor /\ newCursor <= To /\ selection <= To /\ From <= selection
         /\ To \in {selection, newCursor} /\ From \in {selection, newCursor}
<1>1. From = IF selection <= newCursor THEN selection ELSE newCursor
  BY LeastOfTwo DEF From
<1>2. To = IF selection <= newCursor THEN newCursor ELSE selection
  BY GreatestOfTwo DEF To
<1> QED
  BY <1>1, <1>2

-----------------------------------------------------------------------------
(* Words.                                                                     *)

(* A letter is in the text.                                                    *)
LEMMA AlnumInText ==
  ASSUME text \in Seq(Ch), NEW i \in Nat, At(text, i) \in Alnum
  PROVE  i < Len(text)
<1>1. Nul \notin Alnum
  BY CursorAssumption
<1>2. i \in 0 .. Len(text) - 1
  BY <1>1 DEF At
<1> QED
  BY <1>2, LenProperties

(* Words are left and skipped backwards no further than the start of the text.  *)
LEMMA WordsBack ==
  ASSUME NEW i \in Nat
  PROVE  WordStart(i) \in 0 .. i /\ SkipBack(i) \in 0 .. i
<1>1. ASSUME NEW J \in SUBSET (1 .. i) PROVE Max({0} \cup J) \in 0 .. i
  <2>1. {0} \cup J \in SUBSET (0 .. i) /\ {0} \cup J # {}
    OBVIOUS
  <2>2. Max({0} \cup J) \in {0} \cup J
    BY <2>1, GreatestMember
  <2> QED
    BY <2>1, <2>2
<1>2. {j \in 1 .. i : At(text, j) \notin Alnum} \in SUBSET (1 .. i)
  OBVIOUS
<1>3. {j \in 1 .. i : At(text, j) \in Alnum} \in SUBSET (1 .. i)
  OBVIOUS
<1>4. WordStart(i) \in 0 .. i
  BY <1>1, <1>2 DEF WordStart
<1>5. SkipBack(i) \in 0 .. i
  BY <1>1, <1>3 DEF SkipBack
<1> QED
  BY <1>4, <1>5

(* Backwards over what is no letter, to one or to the start.                     *)
LEMMA SkipsToAlnum ==
  ASSUME NEW i \in Nat
  PROVE  SkipBack(i) = 0 \/ At(text, SkipBack(i)) \in Alnum
<1> DEFINE J == {0} \cup {j \in 1 .. i : At(text, j) \in Alnum}
<1>1. J \in SUBSET (0 .. i) /\ J # {}
  OBVIOUS
<1>2. \A j \in J : j = 0 \/ At(text, j) \in Alnum
  OBVIOUS
<1>3. SkipBack(i) = Max(J)
  BY DEF SkipBack
<1> HIDE DEF J
<1>4. Max(J) \in J
  BY <1>1, GreatestMember
<1> QED
  BY <1>2, <1>3, <1>4

(* Forwards words are left and skipped no further than the given end.             *)
LEMMA WordsOn ==
  ASSUME NEW i \in Nat, NEW S \in Nat, NEW n \in Nat, i <= n, S <= n
  PROVE  SkipOn(i, S) \in 0 .. n /\ WordEnd(i, S) \in 0 .. n
<1>1. PICK m : m = Max({i, S})
  OBVIOUS
<1>2. m \in Nat /\ m <= n
  BY <1>1, GreatestOfTwo
<1>3. ASSUME NEW J \in SUBSET (i .. S) PROVE Min({m} \cup J) \in 0 .. n
  <2>1. {m} \cup J \in SUBSET Nat /\ {m} \cup J # {}
    BY <1>2
  <2>2. Min({m} \cup J) \in {m} \cup J
    BY <2>1, LeastMember
  <2>3. \A j \in J : j \in 0 .. n
    BY <1>2
  <2>4. m \in 0 .. n
    BY <1>2
  <2>5. \A j \in {m} \cup J : j \in 0 .. n
    BY <2>3, <2>4
  <2> QED
    BY <2>2, <2>5
<1>4. {j \in i .. S : At(text, j) \in Alnum} \in SUBSET (i .. S)
  OBVIOUS
<1>5. {j \in i .. S : At(text, j) \notin Alnum} \in SUBSET (i .. S)
  OBVIOUS
<1>6. SkipOn(i, S) \in 0 .. n
  BY <1>1, <1>3, <1>4 DEF SkipOn
<1>7. WordEnd(i, S) \in 0 .. n
  BY <1>1, <1>3, <1>5 DEF WordEnd
<1> QED
  BY <1>6, <1>7

(* The boundaries of a word of a text that is not empty are in it.                *)
LEMMA Boundaries ==
  ASSUME text \in Seq(Ch), NEW i \in Nat
  PROVE  /\ buffer_word_boundary_left(i) \in Nat /\ buffer_word_boundary_right(i) \in Nat
         /\ i <= Len(text) => buffer_word_boundary_right(i) <= Len(text)
         /\ i <= Len(text) /\ text # <<>> => buffer_word_boundary_left(i) <= Len(text)
<1>1. Len(text) \in Nat /\ (text # <<>> => Len(text) # 0)
  BY LenProperties, EmptySeq
<1>2. PICK l : l = buffer_word_boundary_left(i)
  OBVIOUS
<1>3. PICK b \in Nat : /\ l = 1 + b /\ b <= i
                       /\ At(text, i) \in Alnum \/ b = 0 \/ At(text, b) \in Alnum
  <2>1. CASE At(text, i) \in Alnum
    <3>1. WordStart(i) \in Nat /\ WordStart(i) <= i /\ l = 1 + WordStart(i)
      BY <1>2, <2>1, WordsBack DEF buffer_word_boundary_left
    <3> QED
      BY <2>1, <3>1
  <2>2. CASE At(text, i) \notin Alnum
    <3>1. SkipBack(i) \in Nat /\ SkipBack(i) <= i /\ l = 1 + SkipBack(i)
      BY <1>2, <2>2, WordsBack DEF buffer_word_boundary_left
    <3>2. SkipBack(i) = 0 \/ At(text, SkipBack(i)) \in Alnum
      BY SkipsToAlnum
    <3> QED
      BY <3>1, <3>2
  <2> QED
    BY <2>1, <2>2
<1>4. i <= Len(text) /\ text # <<>> => l <= Len(text)
  <2> SUFFICES ASSUME i <= Len(text), text # <<>> PROVE l <= Len(text)
    OBVIOUS
  <2>1. CASE b = 0
    BY <1>1, <1>3, <2>1
  <2>2. CASE At(text, i) \in Alnum
    <3>1. i < Len(text)
      BY <2>2, AlnumInText
    <3> QED
      BY <1>1, <1>3, <3>1
  <2>3. CASE At(text, b) \in Alnum
    <3>1. b < Len(text)
      BY <1>3, <2>3, AlnumInText
    <3> QED
      BY <1>1, <1>3, <3>1
  <2> QED
    BY <1>3, <2>1, <2>2, <2>3
<1>5. PICK r : r = buffer_word_boundary_right(i)
  OBVIOUS
<1>6. r \in {WordEnd(i, Len(text)), SkipOn(i, Len(text))}
  BY <1>5 DEF buffer_word_boundary_right
<1>7. r \in Nat /\ (i <= Len(text) => r <= Len(text))
  <2>1. CASE i <= Len(text)
    <3>1. SkipOn(i, Len(text)) \in 0 .. Len(text) /\ WordEnd(i, Len(text)) \in 0 .. Len(text)
      BY <1>1, <2>1, WordsOn
    <3> QED
      BY <1>6, <3>1
  <2>2. CASE ~ (i <= Len(text))
    <3>1. Len(text) <= i
      BY <1>1, <2>2
    <3>2. SkipOn(i, Len(text)) \in 0 .. i /\ WordEnd(i, Len(text)) \in 0 .. i
      BY <1>1, <3>1, WordsOn
    <3> QED
      BY <1>6, <2>2, <3>2
  <2> QED
    BY <2>1, <2>2
<1> QED
  BY <1>2, <1>3, <1>4, <1>5, <1>7

-----------------------------------------------------------------------------
(* Moves.                                                                     *)

(* A selection that is kept, or managed by a command that moves.                  *)
LEMMA SelectionReady ==
  ASSUME IInv, Taken, frame' # "chars", NEW S, Missteps(S),
         selection' = selection \/ \E select : editor_manage_selection(select)
  PROVE  /\ selection' \in Nat \cup {-1}
         /\ missteps' \subseteq {"column"} => selection' <= Len(text)
<1>1. missteps' \subseteq {"column"} => cursor <= Len(text) /\ selection <= Len(text)
  BY ReadyIs
<1>2. CASE selection' = selection
  BY <1>1, <1>2, SelectionIs
<1>3. ASSUME NEW select, editor_manage_selection(select)
      PROVE  /\ selection' \in Nat \cup {-1}
             /\ missteps' \subseteq {"column"} => selection' <= Len(text)
  BY <1>1, <1>3, SelectionManaged
<1> QED
  BY <1>2, <1>3

(* To another line, in the column that is remembered.                            *)
LEMMA VerticalStep ==
  ASSUME IInv, Taken, cut' = NoCut, Kept, NEW S, Missteps(S), selection' \in Nat \cup {-1},
         missteps' \subseteq {"column"} => selection' <= Len(text),
         NEW line \in Nat, missteps' \subseteq {"column"} => line < LineCount(text),
         Vertically(line)
  PROVE  IInv'
<1>1. /\ text' = text /\ missteps \subseteq missteps'
      /\ frame' \in {"pending", "command", "chars", "mouse"} /\ indexed' = indexed
      /\ frame # "command"
  BY MisstepsAre DEF Kept, Taken
<1>2. /\ newCursor' = -1 /\ cursor' = cursor /\ pos' = [pos EXCEPT !.line = line]
      /\ cursorCol' = IF cursorCol < 0 THEN pos.column ELSE cursorCol
      /\ goal' = IF goal = -1 THEN pos.column ELSE goal
  BY DEF Vertically
<1>3. /\ text \in Seq(Ch) /\ indexed \in Seq(Ch)
      /\ cursor \in Nat /\ pos \in [line : Nat, column : Nat]
      /\ cursorCol \in Nat \cup {-1} /\ goal \in Nat \cup {-1}
  BY DEF IInv, Types
<1>4. /\ pos' \in [line : Nat, column : Nat] /\ pos'.line = line
      /\ cursorCol' \in Nat /\ goal' \in Nat /\ pos.column \in Nat
      /\ cursorCol' # -1 /\ goal' # -1 /\ newCursor' # cursor'
  BY <1>2, <1>3
<1>5. Types'
  BY <1>1, <1>2, <1>3, <1>4 DEF Types
<1>6. CutHolds'
  BY DEF CutHolds
<1>7. InText'
  <2>1. newCursor' <= Len(text) /\ newCursor' = -1
    BY <1>2, <1>3, LenProperties
  <2> QED
    BY <1>1, <1>2, <1>4, <2>1 DEF InText
<1>8. ColumnHeld'
  <2> SUFFICES ASSUME missteps' = {} PROVE cursorCol' = goal'
    BY <1>2, <1>4 DEF ColumnHeld
  <2>1. missteps = {}
    BY <1>1
  <2>2. CASE goal # -1
    BY <1>2, <1>3, <2>1, <2>2 DEF IInv, ColumnHeld
  <2>3. CASE goal = -1 /\ cursorCol = -1
    BY <1>2, <2>3
  <2>4. CASE goal = -1 /\ cursorCol # -1
    <3>1. pos.column = cursorCol
      BY <1>1, <2>1, <2>4 DEF IInv, ColumnHeld
    <3> QED
      BY <1>2, <1>3, <2>4, <3>1
  <2> QED
    BY <2>2, <2>3, <2>4
<1> QED
  BY <1>5, <1>6, <1>7, <1>8 DEF IInv

(* Any number of lines up or down.                                              *)
LEMMA LinesStep ==
  ASSUME IInv, Taken, frame' # "chars", cut' = NoCut, Kept, NEW S, Missteps(S),
         selection' = selection \/ \E select : editor_manage_selection(select),
         NEW n \in Nat, editor_lines_up(n) \/ editor_lines_down(n)
  PROVE  IInv'
<1>1. text' = text /\ missteps \subseteq missteps'
  BY MisstepsAre DEF Kept
<1>2. /\ pos.line \in Nat /\ LineCount(indexed) \in Nat /\ LineCount(indexed) > 0
      /\ LineCount(text) \in Nat
  BY StartsType DEF IInv, Types
<1>3. missteps' \subseteq {"column"} =>
        pos.line < LineCount(text) /\ LineCount(indexed) = LineCount(text)
  BY ReadyIs
<1>4. /\ selection' \in Nat \cup {-1}
      /\ missteps' \subseteq {"column"} => selection' <= Len(text)
  BY SelectionReady
<1>5. CASE Stays
  BY <1>1, <1>4, <1>5, StayStep
<1>6. ASSUME Vertically(Max({0, pos.line - n})) PROVE IInv'
  <2>1. PICK line : line = Max({0, pos.line - n})
    OBVIOUS
  <2>2. line \in Nat /\ line <= pos.line
    BY <1>2, <2>1, GreatestOfTwo
  <2>3. missteps' \subseteq {"column"} => line < LineCount(text)
    BY <1>2, <1>3, <2>2
  <2> QED
    BY <1>4, <1>6, <2>1, <2>2, <2>3, VerticalStep
<1>7. ASSUME pos.line < LineCount(indexed) - 1,
             Vertically(Min({pos.line + n, LineCount(indexed) - 1}))
      PROVE  IInv'
  <2>1. PICK line : line = Min({pos.line + n, LineCount(indexed) - 1})
    OBVIOUS
  <2>2. line \in Nat /\ line < LineCount(indexed)
    BY <1>2, <2>1, LeastOfTwo
  <2>3. missteps' \subseteq {"column"} => line < LineCount(text)
    BY <1>3, <2>2
  <2> QED
    BY <1>4, <1>7, <2>1, <2>2, <2>3, VerticalStep
<1> QED
  BY <1>2, <1>5, <1>6, <1>7 DEF editor_lines_up, editor_lines_down

(* One line up or down, by editor_cmd_up and editor_cmd_down.                   *)
LEMMA UpDownStep ==
  ASSUME IInv, NEW select, editor_cmd_up(select) \/ editor_cmd_down(select)
  PROVE  IInv'
<1>1. /\ RunsByKey /\ Kept /\ editor_manage_selection(select) /\ Missteps({})
      /\ editor_lines_up(1) \/ editor_lines_down(1)
  BY DEF editor_cmd_up, editor_cmd_down
<1>2. Taken /\ cut' = NoCut /\ frame' # "chars" /\ 1 \in Nat
  BY <1>1, RunsIs
<1> QED
  BY <1>1, <1>2, LinesStep

(* A page up or down.                                                           *)
LEMMA ScrollStep ==
  ASSUME IInv, Scroll
  PROVE  IInv'
<1>1. /\ Runs /\ Kept /\ selection' = selection /\ Missteps({})
      /\ editor_lines_up(PageLines) \/ editor_lines_down(PageLines)
  BY DEF Scroll
<1>2. Taken /\ cut' = NoCut /\ frame' # "chars" /\ PageLines \in Nat
  BY <1>1, RunsIs, CursorAssumption
<1> QED
  BY <1>1, <1>2, LinesStep

(* The wheel, as far as it was turned.                                          *)
LEMMA WheelStep ==
  ASSUME IInv, Wheel
  PROVE  IInv'
<1>1. PICK n \in 0 .. PageLines : editor_lines_up(n) \/ editor_lines_down(n)
  BY DEF Wheel
<1>2. /\ Takes("mouse") /\ Kept /\ selection' = selection /\ Missteps({})
  BY DEF Wheel
<1>3. Taken /\ cut' = NoCut /\ frame' # "chars" /\ n \in Nat
  BY <1>2, MouseIs, CursorAssumption
<1> QED
  BY <1>1, <1>2, <1>3, LinesStep

(* To a line and a column.                                                      *)
LEMMA GotoStep ==
  ASSUME IInv, NEW line \in Nat, NEW column \in Nat, editor_goto(line, column)
  PROVE  IInv'
<1>1. PICK l : l = Min({line, LineCount(indexed) - 1})
  OBVIOUS
<1>2. PICK n : n = Line(indexed, l).length
  OBVIOUS
<1>3. /\ RunsByKey /\ text' = text /\ Missteps({}) /\ cursor' = cursor
      /\ selection' = selection /\ newCursor' = -1 /\ goal' = -1
      /\ pos' = [pos EXCEPT !.line = l]
      /\ cursorCol' = Min({column, Max({0, n - 1})})
  BY <1>1, <1>2 DEF editor_goto, Kept
<1>4. /\ Taken /\ frame' = "command" /\ cut' = NoCut /\ indexed' = indexed
      /\ missteps \subseteq missteps'
  BY <1>3, InputIsTaken, MisstepsAre DEF RunsByKey, Takes, Taken
<1>5. /\ text \in Seq(Ch) /\ indexed \in Seq(Ch) /\ cursor \in Nat
      /\ pos \in [line : Nat, column : Nat]
      /\ selection \in Nat \cup {-1}
  BY DEF IInv, Types
<1>6. l \in Nat /\ l < LineCount(indexed) /\ LineCount(indexed) \in Nat
  <2>1. LineCount(indexed) \in Nat /\ LineCount(indexed) > 0
    BY <1>5, StartsType
  <2> QED
    BY <1>1, <2>1, LeastOfTwo
<1>7. n \in Nat
  BY <1>2, <1>5, <1>6, LineIs DEF IsLine
<1>8. cursorCol' \in Nat /\ cursorCol' <= n /\ cursorCol' # -1
  <2>1. PICK m : m = Max({0, n - 1})
    OBVIOUS
  <2>2. m \in Nat /\ m <= n
    BY <1>7, <2>1, GreatestOfTwo
  <2> QED
    BY <1>3, <1>7, <2>1, <2>2, LeastOfTwo
<1>9. pos' \in [line : Nat, column : Nat] /\ pos'.line = l /\ newCursor' # cursor'
  BY <1>3, <1>5, <1>6
<1>10. Types'
  BY <1>3, <1>4, <1>5, <1>8, <1>9 DEF Types
<1>11. CutHolds'
  BY <1>4 DEF CutHolds
<1>12. missteps' \subseteq {"column"} => text = indexed /\ selection <= Len(text)
  <2>1. frame' # "chars"
    BY <1>4
  <2> QED
    BY <1>3, <1>4, <2>1, ReadyIs
<1>13. InText'
  <2>1. newCursor' <= Len(text) /\ newCursor' = -1
    BY <1>3, <1>5, LenProperties
  <2> QED
    BY <1>3, <1>6, <1>9, <1>12, <2>1 DEF InText
<1>14. ColumnHeld'
  <2> SUFFICES ASSUME missteps' = {} PROVE cursorCol' <= Line(text, l).length
    BY <1>3, <1>4, <1>9 DEF ColumnHeld
  <2>1. text = indexed
    BY <1>12
  <2> QED
    BY <1>2, <1>8, <2>1
<1> QED
  BY <1>10, <1>11, <1>13, <1>14 DEF IInv

(* A move over the text as it is, with the selection that goes with it.           *)
LEMMA MovesStep ==
  ASSUME IInv, Taken, frame' # "chars", cut' = NoCut, text' = text,
         NEW to \in Nat \cup {-1}, Moves(to), NEW S, Missteps(S),
         selection' \in Nat \cup {-1},
         missteps' \subseteq {"column"} => to # -1 /\ to <= Len(text) /\ selection' <= Len(text)
  PROVE  IInv'
<1>1. text' \in Seq(Ch)
  BY DEF IInv, Types
<1>2. newCursor' = to /\ cursor' = cursor
  BY DEF Moves
<1>3. missteps' \subseteq {"column"} /\ to = cursor => PosIs(text', cursor, pos)
  BY <1>2, ReadyIs
<1>4. missteps \subseteq missteps'
  BY MisstepsAre
<1>5. missteps' \subseteq {"column"} =>
        /\ to # -1 /\ to <= Len(text') /\ selection' <= Len(text')
        /\ to = cursor => PosIs(text', cursor, pos)
  BY <1>3
<1> QED
  BY <1>1, <1>4, <1>5, MoveStep

(* A move by a command of a key, with the shift key or without.                   *)
LEMMA KeyMovesStep ==
  ASSUME IInv, RunsByKey, Kept, NEW select, editor_manage_selection(select),
         NEW to \in Nat \cup {-1}, Moves(to), NEW S, Missteps(S),
         missteps' \subseteq {"column"} => to # -1 /\ to <= Len(text)
  PROVE  IInv'
<1>1. Taken /\ cut' = NoCut /\ frame' # "chars" /\ text' = text
  BY RunsIs DEF Kept
<1>2. /\ selection' \in Nat \cup {-1}
      /\ missteps' \subseteq {"column"} => selection' <= Len(text)
  BY <1>1, SelectionReady
<1> QED
  BY <1>1, <1>2, MovesStep

(* A line that is wanted is no place in the text, and moving from it astray.      *)
LEMMA NoneIs ==
  ASSUME NEW i, NEW S, IfNone(i) \subseteq S, Missteps(S), missteps' \subseteq {"column"}
  PROVE  i # -1
<1>1. S \subseteq missteps'
  BY MisstepsAre
<1>2. i = -1 => "stale" \in S
  BY DEF IfNone
<1> QED
  BY <1>1, <1>2

(* A character to the left, by editor_cmd_left.                                 *)
LEMMA LeftStep ==
  ASSUME IInv, NEW select, editor_cmd_left(select)
  PROVE  IInv'
<1>1. PICK to : to = IF newCursor = -1 THEN BehindAll ELSE Max({0, newCursor - 1})
  OBVIOUS
<1>2. /\ RunsByKey /\ Kept /\ editor_manage_selection(select) /\ Moves(to)
      /\ Missteps(IfNone(newCursor))
  BY <1>1 DEF editor_cmd_left
<1>3. newCursor \in Nat \cup {-1} /\ BehindAll \in Nat
  BY CursorAssumption DEF IInv, Types, BehindAll
<1>4. to \in Nat /\ (newCursor # -1 => to <= newCursor)
  BY <1>1, <1>3, GreatestOfTwo
<1>5. missteps' \subseteq {"column"} => to # -1 /\ to <= Len(text)
  <2> SUFFICES ASSUME missteps' \subseteq {"column"} PROVE to <= Len(text)
    BY <1>4
  <2>1. newCursor # -1
    BY <1>2, NoneIs
  <2>2. newCursor <= Len(text) /\ Len(text) \in Nat
    BY <1>2, MisstepsAre, SelectionIs DEF IInv, InText
  <2> QED
    BY <1>3, <1>4, <2>1, <2>2
<1> QED
  BY <1>2, <1>4, <1>5, KeyMovesStep

(* Where the way left ends, behind the text too, and in the text in it.           *)
LEMMA LeftFromIs ==
  ASSUME NEW i \in Nat, NEW end \in Nat, NEW n \in LeftFrom(i, end)
  PROVE  n \in Nat /\ (i <= Len(text) => n = end)
BY DEF LeftFrom

(* A word to the left, by editor_cmd_word_left.                                 *)
LEMMA WordLeftStep ==
  ASSUME IInv, NEW select, editor_cmd_word_left(select)
  PROVE  IInv'
<1>1. /\ RunsByKey /\ Kept /\ editor_manage_selection(select)
      /\ IF newCursor > 0
         THEN \E n \in LeftFrom(newCursor, WordStart(SkipBack(newCursor)) + 1) : Moves(n)
         ELSE Moves(0)
      /\ Missteps(IfNone(newCursor))
  BY DEF editor_cmd_word_left
<1>2. /\ newCursor \in Nat \cup {-1} /\ Len(text) \in Nat /\ text \in Seq(Ch)
      /\ missteps' \subseteq {"column"} => newCursor <= Len(text)
  BY <1>1, MisstepsAre, SelectionIs DEF IInv, Types, InText
<1>3. CASE newCursor > 0
  <2>1. PICK b : b = SkipBack(newCursor)
    OBVIOUS
  <2>2. PICK w : w = WordStart(b)
    OBVIOUS
  <2>3. newCursor \in Nat /\ b \in Nat /\ b <= newCursor /\ (b = 0 \/ At(text, b) \in Alnum)
    BY <1>2, <1>3, <2>1, SkipsToAlnum, WordsBack
  <2>4. w \in Nat /\ w <= b /\ w + 1 \in Nat
    BY <2>2, <2>3, WordsBack
  <2>5. PICK to \in LeftFrom(newCursor, w + 1) : Moves(to)
    BY <1>1, <1>3, <2>1, <2>2
  <2>6. to \in Nat /\ (newCursor <= Len(text) => to = w + 1)
    BY <2>3, <2>4, <2>5, LeftFromIs
  <2>7. newCursor <= Len(text) => w + 1 <= Len(text)
    <3>1. CASE b = 0
      BY <1>2, <1>3, <2>3, <2>4, <3>1
    <3>2. CASE At(text, b) \in Alnum
      <4>1. b < Len(text)
        BY <1>2, <2>3, <3>2, AlnumInText
      <4> QED
        BY <1>2, <2>3, <2>4, <4>1
    <3> QED
      BY <2>3, <3>1, <3>2
  <2>8. missteps' \subseteq {"column"} => to # -1 /\ to <= Len(text)
    BY <1>2, <2>6, <2>7
  <2> QED
    BY <1>1, <2>5, <2>6, <2>8, KeyMovesStep
<1>4. CASE ~ (newCursor > 0)
  <2>1. 0 \in Nat /\ 0 <= Len(text) /\ 0 # -1 /\ Moves(0)
    BY <1>1, <1>2, <1>4
  <2> QED
    BY <1>1, <2>1, KeyMovesStep
<1> QED
  BY <1>3, <1>4

(* A character to the right, by editor_cmd_right.                               *)
LEMMA RightStep ==
  ASSUME IInv, NEW select, editor_cmd_right(select)
  PROVE  IInv'
<1>1. PICK to : to = IF newCursor # -1 /\ (newCursor < Len(text) - 1 \/ text = <<>>)
                     THEN newCursor + 1 ELSE newCursor
  OBVIOUS
<1>2. PICK S : S = IfNone(newCursor) \cup InEmptyText
  OBVIOUS
<1>3. /\ RunsByKey /\ Kept /\ editor_manage_selection(select) /\ Moves(to) /\ Missteps(S)
  BY <1>1, <1>2 DEF editor_cmd_right
<1>4. /\ newCursor \in Nat \cup {-1} /\ Len(text) \in Nat
      /\ missteps' \subseteq {"column"} => newCursor <= Len(text)
  BY <1>3, MisstepsAre, SelectionIs DEF IInv, Types, InText
<1>5. to \in Nat \cup {-1}
  BY <1>1, <1>4
<1>6. missteps' \subseteq {"column"} => to # -1 /\ to <= Len(text)
  <2> SUFFICES ASSUME missteps' \subseteq {"column"} PROVE to # -1 /\ to <= Len(text)
    OBVIOUS
  <2>1. newCursor # -1
    <3>1. IfNone(newCursor) \subseteq S
      BY <1>2
    <3> QED
      BY <1>3, <3>1, NoneIs
  <2>2. text # <<>>
    <3>1. S \subseteq missteps'
      BY <1>3, MisstepsAre
    <3> QED
      BY <1>2, <3>1 DEF InEmptyText
  <2> QED
    BY <1>1, <1>4, <2>1, <2>2
<1> QED
  BY <1>3, <1>5, <1>6, KeyMovesStep

(* A word to the right, by editor_cmd_word_right.                               *)
LEMMA WordRightStep ==
  ASSUME IInv, NEW select, editor_cmd_word_right(select)
  PROVE  IInv'
<1>1. PICK S : S = IfNone(newCursor) \cup InEmptyText
  OBVIOUS
<1>2. /\ RunsByKey /\ Kept /\ editor_manage_selection(select) /\ Missteps(S)
      /\ IF text = <<>> /\ newCursor # -1
         THEN \E n \in newCursor .. MaxText + 1 : Moves(n)
         ELSE Moves(IF newCursor = -1 THEN -1
                    ELSE WordEnd(SkipOn(newCursor, Len(text) - 1), Len(text) - 1))
  BY <1>1 DEF editor_cmd_word_right
<1>3. /\ newCursor \in Nat \cup {-1} /\ Len(text) \in Nat /\ text \in Seq(Ch)
      /\ missteps' \subseteq {"column"} => newCursor <= Len(text)
  BY <1>2, MisstepsAre, SelectionIs DEF IInv, Types, InText
<1>4. missteps' \subseteq {"column"} => newCursor # -1 /\ text # <<>>
  <2> SUFFICES ASSUME missteps' \subseteq {"column"} PROVE newCursor # -1 /\ text # <<>>
    OBVIOUS
  <2>1. newCursor # -1
    <3>1. IfNone(newCursor) \subseteq S
      BY <1>1
    <3> QED
      BY <1>2, <3>1, NoneIs
  <2>2. text # <<>>
    <3>1. S \subseteq missteps'
      BY <1>2, MisstepsAre
    <3> QED
      BY <1>1, <3>1 DEF InEmptyText
  <2> QED
    BY <2>1, <2>2
<1>5. CASE newCursor = -1
  <2>1. PICK to : to = -1
    OBVIOUS
  <2>2. Moves(to) /\ to \in Nat \cup {-1}
    BY <1>2, <1>5, <2>1
  <2> QED
    BY <1>2, <1>4, <1>5, <2>2, KeyMovesStep
<1>6. CASE newCursor # -1 /\ text = <<>>
  <2>1. PICK to \in newCursor .. MaxText + 1 : Moves(to)
    BY <1>2, <1>6
  <2>2. to \in Nat
    BY <1>3, <1>6, CursorAssumption
  <2> QED
    BY <1>2, <1>4, <1>6, <2>1, <2>2, KeyMovesStep
<1>7. CASE newCursor # -1 /\ text # <<>>
  <2>1. PICK w : w = SkipOn(newCursor, Len(text) - 1)
    OBVIOUS
  <2>2. PICK to : to = WordEnd(w, Len(text) - 1)
    OBVIOUS
  <2>3. Moves(to)
    BY <1>2, <1>7, <2>1, <2>2
  <2>4. Len(text) - 1 \in Nat /\ newCursor \in Nat
    BY <1>3, <1>7, EmptySeq
  <2>5. ASSUME NEW n \in Nat, newCursor <= n, Len(text) - 1 <= n PROVE to \in 0 .. n
    <3>1. w \in 0 .. n
      BY <2>1, <2>4, <2>5, WordsOn
    <3>2. w \in Nat /\ w <= n
      BY <2>5, <3>1
    <3> QED
      BY <2>2, <2>4, <2>5, <3>2, WordsOn
  <2>6. to \in Nat
    <3>1. PICK n \in Nat : newCursor <= n /\ Len(text) - 1 <= n
      <4>1. newCursor + Len(text) \in Nat
        BY <1>3, <2>4
      <4>2. newCursor <= newCursor + Len(text) /\ Len(text) - 1 <= newCursor + Len(text)
        BY <1>3, <2>4
      <4> QED
        BY <4>1, <4>2
    <3>2. to \in 0 .. n
      BY <2>5, <3>1
    <3> QED
      BY <3>2
  <2>7. newCursor <= Len(text) => to <= Len(text)
    <3>1. Len(text) - 1 <= Len(text)
      BY <1>3
    <3>2. newCursor <= Len(text) => to \in 0 .. Len(text)
      BY <1>3, <2>5, <3>1
    <3> QED
      BY <3>2
  <2>8. missteps' \subseteq {"column"} => to # -1 /\ to <= Len(text)
    BY <1>3, <2>6, <2>7
  <2> QED
    BY <1>2, <2>3, <2>6, <2>8, KeyMovesStep
<1> QED
  BY <1>5, <1>6, <1>7

(* A command that was run from the list or by a key and ends the editor.          *)
LEMMA EndsStep ==
  ASSUME IInv, NEW how, Ends(how)
  PROVE  IInv'
<1>1. Stops(how) /\ (Takes("pending") \/ Takes("command"))
  BY DEF Ends, Commanded
<1> QED
  BY <1>1, EndStep

(* To the start or the end of the line.                                         *)
LEMMA ColumnStep ==
  ASSUME IInv, editor_cmd_begin_of_line \/ editor_cmd_end_of_line
  PROVE  IInv'
<1>1. CASE Ends("no line")
  BY <1>1, EndsStep
<1>2. CASE ~ Ends("no line")
  <2>1. PICK s : s = Line(indexed, pos.line).start
    OBVIOUS
  <2>2. PICK n : n = Line(indexed, pos.line).length
    OBVIOUS
  <2>3. /\ pos.line < LineCount(indexed)
        /\ Runs /\ text' = text /\ Missteps({}) /\ selection' = selection
        /\ Moves(s) \/ Moves(s + n)
    BY <1>2, <2>1, <2>2 DEF editor_cmd_begin_of_line, editor_cmd_end_of_line, ToColumn, Kept
  <2>4. indexed \in Seq(Ch) /\ Len(indexed) \in Nat /\ pos.line \in Nat
    BY LenProperties DEF IInv, Types
  <2>5. s \in Nat /\ n \in Nat /\ s + n <= Len(indexed)
    BY <2>1, <2>2, <2>3, <2>4, LineIs DEF IsLine
  <2>6. PICK to \in Nat : to <= Len(indexed) /\ Moves(to)
    <3>1. s <= Len(indexed) /\ s + n \in Nat
      BY <2>4, <2>5
    <3> QED
      BY <2>3, <2>5, <3>1
  <2>7. Taken /\ cut' = NoCut /\ frame' # "chars"
    BY <2>3, RunsIs
  <2>8. /\ selection' \in Nat \cup {-1}
        /\ missteps' \subseteq {"column"} => selection' <= Len(text)
    BY <2>3, <2>7, SelectionReady
  <2>9. missteps' \subseteq {"column"} => text = indexed
    BY <2>3, <2>7, ReadyIs
  <2>10. missteps' \subseteq {"column"} => to # -1 /\ to <= Len(text) /\ selection' <= Len(text)
    BY <2>6, <2>8, <2>9
  <2> QED
    BY <2>3, <2>6, <2>7, <2>8, <2>10, MovesStep
<1> QED
  BY <1>1, <1>2

(* To the top or the bottom of the text.                                        *)
LEMMA TopBottomStep ==
  ASSUME IInv, editor_cmd_top \/ editor_cmd_bottom
  PROVE  IInv'
<1>1. /\ Runs /\ text' = text /\ Missteps({}) /\ selection' = selection
      /\ Moves(0) \/ Moves(Len(text))
  BY DEF editor_cmd_top, editor_cmd_bottom, Kept
<1>2. PICK to \in Nat : to <= Len(text) /\ Moves(to)
  BY <1>1, SelectionIs
<1>3. Taken /\ cut' = NoCut /\ frame' # "chars"
  BY <1>1, RunsIs
<1>4. /\ selection' \in Nat \cup {-1}
      /\ missteps' \subseteq {"column"} => selection' <= Len(text)
  BY <1>1, <1>3, SelectionReady
<1>5. missteps' \subseteq {"column"} => to # -1 /\ to <= Len(text) /\ selection' <= Len(text)
  BY <1>2, <1>4
<1> QED
  BY <1>1, <1>2, <1>3, <1>4, <1>5, MovesStep

(* The selection is given up, by editor_cmd_clear_selection.                    *)
LEMMA ClearStep ==
  ASSUME IInv, editor_cmd_clear_selection
  PROVE  IInv'
<1>1. Runs /\ text' = text /\ Missteps({}) /\ selection' = -1 /\ Stays
  BY DEF editor_cmd_clear_selection, Kept
<1>2. Taken /\ cut' = NoCut /\ missteps \subseteq missteps'
  BY <1>1, RunsIs, MisstepsAre
<1>3. -1 <= Len(text)
  BY SelectionIs
<1> QED
  BY <1>1, <1>2, <1>3, StayStep

(* Selecting a word leaves the column as it is remembered.                       *)
LEMMA SelectWordStep ==
  ASSUME IInv, editor_cmd_select_word
  PROVE  IInv'
<1>1. PICK l : l = buffer_word_boundary_left(cursor)
  OBVIOUS
<1>2. PICK r : r = buffer_word_boundary_right(cursor)
  OBVIOUS
<1>3. PICK S : S = KeptColumn \cup InEmptyText
  OBVIOUS
<1>4. /\ Runs /\ selection' \in LeftFrom(cursor, l) /\ newCursor' = r /\ goal' = -1
      /\ Missteps(S)
      /\ text' = text /\ cursor' = cursor /\ pos' = pos /\ cursorCol' = cursorCol
  BY <1>1, <1>2, <1>3 DEF editor_cmd_select_word, Kept
<1>5. /\ Taken /\ cut' = NoCut /\ frame' # "chars" /\ S \subseteq missteps'
      /\ missteps \subseteq missteps'
  BY <1>4, RunsIs, MisstepsAre
<1>6. cursor \in Nat /\ Len(text) \in Nat /\ text \in Seq(Ch)
  BY SelectionIs DEF IInv, Types
<1>7. /\ l \in Nat /\ r \in Nat /\ r # -1
      /\ cursor <= Len(text) => r <= Len(text)
      /\ cursor <= Len(text) /\ text # <<>> => l <= Len(text)
  <2>1. /\ buffer_word_boundary_left(cursor) \in Nat
        /\ buffer_word_boundary_right(cursor) \in Nat
        /\ cursor <= Len(text) => buffer_word_boundary_right(cursor) <= Len(text)
        /\ cursor <= Len(text) /\ text # <<>> =>
             buffer_word_boundary_left(cursor) <= Len(text)
    BY <1>6, Boundaries
  <2> QED
    BY <1>1, <1>2, <2>1
<1>8. selection' \in Nat /\ (cursor <= Len(text) => selection' = l)
  <2>1. PICK n : n = selection'
    OBVIOUS
  <2>2. n \in LeftFrom(cursor, l)
    BY <1>4, <2>1
  <2> QED
    BY <1>6, <1>7, <2>1, <2>2, LeftFromIs
<1>9. /\ frame' \in {"drawn", "pending", "command", "chars", "mouse"} /\ frame' # "drawn"
      /\ indexed' = indexed /\ (frame' = "pending" => frame = "drawn")
  BY <1>5 DEF Taken
<1>10. Types'
  BY <1>4, <1>7, <1>8, <1>9 DEF IInv, Types
<1>11. CutHolds'
  BY <1>5 DEF CutHolds
<1>12. InText'
  <2> SUFFICES ASSUME missteps' \subseteq {"column"}
               PROVE  /\ r <= Len(text) /\ selection' <= Len(text)
                      /\ r = cursor => PosIs(text, cursor, pos)
                      /\ frame' = "pending" => PosIs(text, cursor, pos)
    BY <1>4, <1>7 DEF InText
  <2>1. text # <<>>
    BY <1>3, <1>5 DEF InEmptyText
  <2>2. /\ cursor <= Len(text)
        /\ newCursor # -1 => PosIs(text, cursor, pos)
        /\ newCursor = -1 => newCursor' # cursor'
    BY <1>4, <1>5, ReadyIs
  <2>3. frame' = "pending" => newCursor # -1
    BY <1>6, <1>9 DEF IInv, Types
  <2> QED
    BY <1>4, <1>7, <1>8, <2>1, <2>2, <2>3
<1>13. ColumnHeld'
  <2> SUFFICES ASSUME missteps' = {} PROVE cursorCol' = -1
    BY <1>4 DEF ColumnHeld
  <2>1. KeptColumn = {}
    BY <1>3, <1>5
  <2>2. cursorCol \in Nat \cup {-1}
    BY DEF IInv, Types
  <2> QED
    BY <1>4, <2>1, <2>2 DEF KeptColumn
<1> QED
  BY <1>10, <1>11, <1>12, <1>13 DEF IInv

(* To a brace, from one that is in the text.                                     *)
LEMMA ToBraceStep ==
  ASSUME IInv, NEW i \in Nat, i < Len(text), NEW select, MovesToBrace(i, select)
  PROVE  IInv'
<1>1. RunsByKey /\ text' = text /\ Missteps({})
  BY DEF MovesToBrace, Kept
<1>2. Taken /\ cut' = NoCut /\ frame' # "chars" /\ missteps \subseteq missteps'
  BY <1>1, RunsIs, MisstepsAre
<1>3. /\ Len(text) \in Nat /\ selection \in Nat \cup {-1}
      /\ missteps' \subseteq {"column"} => selection <= Len(text)
  BY <1>2, SelectionIs
<1>4. /\ selection' \in Nat \cup {-1}
      /\ missteps' \subseteq {"column"} => selection' <= Len(text)
  <2>1. selection' \in {i, selection}
    BY DEF MovesToBrace
  <2> QED
    BY <1>3, <2>1
<1>5. CASE Stays
  BY <1>1, <1>2, <1>4, <1>5, StayStep
<1>6. ASSUME NEW to \in Nat, to <= Len(text), Moves(to) PROVE IInv'
  <2>1. missteps' \subseteq {"column"} => to # -1 /\ to <= Len(text) /\ selection' <= Len(text)
    BY <1>4, <1>6
  <2> QED
    BY <1>1, <1>2, <1>4, <1>6, <2>1, MovesStep
<1>7. ASSUME Closing(i) # {}, Moves(Min(Closing(i)) + 1) PROVE IInv'
  <2>1. Closing(i) \in SUBSET Nat /\ \A j \in Closing(i) : j < Len(text)
    BY <1>3 DEF Closing
  <2>2. PICK j : j = Min(Closing(i))
    OBVIOUS
  <2>3. j \in Closing(i)
    BY <1>7, <2>1, <2>2, LeastMember
  <2>4. j + 1 \in Nat /\ j + 1 <= Len(text)
    BY <1>3, <2>1, <2>3
  <2> QED
    BY <1>6, <1>7, <2>2, <2>4
<1>8. ASSUME OpeningOf(i) # {}, Moves(Max(OpeningOf(i))) PROVE IInv'
  <2>1. OpeningOf(i) \in SUBSET (0 .. i)
    BY DEF OpeningOf
  <2>2. PICK j : j = Max(OpeningOf(i))
    OBVIOUS
  <2>3. j \in OpeningOf(i)
    BY <1>8, <2>1, <2>2, GreatestMember
  <2>4. j \in Nat /\ j <= Len(text)
    BY <1>3, <2>1, <2>3
  <2> QED
    BY <1>6, <1>8, <2>2, <2>4
<1> QED
  BY <1>5, <1>7, <1>8 DEF MovesToBrace

(* There is no brace outside of the text.                                        *)
LEMMA BraceInText ==
  ASSUME text \in Seq(Ch), NEW i, OpenAt(i) \/ CloseAt(i)
  PROVE  i \in Nat /\ i < Len(text)
<1>1. \A b \in Braces : b[1] # Nul /\ b[2] # Nul
  BY CursorAssumption
<1>2. At(text, i) # Nul
  BY <1>1 DEF OpenAt, CloseAt
<1>3. i \in 0 .. Len(text) - 1
  BY <1>2 DEF At
<1> QED
  BY <1>3, LenProperties

(* To the matching brace, if there is one by the cursor or what is taken for one.  *)
LEMMA BraceStep ==
  ASSUME IInv, NEW select, editor_cmd_matching_brace(select)
  PROVE  IInv'
<1>1. /\ text \in Seq(Ch) /\ Len(text) \in Nat /\ cursor \in Nat
      /\ selection \in Nat \cup {-1}
  BY SelectionIs DEF IInv, Types
<1>2. CASE NoBrace
  BY <1>2, EndStep DEF NoBrace
<1>3. ASSUME NEW i, OpenAt(i) \/ CloseAt(i), MovesToBrace(i, select) PROVE IInv'
  <2>1. i \in Nat /\ i < Len(text)
    BY <1>1, <1>3, BraceInText
  <2> QED
    BY <1>3, <2>1, ToBraceStep
<1>4. CASE BraceByCursor(select)
  BY <1>2, <1>3, <1>4 DEF BraceByCursor
<1>5. ASSUME BraceByChance(select), ~ NoBrace, ~ (cursor <= Len(text)) PROVE IInv'
  <2>1. /\ RunsByKey /\ text' = text /\ Missteps({})
        /\ selection' \in {selection, cursor - 1, cursor}
        /\ Stays \/ \E j \in 0 .. cursor : Moves(j)
    BY <1>5 DEF BraceByChance, Kept
  <2>2. Taken /\ cut' = NoCut /\ frame' # "chars" /\ missteps \subseteq missteps'
    BY <2>1, RunsIs, MisstepsAre
  <2>3. ~ (missteps' \subseteq {"column"})
    BY <1>5, <2>1, <2>2, ReadyIs
  <2>4. selection' \in Nat \cup {-1}
    BY <1>1, <2>1
  <2>5. CASE Stays
    BY <2>1, <2>2, <2>3, <2>4, <2>5, StayStep
  <2>6. ASSUME NEW j \in 0 .. cursor, Moves(j) PROVE IInv'
    BY <2>1, <2>2, <2>3, <2>4, <2>6, MovesStep
  <2> QED
    BY <2>1, <2>5, <2>6
<1> QED
  BY <1>2, <1>4, <1>5 DEF editor_cmd_matching_brace

(* The editor reads the text of a buffer that has none, or the key of a command     *)
(* that was picked from the list, and ends.                                      *)
LEMMA FaultStep ==
  ASSUME IInv, ReadsNothing \/ editor_cmd_without_key
  PROVE  IInv'
<1>1. PICK how : Stops(how) /\ (Takes("pending") \/ Takes("command") \/ Takes("mouse"))
  BY DEF ReadsNothing, editor_cmd_without_key, Commanded
<1> QED
  BY <1>1, EndStep

(* Clicks: one puts the cursor in the line, two select a word, three the line,     *)
(* which ends in the text unless it is the last.                                *)
LEMMA ClickStep ==
  ASSUME IInv, NEW line \in 0 .. LineCount(indexed) - 1, NEW column \in Nat,
         Click(line, column)
  PROVE  IInv'
<1>1. PICK s : s = Line(indexed, line).start
  OBVIOUS
<1>2. PICK n : n = Line(indexed, line).length
  OBVIOUS
<1>3. PICK at : at = s + Min({column, n})
  OBVIOUS
<1>4. PICK l : l = buffer_word_boundary_left(at)
  OBVIOUS
<1>5. PICK r : r = buffer_word_boundary_right(at)
  OBVIOUS
<1>6. /\ Takes("mouse") /\ text' = text
      /\ \/ Moves(at) /\ selection' = -1 /\ Missteps({})
         \/ Moves(r) /\ selection' \in LeftFrom(at, l) /\ Missteps(InEmptyText)
         \/ /\ Moves(s + n + 1) /\ selection' = s
            /\ Missteps(IF line = LineCount(indexed) - 1 THEN {"line"} ELSE {})
  BY <1>1, <1>2, <1>3, <1>4, <1>5 DEF Click, Kept
<1>7. Taken /\ cut' = NoCut /\ frame' # "chars"
  BY <1>6, MouseIs
<1>8. text \in Seq(Ch) /\ Len(text) \in Nat /\ indexed \in Seq(Ch) /\ Len(indexed) \in Nat
  BY LenProperties DEF IInv, Types
<1>9. line \in Nat /\ line < LineCount(indexed) /\ LineCount(indexed) \in Nat
  BY <1>8, StartsType
<1>10. s \in Nat /\ n \in Nat /\ s + n <= Len(indexed)
  BY <1>1, <1>2, <1>8, <1>9, LineIs DEF IsLine
<1>11. at \in Nat /\ at <= Len(indexed)
  BY <1>3, <1>8, <1>10, LeastOfTwo
<1>12. ASSUME NEW S, Missteps(S), missteps' \subseteq {"column"} PROVE text = indexed
  BY <1>7, <1>12, ReadyIs
<1>13. ASSUME Moves(at), selection' = -1, Missteps({}) PROVE IInv'
  <2>1. missteps' \subseteq {"column"} => at # -1 /\ at <= Len(text) /\ selection' <= Len(text)
    BY <1>8, <1>11, <1>12, <1>13
  <2> QED
    BY <1>6, <1>7, <1>11, <1>13, <2>1, MovesStep
<1>14. ASSUME Moves(r), selection' \in LeftFrom(at, l), Missteps(InEmptyText) PROVE IInv'
  <2>1. /\ l \in Nat /\ r \in Nat
        /\ at <= Len(text) => r <= Len(text)
        /\ at <= Len(text) /\ text # <<>> => l <= Len(text)
    BY <1>4, <1>5, <1>8, <1>11, Boundaries
  <2>2. selection' \in Nat /\ (at <= Len(text) => selection' = l)
    <3>1. PICK k : k = selection'
      OBVIOUS
    <3>2. k \in LeftFrom(at, l)
      BY <1>14, <3>1
    <3> QED
      BY <1>11, <2>1, <3>1, <3>2, LeftFromIs
  <2>3. missteps' \subseteq {"column"} => text # <<>>
    <3>1. InEmptyText \subseteq missteps'
      BY <1>14, MisstepsAre
    <3> QED
      BY <3>1 DEF InEmptyText
  <2>4. missteps' \subseteq {"column"} => r # -1 /\ r <= Len(text) /\ selection' <= Len(text)
    BY <1>11, <1>12, <1>14, <2>1, <2>2, <2>3
  <2> QED
    BY <1>6, <1>7, <1>14, <2>1, <2>2, <2>4, MovesStep
<1>15. ASSUME NEW S, Moves(s + n + 1), selection' = s, Missteps(S),
              S = IF line = LineCount(indexed) - 1 THEN {"line"} ELSE {}
       PROVE  IInv'
  <2>1. PICK to : to = s + n + 1
    OBVIOUS
  <2>2. to \in Nat /\ to # -1 /\ Moves(to)
    BY <1>10, <1>15, <2>1
  <2>3. missteps' \subseteq {"column"} => to <= Len(text) /\ s <= Len(text)
    <3> SUFFICES ASSUME missteps' \subseteq {"column"} PROVE to <= Len(text) /\ s <= Len(text)
      OBVIOUS
    <3>1. S \subseteq missteps'
      BY <1>15, MisstepsAre
    <3>2. line + 1 < LineCount(indexed)
      <4>1. line # LineCount(indexed) - 1
        BY <1>15, <3>1
      <4> QED
        BY <1>9, <4>1
    <3>3. s + n < Len(indexed)
      BY <1>1, <1>2, <1>8, <1>9, <3>2, NotLast
    <3>4. text = indexed
      BY <1>12, <1>15
    <3> QED
      BY <1>8, <1>10, <2>1, <3>3, <3>4
  <2>4. missteps' \subseteq {"column"} => to # -1 /\ to <= Len(text) /\ selection' <= Len(text)
    BY <1>15, <2>2, <2>3
  <2>5. selection' \in Nat \cup {-1}
    BY <1>10, <1>15
  <2> QED
    BY <1>6, <1>7, <1>15, <2>2, <2>4, <2>5, MovesStep
<1> QED
  BY <1>6, <1>13, <1>14, <1>15

-----------------------------------------------------------------------------
(* Edits.                                                                     *)

(* What is put in or taken out at or behind an offset leaves what is before it.   *)
LEMMA InsertKeeps ==
  ASSUME NEW t \in Seq(Ch), NEW s \in Seq(Ch), NEW at \in Nat, NEW c \in Nat, c <= at, c <= Len(t)
  PROVE  c <= Len(Insert(t, s, at)) /\ \A i \in 1 .. c : Insert(t, s, at)[i] = t[i]
<1>1. Len(t) \in Nat /\ Len(s) \in Nat
  BY LenProperties
<1>2. PICK k : k = Clamped(t, at)
  OBVIOUS
<1>3. k \in Nat /\ c <= k
  BY <1>1, <1>2, ClampedIs
<1>4. PICK u : u = Insert(t, s, at)
  OBVIOUS
<1>5. /\ Len(u) = Len(t) + Len(s)
      /\ \A i \in 1 .. Len(t) + Len(s) : i <= k => u[i] = t[i]
  BY <1>2, <1>4, InsertIs
<1>6. \A i \in 1 .. c : i \in 1 .. Len(t) + Len(s) /\ i <= k
  BY <1>1, <1>3
<1> QED
  BY <1>1, <1>4, <1>5, <1>6

(* A deletion keeps what is before it.                                          *)
LEMMA DeleteKeeps ==
  ASSUME NEW t \in Seq(Ch), NEW from \in Nat, NEW to \in Nat, from <= to,
         NEW c \in Nat, c <= from, c <= Len(t)
  PROVE  c <= Len(Delete(t, from, to)) /\ \A i \in 1 .. c : Delete(t, from, to)[i] = t[i]
<1>1. Len(t) \in Nat
  BY LenProperties
<1>2. PICK f : f = Clamped(t, from)
  OBVIOUS
<1>3. PICK g : g = Clamped(t, to)
  OBVIOUS
<1>4. f \in Nat /\ g \in Nat /\ c <= f /\ f <= g /\ g <= Len(t)
  BY <1>1, <1>2, <1>3, ClampedIs
<1>5. PICK u : u = Delete(t, from, to)
  OBVIOUS
<1>6. /\ Len(u) = Len(t) - (g - f)
      /\ \A i \in 1 .. Len(t) - (g - f) : i <= f => u[i] = t[i]
  BY <1>2, <1>3, <1>5, DeleteIs
<1>7. \A i \in 1 .. c : i \in 1 .. Len(t) - (g - f) /\ i <= f
  BY <1>1, <1>4
<1> QED
  BY <1>1, <1>4, <1>5, <1>6, <1>7

(* One character as a text.                                                     *)
LEMMA OneChar ==
  ASSUME NEW ch \in Ch
  PROVE  <<ch>> \in Seq(Ch) /\ Len(<<ch>>) = 1
OBVIOUS

(* The new cursor of a text that is put in, in the place of what is selected.       *)
LEMMA PutsStep ==
  ASSUME IInv, Taken, cut' = NoCut, NEW s \in Seq(Ch), Puts(s)
  PROVE  IInv'
<1>1. PICK at : at = IF selection = -1 THEN newCursor ELSE From
  OBVIOUS
<1>2. PICK t : t = IF selection = -1 THEN text ELSE Delete(text, From, To)
  OBVIOUS
<1>3. PICK to : to = at + Len(s)
  OBVIOUS
<1>4. PICK S : S = EditedInPlace \cup IfNone(newCursor)
  OBVIOUS
<1>5. text' = Insert(t, s, at) /\ Moves(to) /\ selection' = -1 /\ Missteps(S)
  BY <1>1, <1>2, <1>3, <1>4 DEF Puts, Edits
<1>6. /\ text \in Seq(Ch) /\ cursor \in Nat /\ newCursor \in Nat \cup {-1}
      /\ selection \in Nat \cup {-1} /\ Len(text) \in Nat /\ Len(s) \in Nat
      /\ frame = "drawn" => newCursor = cursor
  BY LenProperties DEF IInv, Types
<1>7. selection # -1 =>
        /\ From \in Nat \cup {-1} /\ To \in Nat /\ From <= To
        /\ newCursor # -1 => From \in Nat
        /\ To \in {selection, newCursor} /\ From \in {selection, newCursor}
  BY <1>6, SelectionEnds
<1>8. at \in Nat \cup {-1} /\ (newCursor # -1 => at \in Nat)
  BY <1>1, <1>6, <1>7
<1>9. t \in Seq(Ch) /\ Len(t) \in Nat
  <2>1. t \in Seq(Ch)
    BY <1>2, <1>6, <1>7, EditIsText
  <2> QED
    BY <2>1, LenProperties
<1>10. text' \in Seq(Ch) /\ to \in Nat \cup {-1}
  <2>1. PICK n \in Nat : at <= n
    BY <1>8
  <2>2. Insert(t, s, at) \in Seq(Ch)
    BY <1>8, <1>9, <2>1, EditIsText
  <2> QED
    BY <1>3, <1>5, <1>6, <1>8, <2>2
<1>11. /\ missteps \subseteq missteps' /\ S \subseteq missteps'
       /\ missteps' \subseteq {"column"} => newCursor # -1
  <2>1. IfNone(newCursor) \subseteq S
    BY <1>4
  <2> QED
    BY <1>5, <2>1, MisstepsAre, NoneIs
<1>12. ASSUME missteps' \subseteq {"column"}
       PROVE  /\ to # -1 /\ to <= Len(text') /\ selection' <= Len(text')
              /\ to = cursor => PosIs(text', cursor, pos)
  <2>1. missteps \subseteq {"column"} /\ newCursor \in Nat /\ at \in Nat
    BY <1>6, <1>8, <1>11, <1>12
  <2>2. newCursor <= Len(text) /\ selection <= Len(text)
    BY <2>1 DEF IInv, InText
  <2>3. at <= Len(t)
    <3>1. CASE selection = -1
      BY <1>1, <1>2, <2>2, <3>1
    <3>2. CASE selection # -1
      <4>1. From \in Nat /\ To \in Nat /\ From <= To /\ From <= Len(text)
        BY <1>6, <1>7, <2>1, <2>2, <3>2
      <4> QED
        BY <1>1, <1>2, <1>6, <3>2, <4>1, DeleteKeeps
    <3> QED
      BY <3>1, <3>2
  <2>4. Len(text') = Len(t) + Len(s)
    BY <1>5, <1>9, <2>1, InsertIs
  <2>5. ASSUME to = cursor PROVE PosIs(text', cursor, pos)
    <3>1. newCursor' = cursor
      BY <1>5, <2>5 DEF Moves
    <3>2. text' = text /\ frame = "drawn"
      BY <1>4, <1>11, <1>12, <3>1 DEF EditedInPlace
    <3>3. newCursor = cursor
      BY <1>6, <3>2
    <3> QED
      BY <2>1, <3>2, <3>3 DEF IInv, InText
  <2> QED
    BY <1>3, <1>5, <1>6, <1>9, <2>1, <2>3, <2>4, <2>5
<1>13. selection' \in Nat \cup {-1}
  BY <1>5
<1> QED
  BY <1>5, <1>10, <1>11, <1>12, <1>13, MoveStep

(* Braces around a selection make the text longer, and push the end of it on.      *)
LEMMA WrapsStep ==
  ASSUME IInv, Taken, cut' = NoCut, NEW b \in Braces, Wraps(b), selection # -1
  PROVE  IInv'
<1>1. PICK to : to = IF cursor = To THEN To + 1 ELSE From + 1
  OBVIOUS
<1>2. PICK t : t = Insert(text, <<b[1]>>, From)
  OBVIOUS
<1>3. PICK S : S = EditedInPlace \cup IfNone(newCursor)
  OBVIOUS
<1>4. /\ text' = Insert(t, <<b[2]>>, To + 1) /\ Moves(to) /\ Missteps(S)
      /\ selection' = IF cursor = To THEN From + 1 ELSE To + 1
  BY <1>1, <1>2, <1>3 DEF Wraps, Edits, Moves
<1>5. /\ text \in Seq(Ch) /\ cursor \in Nat /\ newCursor \in Nat \cup {-1}
      /\ selection \in Nat /\ Len(text) \in Nat
  BY LenProperties DEF IInv, Types
<1>6. /\ <<b[1]>> \in Seq(Ch) /\ Len(<<b[1]>>) = 1
      /\ <<b[2]>> \in Seq(Ch) /\ Len(<<b[2]>>) = 1
  <2>1. b[1] \in Ch /\ b[2] \in Ch
    BY CursorAssumption DEF Ch
  <2> QED
    BY <2>1, OneChar
<1>7. /\ From \in Nat \cup {-1} /\ To \in Nat /\ From <= To /\ To + 1 \in Nat
      /\ newCursor # -1 => From \in Nat
      /\ To \in {selection, newCursor}
  BY <1>5, SelectionEnds
<1>8. t \in Seq(Ch)
  BY <1>2, <1>5, <1>6, <1>7, EditIsText
<1>9. text' \in Seq(Ch) /\ Len(text') = Len(t) + 1
  BY <1>4, <1>6, <1>7, <1>8, InsertIs
<1>10. to \in Nat \cup {-1} /\ selection' \in Nat \cup {-1}
  BY <1>1, <1>4, <1>7
<1>11. /\ missteps \subseteq missteps' /\ S \subseteq missteps'
       /\ missteps' \subseteq {"column"} => newCursor # -1
  <2>1. IfNone(newCursor) \subseteq S
    BY <1>3
  <2> QED
    BY <1>4, <2>1, MisstepsAre, NoneIs
<1>12. ASSUME missteps' \subseteq {"column"}
       PROVE  /\ to # -1 /\ to <= Len(text') /\ selection' <= Len(text')
              /\ to = cursor => PosIs(text', cursor, pos)
  <2>1. missteps \subseteq {"column"} /\ newCursor \in Nat /\ From \in Nat
    BY <1>5, <1>7, <1>11, <1>12
  <2>2. newCursor <= Len(text) /\ selection <= Len(text)
    BY <2>1 DEF IInv, InText
  <2>3. To <= Len(text)
    BY <1>7, <2>2
  <2>4. Len(t) = Len(text) + 1
    BY <1>2, <1>5, <1>6, <2>1, InsertIs
  <2>5. Len(text') = Len(text) + 2
    BY <1>5, <1>9, <2>4
  <2>6. to # cursor
    <3>1. text' # text
      BY <1>5, <2>5
    <3>2. newCursor' = to
      BY <1>4 DEF Moves
    <3> QED
      BY <1>3, <1>11, <1>12, <3>1, <3>2 DEF EditedInPlace
  <2>7. to # -1 /\ to <= Len(text') /\ selection' <= Len(text')
    BY <1>1, <1>4, <1>5, <1>7, <2>1, <2>3, <2>5
  <2> QED
    BY <2>6, <2>7
<1> QED
  BY <1>4, <1>9, <1>10, <1>11, <1>12, MoveStep

(* A typed character, put in or put around the selection.                       *)
LEMMA CharacterStep ==
  ASSUME IInv, NEW ch \in Typed, editor_character(ch)
  PROVE  IInv'
<1>1. /\ Takes("chars")
      /\ \/ \E b \in Braces : selection # -1 /\ ch = b[1] /\ Wraps(b)
         \/ Puts(<<ch>>)
  BY DEF editor_character
<1>2. Taken /\ cut' = NoCut
  BY <1>1, InputIsTaken DEF Takes
<1>3. <<ch>> \in Seq(Ch)
  BY OneChar DEF Ch
<1> QED
  BY <1>1, <1>2, <1>3, WrapsStep, PutsStep

(* The clipboard is put in, by editor_cmd_paste.                                *)
LEMMA PasteStep ==
  ASSUME IInv, NEW clip \in Seq(Ch), editor_cmd_paste(clip)
  PROVE  IInv'
BY RunsIs, PutsStep DEF editor_cmd_paste

(* A line is split, by editor_cmd_split_line.                                   *)
LEMMA SplitStep ==
  ASSUME IInv, editor_cmd_split_line
  PROVE  IInv'
<1>1. Runs /\ Puts(<<Newline>>)
  BY DEF editor_cmd_split_line
<1>2. <<Newline>> \in Seq(Ch)
  BY OneChar, CursorAssumption DEF Ch
<1> QED
  BY <1>1, <1>2, RunsIs, PutsStep

(* What is removed is behind the offset the cursor goes to.                       *)
LEMMA RemovesStep ==
  ASSUME IInv, Taken, frame' # "chars", cut' = NoCut,
         NEW from \in Nat \cup {-1}, NEW to \in Nat, from <= to, Removes(from, to),
         from <= selection \/ from <= cursor
  PROVE  IInv'
<1>1. /\ text' = Delete(text, from, to) /\ Moves(from)
      /\ selection' = -1 /\ Missteps(IfNone(from))
  BY DEF Removes, Edits
<1>2. /\ text \in Seq(Ch) /\ cursor \in Nat /\ pos \in [line : Nat, column : Nat]
      /\ selection \in Nat \cup {-1} /\ Len(text) \in Nat
  BY LenProperties DEF IInv, Types
<1>3. text' \in Seq(Ch)
  BY <1>1, <1>2, EditIsText
<1>4. ASSUME missteps' \subseteq {"column"}
      PROVE  /\ from # -1 /\ from <= Len(text') /\ selection' <= Len(text')
             /\ from = cursor => PosIs(text', cursor, pos)
  <2>1. from # -1 /\ from \in Nat
    BY <1>1, <1>4, NoneIs
  <2>2. /\ cursor <= Len(text) /\ selection <= Len(text)
        /\ newCursor # -1 => PosIs(text, cursor, pos)
        /\ newCursor = -1 => newCursor' # cursor'
    BY <1>1, <1>4, ReadyIs
  <2>3. from <= Len(text)
    BY <1>2, <2>1, <2>2
  <2>4. from <= Len(text') /\ \A i \in 1 .. from : text'[i] = text[i]
    BY <1>1, <1>2, <2>1, <2>3, DeleteKeeps
  <2>5. Len(text') \in Nat
    BY <1>3, LenProperties
  <2>6. ASSUME from = cursor PROVE PosIs(text', cursor, pos)
    <3>1. PosIs(text, cursor, pos)
      BY <1>1, <2>2, <2>6 DEF Moves
    <3> QED
      BY <1>2, <1>3, <2>2, <2>4, <2>6, <3>1, PosKept
  <2> QED
    BY <1>1, <2>1, <2>4, <2>5, <2>6
<1>5. missteps \subseteq missteps' /\ selection' \in Nat \cup {-1}
  BY <1>1, MisstepsAre
<1> QED
  BY <1>1, <1>3, <1>4, <1>5, MoveStep

(* Backspace and delete.                                                        *)
LEMMA BackspaceStep ==
  ASSUME IInv, editor_cmd_backspace \/ editor_cmd_delete_current_char
  PROVE  IInv'
<1>1. /\ Runs
      /\ \/ selection # -1 /\ Removes(From, To)
         \/ cursor > 0 /\ Removes(cursor - 1, cursor)
         \/ Removes(cursor, cursor + 1)
         \/ Kept /\ Stays /\ selection' = selection /\ Missteps({})
  BY DEF editor_cmd_backspace, editor_cmd_delete_current_char
<1>2. Taken /\ cut' = NoCut /\ frame' # "chars"
  BY <1>1, RunsIs
<1>3. cursor \in Nat /\ newCursor \in Nat \cup {-1} /\ selection \in Nat \cup {-1}
  BY DEF IInv, Types
<1>4. ASSUME selection # -1, Removes(From, To) PROVE IInv'
  <2>1. From \in Nat \cup {-1} /\ To \in Nat /\ From <= To /\ From <= selection
    BY <1>3, <1>4, SelectionEnds
  <2> QED
    BY <1>2, <1>4, <2>1, RemovesStep
<1>5. ASSUME cursor > 0, Removes(cursor - 1, cursor) PROVE IInv'
  <2>1. PICK from : from = cursor - 1
    OBVIOUS
  <2>2. from \in Nat /\ from <= cursor
    BY <1>3, <1>5, <2>1
  <2> QED
    BY <1>2, <1>3, <1>5, <2>1, <2>2, RemovesStep
<1>6. ASSUME Removes(cursor, cursor + 1) PROVE IInv'
  <2>1. PICK to : to = cursor + 1
    OBVIOUS
  <2>2. to \in Nat /\ cursor <= to /\ cursor <= cursor
    BY <1>3, <2>1
  <2> QED
    BY <1>2, <1>3, <1>6, <2>1, <2>2, RemovesStep
<1>7. ASSUME Kept, Stays, selection' = selection, Missteps({}) PROVE IInv'
  <2>1. text' = text /\ missteps \subseteq missteps'
    BY <1>7, MisstepsAre DEF Kept
  <2>2. /\ selection' \in Nat \cup {-1}
        /\ missteps' \subseteq {"column"} => selection' <= Len(text)
    BY <1>2, <1>7, SelectionReady
  <2> QED
    BY <1>2, <1>7, <2>1, <2>2, StayStep
<1> QED
  BY <1>1, <1>4, <1>5, <1>6, <1>7

(* A line that the index has, or one that is left in it behind the last.           *)
LEMMA LinesAtIs ==
  ASSUME NEW t \in Seq(Ch), NEW l \in Nat, NEW line \in LinesAt(t, l)
  PROVE  /\ line.start \in Nat /\ line.length \in Nat
         /\ l < LineCount(t) => line = Line(t, l) /\ line.start + line.length <= Len(t)
<1>1. CASE l < LineCount(t)
  <2>1. line = Line(t, l)
    BY <1>1 DEF LinesAt
  <2> QED
    BY <1>1, <2>1, LineIs DEF IsLine
<1>2. CASE ~ (l < LineCount(t))
  BY <1>2, CursorAssumption DEF LinesAt
<1> QED
  BY <1>1, <1>2

(* A line ends with a space in the place of its newline.                          *)
LEMMA MergeStep ==
  ASSUME IInv, editor_cmd_merge_lines
  PROVE  IInv'
<1>1. PICK line \in LinesAt(indexed, pos.line) :
        /\ Moves(line.start + line.length)
        /\ IF pos.line < LineCount(indexed) /\ line.start + line.length < Len(text)
           THEN text' = Insert(Delete(text, line.start + line.length,
                                      line.start + line.length + 1),
                               <<Space>>, line.start + line.length)
           ELSE text' = text
  BY DEF editor_cmd_merge_lines, Edits, Kept
<1>2. PICK end : end = line.start + line.length
  OBVIOUS
<1>3. Runs /\ selection' = selection /\ Missteps({})
  BY DEF editor_cmd_merge_lines
<1>4. Taken /\ cut' = NoCut /\ frame' # "chars" /\ missteps \subseteq missteps'
  BY <1>3, RunsIs, MisstepsAre
<1>5. /\ text \in Seq(Ch) /\ indexed \in Seq(Ch) /\ cursor \in Nat
      /\ pos \in [line : Nat, column : Nat] /\ pos.line \in Nat
      /\ Len(text) \in Nat
  BY LenProperties DEF IInv, Types
<1>6. /\ end \in Nat /\ Moves(end)
      /\ pos.line < LineCount(indexed) => end <= Len(indexed)
  BY <1>1, <1>2, <1>5, LinesAtIs
<1>7. missteps' \subseteq {"column"} =>
        /\ text = indexed /\ pos.line < LineCount(text) /\ cursor <= Len(text)
        /\ newCursor # -1 => PosIs(text, cursor, pos)
        /\ newCursor = -1 => newCursor' # cursor'
  BY <1>3, <1>4, ReadyIs
<1>8. /\ selection' \in Nat \cup {-1}
      /\ missteps' \subseteq {"column"} => selection' <= Len(text)
  BY <1>3, <1>4, SelectionReady
<1>9. missteps' \subseteq {"column"} => end # -1 /\ end <= Len(text)
  BY <1>6, <1>7
<1>10. CASE ~ (pos.line < LineCount(indexed) /\ end < Len(text))
  <2>1. text' = text
    BY <1>1, <1>2, <1>10
  <2> QED
    BY <1>3, <1>4, <1>6, <1>8, <1>9, <2>1, MovesStep
<1>11. CASE pos.line < LineCount(indexed) /\ end < Len(text)
  <2>1. PICK t : t = Delete(text, end, end + 1)
    OBVIOUS
  <2>2. text' = Insert(t, <<Space>>, end)
    BY <1>1, <1>2, <1>11, <2>1
  <2>3. end + 1 \in Nat /\ end <= end + 1
    BY <1>6
  <2>4. /\ t \in Seq(Ch) /\ end <= Len(t) /\ Len(t) = Len(text) - 1
        /\ \A i \in 1 .. end : t[i] = text[i]
    <3>1. Clamped(text, end) = end /\ Clamped(text, end + 1) = end + 1
      BY <1>5, <1>6, <1>11, <2>3, ClampedIs
    <3>2. t \in Seq(Ch) /\ Len(t) = Len(text) - ((end + 1) - end)
      <4>1. PICK n : n = end + 1
        OBVIOUS
      <4>2. /\ Delete(text, end, n) \in Seq(Ch)
            /\ Len(Delete(text, end, n)) = Len(text) - (Clamped(text, n) - Clamped(text, end))
        BY <1>5, <1>6, <2>3, <4>1, DeleteIs
      <4> QED
        BY <2>1, <3>1, <4>1, <4>2
    <3>3. end <= Len(text)
      BY <1>5, <1>6, <1>11
    <3>4. end <= Len(t) /\ \A i \in 1 .. end : t[i] = text[i]
      BY <1>5, <1>6, <2>1, <2>3, <3>3, DeleteKeeps
    <3> QED
      BY <1>5, <1>6, <3>2, <3>4
  <2>5. <<Space>> \in Seq(Ch) /\ Len(<<Space>>) = 1
    BY OneChar DEF Ch
  <2>6. /\ text' \in Seq(Ch) /\ Len(text') = Len(text)
        /\ \A i \in 1 .. end : text'[i] = text[i]
    <3>1. text' \in Seq(Ch) /\ Len(text') = Len(t) + 1
      BY <1>6, <2>2, <2>4, <2>5, InsertIs
    <3>2. \A i \in 1 .. end : text'[i] = t[i]
      <4>1. end \in Nat /\ end <= end
        BY <1>6
      <4> QED
        BY <2>2, <2>4, <2>5, <4>1, InsertKeeps
    <3> QED
      BY <1>5, <2>4, <3>1, <3>2
  <2>7. ASSUME missteps' \subseteq {"column"}
        PROVE  /\ end # -1 /\ end <= Len(text') /\ selection' <= Len(text')
               /\ end = cursor => PosIs(text', cursor, pos)
    <3>1. ASSUME end = cursor PROVE PosIs(text', cursor, pos)
      <4>1. PosIs(text, cursor, pos) /\ cursor <= Len(text)
        BY <1>6, <1>7, <2>7, <3>1 DEF Moves
      <4>2. cursor <= Len(text') /\ \A i \in 1 .. cursor : text'[i] = text[i]
        BY <2>6, <3>1, <4>1
      <4> QED
        BY <1>5, <2>6, <4>1, <4>2, PosKept
    <3> QED
      BY <1>8, <1>9, <2>6, <2>7, <3>1
  <2> QED
    BY <1>4, <1>6, <1>8, <2>6, <2>7, MoveStep
<1> QED
  BY <1>10, <1>11

(* The line the cursor is in, as copy and cut select it.                          *)
LEMMA SelectedLineIs ==
  ASSUME indexed \in Seq(Ch), cursor \in Nat
  PROVE  /\ SelectedLine.start \in Nat /\ BehindLine \in Nat
         /\ SelectedLine.start < BehindLine /\ SelectedLine.start <= Len(indexed)
<1>1. PICK l : l = buffer_line_for_index(indexed, cursor)
  OBVIOUS
<1>2. l \in Nat /\ l < LineCount(indexed)
  BY <1>1, SearchFinds DEF InLine
<1>3. PICK s : s = Line(indexed, l).start
  OBVIOUS
<1>4. PICK n : n = Line(indexed, l).length
  OBVIOUS
<1>5. s \in Nat /\ n \in Nat /\ s + n <= Len(indexed)
  BY <1>2, <1>3, <1>4, LineIs DEF IsLine
<1>6. SelectedLine.start = s /\ BehindLine = s + n + 1
  BY <1>1, <1>3, <1>4 DEF SelectedLine, BehindLine
<1> QED
  BY <1>5, <1>6, LenProperties

(* The selection or the line is copied, by editor_cmd_copy.                     *)
LEMMA CopyStep ==
  ASSUME IInv, editor_cmd_copy
  PROVE  IInv'
<1>1. Runs /\ text' = text
  BY DEF editor_cmd_copy, Kept
<1>2. Taken /\ cut' = NoCut /\ frame' # "chars"
  BY <1>1, RunsIs
<1>3. CASE selection # -1
  <2>1. Stays /\ selection' = selection /\ Missteps({})
    BY <1>3 DEF editor_cmd_copy
  <2>2. missteps \subseteq missteps'
    BY <2>1, MisstepsAre
  <2>3. /\ selection' \in Nat \cup {-1}
        /\ missteps' \subseteq {"column"} => selection' <= Len(text)
    BY <1>2, <2>1, SelectionReady
  <2> QED
    BY <1>1, <1>2, <2>1, <2>2, <2>3, StayStep
<1>4. CASE selection = -1
  <2>1. PICK s : s = SelectedLine.start
    OBVIOUS
  <2>2. PICK e : e = BehindLine
    OBVIOUS
  <2>3. /\ selection' = s /\ newCursor' = e /\ cursor' = e /\ goal' = -1 /\ pos' = pos
        /\ cursorCol' = cursorCol /\ Missteps({"line"} \cup KeptColumn)
    BY <1>4, <2>1, <2>2 DEF editor_cmd_copy
  <2>4. s \in Nat /\ e \in Nat /\ e # -1
    <3>1. indexed \in Seq(Ch) /\ cursor \in Nat
      BY DEF IInv, Types
    <3> QED
      BY <2>1, <2>2, <3>1, SelectedLineIs
  <2>5. /\ frame' \in {"drawn", "pending", "command", "chars", "mouse"} /\ frame' # "drawn"
        /\ indexed' = indexed
    BY <1>2 DEF Taken
  <2>6. Types'
    BY <1>1, <2>3, <2>4, <2>5 DEF IInv, Types
  <2>7. CutHolds'
    BY <1>2 DEF CutHolds
  <2>8. "line" \in missteps'
    BY <2>3, MisstepsAre
  <2>9. InText' /\ ColumnHeld'
    BY <2>8 DEF InText, ColumnHeld
  <2> QED
    BY <2>6, <2>7, <2>9 DEF IInv
<1> QED
  BY <1>3, <1>4

(* A cut of the selection, or of the whole line.                                 *)
LEMMA CutStep ==
  ASSUME IInv, editor_cmd_cut
  PROVE  IInv'
<1>1. PICK from : from = CutFrom
  OBVIOUS
<1>2. PICK to : to = CutTo
  OBVIOUS
<1>3. /\ InputTaken("pending") \/ InputTaken("command")
      /\ text' = Delete(text, from, to) /\ Missteps(IfNone(from))
      /\ newCursor' = from /\ cursor' = IF selection = -1 THEN to ELSE cursor
      /\ cursorCol' = -1 /\ goal' = -1 /\ selection' = -1 /\ pos' = pos
  BY <1>1, <1>2 DEF editor_cmd_cut, Edits
<1>4. cut' = IF from \in 0 .. Len(text)
             THEN [before |-> text, clip |-> Piece(text, from, Clamped(text, to))]
             ELSE NoCut
  BY <1>1, <1>2 DEF editor_cmd_cut, NotesCut
<1>5. Taken /\ frame' # "chars" /\ missteps \subseteq missteps'
  BY <1>3, InputIsTaken, MisstepsAre
<1>6. /\ frame' \in {"drawn", "pending", "command", "chars", "mouse"} /\ frame' # "drawn"
      /\ indexed' = indexed /\ (frame' = "pending" => frame = "drawn")
  BY <1>5 DEF Taken
<1>7. /\ text \in Seq(Ch) /\ indexed \in Seq(Ch) /\ cursor \in Nat
      /\ newCursor \in Nat \cup {-1} /\ Len(text) \in Nat
      /\ selection \in Nat \cup {-1} /\ pos \in [line : Nat, column : Nat]
      /\ frame = "drawn" => newCursor = cursor /\ indexed = text
  BY LenProperties DEF IInv, Types
<1>8. /\ from \in Nat \cup {-1} /\ to \in Nat /\ from <= to
      /\ selection = -1 => from \in Nat /\ from < to /\ from <= Len(indexed)
      /\ selection # -1 => from <= selection
  <2>1. CASE selection = -1
    <3>1. from = SelectedLine.start /\ to = BehindLine
      BY <1>1, <1>2, <2>1 DEF CutFrom, CutTo
    <3>2. /\ from \in Nat /\ to \in Nat /\ from < to /\ from <= Len(indexed)
      BY <1>7, <3>1, SelectedLineIs
    <3> QED
      BY <2>1, <3>2
  <2>2. CASE selection # -1
    <3>1. from = From /\ to = To
      BY <1>1, <1>2, <2>2 DEF CutFrom, CutTo
    <3> QED
      BY <1>7, <2>2, <3>1, SelectionEnds
  <2> QED
    BY <2>1, <2>2
<1>9. text' \in Seq(Ch)
  BY <1>3, <1>7, <1>8, EditIsText
<1>10. Types'
  BY <1>3, <1>6, <1>7, <1>8, <1>9 DEF Types
<1>11. CutHolds'
  <2> SUFFICES ASSUME cut' # NoCut
               PROVE  /\ selection' = -1 /\ newCursor' # -1 /\ cut'.before \in Seq(Ch)
                      /\ newCursor' <= to
                      /\ text' = Delete(cut'.before, newCursor', to)
                      /\ cut'.clip = Piece(cut'.before, newCursor', Clamped(cut'.before, to))
    BY <1>8 DEF CutHolds
  <2>1. /\ from \in 0 .. Len(text)
        /\ cut' = [before |-> text, clip |-> Piece(text, from, Clamped(text, to))]
    BY <1>4
  <2>2. cut'.before = text /\ cut'.clip = Piece(text, from, Clamped(text, to)) /\ from # -1
    BY <2>1
  <2> QED
    BY <1>3, <1>7, <1>8, <2>2
<1>12. ASSUME missteps' \subseteq {"column"}
       PROVE  /\ from \in Nat /\ from <= Len(text) /\ cursor <= Len(text)
              /\ text = indexed
              /\ newCursor # -1 => PosIs(text, cursor, pos)
              /\ newCursor = -1 => newCursor' # cursor'
  <2>1. from # -1
    BY <1>3, <1>12, NoneIs
  <2>2. /\ text = indexed /\ selection <= Len(text) /\ cursor <= Len(text)
        /\ newCursor # -1 => PosIs(text, cursor, pos)
        /\ newCursor = -1 => newCursor' # cursor'
    BY <1>3, <1>5, <1>12, ReadyIs
  <2> QED
    BY <1>7, <1>8, <2>1, <2>2
<1>13. ASSUME missteps' \subseteq {"column"}, selection # -1, newCursor # -1 \/ from = cursor,
              cursor <= from \/ text' = text
       PROVE  PosIs(text', cursor', pos)
  <2>1. cursor' = cursor /\ PosIs(text, cursor, pos) /\ from \in Nat /\ from <= Len(text)
    BY <1>3, <1>12, <1>13
  <2>2. CASE text' = text
    BY <2>1, <2>2
  <2>3. CASE cursor <= from
    <3>1. cursor <= Len(text') /\ \A i \in 1 .. cursor : text'[i] = text[i]
      BY <1>3, <1>7, <1>8, <1>12, <1>13, <2>1, <2>3, DeleteKeeps
    <3> QED
      BY <1>7, <1>9, <1>12, <1>13, <2>1, <3>1, PosKept
  <2> QED
    BY <1>13, <2>2, <2>3
<1>14. ASSUME missteps' \subseteq {"column"}, selection = -1, to <= Len(text)
       PROVE  text' # text
  <2>1. from \in Nat /\ from < to
    BY <1>8, <1>14
  <2>2. Clamped(text, from) = from /\ Clamped(text, to) = to
    BY <1>7, <1>8, <1>14, <2>1, ClampedIs
  <2>3. Len(text') = Len(text) - (to - from)
    <3>1. PICK f \in Nat : f = from /\ f <= to
      BY <1>8, <2>1
    <3>2. Len(Delete(text, f, to)) = Len(text) - (Clamped(text, to) - Clamped(text, f))
      BY <1>7, <1>8, <3>1, DeleteIs
    <3> QED
      BY <1>3, <2>2, <3>1, <3>2
  <2> QED
    BY <1>7, <1>8, <2>1, <2>3
<1>15. InText'
  <2> SUFFICES ASSUME missteps' \subseteq {"column"}
               PROVE  /\ from # -1 /\ from <= Len(text') /\ -1 <= Len(text')
                      /\ from = cursor' => PosIs(text', cursor', pos)
                      /\ frame' = "pending" /\ text' = indexed /\ cursor' <= Len(text') =>
                           PosIs(text', cursor', pos)
    BY <1>3, <1>6 DEF InText
  <2>1. /\ from \in Nat /\ from <= Len(text) /\ text = indexed
    BY <1>12
  <2>2. from <= Len(text')
    BY <1>3, <1>7, <1>8, <2>1, DeleteKeeps
  <2>3. Len(text') \in Nat
    BY <1>9, LenProperties
  <2>4. ASSUME from = cursor' PROVE PosIs(text', cursor', pos)
    <3>1. selection # -1 /\ from = cursor
      BY <1>3, <1>7, <1>8, <2>4
    <3>2. cursor <= from
      BY <2>1, <3>1
    <3> QED
      BY <1>13, <3>1, <3>2
  <2>5. ASSUME frame' = "pending", text' = indexed, cursor' <= Len(text')
        PROVE  PosIs(text', cursor', pos)
    <3>1. text' = text /\ newCursor # -1
      BY <1>6, <1>7, <2>1, <2>5
    <3>2. selection # -1
      <4> SUFFICES ASSUME selection = -1 PROVE FALSE
        OBVIOUS
      <4>1. to <= Len(text)
        BY <1>3, <2>5, <3>1
      <4> QED
        BY <1>14, <3>1, <4>1
    <3> QED
      BY <1>13, <3>1, <3>2
  <2> QED
    BY <2>1, <2>2, <2>3, <2>4, <2>5
<1>16. ColumnHeld'
  BY <1>3 DEF ColumnHeld
<1> QED
  BY <1>10, <1>11, <1>15, <1>16 DEF IInv

(* Undo and redo.                                                               *)
LEMMA UndoStep ==
  ASSUME IInv, editor_cmd_undo
  PROVE  IInv'
<1>1. /\ Runs /\ text' \in OtherTexts /\ selection' = selection /\ Stays
      /\ Missteps({"undo"})
  BY DEF editor_cmd_undo
<1>2. Taken /\ cut' = NoCut /\ "undo" \in missteps'
  BY <1>1, RunsIs, MisstepsAre
<1>3. /\ frame' \in {"drawn", "pending", "command", "chars", "mouse"} /\ frame' # "drawn"
      /\ indexed' = indexed
  BY <1>2 DEF Taken
<1>4. text' \in Seq(Ch)
  BY <1>1, CursorAssumption DEF Ch
<1>5. Types'
  BY <1>1, <1>3, <1>4 DEF IInv, Types, Stays
<1>6. CutHolds'
  BY <1>2 DEF CutHolds
<1>7. InText' /\ ColumnHeld'
  BY <1>2 DEF InText, ColumnHeld
<1> QED
  BY <1>5, <1>6, <1>7 DEF IInv

-----------------------------------------------------------------------------
(* Drawing, and the beginning.                                                 *)

(* A line is no shorter than the column that is drawn in it, which is the one that *)
(* is remembered if the line reaches as far.                                     *)
LEMMA ColumnIs ==
  ASSUME cursorCol \in Nat, NEW line, line.length \in Nat
  PROVE  /\ Column(line) \in Nat /\ Column(line) <= line.length
         /\ Column(line) = Min({cursorCol, line.length})
         /\ cursorCol <= line.length => Column(line) = cursorCol
<1>1. PICK n : n = line.length
  OBVIOUS
<1>2. Min({cursorCol, n}) = IF cursorCol <= n THEN cursorCol ELSE n
  BY <1>1, LeastOfTwo
<1>3. Column(line) = IF n <= cursorCol - 1 THEN n ELSE cursorCol
  BY <1>1 DEF Column
<1> QED
  BY <1>1, <1>2, <1>3

(* The frame is drawn, and the position and the column worked out anew.         *)
LEMMA DrawStep ==
  ASSUME IInv, Draw
  PROVE  IInv'
<1>1. /\ indexed' = text /\ text' = text /\ cursorCol' = cursorCol
      /\ selection' = selection /\ goal' = goal /\ cut' = cut /\ missteps' = missteps
      /\ \/ frame' = frame /\ frame # "drawn" /\ newCursor = -1
            /\ cursor' = cursor /\ newCursor' = newCursor /\ pos' = pos
         \/ /\ ~ (newCursor = -1 /\ cursorCol < 0)
            /\ frame' = "drawn" /\ editor_update_cursor
  BY DEF Draw, notes
<1>2. /\ text \in Seq(Ch) /\ cursor \in Nat /\ newCursor \in Nat \cup {-1}
      /\ pos \in [line : Nat, column : Nat] /\ cursorCol \in Nat \cup {-1}
      /\ goal \in Nat \cup {-1} /\ selection \in Nat \cup {-1}
      /\ frame \in {"drawn", "pending", "command", "chars", "mouse"}
  BY DEF IInv, Types
<1>3. ASSUME cursor' = cursor, newCursor' = newCursor, pos' = pos,
             \/ frame' = "drawn" /\ newCursor = cursor
             \/ frame' = frame /\ frame # "drawn" /\ newCursor = -1
      PROVE  IInv'
  <2>1. Types'
    BY <1>1, <1>2, <1>3 DEF Types
  <2>2. CutHolds'
    BY <1>1, <1>3 DEF IInv, CutHolds
  <2>3. InText'
    BY <1>1, <1>3 DEF IInv, InText
  <2>4. ColumnHeld'
    <3>1. newCursor' = -1 => frame' = frame
      BY <1>2, <1>3
    <3> QED
      BY <1>1, <1>3, <3>1 DEF IInv, ColumnHeld, Column
  <2> QED
    BY <2>1, <2>2, <2>3, <2>4 DEF IInv
<1>4. ASSUME editor_update_cursor, frame' = "drawn", newCursor = cursor PROVE IInv'
  BY <1>4, <1>3 DEF editor_update_cursor
<1>5. ASSUME editor_update_cursor, frame' = "drawn", newCursor # cursor, newCursor # -1
      PROVE  IInv'
  <2>1. PICK l : l = buffer_line_for_index(text, newCursor)
    OBVIOUS
  <2>2. /\ pos' = [line |-> l, column |-> newCursor - Line(text, l).start]
        /\ cursor' = newCursor /\ newCursor' = newCursor
    BY <1>1, <1>5, <2>1 DEF editor_update_cursor
  <2>3. newCursor \in Nat /\ InLine(text, l, newCursor)
    BY <1>2, <1>5, <2>1, SearchFinds
  <2>4. PosIs(text, newCursor, pos') /\ pos'.line \in Nat /\ pos'.column \in Nat
    <3>1. pos'.line = l /\ pos'.column = newCursor - Line(text, l).start
      BY <2>2
    <3> QED
      BY <1>2, <2>3, <3>1, PosFound
  <2>5. Types'
    <3>1. pos' \in [line : Nat, column : Nat]
      BY <2>2, <2>4
    <3> QED
      BY <1>1, <1>2, <1>5, <2>2, <2>3, <3>1 DEF Types
  <2>6. CutHolds'
    BY <1>1, <2>2 DEF IInv, CutHolds
  <2>7. InText'
    BY <1>1, <1>5, <2>2, <2>4 DEF IInv, InText
  <2>8. ColumnHeld'
    <3> SUFFICES ASSUME missteps = {} PROVE cursorCol = -1 /\ goal = -1
      BY <1>1 DEF ColumnHeld
    <3> QED
      BY <1>5 DEF IInv, ColumnHeld
  <2> QED
    BY <2>5, <2>6, <2>7, <2>8 DEF IInv
<1>6. ASSUME editor_update_cursor, frame' = "drawn", newCursor = -1, cursorCol # -1
      PROVE  IInv'
  <2>1. PICK line \in LinesAt(text, pos.line) :
          /\ pos' = [pos EXCEPT !.column = Column(line)]
          /\ newCursor' = line.start + Column(line)
          /\ cursor' = line.start + Column(line)
    BY <1>2, <1>6 DEF editor_update_cursor
  <2>2. PICK k : k = Column(line)
    OBVIOUS
  <2>3. pos.line \in Nat /\ pos.column \in Nat /\ cursorCol \in Nat
    BY <1>2, <1>6
  <2>4. /\ line.start \in Nat /\ line.length \in Nat
        /\ pos.line < LineCount(text) => line = Line(text, pos.line)
    BY <1>2, <2>3, LinesAtIs
  <2>5. k \in Nat /\ k <= line.length /\ (cursorCol <= line.length => k = cursorCol)
    BY <2>2, <2>3, <2>4, ColumnIs
  <2>6. /\ pos' \in [line : Nat, column : Nat] /\ pos'.line = pos.line /\ pos'.column = k
        /\ newCursor' = line.start + k /\ cursor' = line.start + k
        /\ newCursor' \in Nat /\ newCursor' # -1
    BY <1>2, <2>1, <2>2, <2>3, <2>4, <2>5
  <2>7. Types'
    BY <1>1, <1>2, <2>6 DEF Types
  <2>8. CutHolds'
    BY <1>1, <1>6 DEF IInv, CutHolds
  <2>9. InText'
    <3> SUFFICES ASSUME missteps \subseteq {"column"}
                 PROVE  /\ newCursor' <= Len(text) /\ selection <= Len(text)
                        /\ PosIs(text, cursor', pos')
      BY <1>1, <2>6 DEF InText
    <3>1. pos.line < LineCount(text) /\ selection <= Len(text)
      BY <1>6 DEF IInv, InText
    <3>2. line = Line(text, pos.line)
      BY <2>4, <3>1
    <3>3. PICK c : c = line.start + k
      OBVIOUS
    <3>4. PosIs(text, c, pos') /\ c <= Len(text)
      BY <1>2, <2>3, <2>5, <2>6, <3>1, <3>2, <3>3, PosInLine
    <3> QED
      BY <2>6, <3>1, <3>3, <3>4
  <2>10. ColumnHeld'
    <3> SUFFICES ASSUME missteps = {}
                 PROVE  /\ goal # -1 => cursorCol = goal
                        /\ k = Column(Line(text, pos.line))
                        /\ goal = -1 => k = cursorCol
      BY <1>1, <2>6 DEF ColumnHeld, Column
    <3>1. goal # -1 => cursorCol = goal
      BY DEF IInv, ColumnHeld
    <3>2. line = Line(text, pos.line)
      BY <1>6, <2>4 DEF IInv, InText
    <3>3. goal = -1 => cursorCol <= line.length
      BY <1>2, <1>6, <3>2 DEF IInv, ColumnHeld
    <3> QED
      BY <2>2, <2>5, <3>1, <3>2, <3>3
  <2> QED
    BY <2>7, <2>8, <2>9, <2>10 DEF IInv
<1> QED
  BY <1>1, <1>2, <1>4, <1>5, <1>6, <1>3

(* The invariant holds of an editor that has just been opened.                  *)
LEMMA InitGood == Init => IInv
<1> SUFFICES ASSUME Init PROVE IInv
  OBVIOUS
<1>1. /\ indexed = text
      /\ cursor = 0 /\ newCursor = 0 /\ pos = [line |-> 0, column |-> 0] /\ cursorCol = 0
      /\ selection = -1 /\ frame = "drawn" /\ goal = -1 /\ cut = NoCut /\ missteps = {}
  BY DEF Init
<1>2. text \in Seq(Ch)
  <2>1. text \in Seq(Typed)
    BY CursorAssumption DEF Init
  <2>2. Typed \subseteq Ch
    BY DEF Ch
  <2> QED
    BY <2>1, <2>2, SeqMonotonic
<1>3. Types
  <2>1. pos \in [line : Nat, column : Nat]
    BY <1>1
  <2> QED
    BY <1>1, <1>2, <2>1 DEF Types
<1>4. 0 \in Starts(text) /\ Starts(text) \in SUBSET Nat /\ 0 < LineCount(text)
  BY <1>2, StartsType
<1>5. PosIs(text, cursor, pos)
  <2>1. RankIn(Starts(text), 0) = 0
    <3>1. {r \in Starts(text) : r < 0} = {}
      BY <1>4
    <3> QED
      BY <3>1, FS_EmptySet DEF RankIn
  <2>2. pos.line = 0 /\ pos.column = 0 /\ cursor - pos.column = 0
    BY <1>1
  <2>3. \A i \in 0 .. 0 - 1 : FALSE
    OBVIOUS
  <2> QED
    BY <1>1, <1>4, <2>1, <2>2, <2>3 DEF PosIs
<1>6. InText
  BY <1>1, <1>2, <1>5, LenProperties DEF InText
<1>7. ColumnHeld
  <2>1. PICK line : line = Line(text, 0)
    OBVIOUS
  <2>2. line.length \in Nat
    BY <1>2, <1>4, <2>1, LineIs DEF IsLine
  <2>3. Column(line) = 0
    <3>1. cursorCol \in Nat /\ cursorCol <= line.length
      BY <1>1, <2>2
    <3> QED
      BY <1>1, <2>2, <3>1, ColumnIs
  <2> QED
    BY <1>1, <2>1, <2>3 DEF ColumnHeld
<1>8. CutHolds
  BY <1>1 DEF CutHolds
<1> QED
  BY <1>3, <1>6, <1>7, <1>8 DEF IInv

(* Every step keeps the invariant.                                              *)
LEMMA NextGood == IInv /\ [Next]_vars => IInv'
<1> SUFFICES ASSUME IInv, [Next]_vars PROVE IInv'
  OBVIOUS
<1>1. CASE Vertical
  BY <1>1, UpDownStep, ScrollStep, WheelStep DEF Vertical
<1>2. CASE Horizontal
  <2>1. ASSUME NEW select \in BOOLEAN,
               \/ editor_cmd_left(select) \/ editor_cmd_right(select)
               \/ editor_cmd_word_left(select) \/ editor_cmd_word_right(select)
               \/ editor_cmd_matching_brace(select)
        PROVE  IInv'
    BY <2>1, LeftStep, RightStep, WordLeftStep, WordRightStep, BraceStep
  <2>2. ASSUME NEW line \in 0 .. MaxText, NEW column \in 0 .. MaxText, editor_goto(line, column)
        PROVE  IInv'
    <3>1. line \in Nat /\ column \in Nat
      BY CursorAssumption
    <3> QED
      BY <2>2, <3>1, GotoStep
  <2>3. ASSUME NEW line \in 0 .. LineCount(indexed) - 1, NEW column \in 0 .. MaxText,
               Click(line, column)
        PROVE  IInv'
    <3>1. column \in Nat
      BY CursorAssumption
    <3> QED
      BY <2>3, <3>1, ClickStep
  <2>4. CASE \/ editor_cmd_begin_of_line \/ editor_cmd_end_of_line
             \/ editor_cmd_top \/ editor_cmd_bottom
             \/ editor_cmd_select_word \/ editor_cmd_clear_selection
             \/ editor_cmd_without_key \/ ReadsNothing
    BY <2>4, ColumnStep, TopBottomStep, SelectWordStep, ClearStep, FaultStep
  <2> QED
    BY <1>2, <2>1, <2>2, <2>3, <2>4 DEF Horizontal
<1>3. CASE Editing
  <2>1. ASSUME NEW ch \in Typed, editor_character(ch) PROVE IInv'
    BY <2>1, CharacterStep
  <2>2. ASSUME NEW clip \in Clips, editor_cmd_paste(clip) PROVE IInv'
    <3>1. clip \in Seq(Typed) /\ Typed \subseteq Ch
      BY CursorAssumption DEF Ch
    <3>2. clip \in Seq(Ch)
      BY <3>1, SeqMonotonic
    <3> QED
      BY <2>2, <3>2, PasteStep
  <2>3. ASSUME cut # NoCut, editor_cmd_paste(cut.clip) PROVE IInv'
    <3>1. PICK b : b = cut.before
      OBVIOUS
    <3>2. b \in Seq(Ch) /\ newCursor \in Nat
      BY <2>3, <3>1 DEF IInv, CutHolds, Types
    <3>3. PICK to \in Nat : cut.clip = Piece(b, newCursor, Clamped(b, to))
      BY <2>3, <3>1 DEF IInv, CutHolds
    <3>4. Clamped(b, to) \in 0 .. Len(b)
      BY <3>2, ClampedIs
    <3>5. cut.clip \in Seq(Ch)
      BY <3>2, <3>3, <3>4, PieceIs
    <3> QED
      BY <2>3, <3>5, PasteStep
  <2>4. CASE \/ editor_cmd_split_line \/ editor_cmd_merge_lines
             \/ editor_cmd_backspace \/ editor_cmd_delete_current_char
             \/ editor_cmd_copy \/ editor_cmd_cut \/ editor_cmd_undo
    BY <2>4, SplitStep, MergeStep, BackspaceStep, CopyStep, CutStep, UndoStep
  <2> QED
    BY <1>3, <2>1, <2>2, <2>3, <2>4 DEF Editing
<1>4. CASE Draw
  BY <1>4, DrawStep
<1>5. CASE UNCHANGED vars
  <2>1. /\ text' = text /\ cursor' = cursor /\ newCursor' = newCursor /\ pos' = pos
        /\ cursorCol' = cursorCol /\ selection' = selection /\ frame' = frame
        /\ indexed' = indexed /\ goal' = goal /\ cut' = cut /\ missteps' = missteps
    BY <1>5 DEF vars, view, notes
  <2>2. Types'
    BY <2>1 DEF IInv, Types
  <2>3. CutHolds'
    BY <2>1 DEF IInv, CutHolds
  <2>4. InText'
    BY <2>1 DEF IInv, InText
  <2>5. ColumnHeld'
    BY <2>1 DEF IInv, ColumnHeld, Column
  <2> QED
    BY <2>2, <2>3, <2>4, <2>5 DEF IInv
<1> QED
  BY <1>1, <1>2, <1>3, <1>4, <1>5 DEF Next

-----------------------------------------------------------------------------
(* Braces.                                                                    *)

(* How often a character occurs between two offsets, and how deep the braces of a  *)
(* kind are nested there.                                                       *)
Occurs(c, a, z) == Cardinality({k \in a .. z : At(text, k) = c})

Depth(b, a, z) == Occurs(b[1], a, z) - Occurs(b[2], a, z)

(* The number of occurrences is a number.                                       *)
LEMMA OccursType ==
  ASSUME NEW c, NEW a \in Int, NEW z \in Int
  PROVE  IsFiniteSet({k \in a .. z : At(text, k) = c}) /\ Occurs(c, a, z) \in Nat
<1>1. {k \in a .. z : At(text, k) = c} \in SUBSET (a .. z)
  OBVIOUS
<1>2. IsFiniteSet({k \in a .. z : At(text, k) = c})
  BY <1>1, FS_Interval, FS_Subset
<1> QED
  BY <1>2, FS_CardinalityType DEF Occurs

(* What occurs before and after some offset is what occurs.                       *)
LEMMA OccursSplit ==
  ASSUME NEW c, NEW a \in Int, NEW m \in Int, NEW z \in Int, a <= m + 1, m <= z
  PROVE  Occurs(c, a, z) = Occurs(c, a, m) + Occurs(c, m + 1, z)
<1> DEFINE A == {k \in a .. m : At(text, k) = c}
           B == {k \in m + 1 .. z : At(text, k) = c}
           W == {k \in a .. z : At(text, k) = c}
<1>1. IsFiniteSet(A) /\ IsFiniteSet(B) /\ Cardinality(A) \in Nat /\ Cardinality(B) \in Nat
  <2>1. m + 1 \in Int
    OBVIOUS
  <2> QED
    BY <2>1, OccursType DEF Occurs
<1>2. W = A \cup B
  <2>1. \A k : k \in a .. z <=> k \in a .. m \/ k \in m + 1 .. z
    OBVIOUS
  <2> QED
    BY <2>1, Zenon
<1>3. A \cap B = {}
  <2>1. \A k : ~ (k \in a .. m /\ k \in m + 1 .. z)
    OBVIOUS
  <2> QED
    BY <2>1, Zenon
<1> HIDE DEF A, B, W
<1>4. Cardinality(A \cup B) = Cardinality(A) + Cardinality(B) - Cardinality(A \cap B)
  BY <1>1, FS_Union
<1>5. Cardinality(A \cap B) = 0
  BY <1>3, FS_EmptySet
<1>6. Cardinality(W) = Cardinality(A) + Cardinality(B)
  BY <1>1, <1>2, <1>4, <1>5
<1> QED
  BY <1>6 DEF Occurs, A, B, W

(* A single character.                                                         *)
LEMMA OccursOnce ==
  ASSUME NEW c, NEW a \in Int
  PROVE  Occurs(c, a, a) = IF At(text, a) = c THEN 1 ELSE 0
<1>1. a .. a = {a}
  OBVIOUS
<1>2. CASE At(text, a) = c
  <2>1. {k \in a .. a : At(text, k) = c} = {a}
    BY <1>1, <1>2
  <2> QED
    BY <1>2, <2>1, FS_Singleton DEF Occurs
<1>3. CASE At(text, a) # c
  <2>1. {k \in a .. a : At(text, k) = c} = {}
    BY <1>1, <1>3
  <2> QED
    BY <1>3, <2>1, FS_EmptySet DEF Occurs
<1> QED
  BY <1>2, <1>3

(* The depth of a text in two parts, and of a single character of it.              *)
LEMMA DepthIs ==
  ASSUME NEW b \in Braces
  PROVE  /\ \A a, z \in Int : Depth(b, a, z) \in Int
         /\ \A a, z \in Int : z < a => Depth(b, a, z) = 0
         /\ \A a, m, z \in Int :
              a <= m + 1 /\ m <= z => Depth(b, a, z) = Depth(b, a, m) + Depth(b, m + 1, z)
         /\ \A a \in Int : /\ At(text, a) = b[1] => Depth(b, a, a) = 1
                           /\ At(text, a) = b[2] => Depth(b, a, a) = -1
                           /\ At(text, a) \notin {b[1], b[2]} => Depth(b, a, a) = 0
<1>1. \A a, z \in Int : Occurs(b[1], a, z) \in Nat /\ Occurs(b[2], a, z) \in Nat
  BY OccursType
<1>2. ASSUME NEW a \in Int, NEW z \in Int, z < a PROVE Depth(b, a, z) = 0
  <2>1. \A k : ~ (k \in a .. z)
    BY <1>2
  <2>2. /\ {k \in a .. z : At(text, k) = b[1]} = {}
        /\ {k \in a .. z : At(text, k) = b[2]} = {}
    BY <2>1, Zenon
  <2> QED
    BY <2>2, FS_EmptySet DEF Depth, Occurs
<1>3. ASSUME NEW a \in Int, NEW m \in Int, NEW z \in Int, a <= m + 1, m <= z
      PROVE  Depth(b, a, z) = Depth(b, a, m) + Depth(b, m + 1, z)
  <2>1. m + 1 \in Int
    OBVIOUS
  <2>2. Occurs(b[1], a, z) = Occurs(b[1], a, m) + Occurs(b[1], m + 1, z)
    BY <1>3, OccursSplit
  <2>3. Occurs(b[2], a, z) = Occurs(b[2], a, m) + Occurs(b[2], m + 1, z)
    BY <1>3, OccursSplit
  <2> QED
    BY <1>1, <2>1, <2>2, <2>3 DEF Depth
<1>4. ASSUME NEW a \in Int
      PROVE  /\ At(text, a) = b[1] => Depth(b, a, a) = 1
             /\ At(text, a) = b[2] => Depth(b, a, a) = -1
             /\ At(text, a) \notin {b[1], b[2]} => Depth(b, a, a) = 0
  <2>1. b[1] # b[2]
    BY CursorAssumption
  <2>2. /\ Occurs(b[1], a, a) = IF At(text, a) = b[1] THEN 1 ELSE 0
        /\ Occurs(b[2], a, a) = IF At(text, a) = b[2] THEN 1 ELSE 0
    BY OccursOnce
  <2> QED
    BY <2>1, <2>2 DEF Depth
<1>5. \A a, z \in Int : Depth(b, a, z) \in Int
  BY <1>1 DEF Depth
<1> QED
  BY <1>2, <1>3, <1>4, <1>5

(* A piece is as deep as the text is there.                                      *)
LEMMA OccursInPiece ==
  ASSUME text \in Seq(Ch), NEW from \in Nat, NEW to \in 0 .. Len(text), from <= to,
         NEW n \in 0 .. to - from, NEW c
  PROVE  Cardinality({i \in 1 .. n : Piece(text, from, to)[i] = c}) = Occurs(c, from, from + n - 1)
<1>1. PICK p : p = Piece(text, from, to)
  OBVIOUS
<1>2. Len(text) \in Nat /\ to \in Nat /\ \A i \in 1 .. to - from : p[i] = text[from + i]
  <2>1. Len(text) \in Nat /\ to \in Nat
    BY LenProperties
  <2>2. \A i \in 1 .. to - from : Piece(text, from, to)[i] = text[from + i]
    BY PieceIs
  <2> QED
    BY <1>1, <2>1, <2>2
<1> DEFINE A == {i \in 1 .. n : p[i] = c}
           B == {k \in from .. from + n - 1 : At(text, k) = c}
           f == [i \in A |-> from + i - 1]
<1>3. ASSUME NEW i \in 1 .. n PROVE p[i] = At(text, from + i - 1)
  <2>1. i \in 1 .. to - from /\ from + i - 1 \in 0 .. Len(text) - 1 /\ (from + i - 1) + 1 = from + i
    BY <1>2
  <2> QED
    BY <1>2, <2>1 DEF At
<1>4. ASSUME NEW i \in A PROVE from + i - 1 \in B
  BY <1>3
<1>5. ASSUME NEW k \in B PROVE \E i \in A : k = from + i - 1
  <2>1. k - from + 1 \in 1 .. n /\ from + (k - from + 1) - 1 = k
    OBVIOUS
  <2>2. p[k - from + 1] = c
    BY <1>3, <2>1
  <2> QED
    BY <2>1, <2>2
<1>6. \A i, j \in A : from + i - 1 = from + j - 1 => i = j
  OBVIOUS
<1>7. IsFiniteSet(A)
  <2>1. IsFiniteSet(1 .. n)
    BY FS_Interval
  <2> QED
    BY <2>1, FS_Subset
<1> HIDE DEF A, B
<1>8. f \in [A -> B]
  BY <1>4
<1>9. \A i, j \in A : f[i] = f[j] => i = j
  BY <1>6
<1>10. \A k \in B : \E i \in A : f[i] = k
  BY <1>5
<1> HIDE DEF f
<1>11. f \in Injection(A, B)
  BY <1>8, <1>9 DEF Injection, IsInjective
<1>12. f \in Surjection(A, B)
  BY <1>8, <1>10 DEF Surjection
<1>13. ExistsBijection(A, B)
  BY <1>11, <1>12 DEF Bijection, ExistsBijection
<1>14. Cardinality(B) = Cardinality(A)
  BY <1>7, <1>13, FS_Bijection
<1> QED
  BY <1>1, <1>14 DEF A, B, Occurs

(* A piece in which the depth ends at zero and never falls below is balanced.   *)
LEMMA BalancedIs ==
  ASSUME text \in Seq(Ch), NEW b \in Braces, NEW from \in Nat, NEW to \in 0 .. Len(text),
         from <= to, Depth(b, from, to - 1) = 0,
         \A z \in from .. to - 1 : Depth(b, from, z) >= 0
  PROVE  Balanced(Piece(text, from, to), b)
<1>1. PICK p : p = Piece(text, from, to)
  OBVIOUS
<1>2. Len(text) \in Nat /\ to \in Nat /\ Len(p) = to - from
  <2>1. Len(text) \in Nat /\ to \in Nat
    BY LenProperties
  <2>2. Len(Piece(text, from, to)) = IF from <= to THEN to - from ELSE 0
    BY PieceIs
  <2> QED
    BY <1>1, <2>1, <2>2
<1> DEFINE depth(n) == Cardinality({i \in 1 .. n : p[i] = b[1]})
                         - Cardinality({i \in 1 .. n : p[i] = b[2]})
<1>3. ASSUME NEW n \in 0 .. to - from PROVE depth(n) = Depth(b, from, from + n - 1)
  BY <1>1, OccursInPiece DEF Depth
<1> HIDE DEF depth
<1>4. depth(Len(p)) = 0
  <2>1. to - from \in 0 .. to - from /\ from + (to - from) - 1 = to - 1
    BY <1>2
  <2> QED
    BY <1>2, <1>3, <2>1
<1>5. ASSUME NEW n \in 1 .. Len(p) PROVE depth(n) >= 0
  <2>1. n \in 0 .. to - from /\ from + n - 1 \in from .. to - 1
    BY <1>2
  <2> QED
    BY <1>3, <2>1
<1> QED
  BY <1>1, <1>4, <1>5 DEF Balanced, depth

(* A brace is of one kind.                                                      *)
LEMMA BraceAtIs ==
  ASSUME NEW i, OpenAt(i) \/ CloseAt(i)
  PROVE  /\ BraceAt(i) \in Braces
         /\ OpenAt(i) => At(text, i) = BraceAt(i)[1]
         /\ ~ OpenAt(i) => At(text, i) = BraceAt(i)[2]
<1>1. \E b \in Braces : At(text, i) \in {b[1], b[2]}
  BY DEF OpenAt, CloseAt
<1>2. BraceAt(i) \in Braces /\ At(text, i) \in {BraceAt(i)[1], BraceAt(i)[2]}
  BY <1>1 DEF BraceAt
<1>3. \A b, c \in Braces : b[1] # c[2]
  BY CursorAssumption
<1> QED
  BY <1>2, <1>3 DEF OpenAt, CloseAt

(* The depth from an opening brace on is above zero until the first brace that      *)
(* closes at depth zero, by induction on the distance.                           *)
LEMMA ClosingMatches ==
  ASSUME text \in Seq(Ch), NEW i \in Nat, OpenAt(i), NEW j, Closing(i) # {}, j = Min(Closing(i))
  PROVE  /\ j \in Nat /\ At(text, i) = BraceAt(i)[1] /\ At(text, j) = BraceAt(i)[2]
         /\ Balanced(Piece(text, i + 1, j), BraceAt(i))
<1>1. PICK b \in Braces : b = BraceAt(i)
  BY BraceAtIs
<1>2. At(text, i) = b[1] /\ Len(text) \in Nat
  BY <1>1, BraceAtIs, LenProperties
<1>3. Closing(i) = {k \in i + 1 .. Len(text) - 1 : At(text, k) = b[2] /\ Depth(b, i, k) = 0}
  <2>1. ASSUME NEW k \in i + 1 .. Len(text) - 1 PROVE Nesting(i, k) = Depth(b, i, k)
    <3>1. Min({i, k}) = i /\ Max({i, k}) = k
      BY <1>2, LeastOfTwo, GreatestOfTwo
    <3> QED
      BY <1>1, <3>1 DEF Nesting, Depth, Occurs
  <2> QED
    BY <1>1, <2>1 DEF Closing
<1>4. /\ j \in i + 1 .. Len(text) - 1 /\ At(text, j) = b[2] /\ Depth(b, i, j) = 0
      /\ \A k \in Closing(i) : j <= k
  <2>1. Closing(i) \in SUBSET Nat
    BY <1>2, <1>3
  <2>2. j \in Closing(i) /\ \A k \in Closing(i) : j <= k
    BY <2>1, LeastMember
  <2> QED
    BY <1>3, <2>2
<1>5. j \in Nat /\ i < j /\ j < Len(text)
  BY <1>2, <1>4
<1> DEFINE D == {d \in Nat : i + d < j => Depth(b, i, i + d) >= 1}
<1>6. 0 \in D
  <2>1. Depth(b, i, i) = 1
    <3>1. i \in Int
      BY <1>5
    <3> HIDE DEF D
    <3> QED
      BY <1>2, <3>1, DepthIs
  <2> QED
    BY <2>1
<1>7. ASSUME NEW d \in D PROVE d + 1 \in D
  <2> SUFFICES ASSUME i + (d + 1) < j PROVE Depth(b, i, i + (d + 1)) >= 1
    OBVIOUS
  <2>1. d \in Nat /\ Depth(b, i, i + d) >= 1
    BY <1>5
  <2>2. PICK k : k = i + (d + 1)
    OBVIOUS
  <2>3. k \in Int /\ i + d \in Int /\ k = (i + d) + 1 /\ k \in i + 1 .. Len(text) - 1 /\ k < j
    BY <1>5, <2>1, <2>2
  <2> HIDE DEF D
  <2>4. Depth(b, i, k) = Depth(b, i, i + d) + Depth(b, k, k)
    <3>1. i <= (i + d) + 1 /\ i + d <= k /\ i \in Int
      BY <2>1, <2>3
    <3>2. Depth(b, i, k) = Depth(b, i, i + d) + Depth(b, (i + d) + 1, k)
      BY <2>3, <3>1, DepthIs
    <3> QED
      BY <2>3, <3>2
  <2>5. /\ Depth(b, i, i + d) \in Int /\ Depth(b, k, k) \in {-1, 0, 1}
        /\ Depth(b, k, k) = -1 => At(text, k) = b[2]
    <3>1. Depth(b, i, i + d) \in Int
      <4>1. i \in Int
        BY <1>5
      <4> QED
        BY <2>3, <4>1, DepthIs
    <3>2. /\ At(text, k) = b[1] => Depth(b, k, k) = 1
          /\ At(text, k) = b[2] => Depth(b, k, k) = -1
          /\ At(text, k) \notin {b[1], b[2]} => Depth(b, k, k) = 0
      BY <2>3, DepthIs
    <3> QED
      BY <3>1, <3>2
  <2>6. ~ (At(text, k) = b[2] /\ Depth(b, i, k) = 0)
    <3>1. ~ (k \in Closing(i))
      BY <1>4, <1>5, <2>3
    <3> QED
      BY <1>3, <2>3, <3>1
  <2>7. Depth(b, i, k) >= 1
    BY <2>1, <2>4, <2>5, <2>6
  <2> QED
    BY <2>2, <2>7
<1>8. D = Nat
  <2>1. D \in SUBSET Nat
    OBVIOUS
  <2> HIDE DEF D
  <2> QED
    BY <1>6, <1>7, <2>1, SetInduction
<1>9. ASSUME NEW z \in i .. j - 1 PROVE Depth(b, i, z) >= 1
  <2>1. \A d \in Nat : i + d < j => Depth(b, i, i + d) >= 1
    BY <1>8
  <2> HIDE DEF D
  <2>2. z - i \in Nat /\ i + (z - i) < j /\ i + (z - i) = z
    BY <1>5
  <2>3. PICK d \in Nat : d = z - i
    BY <2>2
  <2>4. i + d < j /\ i + d = z
    BY <2>2, <2>3
  <2>5. Depth(b, i, i + d) >= 1
    BY <2>1, <2>4
  <2> QED
    BY <2>4, <2>5
<1> HIDE DEF D
<1>10. ASSUME NEW z \in i .. j - 1
       PROVE  Depth(b, i, z) = 1 + Depth(b, i + 1, z) /\ Depth(b, i + 1, z) \in Int
  <2>1. z \in Int /\ i \in Int /\ i + 1 \in Int /\ i <= i + 1 /\ i <= z
    BY <1>5
  <2>2. Depth(b, i, z) = Depth(b, i, i) + Depth(b, i + 1, z) /\ Depth(b, i + 1, z) \in Int
    BY <2>1, DepthIs
  <2>3. Depth(b, i, i) = 1
    BY <1>2, <2>1, DepthIs
  <2> QED
    BY <2>2, <2>3
<1>11. ASSUME NEW z \in i + 1 .. j - 1 PROVE Depth(b, i + 1, z) >= 0
  <2>1. z \in i .. j - 1
    BY <1>5
  <2> QED
    BY <1>9, <1>10, <2>1
<1>12. Depth(b, i + 1, j - 1) = 0
  <2>1. j - 1 \in i .. j - 1 /\ j - 1 \in Int /\ j \in Int /\ i \in Int /\ i <= (j - 1) + 1
        /\ j - 1 <= j /\ (j - 1) + 1 = j
    BY <1>5
  <2>2. Depth(b, i, j) = Depth(b, i, j - 1) + Depth(b, (j - 1) + 1, j)
    BY <2>1, DepthIs
  <2>3. Depth(b, j, j) = -1 /\ Depth(b, i, j - 1) \in Int
    BY <1>4, <2>1, DepthIs
  <2>4. Depth(b, i, j - 1) = 1
    BY <1>4, <2>1, <2>2, <2>3
  <2> QED
    BY <1>10, <2>1, <2>4
<1>13. Balanced(Piece(text, i + 1, j), b)
  <2>1. i + 1 \in Nat /\ j \in 0 .. Len(text) /\ i + 1 <= j
    BY <1>2, <1>5
  <2> QED
    BY <1>11, <1>12, <2>1, BalancedIs
<1> QED
  BY <1>1, <1>2, <1>4, <1>5, <1>13

(* Backwards from a closing brace the depth is below zero, so that what is left    *)
(* behind any prefix of the piece is no deeper than what is before.               *)
LEMMA OpeningMatches ==
  ASSUME text \in Seq(Ch), NEW i \in Nat, i < Len(text), CloseAt(i), ~ OpenAt(i),
         NEW j, OpeningOf(i) # {}, j = Max(OpeningOf(i))
  PROVE  /\ j \in Nat /\ At(text, i) = BraceAt(i)[2] /\ At(text, j) = BraceAt(i)[1]
         /\ Balanced(Piece(text, j + 1, i), BraceAt(i))
<1>1. PICK b \in Braces : b = BraceAt(i)
  BY BraceAtIs
<1>2. At(text, i) = b[2] /\ Len(text) \in Nat
  BY <1>1, BraceAtIs, LenProperties
<1>3. OpeningOf(i) = {k \in 0 .. i - 1 : At(text, k) = b[1] /\ Depth(b, k, i) = 0}
  <2>1. ASSUME NEW k \in 0 .. i - 1 PROVE Nesting(i, k) = Depth(b, k, i)
    <3>1. Min({i, k}) = k /\ Max({i, k}) = i
      BY LeastOfTwo, GreatestOfTwo
    <3> QED
      BY <1>1, <3>1 DEF Nesting, Depth, Occurs
  <2> QED
    BY <1>1, <2>1 DEF OpeningOf
<1>4. /\ j \in 0 .. i - 1 /\ At(text, j) = b[1] /\ Depth(b, j, i) = 0
      /\ \A k \in OpeningOf(i) : k <= j
  <2>1. OpeningOf(i) \in SUBSET (0 .. i)
    BY <1>3
  <2>2. j \in OpeningOf(i) /\ \A k \in OpeningOf(i) : k <= j
    BY <2>1, GreatestMember
  <2> QED
    BY <1>3, <2>2
<1>5. j \in Nat /\ j < i
  BY <1>4
<1> DEFINE D == {d \in Nat : j < i - d => Depth(b, i - d, i) <= -1}
<1>6. 0 \in D
  <2>1. Depth(b, i, i) = -1
    <3>1. i \in Int
      BY <1>5
    <3> HIDE DEF D
    <3> QED
      BY <1>2, <3>1, DepthIs
  <2> QED
    BY <2>1
<1>7. ASSUME NEW d \in D PROVE d + 1 \in D
  <2> SUFFICES ASSUME j < i - (d + 1) PROVE Depth(b, i - (d + 1), i) <= -1
    OBVIOUS
  <2>1. d \in Nat /\ Depth(b, i - d, i) <= -1
    BY <1>5
  <2>2. PICK k : k = i - (d + 1)
    OBVIOUS
  <2>3. k \in Int /\ i - d \in Int /\ i - d = k + 1 /\ k \in 0 .. i - 1 /\ j < k
    BY <1>5, <2>1, <2>2
  <2> HIDE DEF D
  <2>4. Depth(b, k, i) = Depth(b, k, k) + Depth(b, i - d, i)
    <3>1. k <= k + 1 /\ k <= i /\ i \in Int
      BY <2>1, <2>3
    <3>2. Depth(b, k, i) = Depth(b, k, k) + Depth(b, k + 1, i)
      BY <2>3, <3>1, DepthIs
    <3> QED
      BY <2>3, <3>2
  <2>5. /\ Depth(b, i - d, i) \in Int /\ Depth(b, k, k) \in {-1, 0, 1}
        /\ Depth(b, k, k) = 1 => At(text, k) = b[1]
    <3>1. Depth(b, i - d, i) \in Int
      <4>1. i \in Int
        BY <1>5
      <4> QED
        BY <2>3, <4>1, DepthIs
    <3>2. /\ At(text, k) = b[1] => Depth(b, k, k) = 1
          /\ At(text, k) = b[2] => Depth(b, k, k) = -1
          /\ At(text, k) \notin {b[1], b[2]} => Depth(b, k, k) = 0
      BY <2>3, DepthIs
    <3> QED
      BY <3>1, <3>2
  <2>6. ~ (At(text, k) = b[1] /\ Depth(b, k, i) = 0)
    <3>1. ~ (k \in OpeningOf(i))
      BY <1>4, <1>5, <2>3
    <3> QED
      BY <1>3, <2>3, <3>1
  <2>7. Depth(b, k, i) <= -1
    BY <2>1, <2>4, <2>5, <2>6
  <2> QED
    BY <2>2, <2>7
<1>8. D = Nat
  <2>1. D \in SUBSET Nat
    OBVIOUS
  <2> HIDE DEF D
  <2> QED
    BY <1>6, <1>7, <2>1, SetInduction
<1>9. ASSUME NEW z \in j + 1 .. i PROVE Depth(b, z, i) <= -1
  <2>1. \A d \in Nat : j < i - d => Depth(b, i - d, i) <= -1
    BY <1>8
  <2> HIDE DEF D
  <2>2. i - z \in Nat /\ j < i - (i - z) /\ i - (i - z) = z
    BY <1>5
  <2>3. PICK d \in Nat : d = i - z
    BY <2>2
  <2>4. j < i - d /\ i - d = z
    BY <2>2, <2>3
  <2>5. Depth(b, i - d, i) <= -1
    BY <2>1, <2>4
  <2> QED
    BY <2>4, <2>5
<1> HIDE DEF D
<1>10. Depth(b, j, i) = 1 + Depth(b, j + 1, i) /\ Depth(b, j + 1, i) \in Int
  <2>1. i \in Int /\ j \in Int /\ j + 1 \in Int /\ j <= j + 1 /\ j <= i
    BY <1>5
  <2>2. Depth(b, j, i) = Depth(b, j, j) + Depth(b, j + 1, i) /\ Depth(b, j + 1, i) \in Int
    BY <2>1, DepthIs
  <2>3. Depth(b, j, j) = 1
    BY <1>4, <2>1, DepthIs
  <2> QED
    BY <2>2, <2>3
<1>11. ASSUME NEW z \in j + 1 .. i - 1
       PROVE  /\ Depth(b, j + 1, z) \in Int
              /\ Depth(b, j + 1, i) = Depth(b, j + 1, z) + Depth(b, z + 1, i)
  <2>1. z \in Int /\ j + 1 \in Int /\ i \in Int /\ j + 1 <= z + 1 /\ z <= i
    BY <1>5
  <2> QED
    BY <2>1, DepthIs
<1>12. ASSUME NEW z \in j + 1 .. i - 1 PROVE Depth(b, j + 1, z) >= 0
  <2>1. z + 1 \in j + 1 .. i /\ z + 1 \in Int /\ i \in Int
    BY <1>5
  <2>2. Depth(b, z + 1, i) <= -1 /\ Depth(b, z + 1, i) \in Int
    BY <1>9, <2>1, DepthIs
  <2> QED
    BY <1>4, <1>10, <1>11, <2>2
<1>13. Depth(b, j + 1, i - 1) = 0
  <2>1. i - 1 \in Int /\ i \in Int /\ j + 1 \in Int /\ j + 1 <= (i - 1) + 1 /\ i - 1 <= i
        /\ (i - 1) + 1 = i
    BY <1>5
  <2>2. Depth(b, j + 1, i) = Depth(b, j + 1, i - 1) + Depth(b, (i - 1) + 1, i)
    BY <2>1, DepthIs
  <2>3. Depth(b, i, i) = -1 /\ Depth(b, j + 1, i - 1) \in Int
    BY <1>2, <2>1, DepthIs
  <2> QED
    BY <1>4, <1>10, <2>1, <2>2, <2>3
<1>14. Balanced(Piece(text, j + 1, i), b)
  <2>1. j + 1 \in Nat /\ i \in 0 .. Len(text) /\ j + 1 <= i
    BY <1>2, <1>5
  <2> QED
    BY <1>12, <1>13, <2>1, BalancedIs
<1> QED
  BY <1>1, <1>2, <1>4, <1>5, <1>14

-----------------------------------------------------------------------------
(* Theorems.                                                                  *)

(* The invariant: what the text, the two cursors, the position, the column that   *)
(* is remembered and the last cut have to do with each other.                     *)
THEOREM Invariance == Spec => []IInv
BY InitGood, NextGood, PTL DEF Spec

(* The cursor and the selection lie in the text, after any session without one of *)
(* the missteps that are known to lead astray, of any length over any text.       *)
THEOREM CursorStaysInText == Spec => []CursorInText
<1>1. IInv => CursorInText
  <2> SUFFICES ASSUME IInv, missteps \subseteq {"column"}
               PROVE  /\ newCursor \in -1 .. Len(text) /\ selection \in -1 .. Len(text)
                      /\ frame = "drawn" => cursor \in 0 .. Len(text)
    BY DEF CursorInText
  <2>1. /\ cursor \in Nat /\ newCursor \in Nat \cup {-1} /\ selection \in Nat \cup {-1}
        /\ text \in Seq(Ch) /\ newCursor <= Len(text) /\ selection <= Len(text)
        /\ frame = "drawn" => newCursor = cursor
    BY DEF IInv, Types, InText
  <2>2. Len(text) \in Nat
    BY <2>1, LenProperties
  <2> QED
    BY <2>1, <2>2
<1> QED
  BY <1>1, Invariance, PTL

(* The line and the column that are drawn are those of the cursor: the binary      *)
(* search and the counting of columns agree with the newlines before the cursor.   *)
THEOREM PosFollowsCursor == Spec => []PosIsOfCursor
<1>1. IInv => PosIsOfCursor
  <2> SUFFICES ASSUME IInv, frame = "drawn", missteps \subseteq {"column"}
               PROVE  /\ pos.line = Cardinality({i \in 0 .. cursor - 1 : At(text, i) = Newline})
                      /\ \A i \in cursor - pos.column .. cursor - 1 : At(text, i) # Newline
                      /\ cursor - pos.column \in Starts(text)
    BY DEF PosIsOfCursor
  <2>1. /\ text \in Seq(Ch) /\ cursor \in Nat /\ cursor <= Len(text)
        /\ PosIs(text, cursor, pos)
    BY DEF IInv, Types, InText
  <2>2. pos \in [line : Nat, column : Nat]
    BY DEF IInv, Types
  <2>3. pos.line = Cardinality({i \in 0 .. cursor - 1 : At(text, i) = Newline})
    BY <2>1, <2>2, PosCounts
  <2> QED
    BY <2>1, <2>3 DEF PosIs
<1> QED
  BY <1>1, Invariance, PTL

(* Moving up and down over lines of any length keeps the column it started from,   *)
(* as far as the lines reach.                                                   *)
THEOREM ColumnKept == Spec => []VerticalKeepsColumn
<1>1. IInv => VerticalKeepsColumn
  <2> SUFFICES ASSUME IInv, frame = "drawn", goal # -1, missteps = {}
               PROVE  pos.column = Min({goal, Line(text, pos.line).length})
    BY DEF VerticalKeepsColumn
  <2>1. /\ text \in Seq(Ch) /\ newCursor = cursor /\ cursor \in Nat
        /\ pos \in [line : Nat, column : Nat] /\ PosIs(text, cursor, pos)
    BY DEF IInv, Types, InText
  <2>2. PICK line : line = Line(text, pos.line)
    OBVIOUS
  <2>3. pos.line \in Nat /\ goal \in Nat
    BY DEF IInv, Types
  <2>4. line.length \in Nat
    <3>1. pos.line < LineCount(text)
      BY <2>1, PosLine
    <3> QED
      BY <2>1, <2>2, <2>3, <3>1, LineIs DEF IsLine
  <2>5. cursorCol = goal /\ pos.column = Column(line)
    BY <2>1, <2>2, <2>3 DEF IInv, ColumnHeld
  <2> QED
    BY <2>2, <2>3, <2>4, <2>5, ColumnIs
<1> QED
  BY <1>1, Invariance, PTL

(* Pasting what was just cut gives back the text, whatever was selected from       *)
(* where the text begins on, when the cursor or the end of it is astray too.       *)
THEOREM CutRestored == Spec => CutPasteRestores
<1>1. IInv /\ [Next]_vars =>
        [cut # NoCut /\ editor_cmd_paste(cut.clip) => text' = cut.before]_vars
  <2> SUFFICES ASSUME IInv, cut # NoCut, editor_cmd_paste(cut.clip)
               PROVE  text' = cut.before
    OBVIOUS
  <2>1. PICK b : b = cut.before
    OBVIOUS
  <2>2. b \in Seq(Ch) /\ newCursor \in Nat /\ selection = -1
    BY <2>1 DEF IInv, CutHolds, Types
  <2>3. PICK to \in Nat : /\ newCursor <= to
                          /\ text = Delete(b, newCursor, to)
                          /\ cut.clip = Piece(b, newCursor, Clamped(b, to))
    BY <2>1 DEF IInv, CutHolds
  <2>4. text' = Insert(text, cut.clip, newCursor)
    BY <2>2 DEF editor_cmd_paste, Puts, Edits
  <2> QED
    BY <2>1, <2>2, <2>3, <2>4, PutBack
<1> QED
  BY <1>1, Invariance, PTL DEF Spec, CutPasteRestores

(* A jump to the matching brace goes from a brace to one of the same kind with       *)
(* balanced text in between, in every text that the cursor has not been left behind *)
(* of, and for all kinds of braces.                                             *)
THEOREM BraceMatched == Spec => BraceIsMatched
<1> DEFINE Matched ==
             \A select \in BOOLEAN :
               editor_cmd_matching_brace(select) /\ newCursor' # newCursor
                   /\ cursor <= Len(text) =>
                 \E i \in {cursor - 1, cursor}, b \in Braces :
                   \/ /\ At(text, i) = b[1] /\ At(text, newCursor' - 1) = b[2]
                      /\ Balanced(Piece(text, i + 1, newCursor' - 1), b)
                   \/ /\ At(text, i) = b[2] /\ At(text, newCursor') = b[1]
                      /\ Balanced(Piece(text, newCursor' + 1, i), b)
<1>1. IInv /\ [Next]_vars => [Matched]_vars
  <2> SUFFICES ASSUME IInv, NEW select \in BOOLEAN, editor_cmd_matching_brace(select),
                      newCursor' # newCursor, cursor <= Len(text)
               PROVE  \E i \in {cursor - 1, cursor}, b \in Braces :
                        \/ /\ At(text, i) = b[1] /\ At(text, newCursor' - 1) = b[2]
                           /\ Balanced(Piece(text, i + 1, newCursor' - 1), b)
                        \/ /\ At(text, i) = b[2] /\ At(text, newCursor') = b[1]
                           /\ Balanced(Piece(text, newCursor' + 1, i), b)
    OBVIOUS
  <2>1. text \in Seq(Ch) /\ Len(text) \in Nat
    BY LenProperties DEF IInv, Types
  <2>2. ~ NoBrace
    BY DEF NoBrace, Stops, view
  <2>3. PICK i \in {cursor - 1, cursor} : (OpenAt(i) \/ CloseAt(i)) /\ MovesToBrace(i, select)
    BY <2>2 DEF editor_cmd_matching_brace, BraceByCursor
  <2>4. i \in Nat /\ i < Len(text)
    BY <2>1, <2>3, BraceInText
  <2>5. BraceAt(i) \in Braces
    BY <2>3, BraceAtIs
  <2>6. CASE OpenAt(i)
    <3>1. PICK j : j = Min(Closing(i))
      OBVIOUS
    <3>2. Closing(i) # {} /\ newCursor' = j + 1
      BY <2>3, <2>6, <3>1 DEF MovesToBrace, Stays, Moves
    <3>3. /\ j \in Nat /\ At(text, i) = BraceAt(i)[1] /\ At(text, j) = BraceAt(i)[2]
          /\ Balanced(Piece(text, i + 1, j), BraceAt(i))
      BY <2>1, <2>4, <2>6, <3>1, <3>2, ClosingMatches
    <3>4. newCursor' - 1 = j
      BY <3>2, <3>3
    <3> QED
      BY <2>5, <3>3, <3>4
  <2>7. CASE ~ OpenAt(i)
    <3>1. PICK j : j = Max(OpeningOf(i))
      OBVIOUS
    <3>2. OpeningOf(i) # {} /\ newCursor' = j
      BY <2>3, <2>7, <3>1 DEF MovesToBrace, Stays, Moves
    <3>3. /\ j \in Nat /\ At(text, i) = BraceAt(i)[2] /\ At(text, j) = BraceAt(i)[1]
          /\ Balanced(Piece(text, j + 1, i), BraceAt(i))
      BY <2>1, <2>3, <2>4, <2>7, <3>1, <3>2, OpeningMatches
    <3> QED
      BY <2>5, <3>2, <3>3
  <2> QED
    BY <2>6, <2>7
<1> HIDE DEF Matched
<1>2. BraceIsMatched <=> [][Matched]_vars
  BY DEF BraceIsMatched, Matched
<1> QED
  BY <1>1, <1>2, Invariance, PTL DEF Spec

=============================================================================
