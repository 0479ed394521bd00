--------------------------- MODULE LspDocumentProofs ---------------------------
(***************************************************************************)
(* Proofs about LspDocument: the language server's copy of a document is    *)
(* the text of the buffer, for every alphabet, every set of texts and       *)
(* files, and every bound, as long as positions come from a current index.  *)
(***************************************************************************)
EXTENDS LspDocument, BufferProofs, FiniteSetTheorems, NumberLemmas

-----------------------------------------------------------------------------
(* Positions.                                                                 *)

(* The starts of a text's lines (LinesOf): finitely many, the first one 0.     *)
LEMMA StartsOf ==
  ASSUME NEW t \in Seq(Char)
  PROVE  /\ LinesOf(t).starts \in SUBSET (0 .. Len(t))
         /\ 0 \in LinesOf(t).starts
         /\ IsFiniteSet(LinesOf(t).starts)
<1>1. Len(t) \in Nat
  BY LenProperties
<1>2. LinesOf(t).starts \in SUBSET (0 .. Len(t)) /\ 0 \in LinesOf(t).starts
  BY <1>1 DEF LinesOf, NewlinesOf
<1>3. IsFiniteSet(0 .. Len(t))
  <2>1. 0 \in Int /\ Len(t) \in Int
    BY <1>1
  <2> QED
    BY <2>1, FS_Interval
<1> QED
  BY <1>2, <1>3, FS_Subset

(* The line an index is on: its start is the last one up to the index          *)
(* (buffer_index_to_position).                                                *)
LEMMA LastStartOf ==
  ASSUME NEW t \in Seq(Char), NEW i \in Nat
  PROVE  LET starts == LinesOf(t).starts
             s == LastStart(starts, i)
         IN  /\ s \in starts /\ s <= i
             /\ \A r \in starts : r <= i => r <= s
             /\ StartsUpTo(starts, s) = StartsUpTo(starts, i)
<1> DEFINE starts == LinesOf(t).starts
           s == LastStart(starts, i)
<1>1. Len(t) \in Nat
  BY LenProperties
<1>2. starts \in SUBSET (0 .. Len(t)) /\ 0 \in starts
  BY StartsOf
<1> HIDE DEF starts
<1>3. StartsUpTo(starts, i) \in SUBSET (0 .. Len(t)) /\ 0 \in StartsUpTo(starts, i)
  <2>1. 0 \in StartsUpTo(starts, i)
    BY <1>2 DEF StartsUpTo
  <2>2. StartsUpTo(starts, i) \subseteq starts
    BY DEF StartsUpTo
  <2> QED
    BY <1>2, <2>1, <2>2
<1>4. \E x \in StartsUpTo(starts, i) : \A y \in StartsUpTo(starts, i) : y <= x
  BY <1>1, <1>3, GreatestOf
<1>5. s \in StartsUpTo(starts, i) /\ \A r \in StartsUpTo(starts, i) : r <= s
  BY <1>4 DEF LastStart
<1> HIDE DEF s
<1>6. s \in starts /\ s <= i /\ \A r \in starts : r <= i => r <= s
  BY <1>5 DEF StartsUpTo
<1>7. StartsUpTo(starts, s) = StartsUpTo(starts, i)
  <2>1. s \in Nat /\ starts \subseteq Nat
    BY <1>1, <1>2, <1>6
  <2>2. \A r \in starts : r <= s <=> r <= i
    BY <1>6, <2>1
  <2> QED
    BY <2>2 DEF StartsUpTo
<1> QED
  BY <1>6, <1>7 DEF starts, s

(* Lines are numbered by their starts: two starts with the same number of      *)
(* starts up to them are one.                                                 *)
LEMMA StartsNumbered ==
  ASSUME NEW n \in Nat, NEW starts \in SUBSET (0 .. n), IsFiniteSet(starts),
         NEW r \in starts, NEW s \in starts,
         Cardinality(StartsUpTo(starts, r)) = Cardinality(StartsUpTo(starts, s))
  PROVE  r = s
<1>1. ASSUME NEW x \in starts, NEW y \in starts, x <= y,
             Cardinality(StartsUpTo(starts, x)) = Cardinality(StartsUpTo(starts, y))
      PROVE  x = y
  <2>1. StartsUpTo(starts, x) \in SUBSET StartsUpTo(starts, y)
    <3>1. \A z \in starts : z <= x => z <= y
      BY <1>1
    <3> QED
      BY <3>1 DEF StartsUpTo
  <2>2. IsFiniteSet(StartsUpTo(starts, y))
    <3>1. StartsUpTo(starts, y) \in SUBSET starts
      BY DEF StartsUpTo
    <3> QED
      BY <3>1, FS_Subset
  <2>3. StartsUpTo(starts, x) = StartsUpTo(starts, y)
    BY <1>1, <2>1, <2>2, FS_Subset
  <2>4. y \in StartsUpTo(starts, x)
    BY <2>3 DEF StartsUpTo
  <2> QED
    BY <1>1, <2>4 DEF StartsUpTo
<1>2. r \in Int /\ s \in Int
  OBVIOUS
<1>3. r <= s \/ s <= r
  BY <1>2
<1> QED
  BY <1>1, <1>3

(* The server finds the index a position was made from, or the end of the      *)
(* text when the index lies behind it (an undo of an older event may).         *)
LEMMA PositionRoundTrip ==
  ASSUME NEW t \in Seq(Char), NEW i \in Nat
  PROVE  OffsetIn(t, buffer_index_to_position(LinesOf(t).starts, i))
           = IF i > Len(t) THEN Len(t) ELSE i
<1> DEFINE starts == LinesOf(t).starts
           s == LastStart(starts, i)
           p == buffer_index_to_position(starts, i)
           number == Cardinality(StartsUpTo(starts, i))
           line == IF p.line >= Cardinality(starts) THEN Cardinality(starts) - 1 ELSE p.line
           start == CHOOSE r \in starts : Cardinality(StartsUpTo(starts, r)) = line + 1
           ends == {e \in LinesOf(t).ends : e >= start}
           eol == CHOOSE e \in ends : \A f \in ends : e <= f
<1>1. Len(t) \in Nat
  BY LenProperties
<1>2. starts \in SUBSET (0 .. Len(t)) /\ 0 \in starts /\ IsFiniteSet(starts)
  BY StartsOf
<1>3. /\ s \in starts /\ s <= i
      /\ \A r \in starts : r <= i => r <= s
      /\ StartsUpTo(starts, s) = StartsUpTo(starts, i)
  BY LastStartOf
<1>4. s \in Nat /\ s <= Len(t)
  BY <1>1, <1>2, <1>3
<1>5. number \in Nat /\ number <= Cardinality(starts) /\ Cardinality(starts) \in Nat
  <2> HIDE DEF starts
  <2>1. StartsUpTo(starts, i) \in SUBSET starts
    BY DEF StartsUpTo
  <2> QED
    BY <1>2, <2>1, FS_Subset, FS_CardinalityType
<1>6. start = s
  <2>1. p.line = number - 1
    BY DEF buffer_index_to_position
  <2> HIDE DEF starts, s, p, number
  <2>2. line + 1 = number
    BY <1>5, <2>1
  <2>3. Cardinality(StartsUpTo(starts, s)) = number
    BY <1>3 DEF number
  <2> HIDE DEF line
  <2>4. start \in starts /\ Cardinality(StartsUpTo(starts, start)) = number
    BY <1>3, <2>2, <2>3
  <2> QED
    BY <1>1, <1>2, <1>3, <2>3, <2>4, StartsNumbered
<1>7. start \in Nat /\ start <= Len(t)
  BY <1>4, <1>6
<1> HIDE DEF start
<1>8. eol \in ends /\ \A f \in ends : eol <= f
  <2>1. ends \in SUBSET Nat
    BY <1>1, <1>7 DEF LinesOf, NewlinesOf
  <2>2. Len(t) \in ends
    BY <1>1, <1>7 DEF LinesOf
  <2> HIDE DEF ends
  <2>3. \E e \in ends : \A f \in ends : e <= f
    BY <2>1, <2>2, LeastOf
  <2> QED
    BY <2>3
<1>9. (IF i > eol THEN eol ELSE i) = (IF i > Len(t) THEN Len(t) ELSE i)
  <2>1. Len(t) \in ends
    BY <1>1, <1>7 DEF LinesOf
  <2>2. eol <= Len(t) /\ eol \in LinesOf(t).ends /\ eol >= start
    BY <1>8, <2>1
  <2> HIDE DEF eol
  <2>3. CASE eol = Len(t)
    BY <2>3
  <2>4. CASE eol # Len(t)
    <3>1. PICK k \in NewlinesOf(t) : eol = k - 1 /\ k - 1 >= start
      BY <2>2, <2>4 DEF LinesOf
    <3>2. k \in starts /\ k \in 1 .. Len(t)
      BY DEF LinesOf, NewlinesOf
    <3>3. ~ (k <= i)
      BY <1>1, <1>3, <1>4, <1>6, <3>1, <3>2
    <3> QED
      BY <1>1, <3>1, <3>2, <3>3
  <2> QED
    BY <2>3, <2>4
<1>10. OffsetIn(t, p) = IF start + p.column > eol THEN eol ELSE start + p.column
  BY DEF OffsetIn, start
<1>11. start + p.column = i
  <2>1. p.column = i - s
    BY DEF buffer_index_to_position
  <2> HIDE DEF p, s
  <2> QED
    BY <1>4, <1>6, <2>1
<1> QED
  BY <1>9, <1>10, <1>11 DEF p

-----------------------------------------------------------------------------
(* An edit and what the server makes of its notification.                     *)

\* An insertion takes nothing out and a deletion puts nothing in.
WellShaped(e) ==
  /\ e.type = "ETInsert" => e.removed = NullRef
  /\ e.type = "ETDelete" => e.inserted = NullRef

(* The server's change, by offsets (ChangedBy).                                *)
Within(t, i) == IF i > Len(t) THEN Len(t) ELSE i
Spliced(t, p, n, sv) ==
  SubSeq(t, 1, Within(t, p)) \o sv \o SubSeq(t, Within(t, p + n) + 1, Len(t))

(* Splicing behind the end appends.                                           *)
LEMMA SplicedBehind ==
  ASSUME NEW S, NEW t \in Seq(S), NEW sv \in Seq(S), NEW p \in Nat, NEW n \in Nat, p >= Len(t)
  PROVE  Spliced(t, p, n, sv) = t \o sv
<1>1. Len(t) \in Nat
  BY LenProperties
<1>2. Within(t, p) = Len(t) /\ Within(t, p + n) = Len(t)
  BY <1>1 DEF Within
<1>3. SubSeq(t, 1, Len(t)) = t
  BY SubSeqFull
<1>4. SubSeq(t, Len(t) + 1, Len(t)) = << >>
  BY <1>1, SubSeqEmpty
<1>5. t \o sv \in Seq(S)
  BY ConcatProperties
<1> QED
  BY <1>2, <1>3, <1>4, <1>5, ConcatEmptySeq DEF Spliced

(* Splicing inside keeps what is before and what is behind.                    *)
LEMMA SplicedInside ==
  ASSUME NEW S, NEW t \in Seq(S), NEW sv \in Seq(S), NEW p \in Nat, NEW n \in Nat, p < Len(t)
  PROVE  Spliced(t, p, n, sv) = SubSeq(t, 1, p) \o sv \o SubSeq(t, p + n + 1, Len(t))
<1>1. Len(t) \in Nat
  BY LenProperties
<1>2. Within(t, p) = p
  BY <1>1 DEF Within
<1>3. SubSeq(t, Within(t, p + n) + 1, Len(t)) = SubSeq(t, p + n + 1, Len(t))
  <2>1. CASE p + n > Len(t)
    <3>1. Within(t, p + n) = Len(t)
      BY <2>1 DEF Within
    <3>2. SubSeq(t, Len(t) + 1, Len(t)) = << >>
      BY <1>1, SubSeqEmpty
    <3>3. SubSeq(t, p + n + 1, Len(t)) = << >>
      BY <1>1, <2>1, SubSeqEmpty
    <3> QED
      BY <3>1, <3>2, <3>3
  <2>2. CASE ~ (p + n > Len(t))
    BY <2>2 DEF Within
  <2> QED
    BY <2>1, <2>2
<1> QED
  BY <1>2, <1>3 DEF Spliced

(* An insertion is a splice that takes nothing out (sb_insert_sv).             *)
LEMMA InsertIsSplice ==
  ASSUME NEW S, NEW t \in Seq(S), NEW sv \in Seq(S), NEW p \in Nat
  PROVE  sb_insert_sv(t, sv, p) = Spliced(t, p, 0, sv)
<1>1. Len(t) \in Nat
  BY LenProperties
<1>2. CASE p >= Len(t)
  BY <1>2, SplicedBehind DEF sb_insert_sv
<1>3. CASE ~ (p >= Len(t))
  <2>1. p < Len(t) /\ 0 \in Nat
    BY <1>1, <1>3
  <2>2. Spliced(t, p, 0, sv) = SubSeq(t, 1, p) \o sv \o SubSeq(t, p + 0 + 1, Len(t))
    BY <2>1, SplicedInside
  <2>3. p + 0 + 1 = p + 1
    OBVIOUS
  <2> QED
    BY <1>3, <2>2, <2>3 DEF sb_insert_sv
<1> QED
  BY <1>2, <1>3

(* A removal is a splice that puts nothing in (sb_remove).                     *)
LEMMA RemoveIsSplice ==
  ASSUME NEW S, NEW t \in Seq(S), NEW p \in Nat, NEW n \in Nat
  PROVE  sb_remove(t, p, n) = Spliced(t, p, n, << >>)
<1>1. Len(t) \in Nat /\ << >> \in Seq(S)
  BY LenProperties, EmptySeq
<1>2. CASE p >= Len(t)
  <2>1. Spliced(t, p, n, << >>) = t \o << >>
    BY <1>1, <1>2, SplicedBehind
  <2> QED
    BY <1>2, <2>1, ConcatEmptySeq DEF sb_remove
<1>3. CASE ~ (p >= Len(t))
  <2>1. p < Len(t)
    BY <1>1, <1>3
  <2>2. Spliced(t, p, n, << >>)
          = SubSeq(t, 1, p) \o << >> \o SubSeq(t, p + n + 1, Len(t))
    BY <1>1, <2>1, SplicedInside
  <2>3. SubSeq(t, 1, p) \in Seq(S)
    BY <1>1, <1>3, PartOfSeq
  <2> QED
    BY <1>3, <2>2, <2>3, ConcatEmptySeq DEF sb_remove
<1> QED
  BY <1>2, <1>3

(* A replacement, which removes and then inserts, is one splice.               *)
LEMMA ReplaceIsSplice ==
  ASSUME NEW S, NEW t \in Seq(S), NEW sv \in Seq(S), NEW p \in Nat, NEW n \in Nat
  PROVE  sb_insert_sv(sb_remove(t, p, n), sv, p) = Spliced(t, p, n, sv)
<1>1. Len(t) \in Nat
  BY LenProperties
<1>2. CASE p >= Len(t)
  <2>1. sb_remove(t, p, n) = t
    BY <1>2 DEF sb_remove
  <2> QED
    BY <1>2, <2>1, SplicedBehind DEF sb_insert_sv
<1>3. CASE ~ (p >= Len(t))
  <2> DEFINE front == SubSeq(t, 1, p)
             back == SubSeq(t, p + n + 1, Len(t))
             kept == front \o back
  <2>1. sb_remove(t, p, n) = kept
    BY <1>3 DEF sb_remove
  <2>2. p < Len(t)
    BY <1>1, <1>3
  <2>3. Spliced(t, p, n, sv) = front \o sv \o back
    BY <2>2, SplicedInside
  <2>4. front \in Seq(S) /\ Len(front) = p
    BY <1>1, <1>3, PartOfSeq
  <2>5. back \in Seq(S) /\ Len(back) \in Nat
    BY <1>1, PartOfSeq, LenProperties
  <2> HIDE DEF front, back
  <2>6. kept \in Seq(S) /\ Len(kept) = p + Len(back)
    BY <2>4, <2>5, ConcatProperties
  <2>7. CASE back = << >>
    <3>1. kept = front /\ front \o sv \o back = front \o sv
      <4>1. front \o sv \in Seq(S)
        BY <2>4, ConcatProperties
      <4> QED
        BY <2>4, <2>7, <4>1, ConcatEmptySeq
    <3> QED
      <4>1. p >= Len(kept) /\ kept \o sv = front \o sv
        BY <2>4, <3>1
      <4> HIDE DEF kept
      <4> QED
        BY <2>1, <2>3, <3>1, <4>1 DEF sb_insert_sv
  <2>8. CASE back # << >>
    <3>1. Len(back) \in Nat \ {0}
      BY <2>5, <2>8, EmptySeq
    <3>2. SubSeq(kept, 1, p) = front
      <4>1. CASE p = 0
        <5>1. front = << >>
          BY <2>4, <4>1, EmptySeq
        <5>2. SubSeq(kept, 1, p) = << >>
          BY <4>1, SubSeqEmpty
        <5> QED
          BY <5>1, <5>2
      <4>2. CASE p # 0
        <5>1. 1 \in 1 .. Len(front) /\ p \in 1 .. Len(front)
          BY <2>4, <4>2
        <5>2. SubSeq(kept, 1, p) = SubSeq(front, 1, p)
          BY <2>4, <2>5, <5>1, SubSeqOfConcat1
        <5> QED
          BY <2>4, <5>2, SubSeqFull
      <4> QED
        BY <4>1, <4>2
    <3>3. SubSeq(kept, p + 1, Len(kept)) = back
      <4>1. /\ p + 1 \in Len(front) + 1 .. Len(front) + Len(back)
            /\ Len(kept) \in Len(front) + 1 .. Len(front) + Len(back)
            /\ (p + 1) - Len(front) = 1 /\ Len(kept) - Len(front) = Len(back)
        BY <2>4, <2>6, <3>1
      <4> HIDE DEF kept
      <4>2. SubSeq(kept, p + 1, Len(kept)) = SubSeq(back, 1, Len(back))
        BY <2>4, <2>5, <4>1, SubSeqOfConcat2 DEF kept
      <4> QED
        BY <2>5, <4>2, SubSeqFull
    <3> HIDE DEF kept
    <3>4. sb_insert_sv(kept, sv, p) = front \o sv \o back
      <4>1. ~ (p >= Len(kept))
        BY <2>6, <3>1
      <4> QED
        BY <3>2, <3>3, <4>1 DEF sb_insert_sv
    <3> QED
      BY <2>1, <2>3, <3>4
  <2> QED
    BY <2>7, <2>8
<1> QED
  BY <1>2, <1>3

\* The text the notification of an edit carries (InsertedText), read from ub.
Carries(ub, e) == IF e.type = "ETDelete" THEN << >> ELSE buffer_sv_from_ref(ub, e.inserted)

(* A server whose copy is the text makes of the notification what buffer_apply *)
(* made of the edit, when the positions were taken from the text's own index.  *)
LEMMA ServerEditsAlike ==
  ASSUME NEW t \in Seq(Char), NEW ub \in Seq(Symbol), NEW e \in EditEvent,
         GoodRef(ub, e.inserted), WellShaped(e)
  PROVE  ChangedBy(t, EventRange(LinesOf(t).starts, e), Carries(ub, e)) = EditedText(t, ub, e)
<1> DEFINE p == e.position
           n == e.removed.length
           sv == Carries(ub, e)
           range == EventRange(LinesOf(t).starts, e)
<1>1. p \in Nat /\ n \in Nat /\ p + n \in Nat /\ e.type \in EditType /\ Len(t) \in Nat
  BY LenProperties DEF EditEvent, StringRef
<1>2. OffsetIn(t, range.start) = Within(t, p)
  BY <1>1, PositionRoundTrip DEF EventRange, Within
<1>3. OffsetIn(t, range.end) = Within(t, p + n)
  BY <1>1, PositionRoundTrip DEF EventRange, Within
<1>4. ~ (Within(t, p + n) < Within(t, p))
  BY <1>1 DEF Within
<1>5. ChangedBy(t, range, sv) = Spliced(t, p, n, sv)
  <2> HIDE DEF range, sv, p, n
  <2> QED
    BY <1>2, <1>3, <1>4 DEF ChangedBy, Spliced
<1>6. sv \in Seq(Char)
  BY GoodRefReads, EmptySeq DEF EditEvent, Carries
<1>7. EditedText(t, ub, e) = Spliced(t, p, n, sv)
  <2>1. CASE e.type = "ETInsert"
    <3>1. n = 0
      BY <2>1 DEF WellShaped, NullRef
    <3>2. EditedText(t, ub, e) = sb_insert_sv(t, sv, p)
      BY <2>1 DEF EditedText, Carries
    <3> HIDE DEF p, n, sv
    <3> QED
      BY <1>1, <1>6, <3>1, <3>2, InsertIsSplice
  <2>2. CASE e.type = "ETDelete"
    <3>1. sv = << >> /\ EditedText(t, ub, e) = sb_remove(t, p, n)
      BY <2>2 DEF EditedText, Carries
    <3> HIDE DEF p, n, sv
    <3> QED
      BY <1>1, <3>1, RemoveIsSplice
  <2>3. CASE e.type = "ETReplace"
    <3>1. EditedText(t, ub, e) = sb_insert_sv(sb_remove(t, p, n), sv, p)
      BY <2>3 DEF EditedText, Carries
    <3> HIDE DEF p, n, sv
    <3> QED
      BY <1>1, <1>6, <3>1, ReplaceIsSplice
  <2> QED
    BY <1>1, <2>1, <2>2, <2>3 DEF EditType
<1> QED
  BY <1>5, <1>7

-----------------------------------------------------------------------------
(* The inductive invariant.  What the server holds can be wrong in three ways   *)
(* that the theorem has to exclude together: a copy kept under a name that is   *)
(* no longer the document's, a copy kept when the document is gone, and a copy  *)
(* that an edit, or the reversal of one, missed or was made to twice.           *)

ShapesKept == \A i \in 1 .. Len(undoStack) : WellShaped(undoStack[i])

MirrorTypes ==
  /\ uri \in Name \cup {NoName}
  /\ DOMAIN server = Name

UriIsOfName ==
  /\ ~uriFreed => uri \in {NoName, name}
  /\ ~open => uri = NoName /\ ~uriFreed

ListenerNamed == listening => open /\ name # NoName

OnlyTheTextIsKnown ==
  ~uriFreed =>
    \A n \in Name : server[n] # NotOpen => open /\ listening /\ n = uri /\ server[n] = text

MirrorIInv ==
  ShapesKept /\ MirrorTypes /\ UriIsOfName /\ ListenerNamed /\ OnlyTheTextIsKnown

(* What a change to the text and its notification are.                         *)
BufferEdit ==
  \E e \in EditEvent :
    /\ WellShaped(e) /\ GoodRef(undoBuffer', e.inserted)
    /\ text' = EditedText(text, undoBuffer', e)
    /\ applied' = e

BufferQuiet == text' = text /\ applied'.type \notin EditType

(* buffer_apply changes the text as the event says, or tells nobody.           *)
LEMMA ApplyShape ==
  ASSUME NEW e \in EditEvent, WellShaped(e), GoodRef(undoBuffer', e.inserted),
         buffer_apply(undoBuffer', e)
  PROVE  BufferEdit \/ BufferQuiet
<1>1. CASE Effective(e)
  <2>1. text' = EditedText(text, undoBuffer', e) /\ applied' = e
    BY <1>1 DEF buffer_apply, ApplyCounting
  <2> QED
    BY <2>1 DEF BufferEdit
<1>2. CASE ~Effective(e)
  <2>1. text' = text /\ applied' = Signal("ETNone")
    BY <1>2 DEF buffer_apply, ApplyCounting
  <2>2. Signal("ETNone").type \notin EditType
    BY DEF Signal, EditType
  <2> QED
    BY <2>1, <2>2 DEF BufferQuiet
<1> QED
  BY <1>1, <1>2

(* An edit that is pushed (buffer_edit).                                       *)
LEMMA PushShape ==
  ASSUME IInv, IInv', ShapesKept, NEW e, WellShaped(e), NEW ub, ApplyAndPush(ub, e)
  PROVE  ShapesKept' /\ UNCHANGED slot /\ (BufferEdit \/ BufferQuiet)
<1>1. undoStack' = Append(undoStack, e) /\ undoBuffer' = ub /\ buffer_apply(undoBuffer', e)
  BY DEF ApplyAndPush
<1>2. undoStack \in Seq(EditEvent \cup {e})
  BY SeqMonotonic DEF IInv, TypeOK
<1>3. Len(undoStack) \in Nat
  BY <1>2, LenProperties
<1>4. /\ Len(undoStack') = Len(undoStack) + 1
      /\ \A i \in 1 .. Len(undoStack) : undoStack'[i] = undoStack[i]
      /\ undoStack'[Len(undoStack) + 1] = e
  <2>1. e \in EditEvent \cup {e}
    OBVIOUS
  <2> QED
    BY <1>1, <1>2, <2>1, AppendProperties
<1>5. Len(undoStack) + 1 \in 1 .. Len(undoStack')
  BY <1>3, <1>4
<1>6. e \in EditEvent
  <2>1. undoStack' \in Seq(EditEvent)
    BY DEF IInv, TypeOK
  <2> QED
    BY <1>4, <1>5, <2>1, ElementOfSeq
<1>7. GoodRef(undoBuffer', e.inserted)
  <2>1. RefsGood'
    BY DEF IInv
  <2> QED
    BY <1>4, <1>5, <2>1 DEF RefsGood
<1>8. ShapesKept'
  <2>1. \A i \in 1 .. Len(undoStack') : i \in 1 .. Len(undoStack) \/ i = Len(undoStack) + 1
    BY <1>3, <1>4
  <2>2. \A i \in 1 .. Len(undoStack') : WellShaped(undoStack'[i])
    BY <1>4, <2>1 DEF ShapesKept
  <2> QED
    BY <2>2 DEF ShapesKept, WellShaped
<1>9. UNCHANGED slot
  BY DEF ApplyAndPush
<1> QED
  BY <1>1, <1>6, <1>7, <1>8, <1>9, ApplyShape

(* A change that is reverted, by an undo or a redo.                            *)
LEMMA RevertShape ==
  ASSUME IInv, ShapesKept, NEW i, NEW p, Revert(i, p)
  PROVE  ShapesKept' /\ UNCHANGED slot /\ (BufferEdit \/ BufferQuiet)
<1> DEFINE e == undoStack[i]
           r == revert_edit(e)
<1>1. /\ i \in 1 .. Len(undoStack)
      /\ undoStack' = undoStack /\ undoBuffer' = undoBuffer
      /\ buffer_apply(undoBuffer, r) /\ UNCHANGED slot
  BY DEF Revert
<1>2. e \in EditEvent
  <2>1. undoStack \in Seq(EditEvent)
    BY DEF IInv, TypeOK
  <2> QED
    BY <1>1, <2>1, ElementOfSeq
<1>3. GoodRef(undoBuffer', e.removed)
  BY <1>1 DEF IInv, RefsGood
<1>4. WellShaped(e)
  BY <1>1 DEF ShapesKept
<1>5. ShapesKept'
  BY <1>1 DEF ShapesKept, WellShaped
<1> HIDE DEF e
<1>6. r \in EditEvent /\ r.inserted = e.removed /\ r.removed = e.inserted
  BY <1>2, RevertIsEvent
<1>7. WellShaped(r)
  <2>1. e.type \in EditType
    BY <1>2 DEF EditEvent
  <2> QED
    BY <1>4, <2>1 DEF WellShaped, revert_edit, EditType
<1> HIDE DEF r
<1> QED
  BY <1>1, <1>3, <1>5, <1>6, <1>7, ApplyShape

(* An edit, an undo and a redo leave the name and the listener of the slot.    *)
LEMMA ChangeShape ==
  ASSUME IInv, IInv', ShapesKept, Edit \/ buffer_undo \/ buffer_redo
  PROVE  open /\ ShapesKept' /\ UNCHANGED slot /\ (BufferEdit \/ BufferQuiet)
<1> DEFINE Shaped == open /\ ShapesKept' /\ UNCHANGED slot /\ (BufferEdit \/ BufferQuiet)
<1>1. ASSUME NEW sv, NEW pos, buffer_insert(sv, pos)
      PROVE  Shaped
  <2> DEFINE e == [type     |-> "ETInsert",
                   position |-> iclamp(pos, 0, Len(text)),
                   inserted |-> AppendedRef(undoBuffer, sv),
                   removed  |-> NullRef]
  <2>1. open /\ ApplyAndPush(undoBuffer \o sv, e)
    BY <1>1 DEF buffer_insert, Ready
  <2>2. WellShaped(e)
    BY DEF WellShaped
  <2> HIDE DEF e
  <2> QED
    BY <2>1, <2>2, PushShape
<1>2. ASSUME NEW at, NEW count, buffer_delete(at, count)
      PROVE  Shaped
  <2> DEFINE p == iclamp(at, 0, Len(text))
             n == iclamp(count, 0, Len(text) - p)
             deleted == SubSeq(text, p + 1, p + n)
             e == [type     |-> "ETDelete",
                   position |-> p,
                   inserted |-> NullRef,
                   removed  |-> AppendedRef(undoBuffer, deleted)]
  <2>1. open /\ ApplyAndPush(undoBuffer \o deleted, e)
    BY <1>2 DEF buffer_delete, Ready
  <2>2. WellShaped(e)
    BY DEF WellShaped
  <2> HIDE DEF e
  <2> QED
    BY <2>1, <2>2, PushShape
<1>3. ASSUME NEW at, NEW num, NEW sv, buffer_replace(at, num, sv)
      PROVE  Shaped
  <2>1. CASE ReplaceNothing(at, num, sv)
    <3>1. /\ open /\ UNCHANGED slot /\ text' = text /\ undoStack' = undoStack
          /\ applied' = Signal("ETNone")
      BY <2>1 DEF ReplaceNothing, Ready
    <3>2. ShapesKept'
      BY <3>1 DEF ShapesKept, WellShaped
    <3>3. Signal("ETNone").type \notin EditType
      BY DEF Signal, EditType
    <3> QED
      BY <3>1, <3>2, <3>3 DEF BufferQuiet
  <2>2. CASE ReplaceSome(at, num, sv)
    <3> DEFINE p == iclamp(at, 0, Len(text))
               n == iclamp(num, 0, Len(text) - p)
               ub == undoBuffer \o sv
               overwritten == SubSeq(text, p + 1, p + n)
               e == [type     |-> "ETReplace",
                     position |-> p,
                     inserted |-> AppendedRef(undoBuffer, sv),
                     removed  |-> AppendedRef(ub, overwritten)]
    <3>1. open /\ ApplyAndPush(ub \o overwritten, e)
      BY <2>2 DEF ReplaceSome, Ready
    <3>2. WellShaped(e)
      BY DEF WellShaped
    <3> HIDE DEF e
    <3> QED
      BY <3>1, <3>2, PushShape
  <2> QED
    BY <1>3, <2>1, <2>2 DEF buffer_replace
<1>4. ASSUME NEW i, NEW p, Revert(i, p)
      PROVE  Shaped
  <2>1. open
    BY <1>4 DEF Revert, Ready
  <2> QED
    BY <1>4, <2>1, RevertShape
<1> HIDE DEF Shaped
<1>5. Edit => Shaped
  <2>1. buffer_merge_lines => \E at \in lines.ends : buffer_replace(at, 1, <<Space>>)
    BY DEF buffer_merge_lines
  <2> QED
    BY <1>1, <1>2, <1>3, <2>1, Zenon DEF Edit
<1>6. buffer_undo => Shaped
  BY <1>4, Zenon DEF buffer_undo
<1>7. buffer_redo => Shaped
  BY <1>4, Zenon DEF buffer_redo
<1>8. Shaped
  BY <1>5, <1>6, <1>7
<1> QED
  BY <1>8 DEF Shaped

-----------------------------------------------------------------------------
(* The steps.                                                                 *)

(* The URI a document that has not lost it is known by is its name.            *)
LEMMA UriWhenListening ==
  ASSUME IInv, MirrorIInv, listening, ~uriFreed
  PROVE  /\ ReadUri = {name} /\ buffer_uri = name /\ name \in Name
         /\ \A n \in Name : server[n] # NotOpen => n = name /\ server[n] = text
<1>1. name \in Name /\ uri \in {NoName, name}
  BY DEF IInv, TypeOK, MirrorIInv, ListenerNamed, UriIsOfName
<1>2. buffer_uri = name
  BY <1>1 DEF buffer_uri
<1>3. ASSUME NEW n \in Name, server[n] # NotOpen
      PROVE  n = name /\ server[n] = text
  <2>1. n = uri /\ server[n] = text
    BY <1>3 DEF MirrorIInv, OnlyTheTextIsKnown
  <2> QED
    BY <1>1, <2>1, BufferAssumption
<1> QED
  BY <1>1, <1>2, <1>3 DEF ReadUri

(* What a notification leaves at the server (ToServer).                        *)
LEMMA ServerTold ==
  ASSUME DOMAIN server = Name, NEW u \in Name, NEW t, NEW count, NEW v, ToServer(u, t, count, v)
  PROVE  DOMAIN server' = Name /\ server'[u] = t /\ \A n \in Name \ {u} : server'[n] = server[n]
BY DEF ToServer

(* A notification about any URI adds no document to the server's table.        *)
LEMMA ServerKeepsNames ==
  ASSUME DOMAIN server = Name, NEW u, NEW t, NEW count, NEW v, ToServer(u, t, count, v)
  PROVE  DOMAIN server' = Name
BY DEF ToServer

(* An edit, an undo or a redo, and the didChange that follows.                 *)
LEMMA ChangeMirrored ==
  ASSUME IInv, IInv', MirrorIInv, ChangeText, ~EditOfOldIndex
  PROVE  MirrorIInv'
<1>1. /\ open /\ ShapesKept' /\ UNCHANGED slot /\ (BufferEdit \/ BufferQuiet)
      /\ lsp_did_change /\ uriFreed' = uriFreed
  BY ChangeShape DEF ChangeText, MirrorIInv
<1>2. open' /\ name' = name /\ listening' = listening
  BY <1>1 DEF slot
<1>3. uri' = uri \/ uri' = buffer_uri
  BY <1>1 DEF lsp_did_change, TellNothing
<1>4. MirrorTypes'
  <2>1. name \in Name \cup {NoName}
    BY DEF IInv, TypeOK
  <2>2. DOMAIN server' = Name
    <3>1. DOMAIN server = Name
      BY DEF MirrorIInv, MirrorTypes
    <3>2. server' = server \/ \E u, t, count, v : ToServer(u, t, count, v)
      BY <1>1 DEF lsp_did_change, TellNothing
    <3> QED
      BY <3>1, <3>2, ServerKeepsNames
  <2>3. uri' \in Name \cup {NoName}
    BY <1>3, <2>1 DEF MirrorIInv, MirrorTypes, buffer_uri
  <2> QED
    BY <2>2, <2>3 DEF MirrorTypes
<1>5. UriIsOfName'
  BY <1>1, <1>2, <1>3 DEF MirrorIInv, UriIsOfName, buffer_uri
<1>6. ListenerNamed'
  BY <1>2 DEF MirrorIInv, ListenerNamed
<1>7. ASSUME ~uriFreed, NEW n \in Name, server'[n] # NotOpen
      PROVE  listening /\ n = uri' /\ server'[n] = text'
  <2>1. CASE ~listening
    <3>1. server' = server
      BY <1>1, <2>1 DEF lsp_did_change, TellNothing
    <3> QED
      BY <1>7, <2>1, <3>1 DEF MirrorIInv, OnlyTheTextIsKnown
  <2>2. CASE listening /\ BufferQuiet
    <3>1. server' = server /\ uri' = uri /\ text' = text
      BY <1>1, <2>2 DEF lsp_did_change, TellNothing, BufferQuiet
    <3> QED
      BY <1>7, <2>2, <3>1 DEF MirrorIInv, OnlyTheTextIsKnown
  <2>3. CASE listening /\ BufferEdit
    <3>1. PICK e \in EditEvent : /\ WellShaped(e) /\ GoodRef(undoBuffer', e.inserted)
                                /\ text' = EditedText(text, undoBuffer', e)
                                /\ applied' = e
      BY <2>3 DEF BufferEdit
    <3>2. applied'.type \in EditType
      BY <3>1 DEF EditEvent
    <3>3. lines = LinesOf(text)
      BY <1>1, <3>2 DEF EditOfOldIndex, IInv, IndexIsCurrent
    <3>4. /\ ReadUri = {name} /\ buffer_uri = name /\ name \in Name
          /\ \A m \in Name : server[m] # NotOpen => m = name /\ server[m] = text
      BY <1>7, <2>3, UriWhenListening
    <3> DEFINE said == ChangedBy(server[name], EventRange(lines.starts, applied'),
                                 InsertedText(applied'))
    <3>5. /\ uri' = name
          /\ IF name = Garbage \/ server[name] = NotOpen
             THEN server' = server
             ELSE ToServer(name, said, 0, version')
      BY <1>1, <2>3, <3>2, <3>4 DEF lsp_did_change
    <3>6. name # Garbage
      BY <3>4, LspDocumentAssumption
    <3>7. CASE server[name] = NotOpen
      BY <1>7, <3>4, <3>5, <3>7
    <3>8. CASE server[name] # NotOpen
      <4>1. /\ DOMAIN server' = Name /\ server'[name] = said
            /\ \A m \in Name \ {name} : server'[m] = server[m]
        <5> HIDE DEF said
        <5>1. DOMAIN server = Name /\ ToServer(name, said, 0, version')
          BY <3>5, <3>6, <3>8 DEF MirrorIInv, MirrorTypes
        <5> QED
          BY <3>4, <5>1, ServerTold
      <4>2. n = name
        BY <1>7, <3>4, <4>1
      <4>3. said = EditedText(text, undoBuffer', e)
        <5>1. server[name] = text
          BY <3>4, <3>8
        <5>2. InsertedText(applied') = Carries(undoBuffer', e)
          BY <3>1 DEF InsertedText, Carries
        <5>3. text \in Seq(Char) /\ undoBuffer' \in Seq(Symbol)
          BY DEF IInv, TypeOK
        <5>4. ChangedBy(text, EventRange(LinesOf(text).starts, e), Carries(undoBuffer', e))
                = EditedText(text, undoBuffer', e)
          BY <3>1, <5>3, ServerEditsAlike
        <5> QED
          BY <3>1, <3>3, <5>1, <5>2, <5>4
      <4> HIDE DEF said
      <4> QED
        BY <2>3, <3>1, <3>5, <4>1, <4>2, <4>3
    <3> QED
      BY <3>7, <3>8
  <2> QED
    BY <1>1, <2>1, <2>2, <2>3
<1>8. OnlyTheTextIsKnown'
  BY <1>1, <1>2, <1>7 DEF OnlyTheTextIsKnown
<1> QED
  BY <1>1, <1>4, <1>5, <1>6, <1>8 DEF MirrorIInv

(* What steps that leave the history alone have in common.                     *)
LEMMA ShapesStay ==
  ASSUME ShapesKept, undoStack' = undoStack \/ undoStack' = << >>
  PROVE  ShapesKept'
<1>1. CASE undoStack' = undoStack
  BY <1>1 DEF ShapesKept, WellShaped
<1>2. CASE undoStack' = << >>
  <2>1. \A i \in 1 .. Len(undoStack') : FALSE
    BY <1>2, EmptySeq
  <2> QED
    BY <2>1 DEF ShapesKept
<1> QED
  BY <1>1, <1>2

(* A save, which under a new name leaves the URI of the old one behind.        *)
LEMMA SaveMirrored ==
  ASSUME IInv, MirrorIInv, NEW f \in Name \cup {NoName}, SaveDocument(f)
  PROVE  MirrorIInv'
<1>1. /\ open /\ Save(f)
      /\ uriFreed' = (uriFreed \/ (applied'.type = "ETSave" /\ f # NoName /\ uri # NoName))
      /\ uri' = IF listening /\ applied'.type = "ETSave" /\ uri = NoName THEN name' ELSE uri
      /\ server' = server
  BY DEF SaveDocument, Save, Ready
<1>2. open' = open /\ listening' = listening /\ text' = text /\ undoStack' = undoStack
  BY <1>1 DEF Save, SaveAssertFails, NothingToSave, WriteFile, WriteAndMark, slot, history
<1>3. \/ name' = name /\ applied'.type # "ETSave"
      \/ name' = name /\ f = NoName /\ name # NoName
      \/ name' = f /\ f # NoName /\ applied'.type = "ETSave"
  <2>1. CASE SaveAssertFails(f) \/ NothingToSave(f)
    <3>1. name' = name /\ applied' = Signal("ETNone")
      BY <2>1 DEF SaveAssertFails, NothingToSave, slot
    <3> QED
      BY <3>1 DEF Signal
  <2>2. CASE WriteFile(f)
    <3>1. applied' = Signal("ETSave")
      BY <2>2 DEF WriteFile, WriteAndMark
    <3>2. applied'.type = "ETSave"
      BY <3>1 DEF Signal
    <3>3. CASE f = NoName
      BY <2>2, <3>3 DEF WriteFile, WriteAndMark
    <3>4. CASE f # NoName
      BY <2>2, <3>2, <3>4 DEF WriteFile, WriteAndMark
    <3> QED
      BY <3>3, <3>4
  <2> QED
    BY <1>1, <2>1, <2>2 DEF Save
<1>4. name \in Name \cup {NoName} /\ uri \in Name \cup {NoName} /\ DOMAIN server = Name
  BY DEF IInv, TypeOK, MirrorIInv, MirrorTypes
<1>5. MirrorTypes'
  BY <1>1, <1>3, <1>4 DEF MirrorTypes
<1>6. ListenerNamed'
  BY <1>2, <1>3 DEF MirrorIInv, ListenerNamed
<1>7. UriIsOfName'
  <2>1. ASSUME ~uriFreed' PROVE uri' \in {NoName, name'}
    <3>1. ~uriFreed /\ uri \in {NoName, name}
      BY <1>1, <2>1 DEF MirrorIInv, UriIsOfName
    <3>2. uri = NoName \/ name' = name
      BY <1>1, <1>3, <2>1
    <3> QED
      BY <1>1, <3>1, <3>2
  <2> QED
    BY <1>1, <1>2, <2>1 DEF UriIsOfName
<1>8. OnlyTheTextIsKnown'
  <2>1. ASSUME ~uriFreed', NEW n \in Name, server'[n] # NotOpen
        PROVE  listening /\ n = uri' /\ server'[n] = text'
    <3>1. listening /\ n = uri /\ server[n] = text
      BY <1>1, <2>1 DEF MirrorIInv, OnlyTheTextIsKnown
    <3>2. uri # NoName
      BY <3>1, BufferAssumption
    <3> QED
      BY <1>1, <1>2, <3>1, <3>2
  <2> QED
    BY <1>1, <1>2, <2>1 DEF OnlyTheTextIsKnown
<1>9. ShapesKept'
  BY <1>2, ShapesStay DEF MirrorIInv
<1> QED
  BY <1>5, <1>6, <1>7, <1>8, <1>9 DEF MirrorIInv

(* A view on the buffer, which announces the document.                         *)
LEMMA ViewMirrored ==
  ASSUME IInv, MirrorIInv, ViewBuffer
  PROVE  MirrorIInv'
<1>1. /\ open /\ UNCHANGED <<slot, text, undoStack>> /\ lsp_on_open /\ uriFreed' = uriFreed
  BY DEF ViewBuffer, editor_select_buffer, Bump, Ready, history
<1>2. open' = open /\ name' = name /\ listening' = listening /\ text' = text
  BY <1>1 DEF slot
<1>3. name \in Name \cup {NoName} /\ uri \in Name \cup {NoName} /\ DOMAIN server = Name
  BY DEF IInv, TypeOK, MirrorIInv, MirrorTypes
<1>4. uri' = uri \/ uri' = buffer_uri
  BY <1>1 DEF lsp_on_open, TellNothing
<1>5. MirrorTypes'
  <2>1. server' = server \/ \E u, t, count, v : ToServer(u, t, count, v)
    BY <1>1 DEF lsp_on_open, TellNothing
  <2> QED
    BY <1>3, <1>4, <2>1, ServerKeepsNames DEF MirrorTypes, buffer_uri
<1>6. UriIsOfName' /\ ListenerNamed'
  BY <1>1, <1>2, <1>4 DEF MirrorIInv, UriIsOfName, ListenerNamed, buffer_uri
<1>7. ASSUME ~uriFreed, NEW n \in Name, server'[n] # NotOpen
      PROVE  listening /\ n = uri' /\ server'[n] = text
  <2>1. CASE ~listening
    BY <1>1, <1>7, <2>1 DEF lsp_on_open, TellNothing, MirrorIInv, OnlyTheTextIsKnown
  <2>2. CASE listening
    <3>1. /\ ReadUri = {name} /\ buffer_uri = name /\ name \in Name
          /\ \A m \in Name : server[m] # NotOpen => m = name
      BY <1>7, <2>2, UriWhenListening
    <3>2. uri' = name /\ ToServer(name, text, 1, 0)
      BY <1>1, <2>2, <3>1 DEF lsp_on_open
    <3>3. server'[name] = text /\ \A m \in Name \ {name} : server'[m] = server[m]
      BY <1>3, <3>1, <3>2, ServerTold
    <3> QED
      BY <1>7, <2>2, <3>1, <3>2, <3>3
  <2> QED
    BY <2>1, <2>2
<1>8. OnlyTheTextIsKnown'
  BY <1>1, <1>2, <1>7 DEF OnlyTheTextIsKnown
<1>9. ShapesKept'
  BY <1>1, ShapesStay DEF MirrorIInv
<1> QED
  BY <1>5, <1>6, <1>8, <1>9 DEF MirrorIInv

(* Closing a buffer, which the server is told under the URI that is still       *)
(* readable.                                                                  *)
LEMMA CloseMirrored ==
  ASSUME IInv, MirrorIInv, CloseBuffer, ~CloseUnderFreedUri
  PROVE  MirrorIInv'
<1>1. /\ ~open' /\ ~listening' /\ name' = NoName /\ undoStack' = << >>
      /\ ~uriFreed' /\ uri' = NoName /\ lsp_did_close /\ ~uriFreed
  BY DEF CloseBuffer, buffer_close, Zero, lsp_did_close, CloseUnderFreedUri
<1>2. DOMAIN server = Name
  BY DEF MirrorIInv, MirrorTypes
<1>3. MirrorTypes'
  <2>1. server' = server \/ \E u, t, count, v : ToServer(u, t, count, v)
    BY <1>1 DEF lsp_did_close
  <2> QED
    BY <1>1, <1>2, <2>1, ServerKeepsNames DEF MirrorTypes
<1>4. UriIsOfName' /\ ListenerNamed'
  BY <1>1 DEF UriIsOfName, ListenerNamed
<1>5. ASSUME NEW n \in Name
      PROVE  server'[n] = NotOpen
  <2>1. CASE ~listening
    BY <1>1, <2>1 DEF lsp_did_close, MirrorIInv, OnlyTheTextIsKnown
  <2>2. CASE listening
    <3>1. /\ ReadUri = {name} /\ name \in Name
          /\ \A m \in Name : server[m] # NotOpen => m = name
      BY <1>1, <2>2, UriWhenListening
    <3>2. ToServer(name, NotOpen, -1, 0)
      BY <1>1, <2>2, <3>1 DEF lsp_did_close
    <3>3. server'[name] = NotOpen /\ \A m \in Name \ {name} : server'[m] = server[m]
      BY <1>2, <3>1, <3>2, ServerTold
    <3> QED
      BY <3>1, <3>3
  <2> QED
    BY <2>1, <2>2
<1>6. OnlyTheTextIsKnown'
  BY <1>5 DEF OnlyTheTextIsKnown
<1>7. ShapesKept'
  BY <1>1, ShapesStay DEF MirrorIInv
<1> QED
  BY <1>3, <1>4, <1>6, <1>7 DEF MirrorIInv

(* Steps that tell the server nothing and leave the text and its name alone:     *)
(* closing a view, a redraw, a theme, diagnostics (which may set the URI).      *)
LEMMA SilentMirrored ==
  ASSUME IInv, MirrorIInv,
         UNCHANGED <<open, name, listening, text, undoStack, uriFreed, server>>,
         \/ uri' = uri
         \/ open /\ name # NoName /\ uri' = buffer_uri
  PROVE  MirrorIInv'
<1>1. name \in Name \cup {NoName}
  BY DEF IInv, TypeOK
<1>2. MirrorTypes' /\ UriIsOfName' /\ ListenerNamed'
  BY <1>1 DEF MirrorIInv, MirrorTypes, UriIsOfName, ListenerNamed, buffer_uri
<1>3. ASSUME ~uriFreed, NEW n \in Name, server[n] # NotOpen
      PROVE  open /\ listening /\ n = uri' /\ server[n] = text
  <2>1. open /\ listening /\ n = uri /\ server[n] = text
    BY <1>3 DEF MirrorIInv, OnlyTheTextIsKnown
  <2>2. uri # NoName
    BY <2>1, BufferAssumption
  <2> QED
    BY <2>1, <2>2 DEF buffer_uri
<1>4. OnlyTheTextIsKnown'
  BY <1>3 DEF OnlyTheTextIsKnown
<1>5. ShapesKept'
  BY ShapesStay DEF MirrorIInv
<1> QED
  BY <1>2, <1>4, <1>5 DEF MirrorIInv

(* A slot that is taken is one the server knows nothing of.                    *)
LEMMA TakenMirrored ==
  ASSUME IInv, MirrorIInv, UNCHANGED lspVars,
         eddy_new_buffer \/ \E n \in Name : buffer_open(n) \/ BufferOpenFails(n)
  PROVE  MirrorIInv'
<1>1. uri' = uri /\ uriFreed' = uriFreed /\ server' = server
  BY DEF lspVars
<1>2. Reusable /\ open' = TRUE /\ undoStack' = undoStack
  BY DEF eddy_new_buffer, buffer_open, BufferOpenFails, history
<1>3. \/ name' = name /\ listening' = listening
      \/ name' \in Name
  BY DEF eddy_new_buffer, buffer_open, BufferOpenFails
<1>4. ~listening
  BY <1>2 DEF Reusable, MirrorIInv, ListenerNamed
<1>5. ~uriFreed => uri = NoName
  BY <1>2 DEF Reusable, MirrorIInv, UriIsOfName
<1>6. MirrorTypes' /\ UriIsOfName'
  BY <1>1, <1>2, <1>5 DEF MirrorIInv, MirrorTypes, UriIsOfName
<1>7. ListenerNamed'
  BY <1>2, <1>3, <1>4, BufferAssumption DEF ListenerNamed
<1>8. OnlyTheTextIsKnown'
  BY <1>1, <1>4 DEF MirrorIInv, OnlyTheTextIsKnown
<1>9. ShapesKept'
  BY <1>2, ShapesStay DEF MirrorIInv
<1> QED
  BY <1>6, <1>7, <1>8, <1>9 DEF MirrorIInv

(* Every step of a document is one of its buffer, or leaves the buffer alone.   *)
LEMMA StepOfBuffer == LspNext => [Next]_vars
<1> SUFFICES ASSUME LspNext PROVE [Next]_vars
  OBVIOUS
<1>1. ChangeText => Next
  BY Zenon DEF ChangeText, Next
<1>2. (\E n \in Name \cup {NoName} : SaveDocument(n)) => Next
  BY Zenon DEF SaveDocument, Next
<1>3. ViewBuffer => Next
  BY Zenon DEF ViewBuffer, Next
<1>4. CloseView => UNCHANGED vars
  BY DEF CloseView
<1>5. CloseBuffer => Next
  BY Zenon DEF CloseBuffer, Next
<1>6. Diagnostics => Next
  BY Zenon DEF Diagnostics, Next
<1>7. Untold => Next
  BY Zenon DEF Untold, Next
<1> QED
  BY <1>1, <1>2, <1>3, <1>4, <1>5, <1>6, <1>7, Zenon DEF LspNext

(* Initially there is no document.                                             *)
LEMMA MirrorInit == LspInit => IInv /\ MirrorIInv
<1> SUFFICES ASSUME LspInit PROVE IInv /\ MirrorIInv
  OBVIOUS
<1>1. IInv
  BY InitGood DEF LspInit
<1>2. undoStack = << >> /\ uri = NoName /\ ~uriFreed /\ ~open /\ ~listening
  BY DEF LspInit, Init
<1>3. ShapesKept
  <2>1. \A i \in 1 .. Len(undoStack) : FALSE
    BY <1>2, EmptySeq
  <2> QED
    BY <2>1 DEF ShapesKept
<1>4. MirrorTypes /\ UriIsOfName /\ ListenerNamed
  BY <1>2 DEF LspInit, MirrorTypes, UriIsOfName, ListenerNamed
<1>5. OnlyTheTextIsKnown
  BY DEF LspInit, OnlyTheTextIsKnown
<1> QED
  BY <1>1, <1>3, <1>4, <1>5 DEF MirrorIInv

(* Every step of a prompt editor keeps it.                                     *)
LEMMA MirrorNext == IInv /\ MirrorIInv /\ [PromptNext]_allVars => IInv' /\ MirrorIInv'
<1> SUFFICES ASSUME IInv, MirrorIInv, [PromptNext]_allVars PROVE IInv' /\ MirrorIInv'
  OBVIOUS
<1>1. IInv'
  <2>1. [Next]_vars
    BY StepOfBuffer DEF PromptNext, allVars
  <2> QED
    BY <2>1, NextGood
<1>2. CASE ChangeText /\ ~EditOfOldIndex
  BY <1>1, <1>2, ChangeMirrored
<1>3. ASSUME NEW n \in Name \cup {NoName}, SaveDocument(n)
      PROVE  MirrorIInv'
  BY <1>3, SaveMirrored
<1>4. CASE ViewBuffer
  BY <1>1, <1>4, ViewMirrored
<1>5. CASE CloseBuffer /\ ~CloseUnderFreedUri
  BY <1>1, <1>5, CloseMirrored
<1>6. CASE CloseView \/ UNCHANGED allVars
  <2>1. UNCHANGED <<open, name, listening, text, undoStack, uri, uriFreed, server>>
    BY <1>6 DEF CloseView, allVars, vars, lspVars, slot, history
  <2> QED
    BY <1>1, <2>1, SilentMirrored
<1>7. CASE Diagnostics
  <2>1. /\ UNCHANGED <<open, name, listening, text, undoStack, uriFreed, server>>
        /\ name # NoName /\ uri' = buffer_uri /\ open
    BY <1>7 DEF Diagnostics, eddy_publish_diagnostics_handler, Bump, Ready, slot, history
  <2> QED
    BY <1>1, <2>1, SilentMirrored
<1>8. CASE Untold
  <2>1. CASE eddy_on_draw \/ eddy_load_theme
    <3>1. UNCHANGED <<slot, text, history>>
      BY <2>1 DEF eddy_on_draw, eddy_load_theme, Bump
    <3>2. UNCHANGED <<open, name, listening, text, undoStack, uri, uriFreed, server>>
      BY <1>8, <3>1 DEF Untold, lspVars, slot, history
    <3> QED
      BY <1>1, <3>2, SilentMirrored
  <2>2. CASE eddy_new_buffer \/ \E n \in Name : buffer_open(n) \/ BufferOpenFails(n)
    BY <1>1, <1>8, <2>2, TakenMirrored DEF Untold
  <2> QED
    BY <1>8, <2>1, <2>2 DEF Untold
<1> QED
  BY <1>1, <1>2, <1>3, <1>4, <1>5, <1>6, <1>7, <1>8 DEF PromptNext, LspNext

(* The invariant of a prompt editor's buffers and of the server's copies.       *)
THEOREM MirrorInvariance == PromptSpec => [](IInv /\ MirrorIInv)
<1> QED
  BY MirrorInit, MirrorNext, PTL DEF PromptSpec

(* The language server's copy is the text of the buffer: no edit, undo, redo,   *)
(* save, reopening or reuse of the slot lets the two drift apart, as long as    *)
(* every edit finds a current index and no document is closed under a freed URI *)
(* (c.c: c_mode_buffer_event_listener, buffer.c: buffer_apply).                 *)
THEOREM ServerKeepsUp == PromptSpec => []ServerMirrorsText
<1>1. IInv /\ MirrorIInv => ServerMirrorsText
  <2> SUFFICES ASSUME MirrorIInv, Announced PROVE server[uri] = text
    BY DEF ServerMirrorsText
  <2>1. uri \in Name /\ ~uriFreed /\ server[uri] # NotOpen
    BY DEF Announced, MirrorIInv, MirrorTypes
  <2> QED
    BY <2>1 DEF MirrorIInv, OnlyTheTextIsKnown
<1> QED
  BY <1>1, MirrorInvariance, PTL

=============================================================================
