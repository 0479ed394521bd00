----------------------------- MODULE BufferProofs -----------------------------
(***************************************************************************)
(* Proofs about Buffer, and that its undo stack implements an undo history   *)
(* (UndoHistory) while that is linear, for every alphabet, every set of      *)
(* texts and files, and every bound.                                        *)
(***************************************************************************)
EXTENDS UndoHistory, SequenceTheorems, TLAPS

(* The inductive invariant.  An undo reads text back out of the undo buffer,  *)
(* so type correctness needs more than bounds: the part of the undo buffer a  *)
(* reference covers holds characters, never a file name pushed by a save.     *)
GoodRef(ub, ref) ==
  /\ ref.index + ref.length <= Len(ub)
  /\ \A k \in ref.index + 1 .. ref.index + ref.length : ub[k] \in Char

RefsGood ==
  \A i \in 1 .. Len(undoStack) :
    GoodRef(undoBuffer, undoStack[i].inserted) /\ GoodRef(undoBuffer, undoStack[i].removed)

CountersOrdered ==
  /\ indexedVersion <= version
  /\ NoEmptyReplacement => Len(undoStack) <= version /\ savedVersion <= version

ClosedIsBlank == ~open => name = NoName /\ text = << >> /\ lines = NoLines

IInv ==
  /\ TypeOK
  /\ RefsGood
  /\ CountersOrdered
  /\ ClosedIsBlank
  /\ IndexIsCurrent
  /\ CleanMeansStored
  /\ AssertsHoldWithoutEmptyReplacement

-----------------------------------------------------------------------------
(* The helpers.                                                               *)

(* A clamped value lies between its bounds (iclamp).                          *)
LEMMA ClampInRange ==
  ASSUME NEW v \in Int, NEW hi \in Nat
  PROVE  iclamp(v, 0, hi) \in 0 .. hi
BY DEF iclamp

(* A part of a text is a text, whatever its ends (SubSeq as sb_remove and the *)
(* operations use it).                                                        *)
LEMMA PartOfSeq ==
  ASSUME NEW S, NEW s \in Seq(S), NEW m \in Int, NEW n \in Int, 1 <= m, n <= Len(s)
  PROVE  /\ SubSeq(s, m, n) \in Seq(S)
         /\ Len(SubSeq(s, m, n)) = IF m <= n THEN n - m + 1 ELSE 0
         /\ \A i \in 1 .. n - m + 1 : SubSeq(s, m, n)[i] = s[m + i - 1]
<1>1. \A i \in m .. n : s[i] \in S
  <2> SUFFICES ASSUME NEW i \in m .. n PROVE s[i] \in S
    OBVIOUS
  <2>1. i \in 1 .. Len(s)
    BY LenProperties
  <2> QED
    BY <2>1, ElementOfSeq
<1> QED
  BY <1>1, SubSeqProperties

(* Removing any range of a text leaves a text (sb_remove).                    *)
LEMMA RemoveInSeq ==
  ASSUME NEW S, NEW s \in Seq(S), NEW at \in Nat, NEW num \in Nat
  PROVE  sb_remove(s, at, num) \in Seq(S)
<1>1. CASE at >= Len(s)
  BY <1>1 DEF sb_remove
<1>2. CASE ~(at >= Len(s))
  <2>1. Len(s) \in Nat
    BY LenProperties
  <2>2. SubSeq(s, 1, at) \in Seq(S)
    BY <1>2, <2>1, PartOfSeq
  <2>3. SubSeq(s, at + num + 1, Len(s)) \in Seq(S)
    BY <2>1, PartOfSeq
  <2> QED
    BY <1>2, <2>2, <2>3, ConcatProperties DEF sb_remove
<1> QED
  BY <1>1, <1>2

(* Inserting a text anywhere gives a text (sb_insert_sv).                     *)
LEMMA InsertInSeq ==
  ASSUME NEW S, NEW s \in Seq(S), NEW sv \in Seq(S), NEW at \in Nat
  PROVE  sb_insert_sv(s, sv, at) \in Seq(S)
<1>0. Len(s) \in Nat
  BY LenProperties
<1>1. CASE at >= Len(s)
  BY <1>1, ConcatProperties DEF sb_insert_sv
<1>2. CASE ~(at >= Len(s))
  <2>1. SubSeq(s, 1, at) \in Seq(S) /\ SubSeq(s, at + 1, Len(s)) \in Seq(S)
    BY <1>0, <1>2, PartOfSeq
  <2>2. SubSeq(s, 1, at) \o sv \in Seq(S)
    BY <2>1, ConcatProperties
  <2> QED
    BY <1>2, <2>1, <2>2, ConcatProperties DEF sb_insert_sv
<1> QED
  BY <1>1, <1>2

(* A good reference reads as a text of characters (buffer_sv_from_ref).       *)
LEMMA GoodRefReads ==
  ASSUME NEW ub \in Seq(Symbol), NEW ref \in StringRef, GoodRef(ub, ref)
  PROVE  buffer_sv_from_ref(ub, ref) \in Seq(Char)
<1>1. ref.index \in Nat /\ ref.length \in Nat
  BY DEF StringRef
<1> QED
  BY <1>1, SubSeqProperties DEF buffer_sv_from_ref, GoodRef

(* An edit with good references turns a text into a text (buffer_apply).      *)
LEMMA EditedTextInSeq ==
  ASSUME NEW t \in Seq(Char), NEW ub \in Seq(Symbol), NEW e \in EditEvent,
         GoodRef(ub, e.inserted)
  PROVE  EditedText(t, ub, e) \in Seq(Char)
<1> DEFINE kept == IF e.type = "ETInsert" THEN t ELSE sb_remove(t, e.position, e.removed.length)
<1>1. e.position \in Nat /\ e.inserted \in StringRef /\ e.removed.length \in Nat
  BY DEF EditEvent, StringRef
<1>2. kept \in Seq(Char)
  BY <1>1, RemoveInSeq
<1>3. buffer_sv_from_ref(ub, e.inserted) \in Seq(Char)
  BY <1>1, GoodRefReads
<1>4. sb_insert_sv(kept, buffer_sv_from_ref(ub, e.inserted), e.position) \in Seq(Char)
  BY <1>1, <1>2, <1>3, InsertInSeq
<1> QED
  BY <1>2, <1>4 DEF EditedText

(* Reverting an event gives an event, with the references exchanged.          *)
LEMMA RevertIsEvent ==
  ASSUME NEW e \in EditEvent
  PROVE  /\ revert_edit(e) \in EditEvent
         /\ revert_edit(e).inserted = e.removed
         /\ revert_edit(e).removed = e.inserted
BY DEF revert_edit, EditEvent, EditType

(* The line index of a text is a pair of sets of positions.                   *)
LEMMA LinesOfType ==
  ASSUME NEW t \in Seq(Char)
  PROVE  LinesOf(t) \in [starts : SUBSET Nat, ends : SUBSET Int]
<1>1. Len(t) \in Nat
  BY LenProperties
<1> QED
  BY <1>1 DEF LinesOf, NewlinesOf

(* A reference stays good while symbols are appended behind it.               *)
LEMMA GoodRefExtends ==
  ASSUME NEW ub \in Seq(Symbol), NEW more \in Seq(Symbol), NEW ref \in StringRef,
         GoodRef(ub, ref)
  PROVE  GoodRef(ub \o more, ref)
<1>1. ref.index \in Nat /\ ref.length \in Nat /\ Len(ub) \in Nat /\ Len(more) \in Nat
  BY LenProperties DEF StringRef
<1>2. Len(ub \o more) = Len(ub) + Len(more)
  BY ConcatProperties
<1>3. \A k \in 1 .. Len(ub) : (ub \o more)[k] = ub[k]
  BY <1>1, ConcatProperties
<1> QED
  BY <1>1, <1>2, <1>3 DEF GoodRef

(* The reference append_to_undo_buffer returns for a text is good.            *)
LEMMA AppendedRefGood ==
  ASSUME NEW ub \in Seq(Symbol), NEW sv \in Seq(Char)
  PROVE  /\ AppendedRef(ub, sv) \in StringRef
         /\ AppendedRef(ub, sv).length = Len(sv)
         /\ ub \o sv \in Seq(Symbol)
         /\ GoodRef(ub \o sv, AppendedRef(ub, sv))
<1>1. Len(ub) \in Nat /\ Len(sv) \in Nat
  BY LenProperties
<1>2. sv \in Seq(Symbol)
  BY SeqMonotonic, Char \subseteq Symbol DEF Symbol
<1>3. ub \o sv \in Seq(Symbol) /\ Len(ub \o sv) = Len(ub) + Len(sv)
  BY <1>2, ConcatProperties
<1>4. \A k \in Len(ub) + 1 .. Len(ub) + Len(sv) : (ub \o sv)[k] \in Char
  <2> SUFFICES ASSUME NEW k \in Len(ub) + 1 .. Len(ub) + Len(sv)
               PROVE  (ub \o sv)[k] \in Char
    OBVIOUS
  <2>1. (ub \o sv)[k] = sv[k - Len(ub)]
    BY <1>1, <1>2, ConcatProperties
  <2>2. k - Len(ub) \in 1 .. Len(sv)
    BY <1>1
  <2> QED
    BY <2>1, <2>2, ElementOfSeq
<1> QED
  BY <1>1, <1>3, <1>4 DEF AppendedRef, StringRef, GoodRef

(* The null reference is good.                                                *)
LEMMA NullRefGood ==
  ASSUME NEW ub \in Seq(Symbol)
  PROVE  NullRef \in StringRef /\ GoodRef(ub, NullRef)
<1>1. Len(ub) \in Nat
  BY LenProperties
<1> QED
  BY <1>1 DEF NullRef, StringRef, GoodRef

-----------------------------------------------------------------------------
(* The steps.                                                                 *)

(* buffer_apply leaves a text of characters and counts each change it makes.  *)
LEMMA ApplyStep ==
  ASSUME IInv, NEW ub \in Seq(Symbol), NEW e \in EditEvent, GoodRef(ub, e.inserted),
         buffer_apply(ub, e)
  PROVE  /\ text' \in Seq(Char)
         /\ version' \in Nat
         /\ applied' \in EditEvent \cup {Signal(t) : t \in SignalType}
         /\ Effective(e) => version' = version + 1
         /\ ~Effective(e) => text' = text /\ version' = version
<1>1. text \in Seq(Char) /\ version \in Nat
  BY DEF IInv, TypeOK
<1>2. CASE Effective(e)
  <2>1. text' = EditedText(text, ub, e) /\ version' = version + 1 /\ applied' = e
    BY <1>2 DEF buffer_apply, ApplyCounting
  <2>2. EditedText(text, ub, e) \in Seq(Char)
    BY <1>1, EditedTextInSeq
  <2> QED
    BY <1>1, <1>2, <2>1, <2>2
<1>3. CASE ~Effective(e)
  <2>1. text' = text /\ version' = version /\ applied' = Signal("ETNone")
    BY <1>3 DEF buffer_apply, ApplyCounting
  <2>2. "ETNone" \in SignalType
    BY DEF SignalType
  <2> QED
    BY <1>1, <1>3, <2>1, <2>2
<1> QED
  BY <1>2, <1>3

(* Pushing an event whose references are good and which is not an empty       *)
(* insertion or deletion keeps the invariant (buffer_edit).                   *)
LEMMA PushStep ==
  ASSUME IInv, Ready, NEW more \in Seq(Symbol), NEW e \in EditEvent,
         GoodRef(undoBuffer \o more, e.inserted), GoodRef(undoBuffer \o more, e.removed),
         e.type # "ETReplace" => Effective(e),
         ApplyAndPush(undoBuffer \o more, e)
  PROVE  IInv'
<1> DEFINE ub == undoBuffer \o more
<1>1. /\ undoBuffer \in Seq(Symbol) /\ undoStack \in Seq(EditEvent)
      /\ version \in Nat /\ savedVersion \in Nat /\ indexedVersion \in Nat
      /\ open
  BY DEF IInv, TypeOK, Ready
<1>2. /\ undoBuffer' = ub /\ undoStack' = Append(undoStack, e)
      /\ undoPointer' = Len(undoStack) + 1
      /\ buffer_apply(ub, e)
      /\ UNCHANGED <<alive, open, name, listening, savedVersion, indexedVersion, lines, disk>>
  BY DEF ApplyAndPush, slot, index
<1>3. ub \in Seq(Symbol)
  BY <1>1, ConcatProperties
<1>4. /\ text' \in Seq(Char) /\ version' \in Nat
      /\ applied' \in EditEvent \cup {Signal(t) : t \in SignalType}
      /\ Effective(e) => version' = version + 1
      /\ ~Effective(e) => text' = text /\ version' = version
  <2> HIDE DEF ub
  <2> QED
    BY <1>2, <1>3, ApplyStep DEF ub
<1>5. /\ undoStack' \in Seq(EditEvent)
      /\ Len(undoStack') = Len(undoStack) + 1 /\ Len(undoStack) \in Nat
      /\ \A i \in 1 .. Len(undoStack) : undoStack'[i] = undoStack[i]
      /\ undoStack'[Len(undoStack) + 1] = e
  BY <1>1, <1>2, AppendProperties, LenProperties
<1>6. NoEmptyReplacement' => NoEmptyReplacement /\ Effective(e)
  <2> SUFFICES ASSUME NoEmptyReplacement'
               PROVE  NoEmptyReplacement /\ Effective(e)
    OBVIOUS
  <2>1. \A i \in 1 .. Len(undoStack') :
          undoStack'[i].type = "ETReplace" => undoStack'[i].inserted.length # 0
    BY DEF NoEmptyReplacement
  <2>2. NoEmptyReplacement
    <3>1. \A i \in 1 .. Len(undoStack) : i \in 1 .. Len(undoStack')
      BY <1>5
    <3> QED
      BY <2>1, <3>1, <1>5 DEF NoEmptyReplacement
  <2>3. e.type = "ETReplace" => e.inserted.length # 0
    BY <2>1, <1>5
  <2>4. e.type = "ETReplace" => Effective(e)
    BY <2>3 DEF Effective
  <2> QED
    BY <2>2, <2>4
<1>7. TypeOK'
  BY <1>1, <1>2, <1>3, <1>4, <1>5 DEF TypeOK, IInv
<1>8. RefsGood'
  <2> SUFFICES ASSUME NEW i \in 1 .. Len(undoStack')
               PROVE  GoodRef(ub, undoStack'[i].inserted) /\ GoodRef(ub, undoStack'[i].removed)
    BY <1>2 DEF RefsGood, GoodRef
  <2>1. CASE i = Len(undoStack) + 1
    BY <2>1, <1>5
  <2>2. CASE i \in 1 .. Len(undoStack)
    <3>1. undoStack[i] \in EditEvent
      BY <2>2, <1>1, ElementOfSeq
    <3>2. undoStack[i].inserted \in StringRef /\ undoStack[i].removed \in StringRef
      BY <3>1 DEF EditEvent
    <3>3. GoodRef(undoBuffer, undoStack[i].inserted) /\ GoodRef(undoBuffer, undoStack[i].removed)
      BY <2>2 DEF IInv, RefsGood
    <3> QED
      BY <2>2, <1>1, <1>5, <3>2, <3>3, GoodRefExtends
  <2> QED
    BY <1>5, <2>1, <2>2
<1>9. CountersOrdered'
  BY <1>1, <1>2, <1>4, <1>5, <1>6 DEF CountersOrdered, IInv
<1>10. ClosedIsBlank'
  BY <1>1, <1>2 DEF ClosedIsBlank
<1>11. IndexIsCurrent'
  BY <1>1, <1>2, <1>4 DEF IndexIsCurrent, IInv, CountersOrdered
<1>12. CleanMeansStored'
  BY <1>1, <1>2, <1>4, <1>6 DEF CleanMeansStored, IInv, CountersOrdered
<1>13. AssertsHoldWithoutEmptyReplacement'
  BY <1>2 DEF AssertsHoldWithoutEmptyReplacement, Ready
<1> QED
  BY <1>7, <1>8, <1>9, <1>10, <1>11, <1>12, <1>13 DEF IInv

(* A step that leaves the history alone, or pushes symbols behind it, keeps   *)
(* the references good.                                                       *)
LEMMA RefsKept ==
  ASSUME IInv, NEW more \in Seq(Symbol),
         undoBuffer' = undoBuffer \/ undoBuffer' = undoBuffer \o more,
         undoStack' = undoStack
  PROVE  RefsGood' /\ undoBuffer' \in Seq(Symbol)
<1>1. undoBuffer \in Seq(Symbol) /\ undoStack \in Seq(EditEvent)
  BY DEF IInv, TypeOK
<1>2. CASE undoBuffer' = undoBuffer
  BY <1>1, <1>2 DEF IInv, RefsGood, GoodRef
<1>3. CASE undoBuffer' = undoBuffer \o more
  <2>1. ASSUME NEW i \in 1 .. Len(undoStack)
        PROVE  /\ GoodRef(undoBuffer \o more, undoStack[i].inserted)
               /\ GoodRef(undoBuffer \o more, undoStack[i].removed)
    <3>1. undoStack[i] \in EditEvent
      BY <1>1, ElementOfSeq
    <3>2. undoStack[i].inserted \in StringRef /\ undoStack[i].removed \in StringRef
      BY <3>1 DEF EditEvent
    <3>3. GoodRef(undoBuffer, undoStack[i].inserted) /\ GoodRef(undoBuffer, undoStack[i].removed)
      BY DEF IInv, RefsGood
    <3> QED
      BY <1>1, <3>2, <3>3, GoodRefExtends
  <2>2. undoBuffer \o more \in Seq(Symbol)
    BY <1>1, ConcatProperties
  <2> QED
    BY <1>3, <2>1, <2>2 DEF RefsGood, GoodRef
<1> QED
  BY <1>2, <1>3

(* What is deleted or overwritten is a part of the text, as long as the       *)
(* clamped count (buffer_edit).                                               *)
LEMMA TakenPart ==
  ASSUME NEW t \in Seq(Char), NEW at \in Int, NEW num \in Int
  PROVE  LET p == iclamp(at, 0, Len(t))
             n == iclamp(num, 0, Len(t) - p)
         IN  /\ p \in Nat /\ n \in Nat
             /\ SubSeq(t, p + 1, p + n) \in Seq(Char)
             /\ Len(SubSeq(t, p + 1, p + n)) = n
<1> DEFINE p == iclamp(at, 0, Len(t))
           n == iclamp(num, 0, Len(t) - p)
<1>0. Len(t) \in Nat
  BY LenProperties
<1>1. p \in 0 .. Len(t)
  BY <1>0, ClampInRange
<1> HIDE DEF p
<1>2. n \in 0 .. Len(t) - p
  <2>1. Len(t) - p \in Nat
    BY <1>0, <1>1
  <2> QED
    BY <2>1, ClampInRange
<1> HIDE DEF n
<1>3. /\ SubSeq(t, p + 1, p + n) \in Seq(Char)
      /\ Len(SubSeq(t, p + 1, p + n)) = n
  BY <1>0, <1>1, <1>2, PartOfSeq
<1>4. p \in Nat /\ n \in Nat
  BY <1>0, <1>1, <1>2
<1> QED
  BY <1>3, <1>4 DEF p, n

(* buffer_insert keeps the invariant.                                         *)
LEMMA InsertStep ==
  ASSUME IInv, NEW sv \in Seq(Char), NEW pos \in Int, buffer_insert(sv, pos)
  PROVE  IInv'
<1> DEFINE e == [type     |-> "ETInsert",
                 position |-> iclamp(pos, 0, Len(text)),
                 inserted |-> AppendedRef(undoBuffer, sv),
                 removed  |-> NullRef]
<1>1. /\ text \in Seq(Char) /\ undoBuffer \in Seq(Symbol)
      /\ Len(text) \in Nat
  BY LenProperties DEF IInv, TypeOK
<1>2. Ready /\ Len(sv) # 0 /\ ApplyAndPush(undoBuffer \o sv, e)
  BY DEF buffer_insert
<1>3. sv \in Seq(Symbol)
  BY SeqMonotonic, Char \subseteq Symbol DEF Symbol
<1>4. /\ AppendedRef(undoBuffer, sv) \in StringRef
      /\ AppendedRef(undoBuffer, sv).length = Len(sv)
      /\ GoodRef(undoBuffer \o sv, AppendedRef(undoBuffer, sv))
      /\ undoBuffer \o sv \in Seq(Symbol)
  BY <1>1, AppendedRefGood
<1>5. NullRef \in StringRef /\ GoodRef(undoBuffer \o sv, NullRef)
  BY <1>4, NullRefGood
<1>6. iclamp(pos, 0, Len(text)) \in Nat
  BY <1>1, ClampInRange
<1>7. e \in EditEvent
  BY <1>4, <1>5, <1>6 DEF EditEvent, EditType
<1>8. Effective(e)
  BY <1>2, <1>4 DEF Effective
<1>9. GoodRef(undoBuffer \o sv, e.inserted) /\ GoodRef(undoBuffer \o sv, e.removed)
  BY <1>4, <1>5
<1> HIDE DEF e
<1> QED
  BY <1>2, <1>3, <1>7, <1>8, <1>9, PushStep

(* buffer_delete keeps the invariant.                                         *)
LEMMA DeleteStep ==
  ASSUME IInv, NEW at \in Int, NEW count \in Int, buffer_delete(at, count)
  PROVE  IInv'
<1> DEFINE p == iclamp(at, 0, Len(text))
           n == iclamp(count, 0, Len(text) - p)
           deleted == SubSeq(text, p + 1, p + n)
           e == [type     |-> "ETDelete",
                 position |-> p,
                 inserted |-> NullRef,
                 removed  |-> AppendedRef(undoBuffer, deleted)]
<1>1. text \in Seq(Char) /\ undoBuffer \in Seq(Symbol)
  BY DEF IInv, TypeOK
<1>2. Ready /\ n # 0 /\ ApplyAndPush(undoBuffer \o deleted, e)
  BY DEF buffer_delete
<1>3. p \in Nat /\ n \in Nat /\ deleted \in Seq(Char) /\ Len(deleted) = n
  BY <1>1, TakenPart
<1> HIDE DEF p, n, deleted
<1>4. deleted \in Seq(Symbol)
  BY <1>3, SeqMonotonic, Char \subseteq Symbol DEF Symbol
<1>5. /\ AppendedRef(undoBuffer, deleted) \in StringRef
      /\ AppendedRef(undoBuffer, deleted).length = n
      /\ GoodRef(undoBuffer \o deleted, AppendedRef(undoBuffer, deleted))
      /\ undoBuffer \o deleted \in Seq(Symbol)
  BY <1>1, <1>3, AppendedRefGood
<1>6. NullRef \in StringRef /\ GoodRef(undoBuffer \o deleted, NullRef)
  BY <1>5, NullRefGood
<1>7. e \in EditEvent
  BY <1>3, <1>5, <1>6 DEF EditEvent, EditType
<1>8. Effective(e)
  BY <1>2, <1>5 DEF Effective
<1>9. GoodRef(undoBuffer \o deleted, e.inserted) /\ GoodRef(undoBuffer \o deleted, e.removed)
  BY <1>5, <1>6
<1> HIDE DEF e
<1> QED
  BY <1>2, <1>4, <1>7, <1>8, <1>9, PushStep

(* A replacement that overwrites something keeps the invariant.               *)
LEMMA ReplaceSomeStep ==
  ASSUME IInv, NEW at \in Int, NEW num \in Int, NEW sv \in Seq(Char),
         ReplaceSome(at, num, sv)
  PROVE  IInv'
<1> DEFINE p == iclamp(at, 0, Len(text))
           n == iclamp(num, 0, Len(text) - p)
           ub == undoBuffer \o sv
           overwritten == SubSeq(text, p + 1, p + n)
           e == [type     |-> "ETReplace",
                 position |-> p,
                 inserted |-> AppendedRef(undoBuffer, sv),
                 removed  |-> AppendedRef(ub, overwritten)]
<1>1. text \in Seq(Char) /\ undoBuffer \in Seq(Symbol)
  BY DEF IInv, TypeOK
<1>2. Ready /\ ApplyAndPush(ub \o overwritten, e)
  BY DEF ReplaceSome
<1>3. p \in Nat /\ overwritten \in Seq(Char)
  BY <1>1, TakenPart
<1> HIDE DEF p, n, overwritten
<1>4. sv \in Seq(Symbol) /\ overwritten \in Seq(Symbol)
  BY <1>3, SeqMonotonic, Char \subseteq Symbol DEF Symbol
<1>5. /\ AppendedRef(undoBuffer, sv) \in StringRef
      /\ ub \in Seq(Symbol)
      /\ GoodRef(ub, AppendedRef(undoBuffer, sv))
  BY <1>1, AppendedRefGood
<1>6. /\ AppendedRef(ub, overwritten) \in StringRef
      /\ GoodRef(ub \o overwritten, AppendedRef(ub, overwritten))
  <2> HIDE DEF ub
  <2> QED
    BY <1>3, <1>5, AppendedRefGood
<1>7. GoodRef(ub \o overwritten, AppendedRef(undoBuffer, sv))
  <2> HIDE DEF ub
  <2> QED
    BY <1>4, <1>5, GoodRefExtends
<1>8. e \in EditEvent
  BY <1>3, <1>5, <1>6 DEF EditEvent, EditType
<1>9. ub \o overwritten = undoBuffer \o (sv \o overwritten)
  BY <1>1, <1>4, ConcatAssociative
<1>10. sv \o overwritten \in Seq(Symbol)
  BY <1>4, ConcatProperties
<1>11. /\ GoodRef(undoBuffer \o (sv \o overwritten), e.inserted)
       /\ GoodRef(undoBuffer \o (sv \o overwritten), e.removed)
  BY <1>6, <1>7, <1>9
<1>12. e.type = "ETReplace"
  OBVIOUS
<1>13. ApplyAndPush(undoBuffer \o (sv \o overwritten), e)
  BY <1>2, <1>9
<1> HIDE DEF e
<1> QED
  BY <1>2, <1>8, <1>10, <1>11, <1>13, <1>12, PushStep

(* A step that may push symbols behind the undo buffer but leaves the text,   *)
(* the history, the versions and the index alone keeps the invariant: what a  *)
(* replacement of nothing or a save with nothing to do amounts to.            *)
LEMMA QuietStep ==
  ASSUME IInv, Ready, NEW more \in Seq(Symbol),
         undoBuffer' = undoBuffer \/ undoBuffer' = undoBuffer \o more,
         applied' = Signal("ETNone"),
         UNCHANGED <<alive, slot, text, undoStack, undoPointer, version, savedVersion,
                     index, disk>>
  PROVE  IInv'
<1>1. RefsGood' /\ undoBuffer' \in Seq(Symbol)
  BY RefsKept
<1>2. Signal("ETNone") \in {Signal(t) : t \in SignalType}
  BY DEF SignalType
<1>3. TypeOK'
  BY <1>1, <1>2 DEF IInv, TypeOK, slot, index
<1>4. NoEmptyReplacement' = NoEmptyReplacement
  BY DEF NoEmptyReplacement
<1>5. CountersOrdered' /\ AssertsHoldWithoutEmptyReplacement'
  BY <1>4 DEF IInv, CountersOrdered, AssertsHoldWithoutEmptyReplacement, index
<1>6. ClosedIsBlank' /\ IndexIsCurrent'
  BY DEF IInv, ClosedIsBlank, IndexIsCurrent, slot, index, LinesOf, NewlinesOf
<1>7. CleanMeansStored'
  BY <1>4 DEF IInv, CleanMeansStored, StoredText, slot
<1> QED
  BY <1>1, <1>3, <1>5, <1>6, <1>7 DEF IInv

(* buffer_replace keeps the invariant.                                        *)
LEMMA ReplaceStep ==
  ASSUME IInv, NEW at \in Int, NEW num \in Int, NEW sv \in Seq(Char),
         buffer_replace(at, num, sv)
  PROVE  IInv'
<1>1. CASE ReplaceNothing(at, num, sv)
  <2>1. sv \in Seq(Symbol)
    BY SeqMonotonic, Char \subseteq Symbol DEF Symbol
  <2> QED
    BY <1>1, <2>1, QuietStep DEF ReplaceNothing
<1>2. CASE ReplaceSome(at, num, sv)
  BY <1>2, ReplaceSomeStep
<1> QED
  BY <1>1, <1>2 DEF buffer_replace

(* An undo or a redo keeps the invariant: it applies the reverse of an event  *)
(* on the stack and counts it as one more change.                             *)
LEMMA RevertStep ==
  ASSUME IInv, NEW e \in Nat, NEW p \in Int, p \in 0 .. Len(undoStack),
         Revert(e, p)
  PROVE  IInv'
<1> DEFINE r == revert_edit(undoStack[e])
<1>1. /\ undoBuffer \in Seq(Symbol) /\ undoStack \in Seq(EditEvent)
      /\ version \in Nat /\ savedVersion \in Nat /\ indexedVersion \in Nat
      /\ Len(undoStack) \in Nat
  BY LenProperties DEF IInv, TypeOK
<1>2. /\ Ready /\ e \in 1 .. Len(undoStack)
      /\ undoPointer' = p /\ undoStack' = undoStack
      /\ buffer_apply(undoBuffer, r)
      /\ UNCHANGED <<alive, open, name, listening, undoBuffer, savedVersion,
                     indexedVersion, lines, disk>>
  BY DEF Revert, slot, index
<1>3. undoStack[e] \in EditEvent
  BY <1>1, <1>2, ElementOfSeq
<1>4. r \in EditEvent /\ GoodRef(undoBuffer, r.inserted)
  BY <1>2, <1>3, RevertIsEvent DEF IInv, RefsGood
<1> HIDE DEF r
<1>5. /\ text' \in Seq(Char) /\ version' \in Nat
      /\ applied' \in EditEvent \cup {Signal(t) : t \in SignalType}
      /\ \/ version' = version + 1
         \/ text' = text /\ version' = version
  BY <1>1, <1>2, <1>4, ApplyStep
<1>6. TypeOK'
  BY <1>1, <1>2, <1>5 DEF IInv, TypeOK
<1>7. RefsGood'
  BY <1>2 DEF IInv, RefsGood, GoodRef
<1>8. NoEmptyReplacement' = NoEmptyReplacement
  BY <1>2 DEF NoEmptyReplacement
<1>9. CountersOrdered'
  BY <1>1, <1>2, <1>5, <1>8 DEF IInv, CountersOrdered
<1>10. ClosedIsBlank'
  BY <1>2 DEF ClosedIsBlank, Ready
<1>11. IndexIsCurrent'
  <2>1. CASE version' = version + 1
    BY <1>1, <1>2, <2>1 DEF IInv, IndexIsCurrent, CountersOrdered
  <2>2. CASE text' = text /\ version' = version
    BY <1>2, <2>2 DEF IInv, IndexIsCurrent, LinesOf, NewlinesOf
  <2> QED
    BY <1>5, <2>1, <2>2
<1>12. CleanMeansStored'
  BY <1>1, <1>2, <1>5, <1>8 DEF IInv, CleanMeansStored, CountersOrdered, StoredText
<1>13. AssertsHoldWithoutEmptyReplacement'
  BY <1>2, <1>8 DEF IInv, AssertsHoldWithoutEmptyReplacement
<1> QED
  BY <1>6, <1>7, <1>9, <1>10, <1>11, <1>12, <1>13 DEF IInv

(* A save keeps the invariant: the assertion holds, and what is marked as     *)
(* saved was written.                                                         *)
LEMMA SaveStep ==
  ASSUME IInv, NEW fileName \in Name \cup {NoName}, Save(fileName)
  PROVE  IInv'
<1>1. NameText(fileName) \in Seq(Symbol)
  <2>1. CASE fileName = NoName
    BY <2>1, EmptySeq DEF NameText
  <2>2. CASE fileName # NoName
    <3>1. fileName \in Symbol
      BY <2>2 DEF Symbol
    <3>2. <<fileName>> \in Seq(Symbol)
      BY <3>1
    <3> QED
      BY <2>2, <3>2 DEF NameText
  <2> QED
    BY <2>1, <2>2
<1>2. /\ text \in Seq(Char) /\ undoStack \in Seq(EditEvent) /\ Len(undoStack) \in Nat
      /\ version \in Nat /\ savedVersion \in Nat /\ indexedVersion \in Nat
      /\ name \in Name \cup {NoName} /\ disk \in [Name -> Seq(Char) \cup {Missing}]
  BY LenProperties DEF IInv, TypeOK
<1>3. Ready
  BY DEF Save
<1>4. CASE SaveAssertFails(fileName)
  <2>1. ~NoEmptyReplacement
    BY <1>2, <1>4 DEF SaveAssertFails, IInv, CountersOrdered
  <2>2. RefsGood' /\ undoBuffer' \in Seq(Symbol)
    BY <1>1, <1>4, RefsKept DEF SaveAssertFails
  <2>3. ~NoEmptyReplacement'
    BY <1>4, <2>1 DEF SaveAssertFails, NoEmptyReplacement
  <2>4. TypeOK'
    BY <1>4, <2>2, Signal("ETNone") \in {Signal(t) : t \in SignalType}
       DEF SaveAssertFails, IInv, TypeOK, slot, index, SignalType
  <2>5. CountersOrdered' /\ CleanMeansStored' /\ AssertsHoldWithoutEmptyReplacement'
    BY <1>4, <2>3 DEF SaveAssertFails, IInv, CountersOrdered, CleanMeansStored,
                      AssertsHoldWithoutEmptyReplacement, index
  <2>6. ClosedIsBlank' /\ IndexIsCurrent'
    BY <1>4 DEF SaveAssertFails, IInv, ClosedIsBlank, IndexIsCurrent, slot, index,
                LinesOf, NewlinesOf
  <2> QED
    BY <2>2, <2>4, <2>5, <2>6 DEF IInv
<1>5. CASE NothingToSave(fileName)
  BY <1>1, <1>3, <1>5, QuietStep DEF NothingToSave, history
<1>6. CASE WriteFile(fileName)
  <2> DEFINE target == IF fileName = NoName THEN name ELSE fileName
  <2>1. /\ target \in Name /\ target # NoName
        /\ name' = target
        /\ undoBuffer' = undoBuffer \o NameText(fileName)
        /\ disk' = [disk EXCEPT ![target] = text]
        /\ savedVersion' = Len(undoStack)
        /\ applied' = Signal("ETSave")
        /\ UNCHANGED <<alive, open, listening, text, undoStack, undoPointer, version,
                       indexedVersion, lines>>
    BY <1>2, <1>6 DEF WriteFile, WriteAndMark, index
  <2> HIDE DEF target
  <2>2. RefsGood' /\ undoBuffer' \in Seq(Symbol)
    BY <1>1, <2>1, RefsKept
  <2>3. NoEmptyReplacement' = NoEmptyReplacement
    BY <2>1 DEF NoEmptyReplacement
  <2>4. disk' \in [Name -> Seq(Char) \cup {Missing}] /\ disk'[target] = text
    BY <1>2, <2>1
  <2>5. TypeOK'
    BY <1>2, <2>1, <2>2, <2>4, Signal("ETSave") \in {Signal(t) : t \in SignalType}
       DEF IInv, TypeOK, SignalType
  <2>6. CountersOrdered' /\ AssertsHoldWithoutEmptyReplacement'
    BY <1>2, <2>1, <2>3 DEF IInv, CountersOrdered, AssertsHoldWithoutEmptyReplacement
  <2>7. ClosedIsBlank' /\ IndexIsCurrent'
    BY <1>3, <2>1 DEF IInv, Ready, ClosedIsBlank, IndexIsCurrent, LinesOf, NewlinesOf
  <2>8. text # Missing
    BY <1>2, BufferAssumption
  <2>9. CleanMeansStored'
    BY <2>1, <2>4, <2>8 DEF CleanMeansStored, StoredText
  <2> QED
    BY <2>2, <2>5, <2>6, <2>7, <2>9 DEF IInv
<1> QED
  BY <1>4, <1>5, <1>6 DEF Save

(* The steps that index the text or only move the version counters keep the   *)
(* invariant: the frame, a new view, diagnostics and a new theme.             *)
LEMMA CounterStep ==
  ASSUME IInv,
         \/ eddy_on_draw \/ editor_select_buffer
         \/ eddy_publish_diagnostics_handler \/ eddy_load_theme
  PROVE  IInv'
<1>1. /\ version \in Nat /\ savedVersion \in Nat /\ indexedVersion \in Nat
      /\ text \in Seq(Char) /\ indexedVersion <= version
  BY DEF IInv, TypeOK, CountersOrdered
<1>2. /\ Ready
      /\ UNCHANGED <<alive, open, name, listening, text, undoBuffer, undoStack,
                     undoPointer, disk>>
      /\ \/ version' = version /\ savedVersion' = savedVersion
         \/ /\ version' = version + 1
            /\ \/ savedVersion' = savedVersion
               \/ savedVersion = version /\ savedVersion' = version + 1
      /\ \/ UNCHANGED <<indexedVersion, lines>> /\ version' = version + 1
         \/ lines' = LinesOf(text) /\ indexedVersion' = version'
      /\ applied' \in {Signal("ETNone"), Signal("ETIndexed")}
  <2>1. CASE eddy_on_draw
    BY <1>1, <2>1 DEF eddy_on_draw, BuildIndices, slot, history
  <2>2. CASE editor_select_buffer
    BY <2>2 DEF editor_select_buffer, Bump, slot, history, index
  <2>3. CASE eddy_publish_diagnostics_handler
    BY <2>3 DEF eddy_publish_diagnostics_handler, Bump, SavedMovesAlong, slot, history, index
  <2>4. CASE eddy_load_theme
    BY <2>4 DEF eddy_load_theme, Bump, SavedMovesAlong, BuildIndices, slot, history
  <2> QED
    BY <2>1, <2>2, <2>3, <2>4
<1>3. lines' \in [starts : SUBSET Nat, ends : SUBSET Int]
  BY <1>1, <1>2, LinesOfType DEF IInv, TypeOK
<1>4. applied' \in {Signal(t) : t \in SignalType}
  BY <1>2 DEF SignalType
<1>5. TypeOK'
  BY <1>1, <1>2, <1>3, <1>4 DEF IInv, TypeOK
<1>6. RefsGood'
  BY <1>2 DEF IInv, RefsGood, GoodRef
<1>7. NoEmptyReplacement' = NoEmptyReplacement
  BY <1>2 DEF NoEmptyReplacement
<1>8. undoStack \in Seq(EditEvent) /\ Len(undoStack) \in Nat
  BY LenProperties DEF IInv, TypeOK
<1>9. CountersOrdered' /\ AssertsHoldWithoutEmptyReplacement'
  BY <1>1, <1>2, <1>7, <1>8 DEF IInv, CountersOrdered, AssertsHoldWithoutEmptyReplacement
<1>10. ClosedIsBlank'
  BY <1>2 DEF ClosedIsBlank, Ready
<1>11. IndexIsCurrent'
  BY <1>1, <1>2 DEF IndexIsCurrent, LinesOf, NewlinesOf
<1>12. CleanMeansStored'
  BY <1>1, <1>2, <1>7 DEF IInv, CleanMeansStored, CountersOrdered, StoredText, Ready
<1> QED
  BY <1>5, <1>6, <1>9, <1>10, <1>11, <1>12 DEF IInv

(* Taking a slot for a document keeps the invariant: the slot is blank or has *)
(* neither a name nor text, whatever history it carries.                      *)
LEMMA TakeSlotStep ==
  ASSUME IInv,
         eddy_new_buffer \/ \E n \in Name : buffer_open(n) \/ BufferOpenFails(n)
  PROVE  IInv'
<1>1. /\ text \in Seq(Char) /\ disk \in [Name -> Seq(Char) \cup {Missing}]
      /\ name \in Name \cup {NoName}
  BY DEF IInv, TypeOK
<1>2. name = NoName /\ text = << >> /\ alive
  BY DEF eddy_new_buffer, buffer_open, BufferOpenFails, Reusable, IInv, ClosedIsBlank
<1>3. /\ UNCHANGED <<alive, undoBuffer, undoStack, undoPointer, version, savedVersion, disk>>
      /\ open' = TRUE
      /\ listening' \in BOOLEAN
      /\ applied' \in {Signal("ETNone"), Signal("ETIndexed")}
  <2>1. CASE eddy_new_buffer
    BY <2>1 DEF eddy_new_buffer, BuildIndices, history, IInv, TypeOK
  <2>2. ASSUME NEW n \in Name, buffer_open(n)
        PROVE  <1>3!1 /\ <1>3!2 /\ <1>3!3 /\ <1>3!4
    <3>1. listening' = (n \in Watched)
      BY <2>2 DEF buffer_open
    <3>2. (n \in Watched) \in BOOLEAN
      OBVIOUS
    <3>3. listening' \in BOOLEAN
      BY <3>1, <3>2, Zenon
    <3> QED
      BY <2>2, <3>3 DEF buffer_open, BuildIndices, history
  <2>3. ASSUME NEW n \in Name, BufferOpenFails(n)
        PROVE  <1>3!1 /\ <1>3!2 /\ <1>3!3 /\ <1>3!4
    BY <2>3 DEF BufferOpenFails, BuildIndices, history, IInv, TypeOK
  <2> QED
    BY <2>1, <2>2, <2>3
<1>4. /\ name' \in Name \cup {NoName} /\ text' \in Seq(Char)
      /\ text' = IF name' = NoName \/ disk[name'] = Missing THEN << >> ELSE disk[name']
  <2>1. CASE eddy_new_buffer
    BY <1>1, <1>2, <2>1 DEF eddy_new_buffer
  <2>2. ASSUME NEW n \in Name, buffer_open(n)
        PROVE  <1>4!1 /\ <1>4!2
    BY <1>1, <2>2, BufferAssumption DEF buffer_open
  <2>3. ASSUME NEW n \in Name, BufferOpenFails(n)
        PROVE  <1>4!1 /\ <1>4!2
    BY <1>1, <1>2, <2>3 DEF BufferOpenFails
  <2> QED
    BY <2>1, <2>2, <2>3
<1>5. \/ lines' = LinesOf(text') /\ indexedVersion' = version
      \/ /\ UNCHANGED <<text, indexedVersion, lines>>
         /\ lines = LinesOf(text) /\ version = indexedVersion
  <2>1. CASE eddy_new_buffer
    <3>1. CASE indexedVersion = version /\ lines # NoLines
      <4>1. open
        BY <3>1 DEF IInv, ClosedIsBlank
      <4> QED
        BY <2>1, <3>1, <4>1 DEF eddy_new_buffer, index, IInv, IndexIsCurrent
    <3>2. CASE ~(indexedVersion = version /\ lines # NoLines)
      BY <2>1, <3>2 DEF eddy_new_buffer, BuildIndices, LinesOf, NewlinesOf
    <3> QED
      BY <3>1, <3>2
  <2>2. ASSUME NEW n \in Name, buffer_open(n)
        PROVE  lines' = LinesOf(text') /\ indexedVersion' = version
    BY <2>2 DEF buffer_open, BuildIndices, LinesOf, NewlinesOf
  <2>3. ASSUME NEW n \in Name, BufferOpenFails(n)
        PROVE  lines' = LinesOf(text') /\ indexedVersion' = version
    BY <2>3 DEF BufferOpenFails, BuildIndices, LinesOf, NewlinesOf
  <2> QED
    BY <2>1, <2>2, <2>3
<1>6. lines' \in [starts : SUBSET Nat, ends : SUBSET Int]
  BY <1>4, <1>5, LinesOfType DEF IInv, TypeOK
<1>7. indexedVersion' = version' /\ lines' = LinesOf(text)' /\ version \in Nat
  BY <1>3, <1>5 DEF IInv, TypeOK, LinesOf, NewlinesOf
<1>8. TypeOK'
  BY <1>3, <1>4, <1>6, <1>7, applied' \in {Signal(t) : t \in SignalType}
  DEF IInv, TypeOK, SignalType
<1>9. RefsGood'
  BY <1>3 DEF IInv, RefsGood, GoodRef
<1>10. NoEmptyReplacement' = NoEmptyReplacement
  BY <1>3 DEF NoEmptyReplacement
<1>11. CountersOrdered' /\ AssertsHoldWithoutEmptyReplacement'
  BY <1>2, <1>3, <1>7, <1>10 DEF IInv, CountersOrdered, AssertsHoldWithoutEmptyReplacement
<1>12. ClosedIsBlank' /\ IndexIsCurrent'
  BY <1>3, <1>7 DEF ClosedIsBlank, IndexIsCurrent
<1>13. CleanMeansStored'
  BY <1>3, <1>4 DEF CleanMeansStored, StoredText
<1> QED
  BY <1>8, <1>9, <1>11, <1>12, <1>13 DEF IInv

(* A blank slot satisfies the invariant: Init, and buffer_close.              *)
LEMMA BlankIsGood ==
  ASSUME alive, ~open, name = NoName, text = << >>,
         undoBuffer = << >>, undoStack = << >>, undoPointer = 0,
         version = 0, savedVersion = 0, indexedVersion = 0,
         lines = NoLines, listening = FALSE,
         alive \in BOOLEAN, open \in BOOLEAN,
         applied \in {Signal("ETNone"), Signal("ETClose")},
         disk \in [Name -> Seq(Char) \cup {Missing}]
  PROVE  IInv
<1>1. /\ << >> \in Seq(Char) /\ << >> \in Seq(Symbol) /\ << >> \in Seq(EditEvent)
      /\ Len(undoStack) = 0
  BY EmptySeq
<1>2. applied \in {Signal(t) : t \in SignalType}
  BY DEF SignalType
<1>3. lines \in [starts : SUBSET Nat, ends : SUBSET Int]
  BY DEF NoLines
<1>4. TypeOK
  <2>1. listening \in BOOLEAN
    OBVIOUS
  <2>2. /\ name \in Name \cup {NoName} /\ text \in Seq(Char)
        /\ undoBuffer \in Seq(Symbol) /\ undoStack \in Seq(EditEvent)
        /\ undoPointer \in 0 .. Len(undoStack)
        /\ version \in Nat /\ savedVersion \in Nat /\ indexedVersion \in Nat
    BY <1>1
  <2> QED
    BY <1>2, <1>3, <2>1, <2>2 DEF TypeOK
<1>5. RefsGood /\ CountersOrdered /\ ClosedIsBlank
  BY <1>1 DEF RefsGood, CountersOrdered, ClosedIsBlank
<1> QED
  BY <1>4, <1>5 DEF IInv, IndexIsCurrent, CleanMeansStored, AssertsHoldWithoutEmptyReplacement

(* buffer_close leaves a blank slot.                                          *)
LEMMA CloseStep ==
  ASSUME IInv, buffer_close
  PROVE  IInv'
<1>1. undoPointer' = 0 /\ alive' = alive /\ disk' = disk /\ alive = TRUE
  BY DEF buffer_close, Zero, Ready, IInv, TypeOK
<1>2. /\ Len(undoStack') = 0
      /\ << >> \in Seq(Char) /\ << >> \in Seq(Symbol) /\ << >> \in Seq(EditEvent)
  BY EmptySeq DEF buffer_close, Zero
<1>3. lines' \in [starts : SUBSET Nat, ends : SUBSET Int]
  BY DEF buffer_close, Zero, NoLines
<1>4. applied' \in {Signal(t) : t \in SignalType}
  BY DEF buffer_close, Zero, SignalType
<1>5. TypeOK'
  <2>1. open' \in BOOLEAN /\ listening' \in BOOLEAN
    BY DEF buffer_close, Zero
  <2>2. /\ name' \in Name \cup {NoName} /\ text' \in Seq(Char)
        /\ undoBuffer' \in Seq(Symbol) /\ undoStack' \in Seq(EditEvent)
        /\ undoPointer' \in 0 .. Len(undoStack')
        /\ version' \in Nat /\ savedVersion' \in Nat /\ indexedVersion' \in Nat
    BY <1>1, <1>2 DEF buffer_close, Zero
  <2>3. alive' \in BOOLEAN /\ disk' \in [Name -> Seq(Char) \cup {Missing}]
    BY <1>1 DEF IInv, TypeOK
  <2> QED
    BY <1>3, <1>4, <2>1, <2>2, <2>3 DEF TypeOK
<1>6. RefsGood' /\ CountersOrdered' /\ ClosedIsBlank'
  BY <1>2 DEF buffer_close, Zero, RefsGood, CountersOrdered, ClosedIsBlank
<1>7. IndexIsCurrent' /\ CleanMeansStored' /\ AssertsHoldWithoutEmptyReplacement'
  BY <1>1 DEF buffer_close, Zero, IndexIsCurrent, CleanMeansStored,
              AssertsHoldWithoutEmptyReplacement
<1> QED
  BY <1>5, <1>6, <1>7 DEF IInv

-----------------------------------------------------------------------------
(* The inductive invariant holds initially.                                   *)
LEMMA InitGood == Init => IInv
<1> SUFFICES ASSUME Init PROVE IInv
  OBVIOUS
<1> QED
  BY BlankIsGood, BufferAssumption DEF Init

(* Every step keeps it.                                                       *)
LEMMA NextGood == IInv /\ [Next]_vars => IInv'
<1> SUFFICES ASSUME IInv, [Next]_vars PROVE IInv'
  OBVIOUS
<1>0. Len(text) \in Nat /\ Len(undoStack) \in Nat /\ undoPointer \in 0 .. Len(undoStack)
  BY LenProperties DEF IInv, TypeOK
<1>1. CASE Edit
  <2>1. ASSUME NEW sv \in Insertions, NEW pos \in 0 .. Len(text), buffer_insert(sv, pos)
        PROVE  IInv'
    BY <1>0, <2>1, InsertStep, BufferAssumption
  <2>2. ASSUME NEW at \in 0 .. Len(text), NEW count \in 1 .. Len(text), buffer_delete(at, count)
        PROVE  IInv'
    BY <1>0, <2>2, DeleteStep
  <2>3. ASSUME NEW at \in 0 .. Len(text), NEW num \in 0 .. Len(text), NEW sv \in Replacements,
               buffer_replace(at, num, sv)
        PROVE  IInv'
    BY <1>0, <2>3, ReplaceStep, BufferAssumption
  <2>4. ASSUME buffer_merge_lines
        PROVE  IInv'
    <3> DEFINE space == <<Space>>
    <3>1. PICK at \in lines.ends : buffer_replace(at, 1, space)
      BY <2>4 DEF buffer_merge_lines
    <3>2. at \in Int
      BY DEF IInv, TypeOK
    <3>3. space \in Seq(Char)
      BY BufferAssumption
    <3>4. 1 \in Int
      OBVIOUS
    <3> HIDE DEF space
    <3> QED
      BY <3>1, <3>2, <3>3, <3>4, ReplaceStep, Zenon
  <2> QED
    BY <1>1, <2>1, <2>2, <2>3, <2>4 DEF Edit
<1>2. CASE buffer_undo
  <2>1. undoPointer \in 1 .. Len(undoStack)
    BY <1>2 DEF buffer_undo, Revert
  <2>2. undoPointer - 1 \in 0 .. Len(undoStack)
    BY <1>0, <2>1
  <2> QED
    BY <1>0, <1>2, <2>1, <2>2, RevertStep DEF buffer_undo
<1>3. CASE buffer_redo
  <2>1. undoPointer + 1 \in 1 .. Len(undoStack)
    BY <1>3 DEF buffer_redo, Revert
  <2> QED
    BY <1>0, <1>3, <2>1, RevertStep DEF buffer_redo
<1>4. ASSUME NEW n \in Name \cup {NoName}, Save(n)
      PROVE  IInv'
  BY <1>4, SaveStep
<1>5. CASE \/ eddy_on_draw \/ editor_select_buffer
           \/ eddy_publish_diagnostics_handler \/ eddy_load_theme
  BY <1>5, CounterStep
<1>6. CASE eddy_new_buffer \/ \E n \in Name : buffer_open(n) \/ BufferOpenFails(n)
  BY <1>6, TakeSlotStep
<1>7. CASE buffer_close
  BY <1>7, CloseStep
<1>8. CASE UNCHANGED vars
  <2>1. NoEmptyReplacement' = NoEmptyReplacement
    BY <1>8 DEF vars, slot, history, index, NoEmptyReplacement
  <2>2. TypeOK' /\ RefsGood' /\ CountersOrdered' /\ ClosedIsBlank'
    BY <1>8, <2>1 DEF vars, slot, history, index, IInv, TypeOK, RefsGood, GoodRef,
                      CountersOrdered, ClosedIsBlank
  <2>3. IndexIsCurrent' /\ CleanMeansStored' /\ AssertsHoldWithoutEmptyReplacement'
    BY <1>8, <2>1 DEF vars, slot, history, index, IInv, IndexIsCurrent, CleanMeansStored,
                      AssertsHoldWithoutEmptyReplacement, StoredText, LinesOf, NewlinesOf
  <2> QED
    BY <2>2, <2>3 DEF IInv
<1> QED
  BY <1>1, <1>2, <1>3, <1>4, <1>5, <1>6, <1>7, <1>8 DEF Next

(* The inductive invariant is an invariant of the specification.              *)
THEOREM Invariance == Spec => []IInv
<1> QED
  BY InitGood, NextGood, PTL DEF Spec

(* Type correctness of a slot of eddy.buffers: whatever edits, undos, redos,  *)
(* saves and reopenings are made, the text holds characters only.             *)
THEOREM TypeCorrect == Spec => []TypeOK
<1>1. IInv => TypeOK
  BY DEF IInv
<1> QED
  BY <1>1, Invariance, PTL

(* No undo and no redo reads outside the undo buffer (buffer_sv_from_ref).    *)
THEOREM UndoStaysInBounds == Spec => []UndoRefsInBounds
<1>1. IInv => UndoRefsInBounds
  BY DEF IInv, RefsGood, GoodRef, UndoRefsInBounds, RefInBounds
<1> QED
  BY <1>1, Invariance, PTL

(* The line index that claims to be current is the index of the text.         *)
THEOREM IndexCorrect == Spec => []IndexIsCurrent
<1>1. IInv => IndexIsCurrent
  BY DEF IInv
<1> QED
  BY <1>1, Invariance, PTL

(* A buffer the editor takes for saved holds what is on disk, as long as no   *)
(* replacement by nothing was pushed.                                         *)
THEOREM CleanCorrect == Spec => []CleanMeansStored
<1>1. IInv => CleanMeansStored
  BY DEF IInv
<1> QED
  BY <1>1, Invariance, PTL

(* The assertions of buffer.c on the version counters hold until such a       *)
(* replacement is made.                                                       *)
THEOREM AssertsCorrect == Spec => []AssertsHoldWithoutEmptyReplacement
<1>1. IInv => AssertsHoldWithoutEmptyReplacement
  BY DEF IInv
<1> QED
  BY <1>1, Invariance, PTL

-----------------------------------------------------------------------------
(* The undo stack implements an undo history (UndoHistory), as long as the      *)
(* history is linear.                                                          *)

(* The text the event numbered i is reverted in, once those above it are.      *)
After(i) == IF i < undoPointer THEN before[i + 1] ELSE text

(* Reverting the event does something, and gives the text it was applied to:    *)
(* the two references still read as what was put in and what was taken out.    *)
Undoable(i) ==
  LET r == revert_edit(undoStack[i])
  IN  Effective(r) /\ EditedText(After(i), undoBuffer, r) = before[i]

LinearIInv ==
  /\ linear /\ NoEmptyReplacement
  /\ before \in Seq(Seq(Char)) /\ Len(before) = Len(undoStack)
  /\ \A i \in 1 .. undoPointer : Undoable(i)

-----------------------------------------------------------------------------
(* Edits and their reversals, as texts.                                       *)

(* A text put into another (sb_insert_sv), character by character.            *)
LEMMA PutInText ==
  ASSUME NEW S, NEW t \in Seq(S), NEW sv \in Seq(S), NEW p \in Nat, p <= Len(t)
  PROVE  /\ sb_insert_sv(t, sv, p) \in Seq(S)
         /\ Len(sb_insert_sv(t, sv, p)) = Len(t) + Len(sv)
         /\ \A i \in 1 .. p : sb_insert_sv(t, sv, p)[i] = t[i]
         /\ \A i \in p + 1 .. p + Len(sv) : sb_insert_sv(t, sv, p)[i] = sv[i - p]
         /\ \A i \in p + Len(sv) + 1 .. Len(t) + Len(sv) :
              sb_insert_sv(t, sv, p)[i] = t[i - Len(sv)]
<1>0. Len(t) \in Nat /\ Len(sv) \in Nat
  BY LenProperties
<1>1. CASE p >= Len(t)
  <2>1. sb_insert_sv(t, sv, p) = t \o sv /\ p = Len(t)
    BY <1>0, <1>1 DEF sb_insert_sv
  <2> QED
    BY <1>0, <2>1, ConcatProperties
<1>2. CASE ~ (p >= Len(t))
  <2> DEFINE front == SubSeq(t, 1, p)
             back  == SubSeq(t, p + 1, Len(t))
  <2>1. sb_insert_sv(t, sv, p) = (front \o sv) \o back
    BY <1>2 DEF sb_insert_sv
  <2>2. /\ front \in Seq(S) /\ Len(front) = p
        /\ \A i \in 1 .. p : front[i] = t[i]
    BY <1>0, <1>2, PartOfSeq
  <2>3. /\ back \in Seq(S) /\ Len(back) = Len(t) - p
        /\ \A i \in 1 .. Len(t) - p : back[i] = t[p + i]
    BY <1>0, <1>2, PartOfSeq
  <2> HIDE DEF front, back
  <2> DEFINE head == front \o sv
  <2>4. /\ head \in Seq(S) /\ Len(head) = p + Len(sv)
        /\ \A i \in 1 .. p + Len(sv) : head[i] = IF i <= p THEN front[i] ELSE sv[i - p]
    BY <1>0, <2>2, ConcatProperties
  <2>5. sb_insert_sv(t, sv, p) = head \o back
    BY <2>1
  <2> HIDE DEF head
  <2>6. /\ head \o back \in Seq(S) /\ Len(head \o back) = Len(head) + Len(back)
        /\ \A i \in 1 .. Len(head) + Len(back) :
             (head \o back)[i] = IF i <= Len(head) THEN head[i] ELSE back[i - Len(head)]
    <3>1. head \in Seq(S) /\ back \in Seq(S)
      BY <2>3, <2>4
    <3> QED
      BY <3>1, ConcatProperties
  <2>7. /\ head \o back \in Seq(S) /\ Len(head \o back) = Len(t) + Len(sv)
        /\ \A i \in 1 .. p : (head \o back)[i] = t[i]
        /\ \A i \in p + 1 .. p + Len(sv) : (head \o back)[i] = sv[i - p]
        /\ \A i \in p + Len(sv) + 1 .. Len(t) + Len(sv) : (head \o back)[i] = t[i - Len(sv)]
    <3>1. Len(head) = p + Len(sv) /\ Len(back) = Len(t) - p
      BY <2>3, <2>4
    <3>2. head \o back \in Seq(S) /\ Len(head \o back) = Len(t) + Len(sv)
      BY <1>0, <1>2, <2>6, <3>1
    <3>3. ASSUME NEW i \in 1 .. p PROVE (head \o back)[i] = t[i]
      BY <1>0, <1>2, <2>2, <2>4, <2>6, <3>1
    <3>4. ASSUME NEW i \in p + 1 .. p + Len(sv) PROVE (head \o back)[i] = sv[i - p]
      BY <1>0, <1>2, <2>4, <2>6, <3>1
    <3>5. ASSUME NEW i \in p + Len(sv) + 1 .. Len(t) + Len(sv)
          PROVE  (head \o back)[i] = t[i - Len(sv)]
      <4>1. (head \o back)[i] = back[i - (p + Len(sv))]
        BY <1>0, <1>2, <2>6, <3>1
      <4>2. i - (p + Len(sv)) \in 1 .. Len(t) - p
        BY <1>0, <1>2
      <4>3. back[i - (p + Len(sv))] = t[p + (i - (p + Len(sv)))]
        BY <2>3, <4>2
      <4>4. p + (i - (p + Len(sv))) = i - Len(sv)
        BY <1>0
      <4> QED
        BY <4>1, <4>3, <4>4
    <3> QED
      BY <3>2, <3>3, <3>4, <3>5
  <2> QED
    BY <2>5, <2>7
<1> QED
  BY <1>1, <1>2

(* A part taken out of a text (sb_remove), character by character.            *)
LEMMA RemovedText ==
  ASSUME NEW S, NEW t \in Seq(S), NEW p \in Nat, NEW n \in Nat, n # 0, p + n <= Len(t)
  PROVE  /\ sb_remove(t, p, n) \in Seq(S)
         /\ Len(sb_remove(t, p, n)) = Len(t) - n
         /\ \A i \in 1 .. p : sb_remove(t, p, n)[i] = t[i]
         /\ \A i \in p + 1 .. Len(t) - n : sb_remove(t, p, n)[i] = t[i + n]
<1>0. Len(t) \in Nat
  BY LenProperties
<1> DEFINE front == SubSeq(t, 1, p)
           back  == SubSeq(t, p + n + 1, Len(t))
<1>1. sb_remove(t, p, n) = front \o back
  <2>1. ~ (p >= Len(t))
    BY <1>0
  <2> QED
    BY <2>1 DEF sb_remove
<1>2. /\ front \in Seq(S) /\ Len(front) = p
      /\ \A i \in 1 .. p : front[i] = t[i]
  BY <1>0, PartOfSeq
<1>3. /\ back \in Seq(S) /\ Len(back) = Len(t) - n - p
      /\ \A i \in 1 .. Len(t) - n - p : back[i] = t[p + n + i]
  BY <1>0, PartOfSeq
<1> HIDE DEF front, back
<1>4. /\ front \o back \in Seq(S) /\ Len(front \o back) = Len(front) + Len(back)
      /\ \A i \in 1 .. Len(front) + Len(back) :
           (front \o back)[i] = IF i <= Len(front) THEN front[i] ELSE back[i - Len(front)]
  BY <1>2, <1>3, ConcatProperties
<1>5. Len(front) = p /\ Len(back) = Len(t) - n - p
  BY <1>2, <1>3
<1>6. front \o back \in Seq(S) /\ Len(front \o back) = Len(t) - n
  BY <1>0, <1>4, <1>5
<1>7. ASSUME NEW i \in 1 .. p PROVE (front \o back)[i] = t[i]
  BY <1>0, <1>2, <1>4, <1>5
<1>8. ASSUME NEW i \in p + 1 .. Len(t) - n PROVE (front \o back)[i] = t[i + n]
  <2>1. (front \o back)[i] = back[i - p]
    BY <1>0, <1>4, <1>5
  <2>2. i - p \in 1 .. Len(t) - n - p
    BY <1>0
  <2>3. back[i - p] = t[p + n + (i - p)]
    BY <1>3, <2>2
  <2>4. p + n + (i - p) = i + n
    BY <1>0
  <2> QED
    BY <2>1, <2>3, <2>4
<1> QED
  BY <1>1, <1>6, <1>7, <1>8

(* Removing what was inserted gives the text back.                            *)
LEMMA RemoveInserted ==
  ASSUME NEW S, NEW t \in Seq(S), NEW sv \in Seq(S), NEW p \in Nat, p <= Len(t), Len(sv) # 0
  PROVE  sb_remove(sb_insert_sv(t, sv, p), p, Len(sv)) = t
<1> DEFINE u == sb_insert_sv(t, sv, p)
<1>0. Len(t) \in Nat /\ Len(sv) \in Nat
  BY LenProperties
<1>1. /\ u \in Seq(S) /\ Len(u) = Len(t) + Len(sv)
      /\ \A i \in 1 .. p : u[i] = t[i]
      /\ \A i \in p + Len(sv) + 1 .. Len(t) + Len(sv) : u[i] = t[i - Len(sv)]
  BY PutInText
<1> HIDE DEF u
<1> DEFINE v == sb_remove(u, p, Len(sv))
<1>2. /\ v \in Seq(S) /\ Len(v) = Len(u) - Len(sv)
      /\ \A i \in 1 .. p : v[i] = u[i]
      /\ \A i \in p + 1 .. Len(u) - Len(sv) : v[i] = u[i + Len(sv)]
  <2>1. p \in Nat /\ p + Len(sv) <= Len(u)
    BY <1>0, <1>1
  <2> QED
    BY <1>0, <1>1, <2>1, RemovedText
<1> HIDE DEF v
<1>3. Len(v) = Len(t)
  BY <1>0, <1>1, <1>2
<1>4. ASSUME NEW i \in 1 .. Len(t) PROVE v[i] = t[i]
  <2>1. CASE i <= p
    BY <1>0, <1>1, <1>2, <2>1
  <2>2. CASE i > p
    <3>1. v[i] = u[i + Len(sv)]
      BY <1>0, <1>1, <1>2, <2>2
    <3>2. i + Len(sv) \in p + Len(sv) + 1 .. Len(t) + Len(sv)
      BY <1>0, <2>2
    <3>3. u[i + Len(sv)] = t[i + Len(sv) - Len(sv)]
      BY <1>1, <3>2
    <3> QED
      BY <1>0, <3>1, <3>3
  <2> QED
    BY <1>0, <2>1, <2>2
<1>5. v = t
  BY <1>2, <1>3, <1>4, SeqEqual
<1> QED
  BY <1>5 DEF u, v

(* Inserting what was removed gives the text back.                            *)
LEMMA InsertRemoved ==
  ASSUME NEW S, NEW t \in Seq(S), NEW p \in Nat, NEW n \in Nat, n # 0, p + n <= Len(t)
  PROVE  sb_insert_sv(sb_remove(t, p, n), SubSeq(t, p + 1, p + n), p) = t
<1> DEFINE u == sb_remove(t, p, n)
           sv == SubSeq(t, p + 1, p + n)
<1>0. Len(t) \in Nat
  BY LenProperties
<1>1. /\ u \in Seq(S) /\ Len(u) = Len(t) - n
      /\ \A i \in 1 .. p : u[i] = t[i]
      /\ \A i \in p + 1 .. Len(t) - n : u[i] = t[i + n]
  BY RemovedText
<1>2. /\ sv \in Seq(S) /\ Len(sv) = n
      /\ \A i \in 1 .. n : sv[i] = t[p + i]
  BY <1>0, PartOfSeq
<1> HIDE DEF u, sv
<1> DEFINE v == sb_insert_sv(u, sv, p)
<1>3. /\ v \in Seq(S) /\ Len(v) = Len(u) + Len(sv)
      /\ \A i \in 1 .. p : v[i] = u[i]
      /\ \A i \in p + 1 .. p + Len(sv) : v[i] = sv[i - p]
      /\ \A i \in p + Len(sv) + 1 .. Len(u) + Len(sv) : v[i] = u[i - Len(sv)]
  <2>1. p <= Len(u)
    BY <1>0, <1>1
  <2>2. u \in Seq(S) /\ sv \in Seq(S)
    BY <1>1, <1>2
  <2>3. sb_insert_sv(u, sv, p) \in Seq(S)
    BY <2>1, <2>2, PutInText
  <2>4. Len(sb_insert_sv(u, sv, p)) = Len(u) + Len(sv)
    BY <2>1, <2>2, PutInText
  <2>5. \A i \in 1 .. p : sb_insert_sv(u, sv, p)[i] = u[i]
    BY <2>1, <2>2, PutInText
  <2>6. \A i \in p + 1 .. p + Len(sv) : sb_insert_sv(u, sv, p)[i] = sv[i - p]
    BY <2>1, <2>2, PutInText
  <2>7. \A i \in p + Len(sv) + 1 .. Len(u) + Len(sv) :
          sb_insert_sv(u, sv, p)[i] = u[i - Len(sv)]
    BY <2>1, <2>2, PutInText
  <2> QED
    BY <2>3, <2>4, <2>5, <2>6, <2>7
<1> HIDE DEF v
<1>4. Len(v) = Len(t)
  BY <1>0, <1>1, <1>2, <1>3
<1>5. ASSUME NEW i \in 1 .. Len(t) PROVE v[i] = t[i]
  <2>1. CASE i <= p
    BY <1>0, <1>1, <1>3, <2>1
  <2>2. CASE i \in p + 1 .. p + n
    <3>1. v[i] = sv[i - p]
      BY <1>2, <1>3, <2>2
    <3>2. sv[i - p] = t[p + (i - p)]
      BY <1>0, <1>2, <2>2
    <3>3. p + (i - p) = i
      BY <1>0
    <3> QED
      BY <3>1, <3>2, <3>3
  <2>3. CASE i > p + n
    BY <1>0, <1>1, <1>2, <1>3, <2>3
  <2> QED
    BY <1>0, <2>1, <2>2, <2>3
<1>6. v = t
  BY <1>3, <1>4, <1>5, SeqEqual
<1> QED
  BY <1>6 DEF u, sv, v
-----------------------------------------------------------------------------
(* The undo buffer.                                                           *)

(* What a reference reads does not change when symbols are appended behind it   *)
(* (buffer_sv_from_ref).                                                      *)
LEMMA ReadsTheSame ==
  ASSUME NEW ub \in Seq(Symbol), NEW more \in Seq(Symbol), NEW ref \in StringRef,
         GoodRef(ub, ref)
  PROVE  buffer_sv_from_ref(ub \o more, ref) = buffer_sv_from_ref(ub, ref)
<1>0. ref.index \in Nat /\ ref.length \in Nat /\ Len(ub) \in Nat
  BY LenProperties DEF StringRef
<1>1. CASE ref.length = 0
  BY <1>0, <1>1, SubSeqEmpty DEF buffer_sv_from_ref
<1>2. CASE ref.length # 0
  <2>1. ref.index + 1 \in 1 .. Len(ub) /\ ref.index + ref.length \in 1 .. Len(ub)
    BY <1>0, <1>2 DEF GoodRef
  <2> QED
    BY <2>1, SubSeqOfConcat1 DEF buffer_sv_from_ref
<1> QED
  BY <1>1, <1>2

(* What was appended reads as what it is (append_to_undo_buffer).             *)
LEMMA ReadsAppended ==
  ASSUME NEW ub \in Seq(Symbol), NEW sv \in Seq(Symbol)
  PROVE  buffer_sv_from_ref(ub \o sv, AppendedRef(ub, sv)) = sv
<1>0. Len(ub) \in Nat /\ Len(sv) \in Nat
  BY LenProperties
<1>1. CASE Len(sv) = 0
  <2>1. sv = << >>
    BY <1>1, EmptySeq
  <2> QED
    BY <1>0, <1>1, <2>1, SubSeqEmpty DEF buffer_sv_from_ref, AppendedRef
<1>2. CASE Len(sv) # 0
  <2>1. /\ Len(ub) + 1 \in Len(ub) + 1 .. Len(ub) + Len(sv)
        /\ Len(ub) + Len(sv) \in Len(ub) + 1 .. Len(ub) + Len(sv)
    BY <1>0, <1>2
  <2>2. SubSeq(ub \o sv, Len(ub) + 1, Len(ub) + Len(sv))
          = SubSeq(sv, Len(ub) + 1 - Len(ub), Len(ub) + Len(sv) - Len(ub))
    BY <2>1, SubSeqOfConcat2
  <2>3. SubSeq(sv, 1, Len(sv)) = sv
    BY SubSeqFull
  <2> QED
    BY <1>0, <2>2, <2>3 DEF buffer_sv_from_ref, AppendedRef
<1> QED
  BY <1>1, <1>2

-----------------------------------------------------------------------------
(* The three edits.                                                           *)

(* In what follows an event e has just been applied to the text t, with the     *)
(* undo buffer ub.                                                            *)
Reverts(t, ub, e) ==
  LET r == revert_edit(e)
  IN  Effective(r) /\ EditedText(EditedText(t, ub, e), ub, r) = t

(* Deleting what buffer_insert put in gives the text back.                    *)
LEMMA InsertReverts ==
  ASSUME NEW t \in Seq(Char), NEW ub \in Seq(Symbol), NEW sv \in Seq(Char),
         NEW p \in Nat, p <= Len(t), Len(sv) # 0
  PROVE  Reverts(t, ub \o sv, [type     |-> "ETInsert",
                               position |-> p,
                               inserted |-> AppendedRef(ub, sv),
                               removed  |-> NullRef])
<1> DEFINE e == [type     |-> "ETInsert",
                 position |-> p,
                 inserted |-> AppendedRef(ub, sv),
                 removed  |-> NullRef]
<1>1. sv \in Seq(Symbol)
  BY SeqMonotonic, Char \subseteq Symbol DEF Symbol
<1>2. EditedText(t, ub \o sv, e) = sb_insert_sv(t, sv, p)
  BY <1>1, ReadsAppended DEF EditedText
<1>3. /\ revert_edit(e).type = "ETDelete" /\ revert_edit(e).position = p
      /\ revert_edit(e).removed.length = Len(sv)
  BY DEF revert_edit, AppendedRef
<1> HIDE DEF e
<1>4. EditedText(sb_insert_sv(t, sv, p), ub \o sv, revert_edit(e)) = t
  BY <1>3, RemoveInserted DEF EditedText
<1> QED
  BY <1>2, <1>3, <1>4 DEF Reverts, Effective, e

(* Inserting what buffer_delete took out gives the text back.                 *)
LEMMA DeleteReverts ==
  ASSUME NEW t \in Seq(Char), NEW ub \in Seq(Symbol), NEW p \in Nat, NEW n \in Nat,
         n # 0, p + n <= Len(t)
  PROVE  LET deleted == SubSeq(t, p + 1, p + n)
         IN  Reverts(t, ub \o deleted, [type     |-> "ETDelete",
                                        position |-> p,
                                        inserted |-> NullRef,
                                        removed  |-> AppendedRef(ub, deleted)])
<1> DEFINE deleted == SubSeq(t, p + 1, p + n)
           e == [type     |-> "ETDelete",
                 position |-> p,
                 inserted |-> NullRef,
                 removed  |-> AppendedRef(ub, deleted)]
<1>1. deleted \in Seq(Char) /\ Len(deleted) = n
  BY LenProperties, PartOfSeq
<1>2. sb_insert_sv(sb_remove(t, p, n), deleted, p) = t
  BY InsertRemoved
<1> HIDE DEF deleted
<1>3. deleted \in Seq(Symbol)
  BY <1>1, SeqMonotonic, Char \subseteq Symbol DEF Symbol
<1>4. buffer_sv_from_ref(ub \o deleted, AppendedRef(ub, deleted)) = deleted
  BY <1>3, ReadsAppended
<1>5. AppendedRef(ub, deleted).length = n
  BY <1>1 DEF AppendedRef
<1>6. EditedText(t, ub \o deleted, e) = sb_remove(t, p, n)
  BY <1>5 DEF EditedText
<1>7. /\ revert_edit(e).type = "ETInsert" /\ revert_edit(e).position = p
      /\ revert_edit(e).inserted = AppendedRef(ub, deleted)
  BY DEF revert_edit
<1> HIDE DEF e
<1>8. EditedText(sb_remove(t, p, n), ub \o deleted, revert_edit(e)) = t
  BY <1>2, <1>4, <1>7 DEF EditedText
<1>9. Reverts(t, ub \o deleted, e)
  BY <1>5, <1>6, <1>7, <1>8 DEF Reverts, Effective
<1> QED
  BY <1>9 DEF deleted, e

(* Replacing what buffer_replace put in by what it took out gives the text     *)
(* back, unless it put nothing in.                                            *)
LEMMA ReplaceReverts ==
  ASSUME NEW t \in Seq(Char), NEW ub \in Seq(Symbol), NEW sv \in Seq(Char),
         NEW p \in Nat, NEW n \in Nat, n # 0, p + n <= Len(t), Len(sv) # 0
  PROVE  LET overwritten == SubSeq(t, p + 1, p + n)
         IN  Reverts(t, (ub \o sv) \o overwritten,
                     [type     |-> "ETReplace",
                      position |-> p,
                      inserted |-> AppendedRef(ub, sv),
                      removed  |-> AppendedRef(ub \o sv, overwritten)])
<1> DEFINE overwritten == SubSeq(t, p + 1, p + n)
           more == ub \o sv
           full == more \o overwritten
           e == [type     |-> "ETReplace",
                 position |-> p,
                 inserted |-> AppendedRef(ub, sv),
                 removed  |-> AppendedRef(more, overwritten)]
           kept == sb_remove(t, p, n)
<1>1. overwritten \in Seq(Char) /\ Len(overwritten) = n
  BY LenProperties, PartOfSeq
<1>2. sb_insert_sv(kept, overwritten, p) = t
  BY InsertRemoved
<1>3. kept \in Seq(Char) /\ Len(kept) = Len(t) - n
  BY RemovedText
<1>4. p <= Len(kept)
  BY <1>3, LenProperties
<1>5. sb_remove(sb_insert_sv(kept, sv, p), p, Len(sv)) = kept
  BY <1>3, <1>4, RemoveInserted
<1> HIDE DEF overwritten, kept
<1>6. sv \in Seq(Symbol) /\ overwritten \in Seq(Symbol)
  BY <1>1, SeqMonotonic, Char \subseteq Symbol DEF Symbol
<1>7. more \in Seq(Symbol) /\ AppendedRef(ub, sv) \in StringRef /\ GoodRef(more, AppendedRef(ub, sv))
  BY AppendedRefGood
<1>8. buffer_sv_from_ref(more, AppendedRef(ub, sv)) = sv
  BY <1>6, ReadsAppended
<1> HIDE DEF more
<1>9. buffer_sv_from_ref(full, AppendedRef(ub, sv)) = sv
  BY <1>6, <1>7, <1>8, ReadsTheSame
<1>10. buffer_sv_from_ref(full, AppendedRef(more, overwritten)) = overwritten
  BY <1>6, <1>7, ReadsAppended
<1> HIDE DEF full
<1>11. AppendedRef(more, overwritten).length = n /\ AppendedRef(ub, sv).length = Len(sv)
  BY <1>1 DEF AppendedRef
<1>12. EditedText(t, full, e) = sb_insert_sv(kept, sv, p)
  BY <1>9, <1>11 DEF EditedText, kept
<1>13. /\ revert_edit(e).type = "ETReplace" /\ revert_edit(e).position = p
       /\ revert_edit(e).inserted = AppendedRef(more, overwritten)
       /\ revert_edit(e).removed = AppendedRef(ub, sv)
  BY DEF revert_edit
<1> HIDE DEF e
<1>14. EditedText(sb_insert_sv(kept, sv, p), full, revert_edit(e)) = t
  BY <1>2, <1>5, <1>10, <1>11, <1>13 DEF EditedText
<1>15. Reverts(t, full, e)
  BY <1>11, <1>12, <1>13, <1>14 DEF Reverts, Effective
<1> QED
  BY <1>15 DEF overwritten, more, full, e
-----------------------------------------------------------------------------
(* What a step does to the history.                                           *)

Grows == undoBuffer' = undoBuffer \/ \E more \in Seq(Symbol) : undoBuffer' = undoBuffer \o more

Pushes ==
  \E more \in Seq(Symbol), e \in EditEvent :
    /\ undoBuffer' = undoBuffer \o more
    /\ undoStack' = Append(undoStack, e) /\ undoPointer' = Len(undoStack) + 1
    /\ text' = EditedText(text, undoBuffer', e)
    /\ Reverts(text, undoBuffer', e)

Undoes ==
  /\ undoPointer \in 1 .. Len(undoStack) /\ undoPointer' = undoPointer - 1
  /\ UNCHANGED <<undoBuffer, undoStack>>
  /\ buffer_apply(undoBuffer, revert_edit(undoStack[undoPointer]))

Leaves ==
  /\ Grows /\ UNCHANGED <<undoStack, undoPointer>>
  /\ text' = text \/ (undoStack = << >> /\ text = << >>)

Clears == undoStack' = << >> /\ undoPointer' = 0 /\ text' = << >>

(* What is taken out lies inside the text (buffer_edit clamps the count).      *)
LEMMA TakenInside ==
  ASSUME NEW t \in Seq(Char), NEW at \in Int, NEW num \in Int
  PROVE  LET p == iclamp(at, 0, Len(t))
         IN  p + iclamp(num, 0, Len(t) - p) <= Len(t)
<1> DEFINE p == iclamp(at, 0, Len(t))
<1>0. Len(t) \in Nat
  BY LenProperties
<1>1. p \in 0 .. Len(t)
  BY <1>0, ClampInRange
<1> HIDE DEF p
<1>2. iclamp(num, 0, Len(t) - p) \in 0 .. Len(t) - p
  <2>1. Len(t) - p \in Nat
    BY <1>0, <1>1
  <2> QED
    BY <2>1, ClampInRange
<1> QED
  BY <1>0, <1>1, <1>2 DEF p

(* A file name is a text of symbols (buffer_save_as).                         *)
LEMMA NameIsText ==
  ASSUME NEW n \in Name \cup {NoName}
  PROVE  NameText(n) \in Seq(Symbol)
<1>1. CASE n = NoName
  BY <1>1, EmptySeq DEF NameText
<1>2. CASE n # NoName
  <2>1. n \in Symbol
    BY <1>2 DEF Symbol
  <2>2. <<n>> \in Seq(Symbol)
    BY <2>1
  <2> QED
    BY <1>2, <2>2 DEF NameText
<1> QED
  BY <1>1, <1>2

(* buffer_insert pushes an event that can be reverted.                        *)
LEMMA InsertPushes ==
  ASSUME IInv, NEW sv \in Seq(Char), NEW pos \in Int, buffer_insert(sv, pos)
  PROVE  Pushes
<1> DEFINE p == iclamp(pos, 0, Len(text))
           e == [type     |-> "ETInsert",
                 position |-> p,
                 inserted |-> AppendedRef(undoBuffer, sv),
                 removed  |-> NullRef]
<1>1. text \in Seq(Char) /\ undoBuffer \in Seq(Symbol) /\ Len(text) \in Nat /\ Len(sv) \in Nat
  BY LenProperties DEF IInv, TypeOK
<1>2. Len(sv) # 0 /\ ApplyAndPush(undoBuffer \o sv, e)
  BY DEF buffer_insert
<1>3. p \in Nat /\ p <= Len(text)
  BY <1>1, ClampInRange
<1> HIDE DEF p
<1>4. sv \in Seq(Symbol)
  BY SeqMonotonic, Char \subseteq Symbol DEF Symbol
<1>5. e \in EditEvent
  BY <1>1, <1>3, AppendedRefGood, NullRefGood DEF EditEvent, EditType
<1>6. Reverts(text, undoBuffer \o sv, e)
  BY <1>1, <1>2, <1>3, InsertReverts
<1>7. Effective(e)
  BY <1>2 DEF Effective, AppendedRef
<1> HIDE DEF e
<1>8. text' = EditedText(text, undoBuffer \o sv, e) /\ undoBuffer' = undoBuffer \o sv
      /\ undoStack' = Append(undoStack, e) /\ undoPointer' = Len(undoStack) + 1
  BY <1>2, <1>7 DEF ApplyAndPush, buffer_apply, ApplyCounting
<1> QED
  BY <1>4, <1>5, <1>6, <1>8 DEF Pushes

(* So does buffer_delete.                                                     *)
LEMMA DeletePushes ==
  ASSUME IInv, NEW at \in Int, NEW count \in Int, buffer_delete(at, count)
  PROVE  Pushes
<1> DEFINE p == iclamp(at, 0, Len(text))
           n == iclamp(count, 0, Len(text) - p)
           deleted == SubSeq(text, p + 1, p + n)
           e == [type     |-> "ETDelete",
                 position |-> p,
                 inserted |-> NullRef,
                 removed  |-> AppendedRef(undoBuffer, deleted)]
<1>1. text \in Seq(Char) /\ undoBuffer \in Seq(Symbol)
  BY DEF IInv, TypeOK
<1>2. n # 0 /\ ApplyAndPush(undoBuffer \o deleted, e)
  BY DEF buffer_delete
<1>3. p \in Nat /\ n \in Nat /\ p + n <= Len(text) /\ deleted \in Seq(Char) /\ Len(deleted) = n
  BY <1>1, TakenPart, TakenInside
<1> HIDE DEF p, n
<1>4. Reverts(text, undoBuffer \o deleted, e)
  BY <1>1, <1>2, <1>3, DeleteReverts
<1> HIDE DEF deleted
<1>5. deleted \in Seq(Symbol)
  BY <1>3, SeqMonotonic, Char \subseteq Symbol DEF Symbol
<1>6. e \in EditEvent
  BY <1>1, <1>3, AppendedRefGood, NullRefGood DEF EditEvent, EditType
<1>7. Effective(e)
  BY <1>2, <1>3 DEF Effective, AppendedRef
<1> HIDE DEF e
<1>8. text' = EditedText(text, undoBuffer \o deleted, e) /\ undoBuffer' = undoBuffer \o deleted
      /\ undoStack' = Append(undoStack, e) /\ undoPointer' = Len(undoStack) + 1
  BY <1>2, <1>7 DEF ApplyAndPush, buffer_apply, ApplyCounting
<1> QED
  BY <1>4, <1>5, <1>6, <1>8 DEF Pushes

(* So does buffer_replace, where it overwrites something with something.       *)
LEMMA ReplacePushes ==
  ASSUME IInv, NEW at \in Int, NEW num \in Int, NEW sv \in Seq(Char), Len(sv) # 0,
         ReplaceSome(at, num, sv)
  PROVE  Pushes
<1> DEFINE p == iclamp(at, 0, Len(text))
           n == iclamp(num, 0, Len(text) - p)
           overwritten == SubSeq(text, p + 1, p + n)
           ub == undoBuffer \o sv
           e == [type     |-> "ETReplace",
                 position |-> p,
                 inserted |-> AppendedRef(undoBuffer, sv),
                 removed  |-> AppendedRef(ub, overwritten)]
<1>1. text \in Seq(Char) /\ undoBuffer \in Seq(Symbol)
  BY DEF IInv, TypeOK
<1>2. n # 0 /\ ApplyAndPush(ub \o overwritten, e)
  BY DEF ReplaceSome
<1>3. p \in Nat /\ n \in Nat /\ p + n <= Len(text) /\ overwritten \in Seq(Char)
  BY <1>1, TakenPart, TakenInside
<1> HIDE DEF p, n
<1>4. Reverts(text, ub \o overwritten, e)
  BY <1>1, <1>2, <1>3, ReplaceReverts
<1> HIDE DEF overwritten
<1>5. sv \in Seq(Symbol) /\ overwritten \in Seq(Symbol)
  BY <1>3, SeqMonotonic, Char \subseteq Symbol DEF Symbol
<1>6. ub \o overwritten = undoBuffer \o (sv \o overwritten) /\ sv \o overwritten \in Seq(Symbol)
  BY <1>1, <1>5, ConcatAssociative, ConcatProperties
<1>7. AppendedRef(undoBuffer, sv) \in StringRef /\ ub \in Seq(Symbol)
  BY <1>1, AppendedRefGood
<1> HIDE DEF ub
<1>8. AppendedRef(ub, overwritten) \in StringRef
  BY <1>3, <1>7, AppendedRefGood
<1>9. e \in EditEvent /\ Effective(e)
  BY <1>3, <1>7, <1>8 DEF EditEvent, EditType, Effective, AppendedRef
<1> HIDE DEF e
<1>10. text' = EditedText(text, ub \o overwritten, e) /\ undoBuffer' = ub \o overwritten
       /\ undoStack' = Append(undoStack, e) /\ undoPointer' = Len(undoStack) + 1
  BY <1>2, <1>9 DEF ApplyAndPush, buffer_apply, ApplyCounting
<1> QED
  BY <1>4, <1>6, <1>9, <1>10 DEF Pushes

(* Every step of a linear history pushes, undoes, leaves the history alone, or  *)
(* clears it.                                                                 *)
LEMMA StepShapes ==
  ASSUME IInv, LinearIInv, LinearNext
  PROVE  Pushes \/ Undoes \/ Leaves \/ Clears
<1>0. /\ text \in Seq(Char) /\ undoStack \in Seq(EditEvent)
      /\ Len(text) \in Nat /\ Len(undoStack) \in Nat /\ undoPointer \in 0 .. Len(undoStack)
  BY LenProperties DEF IInv, TypeOK
<1>1. Next /\ Record /\ linear' /\ NoEmptyReplacement'
  BY DEF LinearNext, HistoryNext
<1>2. undoStack' = << >> \/ KeepsLinear
  BY <1>1 DEF Record
<1>3. ASSUME NEW at \in Int, NEW num \in Int, NEW sv \in Seq(Char), buffer_replace(at, num, sv)
      PROVE  Pushes \/ Leaves
  <2>0. Len(sv) \in Nat /\ sv \in Seq(Symbol)
    BY LenProperties, SeqMonotonic, Char \subseteq Symbol DEF Symbol
  <2>1. CASE ReplaceNothing(at, num, sv)
    <3>1. undoBuffer' = undoBuffer \o sv /\ UNCHANGED <<text, undoStack, undoPointer>>
      BY <2>1 DEF ReplaceNothing
    <3> QED
      BY <2>0, <3>1 DEF Leaves, Grows
  <2>2. CASE ReplaceSome(at, num, sv)
    <3>1. Len(sv) # 0
      <4> DEFINE p == iclamp(at, 0, Len(text))
                 n == iclamp(num, 0, Len(text) - p)
                 e == [type     |-> "ETReplace",
                       position |-> p,
                       inserted |-> AppendedRef(undoBuffer, sv),
                       removed  |-> AppendedRef(undoBuffer \o sv, SubSeq(text, p + 1, p + n))]
      <4>1. undoStack' = Append(undoStack, e)
        BY <2>2 DEF ReplaceSome, ApplyAndPush
      <4>2. e.type = "ETReplace" /\ e.inserted.length = Len(sv)
        BY DEF AppendedRef
      <4> HIDE DEF e
      <4>3. Len(undoStack) + 1 \in 1 .. Len(undoStack') /\ undoStack'[Len(undoStack) + 1] = e
        BY <1>0, <4>1
      <4> QED
        BY <1>1, <4>2, <4>3 DEF NoEmptyReplacement
    <3> QED
      BY <2>2, <3>1, ReplacePushes
  <2> QED
    BY <1>3, <2>1, <2>2 DEF buffer_replace
<1>4. CASE Edit
  <2>1. ASSUME NEW sv \in Insertions, NEW pos \in 0 .. Len(text), buffer_insert(sv, pos)
        PROVE  Pushes
    BY <1>0, <2>1, InsertPushes, BufferAssumption
  <2>2. ASSUME NEW at \in 0 .. Len(text), NEW count \in 1 .. Len(text), buffer_delete(at, count)
        PROVE  Pushes
    BY <1>0, <2>2, DeletePushes
  <2>3. ASSUME NEW at \in 0 .. Len(text), NEW num \in 0 .. Len(text), NEW sv \in Replacements,
               buffer_replace(at, num, sv)
        PROVE  Pushes \/ Leaves
    BY <1>0, <1>3, <2>3, BufferAssumption
  <2>4. ASSUME buffer_merge_lines
        PROVE  Pushes \/ Leaves
    <3> DEFINE space == <<Space>>
    <3>1. PICK at \in lines.ends : buffer_replace(at, 1, space)
      BY <2>4 DEF buffer_merge_lines
    <3>2. at \in Int /\ space \in Seq(Char) /\ 1 \in Int
      BY BufferAssumption DEF IInv, TypeOK
    <3> HIDE DEF space
    <3> QED
      BY <1>3, <3>1, <3>2, Zenon
  <2> QED
    BY <1>4, <2>1, <2>2, <2>3, <2>4 DEF Edit
<1>5. CASE buffer_undo
  BY <1>0, <1>5 DEF buffer_undo, Revert, Undoes
<1>6. ~ buffer_redo
  BY <1>0, <1>2 DEF buffer_redo, Revert, KeepsLinear, Pushed
<1>7. ASSUME NEW n \in Name \cup {NoName}, Save(n)
      PROVE  Leaves
  <2>1. NameText(n) \in Seq(Symbol)
    BY NameIsText
  <2>2. /\ undoBuffer' = undoBuffer \o NameText(n) \/ undoBuffer' = undoBuffer
        /\ UNCHANGED <<text, undoStack, undoPointer>>
    BY <1>7 DEF Save, SaveAssertFails, NothingToSave, WriteFile, WriteAndMark, history
  <2> QED
    BY <2>1, <2>2 DEF Leaves, Grows
<1>8. CASE \/ eddy_on_draw \/ editor_select_buffer
           \/ eddy_publish_diagnostics_handler \/ eddy_load_theme
  <2>1. UNCHANGED <<text, undoBuffer, undoStack, undoPointer>>
    BY <1>8 DEF eddy_on_draw, editor_select_buffer, eddy_publish_diagnostics_handler,
                eddy_load_theme, Bump, history
  <2> QED
    BY <2>1 DEF Leaves, Grows
<1>9. CASE eddy_new_buffer \/ \E n \in Name : buffer_open(n) \/ BufferOpenFails(n)
  <2>1. text = << >> /\ UNCHANGED <<history, version>>
    BY <1>9 DEF eddy_new_buffer, buffer_open, BufferOpenFails, Reusable, IInv, ClosedIsBlank
  <2>2. text' = text \/ undoStack = << >>
    BY <1>2, <2>1 DEF KeepsLinear, history
  <2> QED
    BY <2>1, <2>2 DEF Leaves, Grows, history
<1>10. CASE buffer_close
  BY <1>10 DEF buffer_close, Zero, Clears
<1> QED
  BY <1>1, <1>4, <1>5, <1>6, <1>7, <1>8, <1>9, <1>10 DEF Next
-----------------------------------------------------------------------------
(* The steps of a linear history keep the invariant, and are steps of the      *)
(* abstract history.                                                          *)

(* Reverting an event goes the same way when symbols are appended behind what   *)
(* its references read.                                                       *)
LEMMA UndoableStays ==
  ASSUME IInv, LinearIInv, NEW i \in 1 .. undoPointer, Grows
  PROVE  LET r == revert_edit(undoStack[i])
         IN  Effective(r) /\ EditedText(After(i), undoBuffer', r) = before[i]
<1> DEFINE r == revert_edit(undoStack[i])
<1>1. undoBuffer \in Seq(Symbol) /\ i \in 1 .. Len(undoStack) /\ undoStack[i] \in EditEvent
  <2>1. undoStack \in Seq(EditEvent) /\ i \in 1 .. Len(undoStack)
    BY LenProperties DEF IInv, TypeOK
  <2> QED
    BY <2>1, ElementOfSeq DEF IInv, TypeOK
<1>2. r.inserted = undoStack[i].removed /\ r.inserted \in StringRef
  BY <1>1, RevertIsEvent DEF EditEvent
<1>3. GoodRef(undoBuffer, r.inserted)
  BY <1>1, <1>2 DEF IInv, RefsGood
<1>4. Effective(r) /\ EditedText(After(i), undoBuffer, r) = before[i]
  BY DEF LinearIInv, Undoable
<1> HIDE DEF r
<1>5. buffer_sv_from_ref(undoBuffer', r.inserted) = buffer_sv_from_ref(undoBuffer, r.inserted)
  <2>1. CASE undoBuffer' = undoBuffer
    BY <2>1
  <2>2. ASSUME NEW more \in Seq(Symbol), undoBuffer' = undoBuffer \o more
        PROVE  buffer_sv_from_ref(undoBuffer', r.inserted) = buffer_sv_from_ref(undoBuffer, r.inserted)
    BY <1>1, <1>2, <1>3, <2>2, ReadsTheSame
  <2> QED
    BY <2>1, <2>2 DEF Grows
<1>6. EditedText(After(i), undoBuffer', r) = EditedText(After(i), undoBuffer, r)
  BY <1>5 DEF EditedText
<1> QED
  BY <1>4, <1>6 DEF r

(* An edit is a change that can be undone.                                    *)
LEMMA LinearPush ==
  ASSUME IInv, IInv', LinearIInv, LinearNext, Pushes
  PROVE  LinearIInv' /\ Abstract!Change
<1>1. PICK more \in Seq(Symbol), e \in EditEvent :
        /\ undoBuffer' = undoBuffer \o more
        /\ undoStack' = Append(undoStack, e) /\ undoPointer' = Len(undoStack) + 1
        /\ text' = EditedText(text, undoBuffer', e)
        /\ Reverts(text, undoBuffer', e)
  BY DEF Pushes
<1>2. /\ undoStack \in Seq(EditEvent) /\ Len(undoStack) \in Nat
      /\ text \in Seq(Char) /\ text' \in Seq(Char)
  BY LenProperties DEF IInv, TypeOK
<1>3. /\ undoStack' # << >> /\ Len(undoStack') = Len(undoStack) + 1
      /\ \A i \in 1 .. Len(undoStack) : undoStack'[i] = undoStack[i]
      /\ undoStack'[Len(undoStack) + 1] = e
  BY <1>1, <1>2, AppendProperties
<1>4. Pushed
  BY <1>2, <1>3 DEF Pushed
<1>5. /\ undoPointer = Len(undoStack) /\ before' = Append(before, text)
      /\ linear' /\ NoEmptyReplacement'
  BY <1>3, <1>4 DEF LinearNext, HistoryNext, Record, KeepsLinear, LinearIInv
<1>6. before \in Seq(Seq(Char)) /\ Len(before) = Len(undoStack)
  BY DEF LinearIInv
<1>7. /\ before' \in Seq(Seq(Char)) /\ Len(before') = Len(undoStack) + 1
      /\ \A i \in 1 .. Len(undoStack) : before'[i] = before[i]
      /\ before'[Len(undoStack) + 1] = text
  BY <1>2, <1>5, <1>6, AppendProperties
<1>8. ASSUME NEW i \in 1 .. Len(undoStack) + 1
      PROVE  Undoable(i)'
  <2>1. CASE i \in 1 .. Len(undoStack)
    <3>1. After(i)' = After(i)
      <4>1. CASE i < Len(undoStack)
        BY <1>1, <1>2, <1>5, <1>7, <2>1, <4>1 DEF After
      <4>2. CASE i = Len(undoStack)
        BY <1>1, <1>2, <1>5, <1>7, <2>1, <4>2 DEF After
      <4> QED
        BY <1>2, <2>1, <4>1, <4>2
    <3>2. LET r == revert_edit(undoStack[i])
          IN  Effective(r) /\ EditedText(After(i), undoBuffer', r) = before[i]
      BY <1>1, <1>5, <2>1, UndoableStays DEF Grows
    <3> QED
      BY <1>3, <1>7, <2>1, <3>1, <3>2 DEF Undoable
  <2>2. CASE i = Len(undoStack) + 1
    <3>1. After(i)' = text'
      BY <1>1, <1>2, <2>2 DEF After
    <3> QED
      BY <1>1, <1>3, <1>7, <2>2, <3>1 DEF Reverts, Undoable
  <2> QED
    BY <1>2, <2>1, <2>2
<1>9. LinearIInv'
  BY <1>1, <1>3, <1>5, <1>7, <1>8 DEF LinearIInv
<1>10. SubSeq(before, 1, undoPointer) = before /\ SubSeq(before', 1, undoPointer') = before'
  BY <1>1, <1>5, <1>6, <1>7, SubSeqFull
<1> QED
  BY <1>2, <1>5, <1>9, <1>10 DEF Abstract!Change

(* An undo gives the text back that the event was applied to.                 *)
LEMMA LinearUndo ==
  ASSUME IInv, IInv', LinearIInv, LinearNext, Undoes
  PROVE  LinearIInv' /\ Abstract!Undo
<1> DEFINE p == undoPointer
           r == revert_edit(undoStack[p])
<1>1. /\ undoStack \in Seq(EditEvent) /\ Len(undoStack) \in Nat /\ p \in 1 .. Len(undoStack)
      /\ undoPointer' = p - 1 /\ UNCHANGED <<undoBuffer, undoStack>>
      /\ buffer_apply(undoBuffer, r)
  BY LenProperties DEF IInv, TypeOK, Undoes
<1>2. undoStack' # << >> /\ ~ Pushed
  BY <1>1 DEF Pushed
<1>3. before' = before /\ linear' /\ NoEmptyReplacement'
  BY <1>2 DEF LinearNext, HistoryNext, Record
<1>4. before \in Seq(Seq(Char)) /\ Len(before) = Len(undoStack)
  BY DEF LinearIInv
<1>5. Effective(r) /\ EditedText(text, undoBuffer, r) = before[p]
  BY <1>1 DEF LinearIInv, Undoable, After
<1> HIDE DEF r
<1>6. text' = before[p]
  BY <1>1, <1>5 DEF buffer_apply, ApplyCounting
<1>7. ASSUME NEW i \in 1 .. p - 1
      PROVE  Undoable(i)'
  <2>1. After(i)' = After(i)
    BY <1>1, <1>3, <1>6 DEF After
  <2>2. Undoable(i)
    BY <1>1 DEF LinearIInv
  <2> QED
    BY <1>1, <1>3, <2>1, <2>2 DEF Undoable
<1>8. LinearIInv'
  BY <1>1, <1>3, <1>4, <1>7 DEF LinearIInv
<1> DEFINE past == SubSeq(before, 1, p)
<1>9. /\ past \in Seq(Seq(Char)) /\ Len(past) = p /\ past[p] = before[p]
  BY <1>1, <1>4, PartOfSeq
<1>10. past # << >>
  <2> HIDE DEF past
  <2> QED
    BY <1>1, <1>9
<1>11. SubSeq(past, 1, p - 1) = SubSeq(before, 1, p - 1)
  <2>1. CASE p = 1
    BY <2>1, SubSeqEmpty
  <2>2. CASE p # 1
    <3>1. /\ 1 \in 1 .. Len(before) /\ p \in 1 .. Len(before)
          /\ 1 \in 1 .. p - 1 + 1 /\ p - 1 \in 1 .. p - 1 + 1
      BY <1>1, <1>4, <2>2
    <3>2. SubSeq(SubSeq(before, 1, p), 1, p - 1) = SubSeq(before, 1 + 1 - 1, 1 + (p - 1) - 1)
      BY <1>4, <3>1, SubSeqOfSubSeq
    <3> QED
      BY <1>1, <3>2
  <2> QED
    BY <2>1, <2>2
<1>12. SubSeq(before', 1, undoPointer') = SubSeq(past, 1, Len(past) - 1) /\ text' = past[Len(past)]
  BY <1>1, <1>3, <1>6, <1>9, <1>11
<1> QED
  BY <1>8, <1>10, <1>12 DEF Abstract!Undo

(* What leaves the history alone leaves the text alone, or gives a slot that    *)
(* holds neither text nor history the text of a file.                          *)
LEMMA LinearLeave ==
  ASSUME IInv, IInv', LinearIInv, LinearNext, Leaves
  PROVE  LinearIInv' /\ (Abstract!Load \/ UNCHANGED Abstract!hvars)
<1>1. /\ undoStack \in Seq(EditEvent) /\ Len(undoStack) \in Nat
      /\ undoPointer \in 0 .. Len(undoStack) /\ text' \in Seq(Char)
      /\ undoStack' = undoStack /\ undoPointer' = undoPointer
      /\ Grows
  BY LenProperties DEF IInv, TypeOK, Leaves
<1>2. before \in Seq(Seq(Char)) /\ Len(before) = Len(undoStack)
  BY DEF LinearIInv
<1>3. undoStack = << >> => before = << >> /\ undoPointer = 0
  BY <1>1, <1>2, EmptySeq
<1>4. before' = before /\ linear' /\ NoEmptyReplacement'
  BY <1>1, <1>3 DEF LinearNext, HistoryNext, Record, Pushed
<1>5. ASSUME NEW i \in 1 .. undoPointer
      PROVE  Undoable(i)'
  <2>1. text' = text
    BY <1>1, <1>3 DEF Leaves
  <2>2. After(i)' = After(i)
    BY <1>1, <1>4, <2>1 DEF After
  <2> QED
    BY <1>1, <1>4, <2>2, UndoableStays DEF Undoable
<1>6. LinearIInv'
  BY <1>1, <1>2, <1>4, <1>5 DEF LinearIInv
<1>7. CASE text' = text
  BY <1>1, <1>4, <1>6, <1>7 DEF Abstract!hvars
<1>8. CASE undoStack = << >> /\ text = << >>
  <2>1. SubSeq(before, 1, undoPointer) = << >>
    BY <1>3, <1>8, SubSeqEmpty
  <2> QED
    BY <1>1, <1>4, <1>6, <1>8, <2>1 DEF Abstract!Load
<1> QED
  BY <1>7, <1>8 DEF Leaves

(* Closing the buffer gives text and past up.                                  *)
LEMMA LinearClear ==
  ASSUME LinearIInv, LinearNext, Clears
  PROVE  LinearIInv' /\ Abstract!Close
<1>1. /\ undoStack' = << >> /\ undoPointer' = 0 /\ text' = << >> /\ before' = << >>
      /\ linear' /\ NoEmptyReplacement'
  BY DEF Clears, LinearNext, HistoryNext, Record
<1>2. << >> \in Seq(Seq(Char)) /\ SubSeq(<< >>, 1, 0) = << >>
  BY EmptySeq, SubSeqEmpty
<1> QED
  BY <1>1, <1>2 DEF LinearIInv, Abstract!Close

(* The invariant of linear histories: at any time, the events up to the undo     *)
(* pointer can be reverted one after the other, each giving its text back.      *)
THEOREM LinearInvariance == LinearSpec => [](IInv /\ LinearIInv)
<1>1. HistoryInit => IInv /\ LinearIInv
  <2> SUFFICES ASSUME HistoryInit PROVE IInv /\ LinearIInv
    OBVIOUS
  <2>1. before = << >> /\ undoStack = << >> /\ undoPointer = 0 /\ linear
    BY DEF HistoryInit, Init
  <2>2. before \in Seq(Seq(Char)) /\ Len(undoStack) = 0
    BY <2>1, EmptySeq
  <2> QED
    BY <2>1, <2>2, InitGood DEF HistoryInit, LinearIInv, NoEmptyReplacement
<1>2. IInv /\ LinearIInv /\ [LinearNext]_historyVars => (IInv /\ LinearIInv)'
  <2> SUFFICES ASSUME IInv, LinearIInv, [LinearNext]_historyVars PROVE IInv' /\ LinearIInv'
    OBVIOUS
  <2>1. IInv'
    BY NextGood DEF LinearNext, HistoryNext, historyVars
  <2>2. CASE LinearNext
    BY <2>1, <2>2, StepShapes, LinearPush, LinearUndo, LinearLeave, LinearClear
  <2>3. CASE UNCHANGED historyVars
    BY <2>1, <2>3 DEF historyVars, vars, history, LinearIInv, Undoable, After, NoEmptyReplacement
  <2> QED
    BY <2>1, <2>2, <2>3
<1> QED
  BY <1>1, <1>2, PTL DEF LinearSpec

(* Buffer's undo stack, read up to the undo pointer, is the past of an undo       *)
(* history: every undo gives the text back that the last edit still standing    *)
(* was made to (buffer_edit, buffer_undo).                                    *)
THEOREM UndoHistoryRefines == LinearSpec => ImplementsTextHistory
<1>1. HistoryInit => Abstract!Init
  BY SubSeqEmpty DEF HistoryInit, Init, Abstract!Init
<1>2. IInv /\ LinearIInv /\ [LinearNext]_historyVars => [Abstract!Next]_(Abstract!hvars)
  <2> SUFFICES ASSUME IInv, LinearIInv, [LinearNext]_historyVars
               PROVE  [Abstract!Next]_(Abstract!hvars)
    OBVIOUS
  <2>1. IInv'
    BY NextGood DEF LinearNext, HistoryNext, historyVars
  <2>2. CASE LinearNext
    BY <2>1, <2>2, StepShapes, LinearPush, LinearUndo, LinearLeave, LinearClear
       DEF Abstract!Next
  <2>3. CASE UNCHANGED historyVars
    BY <2>3 DEF historyVars, vars, history, Abstract!hvars
  <2> QED
    BY <2>2, <2>3
<1> QED
  BY <1>1, <1>2, LinearInvariance, PTL DEF LinearSpec, ImplementsTextHistory, Abstract!Spec
=============================================================================
