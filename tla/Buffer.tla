-------------------------------- MODULE Buffer --------------------------------
(***************************************************************************)
(* One slot of eddy.buffers: the text of a document, the undo buffer and    *)
(* stack that buffer_edit grows, the three version counters that say what   *)
(* is saved and what is indexed, and the line index the rest of the editor  *)
(* reads (eddy/src/app/buffer.c, with the parts of eddy.c and editor.c that *)
(* write these fields).                                                     *)
(*                                                                          *)
(* Positions are 0-based, as in the code.  Inserted text is any member of   *)
(* Insertions; a file name is one symbol.  An assertion that fails ends the *)
(* program (log.h: _fatal), which is alive = FALSE.                         *)
(***************************************************************************)
EXTENDS Integers, Sequences

CONSTANTS
  Char,            \* the characters of a text
  Newline,         \* the one that ends a line
  Space,           \* the one buffer_merge_lines puts in its place
  Insertions,      \* texts handed to buffer_insert
  Replacements,    \* texts handed to buffer_replace
  Name,            \* file names
  NoName,          \* the empty file name of an untitled buffer
  Missing,         \* what the disk holds for a file that does not exist
  InitialDisk,     \* the files before the editor starts
  Watched,         \* the names a mode with an event_listener claims (C sources)
  MaxEdits,        \* bound on the length of the undo stack
  MaxVersion,      \* bound on the version counter
  MaxUndoBuffer,   \* bound on the undo buffer
  MaxText          \* bound on the length of the text

ASSUME BufferAssumption ==
  /\ Newline \in Char /\ Space \in Char
  /\ Insertions \subseteq Seq(Char) /\ Replacements \subseteq Seq(Char)
  /\ NoName \notin Name
  /\ Watched \subseteq Name
  /\ Missing \notin Seq(Char)
  /\ InitialDisk \in [Name -> Seq(Char) \cup {Missing}]
  /\ MaxEdits \in Nat /\ MaxVersion \in Nat /\ MaxUndoBuffer \in Nat /\ MaxText \in Nat

VARIABLES
  alive,           \* no assertion has failed
  open,            \* the slot holds a document
  name,            \* buffer->name
  text,            \* buffer->text
  undoBuffer,      \* buffer->undo_buffer
  undoStack,       \* buffer->undo_stack
  undoPointer,     \* buffer->undo_pointer
  version,         \* buffer->version
  savedVersion,    \* buffer->saved_version
  indexedVersion,  \* buffer->indexed_version
  lines,           \* buffer->lines: where each line starts and ends
  listening,       \* the mode's listener is on buffer->listeners
  applied,         \* the event the listeners were called with in the last step
  disk             \* the contents of the files

slot == <<open, name, listening>>
history == <<undoBuffer, undoStack, undoPointer>>
index == <<indexedVersion, lines>>
vars == <<alive, slot, text, history, version, savedVersion, index, applied, disk>>

-----------------------------------------------------------------------------
(* String builders and references into the undo buffer.                      *)

iclamp(v, lo, hi) == IF v < lo THEN lo ELSE IF v > hi THEN hi ELSE v

sb_remove(s, at, num) ==
  IF at >= Len(s) THEN s
  ELSE SubSeq(s, 1, at) \o SubSeq(s, at + num + 1, Len(s))

sb_insert_sv(s, sv, at) ==
  IF at >= Len(s) THEN s \o sv
  ELSE SubSeq(s, 1, at) \o sv \o SubSeq(s, at + 1, Len(s))

Symbol == Char \cup Name
StringRef == [index : Nat, length : Nat]
NullRef == [index |-> 0, length |-> 0]

\* The StringRef append_to_undo_buffer returns for text that lies outside it.
AppendedRef(ub, sv) == [index |-> Len(ub), length |-> Len(sv)]

buffer_sv_from_ref(ub, ref) == SubSeq(ub, ref.index + 1, ref.index + ref.length)

(* An event: `inserted` is insert.text or replace.replacement, `removed` is   *)
(* delete.count with delete.deleted, or replace.overwritten.                  *)
EditType == {"ETInsert", "ETDelete", "ETReplace"}
EditEvent == [type : EditType, position : Nat, inserted : StringRef, removed : StringRef]
SignalType == {"ETNone", "ETIndexed", "ETSave", "ETClose"}
Signal(t) == [type |-> t, position |-> 0, inserted |-> NullRef, removed |-> NullRef]

\* Mutant: the two texts of a replacement keep their roles.
RevertUnswapped(e) ==
  [type     |-> CASE e.type = "ETInsert" -> "ETDelete"
                  [] e.type = "ETDelete" -> "ETInsert"
                  [] OTHER -> "ETReplace",
   position |-> e.position,
   inserted |-> IF e.type = "ETReplace" THEN e.inserted ELSE e.removed,
   removed  |-> IF e.type = "ETReplace" THEN e.removed ELSE e.inserted]

revert_edit(e) ==
  [type     |-> CASE e.type = "ETInsert" -> "ETDelete"
                  [] e.type = "ETDelete" -> "ETInsert"
                  [] OTHER -> "ETReplace",
   position |-> e.position,
   inserted |-> e.removed,
   removed  |-> e.inserted]

(* The line index.                                                            *)
NewlinesOf(t) == {i \in 1 .. Len(t) : t[i] = Newline}
LinesOf(t) == [starts |-> {0} \cup NewlinesOf(t),
               ends   |-> {i - 1 : i \in NewlinesOf(t)} \cup {Len(t)}]
NoLines == [starts |-> {}, ends |-> {}]

-----------------------------------------------------------------------------
(* buffer_apply for the three edits: its early returns, the change to the     *)
(* text, and the version.                                                     *)

Effective(e) ==
  CASE e.type = "ETInsert"  -> e.inserted.length # 0
    [] e.type = "ETDelete"  -> e.removed.length # 0
    [] e.type = "ETReplace" -> e.inserted.length # 0

EditedText(t, ub, e) ==
  LET kept  == IF e.type = "ETInsert" THEN t
               ELSE sb_remove(t, e.position, e.removed.length)
      added == buffer_sv_from_ref(ub, e.inserted)
  IN  IF e.type = "ETDelete" THEN kept
      ELSE sb_insert_sv(kept, added, e.position)

ApplyCounting(ub, e, n) ==
  IF Effective(e)
  THEN /\ version + n <= MaxVersion
       /\ text' = EditedText(text, ub, e)
       /\ Len(text') <= MaxText
       /\ version' = version + n
       /\ applied' = e
  ELSE /\ UNCHANGED <<text, version>>
       /\ applied' = Signal("ETNone")

\* Mutant: the change is not counted.
ApplyUncounted(ub, e) == ApplyCounting(ub, e, 0)

buffer_apply(ub, e) == ApplyCounting(ub, e, 1)

\* buffer_edit after its clamping: apply, push, and move the pointer to the top.
ApplyAndPush(ub, e) ==
  /\ Len(undoStack) < MaxEdits
  /\ Len(ub) <= MaxUndoBuffer
  /\ undoBuffer' = ub
  /\ buffer_apply(ub, e)
  /\ undoStack' = Append(undoStack, e)
  /\ undoPointer' = Len(undoStack) + 1
  /\ UNCHANGED <<alive, slot, savedVersion, index, disk>>

-----------------------------------------------------------------------------
(* The editing operations.                                                    *)

Ready == alive /\ open

buffer_insert(sv, pos) ==
  /\ Ready
  /\ Len(sv) # 0
  /\ ApplyAndPush(undoBuffer \o sv,
                  [type     |-> "ETInsert",
                   position |-> iclamp(pos, 0, Len(text)),
                   inserted |-> AppendedRef(undoBuffer, sv),
                   removed  |-> NullRef])

\* Mutant: the deleted text is not appended to the undo buffer.
DeleteUnkept(at, count) ==
  /\ Ready
  /\ LET p == iclamp(at, 0, Len(text))
         n == iclamp(count, 0, Len(text) - p)
         deleted == SubSeq(text, p + 1, p + n)
     IN  /\ n # 0
         /\ ApplyAndPush(undoBuffer,
                         [type     |-> "ETDelete",
                          position |-> p,
                          inserted |-> NullRef,
                          removed  |-> AppendedRef(undoBuffer, deleted)])

buffer_delete(at, count) ==
  /\ Ready
  /\ LET p == iclamp(at, 0, Len(text))
         n == iclamp(count, 0, Len(text) - p)
         deleted == SubSeq(text, p + 1, p + n)
     IN  /\ n # 0
         /\ ApplyAndPush(undoBuffer \o deleted,
                         [type     |-> "ETDelete",
                          position |-> p,
                          inserted |-> NullRef,
                          removed  |-> AppendedRef(undoBuffer, deleted)])

(* The replacement goes to the undo buffer before anything is checked; when   *)
(* nothing is overwritten that is all that happens.                           *)
ReplaceNothing(at, num, replacement) ==
  /\ Ready
  /\ LET p == iclamp(at, 0, Len(text))
     IN  iclamp(num, 0, Len(text) - p) = 0
  /\ undoBuffer' = undoBuffer \o replacement
  /\ Len(undoBuffer') <= MaxUndoBuffer
  /\ applied' = Signal("ETNone")
  /\ UNCHANGED <<alive, slot, text, undoStack, undoPointer, version, savedVersion, index, disk>>

ReplaceSome(at, num, replacement) ==
  /\ Ready
  /\ LET p == iclamp(at, 0, Len(text))
         n == iclamp(num, 0, Len(text) - p)
         ub == undoBuffer \o replacement
         overwritten == SubSeq(text, p + 1, p + n)
     IN  /\ n # 0
         /\ ApplyAndPush(ub \o overwritten,
                         [type     |-> "ETReplace",
                          position |-> p,
                          inserted |-> AppendedRef(undoBuffer, replacement),
                          removed  |-> AppendedRef(ub, overwritten)])

buffer_replace(at, num, replacement) ==
  \/ ReplaceNothing(at, num, replacement)
  \/ ReplaceSome(at, num, replacement)

\* Any line of the index, which may be older than the text.
buffer_merge_lines == \E at \in lines.ends : buffer_replace(at, 1, <<Space>>)

\* The pointer moves to p and the event numbered e is reverted.
Revert(e, p) ==
  /\ Ready
  /\ e \in 1 .. Len(undoStack)
  /\ undoPointer' = p
  /\ buffer_apply(undoBuffer, revert_edit(undoStack[e]))
  /\ UNCHANGED <<alive, slot, undoBuffer, undoStack, savedVersion, index, disk>>

buffer_undo == Revert(undoPointer, undoPointer - 1)

\* The reversal that undo applies, of the event the pointer moves over.
buffer_redo == Revert(undoPointer + 1, undoPointer + 1)

-----------------------------------------------------------------------------
(* Saving: buffer_apply for ETSave, reached by buffer_save (fileName = NoName) *)
(* and buffer_save_as.                                                         *)

NameText(n) == IF n = NoName THEN << >> ELSE <<n>>

SaveAssertFails(fileName) ==
  /\ savedVersion > version
  /\ alive' = FALSE
  /\ undoBuffer' = undoBuffer \o NameText(fileName)
  /\ applied' = Signal("ETNone")
  /\ UNCHANGED <<slot, text, undoStack, undoPointer, version, savedVersion, index, disk>>

NothingToSave(fileName) ==
  /\ savedVersion <= version
  /\ fileName = NoName
  /\ savedVersion = version \/ name = NoName
  /\ applied' = Signal("ETNone")
  /\ UNCHANGED <<alive, slot, text, history, version, savedVersion, index, disk>>

WriteAndMark(fileName, mark) ==
  LET target == IF fileName = NoName THEN name ELSE fileName
  IN  /\ savedVersion <= version
      /\ target # NoName
      /\ fileName = NoName => savedVersion # version
      /\ name' = target
      /\ undoBuffer' = undoBuffer \o NameText(fileName)
      /\ disk' = [disk EXCEPT ![target] = text]
      /\ savedVersion' = mark
      /\ applied' = Signal("ETSave")
      /\ UNCHANGED <<alive, open, listening, text, undoStack, undoPointer, version, index>>

\* Mutant: the save counts one event too many.
WriteFileAhead(fileName) == WriteAndMark(fileName, Len(undoStack) + 1)

WriteFile(fileName) == WriteAndMark(fileName, Len(undoStack))

Save(fileName) ==
  /\ Ready
  /\ Len(undoBuffer) + Len(NameText(fileName)) <= MaxUndoBuffer
  /\ \/ SaveAssertFails(fileName)
     \/ NothingToSave(fileName)
     \/ WriteFile(fileName)

-----------------------------------------------------------------------------
(* Indexing: buffer_build_indices, called by every frame that finds the index *)
(* out of date (eddy_on_draw).                                                *)

BuildIndices(t, v) ==
  /\ lines' = LinesOf(t)
  /\ indexedVersion' = v
  /\ applied' = Signal("ETIndexed")

eddy_on_draw ==
  /\ Ready
  /\ indexedVersion # version
  /\ IF indexedVersion > version
     THEN alive' = FALSE /\ applied' = Signal("ETNone") /\ UNCHANGED index
     ELSE UNCHANGED alive /\ BuildIndices(text, version)
  /\ UNCHANGED <<slot, text, history, version, savedVersion, disk>>

(* The version is also bumped to force a redraw.  A new view on the buffer    *)
(* (editor_select_buffer) leaves saved_version behind; diagnostics and a new  *)
(* theme move it along when the two were equal.                               *)
Bump(saved) ==
  /\ Ready
  /\ version < MaxVersion
  /\ version' = version + 1
  /\ savedVersion' = saved
  /\ UNCHANGED <<alive, slot, text, history, disk>>

SavedMovesAlong == IF savedVersion = version THEN version + 1 ELSE savedVersion

editor_select_buffer ==
  Bump(savedVersion) /\ applied' = Signal("ETNone") /\ UNCHANGED index

eddy_publish_diagnostics_handler ==
  /\ name # NoName
  /\ Bump(SavedMovesAlong)
  /\ applied' = Signal("ETNone")
  /\ UNCHANGED index

eddy_load_theme == Bump(SavedMovesAlong) /\ BuildIndices(text, version + 1)

-----------------------------------------------------------------------------
(* The life of the slot.  eddy_new_buffer takes a slot with no name and no    *)
(* text, whatever history it still carries; buffer_close zeroes it.           *)

Reusable == ~open \/ (name = NoName /\ text = << >>)

eddy_new_buffer ==
  /\ alive /\ Reusable
  /\ open' = TRUE
  /\ IF indexedVersion = version /\ lines # NoLines
     THEN UNCHANGED index /\ applied' = Signal("ETNone")
     ELSE BuildIndices(text, version)
  /\ UNCHANGED <<alive, name, listening, text, history, version, savedVersion, disk>>

buffer_open(n) ==
  /\ alive /\ Reusable
  /\ disk[n] # Missing
  /\ open' = TRUE
  /\ name' = n
  /\ text' = disk[n]
  /\ BuildIndices(disk[n], version)
  /\ listening' = (n \in Watched)
  /\ UNCHANGED <<alive, history, version, savedVersion, disk>>

\* The name is set before the read fails; the slot keeps it.
BufferOpenFails(n) ==
  /\ alive /\ Reusable
  /\ disk[n] = Missing
  /\ open' = TRUE
  /\ name' = n
  /\ BuildIndices(text, version)
  /\ UNCHANGED <<alive, listening, text, history, version, savedVersion, disk>>

Zero(pointer) ==
  /\ Ready
  /\ open' = FALSE
  /\ name' = NoName /\ text' = << >>
  /\ undoBuffer' = << >> /\ undoStack' = << >> /\ undoPointer' = pointer
  /\ version' = 0 /\ savedVersion' = 0 /\ indexedVersion' = 0
  /\ lines' = NoLines
  /\ listening' = FALSE
  /\ applied' = Signal("ETClose")
  /\ UNCHANGED <<alive, disk>>

\* Mutant: the pointer of the undo stack survives.
CloseKeepingPointer == Zero(undoPointer)

buffer_close == Zero(0)

-----------------------------------------------------------------------------
Init ==
  /\ alive = TRUE
  /\ open = FALSE
  /\ name = NoName /\ text = << >>
  /\ undoBuffer = << >> /\ undoStack = << >> /\ undoPointer = 0
  /\ version = 0 /\ savedVersion = 0 /\ indexedVersion = 0
  /\ lines = NoLines
  /\ listening = FALSE
  /\ applied = Signal("ETNone")
  /\ disk = InitialDisk

Edit ==
  \/ \E sv \in Insertions, pos \in 0 .. Len(text) : buffer_insert(sv, pos)
  \/ \E at \in 0 .. Len(text), count \in 1 .. Len(text) : buffer_delete(at, count)
  \/ \E at \in 0 .. Len(text), num \in 0 .. Len(text), sv \in Replacements :
       buffer_replace(at, num, sv)
  \/ buffer_merge_lines

Next ==
  \/ Edit
  \/ buffer_undo
  \/ buffer_redo
  \/ \E n \in Name \cup {NoName} : Save(n)
  \/ eddy_on_draw
  \/ editor_select_buffer
  \/ eddy_publish_diagnostics_handler
  \/ eddy_load_theme
  \/ eddy_new_buffer
  \/ \E n \in Name : buffer_open(n) \/ BufferOpenFails(n)
  \/ buffer_close

Spec == Init /\ [][Next]_vars

-----------------------------------------------------------------------------
(* The fields have their types, and the pointer of the undo stack is one of   *)
(* its indices or 0.                                                          *)
TypeOK ==
  /\ alive \in BOOLEAN /\ open \in BOOLEAN /\ listening \in BOOLEAN
  /\ name \in Name \cup {NoName}
  /\ text \in Seq(Char)
  /\ undoBuffer \in Seq(Symbol)
  /\ undoStack \in Seq(EditEvent)
  /\ undoPointer \in 0 .. Len(undoStack)
  /\ version \in Nat /\ savedVersion \in Nat /\ indexedVersion \in Nat
  /\ lines \in [starts : SUBSET Nat, ends : SUBSET Int]
  /\ applied \in EditEvent \cup {Signal(t) : t \in SignalType}
  /\ disk \in [Name -> Seq(Char) \cup {Missing}]

RefInBounds(ref) == ref.index + ref.length <= Len(undoBuffer)

(* Every text an undo or a redo will read lies inside the undo buffer: the    *)
(* references of every event on the stack, whichever operation pushed it and  *)
(* whatever was appended since (buffer_sv_from_ref reads without a check).    *)
UndoRefsInBounds ==
  \A i \in 1 .. Len(undoStack) :
    RefInBounds(undoStack[i].inserted) /\ RefInBounds(undoStack[i].removed)

(* When the index claims to be current, it is the index of the text: no edit, *)
(* undo, reuse of the slot or redraw leaves a line that is not there.         *)
IndexIsCurrent == open /\ indexedVersion = version => lines = LinesOf(text)

\* A replacement by nothing is pushed on the undo stack but not applied.
NoEmptyReplacement ==
  \A i \in 1 .. Len(undoStack) :
    undoStack[i].type = "ETReplace" => undoStack[i].inserted.length # 0

StoredText == IF name = NoName \/ disk[name] = Missing THEN << >> ELSE disk[name]

(* The test with which the editor lets a buffer be closed or the program quit *)
(* without a question (saved_version >= version) never lets go of text that   *)
(* is not on disk, although saved_version counts undo entries and version     *)
(* counts changes, undos, views and diagnostics.                              *)
CleanMeansStored ==
  open /\ NoEmptyReplacement /\ savedVersion >= version => text = StoredText

(* Neither assertion of buffer.c, saved_version <= version on a save and      *)
(* indexed_version <= version on indexing, fails before a replacement by      *)
(* nothing is made.                                                           *)
AssertsHoldWithoutEmptyReplacement == NoEmptyReplacement => alive

(* buffer.c:260, assert(buffer->saved_version <= buffer->version), and :64,   *)
(* assert(buffer->indexed_version <= buffer->version), as they stand.         *)
AssertsHold == alive
=============================================================================
