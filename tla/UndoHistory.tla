------------------------------ MODULE UndoHistory ------------------------------
(***************************************************************************)
(* Buffer with the texts each event of the undo stack was applied to, to    *)
(* state what undoing gives back.  The stack is never cut, so an edit made  *)
(* after an undo is pushed above the events that were undone; a redo        *)
(* applies the same reversal as the undo did; and a slot whose text became  *)
(* empty is handed to the next file with its history.  linear says that     *)
(* none of the three has happened.                                          *)
(***************************************************************************)
EXTENDS Buffer

VARIABLES
  before,   \* before[i] is the text undoStack[i] was applied to
  linear    \* the stack is the history of this text and nothing was redone

historyVars == <<vars, before, linear>>

HistoryInit == Init /\ before = << >> /\ linear = TRUE

Pushed == Len(undoStack') > Len(undoStack)

\* The step pushes where the pointer is, or only pops, and gives no other text.
KeepsLinear ==
  /\ Pushed => undoPointer = Len(undoStack)
  /\ undoPointer' > undoPointer => Pushed
  /\ text' # text /\ undoStack # << >> => version' # version

Record ==
  /\ before' = IF undoStack' = << >> THEN << >>
               ELSE IF Pushed THEN Append(before, text) ELSE before
  /\ linear' = (undoStack' = << >> \/ (linear /\ KeepsLinear))

HistoryNext == Next /\ Record

HistorySpec == HistoryInit /\ [][HistoryNext]_historyVars

(* The histories the abstract one speaks of: no redo, no edit below the top,  *)
(* no inherited stack, no replacement by nothing.                             *)
LinearNext == HistoryNext /\ linear' /\ NoEmptyReplacement'

LinearSpec == HistoryInit /\ [][LinearNext]_historyVars

-----------------------------------------------------------------------------
(* editor.c:1156, the command "editor-redo": with a linear history, a redo that  *)
(* is not of the last event gives the text the event after it was applied to.   *)
RedoRestores ==
  [][linear /\ NoEmptyReplacement /\ undoPointer' = undoPointer + 1 /\ ~Pushed
       /\ undoPointer' < Len(undoStack)
       => text' = before[undoPointer' + 1]]_historyVars

Abstract == INSTANCE TextHistory WITH past <- SubSeq(before, 1, undoPointer)

(* Buffer's undo stack implements an undo history as long as it stays linear. *)
ImplementsTextHistory == Abstract!Spec
=============================================================================
