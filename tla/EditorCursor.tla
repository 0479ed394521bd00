---------------------------- MODULE EditorCursor ----------------------------
(***************************************************************************)
(* The cursor and the selection of a view, and the commands of the editor   *)
(* that move them or edit the text at them (eddy/src/app/editor.c,           *)
(* BufferView in editor.h, the word boundaries of buffer.c).                 *)
(*                                                                          *)
(* A command leaves the position it wants in newCursor, -1 for a line it     *)
(* left in pos and a column it left in cursorCol; the next frame is drawn    *)
(* after the line index is rebuilt, and editor_update_cursor makes cursor    *)
(* and pos agree with it.  A frame takes a command picked from the list,     *)
(* then the command of a key, or else characters and one use of the mouse;   *)
(* cursor and the line index are those of the last frame for all of them.    *)
(* Positions are 0-based, and reading one that is not in the text gives the  *)
(* NUL behind it, or the zero byte before it (sb.c:18).                      *)
(***************************************************************************)
EXTENDS Integers, Sequences, FiniteSets, FiniteSetsExt

CONSTANTS
  Typed,         \* the characters that are typed, Newline among them
  Alnum,         \* the letters and digits
  Newline, Space,
  Nul,           \* the byte behind a text
  Braces,        \* pairs of an opening and a closing brace
  Clips,         \* what other programs put on the clipboard
  InitialTexts,  \* the texts of the files that are viewed
  OtherTexts,    \* the texts of other moments, which undo and redo give back
  PageLines,     \* editor->lines
  MaxText,       \* bound on the length of the text
  Followed,      \* bound on a session: the missteps after which it takes more input
  AstrayText,    \* bound on the length of the text in which it then does
  NoCut          \* nothing was cut

MisstepKind == {"empty", "line", "column", "undo", "place", "stale"}

ASSUME CursorAssumption ==
  /\ Newline \in Typed /\ Nul \notin Typed \cup {Space} /\ Alnum \subseteq Typed
  /\ Braces \subseteq (Typed \ (Alnum \cup {Newline})) \X (Typed \ (Alnum \cup {Newline}))
  /\ \A b, c \in Braces : b[1] # c[2] /\ (b[1] = c[1] <=> b[2] = c[2])
  /\ Clips \subseteq Seq(Typed) /\ InitialTexts \subseteq Seq(Typed)
  /\ OtherTexts \subseteq Seq(Typed \cup {Space})
  /\ PageLines \in Nat \ {0} /\ MaxText \in Nat /\ AstrayText \in Nat
  /\ Followed \subseteq MisstepKind \ {"stale"}

VARIABLES
  outcome,    \* the editor is running, or how it ended
  text,       \* the text of the buffer
  edited,     \* the text was changed since the view was opened
  indexed,    \* the text that buffer->lines are the lines of
  cursor, newCursor, pos, cursorCol, selection,   \* the fields of BufferView
  frame,      \* what this frame took last, or "drawn" when it took nothing yet
  goal,       \* the column a run of vertical moves started from, or -1
  cut,        \* the text before the last cut and what it cut, or NoCut
  missteps    \* the commands that are known to leave the cursor astray

view == <<cursor, newCursor, pos, cursorCol, selection>>
notes == <<goal, cut, missteps>>
vars == <<outcome, text, edited, indexed, view, frame, notes>>

-----------------------------------------------------------------------------
(* The text and its lines.                                                   *)

At(t, i) == IF i \in 0 .. Len(t) - 1 THEN t[i + 1] ELSE Nul

Piece(t, from, to) == SubSeq(t, from + 1, to)

(* buffer_insert and buffer_delete: what is not in the text is an end of it.    *)
Clamped(t, at) == Max({0, Min({at, Len(t)})})

Insert(t, s, at) ==
  Piece(t, 0, Clamped(t, at)) \o s \o Piece(t, Clamped(t, at), Len(t))

Delete(t, from, to) ==
  LET at == Clamped(t, from)
  IN  Piece(t, 0, at) \o Piece(t, Clamped(t, at + (to - from)), Len(t))

Starts(t) == {0} \cup {i \in 1 .. Len(t) : At(t, i - 1) = Newline}

Line(t, l) ==
  LET start == CHOOSE s \in Starts(t) : Cardinality({r \in Starts(t) : r < s}) = l
      end   == Min({i \in start .. Len(t) : i = Len(t) \/ At(t, i) = Newline})
  IN  [start |-> start, length |-> end - start]

LineCount(t) == Cardinality(Starts(t))

(* lines.elements[l] of the index of t: behind its last, what a longer one left. *)
LinesAt(t, l) ==
  IF l < LineCount(t) THEN {Line(t, l)}
  ELSE [start : 0 .. MaxText, length : 0 .. MaxText]

\* Mutant: a position at the start of a line belongs to the line before.
LineForIndexEarly(t, i) ==
  CHOOSE l \in 0 .. LineCount(t) - 1 :
    /\ l = 0 \/ Line(t, l).start < i
    /\ l = LineCount(t) - 1 \/ i <= Line(t, l + 1).start

(* The binary search.                                                        *)
buffer_line_for_index(t, i) ==
  LET last == LineCount(t) - 1
      start(l) == Line(t, l).start
      found(l) == start(l) <= i /\ (l = last \/ i < start(l + 1))
      search[bounds \in (0 .. last) \X (0 .. last)] ==
        LET min == bounds[1]
            max == bounds[2]
            l   == min + (max - min) \div 2
        IN  IF found(l) THEN l
            ELSE IF start(l) > i THEN search[<<min, l>>] ELSE search[<<l + 1, max>>]
  IN  search[<<0, last>>]

WordStart(i) == Max({0} \cup {j \in 1 .. i : At(text, j) \notin Alnum})
SkipBack(i) == Max({0} \cup {j \in 1 .. i : At(text, j) \in Alnum})
SkipOn(i, S) == Min({Max({i, S})} \cup {j \in i .. S : At(text, j) \in Alnum})
WordEnd(i, S) == Min({Max({i, S})} \cup {j \in i .. S : At(text, j) \notin Alnum})

buffer_word_boundary_left(i) ==
  1 + (IF At(text, i) \in Alnum THEN WordStart(i) ELSE SkipBack(i))

(* Where a way left from i ends: behind the NUL lies what an earlier text left. *)
LeftFrom(i, end) == IF i <= Len(text) THEN {end} ELSE 1 .. i

buffer_word_boundary_right(i) ==
  IF At(text, i) \in Alnum THEN WordEnd(i, Len(text)) ELSE SkipOn(i, Len(text))

-----------------------------------------------------------------------------
(* The parts of a command.                                                    *)

(* The order within a frame: a command that was picked from the list, then the *)
(* command of a key or, without one, characters and after them the mouse.      *)
MayFollow ==
  [pending |-> {"drawn"},
   command |-> {"drawn", "pending"},
   chars   |-> {"drawn", "pending", "chars"},
   mouse   |-> {"drawn", "pending", "chars"}]

InputTaken(input) ==
  /\ outcome = "running" /\ missteps \subseteq Followed
  /\ missteps = {} \/ Len(text) <= AstrayText
  /\ frame \in MayFollow[input] /\ frame' = input
  /\ UNCHANGED indexed

Takes(input) == InputTaken(input) /\ cut' = NoCut

Commanded == Takes("pending") \/ Takes("command")

Runs == Commanded /\ UNCHANGED outcome

(* A command that reads the shift key, which only the command of a key has.    *)
RunsByKey == Takes("command") /\ UNCHANGED outcome

Stops(how) ==
  outcome' = how /\ UNCHANGED <<text, edited, view, goal, missteps>>

Ends(how) == Commanded /\ Stops(how)

editor_cmd_without_key == Takes("pending") /\ Stops("no key")

Moves(to) ==
  newCursor' = to /\ cursorCol' = -1 /\ goal' = -1 /\ UNCHANGED <<cursor, pos>>

Stays == UNCHANGED <<cursor, newCursor, pos, cursorCol, goal>>

Kept == UNCHANGED <<text, edited>>

Edits(t) ==
  /\ Len(t) <= MaxText
  /\ text' = t /\ edited' = (edited \/ t # text)

(* A text that nothing was ever put in is a null pointer.                      *)
HasMemory == text # <<>> \/ edited

(* The cursor and the index of the last frame are taken for those of a text    *)
(* that was edited since; a line that was wanted is given up for the cursor.   *)
ReadsLastFrame ==
  /\ frame # "drawn" /\ frame' # "chars"
  /\ frame = "chars" \/ text # indexed \/ cursor > Len(text)

Missteps(S) ==
  missteps' = missteps \cup S
    \cup (IF ReadsLastFrame THEN {"stale"} ELSE {})
    \cup (IF newCursor = -1 /\ newCursor' = cursor' THEN {"place"} ELSE {})

(* The largest size_t, which stands for a line that is wanted, as a position.  *)
IfNone(i) == IF i = -1 THEN {"stale"} ELSE {}
InEmptyText == IF text = <<>> THEN {"empty"} ELSE {}
KeptColumn == IF cursorCol >= 0 THEN {"column"} ELSE {}

(* The position one before the largest size_t.                                *)
BehindAll == MaxText + 1

editor_manage_selection(select) ==
  selection' = IF ~select THEN -1 ELSE IF selection = -1 THEN cursor ELSE selection

From == Min({selection, newCursor})
To == Max({selection, newCursor})

-----------------------------------------------------------------------------
(* Moving.                                                                    *)

\* Mutant: the column is taken anew from each line.
VerticallyAnew(line) ==
  /\ newCursor' = -1
  /\ cursorCol' = pos.column
  /\ pos' = [pos EXCEPT !.line = line]
  /\ goal' = IF goal = -1 THEN pos.column ELSE goal
  /\ UNCHANGED cursor

(* A run of vertical moves: editor_lines_up and editor_lines_down.            *)
Vertically(line) ==
  /\ newCursor' = -1
  /\ cursorCol' = IF cursorCol < 0 THEN pos.column ELSE cursorCol
  /\ pos' = [pos EXCEPT !.line = line]
  /\ goal' = IF goal = -1 THEN pos.column ELSE goal
  /\ UNCHANGED cursor

editor_lines_up(n) ==
  IF pos.line = 0 THEN Stays ELSE Vertically(Max({0, pos.line - n}))

editor_lines_down(n) ==
  IF pos.line >= LineCount(indexed) - 1 THEN Stays
  ELSE Vertically(Min({pos.line + n, LineCount(indexed) - 1}))

editor_cmd_up(select) ==
  /\ RunsByKey /\ Kept
  /\ editor_manage_selection(select) /\ editor_lines_up(1) /\ Missteps({})

editor_cmd_down(select) ==
  /\ RunsByKey /\ Kept
  /\ editor_manage_selection(select) /\ editor_lines_down(1) /\ Missteps({})

(* Pages and the wheel keep the selection; a touch of the wheel may be no line. *)
Scroll ==
  /\ Runs /\ Kept /\ UNCHANGED selection
  /\ editor_lines_up(PageLines) \/ editor_lines_down(PageLines)
  /\ Missteps({})

Wheel ==
  /\ Takes("mouse") /\ UNCHANGED outcome /\ Kept /\ UNCHANGED selection
  /\ \E n \in 0 .. PageLines : editor_lines_up(n) \/ editor_lines_down(n)
  /\ Missteps({})

editor_goto(line, column) ==
  /\ RunsByKey /\ Kept /\ UNCHANGED <<cursor, selection>>
  /\ newCursor' = -1 /\ goal' = -1
  /\ LET l == Min({line, LineCount(indexed) - 1})
     IN  /\ pos' = [pos EXCEPT !.line = l]
         /\ cursorCol' = Min({column, Max({0, Line(indexed, l).length - 1})})
  /\ Missteps({})

editor_cmd_left(select) ==
  /\ RunsByKey /\ Kept /\ editor_manage_selection(select)
  /\ Moves(IF newCursor = -1 THEN BehindAll ELSE Max({0, newCursor - 1}))
  /\ Missteps(IfNone(newCursor))

editor_cmd_word_left(select) ==
  /\ RunsByKey /\ Kept /\ editor_manage_selection(select)
  /\ IF newCursor > 0
     THEN \E n \in LeftFrom(newCursor, WordStart(SkipBack(newCursor)) + 1) : Moves(n)
     ELSE Moves(0)
  /\ Missteps(IfNone(newCursor))

(* length - 1 of an empty text is the largest size_t.                         *)
editor_cmd_right(select) ==
  /\ RunsByKey /\ Kept /\ editor_manage_selection(select) /\ newCursor <= MaxText
  /\ Moves(IF newCursor # -1 /\ (newCursor < Len(text) - 1 \/ text = <<>>)
           THEN newCursor + 1 ELSE newCursor)
  /\ Missteps(IfNone(newCursor) \cup InEmptyText)

(* In an empty text the words behind it are what the memory holds.            *)
editor_cmd_word_right(select) ==
  /\ RunsByKey /\ Kept /\ editor_manage_selection(select)
  /\ IF text = <<>> /\ newCursor # -1
     THEN HasMemory /\ \E n \in newCursor .. MaxText + 1 : Moves(n)
     ELSE Moves(IF newCursor = -1 THEN -1
                ELSE WordEnd(SkipOn(newCursor, Len(text) - 1), Len(text) - 1))
  /\ Missteps(IfNone(newCursor) \cup InEmptyText)

(* The assertions of both: the line the cursor was drawn in is still there.    *)
ToColumn(column(_)) ==
  \/ pos.line >= LineCount(indexed) /\ Ends("no line")
  \/ /\ pos.line < LineCount(indexed)
     /\ Runs /\ Kept /\ UNCHANGED selection
     /\ Moves(column(Line(indexed, pos.line))) /\ Missteps({})

editor_cmd_begin_of_line == LET start(line) == line.start IN ToColumn(start)

editor_cmd_end_of_line == LET end(line) == line.start + line.length IN ToColumn(end)

editor_cmd_top ==
  Runs /\ Kept /\ UNCHANGED selection /\ Moves(0) /\ Missteps({})

editor_cmd_bottom ==
  Runs /\ Kept /\ UNCHANGED selection /\ Moves(Len(text)) /\ Missteps({})

editor_cmd_clear_selection ==
  Runs /\ Kept /\ selection' = -1 /\ Stays /\ Missteps({})

editor_cmd_select_word ==
  /\ Runs /\ Kept /\ HasMemory
  /\ selection' \in LeftFrom(cursor, buffer_word_boundary_left(cursor))
  /\ newCursor' = buffer_word_boundary_right(cursor)
  /\ goal' = -1 /\ UNCHANGED <<cursor, pos, cursorCol>>
  /\ Missteps(KeptColumn \cup InEmptyText)

(* The matching brace.                                                        *)
OpenAt(i) == \E b \in Braces : b[1] = At(text, i)
CloseAt(i) == \E b \in Braces : b[2] = At(text, i)
BraceAt(i) == CHOOSE b \in Braces : At(text, i) \in {b[1], b[2]}

(* How deep the braces of this kind are nested behind i, before and after j.   *)
Nesting(i, j) ==
  LET b == BraceAt(i)
      among == Min({i, j}) .. Max({i, j})
  IN  Cardinality({k \in among : At(text, k) = b[1]})
        - Cardinality({k \in among : At(text, k) = b[2]})

\* Mutant: the search takes the next brace that closes.
ClosingFirst(i) == {j \in i + 1 .. Len(text) - 1 : At(text, j) = BraceAt(i)[2]}

(* _find_closing_brace and _find_opening_brace count the depth on the way.     *)
Closing(i) ==
  {j \in i + 1 .. Len(text) - 1 : At(text, j) = BraceAt(i)[2] /\ Nesting(i, j) = 0}

OpeningOf(i) ==
  {j \in 0 .. i - 1 : At(text, j) = BraceAt(i)[1] /\ Nesting(i, j) = 0}

MovesToBrace(i, select) ==
  /\ RunsByKey /\ Kept
  /\ selection' = IF select THEN i ELSE selection
  /\ IF OpenAt(i)
     THEN IF Closing(i) = {} THEN Stays
          ELSE Moves(Min(Closing(i)) + 1)
     ELSE IF OpeningOf(i) = {} THEN Stays
          ELSE Moves(Max(OpeningOf(i)))
  /\ Missteps({})

(* strchr finds the NUL at the end of OPEN_BRACES, which has no other brace.   *)
TakenForOpen(i) == OpenAt(i) \/ At(text, i) = Nul

NoBrace == Takes("command") /\ Stops("no brace")

BraceByCursor(select) ==
  \/ /\ TakenForOpen(cursor)
     /\ IF OpenAt(cursor) THEN MovesToBrace(cursor, select) ELSE NoBrace
  \/ /\ ~TakenForOpen(cursor) /\ TakenForOpen(cursor - 1)
     /\ IF OpenAt(cursor - 1) THEN MovesToBrace(cursor - 1, select) ELSE NoBrace
  \/ /\ ~TakenForOpen(cursor) /\ ~TakenForOpen(cursor - 1)
     /\ \/ CloseAt(cursor) /\ MovesToBrace(cursor, select)
        \/ ~CloseAt(cursor) /\ CloseAt(cursor - 1) /\ MovesToBrace(cursor - 1, select)

(* A cursor that an undo left behind the NUL is by whatever lies there.        *)
BraceByChance(select) ==
  \/ NoBrace
  \/ /\ RunsByKey /\ Kept
     /\ selection' \in {selection} \cup (IF select THEN {cursor - 1, cursor} ELSE {})
     /\ Stays \/ \E j \in 0 .. cursor : Moves(j)
     /\ Missteps({})

editor_cmd_matching_brace(select) ==
  /\ HasMemory
  /\ IF cursor <= Len(text) THEN BraceByCursor(select) ELSE BraceByChance(select)

ReadsNothing == ~HasMemory /\ (Commanded \/ Takes("mouse")) /\ Stops("fault")

-----------------------------------------------------------------------------
(* Editing.                                                                   *)

\* The text changed in front of the cursor, which is where it was drawn.
EditedInPlace ==
  IF newCursor' = cursor /\ (text' # text \/ frame # "drawn") THEN {"place"} ELSE {}

(* An opening brace typed over a selection goes around it.                    *)
Wraps(b) ==
  /\ Edits(Insert(Insert(text, <<b[1]>>, From), <<b[2]>>, To + 1))
  /\ IF cursor = To
     THEN newCursor' = To + 1 /\ selection' = From + 1
     ELSE newCursor' = From + 1 /\ selection' = To + 1
  /\ cursorCol' = -1 /\ goal' = -1 /\ UNCHANGED <<cursor, pos>>
  /\ Missteps(EditedInPlace \cup IfNone(newCursor))

\* Mutant: the cursor does not go back to the start of what was selected.
PutsForgetful(s) ==
  /\ Edits(Insert(IF selection = -1 THEN text ELSE Delete(text, From, To),
                  s, IF selection = -1 THEN newCursor ELSE From))
  /\ Moves(newCursor + Len(s))
  /\ selection' = -1 /\ Missteps(EditedInPlace \cup IfNone(newCursor))

(* Text in the place of the selection, or at the cursor.                      *)
Puts(s) ==
  LET at == IF selection = -1 THEN newCursor ELSE From
      t  == IF selection = -1 THEN text ELSE Delete(text, From, To)
  IN  /\ Edits(Insert(t, s, at))
      /\ Moves(at + Len(s))
      /\ selection' = -1
      /\ Missteps(EditedInPlace \cup IfNone(newCursor))

editor_character(ch) ==
  /\ Takes("chars") /\ UNCHANGED outcome
  /\ \/ \E b \in Braces : selection # -1 /\ ch = b[1] /\ Wraps(b)
     \/ /\ ~\E b \in Braces : selection # -1 /\ ch = b[1]
        /\ Puts(<<ch>>)

(* split-line is a command, of the same effect as typing a newline.           *)
editor_cmd_split_line == Runs /\ Puts(<<Newline>>)

editor_cmd_paste(clip) == Runs /\ Puts(clip)

editor_cmd_merge_lines ==
  /\ Runs /\ UNCHANGED selection
  /\ \E line \in LinesAt(indexed, pos.line) :
       LET end == line.start + line.length
       IN  /\ Moves(end)
           /\ IF pos.line < LineCount(indexed) /\ end < Len(text)
              THEN Edits(Insert(Delete(text, end, end + 1), <<Space>>, end))
              ELSE Kept
  /\ Missteps({})

Removes(from, to) ==
  /\ Edits(Delete(text, from, to)) /\ Moves(from)
  /\ selection' = -1 /\ Missteps(IfNone(from))

editor_cmd_backspace ==
  /\ Runs
  /\ IF selection # -1 THEN Removes(From, To)
     ELSE IF cursor > 0 THEN Removes(cursor - 1, cursor)
     ELSE Kept /\ Stays /\ UNCHANGED selection /\ Missteps({})

editor_cmd_delete_current_char ==
  /\ Runs
  /\ IF selection # -1 THEN Removes(From, To)
     ELSE IF cursor < Len(text) THEN Removes(cursor, cursor + 1)
     ELSE Kept /\ Stays /\ UNCHANGED selection /\ Missteps({})

(* editor_select_line, of the line the cursor is in.                          *)
SelectedLine == Line(indexed, buffer_line_for_index(indexed, cursor))
BehindLine == SelectedLine.start + SelectedLine.length + 1

editor_cmd_copy ==
  /\ Runs /\ Kept /\ HasMemory
  /\ IF selection # -1 THEN Stays /\ UNCHANGED selection /\ Missteps({})
     ELSE /\ selection' = SelectedLine.start
          /\ newCursor' = BehindLine /\ cursor' = BehindLine
          /\ goal' = -1 /\ Missteps({"line"} \cup KeptColumn)
          /\ UNCHANGED <<pos, cursorCol>>

CutFrom == IF selection = -1 THEN SelectedLine.start ELSE From
CutTo == IF selection = -1 THEN BehindLine ELSE To

(* What is cut goes to the clipboard up to the NUL behind the text.            *)
NotesCut ==
  cut' = IF CutFrom \in 0 .. Len(text)
         THEN [before |-> text, clip |-> Piece(text, CutFrom, Clamped(text, CutTo))]
         ELSE NoCut

\* Mutant: the cursor stays where it was.
CutInPlace ==
  /\ InputTaken("pending") \/ InputTaken("command")
  /\ UNCHANGED <<outcome, cursor, newCursor, pos>> /\ HasMemory
  /\ NotesCut /\ Edits(Delete(text, CutFrom, CutTo))
  /\ cursorCol' = -1 /\ goal' = -1 /\ selection' = -1
  /\ Missteps(IfNone(CutFrom))

editor_cmd_cut ==
  /\ InputTaken("pending") \/ InputTaken("command")
  /\ UNCHANGED outcome /\ HasMemory
  /\ NotesCut /\ Edits(Delete(text, CutFrom, CutTo))
  /\ newCursor' = CutFrom /\ cursor' = IF selection = -1 THEN CutTo ELSE cursor
  /\ cursorCol' = -1 /\ goal' = -1 /\ selection' = -1 /\ UNCHANGED pos
  /\ Missteps(IfNone(CutFrom))

(* Undo and redo give back the text of some other moment and leave the view.  *)
editor_cmd_undo ==
  /\ Runs /\ edited
  /\ text' \in OtherTexts /\ UNCHANGED <<edited, selection>>
  /\ Stays /\ Missteps({"undo"})

(* The mouse: one, two or three clicks at a column of a line.                  *)
Click(line, column) ==
  LET l  == Line(indexed, line)
      at == l.start + Min({column, l.length})
  IN  /\ Takes("mouse") /\ UNCHANGED outcome /\ Kept
      /\ \/ Moves(at) /\ selection' = -1 /\ Missteps({})
         \/ /\ HasMemory
            /\ Moves(buffer_word_boundary_right(at))
            /\ selection' \in LeftFrom(at, buffer_word_boundary_left(at))
            /\ Missteps(InEmptyText)
         \/ /\ Moves(l.start + l.length + 1)
            /\ selection' = l.start
            /\ Missteps(IF line = LineCount(indexed) - 1 THEN {"line"} ELSE {})

-----------------------------------------------------------------------------
(* The frame is drawn: eddy_on_draw has rebuilt the index.                     *)

Column(line) == IF line.length <= cursorCol - 1 THEN line.length ELSE cursorCol

editor_update_cursor ==
  IF newCursor = cursor THEN UNCHANGED <<cursor, newCursor, pos>>
  ELSE \/ /\ newCursor # -1
          /\ LET l == buffer_line_for_index(text, newCursor)
             IN  pos' = [line |-> l, column |-> newCursor - Line(text, l).start]
          /\ cursor' = newCursor /\ UNCHANGED newCursor
       \/ /\ newCursor = -1
          /\ \E line \in LinesAt(text, pos.line) :
               /\ pos' = [pos EXCEPT !.column = Column(line)]
               /\ newCursor' = line.start + Column(line)
               /\ cursor' = line.start + Column(line)

Draw ==
  /\ outcome = "running" /\ frame # "drawn" /\ indexed' = text
  /\ \/ newCursor = -1 /\ cursorCol < 0 /\ outcome' = "no column"
        /\ UNCHANGED <<frame, cursor, newCursor, pos>>
     \/ ~(newCursor = -1 /\ cursorCol < 0) /\ frame' = "drawn"
        /\ editor_update_cursor /\ UNCHANGED outcome
  /\ UNCHANGED <<text, edited, cursorCol, selection, notes>>

-----------------------------------------------------------------------------
(* editor_select_buffer: the view of a buffer that was just opened.           *)
Init ==
  /\ outcome = "running" /\ text \in InitialTexts /\ edited = FALSE /\ indexed = text
  /\ cursor = 0 /\ newCursor = 0 /\ pos = [line |-> 0, column |-> 0]
  /\ cursorCol = 0 /\ selection = -1
  /\ frame = "drawn" /\ goal = -1 /\ cut = NoCut /\ missteps = {}

Vertical ==
  \/ \E select \in BOOLEAN : editor_cmd_up(select) \/ editor_cmd_down(select)
  \/ Scroll \/ Wheel

Horizontal ==
  \/ \E select \in BOOLEAN :
       \/ editor_cmd_left(select) \/ editor_cmd_right(select)
       \/ editor_cmd_word_left(select) \/ editor_cmd_word_right(select)
       \/ editor_cmd_matching_brace(select)
  \/ \E line, column \in 0 .. MaxText : editor_goto(line, column)
  \/ \E line \in 0 .. LineCount(indexed) - 1, column \in 0 .. MaxText : Click(line, column)
  \/ editor_cmd_begin_of_line \/ editor_cmd_end_of_line
  \/ editor_cmd_top \/ editor_cmd_bottom
  \/ editor_cmd_select_word \/ editor_cmd_clear_selection
  \/ editor_cmd_without_key \/ ReadsNothing

Editing ==
  \/ \E ch \in Typed : editor_character(ch)
  \/ \E clip \in Clips : editor_cmd_paste(clip)
  \/ cut # NoCut /\ editor_cmd_paste(cut.clip)
  \/ editor_cmd_split_line \/ editor_cmd_merge_lines
  \/ editor_cmd_backspace \/ editor_cmd_delete_current_char
  \/ editor_cmd_copy \/ editor_cmd_cut \/ editor_cmd_undo

Next == Vertical \/ Horizontal \/ Editing \/ Draw

Spec == Init /\ [][Next]_vars

-----------------------------------------------------------------------------
(* Properties.                                                                *)

(* The cursor and both ends of the selection lie in the text, unless a command *)
(* moved in an empty text, a last line was selected whole, an undo took text   *)
(* away, or a second input of a frame read what the first had made stale: what *)
(* is typed, deleted or copied is where the user sees it.                      *)
CursorInText ==
  missteps \subseteq {"column"} =>
    /\ newCursor \in -1 .. Len(text) /\ selection \in -1 .. Len(text)
    /\ frame = "drawn" => cursor \in 0 .. Len(text)

(* The line and column that are drawn are those of the cursor.                *)
PosIsOfCursor ==
  frame = "drawn" /\ outcome = "running" /\ missteps \subseteq {"column"} =>
    /\ pos.line = Cardinality({i \in 0 .. cursor - 1 : At(text, i) = Newline})
    /\ \A i \in cursor - pos.column .. cursor - 1 : At(text, i) # Newline
    /\ cursor - pos.column \in Starts(text)

(* A run of moves up and down, over shorter lines too, stays in the column it  *)
(* started from.                                                              *)
VerticalKeepsColumn ==
  frame = "drawn" /\ goal # -1 /\ missteps = {} =>
    pos.column = Min({goal, Line(text, pos.line).length})

(* What was cut and is pasted at once is back where it was.                   *)
CutPasteRestores ==
  [][cut # NoCut /\ editor_cmd_paste(cut.clip) => text' = cut.before]_vars

(* A brace that matching-brace jumps to closes or opens the one it started     *)
(* from: the text between the two is balanced.                                *)
Balanced(t, b) ==
  LET depth(n) == Cardinality({i \in 1 .. n : t[i] = b[1]})
                    - Cardinality({i \in 1 .. n : t[i] = b[2]})
  IN  depth(Len(t)) = 0 /\ \A n \in 1 .. Len(t) : depth(n) >= 0

BraceIsMatched ==
  [][\A select \in BOOLEAN :
       editor_cmd_matching_brace(select) /\ newCursor' # newCursor /\ cursor <= Len(text) =>
         \E i \in {cursor - 1, cursor}, b \in Braces :
           \/ /\ At(text, i) = b[1] /\ At(text, newCursor' - 1) = b[2]
              /\ Balanced(Piece(text, i + 1, newCursor' - 1), b)
           \/ /\ At(text, i) = b[2] /\ At(text, newCursor') = b[1]
              /\ Balanced(Piece(text, newCursor' + 1, i), b)]_vars

(* The assertion of editor_cmd_begin_of_line and editor_cmd_end_of_line: the   *)
(* line the cursor was drawn in is a line of the text.                         *)
LineAssertionHolds == outcome # "no line"
=============================================================================
