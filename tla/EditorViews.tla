------------------------------ MODULE EditorViews ------------------------------
(***************************************************************************)
(* The table of buffers (eddy.c) and the table of views on them (editor.c):  *)
(* opening, showing, closing, the question before closing or quitting, and   *)
(* the list of open files that one session leaves to the next.              *)
(*                                                                           *)
(* Both tables are arrays whose entries are reused, and each refers to the   *)
(* other by index.  Indices here are one more than in the code, so that the  *)
(* buffer_num -1 of a view that was closed is 0.  What an edit does inside   *)
(* one buffer is module Buffer; here it is a new text and the counters.      *)
(***************************************************************************)
EXTENDS Integers, SequencesExt

CONSTANTS
  Name,         \* file names
  NoName,       \* the empty name
  Text,         \* texts
  Empty,        \* the empty one
  Missing,      \* what the disk holds for a file that does not exist
  InitialDisk,  \* the files before the first session
  Arguments,    \* the lists of files the editor may be started with
  MaxBuffers,   \* bound on eddy.buffers
  MaxVersion,   \* bound on the version of a buffer
  MaxEdits,     \* bound on the edits of all the buffers together
  MaxSessions   \* bound on the sessions: the last one does not end

ASSUME EditorViewsAssumption ==
  /\ NoName \notin Name
  /\ Empty \in Text /\ Missing \notin Text
  /\ InitialDisk \in [Name -> Text \cup {Missing}]
  /\ Arguments \subseteq Seq(Name)
  /\ MaxBuffers \in Nat /\ MaxVersion \in Nat /\ MaxEdits \in Nat /\ MaxSessions \in Nat

VARIABLES
  session,   \* "running", or how the last session ended
  sessions,  \* how many sessions there have been
  slots,     \* eddy.buffers
  views,     \* eddy.editor->buffers: the buffer_num of each view
  current,   \* editor->current_buffer
  prompt,    \* the question on the screen
  misstep,   \* a view no operation can use was made current
  saved,     \* .eddy/state: the files the next session opens
  disk       \* the contents of the files

editor == <<slots, views, current, misstep>>
vars == <<session, sessions, editor, prompt, saved, disk>>

Hole == 0

Slot == [name : Name \cup {NoName}, text : Text, version : Nat, savedVersion : Nat,
         edits : Nat, indexed : Nat, lines : BOOLEAN]

Zeroed == [name |-> NoName, text |-> Empty, version |-> 0, savedVersion |-> 0,
           edits |-> 0, indexed |-> 0, lines |-> FALSE]

-----------------------------------------------------------------------------
(* The table of buffers.                                                      *)

buffer_build_indices(b) == [b EXCEPT !.lines = TRUE, !.indexed = b.version]

NewSlot(ss) ==
  LET free == {i \in DOMAIN ss : ss[i].name = NoName /\ ss[i].text = Empty}
  IN  IF free = {} THEN Len(ss) + 1 ELSE Min(free)

eddy_new_buffer(ss) ==
  LET i == NewSlot(ss)
  IN  IF i > Len(ss) THEN Append(ss, buffer_build_indices(Zeroed))
      ELSE [ss EXCEPT ![i] = buffer_build_indices(@)]

buffer_open(b, n) ==
  buffer_build_indices([b EXCEPT !.name = n, !.text = disk[n]])

\* The name is set before the file is read.
OpenFails(b, n) == [b EXCEPT !.name = n]

(* eddy_open_buffer: the table it leaves, the entry it returns, and whether it *)
(* returns one.                                                                *)
eddy_open_buffer(ss, n) ==
  LET named == {i \in DOMAIN ss : ss[i].name = n}
      i == NewSlot(ss)
      new == eddy_new_buffer(ss)
  IN  IF named # {}
      THEN [slots |-> [ss EXCEPT ![Min(named)] = buffer_build_indices(@)],
            ix |-> Min(named), ok |-> TRUE]
      ELSE IF disk[n] = Missing
      THEN [slots |-> [new EXCEPT ![i] = OpenFails(@, n)], ix |-> i, ok |-> FALSE]
      ELSE [slots |-> [new EXCEPT ![i] = buffer_open(@, n)], ix |-> i, ok |-> TRUE]

-----------------------------------------------------------------------------
(* The table of views.  An operation maps the state of the editor, a record,   *)
(* to the one it leaves.                                                       *)

Now == [slots |-> slots, views |-> views, current |-> current, misstep |-> "none"]

Becomes(e) ==
  /\ Len(e.slots) <= MaxBuffers
  /\ \A i \in DOMAIN e.slots : e.slots[i].version <= MaxVersion
  /\ slots' = e.slots /\ views' = e.views /\ current' = e.current /\ misstep' = e.misstep

editor_select_view(e, v) == [e EXCEPT !.current = v]

(* A buffer that has a view keeps it.  Another one takes the first hole, whose *)
(* buffer_num is not set, or a new view; its version is bumped.                *)
editor_select_buffer(e, b) ==
  LET showing == {v \in DOMAIN e.views : e.views[v] = b}
      holes == {v \in DOMAIN e.views : e.views[v] = Hole}
      bumped == [e EXCEPT !.slots[b].version = @ + 1]
  IN  IF showing # {} THEN editor_select_view(e, Min(showing))
      ELSE IF holes # {}
      THEN [bumped EXCEPT !.current = Min(holes), !.misstep = "hole"]
      ELSE [bumped EXCEPT !.views = Append(@, b), !.current = Len(e.views) + 1]

editor_new(e) ==
  editor_select_buffer([e EXCEPT !.slots = eddy_new_buffer(@)], NewSlot(e.slots))

Before(e) == {v \in DOMAIN e.views : v < e.current /\ e.views[v] # Hole}
After(e) == {v \in DOMAIN e.views : v > e.current /\ e.views[v] # Hole}

\* Mutant: the view next to the current one, whatever it is.
SelectAdjacent(e) == IF e.current > 1 THEN editor_select_view(e, e.current - 1) ELSE e

editor_select_prev(e) ==
  IF Before(e) = {} THEN e ELSE editor_select_view(e, Max(Before(e)))

editor_select_next(e) ==
  IF After(e) = {} THEN e ELSE editor_select_view(e, Min(After(e)))

editor_close_view(e) ==
  LET left == IF e.current = Len(e.views) THEN Front(e.views)
              ELSE [e.views EXCEPT ![e.current] = Hole]
      closed == [e EXCEPT !.views = left]
      prev == editor_select_prev(closed)
      next == IF prev.current = e.current THEN editor_select_next(closed) ELSE prev
  IN  IF next.current = e.current THEN editor_new(closed) ELSE next

eddy_close_buffer(e, b) ==
  [e EXCEPT !.slots[b] = Zeroed,
            !.misstep = IF @ = "none" /\ e.views[e.current] = b THEN "zeroed" ELSE @]

editor_close_buffer(e) == eddy_close_buffer(editor_close_view(e), e.views[e.current])

-----------------------------------------------------------------------------
(* Commands, given to the editor when no question is on the screen.            *)

Listening == session = "running" /\ prompt = "none" /\ misstep = "none"
Shown == views[current]

Command(e) ==
  /\ Listening
  /\ Becomes(e)
  /\ UNCHANGED <<session, sessions, prompt, saved>>

(* eddy_open_fs_handler and file_search_submit list files that exist; a file   *)
(* that went away since gives a message.                                       *)
OpenFile(n) ==
  LET opened == eddy_open_buffer(slots, n)
      e == [Now EXCEPT !.slots = opened.slots]
  IN  /\ Command(IF opened.ok THEN editor_select_buffer(e, opened.ix) ELSE e)
      /\ UNCHANGED disk

editor_cmd_switch_buffer ==
  \E b \in DOMAIN slots : Command(editor_select_buffer(Now, b)) /\ UNCHANGED disk

editor_cmd_close_view == Command(editor_close_view(Now)) /\ UNCHANGED disk

Edited(b, t) == [b EXCEPT !.text = t, !.edits = @ + 1, !.version = @ + 1]

Edit(t) ==
  /\ t # slots[Shown].text
  /\ MapThenSumSet(LAMBDA b : slots[b].edits, DOMAIN slots) < MaxEdits
  /\ Command([Now EXCEPT !.slots[Shown] = Edited(@, t)])
  /\ UNCHANGED disk

(* buffer_save and buffer_save_as: the state of a slot after the save, and the *)
(* files.                                                                      *)
Writes(b, n) == n # NoName \/ (b.name # NoName /\ b.savedVersion # b.version)
NameToWrite(b, n) == IF n = NoName THEN b.name ELSE n

AfterSave(b, n) ==
  IF Writes(b, n) THEN [b EXCEPT !.name = NameToWrite(b, n), !.savedVersion = b.edits] ELSE b

DiskAfterSave(b, n) ==
  IF Writes(b, n) THEN [disk EXCEPT ![NameToWrite(b, n)] = b.text] ELSE disk

\* editor_cmd_save asks for a name when there is none, as editor_cmd_save_as does.
Save(n) ==
  /\ n # NoName \/ slots[Shown].name # NoName
  /\ Command([Now EXCEPT !.slots[Shown] = AfterSave(@, n)])
  /\ disk' = DiskAfterSave(slots[Shown], n)

eddy_on_draw ==
  /\ \E b \in DOMAIN slots : slots[b].indexed # slots[b].version
  /\ Command([Now EXCEPT !.slots =
       [b \in DOMAIN slots |-> IF slots[b].indexed = slots[b].version THEN slots[b]
                               ELSE buffer_build_indices(slots[b])]])
  /\ UNCHANGED disk

-----------------------------------------------------------------------------
(* Closing a buffer and quitting, with their questions.                        *)

\* Mutant: only a document without a name is asked about.
NeedsAskingUnnamed(b) == b.name = NoName /\ b.text # Empty

NeedsAsking(b) == (b.name = NoName /\ b.text # Empty) \/ b.savedVersion < b.version

Ask(question) ==
  /\ Listening
  /\ prompt' = question
  /\ UNCHANGED <<session, sessions, editor, saved, disk>>

editor_cmd_close_buffer ==
  IF NeedsAsking(slots[Shown]) THEN Ask("close")
  ELSE Command(editor_close_buffer(Now)) /\ UNCHANGED disk

MayEnd == sessions < MaxSessions

eddy_cmd_quit == MayEnd /\ Ask("quit")

Answer(question) ==
  /\ session = "running"
  /\ prompt = question
  /\ prompt' = "none"
  /\ UNCHANGED sessions

\* Mutant: what is saved is the buffer shown after the closing.
AnswerClosesFirst(button) ==
  /\ Answer("close")
  /\ UNCHANGED <<session, saved>>
  /\ IF button = "Yes"
     THEN LET e == editor_close_buffer(Now)
              b == e.slots[e.views[e.current]]
          IN  /\ Becomes([e EXCEPT !.slots[e.views[e.current]] = AfterSave(b, NoName)])
              /\ disk' = DiskAfterSave(b, NoName)
     ELSE UNCHANGED <<editor, disk>>

(* editor_are_you_sure_handler.  The entry "No" carries the value of Cancel.    *)
AnswerClose(button) ==
  /\ Answer("close")
  /\ UNCHANGED <<session, saved>>
  /\ IF button = "Yes"
     THEN /\ Becomes(editor_close_buffer([Now EXCEPT !.slots[Shown] = AfterSave(@, NoName)]))
          /\ disk' = DiskAfterSave(slots[Shown], NoName)
     ELSE UNCHANGED <<editor, disk>>

NamesFrom(ss) ==
  LET names[i \in 0 .. Len(ss)] ==
        IF i = 0 THEN << >>
        ELSE IF ss[i].name = NoName THEN names[i - 1] ELSE Append(names[i - 1], ss[i].name)
  IN  names[Len(ss)]

\* Mutant: the first buffer is left out.
QuitFromSecond ==
  /\ session' = "quit"
  /\ saved' = NamesFrom(Tail(slots))
  /\ UNCHANGED <<editor, disk>>

eddy_quit ==
  /\ session' = "quit"
  /\ saved' = NamesFrom(slots)
  /\ UNCHANGED <<editor, disk>>

AnswerQuit(button) ==
  /\ Answer("quit")
  /\ IF button = "Yes" THEN eddy_quit ELSE UNCHANGED <<session, editor, saved, disk>>

eddy_cmd_force_quit ==
  /\ Listening /\ MayEnd
  /\ eddy_quit
  /\ UNCHANGED <<sessions, prompt>>

\* The process dies; what it wrote stays.
Killed ==
  /\ session = "running" /\ MayEnd
  /\ session' = "killed"
  /\ prompt' = "none"
  /\ UNCHANGED <<sessions, editor, saved, disk>>

-----------------------------------------------------------------------------
(* Starting: the files of the last session must open (MUST), those on the      *)
(* command line may.                                                           *)

\* The tables that files leave which are opened one after the other.
Opened(ss, files) ==
  LET table[i \in 0 .. Len(files)] ==
        IF i = 0 THEN ss ELSE eddy_open_buffer(table[i - 1], files[i]).slots
  IN  table

OpenArguments(ss, args) == Opened(ss, args)[Len(args)]

eddy_open_dir(files) ==
  LET table == Opened(<< >>, files)
  IN  [slots |-> table[Len(files)],
       ok |-> \A i \in 1 .. Len(files) : eddy_open_buffer(table[i - 1], files[i]).ok]

\* The editor eddy_start leaves, from the table it has opened.
Started(ss) ==
  LET some == IF ss = << >> THEN eddy_new_buffer(ss) ELSE ss
  IN  editor_select_buffer([slots |-> some, views |-> << >>, current |-> 1, misstep |-> "none"], 1)

Init ==
  /\ disk = InitialDisk
  /\ saved = << >>
  /\ \E args \in Arguments :
       LET e == Started(OpenArguments(<< >>, args))
       IN  slots = e.slots /\ views = e.views /\ current = e.current /\ misstep = e.misstep
  /\ session = "running" /\ sessions = 1
  /\ prompt = "none"

Restart ==
  /\ session \in {"quit", "killed"}
  /\ sessions' = sessions + 1
  /\ UNCHANGED <<prompt, saved, disk>>
  /\ LET opened == eddy_open_dir(saved)
     IN  IF opened.ok
         THEN /\ session' = "running"
              /\ \E args \in Arguments :
                   Becomes(Started(OpenArguments(opened.slots, args)))
         ELSE session' = "fatal" /\ UNCHANGED editor

Buttons == {"Yes", "No", "Cancel"}

Next ==
  \/ \E n \in Name : OpenFile(n)
  \/ editor_cmd_switch_buffer
  \/ editor_cmd_close_view
  \/ \E t \in Text : Edit(t)
  \/ \E n \in Name \cup {NoName} : Save(n)
  \/ eddy_on_draw
  \/ editor_cmd_close_buffer
  \/ eddy_cmd_quit
  \/ \E button \in Buttons : AnswerClose(button)
  \/ \E button \in Buttons \ {"Cancel"} : AnswerQuit(button)
  \/ eddy_cmd_force_quit
  \/ Killed
  \/ Restart

Spec == Init /\ [][Next]_vars

(* The behaviours in which no buffer is zeroed while its view is current, and  *)
(* those in which, moreover, no buffer gets the view of a hole.                *)
NoZeroSpec == Init /\ [][Next /\ misstep' # "zeroed"]_vars
SteadySpec == Init /\ [][Next /\ misstep' = "none"]_vars

-----------------------------------------------------------------------------
(* The tables hold what their types say, and a view's number is a hole or an   *)
(* entry of the table of buffers.                                              *)
TypeOK ==
  /\ session \in {"running", "quit", "killed", "fatal"}
  /\ sessions \in Nat
  /\ slots \in Seq(Slot)
  /\ views \in Seq(0 .. Len(slots))
  /\ current \in Nat \ {0}
  /\ prompt \in {"none", "close", "quit"}
  /\ misstep \in {"none", "hole", "zeroed"}
  /\ saved \in Seq(Name)
  /\ disk \in [Name -> Text \cup {Missing}]

(* What every command of the editor and every redraw relies on without a test  *)
(* (elements + current_buffer, elements + view->buffer_num, and editor.c:641,   *)
(* assert(view->cursor_pos.y < buffer->lines.size)): the current view is in the *)
(* table, shows a buffer, and that buffer has lines or will be indexed by the   *)
(* next frame; through closings that leave holes and entries that are reused.   *)
CurrentViewUsable ==
  session = "running" =>
    /\ current \in DOMAIN views
    /\ Shown \in DOMAIN slots
    /\ slots[Shown].lines \/ slots[Shown].indexed # slots[Shown].version

StoredIn(d, n) == IF n = NoName \/ d[n] = Missing THEN Empty ELSE d[n]

\* Entry b of the table stops holding its document.
Forgets(b) == b \in DOMAIN slots' /\ slots'[b] = Zeroed /\ slots[b] # Zeroed

InSession == session = "running" /\ session' = "running"

(* Text that is not on disk leaves the editor, within a session, only when the  *)
(* user answered a question.                                                    *)
NothingLostUnasked ==
  [][InSession /\ (\E b \in DOMAIN slots :
                     Forgets(b) /\ slots[b].text # StoredIn(disk, slots[b].name))
       => prompt = "close"]_vars

(* A named document that is closed is on disk as it was in the editor, whether  *)
(* the question was asked or not, and whichever view became current in between. *)
ClosedIsOnDisk ==
  [][InSession => \A b \in DOMAIN slots :
       Forgets(b) /\ slots[b].name # NoName => StoredIn(disk', slots[b].name) = slots[b].text]_vars

NamesIn(ss) == {ss[b].name : b \in DOMAIN ss} \ {NoName}

(* A session that follows a quit has every document the last one had.           *)
SessionIsKept ==
  [][session = "quit" /\ session' = "running" => NamesIn(slots) \subseteq NamesIn(slots')]_vars

(* eddy.c:811, MUST(Buffer, eddy_open_buffer(e, f.string)): the files of the     *)
(* last session open.                                                           *)
SavedFilesOpen == session # "fatal"
=============================================================================
