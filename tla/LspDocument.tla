------------------------------ MODULE LspDocument ------------------------------
(***************************************************************************)
(* A document and the language server's copy of it.  The mode's listener    *)
(* (c.c: c_mode_buffer_event_listener) turns what buffer_apply did into     *)
(* textDocument notifications; the server (external) keeps, per URI, the    *)
(* text it was told.  Notifications travel in order through one pipe, so    *)
(* the server is modelled as having read them all.                          *)
(*                                                                          *)
(* Edits come through a view, which editor_select_buffer makes, and a       *)
(* position is the (line, column) the line index gives for it: buffer_apply *)
(* computes it before the edit, from an index that may be older than the    *)
(* text.                                                                    *)
(***************************************************************************)
EXTENDS Buffer, FiniteSets

CONSTANTS
  Garbage,      \* a URI no document has
  NotOpen,      \* what the server holds for a document it was not told of
  MaxOpens      \* bound on how far didOpen and didClose get out of balance

ASSUME LspDocumentAssumption ==
  /\ Garbage \notin Name \cup {NoName}
  /\ NotOpen \notin Seq(Char)
  /\ MaxOpens \in Nat

VARIABLES
  viewed,       \* a BufferView shows the buffer
  uri,          \* buffer->uri, as the name it was made from; NoName when unset
  uriFreed,     \* the memory of buffer->uri was freed (the field is not reset)
  server,       \* [Name -> the server's text]
  openCount,    \* [Name -> didOpen notifications minus didClose]
  told          \* [Name -> the last version the server was given]

lspVars == <<viewed, uri, uriFreed, server, openCount, told>>
allVars == <<vars, lspVars>>

-----------------------------------------------------------------------------
(* Positions: the line is the last one that starts at or before the index,    *)
(* and the column counts from that start.                                     *)

StartsUpTo(starts, i) == {s \in starts : s <= i}
LastStart(starts, i) == CHOOSE s \in StartsUpTo(starts, i) :
                          \A r \in StartsUpTo(starts, i) : r <= s

buffer_index_to_position(starts, i) ==
  [line |-> Cardinality(StartsUpTo(starts, i)) - 1, column |-> i - LastStart(starts, i)]

\* Mutant: every position on the first line.
EventRangeFlat(starts, e) ==
  [start |-> [line |-> 0, column |-> e.position],
   end   |-> [line |-> 0, column |-> e.position + e.removed.length]]

EventRange(starts, e) ==
  [start |-> buffer_index_to_position(starts, e.position),
   end   |-> buffer_index_to_position(starts, e.position + e.removed.length)]

(* The server: a line beyond the last is the last, a column beyond its end is *)
(* its end.                                                                   *)
OffsetIn(t, p) ==
  LET starts == LinesOf(t).starts
      line   == IF p.line >= Cardinality(starts) THEN Cardinality(starts) - 1 ELSE p.line
      start  == CHOOSE s \in starts : Cardinality(StartsUpTo(starts, s)) = line + 1
      ends   == {e \in LinesOf(t).ends : e >= start}
      eol    == CHOOSE e \in ends : \A f \in ends : e <= f
  IN  IF start + p.column > eol THEN eol ELSE start + p.column

ChangedBy(t, range, sv) ==
  LET from == OffsetIn(t, range.start)
      to   == OffsetIn(t, range.end)
  IN  SubSeq(t, 1, from) \o sv \o SubSeq(t, (IF to < from THEN from ELSE to) + 1, Len(t))

-----------------------------------------------------------------------------
(* buffer_uri computes the URI when the field is empty; freed memory reads as *)
(* what it held or as something else.                                         *)

buffer_uri == IF uri = NoName THEN name ELSE uri
ReadUri == IF uriFreed THEN {uri, Garbage} ELSE {buffer_uri}

ToServer(u, t, count, v) ==
  IF u \in Name
  THEN /\ server' = [server EXCEPT ![u] = t]
       /\ openCount' = [openCount EXCEPT ![u] = @ + count]
       /\ openCount'[u] \in -MaxOpens .. MaxOpens
       /\ told' = [told EXCEPT ![u] = v]
  ELSE UNCHANGED <<server, openCount, told>>

TellNothing == UNCHANGED <<uri, server, openCount, told>>

lsp_on_open ==
  IF ~listening THEN TellNothing
  ELSE \E u \in ReadUri : uri' = buffer_uri /\ ToServer(u, text, 1, 0)

lsp_did_close ==
  /\ uri' = NoName
  /\ IF ~listening THEN UNCHANGED <<server, openCount, told>>
     ELSE \E u \in ReadUri : ToServer(u, NotOpen, -1, 0)

InsertedText(e) == IF e.type = "ETDelete" THEN << >>
                   ELSE buffer_sv_from_ref(undoBuffer', e.inserted)

lsp_did_change ==
  IF ~listening \/ applied'.type \notin EditType THEN TellNothing
  ELSE /\ uri' = buffer_uri
       /\ \E u \in ReadUri :
            IF u = Garbage \/ server[u] = NotOpen THEN UNCHANGED <<server, openCount, told>>
            ELSE ToServer(u, ChangedBy(server[u], EventRange(lines.starts, applied'),
                                       InsertedText(applied')), 0, version')

-----------------------------------------------------------------------------
LspInit ==
  /\ Init
  /\ viewed = FALSE
  /\ uri = NoName /\ uriFreed = FALSE
  /\ server = [n \in Name |-> NotOpen]
  /\ openCount = [n \in Name |-> 0]
  /\ told = [n \in Name |-> 0]

ChangeText ==
  /\ viewed
  /\ Edit \/ buffer_undo \/ buffer_redo
  /\ lsp_did_change
  /\ UNCHANGED <<viewed, uriFreed>>

(* A save under a given name frees buffer->uri and keeps the pointer; didSave  *)
(* does not change the server's copy, but computes the URI when there is none. *)
SaveDocument(fileName) ==
  /\ viewed
  /\ Save(fileName)
  /\ uriFreed' = (uriFreed \/ (applied'.type = "ETSave" /\ fileName # NoName /\ uri # NoName))
  /\ IF listening /\ applied'.type = "ETSave"
     THEN uri' = IF uri = NoName THEN name' ELSE uri
     ELSE UNCHANGED uri
  /\ UNCHANGED <<viewed, server, openCount, told>>

\* A view on a buffer that has none: the document is announced.
ViewBuffer ==
  /\ ~viewed
  /\ editor_select_buffer
  /\ viewed' = TRUE
  /\ lsp_on_open
  /\ UNCHANGED uriFreed

\* editor_cmd_close_view: the buffer stays, and nothing is sent.
CloseView ==
  /\ Ready /\ viewed
  /\ viewed' = FALSE
  /\ UNCHANGED <<vars, uri, uriFreed, server, openCount, told>>

CloseBuffer ==
  /\ viewed
  /\ buffer_close
  /\ viewed' = FALSE
  /\ uriFreed' = FALSE
  /\ lsp_did_close

\* The handler asks every buffer for its URI.
Diagnostics ==
  /\ eddy_publish_diagnostics_handler
  /\ uri' = buffer_uri
  /\ UNCHANGED <<viewed, uriFreed, server, openCount, told>>

Untold ==
  /\ \/ eddy_on_draw \/ eddy_load_theme \/ eddy_new_buffer
     \/ \E n \in Name : buffer_open(n) \/ BufferOpenFails(n)
  /\ UNCHANGED lspVars

LspNext ==
  \/ ChangeText
  \/ \E n \in Name \cup {NoName} : SaveDocument(n)
  \/ ViewBuffer
  \/ CloseView
  \/ CloseBuffer
  \/ Diagnostics
  \/ Untold

LspSpec == LspInit /\ [][LspNext]_allVars

(* The runs of the program in which every edit follows a redraw, so that the  *)
(* positions the server gets come from an index as old as the text, and in    *)
(* which no document is closed under a freed URI.                             *)
EditOfOldIndex == applied'.type \in EditType /\ indexedVersion # version
CloseUnderFreedUri == uriFreed /\ ~uriFreed'

PromptNext == LspNext /\ ~EditOfOldIndex /\ ~CloseUnderFreedUri

PromptSpec == LspInit /\ [][PromptNext]_allVars

-----------------------------------------------------------------------------
Announced == open /\ listening /\ ~uriFreed /\ uri # NoName /\ server[uri] # NotOpen

(* metaModel.json:4307 has each content change computed on the state the one  *)
(* before it left: the server's copy is the text of the buffer, through every *)
(* edit, undo, redo, save and reopening.  The runs of PromptSpec keep it.     *)
ServerMirrorsText == Announced => server[uri] = text
=============================================================================
