---------------------------- MODULE MCEditorViews ----------------------------
(* Two files that exist, named on the command line or not.                     *)
EXTENDS EditorViews

CONSTANTS file_f, file_g, other

MCName == {file_f, file_g}
MCText == {Empty, other}
MCBoth == [n \in MCName |-> other]
MCArguments == {<< >>, <<file_f, file_g>>}

(* Two sessions over two buffers and both files, and one session over three     *)
(* buffers and one file, which does not end.                                   *)
Room ==
  Len(slots) = 3 =>
    /\ sessions = 1 /\ session = "running"
    /\ file_g \notin NamesIn(slots) /\ disk[file_g] = other

(* SteadySpec within that room.                                                 *)
RoomySpec == Init /\ [][Next /\ misstep' = "none" /\ Room']_vars
=============================================================================
