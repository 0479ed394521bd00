---------------------------- MODULE MCUndoHistory ----------------------------
(* One file, two edits deep, with replacements of one character by one or none. *)
EXTENDS UndoHistory

CONSTANTS a, nl, sp, file_c

MCChar == {a, nl, sp}
MCInsertions == {<<nl>>}
MCReplacements == {<<a>>, << >>}
MCName == {file_c}
MCDisk == [n \in MCName |-> <<a>>]
=============================================================================
