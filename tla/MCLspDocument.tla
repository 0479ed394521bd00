---------------------------- MODULE MCLspDocument ----------------------------
(* A watched file of two lines and a name to save it under.                   *)
EXTENDS LspDocument

CONSTANTS a, nl, sp, file_c, copy_c

MCChar == {a, nl, sp}
MCInsertions == {<<nl>>}
MCReplacements == {<<a>>}
MCNone == {}
MCName == {file_c, copy_c}
MCWatched == {file_c}
MCDisk == [n \in MCName |-> IF n = file_c THEN <<a>> ELSE Missing]
MCOneName == {file_c}
MCOneDisk == [n \in MCOneName |-> <<a>>]

(* No step reads what the listeners were given before it, so two states that   *)
(* differ only there have the same successors.                                *)
Unread == <<alive, slot, text, history, version, savedVersion, index, disk,
            viewed, uri, uriFreed, server, openCount, told>>
=============================================================================
