------------------------------- MODULE MCBuffer -------------------------------
(* A small instance of Buffer: one ordinary character, which is also the      *)
(* space, and the newline; two files of which one is watched by a mode.       *)
EXTENDS Buffer

CONSTANTS a, nl, watched_c, other_txt

MCChar == {a, nl}
MCInsertions == {<<nl>>}
MCReplacements == {<<nl>>, << >>}
MCName == {watched_c, other_txt}
MCWatched == {watched_c}
MCDisk == [n \in MCName |-> IF n = watched_c THEN <<a>> ELSE Missing]
=============================================================================
