--------------------------- MODULE MCEditorCursor ---------------------------
(* A letter, a pair of braces and newlines: texts that are empty, end in a     *)
(* newline, have lines of different lengths and braces inside braces.          *)
EXTENDS EditorCursor

MCTyped == {"a", "(", ")", "nl"}
MCBraces == {<<"(", ")">>}
MCClips == {<<"a", "nl">>}
MCInitialTexts == {<<>>, <<"(", "(", ")">>, <<"a", "nl", "nl">>}
MCOtherTexts == {<<>>, <<"a", "nl">>, <<"(", "nl", " ">>}
=============================================================================
