------------------------------ MODULE TextHistory ------------------------------
(***************************************************************************)
(* What an undo history promises, without references, buffers or pointers:  *)
(* every edit can be taken back, the latest first, and taking it back gives *)
(* the text as it was.                                                      *)
(***************************************************************************)
EXTENDS Integers, Sequences

CONSTANT Char

VARIABLES
  text,   \* the document
  past    \* the texts it went through, the latest last

hvars == <<text, past>>

Init == text = << >> /\ past = << >>

\* The document changes to another text, which can be undone.
Change ==
  /\ text' \in Seq(Char)
  /\ past' = Append(past, text)

Undo ==
  /\ past # << >>
  /\ text' = past[Len(past)]
  /\ past' = SubSeq(past, 1, Len(past) - 1)

\* An empty document without a past is given a text from elsewhere.
Load ==
  /\ text = << >> /\ past = << >>
  /\ text' \in Seq(Char)
  /\ UNCHANGED past

\* The document is given up.
Close == text' = << >> /\ past' = << >>

Next == Change \/ Undo \/ Load \/ Close

Spec == Init /\ [][Next]_hvars
=============================================================================
