--------------------------------- MODULE Rpc ---------------------------------
(***************************************************************************)
(* What the conversation between a Scribble backend and its frontend is for: *)
(* the backend asks, one question at a time; the frontend answers the        *)
(* question that was asked, once; the backend takes that answer.             *)
(***************************************************************************)
EXTENDS Naturals

CONSTANTS
  Questions, Answers,
  Answer(_, _),  \* what a handler answers to a question
  None

VARIABLES
  handler,  \* who answers
  asked,    \* the question that is open, or None
  reply,    \* the answer under way, or None
  over      \* one of the two has left

vars == <<handler, asked, reply, over>>

Init == asked = None /\ reply = None /\ over = FALSE

Ask ==
  /\ asked = None /\ asked' \in Questions
  /\ UNCHANGED <<handler, reply, over>>

Serve ==
  /\ asked # None /\ reply = None
  /\ reply' = Answer(handler, asked)
  /\ UNCHANGED <<handler, asked, over>>

Take ==
  /\ reply # None
  /\ asked' = None /\ reply' = None
  /\ UNCHANGED <<handler, over>>

(* Either may leave, also before the open question is answered.              *)
Leave ==
  /\ over' = TRUE
  /\ UNCHANGED <<handler, asked, reply>>

Next == Ask \/ Serve \/ Take \/ Leave

Spec == Init /\ [][Next]_vars
=============================================================================
