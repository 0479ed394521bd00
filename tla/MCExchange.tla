------------------------------ MODULE MCExchange ------------------------------
(* The sessions the two programs start: main() of frontend_main.c with and     *)
(* without --execute, and scribble_cmd_execute of the editor.                  *)
EXTENDS Exchange

MCSessions ==
  {[handler |-> "frontend", stages |-> {"execute"}],
   [handler |-> "frontend", stages |-> {"generate"}],
   [handler |-> "eddy", stages |-> {"execute"}]}
=============================================================================
