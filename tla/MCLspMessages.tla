--------------------------- MODULE MCLspMessages ---------------------------
(* Every type of the schema, with the samples LspMessages makes of it.       *)
EXTENDS LspMessages
=============================================================================
