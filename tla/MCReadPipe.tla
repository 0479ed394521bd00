------------------------------ MODULE MCReadPipe ------------------------------
(* Outputs of up to five bytes, read two at a time into a block of two.       *)
EXTENDS ReadPipe

MCAllClients == {"on_read", "cmake", "execute_pipe"}
MCExecutePipe == {"execute_pipe"}
=============================================================================
