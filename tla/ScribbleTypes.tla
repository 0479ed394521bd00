---------------------------- MODULE ScribbleTypes ----------------------------
(***************************************************************************)
(* What the compiler, its back ends and the meaning of a program share: the  *)
(* types of values, their sizes in memory, and the operators that compare.    *)
(***************************************************************************)
EXTENDS Integers

Types == {"bool", "byte", "int", "range"}  \* a range is a pair of ints

SizeOf(type) == CASE type \in {"bool", "byte"} -> 1 [] type = "int" -> 4 [] type = "range" -> 8

Relational == {"LESS", "LESS_EQUALS", "GREATER", "GREATER_EQUALS", "EQUALS", "NOT_EQUALS"}

Flag(b) == IF b THEN 1 ELSE 0
=============================================================================
