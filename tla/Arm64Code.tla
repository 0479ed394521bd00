------------------------------ MODULE Arm64Code ------------------------------
(***************************************************************************)
(* The registers of the machine and the instructions arch/arm64 writes.      *)
(***************************************************************************)
EXTENDS Integers, Sequences, ScribbleTypes

CONSTANTS
  Scratch,    \* the numbers of the registers a callee may use
  Saved       \* of those a callee has to restore

ASSUME RegistersAssumption == Scratch \subseteq 9 .. 15 /\ Saved \subseteq 19 .. 28

X0 == 0
ArgumentRegs == 0 .. 7
FP == 29
LR == 30
SP == 31

Registers == ArgumentRegs \cup Scratch \cup Saved \cup {FP, LR, SP}

-----------------------------------------------------------------------------
(* Instructions; d is the register written, s those read.                      *)

Mov(d, s) == [i |-> "mov", d |-> d, s |-> s]
MovImmediate(d, v) == [i |-> "movi", d |-> d, v |-> v]
Alu(operator, type, d, l, r) ==
  [i |-> "alu", operator |-> operator, type |-> type, d |-> d, s |-> <<l, r>>]
AluUnary(operator, d, s) == [i |-> "alu1", operator |-> operator, d |-> d, s |-> s]  \* neg, mvn
Narrow(type, d, s) == [i |-> "narrow", type |-> type, d |-> d, s |-> s]  \* and d,s,#mask
Ldr(d, offset, type) == [i |-> "ldr", d |-> d, offset |-> offset, size |-> SizeOf(type)]  \* from [fp,#offset]
Str(s, offset, type) == [i |-> "str", s |-> s, offset |-> offset, size |-> SizeOf(type)]
PushRegs(rs) == [i |-> "push", s |-> rs]  \* stp, str [sp,#-16]!
PopRegs(rs) == [i |-> "pop", d |-> rs]  \* ldp, ldr [sp],16
LoadBelow(rs) == [i |-> "below", d |-> rs]  \* ldp, ldr [sp,#-16]!
AddSp(n) == [i |-> "addsp", n |-> n]
Bl(name) == [i |-> "bl", to |-> <<name, -1>>]
BlNative(name) == [i |-> "native", name |-> name]
B(label) == [i |-> "b", to |-> label]
Cbz(s, label) == [i |-> "cbz", s |-> s, to |-> label]
At(label) == [i |-> "label", at |-> label]
Ret == [i |-> "ret"]
=============================================================================
