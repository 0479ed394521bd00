---------------------------- MODULE Arm64Machine ----------------------------
(***************************************************************************)
(* The machine that runs the code of the ARM64 back end (Arm64Code).  Nothing *)
(* here is in the repository but the names.                                  *)
(*                                                                          *)
(* Memory is a function from the addresses that were written to what was     *)
(* stored there and its size; reading anything else gives Junk.              *)
(***************************************************************************)
EXTENDS Meaning, Arm64Code

Junk == -1

StackTop == 1024

(* The machine when the run-time has called the function at pc; a return to 0     *)
(* goes back there.                                                             *)
Reset(pc) == [pc |-> pc, mem |-> << >>, out |-> <<>>,
              regs |-> [r \in Registers |-> CASE r = SP -> StackTop [] r = LR -> 0 [] OTHER -> Junk]]

Store(mem, address, size, v) ==
  LET over == {a \in DOMAIN mem : a < address + size /\ address < a + mem[a].size}
  IN [a \in (DOMAIN mem \ over) \cup {address} |->
        IF a = address THEN [size |-> size, value |-> v] ELSE mem[a]]

Load(mem, address, size) ==
  IF address \in DOMAIN mem /\ mem[address].size = size THEN mem[address].value ELSE Junk

-----------------------------------------------------------------------------
Position(code, label) == CHOOSE p \in DOMAIN code : code[p] = At(label)

AluValue(ins, v) ==
  IF \E k \in 1 .. 2 : v[k] = Junk THEN Junk ELSE Calculate(ins.operator, ins.type, v[1], v[2])

(* neg and mvn work on all bits of the register.                                *)
AluUnaryValue(ins, v) == IF v = Junk THEN Junk ELSE CalculateUnary(ins.operator, "int", v)

(* The pair that is pushed as one lies at sp and sp+8.                           *)
Pushed(m, rs) ==
  LET sp == m.regs[SP] - 16
      first == Store(m.mem, sp, 8, m.regs[rs[1]])
  IN [m EXCEPT !.regs[SP] = sp,
               !.mem = IF Len(rs) = 2 THEN Store(first, sp + 8, 8, m.regs[rs[2]]) ELSE first]

Loaded(m, rs, address) ==
  [m EXCEPT !.regs = [r \in Registers |->
     IF \E k \in DOMAIN rs : rs[k] = r
     THEN Load(m.mem, address + 8 * ((CHOOSE k \in DOMAIN rs : rs[k] = r) - 1), 8)
     ELSE @[r]]]

(* A callee outside the program keeps what the calling convention says it keeps. *)
AfterNative(m) ==
  [m EXCEPT !.out = Append(@, m.regs[X0]),
            !.regs = [r \in Registers |-> IF r \in ArgumentRegs \cup Scratch \cup {LR} THEN Junk ELSE @[r]]]

Effect(code, m) ==
  LET ins == code[m.pc]
      R == m.regs
      n == [m EXCEPT !.pc = @ + 1]
  IN CASE ins.i = "mov" -> [n EXCEPT !.regs[ins.d] = R[ins.s]]
       [] ins.i = "movi" -> [n EXCEPT !.regs[ins.d] = ins.v]
       [] ins.i = "alu" -> [n EXCEPT !.regs[ins.d] = AluValue(ins, <<R[ins.s[1]], R[ins.s[2]]>>)]
       [] ins.i = "alu1" -> [n EXCEPT !.regs[ins.d] = AluUnaryValue(ins, R[ins.s])]
       [] ins.i = "narrow" ->
            [n EXCEPT !.regs[ins.d] = IF R[ins.s] = Junk THEN Junk ELSE Wrap(ins.type, R[ins.s])]
       [] ins.i = "ldr" -> [n EXCEPT !.regs[ins.d] = Load(m.mem, R[FP] + ins.offset, ins.size)]
       [] ins.i = "str" ->
            [n EXCEPT !.mem = Store(@, R[FP] + ins.offset, ins.size,
               IF ins.size = 1 /\ R[ins.s] # Junk THEN Wrap("byte", R[ins.s]) ELSE R[ins.s])]
       [] ins.i = "push" -> Pushed(n, ins.s)
       [] ins.i = "pop" -> [Loaded(n, ins.d, R[SP]) EXCEPT !.regs[SP] = R[SP] + 16]
       [] ins.i = "below" -> [Loaded(n, ins.d, R[SP] - 16) EXCEPT !.regs[SP] = R[SP] - 16]
       [] ins.i = "addsp" -> [n EXCEPT !.regs[SP] = @ + ins.n]
       [] ins.i = "bl" -> [n EXCEPT !.regs[LR] = n.pc, !.pc = Position(code, ins.to)]
       [] ins.i = "native" -> AfterNative(n)
       [] ins.i = "b" -> [n EXCEPT !.pc = Position(code, ins.to)]
       [] ins.i = "cbz" -> IF R[ins.s] = 0 THEN [n EXCEPT !.pc = Position(code, ins.to)] ELSE n
       [] ins.i = "label" -> n
       [] ins.i = "ret" -> [n EXCEPT !.pc = R[LR]]

RECURSIVE RunFrom(_, _, _)

(* The machine after that many instructions, or where it left the code.  It runs     *)
(* one half of them after the other, which keeps the recursion shallow.              *)
RunFrom(code, m, steps) ==
  IF m.pc \notin DOMAIN code THEN m
  ELSE IF steps = 1 THEN Effect(code, m)
  ELSE RunFrom(code, RunFrom(code, m, steps \div 2), steps - steps \div 2)
=============================================================================
