-------------------------------- MODULE Arm64 --------------------------------
(***************************************************************************)
(* The ARM64 back end (scribble/src/arch/arm64): from the intermediate code  *)
(* of the functions of a program to instructions.                            *)
(*                                                                          *)
(* A function is generated in two passes.  The first, Declared, walks its     *)
(* operations and gives every parameter and local variable its slot of the    *)
(* frame.  The second handles the operations one by one.  It keeps a stack    *)
(* that says where each value of the expression under way is, and the set of  *)
(* registers it has handed out.                                              *)
(*                                                                          *)
(* missteps collects what the code is known to get wrong in the program:      *)
(*   "saved": a function other than main uses a register it must restore, and *)
(*     restores it from below the stack pointer;                             *)
(*   "early": a name is taken for a variable declared later in that scope;    *)
(*   "unary": neg and mvn are not cut to the width, and neg gives up the      *)
(*     register it has its result in.                                        *)
(***************************************************************************)
EXTENDS Arm64Code, FiniteSets, FiniteSetsExt, SequencesExt

CONSTANTS
  Sources,    \* the programs, each a function from names to bound functions
  Operations  \* the intermediate code of the functions of each program

(* How deep in blocks the code is after each operation.                          *)
Nesting(operations) ==
  LET nesting[k \in 0 .. Len(operations)] ==
        IF k = 0 THEN 0
        ELSE CASE operations[k].op = "SCOPE_BEGIN" -> nesting[k - 1] + 1
               [] operations[k].op = "SCOPE_END" -> nesting[k - 1] - 1
               [] OTHER -> nesting[k - 1]
  IN nesting

(* The code of a function is one block, from its first operation to its last,     *)
(* and a CASE is followed by the value it compares with and the comparison.        *)
WellFormed(operations) ==
  /\ Len(operations) \in Nat \ {0} /\ DOMAIN operations = 1 .. Len(operations)
  /\ operations[1].op = "SCOPE_BEGIN"
  /\ \A k \in DOMAIN operations : Nesting(operations)[k] > 0 <=> k < Len(operations)
  /\ \A k \in DOMAIN operations :
       /\ operations[k].op = "DECL_VAR" =>
            operations[k].name \in STRING /\ operations[k].type \in Types
       /\ operations[k].op = "CASE" =>
            /\ k + 2 <= Len(operations)
            /\ operations[k + 1].op = "PUSH_BOOL_CONSTANT"
            /\ operations[k + 2].op = "WHEN"

Parameters(p) ==
  /\ Len(p) \in Nat /\ DOMAIN p = 1 .. Len(p)
  /\ \A k \in DOMAIN p : p[k][1] \in STRING /\ p[k][2] \in Types

(* What the binder and intermediate.c hand over.                                *)
ASSUME SourcesAssumption ==
  \A s \in DOMAIN Sources :
    /\ IsFiniteSet(DOMAIN Sources[s])
    /\ \A fn \in DOMAIN Sources[s] :
         /\ Parameters(Sources[s][fn].parameters)
         /\ ~Sources[s][fn].native =>
              /\ WellFormed(Operations[s][fn])
              /\ \A k \in DOMAIN Operations[s][fn] :
                   LET o == Operations[s][fn][k] IN o.op = "CALL" => o.name \in DOMAIN Sources[s]

VARIABLES
  source,     \* which of the programs is compiled
  todo,       \* functions still to be generated, the one under way first
  walk,       \* that function and how far the second pass has come, or <<>>
  gen,        \* what the pass knows of values and registers, and its code, or <<>>
  code,       \* the instructions so far
  outcome,    \* "generating", or how the compilation ended
  missteps

vars == <<source, todo, walk, gen, code, outcome, missteps>>

program == Sources[source]

-----------------------------------------------------------------------------
(* First pass.  A scope is named by the place of its SCOPE_BEGIN, the function's *)
(* own by 0.                                                                 *)

align_at(n, a) == ((n + a - 1) \div a) * a

(* parameters: each one pair of a name and a type; offset grows as += says.     *)
ParameterOffsets(parameters) ==
  LET offset[k \in 0 .. Len(parameters)] ==
        IF k = 0 THEN 0
        ELSE offset[k - 1] + align_at(offset[k - 1] + align_at(SizeOf(parameters[k][2]), 8), 16)
  IN offset

FunctionScope(parameters) ==
  [up |-> -1, around |-> {0}, offset |-> 0,
   depth |-> ParameterOffsets(parameters)[Len(parameters)],
   variables |-> [k \in DOMAIN parameters |->
                    [name |-> parameters[k][1], type |-> parameters[k][2],
                     offset |-> ParameterOffsets(parameters)[k], at |-> 0]]]

(* around: the scope and those around it, the chain of up.                      *)
NewScope(acc, at, offset) ==
  [up |-> acc.scope, around |-> acc.scopes[acc.scope].around \cup {at}, offset |-> offset,
   depth |-> 0, variables |-> <<>>]

DeclareVar(acc, at, op) ==
  LET s == acc.scopes[acc.scope]
      depth == s.depth + align_at(SizeOf(op.type), 16)
      v == [name |-> op.name, type |-> op.type, offset |-> s.offset + depth, at |-> at]
  IN [acc EXCEPT !.scopes[acc.scope] =
        [s EXCEPT !.depth = depth, !.variables = Append(s.variables, v)]]

Nested(acc, at, offset) ==
  [acc EXCEPT !.scope = at,
              !.scopes = [s \in DOMAIN acc.scopes \cup {at} |->
                            IF s = at THEN NewScope(acc, at, offset) ELSE acc.scopes[s]]]

\* Mutant: a nested scope starts where the one around it does.
BeginScopeOnTop(acc, at) == Nested(acc, at, acc.scopes[acc.scope].offset)

BeginScope(acc, at) ==
  LET s == acc.scopes[acc.scope] IN Nested(acc, at, s.offset + s.depth)

EndScope(acc) ==
  LET s == acc.scopes[acc.scope]
  IN [acc EXCEPT !.scope = s.up,
                 !.stack_depth = IF s.offset + s.depth > @ THEN s.offset + s.depth ELSE @]

LayOut(acc, at, op) ==
  CASE op.op = "DECL_VAR" -> DeclareVar(acc, at, op)
    [] op.op = "SCOPE_BEGIN" -> BeginScope(acc, at)
    [] op.op = "SCOPE_END" -> EndScope(acc)
    [] OTHER -> acc

(* The layout after each operation.                                             *)
Layouts(function, operations) ==
  LET layout[k \in 0 .. Len(operations)] ==
        IF k = 0
        THEN [scope |-> 0, stack_depth |-> 0,
              scopes |-> [s \in {0} |-> FunctionScope(function.parameters)]]
        ELSE LayOut(layout[k - 1], k, operations[k])
  IN layout

Declared(function, operations) == Layouts(function, operations)[Len(operations)]

(* The variables a scope sees: the scope of each, and its place there.            *)
Visible(scopes, s) ==
  UNION {{<<t, i>> : i \in DOMAIN scopes[t].variables} : t \in scopes[s].around}

VariableAt(scopes, p) == scopes[p[1]].variables[p[2]]

(* The innermost scope's first.                                                 *)
variable_by_name(name) ==
  LET scopes == walk.frame.scopes
      named == {p \in Visible(scopes, walk.scope) : VariableAt(scopes, p).name = name}
      found == CHOOSE p \in named :
                 \A q \in named : q[1] < p[1] \/ (q[1] = p[1] /\ p[2] <= q[2])
  IN VariableAt(scopes, found)

-----------------------------------------------------------------------------
(* Where a value is.  keep is dont_release.                                     *)

Register(type, r) == [kind |-> "REGISTER", type |-> type, reg |-> r, keep |-> FALSE]
Pointer(type, offset) == [kind |-> "POINTER", type |-> type, offset |-> offset, keep |-> FALSE]
Immediate(v) == [kind |-> "IMMEDIATE", type |-> "bool", value |-> v, keep |-> FALSE]

InRegister(l) == l.kind = "REGISTER"

(* The next register to be handed out; NoRegister when there is none left.        *)
NoRegister == 0

NextFree(g) ==
  LET free == (Scratch \cup Saved) \ g.regs IN IF free = {} THEN NoRegister ELSE Min(free)

Hold(g, r) == [g EXCEPT !.regs = @ \cup {r}, !.callee_saved = @ \cup ({r} \cap Saved)]
Release(g, r) == [g EXCEPT !.regs = @ \ ({r} \ {NoRegister})]  \* fatal stays fatal
Emit(g, instructions) == [g EXCEPT !.code = @ \o instructions]
Push(g, l) == [g EXCEPT !.stack = <<l>> \o @]
Pop(g, n) == [g EXCEPT !.stack = SubSeq(@, n + 1, Len(@))]

(* code_copy, for the places that occur; from is given up unless it is kept.       *)
LoadTo(r, from) ==
  CASE from.kind = "POINTER" -> Ldr(r, from.offset, from.type)
    [] from.kind = "REGISTER" -> Mov(r, from.reg)
    [] from.kind = "IMMEDIATE" -> MovImmediate(r, from.value)

code_copy(g, to, from) ==
  LET value == NextFree(g)
      copied ==
        CASE to.kind = "REGISTER" -> Emit(g, <<LoadTo(to.reg, from)>>)
          [] to.kind = "POINTER" /\ from.kind = "IMMEDIATE" ->
               Release(Emit(Hold(g, value), <<LoadTo(value, from),
                                              Str(value, to.offset, from.type)>>), value)
          [] OTHER -> Emit(g, <<Str(from.reg, to.offset, from.type)>>)
  IN IF InRegister(from) /\ ~from.keep THEN Release(copied, from.reg) ELSE copied

Components(type) == IF type = "range" THEN <<"int", "int">> ELSE <<type>>

Component(l, index) ==
  Pointer(Components(l.type)[index + 1], l.offset + SizeOf("int") * index)

LoadComponent(g, from) ==
  LET to == Register(from.type, NextFree(g)) IN Push(code_copy(Hold(g, to.reg), to, from), to)

load_from_pointer(g, l) ==
  IF l.type = "range" THEN LoadComponent(LoadComponent(g, Component(l, 0)), Component(l, 1))
  ELSE LoadComponent(g, Component(l, 0))

StoreComponent(g, to) == code_copy(Pop(g, 1), to, Head(g.stack))

(* The values come off the stack last component first.                            *)
store_to_pointer(g, l) ==
  IF l.type = "range" THEN StoreComponent(StoreComponent(g, Component(l, 1)), Component(l, 0))
  ELSE StoreComponent(g, Component(l, 0))

-----------------------------------------------------------------------------
(* Around the body of a function.                                               *)

arm64function_enter(f) ==
  [k \in DOMAIN f.scopes[0].variables |->
     LET p == f.scopes[0].variables[k] IN Str(k - 1, f.stack_depth - p.offset, p.type)]

(* Registers in twos, as they come; the last one may be alone.                     *)
Pairs(rs) ==
  [k \in 1 .. (Len(rs) + 1) \div 2 |-> SubSeq(rs, 2 * k - 1, Min({2 * k, Len(rs)}))]

Prolog(w, g) ==
  LET saved == Pairs(SetToSortSeq(g.callee_saved, <))
  IN <<At(<<w.fn, -1>>), PushRegs(<<FP, LR>>), AddSp(-w.frame.stack_depth), Mov(FP, SP)>>
     \o [k \in DOMAIN saved |-> PushRegs(saved[k])]

Epilog(w, g) ==
  LET saved == Pairs(SetToSortSeq(g.callee_saved, >))
  IN <<At(<<w.fn, 0>>)>>
     \o [k \in DOMAIN saved |-> LoadBelow(Reverse(saved[k]))]
     \o <<Mov(SP, FP), AddSp(w.frame.stack_depth), PopRegs(<<FP, LR>>), Ret>>

Compiled == {fn \in DOMAIN program : ~program[fn].native}

Init ==
  /\ source \in DOMAIN Sources
  /\ todo = SetToSeq(Compiled)
  /\ walk = <<>> /\ gen = <<>>
  /\ code = <<>>
  /\ outcome = [how |-> "generating"]
  /\ missteps = {}

Generating == outcome.how = "generating"

EnterFunction ==
  /\ Generating /\ walk = <<>> /\ todo # <<>>
  /\ LET fn == Head(todo)
         ops == Operations[source][fn]
         frame == Declared(program[fn], ops)
     IN /\ walk' = [fn |-> fn, ops |-> ops, frame |-> frame, at |-> 1, scope |-> 0]
        /\ gen' = [stack |-> <<>>, matches |-> <<>>, regs |-> {}, callee_saved |-> {},
                   code |-> arm64function_enter(frame)]
  /\ UNCHANGED <<source, todo, code, outcome, missteps>>

LeaveFunction ==
  /\ Generating /\ walk # <<>> /\ walk.at > Len(walk.ops)
  /\ code' = code \o Prolog(walk, gen) \o gen.code \o Epilog(walk, gen)
  /\ walk' = <<>> /\ gen' = <<>>
  /\ todo' = Tail(todo)
  /\ missteps' =
       missteps \cup (IF walk.fn # "main" /\ gen.callee_saved # {} THEN {"saved"} ELSE {})
  /\ UNCHANGED <<source, outcome>>

-----------------------------------------------------------------------------
(* Second pass: one action per operation.  fine is what the code asserts; when   *)
(* that does not hold the compiler aborts, and without a register it gives up.    *)

Operation(name) ==
  /\ Generating /\ walk # <<>> /\ walk.at <= Len(walk.ops)
  /\ walk.ops[walk.at].op = name

op == walk.ops[walk.at]
top == Head(gen.stack)
Depth(n) == Len(gen.stack) >= n

GeneratedIn(scope, fine, g) ==
  LET ok == fine /\ NoRegister \notin g.regs
  IN /\ gen' = IF ok THEN g ELSE gen
     /\ walk' = IF ok THEN [walk EXCEPT !.at = @ + 1, !.scope = scope] ELSE walk
     /\ outcome' = IF ok THEN outcome ELSE [how |-> IF fine THEN "fatal" ELSE "abort"]
     /\ UNCHANGED <<source, todo, code>>

Generated(fine, g) == GeneratedIn(walk.scope, fine, g)

CodeLabel(label) == <<walk.fn, label>>

(* The right operand may be an immediate, and is moved to a register first.       *)
BinaryFine(lhs_type, rhs_type) ==
  /\ Depth(2)
  /\ InRegister(gen.stack[2]) /\ gen.stack[2].type = lhs_type
  /\ top.kind # "POINTER"
  /\ (IF InRegister(top) THEN top.type ELSE lhs_type) = rhs_type

\* Mutant: the left operand's register is given up even when it is to be kept.
ApplyBinaryKeepingNothing(g, operator, lhs_type) ==
  LET lhs == g.stack[2]
      r == g.stack[1]
      rhs == IF InRegister(r) THEN r ELSE Register(lhs_type, NextFree(g))
      g1 == IF InRegister(r) THEN Pop(g, 2) ELSE code_copy(Hold(Pop(g, 2), rhs.reg), rhs, r)
      result == NextFree(g1)
      g2 == Emit(Hold(g1, result), <<Alu(operator, lhs_type, result, lhs.reg, rhs.reg)>>)
  IN Push(Release(Release(g2, lhs.reg), rhs.reg),
          Register(IF operator \in Relational THEN "bool" ELSE lhs_type, result))

arm64operator_apply_binary(g, operator, lhs_type) ==
  LET lhs == g.stack[2]
      r == g.stack[1]
      rhs == IF InRegister(r) THEN r ELSE Register(lhs_type, NextFree(g))
      g1 == IF InRegister(r) THEN Pop(g, 2) ELSE code_copy(Hold(Pop(g, 2), rhs.reg), rhs, r)
      result == NextFree(g1)
      g2 == Emit(Hold(g1, result), <<Alu(operator, lhs_type, result, lhs.reg, rhs.reg)>>)
      g3 == IF lhs.keep THEN g2 ELSE Release(g2, lhs.reg)
      g4 == IF rhs.keep THEN g3 ELSE Release(g3, rhs.reg)
  IN Push(g4, Register(IF operator \in Relational THEN "bool" ELSE lhs_type, result))

BinaryOperator ==
  /\ Operation("BINARY_OPERATOR")
  /\ IF op.operator = "RANGE"
     THEN Generated(TRUE, gen)  \* both bounds stay on the stack
     ELSE Generated(BinaryFine(op.lhs, op.rhs), arm64operator_apply_binary(gen, op.operator, op.lhs))
  /\ UNCHANGED missteps

UnaryOperator ==
  /\ Operation("UNARY_OPERATOR")
  /\ LET result == NextFree(gen)
         g == Hold(gen, result)
         worked == Emit(g, <<AluUnary(op.operator, result, top.reg)>>)
         kept == IF op.operator = "NEGATE" THEN Release(worked, result) ELSE worked
     IN Generated(Depth(1) /\ InRegister(top) /\ top.type = op.operand,
          IF op.operator = "IDENTITY" THEN g
          ELSE Push(Pop(Release(kept, top.reg), 1), Register(op.operand, result)))
  /\ missteps' = missteps \cup (IF op.operator = "IDENTITY" THEN {} ELSE {"unary"})

(* The arguments go to x0, x1, ... and their registers are given up; what is      *)
(* still held then is pushed, before the moves, and popped after the call.         *)
arm64function_marshall_arguments(g, parameters) ==
  LET given == {k \in DOMAIN parameters : InRegister(g.stack[k])}
      regs == g.regs \ {g.stack[k].reg : k \in given}
      live == SetToSortSeq(regs \cap Scratch, <)
      moves == [k \in DOMAIN parameters |-> LoadTo(k - 1, g.stack[k])]
  IN Emit(Pop([g EXCEPT !.regs = regs], Len(parameters)),
          [k \in DOMAIN live |-> PushRegs(<<live[k]>>)] \o moves)

\* Mutant: what was pushed before the call comes back in the order it was pushed.
MarshallReturnInOrder(g, type, discard) ==
  LET live == SetToSortSeq(g.regs \cap Scratch, <)
      popped == Emit(g, [k \in DOMAIN live |-> PopRegs(<<live[k]>>)])
      target == Register(type, NextFree(g))
  IN IF discard THEN popped
     ELSE Push(code_copy(Hold(popped, target.reg), target, Register(type, X0)), target)

arm64function_marshall_return(g, type, discard) ==
  LET live == SetToSortSeq(g.regs \cap Scratch, >)
      popped == Emit(g, [k \in DOMAIN live |-> PopRegs(<<live[k]>>)])
      target == Register(type, NextFree(g))
  IN IF discard THEN popped
     ELSE Push(code_copy(Hold(popped, target.reg), target, Register(type, X0)), target)

Call ==
  /\ Operation("CALL")
  /\ LET called == program[op.name]
         parameters == called.parameters
         bl == IF called.native THEN BlNative(op.name) ELSE Bl(op.name)
     IN Generated(/\ Depth(Len(parameters))
                  /\ \A k \in DOMAIN parameters : gen.stack[k].type = parameters[k][2],
          arm64function_marshall_return(
            Emit(arm64function_marshall_arguments(gen, parameters), <<bl>>),
            called.type, op.discard))
  /\ UNCHANGED missteps

Case ==
  /\ Operation("CASE")
  /\ Generated(Depth(1), Push(Emit(gen, <<At(CodeLabel(op.label))>>), [top EXCEPT !.keep = TRUE]))
  /\ UNCHANGED missteps

(* The register of the expression is not given up.                               *)
Cast ==
  /\ Operation("CAST")
  /\ LET reg == NextFree(gen)
     IN Generated(Depth(1) /\ InRegister(top),
          Push(Pop(Emit(Hold(gen, reg), <<Narrow(op.type, reg, top.reg)>>), 1),
               Register(op.type, reg)))
  /\ UNCHANGED missteps

DeclareVariable ==
  /\ Operation("DECL_VAR")
  /\ Generated(TRUE, gen)
  /\ UNCHANGED missteps

EndCase ==
  /\ Operation("END_CASE")
  /\ LET g == code_copy(Pop(gen, 1), Head(gen.matches), top)
     IN Generated(Depth(1) /\ gen.matches # <<>> /\ top.type = Head(gen.matches).type,
          IF op.label = 0 THEN g ELSE Emit(g, <<B(CodeLabel(op.label))>>))
  /\ UNCHANGED missteps

(* The place of the match value is dropped, and its register with it.             *)
EndMatch ==
  /\ Operation("END_MATCH")
  /\ Generated(Depth(1) /\ gen.matches # <<>>,
       [Push(Pop(Emit(gen, <<At(CodeLabel(op.label))>>), 1), Head(gen.matches))
          EXCEPT !.matches = Tail(@)])
  /\ UNCHANGED missteps

JumpAlways ==
  /\ Operation("JUMP")
  /\ Generated(TRUE, Emit(gen, <<B(CodeLabel(op.label))>>))
  /\ UNCHANGED missteps

JumpIfFalse(g, label) ==
  LET l == Head(g.stack)
      reg == IF InRegister(l) THEN l.reg ELSE NextFree(g)
      loaded == IF InRegister(l) THEN Pop(g, 1)
                ELSE code_copy(Hold(Pop(g, 1), reg), Register("bool", reg), l)
  IN Release(Emit(loaded, <<Cbz(reg, CodeLabel(label))>>), reg)

JumpF ==
  /\ Operation("JUMP_F")
  /\ Generated(Depth(1) /\ top.kind # "POINTER" /\ top.type = "bool", JumpIfFalse(gen, op.label))
  /\ UNCHANGED missteps

LabelHere ==
  /\ Operation("LABEL")
  /\ Generated(TRUE, Emit(gen, <<At(CodeLabel(op.label))>>))
  /\ UNCHANGED missteps

Match ==
  /\ Operation("MATCH")
  /\ LET reg == NextFree(gen)
     IN Generated(TRUE, [Hold(gen, reg) EXCEPT !.matches = <<Register(op.type, reg)>> \o @])
  /\ UNCHANGED missteps

PopValue ==
  /\ Operation("POP_VALUE")
  /\ Generated(/\ Depth(1 + Len(Components(top.type)))
               /\ \/ top.type = "range"
                  \/ gen.stack[2].type = top.type,
       store_to_pointer(Pop(gen, 1), top))
  /\ UNCHANGED missteps

PushBoolConstant ==
  /\ Operation("PUSH_BOOL_CONSTANT")
  /\ Generated(TRUE, Push(gen, Immediate(Flag(op.bool))))
  /\ UNCHANGED missteps

PushIntConstant ==
  /\ Operation("PUSH_INT_CONSTANT")
  /\ LET result == Register(op.type, NextFree(gen))
     IN Generated(TRUE, Push(Emit(Hold(gen, result.reg), <<MovImmediate(result.reg, op.int)>>), result))
  /\ UNCHANGED missteps

PushValue ==
  /\ Operation("PUSH_VALUE")
  /\ Generated(Depth(1), load_from_pointer(Pop(gen, 1), top))
  /\ UNCHANGED missteps

PushVariableAddress ==
  /\ Operation("PUSH_VAR_ADDRESS")
  /\ LET v == variable_by_name(op.name)
     IN /\ Generated(TRUE, Push(gen, Pointer(v.type, walk.frame.stack_depth - v.offset)))
        /\ missteps' = missteps \cup (IF v.at > walk.at THEN {"early"} ELSE {})

Return ==
  /\ Operation("RETURN")
  /\ LET x0 == Register(program[walk.fn].type, X0)
     IN Generated(Depth(1) /\ top.type = x0.type,
          Emit(code_copy(Pop(gen, 1), x0, top), <<B(CodeLabel(0))>>))
  /\ UNCHANGED missteps

ScopeBegin ==
  /\ Operation("SCOPE_BEGIN")
  /\ GeneratedIn(walk.at, TRUE, gen)
  /\ UNCHANGED missteps

ScopeEnd ==
  /\ Operation("SCOPE_END")
  /\ GeneratedIn(walk.frame.scopes[walk.scope].up, TRUE, gen)
  /\ UNCHANGED missteps

TakeComponent ==
  /\ Operation("SUBSCRIPT")
  /\ Generated(Depth(1), Push(Pop(gen, 1), Component(top, op.component)))
  /\ UNCHANGED missteps

When ==
  /\ Operation("WHEN")
  /\ Generated(BinaryFine("bool", "bool"),
       JumpIfFalse(arm64operator_apply_binary(gen, "EQUALS", "bool"), op.label))
  /\ UNCHANGED missteps

Next ==
  \/ EnterFunction \/ LeaveFunction
  \/ BinaryOperator \/ UnaryOperator \/ Call \/ Case \/ Cast \/ DeclareVariable \/ EndCase
  \/ EndMatch \/ JumpAlways \/ JumpF \/ LabelHere \/ Match \/ PopValue \/ PushBoolConstant
  \/ PushIntConstant \/ PushValue \/ PushVariableAddress \/ Return \/ ScopeBegin \/ ScopeEnd
  \/ TakeComponent \/ When

Spec == Init /\ [][Next]_vars

-----------------------------------------------------------------------------
(* A value that waits in a register has that register to itself until it is used:  *)
(* it is not handed out again, and no two values share it but the one a CASE        *)
(* compares and keeps.                                                           *)
LocationsHeld ==
  gen # <<>> /\ "unary" \notin missteps =>
    LET places == gen.stack \o gen.matches
        held == {i \in DOMAIN places : InRegister(places[i])}
    IN \A i \in held :
         /\ places[i].reg \in gen.regs
         /\ \A j \in held :
              i < j /\ places[i].reg = places[j].reg => places[i].keep /\ j = i + 1

(* The variables that are declared and visible at a point have slots of the frame  *)
(* that lie in it and do not overlap, nested scopes and parameters included.        *)
SlotsApart ==
  walk # <<>> =>
    LET scopes == walk.frame.scopes
        depth == walk.frame.stack_depth
        seen == {p \in Visible(scopes, walk.scope) : VariableAt(scopes, p).at < walk.at}
        Slot(v) == depth - v.offset .. depth - v.offset + SizeOf(v.type) - 1
    IN /\ \A p \in seen : Slot(VariableAt(scopes, p)) \subseteq 0 .. depth - 1
       /\ \A p, q \in seen :
            p # q => Slot(VariableAt(scopes, p)) \cap Slot(VariableAt(scopes, q)) = {}
=============================================================================
