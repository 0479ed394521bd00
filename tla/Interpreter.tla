----------------------------- MODULE Interpreter -----------------------------
(***************************************************************************)
(* The interpreter (scribble/src/scribble/execute.c, datum.c): a stack        *)
(* machine that runs the intermediate code of a program, and that the binder  *)
(* runs on every operator expression it binds, to fold constants.             *)
(*                                                                          *)
(* A variable is looked for in the innermost open scope only, and arguments   *)
(* are never given to parameters, so much of the language ends in an           *)
(* exception, a failed assertion or a fatal error.  missteps collects what     *)
(* goes wrong in silence:                                                    *)
(*   "case": a ternary goes on into its second branch after the first;        *)
(*   "cast": a cast leaves the value as it is;                               *)
(*   "range": a range is assigned from two values, of which one is there;     *)
(*   "scope": a jump leaves a scope without closing it;                       *)
(*   "debris": an operand is what a call has left on the stack, its arguments  *)
(*     or a result that nobody wanted;                                       *)
(*   "silent": an exception in a called function ends the program as if main  *)
(*     had returned.                                                        *)
(***************************************************************************)
EXTENDS Meaning

CONSTANTS
  Sources,    \* the programs, each a function from names to bound functions
  Folded,     \* operator expressions, as the binder has them evaluated
  MaxStack    \* runs whose data stack is deeper are not followed

ASSUME InterpreterAssumption ==
  /\ MaxStack \in Nat
  /\ \A s \in DOMAIN Sources : "main" \in DOMAIN Sources[s]

VARIABLES
  source,     \* which of the programs, or of the expressions, is run
  folding,    \* whether it is an expression
  frames,     \* calls of execute_function under way: code, position, open scopes
  stack,      \* the data stack; its top is the last element
  out,        \* what the native function was given
  outcome,    \* "running", or how the run ended and with what
  missteps

vars == <<source, folding, frames, stack, out, outcome, missteps>>

-----------------------------------------------------------------------------
(* Data.  A datum of a primitive type has a number, one of a range its two       *)
(* components, a pointer a variable and the components selected of it.  debris    *)
(* marks, for the missteps, what should no longer be on the stack.                *)

Datum(type, value) == [type |-> type, value |-> value, debris |-> FALSE]
Debris(d) == [d EXCEPT !.debris = TRUE]
ErrorDatum == Datum("error", 0)
Integral(d) == d.type \in {"int", "byte"}

datum_allocate(type) ==
  Datum(type, IF type = "range" THEN <<Datum("int", 0), Datum("int", 0)>> ELSE 0)

datum_stack_pop(s) == IF s = <<>> THEN ErrorDatum ELSE Last(s)
Below(s) == IF s = <<>> THEN s ELSE Front(s)

Got(d) == [fine |-> TRUE, datum |-> d]
Dies == [fine |-> FALSE]  \* an assertion or fatal()

datum_EQUALS(d1, d2) == Flag(d1.value = d2.value)
datum_LESS(d1, d2) == Flag(Ordinal(d1.type, d1.value) < Ordinal(d2.type, d2.value))

\* Mutant: not (d1 <= d2) without the test for equality.
LessEqualsStrict(d1, d2) == datum_LESS(d1, d2)

datum_LESS_EQUALS(d1, d2) ==
  IF datum_EQUALS(d1, d2) = 1 THEN 1 ELSE datum_LESS(d1, d2)

datum_RANGE(d1, d2) ==
  IF Integral(d1) /\ datum_LESS_EQUALS(d1, d2) = 1
  THEN Got(Datum("range", <<d1, d2>>)) ELSE Dies

(* What C leaves undefined is not followed: a divisor of 0, the quotient that does   *)
(* not fit, a shift of the width of an int or more.                                *)
Undefined(operator, d1, d2) ==
  \/ operator \in {"DIVIDE", "MODULO"} /\ d2.value = 0
  \/ operator \in {"DIVIDE", "MODULO"} /\ d1.type = "int" /\ Signed(d1.value) = -2 ^ (WordBits - 1)
     /\ Signed(d2.value) = -1
  \/ operator \in {"BIT_SHIFT_LEFT", "BIT_SHIFT_RIGHT"} /\ d2.value >= WordBits

IntegerOf(operator, d1, d2) ==
  LET m == Ordinal(d1.type, d1.value)
      n == Ordinal(d2.type, d2.value)
  IN CASE operator = "ADD" -> m + n
       [] operator = "SUBTRACT" -> m - n
       [] operator = "MULTIPLY" -> m * n
       [] operator = "DIVIDE" -> Quotient(m, n)
       [] operator = "MODULO" -> m - n * Quotient(m, n)
       [] operator = "BITWISE_AND" -> d1.value & d2.value
       [] operator = "BITWISE_OR" -> d1.value | d2.value
       [] operator = "BITWISE_XOR" -> d1.value ^^ d2.value
       [] operator = "BIT_SHIFT_LEFT" -> m * 2 ^ n
       [] operator = "BIT_SHIFT_RIGHT" -> m \div 2 ^ n

FlagOf(operator, d1, d2) ==
  CASE operator = "EQUALS" -> datum_EQUALS(d1, d2)
    [] operator = "NOT_EQUALS" -> 1 - datum_EQUALS(d1, d2)
    [] operator = "LESS" -> datum_LESS(d1, d2)
    [] operator = "LESS_EQUALS" -> datum_LESS_EQUALS(d1, d2)
    [] operator = "GREATER" -> 1 - datum_LESS_EQUALS(d1, d2)
    [] operator = "GREATER_EQUALS" -> 1 - datum_LESS(d1, d2)

datum_binary(operator, d1, d2) ==
  CASE operator = "RANGE" -> datum_RANGE(d1, d2)
    [] operator \in Relational ->
         IF Integral(d1) \/ d1.type = "bool" THEN Got(Datum("bool", FlagOf(operator, d1, d2)))
         ELSE Dies
    [] OTHER ->
         IF d1.type = "bool" /\ operator \in {"BITWISE_AND", "BITWISE_OR", "BITWISE_XOR"}
         THEN Got(Datum("bool", IntegerOf(operator, d1, d2)))
         ELSE IF Integral(d1) /\ ~Undefined(operator, d1, d2)
         THEN Got(Datum(d1.type, Wrap(d1.type, IntegerOf(operator, d1, d2))))
         ELSE Dies

SameTypes(operator, d1, d2) ==  \* the assertion, which the shifts do without
  d1.type = d2.type \/ operator \in {"BIT_SHIFT_LEFT", "BIT_SHIFT_RIGHT"}

datum_apply(d1, operator, d2) ==
  IF SameTypes(operator, d1, d2) THEN datum_binary(operator, d1, d2) ELSE Dies

\* Mutant: a negative number is not cut to the width of its type.
UnaryUncut(operator, d) ==
  IF operator = "NEGATE" THEN Got(Datum(d.type, -d.value)) ELSE Got(d)

datum_unary(operator, d) ==
  CASE operator = "IDENTITY" -> Got(d)
    [] operator = "NEGATE" ->  \* integer_negate asserts a signed type
         IF d.type = "int" THEN Got(Datum("int", Wrap("int", -d.value))) ELSE Dies
    [] operator = "BITWISE_INVERT" ->
         IF Integral(d) THEN Got(Datum(d.type, Wrap(d.type, -d.value - 1)))
         ELSE IF d.type = "bool" THEN Got(Datum("bool", 1 - d.value)) ELSE Dies
    [] operator = "LOGICAL_INVERT" ->
         IF d.type = "bool" THEN Got(Datum("bool", 1 - d.value)) ELSE Dies

-----------------------------------------------------------------------------
(* Scopes and calls.                                                            *)

frame == Last(frames)
op == frame.ops[frame.ix]
scope == Last(frame.scopes)  \* the variables of the innermost scope

Entering(ops, parameters, s) ==
  [ops |-> ops, ix |-> 1, base |-> Len(s) - Len(parameters),
   scopes |-> <<[i \in DOMAIN parameters |->
                   [name |-> parameters[i][1], value |-> datum_allocate(parameters[i][2])]]>>]

(* Where the name is declared in the scope, or 0.                                *)
scope_variable(variables, name) ==
  LET places == {i \in DOMAIN variables : variables[i].name = name}
  IN IF places = {} THEN 0 ELSE Min(places)

Positions(label) == {i \in DOMAIN frame.ops : frame.ops[i] = Label(label)}

(* How many scopes of the function are open where its code is at.                 *)
OpenScopes(at) ==
  LET Count(name) == Cardinality({i \in 1 .. at - 1 : frame.ops[i].op = name})
  IN 1 + Count("SCOPE_BEGIN") - Count("SCOPE_END")

-----------------------------------------------------------------------------
(* How an operation ends: NIP_NEXT, a label, a return, an exception or the end    *)
(* of the process.                                                              *)

InFrame(f) == [frames EXCEPT ![Len(frames)] = f]

(* How many data the operation pops, as far as calls may have buried them.         *)
Pops ==
  CASE op.op \in {"BINARY_OPERATOR", "WHEN", "END_CASE", "POP_VALUE"} -> 2
    [] op.op \in {"UNARY_OPERATOR", "JUMP_F", "CASE"} -> 1
    [] op.op = "CALL" /\ ~folding -> IF Sources[source][op.name].native
                                    THEN Len(Sources[source][op.name].parameters) ELSE 0
    [] OTHER -> 0

TakesDebris(n) == \E i \in DOMAIN stack : i > Len(stack) - n /\ stack[i].debris

Missing(m) ==
  missteps' = missteps \cup m \cup IF TakesDebris(Pops) THEN {"debris"} ELSE {}

Advance(f, s) ==
  /\ frames' = InFrame([f EXCEPT !.ix = @ + 1])
  /\ stack' = s
  /\ UNCHANGED <<out, outcome>>

NipNext(s) == Advance(frame, s) /\ Missing({})

(* What execute() and evaluate_function() make of the last datum.                 *)
Ended(how, s) ==
  /\ frames' = <<>>
  /\ stack' = s
  /\ outcome' = [how |-> how, datum |-> datum_stack_pop(s)]
  /\ UNCHANGED out

Dead == Ended("dead", <<>>) /\ Missing({})

NipException(s) ==
  IF Len(frames) = 1 THEN Ended("exception", s) /\ Missing({})
  ELSE Ended("done", s) /\ Missing({"silent"})

NipLabel(label, s) ==
  IF Positions(label) = {} THEN Dead
  ELSE LET at == Min(Positions(label))
       IN /\ Advance([frame EXCEPT !.ix = at - 1], s)
          /\ Missing(IF Len(frame.scopes) = OpenScopes(at) THEN {} ELSE {"scope"})

FunctionReturn ==
  LET caller == frames[Len(frames) - 1]
      kept == Len(stack) - IF caller.ops[caller.ix].discard THEN 0 ELSE 1
  IN IF Len(frames) = 1
     THEN /\ Ended("done", stack)
          /\ missteps' = missteps \cup IF TakesDebris(1) THEN {"debris"} ELSE {}
     ELSE /\ frames' = [Front(frames) EXCEPT ![Len(frames) - 1].ix = @ + 1]
          /\ stack' = [i \in DOMAIN stack |->
                         IF i > frame.base /\ i <= kept THEN Debris(stack[i]) ELSE stack[i]]
          /\ UNCHANGED <<out, outcome, missteps>>

(* NIP_POP_AND_CHECK                                                            *)
Checked(s) == datum_stack_pop(s).type # "error"
CheckedTwo(s) == Checked(s) /\ Checked(Below(s))

-----------------------------------------------------------------------------
(* The operations.                                                              *)

Init ==
  /\ folding \in BOOLEAN
  /\ source \in IF folding THEN DOMAIN Folded ELSE DOMAIN Sources
  /\ frames = <<Entering(IF folding THEN ExpressionCode(Folded[source])
                         ELSE FunctionCode(Sources[source].main), <<>>, <<>>)>>
  /\ stack = <<>>
  /\ out = <<>>
  /\ outcome = [how |-> "running"]
  /\ missteps = {}

Operation(name) ==
  /\ outcome.how = "running"
  /\ Len(stack) <= MaxStack
  /\ frame.ix \in DOMAIN frame.ops
  /\ op.op = name
  /\ UNCHANGED <<source, folding>>

BinaryOperator ==
  /\ Operation("BINARY_OPERATOR")
  /\ LET s == Below(Below(stack))
         r == datum_apply(datum_stack_pop(Below(stack)), op.operator, datum_stack_pop(stack))
     IN IF ~CheckedTwo(stack) THEN NipException(s)
        ELSE IF ~r.fine THEN Dead
        ELSE NipNext(Append(s, r.datum))

UnaryOperator ==
  /\ Operation("UNARY_OPERATOR")
  /\ LET r == datum_unary(op.operator, datum_stack_pop(stack))
     IN IF ~Checked(stack) THEN NipException(stack)
        ELSE IF ~r.fine THEN Dead
        ELSE NipNext(Append(Below(stack), r.datum))

NativeArguments(s, n) == [i \in 1 .. n |-> datum_stack_pop(SubSeq(s, 1, Len(s) - (i - 1)))]

(* native_call: a native function gets integers only, and nothing for the rest.   *)
Passed(arguments) ==
  LET numbers == SelectSeq(arguments, Integral)
  IN IF numbers = <<>> THEN 0 ELSE numbers[1].value

Call ==
  /\ Operation("CALL")
  /\ IF folding THEN NipException(stack)
     ELSE LET f == Sources[source][op.name]
              n == Len(f.parameters)
          IN IF f.native
             THEN /\ frames' = InFrame([frame EXCEPT !.ix = @ + 1])
                  /\ stack' = Append(SubSeq(stack, 1, Len(stack) - n),
                                     [datum_allocate(f.type) EXCEPT !.debris = op.discard])
                  /\ out' = Append(out, Passed(NativeArguments(stack, n)))
                  /\ Missing({})
                  /\ UNCHANGED outcome
             ELSE /\ frames' = Append(frames, Entering(FunctionCode(f), f.parameters, stack))
                  /\ UNCHANGED <<stack, out, outcome, missteps>>

Case ==
  /\ Operation("CASE")
  /\ IF Checked(stack) THEN NipNext(Append(stack, datum_stack_pop(stack))) ELSE NipException(stack)

Cast ==
  /\ Operation("CAST")
  /\ Advance(frame, stack)
  /\ Missing(IF datum_stack_pop(stack).type = op.type THEN {} ELSE {"cast"})

(* A name the scope has already keeps its variable and its value, unless it is   *)
(* that of the last variable, which is not looked at.  The exception compares    *)
(* with op->sv, which no declaration sets, and is never raised.                  *)
DeclareVariable ==
  /\ Operation("DECL_VAR")
  /\ Missing({})
  /\ IF scope_variable(Below(scope), op.name) # 0 THEN Advance(frame, stack)
     ELSE Advance([frame EXCEPT !.scopes[Len(frame.scopes)] =
                     Append(@, [name |-> op.name, value |-> datum_allocate(op.type)])], stack)

EndCase ==
  /\ Operation("END_CASE")
  /\ IF ~CheckedTwo(stack) THEN NipException(stack)
     ELSE /\ Advance(frame, Append(Below(Below(stack)), datum_stack_pop(stack)))
          /\ Missing(IF op.label = 0 THEN {} ELSE {"case"})

Jumping == Operation("JUMP") /\ NipLabel(op.label, stack)

JumpIfFalse(s) ==
  LET cond == datum_stack_pop(s)
  IN IF ~Checked(s) THEN NipException(s)
     ELSE IF cond.type # "bool" THEN Dead
     ELSE IF cond.value = 0 THEN NipLabel(op.label, Below(s))
     ELSE NipNext(Below(s))

JumpF == Operation("JUMP_F") /\ JumpIfFalse(stack)

(* LABEL, MATCH and END_MATCH do nothing.                                        *)
Nothing == \E name \in {"LABEL", "MATCH", "END_MATCH"} : Operation(name) /\ NipNext(stack)

When ==
  /\ Operation("WHEN")
  /\ LET match_value == datum_stack_pop(Below(stack))
         r == datum_apply(match_value, "EQUALS", datum_stack_pop(stack))
     IN IF ~CheckedTwo(stack) THEN NipException(stack)
        ELSE IF ~r.fine THEN Dead
        ELSE JumpIfFalse(Append(Below(Below(stack)), r.datum))

(* _pointer_assign, to a variable as a whole: what is done to d and to the stack. *)
Assigned(d, s) ==
  IF d.type = "range"
  THEN [fine |-> TRUE, stack |-> Below(Below(s)),
        datum |-> Datum("range", <<datum_stack_pop(Below(s)), datum_stack_pop(s)>>)]
  ELSE [fine |-> d.type = datum_stack_pop(s).type, stack |-> Below(s),
        datum |-> datum_stack_pop(s)]

PopValue ==
  /\ Operation("POP_VALUE")
  /\ LET at == datum_stack_pop(stack).value.variable
         to == datum_stack_pop(stack).value.scope
         assigned == Assigned(frame.scopes[to][at].value, Below(stack))
     IN IF ~assigned.fine THEN Dead
        ELSE /\ Advance([frame EXCEPT !.scopes[to][at].value = assigned.datum], assigned.stack)
             /\ Missing(IF assigned.datum.type = "range" THEN {"range"} ELSE {})

PushConstant ==
  \/ Operation("PUSH_INT_CONSTANT") /\ NipNext(Append(stack, Datum(op.type, op.int)))
  \/ Operation("PUSH_BOOL_CONSTANT") /\ NipNext(Append(stack, Datum("bool", Flag(op.bool))))

(* _pointer_dereference: the data it pushes.                                     *)
Dereferenced(d, path) ==
  LET part == IF path = <<>> THEN d ELSE d.value[path[1] + 1]
  IN IF part.type = "range" THEN part.value ELSE <<part>>

PushValue ==
  /\ Operation("PUSH_VALUE")
  /\ LET p == datum_stack_pop(stack).value
         d == frame.scopes[p.scope][p.variable].value
     IN NipNext(Below(stack) \o Dereferenced(d, p.path))

PushVariableAddress ==
  /\ Operation("PUSH_VAR_ADDRESS")
  /\ LET at == scope_variable(scope, op.name)
     IN IF at = 0 THEN NipException(stack)
        ELSE NipNext(Append(stack, Datum("pointer",
               [scope |-> Len(frame.scopes), variable |-> at, path |-> <<>>])))

TakeComponent ==
  /\ Operation("SUBSCRIPT")
  /\ LET d == datum_stack_pop(stack)
     IN NipNext(Append(Below(stack), [d EXCEPT !.value.path = Append(@, op.component)]))

Return == Operation("RETURN") /\ FunctionReturn

ScopeBegin ==
  /\ Operation("SCOPE_BEGIN")
  /\ Advance([frame EXCEPT !.scopes = Append(@, <<>>)], stack)
  /\ Missing({})

\* Mutant: the scope of the function becomes current, whatever lies between.
ScopeEndToFunction ==
  /\ Operation("SCOPE_END")
  /\ Advance([frame EXCEPT !.scopes = SubSeq(@, 1, 1)], stack)
  /\ Missing({})

ScopeEnd ==
  /\ Operation("SCOPE_END")
  /\ IF Len(frame.scopes) = 1 THEN Dead
     ELSE Advance([frame EXCEPT !.scopes = Front(@)], stack) /\ Missing({})

EndOfCode ==
  /\ outcome.how = "running"
  /\ frame.ix > Len(frame.ops)
  /\ FunctionReturn
  /\ UNCHANGED <<source, folding>>

Next ==
  \/ BinaryOperator \/ UnaryOperator \/ Call \/ Case \/ Cast \/ DeclareVariable \/ EndCase
  \/ Jumping \/ JumpF \/ Nothing \/ When \/ PopValue \/ PushConstant \/ PushValue
  \/ PushVariableAddress \/ TakeComponent \/ Return \/ ScopeBegin \/ ScopeEnd \/ EndOfCode

Spec == Init /\ [][Next]_vars

-----------------------------------------------------------------------------
(* Properties.                                                                *)

Primitive ==
  [type : {"int", "byte", "bool", "void", "error"}, value : 0 .. 2 ^ WordBits - 1,
   debris : BOOLEAN]

(* The data stack holds values of the language, and pointers only to variables of  *)
(* the function under way: a call never starts while one is on its way to or from  *)
(* a variable, or it would be followed in the wrong function.                      *)
TypeOK ==
  /\ folding => out = <<>> /\ Len(frames) <= 1
  /\ outcome.how \in {"running", "done", "exception", "dead"}
  /\ outcome.how # "running" => frames = <<>>
  /\ missteps \subseteq {"case", "cast", "range", "scope", "debris", "silent"}
  /\ \A i \in DOMAIN stack :
       \/ stack[i] \in Primitive
       \/ stack[i].type = "range"
       \/ /\ i = Len(stack) /\ stack[i].type = "pointer" /\ frames # <<>>
          /\ stack[i].value.scope = Len(frame.scopes)
          /\ stack[i].value.variable \in DOMAIN scope

(* Whatever the interpreter prints is what the program prints up to there, and      *)
(* when it ends as main should, everything was printed and the exit code is the     *)
(* right one; an expression is folded to its value.  Otherwise it has stopped with   *)
(* an exception or an error, or by one of the missteps.                            *)
NeverSaysElse ==
  outcome.how # "running" /\ missteps = {} =>
    IF folding
    THEN outcome.how = "done" /\ outcome.datum.type # "range" =>  \* a range stays as it is
           outcome.datum = Datum(Folded[source].type, Evaluate(<<>>, Folded[source], <<>>, <<>>).value)
    ELSE LET meaning == ProgramMeaning(Sources[source])
         IN /\ IsPrefix(out, meaning.out)
            /\ outcome.how = "done" => out = meaning.out /\ outcome.datum.value = meaning.exit

(* The scopes open at each operation, each named by where it begins.                *)
ScopesAt(code) ==
  FoldLeft(LAMBDA acc, i :
             Append(acc, CASE code[i].op = "SCOPE_BEGIN" -> Append(Last(acc), i)
                           [] code[i].op = "SCOPE_END" -> Front(Last(acc))
                           [] OTHER -> Last(acc)),
           <<<<0>>>>, [i \in DOMAIN code |-> i])

(* What the interpreter is up to: variables of the innermost scope only, no          *)
(* ternary, range, cast, division, shift or negated byte, and no jump out of a scope. *)
Plain(code) ==
  LET at == ScopesAt(code)
  IN \A i \in DOMAIN code :
       /\ code[i].op \notin {"MATCH", "CAST"} \cup IF folding THEN {"CALL"} ELSE {}
       /\ code[i].op = "BINARY_OPERATOR" =>
            /\ code[i].operator \notin {"RANGE", "DIVIDE", "MODULO", "BIT_SHIFT_LEFT", "BIT_SHIFT_RIGHT"}
            /\ code[i].lhs = "bool" => code[i].operator \in Relational
       /\ code[i].op = "UNARY_OPERATOR" => code[i].operator # "NEGATE" \/ code[i].operand = "int"
       /\ code[i].op = "PUSH_VAR_ADDRESS" =>
            \E j \in 1 .. i - 1 :
              code[j].op = "DECL_VAR" /\ code[j].name = code[i].name /\ at[j] = at[i]
       /\ code[i].op = "JUMP" =>
            \A j \in DOMAIN code : code[j] = Label(code[i].label) => at[j] = at[i]

PlainSource ==
  IF folding THEN Plain(ExpressionCode(Folded[source]))
  ELSE \A f \in DOMAIN Sources[source] : Plain(FunctionCode(Sources[source][f]))

(* A program that keeps to what the interpreter is up to runs to its end unless it     *)
(* takes debris for an operand, and a plain constant expression is folded: scopes are  *)
(* opened and closed in step with the code, across jumps, calls and returns.           *)
PlainCodeEnds ==
  /\ outcome.how # "running" /\ PlainSource =>
       (outcome.how = "done" /\ missteps = {}) \/ missteps = {"debris"}
=============================================================================
