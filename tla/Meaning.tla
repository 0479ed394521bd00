------------------------------- MODULE Meaning -------------------------------
(***************************************************************************)
(* What a Scribble program means: the numbers it prints and the value main   *)
(* returns, by structural recursion over the bound tree.  This is the         *)
(* reference both back ends are compared with.                               *)
(*                                                                          *)
(* Integers wrap at their width.  Arguments are evaluated last to first, the  *)
(* order that both back ends share.  A variable is the innermost one of its   *)
(* name that is declared at that point.                                       *)
(***************************************************************************)
EXTENDS Intermediate, FiniteSetsExt, Bitwise

CONSTANTS
  WordBits,   \* the width of an int
  ByteBits    \* the width of a byte

Bits(type) == IF type = "byte" THEN ByteBits ELSE WordBits

Wrap(type, v) == v % 2 ^ Bits(type)

(* An int is signed, a byte is not.                                            *)
Signed(v) == IF v >= 2 ^ (WordBits - 1) THEN v - 2 ^ WordBits ELSE v
Ordinal(type, v) == IF type = "int" THEN Signed(v) ELSE v

(* Division goes toward 0, and the remainder with it.                          *)
Magnitude(n) == IF n < 0 THEN -n ELSE n
Quotient(m, n) ==
  (IF (m < 0) = (n < 0) THEN 1 ELSE -1) * (Magnitude(m) \div Magnitude(n))

Calculate(operator, type, l, r) ==
  LET m == Ordinal(type, l)
      n == Ordinal(type, r)
  IN CASE operator = "ADD" -> Wrap(type, l + r)
       [] operator = "SUBTRACT" -> Wrap(type, l - r)
       [] operator = "MULTIPLY" -> Wrap(type, l * r)
       [] operator = "DIVIDE" -> Wrap(type, Quotient(m, n))
       [] operator = "MODULO" -> Wrap(type, m - n * Quotient(m, n))
       [] operator = "EQUALS" -> Flag(l = r)
       [] operator = "NOT_EQUALS" -> Flag(l # r)
       [] operator = "LESS" -> Flag(m < n)
       [] operator = "LESS_EQUALS" -> Flag(m <= n)
       [] operator = "GREATER" -> Flag(m > n)
       [] operator = "GREATER_EQUALS" -> Flag(m >= n)
       [] operator = "BITWISE_AND" -> l & r
       [] operator = "BITWISE_OR" -> l | r
       [] operator = "BITWISE_XOR" -> l ^^ r
       [] operator = "BIT_SHIFT_LEFT" -> Wrap(type, l * 2 ^ r)
       [] operator = "BIT_SHIFT_RIGHT" -> Wrap(type, m \div 2 ^ r)

CalculateUnary(operator, type, v) ==
  CASE operator = "IDENTITY" -> v
    [] operator = "NEGATE" -> Wrap(type, -v)
    [] operator = "BITWISE_INVERT" -> Wrap(type, -v - 1)
    [] operator = "LOGICAL_INVERT" -> 1 - v

-----------------------------------------------------------------------------
(* An evaluation is a value and what was printed by then; s is the scope, the  *)
(* variables in the order of their declarations.                              *)

Variable(s, name) == Max({i \in DOMAIN s : s[i].name = name})

RECURSIVE Evaluate(_, _, _, _)
RECURSIVE Run(_, _, _)

Called(program, name, arguments, out) ==
  LET f == program[name]
      s == [i \in DOMAIN arguments |-> [name |-> f.parameters[i][1], value |-> arguments[i]]]
  IN IF f.native THEN [value |-> 0, out |-> Append(out, arguments[1])]
     ELSE Run(program, f.statements, [how |-> "next", s |-> s, value |-> 0, out |-> out])

Evaluate(program, node, s, out) ==
  LET Eval(n, o) == Evaluate(program, n, s, o)
  IN CASE node.node = "INTEGER" -> [value |-> node.int, out |-> out]
       [] node.node = "BOOL" -> [value |-> Flag(node.bool), out |-> out]
       [] node.node = "VARIABLE" -> [value |-> s[Variable(s, node.name)].value, out |-> out]
       [] node.node = "BINARYEXPRESSION" ->
            LET l == Eval(node.lhs, out)
                r == Eval(node.rhs, l.out)
            IN [value |-> Calculate(node.operator, node.lhs.type, l.value, r.value),
                out |-> r.out]
       [] node.node = "UNARYEXPRESSION" ->
            LET e == Eval(node.operand, out)
            IN [e EXCEPT !.value = CalculateUnary(node.operator, node.type, @)]
       [] node.node = "CAST" ->
            LET e == Eval(node.expr, out) IN [e EXCEPT !.value = Wrap(node.type, @)]
       [] node.node = "TERNARYEXPRESSION" ->
            LET c == Eval(node.condition, out)
            IN Eval(IF c.value = 1 THEN node.if_true ELSE node.if_false, c.out)
       [] node.node = "FUNCTION_CALL" ->
            LET a == FoldRight(
                       LAMBDA n, acc : LET e == Eval(n, acc.out)
                                       IN [values |-> <<e.value>> \o acc.values, out |-> e.out],
                       node.argument, [values |-> <<>>, out |-> out])
                c == Called(program, node.name, a.values, a.out)
            IN [value |-> c.value, out |-> c.out]

(* r: what running the statements so far came to; it goes on while how is next. *)
RunNode(program, node, r) ==
  LET Eval(n) == Evaluate(program, n, r.s, r.out)
      RunIn(nodes, start) == LET e == Run(program, nodes, start)
                             IN [e EXCEPT !.s = SubSeq(@, 1, Len(r.s))]
  IN CASE node.node = "VARIABLE_DECL" ->
            [r EXCEPT !.s = Append(@, [name |-> node.name, value |-> 0])]
       [] node.node = "ASSIGNMENT" ->
            LET e == Eval(node.expression)
            IN [r EXCEPT !.s[Variable(r.s, node.name)].value = e.value, !.out = e.out]
       [] node.node = "FUNCTION_CALL" -> [r EXCEPT !.out = Eval(node).out]
       [] node.node = "RETURN" ->
            LET e == Eval(node.expression[1])
            IN [r EXCEPT !.how = "return", !.value = e.value, !.out = e.out]
       [] node.node \in {"BREAK", "CONTINUE"} -> [r EXCEPT !.how = node.node]
       [] node.node = "BLOCK" -> RunIn(node.statements, r)
       [] node.node = "IF" ->
            LET c == Eval(node.condition)
            IN RunIn(IF c.value = 1 THEN <<node.if_true>> ELSE node.if_false,
                     [r EXCEPT !.out = c.out])
       [] node.node \in {"WHILE", "LOOP"} ->
            LET c == IF node.node = "LOOP" THEN [value |-> 1, out |-> r.out]
                     ELSE Eval(node.condition)
                e == RunIn(<<node.statement>>, [r EXCEPT !.out = c.out])
            IN IF c.value = 0 THEN [r EXCEPT !.out = c.out]
               ELSE IF e.how = "return" THEN e
               ELSE IF e.how = "BREAK" THEN [e EXCEPT !.how = "next"]
               ELSE Run(program, <<node>>, [e EXCEPT !.how = "next"])
       [] node.node = "FOR" ->
            LET low == Eval(node.range.lhs)
                high == Evaluate(program, node.range.rhs, r.s, low.out)
                Turn(acc, i) ==
                  LET e == Run(program, <<node.statement>>, [acc EXCEPT !.s =
                             Append(@, [name |-> node.variable, value |-> Wrap("int", i)])])
                  IN IF acc.how = "next" THEN [e EXCEPT !.s = SubSeq(@, 1, Len(r.s))] ELSE acc
                from == Signed(low.value)
                turns == Signed(high.value) - from
            IN FoldLeft(Turn, [r EXCEPT !.out = high.out],
                        [i \in 1 .. (IF turns < 0 THEN 0 ELSE turns) |-> from + i - 1])

Run(program, nodes, r) ==
  IF nodes = <<>> \/ r.how # "next" THEN r
  ELSE Run(program, Tail(nodes), RunNode(program, Head(nodes), r))

(* What a program prints, and its exit code.                                     *)
ProgramMeaning(program) ==
  LET r == Called(program, "main", <<>>, <<>>) IN [out |-> r.out, exit |-> r.value]
=============================================================================
