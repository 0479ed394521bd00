---------------------------- MODULE Intermediate ----------------------------
(***************************************************************************)
(* From the bound tree of a function to its intermediate code               *)
(* (scribble/src/scribble/intermediate.c).                                  *)
(*                                                                          *)
(* Both back ends, the generator of native code and the interpreter, take   *)
(* their code from here.  A tree is a record, as the binder leaves it: types *)
(* are known and fit, and a logical operator has become a ternary.  Labels   *)
(* are numbered per function: the name of the function is part of each.      *)
(***************************************************************************)
EXTENDS Integers, Sequences, SequencesExt, ScribbleTypes

-----------------------------------------------------------------------------
(* Bound trees.                                                              *)

IntegerNode(type, v) == [node |-> "INTEGER", type |-> type, int |-> v]
BoolNode(b) == [node |-> "BOOL", type |-> "bool", bool |-> b]
VariableNode(type, name) == [node |-> "VARIABLE", type |-> type, name |-> name]

BinaryNode(operator, l, r) ==
  [node |-> "BINARYEXPRESSION", operator |-> operator, lhs |-> l, rhs |-> r,
   type |-> IF operator \in Relational THEN "bool"
            ELSE IF operator = "RANGE" THEN "range" ELSE l.type]

UnaryNode(operator, e) ==
  [node |-> "UNARYEXPRESSION", operator |-> operator, operand |-> e, type |-> e.type]
CastNode(type, e) == [node |-> "CAST", type |-> type, expr |-> e]
TernaryNode(c, t, f) ==
  [node |-> "TERNARYEXPRESSION", type |-> t.type, condition |-> c, if_true |-> t, if_false |-> f]

(* short_circuit_logical_operators: what && and || are bound to.               *)
AndNode(l, r) == TernaryNode(l, r, BoolNode(FALSE))
OrNode(l, r) == TernaryNode(l, BoolNode(TRUE), r)

CallNode(type, name, arguments, discard) ==
  [node |-> "FUNCTION_CALL", type |-> type, name |-> name, argument |-> arguments,
   discard_result |-> discard]

DeclNode(type, name) == [node |-> "VARIABLE_DECL", type |-> type, name |-> name]
AssignmentNode(name, e) == [node |-> "ASSIGNMENT", name |-> name, expression |-> e]
BlockNode(statements) == [node |-> "BLOCK", statements |-> statements]
IfNode(c, t, otherwise) ==
  [node |-> "IF", condition |-> c, if_true |-> t, if_false |-> otherwise]  \* <<>> or one tree
WhileNode(c, s) == [node |-> "WHILE", condition |-> c, statement |-> s]
LoopNode(s) == [node |-> "LOOP", statement |-> s]
ForNode(name, range, s) == [node |-> "FOR", variable |-> name, range |-> range, statement |-> s]
LeaveNode(kind) == [node |-> kind]  \* BREAK or CONTINUE, of the loop around it
ReturnNode(e) == [node |-> "RETURN", expression |-> e]  \* <<>> or one tree

(* A function: its parameters are pairs of a name and a type; one without a     *)
(* body is native.                                                             *)
Function(type, parameters, statements) ==
  [type |-> type, parameters |-> parameters, native |-> FALSE, statements |-> statements]
NativeFunction(parameters) ==
  [type |-> "void", parameters |-> parameters, native |-> TRUE, statements |-> <<>>]

-----------------------------------------------------------------------------
(* Intermediate code.  ctx is the code so far and the next label, loop the      *)
(* labels of the loop around the tree.                                         *)

Op(operation) == [op |-> operation]

AddOperations(ctx, ops) == [ctx EXCEPT !.ops = @ \o ops]

PushVarAddress(name) == [op |-> "PUSH_VAR_ADDRESS", name |-> name]
Subscript(component) == [op |-> "SUBSCRIPT", component |-> component]
Label(l) == [op |-> "LABEL", label |-> l]
Jump(operation, l) == [op |-> operation, label |-> l]  \* JUMP or JUMP_F
DeclVar(type, name) == [op |-> "DECL_VAR", name |-> name, type |-> type]
PushInt(type, v) == [op |-> "PUSH_INT_CONSTANT", int |-> v, type |-> type]
PushBool(b) == [op |-> "PUSH_BOOL_CONSTANT", bool |-> b]
Binary(operator, l, r) == [op |-> "BINARY_OPERATOR", operator |-> operator, lhs |-> l, rhs |-> r]

Read(name) == <<PushVarAddress(name), Op("PUSH_VALUE")>>
Write(name) == <<PushVarAddress(name), Op("POP_VALUE")>>

next_label(ctx, n) == [ctx EXCEPT !.label = @ + n]

RECURSIVE generate_node(_, _, _)

GenerateNodes(nodes, ctx, loop) ==
  FoldLeft(LAMBDA acc, node : generate_node(node, acc, loop), ctx, nodes)

generate_ASSIGNMENT(node, ctx, loop) ==
  AddOperations(generate_node(node.expression, ctx, loop), Write(node.name))

generate_BINARYEXPRESSION(node, ctx, loop) ==
  AddOperations(GenerateNodes(<<node.lhs, node.rhs>>, ctx, loop),
                <<Binary(node.operator, node.lhs.type, node.rhs.type)>>)

generate_BLOCK(node, ctx, loop) ==
  AddOperations(GenerateNodes(node.statements, AddOperations(ctx, <<Op("SCOPE_BEGIN")>>), loop),
                <<Op("SCOPE_END")>>)

generate_CAST(node, ctx, loop) ==
  AddOperations(generate_node(node.expr, ctx, loop), <<[op |-> "CAST", type |-> node.type]>>)

(* The last argument comes first, so that the first one ends on top.             *)
generate_FUNCTION_CALL(node, ctx, loop) ==
  AddOperations(GenerateNodes(Reverse(node.argument), ctx, loop),
                <<[op |-> "CALL", name |-> node.name, discard |-> node.discard_result]>>)

generate_IF(node, ctx, loop) ==
  LET else == ctx.label
      cond == generate_node(node.condition, next_label(ctx, 1), loop)
      then == generate_node(node.if_true, AddOperations(cond, <<Jump("JUMP_F", else)>>), loop)
      end == then.label
      past == AddOperations(next_label(then, 1), <<Jump("JUMP", end), Label(else)>>)
  IN IF node.if_false = <<>> THEN AddOperations(then, <<Label(else)>>)
     ELSE AddOperations(generate_node(node.if_false[1], past, loop), <<Label(end)>>)

(* A WHILE, or a LOOP, which has no condition.                                   *)
GenerateLoop(node, ctx, conditional) ==
  LET labels == [loop |-> ctx.label, done |-> ctx.label + 1]
      start == AddOperations(next_label(ctx, 2), <<Label(labels.loop)>>)
      test == IF conditional
              THEN AddOperations(generate_node(node.condition, start, labels),
                                 <<Jump("JUMP_F", labels.done)>>)
              ELSE start
  IN AddOperations(generate_node(node.statement, test, labels),
                   <<Jump("JUMP", labels.loop), Label(labels.done)>>)

generate_FOR(node, ctx, loop) ==
  LET bounds == generate_node(node.range, AddOperations(ctx,
                  <<Op("SCOPE_BEGIN"), DeclVar("range", "$range")>>), loop)
      labels == [loop |-> bounds.label, done |-> bounds.label + 1]
      start == AddOperations(next_label(bounds, 2), Write("$range") \o
                 <<DeclVar("int", node.variable), PushVarAddress("$range"), Subscript(0),
                   Op("PUSH_VALUE")>> \o Write(node.variable) \o
                 <<Label(labels.loop)>> \o Read(node.variable) \o
                 <<PushVarAddress("$range"), Subscript(1), Op("PUSH_VALUE"),
                   Binary("LESS", "int", "int"), Jump("JUMP_F", labels.done)>>)
  IN AddOperations(generate_node(node.statement, start, loop),
                   Read(node.variable) \o
                   <<PushInt("int", 1), Binary("ADD", "int", "int")>> \o Write(node.variable) \o
                   <<Jump("JUMP", labels.loop), Label(labels.done), Op("SCOPE_END")>>)

generate_TERNARYEXPRESSION(node, ctx, loop) ==
  LET if == ctx.label
      else == ctx.label + 1
      end == ctx.label + 2
      cond == generate_node(node.condition,
                AddOperations(next_label(ctx, 3), <<[op |-> "MATCH", type |-> node.type]>>), loop)
      true == generate_node(node.if_true, AddOperations(cond,
                <<Jump("CASE", if), PushBool(TRUE), Jump("WHEN", else)>>), loop)
      false == generate_node(node.if_false, AddOperations(true,
                <<Jump("END_CASE", end), Jump("CASE", else), PushBool(FALSE), Jump("WHEN", end)>>),
                loop)
  IN AddOperations(false, <<Jump("END_CASE", 0), Jump("END_MATCH", end)>>)

generate_UNARYEXPRESSION(node, ctx, loop) ==
  AddOperations(generate_node(node.operand, ctx, loop),
    <<[op |-> "UNARY_OPERATOR", operator |-> node.operator, operand |-> node.operand.type]>>)

generate_RETURN(node, ctx, loop) ==
  AddOperations(GenerateNodes(node.expression, ctx, loop), <<Op("RETURN")>>)

generate_node(node, ctx, loop) ==
  CASE node.node = "ASSIGNMENT" -> generate_ASSIGNMENT(node, ctx, loop)
    [] node.node = "BINARYEXPRESSION" -> generate_BINARYEXPRESSION(node, ctx, loop)
    [] node.node = "BLOCK" -> generate_BLOCK(node, ctx, loop)
    [] node.node = "BOOL" -> AddOperations(ctx, <<PushBool(node.bool)>>)
    [] node.node = "BREAK" -> AddOperations(ctx, <<Jump("JUMP", loop.done)>>)
    [] node.node = "CAST" -> generate_CAST(node, ctx, loop)
    [] node.node = "CONTINUE" -> AddOperations(ctx, <<Jump("JUMP", loop.loop)>>)
    [] node.node = "FOR" -> generate_FOR(node, ctx, loop)
    [] node.node = "FUNCTION_CALL" -> generate_FUNCTION_CALL(node, ctx, loop)
    [] node.node = "IF" -> generate_IF(node, ctx, loop)
    [] node.node = "INTEGER" -> AddOperations(ctx, <<PushInt(node.type, node.int)>>)
    [] node.node = "LOOP" -> GenerateLoop(node, ctx, FALSE)
    [] node.node = "RETURN" -> generate_RETURN(node, ctx, loop)
    [] node.node = "TERNARYEXPRESSION" -> generate_TERNARYEXPRESSION(node, ctx, loop)
    [] node.node = "UNARYEXPRESSION" -> generate_UNARYEXPRESSION(node, ctx, loop)
    [] node.node = "VARIABLE" -> AddOperations(ctx, Read(node.name))
    [] node.node = "VARIABLE_DECL" -> AddOperations(ctx, <<DeclVar(node.type, node.name)>>)
    [] node.node = "WHILE" -> GenerateLoop(node, ctx, TRUE)

NoLoop == [loop |-> 0, done |-> 0]

(* generate_FUNCTION, generate_FUNCTION_IMPL.                                    *)
FunctionCode(function) ==
  IF function.native THEN <<>>
  ELSE generate_BLOCK(function, [ops |-> <<>>, label |-> 1], NoLoop).ops

(* evaluate: the code of one expression, which the binder wants to fold.          *)
ExpressionCode(node) == generate_node(node, [ops |-> <<>>, label |-> 1], NoLoop).ops
=============================================================================
