---------------------------- MODULE MCInterpreter ----------------------------
(***************************************************************************)
(* The programs of Programs, some that keep to what the interpreter can do,   *)
(* and constant expressions.                                                *)
(***************************************************************************)
EXTENDS Interpreter, Programs

(* Loops around one statement, so that it sees the variables of the loop's scope.  *)
Step(k) ==
  <<AssignmentNode("i", Add(V("i"), I(1))),
    IfNode(Less(V("i"), I(2)), AssignmentNode("i", Add(V("i"), I(1))),
           <<AssignmentNode("i", Add(V("i"), I(2)))>>),
    AssignmentNode("i", Add(V("i"), CallF("g", <<>>))),
    AssignmentNode("i", Add(CallF("f", <<V("i")>>), V("i"))),
    IfNode(Is(V("i"), I(1)), AssignmentNode("i", I(3)),
           <<IfNode(Less(V("i"), I(1)), AssignmentNode("i", Sub(I(1), V("i"))),
                    <<AssignmentNode("i", CallF("g", <<>>))>>)>>)>>[k]
Turns(l, k, n) ==
  <<WhileNode(Less(V("i"), I(n)), Step(k)),
    LoopNode(IfNode(Less(V("i"), I(n)), Step(k), <<LeaveNode("BREAK")>>))>>[l]
After(a) ==
  <<Puti(V("i")),
    Block(Let("int", "i", I(9)) \o Puti(V("i"))) \o Puti(Sub(V("i"), I(2))),
    Let("int", "j", V("i")) \o Put("i", CallF("h", <<V("j"), I(3)>>)) \o Puti(V("j")),
    If(Less(V("i"), I(3)), Puti(I(1)) \o Give(I(5)))>>[a]
Helpers ==
  Func("g", <<>>, Puti(I(4)) \o Let("int", "i", I(3)) \o Give(Sub(V("i"), I(1))))
    @@ Func("f", One, Block(Puti(I(6))) \o Give(I(1))) @@ Func("h", Two, Give(I(2)))
PlainPrograms ==
  [t \in (1 .. 2) \X (1 .. 5) \X {1, 3} \X (1 .. 4) |->
     Main(Let("int", "i", I(0)) \o <<Turns(t[1], t[2], t[3])>> \o After(t[4]) \o Give(V("i")))
       @@ Helpers]

(* What stops the interpreter, or misleads it.                                     *)
Few == <<
  Main(Let("byte", "y", Y(6)) \o Give(CastNode("int", VY("y")))),
  Main(Let("byte", "y", Y(6)) \o Put("y", UnaryNode("NEGATE", VY("y"))) \o Give(I(1))),
  Main(Let("bool", "b", BoolNode(FALSE)) \o Put("b", UnaryNode("LOGICAL_INVERT", VB("b")))
       \o <<IfNode(VB("b"), ReturnNode(<<UnaryNode("NEGATE", I(3))>>), <<>>)>>),
  Main(<<CallNode("void", "f", <<>>, TRUE)>> \o Give(I(3))) @@ Func("f", <<>>, Give(V("n"))),
  Main(Let("bool", "b", BoolNode(FALSE)) \o Let("bool", "c", BoolNode(TRUE))
       \o <<IfNode(OrNode(VB("b"), VB("c")), BlockNode(Puti(I(1))), <<>>)>> \o Give(I(2))),
  Main(Let("bool", "b", BoolNode(FALSE)) \o Let("bool", "c", BoolNode(TRUE))
       \o Let("bool", "d", AndNode(VB("c"), VB("b")))
       \o <<IfNode(VB("d"), BlockNode(Puti(I(1))), <<>>)>> \o Give(I(2))),
  Main(Give(CallF("f", <<I(3), I(5)>>))) @@
    Func("f", Two, For("x", I(0), I(2), Puti(I(1))) \o Give(I(2))),
  Main(<<LoopNode(BlockNode(Let("int", "i", I(4)) \o Break))>> \o Let("int", "k", I(1))
       \o Give(V("k"))),
  Main(Let("int", "i", I(7)) \o Loop(Let("int", "i", I(4)) \o Break) \o Give(V("i"))),
  Main(Loop(Let("int", "i", I(4)) \o Let("int", "j", I(5)) \o Break) \o Let("int", "i", I(7))
       \o Give(V("i"))),
  Main(Let("bool", "b", BoolNode(TRUE)) \o Puti(CallF("f", <<VB("b")>>)) \o Give(I(2))) @@
    Func("f", <<<<"b", "bool">>>>, Give(UnaryNode("BITWISE_INVERT", I(9))))>>

Unary(operator, e) == UnaryNode(operator, e)
Atoms == <<I(3), I(13), Unary("NEGATE", I(2)), Unary("BITWISE_INVERT", I(9))>>
Numbers(o, i, j) ==
  <<Add(Atoms[i], Atoms[j]), Sub(Atoms[i], Atoms[j]), BinaryNode("MULTIPLY", Atoms[i], Atoms[j])>>[o]
Both(o, l, k) ==
  <<Sub(l, Atoms[k]), Sub(Atoms[k], l), Less(l, Atoms[k]), Less(Atoms[k], l), Is(Atoms[k], l)>>[o]
Others == <<"DIVIDE", "MODULO", "NOT_EQUALS", "LESS_EQUALS", "GREATER", "GREATER_EQUALS",
            "BITWISE_AND", "BITWISE_OR", "BITWISE_XOR">>
Shifts == <<"BIT_SHIFT_LEFT", "BIT_SHIFT_RIGHT">>
Numerals == Atoms \o <<I(0), Unary("NEGATE", I(16)), Unary("NEGATE", I(1))>>
Bytes == <<Y(6), Y(3), Y(0), Unary("BITWISE_INVERT", Y(0))>>
Odd == <<
  BinaryNode("ADD", Y(6), Y(3)), BinaryNode("LESS", Y(6), Y(3)),
  BinaryNode("ADD", Y(1), Unary("NEGATE", Y(3))), BinaryNode("ADD", Y(1), Unary("BITWISE_INVERT", Y(3))),
  Is(BoolNode(TRUE), Less(I(2), I(3))), Is(Unary("LOGICAL_INVERT", BoolNode(TRUE)), BoolNode(FALSE)),
  BinaryNode("BITWISE_XOR", BoolNode(TRUE), Less(I(2), I(3))),
  BinaryNode("ADD", BoolNode(TRUE), BoolNode(TRUE)), BinaryNode("BIT_SHIFT_LEFT", Y(3), Y(1)),
  Add(V("n"), I(1)), Add(I(1), CallF("f", <<I(1)>>)), Dots(I(1), I(3)), Dots(I(3), I(1)),
  Add(CastNode("int", Y(7)), I(1)), Is(Unary("IDENTITY", I(3)), I(3)),
  Is(OrNode(Less(I(2), I(1)), BoolNode(FALSE)), BoolNode(FALSE)),
  Is(AndNode(BoolNode(TRUE), BoolNode(FALSE)), BoolNode(TRUE)),
  Is(OrNode(BoolNode(TRUE), BoolNode(FALSE)), Is(I(1), I(1)))>>

FoldedAt(t) ==
  CASE t[1] = "sums" -> Both(t[2], Numbers(t[3], t[4], t[5]), t[6])
    [] t[1] = "ints" -> BinaryNode(Others[t[2]], Numerals[t[3]], Numerals[t[4]])
    [] t[1] = "bytes" -> BinaryNode(Others[t[2]], Bytes[t[3]], Bytes[t[4]])
    [] t[1] = "shifts" -> BinaryNode(Shifts[t[2]], Numerals[t[3]], Bytes[t[4]])
    [] t[1] = "odd" -> Odd[t[2]]
MCFolded ==
  [t \in ({"sums"} \X (1 .. 5) \X (1 .. 3) \X (1 .. 4) \X (1 .. 4) \X (1 .. 4))
         \cup ({"ints"} \X (1 .. Len(Others)) \X (1 .. Len(Numerals)) \X (1 .. Len(Numerals)))
         \cup ({"bytes"} \X (1 .. Len(Others)) \X (1 .. Len(Bytes)) \X (1 .. Len(Bytes)))
         \cup ({"shifts"} \X (1 .. Len(Shifts)) \X (1 .. Len(Numerals)) \X (1 .. Len(Bytes)))
         \cup ({"odd"} \X (1 .. Len(Odd))) |-> FoldedAt(t)]

MCSources ==
  PlainPrograms @@ Logical @@ Loops
    @@ [t \in {<<n>> : n \in DOMAIN (Few \o Statements)} |-> (Few \o Statements)[t[1]]]
=============================================================================
