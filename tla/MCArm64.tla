------------------------------- MODULE MCArm64 -------------------------------
(***************************************************************************)
(* The programs of Programs, and some that the compiler gets wrong.          *)
(***************************************************************************)
EXTENDS Arm64Run, Programs

(* What the compiler gets wrong, and what it does not take.                        *)
Deep(n) == FoldLeft(LAMBDA acc, k : Sub(V("a"), acc), V("b"), [k \in 1 .. n |-> k])
Casts(n) == FoldLeft(LAMBDA acc, k : Add(acc, CastNode("int", V("n"))), V("n"), [k \in 1 .. n |-> k])
Corners == <<
  Main(AB \o Give(Deep(4))),
  Main(AB \o Give(Deep(9))),
  Main(Let("int", "n", I(4)) \o Give(Casts(6))),
  Main(AB \o Give(FoldLeft(LAMBDA acc, k : Sub(V("a"), acc), CallF("f", <<V("b")>>),
                          [k \in 1 .. 6 |-> k]))) @@ Func("f", One, Give(Casts(4))),
  Main(AB \o Block(Puti(V("a")) \o Let("int", "a", I(2)) \o Puti(V("a"))) \o Give(V("a"))),
  Main(Let("byte", "y", Y(2)) \o Let("byte", "z", UnaryNode("NEGATE", VY("y")))
       \o Let("byte", "x", UnaryNode("BITWISE_INVERT", VY("z")))
       \o Give(CastNode("int", BinaryNode("ADD", UnaryNode("NEGATE", VY("x")),
                                          BinaryNode("ADD", VY("y"), VY("z")))))),
  Main(Give(CallF("f", <<Y(2)>>))) @@ Func("f", One, Give(V("n"))),
  Main(Give(CallF("f", <<>>))) @@ Func("f", One, Give(V("n"))),
  Main(Let("bool", "b", AndNode(BoolNode(TRUE), Ask(2))) \o Give(I(0))) @@ Asks,
  Main(<<ReturnNode(<<>>)>>),
  Main(Give(CastNode("int", BoolNode(TRUE))))>>

Others == Statements \o Corners
MCSources == Expressions @@ Logical @@ Loops @@ [t \in {<<n>> : n \in DOMAIN Others} |-> Others[t[1]]]
MCOperations ==
  [s \in DOMAIN MCSources |-> [fn \in DOMAIN MCSources[s] |-> FunctionCode(MCSources[s][fn])]]
=============================================================================
