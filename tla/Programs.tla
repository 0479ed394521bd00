------------------------------ MODULE Programs ------------------------------
(***************************************************************************)
(* Small Scribble programs, written down as bound trees, for the runs of both *)
(* back ends.                                                               *)
(***************************************************************************)
EXTENDS Intermediate, TLC

I(v) == IntegerNode("int", v)
Y(v) == IntegerNode("byte", v)
V(name) == VariableNode("int", name)
VY(name) == VariableNode("byte", name)
VB(name) == VariableNode("bool", name)
Add(l, r) == BinaryNode("ADD", l, r)
Sub(l, r) == BinaryNode("SUBTRACT", l, r)
Less(l, r) == BinaryNode("LESS", l, r)
Is(l, r) == BinaryNode("EQUALS", l, r)
Let(type, name, e) == <<DeclNode(type, name), AssignmentNode(name, e)>>
Put(name, e) == <<AssignmentNode(name, e)>>
Give(e) == <<ReturnNode(<<e>>)>>
CallF(name, arguments) == CallNode("int", name, arguments, FALSE)
Puti(e) == <<CallNode("void", "puti", <<e>>, TRUE)>>
Dots(l, r) == BinaryNode("RANGE", l, r)
Block(statements) == <<BlockNode(statements)>>
If(c, t) == <<IfNode(c, BlockNode(t), <<>>)>>
Else(c, t, f) == <<IfNode(c, BlockNode(t), <<BlockNode(f)>>)>>
While(c, s) == <<WhileNode(c, BlockNode(s))>>
Loop(s) == <<LoopNode(BlockNode(s))>>
For(name, l, r, s) == <<ForNode(name, Dots(l, r), BlockNode(s))>>
Break == <<LeaveNode("BREAK")>>
Continue == <<LeaveNode("CONTINUE")>>

Main(statements) ==
  ("main" :> Function("int", <<>>, statements)) @@ ("puti" :> NativeFunction(<<<<"i", "int">>>>))
Func(name, parameters, statements) == name :> Function("int", parameters, statements)
One == <<<<"n", "int">>>>
Two == <<<<"n", "int">>, <<"m", "int">>>>
AB == Let("int", "a", I(5)) \o Let("int", "b", I(3)) \o Let("byte", "c", Y(6))

(* Expressions of two operators over a call that prints, a variable, a constant    *)
(* and a cast; w turns a condition into a number.                                 *)
Echo == Func("f", One, Puti(V("n")) \o Give(Add(V("n"), I(1))))
Leaf(i) == <<V("a"), CallF("f", <<V("b")>>), I(9), CastNode("int", VY("c"))>>[i]
G(l, r) == CallF("g", <<l, r>>)
Seven == If(VB("q"), Give(I(7))) \o Give(I(8))
W(c) == CallF("w", <<c>>)
Inner(s, i, j) ==
  <<Add(Leaf(i), Leaf(j)), W(AndNode(Less(Leaf(i), V("b")), Less(Leaf(j), Leaf(i)))),
    G(Leaf(i), Leaf(j))>>[s]
Outer(s, e, k) ==
  <<Sub(Leaf(k), e), Sub(e, Leaf(k)), G(Leaf(k), e),
    W(OrNode(Less(e, Leaf(k)), Is(Leaf(k), e)))>>[s]
Trees == {t \in (1 .. 4) \X (1 .. 3) \X (1 .. 4) \X (1 .. 4) \X (1 .. 4) :
            ~(t[2] # 3 /\ t[3] = 3 /\ t[4] = 3)}  \* constants are folded before
Expressions ==
  [t \in Trees |-> Main(AB \o Give(Outer(t[1], Inner(t[2], t[3], t[4]), t[5])))
                     @@ Echo @@ Func("g", Two, Give(Sub(V("n"), V("m")))) @@ Func("w", <<<<"q", "bool">>>>, Seven)]

(* && and || of calls that print.                                                *)
Asks == "p" :> Function("bool", One, Puti(V("n")) \o Give(Less(V("n"), I(4))))
Ask(v) == CallNode("bool", "p", <<I(v)>>, FALSE)
Logic(s, i, j) ==
  <<AndNode(Ask(i), Ask(j)), OrNode(Ask(i), Ask(j)),
    OrNode(AndNode(Ask(i), Ask(j)), Is(Ask(j), Ask(i)))>>[s]
Logical ==
  [t \in (1 .. 3) \X {2, 6} \X {2, 6} |->
     LET c == Logic(t[1], t[2], t[3])
     IN Main(If(c, Puti(I(1))) \o Let("bool", "q", c) \o Seven) @@ Asks]

(* A loop in a loop, and how a turn of the inner one is left: BREAK and CONTINUE    *)
(* are not for a FOR but for the loop around it.                                  *)
Leave(l) == <<Break, Continue, Give(V("i")), <<>>>>[l]
LoopOf(kind, name, s) ==
  LET next == Put(name, Add(V(name), I(1)))
  IN <<While(Less(V(name), I(2)), next \o s),
       Loop(next \o If(Less(I(2), V(name)), Break) \o s),
       For(name, I(0), I(2), s)>>[kind]
Loops ==
  [t \in {u \in (1 .. 3) \X (1 .. 3) \X (1 .. 4) \X {0} : u[3] \in {1, 2} => <<u[1], u[2]>> # <<3, 3>>} |->
     Main(Let("int", "i", I(0)) \o Let("int", "j", I(0))
       \o LoopOf(t[1], "i", Puti(V("i"))
            \o LoopOf(t[2], "j", Puti(V("j")) \o If(Is(V("i"), V("j")), Leave(t[3])))
            \o Put("j", I(0)))
       \o Give(I(7)))]

(* Statements.                                                                   *)
Counting(s) == Main(Let("int", "i", I(0)) \o s \o Give(V("i")))
Count == Put("i", Add(V("i"), I(1)))
Statements == <<
  Counting(While(Less(V("i"), I(4)), Count \o Else(Is(V("i"), I(2)), Continue, Puti(V("i"))))),
  Counting(Loop(Count \o Block(If(Less(I(2), V("i")), Break)) \o Puti(V("i")))),
  Counting(While(BoolNode(TRUE), Count \o Loop(Break) \o If(Less(I(3), V("i")), Break))),
  Counting(For("x", I(0), I(3), For("y", V("x"), I(3),
             Put("i", Add(V("i"), V("y"))) \o If(Is(V("y"), V("x")), Puti(V("i")))))),
  Counting(For("x", V("i"), I(0), Count) \o For("x", I(0), I(2), Count \o Puti(V("x")))),
  Counting(Let("bool", "b", Less(V("i"), I(1))) \o Block(Let("int", "i", I(9)) \o Puti(V("i"))
             \o If(VB("b"), Let("int", "k", I(6)) \o Put("i", V("k")) \o Puti(V("i"))))
           \o Let("int", "k", I(2)) \o Block(Let("int", "i", V("k")) \o Puti(V("i")))),
  Main(Puti(CallF("fib", <<I(5)>>)) \o Give(I(0))) @@
    Func("fib", One, If(Less(V("n"), I(2)), Give(V("n"))) \o
      Give(Add(CallF("fib", <<Sub(V("n"), I(1))>>), CallF("fib", <<Sub(V("n"), I(2))>>)))),
  Main(Let("byte", "y", Y(6)) \o Let("byte", "z", BinaryNode("ADD", VY("y"), Y(3)))
       \o Puti(CastNode("int", VY("z")))
       \o Give(Add(CastNode("int", CastNode("byte", I(13))), CastNode("int", VY("y"))))),
  Main(Let("byte", "y", Y(6)) \o Let("byte", "z", UnaryNode("IDENTITY", VY("y")))
       \o Give(CastNode("int", VY("z")))),
  Main(Let("bool", "b", BoolNode(FALSE)) \o If(Is(
         CallNode("bool", "not", <<VB("b")>>, FALSE), BoolNode(TRUE)), Give(I(1))) \o Give(I(2))) @@
    "not" :> Function("bool", <<<<"b", "bool">>>>,
               If(VB("b"), Give(BoolNode(FALSE))) \o Give(BoolNode(TRUE)))>>
=============================================================================
