------------------------------- MODULE Binder -------------------------------
(* The binder of Scribble (scribble/src/scribble/binder.c): it gives every     *)
(* node of a parsed program its declaration and its type. What cannot be bound *)
(* yet becomes an unbound node, which holds the syntax it is for, and is bound *)
(* again in the next pass, in the place where it stands.                       *)
(*                                                                             *)
(* A binding function takes the context and returns it with the node it made.  *)
(* The parent of a node is what its names are looked up from: here the frames, *)
(* innermost first, of the nodes that are being made around it, each with what *)
(* it holds up to now (before) and, when it is bound again, what stands from   *)
(* the node on (after). Missteps are the places where what the code does is not   *)
(* what the language asks for.                                                 *)
EXTENDS Grammar, FiniteSets

NoType == <<"">>
Void == <<"void">>
Bool == <<"bool">>
String == <<"string">>
Widths == <<"u8", "i8", "u16", "i16", "u32", "i32", "u64", "i64">>
IsInteger(t) == \E i \in DOMAIN Widths : t = <<Widths[i]>>
Aliases == [int |-> "i32", unsigned |-> "u32", byte |-> "i8", char |-> "u8", short |-> "i16",
            ushort |-> "u16", long |-> "i64", ulong |-> "u64"]

Node(kind) == [kind |-> kind, name |-> "", type |-> NoType, parts |-> << >>, next |-> << >>,
               mark |-> FALSE, stmt |-> Null]
Nothing == Node("nothing")
Constant(kind, type, literal) == [Node(kind) EXCEPT !.type = type, !.mark = literal]
IsUnbound(n) == n.kind = "UNBOUND_NODE"
IsConstant(n) == n.kind \in {"INTEGER", "BOOL", "STRING"}

RECURSIVE HasUnbound(_)
HasUnbound(n) == IsUnbound(n) \/ \E i \in DOMAIN n.parts : HasUnbound(n.parts[i])
                 \/ (n.next # << >> /\ HasUnbound(n.next[1]))

-----------------------------------------------------------------------------
(* The context: what a pass counts, the types that are registered, whether     *)
(* there is a main function, and whether this pass is not the first.           *)
Context == [node |-> Nothing, unbound |-> 0, errors |-> 0, types |-> << >>, main |-> FALSE,
            late |-> FALSE, missteps |-> {}]

Returns(c, n) == [c EXCEPT !.node = n]
Strays(c, kinds) == [c EXCEPT !.missteps = @ \cup kinds]
When(condition, kind) == IF condition THEN {kind} ELSE {}

Unbound(c, s) == Returns(c, [Node("UNBOUND_NODE") EXCEPT !.stmt = s])
CountedUnbound(c, s) == [Unbound(c, s) EXCEPT !.unbound = @ + 1]
Error(c, s) == [CountedUnbound(c, s) EXCEPT !.errors = @ + 1]

Frame(kind, name, before, after) == [kind |-> kind, name |-> name, before |-> before, after |-> after]
Named(nodes, kind, name) == SelectSeq(nodes, LAMBDA n : n.kind = kind /\ n.name = name)
\* Mutant: only what stands before the use is found.
FindBefore(frame, kind, name) == Named(frame.before, kind, name)
FindHere(frame, kind, name) == Named(frame.before \o frame.after, kind, name)
Places(env, kind, name) == { i \in DOMAIN env : FindHere(env[i], kind, name) # << >> }
Innermost(places) == CHOOSE i \in places : \A j \in places : i <= j
Find(env, kind, name) == LET places == Places(env, kind, name) IN
                         IF places = {} THEN << >> ELSE FindHere(env[Innermost(places)], kind, name)

(* A name that is declared behind its use.                                     *)
Early(env, kind, name) ==
    LET places == Places(env, kind, name)
        i == Innermost(places)
    IN  places # {} /\ Named(env[i].before, kind, name) = << >> /\ (i = 1 \/ env[i].kind # "MODULE")
Misplaced(env, kind, name) == When(Early(env, kind, name), "early")

-----------------------------------------------------------------------------
(* Types.                                                                      *)

ResolveType(types, t) ==
    LET struct == SelectSeq(types, LAMBDA x : x[1] = t[2]) IN
    IF t[2] \in DOMAIN Aliases THEN <<Aliases[t[2]]>>
    ELSE IF <<t[2]>> \in {Void, Bool, String} \/ IsInteger(<<t[2]>>) \/ struct # << >> THEN <<t[2]>>
    ELSE NoType

(* The type of what a path of names leads to, none if one is no component.     *)
Component(types, type, name) ==
    LET struct == SelectSeq(types, LAMBDA x : <<x[1]>> = type)
        found == IF struct = << >> THEN << >> ELSE SelectSeq(struct[1][2], LAMBDA x : x[1] = name)
    IN  IF found = << >> THEN NoType ELSE found[1][2]
Follow(types, type, path) == FoldLeft(LAMBDA t, name : Component(types, t, name), type, path)

Comparisons == {"==", "!=", "<", "<=", ">", ">="}
Arithmetic == {"+", "-", "*", "/", "&", "|", "^"}
Signature(op, l, r) ==
    IF op \in Comparisons /\ l = r /\ (IsInteger(l) \/ l \in {Bool, String}) THEN Bool
    ELSE IF op \in Arithmetic /\ l = r /\ (IsInteger(l) \/ l = Bool) THEN l
    ELSE IF op = "%" /\ l = r /\ IsInteger(l) THEN l
    ELSE IF op \in {"<<", ">>"} /\ IsInteger(l) /\ r = <<"u8">> THEN l
    ELSE IF op = ".." /\ l = r /\ IsInteger(l) THEN <<"range", l[1]>>
    ELSE IF l = String /\ <<op, r>> \in {<<"+", String>>, <<"*", <<"i32">> >>} THEN String
    ELSE NoType

(* The result comes from the table of the binary operators, at the index of    *)
(* the operator in the table of the unary ones: four rows for a type there,    *)
(* three here.                                                                 *)
UnaryOrder == <<"+", "-", "~">>
UnaryProper(op, t) == IF op = "!" THEN (IF t = Bool THEN Bool ELSE NoType)
                      ELSE IF IsInteger(t) THEN t ELSE NoType
UnaryType(op, t) ==
    LET row(i) == (Widths \o <<"bool">>)[(i \div 4) + 1]
        width == CHOOSE i \in DOMAIN Widths : <<Widths[i]>> = t
        at == CHOOSE i \in DOMAIN UnaryOrder : UnaryOrder[i] = op
    IN  IF UnaryProper(op, t) = NoType THEN NoType
        ELSE IF op = "!" THEN <<row(3 * Len(Widths))>>
        ELSE <<row(3 * (width - 1) + at - 1)>>

(* The types an operator is resolved for: a constant takes the type of the     *)
(* other operand, the right one first.                                         *)
Coerced(op, l, r) ==
    LET both == IsInteger(l.type) /\ IsInteger(r.type) IN
    IF Signature(op, l.type, r.type) # NoType THEN <<l.type, r.type>>
    ELSE IF both /\ r.kind = "INTEGER" THEN <<l.type, l.type>>
    ELSE IF both /\ l.kind = "INTEGER" THEN <<r.type, r.type>>
    ELSE <<l.type, r.type>>

(* evaluate_node: the interpreter works out an operation on constants. What it *)
(* makes of others than these is not followed (Interpreter.tla).               *)
Evaluated(op, type) == (op \notin {"..", "/", "%", "<<", ">>"} /\ IsInteger(type))
                       \/ (op \in {"==", "!="} /\ type = Bool)
ConstantOf(type) == Constant(IF type = Bool THEN "BOOL" ELSE "INTEGER", type, FALSE)

-----------------------------------------------------------------------------
(* Expressions.                                                                *)

RECURSIVE Bind(_, _, _), BindNodes(_, _, _, _, _)

BindType(c, s) == LET type == ResolveType(c.types, s) IN
                  IF type = NoType THEN CountedUnbound(c, s)
                  ELSE Returns(c, [Node("TYPE") EXCEPT !.type = type])

(* A constant is looked for everywhere before a variable is.                   *)
BindVariable(c, env, s) ==
    LET name == s[2][1]
        decl == Find(env, "VARIABLE_DECL", name)
        const == IF Len(s[2]) = 1 THEN Find(env, "CONST", name) ELSE << >>
        hidden == decl # << >> /\ Innermost(Places(env, "VARIABLE_DECL", name)) < Innermost(Places(env, "CONST", name))
        type == Follow(c.types, decl[1].type, Tail(s[2]))
    IN  IF const # << >>
        THEN Returns(Strays(c, When(hidden, "hidden") \cup Misplaced(env, "CONST", name)), const[1].parts[1])
        ELSE IF decl = << >> THEN CountedUnbound(c, s)
        ELSE IF type = NoType THEN Error(c, s)
        ELSE Returns(Strays(c, Misplaced(env, "VARIABLE_DECL", name)),
                     [Node("VARIABLE") EXCEPT !.name = name, !.type = type])

(* The function is the one the first name of the path stands for, and nobody   *)
(* compares the arguments with its parameters.                                 *)
BindFunctionCall(c, env, s) ==
    LET function == Find(env, "FUNCTION", s[2][1])
        bound == BindNodes(c, env, Frame("FUNCTION_CALL", "", << >>, << >>), s[3], 1)
    IN  IF function = << >> THEN CountedUnbound(c, s)
        ELSE Returns(Strays(bound, When(Len(s[2]) > 1, "path")),
                     [bound.node EXCEPT !.name = s[2][1], !.type = function[1].type])

(* Nobody comes back to what is unbound below an operator.                     *)
Operands(c, env, s) ==
    LET l == Bind(c, env, s[3])
        r == Bind(l, env, s[4])
    IN  [c |-> Strays(r, When(HasUnbound(l.node) \/ HasUnbound(r.node), "inner")), l |-> l.node, r |-> r.node,
         unbound |-> [Unbound(r, s) EXCEPT !.missteps = r.missteps], bound |-> ~IsUnbound(l.node) /\ ~IsUnbound(r.node)]

ShortCircuit(c, env, s) ==
    LET o == Operands(c, env, s)
        made == [Node("TERNARYEXPRESSION") EXCEPT !.type = Bool, !.parts = <<o.l, o.r>>]
    IN  IF ~o.bound THEN o.unbound
        ELSE IF <<o.l.type, o.r.type>> # <<Bool, Bool>> THEN Error(o.c, s)
        ELSE Returns(o.c, made)

BindCast(c, env, s) ==
    LET o == Operands(c, env, s) IN
    IF ~o.bound THEN o.unbound
    ELSE IF o.r.kind # "TYPE" THEN Error(o.c, s)
    ELSE Returns(o.c, [Node("CAST") EXCEPT !.type = o.r.type, !.parts = <<o.l>>])

BindBinaryExpression(c, env, s) ==
    LET o == Operands(c, env, s)
        types == Coerced(s[2], o.l, o.r)
        type == Signature(s[2], types[1], types[2])
        constant == IsConstant(o.l) /\ IsConstant(o.r)
        recast == (types[1] # o.l.type /\ ~o.l.mark) \/ (types[2] # o.r.type /\ ~o.r.mark)
        lost == (constant /\ s[2] # ".." /\ ~Evaluated(s[2], types[1])) \/ recast
        made == [Node("BINARYEXPRESSION") EXCEPT !.name = s[2], !.type = type, !.parts = <<o.l, o.r>>]
    IN  IF ~o.bound THEN o.unbound
        ELSE IF type = NoType THEN Error(o.c, s)
        ELSE Returns(Strays(o.c, When(lost, "evaluator")),
                     IF constant /\ s[2] # ".." THEN ConstantOf(type) ELSE made)

BindUnaryExpression(c, env, s) ==
    LET o == Bind(c, env, s[3])
        type == UnaryType(s[2], o.node.type)
        proper == UnaryProper(s[2], o.node.type)
        made == [Node("UNARYEXPRESSION") EXCEPT !.name = s[2], !.type = type, !.parts = <<o.node>>]
    IN  IF IsUnbound(o.node) THEN Unbound(o, s)
        ELSE IF type = NoType THEN Error(o, s)
        ELSE IF IsConstant(o.node) THEN Returns(o, ConstantOf(proper))
        ELSE Returns(Strays(o, When(type # proper, "unary") \cup When(HasUnbound(o.node), "inner")), made)

-----------------------------------------------------------------------------
(* Statements.                                                                 *)

(* The declaration is the one that is found, or the one that is initialised.   *)
Assign(c, env, s, decl) ==
    LET type == Follow(c.types, decl.type, Tail(s[2]))
        e == Bind(c, env, s[3])
    IN  IF decl.type = Void /\ Len(s[2]) > 1 THEN Unbound(Strays(c, {"crash"}), s)
        ELSE IF type = NoType THEN Error(c, s)
        ELSE IF IsUnbound(e.node) THEN CountedUnbound(e, s)
        ELSE IF type \notin {Void, e.node.type} THEN Error(e, s)
        ELSE Returns(e, [Node("ASSIGNMENT") EXCEPT !.name = s[2][1], !.type = e.node.type, !.parts = <<e.node>>])

BindAssignment(c, env, s) ==
    LET decl == Find(env, "VARIABLE_DECL", s[2][1]) IN
    IF decl = << >> THEN CountedUnbound(c, s)
    ELSE Assign(Strays(c, When(decl[1].mark, "constant") \cup Misplaced(env, "VARIABLE_DECL", s[2][1])),
                env, s, decl[1])

(* A declaration and, chained to it, the assignment of its initial value.      *)
Declares(c, env, s, type) ==
    LET decl == [Node("VARIABLE_DECL") EXCEPT !.name = s[2], !.type = type, !.mark = s[1] = "const"]
        a == Assign(c, env, <<"assignment", <<s[2]>>, s[4]>>, decl)
    IN  IF s[4] = Null THEN Returns(Strays(c, When(type = Void, "untyped")), decl)
        ELSE IF IsUnbound(a.node) THEN Unbound(a, s)
        ELSE Returns(Strays(a, When(Void = type /\ a.node.type = Void, "untyped")),
                     [decl EXCEPT !.type = IF type = Void THEN a.node.type ELSE type, !.next = <<a.node>>])

DeclaresConstant(c, env, s, type) ==
    LET e == Bind(c, env, s[4])
        strayed == Strays(e, When(~IsConstant(e.node) /\ e.node.kind # "VARIABLE" /\ e.node.parts # << >>
                                  /\ \A i \in DOMAIN e.node.parts : IsConstant(e.node.parts[i]), "evaluator"))
        const == [Node("CONST") EXCEPT !.name = s[2], !.type = e.node.type, !.parts = <<e.node>>]
    IN  IF IsUnbound(e.node) THEN Unbound(e, s)
        ELSE IF ~IsConstant(e.node) THEN Declares(strayed, env, s, type)
        ELSE IF type \notin {Void, e.node.type} THEN Error(e, s)
        ELSE Returns(e, const)

BindVariableDecl(c, env, s) ==
    LET type == IF s[3] = Null THEN Void ELSE ResolveType(c.types, s[3])
        here(kind) == FindHere(env[1], kind, s[2]) # << >>
        other == Strays(c, When(here("CONST") \/ (here("VARIABLE_DECL") /\ s[1] = "const"), "twice")
                           \cup When(c.late /\ Find(env, "VARIABLE_DECL", s[2]) # << >>, "shadow"))
    IN  IF here("VARIABLE_DECL") THEN Error(c, s)
        ELSE IF type = NoType THEN CountedUnbound(c, s)
        ELSE IF s[1] = "const" THEN DeclaresConstant(other, env, s, type)
        ELSE Declares(other, env, s, type)

(* One statement where no list is: what is chained to it stays out.            *)
BindStatement(c, env, s) ==
    LET b == Bind(c, env, s) IN Strays(b, When(b.node.next # << >>, "initialiser"))

BindIf(c, env, s) ==
    LET inside == <<Frame("IF", "", << >>, << >>)>> \o env
        condition == Bind(c, inside, s[2])
        if_true == BindStatement(condition, inside, s[3])
        if_false == BindStatement(if_true, inside, s[4])
    IN  Returns(if_false, [Node("IF") EXCEPT !.parts = <<condition.node, if_true.node, if_false.node>>])

LabelOf(s) == IF Len(s) = (IF s[1] = "loop" THEN 3 ELSE 4) THEN s[Len(s)] ELSE ""
BindWhile(c, env, s) ==
    LET inside == <<Frame("WHILE", LabelOf(s), << >>, << >>)>> \o env
        condition == Bind(c, inside, s[2])
        statement == BindStatement(condition, inside, s[3])
    IN  Returns(statement, [Node("WHILE") EXCEPT !.name = LabelOf(s), !.parts = <<condition.node, statement.node>>])
BindLoop(c, env, s) ==
    LET inside == <<Frame("LOOP", LabelOf(s), << >>, << >>)>> \o env
        statement == BindStatement(c, inside, s[2])
    IN  Returns(statement, [Node("LOOP") EXCEPT !.name = LabelOf(s), !.parts = <<statement.node>>])

(* The range has to be bound at once.                                          *)
BindFor(c, env, s) ==
    LET range == Bind(c, env, s[3])
        variable == [Node("VARIABLE_DECL") EXCEPT !.name = s[2], !.type = <<range.node.type[2]>>]
        inside == <<Frame("FOR", "", <<variable>>, << >>)>> \o env
        statement == BindStatement(range, inside, s[4])
    IN  IF IsUnbound(range.node) THEN Error(Strays(range, {"for"}), s)
        ELSE IF range.node.type[1] # "range" THEN Error(range, s)
        ELSE Returns(Strays(statement, When(HasUnbound(range.node), "inner")),
                     [Node("FOR") EXCEPT !.parts = <<range.node, variable, statement.node>>])

BindJump(c, env, s) ==
    IF \E i \in DOMAIN env : env[i].kind \in {"LOOP", "WHILE"} /\ env[i].name = s[2]
    THEN Returns(c, [Node("JUMP") EXCEPT !.name = s[2]])
    ELSE Error(c, s)

BindReturn(c, env, s) ==
    LET e == Bind(c, env, s[2]) IN
    Returns(e, [Node("RETURN") EXCEPT !.parts = IF s[2] = Null THEN << >> ELSE <<e.node>>])

-----------------------------------------------------------------------------
(* Definitions.                                                                *)

BindParameter(c, env, s) ==
    LET type == ResolveType(c.types, s[3])
        twice == FindHere(env[1], "VARIABLE_DECL", s[2]) # << >>
    IN  IF type = NoType THEN CountedUnbound(c, s)
        ELSE Returns(Strays(c, When(twice, "twice")), [Node("VARIABLE_DECL") EXCEPT !.name = s[2], !.type = type])

(* context_function_is_main: the error is reported, and the function is made.  *)
IsMain(c, s) ==
    IF s[2] # "main" THEN c
    ELSE IF c.node.type # <<"i32">> \/ s[3] # << >> THEN Returns(Error(c, s), c.node)
    ELSE IF c.main THEN Strays(c, {"crash"})
    ELSE [c EXCEPT !.main = TRUE]

BindFunction(c, env, s) ==
    LET type == ResolveType(c.types, s[4])
        parameters == BindNodes(c, env, Frame("FUNCTION", "", << >>, << >>), s[3], 1)
        inside == <<Frame("FUNCTION", "", parameters.node.parts, << >>)>> \o env
        impl == IF s[6][1] = "body" THEN BindNodes(parameters, inside, Frame("FUNCTION_IMPL", "", << >>, << >>), s[6][2], 1)
                ELSE Returns(parameters, Node("NATIVE_FUNCTION"))
        made == [Node("FUNCTION") EXCEPT !.name = s[2], !.type = type, !.parts = parameters.node.parts \o <<impl.node>>]
        twice == FindHere(env[1], "FUNCTION", s[2]) # << >>
    IN  IF type = NoType THEN CountedUnbound(c, s)
        ELSE IF parameters.unbound > c.unbound THEN Unbound(parameters, s)
        ELSE IsMain(Returns(Strays(impl, When(twice, "twice")), made), s)

(* A structure is registered, and nothing of it stays in the module.           *)
BindStruct(c, env, s) ==
    LET components == BindNodes(c, env, Frame("STRUCT", "", << >>, << >>), s[3], 1)
        parts == components.node.parts
        struct == <<s[2], [i \in DOMAIN parts |-> <<parts[i].name, parts[i].type>>]>>
    IN  IF HasUnbound(components.node) THEN CountedUnbound(components, s)
        ELSE IF ResolveType(c.types, <<"type", s[2], << >> >>) # NoType THEN Error(components, s)
        ELSE [Returns(components, Nothing) EXCEPT !.types = Append(@, struct)]

BindList(c, env, kind, list) == BindNodes(c, env, Frame(kind, "", << >>, << >>), list, 1)

BindExpression(c, env, s) ==
    CASE Kind(s) = "none" -> Returns(c, Nothing)
      [] Kind(s) = "integer" -> Returns(c, Constant("INTEGER", <<s[3]>>, TRUE))
      [] Kind(s) = "bool" -> Returns(c, Constant("BOOL", Bool, TRUE))
      [] Kind(s) = "string" -> Returns(c, Constant("STRING", String, TRUE))
      [] Kind(s) = "type" -> BindType(c, s)
      [] Kind(s) = "variable" -> BindVariable(c, env, s)
      [] Kind(s) = "call" -> BindFunctionCall(c, env, s)
      [] Kind(s) = "unary" -> BindUnaryExpression(c, env, s)
      [] Kind(s) = "binary" -> IF s[2] \in {"&&", "||"} THEN ShortCircuit(c, env, s)
                               ELSE IF s[2] = "as" THEN BindCast(c, env, s)
                               ELSE BindBinaryExpression(c, env, s)
Bind(c, env, s) ==
    CASE Kind(s) = "statement call" -> BindFunctionCall(c, env, s[2])
      [] Kind(s) = "assignment" -> BindAssignment(c, env, s)
      [] Kind(s) \in {"var", "const"} -> BindVariableDecl(c, env, s)
      [] Kind(s) = "label" -> Returns(Strays(c, {"crash"}), Nothing)
      [] Kind(s) \in {"break", "continue"} -> BindJump(c, env, s)
      [] Kind(s) = "if" -> BindIf(c, env, s)
      [] Kind(s) = "while" -> BindWhile(c, env, s)
      [] Kind(s) = "loop" -> BindLoop(c, env, s)
      [] Kind(s) = "for" -> BindFor(c, env, s)
      [] Kind(s) = "return" -> BindReturn(c, env, s)
      [] Kind(s) = "block" -> BindList(c, env, "BLOCK", s[2])
      [] Kind(s) = "module" -> BindList(c, env, "MODULE", s[2])
      [] Kind(s) = "function" -> BindFunction(c, env, s)
      [] Kind(s) = "parameter" -> BindParameter(c, env, s)
      [] Kind(s) = "struct" -> BindStruct(c, env, s)
      [] OTHER -> BindExpression(c, env, s)

(* The nodes of a list. A label names the loop behind it; with nothing behind  *)
(* it the binder follows a NULL.                                               *)
Labelled(list, i) ==
    IF i > 1 /\ Kind(list[i - 1]) = "label" /\ Kind(list[i]) \in {"loop", "while"}
    THEN Append(list[i], list[i - 1][2]) ELSE list[i]
Chain(n) == IF n = Nothing THEN << >> ELSE <<[n EXCEPT !.next = << >>]>> \o n.next
BindNodes(c, env, frame, list, i) ==
    IF i > Len(list) THEN Returns(c, [Node(frame.kind) EXCEPT !.parts = frame.before])
    ELSE LET b == IF Kind(list[i]) = "label" /\ i < Len(list) THEN Returns(c, Nothing)
                  ELSE Bind(c, <<frame>> \o env, Labelled(list, i))
         IN  BindNodes(b, env, [frame EXCEPT !.before = @ \o Chain(b.node)], list, i + 1)

-----------------------------------------------------------------------------
(* A later pass goes where the earlier ones may have left something unbound.   *)

RECURSIVE Rebind(_, _, _), RebindNodes(_, _, _), RebindParts(_, _, _, _)

(* A structure that is registered now is taken out of the list, which makes    *)
(* the loop pass over the node behind it, or follow a NULL at the end. A       *)
(* declaration loses the assignment that is chained to it: the link to the     *)
(* next node is written over it.                                               *)
RebindNodes(c, env, frame) ==
    IF frame.after = << >> THEN Returns(c, [Node(frame.kind) EXCEPT !.parts = frame.before])
    ELSE LET b == Rebind(c, <<frame>> \o env, Head(frame.after))
             strayed == Strays(b, When(b.node = Nothing /\ Len(frame.after) > 1, "skipped")
                                  \cup When(b.node = Nothing /\ Len(frame.after) = 1, "crash")
                                  \cup When(b.node.next # << >>, "initialiser"))
             kept == IF b.node = Nothing THEN << >> ELSE <<[b.node EXCEPT !.next = << >>]>>
         IN  RebindNodes(strayed, env, [frame EXCEPT !.before = @ \o kept, !.after = Tail(@)])
RebindList(c, env, n) ==
    LET b == RebindNodes(c, env, Frame(n.kind, "", << >>, n.parts)) IN Returns(b, [n EXCEPT !.parts = b.node.parts])

\* Mutant: the last part is left as it is.
LeavesLast(c, env, n, i) ==
    IF i >= Len(n.parts) THEN Returns(c, n)
    ELSE LET b == Rebind(c, env, n.parts[i]) IN RebindParts(b, env, [n EXCEPT !.parts[i] = b.node], i + 1)

(* The parts of a node from the i-th on.                                       *)
RebindParts(c, env, n, i) ==
    IF i > Len(n.parts) THEN Returns(c, n)
    ELSE LET b == Rebind(c, env, n.parts[i]) IN RebindParts(b, env, [n EXCEPT !.parts[i] = b.node], i + 1)

Rebind(c, env, n) ==
    LET inside(before) == <<Frame(n.kind, n.name, before, << >>)>> \o env IN
    CASE IsUnbound(n) -> Bind(c, env, n.stmt)
      [] n.kind = "FUNCTION" -> RebindParts(c, inside(Front(n.parts)), n, Len(n.parts))
      [] n.kind = "FOR" -> RebindParts(c, inside(<<n.parts[2]>>), n, 3)
      [] n.kind \in {"IF", "WHILE", "LOOP"} -> RebindParts(c, inside(<< >>), n, 1)
      [] n.kind \in {"ASSIGNMENT", "RETURN"} -> RebindParts(c, env, n, 1)
      [] n.kind \in {"BLOCK", "MODULE", "FUNCTION_IMPL", "FUNCTION_CALL"} -> RebindList(c, env, n)
      [] OTHER -> Returns(c, n)

-----------------------------------------------------------------------------
(* The module of the text is bound before the standard library, whose names it *)
(* finds from the second pass on.                                              *)
BindProgram(program, std) ==
    LET module == Bind(Context, << >>, program)
        import == Bind(module, << >>, std)
    IN  [bound |-> import, module |-> module.node, std |-> import.node, first |-> import.unbound]

RebindProgram(pass) ==
    LET c == [pass.bound EXCEPT !.unbound = 0, !.errors = 0, !.late = TRUE]
        env == <<Frame("PROGRAM", "", pass.std.parts, << >>)>>
        b == Rebind(c, env, pass.module)
    IN  [pass EXCEPT !.bound = b, !.module = b.node]

(* What the binder takes on here: not enumerations, variants, macros, compound *)
(* and conditional expressions, pointers, error types and applied types.       *)
RECURSIVE Bindable(_)
AllBindable(list) == \A i \in DOMAIN list : Bindable(list[i])
Bindable(n) ==
    CASE Kind(n) \in {"enum", "variant", "macro", "compound", "import"} -> FALSE
      [] Kind(n) = "type" -> n[3] = << >>
      [] Kind(n) = "call" -> AllBindable(n[3])
      [] Kind(n) = "statement call" -> Bindable(n[2])
      [] Kind(n) = "unary" -> n[2] \in {"+", "-", "~", "!"} /\ Bindable(n[3])
      [] Kind(n) = "binary" -> n[4] # Null /\ n[2] \in Arithmetic \cup Comparisons \cup {"%", "<<", ">>", "..", "&&", "||", "as"}
                               /\ Bindable(n[3]) /\ Bindable(n[4])
      [] Kind(n) = "assignment" -> Bindable(n[3])
      [] Kind(n) \in {"var", "const", "if", "while"} -> AllBindable(SubSeq(n, IF Kind(n) \in {"if", "while"} THEN 2 ELSE 3, Len(n)))
      [] Kind(n) = "for" -> Bindable(n[3]) /\ Bindable(n[4])
      [] Kind(n) \in {"loop", "return"} -> Bindable(n[2])
      [] Kind(n) \in {"block", "module", "body"} -> AllBindable(n[2])
      [] Kind(n) = "function" -> n[5] = Null /\ AllBindable(n[3]) /\ Bindable(n[4]) /\ Bindable(n[6])
      [] Kind(n) = "struct" -> AllBindable(n[3])
      [] Kind(n) = "parameter" -> Bindable(n[3])
      [] OTHER -> TRUE
==============================================================================
