------------------------------ MODULE Language ------------------------------
(* When a Scribble program makes sense: the reference the binder is compared   *)
(* with. Names mean what the innermost scope around them says; a declaration   *)
(* comes before its use, save for functions, structures and the variables of   *)
(* the module, whose order does not matter. The types of operators are the     *)
(* tables of the binder; conditions, arguments and returned values may have    *)
(* any type.                                                                   *)
EXTENDS Binder

(* A world: the structures and functions there are. Scopes, innermost first,   *)
(* are sequences of what they declare: a name, its type, and whether it is a   *)
(* variable, fixed, or a literal constant.                                     *)
Lookup(scopes, name) == SelectSeq(FlattenSeq(scopes), LAMBDA entry : entry[1] = name)
Declared(scopes, name) == SelectSeq(Head(scopes), LAMBDA entry : entry[1] = name) # << >>
Declare(scopes, entry) == <<Append(Head(scopes), entry)>> \o Tail(scopes)

RECURSIVE IsLiteral(_, _), TypeOf(_, _, _)

IsLiteral(scopes, e) ==
    CASE Kind(e) \in {"integer", "bool", "string"} -> TRUE
      [] Kind(e) = "variable" -> Len(e[2]) = 1 /\ Lookup(scopes, e[2][1]) # << >> /\ Lookup(scopes, e[2][1])[1][3] = "literal"
      [] Kind(e) = "unary" -> IsLiteral(scopes, e[3])
      [] Kind(e) = "binary" -> e[2] \notin {"..", "as", "&&", "||"} /\ IsLiteral(scopes, e[3]) /\ IsLiteral(scopes, e[4])
      [] OTHER -> FALSE

(* The types an operator may be applied to: those of its operands, and where   *)
(* one of two integers is a literal, the type of the other.                    *)
Readings(scopes, e, l, r) ==
    {<<l, r>>} \cup (IF ~IsInteger(l) \/ ~IsInteger(r) THEN {}
                     ELSE (IF IsLiteral(scopes, e[4]) THEN {<<l, l>>} ELSE {})
                          \cup (IF IsLiteral(scopes, e[3]) THEN {<<r, r>>} ELSE {}))
BinaryTypeOf(scopes, e, l, r) ==
    LET types == { Signature(e[2], x[1], x[2]) : x \in Readings(scopes, e, l, r) } \ {NoType} IN
    IF types = {} THEN NoType ELSE CHOOSE t \in types : TRUE

(* The type of an expression, none when it makes no sense.                     *)
TypeOf(world, scopes, e) ==
    LET of(x) == TypeOf(world, scopes, x)
        found == Lookup(scopes, e[2][1])
        function == SelectSeq(world.functions, LAMBDA f : f[1] = e[2][1])
        sane == \A i \in DOMAIN e[3] : of(e[3][i]) # NoType
    IN  CASE Kind(e) = "integer" -> <<e[3]>>
          [] Kind(e) = "bool" -> Bool
          [] Kind(e) = "string" -> String
          [] Kind(e) = "variable" -> IF found = << >> THEN NoType ELSE Follow(world.structs, found[1][2], Tail(e[2]))
          [] Kind(e) = "call" -> IF function = << >> \/ Len(e[2]) > 1 \/ ~sane THEN NoType ELSE function[1][2]
          [] Kind(e) = "unary" -> UnaryProper(e[2], of(e[3]))
          [] Kind(e) = "binary" /\ e[2] = "as" ->
                 IF of(e[3]) = NoType \/ Kind(e[4]) # "type" THEN NoType ELSE ResolveType(world.structs, e[4])
          [] Kind(e) = "binary" /\ e[2] \in {"&&", "||"} ->
                 IF of(e[3]) = Bool /\ of(e[4]) = Bool THEN Bool ELSE NoType
          [] Kind(e) = "binary" /\ e[2] \notin {"as", "&&", "||"} ->
                 IF of(e[3]) = NoType \/ of(e[4]) = NoType THEN NoType ELSE BinaryTypeOf(scopes, e, of(e[3]), of(e[4]))
          [] OTHER -> NoType

(* The scopes after a statement; none when it makes no sense. A label names    *)
(* the loop behind it, and a jump names a loop around it.                      *)
Wrong == << >>
Enter(scopes) == << << >> >> \o scopes
Sensible(condition, scopes) == IF condition THEN scopes ELSE Wrong

RECURSIVE After(_, _, _, _), AfterAll(_, _, _, _, _)

AfterDeclaration(world, scopes, s) ==
    LET value == IF s[4] = Null THEN Void ELSE TypeOf(world, scopes, s[4])
        type == IF s[3] = Null THEN value ELSE ResolveType(world.structs, s[3])
        kind == IF s[1] = "var" THEN "variable" ELSE IF IsLiteral(scopes, s[4]) THEN "literal" ELSE "fixed"
    IN  Sensible(NoType \notin {value, type} /\ (s[4] = Null \/ type = value) /\ ~Declared(scopes, s[2]),
            Declare(scopes, <<s[2], type, kind>>))

AfterAssignment(world, scopes, s) ==
    LET found == Lookup(scopes, s[2][1])
        type == TypeOf(world, scopes, s[3])
    IN  Sensible(found # << >> /\ found[1][3] = "variable" /\ type # NoType
            /\ Follow(world.structs, found[1][2], Tail(s[2])) = type, scopes)

(* Statements of their own, in a scope of their own.                           *)
Sane(world, scopes, labels, s) == s = Null \/ After(world, Enter(scopes), labels, s) # Wrong
After(world, scopes, labels, s) ==
    LET typed(e) == TypeOf(world, scopes, e) # NoType
        range == TypeOf(world, scopes, s[3])
        variable == << << <<s[2], <<range[2]>>, "variable">> >> >>
    IN  CASE Kind(s) = "statement call" -> Sensible(typed(s[2]), scopes)
          [] Kind(s) = "assignment" -> AfterAssignment(world, scopes, s)
          [] Kind(s) \in {"var", "const"} -> AfterDeclaration(world, scopes, s)
          [] Kind(s) \in {"break", "continue"} -> Sensible(s[2] \in labels, scopes)
          [] Kind(s) = "if" -> Sensible(typed(s[2]) /\ Sane(world, scopes, labels, s[3]) /\ Sane(world, scopes, labels, s[4]), scopes)
          [] Kind(s) = "while" -> Sensible(typed(s[2]) /\ Sane(world, scopes, labels, s[3]), scopes)
          [] Kind(s) = "loop" -> Sensible(Sane(world, scopes, labels, s[2]), scopes)
          [] Kind(s) = "for" -> Sensible(range[1] = "range" /\ After(world, variable \o scopes, labels, s[4]) # Wrong, scopes)
          [] Kind(s) = "return" -> Sensible(s[2] = Null \/ typed(s[2]), scopes)
          [] Kind(s) = "block" -> Sensible(AfterAll(world, Enter(scopes), labels, s[2], 1) # Wrong, scopes)
          [] OTHER -> Wrong

AfterAll(world, scopes, labels, list, i) ==
    LET named == IF i > 1 /\ Kind(list[i - 1]) = "label" /\ Kind(list[i]) \in {"loop", "while"} THEN {list[i - 1][2]} ELSE {}
        next == IF Kind(list[i]) = "label" /\ i < Len(list) THEN scopes
                ELSE After(world, scopes, labels \cup named, list[i])
    IN  IF i > Len(list) \/ scopes = Wrong THEN scopes ELSE AfterAll(world, next, labels, list, i + 1)

-----------------------------------------------------------------------------
Of(items, kinds) == SelectSeq(items, LAMBDA n : Kind(n) \in kinds)
Distinct(nodes) == \A i, j \in DOMAIN nodes : i # j => nodes[i][2] # nodes[j][2]

(* The structures whose components have types, whatever their order: as many   *)
(* rounds as there are structures.                                             *)
RECURSIVE Structures(_, _, _)
Structures(structs, known, rounds) ==
    LET typed(s) == \A i \in DOMAIN s[3] : ResolveType(known, s[3][i][3]) # NoType
        entry(s) == <<s[2], [i \in DOMAIN s[3] |-> <<s[3][i][2], ResolveType(known, s[3][i][3])>>]>>
        found == SelectSeq(structs, typed)
    IN  IF rounds = 0 THEN known ELSE Structures(structs, [i \in DOMAIN found |-> entry(found[i])], rounds - 1)

FunctionIsSane(world, globals, f) ==
    LET parameters == << [i \in DOMAIN f[3] |-> <<f[3][i][2], ResolveType(world.structs, f[3][i][3]), "variable">>] >>
    IN  /\ Distinct(f[3])
        /\ \A i \in DOMAIN f[3] : ResolveType(world.structs, f[3][i][3]) # NoType
        /\ ResolveType(world.structs, f[4]) # NoType
        /\ f[2] = "main" => ResolveType(world.structs, f[4]) = <<"i32">> /\ f[3] = << >>
        /\ Kind(f[6]) = "body" => AfterAll(world, Enter(parameters \o globals), {}, f[6][2], 1) # Wrong

WellFormed(module, std) ==
    LET structs == Of(module[2], {"struct"})
        known == Structures(structs, << >>, Len(structs))
        functions == Of(module[2], {"function"})
        all == functions \o Of(std[2], {"function"})
        world == [structs |-> known, functions |-> [i \in DOMAIN all |-> <<all[i][2], ResolveType(known, all[i][4])>>]]
        globals == AfterAll(world, Enter(<< >>), {}, Of(module[2], {"var", "const"}), 1)
    IN  /\ Len(known) = Len(structs) /\ Distinct(structs) /\ Distinct(functions)
        /\ \A i \in DOMAIN structs : ResolveType(<< >>, <<"type", structs[i][2], << >> >>) = NoType
        /\ globals # Wrong
        /\ \A i \in DOMAIN functions : FunctionIsSane(world, globals, functions[i])

-----------------------------------------------------------------------------
(* What a function does, statement by statement, as it is written and as it is *)
(* bound: a declaration with an initial value is one and the assignment of it. *)
RECURSIVE Written(_), Outline(_)
WrittenAll(list) == FlattenSeq([i \in DOMAIN list |-> Written(list[i])])
Written(s) ==
    CASE Kind(s) \in {"var", "const"} -> <<(<<"declares", s[2]>>)>> \o (IF s[4] = Null THEN << >> ELSE <<(<<"assigns", s[2]>>)>>)
      [] Kind(s) = "assignment" -> <<(<<"assigns", s[2][1]>>)>>
      [] Kind(s) = "statement call" -> <<(<<"calls", s[2][2][1]>>)>>
      [] Kind(s) \in {"break", "continue"} -> <<(<<"jumps", s[2]>>)>>
      [] Kind(s) = "if" -> <<(<<"if", Written(s[3]), Written(s[4])>>)>>
      [] Kind(s) = "while" -> <<(<<"while", Written(s[3])>>)>>
      [] Kind(s) = "loop" -> <<(<<"loop", Written(s[2])>>)>>
      [] Kind(s) = "for" -> <<(<<"for", Written(s[4])>>)>>
      [] Kind(s) = "return" -> <<(<<"returns">>)>>
      [] Kind(s) = "block" -> <<(<<"block", WrittenAll(s[2])>>)>>
      [] Kind(s) = "module" -> WrittenAll(s[2])
      [] Kind(s) = "function" -> <<(<<"function", s[2], IF Kind(s[6]) = "body" THEN WrittenAll(s[6][2]) ELSE << >> >>)>>
      [] OTHER -> << >>

OutlineAll(nodes) == FlattenSeq([i \in DOMAIN nodes |-> Outline(nodes[i])])
Outline(n) ==
    CASE n.kind = "VARIABLE_DECL" -> <<(<<"declares", n.name>>)>> \o OutlineAll(n.next)
      [] n.kind = "CONST" -> <<(<<"declares", n.name>>), <<"assigns", n.name>> >>
      [] n.kind = "ASSIGNMENT" -> <<(<<"assigns", n.name>>)>>
      [] n.kind = "FUNCTION_CALL" -> <<(<<"calls", n.name>>)>>
      [] n.kind = "JUMP" -> <<(<<"jumps", n.name>>)>>
      [] n.kind = "IF" -> <<(<<"if", Outline(n.parts[2]), Outline(n.parts[3])>>)>>
      [] n.kind = "WHILE" -> <<(<<"while", Outline(n.parts[2])>>)>>
      [] n.kind = "LOOP" -> <<(<<"loop", Outline(n.parts[1])>>)>>
      [] n.kind = "FOR" -> <<(<<"for", Outline(n.parts[3])>>)>>
      [] n.kind = "RETURN" -> <<(<<"returns">>)>>
      [] n.kind = "BLOCK" -> <<(<<"block", OutlineAll(n.parts)>>)>>
      [] n.kind = "MODULE" -> OutlineAll(n.parts)
      [] n.kind = "FUNCTION" -> <<(<<"function", n.name, OutlineAll(Last(n.parts).parts)>>)>>
      [] OTHER -> << >>
=============================================================================
