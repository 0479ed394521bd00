------------------------------- MODULE Parser -------------------------------
(* The parser of Scribble (scribble/src/scribble/parser.c): recursive descent  *)
(* with precedence climbing over the tokens of the lexer.                      *)
(*                                                                             *)
(* A parsing function takes the state of the parser and returns it: where it   *)
(* is in the text, whether it still has something to return (ok; a function    *)
(* that returns NULL clears it, and every later step of the same function is   *)
(* skipped), the node it made, the number of errors it reported, and the       *)
(* missteps it took: the places where what the code does is not what the       *)
(* grammar asks for. The loops of the module and of a function body are steps  *)
(* of a machine, because that is where the parser may fail to end.             *)
EXTENDS Grammar, FiniteSets

CONSTANTS
    Identifier, Number, Quoted,     \* the tokens of these kinds
    Programs,                       \* texts to parse, with the tree meant if there is one
    Std, Libraries,                 \* the standard library, and those the configuration names
    Library                         \* the files there are to import: texts by their quoted names

EndOfFile == "end of file"

(* Words the language keeps to itself (operators of two characters are         *)
(* keywords to the lexer as well: it is not a difference the parser makes,     *)
(* but for the ones it never takes as a prefix).                               *)
Keyword == {"as", "break", "const", "continue", "elif", "else", "enum", "error", "for", "func", "if",
            "import", "in", "loop", "match", "return", "struct", "var", "variant", "while",
            "true", "false"}
LongOperators == {"&=", "|=", "^=", "<<=", ">>=", "-=", "+=", "*=", "/=", "%=", "<<", ">>", "==", ">=",
                  "<=", "&&", "||", "!=", "..", "->", "=>", "--", "++"}
IsSymbol(t) == t \notin Identifier \cup Number \cup Quoted \cup Keyword \cup LongOperators \cup {EndOfFile}

BinaryOperators ==
    { <<"=", 1>>, <<"&=", 1>>, <<"|=", 1>>, <<"^=", 1>>, <<"<<=", 1>>, <<">>=", 1>>, <<"-=", 1>>,
      <<"+=", 1>>, <<"*=", 1>>, <<"/=", 1>>, <<"%=", 1>>, <<"[", 1>>, <<"?", 2>>, <<":", 2>>,
      <<"||", 3>>, <<"&&", 4>>, <<"|", 5>>, <<"^", 6>>, <<"&", 7>>, <<"==", 8>>, <<"!=", 8>>,
      <<"..", 8>>, <<">=", 9>>, <<"<=", 9>>, <<">", 9>>, <<"<", 9>>, <<"<<", 10>>, <<">>", 10>>,
      <<"+", 11>>, <<"-", 11>>, <<"*", 12>>, <<"/", 12>>, <<"%", 12>>, <<"as", 13>>, <<"(", 14>>,
      <<"{", 14>>, <<".", 14>> }
UnaryOperators == {"+", "-", "#", "!", "~", "*", "@", "."}

(* The precedence of a token as a binary operator; -1 when it is none, which   *)
(* no minimum admits.                                                          *)
OperatorForToken(t) == IF \E o \in BinaryOperators : o[1] = t
                       THEN CHOOSE o \in BinaryOperators : o[1] = t
                       ELSE <<"invalid", 0>>
IsBinary(t) == OperatorForToken(t)[1] # "invalid"
Precedence(t) == OperatorForToken(t)[2]

-----------------------------------------------------------------------------
(* The context and its lexer.                                                  *)

Start(text, at) == [text |-> text, at |-> at, ok |-> TRUE, node |-> Null, errors |-> 0, missteps |-> {}]

LexerNext(c) == IF c.at > Len(c.text) THEN EndOfFile ELSE c.text[c.at]
LexerLex(c) == IF c.at > Len(c.text) THEN c ELSE [c EXCEPT !.at = @ + 1]

Fails(c) == [c EXCEPT !.ok = FALSE, !.node = Null]
AddError(c) == [c EXCEPT !.errors = @ + 1]
Misstep(c, kinds) == [c EXCEPT !.missteps = @ \cup kinds]
Makes(c, n) == IF c.ok THEN [c EXCEPT !.node = n] ELSE Fails(c)

Accepts(c, t) == c.ok /\ LexerNext(c) = t
Accept(c, t) == IF Accepts(c, t) THEN LexerLex(c) ELSE c
AcceptIn(c, ts) == c.ok /\ LexerNext(c) \in ts

\* Mutant: whatever is there is taken for what is expected.
TakesAnything(c, ts) == IF ~c.ok THEN c
                        ELSE IF LexerNext(c) = EndOfFile THEN Fails(AddError(c)) ELSE LexerLex(c)
ExpectIn(c, ts) == IF ~c.ok THEN c
                   ELSE IF LexerNext(c) \in ts THEN LexerLex(c)
                   ELSE Fails(AddError(c))
Expect(c, t) == ExpectIn(c, {t})
ExpectIdentifier(c) == ExpectIn(c, Identifier)
ExpectQuotedString(c) == ExpectIn(c, Quoted)

-----------------------------------------------------------------------------
(* The functions that call each other: what they parse, and from where.        *)
RECURSIVE Parse(_, _)
ParseTypeDescr(c) == Parse("type", c)
ParsePrimaryExpression(c) == Parse("primary expression", c)
ParseExpression(c) == Parse("expression", c)
ParseStatement(c) == Parse("statement", c)
ParseMember(c, what) == Parse(what, c)
ParseFunctionDecl(c) == Parse("function", c)
ParseDefinition(c) == Parse("definition", c)

(* Types: a name and, between < and >, the types it is applied to.             *)

RECURSIVE ParseComponents(_, _)
TypeDescr(c) ==
    LET name == ExpectIdentifier(c) IN
    IF Accepts(name, "<") THEN ParseComponents([LexerLex(name) EXCEPT !.node = <<"type", LexerNext(c), << >> >>], LexerNext(c))
    ELSE Makes(name, <<"type", LexerNext(c), << >> >>)
ParseComponents(c, name) ==
    LET sofar == c.node[3]
        one == ParseTypeDescr(c)
        all == Makes(one, <<"type", name, Append(sofar, one.node)>>)
    IN  IF Accepts(all, ">") THEN LexerLex(all)
        ELSE LET comma == Expect(all, ",") IN IF comma.ok THEN ParseComponents(comma, name) ELSE comma
ParseType(c) == IF c.ok THEN ParseTypeDescr(c) ELSE c

(* A type behind a token, if the token is there.                               *)
ParseTypeAfter(c, t) == IF Accepts(c, t) THEN ParseType(LexerLex(c)) ELSE Makes(c, Null)

-----------------------------------------------------------------------------
(* Expressions.                                                                *)

RECURSIVE ParsePath(_, _)
ParsePath(c, names) ==
    IF ~Accepts(c, ".") THEN Makes(c, <<"variable", names>>)
    ELSE LET name == ExpectIdentifier(LexerLex(c)) IN
         IF name.ok THEN ParsePath(name, Append(names, LexerNext(LexerLex(c)))) ELSE name

(* A number takes the identifier behind it for its type, whatever it says:     *)
(* IntegerType_from_name always finds one.                                     *)
ParseNumber(c) ==
    LET n == LexerLex(c) IN
    IF LexerNext(n) \in Identifier
    THEN Makes(Misstep(LexerLex(n), {"swallowed"}), <<"integer", LexerNext(c), LexerNext(n)>>)
    ELSE Makes(n, <<"integer", LexerNext(c), "i32">>)

RECURSIVE ParseExpression1(_, _), Climb(_, _), ParseExpressionList(_, _, _)

ParseCall(c, end) == ParseExpressionList(c, end, << >>)
ParseExpressionList(c, end, list) ==
    IF list = << >> /\ Accepts(c, end) THEN Makes(LexerLex(c), <<"list", << >> >>)
    ELSE LET arg == ParseExpression(c)
             all == Append(list, arg.node)
         IN  IF ~arg.ok THEN arg
             ELSE IF Accepts(arg, end) THEN Makes(LexerLex(arg), <<"list", all>>)
             ELSE LET comma == Expect(arg, ",") IN
                  IF comma.ok THEN ParseExpressionList(comma, end, all) ELSE comma

ParseParenthesised(c) ==
    LET e == ParseExpression(LexerLex(c))
        closed == Expect([e EXCEPT !.ok = TRUE], ")")
    IN  IF e.ok THEN closed ELSE Fails(closed)

ParseName(c) ==
    LET name == ParsePath(LexerLex(c), <<LexerNext(c)>>)
        arguments == ParseCall(LexerLex(name), ")")
    IN  IF Accepts(name, "(") THEN Makes(arguments, <<"call", name.node[2], arguments.node[2]>>)
        ELSE name

ParseUnary(c) ==
    LET operand == ParsePrimaryExpression(LexerLex(c)) IN
    Makes(operand, <<"unary", LexerNext(c), operand.node>>)

ParseCompound(c) ==
    LET list == ParseCall(LexerLex(c), "}") IN Makes(list, <<"compound", list.node[2]>>)

PrimaryExpression(c) ==
    LET t == LexerNext(c) IN
    IF ~c.ok THEN c
    ELSE IF t \in Identifier THEN ParseName(c)
    ELSE IF t \in Number THEN ParseNumber(c)
    ELSE IF t \in Quoted THEN Makes(LexerLex(c), <<"string", t>>)
    ELSE IF t \in {"true", "false"} THEN Makes(LexerLex(c), <<"bool", t>>)
    ELSE IF t = "(" THEN ParseParenthesised(c)
    ELSE IF t = "{" THEN ParseCompound(c)
    ELSE IF IsSymbol(t) /\ t \in UnaryOperators THEN ParseUnary(c)
    ELSE Fails(c)

Expression(c) ==
    LET primary == ParsePrimaryExpression(c) IN
    IF primary.ok THEN ParseExpression1(primary, 0) ELSE primary

\* Mutant: the right operand takes the operators that bind as tight as well.
ClimbsLevel(c, precedence) ==
    LET op == LexerNext(c) IN
    IF c.ok /\ IsBinary(op) /\ Precedence(op) >= precedence
    THEN Climb(ParseExpression1(c, precedence), precedence)
    ELSE c

(* The right operand takes the operators that bind tighter. It may be NULL.    *)
Climb(c, precedence) ==
    LET op == LexerNext(c) IN
    IF c.ok /\ IsBinary(op) /\ Precedence(op) > precedence
    THEN Climb(ParseExpression1(c, precedence + 1), precedence)
    ELSE c

(* The node of an operator, and what may be wrong with it: an operand that is  *)
(* missing, `{' or `(' taken for an operator, and a subscript, which binds     *)
(* loosest of all: of an operation, or in another subscript.                   *)
IsOperation(n) == Kind(n) = "unary" \/ (Kind(n) = "binary" /\ n[2] # "[")
MisstepsOf(op, lhs, rhs) ==
    (IF rhs = Null THEN {"hole"} ELSE {})
    \cup (IF lhs = Null THEN {"crash"} ELSE {})
    \cup (IF op \in {"{", "("} THEN {"bracket"} ELSE {})
    \cup (IF op = "[" /\ IsOperation(lhs) THEN {"subscript"} ELSE {})
Subscripted(c) == IF LexerNext(c) = "[" THEN Misstep(c, {"subscript"}) ELSE c
IsElse(n) == Kind(n) = "binary" /\ n[2] = ":"
MakeBinary(op, lhs, rhs) ==
    IF ~rhs.ok THEN rhs
    ELSE IF op = "?" /\ ~IsElse(rhs.node)
    THEN Fails(AddError(Misstep(rhs, IF rhs.node = Null THEN {"crash"} ELSE {"ternary"})))
    ELSE Makes(Misstep(rhs, MisstepsOf(op, lhs, rhs.node)), <<"binary", op, lhs, rhs.node>>)

ParseExpression1(c, min_precedence) ==
    LET op == LexerNext(c)
        first == IF op = "as" THEN ParseType(LexerLex(c)) ELSE ParsePrimaryExpression(LexerLex(c))
        operand == Climb([first EXCEPT !.ok = TRUE], Precedence(op))
        rhs == IF op = "[" THEN Expect(Subscripted(operand), "]") ELSE operand
        made == MakeBinary(op, c.node, rhs)
    IN  IF ~c.ok \/ ~IsBinary(op) \/ Precedence(op) < min_precedence THEN c
        ELSE IF made.ok THEN ParseExpression1(made, min_precedence) ELSE made

-----------------------------------------------------------------------------
(* Statements. A statement that returns NULL may have reported nothing.        *)

RECURSIVE ParseStatements(_, _)

(* What begins with a name: a call, an assignment, a label; a name alone makes *)
(* nothing.                                                                    *)
ParseIdentifier(c) ==
    LET name == ParsePath(LexerLex(c), <<LexerNext(c)>>)
        arguments == ParseCall(LexerLex(name), ")")
        value == ParseExpression(LexerLex(name))
        call == <<"statement call", <<"call", name.node[2], arguments.node[2]>> >>
        assignment == <<"assignment", name.node[2], value.node>>
    IN  IF ~name.ok THEN name
        ELSE IF Accepts(name, "(") THEN LET end == Expect(arguments, ";") IN Makes(end, call)
        ELSE IF Accepts(name, "=") THEN LET end == Expect(value, ";") IN Makes(end, assignment)
        ELSE IF Accepts(name, ":") THEN Makes(LexerLex(name), <<"label", name.node[2][1]>>)
        ELSE Fails(Expect(name, ";"))

(* A type that cannot be parsed is reported, and the declaration goes on       *)
(* without it.                                                                 *)
ParseVariableDeclaration(c, word) ==
    LET name == ExpectIdentifier(LexerLex(c))
        typed == ParseTypeAfter(name, ":")
        type == IF name.ok THEN [typed EXCEPT !.ok = TRUE] ELSE name
        value == ParseExpression(LexerLex(type))
        end == Expect(IF Accepts(type, "=") THEN value ELSE Makes(type, Null), ";")
    IN  IF name.ok /\ ~Accepts(type, "=") /\ word = "const" THEN Fails(AddError(type))
        ELSE Makes(end, <<word, LexerNext(LexerLex(c)), type.node, end.node>>)

(* What has to be there is reported when it is not.                            *)
Required(c) == IF c.ok THEN c ELSE Fails(AddError(c))

(* An else branch that cannot be parsed is left out.                           *)
ParseIf(c) ==
    LET condition == Required(ParseExpression(LexerLex(c)))
        if_true == Required(ParseStatement(condition))
        if_false == ParseStatement(LexerLex(if_true))
        left_out == IF if_false.ok \/ if_false.errors > if_true.errors THEN {} ELSE {"silent"}
        whole == IF Accepts(if_true, "else")
                 THEN [Misstep(if_false, left_out) EXCEPT !.ok = TRUE]
                 ELSE Makes(if_true, Null)
    IN  IF ~condition.ok THEN condition
        ELSE IF ~if_true.ok THEN if_true
        ELSE Makes(whole, <<"if", condition.node, if_true.node, whole.node>>)

ParseFor(c) ==
    LET variable == ExpectIdentifier(LexerLex(c))
        in == Expect(variable, "in")
        range == Required(ParseExpression(in))
        statement == Required(ParseStatement(range))
    IN  IF ~in.ok THEN in
        ELSE IF ~range.ok THEN range
        ELSE Makes(statement, <<"for", LexerNext(LexerLex(c)), range.node, statement.node>>)

ParseWhile(c) ==
    LET condition == Required(ParseExpression(LexerLex(c)))
        statement == Required(ParseStatement(condition))
    IN  IF ~condition.ok THEN condition
        ELSE Makes(statement, <<"while", condition.node, statement.node>>)

ParseLoop(c) ==
    LET statement == Required(ParseStatement(LexerLex(c))) IN Makes(statement, <<"loop", statement.node>>)

ParseReturn(c) ==
    LET return == LexerLex(c)
        value == ParseExpression(return)
    IN  IF Accepts(return, ";") THEN Makes(LexerLex(return), <<"return", Null>>)
        ELSE Makes(Expect(value, ";"), <<"return", value.node>>)

ParseJump(c, word) ==
    LET label == ExpectIdentifier(LexerLex(c)) IN
    Makes(Expect(label, ";"), <<word, LexerNext(LexerLex(c))>>)

ParseBlock(c) == ParseStatements(LexerLex(c), << >>)
ParseStatements(c, list) ==
    IF Accepts(c, "}") THEN Makes(LexerLex(c), <<"block", list>>)
    ELSE IF Accepts(c, EndOfFile) THEN Fails(AddError(c))
    ELSE LET statement == ParseStatement(c) IN
         IF statement.ok THEN ParseStatements(statement, Append(list, statement.node)) ELSE statement

(* A keyword that starts no statement stops the program.                       *)
Statement(c) ==
    LET t == LexerNext(c) IN
    IF ~c.ok THEN c
    ELSE IF t = "{" THEN ParseBlock(c)
    ELSE IF t \in {"break", "continue"} THEN ParseJump(c, t)
    ELSE IF t \in {"const", "var"} THEN ParseVariableDeclaration(c, t)
    ELSE IF t = "if" THEN ParseIf(c)
    ELSE IF t = "for" THEN ParseFor(c)
    ELSE IF t = "loop" THEN ParseLoop(c)
    ELSE IF t = "return" THEN ParseReturn(c)
    ELSE IF t = "while" THEN ParseWhile(c)
    ELSE IF t \in Keyword \cup LongOperators THEN Fails(Misstep(c, {"fatal"}))
    ELSE IF t \in Identifier THEN ParseIdentifier(c)
    ELSE Fails(AddError(c))

-----------------------------------------------------------------------------
(* Functions up to their bodies, and the other definitions.                    *)

ParseParam(c) ==
    LET name == ExpectIdentifier(c)
        type == ParseType(Expect(name, ":"))
    IN  Makes(type, <<"parameter", LexerNext(c), type.node>>)

(* Members separated by commas up to the end token. A definition's list may be *)
(* empty or end in a comma; the parameters of a function may not.              *)
RECURSIVE ParseMembers(_, _, _, _)
Member(c, what) ==
    LET name == ExpectIdentifier(c)
        payload == IF Accepts(name, "(") THEN Expect(ParseType(LexerLex(name)), ")") ELSE Makes(name, Null)
        with == IF what = "option" THEN payload ELSE name
        value == IF Accepts(with, "=") THEN ParseExpression(LexerLex(with)) ELSE Makes(with, Null)
    IN  IF what = "parameter" THEN ParseParam(c)
        ELSE IF what = "value" THEN Makes(value, <<"value", LexerNext(c), value.node>>)
        ELSE Makes(value, <<"option", LexerNext(c), payload.node, value.node>>)
ParseMembers(c, what, end, list) ==
    IF Accepts(c, end) /\ (what # "parameter" \/ list = << >> \/ end = "}") THEN Makes(LexerLex(c), <<"list", list>>)
    ELSE LET member == ParseMember(c, what)
             all == Append(list, member.node)
         IN  IF ~member.ok THEN member
             ELSE IF Accepts(member, end) THEN Makes(LexerLex(member), <<"list", all>>)
             ELSE LET comma == Expect(member, ",") IN
                  IF comma.ok THEN ParseMembers(comma, what, end, all) ELSE comma

ParseParameters(c) == ParseMembers(Expect(c, "("), "parameter", ")", << >>)
ParseReturnTypes(c) ==
    LET return == ParseType(Expect(c, ":"))
        error == ParseTypeAfter(return, "/")
    IN  Makes(error, <<"types", return.node, error.node>>)

(* The node of a function without what implements it.                          *)
FunctionDecl(c) ==
    LET name == ExpectIdentifier(LexerLex(c))
        parameters == ParseParameters(name)
        types == ParseReturnTypes(parameters)
    IN  IF ~name.ok THEN name
        ELSE IF ~parameters.ok THEN parameters
        ELSE Makes(types, <<"function", LexerNext(LexerLex(c)), parameters.node[2], types.node[2], types.node[3], Null>>)

Implemented(function, impl) == [function EXCEPT ![6] = impl]
ParseBinding(c, kind) ==
    LET name == ExpectQuotedString(LexerLex(c)) IN
    Makes(Expect(name, ";"), Implemented(c.node, <<kind, LexerNext(LexerLex(c))>>))

ParseEnumDef(c) ==
    LET name == ExpectIdentifier(LexerLex(c))
        type == ParseTypeAfter(name, ":")
        values == ParseMembers(Expect(type, "{"), "value", "}", << >>)
        end == Expect(values, ";")
    IN  Makes(end, <<"enum", LexerNext(LexerLex(c)), type.node, values.node[2]>>)

ParseStructDef(c) ==
    LET name == ExpectIdentifier(LexerLex(c))
        components == ParseMembers(Expect(name, "{"), "parameter", "}", << >>)
        end == Expect(components, ";")
    IN  Makes(end, <<"struct", LexerNext(LexerLex(c)), components.node[2]>>)

(* The type a variant is made of is not missed when it cannot be parsed.       *)
ParseVariantDef(c) ==
    LET name == ExpectIdentifier(LexerLex(c))
        typed == ParseTypeAfter(name, ":")
        type == IF name.ok THEN [typed EXCEPT !.ok = TRUE] ELSE name
        options == ParseMembers(Expect(type, "{"), "option", "}", << >>)
        end == Expect(options, ";")
    IN  Makes(end, <<"variant", LexerNext(LexerLex(c)), type.node, options.node[2]>>)

(* One definition, but for a function with a body and an import.               *)
Definition(c) ==
    LET t == LexerNext(c)
        declared == ParseFunctionDecl(c)
    IN  CASE t = "enum" -> ParseEnumDef(c)
          [] t = "struct" -> ParseStructDef(c)
          [] t = "variant" -> ParseVariantDef(c)
          [] t \in {"const", "var"} -> ParseVariableDeclaration(c, t)
          [] t = "func" -> IF Accepts(declared, "->") THEN ParseBinding(declared, "native")
                           ELSE IF Accepts(declared, "=>") THEN ParseBinding(declared, "macro")
                           ELSE IF declared.ok THEN Fails(AddError(declared)) ELSE declared
          [] OTHER -> Fails(c)

Parse(what, c) ==
    CASE what = "type" -> TypeDescr(c)
      [] what = "primary expression" -> PrimaryExpression(c)
      [] what = "expression" -> Expression(c)
      [] what = "statement" -> Statement(c)
      [] what \in {"parameter", "value", "option"} -> Member(c, what)
      [] what = "function" -> FunctionDecl(c)
      [] what = "definition" -> Definition(c)

-----------------------------------------------------------------------------
(* The machine: the modules of a program one after the other, the definitions  *)
(* of a module, the statements of a function.                                  *)

VARIABLES
    program,    \* the text that is parsed and the nodes it was written from, if any
    todo,       \* the packages that are still to be imported first
    lexers,     \* the modules that are being parsed, the importing one below the imported
    context,    \* ctx->lexer: the lexer of this module; none when it has returned
    function,   \* the function whose body is being parsed
    imports,    \* program.imports, with their modules
    module,     \* what was made of the text itself
    errors, missteps, fate
vars == <<program, todo, lexers, context, function, imports, module, errors, missteps, fate>>

Running == fate = "running"
Top == lexers[Len(lexers)]
Here == Start(Top.text, Top.at)
AtEnd == lexers # << >> /\ LexerNext(Here) = EndOfFile
InModule == Running /\ lexers # << >> /\ function = Null
InBody == Running /\ function # Null

Init ==
    /\ program \in Programs
    /\ todo \in {<< >>, Std \o Libraries}
    /\ lexers = << >> /\ context = 0 /\ function = Null
    /\ imports = << >> /\ module = Null
    /\ errors = FALSE /\ missteps = {} /\ fate = "running"

(* The parser is where c is, with these nodes in the module.                   *)
Goes(c, items) ==
    /\ lexers' = [lexers EXCEPT ![Len(lexers)].at = c.at, ![Len(lexers)].turns = @ + 1,
                                ![Len(lexers)].items = items]
    /\ errors' = (errors \/ c.errors > 0)
    /\ missteps' = missteps \cup c.missteps
    /\ fate' = IF c.missteps \cap {"crash", "fatal"} # {} THEN "dead"
               ELSE IF "endless" \in c.missteps THEN "endless"
               ELSE fate

Module(name, text) == [name |-> name, text |-> text, at |-> 1, turns |-> 0, items |-> << >>]

Opens(name, text) ==
    /\ lexers' = Append(lexers, Module(name, text))
    /\ context' = Len(lexers) + 1

(* import_package, for the packages the configuration asks for.                *)
ImportPackage ==
    /\ Running /\ lexers = << >> /\ todo # << >>
    /\ todo' = Tail(todo)
    /\ IF Head(todo) \in DOMAIN Library
       THEN Opens(Head(todo), Library[Head(todo)]) /\ UNCHANGED errors
       ELSE errors' = TRUE /\ UNCHANGED <<lexers, context>>
    /\ UNCHANGED <<program, function, imports, module, missteps, fate>>

ParseText ==
    /\ Running /\ lexers = << >> /\ todo = << >>
    /\ Opens("text", program.text)
    /\ UNCHANGED <<program, todo, function, imports, module, errors, missteps, fate>>

(* From here on the functions go by ctx->lexer. Importing a package leaves it  *)
(* with the lexer of the package, which is gone.                               *)
Dangling == context # Len(lexers)
Starts == {"func", "enum", "struct", "variant", "import", "const", "var"}
UsesDeadLexer ==
    /\ InModule /\ Dangling /\ LexerNext(Here) \in Starts
    /\ missteps' = missteps \cup {"dangling"} /\ fate' = "dead"
    /\ UNCHANGED <<program, todo, lexers, context, function, imports, module, errors>>

(* After a definition that could not be parsed: the first of these keywords,   *)
(* not counting the token the parser is at.                                    *)
Resumes == {"import", "func", "struct", "var", "const", EndOfFile}
RECURSIVE SkipTo(_, _)
SkipTo(c, ts) == IF LexerNext(c) \in ts THEN c ELSE SkipTo(LexerLex(c), ts)
Recovered(c) == AddError(SkipTo(LexerLex(c), Resumes))

HasBody == LexerNext(Here) = "func" /\ Accepts(ParseFunctionDecl(Here), "{")
ModuleItem ==
    /\ InModule /\ ~AtEnd /\ LexerNext(Here) # "import" /\ ~HasBody
    /\ ~(Dangling /\ LexerNext(Here) \in Starts)
    /\ LET c == ParseDefinition(Here) IN
       IF c.ok THEN Goes(c, Append(Top.items, c.node)) ELSE Goes(Recovered(c), Top.items)
    /\ UNCHANGED <<program, todo, context, function, imports, module>>

OpenBody ==
    /\ InModule /\ HasBody /\ ~Dangling
    /\ LET c == ParseFunctionDecl(Here) IN
       /\ function' = Implemented(c.node, <<"body", << >> >>)
       /\ Goes(LexerLex(c), Top.items)
    /\ UNCHANGED <<program, todo, context, imports, module>>

\* Mutant: the end of the statement that is skipped stays.
StaysAtEnd(c) == SkipTo(c, {";", "}", EndOfFile})

(* A statement that cannot be parsed is skipped up to the end of a statement.  *)
(* The end of the file ends it as well, but not the body, which goes on for    *)
(* ever there.                                                                 *)
RecoveredStatement(c) ==
    LET end == SkipTo(c, {";", "}", EndOfFile})
        silent == IF c.errors = 0 THEN {"silent"} ELSE {}
        endless == IF LexerNext(end) = EndOfFile THEN {"endless"} ELSE {}
    IN  Misstep(LexerLex(end), silent \cup endless)
BodyStatement ==
    /\ InBody /\ LexerNext(Here) # "}"
    /\ LET c == ParseStatement(Here) IN
       /\ function' = IF c.ok THEN Implemented(function, <<"body", Append(function[6][2], c.node)>>) ELSE function
       /\ Goes(IF c.ok THEN c ELSE RecoveredStatement(c), Top.items)
    /\ UNCHANGED <<program, todo, context, imports, module>>

CloseBody ==
    /\ InBody /\ LexerNext(Here) = "}"
    /\ Goes(LexerLex(Here), Append(Top.items, function))
    /\ function' = Null
    /\ UNCHANGED <<program, todo, context, imports, module>>

(* import_package, from a module that imports.                                 *)
ParseImport ==
    /\ InModule /\ LexerNext(Here) = "import" /\ ~Dangling
    /\ LET name == ExpectQuotedString(LexerLex(Here))
           c == Expect(name, ";")
           path == LexerNext(LexerLex(Here))
           found == c.ok /\ path \in DOMAIN Library
       IN  IF found
           THEN /\ lexers' = Append([lexers EXCEPT ![Len(lexers)].at = c.at, ![Len(lexers)].turns = @ + 1],
                                    Module(path, Library[path]))
                /\ context' = Len(lexers) + 1
                /\ UNCHANGED <<errors, missteps, fate>>
           ELSE Goes(Recovered(IF c.ok THEN Fails(AddError(c)) ELSE c), Top.items) /\ UNCHANGED context
    /\ UNCHANGED <<program, todo, function, imports, module>>

(* The end of a module. An import is chained before the other imports of the   *)
(* program, and by the same link in the module that asked for it: what was     *)
(* imported before follows it there.                                           *)
Chained(items) ==
    IF items # << >> /\ Kind(items[Len(items)]) = "import"
    THEN items \o [i \in 1..Len(imports) - 1 |-> SubSeq(imports[i + 1], 1, 2)] ELSE items
FinishModule ==
    /\ InModule /\ AtEnd
    /\ LET below == SubSeq(lexers, 1, Len(lexers) - 1)
           import == <<"import", Top.name>>
           items == Chained(Top.items)
       IN  /\ missteps' = IF items = Top.items THEN missteps ELSE missteps \cup {"shared"}
           /\ IF Top.name = "text"
              THEN module' = <<"module", items>> /\ fate' = "done" /\ UNCHANGED imports
              ELSE imports' = <<Append(import, <<"module", items>>)>> \o imports /\ UNCHANGED <<module, fate>>
           /\ lexers' = IF below = << >> THEN << >>
                        ELSE [below EXCEPT ![Len(below)].items = Append(@, import)]
    /\ UNCHANGED <<program, todo, context, function, errors>>

Next == \/ ImportPackage \/ ParseText \/ UsesDeadLexer \/ ModuleItem \/ OpenBody
        \/ BodyStatement \/ CloseBody \/ ParseImport \/ FinishModule
Spec == Init /\ [][Next]_vars

-----------------------------------------------------------------------------
(* A text that is accepted is taken as a whole: but for redundant parentheses  *)
(* and commas, its tokens are those of the tree that was made of it. Whatever  *)
(* a parsing function skips, swallows or drops without a word would break it.  *)
AcceptedIsWhole ==
    fate = "done" /\ ~errors /\ missteps = {} => Words(All(module[2])) = Words(program.text)

(* A program that is written down from a tree, with the parentheses C needs,   *)
(* is accepted and gives back that tree.                                       *)
ParsedAsMeant ==
    fate = "done" /\ missteps = {} /\ program.meant # Null => ~errors /\ module = program.meant

(* The parser comes to an end on any text, unless the text ends inside a       *)
(* function: every turn of the loops over the definitions of a module and the  *)
(* statements of a function takes at least one token, failed ones included.    *)
EveryTurnTakes == \A i \in DOMAIN lexers : lexers[i].turns < lexers[i].at

(* The programs of the test suite are accepted.                                *)
SuiteIsAccepted == fate # "running" => fate = "done" /\ ~errors
=============================================================================
