------------------------------- MODULE Grammar -------------------------------
(* How a Scribble program is written: the reference the parser is compared     *)
(* with. A node is a tuple that starts with its kind; Null stands for a node   *)
(* that is not there. Text gives the tokens of a node, with the parentheses    *)
(* that the precedences of C (which op.h:12 refers to) ask for and no others.  *)
EXTENDS Naturals, Sequences, SequencesExt

Null == <<"none">>
Kind(n) == n[1]

Commas(texts) == FoldLeft(LAMBDA all, t : IF all = << >> THEN t ELSE all \o <<",">> \o t,
                          << >>, texts)
Dots(names) == FoldLeft(LAMBDA all, t : IF all = << >> THEN <<t>> ELSE all \o <<".", t>>,
                        << >>, names)

(* The binary operators of C from loose to tight; a range compares.            *)
Levels == << {"=", "&=", "|=", "^=", "<<=", ">>=", "-=", "+=", "*=", "/=", "%="}, {"||"}, {"&&"}, {"|"}, {"^"}, {"&"}, {"==", "!=", ".."}, {"<", "<=", ">", ">="},
             {"<<", ">>"}, {"+", "-"}, {"*", "/", "%"}, {"as"}, {"."} >>
Level(op) == CHOOSE i \in 1..Len(Levels) : op \in Levels[i]
Prefix == Len(Levels) + 1
Postfix == Prefix + 1
ElseLevel == 0

(* A conditional is written with `:' inside `?', as the parser makes it.       *)
LevelOf(e) == IF Kind(e) = "unary" THEN Prefix
              ELSE IF Kind(e) # "binary" THEN Postfix
              ELSE IF e[2] \in {"?", ":"} THEN ElseLevel
              ELSE IF e[2] = "[" THEN Postfix
              ELSE Level(e[2])

RECURSIVE Text(_)
Operand(e, level) == IF LevelOf(e) < level THEN <<"(">> \o Text(e) \o <<")">> ELSE Text(e)
Texts(nodes) == [i \in 1..Len(nodes) |-> Text(nodes[i])]
All(nodes) == FlattenSeq(Texts(nodes))
If(n, before) == IF n = Null THEN << >> ELSE before \o Text(n)

BinaryText(op, l, r) ==
    IF op = "[" THEN Operand(l, Postfix) \o <<"[">> \o Text(r) \o <<"]">>
    ELSE IF op = "?" THEN Operand(l, ElseLevel + 1) \o <<"?">> \o Text(r)
    ELSE IF op = ":" THEN Operand(l, ElseLevel + 1) \o <<":">> \o Operand(r, ElseLevel)
    ELSE Operand(l, Level(op)) \o <<op>> \o (IF r = Null THEN << >> ELSE Operand(r, Level(op) + 1))

ExpressionText(n) ==
    CASE Kind(n) = "none" -> << >>
      [] Kind(n) = "variable" -> Dots(n[2])
      [] Kind(n) = "call" -> Dots(n[2]) \o <<"(">> \o Commas(Texts(n[3])) \o <<")">>
      [] Kind(n) \in {"integer", "bool", "string"} -> <<n[2]>>
      [] Kind(n) = "compound" -> <<"{">> \o Commas(Texts(n[2])) \o <<"}">>
      [] Kind(n) = "unary" -> <<n[2]>> \o Operand(n[3], Prefix)
      [] Kind(n) = "binary" -> BinaryText(n[2], n[3], n[4])
      [] Kind(n) = "type" -> <<n[2]>> \o (IF n[3] = << >> THEN << >>
                                         ELSE <<"<">> \o Commas(Texts(n[3])) \o <<">">>)

StatementText(n) ==
    CASE Kind(n) = "statement call" -> Text(n[2]) \o <<";">>
      [] Kind(n) = "assignment" -> Dots(n[2]) \o <<"=">> \o Text(n[3]) \o <<";">>
      [] Kind(n) = "label" -> <<n[2], ":">>
      [] Kind(n) \in {"break", "continue"} -> <<Kind(n), n[2], ";">>
      [] Kind(n) \in {"var", "const"} ->
             <<Kind(n), n[2]>> \o If(n[3], <<":">>) \o If(n[4], <<"=">>) \o <<";">>
      [] Kind(n) = "if" -> <<"if">> \o Text(n[2]) \o Text(n[3]) \o If(n[4], <<"else">>)
      [] Kind(n) = "for" -> <<"for", n[2], "in">> \o Text(n[3]) \o Text(n[4])
      [] Kind(n) = "while" -> <<"while">> \o Text(n[2]) \o Text(n[3])
      [] Kind(n) = "loop" -> <<"loop">> \o Text(n[2])
      [] Kind(n) = "return" -> <<"return">> \o Text(n[2]) \o <<";">>
      [] Kind(n) = "block" -> <<"{">> \o All(n[2]) \o <<"}">>

DefinitionText(n) ==
    CASE Kind(n) = "function" -> <<"func", n[2], "(">> \o Commas(Texts(n[3])) \o <<")", ":">>
                                 \o Text(n[4]) \o If(n[5], <<"/">>) \o Text(n[6])
      [] Kind(n) = "body" -> <<"{">> \o All(n[2]) \o <<"}">>
      [] Kind(n) = "native" -> <<"->", n[2], ";">>
      [] Kind(n) = "macro" -> <<"=>", n[2], ";">>
      [] Kind(n) = "parameter" -> <<n[2], ":">> \o Text(n[3])
      [] Kind(n) \in {"enum", "variant"} ->
             <<Kind(n), n[2]>> \o If(n[3], <<":">>) \o <<"{">> \o Commas(Texts(n[4])) \o <<"}", ";">>
      [] Kind(n) = "struct" -> <<"struct", n[2], "{">> \o Commas(Texts(n[3])) \o <<"}", ";">>
      [] Kind(n) = "value" -> <<n[2]>> \o If(n[3], <<"=">>)
      [] Kind(n) = "option" ->
             <<n[2]>> \o (IF n[3] = Null THEN << >> ELSE <<"(">> \o Text(n[3]) \o <<")">>) \o If(n[4], <<"=">>)
      [] Kind(n) = "import" -> <<"import", n[2], ";">>

Statements == {"statement call", "assignment", "label", "break", "continue", "var", "const", "if",
               "for", "while", "loop", "return", "block"}
Definitions == {"function", "body", "native", "macro", "parameter", "enum", "variant", "struct",
                "value", "option", "import"}
Text(n) == IF Kind(n) \in Statements THEN StatementText(n)
           ELSE IF Kind(n) \in Definitions THEN DefinitionText(n)
           ELSE ExpressionText(n)

(* A text without the tokens that may be redundant.                            *)
Words(text) == SelectSeq(text, LAMBDA t : t \notin {"(", ")", ","})
==============================================================================
