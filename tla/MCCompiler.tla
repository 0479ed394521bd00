------------------------------ MODULE MCCompiler ----------------------------
(* Programs to parse: every pair of operators, every kind of statement and     *)
(* definition, and what becomes of some of them when a token is left out or    *)
(* replaced. Programs to bind: names that are used before and behind their     *)
(* declarations, in blocks, loops and other functions. The suite's programs.   *)
EXTENDS Compiler

MCIdentifier == {"a", "b", "c", "f", "g", "h", "p", "q", "x", "y", "main", "put", "none", "ret",
                 "puti", "endln", "i32", "i64", "u8", "bool", "void", "array", "any"}
MCNumber == {"0", "1", "2", "3", "5", "6", "10", "42"}
MCQuoted == {"'s'", "'std'", "'lib'"}
MCStd == <<"'std'">>
MCLibraries == <<"'lib'">>

I32 == <<"type", "i32", << >> >>
A == <<"variable", <<"a">> >>
B == <<"variable", <<"a", "b">> >>
One == <<"integer", "1", "i32">>
True == <<"bool", "true">>
Calls(args) == <<"call", <<"f">>, args>>
Bin(op, l, r) == <<"binary", op, l, r>>
Un(op, e) == <<"unary", op, e>>

InF(statements) ==
    <<"module", << <<"function", "f", << >>, I32, Null, <<"body", statements>> >> >> >>

Operators == {"+", "-", "*", "/", "<<", "<", ">=", "==", "..", "&", "^", "|", "&&", "||", "as", "["}
Right(op, e) == IF op = "as" THEN I32 ELSE e
Pairs == { Bin(o, Bin(p, A, Right(p, One)), Right(o, B)) : o, p \in Operators }
         \cup { Bin(o, A, Bin(p, B, Right(p, One))) : o \in Operators \ {"as"}, p \in Operators }
         \cup { Un(u, Bin(o, A, Right(o, One))) : u \in {"-", "!"}, o \in Operators }
         \cup { Bin(o, Un(u, A), Right(o, Un(u, One))) : u \in {"-", "!"}, o \in Operators }
Conditional == Bin("?", A, Bin(":", One, B))
Simple == {A, B, One, True, <<"string", "'s'">>, Calls(<< >>), Calls(<<A, One>>), <<"compound", <<One, A>> >>,
           Un("-", Un("!", A)), Un("@", Calls(<<One>>)), Conditional}

Assigns(e) == <<"assignment", <<"a">>, e>>
Returning == <<"return", Null>>
Tests == {A, Bin("<", A, One), Calls(<<A>>), True}
Plain == {Assigns(One), <<"statement call", Calls(<<A>>)>>, <<"break", "a">>, <<"continue", "a">>, Returning,
          <<"return", Bin("+", A, One)>>, <<"var", "a", I32, Null>>, <<"var", "a", Null, One>>,
          <<"const", "a", <<"type", "array", <<I32, <<"type", "array", <<I32>> >> >> >>, A>>}
InnerShapes == {Assigns(One), Returning, <<"block", << >> >>, <<"block", <<Assigns(One), Returning>> >>,
          <<"loop", <<"block", <<Returning>> >> >>, <<"if", A, Returning, Assigns(A)>>}
Nested == InnerShapes \cup { <<"loop", s>> : s \in InnerShapes }
          \cup { <<"if", t, s, Null>> : t \in Tests, s \in InnerShapes \ {<<"if", A, Returning, Assigns(A)>>} }
          \cup { <<"if", t, Returning, s>> : t \in Tests, s \in InnerShapes }
          \cup { <<"while", t, s>> : t \in Tests, s \in InnerShapes }
          \cup { <<"for", "b", Bin("..", One, t), s>> : t \in Tests, s \in InnerShapes }
Shapes == { <<Assigns(e)>> : e \in Pairs \cup Simple } \cup { <<s>> : s \in Plain \cup Nested }
          \cup { <<(<<"label", "a">>), s, Returning>> : s \in Plain }

NativeF == <<"function", "f", <<(<<"parameter", "a", I32>>), <<"parameter", "b", I32>> >>, I32, I32, <<"native", "'s'">> >>
DefinitionShapes ==
    { <<NativeF>>, <<(<<"function", "f", << >>, I32, Null, <<"macro", "'s'">> >>)>>,
      <<(<<"const", "a", I32, One>>), <<"var", "b", Null, Bin("+", A, One)>> >>,
      <<(<<"enum", "a", I32, <<(<<"value", "a", One>>), <<"value", "b", Null>> >> >>), NativeF>>,
      <<NativeF, <<"struct", "a", <<(<<"parameter", "a", I32>>), <<"parameter", "b", I32>> >> >> >>,
      <<(<<"variant", "a", I32, <<(<<"option", "a", I32, One>>), <<"option", "b", Null, Null>> >> >>)>>,
      <<NativeF, <<"import", "'lib'">> >>, <<(<<"import", "'lib'">>), NativeF>> }

Trees == { InF(s) : s \in Shapes } \cup { <<"module", d>> : d \in DefinitionShapes }

(* What a slip leaves of a text: a token too few, or another one.              *)
Broken(text) == { RemoveAt(text, i) : i \in 1..Len(text) }
                \cup { [text EXCEPT ![i] = t] : i \in 1..Len(text),
                       t \in {";", "}", "{", "(", "a", "1", "+", "else", "++"} }
Slipped == { InF(<<Assigns(Bin("+", A, One)), Returning>>), InF(<<Assigns(Un("-", A)), Assigns(One)>>),
             InF(<<(<<"if", A, Returning, Assigns(Bin("<", A, One))>>)>>),
             InF(<<(<<"var", "a", I32, One>>), <<"statement call", Calls(<<A, One>>)>>, Returning>>),
             InF(<<(<<"while", Bin("<", One, A), <<"block", <<Returning>> >> >>), Returning>>),
             InF(<<(<<"for", "b", Bin("..", One, A), <<"loop", Returning>> >>), Returning>>) }
           \cup { <<"module", d>> : d \in DefinitionShapes }

-----------------------------------------------------------------------------
Name(t) == <<"type", t, << >> >>
Var(names) == <<"variable", names>>
Declaring(word, name, type, value) == <<word, name, type, value>>
Set(name, e) == <<"assignment", <<name>>, e>>
CallOf(f, args) == <<"call", <<f>>, args>>
Does(f, args) == <<"statement call", CallOf(f, args)>>
Defines(name, params, type, statements) == <<"function", name, params, type, Null, <<"body", statements>> >>
Main(statements) == Defines("main", << >>, I32, statements)
Block(statements) == <<"block", statements>>

(* Values of several types, some of which may not be bound at once.            *)
Values == {One, Var(<<"b">>), Bin("+", Var(<<"b">>), One), CallOf("g", <<One>>), CallOf("g", <<CallOf("put", << >>)>>),
           Bin("+", CallOf("g", <<CallOf("put", << >>)>>), One), Bin("as", One, Name("i64")), Bin("as", Var(<<"b">>), Name("i64")),
           Un("-", Var(<<"b">>)), Un("-", One), Bin("==", Var(<<"b">>), One), Bin("&&", True, Bin("<", Var(<<"b">>), One)),
           Un("!", True), Un("!", Bin("==", Var(<<"b">>), One)), Bin("<<", Var(<<"b">>), One), <<"string", "'s'">>,
           CallOf("none", << >>), Bin("..", One, Var(<<"b">>)), Bin("-", One, Bin("*", One, One)), Bin("/", One, One)}
Begins == { Declaring("var", "b", Name(t), Null) : t \in {"i32", "i64", "bool", "u8"} }
          \cup {Declaring("const", "b", Null, One), Declaring("var", "b", Name("i64"), Bin("as", One, Name("i64")))}
Valued == { <<begin, use>> : begin \in Begins,
            use \in UNION { {Declaring("var", "a", Null, v), Declaring("var", "a", I32, v), Declaring("const", "a", Null, v),
                             Declaring("const", "a", I32, v), Set("b", v), Does("g", <<v>>),
                             <<"return", v>>, <<"for", "c", v, <<"if", True, <<"return", Var(<<"c">>)>>, Null>> >>} : v \in Values } }

(* Declarations and uses of one name, in any order and depth.                  *)
Steps == {Declaring("var", "a", I32, Null), Declaring("var", "a", Null, One), Declaring("const", "a", Null, One),
          Declaring("var", "a", Null, CallOf("g", << >>)), Declaring("const", "a", Null, CallOf("h", << >>)),
          Set("a", One), <<"return", A>>, Does("g", <<A>>), Does("g", <<CallOf("h", <<A>>)>>)}
Deeper == Steps \cup { Block(<<s>>) : s \in Steps } \cup { <<"if", True, s, Null>> : s \in Steps }
          \cup { <<"if", A, Does("g", << >>), s>> : s \in Steps } \cup { <<"loop", s>> : s \in Steps }
          \cup { <<"for", "a", Bin("..", One, CallOf("g", <<One>>)), s>> : s \in Steps }
Sequences == { <<d, e>> : d, e \in Deeper } \cup { <<d, e, f>> : d, e, f \in Steps }
             \cup { <<d, Block(<<e, f>>), g>> : d, e, f, g \in Steps \ {Does("g", <<A>>), Set("a", One)} }

(* Loops with and without labels, and jumps out of them.                       *)
Jumps == { <<j, n>> : j \in {"break", "continue"}, n \in {"a", "b"} }
Loops == UNION { {<<"loop", Block(<<j>>)>>, <<"while", True, <<"if", True, j, Null>> >>, j,
                  <<"loop", Block(<<(<<"label", "b">>), <<"while", True, j>>, Does("g", << >>)>>)>>} : j \in Jumps }
Labelling == { <<(<<"label", "a">>), l>> : l \in Loops } \cup { <<l>> : l \in Loops }
             \cup { <<Does("h", << >>), <<"label", "a">>, l, <<"label", "b">>, k>> : l, k \in Loops }
             \cup {<<(<<"label", "a">>)>>, <<(<<"loop", <<"label", "a">> >>)>>}

G == Defines("g", <<(<<"parameter", "a", I32>>)>>, I32, <<(<<"return", Bin("+", A, One)>>)>>)
H == Defines("h", << >>, Name("void"), <<Does("g", <<CallOf("put", << >>)>>)>>)
Placed(definitions) == UNION { {<<d, G, H>>, <<G, d, H>>, <<H, G, d>>} : d \in definitions }
Bodies == Valued \cup Sequences \cup Labelling

(* Structures, globals and functions that need them, in every order.           *)
StructOf(name, type) == <<"struct", name, <<(<<"parameter", "x", Name(type)>>)>> >>
Pieces == {StructOf("p", "i32"), StructOf("q", "p"), StructOf("p", "q"), StructOf("p", "none"),
           <<"struct", "q", <<(<<"parameter", "x", I32>>), <<"parameter", "y", Name("p")>> >> >>,
           Declaring("var", "a", Name("p"), Null), Declaring("var", "a", Null, One), Declaring("const", "a", Null, One),
           Declaring("var", "b", Null, Var(<<"a">>)),
           Main(<<(<<"return", Var(<<"a", "x">>)>>)>>), Main(<<(<<"return", A>>)>>), Main(<<Set("a", One), Does("f", << >>)>>),
           Defines("f", << >>, I32, <<Declaring("var", "b", Name("q"), Null), Does("f", << >>), <<"assignment", <<"b", "x">>, One>> >>),
           Defines("f", <<(<<"parameter", "c", Name("p")>>)>>, I32, <<(<<"return", Var(<<"c", "x">>)>>)>>),
           Defines("f", << >>, Name("p"), <<Does("f", << >>), <<"return", CallOf("none", << >>)>> >>),
           Defines("main", << >>, Name("bool"), << >>), Defines("main", <<(<<"parameter", "c", I32>>)>>, I32, << >>)}
Mixed == { <<p, q>> : p, q \in Pieces } \cup { <<p, q, r>> : p, q, r \in Pieces }

(* Programs of the test suite, as they stand in scribble/test/scribble:        *)
(* fortytwo, addition, if_1, while and ternary.                                *)
MCSuite == { <<"func", "main", "(", ")", ":", "i32", "{">> \o body \o <<"}">> : body \in
                   { <<"return", "42", ";">>,
                     <<"var", "y", "=", "2", ";", "var", "x", "=", "1", "+", "y", "+", "3", ";", "return", "x",
                     ";">>,
                     <<"var", "ret", "=", "0", ";", "const", "a", "=", "(", "2", ")", ";", "if", "(", "a",
                     "==", "2", ")", "{", "ret", "=", "2", ";", "}", "return", "ret", ";">>,
                     <<"var", "a", "=", "0", ";", "while", "a", "<", "10", "{", "puti", "(", "a", ")", ";",
                     "endln", "(", ")", ";", "a", "=", "a", "+", "1", ";", "}", "return", "a", ";">>,
                     <<"var", "a", "=", "2", ";", "var", "b", "=", "(", "a", "<", "5", ")", "?", "3", ":", "6",
                     ";", "return", "b", ";">> } }

TextOf(m) == All(m[2])

Meant(m) == [text |-> TextOf(m), meant |-> m]
MCPrograms == { Meant(m) : m \in Trees }
              \cup { [text |-> t, meant |-> Null] : t \in UNION { Broken(TextOf(m)) : m \in Slipped } }
MCBound == { Meant(<<"module", d>>) :
               d \in Placed({ Main(b) : b \in Labelling })
                     \cup { <<G, Main(b), H>> : b \in Valued \cup { <<d, e>> : d, e \in Deeper } } \cup Mixed }
MCAll == MCPrograms \cup MCBound
MCSuitePrograms == { [text |-> t, meant |-> Null] : t \in MCSuite }

MCLibrary == [p \in {"'std'", "'lib'"} |->
                IF p = "'std'" THEN TextOf(<<"module", <<(<<"function", "put", << >>, I32, Null, <<"native", "'s'">> >>)>> >>)
                ELSE TextOf(<<"module", <<(<<"const", "b", Null, One>>)>> >>)]
=============================================================================
