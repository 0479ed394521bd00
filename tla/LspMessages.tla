---------------------------- MODULE LspMessages ----------------------------
(***************************************************************************)
(* One message of the protocol on its way: a value is encoded, the other   *)
(* side, whose version of the protocol may be another one, may have a word *)
(* of its own for one part of it, and what arrives is decoded.             *)
(***************************************************************************)
EXTENDS LspSchema, TLC

Types ==
  [ChangeAnnotationIdentifier |-> ChangeAnnotationIdentifier,
   DocumentUri |-> DocumentUri, URI |-> URI, Position |-> Position,
   Range |-> Range, AnnotatedTextEdit |-> AnnotatedTextEdit,
   ChangeAnnotation |-> ChangeAnnotation,
   TextDocumentSyncClientCapabilities |-> TextDocumentSyncClientCapabilities,
   TokenFormat |-> TokenFormat,
   SemanticTokensClientCapabilities |-> SemanticTokensClientCapabilities,
   TextDocumentClientCapabilities |-> TextDocumentClientCapabilities,
   ClientCapabilities |-> ClientCapabilities,
   CodeDescription |-> CodeDescription, Command |-> Command,
   CompletionTriggerKind |-> CompletionTriggerKind,
   CompletionContext |-> CompletionContext,
   CompletionItemLabelDetails |-> CompletionItemLabelDetails,
   CompletionItemKind |-> CompletionItemKind,
   CompletionItemTag |-> CompletionItemTag, MarkupKind |-> MarkupKind,
   MarkupContent |-> MarkupContent, InsertTextFormat |-> InsertTextFormat,
   InsertTextMode |-> InsertTextMode, TextEdit |-> TextEdit,
   InsertReplaceEdit |-> InsertReplaceEdit, LSPCommand |-> LSPCommand,
   CompletionItem |-> CompletionItem, CompletionList |-> CompletionList,
   TextDocumentIdentifier |-> TextDocumentIdentifier,
   CompletionParams |-> CompletionParams,
   DiagnosticSeverity |-> DiagnosticSeverity, DiagnosticTag |-> DiagnosticTag,
   Location |-> Location,
   DiagnosticRelatedInformation |-> DiagnosticRelatedInformation,
   Diagnostic |-> Diagnostic,
   VersionedTextDocumentIdentifier |-> VersionedTextDocumentIdentifier,
   TextDocumentContentChangeEvent |-> TextDocumentContentChangeEvent,
   DidChangeTextDocumentParams |-> DidChangeTextDocumentParams,
   DidCloseTextDocumentParams |-> DidCloseTextDocumentParams,
   TextDocumentItem |-> TextDocumentItem,
   DidOpenTextDocumentParams |-> DidOpenTextDocumentParams,
   DidSaveTextDocumentParams |-> DidSaveTextDocumentParams,
   DocumentFilter |-> DocumentFilter, FormattingOptions |-> FormattingOptions,
   DocumentFormattingParams |-> DocumentFormattingParams,
   DocumentRangeFormattingParams |-> DocumentRangeFormattingParams,
   TraceValue |-> TraceValue, WorkspaceFolder |-> WorkspaceFolder,
   InitializeParams |-> InitializeParams,
   PositionEncodingKind |-> PositionEncodingKind,
   TextDocumentSyncKind |-> TextDocumentSyncKind, SaveOptions |-> SaveOptions,
   TextDocumentSyncOptions |-> TextDocumentSyncOptions,
   SemanticTokensLegend |-> SemanticTokensLegend,
   SemanticTokensOptions |-> SemanticTokensOptions,
   ServerCapabilities |-> ServerCapabilities,
   InitializeResult |-> InitializeResult, LocationLink |-> LocationLink,
   OptionalVersionedTextDocumentIdentifier |-> OptionalVersionedTextDocumentIdentifier,
   PublishDiagnosticsClientCapabilities |-> PublishDiagnosticsClientCapabilities,
   PublishDiagnosticsParams |-> PublishDiagnosticsParams,
   RegularExpressionsClientCapabilities |-> RegularExpressionsClientCapabilities,
   SemanticTokenModifiers |-> SemanticTokenModifiers,
   SemanticTokenTypes |-> SemanticTokenTypes, SemanticTokens |-> SemanticTokens,
   SemanticTokensParams |-> SemanticTokensParams,
   TextDocumentPositionParams |-> TextDocumentPositionParams,
   WorkDoneProgressParams |-> WorkDoneProgressParams]

VARIABLES
  type,     \* the name of the message's type
  value,    \* the value that is sent
  message,  \* the JSON on its way
  result,   \* what the decoder makes of it
  phase     \* "held", "sent", "damaged" or "read"

vars == <<type, value, message, result, phase>>

-----------------------------------------------------------------------------
(* Values of a type: for every member, every alternative and every word of an  *)
(* enumeration one that has it, the smallest value and one with all members.   *)

Scalars == [string |-> {"a"}, boolean |-> {"true", "false"}, int |-> {0, 7, Word - 1},
            null |-> {"null"}]
Chosen(set) == CHOOSE x \in set : TRUE
(* The first alternative that can be read back.                                *)
Usual(t) == First({i \in DOMAIN t.alternatives : t.alternatives[i].is # "int"})

RECURSIVE Least(_)
Least(t) ==
  CASE t.is = "plain" -> <<t.kind, Chosen(Scalars[t.kind])>>
    [] t.is = "int" -> <<"int", 7>>
    [] t.is = "any" -> <<"null", "null">>
    [] t.is = "enum" -> <<t.kind, Chosen(t.names)>>
    [] t.is = "list" -> JsonArray(<<>>)
    [] t.is \in {"object", "nested"} ->
         LET needed == {i \in DOMAIN t.members : t.members[i].required}
         IN  JsonObject([f \in {t.members[i].name : i \in needed} |->
                           Least(t.members[IndexOf(t, f)].type)])
    [] t.is = "union" ->
         <<"union", <<Usual(t) - 1, Usual(t) - 1, Least(t.alternatives[Usual(t)])>>>>

RECURSIVE Fullest(_)
Fullest(t) ==
  CASE t.is = "list" -> JsonArray(<<Least(t.of), Fullest(t.of)>>)
    [] t.is \in {"object", "nested"} ->
         JsonObject([f \in {t.members[i].name : i \in DOMAIN t.members} |->
                       Fullest(t.members[IndexOf(t, f)].type)])
    [] t.is = "union" ->
         <<"union", <<Usual(t) - 1, Usual(t) - 1, Fullest(t.alternatives[Usual(t)])>>>>
    [] OTHER -> Least(t)

With(object, f, v) ==
  JsonObject([g \in DOMAIN Held(object) \cup {f} |->
                IF g = f THEN v ELSE Held(object)[g]])

RECURSIVE Samples(_)
Samples(t) ==
  CASE t.is = "plain" -> {<<t.kind, x>> : x \in Scalars[t.kind]}
    [] t.is = "enum" -> {<<t.kind, x>> : x \in t.names}
    [] t.is = "list" -> {JsonArray(<<>>), Fullest(t)} \cup {JsonArray(<<v>>) : v \in Samples(t.of)}
    [] t.is \in {"object", "nested"} ->
         {Least(t), Fullest(t)} \cup
           UNION {{With(Least(t), t.members[i].name, v) : v \in Samples(t.members[i].type)} :
                    i \in DOMAIN t.members}
    [] t.is = "union" ->
         UNION {{<<"union", <<i - 1, i - 1, v>>>> : v \in Samples(t.alternatives[i])} :
                  i \in DOMAIN t.alternatives}
    [] OTHER -> {Least(t)}

(* A message with one part left out or said in another way, as with a number   *)
(* that is no unsigned int, below or above.                                    *)
Others == {<<"null", "null">>, <<"boolean", "true">>, <<"string", "zz">>,
           <<"int", 99>>, <<"int", -1>>, <<"int", Word + 7>>,
           JsonArray(<<>>), JsonArray(<<<<"null", "null">>>>), JsonObject([f \in {} |-> f])}

Without(json, f) == JsonObject([g \in DOMAIN Held(json) \ {f} |-> Held(json)[g]])

RECURSIVE Damaged(_)
Damaged(json) ==
  Others \cup
  CASE Kind(json) = "object" ->
         UNION {{Without(json, f)} \cup {With(json, f, v) : v \in Damaged(Held(json)[f])} :
                  f \in DOMAIN Held(json)}
    [] Kind(json) = "array" ->
         UNION {{JsonArray([Held(json) EXCEPT ![i] = v]) : v \in Damaged(Held(json)[i])} :
                  i \in DOMAIN Held(json)}
    [] OTHER -> {}

-----------------------------------------------------------------------------
Init ==
  /\ type \in DOMAIN Types
  /\ value \in Samples(Types[type])
  /\ message = Absent
  /\ result = Missing
  /\ phase = "held"

Send ==
  /\ phase = "held"
  /\ message' = Encode(Types[type], value)
  /\ phase' = "sent"
  /\ UNCHANGED <<type, value, result>>

SaidOtherwise ==
  /\ phase = "sent"
  /\ value = Fullest(Types[type])
  /\ message' \in Damaged(message) \ {message}
  /\ phase' = "damaged"
  /\ UNCHANGED <<type, value, result>>

Receive ==
  /\ phase \in {"sent", "damaged"}
  /\ result' = Decode(Types[type], json_decode(message))
  /\ phase' = "read"
  /\ UNCHANGED <<type, value, message>>

Next == Send \/ SaidOtherwise \/ Receive
Spec == Init /\ [][Next]_vars

-----------------------------------------------------------------------------
(* Where the code does not do what the types say.                              *)

(* A number that may be negative is never decoded.                             *)
RECURSIVE HasNumber(_, _)
HasNumber(t, v) ==
  CASE t.is = "int" -> TRUE
    [] t.is = "list" -> \E i \in DOMAIN Held(v) : HasNumber(t.of, Held(v)[i])
    [] t.is \in {"object", "nested"} ->
         \E f \in DOMAIN Held(v) : HasNumber(t.members[IndexOf(t, f)].type, Held(v)[f])
    [] t.is = "union" -> HasNumber(t.alternatives[Held(v)[2] + 1], Held(v)[3])
    [] OTHER -> FALSE

(* The alternative that was decoded is not the one its tag names.              *)
RECURSIVE TagIsLost(_, _)
TagIsLost(t, v) ==
  CASE t.is = "list" -> \E i \in DOMAIN Held(v) : TagIsLost(t.of, Held(v)[i])
    [] t.is \in {"object", "nested"} ->
         \E f \in DOMAIN Held(v) : TagIsLost(t.members[IndexOf(t, f)].type, Held(v)[f])
    [] t.is = "union" ->
         LET alternative == t.alternatives[Held(v)[2] + 1]
         IN  \/ Inlined(alternative) /\ Held(v)[2] > 0
             \/ TagIsLost(alternative, Held(v)[3])
    [] OTHER -> FALSE

(* A list that may be null is decoded as a list first, which ends the program. *)
NullForList ==
  type = "InitializeParams" /\ "workspaceFolders" \in DOMAIN Held(value)
    /\ Held(Held(value)["workspaceFolders"])[2] = 1

(* What is decoded is what was encoded, whatever the type, unless the value    *)
(* has one of the three parts the decoders of schema/ do not read back.        *)
WhatIsSaidIsHeard ==
  (phase = "read" /\ message = Encode(Types[type], value)) =>
    \/ HasNumber(Types[type], value) \/ TagIsLost(Types[type], value) \/ NullForList
    \/ result = Got(value)

(* An object without members says nothing: a nested object is made of anything *)
(* that is there, since json_get finds no member in it.                        *)
RECURSIVE IsPartOf(_, _)
IsPartOf(part, whole) ==
  IF Kind(part) # Kind(whole)
  THEN Kind(part) = "object" /\ DOMAIN Held(part) = {}
  ELSE IF Kind(part) = "object"
  THEN \A f \in DOMAIN Held(part) :
         f \in DOMAIN Held(whole) /\ IsPartOf(Held(part)[f], Held(whole)[f])
  ELSE IF Kind(part) = "array"
  THEN /\ Len(Held(part)) = Len(Held(whole))
       /\ \A i \in DOMAIN Held(part) : IsPartOf(Held(part)[i], Held(whole)[i])
  ELSE \/ Held(part) = Held(whole)
       \/ Kind(part) = "int" /\ Held(whole) \notin 0 .. Word - 1

(* A message of which one part is missing, of another kind or another number   *)
(* gives no value that was not said, but for the numbers that are no unsigned  *)
(* int, in whose place the decoder has others: it answers with nothing, leaves *)
(* an optional member out, or stops; no required member is left as it was      *)
(* zeroed.                                                                     *)
NothingIsMadeUp ==
  (phase = "read" /\ result.got = "value") =>
    \/ TagIsLost(Types[type], result.value)
    \/ IsPartOf(Encode(Types[type], result.value), message)
=============================================================================
