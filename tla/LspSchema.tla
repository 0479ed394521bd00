----------------------------- MODULE LspSchema -----------------------------
(***************************************************************************)
(* The types of the language-server protocol that src/lsp/schema encodes   *)
(* and decodes, one definition per type and file, with their members in    *)
(* the order the code takes them.                                          *)
(***************************************************************************)
EXTENDS LspBase

ChangeAnnotationIdentifier == StringView

DocumentUri == StringView

URI == StringView

Position == Object(<<Required("line", UInt32), Required("character", UInt32)>>)

Range == Object(<<Required("start", Position), Required("end", Position)>>)

AnnotatedTextEdit ==
  Object(<<Required("range", Range), Required("newText", StringView),
           Required("annotationId", ChangeAnnotationIdentifier)>>)

ChangeAnnotation ==
  Object(<<Required("label", StringView), Optional("needsConfirmation", Bool),
           Optional("description", StringView)>>)

TextDocumentSyncClientCapabilities ==
  Object(<<Optional("dynamicRegistration", Bool), Optional("willSave", Bool),
           Optional("willSaveWaitUntil", Bool), Optional("didSave", Bool)>>)

TokenFormat == Enum("string", {"relative"})

SemanticTokensClientCapabilities ==
  Object(<<Optional("dynamicRegistration", Bool),
           Required("requests",
                    Nested(<<Optional("range", OneOf(<<Bool, Nested(<<>>)>>)),
                             Optional("full",
                                      OneOf(<<Bool,
                                              Nested(<<Optional("delta", Bool)>>)>>))>>)),
           Required("tokenTypes", StringViews),
           Required("tokenModifiers", StringViews),
           Required("formats", ListOf(TokenFormat)),
           Optional("overlappingTokenSupport", Bool),
           Optional("multilineTokenSupport", Bool),
           Optional("serverCancelSupport", Bool),
           Optional("augmentsSyntaxTokens", Bool)>>)

TextDocumentClientCapabilities ==
  Object(<<Optional("synchronization", TextDocumentSyncClientCapabilities),
           Optional("semanticTokens", SemanticTokensClientCapabilities)>>)

ClientCapabilities ==
  Object(<<Optional("textDocument", TextDocumentClientCapabilities)>>)

CodeDescription == Object(<<Required("href", URI)>>)

Command ==
  Object(<<Required("title", StringView), Required("command", StringView),
           Optional("arguments", JSONValues)>>)

CompletionTriggerKind == Enum("int", 1 .. 3)

CompletionContext ==
  Object(<<Required("triggerKind", CompletionTriggerKind),
           Optional("triggerCharacter", StringView)>>)

CompletionItemLabelDetails ==
  Object(<<Optional("detail", StringView), Optional("description", StringView)>>)

CompletionItemKind == Enum("int", 1 .. 25)

CompletionItemTag == Enum("int", {1})

MarkupKind == Enum("string", {"plaintext", "markdown"})

MarkupContent ==
  Object(<<Required("kind", MarkupKind), Required("value", StringView)>>)

InsertTextFormat == Enum("int", 1 .. 2)

InsertTextMode == Enum("int", 1 .. 2)

TextEdit == Object(<<Required("range", Range), Required("newText", StringView)>>)

InsertReplaceEdit ==
  Object(<<Required("newText", StringView), Required("insert", Range),
           Required("replace", Range)>>)

LSPCommand ==
  Object(<<Required("title", StringView), Required("command", StringView),
           Optional("arguments", JSONValues)>>)

CompletionItem ==
  Object(<<Required("label", StringView),
           Optional("labelDetails", CompletionItemLabelDetails),
           Optional("kind", CompletionItemKind),
           Optional("tags", ListOf(CompletionItemTag)),
           Optional("detail", StringView),
           Optional("documentation", OneOf(<<StringView, MarkupContent>>)),
           Optional("deprecated", Bool), Optional("preselect", Bool),
           Optional("sortText", StringView), Optional("filterText", StringView),
           Optional("insertText", StringView),
           Optional("insertTextFormat", InsertTextFormat),
           Optional("insertTextMode", InsertTextMode),
           Optional("textEdit", OneOf(<<TextEdit, InsertReplaceEdit>>)),
           Optional("textEditText", StringView),
           Optional("additionalTextEdits", ListOf(TextEdit)),
           Optional("commitCharacters", StringViews),
           Optional("command", LSPCommand), Optional("data", JSONValue)>>)

CompletionList ==
  Object(<<Required("isIncomplete", Bool),
           Optional("itemDefaults",
                    Nested(<<Optional("commitCharacters", StringViews),
                             Optional("editRange",
                                      OneOf(<<Range,
                                              Nested(<<Required("insert", Range),
                                                       Required("replace", Range)>>)>>)),
                             Optional("insertTextFormat", InsertTextFormat),
                             Optional("insertTextMode", InsertTextMode),
                             Optional("data", JSONValue)>>)),
           Required("items", ListOf(CompletionItem))>>)

TextDocumentIdentifier == Object(<<Required("uri", DocumentUri)>>)

CompletionParams ==
  Object(<<Required("textDocument", TextDocumentIdentifier),
           Required("position", Position),
           Optional("context", CompletionContext)>>)

DiagnosticSeverity == Enum("int", 1 .. 4)

DiagnosticTag == Enum("int", 1 .. 2)

Location == Object(<<Required("uri", DocumentUri), Required("range", Range)>>)

DiagnosticRelatedInformation ==
  Object(<<Required("location", Location), Required("message", StringView)>>)

Diagnostic ==
  Object(<<Required("range", Range), Optional("severity", DiagnosticSeverity),
           Optional("code", OneOf(<<Integer, StringView>>)),
           Optional("codeDescription", CodeDescription),
           Optional("source", StringView), Required("message", StringView),
           Optional("tags", ListOf(DiagnosticTag)),
           Optional("relatedInformation", ListOf(DiagnosticRelatedInformation)),
           Optional("data", JSONValue)>>)

VersionedTextDocumentIdentifier ==
  Object(<<Required("uri", DocumentUri), Required("version", Integer)>>)

TextDocumentContentChangeEvent ==
  OneOf(<<Nested(<<Required("range", Range), Optional("rangeLength", UInt32),
                   Required("text", StringView)>>),
          Nested(<<Required("text", StringView)>>)>>)

DidChangeTextDocumentParams ==
  Object(<<Required("textDocument", VersionedTextDocumentIdentifier),
           Required("contentChanges", ListOf(TextDocumentContentChangeEvent))>>)

DidCloseTextDocumentParams ==
  Object(<<Required("textDocument", TextDocumentIdentifier)>>)

TextDocumentItem ==
  Object(<<Required("uri", DocumentUri), Required("languageId", StringView),
           Required("version", Integer), Required("text", StringView)>>)

DidOpenTextDocumentParams ==
  Object(<<Required("textDocument", TextDocumentItem)>>)

DidSaveTextDocumentParams ==
  Object(<<Required("textDocument", TextDocumentIdentifier),
           Optional("text", StringView)>>)

DocumentFilter ==
  Object(<<Optional("language", StringView), Optional("scheme", StringView),
           Optional("pattern", StringView)>>)

FormattingOptions ==
  Object(<<Required("tabSize", UInt32), Required("insertSpaces", Bool),
           Optional("trimTrailingWhitespace", Bool),
           Optional("insertFinalNewline", Bool),
           Optional("trimFinalNewlines", Bool)>>)

DocumentFormattingParams ==
  Object(<<Required("textDocument", TextDocumentIdentifier),
           Required("options", FormattingOptions)>>)

DocumentRangeFormattingParams ==
  Object(<<Required("textDocument", TextDocumentIdentifier),
           Required("range", Range), Required("options", FormattingOptions)>>)

TraceValue == Enum("string", {"off", "messages", "verbose"})

WorkspaceFolder == Object(<<Required("uri", URI), Required("name", StringView)>>)

InitializeParams ==
  Object(<<Required("processId", OneOf(<<Integer, Null>>)),
           Optional("clientInfo",
                    Nested(<<Required("name", StringView),
                             Optional("version", StringView)>>)),
           Optional("locale", StringView),
           Optional("rootPath", OneOf(<<StringView, Null>>)),
           Required("rootUri", OneOf(<<DocumentUri, Null>>)),
           Optional("initializationOptions", JSONValue),
           Required("capabilities", ClientCapabilities),
           Optional("trace", TraceValue),
           Optional("workspaceFolders", OneOf(<<ListOf(WorkspaceFolder), Null>>))>>)

PositionEncodingKind == Enum("string", {"utf-8", "utf-16", "utf-32"})

TextDocumentSyncKind == Enum("int", 0 .. 2)

SaveOptions == Object(<<Optional("includeText", Bool)>>)

TextDocumentSyncOptions ==
  Object(<<Optional("openClose", Bool), Optional("change", TextDocumentSyncKind),
           Optional("willSave", Bool), Optional("willSaveWaitUntil", Bool),
           Optional("save", OneOf(<<Bool, SaveOptions>>))>>)

SemanticTokensLegend ==
  Object(<<Required("tokenTypes", StringViews),
           Required("tokenModifiers", StringViews)>>)

SemanticTokensOptions ==
  Object(<<Required("legend", SemanticTokensLegend),
           Optional("range", OneOf(<<Bool, Nested(<<>>)>>)),
           Optional("full", OneOf(<<Bool, Nested(<<Optional("delta", Bool)>>)>>))>>)

ServerCapabilities ==
  Object(<<Optional("positionEncoding", PositionEncodingKind),
           Optional("textDocumentSync",
                    OneOf(<<TextDocumentSyncOptions, TextDocumentSyncKind>>)),
           Optional("semanticTokensProvider", SemanticTokensOptions)>>)

InitializeResult ==
  Object(<<Required("capabilities", ServerCapabilities),
           Optional("serverInfo",
                    Nested(<<Required("name", StringView),
                             Optional("version", StringView)>>))>>)

LocationLink ==
  Object(<<Optional("originSelectionRange", Range),
           Required("targetUri", DocumentUri), Required("targetRange", Range),
           Required("targetSelectionRange", Range)>>)

OptionalVersionedTextDocumentIdentifier ==
  Object(<<Required("uri", DocumentUri),
           Required("version", OneOf(<<Integer, Null>>))>>)

PublishDiagnosticsClientCapabilities ==
  Object(<<Optional("relatedInformation", Bool),
           Optional("tagSupport",
                    Nested(<<Required("valueSet", ListOf(DiagnosticTag))>>)),
           Optional("versionSupport", Bool),
           Optional("codeDescriptionSupport", Bool),
           Optional("dataSupport", Bool)>>)

PublishDiagnosticsParams ==
  Object(<<Required("uri", DocumentUri), Optional("version", Integer),
           Required("diagnostics", ListOf(Diagnostic))>>)

RegularExpressionsClientCapabilities ==
  Object(<<Required("engine", StringView), Optional("version", StringView)>>)

SemanticTokenModifiers ==
  Enum("string", {"declaration", "definition", "readonly", "static", "deprecated",
                  "abstract", "async", "modification", "documentation",
                  "defaultLibrary"})

SemanticTokenTypes ==
  Enum("string", {"namespace", "type", "class", "enum", "interface", "struct",
                  "typeParameter", "parameter", "variable", "property",
                  "enumMember", "event", "function", "method", "macro", "keyword",
                  "modifier", "comment", "string", "number", "regexp", "operator",
                  "decorator"})

SemanticTokens ==
  Object(<<Optional("resultId", StringView), Required("data", UInt32s)>>)

SemanticTokensParams ==
  Object(<<Required("textDocument", TextDocumentIdentifier)>>)

TextDocumentPositionParams ==
  Object(<<Required("textDocument", TextDocumentIdentifier),
           Required("position", Position)>>)

WorkDoneProgressParams == Object(<<>>)
=============================================================================
