# A TLA+ model of Eddy

Eddy (`eddy/`) is a text editor written in C on raylib. It talks to a language
server (`clangd`, over `lsp/`), runs `cmake` and `clang-format` as child
processes (`base/process.c`, `base/pipe.c`), and lives in one repository with
Scribble (`scribble/`), a small language with a compiler, an interpreter and a
code generator, and with the library both use (`base/`). This directory holds
TLA+ modules of the parts of both programs where a mistake needs several steps to
show, the TLC configurations that check them, and TLAPS proofs of what matters most
about the editor, its child processes, the conversation of Scribble's two processes and the
code generator.

Line numbers below are those of the repository's files at the modelled commit;
`buffer.c`, `editor.c`, `eddy.c`, `c.c`, `listbox.c` and `app.c` are in
`eddy/src/app/`; `pipe.c`, `process.c`, `mutex.c`, `sb.c`, `io.c`, `http.c` and
`integer.c` in `base/`; `parser.c`, `binder.c`, `intermediate.c`, `execute.c`, `datum.c`,
`frontend.c` and `backend.c` in `scribble/src/scribble/`; `function.c` and `operator.c`
in `scribble/src/arch/arm64/`; `lsp_base.c` and the files of one type each in `lsp/schema/`;
`metaModel.json` in `lsp/meta/`.

To run a configuration: `tlc -config MCBuffer.cfg MCBuffer.tla`; to check the
proofs of a module: `tlapm BufferProofs.tla`.

## 1. Inventory

### Components, their state and their operations

| Component | State | Operations | Talks to |
|---|---|---|---|
| **Buffer** (`buffer.c`) | text, undo buffer, undo stack and pointer; `version`, `saved_version`, `indexed_version`; lines, tokens, diagnostics; listeners | insert, delete, replace, undo, redo, save, save as, close, build indices, word and line searches | disk; listeners of the mode; the editor, which compares the versions |
| **Buffer table and session** (`eddy.c`) | `eddy.buffers`, an array of buffers whose slots are reused; `.eddy/state` | new, open, close buffer; start, open directory, quit; theme, diagnostics | Buffer, editor, disk |
| **Editor and views** (`editor.c`) | `editor->buffers`, an array of views that refer to buffers by number; the current view; cursor, selection, scroll position | select, close, previous/next; typing, movement, clipboard, find and replace; the questions before closing | buffer table, modal boxes |
| **C mode** (`c.c`) | the language server handle; completion and search lists | listener that sends didOpen, didChange, didSave, didClose; formatting, completion, semantic tokens, include search | Buffer listener, language-server client |
| **Language-server client** (`lsp/lsp.c`) | the child process; `init_condition`; the next id and the queue of requests; capabilities | start and initialise, send a request, send a notification, read and dispatch responses | child process, reader thread, application queue |
| **LSP schema and generator** (`lsp/schema`, `lsp/ts`) | generated C types, and the program that generates them | encode and decode every type of the protocol | JSON |
| **Pipes and processes** (`pipe.c`, `process.c`, `mutex.c`) | a descriptor, a growing buffer and the part of it not handed out; a recursive mutex with a condition; a reader thread | connect, drain, expect, current, close; start, wait, execute | the child, the reader thread, three kinds of client |
| **Application loop** (`app.c`, `widget.c`, `mode.c`) | the widget tree, focus, modals, queued characters, pending commands (with a mutex) | a frame: resize, process input, draw; submit a command from another thread | editor, language-server client |
| **Modal boxes and minibuffer** (`listbox.c`, `minibuffer.c`) | entries, filter, selection; the query in progress | show, filter, submit, dismiss; query, chained queries | application loop, editor |
| **Themes, Scribble mode, cmake** (`theme.c`, `scribble.c`, `cmake.c`) | colour tables; lexer directives; the build directory | load a theme; handle directives; build | Buffer, processes |
| **Template engine** (`eddy/src/template/`) | a token stream, a tree, a scope | lex, parse, render | `base` JSON and lexer |
| **Base library** (`base/`) | string builders, scanners, JSON, XML, lexer, arrays, hash maps; sockets, HTTP, dynamic loading | construct, scan, parse, encode; listen, read, write | everything |
| **Scribble's parser** (`parser.c`, `lexer.c`) | a lexer per module that is being read, errors, the tree | import the packages, parse a module, recover from an error | the binder, the frontend |
| **Scribble's binder** (`binder.c`, `type.c`) | the tree with types, a count of unbound nodes and of errors, the registry of types | a first pass, further passes as long as they make progress; folding by the interpreter | intermediate code |
| **Intermediate code and code generator** (`intermediate.c`, `arch/arm64/`) | per function a list of operations; a stack of value locations, the registers handed out, a frame | lower a tree; generate each operation | run-time |
| **Interpreter and debugger** (`execute.c`, `datum.c`) | data stack, scopes, call stack, instruction pointer; breakpoints | execute each operation; evaluate an expression for the binder | frontend |
| **Frontend and backend** (`frontend.c`, `backend.c`, the Scribble mode) | a socket between two processes, the stage the backend is in | send a request, wait for the answer, answer | `base` sockets and HTTP |

### Threads, processes and order

The editor runs on one thread, a frame at a time: input, pending commands, then
drawing, which re-indexes every buffer whose `indexed_version` is not its
`version` (`eddy_on_draw`) and brings the cursor of each view in line with the new
index (`editor_update_cursor`). Each child process has a detached reader thread
(`read_pipe_read`), which shares a buffer and a recursive mutex with the thread
that started the child. For the language server the reader thread parses
messages in its callback and hands responses to the frame loop through
`app_submit`. There is no thread in `buffer.c`, `editor.c` or `eddy.c`: what is
hard there is not interleaving but long legal sequences over reused slots,
holes, three counters and references by index.

Scribble is two processes. The backend parses, binds, generates or executes, and
reports each stage to the frontend in an HTTP request whose answer it waits for. Within
the backend everything is sequential; what is hard there is order of another kind: the
passes of the binder, the two passes of the code generator, scopes and stacks that
operations open and close one by one.

### What is hard, and what makes each part correct

* *Undo* works through references into an append-only undo buffer that four
  operations extend in four orders and that nothing checks when it is read. It is
  correct when every reference stays inside, and when undoing gives back the text.
* *"Is it saved?"* compares `saved_version`, which a save sets to the size of the
  undo stack, with `version`, which edits, undos, new views, themes and diagnostics
  bump. It is correct when a buffer that is closed without a question is on disk.
* *The line index* is rebuilt lazily; it must not be believed when it is old.
* *The cursor* is left by commands as a line, a column or an index, and made
  whole by the next frame. It must stay in the text and be where it is drawn.
* *The language server's copy* is correct when it equals the buffer after every
  notification.
* *The two tables* refer to each other by index. They are correct when the current
  view shows a buffer of the table, and when closing picks a view that exists.
* *Closing, quitting, restarting* must not lose text nobody was asked about, and
  the next session must start with the last one's files.
* *The read pipe* must hand out each byte once and in order, must not leave a
  client asleep on data, and its thread must end when the child does.
* *The two Scribble processes* must find exactly the messages that were sent, however
  they are cut, must both end, and a dying backend must not be waited for.
* *The protocol's types* must be decoded to what was encoded, and nothing that was not
  said may be made of a message that is not as expected.
* *The parser* must take a text as a whole, as C's precedences mean it, and end on any
  text. *The binder* must accept the programs that make sense and no others, in
  whatever order they declare their names, and bind them to the last node.
* *Both back ends* must compute what the program means: registers, frame slots, labels,
  scopes and the data stack must fit together across operations.

`PROJECT.json` lists each hazard at its line.

## 2. Modules

| Module | Models | Code |
|---|---|---|
| `Buffer` | one slot of `eddy.buffers` | `buffer.c`; the version bumps of `eddy.c`, `editor.c` |
| `BufferProofs`, `LspDocumentProofs`, `EditorViewsProofs`, `EditorCursorProofs`, `ReadPipeProofs`, `ExchangeProofs`, `Arm64Proofs` | theorems about the module of that name (section 5); `BufferProofs` also has those about `UndoHistory` | |
| `NumberLemmas` | least and greatest numbers, induction and recursion, for the proofs | |
| `TextHistory` | what an undo history promises (abstract) | |
| `UndoHistory` | `Buffer` with the texts its events were applied to; refines `TextHistory` | |
| `LspDocument` | `Buffer`, its listener, and the server's copy (external) | `c.c` listener, `buffer.c` positions and `buffer_uri`, `editor.c` views |
| `EditorViews` | the tables of buffers and views, questions, sessions | `editor.c`, `eddy.c`, `listbox.c` query box |
| `EditorCursor` | cursor, selection, clipboard and the frame | `editor.c` commands, `buffer.c` word boundaries |
| `ReadPipe` | a pipe, its reader thread, the child (external), three clients | `pipe.c`, `process.c`, `mutex.c`, `sb.c`, `cmake.c` |
| `Rpc` | what the conversation of two processes promises (abstract) | |
| `Exchange` | frontend and backend with their sockets; refines `Rpc` | `frontend.c`, `backend.c`, `http.c`, `io.c`, Scribble mode |
| `LspBase`, `LspSchema`, `LspMessages` | the codecs of the protocol's types, the types, a message on its way | `lsp_base.c`, `lsp/schema/*.c` |
| `Grammar` | the texts of a tree (reference) | operators' precedences |
| `Parser` | the parser | `parser.c`, `base` lexer operations |
| `Language` | when a program makes sense (reference) | operator tables of `binder.c` |
| `Binder` | the binding of every kind of node | `binder.c`, folding |
| `Compiler` | `Parser`, then the passes of `Binder` | `bind_program`, `backend.c` |
| `Intermediate` | lowering of bound trees | `intermediate.c` |
| `Meaning` | what a program means (reference) | |
| `ScribbleTypes` | types of values and their sizes | `type.c`, comparison operators of `binder.c` |
| `Arm64Code`, `Arm64` | registers and instructions; the code generator | `arch/arm64/*.c` |
| `Arm64Machine`, `Arm64Run` | a processor (external); the generated program run on it | |
| `Interpreter` | the stack machine | `execute.c`, `datum.c` |
| `Programs` | the programs both back ends are given | |
| `MC*` | instances for TLC | |

### Buffer

Each field of `Buffer` that decides control is a variable of the same name.
Positions are 0-based as in the code. A `StringRef` is an index and a length into
`undoBuffer`; an event carries an `inserted` and a `removed` reference, which are the
`insert.text`, `delete.deleted`, `replace.replacement` and `replace.overwritten` of
the code's union. `buffer_edit` is `ApplyAndPush`: it clamps, grows the undo buffer,
calls `buffer_apply` with its early returns, pushes, and moves the pointer to the
top, whether or not `buffer_apply` did anything. Undo and redo both apply
`revert_edit`. Nothing ever pops the stack: an edit after an undo is pushed above
the events that were undone.

The text is a sequence of symbols of `Char`, among which only the newline and the
space `buffer_merge_lines` inserts are told apart. A file name pushed into the undo
buffer by a save is one symbol. Saving is `Save`, with the assertion of
`buffer.c:260`, the two early returns, and the write. The slot's life is
`eddy_new_buffer`, `buffer_open`, `BufferOpenFails` and `buffer_close`: a slot with no name and no
text is handed out again with whatever history and counters it has.

Left out of `Buffer`: syntax tokens and diagnostics' ranges. `index` stands for the
lines; the tokens are built in the same function from the same text. The searches
for words and lines change no state; they are in `EditorCursor`.

### UndoHistory and TextHistory

`TextHistory` is a document and the list of texts it went through. `UndoHistory`
adds to `Buffer` the history variable `before` (the text each event was applied to)
and the flag `linear`: every push was made at the top of the stack, nothing was
redone, and no file was opened into an emptied slot that kept its stack. The
refinement maps `past` to the part of `before` below the undo pointer.

### LspDocument

The listener runs inside `buffer_apply`, so an edit and its notification are one
step. Positions are computed from `lines`, the index as it is at the time of the
edit, which may be older than the text; the server clamps a position to its own
copy. `viewed` and `ViewBuffer` are `editor_select_buffer`, which sends didOpen
for each new view; closing a view sends nothing. `uri` is cached by `buffer_uri` and
freed, but not reset, by a save under another name: what is read after that is what
the memory held or something else (`ReadUri`). The module starts where
`lsp_initialize` has returned; how it may get there is in section 6.

### EditorViews

The state of the editor is a record that operations map to another record, because
`editor_close_buffer` is a chain of five functions, each of which reads what the
previous one left. Indices are one more than in the code, so -1 (a hole) is 0.
`misstep` records that a view was taken from a hole, or that the buffer of the
current view was zeroed: from then on commands of the real program read outside the
tables, so no command is modelled after it. A session ends by quitting (which
writes the list of files) or by being killed (which does not), and the next one
opens the listed files, with `fatal` when one does not open, as `MUST` does.

The query box (`listbox_create_query`) is modelled by what its buttons do: *No*
carries the value of *Cancel* (`listbox.c:262`).

### EditorCursor

One view and one text. A command leaves a position in `newCursor`, or -1 there and a line
in `pos` or a column in `cursorCol`; `Draw` re-indexes and is `editor_update_cursor`. What a
frame takes and in which order is `MayFollow` (`app.c:212-241`): the pending command that was picked
from the list, then the command of a key or, if no key has one, all typed characters and after them the
wheel or a click. For all of them `cursor` and the index are those of the last frame: `indexed` is the
text of the index, `frame` what this frame took last. A session may take any number of such frames.
Reading outside the text gives what the string builder gives there:
the NUL behind it, the zero byte before it; what lies further behind is what an earlier and longer text left,
a choice of its own (`LinesAt`, `LeftFrom`, `BraceByChance`). `goal` and `cut` are history variables (the column
a run of vertical moves started from; the last thing cut, until the next command).

`missteps` names what is known to leave the cursor astray: `empty` (a move in an empty text,
where `length - 1` is the largest number), `line` (the last line selected whole ends one
behind the text), `column` (a position set without forgetting the remembered column), `undo` (an undo does
not move the cursor; the text it gives back is one of `OtherTexts`), `place` (the text changed in front of the cursor, which
then is where it was drawn: an insertion at the cursor in front of the selection, or two braces typed in a frame
around a selection), `stale` (an input read the index or the cursor of the last frame in a text that an
earlier input of this frame has edited, or read a `newCursor` that was -1).
A session goes on after the missteps in `Followed`, in texts of at most `AstrayText`, and never after `stale`. In the run that is an
empty text: the frame of a misstep is drawn and checked, and what comes after it in longer texts is left to the theorems, which
hold for every `Followed` and `AstrayText`.

What ends the editor is an `outcome`: a command that asks for the shift key but was picked from the list
(`no key`, `editor.c:558`), a column that was forgotten for a line that is still wanted (`no column`, `editor.c:303`),
a line that is gone (`no line`, `editor.c:641`), the mate of NUL (`no brace`), reading a text without memory (`fault`).

### ReadPipe

Bytes are numbered in the order they are written, so a text is a start and a length;
a view also names the block it points into, since `sb_append_chars` moves the buffer.
A critical section in which the thread does not wait is one step; the drain is several,
since the reader holds the mutex over several reads. `read_pipe_close` runs outside
the mutex in three steps. `read_pipe_expect` returns false with the mutex locked
(`pipe.c:150-154`), which is `held`; the wakeup of another thread then signals, and
its unlock fails with `EPERM`, which `mutex.c` tolerates. The condition wait may end without a
signal. `_execute_pipe` copies a pointer and a length outside the mutex, in either order.

### Exchange and Rpc

A message is a sequence of tokens (the URL or the status, the end of a line, the
`Content-Length` header, the tokens of the body); any prefix of what an end writes may be
read before the rest, in as many pieces. `at` is the call the backend makes, stage after
stage, or how it leaves; it waits for each answer. A handler answers, and says whether it
leaves; the two handlers are the command line's and the editor's. The
backend may die in any stage, with or without a last message; what the other end then
reads and writes is what the socket gives. `Rpc` is the abstract specification: a
question is asked, answered once with what the handler has for it, and only then the next
one is asked. The threaded mode, in which both ends live in one process, is not modelled.

### LspBase, LspSchema and LspMessages

The files of `lsp/schema` repeat the same code for each type. `LspBase` has it once, as
functions of a type's *shape*: object, nested object, list, union, enumeration, scalar.
`LspSchema` has the shape of each type, with its members in the order the code takes them.
`LspMessages` builds, for each type, values in which each member, alternative and word occurs, sends one, may change one
part of it (leave it out, give it another kind, or a number that is negative or too wide), and
decodes it: `json_decode` first, then the type's decoder. A decoder's assertion ends
the program and is an outcome of its own.

### Grammar and Parser

A parsing function takes the state of the parser and returns it; all that call
each other go through `Parse(what, c)`. The two loops, over the definitions of a module and
the statements of a body, and the imports are steps of a machine, because that is where the
parser may fail to end. `Grammar` does not use the parser: it gives the text of a
tree with the parentheses that C's precedences (to which `op.h:12` refers) ask for.
`missteps` names the places where the parser does not do what the language asks for:

| Misstep | What happens |
|---|---|
| `swallowed` | a number takes the identifier behind it for its type: the test in `IntegerType_from_name` is the wrong way round (`integer.c:12-33`) |
| `hole` | an operator without a right operand is accepted (`parser.c:462-504`) |
| `crash` | a NULL node is used |
| `bracket` | `{` and `(` are binary operators (`op.h:52-53`): `while true {` and `if (a == 2) {` are refused |
| `subscript` | `[` has another precedence (`op.h:28`): `a[b[1]]` is refused |
| `ternary` | a conditional expression never parses |
| `silent` | a part is dropped without a word |
| `fatal` | a missing `}` before a nested `func` ends the program |
| `endless` | a body at the end of the text is read for ever (`parser.c:976`) |
| `dangling` | the lexer of an imported module is used after its function has returned (`parser.c:1216`) |
| `shared` | an import is chained into the statements of the module |

### Language, Binder and Compiler

Binding returns a context (counts of errors and unbound nodes, the registered types) and a
node; the frames around it, innermost first, are what a name is looked up from, and hold what stands
before the node and, in later passes, what stands behind it. `Compiler` runs the parser, then
`FirstPass` and as many `NextPass` as `bind_program` makes. Only programs without a parser's
error or misstep, and of the kinds of node the binder models, get there. `Language` is the
reference: innermost scope, declaration before use save for functions,
structures and globals, and the binder's own tables of operators. The missteps of the binder are
`crash`, `inner`, `skipped`, `initialiser`, `shadow`, `early`, `hidden`,
`unary`, `constant`, `twice`, `for`, `grown`, `path`, `evaluator` and `untyped`; section 6
has the ones a user meets. The binder's definitions were compared with the real binder on
some 16,000 programs; they differ only where the real one folds an operand that is missing
(`evaluator`) or reads a variable argument list twice (`error_or.h:66`).

### Intermediate, Meaning, Programs

`Intermediate` turns a bound tree into the list of operations of its function, as
`intermediate.c` does. `Meaning` is structural recursion over the same tree: integers wrap
at their width, arguments are evaluated last to first, as both back ends do. `Programs` has
the programs: every operator, conditional, loop, jump, match, call and nesting of scopes.

### Arm64, Arm64Machine and Arm64Run

`Arm64` generates a program operation by operation. `Declared` is the first pass over a function
(`generate_function_declaration`), which gives out the slots of the frame: `Layouts` has the layout after
every operation, and a scope is named by the place of its `SCOPE_BEGIN`. The second pass has one action per
operation, on a compile-time stack that says where values are. Both read their intermediate
code from the constant `Operations`, so that the module has no recursion over trees and can be proved
about; the run gives it what `Intermediate` makes of the programs. `Arm64Run` adds the step that runs a finished program,
at once, on `Arm64Machine`, whose instructions are the ones the generator writes. That step changes only
`outcome`. Registers that a call does not keep hold
anything after it; memory that was not written is `Junk`. Missteps: `saved`
(`function.c:573`, a saved register is restored from below the stack pointer), `early`
(`function.c:48`, a name is taken for a variable declared later in that scope), `unary`
(`binder.c:467`, the result of a negation has another type). A program the generator
refuses or dies on ends in an outcome of its own: arguments of the wrong type, a return without a
value, a cast of an immediate, and no register left (`fatal`).

### Interpreter

One action per operation of the machine, on a data stack, a stack of scopes per function and
a stack of frames; the same actions fold expressions for the binder (`folding`). Its
missteps are in the head of the module; what ends it aloud (an exception, an assertion,
a fatal error) is the outcome.

## 3. Runs

| Run | Question | Bounds | Distinct states |
|---|---|---|---|
| `buffer` | references, index, saved flag and assertions of one slot under every operation | texts and undo buffer of 2 symbols, 2 events, version 3, 2 files (one missing, one watched) | 0.7 M |
| `undo_history` | does the buffer refine `TextHistory` | 2 events, undo buffer of 3, version 4, 1 file | 0.7 M |
| `redo` | does redo restore | version 5 | violated |
| `lsp_document` | the server's copy | text of 3, 2 events, version 4, 1 watched file | 1.0 M |
| `read_pipe` | order, sleep, delivery, termination | 5 bytes, 2 per read, first block of 2 | 10 k |
| `editor_views` | tables, closing, asking, restarting | 2 sessions over 2 buffers and 2 files, and 1 session over 3 buffers and 1 file (`Room`); 1 edit, version 2 | 2.8 M |
| `exchange` | pieces, deaths, answers, ends | bodies of 3 tokens, 2 reports per stage, 2 unbound nodes; three configurations | 8 k |
| `editor_cursor` | cursor, frames of several inputs, columns, clipboard, braces | texts of 3 symbols, 3 texts that an undo gives back, pages of 2 lines, any number of frames; after a misstep only in an empty text | 1.0 M |
| `arm64` | does the code compute the meaning | some 800 programs; words of 5 bits, bytes of 3, 9 registers, 2,000 steps | 59 k |
| `interpreter` | does the machine compute the meaning | some 500 programs, some 1,200 constant expressions; words of 5 bits; stack of 12 | 18 k |
| `lsp_messages` | do decoders read what encoders wrote | every type of the schema; numbers of 8 bits for 32 | 16 k |
| `compiler` | what is accepted, as what, and does it end | some 12,000 texts, with and without the standard library | 0.4 M |

**Why these bounds.** Two events suffice for every pair of operations that append to
the undo buffer, and for an edit above an undone one; a text of two symbols has an
empty line, a line without an end, and a range that covers a newline. Version 3 (4)
leaves room for a bump that is not an edit between two that are. Three buffers give a
view a hole on its left, a hole on its right, and a slot handed out again while others
are shown; two sessions are one end and one restart; one edit makes exactly one buffer
differ from its file. The first block of two bytes moves once and again within five
bytes, and 5 is odd, so that drains end with a full read, a short read, and a read that
fails with `EAGAIN`. A body of three tokens is cut before, in and behind it. Three symbols
make a line above, a shorter one between and one below, a pair of braces with something in it, and a selection with text on both
sides. Words of 5 bits overflow in the programs' constants and still hold
every loop's count; 9 registers (5 scratch, 4 saved) run out in nested
calls. The texts of `compiler` are every kind of statement in every other and the pairs
of operators, each slip of one token in six programs, and the programs of two
and three declarations and uses of one name in any order and depth. The proofs in
section 5 need no bounds; they hold for every value of them.

**Deadlock** is not checked: every bound stops the model somewhere, `alive = FALSE`
and `session = "fatal"` are ends of the program, a client that has left stays
left, and the modules that run a program or a message stop at its end. What must not stop is
said by `ReaderEnds`, `BothEnd`, `EveryTurnTakes` and `BinderEnds` instead.

**Restricted specifications.** Where the code breaks a property along one known path,
the run excludes exactly that path, and section 6 says how to see it:
`PromptSpec` excludes edits whose positions come from an old index, and closing
under a freed URI; `SteadySpec` excludes the two missteps of `EditorViews` (`RoomySpec` is `SteadySpec` within `Room`);
`LinearSpec` excludes non-linear histories and replacements by nothing. The properties
`AssertsHoldWithoutEmptyReplacement` and `CleanMeansStored` carry that condition
themselves, and in the modules with `missteps` the properties carry `missteps = {}`, or the ones
they hold in spite of.

**Fairness.** `ReadPipe` and `Exchange` state liveness. The reader thread and the client
thread, and the two processes, are scheduled by the operating system, and each is a loop
with nothing else to do: weak fairness of each as a whole. The
child has none: it may write for ever, never, or not exit; spurious wakeups
have none, and the deaths of a backend (`StageDies`) need not happen. The safety modules are checked
without fairness: what must end in them is bounded by a count (`EveryTurnTakes`, `BinderEnds`).

## 4. Properties worth reading first

* `UndoRefsInBounds`, `ImplementsTextHistory`: undo.
* `CleanMeansStored` in one slot, `NothingLostUnasked` and `ClosedIsOnDisk` over the tables:
  the comparison of two counters that count different things lets go only of text
  that is on disk. `SessionIsKept`: a quit writes what the next start opens.
* `ServerMirrorsText`: positions computed before the edit from the old text, on a
  server that clamps, give the new text.
* `CurrentViewUsable`: what every command dereferences without a test.
* `CursorInText`, `PosIsOfCursor`, `VerticalKeepsColumn`, `CutPasteRestores`, `BraceIsMatched`: what the user of
  the editor relies on without thinking.
* `HandedOutInOrder`, `NoSleepOnData`, `AllIsDelivered`, `EndedOutputIsWhole`, `ReaderEnds`: the
  pipe, including a function that returns with a lock held.
* `ImplementsRpc`, `NothingLeftOver`, `OneMessageUnderWay`, `BothEnd`: two processes, pieces of messages, and
  deaths.
* `ComputesMeaning` and `NeverSaysElse`: two back ends against one reference.
  `LocationsHeld` and `SlotsApart` say why the first one holds; `PlainCodeEnds` says
  that the interpreter does not merely stop.
* `WhatIsSaidIsHeard`, `NothingIsMadeUp`: every type of the protocol.
* `AcceptedIsWhole`, `ParsedAsMeant`, `AcceptedIsBound`, `SensibleIsAccepted`: no word of a program is
  dropped, and programs are accepted exactly when they make sense. `EveryTurnTakes`, `BinderEnds`: three
  loops whose end is not written in them.

The type invariants of `ReadPipe`, `EditorViews` and `Exchange` (`TypeOK`) are proved (section 5)
and no listed run has them.

## 5. Proofs

The theorems hold for every alphabet, set of texts, names and files, every size of a page, of
a read, of a block and of a body, and for every bound of section 3: each module assumes only
the named `ASSUME` about its constants, and `tlapm` checks every step to the last leaf. TLC
evaluates the same assumptions in the runs. A theorem of `Spec` speaks of every behaviour, one
of a restricted specification of the behaviours that section 3 leaves.

| Module | Theorem | States |
|---|---|---|
| `BufferProofs` | `Invariance`, `TypeCorrect` | `Spec => []IInv`, `Spec => []TypeOK` |
| | `UndoStaysInBounds`, `IndexCorrect` | `Spec => []UndoRefsInBounds`, `Spec => []IndexIsCurrent` |
| | `CleanCorrect`, `AssertsCorrect` | `Spec => []CleanMeansStored`, `Spec => []AssertsHoldWithoutEmptyReplacement` |
| | `LinearInvariance` | `LinearSpec => [](IInv /\ LinearIInv)` |
| | `UndoHistoryRefines` | `LinearSpec => ImplementsTextHistory` |
| `LspDocumentProofs` | `MirrorInvariance`, `ServerKeepsUp` | `PromptSpec => [](IInv /\ MirrorIInv)`, `PromptSpec => []ServerMirrorsText` |
| `EditorViewsProofs` | `Invariance`, `TypeCorrect` | `SteadySpec => []IInv`, `SteadySpec => []TypeOK` |
| | `CurrentUsable` | `SteadySpec => []CurrentViewUsable` |
| | `LossIsAsked`, `ClosedIsKept`, `SessionsFollow` | `SteadySpec => NothingLostUnasked`, `... => ClosedIsOnDisk`, `... => SessionIsKept` |
| `EditorCursorProofs` | `Invariance` | `Spec => []IInv` |
| | `CursorStaysInText`, `PosFollowsCursor`, `ColumnKept` | `Spec => []CursorInText`, `Spec => []PosIsOfCursor`, `Spec => []VerticalKeepsColumn` |
| | `CutRestored`, `BraceMatched` | `Spec => CutPasteRestores`, `Spec => BraceIsMatched` |
| `ReadPipeProofs` | `Invariance` | `Spec => []IInv` |
| | `OutputInOrder`, `NoLostWakeup` | `Spec => []HandedOutInOrder`, `Spec => []NoSleepOnData` |
| | `AllDelivered`, `ResultWhole` | `Spec => []AllIsDelivered`, `Spec => []EndedOutputIsWhole` |
| `ExchangeProofs` | `Invariance`, `TypeCorrect` | `Spec => []IInv`, `Spec => []TypeOK` |
| | `MessagesWhole`, `OneAtATime` | `Spec => []NothingLeftOver`, `Spec => []OneMessageUnderWay` |
| | `ConversationRefines` | `Spec => ImplementsRpc` |
| `Arm64Proofs` | `Invariance` | `Spec => []IInv` |
| | `SlotsHold`, `LocationsHold` | `Spec => []SlotsApart`, `Spec => []LocationsHeld` |

With these every safety invariant, action property and refinement that a run checks of the
editor, of the pipe and of the conversation of the two processes is a theorem, and so are the two invariants
that say why generated code finds its values. Each proof has an
invariant that is inductive, one lemma per action or family of actions that it is preserved, and
lemmas about the operators of the module. Each invariant was checked by TLC first.

**Buffer.** None of the properties is inductive. `IInv` adds three facts:

* `RefsGood`: a reference not only ends inside the undo buffer, it covers characters
  and never a file name pushed by a save. Without it, undo could put a file name
  into the text, and `TypeOK` would not be preserved.
* `CountersOrdered`: `indexedVersion <= version`; and, unless something was replaced by
  nothing, both the stack's length and `savedVersion` are at most `version`. This
  is what makes `savedVersion >= version` mean "equal", so that no change happened
  since the save, and what makes the two assertions hold.
* `ClosedIsBlank`: a closed slot has no name, text or lines, which is why a new
  document in it starts clean.

**UndoHistory.** `LinearIInv` says that every event below the undo pointer is `Undoable`: in the
text it would be reverted in, its reversal does something, and gives the text it was applied
to. An edit makes the newest event so (`PutInText` and its neighbours compute both texts
character by character), and since the undo buffer only grows, the older ones stay so. A step of
the buffer then is an edit, an undo, a new document or a stutter of `TextHistory`.

**LspDocument.** The server can be wrong in three ways that exclude each other only together: a copy under
a name the document no longer has, a copy of a document that is gone, and a copy that missed a change or
got it twice. `UriIsOfName`, `ListenerNamed` and `OnlyTheTextIsKnown` rule them out; `ShapesKept`
says that the events on the stack are insertions, deletions and replacements with the references
that such an event has, which is what makes the reversal of an event a change the listener tells. The lines of the index turn an
offset into a position and the server turns it back; that the two agree is proved for texts of
any length.

**EditorViews.** That the current view is usable needs the other views to be, because any may become
current, and that no slot is zeroed under its view needs a buffer to have one view only:
`ViewsGood`. `SoundSlot` orders the counters, `savedVersion <= edits <= version`, and
`ViewsGood` makes the last one strict for a buffer that is shown. So closing a document that is shown
always asks, edited or not, and what is closed without a name is never taken for saved. `Kinds` ties the
saved list of files to the table until the next session has read it.

**EditorCursor.** `InText` is the invariant between two inputs of a frame, where `newCursor`, a line in `pos` or a
column in `cursorCol` stands for the cursor; `Types` says which. A key's command after a pending one, characters after either
and the mouse after all of them start from it, and what they read that is older than the text is a misstep. `ColumnHeld` ties the remembered column to
the one that is drawn, and `CutHolds` says that the text is what it was but for the piece on the
clipboard. The binary search of `buffer_line_for_index` is proved to find the line with the greatest start that is not
above the index (`SearchFinds`, by induction on the width of the interval), lines are identified by the rank of their
start among the starts (`LineIs`), and matching braces by induction on the distance, with
the depth of a text in two parts as the sum of their depths (`DepthIs`).
A command from the list that edits nothing leaves the drawn position to the key of the same frame, which the last
conjunct of `InText` says.
`CutPasteRestores` turned out to need no condition on missteps: it holds of every cut that begins in the text, wherever
its end or the cursor has been left. A cut that begins elsewhere puts nothing of the text on the clipboard (`NotesCut`), so it says nothing of those.

**ReadPipe.** The properties are all but inductive. What is missing is what the reader may know: a hang-up that was
seen comes from a child that has ended (`HangupIsTheEnd`), a client with a callback has taken
everything whenever no drain is under way (`CallbackTookAll`), the mutex stays locked only after the
pipe is closed (`LockKeptAfterClose`), and what `_execute_pipe` copies while it holds it is final
(`ResultIsOfTheEnd`). `Capacity` is the doubling of the string builder, a recursive
function; that it is large enough is proved for every size.

**Exchange.** The invariant names where a message is: `CarriedAs(e, head, size, n, b, w)` says that its reader has made of
the first `n` tokens what `ReaderAt` says, that those up to `b` are in its buffer, those up to `w` on the
wire, and the rest still to be written, and that no other message is on its way. The conversation is `Idle`,
`Asking` or `Answering`, and every piece that is written or read, and every death, leads from one to another. The same facts give
the refinement of `Rpc`.

**Arm64.** What is assumed of a program (`SourcesAssumption`) is what `intermediate.c` writes: the code of a function
is one block (`generate_FUNCTION_IMPL`), blocks are closed, a `CASE` is followed by the constant and the `WHEN`
it belongs to (`intermediate.c:584-591`), and a call names a function of the program, which the binder saw
to and `generate_CALL` asserts. Which operations stand in a block, in what order and
with what operands is left open, and so are the registers. The invariant has two halves.

* *Slots.* `Walking` says that the second pass is in the scope in which the first was at the same operation. What the
  first pass has laid out then is `LaidOut`: the scopes form a chain, each starts where
  those around it have got to (`Stacked`), the variables of one lie one after the other (`InLine`), and the depth of the frame
  covers whatever has ended. But `SlotsApart` is about the frame at the *end* of the first pass, while the scopes
  grow after a nested one has been entered. `Extends` bridges this: what was laid out stays where it
  is, and what comes later is declared later. Every scope is covered by the frame only if each is closed
  in the end, which the count of blocks shows (`AsDeep`, `FrameHoldsAll`).
* *Registers.* `Held`: every place on the compile-time stack and among the match values that is a register is
  handed out, and no two have the same one. It does not hold between a `CASE` and its `WHEN`, where a copy
  lies on the value that is compared (`CopyOnTop`); `Compared` tells from the code where that is. An operation is a chain of
  pushes, pops, allocations and copies, each of which keeps `Sound`: held, or out of registers. For that is what allocation
  gives when there is none: register 0 in the set, which nothing takes out again, and `GeneratedIn` ends the compiler at the end
  of the operation.

`LocationsHeld` excepts programs with a unary operator (`unary`): `arm64operator_apply_unary` gives up the register its result is in, and
the invariant is lost with it. `Arm64Run`'s step changes nothing these theorems are about, so they
hold of `RunSpec`, which TLC checks, as of `Spec`.

**NumberLemmas** has what these need about numbers. The library's induction and recursion
theorems take an operator as a parameter, which the installed provers cannot instantiate. Here they are stated of
a set and of a function: a set that holds 0 and each successor holds all numbers
(`SetInduction`), a set of numbers has a least and a bounded one a greatest member, and the
values of a recursion on numbers exist and are unique (`ComputedUpTo`, `ComputedAgree`,
`Recursion`). With them the recursive functions of these modules (`Capacity`, the opening of a list of files, the
names of a table, the search among the lines, the layout of a frame) could be reasoned about.

**Only model-checked.** `ReaderEnds` and `BothEnd`: liveness under fairness is out of the prover's reach. `ComputesMeaning`
of `Arm64Run`, and everything about Scribble's parser, binder and interpreter and about the protocol's types: `Parser`, `Binder`,
`Language`, `Compiler`, `Intermediate`, `Meaning`, `Arm64Machine`, `Interpreter` and `LspMessages` recurse
over trees and programs with RECURSIVE operators, with which `tlapm` loses its arithmetic, and
what they say is about the value of such a recursion for every tree.

**What the proofs found.** Two braces typed in one frame around a selection of two symbols (`app.c:223`
hands out all queued characters) put the cursor where it was drawn, in a text that has changed in front
of it. `editor.c:289` then leaves the view as it is, with the line and the column of another place. It takes a text of six symbols,
more than the run has, and the attempt to prove `PosFollowsCursor` failed on it; the misstep `place`, an insertion
in front of a selection, now names this one too. And the condition of `CutPasteRestores` was
stronger than need be.

## 6. Where the code and its own words differ

`redo` is a run whose counterexample TLC finds: `editor-redo` applies the undo of the
event a second time.

The following have no run of their own. The counterexample is found by checking the property
named in the module's `Spec` instead of its restricted one, or by dropping the misstep from
the property's condition.

* *Assertions.* A replacement by nothing is pushed on the undo stack and not counted
  (`buffer.c:330`); a save then makes `saved_version` exceed `version`, and the next save
  fails its assertion (`buffer.c:260`): `AssertsHold`.
* *Positions.* Two edits between two frames: the second one's positions are those of the
  text before the first (`buffer.c:225`): `ServerMirrorsText` under `LspSpec`.
* *Tables.* A buffer shown in the place of a closed view keeps `buffer_num` -1
  (`editor.c:181`), and closing the only buffer when it is empty and untitled zeroes the slot that the new view
  has just taken (`editor.c:268-269`): `CurrentViewUsable` under `NoZeroSpec` and `Spec`.
* *Sessions.* A file that could not be read keeps its name (`eddy.c:603`), is saved in the session,
  and ends the next start (`eddy.c:811`): `SavedFilesOpen` with an `InitialDisk` that lacks a file.
* *Pipe.* `read_pipe_expect` looks at the descriptor only after a wait (`pipe.c:151`); if both
  last wakeups came first, it waits for ever: `_execute_pipe` need not return.
* *Cursor.* The assertion of `editor.c:641` fails after an undo that takes lines away, which leaves the cursor where it was
  (`editor.c:863`): `LineAssertionHolds`. So it does after an insertion at the cursor in front of the selection, with `AstrayText` as `MaxText`.
* *Frames of several inputs* (the misstep `stale`). Characters and then the mouse (`app.c:238-239`): typing over a
  selection and a click in one frame set the cursor from lines that are gone, behind the text (`editor.c:1296-1300`), and
  the wheel after them leaves a line behind the last (`editor.c:343`), which `editor_update_cursor` then reads. A page down that was picked
  from the list (`app.c:214`) leaves -1 in `new_cursor`, and the same frame may go on: the Right key forgets the column, and the
  assertion of `editor.c:303` fails (the outcome `no column`); a character goes to the start of the text. `CursorInText` and
  `PosIsOfCursor`, without the condition on missteps.
* *Commands without a key.* A movement that is picked from the list of commands (`eddy.c:217`) has no key combination, and
  `do_select` asserts that it has one (`editor.c:558`): the outcome `no key`.
* *Sockets.* A peer that dies between `poll` and `read` fails the assertion of `io.c:242`:
  `FillBufferAssertion`.
* *The test suite.* `scribble/test/scribble/tests.json` gives exit codes to `if_1`, `if`, `while`
  and `ternary`; the parser at this commit refuses their texts: `{` and `(` count as
  binary operators, and a conditional expression never parses. `SuiteIsAccepted` with `Programs` as
  `MCSuitePrograms`.

In the Scribble compiler:

* `var a: i32 = f(1)` with `f` declared later, or in the standard library, loses its initialisation;
  `f(g()) + 1` with `g` later is accepted with an unbound node inside, for which nothing is
  generated (`intermediate.c:644`). The standard library is seen only from the second pass on, and
  what is imported is never bound again.
* An outer constant hides an inner variable; in the second pass a use before its
  declaration in the same block is accepted.
* `a << 1` is refused; `-a` has another type than `a` (`binder.c:467`); folding a constant loses a cast.
* A second `main`, and a label that ends a list, end the compiler; so may a structure that is
  bound late, whose removal from the list moves the nodes under the loop.
* A pass of the binder that uncovers as many unbound nodes as it binds is taken for no
  progress, and a program that makes sense is refused (`binder.c:1842`).
* In generated code a saved register is restored from below the stack pointer (`function.c:573`).
  `true && x`, a return without a value, a cast of an immediate, and arguments that are too few or of
  another type end the generator.
* In the interpreter a conditional expression runs its second branch after the first, arguments
  never reach parameters, a jump out of a scope leaves it open, a
  call leaves on the stack what nobody wants, and an exception in a called function ends the
  program as if `main` had returned. A `for` loop ends with an assertion, and
  `WHEN` jumps to labels that are not among the function's. "Variable was previously declared"
  is never raised (`execute.c:453` compares with a name no declaration sets): in a scope that
  was left open the old variable stays.

In the language-server schema: no signed integer is ever decoded (`lsp_base.c:63`), and with it no diagnostic with
a code that is a number; an object that is spelled out as an alternative of a union is decoded with
tag 0 (`CompletionList.c:88`, `TextDocumentContentChangeEvent.c:82`); `workspaceFolders: null`
ends the program. A negative number is read as 0, since its sign is not skipped
(`sv.c:594-603`), and of one above 2^32 only the lowest 32 bits are taken (`lsp_base.c:111`):
`NothingIsMadeUp` without the last line of `IsPartOf`. In an enumeration a number that is no int
ends the program (`json.c:163`).

Met while reading the editor:

* Closing the view of a document and showing it again sends a second didOpen
  (`editor.c:186`, against `metaModel.json:1953`); a file opened into the slot of a
  shown, empty, untitled buffer is never announced and yet closed.
* After a save under another name, `buffer->uri` is freed and still read
  (`buffer.c:267`); it is `uriFreed` in the model.
* *Yes* for a document without a name closes it unsaved (`editor.c:906`), and *No*
  closes nothing, although the handler has a case for it (`editor.c:908-910`).
* `_execute_pipe` copies the buffer while the reader may still append to it
  (`process.c:178`); `EndedOutputIsWhole` says when the copy is whole.
* After its first view every buffer has `saved_version < version`, so closing asks
  even when nothing was edited.
* `lsp_initialize` gives the reader thread the address of its parameter instead of the
  client (`lsp.c:314`), so `lsp_read` works on the stack of the thread that waits for it,
  and the answer to `initialize` cannot set `lsp_ready` in the client. The wait
  (`lsp.c:351`) has no loop: it can then end only by itself, and nothing after it
  tests `lsp_ready` on that path.
* A message of the server that arrives in two pieces, cut after its length, is never
  recognised: `ss_read_number` moves the mark that `lsp_read` rewinds to (`ss.c:199`).
* Replacing every occurrence goes on for ever when the replacement contains what is searched
  (`editor.c:1008`).

## 7. Not modelled

* *The language-server client* (`lsp.c`): what its reader thread reads is undefined from
  `lsp.c:314` on, so a model of the handshake would be one of the code as it was meant. What the
  client sends is in `LspDocument` and `LspMessages`. The generator of the schema
  (`lsp/ts`) is TypeScript that writes the C code that is modelled.
* *The application loop, modal boxes, minibuffer, themes, modes*: drawing, layout, tables, and
  a queue that one thread empties; their effects on the buffer are actions of `EditorViews`
  and `EditorCursor`. Find and replace, scrolling and completion lists are left out.
* *The template engine, and the parsers of JSON and XML*: sequential functions from text to a
  tree, whose content is characters. Likewise the lexer: `Parser` starts from its tokens,
  and the `include` directive is left out.
* *In the compiler*: enumerations, variants, macros, compound statements, applied and error
  types in the binder, and the registry of types. *In both back ends*: strings, floats,
  arrays, variants, 64-bit integers, assertions, unary operators on types other than byte, more than eight
  arguments, native stubs; assembling and linking. *In the interpreter*: the debugger, datums'
  allocation (`datum.c:141-160`).
* *In the exchange*: TCP, the threaded mode, the table of sockets.
* Signals that interrupt `poll` or `waitpid`, a full pipe, a disk that fails while
  writing, and allocation failure.

## 8. Plan

The modelling is as complete as section 7 allows, and the safety of the modules about the editor,
the pipe and the exchange, and of the code generator's registers and frames, is proved. What is left:

1. `Interpreter`: that its steps keep the stacks well-formed (`TypeOK`) could be
   proved, if its programs came from a constant, as those of `Arm64` do.
2. `Arm64`: that the stack of places is as deep as the operations say, so that no program the
   binder accepts fails an assertion for want of an operand.
3. `UndoHistory` for histories that are not linear: what an undo still promises after an
   edit above undone events.
4. `EditorViews` after a misstep: how far the tables stay in agreement.
