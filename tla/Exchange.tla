------------------------------ MODULE Exchange ------------------------------
(***************************************************************************)
(* A Scribble frontend and the backend process it starts, at the two ends of *)
(* a local socket (frontend.c, backend.c), the HTTP messages they exchange   *)
(* (http.c) and the buffered, non-blocking sockets that carry them (io.c).   *)
(* The backend runs its stages and reports to the frontend, waiting for each *)
(* answer; the frontend answers until a message ends the session.  There are *)
(* two frontends: the command line (frontend_message_handler) and the editor *)
(* (message_handler of eddy/src/app/scribble.c).                             *)
(* A message is a sequence of tokens: the URL or the status, the end of a    *)
(* line, the Content-Length header, the body.  Any prefix of what is being   *)
(* sent may arrive before the rest.                                          *)
(***************************************************************************)
EXTENDS Integers, Sequences, FiniteSets

CONSTANTS
  Sessions,    \* the frontends and the stages they ask for, [handler, stages]
  BodySize,    \* tokens of a body
  MaxChatter,  \* bound on the reports of one stage about single nodes
  MaxUnbound   \* bound on the nodes one pass of the binder leaves unbound

ASSUME ExchangeAssumption ==
  /\ Sessions \subseteq [handler : {"frontend", "eddy"}, stages : SUBSET {"generate", "execute"}]
  /\ BodySize \in Nat \ {0} /\ MaxChatter \in Nat /\ MaxUnbound \in Nat

VARIABLES
  session,  \* the handler and the configuration
  at,       \* the step of the backend: the call it makes, or how it leaves
  awaiting, \* the backend has made the call and waits for the answer
  chatter,  \* single-node reports made in this stage
  unbound,  \* nodes the last pass of the binder left unbound
  leaving,  \* the handler of the frontend returned true
  status,   \* of both ends: running, or how it ended
  out,      \* what an end still has to write of its message
  wire,     \* what an end has written and the other has not read
  buf,      \* Socket.buffer of an end
  rd        \* the message an end is reading

backend == <<at, awaiting, chatter, unbound>>
stream == <<out, wire, buf, rd>>
vars == <<session, backend, leaving, status, stream>>

F == "frontend"
B == "backend"
Ends == {F, B}
Peer(e) == IF e = F THEN B ELSE F
Closed(e) == status[e] # "running"

-----------------------------------------------------------------------------
(* The calls of the backend, by step.                                         *)

Url(step) ==
  CASE step = "hello"      -> "/hello"
    [] step = "config"     -> "/bootstrap/config"
    [] step = "parse"      -> "/parser/start"
    [] step = "parsing"    -> "/parser/node"
    [] step = "parsed"     -> "/parser/done"
    [] step = "misparsed"  -> "/parser/errors"
    [] step = "bind"       -> "/bind/start"
    [] step = "binding"    -> "/bind/boundnode"
    [] step = "rebind"     -> "/bind/iteration"
    [] step = "bound"      -> "/bind/done"
    [] step = "misbound"   -> "/bind/error"
    [] step = "ir"         -> "/intermediate/start"
    [] step = "lowering"   -> "/intermediate/node"
    [] step = "lowered"    -> "/intermediate/done"
    [] step = "generate"   -> "/generate/start"
    [] step = "arm64"      -> "/arm64/generate/start"
    [] step = "emitting"   -> "/arm64/generate/function/operation"
    [] step = "emitted"    -> "/arm64/generate/done"
    [] step = "generated"  -> "/generate/done"
    [] step \in {"execute", "again", "reexecute"} -> "/execute/start"
    [] step \in {"executing", "reexecuting"} -> "/execute/function/on"
    [] step \in {"raised", "reraised"} -> "/execute/exception"
    [] step \in {"executed", "reexecuted", "rerun"} -> "/execute/done"
    [] step = "goodbye"    -> "/goodbye"
    [] step = "error"      -> "/error"
    [] step = "panic"      -> "/panic"

Reports == {"parsing", "binding", "lowering", "emitting", "executing", "reexecuting"}
Leavings == {"return", "shutdown"}

Gets == {"hello", "config", "parsed", "bind", "ir", "lowered", "generate", "emitted",
         "generated", "execute", "again", "reexecute", "executed", "reexecuted",
         "rerun", "goodbye"}

(* What the answer must be; of these reports the backend ignores it.          *)
Ignored == {"lowering", "emitting", "executing", "reexecuting"}
Must(step) == IF step = "hello" THEN "HELLO" ELSE "OK"

Stage(name, otherwise) == IF name \in session.stages THEN name ELSE otherwise

(* The step after a successful call, outside the binder.                      *)
After(step) ==
  CASE step = "hello"      -> {"config"}
    [] step = "config"     -> {"parse"}
    [] step = "parse"      -> {"parsing"}
    [] step = "parsing"    -> {"parsing", "parsed"}
    [] step = "parsed"     -> {"bind", "misparsed"}
    [] step = "misparsed"  -> {"panic"}
    [] step = "misbound"   -> {"return"}
    [] step = "bound"      -> {"ir"}
    [] step = "ir"         -> {"lowering"}
    [] step = "lowering"   -> {"lowering", "lowered"}
    [] step = "lowered"    -> {Stage("generate", Stage("execute", "panic"))}
    [] step = "generate"   -> {"arm64"}
    [] step = "arm64"      -> {"emitting"}
    [] step = "emitting"   -> {"emitting", "emitted"}
    [] step = "emitted"    -> {"generated"}
    [] step = "generated"  -> {Stage("execute", "panic")}
    [] step = "execute"    -> {"executing"}
    [] step = "executing"  -> {"executing", "executed", "raised"}
    [] step = "executed"   -> {"goodbye"}
    [] step = "raised"     -> {"error"}
    [] step = "error"      -> {"again"}
    [] step = "again"      -> {"reexecute"}
    [] step = "reexecute"  -> {"reexecuting"}
    [] step = "reexecuting" -> {"reexecuting", "reexecuted", "reraised"}
    [] step \in {"reexecuted", "reraised"} -> {"rerun"}
    [] step = "rerun"      -> {"panic"}
    [] step = "panic"      -> {"shutdown"}
    [] step = "goodbye"    -> {"return"}

-----------------------------------------------------------------------------
(* The answers of the two handlers, and the messages that end the session.    *)

Known == {"/bootstrap/config", "/parser/start", "/parser/node", "/parser/done",
          "/parser/errors", "/bind/start", "/bind/boundnode", "/bind/iteration",
          "/bind/done", "/bind/error", "/intermediate/start", "/intermediate/done",
          "/generate/start", "/generate/done", "/arm64/generate/start",
          "/arm64/generate/done", "/execute/start", "/execute/done", "/goodbye"}

Answer(handler, url) ==
  IF url = "/hello" THEN "HELLO"
  ELSE IF handler = "eddy" \/ url \in Known THEN "OK" ELSE "NOT_FOUND"

EndsSession(handler, url) ==
  url = "/goodbye" \/ (handler = "frontend" /\ url = "/parser/errors")

-----------------------------------------------------------------------------
(* Messages.                                                                  *)
EOL == "eol"
Length == "content-length"
Body == [i \in 1 .. BodySize |-> "body"]

Encode(head, hasBody) ==
  <<head, EOL>> \o (IF hasBody THEN <<Length, EOL, EOL>> \o Body ELSE <<EOL>>)

http_request_send(step) == Encode(Url(step), step \notin Gets)

\* Mutant: the command line's answers are sent as the editor's.
ResponseOfEddy(handler, url) == Encode(Answer("eddy", url), url = "/bootstrap/config")

http_response_send(handler, url) ==
  Encode(Answer(handler, url), \/ url = "/bootstrap/config"
                               \/ handler = "eddy" /\ url = "/execute/function/on")

(* Reading.  phase: where the reader is; line: what it has of this line;      *)
(* head: the first line; need: Content-Length; body: what it has of the body. *)
Fresh == [phase |-> "line", line |-> <<>>, head |-> "", need |-> 0, body |-> <<>>]

(* What a line means to http_request_receive and http_response_receive.       *)
TakeLine(r, line) ==
  LET s == [r EXCEPT !.line = <<>>]
  IN  CASE r.head = "" /\ Len(line) = 1 -> [s EXCEPT !.head = line[1]]
        [] r.head # "" /\ line = <<>> -> [s EXCEPT !.phase = IF r.need = 0 THEN "whole" ELSE "body"]
        [] r.head # "" /\ line = <<Length>> -> [s EXCEPT !.need = BodySize]
        [] OTHER -> [s EXCEPT !.phase = "malformed"]

FirstEOL(s) == CHOOSE i \in DOMAIN s : s[i] = EOL /\ \A j \in 1 .. i - 1 : s[j] # EOL

Upto(s, n) == SubSeq(s, 1, n)
From(s, n) == SubSeq(s, n, Len(s))

(* socket_fill_buffer: what is in the buffer after it, if it returns.         *)
Filled(e) == buf[e] \o wire[Peer(e)]

Reading(e) == IF e = B THEN awaiting /\ out[B] = <<>> ELSE out[F] = <<>> /\ ~leaving

\* Mutant: the end of the line is left in the buffer.
ReadlnKeepingEOL(e) ==
  LET b == Filled(e)
      i == FirstEOL(b)
  IN  /\ rd[e].phase = "line"
      /\ IF \E j \in DOMAIN b : b[j] = EOL
         THEN /\ rd' = [rd EXCEPT ![e] = TakeLine(@, @.line \o Upto(b, i - 1))]
              /\ buf' = [buf EXCEPT ![e] = From(b, i)]
         ELSE /\ rd' = [rd EXCEPT ![e].line = @ \o b]
              /\ buf' = [buf EXCEPT ![e] = <<>>]

(* One round of the loop in socket_readln.                                    *)
socket_readln(e) ==
  LET b == Filled(e)
      i == FirstEOL(b)
  IN  /\ rd[e].phase = "line"
      /\ IF \E j \in DOMAIN b : b[j] = EOL
         THEN /\ rd' = [rd EXCEPT ![e] = TakeLine(@, @.line \o Upto(b, i - 1))]
              /\ buf' = [buf EXCEPT ![e] = From(b, i + 1)]
         ELSE /\ rd' = [rd EXCEPT ![e].line = @ \o b]
              /\ buf' = [buf EXCEPT ![e] = <<>>]

(* One round of the loop in socket_read.                                      *)
socket_read(e) ==
  LET b == Filled(e)
      r == rd[e]
      remaining == r.need - Len(r.body)
      surplus == From(b, remaining + 1)
      body == r.body \o (IF Len(b) <= remaining THEN b ELSE Upto(b, remaining))
  IN  /\ r.phase = "body"
      /\ rd' = [rd EXCEPT ![e].body = body,
                          ![e].phase = IF Len(body) = r.need THEN "whole" ELSE "body"]
      /\ buf' = [buf EXCEPT ![e] =
                   CASE Len(b) <= remaining -> <<>>
                     [] Len(b) > remaining /\ r.body = <<>> -> surplus
                     [] OTHER -> Upto(surplus \o From(b, Len(surplus) + 1), remaining)]

Read(e) ==
  /\ ~Closed(e) /\ Reading(e)
  /\ Filled(e) # <<>>
  /\ socket_readln(e) \/ socket_read(e)
  /\ wire' = [wire EXCEPT ![Peer(e)] = <<>>]
  /\ UNCHANGED <<session, backend, leaving, status, out>>

(* The other end is closed: poll reports POLLIN, nothing is read, and the      *)
(* assertion on the length of the buffer fails.                               *)
FillFails(e) ==
  /\ ~Closed(e) /\ Reading(e)
  /\ rd[e].phase \in {"line", "body"}
  /\ Filled(e) = <<>> /\ Closed(Peer(e))
  /\ status' = [status EXCEPT ![e] = "assertion"]
  /\ UNCHANGED <<session, backend, leaving, stream>>

(* One write of socket_write.  Writing to a closed socket raises SIGPIPE.      *)
Write(e) ==
  /\ ~Closed(e) /\ out[e] # <<>>
  /\ IF Closed(Peer(e))
     THEN /\ status' = [status EXCEPT ![e] = "SIGPIPE"]
          /\ UNCHANGED <<out, wire>>
     ELSE /\ \E n \in 1 .. Len(out[e]) :
               /\ wire' = [wire EXCEPT ![e] = @ \o Upto(out[e], n)]
               /\ out' = [out EXCEPT ![e] = From(@, n + 1)]
          /\ UNCHANGED status
  /\ UNCHANGED <<session, backend, leaving, buf, rd>>

-----------------------------------------------------------------------------
(* The frontend: http_request_receive, the handler, and leaving.              *)

Unreadable(e) == rd[e].phase = "malformed" \/ (rd[e].phase = "whole" /\ buf[e] # <<>>)

Serve ==
  LET url == rd[F].head
  IN  /\ ~Closed(F) /\ rd[F].phase \in {"whole", "malformed"}
      /\ IF Unreadable(F)
         THEN /\ status' = [status EXCEPT ![F] = "fatal"]
              /\ UNCHANGED <<leaving, out, rd>>
         ELSE /\ out' = [out EXCEPT ![F] = http_response_send(session.handler, url)]
              /\ rd' = [rd EXCEPT ![F] = Fresh]
              /\ leaving' = EndsSession(session.handler, url)
              /\ UNCHANGED status
      /\ UNCHANGED <<session, backend, wire, buf>>

FrontendLeaves ==
  /\ ~Closed(F) /\ leaving /\ out[F] = <<>>
  /\ status' = [status EXCEPT ![F] = "ended"]
  /\ UNCHANGED <<session, backend, leaving, stream>>

-----------------------------------------------------------------------------
(* The backend.                                                               *)

\* Mutant: the backend goes on asking before the answer is there.
AskAhead ==
  /\ ~Closed(B) /\ at \notin Leavings
  /\ out' = [out EXCEPT ![B] = http_request_send(at)]
  /\ rd' = [rd EXCEPT ![B] = Fresh]
  /\ awaiting' = TRUE
  /\ UNCHANGED <<session, at, chatter, unbound, leaving, status, wire, buf>>

Ask ==
  /\ ~Closed(B) /\ ~awaiting /\ at \notin Leavings
  /\ out' = [out EXCEPT ![B] = http_request_send(at)]
  /\ rd' = [rd EXCEPT ![B] = Fresh]
  /\ awaiting' = TRUE
  /\ UNCHANGED <<session, at, chatter, unbound, leaving, status, wire, buf>>

(* HTTP_GET_MUST, HTTP_POST_MUST and the check for bytes left after a GET.     *)
AnswerFails ==
  \/ rd[B].phase = "malformed"
  \/ at \in Gets \ {"config"} /\ Unreadable(B)
  \/ at \notin Ignored /\ rd[B].head # Must(at)

\* Mutant: passes of the binder that bind nothing are repeated.
BindAgain ==
  /\ at \in {"bind", "rebind", "binding"}
  /\ \/ /\ chatter < MaxChatter
        /\ at' = "binding" /\ chatter' = chatter + 1 /\ UNCHANGED unbound
     \/ \E left \in 0 .. MaxUnbound, errors \in BOOLEAN :
          /\ at' = CASE errors -> "misbound"
                     [] ~errors /\ left > 0 -> "rebind"
                     [] OTHER -> "bound"
          /\ unbound' = left /\ chatter' = 0

(* bind_program after a pass: an error, another pass, or done.                *)
Bind ==
  /\ at \in {"bind", "rebind", "binding"}
  /\ \/ /\ chatter < MaxChatter
        /\ at' = "binding" /\ chatter' = chatter + 1 /\ UNCHANGED unbound
     \/ \E left \in 0 .. MaxUnbound, errors \in BOOLEAN :
          /\ at' = CASE errors \/ left >= unbound -> "misbound"
                     [] ~errors /\ left < unbound /\ left > 0 -> "rebind"
                     [] OTHER -> "bound"
          /\ unbound' = left /\ chatter' = 0

Proceed ==
  \/ Bind
  \/ /\ at \notin {"bind", "rebind", "binding"}
     /\ at' \in After(at)
     /\ at' = at => chatter < MaxChatter
     /\ chatter' = IF at' \in Reports THEN chatter + 1 ELSE 0
     /\ UNCHANGED unbound

Take ==
  /\ ~Closed(B) /\ awaiting /\ rd[B].phase = "whole" /\ ~AnswerFails
  /\ awaiting' = FALSE
  /\ Proceed
  /\ UNCHANGED <<session, leaving, status, stream>>

BackendFatal ==
  /\ ~Closed(B) /\ awaiting /\ rd[B].phase \in {"whole", "malformed"} /\ AnswerFails
  /\ status' = [status EXCEPT ![B] = "fatal"]
  /\ UNCHANGED <<session, backend, leaving, stream>>

(* A stage may stop in a fatal() or an assertion of its own.                   *)
StageDies ==
  /\ ~Closed(B) /\ ~awaiting
  /\ at \in Reports \cup {"parsed", "misparsed", "misbound", "bound", "lowered",
                          "emitted", "generated", "executed", "raised"}
  /\ status' = [status EXCEPT ![B] = "fatal"]
  /\ UNCHANGED <<session, backend, leaving, stream>>

(* The return of compile_program to scribble_backend, and shutdown_backend.    *)
BackendLeaves ==
  /\ ~Closed(B) /\ at \in Leavings
  /\ status' = [status EXCEPT ![B] = "ended"]
  /\ UNCHANGED <<session, backend, leaving, stream>>

-----------------------------------------------------------------------------
Init ==
  /\ session \in Sessions
  /\ at = "hello" /\ awaiting = FALSE /\ chatter = 0
  /\ unbound = MaxUnbound + 1     \* INT32_MAX
  /\ leaving = FALSE
  /\ status = [e \in Ends |-> "running"]
  /\ out = [e \in Ends |-> <<>>] /\ wire = out /\ buf = out
  /\ rd = [e \in Ends |-> Fresh]

FrontendNext == Read(F) \/ FillFails(F) \/ Write(F) \/ Serve \/ FrontendLeaves
BackendNext == Read(B) \/ FillFails(B) \/ Write(B) \/ Ask \/ Take \/ BackendFatal \/ BackendLeaves

Next == FrontendNext \/ BackendNext \/ StageDies

(* Both processes run; a stage need not fail.                                  *)
Fairness == WF_vars(FrontendNext) /\ WF_vars(BackendNext)

Spec == Init /\ [][Next]_vars
FairSpec == Spec /\ Fairness

-----------------------------------------------------------------------------
(* Properties.                                                                *)

Tokens == {EOL, Length, "body", "HELLO", "OK", "NOT_FOUND"}
            \cup {"/hello", "/intermediate/node", "/arm64/generate/function/operation",
                  "/execute/function/on", "/execute/exception", "/error", "/panic"} \cup Known

(* The variables of the conversation have their types, and what is read of a   *)
(* message never exceeds what its header announced.                           *)
TypeOK ==
  /\ session \in Sessions
  /\ awaiting \in BOOLEAN /\ leaving \in BOOLEAN
  /\ chatter \in 0 .. MaxChatter + 1 /\ unbound \in 0 .. MaxUnbound + 1
  /\ status \in [Ends -> {"running", "ended", "assertion", "SIGPIPE", "fatal"}]
  /\ \A e \in Ends :
       /\ out[e] \in Seq(Tokens) /\ wire[e] \in Seq(Tokens) /\ buf[e] \in Seq(Tokens)
       /\ rd[e].phase \in {"line", "body", "whole", "malformed"}
       /\ Len(rd[e].body) <= rd[e].need

(* However a message is cut into pieces, its reader finds exactly the message: *)
(* no line is malformed and no byte is left for the next one (http.c:124, 252). *)
NothingLeftOver == \A e \in Ends : ~Unreadable(e)

(* The two never talk at the same time: all that is being written, on its way, *)
(* in a buffer or read in part belongs to a single message, through stages     *)
(* that die and answers that end the session.  socket_write tries a full       *)
(* socket again for ever and reads nothing meanwhile (io.c:325): two ends that *)
(* write could wait for each other.                                           *)
OneMessageUnderWay ==
  LET Toward(e) == rd[e].phase # "whole" /\ (rd[e] # Fresh \/ Filled(e) \o out[Peer(e)] # <<>>)
  IN  ~(Toward(F) /\ Toward(B))

(* The conversation answers each question once, with the answer of the handler *)
(* to that question, whatever the pieces it travels in.                        *)
AnswerOnTheWay == rd[B].line \o buf[B] \o wire[F] \o out[F]
RpcAsked == IF awaiting THEN Url(at) ELSE ""
RpcReply ==
  IF ~awaiting THEN ""
  ELSE IF rd[B].head # "" THEN rd[B].head
  ELSE IF AnswerOnTheWay # <<>> THEN AnswerOnTheWay[1] ELSE ""

Conversation == INSTANCE Rpc WITH
  Questions <- Tokens, Answers <- Tokens, Answer <- Answer, None <- "",
  handler <- session.handler, asked <- RpcAsked, reply <- RpcReply,
  over <- Closed(F) \/ Closed(B)

ImplementsRpc == Conversation!Spec

(* Neither end waits for ever for the other: both end, whatever happens.       *)
BothEnd == <>(Closed(F) /\ Closed(B))

(* io.c:242: a socket that poll found readable has something to read.          *)
FillBufferAssertion == \A e \in Ends : status[e] # "assertion"
=============================================================================
