---------------------------- MODULE ExchangeProofs ----------------------------
(***************************************************************************)
(* The conversation of a Scribble backend and its frontend, for every size   *)
(* of a body and every bound on the reports: however a message is cut into   *)
(* pieces its reader finds exactly that message, a frontend is never brought *)
(* down by a backend that still works, and each question is answered once,   *)
(* with the answer to that question (Rpc).                                    *)
(* The invariant names where a message is: n of its tokens are read, those   *)
(* up to b are in the reader's buffer, those up to w are on the wire, and    *)
(* the rest is still to be written.                                          *)
(***************************************************************************)
EXTENDS Exchange, SequenceTheorems, TLAPS

Heads == Tokens \ {EOL}

(* The tokens of m after the first i, up to the jth.                          *)
Seg(m, i, j) == SubSeq(m, i + 1, j)

(* The sizes of a message: without a body, and with one.                      *)
Bare == 3
Full == 5 + BodySize
Sizes == {Bare, Full}

Message(head, size) ==
  <<head, EOL>> \o (IF size = Bare THEN <<EOL>> ELSE <<Length, EOL, EOL>> \o Body)

(* What a reader has made of the first n tokens of a message.                 *)
ReaderAt(head, size, n) ==
  [phase |-> IF n = size THEN "whole" ELSE IF size # Bare /\ n >= 5 THEN "body" ELSE "line",
   line  |-> IF n = 1 THEN <<head>> ELSE IF size # Bare /\ n = 3 THEN <<Length>> ELSE <<>>,
   head  |-> IF n >= 2 THEN head ELSE "",
   need  |-> IF size # Bare /\ n >= 4 THEN BodySize ELSE 0,
   body  |-> IF size # Bare /\ n >= 5 THEN Seg(Message(head, size), 5, n) ELSE <<>>]

(* A message is on its way to e, and nothing else is.                         *)
CarriedAs(e, head, size, n, b, w) ==
  /\ n <= b /\ b <= w
  /\ rd[e] = ReaderAt(head, size, n)
  /\ buf[e] = Seg(Message(head, size), n, b)
  /\ wire[Peer(e)] = Seg(Message(head, size), b, w)
  /\ out[Peer(e)] = Seg(Message(head, size), w, size)

Carried(e, head, size) ==
  \E n, b, w \in 0 .. size : CarriedAs(e, head, size, n, b, w)

(* Nothing is on its way to e.                                                *)
Silent(e) == buf[e] = <<>> /\ wire[Peer(e)] = <<>> /\ out[Peer(e)] = <<>>

(* The sizes of the question of a step and of the answer to a question.       *)
AskedSize(step) == IF step \in Gets THEN Bare ELSE Full

AnswerSize(handler, url) ==
  IF url = "/bootstrap/config" \/ (handler = "eddy" /\ url = "/execute/function/on")
  THEN Full ELSE Bare

(* The three states of the conversation: the backend works, its question is   *)
(* on the way, the answer is on the way.                                      *)
Idle ==
  /\ ~awaiting /\ Silent(F) /\ Silent(B) /\ rd[F] = Fresh
  /\ \/ rd[B] = Fresh
     \/ \E head \in Heads, size \in Sizes : rd[B] = ReaderAt(head, size, size)

Asking ==
  /\ awaiting /\ at \notin Leavings /\ Silent(B) /\ rd[B] = Fresh
  /\ Carried(F, Url(at), AskedSize(at))

Answering ==
  /\ awaiting /\ at \notin Leavings /\ Silent(F) /\ rd[F] = Fresh
  /\ Carried(B, Answer(session.handler, Url(at)), AnswerSize(session.handler, Url(at)))

Steps ==
  Gets \cup Reports \cup Leavings
    \cup {"parse", "misparsed", "rebind", "bound", "misbound", "arm64", "raised", "reraised",
          "error", "panic"}

IsMap(f) == f = [e \in Ends |-> f[e]]

Maps == IsMap(out) /\ IsMap(wire) /\ IsMap(buf) /\ IsMap(rd)

Control ==
  /\ session \in Sessions /\ at \in Steps
  /\ awaiting \in BOOLEAN /\ leaving \in BOOLEAN
  /\ chatter \in 0 .. MaxChatter + 1 /\ unbound \in 0 .. MaxUnbound + 1
  /\ at \notin Reports => chatter = 0
  /\ status \in [Ends -> {"running", "ended", "assertion", "SIGPIPE", "fatal"}]

IInv == Maps /\ Control /\ (Idle \/ Asking \/ Answering)

-----------------------------------------------------------------------------
(* Messages and their parts.                                                  *)

(* Two sequences of tokens, one after the other, token by token.              *)
Concatenated(s, t) ==
  /\ s \o t \in Seq(Tokens) /\ Len(s \o t) = Len(s) + Len(t)
  /\ \A i \in 1 .. Len(s) : (s \o t)[i] = s[i]
  /\ \A i \in 1 .. Len(t) : (s \o t)[Len(s) + i] = t[i]

(* What concatenation does.                                                   *)
LEMMA ConcatIs ==
  ASSUME NEW s \in Seq(Tokens), NEW t \in Seq(Tokens) PROVE Concatenated(s, t)
<1>1. Len(s) \in Nat /\ Len(t) \in Nat
  BY LenProperties
<1>2. /\ s \o t \in Seq(Tokens) /\ Len(s \o t) = Len(s) + Len(t)
      /\ \A i \in 1 .. Len(s) + Len(t) :
           (s \o t)[i] = IF i <= Len(s) THEN s[i] ELSE t[i - Len(s)]
  BY ConcatProperties
<1>3. ASSUME NEW i \in 1 .. Len(s) PROVE (s \o t)[i] = s[i]
  BY <1>1, <1>2
<1>4. ASSUME NEW i \in 1 .. Len(t) PROVE (s \o t)[Len(s) + i] = t[i]
  <2>1. Len(s) + i \in 1 .. Len(s) + Len(t) /\ ~ (Len(s) + i <= Len(s)) /\ (Len(s) + i) - Len(s) = i
    BY <1>1
  <2> QED
    BY <1>2, <2>1
<1> QED
  BY <1>2, <1>3, <1>4 DEF Concatenated

(* What is sent is such a message (http_request_send, http_response_send).    *)
LEMMA EncodesMessage ==
  /\ \A step : http_request_send(step) = Message(Url(step), AskedSize(step))
  /\ \A handler, url :
       http_response_send(handler, url) = Message(Answer(handler, url), AnswerSize(handler, url))
<1>0. Bare # Full
  BY ExchangeAssumption DEF Bare, Full
<1>1. ASSUME NEW step PROVE http_request_send(step) = Message(Url(step), AskedSize(step))
  BY <1>0 DEF http_request_send, Encode, Message, AskedSize
<1>2. ASSUME NEW handler, NEW url
      PROVE  http_response_send(handler, url)
               = Message(Answer(handler, url), AnswerSize(handler, url))
  BY <1>0 DEF http_response_send, Encode, Message, AnswerSize
<1> QED
  BY <1>1, <1>2

(* A message is tokens: the first line, its end, the header and the body.     *)
LEMMA MessageIs ==
  ASSUME NEW head \in Heads, NEW size \in Sizes
  PROVE  /\ Message(head, size) \in Seq(Tokens)
         /\ Len(Message(head, size)) = size
         /\ Message(head, size)[1] = head /\ Message(head, size)[2] = EOL
         /\ size = Bare => Message(head, size)[3] = EOL
         /\ size # Bare => /\ Message(head, size)[3] = Length
                           /\ Message(head, size)[4] = EOL /\ Message(head, size)[5] = EOL
<1> DEFINE first == <<head, EOL>>
<1>0. head \in Tokens /\ EOL \in Tokens /\ Length \in Tokens /\ "body" \in Tokens
  BY DEF Heads, Tokens
<1>1. first \in Seq(Tokens) /\ Len(first) = 2 /\ first[1] = head /\ first[2] = EOL
  BY <1>0
<1>2. CASE size = Bare
  <2> DEFINE rest == <<EOL>>
  <2>1. rest \in Seq(Tokens) /\ Len(rest) = 1 /\ rest[1] = EOL
    BY <1>0
  <2>2. Message(head, size) = first \o rest
    BY <1>2 DEF Message
  <2> HIDE DEF first, rest
  <2>3. Concatenated(first, rest)
    BY <1>1, <2>1, ConcatIs
  <2>4. /\ first \o rest \in Seq(Tokens) /\ Len(first \o rest) = 3
        /\ (first \o rest)[1] = head /\ (first \o rest)[2] = EOL /\ (first \o rest)[3] = EOL
    BY <1>1, <2>1, <2>3 DEF Concatenated
  <2> QED
    BY <1>2, <2>2, <2>4 DEF Bare
<1>3. CASE size # Bare
  <2> DEFINE header == <<Length, EOL, EOL>>
  <2>1. /\ header \in Seq(Tokens) /\ Len(header) = 3
        /\ header[1] = Length /\ header[2] = EOL /\ header[3] = EOL
    BY <1>0
  <2>2. Body \in Seq(Tokens) /\ Len(Body) = BodySize /\ BodySize \in Nat
    <3>1. BodySize \in Nat
      BY ExchangeAssumption
    <3>2. Body \in [1 .. BodySize -> Tokens]
      BY <1>0 DEF Body
    <3> QED
      BY <3>1, <3>2, IsASeq DEF Body
  <2>3. Message(head, size) = first \o (header \o Body)
    BY <1>3 DEF Message
  <2> HIDE DEF first, header
  <2> DEFINE rest == header \o Body
  <2>4. /\ rest \in Seq(Tokens) /\ Len(rest) = 3 + BodySize
        /\ rest[1] = Length /\ rest[2] = EOL /\ rest[3] = EOL
    <3>1. Concatenated(header, Body)
      BY <2>1, <2>2, ConcatIs
    <3> QED
      BY <2>1, <2>2, <3>1 DEF Concatenated
  <2>5. Message(head, size) = first \o rest
    BY <2>3
  <2> HIDE DEF rest
  <2>6. /\ first \o rest \in Seq(Tokens) /\ Len(first \o rest) = 5 + BodySize
        /\ (first \o rest)[1] = head /\ (first \o rest)[2] = EOL
        /\ (first \o rest)[3] = Length /\ (first \o rest)[4] = EOL /\ (first \o rest)[5] = EOL
    <3>1. Concatenated(first, rest)
      BY <1>1, <2>4, ConcatIs
    <3> QED
      BY <1>1, <2>2, <2>4, <3>1 DEF Concatenated
  <2> QED
    BY <1>3, <2>5, <2>6 DEF Sizes, Full
<1> QED
  BY <1>2, <1>3

(* A part of a message: its length and its tokens.                            *)
LEMMA PartIs ==
  ASSUME NEW m \in Seq(Tokens), NEW i \in Nat, NEW j \in Nat, i <= j, j <= Len(m)
  PROVE  /\ Seg(m, i, j) \in Seq(Tokens) /\ Len(Seg(m, i, j)) = j - i
         /\ \A x \in 1 .. j - i : Seg(m, i, j)[x] = m[i + x]
         /\ i = j => Seg(m, i, j) = <<>>
<1>1. \A x \in i + 1 .. j : m[x] \in Tokens
  <2> SUFFICES ASSUME NEW x \in i + 1 .. j PROVE m[x] \in Tokens
    OBVIOUS
  <2>1. Len(m) \in Nat /\ x \in 1 .. Len(m)
    BY LenProperties
  <2> QED
    BY <2>1, ElementOfSeq
<1>2. /\ Seg(m, i, j) \in Seq(Tokens)
      /\ Len(Seg(m, i, j)) = IF i + 1 <= j THEN j - (i + 1) + 1 ELSE 0
      /\ \A x \in 1 .. j - (i + 1) + 1 : Seg(m, i, j)[x] = m[(i + 1) + x - 1]
  BY <1>1, SubSeqProperties DEF Seg
<1>3. \A x \in 1 .. j - i : Seg(m, i, j)[x] = m[i + x]
  <2> SUFFICES ASSUME NEW x \in 1 .. j - i PROVE Seg(m, i, j)[x] = m[i + x]
    OBVIOUS
  <2>1. x \in 1 .. j - (i + 1) + 1 /\ (i + 1) + x - 1 = i + x
    OBVIOUS
  <2> QED
    BY <1>2, <2>1
<1> QED
  BY <1>2, <1>3, EmptySeq DEF Seg

(* Two parts that meet make one part.                                         *)
LEMMA PartsMeet ==
  ASSUME NEW m \in Seq(Tokens), NEW i \in Nat, NEW j \in Nat, NEW k \in Nat,
         i <= j, j <= k, k <= Len(m)
  PROVE  Seg(m, i, j) \o Seg(m, j, k) = Seg(m, i, k)
<1>1. i + 1 \in 1 .. Len(m) + 1 /\ j \in (i + 1) - 1 .. Len(m) /\ k \in j .. Len(m)
  BY LenProperties
<1> QED
  BY <1>1, ConcatAdjacentSubSeq DEF Seg

(* A part cut in two.                                                         *)
LEMMA PartCut ==
  ASSUME NEW m \in Seq(Tokens), NEW i \in Nat, NEW j \in Nat, NEW k \in Nat,
         i <= j, j <= k, k <= Len(m)
  PROVE  /\ Upto(Seg(m, i, k), j - i) = Seg(m, i, j)
         /\ From(Seg(m, i, k), j - i + 1) = Seg(m, j, k)
<1> DEFINE s == Seg(m, i, k)
<1>1. s \in Seq(Tokens) /\ Len(s) = k - i /\ \A x \in 1 .. k - i : s[x] = m[i + x]
  <2>1. i <= k
    OBVIOUS
  <2> QED
    BY <2>1, PartIs
<1> HIDE DEF s
<1>2. /\ Seg(s, 0, j - i) \in Seq(Tokens) /\ Len(Seg(s, 0, j - i)) = j - i
      /\ \A x \in 1 .. j - i : Seg(s, 0, j - i)[x] = s[0 + x]
  <2>1. j - i \in Nat /\ 0 <= j - i /\ j - i <= Len(s) /\ (j - i) - 0 = j - i
    BY <1>1
  <2> HIDE DEF Seg
  <2>2. /\ Seg(s, 0, j - i) \in Seq(Tokens) /\ Len(Seg(s, 0, j - i)) = (j - i) - 0
        /\ \A x \in 1 .. (j - i) - 0 : Seg(s, 0, j - i)[x] = s[0 + x]
    BY <1>1, <2>1, PartIs
  <2> QED
    BY <2>1, <2>2
<1>3. /\ Seg(s, j - i, k - i) \in Seq(Tokens) /\ Len(Seg(s, j - i, k - i)) = k - j
      /\ \A x \in 1 .. k - j : Seg(s, j - i, k - i)[x] = s[(j - i) + x]
  <2>1. /\ j - i \in Nat /\ k - i \in Nat /\ j - i <= k - i /\ k - i <= Len(s)
        /\ (k - i) - (j - i) = k - j
    BY <1>1
  <2>2. /\ Seg(s, j - i, k - i) \in Seq(Tokens)
        /\ Len(Seg(s, j - i, k - i)) = (k - i) - (j - i)
        /\ \A x \in 1 .. (k - i) - (j - i) : Seg(s, j - i, k - i)[x] = s[(j - i) + x]
    BY <1>1, <2>1, PartIs
  <2> QED
    BY <2>1, <2>2
<1>4. /\ Seg(m, i, j) \in Seq(Tokens) /\ Len(Seg(m, i, j)) = j - i
      /\ \A x \in 1 .. j - i : Seg(m, i, j)[x] = m[i + x]
  <2>1. j <= Len(m)
    BY LenProperties
  <2> QED
    BY <2>1, PartIs
<1>5. /\ Seg(m, j, k) \in Seq(Tokens) /\ Len(Seg(m, j, k)) = k - j
      /\ \A x \in 1 .. k - j : Seg(m, j, k)[x] = m[j + x]
  BY PartIs
<1>6. Upto(s, j - i) = Seg(s, 0, j - i) /\ From(s, j - i + 1) = Seg(s, j - i, k - i)
  BY <1>1 DEF Upto, From, Seg
<1>7. Seg(s, 0, j - i) = Seg(m, i, j)
  <2>1. ASSUME NEW x \in 1 .. j - i PROVE Seg(s, 0, j - i)[x] = Seg(m, i, j)[x]
    <3>1. x \in 1 .. k - i /\ 0 + x = x
      OBVIOUS
    <3> QED
      BY <1>1, <1>2, <1>4, <3>1
  <2> QED
    BY <1>2, <1>4, <2>1, SeqEqual
<1>8. Seg(s, j - i, k - i) = Seg(m, j, k)
  <2>1. ASSUME NEW x \in 1 .. k - j PROVE Seg(s, j - i, k - i)[x] = Seg(m, j, k)[x]
    <3>1. (j - i) + x \in 1 .. k - i /\ i + ((j - i) + x) = j + x
      OBVIOUS
    <3> QED
      BY <1>1, <1>3, <1>5, <3>1
  <2> QED
    BY <1>3, <1>5, <2>1, SeqEqual
<1> QED
  BY <1>6, <1>7, <1>8 DEF s

(* The first end of a line, when it is known where it is.                     *)
LEMMA FirstEOLIs ==
  ASSUME NEW s \in Seq(Tokens), NEW i \in 1 .. Len(s), s[i] = EOL,
         \A j \in 1 .. i - 1 : s[j] # EOL
  PROVE  (\E j \in DOMAIN s : s[j] = EOL) /\ FirstEOL(s) = i
<1>1. DOMAIN s = 1 .. Len(s) /\ Len(s) \in Nat
  BY LenProperties
<1> DEFINE FirstAt(x) == s[x] = EOL /\ \A j \in 1 .. x - 1 : s[j] # EOL
<1>2. FirstAt(i)
  OBVIOUS
<1>3. ASSUME NEW x \in 1 .. Len(s), FirstAt(x) PROVE x = i
  <2>1. ~ (x < i) /\ ~ (i < x)
    BY <1>1, <1>3
  <2> QED
    BY <1>1, <2>1
<1>4. FirstEOL(s) = CHOOSE x \in 1 .. Len(s) : FirstAt(x)
  BY <1>1 DEF FirstEOL
<1> HIDE DEF FirstAt
<1>5. FirstEOL(s) = i
  BY <1>2, <1>3, <1>4
<1> QED
  BY <1>1, <1>5

-----------------------------------------------------------------------------
(* Reading a line (http_request_receive, http_response_receive).              *)

(* The tokens before the body, and the end of the line after the first n.     *)
Lines(size) == IF size = Bare THEN 3 ELSE 5
NextEOL(size, n) == IF n < 2 THEN 2 ELSE IF size = Bare THEN 3 ELSE IF n < 4 THEN 4 ELSE 5

(* A part of one token.                                                       *)
LEMMA OneToken ==
  ASSUME NEW m \in Seq(Tokens), NEW i \in Nat, i < Len(m)
  PROVE  Seg(m, i, i + 1) = <<m[i + 1]>>
<1>1. Len(m) \in Nat /\ i + 1 \in Nat /\ i <= i + 1 /\ i + 1 <= Len(m) /\ (i + 1) - i = 1
  BY LenProperties
<1>2. /\ Seg(m, i, i + 1) \in Seq(Tokens) /\ Len(Seg(m, i, i + 1)) = (i + 1) - i
      /\ \A x \in 1 .. (i + 1) - i : Seg(m, i, i + 1)[x] = m[i + x]
  BY <1>1, PartIs
<1>3. Len(Seg(m, i, i + 1)) = 1 /\ Seg(m, i, i + 1)[1] = m[i + 1]
  BY <1>1, <1>2
<1>4. m[i + 1] \in Tokens
  <2>1. i + 1 \in 1 .. Len(m)
    BY <1>1
  <2> QED
    BY <2>1, ElementOfSeq
<1>5. <<m[i + 1]>> \in Seq(Tokens) /\ Len(<<m[i + 1]>>) = 1 /\ <<m[i + 1]>>[1] = m[i + 1]
  BY <1>4
<1> HIDE DEF Seg
<1>6. \A x \in 1 .. Len(Seg(m, i, i + 1)) : Seg(m, i, i + 1)[x] = <<m[i + 1]>>[x]
  BY <1>3, <1>5
<1> QED
  BY <1>2, <1>3, <1>5, <1>6, SeqEqual

(* A head is not the empty head of a fresh reader, nor the end of a line.      *)
LEMMA HeadIsNoGap == ASSUME NEW head \in Heads PROVE head # "" /\ head # EOL
BY DEF Heads, Tokens, EOL, Length, Known

(* Nothing before or after a line leaves it what it is.                       *)
LEMMA NothingAdded ==
  ASSUME NEW s \in Seq(Tokens) PROVE s \o <<>> = s /\ <<>> \o s = s
BY ConcatEmptySeq

(* The stages of a reader before the body.                                    *)
Reader(phase, line, head, need) ==
  [phase |-> phase, line |-> line, head |-> head, need |-> need, body |-> <<>>]

LEMMA Stages ==
  ASSUME NEW head \in Heads, NEW size \in Sizes
  PROVE  /\ ReaderAt(head, size, 0) = Reader("line", <<>>, "", 0)
         /\ ReaderAt(head, size, 1) = Reader("line", <<head>>, "", 0)
         /\ ReaderAt(head, size, 2) = Reader("line", <<>>, head, 0)
         /\ size = Bare => ReaderAt(head, size, 3) = Reader("whole", <<>>, head, 0)
         /\ size # Bare => /\ ReaderAt(head, size, 3) = Reader("line", <<Length>>, head, 0)
                           /\ ReaderAt(head, size, 4) = Reader("line", <<>>, head, BodySize)
                           /\ ReaderAt(head, size, 5) = Reader("body", <<>>, head, BodySize)
<1>1. size \in Nat /\ size >= 3 /\ Bare = 3 /\ (size # Bare => size > 5)
  BY ExchangeAssumption DEF Sizes, Bare, Full
<1>2. ReaderAt(head, size, 0) = Reader("line", <<>>, "", 0)
  <2>1. 0 # size /\ ~ (0 >= 2) /\ ~ (0 >= 4) /\ ~ (0 >= 5) /\ 0 # 3 /\ 0 # 1
    BY <1>1
  <2> QED
    BY <2>1, Zenon DEF ReaderAt, Reader
<1>3. ReaderAt(head, size, 1) = Reader("line", <<head>>, "", 0)
  <2>1. 1 # size /\ ~ (1 >= 2) /\ ~ (1 >= 4) /\ ~ (1 >= 5) /\ 1 # 3
    BY <1>1
  <2> QED
    BY <2>1, Zenon DEF ReaderAt, Reader
<1>4. ReaderAt(head, size, 2) = Reader("line", <<>>, head, 0)
  BY <1>1 DEF ReaderAt, Reader
<1>5. size = Bare => ReaderAt(head, size, 3) = Reader("whole", <<>>, head, 0)
  BY <1>1 DEF ReaderAt, Reader
<1>6. size # Bare => ReaderAt(head, size, 3) = Reader("line", <<Length>>, head, 0)
  BY <1>1 DEF ReaderAt, Reader
<1>7. size # Bare => ReaderAt(head, size, 4) = Reader("line", <<>>, head, BodySize)
  BY <1>1 DEF ReaderAt, Reader
<1>8. size # Bare => ReaderAt(head, size, 5) = Reader("body", <<>>, head, BodySize)
  <2>1. CASE size # Bare
    <3>1. Seg(Message(head, size), 5, 5) = <<>>
      <4>1. Message(head, size) \in Seq(Tokens) /\ 5 <= Len(Message(head, size))
        BY <1>1, <2>1, MessageIs
      <4>2. 5 \in Nat /\ 5 <= 5
        OBVIOUS
      <4> QED
        BY <4>1, <4>2, PartIs
    <3> QED
      BY <1>1, <2>1, <3>1 DEF ReaderAt, Reader
  <2> QED
    BY <2>1
<1> QED
  BY <1>2, <1>3, <1>4, <1>5, <1>6, <1>7, <1>8

(* What a reader makes of the kinds of line it meets.                         *)
LEMMA LinesTaken ==
  ASSUME NEW head \in Heads
  PROVE  /\ \A line :
              TakeLine(Reader("line", line, "", 0), <<head>>) = Reader("line", <<>>, head, 0)
         /\ TakeLine(Reader("line", <<>>, head, 0), <<>>) = Reader("whole", <<>>, head, 0)
         /\ \A line : TakeLine(Reader("line", line, head, 0), <<Length>>)
                        = Reader("line", <<>>, head, BodySize)
         /\ TakeLine(Reader("line", <<>>, head, BodySize), <<>>)
              = Reader("body", <<>>, head, BodySize)
<1>0. head # "" /\ BodySize # 0
  BY HeadIsNoGap, ExchangeAssumption
<1>1. ASSUME NEW line
      PROVE  TakeLine(Reader("line", line, "", 0), <<head>>) = Reader("line", <<>>, head, 0)
  BY <1>0 DEF TakeLine, Reader
<1>2. TakeLine(Reader("line", <<>>, head, 0), <<>>) = Reader("whole", <<>>, head, 0)
  BY <1>0 DEF TakeLine, Reader
<1>3. ASSUME NEW line
      PROVE  TakeLine(Reader("line", line, head, 0), <<Length>>)
               = Reader("line", <<>>, head, BodySize)
  <2>1. <<Length>> # <<>>
    OBVIOUS
  <2> QED
    BY <1>0, <2>1 DEF TakeLine, Reader
<1>4. TakeLine(Reader("line", <<>>, head, BodySize), <<>>) = Reader("body", <<>>, head, BodySize)
  BY <1>0 DEF TakeLine, Reader
<1> QED
  BY <1>1, <1>2, <1>3, <1>4

(* The line of a reader, and a line that grows.                               *)
LEMMA ReaderLine ==
  ASSUME NEW phase, NEW line, NEW head, NEW need
  PROVE  Reader(phase, line, head, need).line = line
BY DEF Reader

Grown(r, more) == [r EXCEPT !.line = r.line \o more]

LEMMA ReaderGrows ==
  ASSUME NEW phase, NEW line, NEW head, NEW need, NEW more
  PROVE  Grown(Reader(phase, line, head, need), more) = Reader(phase, line \o more, head, need)
<1>1. \A x : [Reader(phase, line, head, need) EXCEPT !.line = x] = Reader(phase, x, head, need)
  BY DEF Reader
<1>2. Grown(Reader(phase, line, head, need), more)
        = [Reader(phase, line, head, need) EXCEPT !.line = Reader(phase, line, head, need).line \o more]
  BY DEF Grown
<1> QED
  BY <1>1, <1>2, ReaderLine, Zenon

(* The parts of the first lines.                                              *)
LEMMA PartsOfLines ==
  ASSUME NEW head \in Heads, NEW size \in Sizes
  PROVE  /\ Seg(Message(head, size), 0, 1) = <<head>> /\ Seg(Message(head, size), 1, 1) = <<>>
         /\ Seg(Message(head, size), 2, 2) = <<>>
         /\ size # Bare => /\ Seg(Message(head, size), 2, 3) = <<Length>>
                           /\ Seg(Message(head, size), 3, 3) = <<>>
                           /\ Seg(Message(head, size), 4, 4) = <<>>
<1> DEFINE m == Message(head, size)
<1>0. /\ m \in Seq(Tokens) /\ Len(m) = size /\ m[1] = head
      /\ size # Bare => m[3] = Length
  BY MessageIs
<1>1. size \in Nat /\ size >= 3 /\ (size # Bare => size > 5)
  BY ExchangeAssumption DEF Sizes, Bare, Full
<1> HIDE DEF m
<1>2. ASSUME NEW i \in Nat, i <= size PROVE Seg(m, i, i) = <<>>
  <2>1. i <= i /\ i <= Len(m)
    BY <1>0, <1>2
  <2> QED
    BY <1>0, <2>1, PartIs
<1>3. ASSUME NEW i \in Nat, i < size PROVE Seg(m, i, i + 1) = <<m[i + 1]>>
  BY <1>0, <1>3, OneToken
<1>4. Seg(m, 1, 1) = <<>> /\ Seg(m, 2, 2) = <<>>
  BY <1>1, <1>2
<1>5. Seg(m, 0, 1) = <<head>>
  <2>1. 0 \in Nat /\ 0 < size /\ 0 + 1 = 1
    BY <1>1
  <2>2. Seg(m, 0, 0 + 1) = <<m[0 + 1]>>
    BY <1>3, <2>1
  <2> QED
    BY <1>0, <2>1, <2>2, Zenon
<1>6. CASE size # Bare
  <2>1. Seg(m, 3, 3) = <<>> /\ Seg(m, 4, 4) = <<>>
    BY <1>1, <1>2, <1>6
  <2>2. 2 \in Nat /\ 2 < size /\ 2 + 1 = 3
    BY <1>1
  <2>3. Seg(m, 2, 2 + 1) = <<m[2 + 1]>>
    BY <1>3, <2>2
  <2>4. Seg(m, 2, 3) = <<Length>>
    BY <1>0, <1>6, <2>2, <2>3, Zenon
  <2> QED
    BY <1>4, <1>5, <2>1, <2>4 DEF m
<1> QED
  BY <1>4, <1>5, <1>6 DEF m

(* What a reader has of its line.                                             *)
LineOf(head, size, n) == ReaderAt(head, size, n).line

(* A whole line is taken for what it is, wherever the reader was in it.        *)
LEMMA LineTaken ==
  ASSUME NEW head \in Heads, NEW size \in Sizes, NEW n \in Nat, n < Lines(size)
  PROVE  TakeLine(ReaderAt(head, size, n),
                  LineOf(head, size, n) \o Seg(Message(head, size), n, NextEOL(size, n) - 1))
           = ReaderAt(head, size, NextEOL(size, n))
<1>1. <<head>> \in Seq(Tokens) /\ <<Length>> \in Seq(Tokens) /\ <<>> \in Seq(Tokens)
  <2>1. head \in Tokens /\ Length \in Tokens
    BY DEF Heads, Tokens
  <2> QED
    BY <2>1
<1>2. /\ <<>> \o <<head>> = <<head>> /\ <<head>> \o <<>> = <<head>>
      /\ <<>> \o <<Length>> = <<Length>> /\ <<Length>> \o <<>> = <<Length>>
      /\ <<>> \o <<>> = <<>>
  BY <1>1, NothingAdded
<1> DEFINE Part(k, next) == Seg(Message(head, size), k, next - 1)
           Goal(k, next) == TakeLine(ReaderAt(head, size, k), LineOf(head, size, k) \o Part(k, next))
                              = ReaderAt(head, size, next)
<1>3. /\ Part(0, 2) = <<head>> /\ Part(1, 2) = <<>> /\ Part(2, 3) = <<>>
      /\ size # Bare => Part(2, 4) = <<Length>> /\ Part(3, 4) = <<>> /\ Part(4, 5) = <<>>
  <2>1. 2 - 1 = 1 /\ 3 - 1 = 2 /\ 4 - 1 = 3 /\ 5 - 1 = 4
    OBVIOUS
  <2> QED
    BY <2>1, PartsOfLines, Zenon
<1> HIDE DEF Part
<1>4. Goal(0, 2)
  <2>1. /\ ReaderAt(head, size, 0) = Reader("line", <<>>, "", 0)
        /\ ReaderAt(head, size, 2) = Reader("line", <<>>, head, 0)
    BY Stages
  <2>2. LineOf(head, size, 0) = <<>>
    <3>1. Reader("line", <<>>, "", 0).line = <<>>
      BY ReaderLine
    <3> QED
      BY <2>1, <3>1, Zenon DEF LineOf
  <2>3. LineOf(head, size, 0) \o Part(0, 2) = <<head>>
    BY <1>2, <1>3, <2>2, Zenon
  <2> QED
    BY <2>1, <2>3, LinesTaken, Zenon
<1>5. Goal(1, 2)
  <2>1. /\ ReaderAt(head, size, 1) = Reader("line", <<head>>, "", 0)
        /\ ReaderAt(head, size, 2) = Reader("line", <<>>, head, 0)
    BY Stages
  <2>2. LineOf(head, size, 1) = <<head>>
    <3>1. Reader("line", <<head>>, "", 0).line = <<head>>
      BY ReaderLine
    <3> QED
      BY <2>1, <3>1, Zenon DEF LineOf
  <2>3. LineOf(head, size, 1) \o Part(1, 2) = <<head>>
    BY <1>2, <1>3, <2>2, Zenon
  <2> QED
    BY <2>1, <2>3, LinesTaken, Zenon
<1>6. size = Bare => Goal(2, 3)
  <2> SUFFICES ASSUME size = Bare PROVE Goal(2, 3)
    OBVIOUS
  <2>1. /\ ReaderAt(head, size, 2) = Reader("line", <<>>, head, 0)
        /\ ReaderAt(head, size, 3) = Reader("whole", <<>>, head, 0)
    BY Stages
  <2>2. LineOf(head, size, 2) = <<>>
    <3>1. Reader("line", <<>>, head, 0).line = <<>>
      BY ReaderLine
    <3> QED
      BY <2>1, <3>1, Zenon DEF LineOf
  <2>3. LineOf(head, size, 2) \o Part(2, 3) = <<>>
    BY <1>2, <1>3, <2>2, Zenon
  <2> QED
    BY <2>1, <2>3, LinesTaken, Zenon
<1>7. size # Bare => Goal(2, 4) /\ Goal(3, 4) /\ Goal(4, 5)
  <2> SUFFICES ASSUME size # Bare PROVE Goal(2, 4) /\ Goal(3, 4) /\ Goal(4, 5)
    OBVIOUS
  <2>1. /\ ReaderAt(head, size, 2) = Reader("line", <<>>, head, 0)
        /\ ReaderAt(head, size, 3) = Reader("line", <<Length>>, head, 0)
        /\ ReaderAt(head, size, 4) = Reader("line", <<>>, head, BodySize)
        /\ ReaderAt(head, size, 5) = Reader("body", <<>>, head, BodySize)
    BY Stages
  <2>2. /\ LineOf(head, size, 2) = <<>> /\ LineOf(head, size, 3) = <<Length>>
        /\ LineOf(head, size, 4) = <<>>
    BY <2>1, ReaderLine DEF LineOf
  <2>3. /\ LineOf(head, size, 2) \o Part(2, 4) = <<Length>>
        /\ LineOf(head, size, 3) \o Part(3, 4) = <<Length>>
        /\ LineOf(head, size, 4) \o Part(4, 5) = <<>>
    BY <1>2, <1>3, <2>2, Zenon
  <2>4. Goal(2, 4)
    BY <2>1, <2>3, LinesTaken, Zenon
  <2>5. Goal(3, 4)
    BY <2>1, <2>3, LinesTaken, Zenon
  <2>6. Goal(4, 5)
    BY <2>1, <2>3, LinesTaken, Zenon
  <2> QED
    BY <2>4, <2>5, <2>6
<1> HIDE DEF Goal
<1>8. Goal(n, NextEOL(size, n))
  BY <1>4, <1>5, <1>6, <1>7 DEF NextEOL, Lines
<1> QED
  BY <1>8 DEF Goal, Part

(* The beginning of a line is kept for the next round.                        *)
LEMMA LineKept ==
  ASSUME NEW head \in Heads, NEW size \in Sizes, NEW n \in Nat, NEW w \in Nat,
         n < w, w < NextEOL(size, n), n < Lines(size)
  PROVE  Grown(ReaderAt(head, size, n), Seg(Message(head, size), n, w)) = ReaderAt(head, size, w)
<1> DEFINE nothing == <<>>
           first   == <<head>>
           header  == <<Length>>
           none    == ""
           part(k, next) == Seg(Message(head, size), k, next)
<1>1. first \in Seq(Tokens) /\ header \in Seq(Tokens)
  <2>1. head \in Tokens /\ Length \in Tokens
    BY DEF Heads, Tokens
  <2> QED
    BY <2>1
<1>2. nothing \o first = first /\ nothing \o header = header
  BY <1>1, NothingAdded
<1>3. /\ ReaderAt(head, size, 0) = Reader("line", nothing, none, 0)
      /\ ReaderAt(head, size, 1) = Reader("line", first, none, 0)
      /\ ReaderAt(head, size, 2) = Reader("line", nothing, head, 0)
      /\ size # Bare => ReaderAt(head, size, 3) = Reader("line", header, head, 0)
  BY Stages
<1>4. part(0, 1) = first /\ (size # Bare => part(2, 3) = header)
  BY PartsOfLines
<1> HIDE DEF nothing, first, header, none, part
<1>5. Grown(ReaderAt(head, size, 0), part(0, 1)) = ReaderAt(head, size, 1)
  <2>1. Grown(Reader("line", nothing, none, 0), first) = Reader("line", nothing \o first, none, 0)
    BY ReaderGrows
  <2> QED
    BY <1>2, <1>3, <1>4, <2>1, Zenon
<1>6. size # Bare => Grown(ReaderAt(head, size, 2), part(2, 3)) = ReaderAt(head, size, 3)
  <2>1. Grown(Reader("line", nothing, head, 0), header) = Reader("line", nothing \o header, head, 0)
    BY ReaderGrows
  <2> QED
    BY <1>2, <1>3, <1>4, <2>1, Zenon
<1>7. (n = 0 /\ w = 1) \/ (size # Bare /\ n = 2 /\ w = 3)
  BY DEF NextEOL, Lines
<1>8. Grown(ReaderAt(head, size, n), part(n, w)) = ReaderAt(head, size, w)
  BY <1>5, <1>6, <1>7
<1> QED
  BY <1>8 DEF part

-----------------------------------------------------------------------------
(* One round of reading (socket_readln, socket_read).                         *)

(* What a round of reading leaves: k tokens read, the rest in the buffer.      *)
ReadUpTo(e, head, size, k, w) ==
  /\ rd' = [rd EXCEPT ![e] = ReaderAt(head, size, k)]
  /\ buf' = [buf EXCEPT ![e] = Seg(Message(head, size), k, w)]

(* The sizes of messages are numbers.                                         *)
LEMMA SizesAre ==
  ASSUME NEW size \in Sizes
  PROVE  /\ size \in Nat /\ size >= 3 /\ Bare = 3 /\ BodySize \in Nat /\ BodySize > 0
         /\ size # Bare => size = 5 + BodySize
BY ExchangeAssumption DEF Sizes, Bare, Full

(* Where the ends of the lines are.                                           *)
LEMMA LineEnds ==
  ASSUME NEW head \in Heads, NEW size \in Sizes, NEW n \in Nat, n < Lines(size)
  PROVE  /\ NextEOL(size, n) \in Nat /\ n < NextEOL(size, n) /\ NextEOL(size, n) <= size
         /\ Message(head, size)[NextEOL(size, n)] = EOL
         /\ \A x \in Nat : n < x /\ x < NextEOL(size, n) => Message(head, size)[x] # EOL
<1> DEFINE m == Message(head, size)
<1>1. /\ m[1] = head /\ m[2] = EOL /\ (size = Bare => m[3] = EOL)
      /\ (size # Bare => m[3] = Length /\ m[4] = EOL /\ m[5] = EOL)
  BY MessageIs
<1>2. head # EOL /\ Length # EOL
  BY HeadIsNoGap DEF Length, EOL
<1>3. /\ size \in Nat /\ size >= 3 /\ Bare = 3 /\ BodySize \in Nat /\ BodySize > 0
      /\ (size # Bare => size = 5 + BodySize)
  BY SizesAre
<1> HIDE DEF m
<1> DEFINE Right(p) == /\ p \in Nat /\ n < p /\ p <= size /\ m[p] = EOL
                       /\ \A x \in Nat : n < x /\ x < p => m[x] # EOL
<1>4. CASE n < 2
  <2>1. Right(2)
    BY <1>1, <1>2, <1>3, <1>4
  <2> QED
    BY <1>4, <2>1 DEF NextEOL, m
<1>5. CASE n = 2 /\ size = Bare
  <2>1. Right(3)
    BY <1>1, <1>2, <1>3, <1>5
  <2> QED
    BY <1>5, <2>1 DEF NextEOL, m
<1>6. CASE n \in {2, 3} /\ size # Bare
  <2>1. Right(4)
    BY <1>1, <1>2, <1>3, <1>6
  <2> QED
    BY <1>6, <2>1 DEF NextEOL, m
<1>7. CASE n = 4 /\ size # Bare
  <2>1. Right(5)
    BY <1>1, <1>2, <1>3, <1>7
  <2> QED
    BY <1>7, <2>1 DEF NextEOL, m
<1> QED
  BY <1>3, <1>4, <1>5, <1>6, <1>7 DEF Lines

(* What is in the buffer after it is filled is the next part of the message.   *)
LEMMA FilledIs ==
  ASSUME NEW e \in Ends, NEW head \in Heads, NEW size \in Sizes,
         NEW n \in 0 .. size, NEW b \in 0 .. size, NEW w \in 0 .. size,
         CarriedAs(e, head, size, n, b, w)
  PROVE  /\ Filled(e) = Seg(Message(head, size), n, w)
         /\ Filled(e) \in Seq(Tokens) /\ Len(Filled(e)) = w - n
         /\ \A x \in 1 .. w - n : Filled(e)[x] = Message(head, size)[n + x]
<1> DEFINE m == Message(head, size)
<1>1. m \in Seq(Tokens) /\ Len(m) = size /\ size \in Nat
  BY MessageIs, SizesAre
<1>2. /\ n \in Nat /\ b \in Nat /\ w \in Nat /\ n <= b /\ b <= w /\ n <= w /\ w <= Len(m)
  BY <1>1 DEF CarriedAs
<1>3. Filled(e) = Seg(m, n, b) \o Seg(m, b, w)
  BY DEF Filled, CarriedAs
<1> HIDE DEF m
<1>4. Filled(e) = Seg(m, n, w)
  BY <1>1, <1>2, <1>3, PartsMeet
<1>5. /\ Seg(m, n, w) \in Seq(Tokens) /\ Len(Seg(m, n, w)) = w - n
      /\ \A x \in 1 .. w - n : Seg(m, n, w)[x] = m[n + x]
  BY <1>1, <1>2, PartIs
<1> QED
  BY <1>4, <1>5 DEF m

(* A line, or the beginning of one, is read.                                  *)
LEMMA ReadlnStep ==
  ASSUME NEW e \in Ends, NEW head \in Heads, NEW size \in Sizes,
         NEW n \in 0 .. size, NEW b \in 0 .. size, NEW w \in 0 .. size,
         CarriedAs(e, head, size, n, b, w), n < w, socket_readln(e)
  PROVE  \E k \in n + 1 .. w : ReadUpTo(e, head, size, k, w)
<1> DEFINE m == Message(head, size)
           s == Filled(e)
           p == NextEOL(size, n)
<1>1. /\ m \in Seq(Tokens) /\ Len(m) = size /\ size \in Nat /\ size >= 3 /\ Bare = 3
      /\ (size # Bare => size > 5)
  BY MessageIs, SizesAre
<1>2. /\ s = Seg(m, n, w) /\ s \in Seq(Tokens) /\ Len(s) = w - n
      /\ \A x \in 1 .. w - n : s[x] = m[n + x]
  BY FilledIs
<1>3. rd[e] = ReaderAt(head, size, n)
  BY DEF CarriedAs
<1>4. n \in Nat /\ w \in Nat /\ n < Lines(size)
  <2>1. ReaderAt(head, size, n).phase = "line"
    BY <1>3 DEF socket_readln
  <2> QED
    BY <1>1, <2>1 DEF ReaderAt, Lines
<1>5. /\ p \in Nat /\ n < p /\ p <= size /\ m[p] = EOL
      /\ \A x \in Nat : n < x /\ x < p => m[x] # EOL
  BY <1>4, LineEnds
<1> HIDE DEF m, p
<1>6. CASE p <= w
  <2>1. (\E j \in DOMAIN s : s[j] = EOL) /\ FirstEOL(s) = p - n
    <3>1. p - n \in 1 .. Len(s) /\ s[p - n] = EOL
      <4>1. p - n \in 1 .. w - n /\ n + (p - n) = p
        BY <1>4, <1>5, <1>6
      <4> QED
        BY <1>2, <1>5, <4>1
    <3>2. ASSUME NEW j \in 1 .. (p - n) - 1 PROVE s[j] # EOL
      <4>1. j \in 1 .. w - n /\ n + j \in Nat /\ n < n + j /\ n + j < p
        BY <1>4, <1>5, <1>6
      <4> QED
        BY <1>2, <1>5, <4>1
    <3> HIDE DEF s
    <3> QED
      BY <1>2, <3>1, <3>2, FirstEOLIs
  <2>2. Upto(s, (p - n) - 1) = Seg(m, n, p - 1)
    <3>1. p - 1 \in Nat /\ n <= p - 1 /\ p - 1 <= w /\ w <= Len(m) /\ (p - n) - 1 = (p - 1) - n
      BY <1>1, <1>4, <1>5, <1>6
    <3>2. Upto(Seg(m, n, w), (p - 1) - n) = Seg(m, n, p - 1)
      BY <1>1, <1>4, <3>1, PartCut
    <3> QED
      BY <1>2, <3>1, <3>2
  <2>3. From(s, (p - n) + 1) = Seg(m, p, w)
    <3>1. n <= p /\ p <= w /\ w <= Len(m)
      BY <1>1, <1>4, <1>5, <1>6
    <3>2. From(Seg(m, n, w), p - n + 1) = Seg(m, p, w)
      BY <1>1, <1>4, <1>5, <3>1, PartCut
    <3> QED
      BY <1>2, <3>2
  <2>4. rd' = [rd EXCEPT ![e] = TakeLine(rd[e], rd[e].line \o Upto(s, (p - n) - 1))]
    BY <2>1 DEF socket_readln
  <2>5. buf' = [buf EXCEPT ![e] = From(s, (p - n) + 1)]
    BY <2>1 DEF socket_readln
  <2>6. TakeLine(rd[e], rd[e].line \o Seg(m, n, p - 1)) = ReaderAt(head, size, p)
    BY <1>3, <1>4, LineTaken DEF LineOf, m, p
  <2>7. ReadUpTo(e, head, size, p, w)
    BY <2>2, <2>3, <2>4, <2>5, <2>6 DEF ReadUpTo, m
  <2>8. p \in n + 1 .. w
    BY <1>4, <1>5, <1>6
  <2> QED
    BY <2>7, <2>8
<1>7. CASE ~ (p <= w)
  <2>1. ~ \E j \in DOMAIN s : s[j] = EOL
    <3> SUFFICES ASSUME NEW j \in DOMAIN s PROVE s[j] # EOL
      OBVIOUS
    <3>1. j \in 1 .. w - n
      BY <1>2, LenProperties
    <3>2. n + j \in Nat /\ n < n + j /\ n + j < p
      BY <1>4, <1>5, <1>7, <3>1
    <3> QED
      BY <1>2, <1>5, <3>1, <3>2
  <2>2. rd' = [rd EXCEPT ![e].line = @ \o s] /\ buf' = [buf EXCEPT ![e] = <<>>]
    BY <2>1 DEF socket_readln
  <2>3. rd' = [rd EXCEPT ![e] = Grown(rd[e], s)]
    BY <2>2 DEF Grown
  <2>4. Grown(rd[e], s) = ReaderAt(head, size, w)
    <3>1. n < w /\ w < p
      BY <1>4, <1>5, <1>7
    <3> QED
      BY <1>2, <1>3, <1>4, <3>1, LineKept DEF m, p
  <2>5. Seg(m, w, w) = <<>>
    <3>1. w <= w /\ w <= Len(m)
      BY <1>1, <1>4
    <3> QED
      BY <1>1, <1>4, <3>1, PartIs
  <2>6. ReadUpTo(e, head, size, w, w)
    BY <2>2, <2>3, <2>4, <2>5 DEF ReadUpTo, m
  <2>7. w \in n + 1 .. w
    BY <1>4
  <2> QED
    BY <2>6, <2>7
<1> QED
  BY <1>6, <1>7

(* A part of the body is read.                                                *)
LEMMA ReadStep ==
  ASSUME NEW e \in Ends, NEW head \in Heads, NEW size \in Sizes,
         NEW n \in 0 .. size, NEW b \in 0 .. size, NEW w \in 0 .. size,
         CarriedAs(e, head, size, n, b, w), n < w, socket_read(e)
  PROVE  ReadUpTo(e, head, size, w, w)
<1> DEFINE m == Message(head, size)
           s == Filled(e)
           r == ReaderAt(head, size, n)
<1>1. /\ m \in Seq(Tokens) /\ Len(m) = size /\ size \in Nat /\ size >= 3 /\ Bare = 3
      /\ BodySize \in Nat /\ BodySize > 0 /\ (size # Bare => size = 5 + BodySize)
  BY MessageIs, SizesAre
<1>2. s = Seg(m, n, w) /\ s \in Seq(Tokens) /\ Len(s) = w - n
  BY FilledIs
<1>3. rd[e] = r /\ r.phase = "body"
  BY DEF CarriedAs, socket_read
<1>4. n \in Nat /\ w \in Nat /\ size # Bare /\ n >= 5 /\ n # size
  <2>1. r.phase = IF n = size THEN "whole" ELSE IF size # Bare /\ n >= 5 THEN "body" ELSE "line"
    BY DEF ReaderAt
  <2> QED
    BY <1>1, <1>3, <2>1
<1> DEFINE InBody(k) == [phase |-> IF k = size THEN "whole" ELSE "body", line |-> <<>>,
                         head |-> head, need |-> BodySize, body |-> Seg(m, 5, k)]
<1>5. ASSUME NEW k \in Nat, k >= 5 PROVE ReaderAt(head, size, k) = InBody(k)
  <2>1. k # 1 /\ k # 3 /\ k >= 2 /\ k >= 4
    BY <1>5
  <2> QED
    BY <1>5, <1>4, <2>1, Zenon DEF ReaderAt
<1>6. r = InBody(n) /\ r.need = BodySize /\ r.body = Seg(m, 5, n)
  BY <1>5, <1>4
<1>7. Len(Seg(m, 5, n)) = n - 5
  <2>1. 5 \in Nat /\ 5 <= n /\ n <= Len(m)
    BY <1>1, <1>4
  <2> QED
    BY <1>1, <1>4, <2>1, PartIs
<1>8. Len(s) <= r.need - Len(r.body)
  BY <1>1, <1>2, <1>4, <1>6, <1>7
<1>9. r.body \o s = Seg(m, 5, w) /\ Len(Seg(m, 5, w)) = w - 5
  <2>1. 5 \in Nat /\ 5 <= n /\ n <= w /\ 5 <= w /\ w <= Len(m)
    BY <1>1, <1>4
  <2> HIDE DEF m, s, r
  <2>2. Seg(m, 5, n) \o Seg(m, n, w) = Seg(m, 5, w)
    BY <1>1, <1>4, <2>1, PartsMeet
  <2>3. Len(Seg(m, 5, w)) = w - 5
    BY <1>1, <1>4, <2>1, PartIs
  <2> QED
    BY <1>2, <1>6, <2>2, <2>3
<1>10. w - 5 = BodySize <=> w = size
  BY <1>1, <1>4
<1> DEFINE next == [r EXCEPT !.body = Seg(m, 5, w), !.phase = IF w = size THEN "whole" ELSE "body"]
<1>11. rd' = [rd EXCEPT ![e] = next]
  BY <1>3, <1>6, <1>8, <1>9, <1>10 DEF socket_read
<1>12. buf' = [buf EXCEPT ![e] = <<>>]
  <2>1. Len(Filled(e)) <= rd[e].need - Len(rd[e].body)
    BY <1>3, <1>8
  <2>2. ~ (Len(Filled(e)) > rd[e].need - Len(rd[e].body))
    BY <1>1, <1>2, <1>3, <1>4, <1>6, <1>7
  <2> QED
    BY <2>1, <2>2 DEF socket_read
<1>13. next = ReaderAt(head, size, w)
  <2> DEFINE Rec(phase, body) == [phase |-> phase, line |-> <<>>, head |-> head,
                                  need |-> BodySize, body |-> body]
             WithBody(x, body) == [x EXCEPT !.body = body]
             WithPhase(x, phase) == [x EXCEPT !.phase = phase]
             phaseAt(k) == IF k = size THEN "whole" ELSE "body"
  <2>1. w >= 5
    BY <1>4
  <2>2. ReaderAt(head, size, w) = Rec(phaseAt(w), Seg(m, 5, w))
    BY <1>5, <1>4, <2>1
  <2>3. r = Rec(phaseAt(n), Seg(m, 5, n))
    BY <1>6
  <2>4. next = WithPhase(WithBody(r, Seg(m, 5, w)), phaseAt(w))
    OBVIOUS
  <2>5. ASSUME NEW phase, NEW body, NEW new
        PROVE  /\ WithBody(Rec(phase, body), new) = Rec(phase, new)
               /\ WithPhase(Rec(phase, body), new) = Rec(new, body)
    OBVIOUS
  <2> HIDE DEF r, m, next, Rec, WithBody, WithPhase, phaseAt
  <2> QED
    BY <2>2, <2>3, <2>4, <2>5
<1>14. Seg(m, w, w) = <<>>
  <2>1. w <= w /\ w <= Len(m)
    BY <1>1, <1>4
  <2> QED
    BY <1>1, <1>4, <2>1, PartIs
<1> QED
  BY <1>11, <1>12, <1>13, <1>14 DEF ReadUpTo

-----------------------------------------------------------------------------
(* A message on its way.                                                      *)

(* The two ends.                                                              *)
LEMMA EndsAre ==
  /\ F \in Ends /\ B \in Ends /\ F # B /\ Peer(F) = B /\ Peer(B) = F
  /\ \A e \in Ends : (e = F \/ e = B) /\ Peer(e) \in Ends /\ Peer(e) # e /\ Peer(Peer(e)) = e
BY DEF F, B, Ends, Peer

(* Questions and answers are messages.                                        *)
LEMMA HeadsAre ==
  /\ \A step \in Steps \ Leavings : Url(step) \in Heads /\ AskedSize(step) \in Sizes
  /\ \A handler, url : Answer(handler, url) \in Heads /\ AnswerSize(handler, url) \in Sizes
<1>1. ASSUME NEW step \in Steps \ Leavings PROVE Url(step) \in Heads
  BY DEF Steps, Leavings, Gets, Reports, Url, Heads, Tokens, Known, EOL, Length
<1>2. ASSUME NEW handler, NEW url PROVE Answer(handler, url) \in Heads
  BY DEF Answer, Heads, Tokens, EOL
<1>3. \A step : AskedSize(step) \in Sizes
  BY DEF AskedSize, Sizes
<1>4. \A handler, url : AnswerSize(handler, url) \in Sizes
  BY DEF AnswerSize, Sizes
<1> QED
  BY <1>1, <1>2, <1>3, <1>4

(* A message that has arrived is whole, and nothing is left behind it.         *)
LEMMA Arrived ==
  ASSUME NEW e \in Ends, NEW head \in Heads, NEW size \in Sizes, Carried(e, head, size),
         rd[e].phase \in {"whole", "malformed"}
  PROVE  /\ rd[e] = ReaderAt(head, size, size) /\ rd[e].phase = "whole" /\ rd[e].head = head
         /\ Silent(e)
<1> DEFINE m == Message(head, size)
<1>1. m \in Seq(Tokens) /\ Len(m) = size /\ size \in Nat /\ size >= 3
  BY MessageIs, SizesAre
<1>2. PICK n \in 0 .. size, b \in 0 .. size, w \in 0 .. size : CarriedAs(e, head, size, n, b, w)
  BY DEF Carried
<1>3. rd[e] = ReaderAt(head, size, n)
  BY <1>2 DEF CarriedAs
<1>4. ReaderAt(head, size, n).phase
        = IF n = size THEN "whole" ELSE IF size # Bare /\ n >= 5 THEN "body" ELSE "line"
  BY DEF ReaderAt
<1>5. n = size /\ rd[e].phase = "whole"
  BY <1>3, <1>4
<1>6. b = size /\ w = size
  BY <1>1, <1>2, <1>5 DEF CarriedAs
<1>7. Seg(m, size, size) = <<>>
  <2>1. size <= size /\ size <= Len(m)
    BY <1>1
  <2> QED
    BY <1>1, <2>1, PartIs
<1>8. ReaderAt(head, size, size).head = head
  <2>1. ReaderAt(head, size, size).head = IF size >= 2 THEN head ELSE ""
    BY DEF ReaderAt
  <2>2. size >= 2
    BY <1>1
  <2> QED
    BY <2>1, <2>2
<1> QED
  BY <1>2, <1>3, <1>5, <1>6, <1>7, <1>8 DEF CarriedAs, Silent

(* A message that is sent is on its way.                                      *)
LEMMA Sent ==
  ASSUME NEW e \in Ends, NEW head \in Heads, NEW size \in Sizes,
         rd'[e] = Fresh, buf'[e] = <<>>, wire'[Peer(e)] = <<>>,
         out'[Peer(e)] = Message(head, size)
  PROVE  Carried(e, head, size)'
<1> DEFINE m == Message(head, size)
<1>1. m \in Seq(Tokens) /\ Len(m) = size /\ size \in Nat
  BY MessageIs, SizesAre
<1>2. Seg(m, 0, 0) = <<>>
  <2>1. 0 \in Nat /\ 0 <= 0 /\ 0 <= Len(m)
    BY <1>1
  <2> QED
    BY <1>1, <2>1, PartIs
<1>3. Seg(m, 0, size) = m
  BY <1>1, SubSeqFull DEF Seg
<1>4. ReaderAt(head, size, 0) = Fresh
  BY Stages DEF Reader, Fresh
<1>5. 0 \in 0 .. size /\ 0 <= 0
  BY <1>1
<1>6. CarriedAs(e, head, size, 0, 0, 0)'
  BY <1>2, <1>3, <1>4, <1>5 DEF CarriedAs
<1> QED
  BY <1>5, <1>6 DEF Carried

(* Reading moves it on.                                                       *)
LEMMA CarriedRead ==
  ASSUME NEW e \in Ends, NEW head \in Heads, NEW size \in Sizes, Maps,
         Carried(e, head, size), Read(e)
  PROVE  /\ Maps' /\ Carried(e, head, size)'
         /\ Silent(Peer(e)) => Silent(Peer(e))'
         /\ rd'[Peer(e)] = rd[Peer(e)]
<1> DEFINE m == Message(head, size)
<1>1. m \in Seq(Tokens) /\ Len(m) = size /\ size \in Nat
  BY MessageIs, SizesAre
<1>2. PICK n \in 0 .. size, b \in 0 .. size, w \in 0 .. size : CarriedAs(e, head, size, n, b, w)
  BY DEF Carried
<1>3. n < w
  <2>1. n \in Nat /\ w \in Nat /\ n <= w
    BY <1>1, <1>2 DEF CarriedAs
  <2>2. Filled(e) = Seg(m, n, w) /\ Filled(e) # <<>>
    BY <1>2, FilledIs DEF Read
  <2>3. CASE n = w
    <3>1. n <= n /\ n <= Len(m)
      BY <1>1
    <3>2. Seg(m, n, n) = <<>>
      BY <1>1, <2>1, <3>1, PartIs
    <3> QED
      BY <2>2, <2>3, <3>2
  <2> QED
    BY <2>1, <2>3
<1>4. PICK k \in n + 1 .. w : ReadUpTo(e, head, size, k, w)
  <2>1. CASE socket_readln(e)
    BY <1>2, <1>3, <2>1, ReadlnStep
  <2>2. CASE socket_read(e)
    <3>1. ReadUpTo(e, head, size, w, w)
      BY <1>2, <1>3, <2>2, ReadStep
    <3>2. w \in n + 1 .. w
      BY <1>1, <1>3
    <3> QED
      BY <3>1, <3>2
  <2> QED
    BY <2>1, <2>2 DEF Read
<1>5. k \in 0 .. size /\ k <= w /\ w <= w /\ w \in 0 .. size
  BY <1>1
<1>6. /\ wire' = [wire EXCEPT ![Peer(e)] = <<>>] /\ out' = out
      /\ rd' = [rd EXCEPT ![e] = ReaderAt(head, size, k)]
      /\ buf' = [buf EXCEPT ![e] = Seg(m, k, w)]
  BY <1>4 DEF Read, ReadUpTo
<1>7. Peer(e) \in Ends /\ Peer(e) # e /\ Peer(Peer(e)) = e
  BY EndsAre
<1> HIDE DEF m
<1>8. /\ IsMap(rd') /\ rd'[e] = ReaderAt(head, size, k) /\ rd'[Peer(e)] = rd[Peer(e)]
      /\ IsMap(buf') /\ buf'[e] = Seg(m, k, w) /\ buf'[Peer(e)] = buf[Peer(e)]
      /\ IsMap(wire') /\ wire'[Peer(e)] = <<>> /\ wire'[e] = wire[e]
  <2>1. IsMap(rd) /\ IsMap(buf) /\ IsMap(wire)
    BY DEF Maps
  <2>2. IsMap(rd') /\ rd'[e] = ReaderAt(head, size, k) /\ rd'[Peer(e)] = rd[Peer(e)]
    BY <1>6, <1>7, <2>1 DEF IsMap
  <2>3. IsMap(buf') /\ buf'[e] = Seg(m, k, w) /\ buf'[Peer(e)] = buf[Peer(e)]
    BY <1>6, <1>7, <2>1 DEF IsMap
  <2>4. IsMap(wire') /\ wire'[Peer(e)] = <<>> /\ wire'[e] = wire[e]
    BY <1>6, <1>7, <2>1 DEF IsMap
  <2> QED
    BY <2>2, <2>3, <2>4
<1>9. Seg(m, w, w) = <<>>
  <2>1. w \in Nat /\ w <= w /\ w <= Len(m)
    BY <1>1
  <2> QED
    BY <1>1, <2>1, PartIs
<1>10. out'[Peer(e)] = Seg(m, w, size)
  BY <1>2, <1>6 DEF CarriedAs, m
<1>11. CarriedAs(e, head, size, k, w, w)'
  BY <1>5, <1>8, <1>9, <1>10 DEF CarriedAs, m
<1>12. Maps'
  BY <1>6, <1>8 DEF Maps, IsMap
<1>13. Silent(Peer(e)) => Silent(Peer(e))'
  BY <1>6, <1>7, <1>8 DEF Silent
<1> QED
  BY <1>5, <1>8, <1>11, <1>12, <1>13 DEF Carried

(* Writing moves it on.                                                       *)
LEMMA CarriedWrite ==
  ASSUME NEW e \in Ends, NEW head \in Heads, NEW size \in Sizes, Maps,
         Carried(e, head, size), Write(Peer(e))
  PROVE  /\ Maps' /\ Carried(e, head, size)'
         /\ Silent(Peer(e)) => Silent(Peer(e))'
         /\ rd' = rd
<1> DEFINE m == Message(head, size)
           p == Peer(e)
<1>1. m \in Seq(Tokens) /\ Len(m) = size /\ size \in Nat
  BY MessageIs, SizesAre
<1>2. PICK n \in 0 .. size, b \in 0 .. size, w \in 0 .. size : CarriedAs(e, head, size, n, b, w)
  BY DEF Carried
<1>3. p \in Ends /\ p # e /\ Peer(p) = e
  BY EndsAre
<1>4. rd' = rd /\ buf' = buf
  BY DEF Write
<1>5. CASE Closed(Peer(p))
  <2>1. out' = out /\ wire' = wire
    BY <1>5 DEF Write
  <2> QED
    BY <1>2, <1>4, <2>1 DEF Maps, IsMap, Carried, CarriedAs, Silent
<1>6. CASE ~ Closed(Peer(p))
  <2>1. PICK c \in 1 .. Len(out[p]) :
          /\ wire' = [wire EXCEPT ![p] = wire[p] \o Upto(out[p], c)]
          /\ out' = [out EXCEPT ![p] = From(out[p], c + 1)]
    BY <1>6 DEF Write
  <2>2. /\ n \in Nat /\ b \in Nat /\ w \in Nat /\ n <= b /\ b <= w /\ w <= size
        /\ rd[e] = ReaderAt(head, size, n) /\ buf[e] = Seg(m, n, b)
        /\ wire[p] = Seg(m, b, w) /\ out[p] = Seg(m, w, size)
    BY <1>1, <1>2 DEF CarriedAs
  <2> HIDE DEF m, p
  <2>3. Len(out[p]) = size - w
    <3>1. size <= Len(m)
      BY <1>1
    <3> QED
      BY <1>1, <2>2, <3>1, PartIs
  <2> DEFINE v == w + c
  <2>4. /\ v \in 0 .. size /\ v \in Nat /\ w <= v /\ b <= v /\ v <= Len(m) /\ v <= size
        /\ v - w = c /\ size <= Len(m) /\ b <= w
    <3>1. c \in Nat /\ c <= size - w
      BY <1>1, <2>1, <2>2, <2>3
    <3> QED
      BY <1>1, <2>2, <3>1
  <2> HIDE DEF v
  <2>5. Upto(out[p], c) = Seg(m, w, v) /\ From(out[p], c + 1) = Seg(m, v, size)
    <3>1. Upto(Seg(m, w, size), v - w) = Seg(m, w, v)
      BY <1>1, <2>2, <2>4, PartCut
    <3>2. From(Seg(m, w, size), v - w + 1) = Seg(m, v, size)
      BY <1>1, <2>2, <2>4, PartCut
    <3> QED
      BY <2>2, <2>4, <3>1, <3>2
  <2>6. Seg(m, b, w) \o Seg(m, w, v) = Seg(m, b, v)
    BY <1>1, <2>2, <2>4, PartsMeet
  <2>7. IsMap(wire') /\ wire'[p] = Seg(m, b, v) /\ wire'[e] = wire[e]
    <3>1. IsMap(wire) /\ wire' = [wire EXCEPT ![p] = Seg(m, b, v)]
      BY <2>1, <2>2, <2>5, <2>6 DEF Maps
    <3> QED
      BY <1>3, <3>1 DEF IsMap
  <2>8. IsMap(out') /\ out'[p] = Seg(m, v, size) /\ out'[e] = out[e]
    <3>1. IsMap(out) /\ out' = [out EXCEPT ![p] = Seg(m, v, size)]
      BY <2>1, <2>5 DEF Maps
    <3> QED
      BY <1>3, <3>1 DEF IsMap
  <2>9. CarriedAs(e, head, size, n, b, v)'
    BY <1>4, <2>2, <2>4, <2>7, <2>8 DEF CarriedAs, m, p
  <2>10. Maps'
    BY <1>4, <2>7, <2>8 DEF Maps, IsMap
  <2>11. Silent(p) => Silent(p)'
    BY <1>3, <1>4, <2>7, <2>8 DEF Silent
  <2> QED
    BY <1>4, <2>4, <2>9, <2>10, <2>11 DEF Carried, p
<1> QED
  BY <1>5, <1>6

-----------------------------------------------------------------------------
(* The conversation.                                                          *)

(* Nothing is read or written by an end to which, or by which, nothing is sent. *)
LEMMA NothingToDo ==
  /\ \A e \in Ends : Silent(e) => ~ Read(e)
  /\ \A e \in Ends : Silent(Peer(e)) => ~ Write(e)
<1>1. ASSUME NEW e \in Ends, Silent(e), Read(e) PROVE FALSE
  <2>1. Filled(e) = <<>> \o <<>>
    BY <1>1 DEF Filled, Silent
  <2> QED
    BY <1>1, <2>1 DEF Read
<1>2. ASSUME NEW e \in Ends, Silent(Peer(e)), Write(e) PROVE FALSE
  BY <1>2, EndsAre DEF Silent, Write
<1> QED
  BY <1>1, <1>2

(* Reading and writing leave the conversation where it is.                     *)
LEMMA TalkRead ==
  ASSUME IInv, NEW e \in Ends, Read(e)
  PROVE  Maps' /\ ((Asking /\ Asking') \/ (Answering /\ Answering'))
<1>0. Maps /\ Control /\ (Idle \/ Asking \/ Answering)
  BY DEF IInv
<1>1. ~ Silent(e)
  BY NothingToDo
<1>2. UNCHANGED <<session, backend, leaving, status, out>>
  BY DEF Read
<1>3. CASE Idle
  BY <1>1, <1>3, EndsAre DEF Idle
<1>4. CASE Asking
  <2>1. e = F
    BY <1>1, <1>4, EndsAre DEF Asking
  <2>2. PICK head \in Heads, size \in Sizes : head = Url(at) /\ size = AskedSize(at)
    BY <1>0, <1>4, HeadsAre DEF Control, Asking
  <2>3. Carried(F, head, size) /\ Silent(B) /\ rd[B] = Fresh
    BY <1>4, <2>2 DEF Asking
  <2>4. Maps' /\ Carried(F, head, size)' /\ Silent(B)' /\ rd'[B] = Fresh
    BY <1>0, <2>1, <2>3, CarriedRead, EndsAre
  <2>5. at' = at /\ awaiting' = awaiting
    BY <1>2 DEF backend
  <2>6. Asking'
    BY <1>4, <2>2, <2>4, <2>5 DEF Asking
  <2> QED
    BY <1>4, <2>4, <2>6
<1>5. CASE Answering
  <2>1. e = B
    BY <1>1, <1>5, EndsAre DEF Answering
  <2>2. PICK head \in Heads, size \in Sizes :
          /\ head = Answer(session.handler, Url(at))
          /\ size = AnswerSize(session.handler, Url(at))
    BY HeadsAre
  <2>3. Carried(B, head, size) /\ Silent(F) /\ rd[F] = Fresh
    BY <1>5, <2>2 DEF Answering
  <2>4. Maps' /\ Carried(B, head, size)' /\ Silent(F)' /\ rd'[F] = Fresh
    BY <1>0, <2>1, <2>3, CarriedRead, EndsAre
  <2>5. at' = at /\ awaiting' = awaiting /\ session' = session
    BY <1>2 DEF backend
  <2>6. Answering'
    BY <1>5, <2>2, <2>4, <2>5 DEF Answering
  <2> QED
    BY <1>5, <2>4, <2>6
<1> QED
  BY <1>0, <1>3, <1>4, <1>5

LEMMA TalkWrite ==
  ASSUME IInv, NEW e \in Ends, Write(e)
  PROVE  Maps' /\ ((Asking /\ Asking') \/ (Answering /\ Answering'))
<1>0. Maps /\ Control /\ (Idle \/ Asking \/ Answering)
  BY DEF IInv
<1>1. ~ Silent(Peer(e))
  BY NothingToDo
<1>2. UNCHANGED <<session, backend, leaving, buf, rd>>
  BY DEF Write
<1>3. CASE Idle
  BY <1>1, <1>3, EndsAre DEF Idle
<1>4. CASE Asking
  <2>1. e = Peer(F)
    BY <1>1, <1>4, EndsAre DEF Asking
  <2>2. PICK head \in Heads, size \in Sizes : head = Url(at) /\ size = AskedSize(at)
    BY <1>0, <1>4, HeadsAre DEF Control, Asking
  <2>3. Carried(F, head, size) /\ Silent(B) /\ rd[B] = Fresh
    BY <1>4, <2>2 DEF Asking
  <2>4. Maps' /\ Carried(F, head, size)' /\ Silent(B)' /\ rd'[B] = Fresh
    BY <1>0, <2>1, <2>3, CarriedWrite, EndsAre
  <2>5. at' = at /\ awaiting' = awaiting
    BY <1>2 DEF backend
  <2>6. Asking'
    BY <1>4, <2>2, <2>4, <2>5 DEF Asking
  <2> QED
    BY <1>4, <2>4, <2>6
<1>5. CASE Answering
  <2>1. e = Peer(B)
    BY <1>1, <1>5, EndsAre DEF Answering
  <2>2. PICK head \in Heads, size \in Sizes :
          /\ head = Answer(session.handler, Url(at))
          /\ size = AnswerSize(session.handler, Url(at))
    BY HeadsAre
  <2>3. Carried(B, head, size) /\ Silent(F) /\ rd[F] = Fresh
    BY <1>5, <2>2 DEF Answering
  <2>4. Maps' /\ Carried(B, head, size)' /\ Silent(F)' /\ rd'[F] = Fresh
    BY <1>0, <2>1, <2>3, CarriedWrite, EndsAre
  <2>5. at' = at /\ awaiting' = awaiting /\ session' = session
    BY <1>2 DEF backend
  <2>6. Answering'
    BY <1>5, <2>2, <2>4, <2>5 DEF Answering
  <2> QED
    BY <1>5, <2>4, <2>6
<1> QED
  BY <1>0, <1>3, <1>4, <1>5

(* The frontend never meets a message it cannot read; it answers the question. *)
LEMMA TalkServe ==
  ASSUME IInv, Serve
  PROVE  Maps' /\ Asking /\ Answering' /\ UNCHANGED <<session, backend, status>>
<1>0. Maps /\ Control /\ (Idle \/ Asking \/ Answering)
  BY DEF IInv
<1>1. rd[F].phase \in {"whole", "malformed"} /\ UNCHANGED <<session, backend, wire, buf>>
  BY DEF Serve
<1>2. Asking
  <2>1. rd[F] # Fresh
    <3>1. Fresh.phase = "line"
      BY Zenon DEF Fresh
    <3> QED
      BY <1>1, <3>1
  <2> QED
    BY <1>0, <2>1 DEF Idle, Answering
<1>3. PICK head \in Heads, size \in Sizes : head = Url(at) /\ size = AskedSize(at)
  BY <1>0, <1>2, HeadsAre DEF Control, Asking
<1>4. rd[F].phase = "whole" /\ rd[F].head = Url(at) /\ Silent(F)
  BY <1>1, <1>2, <1>3, Arrived, EndsAre DEF Asking
<1>5. ~ Unreadable(F)
  BY <1>4 DEF Unreadable, Silent
<1>6. /\ out' = [out EXCEPT ![F] = http_response_send(session.handler, Url(at))]
      /\ rd' = [rd EXCEPT ![F] = Fresh] /\ status' = status
  BY <1>4, <1>5 DEF Serve
<1>7. PICK reply \in Heads, length \in Sizes :
        /\ reply = Answer(session.handler, Url(at))
        /\ length = AnswerSize(session.handler, Url(at))
  BY HeadsAre
<1>8. out' = [out EXCEPT ![F] = Message(reply, length)]
  BY <1>6, <1>7, EncodesMessage
<1>9. /\ IsMap(out') /\ out'[F] = Message(reply, length) /\ out'[B] = out[B]
      /\ IsMap(rd') /\ rd'[F] = Fresh /\ rd'[B] = rd[B]
  BY <1>0, <1>6, <1>8, EndsAre DEF Maps, IsMap
<1>10. rd'[B] = Fresh /\ buf'[B] = <<>> /\ wire'[Peer(B)] = <<>>
  BY <1>1, <1>2, <1>9 DEF Asking, Silent
<1>11. Carried(B, reply, length)'
  BY <1>9, <1>10, Sent, EndsAre
<1>12. Silent(F)'
  BY <1>1, <1>4, <1>9, EndsAre DEF Silent
<1>13. Maps'
  BY <1>0, <1>1, <1>9 DEF Maps, IsMap
<1>14. Answering'
  BY <1>1, <1>2, <1>7, <1>9, <1>11, <1>12 DEF Asking, Answering, backend
<1> QED
  BY <1>1, <1>2, <1>6, <1>13, <1>14

(* The backend asks when nothing is on its way.                                *)
LEMMA TalkAsk ==
  ASSUME IInv, Ask
  PROVE  Maps' /\ Idle /\ Asking' /\ at' = at /\ UNCHANGED <<session, status>>
<1>0. Maps /\ Control /\ (Idle \/ Asking \/ Answering)
  BY DEF IInv
<1>1. /\ ~awaiting /\ awaiting' /\ at \notin Leavings
      /\ out' = [out EXCEPT ![B] = http_request_send(at)] /\ rd' = [rd EXCEPT ![B] = Fresh]
      /\ UNCHANGED <<session, at, chatter, unbound, leaving, status, wire, buf>>
  BY DEF Ask
<1>2. Idle
  BY <1>0, <1>1 DEF Asking, Answering
<1>3. PICK head \in Heads, size \in Sizes : head = Url(at) /\ size = AskedSize(at)
  BY <1>0, <1>1, HeadsAre DEF Control
<1>4. out' = [out EXCEPT ![B] = Message(head, size)]
  BY <1>1, <1>3, EncodesMessage
<1>5. /\ IsMap(out') /\ out'[B] = Message(head, size) /\ out'[F] = out[F]
      /\ IsMap(rd') /\ rd'[B] = Fresh /\ rd'[F] = rd[F]
  BY <1>0, <1>1, <1>4, EndsAre DEF Maps, IsMap
<1>6. rd'[F] = Fresh /\ buf'[F] = <<>> /\ wire'[Peer(F)] = <<>>
  BY <1>1, <1>2, <1>5 DEF Idle, Silent
<1>7. Carried(F, head, size)'
  BY <1>5, <1>6, Sent, EndsAre
<1>8. Silent(B)'
  BY <1>1, <1>2, <1>5, EndsAre DEF Silent, Idle
<1>9. Maps'
  BY <1>0, <1>1, <1>5 DEF Maps, IsMap
<1>10. Asking'
  BY <1>1, <1>3, <1>5, <1>7, <1>8 DEF Asking
<1> QED
  BY <1>1, <1>2, <1>9, <1>10

(* The backend takes an answer that is whole.                                  *)
LEMMA TalkTake ==
  ASSUME IInv, Take
  PROVE  Maps' /\ Answering /\ Idle' /\ UNCHANGED <<session, status>>
<1>0. Maps /\ Control /\ (Idle \/ Asking \/ Answering)
  BY DEF IInv
<1>1. awaiting /\ rd[B].phase = "whole" /\ ~awaiting' /\ UNCHANGED <<session, status, stream>>
  BY DEF Take
<1>2. Answering
  <2>1. rd[B] # Fresh
    <3>1. Fresh.phase = "line"
      BY Zenon DEF Fresh
    <3> QED
      BY <1>1, <3>1
  <2> QED
    BY <1>0, <1>1, <2>1 DEF Idle, Asking
<1>3. PICK head \in Heads, size \in Sizes :
        /\ head = Answer(session.handler, Url(at))
        /\ size = AnswerSize(session.handler, Url(at))
  BY HeadsAre
<1>4. rd[B] = ReaderAt(head, size, size) /\ Silent(B)
  BY <1>1, <1>2, <1>3, Arrived, EndsAre DEF Answering
<1>5. Idle'
  BY <1>1, <1>2, <1>4 DEF Idle, Answering, Silent, stream
<1>6. Maps'
  BY <1>0, <1>1 DEF Maps, IsMap, stream
<1> QED
  BY <1>1, <1>2, <1>5, <1>6

(* The other steps leave the conversation as it is.                            *)
LEMMA TalkQuiet ==
  ASSUME IInv, UNCHANGED <<session, backend, stream>>
  PROVE  Maps' /\ ((Idle /\ Idle') \/ (Asking /\ Asking') \/ (Answering /\ Answering'))
BY DEF IInv, Maps, IsMap, Idle, Asking, Answering, Carried, CarriedAs, Silent, backend, stream

-----------------------------------------------------------------------------
(* The invariant.                                                             *)

(* The invariant holds at first.                                              *)
LEMMA InitIInv == Init => IInv
<1> SUFFICES ASSUME Init PROVE IInv
  OBVIOUS
<1>1. Maps
  BY DEF Init, Maps, IsMap
<1>2. Idle
  BY EndsAre DEF Init, Idle, Silent
<1>3. Control
  <2>1. at \in Steps /\ at \notin Reports
    BY DEF Init, Steps, Gets, Reports
  <2>2. status \in [Ends -> {"running", "ended", "assertion", "SIGPIPE", "fatal"}]
    BY DEF Init
  <2>3. /\ session \in Sessions /\ awaiting \in BOOLEAN /\ leaving \in BOOLEAN
        /\ chatter = 0 /\ unbound = MaxUnbound + 1
    BY DEF Init
  <2>4. chatter \in 0 .. MaxChatter + 1 /\ unbound \in 0 .. MaxUnbound + 1
    BY <2>3, ExchangeAssumption
  <2> QED
    BY <2>1, <2>2, <2>3, <2>4 DEF Control
<1> QED
  BY <1>1, <1>2, <1>3 DEF IInv

(* Where the stages lead to: a report follows itself, or a step that is none.  *)
LEMMA AfterIs ==
  ASSUME NEW step \in Steps \ (Leavings \cup {"bind", "rebind", "binding"})
  PROVE  \A next \in After(step) : next \in Steps /\ (next \in Reports => next = step \/ step \notin Reports)
<1>1. \A name, otherwise :
        Stage(name, otherwise) \in {name, otherwise}
  BY DEF Stage
<1>2. /\ Stage("generate", Stage("execute", "panic")) \in {"generate", "execute", "panic"}
      /\ Stage("execute", "panic") \in {"execute", "panic"}
  BY <1>1
<1> DEFINE generating == Stage("generate", Stage("execute", "panic"))
           executing == Stage("execute", "panic")
<1> HIDE DEF generating, executing
<1>3. generating \in {"generate", "execute", "panic"} /\ executing \in {"execute", "panic"}
  BY <1>2 DEF generating, executing
<1> QED
  BY <1>2 DEF After, Steps, Leavings, Gets, Reports

(* The backend goes from step to step of its program.                          *)
LEMMA ControlKept ==
  ASSUME IInv, [Next]_vars PROVE Control'
<1>0. Control /\ (Idle \/ Asking \/ Answering)
  BY DEF IInv
<1> DEFINE Kept == UNCHANGED <<session, backend, leaving>>
<1>1. CASE Take
  <2>1. /\ at \notin Leavings /\ Proceed /\ awaiting' = FALSE
        /\ UNCHANGED <<session, leaving, status>>
    BY <1>1, TalkTake DEF Take, Answering
  <2>2. CASE Bind
    <3>1. /\ at' \in Steps /\ at' \in {"binding", "misbound", "rebind", "bound"}
          /\ unbound' \in 0 .. MaxUnbound + 1 /\ chatter' \in 0 .. MaxChatter + 1
          /\ at' \notin Reports => chatter' = 0
      BY <1>0, <2>2, ExchangeAssumption DEF Bind, Control, Steps, Gets, Reports
    <3> QED
      BY <1>0, <2>1, <3>1 DEF Control
  <2>3. CASE ~ Bind
    <3>1. /\ at \notin {"bind", "rebind", "binding"} /\ at' \in After(at) /\ unbound' = unbound
          /\ at' = at => chatter < MaxChatter
          /\ chatter' = IF at' \in Reports THEN chatter + 1 ELSE 0
      BY <2>1, <2>3 DEF Proceed
    <3>2. at' \in Steps /\ (at' \in Reports => at' = at \/ at \notin Reports)
      BY <1>0, <2>1, <3>1, AfterIs DEF Control
    <3>3. chatter' \in 0 .. MaxChatter + 1 /\ (at' \notin Reports => chatter' = 0)
      BY <1>0, <3>1, <3>2, ExchangeAssumption DEF Control
    <3> QED
      BY <1>0, <2>1, <3>1, <3>2, <3>3 DEF Control
  <2> QED
    BY <2>2, <2>3
<1>2. CASE Ask
  BY <1>0, <1>2 DEF Ask, Control
<1>3. CASE Serve
  <2>1. leaving' \in BOOLEAN
    BY <1>0, <1>3 DEF Serve, Control, EndsSession
  <2> QED
    BY <1>0, <1>3, <2>1, TalkServe DEF Control, backend
<1>4. ASSUME NEW e \in Ends, Read(e) PROVE Control'
  BY <1>0, <1>4 DEF Read, Control, backend
<1>5. ASSUME NEW e \in Ends, Write(e) PROVE Control'
  BY <1>0, <1>5 DEF Write, Control, backend
<1>6. ASSUME NEW e \in Ends, FillFails(e) PROVE Control'
  BY <1>0, <1>6 DEF FillFails, Control, backend
<1>7. CASE FrontendLeaves
  BY <1>0, <1>7 DEF FrontendLeaves, Control, backend
<1>8. CASE BackendFatal \/ StageDies \/ BackendLeaves
  BY <1>0, <1>8 DEF BackendFatal, StageDies, BackendLeaves, Control, backend
<1>9. CASE UNCHANGED vars
  BY <1>0, <1>9 DEF vars, Control, backend
<1> QED
  BY <1>1, <1>2, <1>3, <1>4, <1>5, <1>6, <1>7, <1>8, <1>9, EndsAre
  DEF Next, FrontendNext, BackendNext

(* The conversation is in one of its three states.                            *)
LEMMA TalkKept ==
  ASSUME IInv, [Next]_vars PROVE Maps' /\ (Idle' \/ Asking' \/ Answering')
<1>1. ASSUME NEW e \in Ends, FillFails(e) PROVE UNCHANGED <<session, backend, stream>>
  BY <1>1 DEF FillFails
<1>2. CASE FrontendLeaves \/ BackendFatal \/ StageDies \/ BackendLeaves \/ UNCHANGED vars
  <2>1. UNCHANGED <<session, backend, stream>>
    BY <1>2 DEF FrontendLeaves, BackendFatal, StageDies, BackendLeaves, vars
  <2> QED
    BY <2>1, TalkQuiet
<1> QED
  BY <1>1, <1>2, TalkRead, TalkWrite, TalkServe, TalkAsk, TalkTake, TalkQuiet, EndsAre
  DEF Next, FrontendNext, BackendNext

(* The invariant: a message is where its reader, the buffer and the wire say   *)
(* (http.c, io.c), and the conversation is idle, asking or answering.         *)
THEOREM Invariance == Spec => []IInv
<1>1. Init => IInv
  BY InitIInv
<1>2. IInv /\ [Next]_vars => IInv'
  BY ControlKept, TalkKept DEF IInv
<1> QED
  BY <1>1, <1>2, PTL DEF Spec

(* However a message is cut into pieces, its reader finds exactly the message, *)
(* with nothing before the next one (http_request_receive,                    *)
(* http_response_receive, socket_readln, socket_read).                        *)
THEOREM MessagesWhole == Spec => []NothingLeftOver
<1>1. IInv => NothingLeftOver
  <2> SUFFICES ASSUME IInv, NEW e \in Ends, Unreadable(e) PROVE FALSE
    BY DEF NothingLeftOver
  <2>0. Idle \/ Asking \/ Answering
    BY DEF IInv
  <2>1. rd[e].phase \in {"whole", "malformed"}
    BY DEF Unreadable
  <2>2. Fresh.phase = "line"
    BY Zenon DEF Fresh
  <2>3. ASSUME NEW head \in Heads, NEW size \in Sizes
        PROVE  ReaderAt(head, size, size).phase = "whole"
    BY DEF ReaderAt
  <2>4. CASE Idle
    <3>1. Silent(e) /\ rd[e].phase # "malformed"
      BY <2>1, <2>2, <2>3, <2>4, EndsAre DEF Idle
    <3> QED
      BY <3>1 DEF Unreadable, Silent
  <2>5. CASE Asking
    <3>1. e = F
      BY <2>1, <2>2, <2>5, EndsAre DEF Asking
    <3>2. PICK head \in Heads, size \in Sizes : Carried(F, head, size)
      BY <2>5, HeadsAre DEF IInv, Control, Asking
    <3>3. rd[e].phase = "whole" /\ Silent(e)
      BY <2>1, <3>1, <3>2, Arrived, EndsAre
    <3> QED
      BY <3>3 DEF Unreadable, Silent
  <2>6. CASE Answering
    <3>1. e = B
      BY <2>1, <2>2, <2>6, EndsAre DEF Answering
    <3>2. PICK head \in Heads, size \in Sizes : Carried(B, head, size)
      BY <2>6, HeadsAre DEF Answering
    <3>3. rd[e].phase = "whole" /\ Silent(e)
      BY <2>1, <3>1, <3>2, Arrived, EndsAre
    <3> QED
      BY <3>3 DEF Unreadable, Silent
  <2> QED
    BY <2>0, <2>4, <2>5, <2>6
<1> QED
  BY <1>1, Invariance, PTL

(* A reader of a message has no more of the body than the header announced.    *)
ReaderTyped(r) ==
  r.phase \in {"line", "body", "whole", "malformed"} /\ Len(r.body) <= r.need

LEMMA ReadersTyped ==
  /\ ReaderTyped(Fresh)
  /\ \A head \in Heads, size \in Sizes : \A n \in 0 .. size : ReaderTyped(ReaderAt(head, size, n))
<1>1. ReaderTyped(Fresh)
  <2>1. Fresh.phase = "line" /\ Fresh.body = <<>> /\ Fresh.need = 0
    BY Zenon DEF Fresh
  <2> QED
    BY <2>1 DEF ReaderTyped
<1>2. ASSUME NEW head \in Heads, NEW size \in Sizes, NEW n \in 0 .. size
      PROVE  ReaderTyped(ReaderAt(head, size, n))
  <2> DEFINE m == Message(head, size)
             r == ReaderAt(head, size, n)
  <2>1. /\ m \in Seq(Tokens) /\ Len(m) = size /\ size \in Nat /\ BodySize \in Nat
        /\ n \in Nat /\ n <= size /\ (size # Bare => size = 5 + BodySize)
    BY MessageIs, SizesAre
  <2>2. r.phase \in {"line", "body", "whole", "malformed"}
    BY DEF ReaderAt
  <2>3. CASE size # Bare /\ n >= 5
    <3>1. Len(Seg(m, 5, n)) = n - 5
      <4>1. 5 \in Nat /\ 5 <= n /\ n <= Len(m)
        BY <2>1, <2>3
      <4> QED
        BY <2>1, <4>1, PartIs
    <3>2. n >= 4 /\ r.body = Seg(m, 5, n) /\ r.need = BodySize
      <4>1. n >= 4
        BY <2>1, <2>3
      <4> QED
        BY <2>3, <4>1 DEF ReaderAt
    <3>3. n - 5 <= BodySize
      BY <2>1, <2>3
    <3> QED
      BY <2>2, <3>1, <3>2, <3>3 DEF ReaderTyped
  <2>4. CASE ~ (size # Bare /\ n >= 5)
    <3>1. r.body = <<>> /\ r.need \in {0, BodySize}
      BY <2>4 DEF ReaderAt
    <3> QED
      BY <2>1, <2>2, <3>1 DEF ReaderTyped
  <2> QED
    BY <2>3, <2>4
<1> QED
  BY <1>1, <1>2

(* What is on its way to an end is made of tokens.                            *)
TokensFor(e) ==
  buf[e] \in Seq(Tokens) /\ wire[Peer(e)] \in Seq(Tokens) /\ out[Peer(e)] \in Seq(Tokens)

LEMMA CarriedTyped ==
  ASSUME NEW e \in Ends, NEW head \in Heads, NEW size \in Sizes, Carried(e, head, size)
  PROVE  TokensFor(e) /\ ReaderTyped(rd[e])
<1> DEFINE m == Message(head, size)
<1>1. m \in Seq(Tokens) /\ Len(m) = size /\ size \in Nat
  BY MessageIs, SizesAre
<1>2. PICK n \in 0 .. size, b \in 0 .. size, w \in 0 .. size : CarriedAs(e, head, size, n, b, w)
  BY DEF Carried
<1>3. /\ n \in Nat /\ b \in Nat /\ w \in Nat /\ n <= b /\ b <= w /\ b <= Len(m)
      /\ w <= Len(m) /\ w <= size /\ size <= Len(m) /\ rd[e] = ReaderAt(head, size, n)
      /\ buf[e] = Seg(m, n, b) /\ wire[Peer(e)] = Seg(m, b, w) /\ out[Peer(e)] = Seg(m, w, size)
  BY <1>1, <1>2 DEF CarriedAs
<1> HIDE DEF m
<1>4. Seg(m, n, b) \in Seq(Tokens)
  BY <1>1, <1>3, PartIs
<1>5. Seg(m, b, w) \in Seq(Tokens)
  BY <1>1, <1>3, PartIs
<1>6. Seg(m, w, size) \in Seq(Tokens)
  BY <1>1, <1>3, PartIs
<1> QED
  BY <1>3, <1>4, <1>5, <1>6, ReadersTyped DEF TokensFor

(* The variables of the conversation have their types; no reader has more of a *)
(* body than its header announced.                                            *)
THEOREM TypeCorrect == Spec => []TypeOK
<1>1. IInv => TypeOK
  <2> SUFFICES ASSUME IInv PROVE TypeOK
    OBVIOUS
  <2>0. Control /\ (Idle \/ Asking \/ Answering)
    BY DEF IInv
  <2>1. \A e \in Ends : Silent(e) => TokensFor(e)
    <3>1. <<>> \in Seq(Tokens)
      OBVIOUS
    <3> QED
      BY <3>1 DEF Silent, TokensFor
  <2>2. /\ TokensFor(F) /\ ReaderTyped(rd[F]) /\ TokensFor(B) /\ ReaderTyped(rd[B])
    <3>1. CASE Idle
      <4>1. ReaderTyped(rd[B])
        <5>1. CASE rd[B] = Fresh
          BY <5>1, ReadersTyped
        <5>2. ASSUME NEW head \in Heads, NEW size \in Sizes, rd[B] = ReaderAt(head, size, size)
              PROVE  ReaderTyped(rd[B])
          <6>1. size \in 0 .. size
            BY SizesAre
          <6> QED
            BY <5>2, <6>1, ReadersTyped
        <5> QED
          BY <3>1, <5>1, <5>2 DEF Idle
      <4> QED
        BY <2>1, <3>1, <4>1, ReadersTyped, EndsAre DEF Idle
    <3>2. CASE Asking
      <4>1. PICK head \in Heads, size \in Sizes : Carried(F, head, size)
        BY <2>0, <3>2, HeadsAre DEF Control, Asking
      <4> QED
        BY <2>1, <3>2, <4>1, CarriedTyped, ReadersTyped, EndsAre DEF Asking
    <3>3. CASE Answering
      <4>1. PICK head \in Heads, size \in Sizes : Carried(B, head, size)
        BY <3>3, HeadsAre DEF Answering
      <4> QED
        BY <2>1, <3>3, <4>1, CarriedTyped, ReadersTyped, EndsAre DEF Answering
    <3> QED
      BY <2>0, <3>1, <3>2, <3>3
  <2>3. ASSUME NEW e \in Ends
        PROVE  /\ out[e] \in Seq(Tokens) /\ wire[e] \in Seq(Tokens) /\ buf[e] \in Seq(Tokens)
               /\ ReaderTyped(rd[e])
    BY <2>2, EndsAre DEF TokensFor
  <2> QED
    BY <2>0, <2>3 DEF TypeOK, Control, ReaderTyped
<1> QED
  BY <1>1, Invariance, PTL

(* The two never talk at the same time: what is under way belongs to a single  *)
(* message, so neither waits for room while the other writes.                  *)
THEOREM OneAtATime == Spec => []OneMessageUnderWay
<1>1. IInv => OneMessageUnderWay
  <2> DEFINE Toward(e) == /\ rd[e].phase # "whole"
                          /\ rd[e] # Fresh \/ Filled(e) \o out[Peer(e)] # <<>>
  <2> SUFFICES ASSUME IInv, Toward(F), Toward(B) PROVE FALSE
    BY DEF OneMessageUnderWay
  <2>0. Idle \/ Asking \/ Answering
    BY DEF IInv
  <2>1. ASSUME NEW e \in Ends, rd[e] = Fresh, Silent(e) PROVE ~ Toward(e)
    <3>1. Filled(e) \o out[Peer(e)] = (<<>> \o <<>>) \o <<>>
      BY <2>1 DEF Filled, Silent
    <3> QED
      BY <2>1, <3>1
  <2> HIDE DEF Toward
  <2> QED
    BY <2>0, <2>1, EndsAre DEF Idle, Asking, Answering
<1> QED
  BY <1>1, Invariance, PTL

-----------------------------------------------------------------------------
(* The conversation is the one of Rpc.                                        *)

(* While the question is on the way there is no reply.                         *)
LEMMA NoReplyYet ==
  ASSUME IInv, Asking PROVE RpcReply = "" /\ RpcAsked = Url(at) /\ Url(at) \in Heads
<1>1. Url(at) \in Heads
  BY HeadsAre DEF IInv, Control, Asking
<1>2. rd[B].head = "" /\ rd[B].line = <<>>
  <2>1. Fresh.head = "" /\ Fresh.line = <<>>
    BY Zenon DEF Fresh
  <2> QED
    BY <2>1 DEF Asking
<1>3. AnswerOnTheWay = ((<<>> \o <<>>) \o <<>>) \o <<>>
  BY <1>2, EndsAre DEF AnswerOnTheWay, Asking, Silent
<1>4. AnswerOnTheWay = <<>>
  BY <1>3
<1> QED
  BY <1>1, <1>2, <1>4, Zenon DEF RpcReply, RpcAsked, Asking

(* While the answer is on the way it is the reply, wherever it is.             *)
LEMMA ReplyUnderWay ==
  ASSUME IInv, Answering
  PROVE  /\ RpcReply = Answer(session.handler, Url(at)) /\ RpcReply \in Heads
         /\ RpcAsked = Url(at) /\ Url(at) \in Heads
<1>1. Url(at) \in Heads
  BY HeadsAre DEF IInv, Control, Answering
<1>2. RpcAsked = Url(at) /\ awaiting
  BY DEF RpcAsked, Answering
<1>3. PICK head \in Heads, size \in Sizes :
        /\ head = Answer(session.handler, Url(at))
        /\ size = AnswerSize(session.handler, Url(at))
  BY HeadsAre
<1> DEFINE m == Message(head, size)
<1>4. m \in Seq(Tokens) /\ Len(m) = size /\ size \in Nat /\ size >= 3 /\ m[1] = head
  BY MessageIs, SizesAre
<1>5. PICK n \in 0 .. size, b \in 0 .. size, w \in 0 .. size : CarriedAs(B, head, size, n, b, w)
  BY <1>3 DEF Answering, Carried
<1>6. /\ n \in Nat /\ b \in Nat /\ w \in Nat /\ n <= b /\ b <= w /\ w <= size
      /\ rd[B] = ReaderAt(head, size, n) /\ buf[B] = Seg(m, n, b)
      /\ wire[F] = Seg(m, b, w) /\ out[F] = Seg(m, w, size)
  BY <1>4, <1>5, EndsAre DEF CarriedAs
<1> HIDE DEF m
<1>7. ASSUME n < 2
      PROVE  AnswerOnTheWay = Seg(m, 0, size)
  <2>1. rd[B].line = Seg(m, 0, n)
    <3>1. ReaderAt(head, size, 0).line = <<>> /\ ReaderAt(head, size, 1).line = <<head>>
      <4> DEFINE none == ""
      <4>1. /\ ReaderAt(head, size, 0) = Reader("line", <<>>, none, 0)
            /\ ReaderAt(head, size, 1) = Reader("line", <<head>>, none, 0)
        BY Stages
      <4> HIDE DEF none
      <4>2. /\ Reader("line", <<>>, none, 0).line = <<>>
            /\ Reader("line", <<head>>, none, 0).line = <<head>>
        BY ReaderLine
      <4> QED
        BY <4>1, <4>2, Zenon
    <3>2. Seg(m, 0, 0) = <<>>
      <4>1. 0 \in Nat /\ 0 <= 0 /\ 0 <= Len(m)
        BY <1>4
      <4> QED
        BY <1>4, <4>1, PartIs
    <3>3. Seg(m, 0, 1) = <<head>>
      BY PartsOfLines DEF m
    <3>4. n = 0 \/ n = 1
      BY <1>6, <1>7
    <3> QED
      BY <1>6, <3>1, <3>2, <3>3, <3>4
  <2>2. AnswerOnTheWay = ((Seg(m, 0, n) \o Seg(m, n, b)) \o Seg(m, b, w)) \o Seg(m, w, size)
    BY <1>6, <2>1 DEF AnswerOnTheWay
  <2>3. /\ 0 \in Nat /\ 0 <= n /\ 0 <= b /\ 0 <= w /\ b <= Len(m) /\ w <= Len(m)
        /\ size <= Len(m)
    BY <1>4, <1>6
  <2>4. Seg(m, 0, n) \o Seg(m, n, b) = Seg(m, 0, b)
    BY <1>4, <1>6, <2>3, PartsMeet
  <2>5. Seg(m, 0, b) \o Seg(m, b, w) = Seg(m, 0, w)
    BY <1>4, <1>6, <2>3, PartsMeet
  <2>6. Seg(m, 0, w) \o Seg(m, w, size) = Seg(m, 0, size)
    BY <1>4, <1>6, <2>3, PartsMeet
  <2> QED
    BY <2>2, <2>4, <2>5, <2>6
<1>8. RpcReply = head
  <2>1. CASE n >= 2
    <3>1. ReaderAt(head, size, n).head = IF n >= 2 THEN head ELSE ""
      BY DEF ReaderAt
    <3>2. rd[B].head = head /\ head # ""
      BY <1>6, <2>1, <3>1, HeadIsNoGap
    <3> QED
      BY <1>2, <3>2, Zenon DEF RpcReply
  <2>2. CASE n < 2
    <3>1. rd[B].head = ""
      <4>1. ReaderAt(head, size, n).head = IF n >= 2 THEN head ELSE ""
        BY DEF ReaderAt
      <4>2. ~ (n >= 2)
        BY <1>6, <2>2
      <4> QED
        BY <1>6, <4>1, <4>2
    <3>2. AnswerOnTheWay # <<>> /\ AnswerOnTheWay[1] = head
      <4>1. AnswerOnTheWay = m
        BY <1>4, <1>7, <2>2, SubSeqFull DEF Seg
      <4> QED
        BY <1>4, <4>1
    <3> QED
      BY <1>2, <3>1, <3>2, Zenon DEF RpcReply
  <2> QED
    BY <1>6, <2>1, <2>2
<1> QED
  BY <1>1, <1>2, <1>3, <1>8

(* What the conversation reads of the two, in each of its states.              *)
RpcStates ==
  /\ Idle => RpcAsked = "" /\ RpcReply = ""
  /\ Asking => RpcAsked = Url(at) /\ Url(at) \in Heads /\ RpcReply = ""
  /\ Answering => /\ RpcAsked = Url(at) /\ Url(at) \in Heads
                  /\ RpcReply = Answer(session.handler, Url(at)) /\ RpcReply \in Heads

LEMMA RpcStatesHold == IInv => RpcStates
<1>1. Idle => RpcAsked = "" /\ RpcReply = ""
  BY Zenon DEF Idle, RpcAsked, RpcReply
<1> QED
  BY <1>1, NoReplyYet, ReplyUnderWay DEF RpcStates

(* Every step of the two is a step of the conversation, or none of it.         *)
LEMMA StepRefines ==
  ASSUME IInv, IInv', [Next]_vars PROVE [Conversation!Next]_(Conversation!vars)
<1> DEFINE over == Closed(F) \/ Closed(B)
<1>0. /\ \A head \in Heads : head # "" /\ head \in Tokens
      /\ status \in [Ends -> {"running", "ended", "assertion", "SIGPIPE", "fatal"}]
  BY HeadIsNoGap DEF Heads, IInv, Control
<1>1. RpcStates
  BY RpcStatesHold
<1>2. RpcStates'
  BY RpcStatesHold, PTL
<1> HIDE DEF over
<1>3. CASE Ask
  <2>1. Idle /\ Asking' /\ at' = at /\ UNCHANGED <<session, status>>
    BY <1>3, TalkAsk
  <2>2. RpcAsked = "" /\ RpcReply = "" /\ RpcAsked' \in Tokens /\ RpcReply' = ""
    BY <1>0, <1>1, <1>2, <2>1 DEF RpcStates
  <2>3. over' = over
    BY <2>1 DEF Closed, over
  <2> QED
    BY <2>1, <2>2, <2>3, Zenon DEF Conversation!Next, Conversation!Ask, over
<1>4. CASE Serve
  <2>1. Asking /\ Answering' /\ UNCHANGED <<session, backend, status>>
    BY <1>4, TalkServe
  <2>2. at' = at
    BY <2>1 DEF backend
  <2>3. /\ RpcAsked # "" /\ RpcReply = "" /\ RpcAsked' = RpcAsked
        /\ RpcReply' = Answer(session.handler, RpcAsked)
    BY <1>0, <1>1, <1>2, <2>1, <2>2 DEF RpcStates
  <2>4. over' = over
    BY <2>1 DEF Closed, over
  <2> QED
    BY <2>1, <2>3, <2>4, Zenon DEF Conversation!Next, Conversation!Serve, over
<1>5. CASE Take
  <2>1. Answering /\ Idle' /\ UNCHANGED <<session, status>>
    BY <1>5, TalkTake
  <2>2. RpcReply # "" /\ RpcAsked' = "" /\ RpcReply' = ""
    BY <1>0, <1>1, <1>2, <2>1 DEF RpcStates
  <2>3. over' = over
    BY <2>1 DEF Closed, over
  <2> QED
    BY <2>1, <2>2, <2>3, Zenon DEF Conversation!Next, Conversation!Take, over
<1> DEFINE Leaves == over' = over \/ over' = TRUE
<1>6. ASSUME session' = session, at' = at, Leaves,
             (Idle /\ Idle') \/ (Asking /\ Asking') \/ (Answering /\ Answering')
      PROVE  [Conversation!Next]_(Conversation!vars)
  <2>1. RpcAsked' = RpcAsked /\ RpcReply' = RpcReply
    BY <1>1, <1>2, <1>6 DEF RpcStates
  <2> QED
    BY <1>6, <2>1, Zenon DEF Conversation!Next, Conversation!Leave, Conversation!vars, over
<1>7. ASSUME NEW e \in Ends, Read(e) PROVE [Conversation!Next]_(Conversation!vars)
  <2>1. session' = session /\ at' = at /\ status' = status
    BY <1>7 DEF Read, backend
  <2>2. Leaves
    BY <2>1 DEF Closed, over
  <2> QED
    BY <1>6, <1>7, <2>1, <2>2, TalkRead
<1>8. ASSUME NEW e \in Ends, Write(e) PROVE [Conversation!Next]_(Conversation!vars)
  <2>1. session' = session /\ at' = at
    BY <1>8 DEF Write, backend
  <2>2. status' = status \/ status' = [status EXCEPT ![e] = "SIGPIPE"]
    BY <1>8 DEF Write
  <2>3. Leaves
    BY <1>0, <2>2, EndsAre DEF Closed, over
  <2> QED
    BY <1>6, <1>8, <2>1, <2>3, TalkWrite
<1>9. ASSUME UNCHANGED <<session, backend, stream>>, Leaves
      PROVE  [Conversation!Next]_(Conversation!vars)
  <2>1. at' = at
    BY <1>9 DEF backend
  <2> QED
    BY <1>6, <1>9, <2>1, TalkQuiet
<1>10. ASSUME NEW e \in Ends, NEW how, how # "running", status' = [status EXCEPT ![e] = how],
              UNCHANGED <<session, backend, stream>>
       PROVE  [Conversation!Next]_(Conversation!vars)
  <2>1. Leaves
    BY <1>0, <1>10, EndsAre DEF Closed, over
  <2> QED
    BY <1>9, <1>10, <2>1
<1>11. ASSUME NEW e \in Ends, FillFails(e) PROVE [Conversation!Next]_(Conversation!vars)
  BY <1>10, <1>11 DEF FillFails
<1>12. CASE FrontendLeaves
  BY <1>10, <1>12, EndsAre DEF FrontendLeaves
<1>13. CASE BackendFatal \/ StageDies \/ BackendLeaves
  BY <1>10, <1>13, EndsAre DEF BackendFatal, StageDies, BackendLeaves
<1>14. CASE UNCHANGED vars
  <2>1. UNCHANGED <<session, backend, stream, status>>
    BY <1>14 DEF vars
  <2>2. Leaves
    BY <2>1 DEF Closed, over
  <2> QED
    BY <1>9, <2>1, <2>2
<1> QED
  BY <1>3, <1>4, <1>5, <1>7, <1>8, <1>11, <1>12, <1>13, <1>14, EndsAre
  DEF Next, FrontendNext, BackendNext

(* The frontend and the backend implement the conversation: each question of   *)
(* the backend is answered once, with the handler's answer to that question,  *)
(* however the messages are cut.                                              *)
THEOREM ConversationRefines == Spec => ImplementsRpc
<1>1. Init => Conversation!Init
  <2> SUFFICES ASSUME Init PROVE Conversation!Init
    OBVIOUS
  <2>1. Idle
    BY EndsAre DEF Init, Idle, Silent
  <2>2. RpcAsked = "" /\ RpcReply = ""
    BY <2>1, Zenon DEF Idle, RpcAsked, RpcReply
  <2>3. ~ (Closed(F) \/ Closed(B))
    BY EndsAre DEF Init, Closed
  <2> QED
    BY <2>2, <2>3, Zenon DEF Conversation!Init
<1>2. IInv /\ IInv' /\ [Next]_vars => [Conversation!Next]_(Conversation!vars)
  BY StepRefines
<1> QED
  BY <1>1, <1>2, Invariance, PTL DEF Spec, ImplementsRpc, Conversation!Spec
=============================================================================
