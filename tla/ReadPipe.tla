------------------------------- MODULE ReadPipe -------------------------------
(***************************************************************************)
(* A ReadPipe and the thread that serves it (base/pipe.c), the child process *)
(* on its other end (external), and the three ways the output is taken:      *)
(*   "on_read"       a callback on the reader thread (lsp.c, frontend.c)     *)
(*   "cmake"         a loop of read_pipe_expect and read_pipe_current        *)
(*                   (cmake.c)                                               *)
(*   "execute_pipe"  wait for the child, expect once, take the buffer        *)
(*                   (process.c)                                             *)
(* Bytes are numbered in the order the child writes them, so a text is where *)
(* it starts and how long it is; a StringView also names the block of memory *)
(* it points into, which appending to the buffer may move and free (sb.c).   *)
(* A critical section in which a thread does not wait is one step.           *)
(***************************************************************************)
EXTENDS Integers

CONSTANTS
  Clients,          \* the ways of taking the output to consider
  DrainSize,        \* DRAIN_SIZE - 1: the most one read returns
  InitialCapacity,  \* the capacity of a first block
  MaxOutput         \* bound on what the child writes

ASSUME ReadPipeAssumption ==
  /\ Clients \subseteq {"on_read", "cmake", "execute_pipe"}
  /\ DrainSize \in Nat \ {0} /\ InitialCapacity \in Nat \ {0} /\ MaxOutput \in Nat

VARIABLES
  client,     \* who takes the output
  written,    \* bytes the child has written
  running,    \* the child runs, and holds the other end of the pipe
  fdOpen,     \* pipe->fd >= 0
  reader,     \* where the reader thread is
  hup,        \* poll saw POLLHUP
  stalled,    \* a drain ended in EAGAIN: on_read was not called for it
  drained,    \* pipe->buffer.view.length
  block,      \* the block of pipe->buffer, its capacity and recorded length
  freed,      \* blocks that were freed
  current,    \* pipe->current
  taken,      \* bytes handed out by read_pipe_current
  pc,         \* where the client is
  woken,      \* the client's wait was ended by a signal
  held,       \* the client left with the mutex locked
  out,        \* the view the client is working on
  result      \* the view _execute_pipe returns

child == <<written, running>>
buffer == <<drained, block, freed>>
thread == <<fdOpen, reader, hup, stalled>>
caller == <<pc, woken, held, out, result>>
vars == <<client, child, buffer, thread, current, taken, caller>>

-----------------------------------------------------------------------------
(* The mutex is the reader's while it drains; the client's critical sections  *)
(* are steps, except that read_pipe_expect returns false without releasing.   *)
Unlocked == reader # "draining" /\ ~held

Signal == woken' = (woken \/ pc = "asleep")

(* Views.                                                                     *)
NoView == [block |-> 0, from |-> 0, len |-> 0]
Garbage == -1   \* the difference of pointers into two blocks

Least(S) == CHOOSE n \in S : \A m \in S : n <= m

(* The capacities of blocks (allocate_for_length): the first one, doubled k     *)
(* times.                                                                     *)
Capacity[k \in Nat] == IF k = 0 THEN InitialCapacity ELSE 2 * Capacity[k - 1]

(* sb_append_chars.  A block that is too small is left for one that is large    *)
(* enough, and freed only if the length recorded at its allocation still holds. *)
Appended(n) ==
  LET len == drained + n
      cap == Least({c \in {Capacity[k] : k \in 0 .. MaxOutput} : c > len})
  IN  /\ drained' = len
      /\ IF len + 1 <= block.cap
         THEN UNCHANGED <<block, freed>>
         ELSE /\ block' = [id |-> block.id + 1, cap |-> cap, recorded |-> len]
              /\ freed' = IF block.cap # 0 /\ block.recorded = drained
                          THEN freed \cup {block.id} ELSE freed

ExtendedView ==
  IF current = NoView
  THEN [block |-> block'.id, from |-> drained, len |-> drained' - drained]
  ELSE [current EXCEPT !.len = IF current.block = block'.id
                               THEN drained' - current.from ELSE Garbage]

-----------------------------------------------------------------------------
(* The child.                                                                 *)

Write ==
  /\ running
  /\ \E n \in 1 .. MaxOutput - written : written' = written + n
  /\ UNCHANGED <<client, running, buffer, thread, current, taken, caller>>

Exit ==
  /\ running
  /\ running' = FALSE
  /\ UNCHANGED <<client, written, buffer, thread, current, taken, caller>>

-----------------------------------------------------------------------------
(* The reader thread: read_pipe_read.                                         *)

Available == written - drained

\* Mutant: the end of the child is the end of its output.
PollHangupFirst ==
  /\ reader = "poll"
  /\ Available > 0 \/ ~running
  /\ hup' = ~running
  /\ reader' = IF running THEN "acquire" ELSE "hangup"
  /\ UNCHANGED <<client, child, fdOpen, stalled, buffer, current, taken, caller>>

Poll ==
  /\ reader = "poll"
  /\ Available > 0 \/ ~running
  /\ hup' = ~running
  /\ reader' = IF Available > 0 THEN "acquire" ELSE "hangup"
  /\ UNCHANGED <<client, child, fdOpen, stalled, buffer, current, taken, caller>>

AcquireToDrain ==
  /\ reader = "acquire"
  /\ Unlocked
  /\ reader' = "draining"
  /\ UNCHANGED <<client, child, fdOpen, hup, stalled, buffer, current, taken, caller>>

AfterDrain == IF hup THEN "hangup" ELSE "poll"

\* A read that fills the buffer is followed by another.
ReadFull ==
  /\ reader = "draining"
  /\ Available >= DrainSize
  /\ Appended(DrainSize)
  /\ current' = ExtendedView
  /\ UNCHANGED <<client, child, thread, taken, caller>>

\* on_read takes the view and uses it before the mutex is released.
HandOver(view) ==
  IF client = "on_read" /\ view # NoView
  THEN taken' = drained' /\ current' = NoView /\ out' = view
  ELSE current' = view /\ UNCHANGED <<taken, out>>

\* Mutant: the client is not woken.
DrainSilently ==
  /\ reader = "draining"
  /\ Available < DrainSize /\ (Available > 0 \/ ~running)
  /\ IF Available > 0
     THEN Appended(Available) /\ HandOver(ExtendedView)
     ELSE UNCHANGED buffer /\ HandOver(current)
  /\ reader' = AfterDrain
  /\ UNCHANGED <<client, child, fdOpen, hup, stalled, pc, woken, held, result>>

\* A short read, or the end of the file: on_read, wake up, release.
ReadShort ==
  /\ reader = "draining"
  /\ Available < DrainSize /\ (Available > 0 \/ ~running)
  /\ IF Available > 0
     THEN Appended(Available) /\ HandOver(ExtendedView)
     ELSE UNCHANGED buffer /\ HandOver(current)
  /\ reader' = AfterDrain
  /\ Signal
  /\ UNCHANGED <<client, child, fdOpen, hup, stalled, pc, held, result>>

(* The descriptor is non-blocking: after a full read of all there was, the    *)
(* next fails with EAGAIN, and the drain ends without on_read.                *)
ReadAgain ==
  /\ reader = "draining"
  /\ Available = 0 /\ running
  /\ stalled' = TRUE
  /\ reader' = AfterDrain
  /\ Signal
  /\ UNCHANGED <<client, child, fdOpen, hup, buffer, current, taken, pc, held, out, result>>

(* read_pipe_close and the second wakeup, none of it under the mutex.         *)
WakeBeforeClose ==
  /\ reader = "hangup"
  /\ reader' = "closing"
  /\ Signal
  /\ UNCHANGED <<client, child, fdOpen, hup, stalled, buffer, current, taken, pc, held, out, result>>

Close ==
  /\ reader = "closing"
  /\ fdOpen' = FALSE
  /\ reader' = "closed"
  /\ UNCHANGED <<client, child, hup, stalled, buffer, current, taken, caller>>

WakeAfterClose ==
  /\ reader = "closed"
  /\ reader' = "done"
  /\ Signal
  /\ UNCHANGED <<client, child, fdOpen, hup, stalled, buffer, current, taken, pc, held, out, result>>

-----------------------------------------------------------------------------
(* The client's thread.                                                       *)

ExpectReturns == IF client = "cmake" THEN "current" ELSE "take"

\* Mutant: the mutex stays locked when there is something to take.
ExpectKeepingLock ==
  /\ pc = "expect"
  /\ Unlocked
  /\ pc' = IF current # NoView THEN ExpectReturns ELSE "asleep"
  /\ held' = (current # NoView)
  /\ woken' = FALSE
  /\ UNCHANGED <<client, child, buffer, thread, current, taken, out, result>>

read_pipe_expect ==
  /\ pc = "expect"
  /\ Unlocked
  /\ pc' = IF current # NoView THEN ExpectReturns ELSE "asleep"
  /\ woken' = FALSE
  /\ UNCHANGED <<client, child, buffer, thread, current, taken, held, out, result>>

\* The wait may also end without a signal.
Spurious ==
  /\ pc = "asleep" /\ ~woken
  /\ woken' = TRUE
  /\ UNCHANGED <<client, child, buffer, thread, current, taken, pc, held, out, result>>

\* Mutant: nothing to take is taken for the end of the output.
WakeTrusting ==
  /\ pc = "asleep" /\ woken
  /\ Unlocked
  /\ held' = (current = NoView)
  /\ pc' = IF client = "cmake" /\ current = NoView THEN "done" ELSE ExpectReturns
  /\ woken' = FALSE
  /\ UNCHANGED <<client, child, buffer, thread, current, taken, out, result>>

Wake ==
  /\ pc = "asleep" /\ woken
  /\ Unlocked
  /\ IF ~fdOpen
     THEN /\ held' = TRUE
          /\ pc' = IF client = "cmake" THEN "done" ELSE "take"
     ELSE /\ UNCHANGED held
          /\ pc' = IF current # NoView THEN ExpectReturns ELSE "asleep"
  /\ woken' = FALSE
  /\ UNCHANGED <<client, child, buffer, thread, current, taken, out, result>>

\* Mutant: the view is handed out and stays current.
CurrentKept ==
  /\ pc = "current"
  /\ Unlocked
  /\ out' = current
  /\ taken' = drained
  /\ pc' = "print"
  /\ UNCHANGED <<client, child, buffer, thread, current, woken, held, result>>

read_pipe_current ==
  /\ pc = "current"
  /\ Unlocked
  /\ out' = current
  /\ taken' = drained
  /\ current' = NoView
  /\ pc' = "print"
  /\ UNCHANGED <<client, child, buffer, thread, woken, held, result>>

cmake_cmd_build ==
  /\ pc = "print"
  /\ pc' = "expect"
  /\ out' = NoView
  /\ UNCHANGED <<client, child, buffer, thread, current, taken, woken, held, result>>

process_wait ==
  /\ pc = "wait"
  /\ ~running
  /\ pc' = "expect"
  /\ UNCHANGED <<client, child, buffer, thread, current, taken, woken, held, out, result>>

(* _execute_pipe copies pipe->buffer.view, a pointer and a length, while the  *)
(* reader may be changing both.                                               *)
Unset == -1

TakePointer ==
  /\ pc = "take" /\ result.block = Unset
  /\ result' = [result EXCEPT !.block = block.id]
  /\ UNCHANGED <<client, child, buffer, thread, current, taken, pc, woken, held, out>>

TakeLength ==
  /\ pc = "take" /\ result.len = Unset
  /\ result' = [result EXCEPT !.len = drained]
  /\ UNCHANGED <<client, child, buffer, thread, current, taken, pc, woken, held, out>>

Return ==
  /\ pc = "take" /\ result.block # Unset /\ result.len # Unset
  /\ pc' = "done"
  /\ UNCHANGED <<client, child, buffer, thread, current, taken, woken, held, out, result>>

-----------------------------------------------------------------------------
Init ==
  /\ client \in Clients
  /\ written = 0 /\ running = TRUE
  /\ fdOpen = TRUE /\ reader = "poll" /\ hup = FALSE /\ stalled = FALSE
  /\ drained = 0 /\ block = [id |-> 0, cap |-> 0, recorded |-> 0] /\ freed = {}
  /\ current = NoView /\ taken = 0
  /\ pc = CASE client = "on_read" -> "done"
            [] client = "cmake" -> "expect"
            [] client = "execute_pipe" -> "wait"
  /\ woken = FALSE /\ held = FALSE /\ out = NoView
  /\ result = [block |-> Unset, len |-> Unset]

Reader ==
  \/ Poll \/ AcquireToDrain \/ ReadFull \/ ReadShort \/ ReadAgain
  \/ WakeBeforeClose \/ Close \/ WakeAfterClose

Client ==
  \/ read_pipe_expect \/ Wake \/ read_pipe_current \/ cmake_cmd_build
  \/ process_wait \/ TakePointer \/ TakeLength \/ Return

Next == Write \/ Exit \/ Reader \/ Client \/ Spurious

(* Both threads are scheduled; the child owes nothing, and may run for ever.  *)
Spec == Init /\ [][Next]_vars /\ WF_vars(Reader) /\ WF_vars(Client)

-----------------------------------------------------------------------------
View == [block : Nat, from : Nat, len : Nat \cup {Garbage}]

TypeOK ==
  /\ client \in Clients
  /\ written \in 0 .. MaxOutput /\ running \in BOOLEAN
  /\ fdOpen \in BOOLEAN /\ hup \in BOOLEAN /\ stalled \in BOOLEAN
  /\ reader \in {"poll", "acquire", "draining", "hangup", "closing", "closed", "done"}
  /\ drained \in 0 .. written
  /\ block \in [id : Nat, cap : Nat, recorded : 0 .. drained]
  /\ freed \subseteq 0 .. block.id - 1
  /\ current \in View /\ out \in View
  /\ taken \in 0 .. drained
  /\ pc \in {"wait", "expect", "asleep", "current", "print", "take", "done"}
  /\ woken \in BOOLEAN /\ held \in BOOLEAN
  /\ result \in [block : Nat \cup {Unset}, len : Nat \cup {Unset}]

(* What is current starts where the last view that was handed out ended and   *)
(* reaches to the end of the buffer: no byte is handed out twice or skipped,  *)
(* however the drains and the client's calls interleave.                      *)
HandedOutInOrder ==
  IF current = NoView THEN taken = drained
  ELSE /\ current.from = taken
       /\ current.len # Garbage => taken + current.len = drained

(* The client never sleeps on data that is there: if it waits unsignalled and *)
(* there is something to take, the reader is still draining and will wake it. *)
NoSleepOnData ==
  pc = "asleep" /\ ~woken /\ current # NoView => reader = "draining"

(* When the reader thread ends, the callback has been given all the child     *)
(* wrote, unless a drain ended in EAGAIN.                                     *)
AllIsDelivered == client = "on_read" /\ reader = "done" /\ ~stalled => taken = written

(* _execute_pipe returns all the child wrote, in a block that is not freed, if *)
(* read_pipe_expect reported the end of the output: it returned false, with    *)
(* the mutex locked.  Without that, the reader may still be draining.          *)
EndedOutputIsWhole ==
  client = "execute_pipe" /\ pc = "done" /\ held
    => result.len = written /\ result.block \notin freed

(* Once the child is gone, the reader thread ends: it is never kept from the  *)
(* mutex.                                                                     *)
ReaderEnds == ~running ~> reader = "done"

(* base/test/clang-format.c:19 prints what execute_pipe returns as the text   *)
(* clang-format produced: it expects that, or an error, once clang-format has *)
(* run.                                                                       *)
ExecutePipeReturns == client = "execute_pipe" /\ ~running ~> pc = "done"
=============================================================================
