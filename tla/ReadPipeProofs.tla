---------------------------- MODULE ReadPipeProofs ----------------------------
(***************************************************************************)
(* Proofs about ReadPipe, for every set of clients, every size of a read and *)
(* of a first block, and outputs of every length.                            *)
(***************************************************************************)
EXTENDS ReadPipe, NumberLemmas

(* The inductive invariant, beside the properties themselves.                 *)

(* A hang-up that was seen came from a child that is gone, and the reader is   *)
(* past its last drain only when there is nothing left to drain.              *)
HangupIsTheEnd ==
  /\ hup => ~running
  /\ reader \in {"hangup", "closing", "closed", "done"} => ~running /\ drained = written

(* A drain that ends with on_read leaves nothing current.                     *)
CallbackTookAll ==
  client = "on_read" /\ ~stalled /\ reader # "draining" => current = NoView

(* The mutex is left locked only by a client that saw the pipe closed.        *)
LockKeptAfterClose ==
  /\ ~fdOpen <=> reader \in {"closed", "done"}
  /\ held => ~fdOpen

(* What _execute_pipe copies with the mutex locked no longer changes.         *)
ResultIsOfTheEnd ==
  /\ pc \notin {"take", "done"} => result.block = Unset /\ result.len = Unset
  /\ client = "execute_pipe" /\ pc = "done" => result.block # Unset /\ result.len # Unset
  /\ client = "execute_pipe" /\ held =>
       /\ result.block \in {Unset, block.id}
       /\ result.len \in {Unset, drained}

IInv ==
  /\ TypeOK /\ HandedOutInOrder /\ NoSleepOnData
  /\ HangupIsTheEnd /\ CallbackTookAll /\ LockKeptAfterClose /\ ResultIsOfTheEnd

-----------------------------------------------------------------------------
(* The capacities of blocks.                                                  *)

(* A set of numbers that is not empty has a least member (Least).             *)
LEMMA LeastInSet ==
  ASSUME NEW S \in SUBSET Nat, S # {}
  PROVE  Least(S) \in S /\ \A m \in S : Least(S) <= m
BY LeastOf DEF Least

(* Capacity is the function its recursion describes: one exists.              *)
LEMMA CapacityDef ==
  Capacity = [k \in Nat |-> IF k = 0 THEN InitialCapacity ELSE 2 * Capacity[k - 1]]
<1> DEFINE double == [p \in Nat \X Nat |-> 2 * p[2]]
<1>1. double \in [Nat \X Nat -> Nat] /\ InitialCapacity \in Nat
  BY ReadPipeAssumption
<1>2. PICK h \in [Nat -> Nat] : Recurs(h, InitialCapacity, double)
  <2> HIDE DEF double
  <2> QED
    BY <1>1, Recursion
<1>3. \A k \in Nat \ {0} : h[k] = 2 * h[k - 1]
  <2>1. \A k \in Nat \ {0} : double[<<k, h[k - 1]>>] = 2 * h[k - 1]
    OBVIOUS
  <2> HIDE DEF double
  <2> QED
    BY <1>2, <2>1 DEF Recurs
<1>4. h = [k \in Nat |-> IF k = 0 THEN InitialCapacity ELSE 2 * h[k - 1]]
  BY <1>2, <1>3 DEF Recurs
<1>5. \E f : f = [k \in Nat |-> IF k = 0 THEN InitialCapacity ELSE 2 * f[k - 1]]
  BY <1>4
<1> QED
  BY <1>5 DEF Capacity

(* Capacities grow without end.                                               *)
LEMMA CapacityGrows == \A k \in Nat : Capacity[k] \in Nat /\ Capacity[k] > k
<1> DEFINE S == {k \in Nat : Capacity[k] \in Nat /\ Capacity[k] > k}
<1>1. 0 \in S
  BY CapacityDef, ReadPipeAssumption
<1>2. ASSUME NEW k \in S PROVE k + 1 \in S
  <2>1. Capacity[k + 1] = 2 * Capacity[k]
    BY CapacityDef
  <2> QED
    BY <2>1
<1>3. S = Nat
  <2> HIDE DEF S
  <2>1. S \in SUBSET Nat
    BY DEF S
  <2> QED
    BY <1>1, <1>2, <2>1, SetInduction
<1> QED
  BY <1>3

-----------------------------------------------------------------------------
(* Appending to the buffer: the old bytes stay recorded, and a block that was  *)
(* freed is never the one in use.                                             *)
LEMMA AppendedGood ==
  ASSUME TypeOK, NEW n \in 1 .. Available, Appended(n)
  PROVE  /\ drained' = drained + n
         /\ block' \in [id : Nat, cap : Nat, recorded : 0 .. drained']
         /\ freed' \subseteq 0 .. block'.id - 1
<1>1. /\ drained' = drained + n /\ drained' \in 0 .. written
      /\ drained \in 0 .. drained' /\ written \in 0 .. MaxOutput
  BY ReadPipeAssumption DEF TypeOK, Available, Appended
<1>2. CASE drained + n + 1 <= block.cap
  <2>1. block' = block /\ freed' = freed
    BY <1>2 DEF Appended
  <2> QED
    BY <1>1, <2>1 DEF TypeOK
<1>3. CASE ~ (drained + n + 1 <= block.cap)
  <2> DEFINE larger == {c \in {Capacity[k] : k \in 0 .. MaxOutput} : c > drained + n}
  <2>1. larger \in SUBSET Nat
    BY CapacityGrows, ReadPipeAssumption
  <2>2. larger # {}
    <3>1. drained + n \in 0 .. MaxOutput
      BY <1>1, ReadPipeAssumption
    <3>2. drained + n \in Nat /\ Capacity[drained + n] > drained + n
      BY <3>1, CapacityGrows, ReadPipeAssumption
    <3> QED
      BY <3>1, <3>2
  <2>3. Least(larger) \in Nat
    <3> HIDE DEF larger
    <3> QED
      BY <2>1, <2>2, LeastInSet
  <2>4. block' = [id |-> block.id + 1, cap |-> Least(larger), recorded |-> drained']
    BY <1>1, <1>3 DEF Appended
  <2>5. freed' \subseteq freed \cup {block.id}
    BY <1>3 DEF Appended
  <2> HIDE DEF larger
  <2>6. block.id \in Nat /\ freed \subseteq 0 .. block.id - 1
    BY DEF TypeOK
  <2> QED
    BY <1>1, <2>3, <2>4, <2>5, <2>6
<1> QED
  BY <1>1, <1>2, <1>3

(* What is current after a read still reaches from the last byte handed out to *)
(* the last one read, and there is something to take.                         *)
LEMMA ExtendedGood ==
  ASSUME TypeOK, HandedOutInOrder, NEW n \in 1 .. Available, Appended(n)
  PROVE  /\ ExtendedView \in View /\ ExtendedView # NoView
         /\ ExtendedView.from = taken
         /\ ExtendedView.len # Garbage => taken + ExtendedView.len = drained'
<1>1. /\ drained' = drained + n /\ block'.id \in Nat
  BY AppendedGood
<1>2. drained \in Nat /\ taken \in 0 .. drained /\ current \in View /\ n \in Nat /\ n # 0
  BY DEF TypeOK, Available
<1>3. CASE current = NoView
  BY <1>1, <1>2, <1>3 DEF ExtendedView, HandedOutInOrder, View, NoView, Garbage
<1>4. CASE current # NoView /\ current.block = block'.id
  BY <1>1, <1>2, <1>4 DEF ExtendedView, HandedOutInOrder, View, NoView, Garbage
<1>5. CASE current # NoView /\ current.block # block'.id
  BY <1>1, <1>2, <1>5 DEF ExtendedView, HandedOutInOrder, View, NoView, Garbage
<1> QED
  BY <1>3, <1>4, <1>5

-----------------------------------------------------------------------------
(* The invariant holds at first.                                              *)
LEMMA InitIInv == Init => IInv
<1> SUFFICES ASSUME Init PROVE IInv
  OBVIOUS
<1>1. TypeOK
  <2>1. pc \in {"wait", "expect", "done"} /\ client \in Clients
    BY ReadPipeAssumption DEF Init
  <2>2. block \in [id : Nat, cap : Nat, recorded : 0 .. drained] /\ NoView \in View
    BY DEF Init, View, NoView
  <2>3. result \in [block : Nat \cup {Unset}, len : Nat \cup {Unset}]
    BY DEF Init
  <2>4. /\ written \in 0 .. MaxOutput /\ drained \in 0 .. written /\ taken \in 0 .. drained
        /\ freed \subseteq 0 .. block.id - 1
    BY ReadPipeAssumption DEF Init
  <2>5. /\ reader = "poll" /\ current = NoView /\ out = NoView
        /\ running \in BOOLEAN /\ fdOpen \in BOOLEAN /\ hup \in BOOLEAN
        /\ stalled \in BOOLEAN /\ woken \in BOOLEAN /\ held \in BOOLEAN
    BY DEF Init
  <2> QED
    BY <2>1, <2>2, <2>3, <2>4, <2>5 DEF TypeOK
<1>2. HandedOutInOrder /\ NoSleepOnData /\ HangupIsTheEnd /\ CallbackTookAll /\ LockKeptAfterClose
  BY DEF Init, HandedOutInOrder, NoSleepOnData, HangupIsTheEnd, CallbackTookAll, LockKeptAfterClose
<1>3. ResultIsOfTheEnd
  BY ReadPipeAssumption DEF Init, ResultIsOfTheEnd
<1> QED
  BY <1>1, <1>2, <1>3 DEF IInv

(* Every step keeps the types: only a drain appends, and only what is there.   *)
LEMMA TypeKept ==
  ASSUME IInv, Next
  PROVE  TypeOK'
<1> USE DEF IInv
<1>1. CASE Write
  BY <1>1, ReadPipeAssumption DEF Write, TypeOK, buffer, thread, caller
<1>2. CASE Exit
  BY <1>2 DEF Exit, TypeOK, buffer, thread, caller
<1>3. CASE Poll \/ AcquireToDrain \/ WakeBeforeClose \/ Close \/ WakeAfterClose \/ ReadAgain
  BY <1>3 DEF Poll, AcquireToDrain, WakeBeforeClose, Close, WakeAfterClose, ReadAgain,
              Signal, AfterDrain, TypeOK, child, buffer, thread, caller
<1>4. CASE read_pipe_expect \/ Wake \/ process_wait \/ Spurious \/ Return
  BY <1>4 DEF read_pipe_expect, Wake, process_wait, Spurious, Return,
              ExpectReturns, TypeOK, child, buffer, thread, caller
<1> NoView \in View
  BY DEF NoView, View
<1>5. CASE cmake_cmd_build
  BY <1>5 DEF cmake_cmd_build, TypeOK, child, buffer, thread, caller
<1>6. CASE read_pipe_current
  BY <1>6 DEF read_pipe_current, TypeOK, child, buffer, thread, caller
<1>7. CASE TakePointer
  BY <1>7 DEF TakePointer, TypeOK, child, buffer, thread, caller
<1>8. CASE TakeLength
  BY <1>8 DEF TakeLength, TypeOK, child, buffer, thread, caller
<1>9. CASE ReadFull
  <2>1. DrainSize \in 1 .. Available /\ Appended(DrainSize)
    BY <1>9, ReadPipeAssumption DEF ReadFull, TypeOK, Available
  <2>2. current' \in View
    BY <1>9, <2>1, ExtendedGood DEF ReadFull
  <2>3. drained' = drained + DrainSize /\ drained' \in 0 .. written
    BY <2>1, AppendedGood DEF TypeOK, Available
  <2> QED
    BY <1>9, <2>1, <2>2, <2>3, AppendedGood DEF ReadFull, TypeOK, child, thread, caller
<1>10. CASE ReadShort
  <2>1. CASE Available > 0
    <3>1. Available \in 1 .. Available /\ Appended(Available)
      BY <1>10, <2>1 DEF ReadShort, TypeOK, Available
    <3>2. ExtendedView \in View /\ HandOver(ExtendedView)
      BY <1>10, <2>1, <3>1, ExtendedGood DEF ReadShort
    <3>3. drained' = drained + Available /\ drained' \in 0 .. written /\ taken \in 0 .. drained'
      BY <3>1, AppendedGood DEF TypeOK, Available
    <3>4. current' \in View /\ out' \in View /\ taken' \in 0 .. drained'
      BY <3>2, <3>3 DEF HandOver, TypeOK
    <3>5. /\ block' \in [id : Nat, cap : Nat, recorded : 0 .. drained']
          /\ freed' \subseteq 0 .. block'.id - 1
      BY <3>1, AppendedGood
    <3>6. reader' \in {"hangup", "poll"} /\ woken' \in BOOLEAN /\ UNCHANGED <<fdOpen, hup, stalled>>
      BY <1>10 DEF ReadShort, AfterDrain, Signal
    <3>7. UNCHANGED <<client, child, pc, held, result>>
      BY <1>10 DEF ReadShort
    <3> QED
      BY <3>3, <3>4, <3>5, <3>6, <3>7 DEF TypeOK, child
  <2>2. CASE ~ (Available > 0)
    <3>1. UNCHANGED buffer /\ HandOver(current)
      BY <1>10, <2>2 DEF ReadShort
    <3>2. current' \in View /\ out' \in View /\ taken' \in 0 .. drained'
      BY <3>1 DEF HandOver, TypeOK, buffer
    <3> QED
      BY <1>10, <3>1, <3>2 DEF ReadShort, AfterDrain, Signal, TypeOK, child, buffer
  <2> QED
    BY <2>1, <2>2
<1> QED
  BY <1>1, <1>2, <1>3, <1>4, <1>5, <1>6, <1>7, <1>8, <1>9, <1>10 DEF Next, Reader, Client

(* A drain: the views it makes and hands over.                                *)
LEMMA DrainInOrder ==
  ASSUME IInv, ReadFull \/ ReadShort
  PROVE  /\ HandedOutInOrder'
         /\ client = "on_read" /\ ReadShort => current' = NoView
         /\ drained' = IF ReadShort THEN written ELSE drained + DrainSize
<1> USE DEF IInv
<1>1. CASE ReadFull
  <2>1. DrainSize \in 1 .. Available /\ Appended(DrainSize) /\ ~ ReadShort
    BY <1>1, ReadPipeAssumption DEF ReadFull, ReadShort, TypeOK, Available
  <2>2. drained' = drained + DrainSize
    BY <2>1, AppendedGood
  <2> QED
    BY <1>1, <2>1, <2>2, ExtendedGood DEF ReadFull, HandedOutInOrder
<1>2. CASE ReadShort /\ Available > 0
  <2>1. Available \in 1 .. Available /\ Appended(Available) /\ HandOver(ExtendedView)
    BY <1>2 DEF ReadShort, TypeOK, Available
  <2>2. drained' = drained + Available
    BY <2>1, AppendedGood
  <2>3. drained' = written
    BY <2>2 DEF Available, TypeOK
  <2> QED
    BY <1>2, <2>1, <2>3, ExtendedGood DEF HandOver, HandedOutInOrder
<1>3. CASE ReadShort /\ ~ (Available > 0)
  <2>1. UNCHANGED buffer /\ HandOver(current)
    BY <1>3 DEF ReadShort
  <2>2. drained' = drained /\ drained = written
    BY <1>3, <2>1 DEF buffer, Available, TypeOK
  <2> QED
    BY <1>3, <2>1, <2>2 DEF HandOver, HandedOutInOrder
<1> QED
  BY <1>1, <1>2, <1>3

(* Only a drain and read_pipe_current touch what is current or was taken.      *)
LEMMA OrderKept ==
  ASSUME IInv, Next
  PROVE  HandedOutInOrder'
<1>1. CASE ReadFull \/ ReadShort
  BY <1>1, DrainInOrder
<1>2. CASE read_pipe_current
  BY <1>2 DEF read_pipe_current, HandedOutInOrder, buffer
<1>3. CASE UNCHANGED <<current, taken, drained>>
  BY <1>3 DEF IInv, HandedOutInOrder
<1> QED
  BY <1>1, <1>2, <1>3
     DEF Next, Reader, Client, child, buffer, thread, caller, Write, Exit, Poll,
         AcquireToDrain, ReadFull, ReadShort, ReadAgain, WakeBeforeClose, Close, WakeAfterClose,
         read_pipe_expect, Wake, read_pipe_current, cmake_cmd_build, process_wait, Spurious,
         TakePointer, TakeLength, Return

(* Whoever makes data current while the client may sleep signals it, or is     *)
(* still draining.                                                            *)
LEMMA NoSleepKept ==
  ASSUME IInv, Next
  PROVE  NoSleepOnData'
<1> USE DEF IInv, NoSleepOnData
<1>1. CASE ReadShort \/ ReadAgain \/ WakeBeforeClose \/ WakeAfterClose \/ Spurious
  BY <1>1 DEF ReadShort, ReadAgain, WakeBeforeClose, WakeAfterClose, Spurious, Signal
<1>2. CASE ReadFull
  BY <1>2 DEF ReadFull, thread
<1>3. CASE read_pipe_expect \/ Wake
  BY <1>3 DEF read_pipe_expect, Wake, ExpectReturns
<1>4. CASE read_pipe_current
  BY <1>4 DEF read_pipe_current
<1>5. CASE Poll \/ AcquireToDrain \/ Close
  BY <1>5 DEF Poll, AcquireToDrain, Close, caller
<1>6. CASE Write \/ Exit \/ TakePointer \/ TakeLength
  BY <1>6 DEF Write, Exit, TakePointer, TakeLength, caller, thread
<1>7. CASE cmake_cmd_build \/ process_wait \/ Return
  BY <1>7 DEF cmake_cmd_build, process_wait, Return
<1> QED
  BY <1>1, <1>2, <1>3, <1>4, <1>5, <1>6, <1>7 DEF Next, Reader, Client

(* The child does not come back, and the last drain before a hang-up takes all *)
(* that is left.                                                              *)
LEMMA HangupKept ==
  ASSUME IInv, Next
  PROVE  HangupIsTheEnd'
<1> USE DEF IInv, HangupIsTheEnd
<1>1. CASE ReadFull \/ ReadShort
  BY <1>1, DrainInOrder DEF ReadFull, ReadShort, AfterDrain, thread, child
<1>2. CASE ReadAgain
  BY <1>2 DEF ReadAgain, AfterDrain, buffer, child
<1>3. CASE Poll
  BY <1>3 DEF Poll, Available, TypeOK, buffer, child
<1>4. CASE Write \/ Exit
  BY <1>4 DEF Write, Exit, buffer, thread
<1>5. CASE AcquireToDrain \/ WakeBeforeClose \/ Close \/ WakeAfterClose
  BY <1>5 DEF AcquireToDrain, WakeBeforeClose, Close, WakeAfterClose, buffer, child
<1>6. CASE UNCHANGED <<child, drained, reader, hup>>
  BY <1>6 DEF child
<1> QED
  BY <1>1, <1>2, <1>3, <1>4, <1>5, <1>6
     DEF Next, Reader, Client, child, buffer, thread, caller, Write, Exit, Poll,
         AcquireToDrain, ReadFull, ReadShort, ReadAgain, WakeBeforeClose, Close, WakeAfterClose,
         read_pipe_expect, Wake, read_pipe_current, cmake_cmd_build, process_wait, Spurious,
         TakePointer, TakeLength, Return

(* A drain that is not followed by on_read is recorded as stalled.             *)
LEMMA CallbackKept ==
  ASSUME IInv, Next
  PROVE  CallbackTookAll'
<1> USE DEF IInv, CallbackTookAll
<1>1. CASE ReadShort
  BY <1>1, DrainInOrder DEF ReadShort
<1>2. CASE ReadFull
  BY <1>2 DEF ReadFull, thread
<1>3. CASE Poll \/ AcquireToDrain \/ WakeBeforeClose \/ Close \/ WakeAfterClose \/ ReadAgain
  BY <1>3 DEF Poll, AcquireToDrain, WakeBeforeClose, Close, WakeAfterClose, ReadAgain
<1>4. CASE read_pipe_current
  BY <1>4 DEF read_pipe_current
<1>5. CASE UNCHANGED <<client, stalled, reader, current>>
  BY <1>5
<1> QED
  BY <1>1, <1>2, <1>3, <1>4, <1>5
     DEF Next, Reader, Client, child, buffer, thread, caller, Write, Exit, Poll,
         AcquireToDrain, ReadFull, ReadShort, ReadAgain, WakeBeforeClose, Close, WakeAfterClose,
         read_pipe_expect, Wake, read_pipe_current, cmake_cmd_build, process_wait, Spurious,
         TakePointer, TakeLength, Return

(* The descriptor is closed once, and only Wake leaves with the mutex.         *)
LEMMA LockKept ==
  ASSUME IInv, Next
  PROVE  LockKeptAfterClose'
<1> USE DEF IInv, LockKeptAfterClose
<1>1. CASE Poll \/ AcquireToDrain \/ WakeBeforeClose \/ Close \/ WakeAfterClose
  BY <1>1 DEF Poll, AcquireToDrain, WakeBeforeClose, Close, WakeAfterClose, caller
<1>2. CASE ReadShort \/ ReadAgain
  BY <1>2 DEF ReadShort, ReadAgain, AfterDrain
<1>3. CASE Wake
  BY <1>3 DEF Wake, thread
<1>4. CASE UNCHANGED <<fdOpen, reader, held>>
  BY <1>4
<1> QED
  BY <1>1, <1>2, <1>3, <1>4
     DEF Next, Reader, Client, child, buffer, thread, caller, Write, Exit, Poll,
         AcquireToDrain, ReadFull, ReadShort, ReadAgain, WakeBeforeClose, Close, WakeAfterClose,
         read_pipe_expect, Wake, read_pipe_current, cmake_cmd_build, process_wait, Spurious,
         TakePointer, TakeLength, Return

(* While the client has the mutex for good, no drain changes the buffer.       *)
LEMMA ResultKept ==
  ASSUME IInv, Next
  PROVE  ResultIsOfTheEnd'
<1> USE DEF IInv, ResultIsOfTheEnd
<1>1. CASE ReadFull \/ ReadShort
  <2>1. ~ held /\ ~ held'
    BY <1>1 DEF ReadFull, ReadShort, LockKeptAfterClose, caller
  <2> QED
    BY <1>1, <2>1 DEF ReadFull, ReadShort, caller
<1>2. CASE read_pipe_expect \/ Wake
  BY <1>2 DEF read_pipe_expect, Wake, ExpectReturns, buffer
<1>3. CASE read_pipe_current \/ cmake_cmd_build \/ process_wait \/ Return
  BY <1>3 DEF read_pipe_current, cmake_cmd_build, process_wait, Return, buffer
<1>4. CASE TakePointer
  BY <1>4 DEF TakePointer, TypeOK, buffer
<1>5. CASE TakeLength
  BY <1>5 DEF TakeLength, TypeOK, buffer
<1>6. CASE UNCHANGED <<client, pc, held, result, buffer>>
  BY <1>6 DEF buffer
<1> QED
  BY <1>1, <1>2, <1>3, <1>4, <1>5, <1>6
     DEF Next, Reader, Client, child, buffer, thread, caller, Write, Exit, Poll,
         AcquireToDrain, ReadFull, ReadShort, ReadAgain, WakeBeforeClose, Close, WakeAfterClose,
         read_pipe_expect, Wake, read_pipe_current, cmake_cmd_build, process_wait, Spurious,
         TakePointer, TakeLength, Return

(* The invariant holds of every reachable state.                              *)
THEOREM Invariance == Spec => []IInv
<1>1. IInv /\ [Next]_vars => IInv'
  <2> SUFFICES ASSUME IInv, [Next]_vars PROVE IInv'
    OBVIOUS
  <2>1. CASE Next
    BY <2>1, TypeKept, OrderKept, NoSleepKept, HangupKept, CallbackKept, LockKept, ResultKept
       DEF IInv
  <2>2. CASE UNCHANGED vars
    BY <2>2 DEF vars, child, buffer, thread, caller, IInv, TypeOK, HandedOutInOrder, NoSleepOnData,
                HangupIsTheEnd, CallbackTookAll, LockKeptAfterClose, ResultIsOfTheEnd
  <2> QED
    BY <2>1, <2>2
<1> QED
  BY <1>1, InitIInv, PTL DEF Spec

(* Nothing is handed out twice or skipped (read_pipe_current, on_read).        *)
THEOREM OutputInOrder == Spec => []HandedOutInOrder
BY Invariance, PTL DEF IInv

(* A client never sleeps on data that is there (pipe_condition).              *)
THEOREM NoLostWakeup == Spec => []NoSleepOnData
BY Invariance, PTL DEF IInv

(* The callback has been given everything when the reader thread ends, unless  *)
(* a drain ended in EAGAIN.                                                   *)
THEOREM AllDelivered == Spec => []AllIsDelivered
<1>1. IInv => AllIsDelivered
  <2> SUFFICES ASSUME IInv, client = "on_read", reader = "done", ~stalled PROVE taken = written
    BY DEF AllIsDelivered
  <2>1. current = NoView
    BY DEF IInv, CallbackTookAll
  <2>2. drained = written
    BY DEF IInv, HangupIsTheEnd
  <2> QED
    BY <2>1, <2>2 DEF IInv, HandedOutInOrder
<1> QED
  BY <1>1, Invariance, PTL

(* What _execute_pipe returns after read_pipe_expect saw the end is all there  *)
(* was, in a block that lives.                                                *)
THEOREM ResultWhole == Spec => []EndedOutputIsWhole
<1>1. IInv => EndedOutputIsWhole
  <2> SUFFICES ASSUME IInv, client = "execute_pipe", pc = "done", held
               PROVE  result.len = written /\ result.block \notin freed
    BY DEF EndedOutputIsWhole
  <2>1. result.block = block.id /\ result.len = drained
    BY DEF IInv, ResultIsOfTheEnd
  <2>2. drained = written
    BY DEF IInv, LockKeptAfterClose, HangupIsTheEnd
  <2>3. block.id \notin freed
    BY DEF IInv, TypeOK
  <2> QED
    BY <2>1, <2>2, <2>3
<1> QED
  BY <1>1, Invariance, PTL
=============================================================================
