---------------------------- MODULE SendQueue_proofs ----------------------------
(***************************************************************************)
(* Theorems about SendQueue, for every limit of the queue and any number   *)
(* of calls of Send: types and bound, a single write at a time, and that   *)
(* the send path implements FifoChannel.                                   *)
(***************************************************************************)
EXTENDS SendQueue, SequenceTheorems, TLAPS

Inv == TypeOK /\ QueueBounded /\ SingleWrite

-------------------------------------------------------------------------------
(* What each action finds and leaves, as far as the strand goes.           *)

\* A task appended at the strand's end keeps the completions before it.
LEMMA AppendedTask ==
  ASSUME TypeOK, NEW t \in Tasks, strand' = Append(strand, t)
  PROVE  /\ strand' \in Seq(Tasks)
         /\ DOMAIN strand' = DOMAIN strand \cup {Len(strand) + 1}
         /\ \A i \in DOMAIN strand : strand'[i] = strand[i]
         /\ strand'[Len(strand) + 1] = t
         /\ Len(strand) + 1 \notin DOMAIN strand
BY AppendProperties, LenProperties DEF TypeOK

\* A task taken from the strand's head moves the others up.
LEMMA TakenTask ==
  ASSUME TypeOK, strand # <<>>, strand' = Tail(strand)
  PROVE  /\ Head(strand) \in Tasks
         /\ Head(strand) = strand[1]
         /\ 1 \in DOMAIN strand
         /\ strand' \in Seq(Tasks)
         /\ \A i \in DOMAIN strand' : i + 1 \in DOMAIN strand /\ strand'[i] = strand[i + 1] /\ i \in Nat
         /\ \A i \in DOMAIN strand : i # 1 =>
              i - 1 \in DOMAIN strand' /\ strand'[i - 1] = strand[i]
BY HeadTailProperties, LenProperties DEF TypeOK

\* Where a completion stands at the head, it is the only one, no other write
\* is under way, and it is the completion of the queue's head.
LEMMA HeadCompletion ==
  ASSUME Inv, strand # <<>>, Head(strand).kind = "written"
  PROVE  /\ Completions = {1}
         /\ writes = {}
         /\ send_queue # <<>>
         /\ Head(strand).msg = Head(send_queue)
<1>1. Head(strand) = strand[1] /\ 1 \in DOMAIN strand
  BY HeadTailProperties, LenProperties DEF Inv, TypeOK
<1>2. 1 \in Completions
  BY <1>1 DEF Completions
<1>3. Completions = {1} /\ writes = {}
  BY <1>2 DEF Inv, SingleWrite
<1>4. {strand[1].msg} = IF send_queue = <<>> THEN {} ELSE {Head(send_queue)}
  BY <1>3 DEF Inv, SingleWrite
<1>5. QED
  BY <1>1, <1>3, <1>4

-------------------------------------------------------------------------------
(* The invariant is inductive, action by action.                           *)

LEMMA SendKeepsInv == Inv /\ Send => Inv'
<1> SUFFICES ASSUME Inv, Send PROVE Inv'
  OBVIOUS
<1> DEFINE t == [kind |-> "send", msg |-> posted + 1]
<1>1. posted + 1 \in 1..MaxSends /\ posted' = posted + 1
  BY SendQueueAssumption DEF Inv, TypeOK, Send
<1>2. t \in Tasks /\ t.kind = "send"
  BY <1>1 DEF Tasks, SendTasks, Msgs
<1>3. strand' = Append(strand, t) /\ UNCHANGED <<send_queue, writes, wire, broken>>
  BY DEF Send
<1> HIDE DEF t
<1>4. /\ strand' \in Seq(Tasks)
      /\ DOMAIN strand' = DOMAIN strand \cup {Len(strand) + 1}
      /\ \A i \in DOMAIN strand : strand'[i] = strand[i]
      /\ strand'[Len(strand) + 1] = t
      /\ Len(strand) + 1 \notin DOMAIN strand
  BY <1>2, <1>3, AppendedTask DEF Inv
<1>5. TypeOK' /\ QueueBounded'
  BY <1>1, <1>3, <1>4, SendQueueAssumption DEF Inv, TypeOK, QueueBounded
<1>6. Completions' = Completions
  BY <1>2, <1>4 DEF Completions
<1>7. {strand'[i].msg : i \in Completions'} = {strand[i].msg : i \in Completions}
  BY <1>4, <1>6 DEF Completions
<1>8. SingleWrite'
  BY <1>3, <1>6, <1>7 DEF Inv, SingleWrite
<1>9. QED
  BY <1>5, <1>8 DEF Inv

LEMMA RunSendKeepsInv == Inv /\ RunSend => Inv'
<1> SUFFICES ASSUME Inv, RunSend PROVE Inv'
  OBVIOUS
<1>1. strand # <<>> /\ strand' = Tail(strand) /\ UNCHANGED <<posted, wire, broken>>
  BY DEF RunSend
<1>2. /\ Head(strand) \in Tasks
      /\ Head(strand) = strand[1]
      /\ 1 \in DOMAIN strand
      /\ strand' \in Seq(Tasks)
      /\ \A i \in DOMAIN strand' : i + 1 \in DOMAIN strand /\ strand'[i] = strand[i + 1] /\ i \in Nat
      /\ \A i \in DOMAIN strand : i # 1 =>
           i - 1 \in DOMAIN strand' /\ strand'[i - 1] = strand[i]
  BY <1>1, TakenTask DEF Inv
<1>3. strand[1].kind = "send" /\ Head(strand).msg \in Msgs
  BY <1>2 DEF RunSend, Tasks, SendTasks, WrittenTasks
<1>4. /\ \A i \in Completions' : i + 1 \in Completions /\ strand'[i] = strand[i + 1] /\ i \in Nat
      /\ \A i \in Completions : i - 1 \in Completions' /\ strand'[i - 1] = strand[i]
  BY <1>2, <1>3 DEF Completions
<1>5. {strand'[i].msg : i \in Completions'} = {strand[i].msg : i \in Completions}
  BY <1>4
<1>6. /\ \A i, j \in Completions' : i = j
      /\ Completions = {} => Completions' = {}
  BY <1>4 DEF Inv, SingleWrite
<1>7. CASE Full
  <2>1. UNCHANGED <<send_queue, writes>>
    BY <1>7 DEF RunSend
  <2>2. QED
    BY <1>1, <1>2, <1>5, <1>6, <2>1 DEF Inv, TypeOK, QueueBounded, SingleWrite
<1>8. CASE ~Full
  <2>1. send_queue' = Append(send_queue, Head(strand).msg)
    BY <1>8 DEF RunSend
  <2>2. /\ send_queue' \in Seq(Msgs)
        /\ send_queue' # <<>>
        /\ Len(send_queue') = Len(send_queue) + 1
        /\ send_queue # <<>> => Head(send_queue') = Head(send_queue)
        /\ Head(send_queue') \in Msgs
    BY <1>3, <2>1, AppendProperties, HeadTailProperties, LenProperties DEF Inv, TypeOK
  <2>3. QueueBounded'
    BY <1>8, <2>2, LenProperties, SendQueueAssumption DEF Inv, TypeOK, QueueBounded, Full
  <2>4. CASE WriteInProgress
    <3>1. UNCHANGED writes
      BY <1>8, <2>4 DEF RunSend
    <3>2. SingleWrite'
      BY <1>5, <1>6, <2>2, <2>4, <3>1 DEF Inv, SingleWrite, WriteInProgress
    <3>3. QED
      BY <1>1, <1>2, <2>2, <2>3, <3>1, <3>2 DEF Inv, TypeOK
  <2>5. CASE ~WriteInProgress
    <3>1. writes' = writes \cup {Head(send_queue')}
      BY <1>8, <2>5 DEF RunSend, DoWrite
    <3>2. writes = {} /\ Completions = {} /\ {strand[i].msg : i \in Completions} = {}
      BY <2>5 DEF Inv, SingleWrite, WriteInProgress
    <3>3. SingleWrite'
      BY <1>5, <1>6, <2>2, <3>1, <3>2 DEF SingleWrite
    <3>4. QED
      BY <1>1, <1>2, <2>2, <2>3, <3>1, <3>3 DEF Inv, TypeOK
  <2>6. QED
    BY <2>4, <2>5
<1>9. QED
  BY <1>7, <1>8

LEMMA WriteCompletesKeepsInv ==
  ASSUME Inv, NEW m \in writes, NEW ok \in BOOLEAN, Complete(m, ok)
  PROVE  Inv'
<1> DEFINE t == [kind |-> "written", msg |-> m, ok |-> ok]
<1>1. m \in Msgs /\ writes # {}
  BY DEF Inv, TypeOK
<1>2. t \in Tasks /\ t.kind = "written" /\ t.msg = m
  BY <1>1 DEF Tasks, WrittenTasks
<1>3. strand' = Append(strand, t) /\ writes' = writes \ {m} /\ UNCHANGED <<posted, send_queue>>
  BY DEF Complete
<1> HIDE DEF t
<1>4. /\ strand' \in Seq(Tasks)
      /\ DOMAIN strand' = DOMAIN strand \cup {Len(strand) + 1}
      /\ \A i \in DOMAIN strand : strand'[i] = strand[i]
      /\ strand'[Len(strand) + 1] = t
      /\ Len(strand) + 1 \notin DOMAIN strand
  BY <1>2, <1>3, AppendedTask DEF Inv
<1>5. Completions = {} /\ send_queue # <<>> /\ writes = {Head(send_queue)} /\ m = Head(send_queue)
  BY DEF Inv, SingleWrite
<1>6. Completions' = {Len(strand) + 1}
  BY <1>2, <1>4, <1>5 DEF Completions
<1>7. SingleWrite'
  BY <1>2, <1>3, <1>4, <1>5, <1>6 DEF SingleWrite
<1>8. wire' \in Seq(Msgs)
  BY <1>1, AppendProperties DEF Inv, TypeOK, Complete
<1>9. broken' \in BOOLEAN
  BY DEF Complete
<1>10. QED
  BY <1>1, <1>3, <1>4, <1>7, <1>8, <1>9 DEF Inv, TypeOK, QueueBounded

LEMMA RunWrittenKeepsInv == Inv /\ RunWritten => Inv'
<1> SUFFICES ASSUME Inv, RunWritten PROVE Inv'
  OBVIOUS
<1>1. /\ strand # <<>> /\ Head(strand).kind = "written"
      /\ strand' = Tail(strand)
      /\ UNCHANGED <<posted, wire, broken>>
  BY DEF RunWritten
<1>2. /\ strand' \in Seq(Tasks)
      /\ \A i \in DOMAIN strand' : i + 1 \in DOMAIN strand /\ strand'[i] = strand[i + 1] /\ i \in Nat
      /\ \A i \in DOMAIN strand' : i # 0
  BY <1>1, TakenTask, LenProperties DEF Inv
<1>3. /\ Completions = {1} /\ writes = {}
      /\ send_queue # <<>>
  BY <1>1, HeadCompletion
<1>4. Completions' = {}
  BY <1>2, <1>3 DEF Completions
<1>5. {strand'[i].msg : i \in Completions'} = {}
  BY <1>4
<1>6. CASE Head(strand).ok
  <2>1. send_queue' = Tail(send_queue) /\ WriteNext(send_queue')
    BY <1>6 DEF RunWritten, Pop
  <2>2. send_queue' \in Seq(Msgs) /\ Len(send_queue') = Len(send_queue) - 1
    BY <1>3, <2>1, HeadTailProperties DEF Inv, TypeOK
  <2>3. writes' = IF send_queue' = <<>> THEN {} ELSE {Head(send_queue')}
    BY <1>3, <2>1 DEF WriteNext, DoWrite
  <2>4. writes' \subseteq Msgs
    BY <2>2, <2>3, HeadTailProperties
  <2>5. QueueBounded'
    BY <2>2, LenProperties, SendQueueAssumption DEF Inv, TypeOK, QueueBounded
  <2>6. SingleWrite'
    BY <1>4, <1>5, <2>3 DEF SingleWrite
  <2>7. QED
    BY <1>1, <1>2, <2>2, <2>4, <2>5, <2>6 DEF Inv, TypeOK
<1>7. CASE ~Head(strand).ok
  <2>1. send_queue' = <<>> /\ UNCHANGED writes
    BY <1>7 DEF RunWritten
  <2>2. send_queue' \in Seq(Msgs) /\ Len(send_queue') = 0
    BY <2>1, EmptySeq
  <2>3. SingleWrite'
    BY <1>3, <1>4, <1>5, <2>1 DEF SingleWrite
  <2>4. QED
    BY <1>1, <1>2, <2>1, <2>2, <2>3, SendQueueAssumption DEF Inv, TypeOK, QueueBounded
<1>8. QED
  BY <1>6, <1>7

LEMMA StepKeepsInv == Inv /\ [Next]_vars => Inv'
<1> SUFFICES ASSUME Inv, [Next]_vars PROVE Inv'
  OBVIOUS
<1>1. CASE Send
  BY <1>1, SendKeepsInv
<1>2. CASE RunTask
  BY <1>2, RunSendKeepsInv, RunWrittenKeepsInv DEF RunTask
<1>3. CASE WriteCompletes
  BY <1>3, WriteCompletesKeepsInv DEF WriteCompletes
<1>4. CASE UNCHANGED vars
  BY <1>4 DEF vars, Inv, TypeOK, QueueBounded, SingleWrite, Completions
<1>5. QED
  BY <1>1, <1>2, <1>3, <1>4 DEF Next

LEMMA InitMakesInv == Init => Inv
<1> SUFFICES ASSUME Init PROVE Inv
  OBVIOUS
<1>1. Completions = {} /\ {strand[i].msg : i \in Completions} = {}
  BY DEF Init, NothingSent, Completions
<1>2. TypeOK
  <2>1. posted \in 0..MaxSends
    BY SendQueueAssumption DEF Init, NothingSent
  <2>2. strand \in Seq(Tasks) /\ send_queue \in Seq(Msgs) /\ wire \in Seq(Msgs)
    BY EmptySeq DEF Init, NothingSent
  <2>3. QED
    BY <2>1, <2>2 DEF Init, NothingSent, TypeOK
<1>3. QueueBounded
  BY SendQueueAssumption DEF Init, NothingSent, QueueBounded
<1>4. SingleWrite
  BY <1>1 DEF Init, NothingSent, SingleWrite
<1>5. QED
  BY <1>2, <1>3, <1>4 DEF Inv

LEMMA InvHolds == Spec => []Inv
<1>1. QED
  BY InitMakesInv, StepKeepsInv, PTL DEF Spec

\* Every variable keeps its type.
THEOREM TypeCorrect == Spec => []TypeOK
<1>1. Inv => TypeOK
  BY DEF Inv
<1>2. QED
  BY <1>1, InvHolds, PTL

\* The queue never holds more than one message above SEND_QUEUE_MAX_SIZE
\* (the test with ">" in Send).
THEOREM QueueStaysBounded == Spec => []QueueBounded
<1>1. Inv => QueueBounded
  BY DEF Inv
<1>2. QED
  BY <1>1, InvHolds, PTL

\* Exactly one async_write is under way while the queue is not empty, none
\* otherwise, and it is a write of the queue's head (Send and DoWrite).
THEOREM OneWriteAtATime == Spec => []SingleWrite
<1>1. Inv => SingleWrite
  BY DEF Inv
<1>2. QED
  BY <1>1, InvHolds, PTL

-------------------------------------------------------------------------------
(* The send path implements FifoChannel.                                   *)

\* A failed completion in the strand means that the network has given up.
FailureKnown == \A i \in Completions : ~strand[i].ok => broken

Succeeded == \E i \in Completions : strand[i].ok

LEMMA FailureKnownStep == Inv /\ FailureKnown /\ [Next]_vars => FailureKnown'
<1> SUFFICES ASSUME Inv, FailureKnown, [Next]_vars PROVE FailureKnown'
  OBVIOUS
<1>1. CASE Send
  <2>1. strand' = Append(strand, [kind |-> "send", msg |-> posted + 1]) /\ broken' = broken
    BY <1>1 DEF Send
  <2>2. \A i \in Completions' : i \in Completions /\ strand'[i] = strand[i]
    BY <2>1, AppendProperties, LenProperties DEF Inv, TypeOK, Completions
  <2>3. QED
    BY <2>1, <2>2 DEF FailureKnown
<1>2. CASE RunTask
  <2>1. strand # <<>> /\ strand' = Tail(strand) /\ broken' = broken
    BY <1>2 DEF RunTask, RunSend, RunWritten
  <2>2. \A i \in Completions' : i + 1 \in Completions /\ strand'[i] = strand[i + 1]
    BY <2>1, TakenTask DEF Inv, Completions
  <2>3. QED
    BY <2>1, <2>2 DEF FailureKnown
<1>3. CASE WriteCompletes
  <2>1. PICK m \in writes, ok \in BOOLEAN : Complete(m, ok)
    BY <1>3 DEF WriteCompletes
  <2>2. /\ strand' = Append(strand, [kind |-> "written", msg |-> m, ok |-> ok])
        /\ broken' = (broken \/ ~ok)
    BY <2>1 DEF Complete
  <2>3. \A i \in Completions' :
          (i \in Completions /\ strand'[i] = strand[i]) \/ strand'[i].ok = ok
    BY <2>2, AppendProperties, LenProperties DEF Inv, TypeOK, Completions
  <2>4. QED
    BY <2>2, <2>3 DEF FailureKnown
<1>4. CASE UNCHANGED vars
  BY <1>4 DEF vars, FailureKnown, Completions
<1>5. QED
  BY <1>1, <1>2, <1>3, <1>4 DEF Next

\* Sending posts a task and changes nothing the channel knows.
LEMMA SendStutters == Inv /\ Send => UNCHANGED Channel!vars
<1> SUFFICES ASSUME Inv, Send PROVE UNCHANGED Channel!vars
  OBVIOUS
<1>1. strand' = Append(strand, [kind |-> "send", msg |-> posted + 1])
  BY DEF Send
<1>2. Completions' = Completions /\ \A i \in Completions : strand'[i] = strand[i]
  BY <1>1, AppendProperties, LenProperties DEF Inv, TypeOK, Completions
<1>3. Waiting' = Waiting
  BY <1>2 DEF Send, Waiting
<1>4. QED
  BY <1>3 DEF Send, Channel!vars

\* Taking a message into the queue is the channel's Accept, also while the
\* head has been written and waits for its completion handler.
LEMMA RunSendAccepts == Inv /\ RunSend => [Channel!Next]_(Channel!vars)
<1> SUFFICES ASSUME Inv, RunSend PROVE [Channel!Next]_(Channel!vars)
  OBVIOUS
<1>1. strand # <<>> /\ strand' = Tail(strand) /\ UNCHANGED <<wire, broken>>
  BY DEF RunSend
<1>2. Head(strand) = strand[1] /\ strand[1].kind = "send" /\ Head(strand).msg \in Msgs
  BY <1>1, TakenTask DEF Inv, RunSend, Tasks, SendTasks, WrittenTasks
<1>3. /\ \A i \in Completions' : i + 1 \in Completions /\ strand'[i] = strand[i + 1]
      /\ \A i \in Completions : i - 1 \in Completions' /\ strand'[i - 1] = strand[i]
  BY <1>1, <1>2, TakenTask DEF Inv, Completions
<1>4. Succeeded' <=> Succeeded
  BY <1>3 DEF Succeeded
<1>5. CASE Full
  <2>1. send_queue' = send_queue
    BY <1>5 DEF RunSend
  <2>2. Waiting' = Waiting
    BY <1>4, <2>1 DEF Waiting, Succeeded
  <2>3. QED
    BY <1>1, <2>2 DEF Channel!vars
<1>6. CASE ~Full
  <2>1. send_queue' = Append(send_queue, Head(strand).msg)
    BY <1>6 DEF RunSend
  <2>2. CASE Succeeded
    <3>1. send_queue # <<>>
      BY <2>2 DEF Succeeded, Inv, SingleWrite
    <3>2. Tail(send_queue') = Append(Tail(send_queue), Head(strand).msg)
      BY <1>2, <2>1, <3>1 DEF Inv, TypeOK
    <3>3. Waiting' = Append(Waiting, Head(strand).msg)
      BY <1>4, <2>2, <3>2 DEF Waiting, Succeeded
    <3>4. QED
      BY <1>1, <1>2, <3>3 DEF Channel!Next, Channel!Accept
  <2>3. CASE ~Succeeded
    <3>1. Waiting' = Append(Waiting, Head(strand).msg)
      BY <1>4, <2>1, <2>3 DEF Waiting, Succeeded
    <3>2. QED
      BY <1>1, <1>2, <3>1 DEF Channel!Next, Channel!Accept
  <2>4. QED
    BY <2>2, <2>3
<1>7. QED
  BY <1>5, <1>6

\* The network's success is the channel's Deliver, its failure Fail.
LEMMA CompletionDelivers ==
  ASSUME Inv, NEW m \in writes, NEW ok \in BOOLEAN, ok => ~broken, Complete(m, ok)
  PROVE  Channel!Next
<1> DEFINE t == [kind |-> "written", msg |-> m, ok |-> ok]
<1>1. m \in Msgs /\ Completions = {} /\ send_queue # <<>> /\ m = Head(send_queue)
  BY DEF Inv, TypeOK, SingleWrite
<1>2. strand' = Append(strand, t) /\ send_queue' = send_queue
  BY DEF Complete
<1>3. t \in Tasks /\ t.kind = "written" /\ t.ok = ok
  BY <1>1 DEF Tasks, WrittenTasks
<1> HIDE DEF t
<1>4. Completions' = {Len(strand) + 1} /\ strand'[Len(strand) + 1] = t
  BY <1>1, <1>2, <1>3, AppendedTask DEF Inv, Completions
<1>5. Waiting = send_queue
  BY <1>1 DEF Waiting
<1>6. CASE ok
  <2>1. Waiting' = Tail(Waiting)
    BY <1>2, <1>3, <1>4, <1>5, <1>6 DEF Waiting
  <2>2. wire' = Append(wire, Head(Waiting)) /\ ~broken /\ broken' = broken
    BY <1>1, <1>5, <1>6 DEF Complete, Inv, TypeOK
  <2>3. Channel!Deliver
    BY <1>1, <1>5, <2>1, <2>2 DEF Channel!Deliver
  <2>4. QED
    BY <2>3 DEF Channel!Next
<1>7. CASE ~ok
  <2>1. Waiting' = Waiting
    BY <1>2, <1>3, <1>4, <1>5, <1>7 DEF Waiting
  <2>2. wire' = wire /\ broken' = TRUE
    BY <1>7 DEF Complete
  <2>3. Channel!Fail
    BY <2>1, <2>2 DEF Channel!Fail
  <2>4. QED
    BY <2>3 DEF Channel!Next
<1>8. QED
  BY <1>6, <1>7

\* The completion handler of a success changes nothing the channel knows; that
\* of a failure loses what waits.
LEMMA RunWrittenMaps ==
  Inv /\ FailureKnown /\ RunWritten => [Channel!Next]_(Channel!vars)
<1> SUFFICES ASSUME Inv, FailureKnown, RunWritten PROVE [Channel!Next]_(Channel!vars)
  OBVIOUS
<1>1. /\ strand # <<>> /\ Head(strand).kind = "written" /\ strand' = Tail(strand)
      /\ UNCHANGED <<wire, broken>>
  BY DEF RunWritten
<1>2. Completions = {1} /\ send_queue # <<>> /\ Head(strand) = strand[1]
  BY <1>1, HeadCompletion, TakenTask DEF Inv
<1>3. Completions' = {}
  BY <1>1, <1>2, TakenTask, LenProperties DEF Inv, Completions
<1>4. Waiting' = send_queue'
  BY <1>3 DEF Waiting
<1>5. CASE Head(strand).ok
  <2>1. Waiting = Tail(send_queue)
    BY <1>2, <1>5 DEF Waiting
  <2>2. send_queue' = Tail(send_queue)
    BY <1>5 DEF RunWritten, Pop
  <2>3. QED
    BY <1>1, <1>4, <2>1, <2>2 DEF Channel!vars
<1>6. CASE ~Head(strand).ok
  <2>1. broken
    BY <1>2, <1>6 DEF FailureKnown
  <2>2. send_queue' = <<>>
    BY <1>6 DEF RunWritten
  <2>3. Channel!Lose
    BY <1>1, <1>4, <2>1, <2>2 DEF Channel!Lose
  <2>4. QED
    BY <2>3 DEF Channel!Next
<1>7. QED
  BY <1>5, <1>6

LEMMA StepMaps == Inv /\ FailureKnown /\ [Next]_vars => [Channel!Next]_(Channel!vars)
<1> SUFFICES ASSUME Inv, FailureKnown, [Next]_vars PROVE [Channel!Next]_(Channel!vars)
  OBVIOUS
<1>1. CASE Send
  BY <1>1, SendStutters
<1>2. CASE RunTask
  BY <1>2, RunSendAccepts, RunWrittenMaps DEF RunTask
<1>3. CASE WriteCompletes
  BY <1>3, CompletionDelivers DEF WriteCompletes
<1>4. CASE UNCHANGED vars
  BY <1>4 DEF vars, Waiting, Completions, Channel!vars
<1>5. QED
  BY <1>1, <1>2, <1>3, <1>4 DEF Next

\* Send, DoWrite and the completion handler together are a FIFO channel:
\* messages go out once each, in the order they were taken into the queue, and
\* none is lost before a write fails.
THEOREM SendPathIsFifo == Spec => IsFifoChannel
<1>1. Init => Channel!Init /\ FailureKnown
  BY DEF Init, NothingSent, Channel!Init, Waiting, Completions, FailureKnown
<1>2. Inv /\ FailureKnown /\ [Next]_vars => FailureKnown'
  BY FailureKnownStep
<1>3. Inv /\ FailureKnown /\ [Next]_vars => [Channel!Next]_(Channel!vars)
  BY StepMaps
<1>4. QED
  BY <1>1, <1>2, <1>3, InvHolds, PTL DEF Spec, IsFifoChannel, Channel!Spec

===============================================================================
