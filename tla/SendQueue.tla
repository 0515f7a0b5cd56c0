------------------------------- MODULE SendQueue -------------------------------
(***************************************************************************)
(* The send path of a session: GatewaySession, ClientSession, the login    *)
(* server's Session and ServerSession share it line by line.               *)
(*                                                                         *)
(* Send may be called from any thread.  It only POSTS a task to the        *)
(* session's strand, which runs its tasks one at a time in the order they  *)
(* were posted; the completion of an async_write is bound to the same      *)
(* strand, so it is one more task.  The network finishes a write whenever  *)
(* it likes, and writes nothing any more once a write has failed.          *)
(*                                                                         *)
(* A buffer lives as long as the queue holds it (the completion handler    *)
(* keeps the session, not the buffer).  Messages are numbered in the order *)
(* they were posted.  Left out: serialisation, the packets that are too    *)
(* large to send, and what ClientSession does about its account when a     *)
(* write fails.                                                            *)
(***************************************************************************)
EXTENDS Naturals, Sequences

CONSTANTS
  QueueMax,  \* SEND_QUEUE_MAX_SIZE; ServerSession has no limit
  MaxSends   \* bound: calls of Send in one behaviour

ASSUME SendQueueAssumption == QueueMax \in Nat /\ MaxSends \in Nat

VARIABLES
  posted,      \* calls of Send so far
  strand,      \* tasks posted to strand_, oldest first
  send_queue,  \* send_queue_
  writes,      \* messages of the async_writes the network works on
  wire,        \* what the network has written, oldest first
  broken       \* the network writes nothing any more

vars == <<posted, strand, send_queue, writes, wire, broken>>

Msgs == 1..MaxSends

SendTasks == [kind : {"send"}, msg : Msgs]
WrittenTasks == [kind : {"written"}, msg : Msgs, ok : BOOLEAN]
Tasks == SendTasks \cup WrittenTasks

NothingSent ==
  /\ posted = 0
  /\ strand = <<>>
  /\ send_queue = <<>>
  /\ writes = {}
  /\ wire = <<>>

Init == NothingSent /\ broken = FALSE

-------------------------------------------------------------------------------

Send ==
  /\ posted < MaxSends
  /\ posted' = posted + 1
  /\ strand' = Append(strand, [kind |-> "send", msg |-> posted + 1])
  /\ UNCHANGED <<send_queue, writes, wire, broken>>

\* async_write of the buffer at the head of the queue.
DoWrite(queue) == writes' = writes \cup {Head(queue)}

Bug_OffByOne == Len(send_queue) > QueueMax + 1
Full == Len(send_queue) > QueueMax

Bug_NeverInProgress == FALSE
WriteInProgress == send_queue # <<>>

\* The task Send posted: dropped when the queue is full, else appended; it
\* starts a write if none is under way.
RunSend ==
  /\ strand # <<>> /\ Head(strand).kind = "send"
  /\ strand' = Tail(strand)
  /\ \/ Full /\ UNCHANGED <<send_queue, writes>>
     \/ /\ ~Full
        /\ send_queue' = Append(send_queue, Head(strand).msg)
        /\ IF WriteInProgress THEN UNCHANGED writes ELSE DoWrite(send_queue')
  /\ UNCHANGED <<posted, wire, broken>>

\* The network finishes a write, with success or for good without: the
\* completion handler is posted to the strand.
Complete(m, ok) ==
  /\ writes' = writes \ {m}
  /\ strand' = Append(strand, [kind |-> "written", msg |-> m, ok |-> ok])
  /\ wire' = IF ok THEN Append(wire, m) ELSE wire
  /\ broken' = (broken \/ ~ok)
  /\ UNCHANGED <<posted, send_queue>>

WriteCompletes ==
  \E m \in writes, ok \in BOOLEAN : (ok => ~broken) /\ Complete(m, ok)

Bug_PopBack(queue) == SubSeq(queue, 1, Len(queue) - 1)
Pop(queue) == Tail(queue)

Bug_NoChaining(queue) == UNCHANGED writes
WriteNext(queue) == IF queue # <<>> THEN DoWrite(queue) ELSE UNCHANGED writes

\* The completion handler: the head is done and the next one is written, or
\* everything that waits is dropped.
RunWritten ==
  /\ strand # <<>> /\ Head(strand).kind = "written"
  /\ strand' = Tail(strand)
  /\ \/ /\ Head(strand).ok
        /\ send_queue' = Pop(send_queue)
        /\ WriteNext(send_queue')
     \/ /\ ~Head(strand).ok
        /\ send_queue' = <<>>
        /\ UNCHANGED writes
  /\ UNCHANGED <<posted, wire, broken>>

RunTask == RunSend \/ RunWritten

Next == Send \/ RunTask \/ WriteCompletes

Spec == Init /\ [][Next]_vars

\* The io_context's threads serve the strand.  A write ends, well or badly, as
\* long as the peer reads or its connection breaks; nobody has to call Send.
FairSpec == Spec /\ WF_vars(RunTask) /\ WF_vars(WriteCompletes)

-------------------------------------------------------------------------------
(* Properties.                                                             *)

\* Every variable keeps its type.
TypeOK ==
  /\ posted \in 0..MaxSends
  /\ strand \in Seq(Tasks)
  /\ send_queue \in Seq(Msgs)
  /\ writes \subseteq Msgs
  /\ wire \in Seq(Msgs)
  /\ broken \in BOOLEAN

Completions == {i \in DOMAIN strand : strand[i].kind = "written"}

\* There is one write, from its start to its completion handler, exactly while
\* the queue is not empty, and it is a write of the head.  So no two writes
\* mix on the socket, the buffer being written is alive, and a message
\* that waits is never left without a write to wait for (write_in_progress).
SingleWrite ==
  /\ writes \cup {strand[i].msg : i \in Completions} =
       (IF send_queue = <<>> THEN {} ELSE {Head(send_queue)})
  /\ writes = {} \/ Completions = {}
  /\ \A i, j \in Completions : i = j

\* The limit is tested before the append with ">": one more than
\* SEND_QUEUE_MAX_SIZE may wait, and never two.
QueueBounded == Len(send_queue) <= QueueMax + 1

\* A message that was taken into the queue is written or the connection fails.
Drained ==
  \A m \in Msgs :
    (\E i \in DOMAIN send_queue : send_queue[i] = m)
      ~> broken \/ \E i \in DOMAIN wire : wire[i] = m

\* A message counts as sent when the network has written it, although it
\* stays in the queue until its completion handler runs.
Waiting ==
  IF \E i \in Completions : strand[i].ok THEN Tail(send_queue) ELSE send_queue

Channel == INSTANCE FifoChannel WITH
  pending <- Waiting, delivered <- wire, up <- ~broken

\* The send path is a FIFO channel: nothing is written twice, out of order, or
\* lost while the connection lasts.
IsFifoChannel == Channel!Spec

===============================================================================
