------------------------- MODULE S2SConnection_proofs -------------------------
(***************************************************************************)
(* Theorems about S2SConnection, for any number of packets and outages:    *)
(* the connection never falls asleep, no packet waits for a write that     *)
(* nobody started, and types.                                              *)
(***************************************************************************)
EXTENDS S2SConnection, SequenceTheorems, TLAPS

-------------------------------------------------------------------------------
(* Never asleep.  AlwaysTrying is inductive as it stands: every handler    *)
(* that ends one of the four activities starts another.                    *)

\* The handlers of connect, timer and read, and the second half of a retry.
LEMMA ConnectingTries ==
  ASSUME AlwaysTrying, DoConnect \/ Connecting \/ OnReadError \/ CloseAndWait \/ ConnectFinishes
  PROVE  AlwaysTrying'
PROOF
  <1>1. CASE DoConnect
    BY <1>1 DEF DoConnect, AlwaysTrying
  <1>2. CASE OnConnected
    BY <1>2 DEF OnConnected, AlwaysTrying
  <1>3. CASE OnConnectFailed
    BY <1>3 DEF OnConnectFailed, RetryConnect, ClearLater, AlwaysTrying
  <1>4. CASE OnReadError
    BY <1>4 DEF OnReadError, ClearLater, AlwaysTrying
  <1>5. CASE CloseAndWait
    BY <1>5 DEF CloseAndWait, Armed, AlwaysTrying
  <1>6. CASE ConnectFinishes
    BY <1>6 DEF ConnectFinishes, AlwaysTrying
  <1> QED
    BY <1>1, <1>2, <1>3, <1>4, <1>5, <1>6 DEF Connecting

\* Sending, the strand and the network.
LEMMA SendingTries ==
  ASSUME AlwaysTrying,
         RunStrand \/ NetworkWrites \/ PickUp \/ TestSocket \/ PostPacket \/ PeerBreaks \/ PeerStarts
  PROVE  AlwaysTrying'
PROOF
  <1>1. CASE OnWriteFailed
    BY <1>1 DEF OnWriteFailed, ClearLater, AlwaysTrying
  <1>2. CASE RunStrand /\ ~OnWriteFailed
    BY <1>2 DEF RunStrand, RunClear, OnWritten, link, handlers, AlwaysTrying
  <1>3. CASE NetworkWrites \/ PickUp \/ TestSocket \/ PostPacket \/ PeerStarts
    BY <1>3 DEF NetworkWrites, PickUp, TestSocket, PostPacket, PeerStarts, handlers, AlwaysTrying
  <1>4. CASE PeerBreaks
    BY <1>4 DEF PeerBreaks, AlwaysTrying
  <1> QED
    BY <1>1, <1>2, <1>3, <1>4

\* A connection is always read from, being connected, or about to be retried.
THEOREM NeverAsleep == S2SSpec => []AlwaysTrying
PROOF
  <1>1. S2SInit => AlwaysTrying
    BY DEF S2SInit, AlwaysTrying
  <1>2. AlwaysTrying /\ [S2SNext]_all => AlwaysTrying'
    <2> SUFFICES ASSUME AlwaysTrying, [S2SNext]_all PROVE AlwaysTrying'
      OBVIOUS
    <2>1. CASE Works
      BY <2>1, ConnectingTries, SendingTries DEF Works
    <2>2. CASE PopFromEmpty
      BY <2>2 DEF PopFromEmpty, link, handlers, AlwaysTrying
    <2>3. CASE UNCHANGED all
      BY <2>3 DEF all, link, handlers, AlwaysTrying
    <2> QED
      BY <2>1, <2>2, <2>3 DEF S2SNext
  <1> QED
    BY <1>1, <1>2, PTL DEF S2SSpec

-------------------------------------------------------------------------------
(* Types.                                                                  *)

AllTasks == Tasks \cup ClearTasks

LEMMA TaskKinds ==
  ASSUME NEW t \in AllTasks
  PROVE  /\ t.kind \in {"send", "written", "clear"}
         /\ t.kind \in {"send", "written"} => t.msg \in Msgs
         /\ t.kind = "written" => t.ok \in BOOLEAN
BY DEF AllTasks, Tasks, SendTasks, WrittenTasks, ClearTasks

\* The variables of the sending.
SendTypes ==
  /\ posted \in 0..MaxSends
  /\ strand \in Seq(AllTasks)
  /\ send_queue \in Seq(Msgs)
  /\ written \subseteq writes /\ writes \subseteq Msgs
  /\ wire = <<>>
  /\ sending \in 0..MaxSends

\* The variables of the connection: each has a few values.
LinkTypes ==
  /\ retrying \subseteq {"connect", "read", "write"}
  /\ class \in {"GameConnection", "WorldConnection"}
  /\ socket \in {"closed", "connecting", "open"}
  /\ connect \in {"none", "pending", "ok", "failed"}
  /\ read \in {"none", "pending", "failed"}
  /\ {broken, connected, timer, peer, crashed} \subseteq BOOLEAN
  /\ outages \in 0..MaxOutages

LEMMA TypesAre == S2STypeOK <=> SendTypes /\ LinkTypes
  BY DEF S2STypeOK, SendTypes, LinkTypes, AllTasks

-------------------------------------------------------------------------------
(* A packet that waits has a write to wait for.                            *)

\* A posted task stands behind the others.
LEMMA PostedTask ==
  ASSUME strand \in Seq(AllTasks), NEW t \in AllTasks, strand' = Append(strand, t)
  PROVE  /\ strand' \in Seq(AllTasks)
         /\ Completions # {} \/ t.kind = "written" => Completions' # {}
PROOF
  <1> DEFINE n == Len(strand)
  <1>1. n \in Nat /\ DOMAIN strand = 1..n
    BY LenProperties
  <1>2. strand' \in Seq(AllTasks) /\ Len(strand') = n + 1 /\ strand'[n + 1] = t
        /\ \A i \in 1..n : strand'[i] = strand[i]
    BY AppendProperties
  <1>3. DOMAIN strand' = 1..(n + 1)
    BY <1>2, LenProperties
  <1>4. n + 1 \in DOMAIN strand' /\ \A i \in DOMAIN strand : i \in DOMAIN strand' /\ strand'[i] = strand[i]
    BY <1>1, <1>2, <1>3
  <1> QED
    BY <1>2, <1>4 DEF Completions

\* The task at the head is taken, the others move up.
LEMMA TakenTask ==
  ASSUME strand \in Seq(AllTasks), strand # <<>>, strand' = Tail(strand)
  PROVE  /\ strand' \in Seq(AllTasks)
         /\ Head(strand) \in AllTasks
         /\ Completions # {} /\ Head(strand).kind # "written" => Completions' # {}
PROOF
  <1> DEFINE n == Len(strand)
  <1>1. n \in Nat /\ n # 0 /\ DOMAIN strand = 1..n
    BY LenProperties, EmptySeq
  <1>2. strand' \in Seq(AllTasks) /\ Len(strand') = n - 1
        /\ \A i \in 1..(n - 1) : strand'[i] = strand[i + 1]
    BY HeadTailProperties
  <1>3. DOMAIN strand' = 1..(n - 1)
    BY <1>2, LenProperties
  <1>4. Head(strand) \in AllTasks /\ Head(strand) = strand[1]
    BY HeadTailProperties
  <1>5. \A i \in DOMAIN strand : i # 1 => i - 1 \in DOMAIN strand' /\ strand'[i - 1] = strand[i]
    BY <1>1, <1>2, <1>3
  <1>6. \A i \in Completions : Head(strand).kind # "written" => i # 1 /\ i - 1 \in Completions'
    BY <1>4, <1>5 DEF Completions
  <1> QED
    BY <1>2, <1>4, <1>6

\* NeverStalls is inductive, with the types.
S2SInv == SendTypes /\ LinkTypes /\ NeverStalls

LEMMA S2SInitInv == S2SInit => S2SInv
PROOF
  <1> SUFFICES ASSUME S2SInit PROVE S2SInv
    OBVIOUS
  <1>1. strand \in Seq(AllTasks) /\ send_queue \in Seq(Msgs) /\ send_queue = <<>>
    BY EmptySeq DEF S2SInit, NothingSent
  <1>2. posted \in 0..MaxSends /\ sending \in 0..MaxSends /\ outages \in 0..MaxOutages
    BY SendQueueAssumption, S2SAssumption DEF S2SInit, NothingSent
  <1>3. LinkTypes
    BY <1>2 DEF S2SInit, LinkTypes
  <1> QED
    BY <1>1, <1>2, <1>3 DEF S2SInit, NothingSent, S2SInv, SendTypes, NeverStalls

\* A handler of the connection: it leaves the queue and the writes alone and at
\* most posts a clear.
LEMMA LinkKeepsInv ==
  ASSUME S2SInv, LinkTypes',
         strand' \in {strand, Append(strand, [kind |-> "clear"])},
         UNCHANGED <<posted, send_queue, writes, wire, written, sending>>
  PROVE  S2SInv'
PROOF
  <1>1. [kind |-> "clear"] \in AllTasks
    BY DEF AllTasks, ClearTasks
  <1>2. strand' \in Seq(AllTasks) /\ (Completions # {} => Completions' # {})
    <2>1. CASE strand' = strand
      BY <2>1 DEF S2SInv, SendTypes, Completions
    <2>2. CASE strand' = Append(strand, [kind |-> "clear"])
      BY <2>2, <1>1, PostedTask DEF S2SInv, SendTypes
    <2> QED
      BY <2>1, <2>2
  <1> QED
    BY <1>2 DEF S2SInv, SendTypes, NeverStalls

LEMMA ConnectingKeepsInv ==
  ASSUME S2SInv, UNCHANGED crashed,
         DoConnect \/ ConnectFinishes \/ Connecting \/ OnReadError \/ CloseAndWait
           \/ PeerBreaks \/ PeerStarts
  PROVE  S2SInv'
PROOF
  <1> USE DEF S2SInv
  <1>1. CASE DoConnect
    BY <1>1, LinkKeepsInv DEF DoConnect, LinkTypes, vars, network
  <1>2. CASE ConnectFinishes
    BY <1>2, LinkKeepsInv DEF ConnectFinishes, LinkTypes, network
  <1>3. CASE OnConnected
    BY <1>3, LinkKeepsInv DEF OnConnected, LinkTypes, vars, network
  <1>4. CASE OnConnectFailed
    BY <1>4, LinkKeepsInv DEF OnConnectFailed, RetryConnect, ClearLater, LinkTypes, network
  <1>5. CASE OnReadError
    BY <1>5, LinkKeepsInv DEF OnReadError, ClearLater, LinkTypes, network
  <1>6. CASE CloseAndWait
    BY <1>6, LinkKeepsInv DEF CloseAndWait, Armed, LinkTypes, network
  <1>7. CASE PeerBreaks
    BY <1>7, LinkKeepsInv, S2SAssumption DEF PeerBreaks, LinkTypes
  <1>8. CASE PeerStarts
    BY <1>8, LinkKeepsInv DEF PeerStarts, LinkTypes, vars, handlers
  <1> QED
    BY <1>1, <1>2, <1>3, <1>4, <1>5, <1>6, <1>7, <1>8 DEF Connecting

\* Calls of Send, and the network.
LEMMA CallsKeepInv ==
  ASSUME S2SInv, UNCHANGED crashed, TestSocket \/ PostPacket \/ NetworkWrites \/ PickUp
  PROVE  S2SInv'
PROOF
  <1> USE DEF S2SInv
  <1>1. CASE TestSocket
    BY <1>1, SendQueueAssumption
    DEF TestSocket, vars, network, handlers, SendTypes, LinkTypes, NeverStalls, Completions
  <1>2. CASE PostPacket
    <2> DEFINE t == [kind |-> "send", msg |-> posted + 1]
    <2>1. /\ posted < MaxSends /\ posted' = posted + 1 /\ strand' = Append(strand, t)
          /\ sending' = sending - 1 /\ sending > 0
          /\ UNCHANGED <<send_queue, writes, wire, broken>>
          /\ UNCHANGED <<network, handlers, written>>
      BY <1>2 DEF PostPacket, Send
    <2>2. posted + 1 \in Msgs /\ posted + 1 \in 0..MaxSends /\ sending - 1 \in 0..MaxSends
      BY <2>1, SendQueueAssumption DEF SendTypes, Msgs
    <2>3. t \in AllTasks
      BY <2>2 DEF AllTasks, Tasks, SendTasks
    <2> HIDE DEF t
    <2>4. strand' \in Seq(AllTasks) /\ (Completions # {} => Completions' # {})
      BY <2>1, <2>3, PostedTask DEF SendTypes
    <2> QED
      BY <2>1, <2>2, <2>4 DEF SendTypes, LinkTypes, NeverStalls, network, handlers
  <1>3. CASE NetworkWrites
    BY <1>3 DEF NetworkWrites, vars, network, handlers, SendTypes, LinkTypes, NeverStalls, Completions
  <1>4. CASE PickUp
    <2>1. PICK m \in writes :
            /\ writes' = writes \ {m} /\ written' = written \ {m}
            /\ strand' = Append(strand, [kind |-> "written", msg |-> m, ok |-> m \in written])
            /\ broken' = (broken \/ m \notin written)
            /\ UNCHANGED <<posted, send_queue, wire, network, handlers, sending>>
      BY <1>4 DEF PickUp
    <2> DEFINE t == [kind |-> "written", msg |-> m, ok |-> m \in written]
    <2>2. t \in AllTasks /\ t.kind = "written"
      BY <2>1 DEF AllTasks, Tasks, WrittenTasks, SendTypes
    <2>3. strand' = Append(strand, t)
      BY <2>1
    <2> HIDE DEF t
    <2>4. strand' \in Seq(AllTasks) /\ Completions' # {}
      BY <2>2, <2>3, PostedTask DEF SendTypes
    <2> QED
      BY <2>1, <2>4 DEF SendTypes, LinkTypes, NeverStalls, network, handlers
  <1> QED
    BY <1>1, <1>2, <1>3, <1>4

\* The task of Send: it starts a write unless the queue has a head, which has one.
LEMMA RunSendKeepsInv ==
  ASSUME S2SInv, UNCHANGED crashed, RunSend, UNCHANGED link
  PROVE  S2SInv'
PROOF
  <1> USE DEF S2SInv
  <1>1. strand # <<>> /\ Head(strand).kind = "send" /\ strand' = Tail(strand)
        /\ UNCHANGED <<posted, wire, broken>>
    BY DEF RunSend
  <1>2. /\ strand' \in Seq(AllTasks)
        /\ Head(strand) \in AllTasks
        /\ Completions # {} => Completions' # {}
    BY <1>1, TakenTask DEF SendTypes
  <1>3. Head(strand).msg \in Msgs
    BY <1>1, <1>2, TaskKinds
  <1>4. LinkTypes'
    BY <1>1 DEF LinkTypes, link, network, handlers
  <1>5. CASE UNCHANGED <<send_queue, writes>>
    BY <1>1, <1>2, <1>4, <1>5 DEF SendTypes, NeverStalls, link
  <1>6. CASE /\ send_queue' = Append(send_queue, Head(strand).msg)
             /\ IF WriteInProgress THEN UNCHANGED writes ELSE DoWrite(send_queue')
    <2>1. send_queue' \in Seq(Msgs) /\ send_queue' # <<>>
      BY <1>3, <1>6, AppendProperties, EmptySeq DEF SendTypes
    <2>2. Head(send_queue') \in Msgs
      BY <2>1, HeadTailProperties
    <2>3. CASE WriteInProgress
      BY <1>1, <1>2, <1>4, <1>6, <2>1, <2>3 DEF SendTypes, NeverStalls, WriteInProgress, link
    <2>4. CASE ~WriteInProgress
      <3>1. writes' = writes \cup {Head(send_queue')}
        BY <1>6, <2>4 DEF DoWrite
      <3> QED
        BY <1>1, <1>2, <1>4, <2>1, <2>2, <3>1 DEF SendTypes, NeverStalls, link
    <2> QED
      BY <2>3, <2>4
  <1> QED
    BY <1>5, <1>6 DEF RunSend

\* The task of a completion that succeeded: it pops whatever the head is, and
\* starts the next write.
LEMMA OnWrittenKeepsInv ==
  ASSUME S2SInv, UNCHANGED crashed, OnWritten
  PROVE  S2SInv'
PROOF
  <1> USE DEF S2SInv
  <1>1. /\ strand # <<>> /\ strand' = Tail(strand) /\ send_queue # <<>>
        /\ send_queue' = Tail(send_queue) /\ WriteNext(send_queue')
        /\ UNCHANGED <<posted, wire, broken>> /\ UNCHANGED link
    BY DEF OnWritten, RunWritten, Pop
  <1>2. strand' \in Seq(AllTasks) /\ send_queue' \in Seq(Msgs)
    BY <1>1, TakenTask, HeadTailProperties DEF SendTypes
  <1>3. LinkTypes'
    BY <1>1 DEF LinkTypes, link, network, handlers
  <1>4. CASE send_queue' = <<>>
    BY <1>1, <1>2, <1>3, <1>4 DEF WriteNext, SendTypes, NeverStalls, link
  <1>5. CASE send_queue' # <<>>
    <2>1. Head(send_queue') \in Msgs
      BY <1>2, <1>5, HeadTailProperties
    <2>2. writes' = writes \cup {Head(send_queue')}
      BY <1>1, <1>5 DEF WriteNext, DoWrite
    <2> QED
      BY <1>1, <1>2, <1>3, <2>1, <2>2 DEF SendTypes, NeverStalls, link
  <1> QED
    BY <1>4, <1>5

\* The two tasks that drop what waits.
LEMMA ClearingKeepsInv ==
  ASSUME S2SInv, UNCHANGED crashed, RunClear \/ OnWriteFailed
  PROVE  S2SInv'
PROOF
  <1> USE DEF S2SInv
  <1> DEFINE left == Tail(strand)
             clear == [kind |-> "clear"]
  <1>1. strand # <<>> /\ send_queue' = <<>> /\ strand' \in {left, Append(left, clear)}
        /\ UNCHANGED <<posted, writes, wire, written, sending>>
    BY DEF RunClear, OnWriteFailed, ClearLater, link
  <1>2. left \in Seq(AllTasks) /\ clear \in AllTasks
    BY <1>1, HeadTailProperties DEF SendTypes, AllTasks, ClearTasks
  <1> HIDE DEF left, clear
  <1>3. strand' \in Seq(AllTasks)
    BY <1>1, <1>2, AppendProperties
  <1>4. LinkTypes'
    BY DEF RunClear, OnWriteFailed, ClearLater, LinkTypes, link, network, handlers
  <1> QED
    BY <1>1, <1>3, <1>4, EmptySeq DEF SendTypes, NeverStalls

LEMMA S2SStep == S2SInv /\ [S2SNext]_all => S2SInv'
PROOF
  <1> SUFFICES ASSUME S2SInv, [S2SNext]_all PROVE S2SInv'
    OBVIOUS
  <1>1. CASE Works /\ UNCHANGED crashed
    <2>1. CASE RunStrand
      BY <1>1, <2>1, RunSendKeepsInv, OnWrittenKeepsInv, ClearingKeepsInv DEF RunStrand
    <2>2. CASE ~RunStrand
      BY <1>1, <2>2, ConnectingKeepsInv, CallsKeepInv DEF Works
    <2> QED
      BY <2>1, <2>2
  <1>2. CASE PopFromEmpty
    BY <1>2 DEF PopFromEmpty, vars, link, network, handlers, S2SInv, SendTypes, LinkTypes,
                NeverStalls, Completions
  <1>3. CASE UNCHANGED all
    BY <1>3 DEF all, vars, link, network, handlers, S2SInv, SendTypes, LinkTypes,
                NeverStalls, Completions
  <1> QED
    BY <1>1, <1>2, <1>3 DEF S2SNext

LEMMA S2SInvHolds == S2SSpec => []S2SInv
  BY S2SInitInv, S2SStep, PTL DEF S2SSpec

\* Every variable keeps its type.
THEOREM S2STypeCorrect == S2SSpec => []S2STypeOK
PROOF
  <1>1. S2SInv => S2STypeOK
    BY TypesAre DEF S2SInv
  <1> QED
    BY <1>1, S2SInvHolds, PTL

\* A packet in the queue always has a write under way, or a completion to run,
\* that goes on with the queue, although ScheduleRetry clears the queue under a
\* write and a stray completion pops another packet than its own.
THEOREM QueueNeverStalls == S2SSpec => []NeverStalls
PROOF
  <1>1. S2SInv => NeverStalls
    BY DEF S2SInv
  <1> QED
    BY <1>1, S2SInvHolds, PTL

===============================================================================
