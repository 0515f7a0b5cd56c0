----------------------------- MODULE S2SConnection -----------------------------
(***************************************************************************)
(* A connection of one server to another that is set up again when it      *)
(* breaks: GameConnection of the gateway (to GameServer) and               *)
(* WorldConnection of the login server (to WorldServer).                   *)
(*                                                                         *)
(* Its send path is that of SendQueue without a limit (give QueueMax the   *)
(* value of MaxSends), except that a failed write also calls               *)
(* ScheduleRetry.  Only the send path runs on the strand.  The handlers of *)
(* connect, read and timer and the callers of Send run on any thread of    *)
(* the io_context.  Two of their calls take effect in two steps, between   *)
(* which anything may happen: Send tests the socket and posts its task     *)
(* later; ScheduleRetry posts clear() and closes the socket later.         *)
(*                                                                         *)
(* Closing the socket ends every operation on it: what was still pending   *)
(* is aborted, but a write the network had finished by then, whose         *)
(* completion no thread has picked up yet, still reports success.  What is *)
(* on the wire is not followed here (wire stays empty): a queue cleared    *)
(* under a write frees the buffer, and its bytes are anybody's.            *)
(*                                                                         *)
(* Assumed: handlers that are ready run within the three seconds of the    *)
(* retry timer.  Left out: packets received, header checks, failures of    *)
(* the address resolution (they call ScheduleRetry, as a refused connect   *)
(* does), and the races on the objects themselves of two threads that      *)
(* close the socket or set the timer.                                      *)
(***************************************************************************)
EXTENDS SendQueue, SequencesExt

CONSTANT MaxOutages   \* bound: times the peer goes down or drops the connection

ASSUME S2SAssumption == MaxOutages \in Nat

VARIABLES
  class,      \* which of the two classes this is
  socket,     \* closed, connecting (is_open() already), open
  connect,    \* async_connect: none, pending, or its result ok / failed
  read,       \* the read loop: none, pending, or failed (handler not run yet)
  retrying,   \* handlers in ScheduleRetry between clear() and the timer
  sending,    \* calls of Send between the test of the socket and the post
  connected,  \* connected_ (WorldConnection)
  timer,      \* retry_timer_ is armed
  peer,       \* external: the other server accepts connections
  written,    \* writes the network has finished and no thread has picked up
  outages,    \* bound: outages so far
  crashed     \* pop_front on an empty queue is undefined: the process is gone

network == <<class, peer, outages>>
handlers == <<socket, connect, read, retrying, connected, timer>>
link == <<network, handlers, sending, written>>
all  == <<vars, link, crashed>>

S2SInit ==
  /\ NothingSent /\ broken = TRUE
  /\ class \in {"GameConnection", "WorldConnection"}
  /\ socket = "connecting" /\ connect = "pending"
  /\ read = "none"
  /\ retrying = {} /\ sending = 0
  /\ connected = FALSE
  /\ timer = FALSE
  /\ peer \in BOOLEAN
  /\ written = {}
  /\ outages = 0
  /\ crashed = FALSE

-------------------------------------------------------------------------------
(* Retrying.                                                               *)

IsOpen == socket # "closed"

\* The first part of ScheduleRetry, called by the handler h: the clear is posted
\* behind what the strand holds.
ClearLater(h, strandLeft) ==
  /\ connected' = FALSE
  /\ strand' = Append(strandLeft, [kind |-> "clear"])
  /\ retrying' = retrying \cup {h}

Bug_OnlyClear == timer
Armed == TRUE

\* The second: the socket is closed, which ends what is under way on it, and the
\* timer is set anew.
CloseAndWait ==
  /\ \E h \in retrying : retrying' = retrying \ {h}
  /\ broken' = TRUE
  /\ socket' = "closed"
  /\ connect' = IF connect = "pending" THEN "failed" ELSE connect
  /\ read' = IF read = "pending" THEN "failed" ELSE read
  /\ timer' = Armed
  /\ UNCHANGED <<posted, strand, send_queue, writes, wire, network, sending, connected, written>>

\* The timer's handler is DoConnect.
DoConnect ==
  /\ timer
  /\ strand = <<>> /\ writes = {} /\ connect = "none" /\ read # "failed" /\ retrying = {}
  /\ timer' = FALSE
  /\ socket' = "connecting" /\ connect' = "pending"
  /\ UNCHANGED <<vars, network, read, retrying, sending, connected, written>>

\* The network decides: writes succeed only on a connected socket.
ConnectFinishes ==
  /\ connect = "pending"
  /\ \/ peer /\ connect' = "ok" /\ socket' = "open" /\ broken' = FALSE
     \/ ~peer /\ connect' = "failed" /\ UNCHANGED <<socket, broken>>
  /\ UNCHANGED <<posted, strand, send_queue, writes, wire,
                 network, read, retrying, sending, connected, timer, written>>

\* The first read fails if the connection is gone again by now.
OnConnected ==
  /\ connect = "ok"
  /\ connect' = "none"
  /\ connected' = TRUE
  /\ read' = IF socket = "open" /\ ~broken THEN "pending" ELSE "failed"
  /\ UNCHANGED <<vars, network, socket, retrying, sending, timer, written>>

Bug_GiveUp ==
  /\ connect' = "none"
  /\ UNCHANGED <<strand, retrying, connected>>
RetryConnect == connect' = "none" /\ ClearLater("connect", strand)

OnConnectFailed ==
  /\ connect = "failed"
  /\ RetryConnect
  /\ UNCHANGED <<posted, send_queue, writes, wire, broken,
                 network, socket, read, sending, timer, written>>

OnReadError ==
  /\ read = "failed"
  /\ read' = "none"
  /\ ClearLater("read", strand)
  /\ UNCHANGED <<posted, send_queue, writes, wire, broken,
                 network, socket, connect, sending, timer, written>>

-------------------------------------------------------------------------------
(* Sending.                                                                *)

\* GameConnection asks whether the socket is open, which it is from the moment
\* a connect is tried; WorldConnection wants to be connected, too.
MaySend == IsOpen /\ (class = "WorldConnection" => connected)

TestSocket ==
  /\ MaySend
  /\ posted + sending < MaxSends
  /\ sending' = sending + 1
  /\ UNCHANGED <<vars, network, handlers, written>>

\* By now the socket may be another one, or none.
PostPacket ==
  /\ sending > 0
  /\ sending' = sending - 1
  /\ Send
  /\ UNCHANGED <<network, handlers, written>>

\* A task that is still inside ScheduleRetry keeps the strand.
StrandFree == "write" \notin retrying

RunClear ==
  /\ strand # <<>> /\ Head(strand).kind = "clear"
  /\ strand' = Tail(strand)
  /\ send_queue' = <<>>
  /\ UNCHANGED <<posted, writes, wire, broken, link>>

OnWritten ==
  /\ strand # <<>> /\ Head(strand).kind = "written" /\ Head(strand).ok
  /\ send_queue # <<>>
  /\ RunWritten
  /\ UNCHANGED link

OnWriteFailed ==
  /\ strand # <<>> /\ Head(strand).kind = "written" /\ ~Head(strand).ok
  /\ send_queue' = <<>>
  /\ ClearLater("write", Tail(strand))
  /\ UNCHANGED <<posted, writes, wire, broken,
                 network, socket, connect, read, sending, timer, written>>

PopFromEmpty ==
  /\ StrandFree
  /\ strand # <<>> /\ Head(strand).kind = "written" /\ Head(strand).ok
  /\ send_queue = <<>>
  /\ crashed' = TRUE
  /\ UNCHANGED <<vars, link>>

\* The network finishes a write; some thread picks the result up later and
\* posts the completion handler.
NetworkWrites ==
  /\ ~broken
  /\ writes # written
  /\ written' = writes
  /\ UNCHANGED <<vars, network, handlers, sending>>

PickUp ==
  \E m \in writes :
    /\ writes' = writes \ {m} /\ written' = written \ {m}
    /\ strand' = Append(strand, [kind |-> "written", msg |-> m, ok |-> m \in written])
    /\ broken' = (broken \/ m \notin written)
    /\ UNCHANGED <<posted, send_queue, wire, network, handlers, sending>>

RunStrand ==
  /\ StrandFree
  /\ (RunSend /\ UNCHANGED link) \/ RunClear \/ OnWritten \/ OnWriteFailed

-------------------------------------------------------------------------------
(* The other server.                                                       *)

\* The connection breaks, with or without the server going down.
PeerBreaks ==
  /\ outages < MaxOutages
  /\ outages' = outages + 1
  /\ peer' \in BOOLEAN
  /\ broken' = TRUE
  /\ read' = IF read = "pending" THEN "failed" ELSE read
  /\ UNCHANGED <<posted, strand, send_queue, writes, wire,
                 class, socket, connect, retrying, sending, connected, timer, written>>

PeerStarts ==
  /\ ~peer
  /\ peer' = TRUE
  /\ UNCHANGED <<vars, class, outages, handlers, sending, written>>

Connecting == OnConnected \/ OnConnectFailed

Works ==
  \/ DoConnect \/ Connecting \/ OnReadError \/ CloseAndWait
  \/ RunStrand
  \/ ConnectFinishes
  \/ NetworkWrites \/ PickUp
  \/ TestSocket \/ PostPacket
  \/ PeerBreaks
  \/ PeerStarts

S2SNext ==
  /\ ~crashed
  /\ \/ Works /\ UNCHANGED crashed
     \/ PopFromEmpty

S2SSpec == S2SInit /\ [][S2SNext]_all

\* The io_context's threads run every handler that is ready, the timer expires,
\* and the network decides about connects and writes.
S2SFairSpec ==
  /\ S2SSpec
  /\ WF_all(~crashed /\ DoConnect /\ UNCHANGED crashed)
  /\ WF_all(~crashed /\ Connecting /\ UNCHANGED crashed)
  /\ WF_all(~crashed /\ OnReadError /\ UNCHANGED crashed)
  /\ WF_all(~crashed /\ CloseAndWait /\ UNCHANGED crashed)
  /\ WF_all(~crashed /\ ((RunStrand /\ UNCHANGED crashed) \/ PopFromEmpty))
  /\ WF_all(~crashed /\ ConnectFinishes /\ UNCHANGED crashed)
  /\ WF_all(~crashed /\ PickUp /\ UNCHANGED crashed)

-------------------------------------------------------------------------------
(* Properties.                                                             *)

ClearTasks == [kind : {"clear"}]

\* Every variable keeps its type.
S2STypeOK ==
  /\ posted \in 0..MaxSends
  /\ strand \in Seq(Tasks \cup ClearTasks)
  /\ send_queue \in Seq(Msgs)
  /\ written \subseteq writes /\ writes \subseteq Msgs
  /\ wire = <<>>
  /\ retrying \subseteq {"connect", "read", "write"} /\ sending \in 0..MaxSends
  /\ class \in {"GameConnection", "WorldConnection"}
  /\ socket \in {"closed", "connecting", "open"}
  /\ connect \in {"none", "pending", "ok", "failed"}
  /\ read \in {"none", "pending", "failed"}
  /\ {broken, connected, timer, peer, crashed} \subseteq BOOLEAN
  /\ outages \in 0..MaxOutages

\* The connection never falls asleep: it is being read from, or something is
\* under way that ends in another attempt (DoConnect, ScheduleRetry), however
\* read errors, write errors, connects and retries half done overlap.
AlwaysTrying == read # "none" \/ connect # "none" \/ timer \/ retrying # {}

\* Once the other server is up for good and nobody breaks the connection, it
\* is connected to ("WorldServer restarts: reconnected", WorldConnection.h).
Reconnects == <>[]peer => <>[](crashed \/ (socket = "open" /\ read = "pending"))

\* A packet that waits in the queue has a write to wait for, whatever ScheduleRetry
\* cleared behind its back: write_in_progress never keeps a later Send from starting
\* one for good (DoWrite chains, or the queue is empty).
NeverStalls ==
  send_queue # <<>> => writes # {} \/ Completions # {}

\* Sending is "serialized in the strand and safe" (GameConnection.h): a write
\* that succeeded is the one at the head of the queue, which its handler pops.
CompletesHead ==
  strand # <<>> /\ Head(strand).kind = "written" /\ Head(strand).ok
    => send_queue # <<>> /\ Head(send_queue) = Head(strand).msg

===============================================================================
