----------------------------- MODULE SecureChannel -----------------------------
(***************************************************************************)
(* One client and its session at the gateway from the connect request on:  *)
(* the handshake that turns encryption on, the sequence numbers of         *)
(* PacketCrypto, the gateway's rate limit, and the packets of the game     *)
(* that the thread of the game connection sends to a session as soon as    *)
(* clientMap lists it, that is while the handshake is still going on.      *)
(*                                                                         *)
(* A ciphertext is the number of the packet it was made of, with the       *)
(* uint32_t that goes with it being that number modulo Modulus; nobody     *)
(* but PacketCrypto::Decrypt gets the packet back.  BCrypt does not fail.  *)
(*                                                                         *)
(* Left out: a refused or broken connection (module GatewaySessions), and  *)
(* what a client of this repository never sends: unknown ids, impossible   *)
(* sizes, payloads that do not parse.                                      *)
(***************************************************************************)
EXTENDS Integers, Sequences

CONSTANTS
  Modulus,        \* 2^32
  Window,         \* SEQUENCE_WINDOW
  Jump,           \* SEQUENCE_WINDOW * 10
  PerWindow,      \* MAX_PACKETS_PER_SECOND
  MaxViolations,  \* MAX_RATE_VIOLATIONS
  QueueMax,       \* SEND_QUEUE_MAX_SIZE
  LinkMax,        \* bound: packets of the client on their way
  MaxNumber       \* bound: numbers drawn by each side

ASSUME NumberAssumption ==
  /\ Modulus \in Nat /\ Window \in Nat \ {0} /\ Jump \in Nat \ {0}
  /\ Window + Jump <= Modulus
ASSUME LimitAssumption ==
  /\ PerWindow \in Nat /\ MaxViolations \in Nat \ {0} /\ QueueMax \in Nat
  /\ LinkMax \in Nat /\ MaxNumber \in Nat

Plain == -1
Nothing == -1
Sides == {"client", "gateway"}

VARIABLES
  handshake,      \* Handle_GatewayConnectReq: none, listed, answered, enabled
  crypto_enabled, \* of either side
  drawn,          \* numbers drawn; send_sequence_ is drawn % Modulus
  recv_sequence,
  up,             \* packets to the gateway
  down,           \* packets to the client: send_queue_ and the socket
  relayed,        \* the packet of the game that is about to be queued, if any
  packet_count,
  rate_violation_count,
  ended,          \* why the gateway's read loop ended: no, flooded, undecryptable
  opened,         \* history: the last number decrypted by a side, or Nothing
  overrun,        \* history: Jump numbers in a row or more were lost to a side, or
                  \* the answer to the connect request was lost to the client
  misread         \* history: a side handled a ciphertext as if it were a packet

rate == <<packet_count, rate_violation_count>>
keys == <<crypto_enabled, drawn, recv_sequence>>
history == <<opened, overrun, misread>>
vars == <<handshake, keys, up, down, relayed, rate, ended, history>>

Init ==
  /\ handshake = "none"
  /\ crypto_enabled = [s \in Sides |-> FALSE]
  /\ drawn = [s \in Sides |-> 0]
  /\ recv_sequence = [s \in Sides |-> 0]
  /\ up = <<[kind |-> "connect", seal |-> Plain]>>
  /\ down = <<>>
  /\ relayed = <<>>
  /\ packet_count = 0
  /\ rate_violation_count = 0
  /\ ended = "no"
  /\ opened = [s \in Sides |-> Nothing]
  /\ overrun = [s \in Sides |-> FALSE]
  /\ misread = [s \in Sides |-> FALSE]

-------------------------------------------------------------------------------
(* PacketCrypto.                                                           *)

\* AttackReq with target 0 has no bytes; every other message has some.
Empty(kind) == kind = "attack"

\* Nothing is drawn for an empty payload, which goes out as it is.
Bug_SealsAnswer(s, kind) == (crypto_enabled[s] \/ kind = "answer") /\ ~Empty(kind)
Encrypts(s, kind) == crypto_enabled[s] /\ ~Empty(kind)

Sealed(s, kind) == [kind |-> kind, seal |-> IF Encrypts(s, kind) THEN drawn[s] ELSE Plain]

Draw(s, kind) ==
  /\ Encrypts(s, kind) => drawn[s] < MaxNumber
  /\ drawn' = [drawn EXCEPT ![s] = @ + (IF Encrypts(s, kind) THEN 1 ELSE 0)]

Bug_NoWrap(recv, received) ==
  \/ recv = 0 /\ received = 0
  \/ received > recv /\ received - recv <= Jump

ValidateSequence(recv, received) ==
  \/ recv = 0 /\ received = 0
  \/ received <= recv /\ recv - received >= Window
  \/ received > recv /\ received - recv <= Jump

\* What is no ciphertext has no valid number: read as one, the first bytes of
\* a message are more than Jump ahead of the low numbers of a handshake.
Decrypts(s, p) == p.seal # Plain /\ ValidateSequence(recv_sequence[s], p.seal % Modulus)

\* A side has crypto on, and p is not empty.
Decrypt(s, p) ==
  /\ overrun' = [overrun EXCEPT ![s] = @ \/ (p.seal # Plain /\ p.seal - opened[s] > Jump)]
  /\ \/ /\ Decrypts(s, p)
        /\ recv_sequence' = [recv_sequence EXCEPT ![s] = p.seal % Modulus]
        /\ opened' = [opened EXCEPT ![s] = p.seal]
     \/ ~Decrypts(s, p) /\ UNCHANGED <<recv_sequence, opened>>

NoDecrypt == UNCHANGED <<recv_sequence, opened, overrun>>

-------------------------------------------------------------------------------
(* The client.                                                             *)

\* SendPacket, in the game; one strand draws the number and queues the packet.
ClientSends ==
  /\ crypto_enabled["client"] /\ Len(up) < LinkMax
  /\ \E kind \in {"move", "attack"} :
       /\ Draw("client", kind)
       /\ up' = Append(up, Sealed("client", kind))
  /\ UNCHANGED <<handshake, crypto_enabled, recv_sequence, down, relayed, rate, ended, history>>

\* A payload that cannot be decrypted is handled as it is; a packet of the game
\* means nothing to the handshake.
ClientReads ==
  /\ down # <<>>
  /\ down' = Tail(down)
  /\ LET p == Head(down)
     IN  /\ IF crypto_enabled["client"] THEN Decrypt("client", p) ELSE NoDecrypt
         /\ misread' = [misread EXCEPT !["client"] =
              @ \/ (p.seal # Plain /\ ~(crypto_enabled["client"] /\ Decrypts("client", p)))]
         /\ crypto_enabled' = [crypto_enabled EXCEPT !["client"] =
              @ \/ (p.kind = "answer" /\ p.seal = Plain)]
  /\ UNCHANGED <<handshake, drawn, up, relayed, rate, ended>>

-------------------------------------------------------------------------------
(* The gateway's read loop.  A handler runs to its end before the next     *)
(* header is read.                                                         *)

HandlerDone == handshake \in {"none", "enabled"}

TakesOff == ended = "no" /\ HandlerDone /\ up # <<>> /\ up' = Tail(up)

Dispatch(p) ==
  /\ handshake' = IF p.kind = "connect" THEN "listed" ELSE handshake
  /\ UNCHANGED ended

\* The packet is within the limit.
GatewayReads ==
  /\ TakesOff
  /\ packet_count < PerWindow
  /\ packet_count' = packet_count + 1
  /\ rate_violation_count' = 0
  /\ LET p == Head(up)
         decrypting == crypto_enabled["gateway"] /\ ~Empty(p.kind)
     IN  \/ /\ decrypting /\ Decrypt("gateway", p) /\ Decrypts("gateway", p)
            /\ Dispatch(p)
            /\ UNCHANGED misread
         \/ /\ decrypting /\ Decrypt("gateway", p) /\ ~Decrypts("gateway", p)
            /\ ended' = "undecryptable"
            /\ UNCHANGED <<handshake, misread>>
         \/ /\ ~decrypting /\ NoDecrypt
            /\ Dispatch(p)
            /\ misread' = [misread EXCEPT !["gateway"] = @ \/ p.seal # Plain]
  /\ UNCHANGED <<crypto_enabled, drawn, down, relayed>>

\* The packet is over the limit: it is read, not decrypted, and forgotten.
RateLimited ==
  /\ TakesOff
  /\ packet_count >= PerWindow
  /\ packet_count' = packet_count + 1
  /\ rate_violation_count' = rate_violation_count + 1
  /\ ended' = IF rate_violation_count' >= MaxViolations THEN "flooded" ELSE "no"
  /\ UNCHANGED <<handshake, keys, down, relayed, history>>

\* A second has passed; the next packet is the first of a new window.
WindowPasses ==
  /\ packet_count' = 0
  /\ UNCHANGED <<handshake, keys, up, down, relayed, rate_violation_count, ended, history>>

-------------------------------------------------------------------------------
(* The gateway sends.  The number is drawn on the thread that calls Send,  *)
(* the packet is queued by the strand, or dropped if the queue is full.    *)

Full == Len(down) > QueueMax

Bug_Unbounded(p) == Append(down, p)
Queued(p) == IF Full THEN down ELSE Append(down, p)

AnswerConnect ==
  /\ handshake = "listed"
  /\ handshake' = "answered"
  /\ Draw("gateway", "answer")
  /\ down' = Queued(Sealed("gateway", "answer"))
  /\ overrun' = [overrun EXCEPT !["client"] = @ \/ Full]
  /\ UNCHANGED <<crypto_enabled, recv_sequence, up, relayed, rate, ended, opened, misread>>

EnableEncryption ==
  /\ handshake = "answered"
  /\ handshake' = "enabled"
  /\ crypto_enabled' = [crypto_enabled EXCEPT !["gateway"] = TRUE]
  /\ UNCHANGED <<drawn, recv_sequence, up, down, relayed, rate, ended, history>>

\* Handle_MoveRes_FromGame and its like, under clientMutex to the end of Send.
RelaySends ==
  /\ handshake # "none" /\ ended = "no" /\ relayed = <<>>
  /\ Draw("gateway", "game")
  /\ relayed' = <<Sealed("gateway", "game")>>
  /\ UNCHANGED <<handshake, crypto_enabled, recv_sequence, up, down, rate, ended, history>>

RelayQueued ==
  /\ relayed # <<>>
  /\ relayed' = <<>>
  /\ down' = Queued(Head(relayed))
  /\ UNCHANGED <<handshake, keys, up, rate, ended, history>>

-------------------------------------------------------------------------------

Next ==
  \/ ClientSends \/ ClientReads
  \/ GatewayReads \/ RateLimited \/ WindowPasses
  \/ AnswerConnect \/ EnableEncryption \/ RelaySends \/ RelayQueued

Spec == Init /\ [][Next]_vars

-------------------------------------------------------------------------------
(* Properties.                                                             *)

Kinds == {"connect", "move", "attack", "answer", "game"}
Packets == [kind : Kinds, seal : Nat \cup {Plain}]

TypeOK ==
  /\ handshake \in {"none", "listed", "answered", "enabled"}
  /\ crypto_enabled \in [Sides -> BOOLEAN]
  /\ drawn \in [Sides -> Nat]
  /\ recv_sequence \in [Sides -> Nat] /\ \A s \in Sides : recv_sequence[s] < Modulus
  /\ up \in Seq(Packets) /\ down \in Seq(Packets) /\ relayed \in Seq(Packets)
  /\ Len(down) <= QueueMax + 1 /\ Len(relayed) <= 1
  /\ packet_count \in Nat /\ rate_violation_count \in Nat
  /\ ended \in {"no", "flooded", "undecryptable"}
  /\ opened \in [Sides -> Nat \cup {Nothing}]
  /\ overrun \in [Sides -> BOOLEAN]
  /\ misread \in [Sides -> BOOLEAN]

\* The gateway never hands a ciphertext to a handler, and cuts off no client of
\* its own for a packet it cannot decrypt, however the numbers wrap around,
\* unless the rate limit swallowed Jump of them in a row or more
\* (ClientSession::ReadPayload, PacketCrypto::ValidateSequence).
GatewayUnderstands ==
  ~overrun["gateway"] => ~misread["gateway"] /\ ended # "undecryptable"

\* The client never takes a ciphertext for a packet, though the gateway sends it
\* packets of the game before, while and after it turns encryption on, unless the
\* full send queue swallowed the answer, or Jump numbers in a row or more: from
\* then on it may understand none (StressSession::ReadPayload, Handle_GatewayConnectReq).
ClientUnderstands == ~overrun["client"] => ~misread["client"]

===============================================================================
