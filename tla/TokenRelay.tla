------------------------------ MODULE TokenRelay ------------------------------
(***************************************************************************)
(* The way of a session token: LoginServer asks WorldServer for one,       *)
(* WorldServer makes it up, answers LoginServer (for the client) and       *)
(* notifies GameServer, which passes it on to the gateway.                 *)
(*                                                                         *)
(* The n-th token made up is the number n, so that tokens are compared     *)
(* where the code compares strings of 64 hex digits; tokens[n] is the      *)
(* account it was made up for.  A link is the sequence of messages that    *)
(* are on it; a message stands for its way through the sender's strand,    *)
(* the socket and the receiver's strand, all of which keep the order.      *)
(*                                                                         *)
(* Any connection may fail, and what is on it is then lost.  LoginServer   *)
(* and the gateway reconnect: there a message that is lost is left off the *)
(* link where it is sent, which nobody can tell from a loss on the way,    *)
(* and later ones may arrive.  GameServer connects to WorldServer once;    *)
(* after that connection is lost nothing arrives any more (gameSession).   *)
(* WorldServer runs its handlers on one thread.  TokenStore's map holds    *)
(* the last element of tokens for an account and is read only where it was *)
(* just written; CleanExpired has no caller.                               *)
(***************************************************************************)
EXTENDS Integers, Sequences, Functions

VARIABLES
  sessionMap,  \* LoginServer: account |-> client that logged in to it
  toWorld,     \* world selections: accounts
  tokens,      \* TokenStore, and every token it ever held
  toLogin,     \* answers: tokens
  gameSession, \* GameServer's connection to WorldServer: none yet, up, down
  toGame,      \* notifications: tokens
  toGateway    \* notifications passed on

relayVars == <<sessionMap, toWorld, tokens, toLogin, gameSession, toGame, toGateway>>

InitRelay ==
  /\ sessionMap = <<>>
  /\ toWorld = <<>>
  /\ tokens = <<>>
  /\ toLogin = <<>>
  /\ gameSession = "none"
  /\ toGame = <<>>
  /\ toGateway = <<>>

SentOrLost(ch, m) == {Append(ch, m), ch}

\* The next message, whole: ReadHeader, ReadPayload, and the handler.
Received(ch) == ch # <<>> /\ ch' = Tail(ch)

-------------------------------------------------------------------------------
(* LoginServer: what module LoginSessions says in detail.                  *)

LoginSucceeds(c, a) ==
  /\ a \notin DOMAIN sessionMap
  /\ sessionMap' = [x \in DOMAIN sessionMap \cup {a} |-> IF x = a THEN c ELSE sessionMap[x]]
  /\ UNCHANGED <<toWorld, tokens, toLogin, gameSession, toGame, toGateway>>

\* The client is gone, or its heartbeats have been missing for too long.
EraseAccount(a) ==
  /\ sessionMap' = Restrict(sessionMap, DOMAIN sessionMap \ {a})
  /\ UNCHANGED <<toWorld, tokens, toLogin, gameSession, toGame, toGateway>>

Handle_WorldSelectReq(a) ==
  /\ toWorld' \in SentOrLost(toWorld, a)
  /\ UNCHANGED <<sessionMap, tokens, toLogin, gameSession, toGame, toGateway>>

\* The clients an answer is passed on to.
Recipients(t) == IF tokens[t] \in DOMAIN sessionMap THEN {sessionMap[tokens[t]]} ELSE {}

\* Takes an answer off its link.
Handle_S2SWorldSelectRes ==
  /\ Received(toLogin)
  /\ UNCHANGED <<sessionMap, toWorld, tokens, gameSession, toGame, toGateway>>

-------------------------------------------------------------------------------
(* WorldServer.                                                            *)

\* GenerateSessionToken.
NewToken == Len(tokens) + 1

StoreToken(a) == tokens' = Append(tokens, a)

\* To every session of g_serverSessions; LoginServer takes no notice of it.
Notified(t) == IF gameSession = "up" THEN Append(toGame, t) ELSE toGame

Handle_WorldLoginSelectReq ==
  /\ Received(toWorld)
  /\ StoreToken(Head(toWorld))
  /\ toGame' = Notified(NewToken)
  /\ toLogin' \in SentOrLost(toLogin, NewToken)
  /\ UNCHANGED <<sessionMap, gameSession, toGateway>>

\* WorldServer::do_accept and ServerSession::OnDisconnected: the session is listed,
\* and not any more.
ServerAccepted == gameSession' = "up"
ServerDisconnected == gameSession' = "down"

-------------------------------------------------------------------------------
(* GameServer.                                                             *)

\* WorldConnection::Connect, which main calls once.
ConnectToWorld ==
  /\ gameSession = "none"
  /\ ServerAccepted \/ ServerDisconnected
  /\ UNCHANGED <<sessionMap, toWorld, tokens, toLogin, toGame, toGateway>>

\* A read fails, and no other follows.  What was received and waits for the strand
\* may as well have been handled before.
WorldLost ==
  /\ gameSession = "up"
  /\ ServerDisconnected
  /\ toGame' = <<>>
  /\ UNCHANGED <<sessionMap, toWorld, tokens, toLogin, toGateway>>

Bug_Overtakes(t) == {<<t>> \o toGateway}
BroadcastToGateways(t) == SentOrLost(toGateway, t)

Handle_WorldGameTokenNotify ==
  /\ Received(toGame)
  /\ toGateway' \in BroadcastToGateways(Head(toGame))
  /\ UNCHANGED <<sessionMap, toWorld, tokens, toLogin, gameSession>>

\* The gateway takes a notification off the link.
TakeNotify ==
  /\ Received(toGateway)
  /\ UNCHANGED <<sessionMap, toWorld, tokens, toLogin, gameSession, toGame>>

RelayAlone ==
  \/ Handle_WorldLoginSelectReq
  \/ Handle_WorldGameTokenNotify
  \/ ConnectToWorld \/ WorldLost
  \/ \E a \in DOMAIN sessionMap : EraseAccount(a)

===============================================================================
