-------------------------------- MODULE Handoff --------------------------------
(***************************************************************************)
(* A client's way from the login server into the game: the bots of the     *)
(* load generator (StressBots), the servers its token passes through       *)
(* (TokenRelay) and the gateway (GatewaySessions).  The session a bot has  *)
(* at the login server and the one it has at the gateway go by the bot's   *)
(* number.                                                                 *)
(*                                                                         *)
(* The token reaches the bot over one way and the gateway over another, so *)
(* either may be first, and a bot may get a token that was asked for by    *)
(* another bot of its account.                                             *)
(***************************************************************************)
EXTENDS StressBots, TokenRelay, GatewaySessions

VARIABLE login  \* a bot's LoginReq: none, checking, accepted, selected

vars == <<botVars, relayVars, gatewayVars, login>>

ASSUME SessionAssumption == Sessions = Bots

Init ==
  /\ InitBots
  /\ InitRelay
  /\ InitGateway
  /\ login = [b \in Bots |-> "none"]

Logs(b, place) == login' = [login EXCEPT ![b] = place]

-------------------------------------------------------------------------------
(* At the login server.                                                    *)

\* The request goes out with the connect.
ConnectToLogin(b) ==
  /\ LoginConnected(b)
  /\ Logs(b, "checking")
  /\ UNCHANGED <<relayVars, gatewayVars>>

\* The check ends well, whether the bot is still there or not.  If it ends
\* badly, nothing changes: the bot ignores the refusal and goes on reading.
LoginAccepted(b) ==
  /\ login[b] = "checking"
  /\ LoginSucceeds(b, id[b])
  /\ Logs(b, "accepted")
  /\ UNCHANGED <<botVars, gatewayVars>>

SelectWorld(b) ==
  /\ login[b] = "accepted" /\ state[b] = "WAITING_LOGIN_RES" /\ op[b] = "reading"
  /\ Handle_WorldSelectReq(id[b])
  /\ Logs(b, "selected")
  /\ UNCHANGED <<botVars, gatewayVars>>

Waits(b) == state[b] = "WAITING_LOGIN_RES" /\ op[b] = "reading"

\* A bot that is not waiting any more does not see the answer.  One whose own request
\* got through has no write under way that could be aborted.
TokenForBot ==
  /\ Handle_S2SWorldSelectRes
  /\ LET t == Head(toLogin)
     IN  \/ \E b \in Recipients(t) :
              /\ Waits(b) /\ HandleWorldSelectRes(b, t)
              /\ login[b] = "selected" => UNCHANGED stops
         \/ (\A b \in Recipients(t) : ~Waits(b)) /\ UNCHANGED botVars
  /\ UNCHANGED <<gatewayVars, login>>

-------------------------------------------------------------------------------
(* At the gateway.                                                         *)

AcceptBot(b) ==
  /\ ConnectCompletes(b)
  /\ do_accept(b)
  /\ UNCHANGED <<relayVars, login>>

ConnectToGateway(b) ==
  /\ GatewayConnected(b)
  /\ UNCHANGED <<relayVars, gatewayVars, login>>

Handle_TokenNotify ==
  /\ TakeNotify
  /\ StorePendingToken(tokens[Head(toGateway)], Head(toGateway))
  /\ UNCHANGED <<botVars, login>>

\* The first part of Handle_GatewayConnectReq.
VerifyToken(b) ==
  /\ Requested(b)
  /\ \E expired \in BOOLEAN : VerifyAndConsumeToken(b, id[b], session_token[b], expired)
  /\ UNCHANGED <<botVars, relayVars, login>>

ListSession(b) ==
  /\ EnterMap(b, id[b])
  /\ UNCHANGED <<botVars, relayVars, login>>

BotAdmitted(b) ==
  /\ answered[b]
  /\ HandleGatewayConnectRes(b, b \in DOMAIN consumed)
  /\ UNCHANGED <<relayVars, gatewayVars, login>>

-------------------------------------------------------------------------------
(* Failures.                                                               *)

\* A read fails because the login server or the network closed the
\* connection, or because the bot itself closed its socket.
ReadFails(b) ==
  /\ ReadFailed(b)
  /\ state[b] \in {"WAITING_GATEWAY_RES", "IN_GAME"} => link[b] = "broken"
  /\ UNCHANGED <<relayVars, gatewayVars, login>>

\* Stop closes the socket, also that of the gateway.
StopBot(b) ==
  /\ RunStop(b)
  /\ link' = [link EXCEPT ![b] = IF @ = "open" THEN "broken" ELSE @]
  /\ UNCHANGED <<relayVars, pendingTokens, sessionVars, login>>

-------------------------------------------------------------------------------

ManagerStep ==
  /\ ScheduleNextSpawn \/ ReconnectTick
  /\ UNCHANGED <<relayVars, gatewayVars, login>>

BotStep(b) ==
  \/ ConnectToLogin(b) \/ LoginAccepted(b) \/ SelectWorld(b)
  \/ AcceptBot(b) \/ ConnectToGateway(b) \/ VerifyToken(b) \/ ListSession(b) \/ BotAdmitted(b)
  \/ ReadFails(b) \/ StopBot(b)
  \/ ConnectFailed(b) /\ UNCHANGED <<relayVars, gatewayVars, login>>

ServerStep ==
  \/ TokenForBot \/ Handle_TokenNotify
  \/ RelayAlone /\ UNCHANGED <<botVars, gatewayVars, login>>
  \/ \E s \in Sessions : GatewayAlone(s) /\ UNCHANGED <<botVars, relayVars, login>>

Next == ManagerStep \/ (\E b \in Bots : BotStep(b)) \/ ServerStep

Spec == Init /\ [][Next]_vars

\* The read loop of a gateway session, one handler or part of it after another.
ReaderStep(s) ==
  \/ ListSession(s)
  \/ /\ SendConnectRes(s) \/ ReadError(s) \/ ReaderErases(s)
     /\ UNCHANGED <<botVars, relayVars, login>>

\* The manager's timers expire, and the gateway's threads run the read handlers.
FairSpec ==
  /\ Spec
  /\ WF_vars(ManagerStep)
  /\ \A b \in Bots : WF_vars(ReaderStep(b))

-------------------------------------------------------------------------------
(* Properties.                                                             *)

States == {"unborn", "CONNECTING_LOGIN", "WAITING_LOGIN_RES", "CONNECTING_GATEWAY",
           "WAITING_GATEWAY_RES", "IN_GAME", "DISCONNECTED"}

Issued == 1..Len(tokens)

TypeOK ==
  /\ born \in 0..MaxBots
  /\ state \in [Bots -> States]
  /\ id \in [Bots -> Nat]
  /\ session_token \in [Bots -> Issued \cup {NoToken}]
  /\ op \in [Bots -> {"none", "connecting", "connected", "reading"}]
  /\ stops \in [Bots -> Nat]
  /\ reusable_ids \in Seq(Nat)
  /\ total_spawn_count \in Nat /\ current_spawned \in Int /\ active_connections \in Int
  /\ ramp_up \in BOOLEAN
  /\ DOMAIN sessionMap \subseteq Nat /\ sessionMap \in [DOMAIN sessionMap -> Bots]
  /\ toWorld \in Seq(Nat) /\ tokens \in Seq(Nat) /\ gameSession \in {"none", "up", "down"}
  /\ toLogin \in Seq(Issued) /\ toGame \in Seq(Issued) /\ toGateway \in Seq(Issued)
  /\ DOMAIN pendingTokens \subseteq Nat /\ pendingTokens \in [DOMAIN pendingTokens -> Issued]
  /\ account_id \in [Bots -> Nat \cup {NoAccount}]
  /\ DOMAIN clientMap \subseteq Nat /\ clientMap \in [DOMAIN clientMap -> Bots]
  /\ link \in [Bots -> {"none", "open", "broken"}]
  /\ reader \in [Bots -> {"none", "header", "verified", "listed", "refused", "leaving", "ended"}]
  /\ writer \in [Bots -> {"idle", "leaving"}]
  /\ DOMAIN consumed \subseteq Bots /\ consumed \in [DOMAIN consumed -> Issued]
  /\ answered \in [Bots -> BOOLEAN]
  /\ login \in [Bots -> {"none", "checking", "accepted", "selected"}]

Held == [b \in {c \in Bots : session_token[c] # NoToken} |->
           [account |-> id[b], token |-> session_token[b]]]

Abstract == INSTANCE SessionTokens
  WITH Clients <- Bots, owner <- tokens, held <- Held, admitted <- consumed

\* Bots, servers, links that fail and the gateway together keep the promise of
\* SessionTokens: whatever is lost or overtakes what, a token is handed to one bot,
\* of the account it was made up for, and a bot gets in only with the token it was
\* handed (Handle_S2SWorldSelectRes, GatewayContext::VerifyAndConsumeToken).
IsSessionTokens == Abstract!Spec

\* A late notification never puts an older token of an account back in place of
\* a newer one (GatewayContext::StorePendingToken overwrites blindly).
NoStaleToken ==
  [][\A a \in DOMAIN pendingTokens \cap DOMAIN pendingTokens' :
       pendingTokens'[a] >= pendingTokens[a]]_vars

\* Packets for an account go only to a session that holds the account: the entry
\* of a session in clientMap does not outlive the session's account_id_.
ListedMeansHeld == \A a \in DOMAIN clientMap : account_id[clientMap[a]] = a

Live == {b \in Bots : state[b] \notin {"unborn", "DISCONNECTED"}}

\* There are never more accounts than bots wanted, however often a bot is counted
\* out: what makes room for a bot also queues an id for it (StressManager.h:83,
\* "keeps endless new entries out of DB and Redis").
AccountsBounded ==
  /\ current_spawned + Len(reusable_ids) = total_spawn_count
  /\ total_spawn_count <= Target

\* A bot that stopped does not stay in the gateway's clientMap, even if it
\* stopped while its request was being handled (ClientSession::OnDisconnected).
GoneIsUnlisted ==
  \A b \in Bots : state[b] = "DISCONNECTED" ~> \A a \in DOMAIN clientMap : clientMap[a] # b

\* The account of a bot that stopped comes back with another bot, as long as bots
\* can be made for all the ids that wait (StressManager::AcquireBotId).
IdComesBack ==
  \A b \in Bots :
    state[b] = "DISCONNECTED" /\ born + Len(reusable_ids) <= MaxBots
      ~> \E c \in Live : id[c] = id[b]

===============================================================================
