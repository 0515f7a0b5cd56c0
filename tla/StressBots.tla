------------------------------ MODULE StressBots ------------------------------
(***************************************************************************)
(* The load generator: StressManager, which keeps Target bots going, and   *)
(* the state machine of a bot (StressSession) from the login server to the *)
(* game.                                                                   *)
(*                                                                         *)
(* A bot is one StressSession; its account BOT_STRESS_n is the number n.   *)
(* Stop only posts to the bot's strand, and closing the socket makes a     *)
(* read or a connect under way fail, which calls Stop again; a connect     *)
(* that is through by then is handled as if nothing had happened.          *)
(*                                                                         *)
(* The actions say what happens to the tool's own variables; what a bot    *)
(* is answered is up to the servers (module Handoff).  Left out: what a    *)
(* bot does in the game beyond sending, its send queue (of failed writes   *)
(* only the one that the change of servers aborts matters, the others stop *)
(* the bot as the failed read beside them does; a write that ends after a  *)
(* Stop has cleared the queue pops from an empty one, which is undefined), *)
(* and the counters of packets.                                            *)
(***************************************************************************)
EXTENDS Integers, Sequences

CONSTANTS
  MaxBots,   \* bound: StressSession objects ever created
  Target,    \* target_connections_
  Rate,      \* spawn_rate_per_sec_
  NoToken

ASSUME BotAssumption ==
  MaxBots \in Nat /\ Target \in Nat /\ Rate \in Nat \ {0} /\ NoToken \notin Nat

Bots == 1..MaxBots

VARIABLES
  born,            \* bots 1..born have been created
  state,           \* BotState, or "unborn"
  id,              \* account_id_
  session_token,   \* session_token_
  op,              \* what is under way on the bot's socket: none, connecting,
                   \* connected (not handled yet), reading
  stops,           \* calls of Stop posted to the bot's strand
  reusable_ids,
  total_spawn_count,
  current_spawned,
  active_connections,
  ramp_up          \* ramp_up_timer_ is set

manager == <<born, reusable_ids, total_spawn_count, current_spawned, ramp_up>>
botVars == <<manager, state, id, session_token, op, stops, active_connections>>

\* StartStressTest is the first call of ScheduleNextSpawn.
InitBots ==
  /\ born = 0
  /\ state = [b \in Bots |-> "unborn"]
  /\ id = [b \in Bots |-> 0]
  /\ session_token = [b \in Bots |-> NoToken]
  /\ op = [b \in Bots |-> "none"]
  /\ stops = [b \in Bots |-> 0]
  /\ reusable_ids = <<>>
  /\ total_spawn_count = 0
  /\ current_spawned = 0
  /\ active_connections = 0
  /\ ramp_up = TRUE

-------------------------------------------------------------------------------
(* The manager.                                                            *)

Bug_NeverReused(i) == total_spawn_count + i - 1

\* The i-th id AcquireBotId hands out in one round.
AcquireBotId(i) ==
  IF i <= Len(reusable_ids) THEN reusable_ids[i]
  ELSE total_spawn_count + (i - Len(reusable_ids) - 1)

Fresh(n) == IF n > Len(reusable_ids) THEN n - Len(reusable_ids) ELSE 0

Deficit == IF current_spawned < Target THEN Target - current_spawned ELSE 0

SpawnCount == IF Rate < Deficit THEN Rate ELSE Deficit

Spawn(n) ==
  /\ born + n <= MaxBots
  /\ born' = born + n
  /\ state' = [b \in Bots |-> IF b \in born+1..born+n THEN "CONNECTING_LOGIN" ELSE state[b]]
  /\ id' = [b \in Bots |-> IF b \in born+1..born+n THEN AcquireBotId(b - born) ELSE id[b]]
  /\ reusable_ids' = SubSeq(reusable_ids, n + 1, Len(reusable_ids))
  /\ total_spawn_count' = total_spawn_count + Fresh(n)
  /\ current_spawned' = current_spawned + n
  /\ op' = [b \in Bots |-> IF b \in born+1..born+n THEN "connecting" ELSE op[b]]
  /\ UNCHANGED <<session_token, stops, active_connections>>

ScheduleNextSpawn ==
  /\ ramp_up
  /\ Spawn(SpawnCount)
  /\ ramp_up' = (current_spawned' < Target)

\* The timer of StartReconnectLoop; it is set again whatever it finds.
ReconnectTick ==
  /\ Deficit > 0
  /\ Spawn(SpawnCount)
  /\ UNCHANGED ramp_up

-------------------------------------------------------------------------------
(* A bot.                                                                  *)

Goes(b, s) == state' = [state EXCEPT ![b] = s]

Does(b, o) == op' = [op EXCEPT ![b] = o]

\* Nothing stops a bot before the first connect is handled.
LoginConnected(b) ==
  /\ state[b] = "CONNECTING_LOGIN" /\ op[b] = "connecting"
  /\ Goes(b, "WAITING_LOGIN_RES")
  /\ Does(b, "reading")
  /\ UNCHANGED <<manager, id, session_token, stops, active_connections>>

\* Or is aborted, the socket being closed.
ConnectFailed(b) ==
  /\ op[b] = "connecting"
  /\ Does(b, "none")
  /\ stops' = [stops EXCEPT ![b] = @ + 1]
  /\ UNCHANGED <<manager, state, id, session_token, active_connections>>

\* WorldSelectRes: no read follows on the socket that is closed here, and a write
\* still under way on it fails, which calls Stop.
HandleWorldSelectRes(b, token) ==
  /\ state[b] = "WAITING_LOGIN_RES" /\ op[b] = "reading"
  /\ Goes(b, "CONNECTING_GATEWAY")
  /\ session_token' = [session_token EXCEPT ![b] = token]
  /\ Does(b, "connecting")
  /\ stops' \in {stops, [stops EXCEPT ![b] = @ + 1]}
  /\ UNCHANGED <<manager, id, active_connections>>

\* The connect succeeds, if the socket is open still; its handler is queued.
ConnectCompletes(b) ==
  /\ state[b] = "CONNECTING_GATEWAY" /\ op[b] = "connecting"
  /\ Does(b, "connected")
  /\ UNCHANGED <<manager, state, id, session_token, stops, active_connections>>

\* The handler, whatever ran in between.
GatewayConnected(b) ==
  /\ op[b] = "connected"
  /\ Goes(b, "WAITING_GATEWAY_RES")
  /\ Does(b, "reading")
  /\ UNCHANGED <<manager, id, session_token, stops, active_connections>>

\* Its request is written unless an aborted write is still the head of the send
\* queue, and then a Stop is on its way.
Requested(b) == state[b] = "WAITING_GATEWAY_RES" /\ stops[b] = 0

\* GatewayConnectRes, which comes once: OnSessionConnected, or Stop with the
\* next read under way.
HandleGatewayConnectRes(b, success) ==
  /\ Requested(b) /\ op[b] = "reading"
  /\ \/ /\ success
        /\ Goes(b, "IN_GAME")
        /\ active_connections' = active_connections + 1
        /\ UNCHANGED stops
     \/ /\ ~success
        /\ stops' = [stops EXCEPT ![b] = @ + 1]
        /\ UNCHANGED <<state, active_connections>>
  /\ UNCHANGED <<manager, id, session_token, op>>

ReadFailed(b) ==
  /\ op[b] = "reading"
  /\ Does(b, "none")
  /\ stops' = [stops EXCEPT ![b] = @ + 1]
  /\ UNCHANGED <<manager, state, id, session_token, active_connections>>

StopsNow(b) == state[b] # "DISCONNECTED"

Bug_StillSpawned(b) ==
  /\ active_connections' = active_connections - (IF state[b] = "IN_GAME" THEN 1 ELSE 0)
  /\ reusable_ids' = Append(reusable_ids, id[b])
  /\ UNCHANGED <<born, total_spawn_count, current_spawned, ramp_up>>

OnSessionDisconnected(b) ==
  /\ active_connections' = active_connections - (IF state[b] = "IN_GAME" THEN 1 ELSE 0)
  /\ reusable_ids' = Append(reusable_ids, id[b])
  /\ current_spawned' = current_spawned - 1
  /\ UNCHANGED <<born, total_spawn_count, ramp_up>>

\* The task Stop posted.
RunStop(b) ==
  /\ stops[b] > 0
  /\ stops' = [stops EXCEPT ![b] = @ - 1]
  /\ \/ StopsNow(b) /\ OnSessionDisconnected(b) /\ Goes(b, "DISCONNECTED")
     \/ ~StopsNow(b) /\ UNCHANGED <<manager, state, active_connections>>
  /\ UNCHANGED <<id, session_token, op>>

===============================================================================
