---------------------------- MODULE Handoff_proofs ----------------------------
(***************************************************************************)
(* Theorems about Handoff, for every number of bots, target and rate:      *)
(* types, that a session listed in clientMap holds the account, that no    *)
(* stale token replaces a newer one, that the accounts stay bounded, and   *)
(* that the whole implements SessionTokens.                                *)
(*                                                                         *)
(* The invariant has four parts.  Tokens: every link carries its tokens    *)
(* in the order they were made up, and what the gateway keeps is older     *)
(* than what is still coming.  Hands: a bot that holds a token holds one   *)
(* of its account, of its own, and older than every answer still coming;   *)
(* one that waits for it holds none.  Sessions: how far the read loop of a *)
(* gateway session is says whether the session can be in clientMap, or     *)
(* have used its token.  Accounts: the bots counted in and the ids that    *)
(* wait add up to the ids made up, which is why fresh ids stop at Target.  *)
(***************************************************************************)
EXTENDS Handoff, SequenceTheorems, TLAPS

-------------------------------------------------------------------------------
(* Types, component by component.                                          *)

Ops == {"none", "connecting", "connected", "reading"}

BotTypes ==
  /\ born \in 0..MaxBots
  /\ state \in [Bots -> States]
  /\ id \in [Bots -> Nat]
  /\ op \in [Bots -> Ops]
  /\ stops \in [Bots -> Nat]
  /\ reusable_ids \in Seq(Nat)
  /\ total_spawn_count \in Nat /\ current_spawned \in Int /\ active_connections \in Int
  /\ ramp_up \in BOOLEAN

RelayTypes ==
  /\ DOMAIN sessionMap \subseteq Nat /\ sessionMap \in [DOMAIN sessionMap -> Bots]
  /\ toWorld \in Seq(Nat) /\ tokens \in Seq(Nat) /\ gameSession \in {"none", "up", "down"}
  /\ toLogin \in Seq(Issued) /\ toGame \in Seq(Issued) /\ toGateway \in Seq(Issued)

GatewayTypes ==
  /\ account_id \in [Bots -> Nat \cup {NoAccount}]
  /\ DOMAIN clientMap \subseteq Nat /\ clientMap \in [DOMAIN clientMap -> Bots]
  /\ link \in [Bots -> {"none", "open", "broken"}]
  /\ reader \in [Bots -> {"none", "header", "verified", "listed", "refused", "leaving", "ended"}]
  /\ writer \in [Bots -> {"idle", "leaving"}]
  /\ answered \in [Bots -> BOOLEAN]

TokenTypes ==
  /\ session_token \in [Bots -> Issued \cup {NoToken}]
  /\ DOMAIN pendingTokens \subseteq Nat /\ pendingTokens \in [DOMAIN pendingTokens -> Issued]
  /\ DOMAIN consumed \subseteq Bots /\ consumed \in [DOMAIN consumed -> Issued]

LoginType == login \in [Bots -> {"none", "checking", "accepted", "selected"}]

LEMMA TypesInParts ==
  TypeOK <=> BotTypes /\ RelayTypes /\ GatewayTypes /\ TokenTypes /\ LoginType
BY DEF TypeOK, BotTypes, Ops, RelayTypes, GatewayTypes, TokenTypes, LoginType

\* What the bots do, whatever the servers do meanwhile.
BotMoves ==
  \/ ScheduleNextSpawn \/ ReconnectTick
  \/ \E b \in Bots :
       \/ LoginConnected(b) \/ ConnectFailed(b) \/ ConnectCompletes(b) \/ GatewayConnected(b)
       \/ ReadFailed(b) \/ RunStop(b)
       \/ \E success \in BOOLEAN : HandleGatewayConnectRes(b, success)
       \/ \E t \in Issued : HandleWorldSelectRes(b, t)

LEMMA SpawnTypes ==
  ASSUME BotTypes, NEW n \in Nat, Spawn(n), ramp_up' \in BOOLEAN
  PROVE  BotTypes'
<1>1. /\ born' = born + n /\ born' <= MaxBots
      /\ state' = [b \in Bots |-> IF b \in born+1..born+n THEN "CONNECTING_LOGIN" ELSE state[b]]
      /\ id' = [b \in Bots |-> IF b \in born+1..born+n THEN AcquireBotId(b - born) ELSE id[b]]
      /\ reusable_ids' = SubSeq(reusable_ids, n + 1, Len(reusable_ids))
      /\ total_spawn_count' = total_spawn_count + Fresh(n)
      /\ current_spawned' = current_spawned + n
      /\ op' = [b \in Bots |-> IF b \in born+1..born+n THEN "connecting" ELSE op[b]]
      /\ UNCHANGED <<session_token, stops, active_connections>>
  BY DEF Spawn
<1>2. /\ Len(reusable_ids) \in Nat /\ born \in Nat
      /\ \A i \in 1..Len(reusable_ids) : reusable_ids[i] \in Nat
  BY LenProperties, ElementOfSeq DEF BotTypes
<1>3. \A i \in Nat \ {0} : AcquireBotId(i) \in Nat
  BY <1>2 DEF AcquireBotId, BotTypes
<1>4. id' \in [Bots -> Nat]
  <2>1. \A b \in Bots : b \in born+1..born+n => b - born \in Nat \ {0}
    BY <1>2 DEF Bots
  <2> QED
    BY <1>1, <1>3, <2>1 DEF BotTypes
<1>5. reusable_ids' \in Seq(Nat)
  BY <1>1, <1>2, SubSeqProperties DEF BotTypes
<1>6. total_spawn_count' \in Nat
  BY <1>1, <1>2 DEF BotTypes, Fresh
<1>7. state' \in [Bots -> States] /\ op' \in [Bots -> Ops]
  BY <1>1 DEF BotTypes, States, Ops
<1>8. born' \in 0..MaxBots /\ current_spawned' \in Int
  BY <1>1, BotAssumption DEF BotTypes
<1> QED
  BY <1>1, <1>4, <1>5, <1>6, <1>7, <1>8 DEF BotTypes

LEMMA BotMovesTypes == BotTypes /\ BotMoves => BotTypes'
<1> SUFFICES ASSUME BotTypes, BotMoves PROVE BotTypes'
  OBVIOUS
<1>1. CASE ScheduleNextSpawn \/ ReconnectTick
  <2>1. Deficit \in Nat
    BY BotAssumption DEF Deficit, BotTypes
  <2>2. SpawnCount \in Nat
    BY <2>1, BotAssumption DEF SpawnCount
  <2>3. CASE ScheduleNextSpawn
    <3>1. ramp_up' = (current_spawned' < Target)
      BY <2>3 DEF ScheduleNextSpawn
    <3>2. ramp_up' \in BOOLEAN
      <4>1. CASE current_spawned' < Target
        BY <3>1, <4>1
      <4>2. CASE ~(current_spawned' < Target)
        BY <3>1, <4>2
      <4> QED
        BY <4>1, <4>2
    <3> QED
      BY <2>2, <2>3, <3>2, SpawnTypes DEF ScheduleNextSpawn
  <2>4. CASE ReconnectTick
    <3>1. ramp_up' \in BOOLEAN
      BY <2>4 DEF ReconnectTick, BotTypes
    <3> QED
      BY <2>2, <2>4, <3>1, SpawnTypes DEF ReconnectTick
  <2> QED
    BY <1>1, <2>3, <2>4
<1>2. CASE \E b \in Bots : RunStop(b)
  <2>1. PICK b \in Bots : RunStop(b)
    BY <1>2
  <2>2. /\ stops[b] > 0 /\ stops' = [stops EXCEPT ![b] = @ - 1]
        /\ UNCHANGED <<id, session_token, op>>
    BY <2>1 DEF RunStop
  <2>3. stops' \in [Bots -> Nat]
    BY <2>2 DEF BotTypes
  <2>4. CASE OnSessionDisconnected(b) /\ Goes(b, "DISCONNECTED")
    <3>1. reusable_ids' \in Seq(Nat)
      BY <2>4, AppendProperties DEF OnSessionDisconnected, BotTypes
    <3>2. state' \in [Bots -> States]
      BY <2>4 DEF Goes, BotTypes, States
    <3>3. active_connections' \in Int /\ current_spawned' \in Int
      BY <2>4 DEF OnSessionDisconnected, BotTypes
    <3> QED
      BY <2>2, <2>3, <2>4, <3>1, <3>2, <3>3 DEF OnSessionDisconnected, BotTypes
  <2>5. CASE UNCHANGED <<manager, state, active_connections>>
    BY <2>2, <2>3, <2>5 DEF manager, BotTypes
  <2> QED
    BY <2>1, <2>4, <2>5 DEF RunStop
<1>3. CASE \E b \in Bots :
             \/ LoginConnected(b) \/ ConnectFailed(b) \/ ConnectCompletes(b)
             \/ GatewayConnected(b) \/ ReadFailed(b)
             \/ \E success \in BOOLEAN : HandleGatewayConnectRes(b, success)
             \/ \E t \in Issued : HandleWorldSelectRes(b, t)
  <2>1. PICK b \in Bots :
             \/ LoginConnected(b) \/ ConnectFailed(b) \/ ConnectCompletes(b)
             \/ GatewayConnected(b) \/ ReadFailed(b)
             \/ \E success \in BOOLEAN : HandleGatewayConnectRes(b, success)
             \/ \E t \in Issued : HandleWorldSelectRes(b, t)
    BY <1>3
  <2>2. /\ UNCHANGED <<manager, id>>
        /\ state' = state \/ \E s \in States : state' = [state EXCEPT ![b] = s]
        /\ \E o \in Ops : op' = [op EXCEPT ![b] = o] \/ op' = op
        /\ stops' = stops \/ stops' = [stops EXCEPT ![b] = @ + 1]
        /\ active_connections' = active_connections \/ active_connections' = active_connections + 1
    BY <2>1 DEF LoginConnected, ConnectFailed, ConnectCompletes, GatewayConnected, ReadFailed,
       HandleGatewayConnectRes, HandleWorldSelectRes, Goes, Does, States, Ops
  <2> HIDE DEF States, Ops
  <2>3. state' \in [Bots -> States]
    BY <2>2 DEF BotTypes
  <2>4. op' \in [Bots -> Ops]
    BY <2>2 DEF BotTypes
  <2>5. stops' \in [Bots -> Nat]
    <3>1. CASE stops' = stops
      BY <3>1 DEF BotTypes
    <3>2. CASE stops' = [stops EXCEPT ![b] = @ + 1]
      BY <3>2 DEF BotTypes
    <3> QED
      BY <2>2, <3>1, <3>2
  <2> QED
    BY <2>2, <2>3, <2>4, <2>5 DEF BotTypes, manager
<1> QED
  BY <1>1, <1>2, <1>3 DEF BotMoves

\* What the servers between login and gateway do.
RelayMoves ==
  \/ \E b \in Bots, a \in Nat : LoginSucceeds(b, a)
  \/ \E a \in DOMAIN sessionMap : EraseAccount(a)
  \/ \E a \in Nat : Handle_WorldSelectReq(a)
  \/ Handle_S2SWorldSelectRes \/ Handle_WorldLoginSelectReq
  \/ Handle_WorldGameTokenNotify \/ TakeNotify \/ ConnectToWorld \/ WorldLost

LEMMA TakenOff ==
  ASSUME NEW S, NEW q \in Seq(S), q # <<>>
  PROVE  /\ Head(q) \in S /\ Head(q) = q[1] /\ Len(q) \in Nat \ {0}
         /\ Tail(q) \in Seq(S) /\ Len(Tail(q)) = Len(q) - 1
         /\ \A i \in 1..Len(Tail(q)) : i \in Nat /\ i + 1 \in 2..Len(q) /\ Tail(q)[i] = q[i + 1]
BY HeadTailProperties, LenProperties

LEMMA PutOn ==
  ASSUME NEW S, NEW q \in Seq(S), NEW m \in S
  PROVE  /\ Append(q, m) \in Seq(S) /\ Len(q) \in Nat /\ Len(Append(q, m)) = Len(q) + 1
         /\ Append(q, m)[Len(q) + 1] = m
         /\ \A i \in 1..Len(q) : Append(q, m)[i] = q[i] /\ q[i] \in S
BY AppendProperties, LenProperties, ElementOfSeq

LEMMA SentOn ==
  ASSUME NEW S, NEW q \in Seq(S), NEW m \in S, NEW r \in SentOrLost(q, m)
  PROVE  r \in Seq(S) /\ (r = q \/ r = Append(q, m))
BY PutOn DEF SentOrLost

\* GameServer may be connected or not, which is a link like the others.
LEMMA NotifiedOrNot == \A t : Notified(t) \in SentOrLost(toGame, t)
BY DEF Notified, SentOrLost

\* A token that was made up stays so, and its account with it.
LEMMA TokensGrow ==
  ASSUME RelayTypes, RelayMoves \/ UNCHANGED relayVars
  PROVE  /\ tokens' \in Seq(Nat) /\ Issued \subseteq Issued' /\ Issued \subseteq Nat
         /\ \A t \in Issued : tokens'[t] = tokens[t]
         /\ ~Handle_WorldLoginSelectReq => tokens' = tokens
<1>1. tokens \in Seq(Nat) /\ Len(tokens) \in Nat
  BY LenProperties DEF RelayTypes
<1>2. CASE Handle_WorldLoginSelectReq
  <2>1. Head(toWorld) \in Nat /\ tokens' = Append(tokens, Head(toWorld))
    BY <1>2, TakenOff DEF Handle_WorldLoginSelectReq, StoreToken, RelayTypes, Received
  <2> QED
    BY <1>1, <1>2, <2>1, PutOn DEF Issued
<1>3. CASE ~Handle_WorldLoginSelectReq
  <2>1. tokens' = tokens
    BY <1>3 DEF RelayMoves, LoginSucceeds, EraseAccount, Handle_WorldSelectReq, relayVars,
       Handle_S2SWorldSelectRes, Handle_WorldGameTokenNotify, TakeNotify, ConnectToWorld, WorldLost
  <2> QED
    BY <2>1, <1>1, <1>3 DEF Issued
<1> QED
  BY <1>2, <1>3

LEMMA SeqWider ==
  ASSUME NEW S, NEW T, S \subseteq T, NEW q \in Seq(S)
  PROVE  q \in Seq(T)
BY ElementOfSeq, SeqDef

LEMMA RelayMovesTypes ==
  ASSUME RelayTypes, RelayMoves \/ UNCHANGED relayVars
  PROVE  RelayTypes'
<1>1. /\ tokens' \in Seq(Nat) /\ Issued \subseteq Issued'
      /\ ~Handle_WorldLoginSelectReq => tokens' = tokens
  BY TokensGrow
<1>2. CASE UNCHANGED relayVars
  BY <1>2 DEF relayVars, RelayTypes, Issued
<1>3. CASE Handle_WorldLoginSelectReq
  <2>1. toWorld' \in Seq(Nat)
    BY <1>3, TakenOff DEF Handle_WorldLoginSelectReq, RelayTypes, Received
  <2>2. NewToken \in Issued'
    <3>1. Head(toWorld) \in Nat /\ tokens' = Append(tokens, Head(toWorld))
      BY <1>3, TakenOff DEF Handle_WorldLoginSelectReq, StoreToken, RelayTypes, Received
    <3>2. Len(tokens') = Len(tokens) + 1 /\ Len(tokens) \in Nat
      BY <3>1, PutOn DEF RelayTypes
    <3> QED
      BY <3>2 DEF NewToken, Issued
  <2>3. toLogin \in Seq(Issued') /\ toGame \in Seq(Issued') /\ toGateway \in Seq(Issued')
    BY <1>1, SeqWider DEF RelayTypes
  <2>4. toLogin' \in Seq(Issued') /\ toGame' \in Seq(Issued') /\ toGateway' \in Seq(Issued')
    BY <1>3, <2>2, <2>3, SentOn, NotifiedOrNot DEF Handle_WorldLoginSelectReq, Received
  <2> QED
    BY <1>1, <1>3, <2>1, <2>4 DEF Handle_WorldLoginSelectReq, RelayTypes
<1>4. CASE RelayMoves /\ ~Handle_WorldLoginSelectReq
  <2>1. Issued' = Issued /\ tokens' = tokens
    BY <1>1, <1>4 DEF Issued
  <2> HIDE DEF Issued
  <2>2. CASE \E b \in Bots, a \in Nat : LoginSucceeds(b, a)
    BY <2>1, <2>2 DEF LoginSucceeds, RelayTypes
  <2>3. CASE \E a \in DOMAIN sessionMap : EraseAccount(a)
    BY <2>1, <2>3 DEF EraseAccount, RelayTypes, Restrict
  <2>4. CASE \E a \in Nat : Handle_WorldSelectReq(a)
    BY <2>1, <2>4, SentOn DEF Handle_WorldSelectReq, RelayTypes
  <2>5. CASE Handle_S2SWorldSelectRes \/ TakeNotify
    <3>1. toLogin \in Seq(Issued) /\ toGateway \in Seq(Issued)
      BY DEF RelayTypes
    <3>2. toLogin' \in Seq(Issued) /\ toGateway' \in Seq(Issued)
      BY <2>5, <3>1, TakenOff DEF Handle_S2SWorldSelectRes, TakeNotify, Received
    <3> QED
      BY <2>1, <2>5, <3>2 DEF Handle_S2SWorldSelectRes, TakeNotify, RelayTypes
  <2>6. CASE Handle_WorldGameTokenNotify
    <3>1. toGame' \in Seq(Issued) /\ Head(toGame) \in Issued
      BY <2>6, TakenOff DEF Handle_WorldGameTokenNotify, RelayTypes, Received
    <3>2. toGateway' \in Seq(Issued)
      BY <2>6, <3>1, SentOn DEF Handle_WorldGameTokenNotify, RelayTypes, BroadcastToGateways, Received
    <3> QED
      BY <2>1, <2>6, <3>1, <3>2 DEF Handle_WorldGameTokenNotify, RelayTypes
  <2>7. CASE ConnectToWorld \/ WorldLost
    <3>1. <<>> \in Seq(Issued)
      BY EmptySeq
    <3> QED
      BY <2>1, <2>7, <3>1 DEF ConnectToWorld, WorldLost, ServerAccepted, ServerDisconnected, RelayTypes
  <2> QED
    BY <1>4, <2>2, <2>3, <2>4, <2>5, <2>6, <2>7 DEF RelayMoves
<1> QED
  BY <1>2, <1>3, <1>4

\* What the gateway does.
GatewayMoves ==
  \/ \E a \in Nat, t \in Issued : StorePendingToken(a, t)
  \/ \E s \in Bots, a \in Nat, t \in Issued \cup {NoToken}, expired \in BOOLEAN :
       VerifyAndConsumeToken(s, a, t, expired)
  \/ \E s \in Bots, a \in Nat : EnterMap(s, a)
  \/ \E s \in Bots : do_accept(s) \/ GatewayAlone(s)
  \/ \E s \in Bots :
       /\ link' = [link EXCEPT ![s] = IF @ = "open" THEN "broken" ELSE @]
       /\ UNCHANGED <<pendingTokens, sessionVars>>

LEMMA GatewayMovesTypes ==
  ASSUME GatewayTypes, GatewayMoves \/ UNCHANGED gatewayVars
  PROVE  GatewayTypes'
<1>1. CASE UNCHANGED gatewayVars \/ \E a \in Nat, t \in Issued : StorePendingToken(a, t)
  BY <1>1 DEF gatewayVars, sessionVars, GatewayTypes, StorePendingToken
<1>2. CASE \E s \in Bots, a \in Nat, t \in Issued \cup {NoToken}, expired \in BOOLEAN :
             VerifyAndConsumeToken(s, a, t, expired)
  <2>1. /\ UNCHANGED <<link, account_id, clientMap, writer, answered>>
        /\ \E s \in Bots : reader' = [reader EXCEPT ![s] = "verified"]
                          \/ reader' = [reader EXCEPT ![s] = "refused"]
    BY <1>2 DEF VerifyAndConsumeToken, Reads
  <2> QED
    BY <2>1 DEF GatewayTypes
<1>3. CASE \E s \in Bots, a \in Nat : EnterMap(s, a)
  <2>1. PICK s \in Bots, a \in Nat : EnterMap(s, a)
    BY <1>3
  <2>2. account_id' \in [Bots -> Nat \cup {NoAccount}]
    BY <2>1 DEF EnterMap, GatewayTypes
  <2>3. DOMAIN clientMap' \subseteq Nat /\ clientMap' \in [DOMAIN clientMap' -> Bots]
    BY <2>1 DEF EnterMap, GatewayTypes
  <2> QED
    BY <2>1, <2>2, <2>3 DEF EnterMap, Reads, GatewayTypes
<1>4. CASE \E s \in Bots :
              \/ do_accept(s) \/ SendConnectRes(s) \/ Breaks(s) \/ ReadError(s) \/ WriteError(s)
  <2>1. PICK s \in Bots :
              \/ do_accept(s) \/ SendConnectRes(s) \/ Breaks(s) \/ ReadError(s) \/ WriteError(s)
    BY <1>4
  <2>2. UNCHANGED <<account_id, clientMap>>
    BY <2>1 DEF do_accept, SendConnectRes, Breaks, ReadError, WriteError, sessionVars
  <2>3. /\ link' = link \/ link' = [link EXCEPT ![s] = "open"] \/ link' = [link EXCEPT ![s] = "broken"]
        /\ reader' = reader \/ \E r \in {"header", "leaving", "ended"} : reader' = [reader EXCEPT ![s] = r]
        /\ writer' = writer \/ writer' = [writer EXCEPT ![s] = "leaving"]
        /\ answered' = answered \/ answered' = [answered EXCEPT ![s] = TRUE]
    BY <2>1 DEF do_accept, SendConnectRes, Breaks, ReadError, WriteError, sessionVars, Reads
  <2>4. link' \in [Bots -> {"none", "open", "broken"}]
    BY <2>3 DEF GatewayTypes
  <2>5. reader' \in [Bots -> {"none", "header", "verified", "listed", "refused", "leaving", "ended"}]
    BY <2>3 DEF GatewayTypes
  <2>6. writer' \in [Bots -> {"idle", "leaving"}] /\ answered' \in [Bots -> BOOLEAN]
    BY <2>3 DEF GatewayTypes
  <2> QED
    BY <2>2, <2>4, <2>5, <2>6 DEF GatewayTypes
<1>5. CASE \E s \in Bots : ReaderErases(s) \/ WriterErases(s)
  <2>1. PICK s \in Bots : ReaderErases(s) \/ WriterErases(s)
    BY <1>5
  <2>2. /\ DOMAIN clientMap' \subseteq Nat /\ clientMap' \in [DOMAIN clientMap' -> Bots]
        /\ account_id' \in [Bots -> Nat \cup {NoAccount}]
        /\ UNCHANGED <<link, answered>>
    BY <2>1 DEF ReaderErases, WriterErases, EraseAndClear, GatewayTypes, Restrict
  <2> QED
    BY <2>1, <2>2 DEF ReaderErases, WriterErases, GatewayTypes, Reads
<1>6. CASE \E s \in Bots :
              /\ link' = [link EXCEPT ![s] = IF @ = "open" THEN "broken" ELSE @]
              /\ UNCHANGED <<pendingTokens, sessionVars>>
  BY <1>6 DEF GatewayTypes, sessionVars
<1> QED
  BY <1>1, <1>2, <1>3, <1>4, <1>5, <1>6 DEF GatewayMoves, GatewayAlone

\* Every step is a move of the parts, or leaves them as they are.
Parts ==
  /\ BotMoves \/ UNCHANGED botVars
  /\ RelayMoves \/ UNCHANGED relayVars
  /\ GatewayMoves \/ UNCHANGED gatewayVars

LEMMA IdsAndTokens ==
  ASSUME TypeOK
  PROVE  /\ \A b \in Bots : id[b] \in Nat /\ session_token[b] \in Issued \cup {NoToken}
         /\ toGateway # <<>> => Head(toGateway) \in Issued /\ tokens[Head(toGateway)] \in Nat
         /\ toLogin # <<>> => Head(toLogin) \in Issued /\ tokens[Head(toLogin)] \in Nat
         /\ \A t \in Issued : tokens[t] \in Nat
         /\ \A t : Recipients(t) \subseteq Bots
<1>1. \A t \in Issued : tokens[t] \in Nat
  BY ElementOfSeq, LenProperties DEF TypeOK, Issued
<1> HIDE DEF Issued
<1>2. /\ toGateway # <<>> => Head(toGateway) \in Issued
      /\ toLogin # <<>> => Head(toLogin) \in Issued
  BY TakenOff DEF TypeOK
<1>3. \A t : Recipients(t) \subseteq Bots
  BY DEF Recipients, TypeOK
<1> QED
  BY <1>1, <1>2, <1>3 DEF TypeOK

LEMMA NextInParts == TypeOK /\ [Next]_vars => Parts
<1> SUFFICES ASSUME TypeOK, [Next]_vars PROVE Parts
  OBVIOUS
<1> USE IdsAndTokens
<1>1. CASE UNCHANGED vars
  BY <1>1 DEF vars, Parts
<1>2. CASE ManagerStep
  BY <1>2 DEF ManagerStep, Parts, BotMoves
<1>3. CASE \E b \in Bots : ConnectToLogin(b)
  BY <1>3 DEF ConnectToLogin, Parts, BotMoves
<1>4. CASE \E b \in Bots : LoginAccepted(b)
  BY <1>4 DEF LoginAccepted, Parts, RelayMoves
<1>5. CASE \E b \in Bots : SelectWorld(b)
  BY <1>5 DEF SelectWorld, Parts, RelayMoves
<1>6. CASE \E b \in Bots : AcceptBot(b) \/ ConnectToGateway(b)
  BY <1>6 DEF AcceptBot, ConnectToGateway, Parts, BotMoves, GatewayMoves
<1>7. CASE \E b \in Bots : VerifyToken(b)
  BY <1>7 DEF VerifyToken, Parts, GatewayMoves
<1>8. CASE \E b \in Bots : ListSession(b)
  BY <1>8 DEF ListSession, Parts, GatewayMoves
<1>9. CASE \E b \in Bots : BotAdmitted(b)
  <2>1. PICK b \in Bots : BotAdmitted(b)
    BY <1>9
  <2>2. (b \in DOMAIN consumed) \in BOOLEAN
    OBVIOUS
  <2>3. \E success \in BOOLEAN : HandleGatewayConnectRes(b, success)
    BY <2>1, <2>2, Zenon DEF BotAdmitted
  <2> QED
    BY <2>1, <2>3 DEF BotAdmitted, Parts, BotMoves
<1>10. CASE \E b \in Bots : ReadFails(b)
  BY <1>10 DEF ReadFails, Parts, BotMoves
<1>11. CASE \E b \in Bots : StopBot(b)
  BY <1>11 DEF StopBot, Parts, BotMoves, GatewayMoves
<1>12. CASE \E b \in Bots : ConnectFailed(b) /\ UNCHANGED <<relayVars, gatewayVars, login>>
  BY <1>12 DEF Parts, BotMoves
<1>13. CASE TokenForBot
  <2>1. RelayMoves /\ Head(toLogin) \in Issued
    BY <1>13 DEF TokenForBot, RelayMoves, Handle_S2SWorldSelectRes, Received
  <2> QED
    BY <1>13, <2>1 DEF TokenForBot, Parts, BotMoves
<1>14. CASE Handle_TokenNotify
  <2>1. \E a \in Nat, t \in Issued : StorePendingToken(a, t)
    BY <1>14 DEF Handle_TokenNotify, TakeNotify, Received
  <2> QED
    BY <1>14, <2>1 DEF Handle_TokenNotify, Parts, GatewayMoves, RelayMoves
<1>15. CASE RelayAlone /\ UNCHANGED <<botVars, gatewayVars, login>>
  BY <1>15 DEF RelayAlone, Parts, RelayMoves
<1>16. CASE \E s \in Sessions : GatewayAlone(s) /\ UNCHANGED <<botVars, relayVars, login>>
  BY <1>16, SessionAssumption DEF Parts, GatewayMoves
<1> QED
  BY <1>1, <1>2, <1>3, <1>4, <1>5, <1>6, <1>7, <1>8, <1>9, <1>10, <1>11, <1>12, <1>13, <1>14,
     <1>15, <1>16 DEF Next, BotStep, ServerStep

\* Only WorldSelectRes gives a bot a token.
LEMMA SessionTokenSet ==
  ASSUME TypeOK, [Next]_vars
  PROVE  \/ UNCHANGED session_token
         \/ \E b \in Bots : /\ TokenForBot /\ b \in Recipients(Head(toLogin)) /\ Waits(b)
                            /\ HandleWorldSelectRes(b, Head(toLogin))
<1>1. CASE TokenForBot
  BY <1>1, IdsAndTokens DEF TokenForBot, botVars
<1>2. CASE ~TokenForBot
  BY <1>2 DEF Next, BotStep, ServerStep, ManagerStep, ScheduleNextSpawn, ReconnectTick, Spawn,
     ConnectToLogin, LoginConnected, LoginAccepted, SelectWorld, AcceptBot,
     ConnectCompletes, ConnectToGateway, GatewayConnected, VerifyToken, ListSession, BotAdmitted, HandleGatewayConnectRes, ReadFails, ReadFailed,
     StopBot, RunStop, ConnectFailed, Handle_TokenNotify, RelayAlone, GatewayAlone, vars, botVars
<1> QED
  BY <1>1, <1>2

\* Only a notification sets a pending token, and only a request uses one up.
LEMMA PendingTokensSet ==
  ASSUME TypeOK, [Next]_vars
  PROVE  \/ UNCHANGED <<pendingTokens, consumed>>
         \/ Handle_TokenNotify
         \/ \E b \in Bots : VerifyToken(b)
<1>1. CASE \/ UNCHANGED gatewayVars \/ Handle_TokenNotify \/ \E b \in Bots : VerifyToken(b)
  BY <1>1 DEF gatewayVars, sessionVars
<1>2. CASE \E s \in Bots : AcceptBot(s) \/ ListSession(s) \/ StopBot(s) \/ GatewayAlone(s)
  BY <1>2 DEF AcceptBot, ListSession, StopBot, GatewayAlone, do_accept, EnterMap,
     SendConnectRes, Breaks, ReadError, WriteError, ReaderErases, WriterErases, EraseAndClear, sessionVars
<1> QED
  BY <1>1, <1>2, SessionAssumption DEF Next, BotStep, ServerStep, ManagerStep, ConnectToLogin, LoginAccepted,
     SelectWorld, ConnectToGateway, BotAdmitted, ReadFails, TokenForBot, RelayAlone, vars

LEMMA TokenTypesKept ==
  ASSUME TypeOK, [Next]_vars, Issued \subseteq Issued'
  PROVE  TokenTypes'
<1> USE DEF TokenTypes
<1>1. session_token' \in [Bots -> Issued' \cup {NoToken}]
  <2>1. session_token \in [Bots -> Issued' \cup {NoToken}]
    BY DEF TypeOK
  <2>2. toLogin # <<>> => Head(toLogin) \in Issued'
    BY IdsAndTokens
  <2> QED
    BY <2>1, <2>2, SessionTokenSet DEF TokenForBot, Handle_S2SWorldSelectRes, HandleWorldSelectRes, Received
<1>2. /\ DOMAIN pendingTokens' \subseteq Nat /\ pendingTokens' \in [DOMAIN pendingTokens' -> Issued']
      /\ DOMAIN consumed' \subseteq Bots /\ consumed' \in [DOMAIN consumed' -> Issued']
  <2>1. CASE UNCHANGED <<pendingTokens, consumed>>
    BY <2>1 DEF TypeOK
  <2>2. CASE Handle_TokenNotify
    <3>1. /\ Head(toGateway) \in Issued' /\ tokens[Head(toGateway)] \in Nat
          /\ StorePendingToken(tokens[Head(toGateway)], Head(toGateway))
      BY <2>2, IdsAndTokens DEF Handle_TokenNotify, TakeNotify, Received
    <3> QED
      BY <3>1 DEF StorePendingToken, sessionVars, TypeOK
  <2>3. CASE \E b \in Bots : VerifyToken(b)
    <3>1. PICK b \in Bots, expired \in BOOLEAN :
            VerifyAndConsumeToken(b, id[b], session_token[b], expired)
      BY <2>3 DEF VerifyToken
    <3>2. DOMAIN pendingTokens' \subseteq Nat /\ pendingTokens' \in [DOMAIN pendingTokens' -> Issued']
      BY <3>1 DEF VerifyAndConsumeToken, Restrict, TypeOK
    <3>3. DOMAIN consumed' \subseteq Bots /\ consumed' \in [DOMAIN consumed' -> Issued']
      BY <3>1 DEF VerifyAndConsumeToken, Matches, Known, TypeOK
    <3> QED
      BY <3>2, <3>3
  <2> QED
    BY <2>1, <2>2, <2>3, PendingTokensSet
<1> QED
  BY <1>1, <1>2

LEMMA TypeInductive == TypeOK /\ [Next]_vars => TypeOK'
<1> SUFFICES ASSUME TypeOK, [Next]_vars PROVE TypeOK'
  OBVIOUS
<1>1. BotTypes /\ RelayTypes /\ GatewayTypes /\ LoginType /\ Parts
  BY TypesInParts, NextInParts
<1>2. BotTypes'
  <2>1. UNCHANGED botVars => BotTypes'
    BY <1>1 DEF BotTypes, botVars, manager
  <2> QED
    BY <2>1, <1>1, BotMovesTypes DEF Parts
<1>3. RelayTypes' /\ Issued \subseteq Issued'
  BY <1>1, RelayMovesTypes, TokensGrow DEF Parts
<1>4. GatewayTypes'
  BY <1>1, GatewayMovesTypes DEF Parts
<1>5. TokenTypes'
  BY <1>3, TokenTypesKept
<1>6. LoginType'
  <2>1. \/ UNCHANGED login
        \/ \E b \in Bots, l \in {"checking", "accepted", "selected"} : Logs(b, l)
    BY DEF Next, BotStep, ServerStep, ManagerStep, ConnectToLogin, LoginAccepted, SelectWorld,
       AcceptBot, ConnectToGateway, VerifyToken, ListSession, BotAdmitted, ReadFails, StopBot, TokenForBot,
       Handle_TokenNotify, vars
  <2> QED
    BY <1>1, <2>1 DEF LoginType, Logs
<1> QED
  BY <1>2, <1>3, <1>4, <1>5, <1>6, TypesInParts DEF TypeOK, BotTypes, Ops, RelayTypes, GatewayTypes,
     TokenTypes, LoginType

LEMMA InitType == Init => TypeOK
<1> SUFFICES ASSUME Init PROVE TypeOK
  OBVIOUS
<1> USE DEF Init
<1>1. BotTypes /\ LoginType
  BY BotAssumption DEF InitBots, BotTypes, Ops, States, LoginType
<1>2. RelayTypes
  BY DEF InitRelay, RelayTypes
<1>3. GatewayTypes
  BY SessionAssumption DEF InitGateway, GatewayTypes
<1>4. TokenTypes
  BY DEF InitBots, InitGateway, TokenTypes
<1> QED
  BY <1>1, <1>2, <1>3, <1>4, TypesInParts

\* The types of the whole, for every number of bots.
THEOREM TypeCorrect == Spec => []TypeOK
BY InitType, TypeInductive, PTL DEF Spec

-------------------------------------------------------------------------------
(* Sessions.                                                               *)

\* How far the read loop of a session is.
ReaderInv ==
  \A s \in Bots :
    /\ link[s] = "none" => reader[s] = "none"
    /\ reader[s] \in {"none", "verified", "refused", "listed"} => ~answered[s]

\* A session is entered into clientMap while its request is handled.
EnteredInv == \A a \in DOMAIN clientMap : answered[clientMap[a]] \/ reader[clientMap[a]] = "listed"

\* A token is used up while the request is handled.
ConsumedInv == \A s \in DOMAIN consumed : answered[s] \/ reader[s] \in {"verified", "listed"}

SessionInv == ReaderInv /\ EnteredInv /\ ConsumedInv /\ ListedMeansHeld

LEMMA InitSession == Init => SessionInv
BY SessionAssumption DEF Init, InitGateway, SessionInv, ReaderInv, EnteredInv, ConsumedInv, ListedMeansHeld

LEMMA SessionInductive == TypeOK /\ SessionInv /\ [Next]_vars => SessionInv'
<1> SUFFICES ASSUME TypeOK, SessionInv, [Next]_vars PROVE SessionInv'
  OBVIOUS
<1> USE DEF SessionInv
<1>1. /\ GatewayMoves \/ UNCHANGED gatewayVars
      /\ GatewayTypes
  BY NextInParts, TypesInParts DEF Parts
<1>2. CASE UNCHANGED gatewayVars \/ \E a \in Nat, t \in Issued : StorePendingToken(a, t)
  <2>1. UNCHANGED <<link, sessionVars>>
    BY <1>2 DEF gatewayVars, StorePendingToken
  <2> QED
    BY <2>1 DEF sessionVars, ReaderInv, EnteredInv, ConsumedInv, ListedMeansHeld
<1>3. CASE \E s \in Bots, a \in Nat, t \in Issued \cup {NoToken}, expired \in BOOLEAN :
             VerifyAndConsumeToken(s, a, t, expired)
  <2>1. PICK s \in Bots : \E r \in {"verified", "refused"} :
          /\ reader[s] = "header" /\ link[s] = "open" /\ ~answered[s]
          /\ reader' = [reader EXCEPT ![s] = r]
          /\ r = "refused" => UNCHANGED consumed
          /\ DOMAIN consumed' \subseteq DOMAIN consumed \cup {s}
          /\ UNCHANGED <<link, account_id, clientMap, writer, answered>>
    BY <1>3 DEF VerifyAndConsumeToken, Reads
  <2>2. s \notin DOMAIN consumed
    BY <2>1 DEF ConsumedInv
  <2>3. \A a \in DOMAIN clientMap : clientMap[a] # s
    BY <2>1 DEF EnteredInv
  <2>4. ReaderInv' /\ EnteredInv' /\ ListedMeansHeld'
    BY <1>1, <2>1, <2>3 DEF GatewayTypes, ReaderInv, EnteredInv, ListedMeansHeld
  <2>5. ConsumedInv'
    BY <1>1, <2>1, <2>2 DEF GatewayTypes, ConsumedInv
  <2> QED
    BY <2>4, <2>5
<1>4. CASE \E s \in Bots, a \in Nat : EnterMap(s, a)
  <2>1. PICK s \in Bots, a \in Nat : EnterMap(s, a)
    BY <1>4
  <2>2. /\ reader[s] = "verified" /\ reader' = [reader EXCEPT ![s] = "listed"]
        /\ account_id' = [account_id EXCEPT ![s] = a]
        /\ clientMap' = [x \in DOMAIN clientMap \cup {a} |-> IF x = a THEN s ELSE clientMap[x]]
        /\ UNCHANGED <<pendingTokens, link, writer, consumed, answered>>
    BY <2>1 DEF EnterMap, Reads
  <2>3. \A x \in DOMAIN clientMap : clientMap[x] # s
    BY <2>2 DEF ReaderInv, EnteredInv
  <2>4. ReaderInv' /\ ConsumedInv'
    BY <1>1, <2>2 DEF GatewayTypes, ReaderInv, ConsumedInv
  <2>5. EnteredInv' /\ ListedMeansHeld'
    BY <1>1, <2>2, <2>3 DEF GatewayTypes, EnteredInv, ListedMeansHeld
  <2> QED
    BY <2>4, <2>5
<1>5. CASE \E s \in Bots : do_accept(s)
  <2>1. PICK s \in Bots : do_accept(s)
    BY <1>5
  <2>2. /\ reader[s] = "none" /\ ~answered[s]
        /\ link' = [link EXCEPT ![s] = "open"] /\ reader' = [reader EXCEPT ![s] = "header"]
        /\ UNCHANGED <<account_id, clientMap, consumed, answered>>
    BY <2>1 DEF do_accept, Reads, ReaderInv
  <2>3. \A x \in DOMAIN clientMap : clientMap[x] # s
    BY <2>2 DEF EnteredInv
  <2>4. s \notin DOMAIN consumed
    BY <2>2 DEF ConsumedInv
  <2> QED
    BY <1>1, <2>2, <2>3, <2>4 DEF GatewayTypes, ReaderInv, EnteredInv, ConsumedInv, ListedMeansHeld
<1>6. CASE \E s \in Bots : SendConnectRes(s)
  <2>1. PICK s \in Bots : SendConnectRes(s)
    BY <1>6
  <2>2. /\ reader' = [reader EXCEPT ![s] = "header"] /\ answered' = [answered EXCEPT ![s] = TRUE]
        /\ reader[s] \in {"listed", "refused"}
        /\ UNCHANGED <<link, account_id, clientMap, consumed>>
    BY <2>1 DEF SendConnectRes, Reads
  <2> QED
    BY <1>1, <2>2 DEF GatewayTypes, ReaderInv, EnteredInv, ConsumedInv, ListedMeansHeld
<1>7. CASE \E s \in Bots :
              \/ Breaks(s)
              \/ /\ link' = [link EXCEPT ![s] = IF @ = "open" THEN "broken" ELSE @]
                 /\ UNCHANGED <<pendingTokens, sessionVars>>
  <2>1. PICK s \in Bots : /\ link' = link \/ (link[s] = "open" /\ link' = [link EXCEPT ![s] = "broken"])
                         /\ UNCHANGED sessionVars
    <3>1. PICK s \in Bots : \/ Breaks(s)
                          \/ /\ link' = [link EXCEPT ![s] = IF @ = "open" THEN "broken" ELSE @]
                             /\ UNCHANGED <<pendingTokens, sessionVars>>
      BY <1>7
    <3>2. Breaks(s) => link[s] = "open"
      BY DEF Breaks
    <3>3. CASE link[s] = "open"
      BY <3>1, <3>3 DEF Breaks
    <3>4. CASE link[s] # "open"
      BY <3>1, <3>2, <3>4, <1>1 DEF GatewayTypes
    <3> QED
      BY <3>3, <3>4
  <2>2. UNCHANGED <<account_id, clientMap, reader, consumed, answered>>
    BY <2>1 DEF sessionVars
  <2>3. ReaderInv'
    BY <1>1, <2>1, <2>2 DEF GatewayTypes, ReaderInv
  <2> QED
    BY <2>2, <2>3 DEF EnteredInv, ConsumedInv, ListedMeansHeld
<1>8. CASE \E s \in Bots : ReadError(s) \/ WriteError(s)
  <2>1. PICK s \in Bots :
          /\ \/ UNCHANGED reader
             \/ /\ reader[s] = "header" /\ link[s] = "broken"
                /\ \E r \in {"leaving", "ended"} : reader' = [reader EXCEPT ![s] = r]
          /\ UNCHANGED <<link, account_id, clientMap, consumed, answered>>
    BY <1>8 DEF ReadError, WriteError, Reads
  <2>2. ReaderInv'
    BY <1>1, <2>1 DEF GatewayTypes, ReaderInv
  <2>3. \A x \in Bots : reader'[x] = reader[x] \/ (x = s /\ reader[x] = "header")
    BY <1>1, <2>1 DEF GatewayTypes
  <2>4. EnteredInv'
    BY <1>1, <2>1, <2>3 DEF GatewayTypes, EnteredInv
  <2>5. ConsumedInv'
    BY <2>1, <2>3, TypesInParts DEF TokenTypes, ConsumedInv
  <2>6. ListedMeansHeld'
    BY <2>1 DEF ListedMeansHeld
  <2> QED
    BY <2>2, <2>4, <2>5, <2>6
<1>9. CASE \E s \in Bots : ReaderErases(s) \/ WriterErases(s)
  <2>1. PICK s \in Bots :
          /\ clientMap' = Restrict(clientMap, DOMAIN clientMap \ {account_id[s]})
          /\ account_id' = [account_id EXCEPT ![s] = NoAccount]
          /\ UNCHANGED reader \/ (reader[s] = "leaving" /\ reader' = [reader EXCEPT ![s] = "ended"])
          /\ UNCHANGED <<link, consumed, answered>>
    BY <1>9 DEF ReaderErases, WriterErases, EraseAndClear, Unlisted, Reads
  <2>2. /\ DOMAIN clientMap' = DOMAIN clientMap \ {account_id[s]}
        /\ \A a \in DOMAIN clientMap' : clientMap'[a] = clientMap[a] /\ clientMap[a] # s
    BY <2>1 DEF Restrict, ListedMeansHeld
  <2>3. \A x \in Bots : reader'[x] = reader[x] \/ (reader[x] = "leaving" /\ reader'[x] = "ended")
    <3>1. CASE UNCHANGED reader
      BY <3>1
    <3>2. CASE reader[s] = "leaving" /\ reader' = [reader EXCEPT ![s] = "ended"]
      BY <1>1, <3>2 DEF GatewayTypes
    <3> QED
      BY <2>1, <3>1, <3>2
  <2>4. ReaderInv'
    BY <2>1, <2>3 DEF ReaderInv
  <2>5. ConsumedInv'
    BY <2>1, <2>3, TypesInParts DEF TokenTypes, ConsumedInv
  <2>6. EnteredInv'
    BY <1>1, <2>1, <2>2, <2>3 DEF GatewayTypes, EnteredInv
  <2>7. ListedMeansHeld'
    BY <1>1, <2>1, <2>2 DEF GatewayTypes, ListedMeansHeld
  <2> QED
    BY <2>4, <2>5, <2>6, <2>7
<1> QED
  BY <1>1, <1>2, <1>3, <1>4, <1>5, <1>6, <1>7, <1>8, <1>9 DEF GatewayMoves, GatewayAlone

\* clientMap lists only sessions that hold the account.
THEOREM ListedSafe == Spec => []ListedMeansHeld
<1>1. Init => TypeOK /\ SessionInv
  BY InitType, InitSession
<1>2. TypeOK /\ SessionInv /\ [Next]_vars => (TypeOK /\ SessionInv)'
  BY TypeInductive, SessionInductive
<1>3. SessionInv => ListedMeansHeld
  BY DEF SessionInv
<1> QED
  BY <1>1, <1>2, <1>3, PTL DEF Spec

\* The read loop of a session that has ended leaves no account behind: either it
\* cleared it itself or it ended because there was none.
EndedInv == \A s \in Bots : reader[s] = "ended" => account_id[s] = NoAccount

LEMMA EndedInductive ==
  ASSUME TypeOK, ReaderInv, EndedInv, [Next]_vars
  PROVE  EndedInv' /\ \A s \in Bots : reader[s] = "ended" => reader'[s] = "ended"
<1>1. /\ GatewayMoves \/ UNCHANGED gatewayVars
      /\ GatewayTypes
  BY NextInParts, TypesInParts DEF Parts
<1>2. \/ UNCHANGED <<reader, account_id>>
      \/ \E s \in Bots, r \in {"header", "verified", "listed", "refused", "leaving"} :
           /\ reader[s] # "ended" /\ reader' = [reader EXCEPT ![s] = r]
           /\ \/ UNCHANGED account_id
              \/ \E a \in Nat : account_id' = [account_id EXCEPT ![s] = a]
      \/ \E s \in Bots :
           /\ account_id[s] = NoAccount \/ account_id' = [account_id EXCEPT ![s] = NoAccount]
           /\ account_id' \in {account_id, [account_id EXCEPT ![s] = NoAccount]}
           /\ reader' \in {reader, [reader EXCEPT ![s] = "ended"]}
  <2>1. CASE UNCHANGED gatewayVars
             \/ (\E a \in Nat, t \in Issued : StorePendingToken(a, t))
             \/ \E s \in Bots :
                  \/ Breaks(s) \/ WriteError(s)
                  \/ /\ link' = [link EXCEPT ![s] = IF @ = "open" THEN "broken" ELSE @]
                     /\ UNCHANGED <<pendingTokens, sessionVars>>
    BY <2>1 DEF gatewayVars, sessionVars, StorePendingToken, Breaks, WriteError
  <2>2. ASSUME NEW s \in Bots, NEW a \in Nat, NEW t \in Issued \cup {NoToken}, NEW expired \in BOOLEAN,
               VerifyAndConsumeToken(s, a, t, expired)
        PROVE  /\ reader[s] = "header" /\ UNCHANGED account_id
               /\ \E r \in {"verified", "refused"} : reader' = [reader EXCEPT ![s] = r]
    BY <2>2 DEF VerifyAndConsumeToken, Reads
  <2>3. ASSUME NEW s \in Bots, NEW a \in Nat, EnterMap(s, a)
        PROVE  /\ reader[s] = "verified" /\ reader' = [reader EXCEPT ![s] = "listed"]
               /\ account_id' = [account_id EXCEPT ![s] = a]
    BY <2>3 DEF EnterMap, Reads
  <2>4. ASSUME NEW s \in Bots, do_accept(s)
        PROVE  /\ reader[s] = "none" /\ reader' = [reader EXCEPT ![s] = "header"]
               /\ UNCHANGED account_id
    BY <2>4 DEF do_accept, Reads, ReaderInv
  <2>5. ASSUME NEW s \in Bots, SendConnectRes(s)
        PROVE  /\ reader[s] # "ended" /\ reader' = [reader EXCEPT ![s] = "header"]
               /\ UNCHANGED account_id
    BY <2>5 DEF SendConnectRes, Reads
  <2>6. ASSUME NEW s \in Bots, ReadError(s)
        PROVE  /\ reader[s] = "header" /\ UNCHANGED account_id
               /\ \/ reader' = [reader EXCEPT ![s] = "leaving"]
                  \/ account_id[s] = NoAccount /\ reader' = [reader EXCEPT ![s] = "ended"]
    BY <2>6 DEF ReadError, Reads, HasAccount
  <2>7. ASSUME NEW s \in Bots, ReaderErases(s) \/ WriterErases(s)
        PROVE  /\ account_id' = [account_id EXCEPT ![s] = NoAccount]
               /\ reader' \in {reader, [reader EXCEPT ![s] = "ended"]}
    BY <2>7 DEF ReaderErases, WriterErases, EraseAndClear, Reads
  <2>8. CASE \E s \in Bots : do_accept(s) \/ SendConnectRes(s)
    BY <2>8, <2>4, <2>5
  <2>9. CASE \E s \in Bots : ReadError(s)
    BY <2>9, <2>6
  <2>10. CASE \E s \in Bots : ReaderErases(s) \/ WriterErases(s)
    BY <2>10, <2>7
  <2>11. CASE \E s \in Bots, a \in Nat, t \in Issued \cup {NoToken}, expired \in BOOLEAN :
                VerifyAndConsumeToken(s, a, t, expired)
    BY <2>11, <2>2
  <2>12. CASE \E s \in Bots, a \in Nat : EnterMap(s, a)
    BY <2>12, <2>3
  <2> QED
    BY <1>1, <2>1, <2>8, <2>9, <2>10, <2>11, <2>12 DEF GatewayMoves, GatewayAlone
<1>3. reader \in [Bots -> {"none", "header", "verified", "listed", "refused", "leaving", "ended"}]
      /\ account_id \in [Bots -> Nat \cup {NoAccount}]
  BY <1>1 DEF GatewayTypes
<1>4. CASE UNCHANGED <<reader, account_id>>
  BY <1>4 DEF EndedInv
<1>5. ASSUME NEW s \in Bots, NEW r \in {"header", "verified", "listed", "refused", "leaving"},
             reader[s] # "ended", reader' = [reader EXCEPT ![s] = r],
             UNCHANGED account_id \/ \E a \in Nat : account_id' = [account_id EXCEPT ![s] = a]
      PROVE  EndedInv' /\ \A x \in Bots : reader[x] = "ended" => reader'[x] = "ended"
  <2>1. \A x \in Bots : reader'[x] = IF x = s THEN r ELSE reader[x]
    BY <1>3, <1>5
  <2>2. \A x \in Bots : x # s => account_id'[x] = account_id[x]
    BY <1>3, <1>5
  <2> QED
    BY <1>5, <2>1, <2>2 DEF EndedInv
<1>6. ASSUME NEW s \in Bots,
             account_id[s] = NoAccount \/ account_id' = [account_id EXCEPT ![s] = NoAccount],
             account_id' \in {account_id, [account_id EXCEPT ![s] = NoAccount]},
             reader' \in {reader, [reader EXCEPT ![s] = "ended"]}
      PROVE  EndedInv' /\ \A x \in Bots : reader[x] = "ended" => reader'[x] = "ended"
  <2>1. account_id'[s] = NoAccount
    BY <1>3, <1>6
  <2>2. \A x \in Bots : x # s => account_id'[x] = account_id[x] /\ reader'[x] = reader[x]
    BY <1>3, <1>6
  <2>3. reader[s] = "ended" => reader'[s] = "ended"
    BY <1>3, <1>6
  <2> QED
    BY <2>1, <2>2, <2>3 DEF EndedInv
<1> QED
  BY <1>2, <1>4, <1>5, <1>6

\* Once the read loop of a session has ended, whichever of its two disconnects came
\* first, no entry of clientMap names the session any more, nor ever will: what is
\* safety of GoneIsUnlisted.
THEOREM EndedForGood ==
  ASSUME NEW s \in Bots
  PROVE  Spec => [](reader[s] = "ended" => [](\A a \in DOMAIN clientMap : clientMap[a] # s))
<1> DEFINE Ended == reader[s] = "ended"
           Unlists == \A a \in DOMAIN clientMap : clientMap[a] # s
           I == TypeOK /\ SessionInv /\ EndedInv
<1>1. Init => I
  <2>1. Init => EndedInv
    BY SessionAssumption DEF Init, InitGateway, EndedInv
  <2> QED
    BY <2>1, InitType, InitSession
<1>2. I /\ [Next]_vars => I'
  BY TypeInductive, SessionInductive, EndedInductive DEF SessionInv
<1>3. I /\ Ended /\ [Next]_vars => Ended'
  BY EndedInductive DEF SessionInv
<1>4. I /\ Ended => Unlists
  <2> SUFFICES ASSUME I, Ended, NEW a \in DOMAIN clientMap, clientMap[a] = s PROVE FALSE
    OBVIOUS
  <2>1. a \in Nat /\ account_id[s] = a
    BY TypesInParts DEF GatewayTypes, SessionInv, ListedMeansHeld
  <2>2. account_id[s] = NoAccount
    BY DEF EndedInv
  <2> QED
    BY <2>1, <2>2, NoneAssumption
<1> HIDE DEF Ended, Unlists, I
<1>5. Spec => [](Ended => []Unlists)
  BY <1>1, <1>2, <1>3, <1>4, PTL DEF Spec
<1> QED
  BY <1>5 DEF Ended, Unlists

-------------------------------------------------------------------------------
(* Tokens.                                                                 *)

Increasing(q) == \A i, j \in 1..Len(q) : i < j => q[i] < q[j]

LEMMA OrderedRest ==
  ASSUME NEW q \in Seq(Nat), q # <<>>, Increasing(q)
  PROVE  /\ Head(q) \in Range(q) /\ Increasing(Tail(q)) /\ Range(Tail(q)) \subseteq Range(q)
         /\ \A x \in Range(Tail(q)) : Head(q) < x
<1>1. /\ Head(q) = q[1] /\ Len(q) \in Nat \ {0} /\ Len(Tail(q)) = Len(q) - 1
      /\ Tail(q) \in Seq(Nat)
      /\ \A i \in 1..Len(Tail(q)) : i \in Nat /\ i + 1 \in 2..Len(q) /\ Tail(q)[i] = q[i + 1]
  BY TakenOff
<1>2. DOMAIN q = 1..Len(q) /\ DOMAIN Tail(q) = 1..Len(Tail(q))
  BY <1>1, LenProperties
<1>3. Increasing(Tail(q))
  BY <1>1 DEF Increasing
<1> QED
  BY <1>1, <1>2, <1>3 DEF Range, Increasing

LEMMA OrderedMore ==
  ASSUME NEW q \in Seq(Nat), NEW m \in Nat, Increasing(q), \A x \in Range(q) : x < m,
         NEW r \in SentOrLost(q, m)
  PROVE  Increasing(r) /\ Range(r) \subseteq Range(q) \cup {m}
<1>1. CASE r = q
  BY <1>1
<1>2. CASE r = Append(q, m)
  <2>1. /\ r \in Seq(Nat) /\ Len(q) \in Nat /\ Len(r) = Len(q) + 1 /\ r[Len(q) + 1] = m
        /\ \A i \in 1..Len(q) : r[i] = q[i] /\ q[i] \in Nat
    BY <1>2, PutOn
  <2>2. DOMAIN q = 1..Len(q) /\ DOMAIN r = 1..Len(r)
    BY <2>1, LenProperties
  <2>3. \A i \in 1..Len(q) : q[i] < m
    BY <2>2 DEF Range
  <2>4. \A i \in 1..Len(r) : i \in 1..Len(q) \/ i = Len(q) + 1
    BY <2>1
  <2>5. Range(r) \subseteq Range(q) \cup {m}
    BY <2>1, <2>2, <2>4 DEF Range
  <2>6. Increasing(r)
    <3> SUFFICES ASSUME NEW i \in 1..Len(r), NEW j \in 1..Len(r), i < j PROVE r[i] < r[j]
      BY DEF Increasing
    <3>1. i \in 1..Len(q)
      BY <2>1, <2>4
    <3> QED
      BY <2>1, <2>3, <2>4, <3>1 DEF Increasing
  <2> QED
    BY <2>5, <2>6
<1> QED
  BY <1>1, <1>2 DEF SentOrLost

\* What the gateway keeps is older than what is on its link, and that is older
\* than what GameServer is still to pass on.
LinksInv ==
  /\ Increasing(toLogin) /\ Increasing(toGame) /\ Increasing(toGateway)
  /\ \A x \in Range(toGateway), y \in Range(toGame) : x < y
  /\ \A a \in DOMAIN pendingTokens, x \in Range(toGateway) \cup Range(toGame) :
       pendingTokens[a] < x

LEMMA LinksHoldNumbers ==
  ASSUME TypeOK
  PROVE  /\ toLogin \in Seq(Nat) /\ toGame \in Seq(Nat) /\ toGateway \in Seq(Nat)
         /\ Range(toLogin) \subseteq Issued /\ Range(toGame) \subseteq Issued
         /\ Range(toGateway) \subseteq Issued
         /\ \A a \in DOMAIN pendingTokens : pendingTokens[a] \in Issued
         /\ Issued \subseteq Nat /\ NewToken \in Nat /\ \A x \in Issued : x < NewToken
<1>1. Len(tokens) \in Nat
  BY LenProperties DEF TypeOK
<1>2. Issued \subseteq Nat /\ NewToken \in Nat /\ \A x \in Issued : x < NewToken
  BY <1>1 DEF Issued, NewToken
<1> HIDE DEF Issued
<1>3. toLogin \in Seq(Issued) /\ toGame \in Seq(Issued) /\ toGateway \in Seq(Issued)
  BY DEF TypeOK
<1>4. \A q \in Seq(Issued) : q \in Seq(Nat) /\ Range(q) \subseteq Issued
  BY <1>2, SeqWider, ElementOfSeq, LenProperties DEF Range
<1> QED
  BY <1>2, <1>3, <1>4 DEF TypeOK

\* Apart from a notification, pending tokens only go.
LEMMA PendingKept ==
  ASSUME TypeOK, [Next]_vars, ~Handle_TokenNotify
  PROVE  \A a \in DOMAIN pendingTokens' :
           a \in DOMAIN pendingTokens /\ pendingTokens'[a] = pendingTokens[a]
<1>1. CASE UNCHANGED <<pendingTokens, consumed>>
  BY <1>1
<1>2. CASE \E b \in Bots : VerifyToken(b)
  BY <1>2 DEF VerifyToken, VerifyAndConsumeToken, Restrict
<1> QED
  BY <1>1, <1>2, PendingTokensSet

LEMMA InitLinks == Init => LinksInv
BY DEF Init, InitRelay, InitGateway, LinksInv, Increasing, Range

LEMMA LinksInductive == TypeOK /\ LinksInv /\ [Next]_vars => LinksInv'
<1> SUFFICES ASSUME TypeOK, LinksInv, [Next]_vars PROVE LinksInv'
  OBVIOUS
<1> USE LinksHoldNumbers
<1>1. CASE Handle_TokenNotify
  <2>1. /\ toGateway # <<>> /\ toGateway' = Tail(toGateway)
        /\ UNCHANGED <<toLogin, toGame>>
        /\ \A a \in DOMAIN pendingTokens' :
             \/ pendingTokens'[a] = Head(toGateway)
             \/ a \in DOMAIN pendingTokens /\ pendingTokens'[a] = pendingTokens[a]
    BY <1>1 DEF Handle_TokenNotify, TakeNotify, StorePendingToken, Received
  <2>2. /\ Increasing(toGateway') /\ Head(toGateway) \in Range(toGateway)
        /\ Range(toGateway') \subseteq Range(toGateway)
        /\ \A x \in Range(toGateway') : Head(toGateway) < x
    BY <2>1, OrderedRest DEF LinksInv
  <2> QED
    BY <2>1, <2>2 DEF LinksInv
<1>2. CASE ~Handle_TokenNotify
  <2>1. \A a \in DOMAIN pendingTokens' :
          a \in DOMAIN pendingTokens /\ pendingTokens'[a] = pendingTokens[a]
    BY <1>2, PendingKept
  <2>2. RelayMoves \/ UNCHANGED relayVars
    BY NextInParts DEF Parts
  <2>3. CASE UNCHANGED <<toLogin, toGame, toGateway>>
    BY <2>1, <2>3 DEF LinksInv
  <2>4. CASE Handle_S2SWorldSelectRes
    <3>1. Increasing(toLogin') /\ UNCHANGED <<toGame, toGateway>>
      BY <2>4, OrderedRest DEF Handle_S2SWorldSelectRes, LinksInv, Received
    <3> QED
      BY <2>1, <3>1 DEF LinksInv
  <2>5. CASE TakeNotify
    <3>1. /\ Increasing(toGateway') /\ Range(toGateway') \subseteq Range(toGateway)
          /\ UNCHANGED <<toLogin, toGame>>
      BY <2>5, OrderedRest DEF TakeNotify, LinksInv, Received
    <3> QED
      BY <2>1, <3>1 DEF LinksInv
  <2>6. CASE Handle_WorldLoginSelectReq
    <3>1. /\ Increasing(toLogin') /\ Increasing(toGame')
          /\ Range(toGame') \subseteq Range(toGame) \cup {NewToken}
          /\ UNCHANGED toGateway
      BY <2>6, OrderedMore, NotifiedOrNot DEF Handle_WorldLoginSelectReq, LinksInv, Received
    <3> QED
      BY <2>1, <3>1 DEF LinksInv
  <2>7. CASE Handle_WorldGameTokenNotify
    <3>1. /\ toGame # <<>> /\ toGame' = Tail(toGame) /\ UNCHANGED toLogin
          /\ toGateway' \in SentOrLost(toGateway, Head(toGame))
      BY <2>7 DEF Handle_WorldGameTokenNotify, BroadcastToGateways, Received
    <3>2. /\ Head(toGame) \in Range(toGame) /\ Increasing(toGame')
          /\ Range(toGame') \subseteq Range(toGame) /\ \A x \in Range(toGame') : Head(toGame) < x
      BY <3>1, OrderedRest DEF LinksInv
    <3>3. /\ Increasing(toGateway')
          /\ Range(toGateway') \subseteq Range(toGateway) \cup {Head(toGame)}
      BY <3>1, <3>2, OrderedMore DEF LinksInv
    <3> QED
      BY <2>1, <3>1, <3>2, <3>3 DEF LinksInv
  <2>8. CASE WorldLost
    <3>1. Increasing(toGame') /\ Range(toGame') = {} /\ UNCHANGED <<toLogin, toGateway>>
      BY <2>8 DEF WorldLost, Increasing, Range
    <3> QED
      BY <2>1, <3>1 DEF LinksInv
  <2> QED
    BY <2>2, <2>3, <2>4, <2>5, <2>6, <2>7, <2>8 DEF RelayMoves, LoginSucceeds, EraseAccount,
       Handle_WorldSelectReq, ConnectToWorld, relayVars
<1> QED
  BY <1>1, <1>2

\* No late notification replaces a newer token of an account by an older one.
THEOREM TokensFresh == Spec => NoStaleToken
<1>1. Init => TypeOK /\ LinksInv
  BY InitType, InitLinks
<1>2. TypeOK /\ LinksInv /\ [Next]_vars => (TypeOK /\ LinksInv)'
  BY TypeInductive, LinksInductive
<1>3. TypeOK /\ LinksInv /\ [Next]_vars =>
        [\A a \in DOMAIN pendingTokens \cap DOMAIN pendingTokens' :
           pendingTokens'[a] >= pendingTokens[a]]_vars
  <2> SUFFICES ASSUME TypeOK, LinksInv, [Next]_vars,
                      NEW a \in DOMAIN pendingTokens \cap DOMAIN pendingTokens'
               PROVE  pendingTokens'[a] >= pendingTokens[a]
    OBVIOUS
  <2>1. pendingTokens[a] \in Nat
    BY LinksHoldNumbers
  <2>2. CASE Handle_TokenNotify
    <3>1. toGateway # <<>> /\ (pendingTokens'[a] = Head(toGateway) \/ pendingTokens'[a] = pendingTokens[a])
      BY <2>2 DEF Handle_TokenNotify, TakeNotify, StorePendingToken, Received
    <3>2. Head(toGateway) \in Range(toGateway) /\ Head(toGateway) \in Nat
      BY <3>1, LinksHoldNumbers, OrderedRest DEF LinksInv
    <3> QED
      BY <2>1, <3>1, <3>2 DEF LinksInv
  <2>3. CASE ~Handle_TokenNotify
    BY <2>1, <2>3, PendingKept
  <2> QED
    BY <2>2, <2>3
<1> QED
  BY <1>1, <1>2, <1>3, PTL DEF Spec, NoStaleToken

-------------------------------------------------------------------------------
(* Hands.                                                                  *)

BornInv ==
  \A b \in Bots : b > born =>
    state[b] = "unborn" /\ op[b] = "none" /\ stops[b] = 0 /\ login[b] = "none"

Waiting == {"unborn", "CONNECTING_LOGIN", "WAITING_LOGIN_RES"}

FreshInv == \A b \in Bots : state[b] \in Waiting => session_token[b] = NoToken

\* LoginServer's entry of an account is a bot of that account.
MapInv ==
  \A a \in DOMAIN sessionMap : sessionMap[a] <= born /\ id[sessionMap[a]] = a

\* A token that a bot holds was made up before those still on the way to bots.
HeldInv ==
  \A b \in Bots : session_token[b] # NoToken =>
    \A x \in Range(toLogin) : session_token[b] < x

HandsInv == BornInv /\ FreshInv /\ MapInv /\ HeldInv

LEMMA InitHands == Init => HandsInv
BY DEF Init, InitBots, InitRelay, HandsInv, BornInv, FreshInv, MapInv, HeldInv, Range, Bots

\* What a step does to one bot.
BotChange(b) ==
  /\ \/ state'[b] = state[b]
     \/ state[b] = "CONNECTING_LOGIN" /\ state'[b] = "WAITING_LOGIN_RES"
     \/ /\ state[b] # "unborn" \/ op[b] # "none" \/ stops[b] > 0
        /\ state'[b] \notin Waiting
  /\ session_token'[b] = session_token[b] \/ state'[b] = "CONNECTING_GATEWAY"
  /\ \/ op'[b] = op[b] /\ stops'[b] = stops[b] /\ login'[b] = login[b]
     \/ state[b] # "unborn" \/ op[b] # "none" \/ stops[b] > 0 \/ login[b] # "none"

LEMMA BotsChange ==
  ASSUME TypeOK, [Next]_vars, ~ManagerStep
  PROVE  UNCHANGED <<born, id>> /\ \A b \in Bots : BotChange(b)
<1>1. CASE UNCHANGED <<botVars, login>>
  BY <1>1 DEF BotChange, botVars, manager
<1> USE DEF TypeOK
<1>2. CASE \E b \in Bots : ConnectToLogin(b)
  <2>1. PICK b \in Bots : LoginConnected(b) /\ Logs(b, "checking")
    BY <1>2 DEF ConnectToLogin
  <2>2. /\ state[b] = "CONNECTING_LOGIN" /\ state' = [state EXCEPT ![b] = "WAITING_LOGIN_RES"]
        /\ op' = [op EXCEPT ![b] = "reading"] /\ login' = [login EXCEPT ![b] = "checking"]
        /\ UNCHANGED <<born, id, session_token, stops>>
    BY <2>1 DEF LoginConnected, Logs, Goes, Does, manager
  <2>3. BotChange(b)
    BY <2>2 DEF BotChange
  <2>4. \A c \in Bots \ {b} : BotChange(c)
    BY <2>2 DEF BotChange
  <2> QED
    BY <2>2, <2>3, <2>4
<1>3. CASE \E b \in Bots : LoginAccepted(b)
  BY <1>3 DEF LoginAccepted, Logs, BotChange, botVars, manager
<1>4. CASE \E b \in Bots : SelectWorld(b)
  BY <1>4 DEF SelectWorld, Logs, BotChange, botVars, manager
<1>5. CASE \E b \in Bots : ConnectToGateway(b)
  <2>1. PICK b \in Bots : GatewayConnected(b) /\ UNCHANGED login
    BY <1>5 DEF ConnectToGateway
  <2>2. /\ op[b] = "connected" /\ state' = [state EXCEPT ![b] = "WAITING_GATEWAY_RES"]
        /\ op' = [op EXCEPT ![b] = "reading"]
        /\ UNCHANGED <<born, id, session_token, stops, login>>
    BY <2>1 DEF GatewayConnected, Goes, Does, manager
  <2>3. BotChange(b)
    BY <2>2 DEF BotChange, Waiting
  <2>4. \A c \in Bots \ {b} : BotChange(c)
    BY <2>2 DEF BotChange
  <2> QED
    BY <2>2, <2>3, <2>4
<1>6. CASE \E b \in Bots : BotAdmitted(b)
  <2>1. PICK b \in Bots : HandleGatewayConnectRes(b, b \in DOMAIN consumed) /\ UNCHANGED login
    BY <1>6 DEF BotAdmitted
  <2>2. /\ state[b] = "WAITING_GATEWAY_RES" /\ op[b] = "reading"
        /\ state' = state \/ state' = [state EXCEPT ![b] = "IN_GAME"]
        /\ stops' = stops \/ stops' = [stops EXCEPT ![b] = @ + 1]
        /\ UNCHANGED <<born, id, session_token, op, login>>
    BY <2>1 DEF HandleGatewayConnectRes, Requested, Goes, manager
  <2>3. BotChange(b)
    BY <2>2 DEF BotChange, Waiting
  <2>4. \A c \in Bots \ {b} : BotChange(c)
    BY <2>2 DEF BotChange
  <2> QED
    BY <2>2, <2>3, <2>4
<1>7. CASE \E b \in Bots : ReadFails(b)
  <2>1. PICK b \in Bots : ReadFailed(b) /\ UNCHANGED login
    BY <1>7 DEF ReadFails
  <2>2. /\ op[b] = "reading" /\ op' = [op EXCEPT ![b] = "none"]
        /\ stops' = [stops EXCEPT ![b] = @ + 1]
        /\ UNCHANGED <<born, state, id, session_token, login>>
    BY <2>1 DEF ReadFailed, Does, manager
  <2>3. \A c \in Bots \ {b} : op'[c] = op[c] /\ stops'[c] = stops[c]
    BY <2>2
  <2> QED
    BY <2>2, <2>3 DEF BotChange
<1>8. CASE \E b \in Bots : \/ ConnectFailed(b) /\ UNCHANGED <<relayVars, gatewayVars, login>>
                           \/ AcceptBot(b)
  <2>1. PICK b \in Bots : \/ ConnectFailed(b) /\ UNCHANGED <<relayVars, gatewayVars, login>>
                          \/ AcceptBot(b)
    BY <1>8
  <2>2. /\ op[b] = "connecting" /\ \E o \in Ops : op' = [op EXCEPT ![b] = o]
        /\ stops' = stops \/ stops' = [stops EXCEPT ![b] = @ + 1]
        /\ UNCHANGED <<born, state, id, session_token, login>>
    BY <2>1 DEF AcceptBot, ConnectCompletes, ConnectFailed, Does, Ops, manager
  <2>3. \A c \in Bots \ {b} : op'[c] = op[c] /\ stops'[c] = stops[c]
    BY <2>2
  <2> QED
    BY <2>2, <2>3 DEF BotChange
<1>9. CASE \E b \in Bots : StopBot(b)
  <2>1. PICK b \in Bots : StopBot(b)
    BY <1>9
  <2>2. /\ stops[b] > 0 /\ stops' = [stops EXCEPT ![b] = @ - 1]
        /\ state' = state \/ state' = [state EXCEPT ![b] = "DISCONNECTED"]
        /\ UNCHANGED <<born, id, session_token, op, login>>
    BY <2>1 DEF StopBot, RunStop, OnSessionDisconnected, Goes, manager
  <2>3. \A c \in Bots : /\ state'[c] = state[c] \/ (c = b /\ state'[c] = "DISCONNECTED")
                        /\ stops'[c] = stops[c] \/ c = b
    BY <2>2
  <2> QED
    BY <2>2, <2>3 DEF BotChange, Waiting
<1>10. CASE TokenForBot
  <2>1. CASE UNCHANGED botVars
    BY <1>1, <1>10, <2>1 DEF TokenForBot
  <2>2. CASE ~UNCHANGED botVars
    <3>1. PICK b \in Bots : Waits(b) /\ HandleWorldSelectRes(b, Head(toLogin)) /\ UNCHANGED login
      BY <1>10, <2>2, IdsAndTokens DEF TokenForBot
    <3>2. /\ state[b] = "WAITING_LOGIN_RES" /\ state' = [state EXCEPT ![b] = "CONNECTING_GATEWAY"]
          /\ session_token' = [session_token EXCEPT ![b] = Head(toLogin)]
          /\ op' = [op EXCEPT ![b] = "connecting"]
          /\ stops' = stops \/ stops' = [stops EXCEPT ![b] = @ + 1]
          /\ UNCHANGED <<born, id, login>>
      BY <3>1 DEF HandleWorldSelectRes, Goes, Does, manager
    <3>3. BotChange(b)
      BY <3>2 DEF BotChange, Waiting
    <3>4. \A c \in Bots \ {b} : BotChange(c)
      BY <3>2 DEF BotChange
    <3> QED
      BY <3>2, <3>3, <3>4
  <2> QED
    BY <2>1, <2>2
<1> QED
  BY <1>1, <1>2, <1>3, <1>4, <1>5, <1>6, <1>7, <1>8, <1>9, <1>10 DEF Next, BotStep, ServerStep,
     VerifyToken, ListSession, Handle_TokenNotify, vars

LEMMA SpawnChanges ==
  ASSUME TypeOK, ManagerStep
  PROVE  /\ born' \in Nat /\ born' >= born
         /\ \A b \in Bots : \/ state'[b] = state[b] /\ id'[b] = id[b]
                            \/ b > born /\ b <= born' /\ state'[b] = "CONNECTING_LOGIN"
         /\ \A b \in Bots : b <= born \/ b > born' => op'[b] = op[b]
         /\ UNCHANGED <<session_token, stops, relayVars, gatewayVars, login>>
<1>1. SpawnCount \in Nat
  BY BotAssumption DEF SpawnCount, Deficit, TypeOK
<1>2. Spawn(SpawnCount) /\ UNCHANGED <<relayVars, gatewayVars, login>>
  BY DEF ManagerStep, ScheduleNextSpawn, ReconnectTick
<1>3. born \in Nat /\ born' = born + SpawnCount
  BY <1>2 DEF Spawn, TypeOK
<1>4. \A b \in Bots : \/ state'[b] = state[b] /\ id'[b] = id[b]
                      \/ b \in born+1..born+SpawnCount /\ state'[b] = "CONNECTING_LOGIN"
  BY <1>2 DEF Spawn, TypeOK
<1>5. /\ \A b \in Bots : op'[b] = op[b] \/ b \in born+1..born+SpawnCount
      /\ UNCHANGED <<session_token, stops>>
  BY <1>2 DEF Spawn, TypeOK
<1> QED
  BY <1>1, <1>2, <1>3, <1>4, <1>5 DEF Bots

\* A token is given to a bot that holds none, of the account of the token.
LEMMA TokenGiven ==
  ASSUME TypeOK, HandsInv, LinksInv, NEW b \in Bots, TokenForBot,
         b \in Recipients(Head(toLogin)), Waits(b), HandleWorldSelectRes(b, Head(toLogin))
  PROVE  /\ session_token' = [session_token EXCEPT ![b] = Head(toLogin)]
         /\ session_token[b] = NoToken /\ Head(toLogin) \in Issued
         /\ id[b] = tokens[Head(toLogin)] /\ UNCHANGED id
         /\ \A c \in Bots : session_token[c] # NoToken => session_token[c] < Head(toLogin)
         /\ \A x \in Range(toLogin') : Head(toLogin) < x
<1>1. toLogin # <<>> /\ toLogin' = Tail(toLogin)
  BY DEF TokenForBot, Handle_S2SWorldSelectRes, Received
<1>2. Head(toLogin) \in Range(toLogin) /\ \A x \in Range(toLogin') : Head(toLogin) < x
  BY <1>1, LinksHoldNumbers, OrderedRest DEF LinksInv
<1>3. session_token[b] = NoToken
  BY DEF Waits, Waiting, HandsInv, FreshInv
<1>4. id[b] = tokens[Head(toLogin)]
  BY DEF Recipients, HandsInv, MapInv
<1>5. \A c \in Bots : session_token[c] # NoToken => session_token[c] < Head(toLogin)
  BY <1>2 DEF HandsInv, HeldInv
<1> QED
  BY <1>1, <1>2, <1>3, <1>4, <1>5, IdsAndTokens DEF HandleWorldSelectRes

LEMMA HandsInductive == TypeOK /\ LinksInv /\ HandsInv /\ [Next]_vars => HandsInv'
<1> SUFFICES ASSUME TypeOK, LinksInv, HandsInv, [Next]_vars PROVE HandsInv'
  OBVIOUS
<1>1. born \in Nat /\ \A b \in Bots : b \in Nat /\ stops[b] \in Nat
  BY DEF TypeOK, Bots
<1>2. CASE ManagerStep
  <2>1. /\ born' \in Nat /\ born' >= born
        /\ \A b \in Bots : \/ state'[b] = state[b] /\ id'[b] = id[b]
                           \/ b > born /\ b <= born' /\ state'[b] = "CONNECTING_LOGIN"
        /\ \A b \in Bots : b <= born \/ b > born' => op'[b] = op[b]
        /\ UNCHANGED <<session_token, stops, relayVars, gatewayVars, login>>
    BY <1>2, SpawnChanges
  <2>2. BornInv'
    BY <1>1, <2>1 DEF HandsInv, BornInv
  <2>3. FreshInv'
    BY <1>1, <2>1 DEF HandsInv, BornInv, FreshInv, Waiting
  <2>4. MapInv'
    <3>1. \A a \in DOMAIN sessionMap : sessionMap[a] \in Bots
      BY DEF TypeOK
    <3> QED
      BY <1>1, <2>1, <3>1 DEF HandsInv, MapInv, relayVars
  <2>5. HeldInv'
    BY <2>1 DEF HandsInv, HeldInv, relayVars
  <2> QED
    BY <2>2, <2>3, <2>4, <2>5 DEF HandsInv
<1>3. CASE ~ManagerStep
  <2>1. UNCHANGED <<born, id>> /\ \A b \in Bots : BotChange(b)
    BY <1>3, BotsChange
  <2>2. BornInv'
    BY <1>1, <2>1 DEF HandsInv, BornInv, BotChange
  <2>3. FreshInv'
    BY <2>1 DEF HandsInv, FreshInv, BotChange, Waiting
  <2>4. MapInv'
    <3>1. RelayMoves \/ UNCHANGED relayVars
      BY NextInParts DEF Parts
    <3>2. CASE UNCHANGED sessionMap
      BY <2>1, <3>2 DEF HandsInv, MapInv
    <3>3. CASE \E a \in DOMAIN sessionMap : EraseAccount(a)
      BY <2>1, <3>3 DEF HandsInv, MapInv, EraseAccount, Restrict
    <3>4. CASE \E b \in Bots : LoginAccepted(b)
      <4>1. PICK b \in Bots : LoginAccepted(b)
        BY <3>4
      <4>2. b <= born
        BY <1>1, <4>1 DEF LoginAccepted, HandsInv, BornInv
      <4>3. sessionMap' = [x \in DOMAIN sessionMap \cup {id[b]} |-> IF x = id[b] THEN b ELSE sessionMap[x]]
        BY <4>1 DEF LoginAccepted, LoginSucceeds
      <4> QED
        BY <2>1, <4>2, <4>3 DEF HandsInv, MapInv
    <3>5. \/ UNCHANGED sessionMap \/ \E a \in DOMAIN sessionMap : EraseAccount(a)
          \/ \E b \in Bots : LoginAccepted(b)
      BY DEF Next, BotStep, ServerStep, ManagerStep, ConnectToLogin, SelectWorld, AcceptBot,
         ConnectToGateway, VerifyToken, ListSession, BotAdmitted, ReadFails, StopBot, TokenForBot, Handle_TokenNotify,
         RelayAlone, Handle_WorldSelectReq, Handle_S2SWorldSelectRes, Handle_WorldLoginSelectReq,
         Handle_WorldGameTokenNotify, TakeNotify, ConnectToWorld, WorldLost, vars, relayVars
    <3> QED
      BY <3>2, <3>3, <3>4, <3>5
  <2>5. HeldInv'
    <3>1. CASE UNCHANGED <<session_token, toLogin>>
      BY <3>1 DEF HandsInv, HeldInv
    <3>2. CASE \E b \in Bots : /\ TokenForBot /\ b \in Recipients(Head(toLogin)) /\ Waits(b)
                               /\ HandleWorldSelectRes(b, Head(toLogin))
      <4>1. PICK b \in Bots : /\ TokenForBot /\ b \in Recipients(Head(toLogin)) /\ Waits(b)
                             /\ HandleWorldSelectRes(b, Head(toLogin))
        BY <3>2
      <4>2. /\ session_token' = [session_token EXCEPT ![b] = Head(toLogin)]
            /\ \A x \in Range(toLogin') : Head(toLogin) < x
        BY <4>1, TokenGiven
      <4>3. Range(toLogin') \subseteq Range(toLogin)
        BY <4>1, LinksHoldNumbers, OrderedRest DEF LinksInv, TokenForBot, Handle_S2SWorldSelectRes, Received
      <4>4. \A c \in Bots : session_token'[c] = session_token[c] \/ session_token'[c] = Head(toLogin)
        BY <4>2 DEF TypeOK
      <4> QED
        BY <4>2, <4>3, <4>4 DEF HandsInv, HeldInv
    <3>3. CASE UNCHANGED session_token /\ Handle_S2SWorldSelectRes
      BY <3>3, LinksHoldNumbers, OrderedRest DEF LinksInv, Handle_S2SWorldSelectRes, HandsInv, HeldInv, Received
    <3>4. CASE UNCHANGED session_token /\ Handle_WorldLoginSelectReq
      <4>1. Range(toLogin') \subseteq Range(toLogin) \cup {NewToken}
        BY <3>4, LinksHoldNumbers, OrderedMore DEF LinksInv, Handle_WorldLoginSelectReq, Received
      <4>2. \A b \in Bots : session_token[b] # NoToken => session_token[b] < NewToken
        BY LinksHoldNumbers, IdsAndTokens
      <4> QED
        BY <3>4, <4>1, <4>2 DEF HandsInv, HeldInv
    <3>5. \/ UNCHANGED toLogin \/ Handle_S2SWorldSelectRes \/ Handle_WorldLoginSelectReq
      BY NextInParts DEF Parts, RelayMoves, LoginSucceeds, EraseAccount, Handle_WorldSelectReq,
         Handle_WorldGameTokenNotify, TakeNotify, ConnectToWorld, WorldLost, relayVars
    <3>6. \/ UNCHANGED session_token
          \/ \E b \in Bots : /\ TokenForBot /\ b \in Recipients(Head(toLogin)) /\ Waits(b)
                            /\ HandleWorldSelectRes(b, Head(toLogin))
      BY SessionTokenSet
    <3> QED
      BY <3>1, <3>2, <3>3, <3>4, <3>5, <3>6
  <2> QED
    BY <2>2, <2>3, <2>4, <2>5 DEF HandsInv
<1> QED
  BY <1>2, <1>3

-------------------------------------------------------------------------------
(* Handoff implements SessionTokens.                                       *)

LEMMA InitImplements == Init => Abstract!Init
<1> SUFFICES ASSUME Init PROVE Abstract!Init
  OBVIOUS
<1>1. tokens = <<>> /\ consumed = <<>> /\ \A b \in Bots : session_token[b] = NoToken
  BY DEF Init, InitBots, InitRelay, InitGateway
<1>2. Held = <<>>
  <2>1. {c \in Bots : session_token[c] # NoToken} = {}
    BY <1>1
  <2> QED
    BY <2>1 DEF Held
<1> QED
  BY <1>1, <1>2 DEF Abstract!Init

Holders == {b \in Bots : session_token[b] # NoToken}

LEMMA StepImplements ==
  TypeOK /\ SessionInv /\ LinksInv /\ HandsInv /\ [Next]_vars => [Abstract!Next]_(Abstract!vars)
<1> SUFFICES ASSUME TypeOK, SessionInv, LinksInv, HandsInv, [Next]_vars
             PROVE  Abstract!Next \/ UNCHANGED <<tokens, Held, consumed>>
  BY DEF Abstract!vars
\* Ids change only for bots that hold nothing.
<1>1. (UNCHANGED session_token) => UNCHANGED Held
  <2> SUFFICES ASSUME UNCHANGED session_token PROVE UNCHANGED Held
    OBVIOUS
  <2>1. \A b \in Holders : id'[b] = id[b]
    <3>1. CASE ManagerStep
      BY <3>1, SpawnChanges DEF Holders, HandsInv, BornInv, FreshInv, Waiting
    <3>2. CASE ~ManagerStep
      BY <3>2, BotsChange
    <3> QED
      BY <3>1, <3>2
  <2>2. Holders' = Holders
    BY DEF Holders
  <2>3. Held = [b \in Holders |-> [account |-> id[b], token |-> session_token[b]]]
    BY DEF Held, Holders
  <2>4. Held' = [b \in Holders |-> [account |-> id'[b], token |-> session_token[b]]]
    BY <2>2 DEF Held, Holders
  <2> QED
    BY <2>1, <2>3, <2>4
<1>2. CASE TokenForBot /\ ~UNCHANGED session_token
  <2>1. PICK b \in Bots : /\ TokenForBot /\ b \in Recipients(Head(toLogin)) /\ Waits(b)
                         /\ HandleWorldSelectRes(b, Head(toLogin))
    BY <1>2, SessionTokenSet
  <2> DEFINE t == Head(toLogin)
  <2>2. /\ session_token' = [session_token EXCEPT ![b] = t]
        /\ session_token[b] = NoToken /\ t \in Issued
        /\ id[b] = tokens[t] /\ UNCHANGED id
        /\ \A c \in Bots : session_token[c] # NoToken => session_token[c] < t
    BY <2>1, TokenGiven
  <2>3. t \in Nat /\ t # NoToken
    BY <2>2, LinksHoldNumbers, BotAssumption
  <2> HIDE DEF t
  <2>4. Holders' = Holders \cup {b} /\ b \notin Holders
    BY <2>2, <2>3 DEF Holders, TypeOK
  <2>5. DOMAIN Held = Holders /\ \A c \in Holders : Held[c] = [account |-> id[c], token |-> session_token[c]]
    BY DEF Held, Holders
  <2>6. Held' = [c \in Holders \cup {b} |-> [account |-> id[c], token |-> session_token'[c]]]
    BY <2>2, <2>4 DEF Held, Holders
  <2>7. Held' = [x \in Holders \cup {b} |-> IF x = b THEN [account |-> tokens[t], token |-> t] ELSE Held[x]]
    <3>1. \A x \in Holders \cup {b} :
            session_token'[x] = IF x = b THEN t ELSE session_token[x]
      BY <2>2 DEF TypeOK, Holders
    <3> QED
      BY <2>2, <2>4, <2>5, <2>6, <3>1
  <2>8. \A d \in Holders : Held[d].token # t
    <3>1. \A d \in Holders : session_token[d] \in Nat /\ session_token[d] < t
      BY <2>2, IdsAndTokens, LinksHoldNumbers DEF Holders
    <3>2. \A d \in Holders : session_token[d] # t
      BY <2>3, <3>1
    <3> QED
      BY <2>5, <3>2
  <2>9. UNCHANGED <<tokens, consumed>>
    BY <2>1 DEF TokenForBot, Handle_S2SWorldSelectRes, gatewayVars, sessionVars
  <2>10. Abstract!Hand(b, t)
    BY <2>4, <2>5, <2>7, <2>8, <2>9 DEF Abstract!Hand
  <2>11. t \in 1..Len(tokens)
    BY <2>2 DEF Issued
  <2> QED
    BY <2>10, <2>11 DEF Abstract!Next
<1>3. CASE Handle_WorldLoginSelectReq /\ RelayAlone /\ UNCHANGED <<botVars, gatewayVars, login>>
  <2>1. toWorld # <<>> /\ tokens' = Append(tokens, Head(toWorld)) /\ UNCHANGED <<session_token, consumed>>
    BY <1>3 DEF Handle_WorldLoginSelectReq, StoreToken, botVars, gatewayVars, sessionVars, Received
  <2>2. Head(toWorld) \in Nat /\ tokens \in Seq(Nat)
    BY <2>1, TakenOff DEF TypeOK
  <2>3. Len(tokens') = Len(tokens) + 1 /\ tokens'[Len(tokens) + 1] = Head(toWorld)
    BY <2>1, <2>2, PutOn
  <2>4. tokens' = Append(tokens, tokens'[Len(tokens) + 1])
    BY <2>1, <2>3
  <2> QED
    BY <1>1, <2>1, <2>3, <2>4 DEF Abstract!Issue, Abstract!Next
<1>4. CASE \E b \in Bots : VerifyToken(b)
  <2>1. PICK b \in Bots, expired \in BOOLEAN :
          VerifyAndConsumeToken(b, id[b], session_token[b], expired) /\ UNCHANGED <<botVars, relayVars, login>>
    BY <1>4 DEF VerifyToken
  <2>2. UNCHANGED <<tokens, session_token, Held>>
    BY <1>1, <2>1 DEF botVars, relayVars
  <2>3. CASE UNCHANGED consumed
    BY <2>2, <2>3
  <2>4. CASE ~UNCHANGED consumed
    <3>1. /\ pendingTokens[id[b]] = session_token[b] /\ id[b] \in DOMAIN pendingTokens
          /\ reader[b] = "header" /\ ~answered[b]
          /\ consumed' = [x \in DOMAIN consumed \cup {b} |->
                            IF x = b THEN pendingTokens[id[b]] ELSE consumed[x]]
      BY <2>1, <2>4 DEF VerifyAndConsumeToken, Matches, Known
    <3>2. b \notin DOMAIN consumed
      BY <3>1 DEF SessionInv, ConsumedInv
    <3>3. session_token[b] # NoToken
      BY <3>1, LinksHoldNumbers, BotAssumption
    <3>4. b \in DOMAIN Held /\ Held[b].token = session_token[b]
      BY <3>3 DEF Held
    <3>5. Abstract!Admit(b)
      BY <2>2, <3>1, <3>2, <3>4 DEF Abstract!Admit
    <3> QED
      BY <3>5 DEF Abstract!Next
  <2> QED
    BY <2>3, <2>4
<1>5. CASE UNCHANGED <<session_token, tokens, consumed>>
  BY <1>1, <1>5
<1>6. \/ UNCHANGED tokens
      \/ Handle_WorldLoginSelectReq /\ RelayAlone /\ UNCHANGED <<botVars, gatewayVars, login>>
  BY DEF Next, BotStep, ServerStep, ManagerStep, ConnectToLogin, LoginAccepted, LoginSucceeds,
     SelectWorld, AcceptBot, ConnectToGateway, VerifyToken, ListSession, BotAdmitted, ReadFails,
     StopBot, TokenForBot, Handle_TokenNotify, RelayAlone, EraseAccount, Handle_WorldSelectReq,
     Handle_S2SWorldSelectRes, Handle_WorldGameTokenNotify, TakeNotify, ConnectToWorld, WorldLost,
     vars, relayVars
<1>7. (UNCHANGED consumed) \/ \E b \in Bots : VerifyToken(b)
  BY PendingTokensSet DEF Handle_TokenNotify, StorePendingToken, sessionVars
<1>8. (UNCHANGED session_token) \/ TokenForBot
  BY SessionTokenSet
<1>9. TokenForBot => UNCHANGED <<tokens, consumed>>
  BY DEF TokenForBot, Handle_S2SWorldSelectRes, gatewayVars, sessionVars
<1> QED
  BY <1>2, <1>3, <1>4, <1>5, <1>6, <1>7, <1>8, <1>9

\* Whatever is lost, delayed or repeated on the way, a bot gets in only with the
\* token it was handed, which was made up for its account and handed to no other.
THEOREM Implements == Spec => IsSessionTokens
<1>1. Init => TypeOK /\ SessionInv /\ LinksInv /\ HandsInv
  BY InitType, InitSession, InitLinks, InitHands
<1>2. TypeOK /\ SessionInv /\ LinksInv /\ HandsInv /\ [Next]_vars =>
        (TypeOK /\ SessionInv /\ LinksInv /\ HandsInv)'
  BY TypeInductive, SessionInductive, LinksInductive, HandsInductive
<1> QED
  BY <1>1, <1>2, InitImplements, StepImplements, PTL DEF Spec, IsSessionTokens, Abstract!Spec

-------------------------------------------------------------------------------
(* Accounts.                                                               *)

LEMMA SpawnKeepsAccounts ==
  ASSUME TypeOK, AccountsBounded, ManagerStep
  PROVE  AccountsBounded'
<1>1. Len(reusable_ids) \in Nat /\ Target \in Nat /\ Rate \in Nat
  BY BotAssumption, LenProperties DEF TypeOK
<1>2. /\ SpawnCount \in Nat
      /\ SpawnCount = 0 \/ current_spawned + SpawnCount <= Target
  <2>1. Deficit \in Nat /\ (Deficit = 0 \/ current_spawned + Deficit = Target)
    BY <1>1 DEF Deficit, TypeOK
  <2>2. current_spawned \in Int
    BY DEF TypeOK
  <2> QED
    BY <1>1, <2>1, <2>2 DEF SpawnCount
<1>3. reusable_ids' = SubSeq(reusable_ids, SpawnCount + 1, Len(reusable_ids))
  BY DEF ManagerStep, ScheduleNextSpawn, ReconnectTick, Spawn
<1>4. Len(reusable_ids') = IF SpawnCount > Len(reusable_ids) THEN 0 ELSE Len(reusable_ids) - SpawnCount
  <2>1. \A i \in SpawnCount + 1..Len(reusable_ids) : reusable_ids[i] \in Nat
    <3>1. reusable_ids \in Seq(Nat)
      BY DEF TypeOK
    <3>2. \A i \in 1..Len(reusable_ids) : reusable_ids[i] \in Nat
      BY <3>1, ElementOfSeq
    <3> QED
      BY <1>1, <1>2, <3>2
  <2>2. Len(reusable_ids') = IF SpawnCount + 1 <= Len(reusable_ids)
                             THEN Len(reusable_ids) - (SpawnCount + 1) + 1 ELSE 0
    BY <1>1, <1>2, <1>3, <2>1, SubSeqProperties
  <2> QED
    BY <1>1, <1>2, <2>2
<1>5. /\ total_spawn_count' = total_spawn_count + Fresh(SpawnCount)
      /\ current_spawned' = current_spawned + SpawnCount
      /\ current_spawned \in Int /\ total_spawn_count \in Nat
  BY DEF ManagerStep, ScheduleNextSpawn, ReconnectTick, Spawn, TypeOK
<1>6. Fresh(SpawnCount) = IF SpawnCount > Len(reusable_ids) THEN SpawnCount - Len(reusable_ids) ELSE 0
  BY DEF Fresh
<1>7. current_spawned + Len(reusable_ids) = total_spawn_count /\ total_spawn_count <= Target
  BY DEF AccountsBounded
<1>8. current_spawned' + Len(reusable_ids') = total_spawn_count'
  <2>1. CASE SpawnCount > Len(reusable_ids)
    <3>1. /\ Len(reusable_ids') = 0
          /\ total_spawn_count' = total_spawn_count + (SpawnCount - Len(reusable_ids))
      BY <1>4, <1>5, <1>6, <2>1
    <3> QED
      BY <1>1, <1>2, <1>5, <1>7, <3>1
  <2>2. CASE ~(SpawnCount > Len(reusable_ids))
    <3>1. /\ Len(reusable_ids') = Len(reusable_ids) - SpawnCount
          /\ total_spawn_count' = total_spawn_count
      BY <1>4, <1>5, <1>6, <2>2
    <3> QED
      BY <1>1, <1>2, <1>5, <1>7, <3>1
  <2> QED
    BY <2>1, <2>2
<1>9. total_spawn_count' <= Target
  BY <1>1, <1>2, <1>5, <1>6, <1>7
<1> QED
  BY <1>8, <1>9 DEF AccountsBounded

LEMMA BotsKeepAccounts ==
  ASSUME TypeOK, AccountsBounded, [Next]_vars, ~ManagerStep
  PROVE  AccountsBounded'
<1>1. CASE UNCHANGED manager
  BY <1>1 DEF manager, AccountsBounded
<1>2. CASE \E b \in Bots : StopBot(b) /\ OnSessionDisconnected(b)
  <2>1. PICK b \in Bots : OnSessionDisconnected(b)
    BY <1>2
  <2>2. Len(reusable_ids') = Len(reusable_ids) + 1 /\ Len(reusable_ids) \in Nat
    BY <2>1, PutOn DEF OnSessionDisconnected, TypeOK
  <2> QED
    BY <2>1, <2>2 DEF OnSessionDisconnected, AccountsBounded, TypeOK
<1>3. ASSUME NEW b \in Bots, StopBot(b) PROVE UNCHANGED manager \/ OnSessionDisconnected(b)
  BY <1>3 DEF StopBot, RunStop
<1>4. UNCHANGED manager \/ \E b \in Bots : StopBot(b)
  BY DEF Next, BotStep, ServerStep, ConnectToLogin, LoginConnected, LoginAccepted, SelectWorld,
     AcceptBot, ConnectCompletes, ConnectToGateway, GatewayConnected, VerifyToken, ListSession,
     BotAdmitted, HandleGatewayConnectRes, ReadFails, ReadFailed, ConnectFailed, TokenForBot,
     HandleWorldSelectRes, Handle_TokenNotify, vars, botVars
<1> QED
  BY <1>1, <1>2, <1>3, <1>4

\* However often and in whatever state bots are stopped, also one that is counted
\* out a second time: the bots counted in and the ids that wait add up to the
\* accounts made up, which are at most as many as the bots wanted.
THEOREM AccountsStayBounded == Spec => []AccountsBounded
<1>1. Init => TypeOK /\ AccountsBounded
  <2>1. Init => AccountsBounded
    BY BotAssumption DEF Init, InitBots, AccountsBounded
  <2> QED
    BY <2>1, InitType
<1>2. TypeOK /\ AccountsBounded /\ [Next]_vars => (TypeOK /\ AccountsBounded)'
  BY TypeInductive, SpawnKeepsAccounts, BotsKeepAccounts
<1> QED
  BY <1>1, <1>2, PTL DEF Spec

===============================================================================
