# MMOServers: verification project

TLA+ models of the server programs of MMOServers, the TLC runs that check them on
small instances, and the theorems about them that TLAPS proves for every value of
the constants. Paths below are relative to `src/`.

Run a check with `tlc -config X.cfg M`, a proof with `tlapm M_proofs.tla`.

## 1. The system

Four server processes and a load generator, all built on boost::asio: every server
runs one or several `io_context`s on a pool of threads, and what has to be
serialised is posted to a *strand*.

```
 client --login-->  LoginServer --S2S--> WorldServer --S2S--> GameServer
    \                                                            ^
     \--encrypted--> GatewayServer ------------S2S---------------/
```

A client logs in at LoginServer (which checks it against a database on its own
threads) and selects a world; WorldServer makes up a session token, returns it to
LoginServer (for the client) and sends it to GameServer (for the gateways). The
client connects to GatewayServer with the token; from then on the gateway relays
its packets to GameServer, which holds the world and answers through the gateway.

| Component | State | Operations | What makes it correct |
|---|---|---|---|
| GameServer: player registry (`GameServer.h`, `GatewayHandlers.cpp`, `GatewaySession.cpp`) | `playerMap`, `uidToAccount`, `gatewayPlayerMap_`, `uidCounter`, `gatewaySessions`, the strand's queue | accept, read, disconnect, move, leave, cleanup after a gateway failure, hits of monsters | the maps are inverse to each other; nobody stays online when the gateway session that brought them in was noticed as broken; uids are not reused |
| GameServer: zone (`Zone.cpp`) | sectors with players and monsters | enter, leave, update position, who is around | each object is in the one sector of its position |
| GameServer: Redis mirror (`RedisManager.h`) | a hash per player, `connected_` | set online, update hp, remove; goes on after an error reply, gives up on the first lost reply | equal to the registry while the connection lasts, for every account whose latest command was not refused |
| GameServer: monster AI (`Monster.cpp`, `MonsterManager.cpp`) | state, position, path, target, hp, timers; path requests on other threads | tick, path delivery, player attack, buff, respawn | follows a current path, hits only in reach, is where the zone has it |
| Send path of a session (four classes, one code) | `send_queue_`, the strand, one write under way | `Send`, `DoWrite`, its completion | a FIFO channel with a bounded queue |
| Reconnecting connections (`GameConnection`, LoginServer's `WorldConnection`) | socket, retry timer, `connected_`, send queue | connect, retry, read error, write error, send | never stops trying; reconnects; no packet waits for a write that never comes; the queue belongs to the write under way (it does not always) |
| LoginServer (`Session.cpp`, `ClientHandlers.cpp`, `WorldHandlers.cpp`) | sessions with heartbeat timers, `loggedInUsers`, `sessionMap`, logins being checked | accept, login, heartbeat, world selection, token relay, disconnect | an account is logged in once; tokens go to its holder; a dead client is noticed |
| DB pool and login checks (`DBConnectionPool.cpp`, `DBManager.cpp`) | free connections, rows | acquire, query, register, return | no leak, no starvation, every login answered |
| WorldServer (`WorldServer.cpp`, `WorldHandlers.cpp`, `AdminService.cpp`) | server sessions, token store | world selection, token notification, monster buff | a token goes to one client of its account; notifications do not overtake one another |
| GatewayServer (`ClientSession.cpp`, handlers) | client sessions, `clientMap`, pending tokens, encryption, violation counters | connect with token, relay, disconnect | a token is used once, by the client it was handed to; `clientMap` lists only sessions that hold their account, and nobody who is gone |
| Packet protection (`PacketCrypto`, `PacketDispatcher.h`) | sequence numbers, rate windows, parse violations | encrypt, validate, dispatch, rate limit | packets of an honest peer are decrypted, across wrap-arounds and drops; no ciphertext is handled as a packet |
| Stress test tool (`StressManager.cpp`, `StressSession.cpp`) | bot ids, counters | spawn, reconnect, stop | no more accounts than bots wanted, however often a bot is counted out; a lost bot is replaced, with its account |

How they interact: by messages over TCP (FIFO per connection; a connection can
break at any time, and the other side may learn of it later than of the connection
that replaces it), by callbacks of asio on any thread, by tasks posted to strands,
and inside one process by maps shared under a lock.

What is hard: callbacks of one session that run at the same time (read, timer,
write); a cleanup posted behind packets that are still queued; state tested before
a lock is taken; results of other threads (paths, logins) that come late or out of
order; a gateway that reconnects before its old connection is noticed as broken;
failure in the middle of a sequence of updates. `PROJECT.json` lists each of these
hazards at the line where it bites.

## 2. Modules

`X_proofs` holds theorems about `X`, `MCX` the instance TLC checks. A definition
`Bug_...` is a slip the definition after it could plausibly have had (a dropped
guard, a forgotten reset): putting it in that one's place must make a property
fail, which shows that the property depends on that line of the code. No
specification uses a `Bug_...`.

### PlayerRegistry, GameWorld, Zone: the player registry

`Zone` has the grid as pure operators (`SectorOf`, `EnterZone`, `LeaveZone`,
`UpdatePosition`, `InAOI`). `GameWorld` uses it for players. Each network callback
only appends a task to `strand` (`ReadPayload`, `OnDisconnected`); `RunTask` runs
the task at its head as a whole handler: `Handle_GatewayGameMoveReq` (which
registers an unknown account with uid, both maps, session, zone and Redis),
`Handle_GatewayGameLeaveReq`, `CleanupGateway`. `MonsterHit` is the attack callback
of `InitMonsters`. A gateway that reconnects is a second element of `Gateways`.

An account may arrive over a second session while the first one is still taken for
alive. That is why `NoZombie` does not say "the session that relays the account
lists it" (the code registers an account with the session that brought it in, and only
then), but that *some* session lists it that is open, has its cleanup queued, or met a bad
header. The last (`stuck`) is an exception for what the code does: its read loop has ended,
nobody notices, and its players stay. `NoZombie` does not say that they go.

A Redis command is executed, refused with an error reply (the handler goes on, and nobody
repeats it), or gets no reply, after which the connection is given up for good. Nothing in the
server reads a hash, so what it holds is followed only as far as a property can tell:
`refused` remembers the accounts whose latest command was refused, and `redis` has the hashes
of the others. `MaxRefused` bounds how many accounts are in that state at once.

`PlayerRegistry` is what the rest of the server may take the registry to be: one table from
uids to an account and a position, which players join, move in and leave, several at once
when their gateway fails. `GameWorld!IsRegistry` states that the five maps, the strand's tasks
and the sessions implement it, with the refinement mapping `online <- ` what `uidToAccount`
and `playerMap` give together, `next <- uidCounter`. It is more than `RegistryBijective`: it
also says that an account never changes its uid while it is online, that a uid is never used
again, and that no step mixes a join with a leave. A monster keeps the uid of its target
after it gave up; that is safe because of this.

### Monster: one monster and its paths

The monster's state machine with the AI tick (`Tick`), path requests that FindPath
answers on other threads, in any order (`mon.requests`, `Deliver`), attack, buff,
death and respawn. A request is `fresh` as long as its version is the latest, so the
unbounded version counter is not needed.

Positions are points of a lattice as fine as `POSITION_EPSILON`, which is what the code's
comparisons can tell apart. All three tolerances are there: moves of the target up to
`TargetEpsilon` are not followed (`UpdateTargetPosition`), moves of the monster up to
`PositionEpsilon` are not given to the zone (`Moved`), a waypoint is reached only nearer than
`WaypointEpsilon` (`Reached`). A tick walks a stride (`Strides`, speed times the measured
length of the tick) towards the next waypoint and does not stop at it (`Walk`, rounded to the
lattice by `Rounds`); it may step over a waypoint, back again, and over the edge of the map.
That is why no property says that a monster always comes back: as long as its ticks keep
their length it can step over a waypoint for ever.

Timers count ticks, whatever their length. `HpCap` bounds how far buffs lift the hp, which
leaves out an overflow of the code's `int` by enormous buffs; `MaxRequests` bounds the requests
outstanding by letting ticks wait, which hides the backlog that a slow FindPath would build up.

The navmesh is the constant `FindPath`. The monster sees players through
`uid |-> position`; the steps it takes these to make (`PlayerMoves`, `PlayersLeave`) are those
of `PlayerRegistry`, seen without accounts. `Walkable` and `Answers` say what the theorems
about paths ask of the navmesh; `MCMonster` states, as an assumption TLC evaluates, that the
L of the run has both, steps over its waypoints included.

### FifoChannel, SendQueue: the send path

`FifoChannel` is what a caller of `Send` may rely on: accepted messages arrive once,
in order, until the connection fails. `SendQueue` is the code: `Send` posts to the
strand, `RunSend` drops or appends and starts a write, `Complete` is the network
posting a completion, `RunWritten` pops and writes the next, or drops everything.
`SendQueue!IsFifoChannel` states that it implements the channel, with the refinement
mapping `pending <- Waiting` (the queue without a head that was already sent),
`delivered <- wire`, `up <- ~broken`.

`QueueMax` is `SEND_QUEUE_MAX_SIZE`. The limit is compared with `>` before the
append, so one message more may wait; `QueueBounded` states exactly that.

### S2SConnection: a connection that reconnects

`GameConnection` (gateway) and `WorldConnection` (login server) as one module with a
`class` chosen at the start: they differ in `connected_`, which only the second has.
It extends `SendQueue` without its limit and adds connecting, reading, the retry timer and
`ScheduleRetry`. Handlers of connect, read and timer are *not* on the strand; that is
how `ScheduleRetry` of a read error meets a write under way. `written` is the window
between the network finishing a write and a thread picking the completion up.

Two calls take effect in two steps, between which anything else may happen. `Send` tests the
socket (`TestSocket`; `sending` counts the calls that passed the test) and posts its task
(`PostPacket`). `ScheduleRetry` posts the clear of the queue (`ClearLater`; `retrying` holds the
handlers that are that far) and closes the socket and sets the timer (`CloseAndWait`). So the
strand may hold a clear, then a new packet, then the completion of an old write: the new
packet's write starts beside the old one, whose completion pops the new packet. What the other
server then receives is undefined in the code (the queue alone owns the buffers) and `wire` is
not looked at here. `NeverStalls` is what remains true of the queue: whatever a clear took
away, packets that wait have a write, or a completion, that will go on with them.
`CompletesHead`, which `GameConnection.h` promises, does not hold (`s2s_clear`).

A connection may break between the completion of a connect and its handler; the first read
then fails.

### LoginSessions: the login server

Per session a read loop (`reader`) and a heartbeat timer (`watch`) that run
independently; `OnDisconnected` is split where the code takes `loginMutex`, after it
tested `logged_in_id_`. A cancelled timer whose handler is already queued (`due`), or
which is about to be set (`starting`), goes on. Login checks under way are a set, any
of which may end next: several DB threads, each as slow as it likes. `Patience` is
`TIMEOUT_SECONDS / CHECK_INTERVAL_SECONDS`, time being counted in checks.

### LoginChecks, LoginDb: checking a login against the database

`LoginChecks` is what `LoginSessions` takes a check to be: posted, under way, ended once,
in any order. `LoginDb` is the code: `PostLogin` posts to `db_io_context`, a DB thread
takes a task, acquires a connection (or is refused after the wait), runs the three calls
of `ProcessLogin`, returns the connection and answers. Between two calls other threads
run: there is no transaction. A thread's place in the handler is `pc`.
`LoginDb!IsLoginChecks` states the refinement: the checks under way are the logins in the
queue and those the threads have. `accepted` means that the handler goes on to enter the
account, which is `LoginSucceeds` of `LoginSessions`.

A call may fail at any time (the database may be lost); a fetch that fails is taken for
"no such account", respectively for uid 1, as in the code.

### SessionTokens, StressBots, TokenRelay, GatewaySessions, Handoff: into the game

`SessionTokens` is the promise: a token is made up for one account and handed to at most
one client, of that account, which gets in with it at most once. Tokens may be lost.

The code that keeps it is spread over five programs, and each has its module:

- `StressBots` is the client side, the load generator: `StressManager` (ids, ramp-up timer
  and reconnect loop) and the state machine of a bot (`StressSession`). `op` is what is under
  way on the bot's socket; a connect that succeeded (`connected`) is handled later, and the
  handler sets the state whatever ran in between. `Stop` posts (`stops`), and closing the
  socket makes a read or a connect under way fail, which calls it again. The change of servers
  closes the login socket, and a write still under way there fails and calls `Stop`, too: when
  that runs before the connect's handler, the handler undoes it, and the bot is counted out a
  second time when its read fails. Its id is then given back twice, so two bots may share an
  account. Properties therefore do not say that an id is with one bot. `AccountsBounded`
  holds all the same, since each counting out both makes room for a bot and queues an id;
- `TokenRelay` is the way of the token. LoginServer asks (`toWorld`), WorldServer makes a
  token up and sends it both to LoginServer (`toLogin`) and, over GameServer
  (`toGame`, `toGateway`), to the gateway. LoginServer and the gateway reconnect, so what
  is sent to or by them may be lost and later messages still arrive (`SentOrLost`).
  GameServer connects to WorldServer once: when that fails, or the connection breaks, what
  was on it is lost and no notification ever follows (`gameSession`). The n-th
  token is the number n: the code compares tokens for equality only, and numbers let a
  property say "older". LoginServer appears with as much as the relay needs; the detail is
  `LoginSessions`;
- `GatewaySessions` is the gateway: pending tokens, `clientMap`, a session's read loop
  (`reader`) and the completion of a failed write (`writer`), which run on different
  threads and both call `OnDisconnected`. `Handle_GatewayConnectReq` is three steps
  (verified, listed, answered) and `OnDisconnected` two, since others look at `clientMap` in
  between. Whether a token has expired is a free choice at every check.

`Handoff` composes them; one number is a bot, its session at LoginServer and its session at
the gateway. Its actions name both sides: `ConnectToGateway` is the completion of the bot's
connect and the gateway's accept, `TokenForBot` the answer's way through LoginServer to the bot if that
still waits. Two bots can share an account: a bot that stopped gives its id back, and the
next one logs in with it while LoginServer, WorldServer's answers and the gateway still
know the former. `Handoff!IsSessionTokens` states the refinement with the mapping
`owner <- tokens`, `held <- ` the bots that have a token, `admitted <- consumed`.

### SecureChannel: encryption, sequence numbers, rate limit

One client and its gateway session from the connect request on. A ciphertext is the number
it was sealed with (`seal`); the 32-bit number beside it is that modulo `Modulus`; only
`Decrypt` opens it. The handshake is a handler of the read loop in three steps: the session
is in `clientMap` (`listed`), its plain answer is queued (`answered`), encryption is on
(`enabled`). Packets of the game are relayed to the session by another thread in any of
them: `RelaySends` draws the number, `RelayQueued` queues the packet. The relaying thread
holds `clientMutex` from one to the other, so at most one packet is between (`relayed`).
An empty payload (`AttackReq` with target 0) goes out unsealed, and the gateway does not
decrypt it. A packet over the rate limit is thrown away undecrypted, a packet for a full
queue after its number was drawn: both leave a hole in the numbers. `overrun` remembers
holes as large as the jump `ValidateSequence` allows, or larger, after which the code promises
nothing: the properties of this module excuse an overrun session.

## 3. Runs

| Run | What it asks | Bounds, and why they are enough |
|---|---|---|
| `game_world` | Do the five places of the registry stay in step, is nobody forgotten, are they together one table (`IsRegistry`), is the mirror exact, is a failed gateway's list emptied? | Two accounts, two sessions, three packets: enough for "join over one session, move over the other, break the first", a leave over the wrong session and a join after it; a map of two sectors; hp 3, hits of 2, so that a second hit kills; a left-over Redis hash; commands for one account at a time refused (`MaxRefused` 1), or Redis lost at any command. |
| `game_world_edge` (violated) | `NoGhost` | The same, with requests on the right edge. |
| `monster` | Do paths lead to the goal, does the monster strike in reach only, is it at home on guard, dead exactly without hp, registered where it walks to? | One player, an L of two arms of five units with four places for the player, two of them so near that the monster does not follow from one to the other; strides of four, twice `WaypointEpsilon`, so that it steps over waypoints; sectors of ten units, so that the end of either arm is across a border from its rest; up to two path requests under way (so that an old one can overtake a newer one), hp 1 and one buff more. |
| `send_queue` | Is the send path a FIFO channel, one write at a time, drained, bounded? | Limit two, eight messages: overflow, draining and overflow again. |
| `s2s_connection` | Does the connection never fall asleep, does it come up in the end, does no packet wait for ever? | Three packets, two outages: an outage during connect, write and retry of a former one; a packet under way, one posted behind a clear, and one more whose write starts beside the second's. |
| `s2s_clear` (violated) | `CompletesHead` | Three packets, two outages. |
| `login` | Is an account held by one session at a time, do tokens stay with those who logged in, is everybody who goes noticed? | Two sessions, one account, one login each, patience one: enough for a timeout, a login of the other, and the late second disconnect of the first. Several accounts or logins a session are covered by the theorems only. |
| `login_db` | Do all connections come back, are fetched uids free, is every password checked, does every login get one answer? | Two threads, three logins to one new name with two passwords, none to four connections: two first logins at once and a third that finds both rows; two leaks would be noticed by the third. |
| `login_twice` (violated) | `DisconnectedOnce` | As `login`. |
| `handoff` | Is every token handed to one bot of its account and used at most once by it, do tokens not go stale, does `clientMap` list only holders, do accounts stay as few as the bots wanted? | Two bots, spawned one at a time (`Rate` 1), target two: both two live bots of two accounts and a second bot with the account of a first that stopped occur, and a bot counted out twice; a token for each, all losses, all orders of disconnect. |
| `handoff_live` | Does a bot that stopped leave `clientMap`, and does its account come back? | Two bots one after the other (target one): the second, if it came with a new id, would leave the first's waiting for ever. |
| `secure_channel` | Do both sides decrypt what was sealed for them and nothing else? | `Modulus` 6, window 2, jump 3: the arithmetic of 2^32, 100 and 1000 in small, with the assumption the real values meet (window + jump <= modulus); eight numbers drawn by each side, so that the numbers wrap around; two packets a second, two violations; a queue limit of one, so that packets of the game push the answer out of a full queue, too. |

Deadlock checking is off where the system may really stop: bounded packets are used
up and nothing has to happen any more. It is on for `monster`, whose tick never ends.

The violated runs each refute one sentence of a comment or a release note; they are
the `findings` of `PROJECT.json`, with the sentence quoted:

- a player exactly on the right or lower edge is in no sector, and its uid may stay in
  the zone for good (`GatewayHandlers.cpp:47`);
- `ScheduleRetry` clears the send queue of a write whose completion is still to run,
  which then pops an empty queue (`GameConnection.cpp:107`);
- a heartbeat timeout leaves the socket open, and the session disconnects twice
  (`Session.cpp:49`).

The models have four more behaviours that no run of its own exhibits. They are the reason why some properties one would expect are not stated (each is
a hazard in `PROJECT.json`):

- a `Send` between the clear and the close of `ScheduleRetry` starts a second write on the
  same socket, which `LoginServer/Network/WorldConnection.h:34` says the queue prevents
  (`GameConnection.cpp:107`);
- a monster whose ticks keep their length may step over its waypoint and back for ever
  (`Monster.cpp:145`);
- a bot stopped between its connect and the handler of it is counted out twice, and its id
  is with two bots (`StressManager.cpp:70`, `StressSession.cpp:79`);
- the players of a gateway session that read a bad header are never cleaned up
  (`GatewaySession.cpp:165`).

## 4. Fairness

Only what the code's own scheduling guarantees is assumed, always weak fairness:

- a strand's tasks are run, since the threads of its `io_context` serve it
  (`RunTask` of GameWorld and SendQueue, `RunStrand` of S2SConnection);
- a timer that was set expires and its handler runs (`DoConnect`, `TimerExpires`,
  `HeartbeatCheck`);
- a handler that is ready runs (`OnReadError`, `CloseAndWait`, `ReadError`, `Connecting`);
- the DB threads run, a wait for a connection ends, and the database answers every call,
  well or badly (`DbStep` of LoginDb);
- the manager's timers expire (`ManagerStep` of Handoff) and the gateway's threads go on
  with a read handler they started, or whose connection broke (`ReaderStep`);
- the operating system ends a connect and a write, well or badly (`ConnectFinishes`, `WriteCompletes`, `PickUp`).

Clients and gateways are never assumed to do anything: to send, to leave, to
answer. A write that fails is not assumed to be noticed: `GoneIsUnlisted` rests on the
reader alone. The other server's return is the premise of `Reconnects`, not an assumption.
In `S2SConnection` handlers that are ready run within the three seconds of the retry
timer; otherwise a connect could start beside handlers of the former one.

`Reconnects` is checked with a bounded number of packets. With packets for ever,
`GameConnection` (which sends as soon as the socket is open, and that is while it is
connecting) may fail a write during every connect, and that failure closes the socket:
listed as a hazard, not covered.

## 5. Theorems

| Theorem | States | Argument |
|---|---|---|
| `GameWorld_proofs!TypeCorrect` | types | each action by its parts: strand, maps, grid, Redis |
| `GameWorld_proofs!RegistryCorrect` | `RegistryBijective` | needs `UidsIssued`, that every uid in use is below `uidCounter`: otherwise a new player could get a uid that is taken |
| `GameWorld_proofs!UidsNeverRebound` | `UidNeverRebound` | action property from the same invariant |
| `GameWorld_proofs!RegistryIsTable` | GameWorld implements PlayerRegistry (`IsRegistry`) | `StepIsTableStep`: `PlayersChange` says which of the three changes a step makes, `RegistryBijective` that uids and accounts name the same players, `EverybodyOnGround` that every position is one the handler clamped |
| `GameWorld_proofs!NearIsShown` | nobody near is left out of a broadcast (`NearSeen`) | no premise: `NobodyMissing`, half of `SectorsExact`, survives walks over the edge, which only leave ghosts; `NearIsNeighbour` is the arithmetic of sectors |
| `GameWorld_proofs!FarIsHidden` | a broadcast reaches only players online and less than two sectors away (`FarHidden`) | from `SectorsExact`, with its premise |
| `GameWorld_proofs!ReapedForGood` | the entry of a failed gateway that was cleaned up stays empty | safety half of `FailedGatewayReaped`: behind a cleanup there is no packet of the session (invariants of `NoZombies`), so nothing lists anybody under it again |
| `GameWorld_proofs!NoZombies` | `NoZombie` | needs invariants about the strand: a closed session has at most one cleanup queued, and no packet of it stands behind it; so a cleanup never runs before a packet that would bring its session's players back |
| `GameWorld_proofs!MirrorExact`, `RemovalsJustified` | `RedisMirror`, `RemovalJustified` | `PlayersChange`: whatever a step is, it lets one player join, moves one, or removes some, and says what the registry and Redis are then (`HpSet`, `HashesDeleted`: refused commands leave the account in `refused`) |
| `GameWorld_proofs!ZoneExact` | `SectorsExact` | `ZoneInv`: everybody is on the map and `Placed` in the sector of its position. Premise: no request is clamped to the right or the lower edge, which belong to no sector; `MCGameWorldEdge` shows what happens there |
| `Monster_proofs!TypeCorrect`, `GuardIsAtHome`, `DeadIffNoHp` | types, `IdleAtHome`, `DeadMeansNoHp` | one invariant; a lemma says what each method promises about the object it returns, and a step is a chain of methods. The types say that the monster is never further than one stride from the map: `WalkType` shows that a walk from there towards a waypoint on the map does not lead out further |
| `Monster_proofs!StrikesReach` | `StrikesInReach` | action property: who still attacks after looking for its target knows where that target is now but for `TargetEpsilon` (a triangle inequality), and a strike does not move |
| `Monster_proofs!PathsLeadToGoal` | `PathLeadsToGoal` | `GoalOK`: while a monster is under way its fresh request asks for the present goal in a state that the callback of `CalculatePath` accepts. Premises on the navmesh: there are `W`, along which paths lead, and `R` around it such that a walk from `R` towards a point of `W`, steps over the waypoint included, stays in `R` (`Walkable`), and from `R` every query is answered, by a path whose end depends on its goal alone (`Answers`) |
| `Monster_proofs!MovesRegister` | `MoveRegisters` | `Confined`: monster, waypoints and requests stay on ground that walks do not leave, here inside the sectors of the map, so `UpdatePositionMonster` never skips a move. Premise: walks along paths to where players or the home are, steps over a waypoint included, keep off the right and the lower edge |
| `SendQueue_proofs!OneWriteAtATime`, `QueueStaysBounded`, `TypeCorrect` | `SingleWrite`, `QueueBounded` | inductive with the types: writes and completions together are the head of the queue |
| `SendQueue_proofs!SendPathIsFifo` | SendQueue implements FifoChannel | each action is mapped to a channel action or a stutter, from `Inv` and from `FailureKnown` (a failed completion in the strand means that the network gave up) |
| `S2SConnection_proofs!NeverAsleep` | `AlwaysTrying` | inductive as it stands: each handler that ends reading, connecting or waiting starts one of them, or is about to (`retrying`) |
| `S2SConnection_proofs!S2STypeCorrect`, `QueueNeverStalls` | types, `NeverStalls` | `S2SInv`: the types and `NeverStalls` together. A task of `Send` that finds the queue empty starts a write, a completion with packets left starts the next, a failed one and a clear leave no packets; whoever's packet the completion popped. Steps are treated by what they do to the completions on their way |
| `LoginSessions_proofs!TypeCorrect` | types, containers agree, silence bounded | needs `InTime`: a timer that waits belongs to a session within its patience |
| `LoginSessions_proofs!LoginIsExclusive` | `LoginExclusive` | an account is entered only if no session holds it |
| `LoginSessions_proofs!TokensReachHolders` | `TokensOnlyForOwn` | needs `HoldersProven`: whoever holds an account logged in to it |
| `LoginDb_proofs!PoolAlwaysSuffices` | `PoolSuffices` | needs `Balanced`: free connections and holders make up `created`; then cardinalities |
| `LoginDb_proofs!FetchedUidsStayFree` | `FetchedUidsFree` | needs `UidsIssued`: every uid in use is below the sequence's next value |
| `LoginDb_proofs!AcceptedAreAuthentic` | `Authentic` | needs that whoever is about to be accepted is registered; rows are never deleted |
| `LoginDb_proofs!ImplementsLoginChecks` | LoginDb implements LoginChecks | needs `OnePlaceEach`: no login is twice in the queue, twice with threads, or in both |
| `Handoff_proofs!TypeCorrect` | types of bots, relay and gateway | each module's moves keep its own types; `Parts` says which moves a step of the composition consists of |
| `Handoff_proofs!ListedSafe` | `ListedMeansHeld` | `SessionInv`: a session is entered only while its one request is handled (`ReaderInv`, `EnteredInv`), with its account set in the same step, and whoever clears the account erases the entry under the same lock |
| `Handoff_proofs!EndedForGood` | no entry of `clientMap` names a session whose read loop has ended, ever again | safety half of `GoneIsUnlisted`: an ended read loop holds no account (`EndedInv`), whichever disconnect was first, `ListedMeansHeld` does the rest, and `EndedInductive` also shows that ended is for good |
| `Handoff_proofs!TokensFresh` | `NoStaleToken` | `LinksInv`: on every link tokens ascend, and what is nearer to the gateway is older than what follows it |
| `Handoff_proofs!AccountsStayBounded` | `AccountsBounded` | with the types: a spawn takes no more than is missing to `Target`, from the ids that wait first (`SpawnKeepsAccounts`), and each counting out lowers the count by one and queues one id, even if it is the second of the same bot (`BotsKeepAccounts`) |
| `Handoff_proofs!Implements` | Handoff implements SessionTokens | `LinksInv` and `HandsInv`: a token a bot holds is older than every answer on its way (`HeldInv`), so no answer is handed out twice; LoginServer's entry of an account is a bot of that account (`MapInv`); a session consumes a token only while its one request is handled (`ConsumedInv`) |
| `SecureChannel_proofs!TypeCorrect` | types, length of the queue | inductive as it stands |
| `SecureChannel_proofs!GatewaySafe`, `ClientSafe` | `GatewayUnderstands`, `ClientUnderstands` | one invariant: in each direction seals ascend from `opened` to the next number, `recv_sequence` is `opened` modulo `Modulus`, and a client that has not turned encryption on has the plain answer before every seal. `NextIsValid` is the arithmetic: a number at most `Jump` ahead is valid whatever wrap-around lies between, for every modulus of at least window plus jump |

Assumed of the constants is only what their `ASSUME`s state, and TLC evaluates these in
every run: the map is not empty, requests are points, hp and damage are positive,
limits are natural numbers, the DB threads and known accounts are finitely many,
`NoAccount` is no account, `NoLogin` no login and `NoToken` no token, a window and a jump
fit into the modulus.

Only model-checked: every liveness property (`FailedGatewayReaped`, `Drained`,
`Reconnects`, `GoneIsNoticed`, `EveryLoginAnswered`, `GoneIsUnlisted`, `IdComesBack`), since
fairness and ENABLED are out of the prover's reach. Every invariant, every action property and
every refinement that a run checks is also a theorem. `ReapedForGood` and `EndedForGood` are the
safety of two of the liveness properties: what they say must stay once it is reached, for every
number of sessions; that it is reached is what TLC checks. Four theorems (`ZoneExact`,
`FarIsHidden`, `PathsLeadToGoal`, `MovesRegister`) have the premises named above, about inputs
that this code does not choose: the instances of the runs meet them (`MCGameWorld` asks for no
edge, `MCMonster` assumes `LPathAssumption`), and `MCGameWorldEdge` shows what happens without.

Proved without a run of their own: `UidNeverRebound` (it follows from the refinement
`IsRegistry`) and the types of `Handoff` and `S2SConnection`.

## 6. Not modelled

The navmesh and the map generator (a library's answer is the constant `FindPath`), the
buffer pool (a library's lock-free queue), configuration, data files, logging, the
dummy client (keyboard and drawing), the admin API (one call that validates a number
and sends the buff packet), `PacketSecurity.h` and `PacketValidator.h` (unused).

Inside the modelled components: the contents of packets, packets that cannot be
parsed and the tracker that counts them (an honest client sends none), unknown packet ids,
`NetworkErrorHandler`'s classes of errors (every broken connection is taken to be noticed as
one), chat, process shutdown, `TokenStore::CleanExpired` (never called), a second connect
request on one gateway session, a cipher that fails, the bytes on the wire of a connection
whose writes overlapped, a bot's sends (but for the write the change of servers aborts), the
timer that spaces a monster's position packets, and data races on a single variable
(`logged_in_id_`, `last_heartbeat_`, `account_id_`, the socket object), whose outcome in a
build is taken to be one of the values written.

The dummy client reads exactly one packet after its connect request; `SecureChannel` is about
the bot, which looks for the answer among all packets it gets.

## 7. Plan

Done: the registry, monsters, send path, connections, login, database, the handoff with its
bots, the protected channel. Next, each first checked, then proved about:

1. The leaves a gateway sends (`ClientSession::OnDisconnected`), composed of
   `GatewaySessions` and `GameWorld`: a leave for an account whose newer session is in the game.
2. `GameConnection` with traffic that never ends, which needs a fair scheduler of sends.
