---------------------------- MODULE LoginSessions ----------------------------
(***************************************************************************)
(* The login server: its client sessions, their heartbeat timers, the      *)
(* registry of accounts that are logged in, and the relay of tokens from   *)
(* WorldServer.                                                            *)
(*                                                                         *)
(* The read handler and the timer handler of a session are not serialised: *)
(* any thread of the io_context runs them, and both may call               *)
(* OnDisconnected, which tests logged_in_id_ BEFORE it takes loginMutex to *)
(* erase the account.  The timer's handler does not close the socket, so a *)
(* session that timed out goes on reading.                                 *)
(*                                                                         *)
(* A login is checked by one of several DB threads, which takes as long as *)
(* it likes (what it does meanwhile is another matter): the checks under   *)
(* way are a set, and any of them may be the next to end.                  *)
(*                                                                         *)
(* Time is counted in intervals of the heartbeat check.  Left out: the     *)
(* send path (module SendQueue), the torn reads of logged_in_id_ and       *)
(* last_heartbeat_ that unlocked accesses allow, and Shutdown.             *)
(***************************************************************************)
EXTENDS Integers, Functions

CONSTANTS
  Sessions,    \* the connections clients make
  Accounts,
  NoAccount,   \* logged_in_id_ is empty
  Patience,    \* TIMEOUT_SECONDS \div CHECK_INTERVAL_SECONDS
  MaxLogins    \* bound: login requests of one session

ASSUME LoginAssumption ==
  /\ Patience \in Nat /\ MaxLogins \in Nat
  /\ NoAccount \notin Accounts

VARIABLES
  link,       \* external: the client's connection, open or broken
  reader,     \* the read loop: none, reading, deaf (it gave up), erasing, ended
  watch,      \* heartbeat_timer_: off, starting, armed, due, erasing
  silent,     \* intervals since last_heartbeat_
  logged_in_id,
  left,       \* calls of OnDisconnected
  connected_clients,
  loggedInUsers, sessionMap,
  asked,      \* login requests of each session so far
  checking,   \* requests posted to db_io_context and not finished
  selecting,  \* external: accounts whose world selection WorldServer handles
  proven,     \* history: accounts a session logged in with
  tokens      \* history: accounts a session was handed a token for

session  == <<link, reader, watch, silent, left, connected_clients>>
registry == <<logged_in_id, loggedInUsers, sessionMap, proven>>
logins   == <<asked, checking>>
world    == <<selecting, tokens>>
vars     == <<session, registry, logins, world>>

Init ==
  /\ link = [s \in Sessions |-> "open"]
  /\ reader = [s \in Sessions |-> "none"]
  /\ watch = [s \in Sessions |-> "off"]
  /\ silent = [s \in Sessions |-> 0]
  /\ logged_in_id = [s \in Sessions |-> NoAccount]
  /\ left = [s \in Sessions |-> 0]
  /\ connected_clients = 0
  /\ loggedInUsers = {}
  /\ sessionMap = <<>>
  /\ asked = [s \in Sessions |-> 0]
  /\ checking = {}
  /\ selecting = {}
  /\ proven = [s \in Sessions |-> {}]
  /\ tokens = [s \in Sessions |-> {}]

-------------------------------------------------------------------------------
(* Sessions.                                                               *)

\* start: the read loop is under way before the timer is set.
do_accept(s) ==
  /\ reader[s] = "none"
  /\ reader' = [reader EXCEPT ![s] = "reading"]
  /\ watch' = [watch EXCEPT ![s] = "starting"]
  /\ connected_clients' = connected_clients + 1
  /\ UNCHANGED <<link, silent, left, registry, logins, world>>

StartHeartbeatCheck(s) ==
  /\ watch[s] = "starting"
  /\ watch' = [watch EXCEPT ![s] = "armed"]
  /\ UNCHANGED <<link, reader, silent, left, connected_clients, registry, logins, world>>

\* The half of OnDisconnected before the lock.  A timer whose handler is due
\* or running, or that is not set yet, cannot be cancelled any more.
OnDisconnected(s) ==
  /\ connected_clients' = connected_clients - 1
  /\ left' = [left EXCEPT ![s] = @ + 1]

Cancelled(s) == IF watch[s] = "armed" THEN "off" ELSE watch[s]

ErasesAccount(s) == logged_in_id[s] # NoAccount

ReadError(s) ==
  /\ reader[s] = "reading" /\ link[s] = "broken"
  /\ OnDisconnected(s)
  /\ watch' = [watch EXCEPT ![s] = Cancelled(s)]
  /\ reader' = [reader EXCEPT ![s] = IF ErasesAccount(s) THEN "erasing" ELSE "ended"]
  /\ UNCHANGED <<link, silent, registry, logins, world>>

\* An impossible packet size: the read loop ends, and nothing else.
BadHeader(s) ==
  /\ reader[s] = "reading"
  /\ reader' = [reader EXCEPT ![s] = "deaf"]
  /\ UNCHANGED <<link, watch, silent, left, connected_clients, registry, logins, world>>

TimerExpires(s) ==
  /\ watch[s] = "armed"
  /\ watch' = [watch EXCEPT ![s] = "due"]
  /\ silent' = [silent EXCEPT ![s] = @ + 1]
  /\ UNCHANGED <<link, reader, left, connected_clients, registry, logins, world>>

Bug_WaitsForever(s) == FALSE
TimedOut(s) == silent[s] > Patience

Bug_CheckedOnce(s) == "off"
CheckAgain(s) == "starting"

HeartbeatCheck(s) ==
  /\ watch[s] = "due"
  /\ \/ /\ TimedOut(s)
        /\ OnDisconnected(s)
        /\ watch' = [watch EXCEPT ![s] = IF ErasesAccount(s) THEN "erasing" ELSE "off"]
     \/ /\ ~TimedOut(s)
        /\ watch' = [watch EXCEPT ![s] = CheckAgain(s)]
        /\ UNCHANGED <<left, connected_clients>>
  /\ UNCHANGED <<link, reader, silent, registry, logins, world>>

\* The other half of OnDisconnected, under loginMutex: whatever account the
\* session has by now, whoever holds it.
EraseAccount(s) ==
  /\ loggedInUsers' = loggedInUsers \ {logged_in_id[s]}
  /\ sessionMap' = Restrict(sessionMap, DOMAIN sessionMap \ {logged_in_id[s]})
  /\ UNCHANGED <<link, silent, left, connected_clients, logged_in_id, proven, logins, world>>

ReaderErases(s) ==
  /\ reader[s] = "erasing"
  /\ reader' = [reader EXCEPT ![s] = "ended"]
  /\ EraseAccount(s) /\ UNCHANGED watch

TimerErases(s) ==
  /\ watch[s] = "erasing"
  /\ watch' = [watch EXCEPT ![s] = "off"]
  /\ EraseAccount(s) /\ UNCHANGED reader

ClientLeaves(s) ==
  /\ reader[s] # "none" /\ link[s] = "open"
  /\ link' = [link EXCEPT ![s] = "broken"]
  /\ UNCHANGED <<reader, watch, silent, left, connected_clients, registry, logins, world>>

Receives(s) == reader[s] = "reading" /\ link[s] = "open"

Handle_Heartbeat(s) ==
  /\ Receives(s)
  /\ silent' = [silent EXCEPT ![s] = 0]
  /\ UNCHANGED <<link, reader, watch, left, connected_clients, registry, logins, world>>

-------------------------------------------------------------------------------
(* Logging in.                                                             *)

Handle_LoginReq(s, a) ==
  /\ Receives(s) /\ asked[s] < MaxLogins
  /\ asked' = [asked EXCEPT ![s] = @ + 1]
  /\ checking' = checking \cup {[session |-> s, account |-> a, nth |-> asked[s] + 1]}
  /\ UNCHANGED <<session, registry, world>>

LoginRefused(login) ==
  /\ checking' = checking \ {login}
  /\ UNCHANGED <<session, registry, asked, world>>

Bug_Always(a) == TRUE
IsFree(a) == a \notin loggedInUsers

\* Under loginMutex.  The session may be gone by now.
LoginSucceeds(login) ==
  LET s == login.session
      a == login.account
  IN  /\ IsFree(a)
      /\ loggedInUsers' = loggedInUsers \cup {a}
      /\ sessionMap' = [b \in DOMAIN sessionMap \cup {a} |->
                          IF b = a THEN s ELSE sessionMap[b]]
      /\ logged_in_id' = [logged_in_id EXCEPT ![s] = a]
      /\ proven' = [proven EXCEPT ![s] = @ \cup {a}]
      /\ checking' = checking \ {login}
      /\ UNCHANGED <<session, asked, world>>

-------------------------------------------------------------------------------
(* Selecting a world.                                                      *)

\* The request may be dropped on the way; requests of one account that are on
\* the way together count as one.
Handle_WorldSelectReq(s) ==
  /\ Receives(s)
  /\ selecting' = selecting \cup {logged_in_id[s]}
  /\ UNCHANGED <<session, registry, logins, tokens>>

Bug_EverybodyGets(a) == IF a \in DOMAIN sessionMap THEN Sessions ELSE {}
Recipients(a) == IF a \in DOMAIN sessionMap THEN {sessionMap[a]} ELSE {}

Handle_S2SWorldSelectRes(a) ==
  /\ a \in selecting
  /\ selecting' = selecting \ {a}
  /\ tokens' = [s \in Sessions |->
                  IF s \in Recipients(a) THEN tokens[s] \cup {a} ELSE tokens[s]]
  /\ UNCHANGED <<session, registry, logins>>

-------------------------------------------------------------------------------

SessionStep(s) ==
  \/ do_accept(s) \/ StartHeartbeatCheck(s)
  \/ ReadError(s) \/ BadHeader(s) \/ ReaderErases(s)
  \/ TimerExpires(s) \/ HeartbeatCheck(s) \/ TimerErases(s)
  \/ ClientLeaves(s) \/ Handle_Heartbeat(s)
  \/ \E a \in Accounts : Handle_LoginReq(s, a)
  \/ Handle_WorldSelectReq(s)

\* A check that fails, for whatever reason, or finds the account logged in.
DbStep == \E login \in checking : LoginRefused(login) \/ LoginSucceeds(login)

WorldStep == \E a \in Accounts \cup {NoAccount} : Handle_S2SWorldSelectRes(a)

Next == (\E s \in Sessions : SessionStep(s)) \/ DbStep \/ WorldStep

Spec == Init /\ [][Next]_vars

\* The io_context's threads run the handlers that are ready, and timers expire.
FairSpec ==
  /\ Spec
  /\ \A s \in Sessions :
       /\ WF_vars(ReadError(s))
       /\ WF_vars(StartHeartbeatCheck(s))
       /\ WF_vars(TimerExpires(s))
       /\ WF_vars(HeartbeatCheck(s))

-------------------------------------------------------------------------------
(* Properties.                                                             *)

Logins == [session : Sessions, account : Accounts, nth : 1..MaxLogins]

\* Every variable keeps its type; in particular the two containers of accounts
\* that are logged in agree, and no session stays silent beyond its patience.
TypeOK ==
  /\ link \in [Sessions -> {"open", "broken"}]
  /\ reader \in [Sessions -> {"none", "reading", "deaf", "erasing", "ended"}]
  /\ watch \in [Sessions -> {"off", "starting", "armed", "due", "erasing"}]
  /\ silent \in [Sessions -> 0..(Patience + 1)]
  /\ logged_in_id \in [Sessions -> Accounts \cup {NoAccount}]
  /\ left \in [Sessions -> Nat]
  /\ connected_clients \in Int
  /\ loggedInUsers \subseteq Accounts
  /\ sessionMap \in [loggedInUsers -> Sessions]
  /\ asked \in [Sessions -> 0..MaxLogins]
  /\ checking \subseteq Logins
  /\ selecting \subseteq Accounts \cup {NoAccount}
  /\ proven \in [Sessions -> SUBSET Accounts]
  /\ tokens \in [Sessions -> SUBSET Accounts]

\* While an account is logged in, no other session takes it over: however
\* logins, timeouts and disconnects overlap, it has to be erased first.
LoginExclusive ==
  [][\A a \in DOMAIN sessionMap \cap DOMAIN sessionMap' : sessionMap'[a] = sessionMap[a]]_vars

\* A token reaches only a session that logged in to the token's account, although
\* the account may have changed hands since the world was selected.
TokensOnlyForOwn == \A s \in Sessions : tokens[s] \subseteq proven[s]

\* A client that is gone, or that is not listened to any more after a bad
\* header, is noticed in the end; the heartbeat is what makes the second case so.
GoneIsNoticed ==
  \A s \in Sessions : link[s] = "broken" \/ reader[s] = "deaf" ~> left[s] > 0

\* "Cancel the timer, so that OnDisconnected is not called several times"
\* (Session::OnDisconnected).
DisconnectedOnce == \A s \in Sessions : left[s] <= 1

===============================================================================
