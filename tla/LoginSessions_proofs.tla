------------------------- MODULE LoginSessions_proofs -------------------------
(***************************************************************************)
(* Theorems about LoginSessions for any number of sessions, accounts and   *)
(* login requests: its types, that an account never changes hands without  *)
(* being erased, and that tokens reach only sessions that logged in.       *)
(*                                                                         *)
(* The inductive invariant adds two facts to the types: a timer that still *)
(* waits belongs to a session whose silence is within the patience (and a  *)
(* client that was not accepted yet has neither timer nor silence), and an *)
(* account that is logged in was proven by the session that holds it,      *)
(* whichever session erases it and whenever.                               *)
(***************************************************************************)
EXTENDS LoginSessions, TLAPS

InTime ==
  \A s \in Sessions :
    /\ watch[s] \in {"starting", "armed"} => silent[s] <= Patience
    /\ reader[s] = "none" => watch[s] = "off" /\ silent[s] = 0

HoldersProven == \A a \in loggedInUsers : a \in proven[sessionMap[a]]

IInv == TypeOK /\ InTime /\ HoldersProven /\ TokensOnlyForOwn

LEMMA InitInvariant == Init => IInv
PROOF
  <1> SUFFICES ASSUME Init PROVE IInv
    OBVIOUS
  <1>1. sessionMap \in [loggedInUsers -> Sessions]
    BY DEF Init
  <1>2. TypeOK
    BY <1>1, LoginAssumption DEF Init, TypeOK
  <1> QED
    BY <1>2, LoginAssumption DEF Init, IInv, InTime, HoldersProven, TokensOnlyForOwn

\* The steps of a session's loop and timer that leave the registry alone.
LEMMA LoopTypes ==
  ASSUME TypeOK, InTime, NEW s \in Sessions,
         \/ do_accept(s) \/ StartHeartbeatCheck(s) \/ ReadError(s) \/ BadHeader(s)
         \/ TimerExpires(s) \/ HeartbeatCheck(s) \/ ClientLeaves(s) \/ Handle_Heartbeat(s)
  PROVE  TypeOK' /\ InTime'
PROOF
  <1> USE LoginAssumption DEF TypeOK, InTime, registry, logins, world
  <1>1. CASE do_accept(s)
    BY <1>1 DEF do_accept
  <1>2. CASE StartHeartbeatCheck(s)
    BY <1>2 DEF StartHeartbeatCheck
  <1>3. CASE ReadError(s)
    BY <1>3 DEF ReadError, OnDisconnected, Cancelled
  <1>4. CASE BadHeader(s)
    BY <1>4 DEF BadHeader
  <1>5. CASE TimerExpires(s)
    BY <1>5 DEF TimerExpires
  <1>6. CASE HeartbeatCheck(s)
    BY <1>6 DEF HeartbeatCheck, OnDisconnected, CheckAgain, TimedOut
  <1>7. CASE ClientLeaves(s)
    BY <1>7 DEF ClientLeaves
  <1>8. CASE Handle_Heartbeat(s)
    BY <1>8 DEF Handle_Heartbeat
  <1> QED
    BY <1>1, <1>2, <1>3, <1>4, <1>5, <1>6, <1>7, <1>8

LEMMA LoopLeavesRegistry ==
  ASSUME NEW s \in Sessions,
         \/ do_accept(s) \/ StartHeartbeatCheck(s) \/ ReadError(s) \/ BadHeader(s)
         \/ TimerExpires(s) \/ HeartbeatCheck(s) \/ ClientLeaves(s) \/ Handle_Heartbeat(s)
  PROVE  UNCHANGED <<registry, world>>
  BY DEF do_accept, StartHeartbeatCheck, ReadError, BadHeader, TimerExpires,
         HeartbeatCheck, ClientLeaves, Handle_Heartbeat

\* Erasing an account, whoever holds it.
LEMMA Erasing ==
  ASSUME IInv, NEW s \in Sessions, ReaderErases(s) \/ TimerErases(s)
  PROVE  IInv'
PROOF
  <1> DEFINE gone == logged_in_id[s]
  <1>1. /\ loggedInUsers' = loggedInUsers \ {gone}
        /\ sessionMap' = [a \in loggedInUsers \ {gone} |-> sessionMap[a]]
        /\ UNCHANGED <<link, silent, left, connected_clients, logged_in_id, proven, logins, world>>
    BY DEF ReaderErases, TimerErases, EraseAccount, Restrict, IInv, TypeOK
  <1>2. \/ reader' = [reader EXCEPT ![s] = "ended"] /\ UNCHANGED watch
        \/ watch' = [watch EXCEPT ![s] = "off"] /\ UNCHANGED reader
    BY DEF ReaderErases, TimerErases
  <1> HIDE DEF gone
  <1>3. sessionMap' \in [loggedInUsers' -> Sessions]
    BY <1>1 DEF IInv, TypeOK
  <1>4. TypeOK'
    BY <1>1, <1>2, <1>3 DEF IInv, TypeOK, logins, world
  <1>5. InTime'
    BY <1>1, <1>2 DEF IInv, InTime, TypeOK
  <1>6. HoldersProven'
    BY <1>1 DEF IInv, HoldersProven
  <1>7. TokensOnlyForOwn'
    BY <1>1 DEF IInv, TokensOnlyForOwn, world
  <1> QED
    BY <1>4, <1>5, <1>6, <1>7 DEF IInv

LEMMA Asking ==
  ASSUME IInv, NEW s \in Sessions,
         (\E a \in Accounts : Handle_LoginReq(s, a)) \/ Handle_WorldSelectReq(s)
  PROVE  IInv'
PROOF
  <1>1. CASE Handle_WorldSelectReq(s)
    BY <1>1 DEF Handle_WorldSelectReq, IInv, TypeOK, InTime, HoldersProven,
                TokensOnlyForOwn, session, registry, logins
  <1>2. ASSUME NEW a \in Accounts, Handle_LoginReq(s, a)
        PROVE  IInv'
    <2> DEFINE new == [session |-> s, account |-> a, nth |-> asked[s] + 1]
    <2>1. new \in Logins /\ asked[s] + 1 \in 0..MaxLogins
      BY <1>2, LoginAssumption DEF Handle_LoginReq, IInv, TypeOK, Logins
    <2>2. checking' = checking \cup {new}
      BY <1>2 DEF Handle_LoginReq
    <2> HIDE DEF new
    <2>3. TypeOK'
      BY <1>2, <2>1, <2>2 DEF Handle_LoginReq, IInv, TypeOK, session, registry, world
    <2> QED
      BY <1>2, <2>3 DEF Handle_LoginReq, IInv, InTime, HoldersProven, TokensOnlyForOwn,
                        session, registry, world
  <1> QED
    BY <1>1, <1>2

LEMMA Checking ==
  ASSUME IInv, DbStep
  PROVE  IInv'
PROOF
  <1> PICK login \in checking : LoginRefused(login) \/ LoginSucceeds(login)
    BY DEF DbStep
  <1> DEFINE s == login.session
             a == login.account
  <1>0. s \in Sessions /\ a \in Accounts
    BY DEF IInv, TypeOK, Logins
  <1>1. CASE LoginRefused(login)
    BY <1>1 DEF LoginRefused, IInv, TypeOK, InTime, HoldersProven, TokensOnlyForOwn,
                session, registry, world
  <1>2. CASE LoginSucceeds(login)
    <2>1. /\ a \notin loggedInUsers
          /\ loggedInUsers' = loggedInUsers \cup {a}
          /\ sessionMap' = [b \in loggedInUsers \cup {a} |-> IF b = a THEN s ELSE sessionMap[b]]
          /\ logged_in_id' = [logged_in_id EXCEPT ![s] = a]
          /\ proven' = [proven EXCEPT ![s] = @ \cup {a}]
          /\ checking' = checking \ {login}
          /\ UNCHANGED <<session, asked, world>>
      BY <1>2 DEF LoginSucceeds, IsFree, IInv, TypeOK
    <2> HIDE DEF s, a
    <2>2. sessionMap' \in [loggedInUsers' -> Sessions]
      BY <1>0, <2>1 DEF IInv, TypeOK
    <2>3. TypeOK'
      BY <1>0, <2>1, <2>2 DEF IInv, TypeOK, session, world
    <2>4. InTime'
      BY <2>1 DEF IInv, InTime, session
    <2>5. \A r \in Sessions : proven[r] \subseteq proven'[r]
      BY <1>0, <2>1 DEF IInv, TypeOK
    <2>6. HoldersProven'
      BY <1>0, <2>1, <2>5 DEF IInv, TypeOK, HoldersProven
    <2>7. TokensOnlyForOwn'
      BY <2>1, <2>5 DEF IInv, TokensOnlyForOwn, world
    <2> QED
      BY <2>3, <2>4, <2>6, <2>7 DEF IInv
  <1> QED
    BY <1>1, <1>2

\* A token goes to the session that holds the account at that moment.
LEMMA Relaying ==
  ASSUME IInv, WorldStep
  PROVE  IInv'
PROOF
  <1> PICK a \in Accounts \cup {NoAccount} : Handle_S2SWorldSelectRes(a)
    BY DEF WorldStep
  <1>1. \A s \in Recipients(a) : a \in Accounts /\ a \in proven[s]
    BY DEF Recipients, IInv, TypeOK, HoldersProven
  <1>2. /\ tokens' = [s \in Sessions |->
                        IF s \in Recipients(a) THEN tokens[s] \cup {a} ELSE tokens[s]]
        /\ selecting' = selecting \ {a}
        /\ UNCHANGED <<session, registry, logins>>
    BY DEF Handle_S2SWorldSelectRes
  <1>3. tokens' \in [Sessions -> SUBSET Accounts]
    BY <1>1, <1>2 DEF IInv, TypeOK
  <1>4. TypeOK'
    BY <1>2, <1>3 DEF IInv, TypeOK, session, registry, logins
  <1>5. TokensOnlyForOwn'
    BY <1>1, <1>2 DEF IInv, TokensOnlyForOwn, registry
  <1> QED
    BY <1>2, <1>4, <1>5 DEF IInv, InTime, HoldersProven, session, registry

LEMMA StepInvariant == IInv /\ [Next]_vars => IInv'
PROOF
  <1> SUFFICES ASSUME IInv, [Next]_vars PROVE IInv'
    OBVIOUS
  <1>1. ASSUME NEW s \in Sessions, SessionStep(s)
        PROVE  IInv'
    <2>1. CASE \/ do_accept(s) \/ StartHeartbeatCheck(s) \/ ReadError(s) \/ BadHeader(s)
               \/ TimerExpires(s) \/ HeartbeatCheck(s) \/ ClientLeaves(s) \/ Handle_Heartbeat(s)
      <3>1. TypeOK' /\ InTime'
        BY <2>1, LoopTypes DEF IInv
      <3>2. UNCHANGED <<registry, world>>
        BY <2>1, LoopLeavesRegistry
      <3> QED
        BY <3>1, <3>2 DEF IInv, HoldersProven, TokensOnlyForOwn, registry, world
    <2>2. CASE ReaderErases(s) \/ TimerErases(s)
      BY <2>2, Erasing
    <2>3. CASE (\E a \in Accounts : Handle_LoginReq(s, a)) \/ Handle_WorldSelectReq(s)
      BY <2>3, Asking
    <2> QED
      BY <1>1, <2>1, <2>2, <2>3 DEF SessionStep
  <1>2. CASE DbStep
    BY <1>2, Checking
  <1>3. CASE WorldStep
    BY <1>3, Relaying
  <1>4. CASE UNCHANGED vars
    BY <1>4 DEF vars, session, registry, logins, world, IInv, TypeOK, InTime,
                HoldersProven, TokensOnlyForOwn
  <1> QED
    BY <1>1, <1>2, <1>3, <1>4 DEF Next

LEMMA Invariance == Spec => []IInv
  BY InitInvariant, StepInvariant, PTL DEF Spec

\* Every variable keeps its type, and the two containers of accounts agree.
THEOREM TypeCorrect == Spec => []TypeOK
PROOF
  <1>1. IInv => TypeOK
    BY DEF IInv
  <1> QED
    BY <1>1, Invariance, PTL

\* Tokens reach only sessions that logged in to their account.
THEOREM TokensReachHolders == Spec => []TokensOnlyForOwn
PROOF
  <1>1. IInv => TokensOnlyForOwn
    BY DEF IInv
  <1> QED
    BY <1>1, Invariance, PTL

\* An account does not pass from one session to another in one step.
THEOREM LoginIsExclusive == Spec => LoginExclusive
PROOF
  <1> DEFINE Kept == \A a \in DOMAIN sessionMap \cap DOMAIN sessionMap' :
                       sessionMap'[a] = sessionMap[a]
  <1>1. IInv /\ [Next]_vars => [Kept]_vars
    <2> SUFFICES ASSUME IInv, Next PROVE Kept
      OBVIOUS
    <2>1. CASE \E s \in Sessions : ReaderErases(s) \/ TimerErases(s)
      BY <2>1 DEF ReaderErases, TimerErases, EraseAccount, Restrict
    <2>2. CASE DbStep
      <3> PICK login \in checking : LoginRefused(login) \/ LoginSucceeds(login)
        BY <2>2 DEF DbStep
      <3>1. DOMAIN sessionMap = loggedInUsers
        BY DEF IInv, TypeOK
      <3> QED
        BY <3>1 DEF LoginRefused, LoginSucceeds, IsFree, registry
    <2>3. CASE WorldStep
      BY <2>3 DEF WorldStep, Handle_S2SWorldSelectRes, registry
    <2>4. ASSUME NEW s \in Sessions, SessionStep(s), ~ReaderErases(s), ~TimerErases(s)
          PROVE  Kept
      <3>1. UNCHANGED registry
        BY <2>4, LoopLeavesRegistry DEF SessionStep, Handle_LoginReq, Handle_WorldSelectReq
      <3> QED
        BY <3>1 DEF registry
    <2> QED
      BY <2>1, <2>2, <2>3, <2>4 DEF Next
  <1> QED
    BY <1>1, Invariance, PTL DEF Spec, LoginExclusive

===============================================================================
