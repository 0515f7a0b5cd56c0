----------------------------- MODULE LoginDb_proofs -----------------------------
(***************************************************************************)
(* Theorems about LoginDb: the pool has a connection for every thread that *)
(* needs one, fetched uids are free, and only registered passwords are     *)
(* accepted.  Each of the three has its own strengthening, and none needs  *)
(* another's; all of them need the types.                                  *)
(***************************************************************************)
EXTENDS LoginDb, FiniteSetTheorems, TLAPS

-------------------------------------------------------------------------------
(* Types. *)

LEMMA InitTypes == Init => TypeOK
  <1> SUFFICES ASSUME Init PROVE TypeOK
    OBVIOUS
  <1>1. Cardinality(Known) \in Nat /\ Cardinality(DbThreads) \in Nat
    BY FS_CardinalityType, LoginDbAssumption
  <1>2. rows \subseteq [uid : Nat, name : Names, pw : Passwords]
    BY <1>1, LoginDbAssumption DEF Init
  <1>3. created \in Nat /\ available \in Nat /\ sequence \in Nat
    BY <1>1 DEF Init
  <1> QED
    BY <1>2, <1>3, LoginDbAssumption DEF Init, TypeOK, HoldingAt

LEMMA PostTypes == TypeOK /\ PostLogin => TypeOK'
  <1> SUFFICES ASSUME TypeOK, PostLogin PROVE TypeOK'
    OBVIOUS
  <1>1. posted' \in 0..MaxLogins /\ posted + 1 \in 1..MaxLogins
    BY LoginDbAssumption DEF TypeOK, PostLogin
  <1>2. queue' \in Seq(Logins)
    BY <1>1 DEF TypeOK, PostLogin, Logins
  <1> QED
    BY <1>1, <1>2 DEF TypeOK, PostLogin, thread, pool, tables, answers

ThreadOK ==
  /\ pc \in [DbThreads -> {"idle", "acquire", "accepted", "refused"} \cup HoldingAt]
  /\ login \in [DbThreads -> Logins \cup {NoLogin}]
  /\ \A t \in DbThreads : login[t] = NoLogin <=> pc[t] = "idle"
  /\ uid \in [DbThreads -> Nat]

\* Going elsewhere with the same login, and being done with it.
LEMMA ThreadMoves ==
  ASSUME ThreadOK, NEW t \in DbThreads,
         \/ /\ pc[t] # "idle" /\ login' = login
            /\ uid' = uid \/ \E n \in Nat : uid' = [uid EXCEPT ![t] = n]
            /\ \E where \in {"acquire", "accepted", "refused"} \cup HoldingAt : GoTo(t, where)
         \/ Done(t)
  PROVE  ThreadOK'
  BY DEF ThreadOK, HoldingAt, GoTo, Done

LEMMA ThreadTypes ==
  ASSUME TypeOK, NEW t \in DbThreads, DbStep(t)
  PROVE  TypeOK'
PROOF
  <1> DEFINE OthersOK == /\ posted' \in 0..MaxLogins /\ queue' \in Seq(Logins)
                      /\ created' \in Nat /\ available' \in Nat /\ sequence' \in Nat
                      /\ rows' \subseteq [uid : Nat, name : Names, pw : Passwords]
                      /\ accepted' \subseteq Logins /\ refused' \subseteq Logins
  <1>0. ThreadOK /\ (pc[t] # "idle" => login[t] \in Logins)
    BY DEF TypeOK, ThreadOK
  <1>1. CASE TakeTask(t)
    <2>1. Head(queue) \in Logins /\ Tail(queue) \in Seq(Logins)
      BY <1>1 DEF TakeTask, TypeOK
    <2> QED
      BY <1>1, <2>1, LoginDbAssumption
      DEF TypeOK, HoldingAt, TakeTask, GoTo, pool, tables, answers
  <1>2. CASE ~TakeTask(t)
    <2>1. ThreadOK'
      <3>1. CASE Acquire(t)
        BY <1>0, <3>1, ThreadMoves DEF Acquire, Refuse, RefuseAtOnce, HoldingAt
      <3>2. CASE ProcessLogin(t)
        <4>1. CASE Lookup(t)
          BY <1>0, <3>2, <4>1, ThreadMoves DEF ProcessLogin, Lookup, HoldingAt
        <4>2. CASE NextUid(t)
          BY <1>0, <3>2, <4>2, ThreadMoves
          DEF ProcessLogin, NextUid, Fails, NextValue, HoldingAt, TypeOK
        <4>3. CASE Register(t)
          BY <1>0, <3>2, <4>3, ThreadMoves DEF ProcessLogin, Register, Fails, HoldingAt
        <4> QED
          BY <3>2, <4>1, <4>2, <4>3 DEF ProcessLogin
      <3>3. CASE ReturnConnection(t) \/ Answer(t)
        BY <1>0, <3>3, ThreadMoves DEF ReturnConnection, Answer, Refuse, HoldingAt
      <3> QED
        BY <1>2, <3>1, <3>2, <3>3 DEF DbStep
    <2>2. OthersOK
      <3>1. CASE Acquire(t)
        BY <1>0, <3>1 DEF TypeOK, Acquire, Refuse, RefuseAtOnce, tables, answers
      <3>2. CASE ProcessLogin(t) /\ ~Register(t)
        BY <3>2 DEF TypeOK, ProcessLogin, Lookup, NextUid, Fails, tables, pool, answers
      <3>3. CASE ProcessLogin(t) /\ Register(t)
        <4>1. [uid |-> uid[t], name |-> login[t].name, pw |-> login[t].pw]
                \in [uid : Nat, name : Names, pw : Passwords]
          BY <1>0, <3>3 DEF TypeOK, Register, Logins
        <4> QED
          BY <3>3, <4>1 DEF TypeOK, ProcessLogin, Register, Fails, tables, pool, answers
      <3>4. CASE ReturnConnection(t) \/ Answer(t)
        BY <1>0, <3>4 DEF TypeOK, ReturnConnection, Returned, Answer, Refuse, RefuseAtOnce,
                          pool, tables, answers
      <3> QED
        BY <1>2, <3>1, <3>2, <3>3, <3>4 DEF DbStep
    <2> QED
      BY <2>1, <2>2 DEF TypeOK, ThreadOK
  <1> QED
    BY <1>1, <1>2

LEMMA StepTypes == TypeOK /\ [Next]_vars => TypeOK'
  <1> SUFFICES ASSUME TypeOK, [Next]_vars PROVE TypeOK'
    OBVIOUS
  <1>1. CASE UNCHANGED vars
    BY <1>1 DEF TypeOK, vars, thread, pool, tables, answers
  <1> QED
    BY <1>1, PostTypes, ThreadTypes DEF Next

\* Every variable keeps its type, and a thread has a login just when it is not idle.
THEOREM TypeCorrect == Spec => []TypeOK
  BY InitTypes, StepTypes, PTL DEF Spec

-------------------------------------------------------------------------------
(* The pool: connections are either free or held by one thread each. *)

Balanced == available + Cardinality(Holders) = created

LEMMA HoldersFinite == IsFiniteSet(Holders) /\ Cardinality(Holders) \in Nat
  <1>1. Holders \subseteq DbThreads
    BY DEF Holders
  <1> QED
    BY <1>1, FS_Subset, FS_CardinalityType, LoginDbAssumption

LEMMA InitBalanced == Init => Balanced
  <1> SUFFICES ASSUME Init PROVE Balanced
    OBVIOUS
  <1>1. Holders = {}
    BY DEF Init, Holders, HoldingAt
  <1>2. available \in Nat
    BY InitTypes DEF TypeOK
  <1> QED
    BY <1>1, <1>2, FS_EmptySet DEF Init, Balanced

LEMMA StepBalanced == TypeOK /\ Balanced /\ [Next]_vars => Balanced'
  <1> SUFFICES ASSUME TypeOK, Balanced, [Next]_vars PROVE Balanced'
    OBVIOUS
  <1> USE HoldersFinite
  <1>1. ASSUME Holders' = Holders, UNCHANGED pool PROVE Balanced'
    BY <1>1 DEF Balanced, pool
  <1>2. CASE PostLogin \/ UNCHANGED vars
    BY <1>1, <1>2 DEF PostLogin, vars, thread, Holders
  <1>3. ASSUME NEW t \in DbThreads, DbStep(t) PROVE Balanced'
    <2>1. CASE TakeTask(t) \/ Answer(t) \/ (Acquire(t) /\ available = 0)
      <3>1. Holders' = Holders
        BY <2>1 DEF TypeOK, TakeTask, Answer, Acquire, Refuse, RefuseAtOnce, Done, GoTo, Holders, HoldingAt
      <3>2. UNCHANGED pool
        BY <2>1 DEF TypeOK, TakeTask, Answer, Acquire, pool
      <3> QED
        BY <1>1, <3>1, <3>2
    <2>2. CASE Acquire(t) /\ available # 0
      <3>1. Holders' = Holders \cup {t} /\ t \notin Holders
        BY <2>2 DEF TypeOK, Acquire, GoTo, Holders, HoldingAt
      <3>2. Cardinality(Holders') = Cardinality(Holders) + 1
        BY <3>1, FS_AddElement
      <3>3. available' = available - 1 /\ UNCHANGED created
        BY <2>2 DEF Acquire
      <3> QED
        BY <3>2, <3>3 DEF Balanced, TypeOK
    <2>3. CASE ProcessLogin(t)
      <3>1. UNCHANGED pool
        BY <2>3 DEF ProcessLogin
      <3>2. /\ pc[t] \in HoldingAt
            /\ \E where \in HoldingAt : GoTo(t, where)
        BY <2>3 DEF ProcessLogin, Lookup, NextUid, Register, Fails, HoldingAt
      <3>3. Holders' = Holders
        BY <3>2 DEF TypeOK, GoTo, Holders
      <3> QED
        BY <1>1, <3>1, <3>3
    <2>4. CASE ReturnConnection(t)
      <3>1. Holders' = Holders \ {t} /\ t \in Holders
        BY <2>4 DEF TypeOK, ReturnConnection, GoTo, Holders, HoldingAt
      <3>2. Cardinality(Holders') = Cardinality(Holders) - 1
        BY <3>1, FS_RemoveElement
      <3>3. available' = available + 1 /\ UNCHANGED created
        BY <2>4 DEF ReturnConnection, Returned
      <3> QED
        BY <3>2, <3>3 DEF Balanced, TypeOK
    <2> QED
      BY <1>3, <2>1, <2>2, <2>3, <2>4 DEF DbStep
  <1> QED
    BY <1>2, <1>3 DEF Next

LEMMA BalanceSuffices == TypeOK /\ Balanced => PoolSuffices
  <1> SUFFICES ASSUME TypeOK, Balanced, created >= Cardinality(DbThreads),
                      NEW t \in DbThreads, pc[t] = "acquire"
               PROVE  available > 0
    BY DEF PoolSuffices
  <1>1. Holders \in SUBSET (DbThreads \ {t})
    BY DEF Holders, HoldingAt
  <1>2. /\ IsFiniteSet(DbThreads \ {t})
        /\ Cardinality(DbThreads \ {t}) = Cardinality(DbThreads) - 1
    BY FS_RemoveElement, LoginDbAssumption
  <1>3. Cardinality(Holders) <= Cardinality(DbThreads) - 1
    BY <1>1, <1>2, FS_Subset
  <1>4. Cardinality(DbThreads) \in Nat
    BY FS_CardinalityType, LoginDbAssumption
  <1> QED
    BY <1>3, <1>4, HoldersFinite DEF Balanced, TypeOK

\* With as many connections as threads, whoever asks for one finds one.
THEOREM PoolAlwaysSuffices == Spec => []PoolSuffices
PROOF
  <1>1. Init => TypeOK /\ Balanced
    BY InitTypes, InitBalanced
  <1>2. (TypeOK /\ Balanced) /\ [Next]_vars => (TypeOK /\ Balanced)'
    BY StepTypes, StepBalanced
  <1>3. TypeOK /\ Balanced => PoolSuffices
    BY BalanceSuffices
  <1> QED
    BY <1>1, <1>2, <1>3, PTL DEF Spec

-------------------------------------------------------------------------------
(* Uids: every uid in use is below the sequence's next value. *)

UidsIssued ==
  /\ sequence > 0
  /\ \A row \in rows : row.uid < sequence
  /\ \A t \in DbThreads : pc[t] = "register" => uid[t] < sequence

UidsInv == UidsIssued /\ FetchedUidsFree

LEMMA InitUids == Init => UidsInv
  <1> SUFFICES ASSUME Init PROVE UidsInv
    OBVIOUS
  <1>1. Cardinality(Known) \in Nat
    BY FS_CardinalityType, LoginDbAssumption
  <1>2. \A row \in rows : row.uid \in 1..Cardinality(Known)
    BY DEF Init
  <1> QED
    BY <1>1, <1>2 DEF Init, UidsInv, UidsIssued, FetchedUidsFree

LEMMA StepUids == TypeOK /\ UidsInv /\ [Next]_vars => UidsInv'
  <1> SUFFICES ASSUME TypeOK, UidsInv, [Next]_vars PROVE UidsInv'
    OBVIOUS
  <1> USE DEF UidsInv, UidsIssued, FetchedUidsFree, IsTaken
  \* A step that draws and registers nothing frees uids at most.
  <1>1. ASSUME UNCHANGED tables, \A t \in DbThreads :
                 pc'[t] = "register" => pc[t] = "register" /\ uid'[t] = uid[t]
        PROVE  UidsInv'
    BY <1>1 DEF tables
  <1>2. CASE PostLogin \/ UNCHANGED vars
    BY <1>1, <1>2 DEF PostLogin, vars, thread
  <1>3. ASSUME NEW t \in DbThreads, DbStep(t) PROVE UidsInv'
    <2>1. CASE TakeTask(t) \/ Acquire(t) \/ ReturnConnection(t) \/ Answer(t)
      <3>1. UNCHANGED tables /\ pc'[t] # "register"
        BY <2>1 DEF TypeOK, TakeTask, Acquire, ReturnConnection, Answer, Refuse, RefuseAtOnce, Done, GoTo
      <3>2. \A u \in DbThreads \ {t} : pc'[u] = pc[u] /\ uid'[u] = uid[u]
        BY <2>1 DEF TypeOK, TakeTask, Acquire, ReturnConnection, Answer, Refuse, RefuseAtOnce, Done, GoTo
      <3> QED
        BY <1>1, <3>1, <3>2
    <2>2. CASE Lookup(t) \/ (Fails(t) /\ (NextUid(t) \/ Register(t)))
      BY <1>1, <2>2 DEF TypeOK, Lookup, Fails, GoTo
    <2>3. CASE NextUid(t) /\ ~Fails(t)
      <3>1. /\ rows' = rows /\ sequence' = sequence + 1
            /\ pc' = [pc EXCEPT ![t] = "register"]
        BY <2>3 DEF NextUid, GoTo
      <3>2. PICK fetched \in {sequence, 1} : uid' = [uid EXCEPT ![t] = fetched]
        BY <2>3 DEF NextUid, NextValue
      <3> QED
        BY <3>1, <3>2 DEF TypeOK
    <2>4. CASE Register(t) /\ ~Fails(t)
      <3> DEFINE new == [uid |-> uid[t], name |-> login[t].name, pw |-> login[t].pw]
      <3>1. /\ rows' = rows \cup {new} /\ uid' = uid /\ sequence' = sequence
            /\ pc[t] = "register" /\ pc' = [pc EXCEPT ![t] = "accept"]
        BY <2>4 DEF Register, GoTo
      <3>2. new.uid = uid[t]
        OBVIOUS
      <3> HIDE DEF new
      <3> QED
        BY <3>1, <3>2 DEF TypeOK
    <2> QED
      BY <1>3, <2>1, <2>2, <2>3, <2>4 DEF DbStep, ProcessLogin
  <1> QED
    BY <1>2, <1>3 DEF Next

\* A uid that was fetched is nobody else's, whatever first logins run at once.
THEOREM FetchedUidsStayFree == Spec => []FetchedUidsFree
PROOF
  <1>1. Init => TypeOK /\ UidsInv
    BY InitTypes, InitUids
  <1>2. (TypeOK /\ UidsInv) /\ [Next]_vars => (TypeOK /\ UidsInv)'
    BY StepTypes, StepUids
  <1>3. TypeOK /\ UidsInv => FetchedUidsFree
    BY DEF UidsInv
  <1> QED
    BY <1>1, <1>2, <1>3, PTL DEF Spec

-------------------------------------------------------------------------------
(* Passwords: what is about to be accepted is registered. *)

Registered(l) == \E row \in rows : row.name = l.name /\ row.pw = l.pw

Proven ==
  /\ \A t \in DbThreads : pc[t] \in {"accept", "accepted"} => Registered(login[t])
  /\ Authentic

LEMMA StepProven == TypeOK /\ Proven /\ [Next]_vars => Proven'
  <1> SUFFICES ASSUME TypeOK, Proven, [Next]_vars PROVE Proven'
    OBVIOUS
  <1> USE DEF Proven, Authentic, Registered
  \* Rows are never deleted: only a thread that comes to "accept" has to be looked at.
  <1>1. ASSUME rows \subseteq rows', UNCHANGED accepted,
               \A t \in DbThreads : pc'[t] \in {"accept", "accepted"} =>
                  login'[t] = login[t] /\ (Registered(login[t])' \/ pc[t] \in {"accept", "accepted"})
        PROVE  Proven'
    BY <1>1
  <1>2. CASE PostLogin \/ UNCHANGED vars
    BY <1>1, <1>2 DEF PostLogin, vars, thread, tables, answers
  <1>3. ASSUME NEW t \in DbThreads, DbStep(t) PROVE Proven'
    <2>1. CASE TakeTask(t) \/ Acquire(t) \/ ReturnConnection(t)
      BY <1>1, <2>1 DEF TypeOK, TakeTask, Acquire, ReturnConnection, Refuse, RefuseAtOnce, Done, GoTo,
                        tables, answers
    <2>2. CASE ProcessLogin(t)
      <3>0. login' = login /\ UNCHANGED accepted
        BY <2>2 DEF ProcessLogin, answers
      <3>1. CASE Lookup(t)
        BY <1>1, <3>0, <3>1 DEF TypeOK, Lookup, Matches, GoTo, tables
      <3>2. CASE NextUid(t)
        BY <1>1, <3>0, <3>2 DEF TypeOK, NextUid, Fails, GoTo, tables
      <3>3. CASE Register(t)
        <4> DEFINE new == [uid |-> uid[t], name |-> login[t].name, pw |-> login[t].pw]
        <4>1. /\ rows \subseteq rows'
              /\ \/ new \in rows' /\ pc' = [pc EXCEPT ![t] = "accept"]
                 \/ pc' = [pc EXCEPT ![t] = "refuse"]
          BY <3>3 DEF Register, Fails, GoTo, tables
        <4>2. new.name = login[t].name /\ new.pw = login[t].pw
          OBVIOUS
        <4> HIDE DEF new
        <4> QED
          BY <1>1, <3>0, <4>1, <4>2 DEF TypeOK
      <3> QED
        BY <2>2, <3>1, <3>2, <3>3 DEF ProcessLogin
    <2>3. CASE Answer(t)
      <3>1. UNCHANGED rows /\ pc' = [pc EXCEPT ![t] = "idle"]
        BY <2>3 DEF Answer, Refuse, Done, GoTo, tables
      <3>2. /\ login' = [login EXCEPT ![t] = NoLogin]
            /\ accepted' = accepted \/ (pc[t] = "accepted" /\ accepted' = accepted \cup {login[t]})
        BY <2>3 DEF Answer, Refuse, Done
      <3> QED
        BY <3>1, <3>2 DEF TypeOK
    <2> QED
      BY <1>3, <2>1, <2>2, <2>3 DEF DbStep
  <1> QED
    BY <1>2, <1>3 DEF Next

\* Nobody is accepted with a password that is not registered under the name.
THEOREM AcceptedAreAuthentic == Spec => []Authentic
PROOF
  <1>1. Init => TypeOK /\ Proven
    BY InitTypes DEF Init, Proven, Authentic
  <1>2. (TypeOK /\ Proven) /\ [Next]_vars => (TypeOK /\ Proven)'
    BY StepTypes, StepProven
  <1>3. TypeOK /\ Proven => Authentic
    BY DEF Proven
  <1> QED
    BY <1>1, <1>2, <1>3, PTL DEF Spec

-------------------------------------------------------------------------------
(* Refinement: no login is in two places. *)

LEMMA ToSetAppend ==
  ASSUME NEW S, NEW s \in Seq(S), NEW x \in S
  PROVE  ToSet(Append(s, x)) = ToSet(s) \cup {x}
PROOF
  <1>1. /\ DOMAIN Append(s, x) = 1..(Len(s) + 1) /\ DOMAIN s = 1..Len(s) /\ Len(s) \in Nat
        /\ \A i \in 1..Len(s) : Append(s, x)[i] = s[i]
        /\ Append(s, x)[Len(s) + 1] = x
    OBVIOUS
  <1>2. DOMAIN Append(s, x) = DOMAIN s \cup {Len(s) + 1}
    BY <1>1
  <1> QED
    BY <1>1, <1>2 DEF ToSet

LEMMA ToSetTail ==
  ASSUME NEW S, NEW s \in Seq(S), s # <<>>
  PROVE  /\ ToSet(s) = ToSet(Tail(s)) \cup {Head(s)}
         /\ \A i \in DOMAIN Tail(s) : i + 1 \in DOMAIN s /\ Tail(s)[i] = s[i + 1]
PROOF
  <1>1. /\ Len(Tail(s)) = Len(s) - 1 /\ Len(s) \in Nat \ {0}
        /\ \A i \in 1..(Len(s) - 1) : Tail(s)[i] = s[i + 1]
    OBVIOUS
  <1>2. DOMAIN s = 1..Len(s) /\ DOMAIN Tail(s) = 1..(Len(s) - 1)
    BY <1>1
  <1>3. ASSUME NEW i \in DOMAIN s PROVE s[i] \in ToSet(Tail(s)) \cup {Head(s)}
    <2>1. CASE i = 1
      BY <2>1
    <2>2. CASE i # 1
      <3>1. i - 1 \in DOMAIN Tail(s) /\ Tail(s)[i - 1] = s[i]
        BY <1>1, <1>2, <2>2
      <3> QED
        BY <3>1 DEF ToSet
    <2> QED
      BY <2>1, <2>2
  <1>4. Head(s) = s[1] /\ 1 \in DOMAIN s
    BY <1>1, <1>2
  <1> QED
    BY <1>1, <1>2, <1>3, <1>4 DEF ToSet

Busy(t) == pc[t] # "idle"

OnePlaceEach ==
  /\ \A i, j \in DOMAIN queue : queue[i] = queue[j] => i = j
  /\ \A t \in DbThreads : Busy(t) => login[t] \notin ToSet(queue)
  /\ \A t, u \in DbThreads : Busy(t) /\ login[t] = login[u] => t = u

Numbered == \A l \in Checking \cup accepted \cup refused : l.nth <= posted

Placed == OnePlaceEach /\ Numbered

\* Posting puts a new login in the queue.
LEMMA PostPlaced ==
  ASSUME TypeOK, Placed, PostLogin
  PROVE  Placed' /\ \E l \in Logins : Checks!Post(l)
PROOF
  <1>1. PICK n \in Names, p \in Passwords :
          queue' = Append(queue, [nth |-> posted + 1, name |-> n, pw |-> p])
    BY DEF PostLogin
  <1> DEFINE new == [nth |-> posted + 1, name |-> n, pw |-> p]
  <1>2. new \in Logins /\ new.nth = posted + 1
    BY LoginDbAssumption DEF TypeOK, PostLogin, Logins
  <1>3. queue' = Append(queue, new) /\ queue \in Seq(Logins)
    BY <1>1 DEF TypeOK
  <1> HIDE DEF new
  <1>4. UNCHANGED <<pc, login, accepted, refused>> /\ posted' = posted + 1 /\ posted \in Nat
    BY LoginDbAssumption DEF PostLogin, thread, answers, TypeOK
  <1>5. Checking' = Checking \cup {new}
    BY <1>2, <1>3, <1>4, ToSetAppend DEF Checking
  <1>6. new \notin Checking \cup accepted \cup refused
    BY <1>2, <1>4 DEF Placed, Numbered
  <1>7. \A l \in Checking \cup accepted \cup refused : l \in Logins
    BY DEF Checking, ToSet, TypeOK
  <1>8. Numbered'
    BY <1>2, <1>4, <1>5, <1>7 DEF Placed, Numbered, Logins
  <1>9. new \notin ToSet(queue) /\ \A t \in DbThreads : Busy(t) => login[t] # new
    BY <1>6 DEF Checking, Busy
  <1>10. OnePlaceEach'
    <2>1. \A i, j \in DOMAIN queue' : queue'[i] = queue'[j] => i = j
      BY <1>2, <1>3, <1>9 DEF Placed, OnePlaceEach, ToSet
    <2> QED
      BY <1>2, <1>3, <1>4, <1>9, <2>1, ToSetAppend DEF Placed, OnePlaceEach, Busy
  <1> QED
    BY <1>2, <1>4, <1>5, <1>6, <1>8, <1>10 DEF Placed, Checks!Post

\* Taking moves a login from the queue to a thread: still the same ones are checked.
LEMMA TakePlaced ==
  ASSUME TypeOK, Placed, NEW t \in DbThreads, TakeTask(t)
  PROVE  Placed' /\ UNCHANGED <<Checking, accepted, refused>>
PROOF
  <1>1. /\ pc[t] = "idle" /\ queue # <<>> /\ queue' = Tail(queue)
        /\ login' = [login EXCEPT ![t] = Head(queue)]
        /\ pc' = [pc EXCEPT ![t] = "acquire"]
        /\ UNCHANGED <<posted, accepted, refused>>
    BY DEF TakeTask, GoTo, answers
  <1>2. /\ ToSet(queue) = ToSet(queue') \cup {Head(queue)}
        /\ \A i \in DOMAIN queue' : i + 1 \in DOMAIN queue /\ queue'[i] = queue[i + 1]
    BY <1>1, ToSetTail DEF TypeOK
  <1>3. Checking' = Checking
    BY <1>1, <1>2 DEF Checking, TypeOK
  <1>4. DOMAIN queue' \subseteq Nat \ {0} /\ 1 \in DOMAIN queue /\ Head(queue) = queue[1]
    BY <1>1 DEF TypeOK
  <1>5. Head(queue) \notin ToSet(queue')
    BY <1>2, <1>4 DEF Placed, OnePlaceEach, ToSet
  <1>6. \A i, j \in DOMAIN queue' : queue'[i] = queue'[j] => i = j
    BY <1>2, <1>4 DEF Placed, OnePlaceEach
  <1>7. \A u \in DbThreads \ {t} : /\ pc'[u] = pc[u] /\ login'[u] = login[u]
                                   /\ login[u] # Head(queue)
    <2>1. Head(queue) \in ToSet(queue) /\ Head(queue) \in Logins
      BY <1>1, <1>2 DEF TypeOK
    <2> QED
      BY <1>1, <2>1, LoginDbAssumption DEF TypeOK, Placed, OnePlaceEach, Busy
  <1>8. login'[t] = Head(queue) /\ pc'[t] = "acquire"
    BY <1>1 DEF TypeOK
  <1>9. OnePlaceEach'
    BY <1>2, <1>5, <1>6, <1>7, <1>8 DEF Placed, OnePlaceEach, Busy
  <1>10. Numbered'
    BY <1>1, <1>3 DEF Placed, Numbered
  <1> QED
    BY <1>1, <1>3, <1>9, <1>10 DEF Placed

\* A thread that is done with its login takes it out of those being checked.
LEMMA DonePlaced ==
  ASSUME TypeOK, Placed, NEW t \in DbThreads, Busy(t), Done(t), UNCHANGED <<posted, queue>>,
         \/ accepted' = accepted \cup {login[t]} /\ UNCHANGED refused
         \/ refused' = refused \cup {login[t]} /\ UNCHANGED accepted
  PROVE  Placed' /\ \E l \in Logins : Checks!Finish(l)
PROOF
  <1>1. pc' = [pc EXCEPT ![t] = "idle"] /\ login' = [login EXCEPT ![t] = NoLogin]
    BY DEF Done, GoTo
  <1>2. login[t] \in Logins /\ login[t] \in Checking
    BY DEF TypeOK, Busy, Checking
  <1>3. /\ login[t] \notin ToSet(queue)
        /\ \A u \in DbThreads \ {t} : login[u] # login[t]
    BY DEF Placed, OnePlaceEach, Busy
  <1>4. \A u \in DbThreads \ {t} : pc'[u] = pc[u] /\ login'[u] = login[u]
    BY <1>1 DEF TypeOK
  <1>5. pc'[t] = "idle" /\ login'[t] = NoLogin
    BY <1>1 DEF TypeOK
  <1>6. Checking' = Checking \ {login[t]}
    BY <1>3, <1>4, <1>5 DEF Checking, Busy
  <1>7. OnePlaceEach'
    BY <1>4, <1>5 DEF Placed, OnePlaceEach, Busy, TypeOK
  <1>8. Numbered'
    BY <1>2, <1>6 DEF Placed, Numbered
  <1> QED
    BY <1>2, <1>6, <1>7, <1>8 DEF Placed, Checks!Finish

\* In between a thread keeps its login.
LEMMA WorkPlaced ==
  ASSUME TypeOK, Placed, NEW t \in DbThreads, Busy(t),
         UNCHANGED <<posted, queue, login, accepted, refused>>,
         \E where \in HoldingAt \cup {"accepted", "refused"} : GoTo(t, where)
  PROVE  Placed' /\ UNCHANGED <<Checking, accepted, refused>>
PROOF
  <1>1. \A u \in DbThreads : Busy(u)' <=> Busy(u)
    BY DEF TypeOK, Busy, GoTo, HoldingAt
  <1>2. Checking' = Checking
    BY <1>1 DEF Checking, Busy
  <1> QED
    BY <1>1, <1>2 DEF Placed, OnePlaceEach, Numbered

LEMMA StepChecks ==
  TypeOK /\ Placed /\ [Next]_vars
    => Placed' /\ [Checks!Next]_(Checks!vars)
PROOF
  <1> SUFFICES ASSUME TypeOK, Placed, [Next]_vars
               PROVE  Placed' /\ [Checks!Next]_(Checks!vars)
    OBVIOUS
  <1> USE DEF Checks!Next, Checks!vars
  <1>1. CASE UNCHANGED vars
    BY <1>1 DEF vars, thread, answers, Placed, OnePlaceEach, Numbered, Checking, Busy
  <1>2. CASE PostLogin
    BY <1>2, PostPlaced
  <1>3. ASSUME NEW t \in DbThreads, DbStep(t)
        PROVE  Placed' /\ [Checks!Next]_(Checks!vars)
    <2>1. CASE TakeTask(t)
      BY <2>1, TakePlaced
    <2>2. CASE Acquire(t) \/ Answer(t)
      <3>1. CASE \/ Acquire(t) /\ available = 0
                 \/ Answer(t)
        BY <3>1, DonePlaced DEF TypeOK, Acquire, Answer, Refuse, RefuseAtOnce, Busy
      <3>2. CASE Acquire(t) /\ available # 0
        BY <3>2, WorkPlaced DEF Acquire, answers, Busy, HoldingAt
      <3> QED
        BY <2>2, <3>1, <3>2
    <2>3. CASE ReturnConnection(t)
      BY <2>3, WorkPlaced DEF ReturnConnection, answers, Busy
    <2>4. CASE ProcessLogin(t)
      <3>1. UNCHANGED <<posted, queue, login, accepted, refused>>
        BY <2>4 DEF ProcessLogin, answers
      <3>2. Busy(t) /\ \E where \in HoldingAt : GoTo(t, where)
        BY <2>4 DEF ProcessLogin, Lookup, NextUid, Register, Fails, HoldingAt, Busy
      <3> QED
        BY <3>1, <3>2, WorkPlaced
    <2> QED
      BY <1>3, <2>1, <2>2, <2>3, <2>4 DEF DbStep
  <1> QED
    BY <1>1, <1>2, <1>3 DEF Next

LEMMA InitChecks == Init => Placed /\ Checks!Init
  <1> SUFFICES ASSUME Init PROVE Placed /\ Checks!Init
    OBVIOUS
  <1>1. Checking = {}
    BY DEF Init, Checking, ToSet
  <1> QED
    BY <1>1 DEF Init, Placed, OnePlaceEach, Numbered, Busy, Checks!Init

\* The queue, the threads and the pool implement the login checks: each login is
\* checked once and gets one answer.
THEOREM ImplementsLoginChecks == Spec => IsLoginChecks
PROOF
  <1>1. Init => TypeOK /\ Placed /\ Checks!Init
    BY InitTypes, InitChecks
  <1>2. (TypeOK /\ Placed) /\ [Next]_vars
          => (TypeOK /\ Placed)' /\ [Checks!Next]_(Checks!vars)
    BY StepTypes, StepChecks
  <1> QED
    BY <1>1, <1>2, PTL DEF Spec, IsLoginChecks, Checks!Spec

===============================================================================
