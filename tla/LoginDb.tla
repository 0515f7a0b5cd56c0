-------------------------------- MODULE LoginDb --------------------------------
(***************************************************************************)
(* How the login server checks a login: the threads of db_io_context, the  *)
(* pool of database connections, and the three stored procedures that      *)
(* ProcessLogin calls one after the other, without a transaction.  An      *)
(* account that is not found is registered on the spot.                    *)
(*                                                                         *)
(* Each procedure is atomic in the database and may fail.  A failed fetch  *)
(* is not told from an empty result: an account that exists is then        *)
(* registered again, and a uid that was not fetched stays at 1.            *)
(*                                                                         *)
(* Left out: logins with UseDB off (accepted unchecked), impossible        *)
(* lengths of name and password, salts and hashes (a password matches      *)
(* itself), and what happens to an accepted login (module LoginSessions).  *)
(***************************************************************************)
EXTENDS Integers, Sequences, SequencesExt, FiniteSets

CONSTANTS
  Names, Passwords,
  DbThreads,
  Known,       \* names registered before, with whatever password
  MaxLogins,   \* bound: logins posted
  NoLogin      \* a thread without a login

Logins == [nth : 1..MaxLogins, name : Names, pw : Passwords]

ASSUME LoginDbAssumption ==
  /\ IsFiniteSet(DbThreads)
  /\ IsFiniteSet(Known) /\ Known \subseteq Names
  /\ MaxLogins \in Nat
  /\ NoLogin \notin Logins

VARIABLES
  posted,     \* logins posted so far
  queue,      \* tasks of db_io_context, oldest first
  pc, login,  \* what each DB thread does, and for which login
  uid,        \* new_account_uid of each DB thread
  created,    \* total_created_
  available,  \* how many connections are in available_
  rows,       \* external: table Accounts
  sequence,   \* external: Seq_Account_Uid, its next value
  accepted, refused   \* logins answered

thread  == <<pc, login, uid>>
pool    == <<created, available>>
tables  == <<rows, sequence>>
answers == <<accepted, refused>>
vars    == <<posted, queue, thread, pool, tables, answers>>

\* Initialize asks for two connections a thread and takes what it gets; the threads
\* are started even if that is none.
Init ==
  /\ posted = 0
  /\ queue = <<>>
  /\ pc = [t \in DbThreads |-> "idle"]
  /\ login = [t \in DbThreads |-> NoLogin]
  /\ uid = [t \in DbThreads |-> 0]
  /\ created \in 0..(2 * Cardinality(DbThreads))
  /\ available = created
  /\ \E password \in [Known -> Passwords], number \in [Known -> 1..Cardinality(Known)] :
       /\ \A n, m \in Known : number[n] = number[m] => n = m
       /\ rows = {[uid |-> number[n], name |-> n, pw |-> password[n]] : n \in Known}
  /\ sequence = Cardinality(Known) + 1
  /\ accepted = {} /\ refused = {}

-------------------------------------------------------------------------------

\* Handle_LoginReq, on a network thread.
PostLogin ==
  /\ posted < MaxLogins
  /\ posted' = posted + 1
  /\ \E n \in Names, p \in Passwords :
       queue' = Append(queue, [nth |-> posted + 1, name |-> n, pw |-> p])
  /\ UNCHANGED <<thread, pool, tables, answers>>

GoTo(t, where) == pc' = [pc EXCEPT ![t] = where]

TakeTask(t) ==
  /\ pc[t] = "idle" /\ queue # <<>>
  /\ login' = [login EXCEPT ![t] = Head(queue)]
  /\ GoTo(t, "acquire")
  /\ queue' = Tail(queue)
  /\ UNCHANGED <<posted, uid, pool, tables, answers>>

Done(t) ==
  /\ GoTo(t, "idle")
  /\ login' = [login EXCEPT ![t] = NoLogin]
  /\ uid' = [uid EXCEPT ![t] = 0]

Bug_GivesUp(t) == Done(t) /\ UNCHANGED answers
Refuse(t) ==
  /\ Done(t)
  /\ refused' = refused \cup {login[t]}
  /\ UNCHANGED accepted

Bug_NoReturn(t) ==
  /\ GoTo(t, "refused")
  /\ refused' = refused \cup {login[t]}
  /\ UNCHANGED <<login, uid, accepted>>
RefuseAtOnce(t) == Refuse(t)

\* The wait ends with a connection, or after its time if there is none.
Acquire(t) ==
  /\ pc[t] = "acquire"
  /\ \/ /\ available > 0
        /\ available' = available - 1
        /\ GoTo(t, "lookup")
        /\ UNCHANGED <<login, uid, answers>>
     \/ /\ available = 0
        /\ RefuseAtOnce(t)
        /\ UNCHANGED available
  /\ UNCHANGED <<posted, queue, created, tables>>

-------------------------------------------------------------------------------
(* ProcessLogin.  It ends at "accept" or "refuse", still with its connection. *)

Fails(t) == GoTo(t, "refuse") /\ UNCHANGED <<uid, tables>>

Bug_AnyPassword(row, l) == TRUE
Matches(row, l) == row.pw = l.pw

\* Accounts_Login_Game: the first row of that name, whichever it is.
Lookup(t) ==
  /\ pc[t] = "lookup"
  /\ \/ \E row \in rows :
          /\ row.name = login[t].name
          /\ GoTo(t, IF Matches(row, login[t]) THEN "accept" ELSE "refuse")
     \/ GoTo(t, "uid")        \* no row, or none fetched
     \/ GoTo(t, "refuse")
  /\ UNCHANGED <<uid, tables>>

Bug_MaxPlusOne ==
  CHOOSE n \in 1..sequence :
    (\A row \in rows : row.uid < n) /\ (n = 1 \/ \E row \in rows : row.uid + 1 = n)
NextValue == sequence

\* Accounts_NextUid_Game.
NextUid(t) ==
  /\ pc[t] = "uid"
  /\ \/ /\ \E fetched \in {NextValue, 1} : uid' = [uid EXCEPT ![t] = fetched]
        /\ sequence' = sequence + 1
        /\ GoTo(t, "register")
        /\ UNCHANGED rows
     \/ Fails(t)

IsTaken(n) == \E row \in rows : row.uid = n

\* Accounts_Register_Game: account_uid is the primary key, the name is not unique.
Register(t) ==
  /\ pc[t] = "register"
  /\ \/ /\ ~IsTaken(uid[t])
        /\ rows' = rows \cup {[uid |-> uid[t], name |-> login[t].name, pw |-> login[t].pw]}
        /\ GoTo(t, "accept")
        /\ UNCHANGED <<uid, sequence>>
     \/ Fails(t)

ProcessLogin(t) ==
  /\ Lookup(t) \/ NextUid(t) \/ Register(t)
  /\ UNCHANGED <<posted, queue, login, pool, answers>>

-------------------------------------------------------------------------------

Bug_LeaksOnRefusal(t) == IF pc[t] = "accept" THEN available + 1 ELSE available
Returned(t) == available + 1

\* The ScopedConnection goes out of scope, before the answer is made up.
ReturnConnection(t) ==
  /\ \/ pc[t] = "accept" /\ GoTo(t, "accepted")
     \/ pc[t] = "refuse" /\ GoTo(t, "refused")
  /\ available' = Returned(t)
  /\ UNCHANGED <<posted, queue, login, uid, created, tables, answers>>

Answer(t) ==
  /\ \/ pc[t] = "refused" /\ Refuse(t)
     \/ /\ pc[t] = "accepted"
        /\ Done(t)
        /\ accepted' = accepted \cup {login[t]}
        /\ UNCHANGED refused
  /\ UNCHANGED <<posted, queue, pool, tables>>

DbStep(t) ==
  TakeTask(t) \/ Acquire(t) \/ ProcessLogin(t) \/ ReturnConnection(t) \/ Answer(t)

Next == PostLogin \/ \E t \in DbThreads : DbStep(t)

Spec == Init /\ [][Next]_vars

\* The threads run, the database answers every call, well or badly, and a wait for
\* a connection ends.
FairSpec == Spec /\ \A t \in DbThreads : WF_vars(DbStep(t))

-------------------------------------------------------------------------------

HoldingAt == {"lookup", "uid", "register", "accept", "refuse"}
Holders == {t \in DbThreads : pc[t] \in HoldingAt}

TypeOK ==
  /\ posted \in 0..MaxLogins
  /\ queue \in Seq(Logins)
  /\ pc \in [DbThreads -> {"idle", "acquire", "accepted", "refused"} \cup HoldingAt]
  /\ login \in [DbThreads -> Logins \cup {NoLogin}]
  /\ \A t \in DbThreads : login[t] = NoLogin <=> pc[t] = "idle"
  /\ uid \in [DbThreads -> Nat]
  /\ created \in Nat
  /\ available \in Nat
  /\ rows \subseteq [uid : Nat, name : Names, pw : Passwords]
  /\ sequence \in Nat
  /\ accepted \subseteq Logins /\ refused \subseteq Logins

\* DBConnectionPool::Acquire: with a connection a thread, no login is refused for
\* want of one: every way out of a login check gave its connection back.
PoolSuffices ==
  created >= Cardinality(DbThreads) =>
    \A t \in DbThreads : pc[t] = "acquire" => available > 0

\* Accounts_NextUid_Game: a uid that was fetched is free until it is registered,
\* however many first logins run at once, so that none of them fails for its key.
\* (A thread that did not get to fetch its uid has 1.)
FetchedUidsFree ==
  \A t \in DbThreads :
    pc[t] = "register" /\ uid[t] # 1 =>
      /\ ~IsTaken(uid[t])
      /\ \A other \in DbThreads \ {t} : pc[other] = "register" => uid[other] # uid[t]

\* ProcessLogin: whoever is accepted gave a password that is registered under the
\* name, also when the account was registered by two logins at once.
Authentic ==
  \A l \in accepted : \E row \in rows : row.name = l.name /\ row.pw = l.pw

\* Handle_LoginReq: every login posted is answered in the end.
Answered == Cardinality(accepted) + Cardinality(refused) = posted
EveryLoginAnswered == []<>Answered

\* A login is checked by one thread and answered once: what LoginSessions takes a
\* login check to be.
Checking == ToSet(queue) \cup {login[t] : t \in {u \in DbThreads : pc[u] # "idle"}}
Checks == INSTANCE LoginChecks WITH checking <- Checking
IsLoginChecks == Checks!Spec

===============================================================================
