---------------------------- MODULE PlayerRegistry ----------------------------
(***************************************************************************)
(* What GameServer's player registry promises to the handlers, monsters    *)
(* and clients that use it, without its five maps, its tasks and sessions: *)
(* a table from uids to players in which every account is at most once.    *)
(* GameWorld implements it; Monster sees its players through it.           *)
(***************************************************************************)
EXTENDS Integers

CONSTANTS
  Accounts,   \* names of accounts
  Places      \* where a player can be

VARIABLES
  online,     \* uid |-> the account and the position of a player online
  next        \* the uid the next player gets

vars == <<online, next>>

Init ==
  /\ online = <<>>
  /\ next = 1

\* An account comes online under a uid nobody ever had.
Join(a, p) ==
  /\ \A u \in DOMAIN online : online[u].account # a
  /\ online' = [u \in DOMAIN online \cup {next} |->
                  IF u = next THEN [account |-> a, pos |-> p] ELSE online[u]]
  /\ next' = next + 1

Move(u, p) ==
  /\ online' = [online EXCEPT ![u].pos = p]
  /\ UNCHANGED next

\* One player leaves, or all those a failed gateway brought in, at once.
Leave(us) ==
  /\ online' = [u \in DOMAIN online \ us |-> online[u]]
  /\ UNCHANGED next

Next ==
  \/ \E a \in Accounts, p \in Places : Join(a, p)
  \/ \E u \in DOMAIN online, p \in Places : Move(u, p)
  \/ \E us \in SUBSET DOMAIN online : Leave(us)

Spec == Init /\ [][Next]_vars

===============================================================================
