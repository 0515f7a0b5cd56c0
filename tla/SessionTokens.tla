----------------------------- MODULE SessionTokens -----------------------------
(***************************************************************************)
(* What a session token promises: it is made up for one account and handed *)
(* to at most one client, of that account; a client gets in at most once,  *)
(* and only with the token it was handed.  Tokens may be lost, and then    *)
(* nobody gets in.                                                         *)
(***************************************************************************)
EXTENDS Integers, Sequences

CONSTANT Clients

VARIABLES
  owner,     \* owner[t] is the account token t was made up for
  held,      \* client |-> its account and the token it was handed
  admitted   \* client |-> the token it got in with

vars == <<owner, held, admitted>>

Init == owner = <<>> /\ held = <<>> /\ admitted = <<>>

\* For any account.
Issue ==
  /\ Len(owner') = Len(owner) + 1
  /\ owner' = Append(owner, owner'[Len(owner) + 1])
  /\ UNCHANGED <<held, admitted>>

Hand(c, t) ==
  /\ c \notin DOMAIN held
  /\ \A d \in DOMAIN held : held[d].token # t
  /\ held' = [x \in DOMAIN held \cup {c} |->
                IF x = c THEN [account |-> owner[t], token |-> t] ELSE held[x]]
  /\ UNCHANGED <<owner, admitted>>

Admit(c) ==
  /\ c \in DOMAIN held \ DOMAIN admitted
  /\ admitted' = [x \in DOMAIN admitted \cup {c} |->
                    IF x = c THEN held[c].token ELSE admitted[x]]
  /\ UNCHANGED <<owner, held>>

Next == Issue \/ \E c \in Clients : Admit(c) \/ \E t \in 1..Len(owner) : Hand(c, t)

Spec == Init /\ [][Next]_vars

===============================================================================
