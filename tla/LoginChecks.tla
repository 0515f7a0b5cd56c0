------------------------------ MODULE LoginChecks ------------------------------
(***************************************************************************)
(* What the login server relies on when it posts a login to the database   *)
(* threads: the check ends once, with one answer, in any order.            *)
(***************************************************************************)
CONSTANT Logins

VARIABLES
  checking,  \* logins under way
  accepted,  \* logins whose check ended well
  refused    \* and those whose check did not

vars == <<checking, accepted, refused>>

Init == checking = {} /\ accepted = {} /\ refused = {}

Post(l) ==
  /\ l \notin checking \cup accepted \cup refused
  /\ checking' = checking \cup {l}
  /\ UNCHANGED <<accepted, refused>>

Finish(l) ==
  /\ l \in checking
  /\ checking' = checking \ {l}
  /\ \/ accepted' = accepted \cup {l} /\ UNCHANGED refused
     \/ refused' = refused \cup {l} /\ UNCHANGED accepted

Next == \E l \in Logins : Post(l) \/ Finish(l)

Spec == Init /\ [][Next]_vars

===============================================================================
