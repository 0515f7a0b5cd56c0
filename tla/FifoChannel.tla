------------------------------ MODULE FifoChannel ------------------------------
(***************************************************************************)
(* What the send path of a session promises its callers: the messages it   *)
(* accepts reach the peer once each and in the order they were accepted,   *)
(* up to the failure of the connection; after that they are lost.  A       *)
(* message that is not accepted is no step of the channel at all.          *)
(***************************************************************************)
EXTENDS Sequences

CONSTANT Msgs

VARIABLES
  pending,    \* accepted and not yet sent, oldest first
  delivered,  \* what the peer was sent, oldest first
  up          \* FALSE once the connection failed

vars == <<pending, delivered, up>>

Init ==
  /\ pending = <<>>
  /\ delivered = <<>>
  /\ up = TRUE

Accept ==
  /\ \E m \in Msgs : pending' = Append(pending, m)
  /\ UNCHANGED <<delivered, up>>

Deliver ==
  /\ up
  /\ pending # <<>>
  /\ delivered' = Append(delivered, Head(pending))
  /\ pending' = Tail(pending)
  /\ UNCHANGED up

Fail ==
  /\ up' = FALSE
  /\ UNCHANGED <<pending, delivered>>

Lose ==
  /\ ~up
  /\ pending' = <<>>
  /\ UNCHANGED <<delivered, up>>

Next == Accept \/ Deliver \/ Fail \/ Lose

Spec == Init /\ [][Next]_vars

===============================================================================
