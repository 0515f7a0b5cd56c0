------------------------------- MODULE MCMonster -------------------------------
(* Instances of Monster for TLC: an L of two arms, as GenerateDummyMapFile  *)
(* bakes it, the monster's home at one end.  The unit is POSITION_EPSILON.  *)
EXTENDS Monster

At(x, y) == [x |-> x, y |-> y]
Corner == At(5, 5)
HomeEnd == At(5, 10)
\* The last two places are so near that a monster does not follow between them.
Arm == {HomeEnd, Corner, At(10, 5), At(8, 5)}

\* The L, and a square around it wide enough for a step over any waypoint.
L == {p \in Ground : (p.x = 5 /\ p.y \in 5..10) \/ (p.y = 5 /\ p.x \in 5..10)}
Around == {p \in Ground : p.x \in 0..15 /\ p.y \in 0..15}

\* The point of the L a query starts from.
Nearest(p) ==
  LET along(k) == IF k < 5 THEN 5 ELSE IF k > 10 THEN 10 ELSE k
  IN  IF p.x > p.y THEN At(along(p.x), 5) ELSE At(5, along(p.y))

\* The funnel's answer on an L: straight along an arm, else round the corner.
LPath(a, b) ==
  LET start == Nearest(a)
  IN  IF start.x = b.x \/ start.y = b.y THEN <<start, b>> ELSE <<start, Corner, b>>

\* What the theorems ask of the navmesh holds here (Monster_proofs).
ASSUME LPathAssumption == Around \subseteq Inland /\ Walkable(L, Around) /\ Answers(Around)

===============================================================================
