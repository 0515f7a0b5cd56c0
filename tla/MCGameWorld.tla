------------------------------ MODULE MCGameWorld ------------------------------
(* Instances of GameWorld for TLC: a map of two sectors side by side.      *)
EXTENDS GameWorld

\* One request inside each sector, and one far left of the map.
InteriorRequests == {[x |-> -1, y |-> 0], [x |-> 1, y |-> 0]}

\* The same with the right edge: what a client that walks on ends up asking.
EdgeRequests == {[x |-> 0, y |-> 0], [x |-> 2, y |-> 0]}

===============================================================================
