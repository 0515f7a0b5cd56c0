--------------------------------- MODULE Zone ---------------------------------
(***************************************************************************)
(* The area-of-interest grid of GameServer/Zone: a map of Width x Height   *)
(* units cut into square sectors of SectorSize units, each holding a set   *)
(* of entity ids.  The code keeps a set of player uids and a set of        *)
(* monster ids per sector; the two sets never interact, so a grid here is  *)
(* a function from sectors to ids and a user of the module keeps one per   *)
(* kind of entity.                                                         *)
(*                                                                         *)
(* Every method of the class runs on the game strand (Zone.h, "Zone's      *)
(* public methods are called from the game_strand_ context"), so each is   *)
(* one operator from the old grid to the new one.  Coordinates are whole   *)
(* units: GetSectorIndex truncates, so a fraction never changes a sector.  *)
(***************************************************************************)
EXTENDS Integers

CONSTANTS
  Width, Height,   \* size of the map (1000 x 1000 in GameConstants.h)
  SectorSize       \* side of a sector (50 in GameConstants.h)

ASSUME ZoneAssumption ==
  /\ Width \in Nat \ {0}
  /\ Height \in Nat \ {0}
  /\ SectorSize \in Nat \ {0}

Points == [x : Int, y : Int]

\* Where a position can be: move requests are clamped to the map's border.
Ground == [x : 0..Width, y : 0..Height]

\* ceil(width / sector_size), ceil(height / sector_size)
Cols == (Width + SectorSize - 1) \div SectorSize
Rows == (Height + SectorSize - 1) \div SectorSize

Sectors == [row : 0..(Rows - 1), col : 0..(Cols - 1)]

EmptyGrid == [s \in Sectors |-> {}]

-------------------------------------------------------------------------------

\* GetSectorIndex returns false exactly when OnMap is false: the right and
\* the lower edge (x = Width, y = Height) belong to no sector.
OnMap(p) == 0 <= p.x /\ p.x < Width /\ 0 <= p.y /\ p.y < Height

SectorOf(p) == [row |-> p.y \div SectorSize, col |-> p.x \div SectorSize]

AddTo(grid, sector, id) == [grid EXCEPT ![sector] = @ \cup {id}]
RemoveFrom(grid, sector, id) == [grid EXCEPT ![sector] = @ \ {id}]

EnterZone(grid, id, p) ==
  IF OnMap(p) THEN AddTo(grid, SectorOf(p), id) ELSE grid

LeaveZone(grid, id, p) ==
  IF OnMap(p) THEN RemoveFrom(grid, SectorOf(p), id) ELSE grid

Bug_AddWithoutRemove(grid, id, old, new) ==
  IF OnMap(new) THEN AddTo(grid, SectorOf(new), id) ELSE grid

\* UpdatePosition of a player: add to the new sector, then remove from the
\* old one.  A move off the map changes nothing, a move back on only adds.
UpdatePosition(grid, id, old, new) ==
  IF OnMap(old) /\ OnMap(new) /\ SectorOf(old) # SectorOf(new)
  THEN RemoveFrom(AddTo(grid, SectorOf(new), id), SectorOf(old), id)
  ELSE IF ~OnMap(old) /\ OnMap(new)
  THEN AddTo(grid, SectorOf(new), id)
  ELSE grid

\* UpdatePositionMonster: the same without the case of a way back on the map.
UpdatePositionMonster(grid, id, old, new) ==
  IF OnMap(old) /\ OnMap(new) /\ SectorOf(old) # SectorOf(new)
  THEN RemoveFrom(AddTo(grid, SectorOf(new), id), SectorOf(old), id)
  ELSE grid

\* The 3 x 3 block of sectors around p: GetPlayersInAOI, GetMonstersInAOI.
Neighbours(p) ==
  {s \in Sectors : /\ s.row - SectorOf(p).row \in -1..1
                   /\ s.col - SectorOf(p).col \in -1..1}

InAOI(grid, p) ==
  IF OnMap(p) THEN UNION {grid[s] : s \in Neighbours(p)} ELSE {}

===============================================================================
