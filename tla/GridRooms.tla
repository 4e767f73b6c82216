----------------------------- MODULE GridRooms -----------------------------
(***************************************************************************)
(* The rooms of the live map (packages/core/src/geo-coordinates.ts).  The  *)
(* continent is cut into square rooms; a position is published on the room *)
(* it lies in, and a viewer listens to the rooms near the point it looks   *)
(* at.  A room is named by its column and row.                             *)
(***************************************************************************)
EXTENDS Integers

CONSTANT GridSize   \* the side of a room

ASSUME GridAssumption == GridSize \in Nat \ {0}

Room(x, y) == [col |-> x, row |-> y]

GridRoom(point) == Room(point.x \div GridSize, point.y \div GridSize)

SquaredDistance(x, y) == x * x + y * y

\* MUTANT: the squared distance is compared with the radius.
IsInsideUnsquared(x, y, radius) == SquaredDistance(x, y) <= radius

IsInside(x, y, radius) == SquaredDistance(x, y) <= radius * radius

\* MUTANT: the radius is rounded up to whole rooms.
NearestRoomsRoundedUp(point, radius) ==
    LET first(z) == (z - radius) \div GridSize
        last(z)  == (z + radius) \div GridSize
        reach    == radius \div GridSize + 1
        centre   == GridRoom(point)
    IN {room \in [col : first(point.x) .. last(point.x),
                  row : first(point.y) .. last(point.y)] :
            IsInside(room.col - centre.col, room.row - centre.row, reach)}

\* Of the rooms that meet the square around the point, those whose offset
\* from the point's own room is within the radius, all in whole rooms.
NearestRooms(point, radius) ==
    LET first(z) == (z - radius) \div GridSize
        last(z)  == (z + radius) \div GridSize
        reach    == radius \div GridSize
        centre   == GridRoom(point)
    IN {room \in [col : first(point.x) .. last(point.x),
                  row : first(point.y) .. last(point.y)] :
            IsInside(room.col - centre.col, room.row - centre.row, reach)}

\* The distance from z to the interval of a column or row: 0 inside it.
Gap(z, index) ==
    LET low  == index * GridSize
        high == low + GridSize - 1
    IN IF z < low THEN low - z ELSE IF z > high THEN z - high ELSE 0
=============================================================================
