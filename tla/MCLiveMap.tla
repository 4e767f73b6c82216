----------------------------- MODULE MCLiveMap -----------------------------
(* The small instance of LiveMap that TLC checks. *)
EXTENDS LiveMap

At(x, y) == [x |-> x, y |-> y]

\* Four places, of three columns of rooms.
FourPlaces == {At(2, 9), At(2, 11), At(7, 2), At(11, 11)}

\* Corners and middles of rooms, and points near the edge of the continent.
SomeViewers == {At(0, 0), At(2, 2), At(5, 8), At(8, 5), At(11, 11)}
=============================================================================
