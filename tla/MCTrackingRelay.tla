-------------------------- MODULE MCTrackingRelay --------------------------
(* The small instances of TrackingRelay that TLC checks. *)
EXTENDS TrackingRelay

CONSTANTS k1, k2, a, b

\* One connection of an account with two characters.
OneAccount == [k \in Connections |-> {a, b}]

\* Two connections, the second of an account that only has b.
TwoAccounts == [k \in Connections |-> IF k = k1 THEN {a, b} ELSE {b}]

\* The player changes characters, and otherwise does not repeat the name.
SwitchMessages ==
    [conn : {k1}, name : {a, b}, kind : {"good"}]
        \cup [conn : {k1}, name : {Absent}, kind : {"good", "unlisted"}]

\* Two players announce themselves and then send positions.
SharedMessages ==
    [conn : {k1}, name : {a, b}, kind : {"good"}]
        \cup [conn : {k2}, name : {a, b, Absent, Blank}, kind : {"good"}]

\* Positions of every kind, with and without a name.
KindMessages ==
    [conn : {k1}, name : {a, b}, kind : {"good"}]
        \cup [conn : {k1}, name : {Absent},
              kind : {"good", "unlisted", "offMap", "invalid"}]
        \cup [conn : {k1}, name : {Blank}, kind : {"good"}]
=============================================================================
