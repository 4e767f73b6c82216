----------------------------- MODULE MCPlatform -----------------------------
(* The small instance of Platform that TLC checks. *)
EXTENDS Platform, TLC

CONSTANTS a, b

\* Each token is for a, though b is announced as well.
OneCharacter == [k \in Connections |-> {a}]

\* The player announces a character, or leaves the name out.
SomeMessages == [conn : Connections, name : {a, b, Absent}, kind : {"good"}]

\* At most two of: messages consumed, a refused command, a shutdown of the
\* station, and a relay that is down.
Budget ==
    Len(log) + failures + (IF status = "running" THEN 0 ELSE 1)
             + (IF up THEN 0 ELSE 1) <= 2

SocketSymmetry == Permutations(Sockets)
=============================================================================
