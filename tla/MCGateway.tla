----------------------------- MODULE MCGateway -----------------------------
(* The small instances of Gateway that TLC checks. *)
EXTENDS Gateway

CONSTANTS g, h, x, mine, other

\* Two keys of one account and one of another.
TwoAccounts == [k \in Keys |-> IF k = x THEN other ELSE mine]
=============================================================================
