----------------------------- MODULE MCCallFlow -----------------------------
(* Instances of CallFlow for TLC.  Two calls share a group of two carriers   *)
(* with room for one call a second; or a call fails over from a carrier      *)
(* without a limit to a limited one, which is the only one of the other call.*)
EXTENDS CallFlow, TLC

CONSTANTS g1, g2, c1, c2

SharedGroup == [c \in Call |-> <<g1, g2>>]

BothLimited == [g \in Carrier |-> 1]

Spilling == c1 :> <<g1, g2>> @@ c2 :> <<g2>>

SecondLimited == g1 :> 0 @@ g2 :> 1

OneGateway == [c \in Call |-> <<g1>>]

OneLimited == g1 :> 1
=============================================================================
