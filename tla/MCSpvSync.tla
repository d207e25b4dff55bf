----------------------------- MODULE MCSpvSync ------------------------------
(* Two branches off the genesis block: g - a1 and g - b1 - b2.             *)
EXTENDS SpvSync, TLC

CONSTANTS g, a1, b1, b2

TwoBranches == {a1, b1, b2}
TwoPrev == a1 :> g @@ b1 :> g @@ b2 :> b1
TwoDifficulty == [h \in TwoBranches \cup {g} |-> 1]
=============================================================================
