------------------------------ MODULE MCSpvApp ------------------------------
(* A chain of three blocks and a fork, loaded in pages of two. *)
EXTENDS SpvApp, TLC

CONSTANTS g, a1, a2, a3, b2, b3

\*   g - a1 - a2 - a3      a1 - b2 - b3
LineBlocks == {a1, a2, a3, b2, b3}
LinePrev == a1 :> g @@ a2 :> a1 @@ a3 :> a2 @@ b2 :> a1 @@ b3 :> b2
LineDifficulty == [h \in LineBlocks \cup {g} |-> IF h = b3 THEN 2 ELSE 1]
=============================================================================
