------------------------------ MODULE MCChains ------------------------------
(* Small block trees for TLC. *)
EXTENDS Chains, TLC

CONSTANTS g, a1, a2, b1, b2, b3, c2, c3, d1

\* Three branches off the genesis block, one of them with a fork on each level:
\*   g - a1 - a2      g - d1      g - b1 - b2 - b3      b1 - c2      b2 - c3
ForkedBlocks == {a1, a2, b1, b2, b3, c2, c3, d1}
ForkedPrev == a1 :> g @@ a2 :> a1 @@ b1 :> g @@ b2 :> b1 @@ b3 :> b2 @@
              c2 :> b1 @@ c3 :> b2 @@ d1 :> g
ForkedDifficulty == [h \in ForkedBlocks \cup {g} |-> IF h \in {c2, b3} THEN 2 ELSE 1]

\* Three children of the genesis block, the last of which grows:
\*   g - a1      g - d1      g - b1 - b2
SiblingBlocks == {a1, d1, b1, b2}
SiblingPrev == a1 :> g @@ d1 :> g @@ b1 :> g @@ b2 :> b1
SiblingDifficulty == [h \in SiblingBlocks \cup {g} |-> 1]
=============================================================================
