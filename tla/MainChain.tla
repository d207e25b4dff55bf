------------------------------ MODULE MainChain ------------------------------
(***************************************************************************)
(* What a reader of struct blockchain may rely on, whatever happens inside *)
(* blockchain_add(): the blocks taken in so far, and one chain of them     *)
(* from the genesis block that moves in one step from one linked chain to  *)
(* another.  Readers (blockchain_get_latest, blockchain_get_known_hashes)  *)
(* take the mutex that blockchain_add() holds from its first line to its   *)
(* last, so they never see a reorganisation half done.                     *)
(***************************************************************************)
EXTENDS Integers, Sequences

CONSTANTS Blocks, Genesis, prev_hash

VARIABLES chain,   \* the hashes of the main chain, from the genesis block up
          known    \* the blocks taken in

LinkedFromGenesis(s) ==
    /\ s # <<>> /\ s[1] = Genesis
    /\ \A i \in 2 .. Len(s) : s[i] \in Blocks /\ prev_hash[s[i]] = s[i - 1]

Init == chain = <<Genesis>> /\ known = {}

Learn ==
    /\ \E b \in Blocks : known' = known \cup {b}
    /\ UNCHANGED chain

\* The chain takes a new end made of known blocks. It never just shrinks:
\* the new last block was not on the old chain.
Adopt ==
    /\ LinkedFromGenesis(chain')
    /\ \A i \in 2 .. Len(chain') : chain'[i] \in known
    /\ \A i \in 1 .. Len(chain) : chain[i] # chain'[Len(chain')]
    /\ UNCHANGED known

Next == Learn \/ Adopt

Spec == Init /\ [][Next]_<<chain, known>>
=============================================================================
