----------------------------- MODULE MerkleTree -----------------------------
(***************************************************************************)
(* src/merkle_tree.c: the leaves in an array of slots, the layers of       *)
(* hashes above them, which keep their slots from one recalc() to the      *)
(* next, and recalc() itself, one step for each layer.  A hash is the pair *)
(* it was made of; hash256 is taken to be injective.                       *)
(***************************************************************************)
EXTENDS Integers, Sequences

CONSTANTS
    Leaves,        \* the hashes callers add
    MaxLeaves,     \* bound: the leaves of a tree
    MaxLayers,     \* MERKLE_TREE_MAX_LAYERS
    MaxRecalcs     \* bound: the calls of recalc() in a behaviour

\* the most leaves n layers can take
capacity[n \in 0 .. MaxLayers] == IF n = 0 THEN 1 ELSE 2 * capacity[n - 1]

\* In the code there are 32 layers, and the number of leaves is an int.
ASSUME LayersAssumption == MaxLayers \in Nat /\ MaxLeaves \in Nat /\ MaxLeaves <= capacity[MaxLayers]

VARIABLES
    items,         \* mtree->items: one slot for each leaf, zero when unused
    item_count,    \* mtree->count
    layers,        \* priv->layers: their slots
    merkle_root,   \* mtree->merkle_root
    recalculating, \* the layer recalc() works on and the count below it, or <<>>
    fresh,         \* history: no leaf has changed since recalc() was last called
    recalcs        \* history: how often it was called

merkleVars == <<items, item_count, layers, merkle_root, recalculating, fresh, recalcs>>

zero == <<"zero">>
Leaf(n) == <<"leaf", n>>
hash_func(a, b) == <<"hash", a, b>>

Slots == 1 .. MaxLeaves + 1
LayerIndex == 1 .. MaxLayers

\* mutant: an odd item is paired with the slot after it
layer_over_slot(below, count, old) ==
    [i \in Slots |->
        IF i <= (count + 1) \div 2 THEN hash_func(below[2 * i - 1], below[2 * i]) ELSE old[i]]

\* The slots of a layer over `count` items: pairs, the last item twice if it
\* is alone; slots past the end keep what they had.
layer_over(below, count, old) ==
    [i \in Slots |->
        IF i <= count \div 2 THEN hash_func(below[2 * i - 1], below[2 * i])
        ELSE IF i = (count + 1) \div 2 THEN hash_func(below[count], below[count])
        ELSE old[i]]

MerkleIdle == recalculating = <<>>

\* merkle_tree_add(mtree, Len(new), new)
merkle_tree_add(new) ==
    /\ MerkleIdle /\ Len(new) > 0
    /\ item_count + Len(new) <= MaxLeaves
    /\ items' = [i \in Slots |->
                    IF i \in item_count + 1 .. item_count + Len(new) THEN new[i - item_count] ELSE items[i]]
    /\ item_count' = item_count + Len(new)
    /\ fresh' = FALSE
    /\ UNCHANGED <<layers, merkle_root, recalculating, recalcs>>

\* merkle_tree_remove(): the last leaf takes the place of the one removed
merkle_tree_remove(index) ==
    /\ MerkleIdle /\ index \in 1 .. item_count
    /\ item_count' = item_count - 1
    /\ items' = [items EXCEPT ![index] = items[item_count], ![item_count] = zero]
    /\ fresh' = FALSE
    /\ UNCHANGED <<layers, merkle_root, recalculating, recalcs>>

merkle_tree_set(index, item) ==
    /\ MerkleIdle /\ index \in 1 .. item_count
    /\ items' = [items EXCEPT ![index] = item]
    /\ fresh' = FALSE
    /\ UNCHANGED <<item_count, layers, merkle_root, recalculating, recalcs>>

\* recalc(mtree, 0, -1): one leaf is the root, and without leaves the root stays
merkle_tree_recalc ==
    /\ MerkleIdle /\ ~fresh /\ recalcs < MaxRecalcs
    /\ recalcs' = recalcs + 1
    /\ merkle_root' = IF item_count = 1 THEN items[1] ELSE merkle_root
    /\ recalculating' = IF item_count <= 1 THEN <<>> ELSE <<1, item_count>>
    /\ fresh' = TRUE
    /\ UNCHANGED <<items, item_count, layers>>

\* one turn of the loop over layers
recalc_layer ==
    /\ ~MerkleIdle
    /\ \E l \in {recalculating[1]}, count \in {recalculating[2]} :
       \E below \in {IF l = 1 THEN items ELSE layers[l - 1]} :
       \E size \in {(count + 1) \div 2} :
          /\ layers' = [layers EXCEPT ![l] = layer_over(below, count, @)]
          /\ recalculating' = IF size = 1 \/ l = MaxLayers THEN <<>> ELSE <<l + 1, size>>
          /\ merkle_root' = IF size = 1 THEN layers'[l][1] ELSE merkle_root
    /\ UNCHANGED <<items, item_count, fresh, recalcs>>

\* uint256_merkle_tree_new()
MerkleInit ==
    /\ items = [i \in Slots |-> zero] /\ item_count = 0
    /\ layers = [l \in LayerIndex |-> [i \in Slots |-> zero]]
    /\ merkle_root = zero /\ recalculating = <<>> /\ fresh = FALSE /\ recalcs = 0

MerkleNext ==
    \/ \E a \in Leaves : merkle_tree_add(<<a>>)
    \/ \E a, b \in Leaves : merkle_tree_add(<<a, b>>)
    \/ \E i \in 1 .. MaxLeaves : merkle_tree_remove(i)
    \/ \E i \in 1 .. MaxLeaves, a \in Leaves : merkle_tree_set(i, a)
    \/ merkle_tree_recalc \/ recalc_layer

MerkleSpec == MerkleInit /\ [][MerkleNext]_merkleVars

-----------------------------------------------------------------------------
(* The root a list of transaction ids has in the protocol, and the property *)

\* The level above the nodes s: an odd last one has itself for its right child.
Paired(s) ==
    [i \in 1 .. (Len(s) + 1) \div 2 |->
        hash_func(s[2 * i - 1], IF 2 * i > Len(s) THEN s[2 * i - 1] ELSE s[2 * i])]

\* level[n]: the nodes n levels above the leaves; the root is the first that is alone
RootOf(leaves) ==
    LET level[n \in 0 .. Len(leaves)] == IF n = 0 THEN leaves ELSE Paired(level[n - 1])
        top == CHOOSE n \in DOMAIN level : Len(level[n]) = 1 /\ \A k \in 0 .. n - 1 : Len(level[k]) > 1
    IN  level[top][1]

\* After recalc() the root is the one the protocol defines for the leaves now
\* in the tree: whatever was added, replaced or removed (removal moves the last
\* leaf) since the last time, and whatever a larger tree left in the layers.
MerkleRootRight ==
    MerkleIdle /\ fresh /\ item_count > 0 => merkle_root = RootOf(SubSeq(items, 1, item_count))
=============================================================================
