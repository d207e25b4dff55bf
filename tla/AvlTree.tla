------------------------------- MODULE AvlTree ------------------------------
(***************************************************************************)
(* The balanced search tree of utils/avl_tree.c: nodes in a heap, the path *)
(* of slots (pointers to pointers) an operation descends, one step for     *)
(* each turn of the loop that rebalances that path upwards, and the        *)
(* iterator with its explicit stack.                                       *)
(***************************************************************************)
EXTENDS Integers, Sequences, FiniteSets, SequencesExt

CONSTANTS
    AvlKeys        \* the keys a caller adds and deletes, in the order of cmp()

VARIABLES
    node,          \* address -> avl_node: key, children a[1] and a[2], h
    root,          \* tree->root
    count,         \* tree->count
    path,          \* slots still to rebalance
    iter,          \* tree->stack: the pending avl_tree_iter, and what was returned
    contents       \* history: the keys added and not deleted

avlVars == <<node, root, count, path, iter, contents>>

NULL == 0
RootSlot == <<0, 0>>
Addresses == 1 .. Cardinality(AvlKeys)
no_iter == [stack |-> <<>>, visited |-> <<>>]

\* *slot
at(slot) == IF slot = RootSlot THEN root ELSE node[slot[1]].a[slot[2]]

\* *slot = n, in a heap N and with the root r
heap_with(N, slot, n) == IF slot = RootSlot THEN N ELSE [N EXCEPT ![slot[1]].a[slot[2]] = n]
root_with(r, slot, n) == IF slot = RootSlot THEN n ELSE r

height_of(N, n) == IF n = NULL THEN 0 ELSE N[n].h

\* mutant: the double rotation is forgotten
avl_rot_single(N, x, d) ==
    LET e == 3 - d
        y == N[x].a[d]
        z == N[y].a[e]
    IN  [heap |-> [N EXCEPT ![x].a[d] = z, ![x].h = height_of(N, z) + 1,
                            ![y].a[e] = x, ![y].h = height_of(N, z) + 2],
         top |-> y]

\* avl_rot(): x is too deep on side d; the heap and the node that takes its place
avl_rot(N, x, d) ==
    LET e == 3 - d
        y == N[x].a[d]
        z == N[y].a[e]
        hz == height_of(N, z)
    IN  IF hz > height_of(N, N[y].a[d])
        THEN [heap |-> [N EXCEPT ![x].a[d] = N[z].a[e], ![x].h = hz,
                                 ![y].a[e] = N[z].a[d], ![y].h = hz,
                                 ![z].a = [i \in 1 .. 2 |-> IF i = e THEN x ELSE y],
                                 ![z].h = hz + 1],
              top |-> z]
        ELSE [heap |-> [N EXCEPT ![x].a[d] = z, ![x].h = hz + 1,
                                 ![y].a[e] = x, ![y].h = hz + 2],
              top |-> y]

avl_tree_balance(N, n) ==
    LET h0 == height_of(N, N[n].a[1])
        h1 == height_of(N, N[n].a[2])
    IN  IF h0 - h1 \in -1 .. 1
        THEN [heap |-> [N EXCEPT ![n].h = IF h0 < h1 THEN h1 + 1 ELSE h0 + 1], top |-> n]
        ELSE avl_rot(N, n, IF h0 < h1 THEN 2 ELSE 1)

side(k, n) == IF k > node[n].key THEN 2 ELSE 1

\* the slots from the root to the one that holds k, or would
descend(k) ==
    LET down[n \in DOMAIN node \cup {NULL}] ==
            IF n = NULL THEN <<>>
            ELSE IF node[n].key = k THEN <<>>
            ELSE <<<<n, side(k, n)>>>> \o down[node[n].a[side(k, n)]]
    IN  <<RootSlot>> \o down[root]

avl_tree_find(k) == at(Last(descend(k)))

Resting == path = <<>> /\ iter.stack = <<>>

avl_tree_add(k) ==
    /\ Resting
    /\ \E slots \in {descend(k)} :
          IF at(Last(slots)) # NULL THEN UNCHANGED avlVars
          ELSE LET r == CHOOSE n \in Addresses : n \notin DOMAIN node
                   new == [n \in DOMAIN node \cup {r} |->
                               IF n = r THEN [key |-> k, a |-> <<NULL, NULL>>, h |-> 1] ELSE node[n]]
               IN  /\ node' = heap_with(new, Last(slots), r)
                   /\ root' = root_with(root, Last(slots), r)
                   /\ count' = count + 1
                   /\ path' = Front(slots)
                   /\ contents' = contents \cup {k}
                   /\ iter' = no_iter

\* The slots below n to the node that goes: n itself, or the last one of its
\* left subtree, whose key n then takes.
to_predecessor(n) ==
    LET right[m \in DOMAIN node \cup {NULL}] ==
            IF node[m].a[2] = NULL THEN <<>> ELSE <<<<m, 2>>>> \o right[node[m].a[2]]
    IN  IF node[n].a[1] = NULL THEN <<>> ELSE <<<<n, 1>>>> \o right[node[n].a[1]]

avl_tree_del(k) ==
    /\ Resting
    /\ \E slots \in {descend(k)} :
       \E n \in {at(Last(slots))} :
          IF n = NULL THEN UNCHANGED avlVars
          ELSE \E full \in {slots \o to_predecessor(n)} :
               \E gone \in {at(Last(full))} :
                 LET child == IF gone = n THEN node[gone].a[2] ELSE node[gone].a[1]
                     linked == heap_with([node EXCEPT ![n].key = node[gone].key], Last(full), child)
                 IN  /\ node' = [m \in DOMAIN node \ {gone} |-> linked[m]]
                     /\ root' = root_with(root, Last(full), child)
                     /\ count' = count - 1
                     /\ path' = Front(full)
                     /\ contents' = contents \ {k}
                     /\ iter' = no_iter

\* One turn of `while(i && avl_tree_balance(a[--i]))`: it goes on while the
\* height of the subtree has changed.
rebalance ==
    /\ path # <<>>
    /\ \E slot \in {Last(path)} :
       \E b \in {avl_tree_balance(node, at(slot))} :
          /\ node' = heap_with(b.heap, slot, b.top)
          /\ root' = root_with(root, slot, b.top)
          /\ path' = IF b.heap[b.top].h = node[at(slot)].h THEN <<>> ELSE Front(path)
    /\ UNCHANGED <<count, iter, contents>>

-----------------------------------------------------------------------------
\* avl_tree_iter_begin()
avl_tree_iter_begin ==
    /\ Resting /\ root # NULL
    /\ iter' = [stack |-> <<[n |-> root, which |-> "preorder"]>>, visited |-> <<>>]
    /\ UNCHANGED <<node, root, count, path, contents>>

next_visit(which) == IF which = "preorder" THEN "postorder" ELSE "endorder"

\* mutant: a node without a right child does not move its parent on
finish_silent(s) == Front(s)

\* pop the stack and move its parent on
finish(s) ==
    LET rest == Front(s)
    IN  IF rest = <<>> THEN rest ELSE [rest EXCEPT ![Len(rest)].which = next_visit(@)]

enter(s, n) == Append(s, [n |-> n, which |-> "preorder"])

\* One turn of the loop of get_next_iter(); the caller keeps calling
\* avl_tree_iter_next() until it has every node.
get_next_iter ==
    /\ iter.stack # <<>>
    /\ LET s == iter.stack
           r == Last(s).n
           left == node[r].a[1]
           right == node[r].a[2]
           visit(rest) == [stack |-> rest, visited |-> Append(iter.visited, node[r].key)]
       IN  iter' = IF node[r].h = 1 THEN visit(finish(s))
                   ELSE IF Last(s).which = "endorder" THEN [iter EXCEPT !.stack = finish(s)]
                   ELSE IF Last(s).which = "preorder" /\ left # NULL
                        THEN [iter EXCEPT !.stack = enter(s, left)]
                   ELSE IF right # NULL
                        THEN visit(enter([s EXCEPT ![Len(s)].which = "postorder"], right))
                   ELSE visit(finish(s))
    /\ UNCHANGED <<node, root, count, path, contents>>

AvlInit ==
    /\ node = <<>> /\ root = NULL /\ count = 0 /\ path = <<>>
    /\ iter = no_iter /\ contents = {}

AvlNext ==
    \/ \E k \in AvlKeys : avl_tree_add(k) \/ avl_tree_del(k)
    \/ rebalance \/ avl_tree_iter_begin \/ get_next_iter

-----------------------------------------------------------------------------
(* Properties *)

keys_in_order ==
    LET walk[n \in DOMAIN node \cup {NULL}] ==
            IF n = NULL THEN <<>> ELSE walk[node[n].a[1]] \o <<node[n].key>> \o walk[node[n].a[2]]
    IN  walk[root]

\* Between operations the tree is the set of keys added and not deleted: in
\* order, each found, counted, no subtree two levels deeper than its sibling
\* and every stored height right, whatever rotations led there.
AvlIsOrderedSet ==
    path = <<>> =>
        /\ keys_in_order = SetToSortSeq(contents, <)
        /\ count = Cardinality(contents)
        /\ \A k \in AvlKeys : (avl_tree_find(k) # NULL) <=> k \in contents
        /\ \A n \in DOMAIN node :
              LET h0 == height_of(node, node[n].a[1])
                  h1 == height_of(node, node[n].a[2])
              IN  h0 - h1 \in -1 .. 1 /\ node[n].h = 1 + (IF h0 < h1 THEN h1 ELSE h0)

\* At every step the iterator has returned the smallest keys, in order and each
\* once, and when its stack is empty it has returned them all.
AvlIteratesInOrder ==
    /\ IsPrefix(iter.visited, SetToSortSeq(contents, <))
    /\ iter.stack = <<>> /\ iter.visited # <<>> => Len(iter.visited) = Cardinality(contents)
=============================================================================
