------------------------------- MODULE Chains -------------------------------
(***************************************************************************)
(* The block chain of src/chains.c: the main chain (`heirs`), the list of  *)
(* candidate chains (`candidates_list`, family trees of block_info nodes   *)
(* hanging off a `head` that stands for a missing parent), and             *)
(* blockchain_add(), which moves blocks between the two.                   *)
(*                                                                         *)
(* blockchain_add() holds chain->mutex from its first line to its return;  *)
(* the model follows it in the steps Enrol, RuleII / RuleIII, RuleIV,      *)
(* AbandonChild*, AddHeir*, LeaveChain, AbandonSiblings*, DestroySuccessor *)
(* (op.pc says which is next), and no other operation starts in between.   *)
(* The split matters because AbandonChild and AddHeir each write the       *)
(* headers database through a callback, and the process can die between    *)
(* two such writes.                                                        *)
(*                                                                         *)
(* `fault` records that the code has left defined behaviour: an assert     *)
(* that fails, an endless loop under the mutex, a cast of a block_info to  *)
(* the larger active_chain, a pointer to freed memory.  The model says     *)
(* nothing of what happens after a fault.                                  *)
(***************************************************************************)
EXTENDS Integers, Sequences, FiniteSets, SequencesExt

CONSTANTS
    Blocks,       \* the headers a peer or the database can hand in, by hash
    Genesis,      \* the hash of the genesis block
    prev_hash,    \* hdr->prev_hash of every block
    difficulty,   \* compact_uint256_to_bdiff(hdr->bits), scaled to naturals
    MaxNodes      \* bound: how many block_info / active_chain objects are live

Hashes == Blocks \cup {Genesis}

ASSUME HeadersAssumption ==
    /\ Genesis \notin Blocks
    /\ prev_hash \in [Blocks -> Hashes]
    /\ difficulty \in [Hashes -> Nat \ {0}]

\* No header descends from itself: each holds the hash of its parent's bytes,
\* so that a circle of headers would be a circle of SHA-256 digests.
ASSUME AcyclicAssumption ==
    \A S \in SUBSET Blocks : S # {} => \E b \in S : prev_hash[b] \notin S

ASSUME MaxNodesAssumption == MaxNodes \in Nat

VARIABLES
    heirs,        \* heirs[i] is chain->heirs[i - 1]: the main chain
    search_root,  \* chain->search_root: hash -> position in heirs
    info,         \* the live block_info objects by address, heads included
    list_root,    \* candidates_list->search_root: hash -> address
    longest_end,  \* candidates_list->chains: address of head -> longest_end
    op,           \* where the running blockchain_add() is
    db,           \* the headers database: hash -> record
    fault,        \* "none", or how the code left defined behaviour
    accepted      \* history: the blocks blockchain_add() took in

vars == <<heirs, search_root, info, list_root, longest_end, op, db, fault, accepted>>
listVars == <<info, list_root, longest_end>>
mainVars == <<heirs, search_root, db>>

-----------------------------------------------------------------------------
(* Records *)

Null == 0
Ptr == 1 .. MaxNodes

\* A block_info. `complete` is FALSE for a header rebuilt by abandon_child(),
\* which restores prev_hash, bits and timestamp only. cd: cumulative_difficulty.
block_info(h, p, complete, kids, cd) ==
    [hash |-> h, prev |-> p, complete |-> complete, parent |-> Null,
     kids |-> kids, cd |-> cd]

\* The head embedded in an active_chain has no header and no difficulty.
chain_head(h, kids) == block_info(h, h, FALSE, kids, 0)

Idle == [pc |-> "idle", chain |-> Null, fork |-> 0, child |-> Null,
         line |-> <<>>, orphans |-> <<>>, level |-> 0, before |-> <<>>]

Put(f, k, v) == [x \in DOMAIN f \cup {k} |-> IF x = k THEN v ELSE f[x]]
Without(f, K) == [x \in DOMAIN f \ K |-> f[x]]

\* tsearch() keeps the entry that is already there; tdelete() goes by key.
tsearch(root, h, x) == IF h \in DOMAIN root THEN root ELSE Put(root, h, x)
tdelete_keeps_entry(root, h) == root   \* mutant: the entry of a reused slot stays
tdelete(root, h) == Without(root, {h})

new_node_unchecked(N) == Null          \* mutant: a failed allocation is used
new_node(N) == CHOOSE x \in Ptr : x \notin DOMAIN N
CanAllocate(N) == \E x \in Ptr : x \notin DOMAIN N

\* The callbacks of the application: one record deleted, one put, by hash.
headers_db_put(d, h, record) == Put(d, h, record)
headers_db_del(d, h) == Without(d, {h})

on_remove_block_forgotten(d, h) == d   \* mutant: the callback is not made
on_remove_block(d, h) == headers_db_del(d, h)
on_add_block_height_off(d, node, height) ==   \* mutant: the parent's height
    headers_db_put(d, node.hash,
        [height |-> height - 1, prev |-> node.prev, complete |-> node.complete])
on_add_block(d, node, height) ==
    headers_db_put(d, node.hash,
        [height |-> height, prev |-> node.prev, complete |-> node.complete])

\* candidates_list->chains, as a function from heads to their longest_end.
list_add(chains, c, end) == Put(chains, c, end)
list_remove(chains, heads) == Without(chains, heads)

\* tsearch() for every node of the line xs.
search_tree_traverse_BFS(root, N, xs) ==
    [h \in DOMAIN root \cup {N[x].hash : x \in ToSet(xs)} |->
        IF h \in DOMAIN root THEN root[h] ELSE CHOOSE x \in ToSet(xs) : N[x].hash = h]

hashes_of(s) == [i \in DOMAIN s |-> s[i].hash]

-----------------------------------------------------------------------------
(* Walks over a family tree N *)

\* The node, its first child, that one's first child, and so on: a tree of
\* MaxNodes nodes at most is no deeper than that.
first_child_line(N, x) ==
    LET line[n \in 0 .. MaxNodes] == [y \in DOMAIN N |->
            IF n = 0 \/ N[y].kids = <<>> THEN <<y>>
            ELSE <<y>> \o line[n - 1][Head(N[y].kids)]]
    IN  line[MaxNodes][x]

\* The node and all its offspring, in the order the recursion visits them:
\* the next of those the pending calls are about to see, and n more at most.
offspring(N, x) ==
    LET walk[n \in 0 .. MaxNodes] == [todo \in Seq(DOMAIN N) |->
            IF n = 0 \/ todo = <<>> THEN <<>>
            ELSE <<Head(todo)>> \o walk[n - 1][N[Head(todo)].kids \o Tail(todo)]]
    IN  walk[MaxNodes][<<x>>]

\* The node, its parent, and so on up to the one whose parent is NULL.
ancestry(N, x) ==
    LET up[y \in DOMAIN N] ==
            IF N[y].parent = Null THEN <<y>> ELSE <<y>> \o up[N[y].parent]
    IN  up[x]

get_current_chain(N, x) == Last(ancestry(N, x))

\* N with the difficulties of the nodes visited added up, x first. Each adds
\* its own to what it was passed, x to `base`, and passes the sum down.
accumulate(N, visited, x, base) ==
    LET passed[n \in 0 .. Len(visited)] ==
            IF n = 0 THEN [y \in DOMAIN N |-> IF y = x THEN base ELSE N[y].cd]
            ELSE LET before == passed[n - 1]
                     v == visited[n]
                     sum == before[v] + difficulty[N[v].hash]
                     below == ToSet(N[v].kids) \cap ToSet(visited)
                 IN  [y \in DOMAIN N |-> IF y \in {v} \cup below THEN sum ELSE before[y]]
        cd == passed[Len(visited)]
    IN  [y \in DOMAIN N |-> [N[y] EXCEPT !.cd = cd[y]]]

block_info_update_cumulative_difficulty(N, x, base) ==
    accumulate(N, offspring(N, x), x, base)

update_first_child_cumulative_difficulty(N, x, base) ==
    accumulate(N, first_child_line(N, x), x, base)

\* What block_info_update_cumulative_difficulty() leaves in *p_longest_offspring:
\* `start`, unless it is NULL or one of the last n visited has a larger difficulty.
longest_offspring(N, x, start) ==
    LET visited == offspring(N, x)
        longest[n \in 0 .. Len(visited)] == [heir \in Ptr \cup {Null} |->
            IF n = 0 THEN heir
            ELSE LET node == visited[Len(visited) - n + 1]
                 IN  longest[n - 1][IF heir = Null \/ N[node].cd > N[heir].cd THEN node
                                    ELSE heir]]
    IN  longest[Len(visited)][start]

\* mutant: the child stays where it was as well.
promote_twice(kids, k) == <<k>> \o kids

\* One child jumps to the first place.
promote(kids, k) == <<k>> \o RemoveAt(kids, CHOOSE i \in DOMAIN kids : kids[i] = k)

\* Every node on the way up from x becomes the first child of its parent.
block_info_declare_inheritance(N, x) ==
    LET path == ToSet(ancestry(N, x))
        Favoured(y) == {k \in ToSet(N[y].kids) : k \in path}
    IN  [y \in DOMAIN N |->
            IF y \in path /\ Favoured(y) # {}
            THEN [N[y] EXCEPT !.kids = promote(@, CHOOSE k \in Favoured(y) : TRUE)]
            ELSE N[y]]

-----------------------------------------------------------------------------
Init ==
    /\ heirs = <<[hash |-> Genesis, cd |-> difficulty[Genesis], complete |-> TRUE]>>
    /\ search_root = [h \in {Genesis} |-> 1]
    /\ info = [x \in {} |-> Null]
    /\ list_root = [h \in {} |-> Null]
    /\ longest_end = [x \in {} |-> Null]
    /\ op = Idle
    /\ db = [h \in {} |-> Null]
    /\ fault = "none"
    /\ accepted = {}

Fail(how) ==
    /\ fault' = how
    /\ UNCHANGED <<mainVars, listVars, op, accepted>>

\* mutant: only the candidates are searched.
IsCloneOfCandidate(b) == b \in DOMAIN list_root /\ info[list_root[b]].parent # Null

\* Rule 0 and the chain's sub-rule: on the main chain, or in the candidates
\* and not taken for the head of a chain.
IsClone(b) ==
    \/ b \in DOMAIN search_root
    \/ b \in DOMAIN list_root /\ info[list_root[b]].parent # Null

\* blockchain_add() returns -1.
Ignore(b) ==
    /\ op.pc = "idle" /\ fault = "none"
    /\ IsClone(b)
    /\ UNCHANGED vars

\* The children that b claims: those of the node with b's hash and no parent.
Claimed(b) == IF b \in DOMAIN list_root THEN info[list_root[b]].kids ELSE <<>>

\* Re-adding the children while they are still linked to each other closes
\* a cycle in next_sibling as soon as there are two.
ClaimLoops(b) == Len(Claimed(b)) > 1

\* A new node x for b, after the sub-rule: b's own chain gives up its children
\* and is deleted (a node that only looks like a head stays where it is).
Enrolled(b, x) ==
    LET kids == Claimed(b)
        heads == {h \in DOMAIN longest_end : b \in DOMAIN list_root /\ h = list_root[b]}
        renounce == [y \in DOMAIN info \ heads |->
                        IF y \in ToSet(kids) THEN [info[y] EXCEPT !.parent = x]
                        ELSE IF b \in DOMAIN list_root /\ y = list_root[b]
                             THEN [info[y] EXCEPT !.kids = <<>>]
                             ELSE info[y]]
        node == block_info(b, prev_hash[b], TRUE, kids, 0)
    IN  [info |-> block_info_update_cumulative_difficulty(Put(renounce, x, node), x, 0),
         heads |-> heads]

Enrol(b) ==
    /\ op.pc = "idle" /\ fault = "none"
    /\ ~IsClone(b)
    /\ CanAllocate(info)
    /\ IF ClaimLoops(b)
       THEN Fail("hang")
       ELSE LET x == new_node(info)
                e == Enrolled(b, x)
            IN  /\ info' = e.info
                /\ longest_end' = list_remove(longest_end, e.heads)
                /\ list_root' = Put(list_root, b, x)
                /\ op' = [Idle EXCEPT !.pc = "rule1", !.child = x]
                /\ accepted' = accepted \cup {b}
                /\ UNCHANGED <<mainVars, fault>>

-----------------------------------------------------------------------------
(* Rules I, II and III: the new node finds a place in the candidates *)

Contest(c) == [Idle EXCEPT !.pc = "rule4", !.chain = c]

\* A freed longest_end (Null) is only compared with the new one; malloc may
\* have handed the same address out again, so the outcome is open.
MayDiffer(end, new) == IF end = Null THEN BOOLEAN ELSE {end # new}

RuleII ==
    /\ op.pc = "rule1" /\ fault = "none"
    /\ info[op.child].prev \in DOMAIN list_root
    /\ LET x == op.child
           parent == list_root[info[x].prev]
           c == get_current_chain(info, parent)
           joined == [info EXCEPT ![parent].kids = Append(@, x), ![x].parent = parent]
           summed == block_info_update_cumulative_difficulty(joined, x, info[parent].cd)
           end == longest_offspring(summed, x, Null)
       IN  IF c \notin DOMAIN longest_end
           THEN Fail("bad_cast")
           ELSE /\ \E differ \in MayDiffer(longest_end[c], end) :
                      info' = IF differ THEN block_info_declare_inheritance(summed, end)
                              ELSE summed
                /\ longest_end' = [longest_end EXCEPT ![c] = end]
                /\ op' = Contest(c)
                /\ UNCHANGED <<mainVars, list_root, fault, accepted>>

RuleIII ==
    /\ op.pc = "rule1" /\ fault = "none"
    /\ info[op.child].prev \notin DOMAIN list_root
    /\ CanAllocate(info)
    /\ LET x == op.child
           c == new_node(info)
           headed == [Put(info, c, chain_head(info[x].prev, <<x>>)) EXCEPT ![x].parent = c]
           summed == block_info_update_cumulative_difficulty(headed, x, 0)
       IN  /\ info' = summed
           /\ list_root' = Put(list_root, info[x].prev, c)
           /\ longest_end' =
                 list_add(longest_end, c,
                     longest_offspring(summed, x, Last(first_child_line(summed, x))))
           /\ op' = Contest(c)
           /\ UNCHANGED <<mainVars, fault, accepted>>

-----------------------------------------------------------------------------
(* Rule IV: the chain hangs off the main chain and may replace its end *)

blockchain_find_last(h) == Len(heirs)   \* mutant: the tip instead of the fork
blockchain_find(h) == search_root[h]

RuleIV ==
    /\ op.pc = "rule4" /\ fault = "none"
    /\ LET c == op.chain
           h == info[c].hash
       IN  IF h \notin DOMAIN search_root
           THEN op' = Idle /\ UNCHANGED info
           ELSE LET fork == blockchain_find(h)
                    first == Head(info[c].kids)
                    summed == update_first_child_cumulative_difficulty(
                                 info, first, heirs[fork].cd)
                IN  /\ info' = summed
                    /\ op' = IF summed[longest_end[c]].cd > Last(heirs).cd
                             THEN [op EXCEPT !.pc = "reorg", !.fork = fork, !.child = first,
                                             !.before = hashes_of(heirs)]
                             ELSE Idle
    /\ UNCHANGED <<mainVars, list_root, longest_end, fault, accepted>>

\* The abandoned heirs form a line; the first of them stands for all.
eldest(orphans) == IF orphans = <<>> THEN <<>> ELSE <<Head(orphans)>>

\* An heir goes back to a block_info; version, merkle_root and nonce are lost.
abandon_child(parent, heir, child) ==
    block_info(heir.hash, parent.hash, FALSE, child, heir.cd)

\* abandon_child() on the last heir, and on_remove_block().
AbandonChild ==
    /\ op.pc = "reorg" /\ fault = "none"
    /\ op.line = <<>> /\ Len(heirs) > op.fork
    /\ CanAllocate(info)
    /\ LET last == Last(heirs)
           x == new_node(info)
           child == eldest(op.orphans)
           orphan == abandon_child(heirs[Len(heirs) - 1], last, child)
           below == [y \in DOMAIN info |-> IF y \in ToSet(child)
                                           THEN [info[y] EXCEPT !.parent = x] ELSE info[y]]
       IN  /\ info' = Put(below, x, orphan)
           /\ op' = [op EXCEPT !.orphans = <<x>> \o @]
           /\ search_root' = tdelete(search_root, last.hash)
           /\ db' = on_remove_block(db, last.hash)
           /\ heirs' = Front(heirs)
    /\ UNCHANGED <<list_root, longest_end, fault, accepted>>

\* mutants: the parent's difficulty is not added; the parent's hash is copied.
new_heir_own_difficulty(parent, node) ==
    [hash |-> node.hash, cd |-> difficulty[node.hash], complete |-> node.complete]
new_heir_parent_hash(parent, node) ==
    [hash |-> node.prev, cd |-> parent.cd + difficulty[node.hash], complete |-> node.complete]

\* What add_heir() writes into the slot after the parent's.
new_heir(parent, node) ==
    [hash |-> node.hash, cd |-> parent.cd + difficulty[node.hash], complete |-> node.complete]

\* add_heir() on the next first child, its two asserts, and on_add_block().
AddHeir ==
    /\ op.pc = "reorg" /\ fault = "none"
    /\ op.child # Null /\ Len(heirs) = op.fork + Len(op.line)
    /\ LET node == info[op.child]
       IN  IF node.prev # Last(heirs).hash \/ node.hash \in DOMAIN search_root
           THEN Fail("heir_assert")
           ELSE /\ heirs' = Append(heirs, new_heir(Last(heirs), node))
                /\ search_root' = tsearch(search_root, node.hash, Len(heirs) + 1)
                /\ db' = on_add_block(db, node, Len(heirs))
                /\ op' = [op EXCEPT !.line = Append(@, op.child),
                                    !.child = IF node.kids = <<>> THEN Null
                                              ELSE Head(node.kids)]
                /\ UNCHANGED <<listVars, fault, accepted>>

\* mutant: the abandoned line is dropped.
replace_first_drops_orphans(kids, orphans) == Tail(kids)

leaving_hashes(N, line) == {N[line[i]].hash : i \in 2 .. Len(line)}
replace_first(kids, orphans) == eldest(orphans) \o Tail(kids)

\* The new heirs below the successor leave the search tree, the abandoned
\* ones enter it (and its chain, ahead of the successor's siblings).
LeaveChain ==
    /\ op.pc = "reorg" /\ fault = "none"
    /\ op.child = Null
    /\ LET leaving == leaving_hashes(info, op.line)
       IN  IF ~(leaving \subseteq DOMAIN list_root)
           THEN Fail("assert")
           ELSE /\ list_root' = search_tree_traverse_BFS(
                                  Without(list_root, leaving), info, op.orphans)
                /\ info' = [info EXCEPT ![op.chain].kids = replace_first(@, op.orphans)]
                /\ op' = [op EXCEPT !.pc = "siblings", !.level = 2]
                /\ UNCHANGED <<mainVars, longest_end, fault, accepted>>

\* abandon_siblings() at one level of the new heirs: the next sibling leads the
\* others to a chain of their own. Only its own parent pointer is redirected.
AbandonSiblings ==
    /\ op.pc = "siblings" /\ fault = "none"
    /\ op.level <= Len(op.line)
    /\ CanAllocate(info)
    /\ op' = [op EXCEPT !.level = @ + 1]
    /\ LET elder == op.line[op.level - 1]
           siblings == Tail(info[elder].kids)
           c == new_node(info)
           leader == Head(siblings)
           moved == [info EXCEPT ![elder].kids = <<op.line[op.level]>>,
                                 ![leader].parent = c]
       IN  IF siblings = <<>>
           THEN UNCHANGED listVars
           ELSE /\ info' = Put(moved, c, chain_head(info[leader].prev, siblings))
                /\ list_root' = tsearch(list_root, info[leader].prev, c)
                /\ longest_end' = list_add(longest_end, c, Last(first_child_line(info, leader)))
    /\ UNCHANGED <<mainVars, fault, accepted>>

\* Some live object, or the search tree, still points to a freed object.
Dangling(N, root) ==
    \/ \E x \in DOMAIN N : \/ N[x].parent \notin DOMAIN N \cup {Null}
                           \/ \E k \in ToSet(N[x].kids) : k \notin DOMAIN N
    \/ \E h \in DOMAIN root : root[h] \notin DOMAIN N

\* block_info_free(): the node, the siblings after it, and all their offspring.
\* What AbandonSiblings gave away is no longer among them.
Freed(N, siblings) == UNION {ToSet(offspring(N, x)) : x \in ToSet(siblings)}

DestroySuccessor ==
    /\ op.pc = "siblings" /\ fault = "none"
    /\ op.level > Len(op.line)
    /\ LET c == op.chain
           successor == Head(op.line)
           siblings == SubSeq(info[c].kids, Len(eldest(op.orphans)) + 1, Len(info[c].kids))
           gone == Freed(info, <<successor>> \o siblings)
                      \cup (IF info[c].kids = <<>> THEN {c} ELSE {})
           root == Without(list_root, {info[successor].hash}
                      \cup (IF info[c].kids = <<>> THEN {info[c].hash} ELSE {}))
           left == Without(info, gone)
       IN  /\ info' = left
           /\ list_root' = root
           /\ longest_end' = [x \in DOMAIN longest_end \ gone |->
                                IF longest_end[x] \in gone THEN Null ELSE longest_end[x]]
           /\ fault' = IF Dangling(left, root) THEN "dangling" ELSE "none"
    /\ op' = Idle
    /\ UNCHANGED <<mainVars, accepted>>

\* After a fault the process is dead, stuck or undefined.
Halted == fault # "none" /\ UNCHANGED vars

Step == \/ RuleII \/ RuleIII \/ RuleIV \/ AbandonChild \/ AddHeir
        \/ LeaveChain \/ AbandonSiblings \/ DestroySuccessor

Next == \/ \E b \in Blocks : Ignore(b) \/ Enrol(b)
        \/ Step
        \/ Halted

Spec == Init /\ [][Next]_vars

-----------------------------------------------------------------------------
(* Properties *)

Settled == op.pc = "idle" /\ fault = "none"
Heads == DOMAIN longest_end
Relatives == DOMAIN info \ Heads

\* The types of all variables but op, and of the fields of every node; heads
\* are live nodes, and no pointer is outside the address space.
TypeOK ==
    /\ heirs \in Seq([hash : Hashes, cd : Nat, complete : BOOLEAN])
    /\ DOMAIN search_root \subseteq Hashes
    /\ DOMAIN info \subseteq Ptr
    /\ \A x \in DOMAIN info :
          /\ info[x].hash \in Hashes /\ info[x].prev \in Hashes
          /\ info[x].complete \in BOOLEAN /\ info[x].cd \in Nat
          /\ info[x].parent \in Ptr \cup {Null}
          /\ info[x].kids \in Seq(Ptr)
    /\ DOMAIN list_root \subseteq Hashes
    /\ \A h \in DOMAIN list_root : list_root[h] \in Ptr
    /\ Heads \subseteq DOMAIN info
    /\ \A c \in Heads : longest_end[c] \in Ptr \cup {Null}
    /\ DOMAIN db \subseteq Blocks
    /\ fault \in {"none", "hang", "bad_cast", "dangling", "heir_assert", "assert", "abort"}
    /\ accepted \subseteq Blocks

\* The main chain starts at the genesis block, every heir names the one below
\* it as its parent, and its cumulative difficulty is that one's plus its own:
\* across any sequence of blockchain_add() calls, in the middle of one too.
HeirsLinked ==
    /\ heirs # <<>> /\ heirs[1].hash = Genesis
    /\ \A i \in 2 .. Len(heirs) :
          /\ heirs[i].hash \in Blocks
          /\ prev_hash[heirs[i].hash] = heirs[i - 1].hash
          /\ heirs[i].cd = heirs[i - 1].cd + difficulty[heirs[i].hash]

\* chain->search_root finds exactly the heirs, each at its own position: no
\* entry survives the reorganisation that overwrote its slot.
SearchRootExact ==
    /\ DOMAIN search_root = {heirs[i].hash : i \in DOMAIN heirs}
    /\ \A i \in DOMAIN heirs : search_root[heirs[i].hash] = i

\* At every instant, between any two callbacks of a reorganisation too, the
\* headers database holds exactly the heirs above the genesis block, each at
\* its height: wherever the process dies, what is on disk is one linked chain.
StoreMirrorsHeirs ==
    /\ DOMAIN db = {heirs[i].hash : i \in 2 .. Len(heirs)}
    /\ \A i \in 2 .. Len(heirs) :
          /\ db[heirs[i].hash].height = i - 1
          /\ db[heirs[i].hash].prev = heirs[i - 1].hash

\* The asserts of add_heir() never fail: whatever was abandoned, moved between
\* chains or claimed before, the next first child of the chain that won names
\* the last heir as its parent and is not on the main chain already.
AddHeirAsserts == fault # "heir_assert"

\* Between calls, a block that the candidates' search tree finds as a member of
\* a family (not as the missing parent at its head) is not on the main chain.
CandidatesOffMain ==
    Settled => \A h \in DOMAIN list_root :
                  list_root[h] \in Relatives => h \notin DOMAIN search_root

\* The blocks taken in of which no trace is left: neither an heir nor a node.
Lost == {b \in accepted : b \notin DOMAIN search_root /\ \A x \in Relatives : info[x].hash # b}

\* From b one gets to h by prev_hash, over blocks that were taken in.
Descends(b, h) ==
    \E line \in SUBSET accepted : b \in line /\ \A d \in line : prev_hash[d] \in line \cup {h}

\* What blockchain_add() can lose.  Between calls, and until the free of a
\* successor leaves a dangling pointer, every block ever taken in is on the main
\* chain or hangs, through first_child and next_sibling, off the head of a
\* candidate chain.  The free that leaves one loses at most blocks above the
\* fork, and only if the head at the fork still lists a freed child: if the
\* successor had siblings.  (That it does lose them is the run chains_siblings.)
LossesAreSiblings ==
    op.pc = "idle" =>
        /\ fault = "none" =>
              LET families == UNION {ToSet(offspring(info, c)) : c \in Heads}
              IN  /\ Relatives \subseteq families
                  /\ \A b \in accepted : \/ b \in DOMAIN search_root
                                         \/ \E x \in families \cap Relatives : info[x].hash = b
        /\ fault = "dangling" =>
              \A b \in Lost :
                  \E c \in Heads : /\ info[c].hash \in DOMAIN search_root
                                   /\ ~(ToSet(info[c].kids) \subseteq DOMAIN info)
                                   /\ Descends(b, info[c].hash)

\* The family tree is a tree: between calls every node but a head is the child
\* of one node, once, and links back to it (the first block of an abandoned
\* line, which links to nobody, excepted: abandon_child() leaves its parent
\* NULL), and a child's header names the parent's hash.  Nothing is said once
\* block_info_free(successor) has freed the successor's siblings: that is a
\* fault, and Settled excludes it.
FamilyIsTree ==
    Settled =>
        /\ \A x \in Relatives :
              \E p \in DOMAIN info :
                 /\ {q \in DOMAIN info : x \in ToSet(info[q].kids)} = {p}
                 /\ Cardinality({i \in DOMAIN info[p].kids : info[p].kids[i] = x}) = 1
                 /\ info[x].parent = p \/ (info[x].parent = Null /\ p \in Heads)
                 /\ info[x].prev = info[p].hash
        /\ \A c \in Heads : info[c].parent = Null /\ info[c].kids # <<>>

\* Outside the mutex the main chain looks as it did before the call until the
\* reorganisation is complete.
VisibleChain == IF op.pc = "reorg" THEN op.before ELSE hashes_of(heirs)

Abstract == INSTANCE MainChain WITH chain <- VisibleChain, known <- accepted

\* Readers of the main chain see what module MainChain promises them: it moves
\* in one step from a linked chain to a linked chain that ends in a new block.
ImplementsMainChain == Abstract!Spec

\* chains.h on siblings: "All siblings would be abondanded and regarded as
\* orphans, but if they can reproduce enough offsprings [...] they can regain
\* their family status": between calls, after a fault too, every block taken in
\* that is not on the main chain is still a node of the candidates.
SiblingsBecomeOrphans == op.pc = "idle" => Lost = {}

\* chains.h: "A should claim the children on the chain. After claiming the
\* children, continue to execute Rule-I."
ClaimingEnds == fault # "hang"

\* The work of a block whose ancestors are all known, up to the genesis block.
Work == LET w[h \in Hashes] == difficulty[h] + IF h = Genesis THEN 0 ELSE w[prev_hash[h]]
        IN  w
Rooted == LET r[h \in Hashes] == h = Genesis \/ (h \in accepted /\ r[prev_hash[h]])
          IN  {h \in Hashes : r[h]}

\* chains.h on heirs: "currently the longest-chain with the largest cumulative
\* difficulty": no known block with known ancestors has more work than the tip.
HeirsHaveMostWork ==
    Settled => \A h \in Rooted : Work[h] <= Last(heirs).cd
=============================================================================
