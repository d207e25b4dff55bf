---------------------------- MODULE ChainsProofs ----------------------------
(***************************************************************************)
(* For every set of blocks, every prev_hash and difficulty, and every      *)
(* number of nodes: the variables of module Chains have their types; the   *)
(* main chain is linked, its search tree is exact, the headers database    *)
(* mirrors it, the asserts of add_heir() hold, and a reader sees one       *)
(* linked chain of known blocks replace another; the candidates are        *)
(* family trees, and no block is lost but with a winner's siblings.         *)
(*                                                                         *)
(* None of these is inductive.  add_heir() appends whatever node op.child  *)
(* is, so a proof has to know that it is a live node with a header of its  *)
(* own (not the head of a chain, which has none), that every child's       *)
(* header names its parent's hash, in the candidates and in the abandoned  *)
(* line, and that the chain under way hangs off the heir at the fork.      *)
(* That is IInv; it speaks of the candidates only while there is no fault. *)
(*                                                                         *)
(* For the main chain nothing needs to be known of the walks that compute  *)
(* difficulties and longest_end: they decide which chain wins, not whether *)
(* the result is a chain.  The types need to know that they see only live  *)
(* nodes, and the family trees that, from a root, they see all of them:    *)
(* DestroySuccessor frees what a walk sees.  TreeInv adds to IInv that the *)
(* candidates are a forest but for the one node that the step under way    *)
(* has in its hands, which links of the leaving line are stale, and that   *)
(* the line goes from first child to first child, its siblings given away  *)
(* down to op.level; so what is freed is the line and nothing else.        *)
(***************************************************************************)
EXTENDS Chains, TLAPS, SequenceTheorems, SequenceLemmas, FiniteSetTheorems

Heir == [hash : Hashes, cd : Nat, complete : BOOLEAN]
Fields == {"hash", "prev", "complete", "parent", "kids", "cd"}

\* The live nodes N, the heads among them H, the search tree R.
NodesOK(N, H) ==
    /\ DOMAIN N \subseteq Ptr
    /\ H \subseteq DOMAIN N
    /\ \A y \in DOMAIN N : DOMAIN N[y] = Fields /\ N[y].kids \in Seq(DOMAIN N \ H)
    /\ \A y \in DOMAIN N \ H :
          /\ N[y].hash \in Blocks
          /\ N[y].prev = prev_hash[N[y].hash]
          /\ N[y].complete \in BOOLEAN

RootOK(N, R) == \A h \in DOMAIN R : R[h] \in DOMAIN N /\ N[R[h]].hash = h

\* Every head has a child, unless its last one is leaving for the main chain.
HeadsLead(N, H, o) ==
    \A c \in H : N[c].kids # <<>> \/ (o.pc = "siblings" /\ c = o.chain)

OpType == [pc : {"idle", "rule1", "rule4", "reorg", "siblings"}, chain : Ptr \cup {Null},
           fork : Nat, child : Ptr \cup {Null}, line : Seq(Ptr), orphans : Seq(Ptr),
           level : Nat, before : Seq(Hashes)]

\* What the running blockchain_add() holds, at each of its steps; L is the set
\* of live nodes that are not heads.
OpOK(o, L, H) ==
    /\ o \in OpType
    /\ o.pc = "rule1" => o.child \in L
    /\ o.pc = "rule4" => o = Contest(o.chain)
    /\ o.pc \in {"rule4", "reorg", "siblings"} => o.chain \in H
    /\ o.pc \in {"reorg", "siblings"} =>
          /\ o.fork >= 1
          /\ o.child \in L \cup {Null}
          /\ o.line \in Seq(L) /\ o.orphans \in Seq(L)
    /\ o.pc = "siblings" => o.level >= 2

\* Every new heir but the last has a child, the next heir or the one to come.
LineOK(o, N) ==
    o.pc \in {"reorg", "siblings"} =>
        \A i \in 1 .. Len(o.line) :
            (i < Len(o.line) \/ o.child # Null) => N[o.line[i]].kids # <<>>

\* The nodes of L whose header names h as its parent.
Children(N, L, h) == {k \in L : N[k].prev = h}

\* Every child's header names its parent's hash; L: the nodes that are not heads.
KidsLinked(N, L) == \A y \in DOMAIN N : N[y].kids \in Seq(Children(N, L, N[y].hash))

\* The heirs and the nodes of L are of blocks that blockchain_add() took in.
AllKnown(hs, N, L, A) ==
    /\ \A i \in 2 .. Len(hs) : hs[i].hash \in A
    /\ \A y \in L : N[y].hash \in A

\* A reorganisation under way: the chain hangs off the heir at the fork, the
\* line is the heirs above it, and the next child and the first abandoned node
\* each name, in their header, the heir they will be hung below.
ReorgLinked(o, N, hs) ==
    o.pc \in {"reorg", "siblings"} =>
        /\ o.fork <= Len(hs)
        /\ N[o.chain].hash = hs[o.fork].hash
        /\ o.line # <<>> => Len(hs) = o.fork + Len(o.line)
        /\ \A i \in 1 .. Len(o.line) : N[o.line[i]].hash = hs[o.fork + i].hash
        /\ o.child = Null => o.line # <<>>
        /\ o.child # Null => N[o.child].prev = hs[o.fork + Len(o.line)].hash
        /\ o.orphans # <<>> =>
              /\ o.line = <<>> => N[Head(o.orphans)].prev = hs[Len(hs)].hash
              /\ o.line # <<>> => N[Head(o.orphans)].prev = hs[o.fork].hash

MainInv == heirs \in Seq(Heir) /\ HeirsLinked /\ SearchRootExact

ListInv ==
    /\ NodesOK(info, Heads)
    /\ RootOK(info, list_root)
    /\ HeadsLead(info, Heads, op)
    /\ OpOK(op, Relatives, Heads)
    /\ LineOK(op, info)
    /\ KidsLinked(info, Relatives)
    /\ ReorgLinked(op, info, heirs)
    /\ AllKnown(heirs, info, Relatives, accepted)

IInv == MainInv /\ (fault = "none" => ListInv)
-----------------------------------------------------------------------------
(* Sequences and functions *)

\* Front drops the last element.
LEMMA FrontProps ==
    ASSUME NEW S, NEW s \in Seq(S), s # <<>>
    PROVE  /\ Len(s) \in Nat /\ Len(s) > 0
           /\ Front(s) \in Seq(S)
           /\ Len(Front(s)) = Len(s) - 1
           /\ \A i \in 1 .. Len(s) - 1 : Front(s)[i] = s[i]
<1> DEFINE m == Len(s) - 1
<1>1. Len(s) \in Nat /\ Len(s) > 0
  BY EmptySeq
<1>2. m \in Nat
  BY <1>1
<1>3. \A i \in 1 .. m : s[i] \in S
  BY <1>1, ElementOfSeq
<1>4. /\ SubSeq(s, 1, m) \in Seq(S)
      /\ Len(SubSeq(s, 1, m)) = m
      /\ \A i \in 1 .. m : SubSeq(s, 1, m)[i] = s[i]
  <2> HIDE DEF m
  <2>1. /\ SubSeq(s, 1, m) \in Seq(S)
        /\ Len(SubSeq(s, 1, m)) = IF 1 <= m THEN m - 1 + 1 ELSE 0
        /\ \A i \in 1 .. m - 1 + 1 : SubSeq(s, 1, m)[i] = s[1 + i - 1]
    BY <1>2, <1>3, SubSeqProperties
  <2>2. m - 1 + 1 = m /\ (IF 1 <= m THEN m - 1 + 1 ELSE 0) = m
    BY <1>2
  <2>3. \A i \in 1 .. m : 1 + i - 1 = i
    BY <1>2
  <2> QED
    BY <2>1, <2>2, <2>3
<1> QED
  BY <1>1, <1>4 DEF Front

\* The elements of a sequence over S are in S.
LEMMA ToSetProps ==
    ASSUME NEW S, NEW s \in Seq(S)
    PROVE  ToSet(s) \subseteq S
BY LenProperties, ElementOfSeq DEF ToSet

-----------------------------------------------------------------------------
(* The main chain *)

\* Removing the last heir, its search entry and its record keeps the three in
\* step (abandon_child() and on_remove_block()).
LEMMA ShorterMainChain ==
    ASSUME MainInv, Len(heirs) > 1,
           heirs' = Front(heirs),
           search_root' = tdelete(search_root, Last(heirs).hash),
           db' = on_remove_block(db, Last(heirs).hash)
    PROVE  MainInv' /\ (StoreMirrorsHeirs => StoreMirrorsHeirs')
<1> DEFINE n == Len(heirs)
<1>1. heirs \in Seq(Heir) /\ heirs # <<>> /\ n \in Nat /\ DOMAIN heirs = 1 .. n
  BY LenProperties DEF MainInv, HeirsLinked
<1>2. /\ heirs' \in Seq(Heir) /\ Len(heirs') = n - 1 /\ DOMAIN heirs' = 1 .. n - 1
      /\ \A i \in 1 .. n - 1 : heirs'[i] = heirs[i]
  BY <1>1, FrontProps, LenProperties
<1>3. HeirsLinked'
  <2>1. heirs' # <<>> /\ heirs'[1].hash = Genesis
    BY <1>1, <1>2, EmptySeq DEF MainInv, HeirsLinked
  <2>2. ASSUME NEW i \in 2 .. n - 1
        PROVE  i \in 2 .. n /\ i - 1 \in 1 .. n - 1 /\ heirs'[i] = heirs[i] /\ heirs'[i - 1] = heirs[i - 1]
    BY <1>1, <1>2
  <2> QED
    BY <1>2, <2>1, <2>2 DEF MainInv, HeirsLinked
<1>4. \A i, j \in 1 .. n : heirs[i].hash = heirs[j].hash => i = j
  BY <1>1 DEF MainInv, SearchRootExact
<1>5. Last(heirs) = heirs[n]
  BY DEF Last
<1>8. \A k \in {1, 2} : {heirs[i].hash : i \in k .. n} \ {heirs[n].hash} =
                       {heirs[i].hash : i \in k .. n - 1}
  <2> SUFFICES ASSUME NEW k \in {1, 2}
               PROVE  {heirs[i].hash : i \in k .. n} \ {heirs[n].hash} =
                      {heirs[i].hash : i \in k .. n - 1}
    OBVIOUS
  <2>0. k \in Nat /\ k >= 1 /\ n \in Nat /\ n > 1
    BY <1>1
  <2> HIDE DEF n
  <2>1. \A i \in k .. n : i = n \/ i \in k .. n - 1
    BY <2>0
  <2>2. \A i \in k .. n - 1 : i \in 1 .. n /\ i \in k .. n /\ i # n /\ n \in 1 .. n
    BY <2>0
  <2>3. \A i \in k .. n - 1 : heirs[i].hash # heirs[n].hash
    BY <1>4, <2>2
  <2> QED
    BY <2>1, <2>2, <2>3
<1>6. SearchRootExact'
  <2>1. /\ DOMAIN search_root' = DOMAIN search_root \ {heirs[n].hash}
        /\ \A h \in DOMAIN search_root \ {heirs[n].hash} : search_root'[h] = search_root[h]
    BY <1>5 DEF tdelete, Without
  <2>2. DOMAIN search_root = {heirs[i].hash : i \in 1 .. n}
    BY <1>1 DEF MainInv, SearchRootExact
  <2>3. DOMAIN search_root' = {heirs[i].hash : i \in 1 .. n - 1}
    BY <1>8, <2>1, <2>2
  <2>4. {heirs[i].hash : i \in 1 .. n - 1} = {heirs'[i].hash : i \in 1 .. n - 1}
    BY <1>2
  <2>5. ASSUME NEW i \in 1 .. n - 1
        PROVE  search_root'[heirs'[i].hash] = i
    BY <1>1, <1>2, <1>4, <2>1, <2>2, <2>3 DEF MainInv, SearchRootExact
  <2> QED
    BY <1>2, <2>3, <2>4, <2>5 DEF SearchRootExact
<1>7. ASSUME StoreMirrorsHeirs PROVE StoreMirrorsHeirs'
  <2>1. /\ DOMAIN db' = DOMAIN db \ {heirs[n].hash}
        /\ \A h \in DOMAIN db \ {heirs[n].hash} : db'[h] = db[h]
    BY <1>5 DEF on_remove_block, headers_db_del, Without
  <2>2. DOMAIN db = {heirs[i].hash : i \in 2 .. n}
    BY <1>7 DEF StoreMirrorsHeirs
  <2>3. DOMAIN db' = {heirs[i].hash : i \in 2 .. n - 1}
    BY <1>8, <2>1, <2>2
  <2>4. {heirs[i].hash : i \in 2 .. n - 1} = {heirs'[i].hash : i \in 2 .. n - 1}
    BY <1>1, <1>2
  <2>5. ASSUME NEW i \in 2 .. n - 1
        PROVE  /\ db'[heirs'[i].hash].height = i - 1
               /\ db'[heirs'[i].hash].prev = heirs'[i - 1].hash
    <3>1. i \in 2 .. n /\ i - 1 \in 1 .. n - 1 /\ heirs'[i] = heirs[i] /\ heirs'[i - 1] = heirs[i - 1]
      BY <1>1, <1>2
    <3>2. db'[heirs[i].hash] = db[heirs[i].hash]
      BY <1>1, <2>1, <2>2, <2>3
    <3> QED
      BY <1>7, <3>1, <3>2 DEF StoreMirrorsHeirs
  <2> QED
    BY <1>2, <2>3, <2>4, <2>5 DEF StoreMirrorsHeirs
<1> QED
  BY <1>2, <1>3, <1>6, <1>7 DEF MainInv

\* Appending a node whose header names the last heir, and which the search
\* tree does not hold, keeps the three in step (add_heir(), on_add_block()).
LEMMA LongerMainChain ==
    ASSUME MainInv, NEW node,
           node.hash \in Blocks, node.prev = prev_hash[node.hash], node.complete \in BOOLEAN,
           node.prev = Last(heirs).hash, node.hash \notin DOMAIN search_root,
           heirs' = Append(heirs, new_heir(Last(heirs), node)),
           search_root' = tsearch(search_root, node.hash, Len(heirs) + 1),
           db' = on_add_block(db, node, Len(heirs))
    PROVE  MainInv' /\ (StoreMirrorsHeirs => StoreMirrorsHeirs')
<1> DEFINE n == Len(heirs)
           new == new_heir(Last(heirs), node)
<1>1. heirs \in Seq(Heir) /\ heirs # <<>> /\ n \in Nat /\ n > 0 /\ DOMAIN heirs = 1 .. n
  BY LenProperties, EmptySeq DEF MainInv, HeirsLinked
<1>2. Last(heirs) = heirs[n] /\ heirs[n] \in Heir
  BY <1>1, ElementOfSeq DEF Last
<1>3. /\ new \in Heir /\ new.hash = node.hash
      /\ new.cd = heirs[n].cd + difficulty[node.hash]
  BY <1>2, HeadersAssumption DEF new_heir, Heir, Hashes
<1>4. /\ heirs' \in Seq(Heir) /\ Len(heirs') = n + 1 /\ DOMAIN heirs' = 1 .. n + 1
      /\ \A i \in 1 .. n : heirs'[i] = heirs[i]
      /\ heirs'[n + 1] = new
  <2> HIDE DEF new
  <2> QED
    BY <1>1, <1>3, AppendProperties, LenProperties DEF new
<1> HIDE DEF n, new
<1>5. \A i \in 1 .. n + 1 : i = n + 1 \/ i \in 1 .. n
  BY <1>1
<1>6. \A i \in 1 .. n : heirs[i].hash # node.hash
  BY <1>1 DEF MainInv, SearchRootExact
<1>7. HeirsLinked'
  <2>1. heirs' # <<>> /\ heirs'[1].hash = Genesis
    BY <1>1, <1>4, EmptySeq DEF MainInv, HeirsLinked
  <2>2. ASSUME NEW i \in 2 .. n + 1
        PROVE  /\ heirs'[i].hash \in Blocks
               /\ prev_hash[heirs'[i].hash] = heirs'[i - 1].hash
               /\ heirs'[i].cd = heirs'[i - 1].cd + difficulty[heirs'[i].hash]
    <3>1. CASE i = n + 1
      <4>1. heirs'[i] = new /\ heirs'[i - 1] = heirs[n]
        BY <1>1, <1>4, <3>1
      <4> QED
        BY <4>1, <1>2, <1>3
    <3>2. CASE i # n + 1
      <4>1. i \in 2 .. n /\ heirs'[i] = heirs[i] /\ heirs'[i - 1] = heirs[i - 1]
        BY <1>1, <1>4, <3>2
      <4> QED
        BY <4>1 DEF MainInv, HeirsLinked, n
    <3> QED
      BY <3>1, <3>2
  <2> QED
    BY <1>4, <2>1, <2>2 DEF HeirsLinked
<1>8. SearchRootExact'
  <2>1. /\ DOMAIN search_root' = DOMAIN search_root \cup {node.hash}
        /\ search_root'[node.hash] = n + 1
        /\ \A h \in DOMAIN search_root : search_root'[h] = search_root[h]
    BY DEF tsearch, Put, n
  <2>2. /\ DOMAIN search_root = {heirs[i].hash : i \in 1 .. n}
        /\ \A i \in 1 .. n : search_root[heirs[i].hash] = i
    BY <1>1 DEF MainInv, SearchRootExact
  <2>3. DOMAIN search_root' = {heirs'[i].hash : i \in 1 .. n + 1}
    <3>1. \A i \in 1 .. n : i \in 1 .. n + 1
      BY <1>1
    <3>2. n + 1 \in 1 .. n + 1
      BY <1>1
    <3>3. {heirs'[i].hash : i \in 1 .. n + 1} = {heirs[i].hash : i \in 1 .. n} \cup {node.hash}
      BY ONLY <1>3, <1>4, <1>5, <3>1, <3>2
    <3> QED
      BY ONLY <2>1, <2>2, <3>3
  <2>4. ASSUME NEW i \in 1 .. n + 1
        PROVE  search_root'[heirs'[i].hash] = i
    BY <1>3, <1>4, <1>5, <2>1, <2>2
  <2> QED
    BY <1>4, <2>3, <2>4 DEF SearchRootExact
<1>9. ASSUME StoreMirrorsHeirs PROVE StoreMirrorsHeirs'
  <2>1. /\ DOMAIN db' = DOMAIN db \cup {node.hash}
        /\ db'[node.hash].height = n /\ db'[node.hash].prev = node.prev
        /\ \A h \in DOMAIN db : h # node.hash => db'[h] = db[h]
    BY DEF on_add_block, headers_db_put, Put, n
  <2>2. /\ DOMAIN db = {heirs[i].hash : i \in 2 .. n}
        /\ \A i \in 2 .. n : /\ db[heirs[i].hash].height = i - 1
                             /\ db[heirs[i].hash].prev = heirs[i - 1].hash
    BY <1>9 DEF StoreMirrorsHeirs, n
  <2>3. \A i \in 2 .. n + 1 : i = n + 1 \/ (i \in 2 .. n /\ i \in 1 .. n /\ i - 1 \in 1 .. n)
    BY <1>1
  <2>4. DOMAIN db' = {heirs'[i].hash : i \in 2 .. n + 1}
    <3>1. \A i \in 2 .. n : i \in 2 .. n + 1 /\ i \in 1 .. n
      BY <1>1
    <3>2. n + 1 \in 2 .. n + 1
      BY <1>1
    <3> QED
      BY <1>3, <1>4, <2>1, <2>2, <2>3, <3>1, <3>2
  <2>5. ASSUME NEW i \in 2 .. n + 1
        PROVE  /\ db'[heirs'[i].hash].height = i - 1
               /\ db'[heirs'[i].hash].prev = heirs'[i - 1].hash
    <3>1. CASE i = n + 1
      <4>1. heirs'[i].hash = node.hash /\ heirs'[i - 1] = heirs[n] /\ i - 1 = n
        BY <1>1, <1>3, <1>4, <3>1
      <4> QED
        BY <4>1, <1>2, <2>1
    <3>2. CASE i # n + 1
      <4>1. i \in 2 .. n /\ heirs'[i] = heirs[i] /\ heirs'[i - 1] = heirs[i - 1]
            /\ heirs[i].hash # node.hash
        BY <1>4, <1>6, <2>3, <3>2
      <4>2. heirs[i].hash \in DOMAIN db
        BY ONLY <4>1, <2>2
      <4>3. db'[heirs'[i].hash] = db[heirs[i].hash]
        BY ONLY <4>1, <4>2, <2>1
      <4> QED
        BY ONLY <4>1, <4>3, <2>2
    <3> QED
      BY <3>1, <3>2
  <2> QED
    BY <1>4, <2>4, <2>5 DEF StoreMirrorsHeirs
<1> QED
  BY <1>4, <1>7, <1>8, <1>9 DEF MainInv

-----------------------------------------------------------------------------
(* The walks over a family tree change difficulties and the order of kids *)

\* M has the nodes of N, with the headers and the parents they had, and kids
\* that are empty where they were and come from the same set S.
SameNodes(M, N, S) ==
    /\ DOMAIN M = DOMAIN N
    /\ \A y \in DOMAIN N :
          /\ DOMAIN M[y] = Fields
          /\ M[y].hash = N[y].hash /\ M[y].prev = N[y].prev
          /\ M[y].complete = N[y].complete /\ M[y].parent = N[y].parent
          /\ M[y].kids \in Seq(S)
          /\ M[y].kids = <<>> <=> N[y].kids = <<>>

\* M is N with other difficulties.
OtherDifficulties(M, N) == \E cd : M = [y \in DOMAIN N |-> [N[y] EXCEPT !.cd = cd[y]]]

\* Adding up difficulties gives every node one, and touches nothing else.
LEMMA AccumulateIs ==
    ASSUME NEW N, NEW visited, NEW x, NEW base
    PROVE  OtherDifficulties(accumulate(N, visited, x, base), N)
<1>1. \E cd : accumulate(N, visited, x, base) = [y \in DOMAIN N |-> [N[y] EXCEPT !.cd = cd[y]]]
  BY DEF accumulate
<1> QED
  BY <1>1, Zenon DEF OtherDifficulties

\* It keeps the nodes, their headers, parents and children.
LEMMA AccumulateProps ==
    ASSUME NEW N, NEW T, NEW x, NEW base, NEW S,
           \A y \in DOMAIN N : DOMAIN N[y] = Fields /\ N[y].kids \in Seq(S)
    PROVE  SameNodes(accumulate(N, T, x, base), N, S)
<1>0. OtherDifficulties(accumulate(N, T, x, base), N)
  BY AccumulateIs
<1>1. PICK cd : accumulate(N, T, x, base) = [y \in DOMAIN N |-> [N[y] EXCEPT !.cd = cd[y]]]
  BY <1>0 DEF OtherDifficulties
<1> QED
  BY <1>1 DEF SameNodes, Fields

\* The child that jumps to the first place is one of the children.
LEMMA PromoteProps ==
    ASSUME NEW S, NEW kids \in Seq(S), NEW k \in ToSet(kids)
    PROVE  promote(kids, k) \in Seq(S) /\ promote(kids, k) # <<>>
<1> DEFINE j == CHOOSE i \in DOMAIN kids : kids[i] = k
           n == Len(kids)
<1>1. n \in Nat /\ DOMAIN kids = 1 .. n
  BY LenProperties
<1>2. j \in 1 .. n /\ kids[j] = k
  BY <1>1 DEF ToSet
<1> HIDE DEF j, n
<1>3. k \in S
  BY <1>2, ElementOfSeq DEF n
<1>4. j - 1 \in Int /\ j + 1 \in Int /\ n \in Int /\ 1 \in Int
  BY <1>1, <1>2
<1>5. (\A i \in 1 .. j - 1 : i \in 1 .. n) /\ (\A i \in j + 1 .. n : i \in 1 .. n)
  BY <1>1, <1>2
<1>6. SubSeq(kids, 1, j - 1) \in Seq(S)
  <2>1. \A i \in 1 .. j - 1 : kids[i] \in S
    BY <1>5, ElementOfSeq DEF n
  <2> QED
    BY <1>4, <2>1, SubSeqProperties
<1>7. SubSeq(kids, j + 1, n) \in Seq(S)
  <2>1. \A i \in j + 1 .. n : kids[i] \in S
    BY <1>5, ElementOfSeq DEF n
  <2> QED
    BY <1>4, <2>1, SubSeqProperties
<1>8. RemoveAt(kids, j) \in Seq(S)
  BY <1>6, <1>7, ConcatProperties DEF RemoveAt, n
<1>9. <<k>> \in Seq(S) /\ <<k>> # <<>>
  BY <1>3
<1>10. <<k>> \o RemoveAt(kids, j) \in Seq(S) /\ <<k>> \o RemoveAt(kids, j) # <<>>
  BY <1>8, <1>9, ConcatProperties, ConcatEqualIffEmpty
<1> QED
  BY <1>10 DEF promote, j

\* Declaring an inheritance reorders children and touches nothing else.
LEMMA DeclareProps ==
    ASSUME NEW N, NEW x, NEW S,
           \A y \in DOMAIN N : DOMAIN N[y] = Fields /\ N[y].kids \in Seq(S)
    PROVE  SameNodes(block_info_declare_inheritance(N, x), N, S)
<1> DEFINE path == ToSet(ancestry(N, x))
           Fav(y) == {k \in ToSet(N[y].kids) : k \in path}
           M == block_info_declare_inheritance(N, x)
           best(y) == promote(N[y].kids, CHOOSE k \in Fav(y) : TRUE)
<1>1. /\ DOMAIN M = DOMAIN N
      /\ \A y \in DOMAIN N : M[y] = IF y \in path /\ Fav(y) # {}
                                    THEN [N[y] EXCEPT !.kids = best(y)] ELSE N[y]
  BY DEF block_info_declare_inheritance, Fields
<1>2. ASSUME NEW y \in DOMAIN N, Fav(y) # {}
      PROVE  best(y) \in Seq(S) /\ best(y) # <<>> /\ N[y].kids # <<>>
  <2>1. (CHOOSE k \in Fav(y) : TRUE) \in ToSet(N[y].kids)
    BY <1>2
  <2>2. N[y].kids # <<>>
    BY <2>1 DEF ToSet
  <2> QED
    BY <2>1, <2>2, PromoteProps
<1> HIDE DEF path, Fav, M, best
<1>3. ASSUME NEW y \in DOMAIN N
      PROVE  /\ DOMAIN M[y] = Fields
             /\ M[y].hash = N[y].hash /\ M[y].prev = N[y].prev
             /\ M[y].complete = N[y].complete /\ M[y].parent = N[y].parent
             /\ M[y].kids \in Seq(S)
             /\ M[y].kids = <<>> <=> N[y].kids = <<>>
  <2>1. CASE y \in path /\ Fav(y) # {}
    <3>1. M[y] = [N[y] EXCEPT !.kids = best(y)]
      BY <1>1, <2>1
    <3> QED
      BY <3>1, <1>2, <2>1 DEF Fields
  <2>2. CASE ~(y \in path /\ Fav(y) # {})
    BY <1>1, <2>2
  <2> QED
    BY <2>1, <2>2
<1> QED
  BY <1>1, <1>3 DEF SameNodes, M

\* Children of a smaller set of nodes are children of a larger one.
LEMMA ChildrenGrow ==
    ASSUME NEW M, NEW N, NEW K, NEW L, L \subseteq K, \A y \in L : M[y].prev = N[y].prev
    PROVE  \A h : \A s \in Seq(Children(N, L, h)) : s \in Seq(Children(M, K, h))
<1> SUFFICES ASSUME NEW h, NEW s \in Seq(Children(N, L, h)) PROVE s \in Seq(Children(M, K, h))
  OBVIOUS
<1>1. Children(N, L, h) \subseteq Children(M, K, h)
  BY DEF Children
<1> QED
  BY <1>1, SeqMonotonic

\* Adding up difficulties leaves children below their parents.
LEMMA AccumulateLinks ==
    ASSUME NEW N, NEW T, NEW x, NEW base, NEW L,
           \A y \in DOMAIN N : DOMAIN N[y] = Fields,
           L \subseteq DOMAIN N, KidsLinked(N, L)
    PROVE  KidsLinked(accumulate(N, T, x, base), L)
<1> DEFINE M == accumulate(N, T, x, base)
<1>0. OtherDifficulties(accumulate(N, T, x, base), N)
  BY AccumulateIs
<1>1. PICK cd : accumulate(N, T, x, base) = [y \in DOMAIN N |-> [N[y] EXCEPT !.cd = cd[y]]]
  BY <1>0 DEF OtherDifficulties
<1>2. /\ DOMAIN M = DOMAIN N
      /\ \A y \in DOMAIN N : M[y].hash = N[y].hash /\ M[y].prev = N[y].prev
                            /\ M[y].kids = N[y].kids
  BY <1>1 DEF Fields
<1> HIDE DEF M
<1>3. \A h : \A s \in Seq(Children(N, L, h)) : s \in Seq(Children(M, L, h))
  BY <1>2, ChildrenGrow
<1> QED
  BY <1>2, <1>3 DEF KidsLinked, M

\* So does declaring an inheritance.
LEMMA DeclareLinks ==
    ASSUME NEW N, NEW x, NEW L,
           \A y \in DOMAIN N : DOMAIN N[y] = Fields,
           L \subseteq DOMAIN N, KidsLinked(N, L)
    PROVE  KidsLinked(block_info_declare_inheritance(N, x), L)
<1> DEFINE path == ToSet(ancestry(N, x))
           Fav(y) == {k \in ToSet(N[y].kids) : k \in path}
           M == block_info_declare_inheritance(N, x)
           best(y) == promote(N[y].kids, CHOOSE k \in Fav(y) : TRUE)
<1>1. /\ DOMAIN M = DOMAIN N
      /\ \A y \in DOMAIN N : M[y] = IF y \in path /\ Fav(y) # {}
                                    THEN [N[y] EXCEPT !.kids = best(y)] ELSE N[y]
  BY DEF block_info_declare_inheritance, Fields
<1>2. ASSUME NEW y \in DOMAIN N, Fav(y) # {}
      PROVE  best(y) \in Seq(Children(N, L, N[y].hash))
  <2>1. (CHOOSE k \in Fav(y) : TRUE) \in ToSet(N[y].kids)
    BY <1>2
  <2> QED
    BY <2>1, PromoteProps DEF KidsLinked
<1> HIDE DEF path, Fav, M, best
<1>3. ASSUME NEW y \in DOMAIN N
      PROVE  /\ M[y].hash = N[y].hash /\ M[y].prev = N[y].prev
             /\ M[y].kids \in Seq(Children(N, L, N[y].hash))
  <2>1. CASE y \in path /\ Fav(y) # {}
    <3>1. M[y] = [N[y] EXCEPT !.kids = best(y)]
      BY <1>1, <2>1
    <3> QED
      BY <3>1, <1>2, <2>1 DEF Fields
  <2>2. CASE ~(y \in path /\ Fav(y) # {})
    BY <1>1, <2>2 DEF KidsLinked
  <2> QED
    BY <2>1, <2>2
<1>4. \A h : \A s \in Seq(Children(N, L, h)) : s \in Seq(Children(M, L, h))
  BY <1>3, ChildrenGrow
<1> QED
  BY <1>1, <1>3, <1>4 DEF KidsLinked, M

\* What the proofs need of the candidates survives such changes.
LEMMA SameNodesOK ==
    ASSUME NEW M, NEW N, NEW H, NodesOK(N, H), SameNodes(M, N, DOMAIN N \ H)
    PROVE  /\ NodesOK(M, H)
           /\ \A R : RootOK(N, R) => RootOK(M, R)
           /\ \A o : HeadsLead(N, H, o) => HeadsLead(M, H, o)
<1>1. NodesOK(M, H)
  BY DEF NodesOK, SameNodes
<1>2. ASSUME NEW R, RootOK(N, R) PROVE RootOK(M, R)
  BY <1>2 DEF RootOK, SameNodes
<1>3. ASSUME NEW o, HeadsLead(N, H, o) PROVE HeadsLead(M, H, o)
  BY <1>3 DEF HeadsLead, NodesOK, SameNodes
<1> QED
  BY <1>1, <1>2, <1>3

-----------------------------------------------------------------------------
(* One lemma per action *)

\* A step that leaves the main chain, its search tree and the database alone.
LEMMA MainUnchanged ==
    ASSUME MainInv, UNCHANGED mainVars
    PROVE  MainInv'
BY DEF MainInv, mainVars, HeirsLinked, SearchRootExact

\* An allocated node is a fresh address, and no address is NULL.
LEMMA NewNode ==
    ASSUME NEW N, CanAllocate(N)
    PROVE  new_node(N) \in Ptr /\ new_node(N) \notin DOMAIN N /\ Null \notin Ptr
<1>1. \E x \in Ptr : x \notin DOMAIN N
  BY DEF CanAllocate
<1>2. new_node(N) \in Ptr /\ new_node(N) \notin DOMAIN N
  BY <1>1 DEF new_node
<1> QED
  BY <1>2, MaxNodesAssumption DEF Ptr, Null

\* A fresh op record, and the fields it was made with.
LEMMA FreshOp ==
    /\ Idle \in OpType /\ Idle.pc = "idle"
    /\ \A x \in Ptr : LET o == [Idle EXCEPT !.pc = "rule1", !.child = x]
                      IN  o \in OpType /\ o.pc = "rule1" /\ o.child = x
    /\ \A c \in Ptr : Contest(c) \in OpType /\ Contest(c).pc = "rule4" /\ Contest(c).chain = c
BY EmptySeq DEF Idle, Contest, OpType

\* Enrol keeps the invariant: b's node gets the children of b's chain, and the
\* head that is freed is in nobody's reach any more.
LEMMA EnrolStep ==
    ASSUME IInv, NEW b \in Blocks, Enrol(b)
    PROVE  IInv'
<1>1. CASE ClaimLoops(b)
  <2>1. fault' = "hang" /\ UNCHANGED mainVars
    BY <1>1 DEF Enrol, Fail
  <2> QED
    BY <2>1, MainUnchanged DEF IInv
<1>2. CASE ~ClaimLoops(b)
  <2> DEFINE x == new_node(info)
             kids == Claimed(b)
             heads == {h \in DOMAIN longest_end : b \in DOMAIN list_root /\ h = list_root[b]}
             renounce == [y \in DOMAIN info \ heads |->
                            IF y \in ToSet(kids) THEN [info[y] EXCEPT !.parent = x]
                            ELSE IF b \in DOMAIN list_root /\ y = list_root[b]
                                 THEN [info[y] EXCEPT !.kids = <<>>]
                                 ELSE info[y]]
             node == block_info(b, prev_hash[b], TRUE, kids, 0)
             N == Put(renounce, x, node)
             H == Heads \ heads
             R == Put(list_root, b, x)
  <2>1. /\ fault = "none" /\ op.pc = "idle" /\ CanAllocate(info)
        /\ info' = block_info_update_cumulative_difficulty(N, x, 0)
        /\ longest_end' = list_remove(longest_end, heads)
        /\ list_root' = R
        /\ op' = [Idle EXCEPT !.pc = "rule1", !.child = x]
        /\ UNCHANGED <<mainVars, fault>>
    BY <1>2 DEF Enrol, Enrolled
  <2>2. NodesOK(info, Heads) /\ RootOK(info, list_root) /\ HeadsLead(info, Heads, op)
    BY <2>1 DEF IInv, ListInv
  <2>3. x \in Ptr /\ x \notin DOMAIN info
    BY <2>1, NewNode
  <2>4. kids \in Seq(Relatives)
    BY <2>2, EmptySeq DEF Claimed, NodesOK, RootOK, Relatives
  <2>5. heads \subseteq Heads /\ Heads \subseteq DOMAIN info
    BY <2>2 DEF NodesOK, Heads
  <2> HIDE DEF x, kids, heads
  <2>6. /\ node.hash = b /\ node.prev = prev_hash[b] /\ node.complete = TRUE
        /\ node.kids = kids /\ DOMAIN node = Fields
    BY DEF block_info, Fields
  <2>7. /\ DOMAIN renounce = DOMAIN info \ heads
        /\ \A y \in DOMAIN info \ heads :
              /\ DOMAIN renounce[y] = Fields
              /\ renounce[y].hash = info[y].hash /\ renounce[y].prev = info[y].prev
              /\ renounce[y].complete = info[y].complete
              /\ \/ renounce[y].kids = info[y].kids
                 \/ renounce[y].kids = <<>> /\ b \in DOMAIN list_root /\ y = list_root[b]
    BY <2>2 DEF NodesOK, Fields
  <2> HIDE DEF node, renounce
  <2>8. /\ DOMAIN N = (DOMAIN info \ heads) \cup {x}
        /\ N[x] = node
        /\ \A y \in DOMAIN info \ heads : N[y] = renounce[y]
    BY <2>3, <2>7 DEF Put
  <2> HIDE DEF N
  <2>9. Relatives \subseteq DOMAIN N \ H /\ x \in DOMAIN N \ H /\ H \subseteq DOMAIN N
        /\ DOMAIN N \ H = Relatives \cup {x}
    BY <2>3, <2>5, <2>8 DEF Relatives, Heads
  <2>10. NodesOK(N, H)
    <3>1. DOMAIN N \subseteq Ptr
      BY <2>2, <2>3, <2>8 DEF NodesOK
    <3>2. ASSUME NEW y \in DOMAIN N
          PROVE  DOMAIN N[y] = Fields /\ N[y].kids \in Seq(DOMAIN N \ H)
      <4>1. CASE y = x
        BY <4>1, <2>4, <2>6, <2>8, <2>9, SeqMonotonic
      <4>2. CASE y # x
        <5>1. y \in DOMAIN info \ heads /\ N[y] = renounce[y]
          BY <4>2, <2>8
        <5>2. info[y].kids \in Seq(DOMAIN N \ H)
          BY <5>1, <2>2, <2>9, SeqMonotonic DEF NodesOK, Relatives
        <5> QED
          BY <5>1, <5>2, <2>7, EmptySeq
      <4> QED
        BY <4>1, <4>2
    <3>3. ASSUME NEW y \in DOMAIN N \ H
          PROVE  /\ N[y].hash \in Blocks
                 /\ N[y].prev = prev_hash[N[y].hash]
                 /\ N[y].complete \in BOOLEAN
      <4>1. CASE y = x
        BY <4>1, <2>6, <2>8
      <4>2. CASE y # x
        <5>1. y \in DOMAIN info \ heads /\ N[y] = renounce[y] /\ y \in DOMAIN info \ Heads
          BY <4>2, <2>8, <2>9 DEF Relatives
        <5> QED
          BY <5>1, <2>2, <2>7 DEF NodesOK
      <4> QED
        BY <4>1, <4>2
    <3> QED
      BY <2>9, <3>1, <3>2, <3>3 DEF NodesOK
  <2>11. RootOK(N, R)
    <3> SUFFICES ASSUME NEW h \in DOMAIN R
                 PROVE  R[h] \in DOMAIN N /\ N[R[h]].hash = h
      BY DEF RootOK
    <3>1. CASE h = b
      BY <3>1, <2>6, <2>8 DEF Put
    <3>2. CASE h # b
      <4>1. h \in DOMAIN list_root /\ R[h] = list_root[h]
        BY <3>2 DEF Put
      <4>2. list_root[h] \in DOMAIN info /\ info[list_root[h]].hash = h
        BY <4>1, <2>2 DEF RootOK
      <4>3. list_root[h] \notin heads
        BY <3>2, <4>2, <2>2 DEF heads, RootOK
      <4> QED
        BY <4>1, <4>2, <4>3, <2>7, <2>8
    <3> QED
      BY <3>1, <3>2
  <2>12. HeadsLead(N, H, op')
    <3> SUFFICES ASSUME NEW c \in H PROVE N[c].kids # <<>>
      BY DEF HeadsLead
    <3>1. c \in DOMAIN info \ heads /\ N[c] = renounce[c] /\ c \in Heads
      BY <2>5, <2>8
    <3>2. info[c].kids # <<>>
      BY <3>1, <2>1, <2>2 DEF HeadsLead
    <3>3. ~(b \in DOMAIN list_root /\ c = list_root[b])
      BY <3>1 DEF heads, Heads
    <3> QED
      BY <3>1, <3>2, <3>3, <2>7
  <2>13. SameNodes(info', N, DOMAIN N \ H)
    BY <2>1, <2>10, AccumulateProps DEF block_info_update_cumulative_difficulty, NodesOK
  <2>14. Heads' = H /\ Relatives' = DOMAIN N \ H
    BY <2>1, <2>13 DEF Heads, Relatives, SameNodes, list_remove, Without
  <2>15. NodesOK(info', Heads') /\ RootOK(info', list_root') /\ HeadsLead(info', Heads', op')
    BY <2>1, <2>10, <2>11, <2>12, <2>13, <2>14, SameNodesOK
  <2>16. OpOK(op', Relatives', Heads') /\ LineOK(op', info') /\ ReorgLinked(op', info', heirs')
    BY <2>1, <2>3, <2>9, <2>14, FreshOp DEF OpOK, LineOK, ReorgLinked
  <2>17. KidsLinked(info', Relatives')
    <3>1. \A y \in Relatives : N[y].prev = info[y].prev
      BY <2>5, <2>7, <2>8 DEF Relatives
    <3>2. \A h : \A s \in Seq(Children(info, Relatives, h)) : s \in Seq(Children(N, DOMAIN N \ H, h))
      BY <2>9, <3>1, ChildrenGrow
    <3>3. kids \in Seq(Children(info, Relatives, b))
      BY <2>1, <2>2, EmptySeq DEF kids, Claimed, RootOK, KidsLinked, IInv, ListInv
    <3>4. \A y \in DOMAIN info : info[y].kids \in Seq(Children(info, Relatives, info[y].hash))
      BY <2>1 DEF IInv, ListInv, KidsLinked
    <3>5. ASSUME NEW y \in DOMAIN N
          PROVE  N[y].kids \in Seq(Children(N, DOMAIN N \ H, N[y].hash))
      <4>1. CASE y = x
        BY <4>1, <2>6, <2>8, <3>2, <3>3
      <4>2. CASE y # x
        <5>1. y \in DOMAIN info \ heads /\ N[y] = renounce[y]
          BY <4>2, <2>8
        <5>2. info[y].kids \in Seq(Children(N, DOMAIN N \ H, info[y].hash))
          BY <5>1, <3>2, <3>4
        <5>3. <<>> \in Seq(Children(N, DOMAIN N \ H, info[y].hash))
          BY EmptySeq
        <5>4. renounce[y].hash = info[y].hash
              /\ (renounce[y].kids = info[y].kids \/ renounce[y].kids = <<>>)
          BY <5>1, <2>7
        <5> QED
          BY <5>1, <5>2, <5>3, <5>4
      <4> QED
        BY <4>1, <4>2
    <3>6. KidsLinked(N, DOMAIN N \ H)
      BY <3>5 DEF KidsLinked
    <3>7. KidsLinked(info', DOMAIN N \ H)
      BY <2>1, <2>10, <3>6, AccumulateLinks DEF block_info_update_cumulative_difficulty, NodesOK
    <3> QED
      BY <2>14, <3>7
  <2>18. AllKnown(heirs', info', Relatives', accepted')
    <3>1. AllKnown(heirs, info, Relatives, accepted) /\ Relatives \subseteq DOMAIN info
      BY <2>1 DEF IInv, ListInv, Relatives
    <3>2. accepted' = accepted \cup {b}
      BY <1>2 DEF Enrol
    <3>3. \A y \in Relatives : N[y].hash = info[y].hash
      BY <2>5, <2>7, <2>8 DEF Relatives
    <3>4. \A y \in Relatives \cup {x} : info'[y].hash = N[y].hash
      BY <2>9, <2>13 DEF SameNodes
    <3>5. N[x].hash = b
      BY <2>6, <2>8
    <3>6. Relatives' = Relatives \cup {x}
      BY <2>9, <2>14
    <3> QED
      BY <2>1, <3>1, <3>2, <3>3, <3>4, <3>5, <3>6 DEF AllKnown, mainVars
  <2> QED
    BY <2>1, <2>15, <2>16, <2>17, <2>18, MainUnchanged DEF IInv, ListInv
<1> QED
  BY <1>1, <1>2

\* Rule II keeps the invariant: the new node joins the children of a live node,
\* and the chain it contests for is a head, or the step is a fault.
LEMMA RuleIIStep ==
    ASSUME IInv, RuleII
    PROVE  IInv'
<1> DEFINE x == op.child
           parent == list_root[info[x].prev]
           c == get_current_chain(info, parent)
           joined == [info EXCEPT ![parent].kids = Append(@, x), ![x].parent = parent]
           summed == block_info_update_cumulative_difficulty(joined, x, info[parent].cd)
           end == longest_offspring(summed, x, Null)
<1>1. op.pc = "rule1" /\ fault = "none" /\ info[x].prev \in DOMAIN list_root
  BY DEF RuleII
<1>2. CASE c \notin DOMAIN longest_end
  <2>1. fault' = "bad_cast" /\ UNCHANGED mainVars
    BY <1>2 DEF RuleII, Fail
  <2> QED
    BY <2>1, MainUnchanged DEF IInv
<1>3. CASE c \in DOMAIN longest_end
  <2>1. /\ \E differ \in MayDiffer(longest_end[c], end) :
              info' = IF differ THEN block_info_declare_inheritance(summed, end) ELSE summed
        /\ longest_end' = [longest_end EXCEPT ![c] = end]
        /\ op' = Contest(c)
        /\ UNCHANGED <<mainVars, list_root, fault>>
    BY <1>3 DEF RuleII
  <2>2. /\ NodesOK(info, Heads) /\ RootOK(info, list_root) /\ HeadsLead(info, Heads, op)
        /\ x \in Relatives
    BY <1>1 DEF IInv, ListInv, OpOK
  <2>3. parent \in DOMAIN info /\ x \in DOMAIN info /\ info[parent].kids \in Seq(Relatives)
    BY <1>1, <2>2 DEF RootOK, NodesOK, Relatives
  <2>4. Append(info[parent].kids, x) \in Seq(Relatives) /\ Append(info[parent].kids, x) # <<>>
    BY <2>2, <2>3, AppendProperties
  <2>5. c \in Heads /\ c \in Ptr
    BY <1>3, <2>2 DEF NodesOK, Heads
  <2> HIDE DEF x, parent, c
  <2>6. /\ DOMAIN joined = DOMAIN info
        /\ \A y \in DOMAIN info :
              /\ DOMAIN joined[y] = Fields
              /\ joined[y].hash = info[y].hash /\ joined[y].prev = info[y].prev
              /\ joined[y].complete = info[y].complete
              /\ joined[y].kids = IF y = parent THEN Append(info[parent].kids, x)
                                  ELSE info[y].kids
    BY <2>2, <2>3 DEF NodesOK, Fields
  <2> HIDE DEF joined
  <2>7. NodesOK(joined, Heads)
    BY <2>2, <2>4, <2>6 DEF NodesOK, Relatives
  <2>8. RootOK(joined, list_root)
    BY <2>2, <2>6 DEF RootOK
  <2>9. HeadsLead(joined, Heads, op')
    BY <1>1, <2>2, <2>4, <2>6 DEF HeadsLead, NodesOK
  <2>10. SameNodes(summed, joined, DOMAIN joined \ Heads)
    BY <2>7, AccumulateProps DEF block_info_update_cumulative_difficulty, NodesOK
  <2> HIDE DEF summed, end
  <2>11. NodesOK(summed, Heads) /\ RootOK(summed, list_root) /\ HeadsLead(summed, Heads, op')
    BY <2>7, <2>8, <2>9, <2>10, SameNodesOK
  <2>12. DOMAIN summed = DOMAIN info
    BY <2>6, <2>10 DEF SameNodes
  <2>13. SameNodes(block_info_declare_inheritance(summed, end), summed, DOMAIN summed \ Heads)
    BY <2>11, DeclareProps DEF NodesOK
  <2>14. LET D == block_info_declare_inheritance(summed, end)
         IN  /\ NodesOK(D, Heads) /\ RootOK(D, list_root) /\ HeadsLead(D, Heads, op')
             /\ DOMAIN D = DOMAIN info
    <3>1. DOMAIN block_info_declare_inheritance(summed, end) = DOMAIN info
      BY <2>12, <2>13 DEF SameNodes
    <3> QED
      BY <2>11, <2>13, <3>1, SameNodesOK
  <2>15. Heads' = Heads
    BY <2>1 DEF Heads
  <2>16. \/ info' = block_info_declare_inheritance(summed, end)
         \/ info' = summed
    BY <2>1
  <2>17. /\ NodesOK(info', Heads') /\ RootOK(info', list_root') /\ HeadsLead(info', Heads', op')
         /\ DOMAIN info' = DOMAIN info
    BY <2>1, <2>11, <2>12, <2>14, <2>15, <2>16
  <2>18. OpOK(op', Relatives', Heads') /\ LineOK(op', info') /\ ReorgLinked(op', info', heirs')
    BY <2>1, <2>5, <2>15, FreshOp DEF OpOK, LineOK, ReorgLinked
  <2>19. KidsLinked(info', Relatives')
    <3>1. KidsLinked(info, Relatives) /\ Relatives \subseteq DOMAIN info
      BY <1>1 DEF IInv, ListInv, Relatives
    <3>2. x \in Children(info, Relatives, info[parent].hash)
      BY <1>1, <2>2 DEF Children, RootOK, x, parent
    <3>3. Append(info[parent].kids, x) \in Seq(Children(info, Relatives, info[parent].hash))
      BY <2>3, <3>1, <3>2, AppendProperties DEF KidsLinked
    <3>4. \A h : \A s \in Seq(Children(info, Relatives, h)) : s \in Seq(Children(joined, Relatives, h))
      BY <2>6, <3>1, ChildrenGrow
    <3>5. KidsLinked(joined, Relatives)
      BY <2>6, <3>1, <3>3, <3>4 DEF KidsLinked
    <3>6. KidsLinked(summed, Relatives)
      BY <2>6, <3>1, <3>5, AccumulateLinks DEF summed, block_info_update_cumulative_difficulty
    <3>7. KidsLinked(block_info_declare_inheritance(summed, end), Relatives)
      BY <2>11, <2>12, <3>1, <3>6, DeclareLinks DEF NodesOK
    <3>8. Relatives' = Relatives
      BY <2>15, <2>17 DEF Relatives
    <3> QED
      BY <2>16, <3>6, <3>7, <3>8
  <2>20. AllKnown(heirs', info', Relatives', accepted')
    <3>1. AllKnown(heirs, info, Relatives, accepted) /\ Relatives \subseteq DOMAIN info
      BY <1>1 DEF IInv, ListInv, Relatives
    <3>2. accepted' = accepted
      BY <1>3 DEF RuleII, c, parent, x, Fail
    <3>3. \A y \in Relatives : summed[y].hash = info[y].hash
      BY <2>6, <2>10, <3>1 DEF SameNodes
    <3>4. \A y \in Relatives : info'[y].hash = info[y].hash
      BY <2>12, <2>13, <2>16, <3>1, <3>3 DEF SameNodes
    <3>5. Relatives' = Relatives
      BY <2>15, <2>17 DEF Relatives
    <3> QED
      BY <2>1, <3>1, <3>2, <3>4, <3>5 DEF AllKnown, mainVars
  <2> QED
    BY <2>1, <2>17, <2>18, <2>19, <2>20, MainUnchanged DEF IInv, ListInv
<1> QED
  BY <1>2, <1>3

\* Rule III keeps the invariant: the new head has the new node as its child.
LEMMA RuleIIIStep ==
    ASSUME IInv, RuleIII
    PROVE  IInv'
<1> DEFINE x == op.child
           c == new_node(info)
           p == info[x].prev
           put == Put(info, c, chain_head(p, <<x>>))
           headed == [put EXCEPT ![x].parent = c]
           H == Heads \cup {c}
<1>1. /\ op.pc = "rule1" /\ fault = "none" /\ p \notin DOMAIN list_root /\ CanAllocate(info)
      /\ info' = block_info_update_cumulative_difficulty(headed, x, 0)
      /\ list_root' = Put(list_root, p, c)
      /\ \E e : longest_end' = list_add(longest_end, c, e)
      /\ op' = Contest(c)
      /\ UNCHANGED <<mainVars, fault>>
  BY DEF RuleIII
<1>2. /\ NodesOK(info, Heads) /\ RootOK(info, list_root) /\ HeadsLead(info, Heads, op)
      /\ x \in Relatives
  BY <1>1 DEF IInv, ListInv, OpOK
<1>3. c \in Ptr /\ c \notin DOMAIN info
  BY <1>1, NewNode
<1>4. x \in DOMAIN info /\ x # c /\ <<x>> \in Seq(Relatives) /\ <<x>> # <<>>
  BY <1>2, <1>3 DEF Relatives
<1> HIDE DEF x, c, p
<1>5. /\ chain_head(p, <<x>>).hash = p /\ chain_head(p, <<x>>).kids = <<x>>
      /\ DOMAIN chain_head(p, <<x>>) = Fields
  BY DEF chain_head, block_info, Fields
<1>6. /\ DOMAIN put = DOMAIN info \cup {c} /\ put[c] = chain_head(p, <<x>>)
      /\ \A y \in DOMAIN info : put[y] = info[y]
  BY <1>3 DEF Put
<1> HIDE DEF put
<1>7. /\ DOMAIN headed = DOMAIN info \cup {c} /\ headed[c] = chain_head(p, <<x>>)
      /\ \A y \in DOMAIN info :
            /\ DOMAIN headed[y] = Fields
            /\ headed[y].hash = info[y].hash /\ headed[y].prev = info[y].prev
            /\ headed[y].complete = info[y].complete /\ headed[y].kids = info[y].kids
  BY <1>2, <1>3, <1>4, <1>6 DEF NodesOK, Fields
<1> HIDE DEF headed
<1>8. DOMAIN headed \ H = Relatives /\ Heads \subseteq DOMAIN info
  BY <1>2, <1>3, <1>7 DEF Relatives, NodesOK
<1>9. NodesOK(headed, H)
  <2>1. DOMAIN headed \subseteq Ptr /\ H \subseteq DOMAIN headed
    BY <1>2, <1>3, <1>7, <1>8 DEF NodesOK
  <2>2. \A y \in DOMAIN headed : DOMAIN headed[y] = Fields /\ headed[y].kids \in Seq(Relatives)
    BY <1>2, <1>4, <1>5, <1>7 DEF NodesOK, Relatives
  <2>3. \A y \in Relatives : /\ headed[y].hash \in Blocks
                             /\ headed[y].prev = prev_hash[headed[y].hash]
                             /\ headed[y].complete \in BOOLEAN
    BY <1>2, <1>7 DEF NodesOK, Relatives
  <2> QED
    BY <1>8, <2>1, <2>2, <2>3 DEF NodesOK
<1>10. RootOK(headed, list_root')
  BY <1>1, <1>2, <1>5, <1>7 DEF RootOK, Put
<1>11. HeadsLead(headed, H, op')
  BY <1>1, <1>2, <1>4, <1>5, <1>7, <1>8 DEF HeadsLead
<1>12. SameNodes(info', headed, DOMAIN headed \ H)
  BY <1>1, <1>9, AccumulateProps DEF block_info_update_cumulative_difficulty, NodesOK
<1>13. Heads' = H /\ Relatives' = Relatives
  BY <1>1, <1>8, <1>12 DEF Heads, Relatives, SameNodes, list_add, Put
<1>14. NodesOK(info', Heads') /\ RootOK(info', list_root') /\ HeadsLead(info', Heads', op')
  BY <1>9, <1>10, <1>11, <1>12, <1>13, SameNodesOK
<1>15. OpOK(op', Relatives', Heads') /\ LineOK(op', info') /\ ReorgLinked(op', info', heirs')
  BY <1>1, <1>3, <1>13, FreshOp DEF OpOK, LineOK, ReorgLinked
<1>16. KidsLinked(info', Relatives')
  <2>1. KidsLinked(info, Relatives) /\ Relatives \subseteq DOMAIN info
    BY <1>1 DEF IInv, ListInv, Relatives
  <2>2. <<x>> \in Seq(Children(info, Relatives, p))
    <3>1. x \in Children(info, Relatives, p)
      BY <1>2 DEF Children, p
    <3> QED
      BY <3>1
  <2>3. \A h : \A s \in Seq(Children(info, Relatives, h)) : s \in Seq(Children(headed, Relatives, h))
    BY <1>7, <2>1, ChildrenGrow
  <2>4. KidsLinked(headed, Relatives)
    BY <1>5, <1>7, <2>1, <2>2, <2>3 DEF KidsLinked
  <2>5. KidsLinked(info', Relatives)
    BY <1>1, <1>8, <1>9, <2>4, AccumulateLinks DEF block_info_update_cumulative_difficulty, NodesOK
  <2> QED
    BY <1>13, <2>5
<1>17. AllKnown(heirs', info', Relatives', accepted')
  <2>1. AllKnown(heirs, info, Relatives, accepted) /\ Relatives \subseteq DOMAIN info
    BY <1>1 DEF IInv, ListInv, Relatives
  <2>2. accepted' = accepted
    BY DEF RuleIII
  <2>3. \A y \in Relatives : info'[y].hash = info[y].hash
    BY <1>7, <1>12, <2>1 DEF SameNodes
  <2> QED
    BY <1>1, <1>13, <2>1, <2>2, <2>3 DEF AllKnown, mainVars
<1> QED
  BY <1>1, <1>14, <1>15, <1>16, <1>17, MainUnchanged DEF IInv, ListInv

\* Rule IV keeps the invariant: the fork is an heir, and the first child of the
\* chain that won is a node with a header.
LEMMA RuleIVStep ==
    ASSUME IInv, RuleIV
    PROVE  IInv'
<1> DEFINE c == op.chain
           h == info[c].hash
           fork == search_root[h]
           first == Head(info[c].kids)
           summed == update_first_child_cumulative_difficulty(info, first, heirs[fork].cd)
           won == [op EXCEPT !.pc = "reorg", !.fork = fork, !.child = first,
                             !.before = hashes_of(heirs)]
<1>1. /\ op.pc = "rule4" /\ fault = "none"
      /\ UNCHANGED <<mainVars, list_root, longest_end, fault>>
  BY DEF RuleIV
<1>2. /\ NodesOK(info, Heads) /\ RootOK(info, list_root) /\ HeadsLead(info, Heads, op)
      /\ c \in Heads /\ op = Contest(c)
  BY <1>1 DEF IInv, ListInv, OpOK
<1>3. HeadsLead(info, Heads, op')
  BY <1>1, <1>2 DEF HeadsLead
<1>4. Heads' = Heads
  BY <1>1 DEF Heads
<1>5. CASE h \notin DOMAIN search_root
  <2>1. op' = Idle /\ info' = info
    BY <1>5 DEF RuleIV
  <2>2. NodesOK(info', Heads') /\ RootOK(info', list_root') /\ HeadsLead(info', Heads', op')
    BY <1>1, <1>2, <1>3, <1>4, <2>1
  <2>3. OpOK(op', Relatives', Heads') /\ LineOK(op', info') /\ ReorgLinked(op', info', heirs')
    BY <2>1, FreshOp DEF OpOK, LineOK, ReorgLinked
  <2>4. KidsLinked(info', Relatives')
    BY <1>1, <1>4, <2>1 DEF IInv, ListInv, Relatives
  <2>5. AllKnown(heirs', info', Relatives', accepted')
    BY <1>1, <1>4, <2>1 DEF IInv, ListInv, Relatives, RuleIV, mainVars
  <2> QED
    BY <1>1, <2>2, <2>3, <2>4, <2>5, MainUnchanged DEF IInv, ListInv
<1>6. CASE h \in DOMAIN search_root
  <2>1. /\ info' = summed
        /\ op' = won \/ op' = Idle
    BY <1>6 DEF RuleIV, blockchain_find
  <2>2. fork \in Nat /\ fork >= 1 /\ hashes_of(heirs) \in Seq(Hashes)
    <3>1. heirs \in Seq(Heir) /\ Len(heirs) \in Nat /\ DOMAIN heirs = 1 .. Len(heirs)
      BY LenProperties DEF IInv, MainInv
    <3>2. fork \in 1 .. Len(heirs)
      BY <1>6, <3>1 DEF IInv, MainInv, SearchRootExact
    <3>3. \A i \in 1 .. Len(heirs) : heirs[i].hash \in Hashes
      <4>1. \A i \in 1 .. Len(heirs) : heirs[i] \in Heir
        BY <3>1, ElementOfSeq
      <4> QED
        BY <4>1 DEF Heir
    <3>4. hashes_of(heirs) \in [1 .. Len(heirs) -> Hashes]
      BY <3>1, <3>3 DEF hashes_of
    <3> QED
      BY <3>1, <3>2, <3>4, SeqDef
  <2>3. first \in Relatives /\ first \in Ptr
    <3>1. info[c].kids \in Seq(Relatives) /\ info[c].kids # <<>>
      BY <1>1, <1>2 DEF NodesOK, HeadsLead, Relatives
    <3> QED
      BY <3>1, <1>2, HeadTailProperties DEF NodesOK, Relatives
  <2>8. info[first].prev = h /\ KidsLinked(info, Relatives) /\ Relatives \subseteq DOMAIN info
    <3>1. KidsLinked(info, Relatives) /\ Relatives \subseteq DOMAIN info
      BY <1>1 DEF IInv, ListInv, Relatives
    <3>2. info[c].kids \in Seq(Children(info, Relatives, h)) /\ info[c].kids # <<>>
      BY <1>1, <1>2, <3>1 DEF KidsLinked, NodesOK, HeadsLead
    <3>3. first \in Children(info, Relatives, h)
      BY <3>2, HeadTailProperties
    <3> QED
      BY <3>1, <3>3 DEF Children
  <2>9. fork \in 1 .. Len(heirs) /\ heirs[fork].hash = h
    BY <1>6, LenProperties DEF IInv, MainInv, SearchRootExact
  <2>10. KidsLinked(summed, Relatives)
    BY <1>2, <2>8, AccumulateLinks DEF update_first_child_cumulative_difficulty, NodesOK
  <2>4. SameNodes(summed, info, DOMAIN info \ Heads)
    BY <1>2, AccumulateProps DEF update_first_child_cumulative_difficulty, NodesOK
  <2> HIDE DEF summed
  <2>5. NodesOK(info', Heads') /\ RootOK(info', list_root') /\ HeadsLead(info', Heads', op')
    BY <1>1, <1>2, <1>3, <1>4, <2>1, <2>4, SameNodesOK
  <2>6. Relatives' = Relatives
    BY <1>4, <2>1, <2>4 DEF Relatives, SameNodes
  <2>7. OpOK(op', Relatives', Heads') /\ LineOK(op', info') /\ ReorgLinked(op', info', heirs')
    <3>1. CASE op' = Idle
      BY <3>1, FreshOp DEF OpOK, LineOK, ReorgLinked
    <3>2. CASE op' = won
      <4> HIDE DEF fork, first
      <4>0. op \in OpType /\ op.line = <<>> /\ op.orphans = <<>>
        <5>1. c \in Ptr
          BY <1>2 DEF NodesOK
        <5>2. Contest(c).line = <<>> /\ Contest(c).orphans = <<>>
          BY DEF Contest, Idle
        <5> QED
          BY <1>2, <5>1, <5>2, FreshOp
      <4>1. /\ won \in OpType /\ won.pc = "reorg" /\ won.chain = c /\ won.fork = fork
            /\ won.child = first /\ won.line = <<>> /\ won.orphans = <<>>
        BY <4>0, <2>2, <2>3 DEF OpType
      <4> HIDE DEF won
      <4>2. OpOK(op', Relatives', Heads') /\ LineOK(op', info')
        BY <1>2, <1>4, <2>2, <2>3, <2>6, <3>2, <4>1, EmptySeq DEF OpOK, LineOK
      <4>3. info'[c].hash = h /\ info'[first].prev = h /\ heirs' = heirs
        BY <1>1, <1>2, <2>1, <2>3, <2>4, <2>8 DEF SameNodes, NodesOK, Relatives, mainVars
      <4>4. first # Null
        BY <2>3, MaxNodesAssumption DEF Ptr, Null
      <4>5. Len(won.line) = 0 /\ fork + Len(won.line) = fork
        BY <2>2, <4>1
      <4> HIDE DEF h
      <4>6. ReorgLinked(op', info', heirs')
        BY <2>9, <3>2, <4>1, <4>3, <4>4, <4>5 DEF ReorgLinked
      <4> QED
        BY <4>2, <4>6
    <3> QED
      BY <2>1, <3>1, <3>2
  <2>11. KidsLinked(info', Relatives')
    BY <2>1, <2>6, <2>10
  <2>12. AllKnown(heirs', info', Relatives', accepted')
    <3>1. AllKnown(heirs, info, Relatives, accepted) /\ Relatives \subseteq DOMAIN info
      BY <1>1 DEF IInv, ListInv, Relatives
    <3>2. accepted' = accepted
      BY DEF RuleIV
    <3>3. \A y \in Relatives : info'[y].hash = info[y].hash
      BY <2>1, <2>4, <3>1 DEF SameNodes
    <3> QED
      BY <1>1, <2>6, <3>1, <3>2, <3>3 DEF AllKnown, mainVars
  <2> QED
    BY <1>1, <2>5, <2>7, <2>11, <2>12, MainUnchanged DEF IInv, ListInv
<1> QED
  BY <1>5, <1>6

\* Facts about a reorganisation under way.
LEMMA ReorgFacts ==
    ASSUME IInv, fault = "none", op.pc \in {"reorg", "siblings"}
    PROVE  /\ NodesOK(info, Heads) /\ RootOK(info, list_root) /\ HeadsLead(info, Heads, op)
           /\ op \in OpType /\ op.chain \in Heads /\ op.fork >= 1
           /\ op.child \in Relatives \cup {Null}
           /\ op.line \in Seq(Relatives) /\ op.orphans \in Seq(Relatives)
           /\ LineOK(op, info)
           /\ Relatives \subseteq Ptr
           /\ KidsLinked(info, Relatives) /\ ReorgLinked(op, info, heirs)
           /\ Relatives \subseteq DOMAIN info /\ Null \notin Relatives
           /\ op.fork \in 1 .. Len(heirs) /\ Len(heirs) \in Nat /\ Len(op.line) \in Nat
<1>1. /\ NodesOK(info, Heads) /\ RootOK(info, list_root) /\ HeadsLead(info, Heads, op)
      /\ op \in OpType /\ op.chain \in Heads /\ op.fork >= 1
      /\ op.child \in Relatives \cup {Null}
      /\ op.line \in Seq(Relatives) /\ op.orphans \in Seq(Relatives)
      /\ LineOK(op, info)
      /\ Relatives \subseteq Ptr
      /\ KidsLinked(info, Relatives) /\ ReorgLinked(op, info, heirs)
      /\ Relatives \subseteq DOMAIN info
  BY DEF IInv, ListInv, OpOK, NodesOK, Relatives
<1>2. Null \notin Relatives
  BY <1>1, MaxNodesAssumption DEF Ptr, Null
<1>3. Len(heirs) \in Nat /\ op.fork \in Nat /\ Len(op.line) \in Nat
  BY <1>1, LenProperties DEF OpType, IInv, MainInv
<1>4. op.fork <= Len(heirs)
  BY <1>1 DEF ReorgLinked
<1> QED
  BY <1>1, <1>2, <1>3, <1>4

\* The first of the abandoned heirs, if there is one.
LEMMA EldestProps ==
    ASSUME NEW S, NEW s \in Seq(S)
    PROVE  eldest(s) \in Seq(S)
BY EmptySeq, HeadTailProperties DEF eldest

\* It is a child of h if its header says so.
LEMMA EldestLinks ==
    ASSUME NEW N, NEW L, NEW h, NEW s \in Seq(L), s # <<>> => N[Head(s)].prev = h
    PROVE  eldest(s) \in Seq(Children(N, L, h))
<1>1. CASE s = <<>>
  BY <1>1, EmptySeq DEF eldest
<1>2. CASE s # <<>>
  <2>1. Head(s) \in Children(N, L, h)
    BY <1>2, HeadTailProperties DEF Children
  <2> QED
    BY <1>2, <2>1 DEF eldest
<1> QED
  BY <1>1, <1>2

\* AbandonChild keeps the invariant: the last heir becomes a node whose header
\* names the heir below it.
LEMMA AbandonChildStep ==
    ASSUME IInv, AbandonChild
    PROVE  IInv'
<1> DEFINE last == Last(heirs)
           x == new_node(info)
           child == eldest(op.orphans)
           n == Len(heirs)
           orphan == abandon_child(heirs[n - 1], last, child)
           below == [y \in DOMAIN info |-> IF y \in ToSet(child)
                                           THEN [info[y] EXCEPT !.parent = x] ELSE info[y]]
<1>1. /\ op.pc = "reorg" /\ fault = "none" /\ op.line = <<>> /\ n > op.fork
      /\ CanAllocate(info)
      /\ info' = Put(below, x, orphan)
      /\ op' = [op EXCEPT !.orphans = <<x>> \o @]
      /\ search_root' = tdelete(search_root, last.hash)
      /\ db' = on_remove_block(db, last.hash)
      /\ heirs' = Front(heirs)
      /\ UNCHANGED <<list_root, longest_end, fault>>
  BY DEF AbandonChild
<1>2. /\ NodesOK(info, Heads) /\ RootOK(info, list_root) /\ HeadsLead(info, Heads, op)
      /\ op \in OpType /\ op.chain \in Heads /\ op.fork >= 1
      /\ op.child \in Relatives \cup {Null}
      /\ op.line \in Seq(Relatives) /\ op.orphans \in Seq(Relatives)
      /\ LineOK(op, info) /\ Relatives \subseteq Ptr
  BY <1>1, ReorgFacts
<1>3. n \in Nat /\ n > 1
  <2>1. n \in Nat /\ op.fork \in Nat
    BY <1>2, LenProperties DEF IInv, MainInv, OpType
  <2> QED
    BY <1>1, <1>2, <2>1
<1>4. MainInv'
  BY <1>1, <1>3, ShorterMainChain DEF IInv
<1>5. last.hash \in Blocks /\ heirs[n - 1].hash = prev_hash[last.hash]
  BY <1>3 DEF IInv, MainInv, HeirsLinked, Last
<1>6. x \in Ptr /\ x \notin DOMAIN info /\ Null \notin Ptr
  BY <1>1, NewNode
<1>7. child \in Seq(Relatives)
  BY <1>2, EldestProps
<1>18. /\ KidsLinked(info, Relatives) /\ ReorgLinked(op, info, heirs)
       /\ Relatives \subseteq DOMAIN info /\ Null \notin Relatives
       /\ op.fork \in 1 .. n
  BY <1>1, ReorgFacts
<1>19. child \in Seq(Children(info, Relatives, last.hash))
  <2>1. op.orphans # <<>> => info[Head(op.orphans)].prev = last.hash
    BY <1>1, <1>18 DEF ReorgLinked, Last
  <2> QED
    BY <1>2, <2>1, EldestLinks
<1>20. last = heirs[n]
  BY DEF Last
<1> HIDE DEF x, child, last
<1>8. /\ orphan.hash = last.hash /\ orphan.prev = prev_hash[last.hash]
      /\ orphan.complete = FALSE /\ orphan.kids = child /\ DOMAIN orphan = Fields
  BY <1>5 DEF abandon_child, block_info, Fields
<1>9. /\ DOMAIN below = DOMAIN info
      /\ \A y \in DOMAIN info :
            /\ DOMAIN below[y] = Fields
            /\ below[y].hash = info[y].hash /\ below[y].prev = info[y].prev
            /\ below[y].complete = info[y].complete /\ below[y].kids = info[y].kids
  BY <1>2 DEF NodesOK, Fields
<1> HIDE DEF orphan, below
<1>10. /\ DOMAIN info' = DOMAIN info \cup {x} /\ info'[x] = orphan
       /\ \A y \in DOMAIN info : info'[y] = below[y]
  BY <1>1, <1>6, <1>9 DEF Put
<1>11. Heads' = Heads /\ Relatives' = Relatives \cup {x} /\ Heads \subseteq DOMAIN info
  BY <1>1, <1>2, <1>6, <1>10 DEF Heads, Relatives, NodesOK
<1>12. NodesOK(info', Heads')
  <2>1. DOMAIN info' \ Heads' = Relatives'
    BY DEF Relatives
  <2>2. \A y \in DOMAIN info' : DOMAIN info'[y] = Fields /\ info'[y].kids \in Seq(Relatives')
    <3>1. \A s \in Seq(Relatives) : s \in Seq(Relatives')
      BY <1>11, SeqMonotonic
    <3> QED
      BY <1>2, <1>7, <1>8, <1>9, <1>10, <3>1 DEF NodesOK, Relatives
  <2>3. \A y \in Relatives' : /\ info'[y].hash \in Blocks
                              /\ info'[y].prev = prev_hash[info'[y].hash]
                              /\ info'[y].complete \in BOOLEAN
    <3>1. \A y \in Relatives : /\ info[y].hash \in Blocks
                               /\ info[y].prev = prev_hash[info[y].hash]
                               /\ info[y].complete \in BOOLEAN
                               /\ y \in DOMAIN info
      BY <1>2 DEF NodesOK, Relatives
    <3>2. \A y \in Relatives : /\ info'[y].hash = info[y].hash
                               /\ info'[y].prev = info[y].prev
                               /\ info'[y].complete = info[y].complete
      BY <1>9, <1>10, <3>1
    <3>3. /\ info'[x].hash \in Blocks /\ info'[x].prev = prev_hash[info'[x].hash]
          /\ info'[x].complete \in BOOLEAN
      BY <1>5, <1>8, <1>10
    <3> QED
      BY ONLY <1>11, <3>1, <3>2, <3>3
  <2> QED
    BY <1>2, <1>6, <1>10, <1>11, <2>1, <2>2, <2>3 DEF NodesOK
<1>13. RootOK(info', list_root')
  BY <1>1, <1>2, <1>9, <1>10 DEF RootOK
<1>14. /\ op' \in OpType /\ op'.pc = "reorg" /\ op'.chain = op.chain /\ op'.fork = op.fork
       /\ op'.child = op.child /\ op'.line = op.line /\ op'.orphans = <<x>> \o op.orphans
       /\ op'.orphans \in Seq(Relatives')
  <2>1. <<x>> \in Seq(Relatives') /\ <<x>> \in Seq(Ptr)
    BY <1>6, <1>11
  <2>2. op.orphans \in Seq(Relatives') /\ op.orphans \in Seq(Ptr)
    BY <1>2, <1>11, SeqMonotonic
  <2>3. <<x>> \o op.orphans \in Seq(Relatives') /\ <<x>> \o op.orphans \in Seq(Ptr)
    BY <2>1, <2>2, ConcatProperties
  <2> QED
    BY <1>1, <1>2, <2>3 DEF OpType
<1>15. HeadsLead(info', Heads', op')
  BY <1>1, <1>2, <1>9, <1>10, <1>11, <1>14 DEF HeadsLead
<1>16. OpOK(op', Relatives', Heads')
  <2>1. op.line \in Seq(Relatives')
    BY <1>2, <1>11, SeqMonotonic
  <2> QED
    BY <1>2, <1>11, <1>14, <2>1 DEF OpOK
<1>17. LineOK(op', info')
  <2>1. \A i \in 1 .. Len(op.line) : op.line[i] \in DOMAIN info
    BY <1>2, ElementOfSeq DEF Relatives
  <2> QED
    BY <1>1, <1>2, <1>9, <1>10, <1>14, <2>1 DEF LineOK
<1>21. KidsLinked(info', Relatives')
  <2>1. \A y \in Relatives : info'[y].prev = info[y].prev
    BY <1>9, <1>10, <1>18
  <2>2. \A h : \A s \in Seq(Children(info, Relatives, h)) : s \in Seq(Children(info', Relatives', h))
    BY <1>11, <2>1, ChildrenGrow
  <2> QED
    BY <1>8, <1>9, <1>10, <1>18, <1>19, <2>2 DEF KidsLinked
<1>22. ReorgLinked(op', info', heirs')
  <2>1. heirs' \in Seq(Heir) /\ Len(heirs') = n - 1 /\ \A i \in 1 .. n - 1 : heirs'[i] = heirs[i]
    BY <1>1, <1>3, FrontProps, EmptySeq DEF IInv, MainInv, HeirsLinked
  <2>2. op.fork \in 1 .. n - 1 /\ n - 1 \in 1 .. n - 1 /\ Len(op.line) = 0
        /\ op.fork + Len(op.line) = op.fork
    BY <1>1, <1>3, <1>18
  <2>3. op.child # Null /\ op.child \in Relatives
    BY <1>1, <1>2, <1>18 DEF ReorgLinked
  <2>4. /\ info[op.chain].hash = heirs[op.fork].hash
        /\ info[op.child].prev = heirs[op.fork].hash
    BY <1>1, <1>18, <2>2, <2>3 DEF ReorgLinked
  <2>5. info'[op.chain].hash = info[op.chain].hash /\ info'[op.child].prev = info[op.child].prev
    BY <1>2, <1>9, <1>10, <1>18, <2>3 DEF NodesOK
  <2>6. op'.orphans # <<>> /\ Head(op'.orphans) = x
    <3>1. <<x>> \o op.orphans # <<>> /\ Head(<<x>> \o op.orphans) = x
      <4>1. <<x>> \in Seq(Ptr) /\ op.orphans \in Seq(Ptr) /\ Len(<<x>>) = 1 /\ <<x>>[1] = x
        BY <1>2, <1>6 DEF OpType
      <4>2. Len(op.orphans) \in Nat
        BY <4>1, LenProperties
      <4>3. /\ <<x>> \o op.orphans \in Seq(Ptr) /\ Len(<<x>> \o op.orphans) = 1 + Len(op.orphans)
            /\ (<<x>> \o op.orphans)[1] = x
        BY <4>1, <4>2, ConcatProperties
      <4> QED
        BY <4>2, <4>3, EmptySeq, HeadTailProperties
    <3> QED
      BY <1>14, <3>1
  <2>7. info'[x].prev = heirs'[n - 1].hash
    BY <1>5, <1>8, <1>10, <2>1, <2>2
  <2>8. op'.line = <<>> /\ Len(op'.line) = 0 /\ op'.fork = op.fork /\ op'.fork + Len(op'.line) = op.fork
        /\ op'.child = op.child /\ op'.chain = op.chain
    BY <1>1, <1>14, <2>2
  <2>9. heirs'[op.fork] = heirs[op.fork] /\ op.fork <= Len(heirs')
    BY <1>3, <2>1, <2>2
  <2> QED
    BY <2>1, <2>3, <2>4, <2>5, <2>6, <2>7, <2>8, <2>9 DEF ReorgLinked
<1>23. AllKnown(heirs', info', Relatives', accepted')
  <2>1. AllKnown(heirs, info, Relatives, accepted) /\ accepted' = accepted
    BY <1>1 DEF IInv, ListInv, AbandonChild
  <2>2. Len(heirs') = n - 1 /\ \A i \in 1 .. n - 1 : heirs'[i] = heirs[i]
    BY <1>1, <1>3, FrontProps, EmptySeq DEF IInv, MainInv, HeirsLinked
  <2>3. n \in 2 .. n /\ \A i \in 2 .. n - 1 : i \in 2 .. n /\ i \in 1 .. n - 1
    BY <1>3
  <2>4. last.hash \in accepted
    BY <1>20, <2>1, <2>3 DEF AllKnown
  <2>5. \A i \in 2 .. Len(heirs') : heirs'[i].hash \in accepted
    BY <2>1, <2>2, <2>3 DEF AllKnown
  <2>6. \A y \in Relatives : info'[y].hash = info[y].hash
    BY <1>9, <1>10, <1>18
  <2>7. info'[x].hash = last.hash
    BY <1>8, <1>10
  <2> QED
    BY <1>11, <2>1, <2>4, <2>5, <2>6, <2>7 DEF AllKnown
<1> QED
  BY <1>1, <1>4, <1>12, <1>13, <1>15, <1>16, <1>17, <1>21, <1>22, <1>23 DEF IInv, ListInv

\* The asserts of add_heir(): the child's header names the last heir, and the
\* child is not an heir, because no heir names the last one as its parent.
LEMMA HeirFits ==
    ASSUME IInv, fault = "none", op.pc = "reorg", op.child # Null,
           Len(heirs) = op.fork + Len(op.line)
    PROVE  info[op.child].prev = Last(heirs).hash /\ info[op.child].hash \notin DOMAIN search_root
<1> DEFINE node == info[op.child]
           n == Len(heirs)
<1>1. NodesOK(info, Heads) /\ op.child \in Relatives /\ ReorgLinked(op, info, heirs) /\ n \in Nat
  BY ReorgFacts
<1>2. node.prev = heirs[n].hash
  BY <1>1 DEF ReorgLinked
<1>3. node.hash \in Blocks /\ node.prev = prev_hash[node.hash]
  BY <1>1 DEF NodesOK, Relatives
<1>4. /\ DOMAIN heirs = 1 .. n /\ heirs # <<>> /\ heirs[1].hash = Genesis /\ n >= 1
      /\ \A i \in 2 .. n : prev_hash[heirs[i].hash] = heirs[i - 1].hash
  BY LenProperties, EmptySeq DEF IInv, MainInv, HeirsLinked
<1>5. /\ DOMAIN search_root = {heirs[i].hash : i \in 1 .. n}
      /\ \A i, j \in 1 .. n : heirs[i].hash = heirs[j].hash => i = j
  BY <1>4 DEF IInv, MainInv, SearchRootExact
<1> HIDE DEF node, n
<1>6. ASSUME NEW j \in 1 .. n, node.hash = heirs[j].hash PROVE FALSE
  <2>1. j # 1
    BY <1>3, <1>4, <1>6, HeadersAssumption
  <2>2. j \in 2 .. n /\ j - 1 \in 1 .. n /\ j - 1 # n /\ n \in 1 .. n
    BY <1>1, <1>4, <2>1
  <2>3. heirs[j - 1].hash = heirs[n].hash
    BY <1>2, <1>3, <1>4, <1>6, <2>2
  <2> QED
    BY <1>5, <2>2, <2>3
<1>7. node.hash \notin DOMAIN search_root
  BY <1>5, <1>6
<1> QED
  BY <1>2, <1>7 DEF node, n, Last

\* AddHeir keeps the invariant: the child is a node with a header, and its first
\* child is another one.
LEMMA AddHeirStep ==
    ASSUME IInv, AddHeir
    PROVE  IInv'
<1> DEFINE node == info[op.child]
<1>1. /\ op.pc = "reorg" /\ fault = "none" /\ op.child # Null
      /\ Len(heirs) = op.fork + Len(op.line)
  BY DEF AddHeir
<1>2. /\ NodesOK(info, Heads) /\ RootOK(info, list_root) /\ HeadsLead(info, Heads, op)
      /\ op \in OpType /\ op.chain \in Heads /\ op.fork >= 1
      /\ op.child \in Relatives
      /\ op.line \in Seq(Relatives) /\ op.orphans \in Seq(Relatives)
      /\ LineOK(op, info) /\ Relatives \subseteq Ptr
  BY <1>1, ReorgFacts
<1>3. /\ KidsLinked(info, Relatives) /\ ReorgLinked(op, info, heirs)
      /\ op.fork \in 1 .. Len(heirs) /\ Len(heirs) \in Nat /\ Len(op.line) \in Nat
      /\ Relatives \subseteq DOMAIN info /\ Null \notin Relatives
  BY <1>1, ReorgFacts
<1>4. node.prev = Last(heirs).hash /\ node.hash \notin DOMAIN search_root
  BY <1>1, HeirFits
<1>5. IInv'
  <2> DEFINE next == IF node.kids = <<>> THEN Null ELSE Head(node.kids)
  <2>1. /\ heirs' = Append(heirs, new_heir(Last(heirs), node))
        /\ search_root' = tsearch(search_root, node.hash, Len(heirs) + 1)
        /\ db' = on_add_block(db, node, Len(heirs))
        /\ op' = [op EXCEPT !.line = Append(@, op.child), !.child = next]
        /\ UNCHANGED <<listVars, fault>>
    BY <1>4 DEF AddHeir
  <2>2. /\ node.hash \in Blocks /\ node.prev = prev_hash[node.hash]
        /\ node.complete \in BOOLEAN /\ node.kids \in Seq(Relatives)
    BY <1>2 DEF NodesOK, Relatives
  <2>3. MainInv'
    <3> HIDE DEF node
    <3> QED
      BY <1>4, <2>1, <2>2, LongerMainChain DEF IInv
  <2>4. UNCHANGED <<info, list_root, longest_end>>
    BY <2>1 DEF listVars
  <2>5. Heads' = Heads /\ Relatives' = Relatives
    BY <2>4 DEF Heads, Relatives
  <2>6. next \in Relatives \cup {Null} /\ (next # Null => node.kids # <<>>)
    BY <2>2, HeadTailProperties
  <2> HIDE DEF next
  <2>7. /\ Append(op.line, op.child) \in Seq(Relatives)
        /\ Append(op.line, op.child) \in Seq(Ptr)
        /\ Len(Append(op.line, op.child)) = Len(op.line) + 1
        /\ \A i \in 1 .. Len(op.line) : Append(op.line, op.child)[i] = op.line[i]
        /\ Append(op.line, op.child)[Len(op.line) + 1] = op.child
        /\ Len(op.line) \in Nat
    <3>1. Append(op.line, op.child) \in Seq(Relatives)
      BY <1>2, AppendProperties
    <3> QED
      BY <1>2, <3>1, AppendProperties, SeqMonotonic, LenProperties
  <2>8. /\ op' \in OpType /\ op'.pc = "reorg" /\ op'.chain = op.chain /\ op'.fork = op.fork
        /\ op'.child = next /\ op'.line = Append(op.line, op.child) /\ op'.orphans = op.orphans
    BY <1>1, <1>2, <2>1, <2>6, <2>7 DEF OpType
  <2>9. OpOK(op', Relatives', Heads')
    BY <1>2, <2>5, <2>6, <2>7, <2>8 DEF OpOK
  <2>10. LineOK(op', info')
    <3> SUFFICES ASSUME NEW i \in 1 .. Len(op'.line), i < Len(op'.line) \/ op'.child # Null
                 PROVE  info'[op'.line[i]].kids # <<>>
      BY DEF LineOK
    <3>1. CASE i = Len(op.line) + 1
      BY <3>1, <2>4, <2>6, <2>7, <2>8
    <3>2. CASE i # Len(op.line) + 1
      <4>1. i \in 1 .. Len(op.line) /\ op'.line[i] = op.line[i]
        BY <3>2, <2>7, <2>8
      <4> QED
        BY <1>1, <1>2, <2>4, <4>1 DEF LineOK
    <3> QED
      BY <3>1, <3>2
  <2>11. HeadsLead(info', Heads', op')
    BY <1>1, <1>2, <2>4, <2>5, <2>8 DEF HeadsLead
  <2>12. NodesOK(info', Heads') /\ RootOK(info', list_root')
    BY <1>2, <2>4, <2>5
  <2>13. KidsLinked(info', Relatives')
    BY <1>3, <2>4, <2>5
  <2>14. ReorgLinked(op', info', heirs')
    <3> DEFINE n == Len(heirs)
    <3>1. heirs \in Seq(Heir) /\ Last(heirs) = heirs[n] /\ n \in 1 .. n
      BY <1>3 DEF IInv, MainInv, Last
    <3>2. new_heir(Last(heirs), node) \in Heir /\ new_heir(Last(heirs), node).hash = node.hash
      <4>1. heirs[n] \in Heir
        BY <3>1, ElementOfSeq
      <4> QED
        BY <2>2, <3>1, <4>1, HeadersAssumption DEF new_heir, Heir, Hashes
    <3>3. /\ Len(heirs') = n + 1 /\ heirs'[n + 1].hash = node.hash
          /\ \A i \in 1 .. n : heirs'[i] = heirs[i]
      <4> HIDE DEF node
      <4> QED
        BY <2>1, <3>1, <3>2, AppendProperties
    <3>4. next # Null => info[next].prev = node.hash
      <4>1. node.kids \in Seq(Children(info, Relatives, node.hash))
        BY <1>2, <1>3 DEF KidsLinked
      <4>2. next # Null => node.kids # <<>> /\ next = Head(node.kids)
        BY DEF next
      <4>3. next # Null => next \in Children(info, Relatives, node.hash)
        BY <4>1, <4>2, HeadTailProperties
      <4> QED
        BY <4>3 DEF Children
    <3>5. ASSUME NEW i \in 1 .. Len(op.line) + 1
          PROVE  info[op'.line[i]].hash = heirs'[op.fork + i].hash
      <4>1. CASE i = Len(op.line) + 1
        <5>1. op.fork + i = n + 1
          BY <1>1, <1>3, <4>1
        <5> QED
          BY <2>7, <2>8, <3>3, <4>1, <5>1
      <4>2. CASE i # Len(op.line) + 1
        <5>1. i \in 1 .. Len(op.line) /\ op.fork + i \in 1 .. n
          BY <1>1, <1>3, <4>2
        <5> QED
          BY <1>1, <1>3, <2>7, <2>8, <3>3, <5>1 DEF ReorgLinked
      <4> QED
        BY <4>1, <4>2
    <3>6. op.orphans # <<>> => info[Head(op.orphans)].prev = heirs[op.fork].hash
      <4>1. op.line = <<>> => Len(heirs) = op.fork
        BY <1>1, <1>3
      <4> QED
        BY <1>1, <1>3, <4>1 DEF ReorgLinked
    <3>7. op'.line # <<>> /\ Len(op'.line) = Len(op.line) + 1 /\ op'.fork + Len(op'.line) = n + 1
          /\ op'.fork <= Len(heirs') /\ heirs'[op.fork] = heirs[op.fork]
      <4> DEFINE m == Len(op.line)
                 f == op.fork
      <4>1. m \in Nat /\ f \in 1 .. n /\ n \in Nat /\ n = f + m
        BY <1>1, <1>3
      <4>2. Len(op'.line) = m + 1 /\ op'.fork = f
        BY <2>7, <2>8
      <4>3. op'.line # <<>>
        BY <4>1, <4>2, EmptySeq
      <4>4. heirs'[f] = heirs[f] /\ Len(heirs') = n + 1
        BY <3>3, <4>1
      <4> HIDE DEF m, f, n
      <4>5. f + (m + 1) = n + 1 /\ f <= n + 1
        BY <4>1
      <4> QED
        BY <4>2, <4>3, <4>4, <4>5 DEF m, f
    <3>8. info[op.chain].hash = heirs[op.fork].hash
      BY <1>1, <1>3 DEF ReorgLinked
    <3> HIDE DEF node, n
    <3> QED
      BY <2>4, <2>8, <3>3, <3>4, <3>5, <3>6, <3>7, <3>8 DEF ReorgLinked
  <2>15. AllKnown(heirs', info', Relatives', accepted')
    <3>1. AllKnown(heirs, info, Relatives, accepted)
      BY <1>1 DEF IInv, ListInv
    <3>2. accepted' = accepted
      BY <1>4 DEF AddHeir
    <3>3. node.hash \in accepted
      BY <1>2, <3>1 DEF AllKnown
    <3>4. new_heir(Last(heirs), node).hash = node.hash
      BY DEF new_heir
    <3>5. \A i \in 2 .. Len(heirs') : heirs'[i].hash \in accepted
      <4> DEFINE n == Len(heirs)
                 new == new_heir(Last(heirs), node)
      <4>1. heirs \in Seq(Heir) /\ heirs' = Append(heirs, new) /\ n \in Nat
        BY <1>3, <2>1 DEF IInv, MainInv
      <4>2. new.hash \in accepted
        BY <3>3, <3>4
      <4> HIDE DEF new, n
      <4>3. Len(heirs') = n + 1 /\ heirs'[n + 1] = new /\ \A i \in 1 .. n : heirs'[i] = heirs[i]
        BY <4>1, AppendProperties DEF n
      <4>4. \A i \in 2 .. n + 1 : i = n + 1 \/ (i \in 2 .. n /\ i \in 1 .. n)
        BY <4>1
      <4> QED
        BY <3>1, <4>2, <4>3, <4>4 DEF AllKnown, n
    <3> QED
      BY <2>4, <2>5, <3>1, <3>2, <3>5 DEF AllKnown
  <2> QED
    BY <2>1, <2>3, <2>9, <2>10, <2>11, <2>12, <2>13, <2>14, <2>15 DEF IInv, ListInv
<1> QED
  BY <1>5

\* LeaveChain keeps the invariant: only the head of the chain that won may be
\* without a child afterwards, and what enters the search tree is live.
LEMMA LeaveChainStep ==
    ASSUME IInv, LeaveChain
    PROVE  IInv'
<1> DEFINE leaving == leaving_hashes(info, op.line)
           staying == Without(list_root, leaving)
           entering == {info[x].hash : x \in ToSet(op.orphans)}
           c == op.chain
           kids == replace_first(info[c].kids, op.orphans)
<1>1. /\ op.pc = "reorg" /\ fault = "none" /\ op.child = Null
  BY DEF LeaveChain
<1>2. /\ NodesOK(info, Heads) /\ RootOK(info, list_root) /\ HeadsLead(info, Heads, op)
      /\ op \in OpType /\ c \in Heads /\ op.fork >= 1
      /\ op.line \in Seq(Relatives) /\ op.orphans \in Seq(Relatives)
      /\ LineOK(op, info) /\ Relatives \subseteq Ptr
  BY <1>1, ReorgFacts
<1>3. CASE ~(leaving \subseteq DOMAIN list_root)
  <2>1. fault' = "assert" /\ UNCHANGED mainVars
    BY <1>3 DEF LeaveChain, Fail
  <2> QED
    BY <2>1, MainUnchanged DEF IInv
<1>4. CASE leaving \subseteq DOMAIN list_root
  <2>1. /\ list_root' = search_tree_traverse_BFS(staying, info, op.orphans)
        /\ info' = [info EXCEPT ![c].kids = kids]
        /\ op' = [op EXCEPT !.pc = "siblings", !.level = 2]
        /\ UNCHANGED <<mainVars, longest_end, fault>>
    BY <1>4 DEF LeaveChain
  <2>2. c \in DOMAIN info /\ info[c].kids \in Seq(Relatives) /\ info[c].kids # <<>>
    BY <1>1, <1>2 DEF NodesOK, HeadsLead, Relatives
  <2>3. kids \in Seq(Relatives)
    <3>1. eldest(op.orphans) \in Seq(Relatives) /\ Tail(info[c].kids) \in Seq(Relatives)
      BY <1>2, <2>2, EldestProps, HeadTailProperties
    <3> QED
      BY <3>1, ConcatProperties DEF replace_first
  <2> HIDE DEF kids
  <2>4. /\ DOMAIN info' = DOMAIN info
        /\ \A y \in DOMAIN info :
              /\ DOMAIN info'[y] = Fields
              /\ info'[y].hash = info[y].hash /\ info'[y].prev = info[y].prev
              /\ info'[y].complete = info[y].complete
              /\ info'[y].kids = IF y = c THEN kids ELSE info[y].kids
    BY <1>2, <2>1, <2>2 DEF NodesOK, Fields
  <2>5. Heads' = Heads /\ Relatives' = Relatives
    BY <2>1, <2>4 DEF Heads, Relatives
  <2>6. NodesOK(info', Heads')
    BY <1>2, <2>3, <2>4, <2>5 DEF NodesOK, Relatives
  <2>7. RootOK(info', list_root')
    <3> SUFFICES ASSUME NEW h \in DOMAIN list_root'
                 PROVE  list_root'[h] \in DOMAIN info /\ info[list_root'[h]].hash = h
      BY <2>4 DEF RootOK
    <3>1. CASE h \in DOMAIN staying
      <4>1. h \in DOMAIN list_root /\ list_root'[h] = list_root[h]
        BY <2>1, <3>1 DEF Without, search_tree_traverse_BFS
      <4> QED
        BY <4>1, <1>2 DEF RootOK
    <3>2. CASE h \notin DOMAIN staying
      <4>1. h \in entering /\ list_root'[h] = CHOOSE x \in ToSet(op.orphans) : info[x].hash = h
        BY <2>1, <3>2 DEF search_tree_traverse_BFS
      <4>2. list_root'[h] \in ToSet(op.orphans) /\ info[list_root'[h]].hash = h
        BY <4>1
      <4> QED
        BY <4>2, <1>2, ToSetProps DEF Relatives
    <3> QED
      BY <3>1, <3>2
  <2>8. /\ op' \in OpType /\ op'.pc = "siblings" /\ op'.chain = c /\ op'.fork = op.fork
        /\ op'.child = Null /\ op'.line = op.line /\ op'.orphans = op.orphans /\ op'.level = 2
    BY <1>1, <1>2, <2>1 DEF OpType
  <2>9. OpOK(op', Relatives', Heads')
    BY <1>2, <2>5, <2>8 DEF OpOK
  <2>10. LineOK(op', info')
    <3>1. \A i \in 1 .. Len(op.line) : op.line[i] \in DOMAIN info /\ op.line[i] # c
      BY <1>2, ElementOfSeq DEF Relatives
    <3> QED
      BY <1>1, <1>2, <2>4, <2>8, <3>1 DEF LineOK
  <2>11. HeadsLead(info', Heads', op')
    BY <1>1, <1>2, <2>4, <2>5, <2>8 DEF HeadsLead, NodesOK
  <2>12. KidsLinked(info', Relatives')
    <3>1. KidsLinked(info, Relatives) /\ ReorgLinked(op, info, heirs) /\ Relatives \subseteq DOMAIN info
      BY <1>1, ReorgFacts
    <3>2. op.orphans # <<>> => info[Head(op.orphans)].prev = info[c].hash
      BY <1>1, <3>1 DEF ReorgLinked
    <3>3. eldest(op.orphans) \in Seq(Children(info, Relatives, info[c].hash))
      BY <1>2, <3>2, EldestLinks
    <3>4. Tail(info[c].kids) \in Seq(Children(info, Relatives, info[c].hash))
      BY <2>2, <3>1, HeadTailProperties DEF KidsLinked
    <3>5. kids \in Seq(Children(info, Relatives, info[c].hash))
      BY <3>3, <3>4, ConcatProperties DEF kids, replace_first
    <3>6. \A h : \A s \in Seq(Children(info, Relatives, h)) : s \in Seq(Children(info', Relatives', h))
      BY <2>4, <2>5, <3>1, ChildrenGrow
    <3> HIDE DEF c
    <3> QED
      BY <2>4, <3>1, <3>5, <3>6 DEF KidsLinked
  <2>13. ReorgLinked(op', info', heirs')
    <3>1. ReorgLinked(op, info, heirs) /\ heirs' = heirs
      BY <1>1, <2>1, ReorgFacts DEF mainVars
    <3>2. \A i \in 1 .. Len(op.line) : op.line[i] \in DOMAIN info
      BY <1>2, ElementOfSeq DEF Relatives
    <3>3. op.orphans # <<>> => Head(op.orphans) \in DOMAIN info
      BY <1>2, HeadTailProperties DEF Relatives
    <3> QED
      BY <1>1, <2>2, <2>4, <2>8, <3>1, <3>2, <3>3 DEF ReorgLinked
  <2>14. AllKnown(heirs', info', Relatives', accepted')
    <3>1. AllKnown(heirs, info, Relatives, accepted) /\ Relatives \subseteq DOMAIN info
      BY <1>1 DEF IInv, ListInv, Relatives
    <3>2. accepted' = accepted
      BY <1>4 DEF LeaveChain
    <3> QED
      BY <2>1, <2>4, <2>5, <3>1, <3>2 DEF AllKnown, mainVars
  <2> QED
    BY <2>1, <2>6, <2>7, <2>9, <2>10, <2>11, <2>12, <2>13, <2>14, MainUnchanged DEF IInv, ListInv
<1> QED
  BY <1>3, <1>4

\* AbandonSiblings keeps the invariant: the siblings given away get a head that
\* has them as its children.
LEMMA AbandonSiblingsStep ==
    ASSUME IInv, AbandonSiblings
    PROVE  IInv'
<1> DEFINE elder == op.line[op.level - 1]
           siblings == Tail(info[elder].kids)
           c == new_node(info)
           leader == Head(siblings)
           younger == op.line[op.level]
           moved == [info EXCEPT ![elder].kids = <<younger>>, ![leader].parent = c]
           p == info[leader].prev
<1>1. /\ op.pc = "siblings" /\ fault = "none" /\ op.level <= Len(op.line) /\ CanAllocate(info)
      /\ op' = [op EXCEPT !.level = @ + 1]
      /\ UNCHANGED <<mainVars, fault>>
  BY DEF AbandonSiblings
<1>2. /\ NodesOK(info, Heads) /\ RootOK(info, list_root) /\ HeadsLead(info, Heads, op)
      /\ op \in OpType /\ op.chain \in Heads /\ op.fork >= 1
      /\ op.child \in Relatives \cup {Null}
      /\ op.line \in Seq(Relatives) /\ op.orphans \in Seq(Relatives)
      /\ LineOK(op, info) /\ Relatives \subseteq Ptr
  BY <1>1, ReorgFacts
<1>3. op.level \in Nat /\ op.level >= 2 /\ Len(op.line) \in Nat
  BY <1>1, <1>2, LenProperties DEF IInv, ListInv, OpOK, OpType
<1>4. op.level - 1 \in 1 .. Len(op.line) /\ op.level \in 1 .. Len(op.line)
      /\ op.level - 1 < Len(op.line)
  BY <1>1, <1>3
<1>5. elder \in Relatives /\ younger \in Relatives
  BY <1>2, <1>4, ElementOfSeq
<1>6. info[elder].kids \in Seq(Relatives) /\ info[elder].kids # <<>>
  BY <1>1, <1>2, <1>4, <1>5 DEF NodesOK, LineOK, Relatives
<1>7. siblings \in Seq(Relatives)
  BY <1>6, HeadTailProperties
<1>8. /\ op' \in OpType /\ op'.pc = "siblings" /\ op'.chain = op.chain /\ op'.fork = op.fork
      /\ op'.child = op.child /\ op'.line = op.line /\ op'.orphans = op.orphans
      /\ op'.level >= 2
  <2>1. op' = [op EXCEPT !.level = op.level + 1] /\ op.level + 1 \in Nat /\ op.level + 1 >= 2
    BY <1>1, <1>3
  <2> QED
    BY <1>1, <1>2, <2>1 DEF OpType
<1>11. /\ KidsLinked(info, Relatives) /\ ReorgLinked(op, info, heirs)
       /\ Relatives \subseteq DOMAIN info /\ heirs' = heirs
       /\ op.fork \in 1 .. Len(heirs) /\ Len(heirs) \in Nat
  BY <1>1, ReorgFacts DEF mainVars
<1>12. info[younger].prev = info[elder].hash
  <2>1. Len(heirs) = op.fork + Len(op.line)
    BY <1>1, <1>3, <1>4, <1>11 DEF ReorgLinked
  <2>2. /\ op.fork + op.level \in 2 .. Len(heirs)
        /\ (op.fork + op.level) - 1 = op.fork + (op.level - 1)
    BY <1>1, <1>3, <1>11, <2>1
  <2>3. PICK i \in 2 .. Len(heirs) : i = op.fork + op.level /\ i - 1 = op.fork + (op.level - 1)
    BY <2>2
  <2>4. info[younger].hash = heirs[i].hash /\ info[elder].hash = heirs[i - 1].hash
    BY <1>1, <1>4, <1>11, <2>3 DEF ReorgLinked
  <2>5. prev_hash[heirs[i].hash] = heirs[i - 1].hash
    BY DEF IInv, MainInv, HeirsLinked
  <2>6. info[younger].prev = prev_hash[info[younger].hash]
    BY <1>2, <1>5 DEF NodesOK, Relatives
  <2> QED
    BY <2>4, <2>5, <2>6
<1>9. CASE siblings = <<>>
  <2>1. UNCHANGED <<info, list_root, longest_end>>
    BY <1>9 DEF AbandonSiblings, listVars
  <2>2. Heads' = Heads /\ Relatives' = Relatives
    BY <2>1 DEF Heads, Relatives
  <2>3. NodesOK(info', Heads') /\ RootOK(info', list_root')
    BY <1>2, <2>1, <2>2
  <2>4. HeadsLead(info', Heads', op')
    BY <1>1, <1>2, <1>8, <2>1, <2>2 DEF HeadsLead
  <2>5. OpOK(op', Relatives', Heads')
    BY <1>2, <1>8, <2>2 DEF OpOK
  <2>6. LineOK(op', info')
    BY <1>1, <1>2, <1>8, <2>1 DEF LineOK
  <2>7. KidsLinked(info', Relatives') /\ ReorgLinked(op', info', heirs')
    BY <1>1, <1>8, <1>11, <2>1, <2>2 DEF ReorgLinked
  <2>8. AllKnown(heirs', info', Relatives', accepted')
    BY <1>1, <2>1, <2>2 DEF IInv, ListInv, AbandonSiblings, mainVars
  <2> QED
    BY <1>1, <2>3, <2>4, <2>5, <2>6, <2>7, <2>8, MainUnchanged DEF IInv, ListInv
<1>10. CASE siblings # <<>>
  <2> DEFINE head == chain_head(p, siblings)
  <2>1. /\ info' = Put(moved, c, head)
        /\ list_root' = tsearch(list_root, p, c)
        /\ \E e : longest_end' = list_add(longest_end, c, e)
    BY <1>10 DEF AbandonSiblings
  <2>2. leader \in Relatives
    BY <1>7, <1>10, HeadTailProperties
  <2>3. c \in Ptr /\ c \notin DOMAIN info
    BY <1>1, NewNode
  <2>4. elder \in DOMAIN info /\ leader \in DOMAIN info
    BY <1>5, <2>2 DEF Relatives
  <2>15. siblings \in Seq(Children(info, Relatives, info[elder].hash))
    BY <1>6, <1>11, <2>4, HeadTailProperties DEF KidsLinked
  <2>16. p = info[elder].hash
    <3>1. leader \in Children(info, Relatives, info[elder].hash)
      BY <1>10, <2>15, HeadTailProperties
    <3> QED
      BY <3>1 DEF Children
  <2> HIDE DEF elder, siblings, c, leader, younger, p
  <2>5. head.hash = p /\ head.kids = siblings /\ DOMAIN head = Fields
    BY DEF chain_head, block_info, Fields
  <2>6. <<younger>> \in Seq(Relatives) /\ <<younger>> # <<>>
    BY <1>5
  <2>7. /\ DOMAIN moved = DOMAIN info
        /\ \A y \in DOMAIN info :
              /\ DOMAIN moved[y] = Fields
              /\ moved[y].hash = info[y].hash /\ moved[y].prev = info[y].prev
              /\ moved[y].complete = info[y].complete
              /\ moved[y].kids = IF y = elder THEN <<younger>> ELSE info[y].kids
    BY <1>2, <2>4 DEF NodesOK, Fields
  <2> HIDE DEF moved, head
  <2>8. /\ DOMAIN info' = DOMAIN info \cup {c} /\ info'[c] = head
        /\ \A y \in DOMAIN info : info'[y] = moved[y]
    BY <2>1, <2>3, <2>7 DEF Put
  <2>9. /\ Heads' = Heads \cup {c} /\ Relatives' = Relatives
        /\ Heads \subseteq DOMAIN info
        /\ DOMAIN info' \ Heads' = Relatives
    BY <1>2, <2>1, <2>3, <2>8 DEF Heads, Relatives, NodesOK, list_add, Put
  <2>10. NodesOK(info', Heads')
    <3>1. \A y \in DOMAIN info' : DOMAIN info'[y] = Fields /\ info'[y].kids \in Seq(Relatives)
      BY <1>2, <1>7, <2>5, <2>6, <2>7, <2>8 DEF NodesOK, Relatives
    <3>2. \A y \in Relatives : /\ info'[y].hash \in Blocks
                               /\ info'[y].prev = prev_hash[info'[y].hash]
                               /\ info'[y].complete \in BOOLEAN
      BY <1>2, <2>7, <2>8 DEF NodesOK, Relatives
    <3>3. DOMAIN info' \subseteq Ptr /\ Heads' \subseteq DOMAIN info'
      BY <1>2, <2>3, <2>8, <2>9 DEF NodesOK
    <3> QED
      BY <2>9, <3>1, <3>2, <3>3 DEF NodesOK
  <2>11. RootOK(info', list_root')
    <3>1. \A h \in DOMAIN list_root : info'[list_root[h]].hash = h /\ list_root[h] \in DOMAIN info'
      BY <1>2, <2>7, <2>8 DEF RootOK
    <3> QED
      BY <2>1, <2>5, <2>8, <3>1 DEF RootOK, tsearch, Put
  <2>12. HeadsLead(info', Heads', op')
    <3>1. \A h \in Heads : h \in DOMAIN info /\ h # elder
      BY <1>5, <2>9 DEF Relatives, elder
    <3> QED
      BY <1>1, <1>2, <1>8, <1>10, <2>5, <2>7, <2>8, <2>9, <3>1 DEF HeadsLead
  <2>13. OpOK(op', Relatives', Heads')
    BY <1>2, <1>8, <2>9 DEF OpOK
  <2>14. LineOK(op', info')
    <3>1. \A i \in 1 .. Len(op.line) : op.line[i] \in DOMAIN info
      BY <1>2, ElementOfSeq DEF Relatives
    <3>2. ASSUME NEW y \in DOMAIN info, info[y].kids # <<>>
          PROVE  info'[y].kids # <<>>
      BY <2>6, <2>7, <2>8, <3>2
    <3> QED
      BY <1>1, <1>2, <1>8, <3>1, <3>2 DEF LineOK
  <2>17. KidsLinked(info', Relatives')
    <3>1. \A h : \A s \in Seq(Children(info, Relatives, h)) : s \in Seq(Children(info', Relatives', h))
      BY <1>11, <2>7, <2>8, <2>9, ChildrenGrow
    <3>2. <<younger>> \in Seq(Children(info, Relatives, info[elder].hash))
      <4>1. younger \in Children(info, Relatives, info[elder].hash)
        BY <1>5, <1>12 DEF Children, younger
      <4> QED
        BY <4>1
    <3>3. ASSUME NEW y \in DOMAIN info'
          PROVE  info'[y].kids \in Seq(Children(info', Relatives', info'[y].hash))
      <4>1. CASE y = c
        BY <2>5, <2>8, <2>15, <2>16, <3>1, <4>1
      <4>2. CASE y # c
        <5>1. y \in DOMAIN info /\ info'[y] = moved[y]
          BY <2>8, <4>2
        <5>2. info[y].kids \in Seq(Children(info, Relatives, info[y].hash))
          BY <1>11, <5>1 DEF KidsLinked
        <5>3. moved[y].hash = info[y].hash
              /\ (moved[y].kids = info[y].kids \/ (y = elder /\ moved[y].kids = <<younger>>))
          BY <2>7, <5>1
        <5> QED
          BY <3>1, <3>2, <5>1, <5>2, <5>3
      <4> QED
        BY <4>1, <4>2
    <3> QED
      BY <3>3 DEF KidsLinked
  <2>18. ReorgLinked(op', info', heirs')
    <3>1. \A i \in 1 .. Len(op.line) : op.line[i] \in DOMAIN info
      BY <1>2, ElementOfSeq DEF Relatives
    <3>2. op.orphans # <<>> => Head(op.orphans) \in DOMAIN info
      BY <1>2, HeadTailProperties DEF Relatives
    <3>3. op.chain \in DOMAIN info /\ (op.child # Null => op.child \in DOMAIN info)
      BY <1>2 DEF NodesOK, Relatives
    <3>4. \A y \in DOMAIN info : info'[y].hash = info[y].hash /\ info'[y].prev = info[y].prev
      BY <2>7, <2>8
    <3>5. /\ \A i \in 1 .. Len(op.line) : info'[op.line[i]].hash = info[op.line[i]].hash
          /\ info'[op.chain].hash = info[op.chain].hash
          /\ op.child # Null => info'[op.child].prev = info[op.child].prev
          /\ op.orphans # <<>> => info'[Head(op.orphans)].prev = info[Head(op.orphans)].prev
      BY <3>1, <3>2, <3>3, <3>4
    <3>6. op.pc \in {"reorg", "siblings"}
      BY <1>1
    <3>7. /\ op'.chain = op.chain /\ op'.fork = op.fork /\ op'.child = op.child
          /\ op'.line = op.line /\ op'.orphans = op.orphans /\ heirs' = heirs
      BY <1>8, <1>11
    <3> QED
      BY <1>11, <3>5, <3>6, <3>7 DEF ReorgLinked
  <2>19. AllKnown(heirs', info', Relatives', accepted')
    <3>1. AllKnown(heirs, info, Relatives, accepted) /\ Relatives \subseteq DOMAIN info
      BY <1>1 DEF IInv, ListInv, Relatives
    <3>2. accepted' = accepted
      BY DEF AbandonSiblings
    <3> QED
      BY <1>1, <2>7, <2>8, <2>9, <3>1, <3>2 DEF AllKnown, mainVars
  <2> QED
    BY <1>1, <2>10, <2>11, <2>12, <2>13, <2>14, <2>17, <2>18, <2>19, MainUnchanged DEF IInv, ListInv
<1> QED
  BY <1>9, <1>10

\* DestroySuccessor keeps the invariant: what it leaves does not point to what
\* it freed, or the step is a fault; a head without children goes too.
LEMMA DestroySuccessorStep ==
    ASSUME IInv, DestroySuccessor
    PROVE  IInv'
<1>1. op.pc = "siblings" /\ fault = "none" /\ op' = Idle /\ UNCHANGED mainVars
  BY DEF DestroySuccessor
<1>2. PICK gone, root :
         /\ info' = Without(info, gone)
         /\ list_root' = root
         /\ DOMAIN longest_end' = DOMAIN longest_end \ gone
         /\ fault' = IF Dangling(Without(info, gone), root) THEN "dangling" ELSE "none"
         /\ info[op.chain].kids = <<>> => op.chain \in gone
         /\ \E K : root = Without(list_root, K)
  BY DEF DestroySuccessor
<1>3. CASE fault' # "none"
  BY <1>1, <1>3, MainUnchanged DEF IInv
<1>4. CASE fault' = "none"
  <2>1. /\ NodesOK(info, Heads) /\ RootOK(info, list_root) /\ HeadsLead(info, Heads, op)
    BY <1>1, ReorgFacts
  <2>2. /\ DOMAIN info' = DOMAIN info \ gone
        /\ \A y \in DOMAIN info' : info'[y] = info[y]
    BY <1>2 DEF Without
  <2>3. ~Dangling(info', list_root')
    BY <1>2, <1>4
  <2>4. Heads' = Heads \ gone
    BY <1>2 DEF Heads
  <2>5. NodesOK(info', Heads')
    <3>1. DOMAIN info' \subseteq Ptr /\ Heads' \subseteq DOMAIN info'
      BY <2>1, <2>2, <2>4 DEF NodesOK
    <3>2. ASSUME NEW y \in DOMAIN info'
          PROVE  DOMAIN info'[y] = Fields /\ info'[y].kids \in Seq(DOMAIN info' \ Heads')
      <4>1. info[y].kids \in Seq(DOMAIN info \ Heads) /\ DOMAIN info[y] = Fields
        BY <2>1, <2>2 DEF NodesOK
      <4>2. \A k \in ToSet(info[y].kids) : k \in DOMAIN info'
        BY <2>2, <2>3 DEF Dangling
      <4>3. \A i \in 1 .. Len(info[y].kids) : info[y].kids[i] \in DOMAIN info' \ Heads'
        <5>1. ASSUME NEW i \in 1 .. Len(info[y].kids)
              PROVE  info[y].kids[i] \in DOMAIN info' \ Heads'
          <6>1. info[y].kids[i] \in DOMAIN info \ Heads
            BY <4>1, ElementOfSeq
          <6>2. info[y].kids[i] \in ToSet(info[y].kids)
            BY <4>1, LenProperties DEF ToSet
          <6> QED
            BY <2>4, <4>2, <6>1, <6>2
        <5> QED
          BY <5>1
      <4>4. info[y].kids \in [1 .. Len(info[y].kids) -> DOMAIN info' \ Heads']
            /\ Len(info[y].kids) \in Nat
        BY <4>1, <4>3, LenProperties
      <4>5. info[y].kids \in Seq(DOMAIN info' \ Heads')
        BY <4>4, SeqDef
      <4> QED
        BY <2>2, <4>1, <4>5
    <3>3. ASSUME NEW y \in DOMAIN info' \ Heads'
          PROVE  /\ info'[y].hash \in Blocks
                 /\ info'[y].prev = prev_hash[info'[y].hash]
                 /\ info'[y].complete \in BOOLEAN
      BY <2>1, <2>2, <2>4 DEF NodesOK
    <3> QED
      BY <3>1, <3>2, <3>3 DEF NodesOK
  <2>6. RootOK(info', list_root')
    <3> SUFFICES ASSUME NEW h \in DOMAIN list_root'
                 PROVE  list_root'[h] \in DOMAIN info' /\ info'[list_root'[h]].hash = h
      BY DEF RootOK
    <3>1. list_root'[h] \in DOMAIN info'
      BY <2>3 DEF Dangling
    <3>2. h \in DOMAIN list_root /\ list_root'[h] = list_root[h]
      BY <1>2 DEF Without
    <3> QED
      BY <2>1, <2>2, <3>1, <3>2 DEF RootOK
  <2>7. HeadsLead(info', Heads', op')
    BY <1>2, <2>1, <2>2, <2>4 DEF HeadsLead, NodesOK
  <2>8. OpOK(op', Relatives', Heads') /\ LineOK(op', info') /\ ReorgLinked(op', info', heirs')
    BY <1>1, FreshOp DEF OpOK, LineOK, ReorgLinked
  <2>9. KidsLinked(info', Relatives')
    <3> SUFFICES ASSUME NEW y \in DOMAIN info'
                 PROVE  info'[y].kids \in Seq(Children(info', Relatives', info'[y].hash))
      BY DEF KidsLinked
    <3> DEFINE k == info[y].kids
               C == Children(info', Relatives', info[y].hash)
    <3>1. info'[y] = info[y] /\ k \in Seq(Children(info, Relatives, info[y].hash))
      BY <1>1, <2>2, ReorgFacts DEF KidsLinked
    <3>2. k \in Seq(Relatives')
      BY <2>5, <3>1 DEF NodesOK, Relatives
    <3>3. \A i \in 1 .. Len(k) : k[i] \in C
      <4>1. \A i \in 1 .. Len(k) : k[i] \in Relatives' /\ k[i] \in Children(info, Relatives, info[y].hash)
        BY <3>1, <3>2, ElementOfSeq
      <4> QED
        BY <2>2, <4>1 DEF Children, Relatives
    <3>4. k \in [1 .. Len(k) -> C] /\ Len(k) \in Nat
      BY <3>1, <3>3, LenProperties
    <3>5. k \in Seq(C)
      <4> HIDE DEF k, C
      <4> QED
        BY <3>4, SeqDef
    <3> QED
      BY <3>1, <3>5
  <2>10. AllKnown(heirs', info', Relatives', accepted')
    <3>1. AllKnown(heirs, info, Relatives, accepted)
      BY <1>1 DEF IInv, ListInv
    <3>2. accepted' = accepted
      BY DEF DestroySuccessor
    <3> QED
      BY <1>1, <2>2, <2>4, <3>1, <3>2 DEF AllKnown, Relatives, mainVars
  <2> QED
    BY <1>1, <2>5, <2>6, <2>7, <2>8, <2>9, <2>10, MainUnchanged DEF IInv, ListInv
<1> QED
  BY <1>3, <1>4

-----------------------------------------------------------------------------
(* The theorems *)

\* A chain just initialised, whatever the database holds.
Fresh ==
    /\ heirs = <<[hash |-> Genesis, cd |-> difficulty[Genesis], complete |-> TRUE]>>
    /\ search_root = [h \in {Genesis} |-> 1]
    /\ info = [x \in {} |-> Null]
    /\ list_root = [h \in {} |-> Null]
    /\ longest_end = [x \in {} |-> Null]
    /\ op = Idle

\* blockchain_init() establishes the invariant.
LEMMA FreshInv == Fresh => IInv /\ Len(heirs) = 1
<1> SUFFICES ASSUME Fresh PROVE IInv /\ Len(heirs) = 1
  OBVIOUS
<1> DEFINE genesis == [hash |-> Genesis, cd |-> difficulty[Genesis], complete |-> TRUE]
<1>1. genesis \in Heir /\ genesis.hash = Genesis
  BY HeadersAssumption DEF Heir, Hashes
<1>2. heirs = <<genesis>> /\ Len(heirs) = 1 /\ heirs[1].hash = Genesis /\ heirs # <<>>
      /\ DOMAIN heirs = {1}
  BY DEF Fresh
<1> HIDE DEF genesis
<1>3. heirs \in Seq(Heir)
  BY <1>1, <1>2
<1>4. \A i \in 2 .. Len(heirs) : FALSE
  BY <1>2
<1>5. HeirsLinked /\ SearchRootExact
  BY <1>2, <1>4 DEF Fresh, HeirsLinked, SearchRootExact
<1>6. ListInv
  <2>1. DOMAIN info = {} /\ DOMAIN list_root = {} /\ Heads = {} /\ op = Idle
    BY DEF Fresh, Heads
  <2> QED
    BY <1>4, <2>1, FreshOp DEF ListInv, NodesOK, RootOK, HeadsLead, OpOK, LineOK, KidsLinked,
                         ReorgLinked, AllKnown, Relatives
<1> QED
  BY <1>2, <1>3, <1>5, <1>6 DEF IInv, MainInv

\* blockchain_init() on an empty database establishes both.
LEMMA InitInv == Init => IInv /\ StoreMirrorsHeirs
<1> SUFFICES ASSUME Init PROVE IInv /\ StoreMirrorsHeirs
  OBVIOUS
<1>1. IInv /\ Len(heirs) = 1
  BY FreshInv DEF Init, Fresh
<1>2. \A i \in 2 .. Len(heirs) : FALSE
  BY <1>1
<1> QED
  BY <1>1, <1>2 DEF Init, StoreMirrorsHeirs

\* Every step of blockchain_add() keeps the invariant.
LEMMA NextInv == IInv /\ [Next]_vars => IInv'
<1> SUFFICES ASSUME IInv, [Next]_vars PROVE IInv'
  OBVIOUS
<1>1. CASE UNCHANGED vars
  <2>1. UNCHANGED mainVars /\ UNCHANGED <<info, list_root, longest_end, op, fault, accepted>>
    BY <1>1 DEF vars, mainVars
  <2>2. Heads' = Heads /\ Relatives' = Relatives
    BY <2>1 DEF Heads, Relatives
  <2>3. ListInv' <=> ListInv
    BY <2>1, <2>2 DEF ListInv, mainVars
  <2> QED
    BY <2>1, <2>3, MainUnchanged DEF IInv
<1>2. ASSUME NEW b \in Blocks, Enrol(b) PROVE IInv'
  BY <1>2, EnrolStep
<1>3. ASSUME Step PROVE IInv'
  BY <1>3, RuleIIStep, RuleIIIStep, RuleIVStep, AbandonChildStep, AddHeirStep,
     LeaveChainStep, AbandonSiblingsStep, DestroySuccessorStep DEF Step
<1> QED
  BY <1>1, <1>2, <1>3 DEF Next, Ignore, Halted

\* The main chain, its search tree and the database change only by giving up
\* the last heir, with its entry and its record, and by taking a new one, a node
\* whose header names the last heir and which the search tree does not hold.
LEMMA MainSteps ==
    ASSUME IInv, [Next]_vars
    PROVE  \/ UNCHANGED mainVars
           \/ /\ Len(heirs) > 1 /\ heirs' = Front(heirs)
              /\ search_root' = tdelete(search_root, Last(heirs).hash)
              /\ db' = on_remove_block(db, Last(heirs).hash)
           \/ \E x \in Relatives :
                 /\ info[x].hash \in Blocks /\ info[x].prev = prev_hash[info[x].hash]
                 /\ info[x].complete \in BOOLEAN
                 /\ info[x].prev = Last(heirs).hash /\ info[x].hash \notin DOMAIN search_root
                 /\ heirs' = Append(heirs, new_heir(Last(heirs), info[x]))
                 /\ search_root' = tsearch(search_root, info[x].hash, Len(heirs) + 1)
                 /\ db' = on_add_block(db, info[x], Len(heirs))
<1>1. \/ UNCHANGED mainVars \/ AbandonChild \/ AddHeir
  BY DEF Next, Step, Halted, Ignore, Enrol, RuleII, RuleIII, RuleIV, LeaveChain, AbandonSiblings,
         DestroySuccessor, Fail, vars, mainVars
<1>2. CASE AbandonChild
  <2>1. op.pc = "reorg" /\ fault = "none" /\ Len(heirs) > op.fork
    BY <1>2 DEF AbandonChild
  <2>2. op.fork >= 1 /\ op.fork \in Nat /\ Len(heirs) \in Nat
    BY <2>1, ReorgFacts, LenProperties DEF IInv, MainInv, OpType
  <2>3. Len(heirs) > 1
    BY <2>1, <2>2
  <2> QED
    BY <1>2, <2>3 DEF AbandonChild
<1>3. CASE AddHeir
  <2>1. op.pc = "reorg" /\ fault = "none" /\ op.child # Null
    BY <1>3 DEF AddHeir
  <2>2. NodesOK(info, Heads) /\ op.child \in Relatives
    BY <2>1, ReorgFacts
  <2>3. /\ info[op.child].hash \in Blocks /\ info[op.child].prev = prev_hash[info[op.child].hash]
        /\ info[op.child].complete \in BOOLEAN
    BY <2>2 DEF NodesOK, Relatives
  <2>4. CASE info[op.child].prev # Last(heirs).hash \/ info[op.child].hash \in DOMAIN search_root
    BY <1>3, <2>4 DEF AddHeir, Fail
  <2>5. CASE ~(info[op.child].prev # Last(heirs).hash \/ info[op.child].hash \in DOMAIN search_root)
    <3>1. /\ heirs' = Append(heirs, new_heir(Last(heirs), info[op.child]))
          /\ search_root' = tsearch(search_root, info[op.child].hash, Len(heirs) + 1)
          /\ db' = on_add_block(db, info[op.child], Len(heirs))
      BY <1>3, <2>5 DEF AddHeir
    <3> QED
      BY <2>2, <2>3, <2>5, <3>1
  <2> QED
    BY <2>4, <2>5
<1> QED
  BY <1>1, <1>2, <1>3

\* The database follows the main chain.
LEMMA StoreStep == IInv /\ StoreMirrorsHeirs /\ [Next]_vars => StoreMirrorsHeirs'
<1> SUFFICES ASSUME IInv, StoreMirrorsHeirs, [Next]_vars PROVE StoreMirrorsHeirs'
  OBVIOUS
<1>1. CASE UNCHANGED mainVars
  BY <1>1 DEF StoreMirrorsHeirs, mainVars
<1>2. CASE /\ Len(heirs) > 1 /\ heirs' = Front(heirs)
           /\ search_root' = tdelete(search_root, Last(heirs).hash)
           /\ db' = on_remove_block(db, Last(heirs).hash)
  BY <1>2, ShorterMainChain DEF IInv
<1>3. ASSUME NEW node,
             node.hash \in Blocks, node.prev = prev_hash[node.hash], node.complete \in BOOLEAN,
             node.prev = Last(heirs).hash, node.hash \notin DOMAIN search_root,
             heirs' = Append(heirs, new_heir(Last(heirs), node)),
             search_root' = tsearch(search_root, node.hash, Len(heirs) + 1),
             db' = on_add_block(db, node, Len(heirs))
      PROVE  StoreMirrorsHeirs'
  BY <1>3, LongerMainChain DEF IInv
<1> QED
  BY <1>1, <1>2, <1>3, MainSteps

\* The inductive invariant holds in every reachable state of the specification.
THEOREM Invariance == Spec => []IInv
BY InitInv, NextInv, PTL DEF Spec

\* For every block tree: the main chain is linked from the genesis block, with
\* cumulative difficulties that add up, in the middle of blockchain_add() too.
THEOREM MainChainLinked == Spec => []HeirsLinked
<1>1. IInv => HeirsLinked
  BY DEF IInv, MainInv
<1> QED
  BY <1>1, Invariance, PTL

\* For every block tree and order of arrival: the asserts of add_heir() hold.
THEOREM HeirAssertsHold == Spec => []AddHeirAsserts
<1>1. Init => AddHeirAsserts
  BY DEF Init, AddHeirAsserts
<1>2. IInv /\ AddHeirAsserts /\ [Next]_vars => AddHeirAsserts'
  <2> SUFFICES ASSUME IInv, AddHeirAsserts, [Next]_vars PROVE fault' # "heir_assert"
    BY DEF AddHeirAsserts
  <2>1. CASE AddHeir
    <3>1. /\ fault = "none" /\ op.pc = "reorg" /\ op.child # Null
          /\ Len(heirs) = op.fork + Len(op.line)
      BY <2>1 DEF AddHeir
    <3>2. info[op.child].prev = Last(heirs).hash /\ info[op.child].hash \notin DOMAIN search_root
      BY <3>1, HeirFits
    <3> QED
      BY <2>1, <3>1, <3>2 DEF AddHeir
  <2>2. CASE ~AddHeir
    BY <2>2 DEF Next, Step, Halted, Ignore, Enrol, RuleII, RuleIII, RuleIV, AbandonChild, LeaveChain,
                AbandonSiblings, DestroySuccessor, Fail, vars, AddHeirAsserts
  <2> QED
    BY <2>1, <2>2
<1> QED
  BY <1>1, <1>2, Invariance, PTL DEF Spec

\* For every block tree: chain->search_root holds the heirs, each at its
\* position, and nothing else, whatever was abandoned and overwritten.
THEOREM SearchTreeExact == Spec => []SearchRootExact
<1>1. IInv => SearchRootExact
  BY DEF IInv, MainInv
<1> QED
  BY <1>1, Invariance, PTL

\* For every block tree: between any two callbacks the headers database is the
\* main chain above the genesis block.
THEOREM StoreIsMainChain == Spec => []StoreMirrorsHeirs
BY InitInv, StoreStep, Invariance, PTL DEF Spec

-----------------------------------------------------------------------------
(* What readers see *)

\* What MainChain!Adopt says of the new chain, but for its last block.
Adoption ==
    /\ Abstract!LinkedFromGenesis(VisibleChain')
    /\ \A i \in 2 .. Len(VisibleChain') : VisibleChain'[i] \in accepted
    /\ UNCHANGED accepted

\* The hashes of a linked main chain are linked, and known if no step failed.
LEMMA HashesLinked ==
    ASSUME IInv
    PROVE  /\ Abstract!LinkedFromGenesis(hashes_of(heirs))
           /\ fault = "none" =>
                 \A i \in 2 .. Len(hashes_of(heirs)) : hashes_of(heirs)[i] \in accepted
<1> DEFINE n == Len(heirs)
           s == hashes_of(heirs)
<1>1. heirs \in Seq(Heir) /\ n \in Nat /\ n >= 1 /\ DOMAIN heirs = 1 .. n
  BY LenProperties, EmptySeq DEF IInv, MainInv, HeirsLinked
<1>2. DOMAIN s = 1 .. n /\ \A i \in 1 .. n : s[i] = heirs[i].hash
  BY <1>1 DEF hashes_of
<1>3. \A i \in 1 .. n : heirs[i].hash \in Hashes
  <2>1. \A i \in 1 .. n : heirs[i] \in Heir
    BY <1>1, ElementOfSeq
  <2> QED
    BY <2>1 DEF Heir
<1>4. s \in Seq(Hashes) /\ Len(s) = n /\ s # <<>>
  <2>1. s \in [1 .. n -> Hashes]
    BY <1>1, <1>3 DEF hashes_of
  <2>2. s \in Seq(Hashes)
    BY <1>1, <2>1, SeqDef
  <2>3. Len(s) = n
    BY <1>1, <1>2, <2>2, LenProperties
  <2> QED
    BY <1>1, <2>2, <2>3, EmptySeq
<1> HIDE DEF n, s
<1>5. 1 \in 1 .. n /\ \A i \in 2 .. n : i \in 1 .. n /\ i - 1 \in 1 .. n
  BY <1>1
<1>6. /\ heirs[1].hash = Genesis
      /\ \A i \in 2 .. n : heirs[i].hash \in Blocks /\ prev_hash[heirs[i].hash] = heirs[i - 1].hash
  BY DEF IInv, MainInv, HeirsLinked, n
<1>7. Abstract!LinkedFromGenesis(s)
  BY <1>2, <1>4, <1>5, <1>6 DEF Abstract!LinkedFromGenesis
<1>8. ASSUME fault = "none" PROVE \A i \in 2 .. n : s[i] \in accepted
  BY <1>2, <1>5, <1>8 DEF IInv, ListInv, AllKnown, n
<1> QED
  BY <1>4, <1>7, <1>8 DEF s

\* A step of blockchain_add() is, for a reader, nothing, a block taken in, or
\* the adoption of another linked chain of known blocks.
LEMMA ReadersStep ==
    ASSUME IInv, IInv', [Next]_vars
    PROVE  [Abstract!Learn \/ Adoption]_<<VisibleChain, accepted>>
<1>1. CASE UNCHANGED vars
  BY <1>1 DEF vars, VisibleChain
<1>2. ASSUME NEW b \in Blocks, Enrol(b) PROVE Abstract!Learn \/ UNCHANGED <<VisibleChain, accepted>>
  <2>1. op.pc = "idle" /\ heirs' = heirs
    BY <1>2 DEF Enrol, Fail, mainVars
  <2>2. CASE ClaimLoops(b)
    BY <1>2, <2>1, <2>2 DEF Enrol, Fail, VisibleChain
  <2>3. CASE ~ClaimLoops(b)
    <3>1. accepted' = accepted \cup {b}
      BY <1>2, <2>3 DEF Enrol
    <3>2. op'.pc # "reorg"
      <4>1. op' = [Idle EXCEPT !.pc = "rule1", !.child = new_node(info)]
        BY <1>2, <2>3 DEF Enrol
      <4> QED
        BY <4>1 DEF Idle
    <3>3. VisibleChain' = VisibleChain
      BY <2>1, <3>2 DEF VisibleChain
    <3> QED
      BY <3>1, <3>3 DEF Abstract!Learn
  <2> QED
    BY <2>2, <2>3
<1>3. ASSUME Step, accepted' = accepted, fault = "none"
      PROVE  Adoption \/ UNCHANGED <<VisibleChain, accepted>>
  <2>1. CASE RuleII \/ RuleIII
    <3>1. op.pc = "rule1" /\ heirs' = heirs
      BY <2>1 DEF RuleII, RuleIII, Fail, mainVars
    <3>2. op' = op \/ \E c : op' = Contest(c)
      BY <2>1 DEF RuleII, RuleIII, Fail
    <3>3. op'.pc # "reorg"
      BY <3>1, <3>2 DEF Contest, Idle
    <3> QED
      BY <1>3, <3>1, <3>3 DEF VisibleChain
  <2>2. CASE RuleIV
    <3>1. op.pc = "rule4" /\ heirs' = heirs /\ op \in OpType
      BY <1>3, <2>2 DEF RuleIV, mainVars, IInv, ListInv, OpOK
    <3>2. \/ op' = Idle
          \/ \E f, x : op' = [op EXCEPT !.pc = "reorg", !.fork = f, !.child = x,
                                       !.before = hashes_of(heirs)]
      BY <2>2 DEF RuleIV
    <3>3. op'.pc = "reorg" => op'.before = hashes_of(heirs)
      <4>1. Idle.pc # "reorg"
        BY DEF Idle
      <4>2. ASSUME NEW f, NEW x,
                   op' = [op EXCEPT !.pc = "reorg", !.fork = f, !.child = x,
                                    !.before = hashes_of(heirs)]
            PROVE  op'.before = hashes_of(heirs)
        BY <3>1, <4>2 DEF OpType
      <4> QED
        BY <3>2, <4>1, <4>2
    <3> QED
      BY <1>3, <3>1, <3>3 DEF VisibleChain
  <2>3. CASE AbandonChild \/ AddHeir
    <3>1. op.pc = "reorg" /\ op \in OpType
      BY <1>3, <2>3, ReorgFacts DEF AbandonChild, AddHeir
    <3>2. op'.pc = "reorg" /\ op'.before = op.before
      BY <2>3, <3>1 DEF AbandonChild, AddHeir, Fail, OpType
    <3> QED
      BY <1>3, <3>1, <3>2 DEF VisibleChain
  <2>4. CASE LeaveChain
    <3>1. op.pc = "reorg" /\ op \in OpType
      BY <1>3, <2>4, ReorgFacts DEF LeaveChain
    <3>2. CASE UNCHANGED op
      BY <1>3, <3>1, <3>2 DEF VisibleChain
    <3>3. CASE ~UNCHANGED op
      <4>1. /\ op' = [op EXCEPT !.pc = "siblings", !.level = 2]
            /\ heirs' = heirs /\ fault' = "none"
        BY <1>3, <2>4, <3>3 DEF LeaveChain, Fail, mainVars
      <4>2. VisibleChain' = hashes_of(heirs')
        BY <3>1, <4>1 DEF VisibleChain, OpType
      <4>3. /\ Abstract!LinkedFromGenesis(hashes_of(heirs))
            /\ \A i \in 2 .. Len(hashes_of(heirs)) : hashes_of(heirs)[i] \in accepted
        BY <1>3, HashesLinked
      <4> QED
        BY <1>3, <4>1, <4>2, <4>3 DEF Adoption
    <3> QED
      BY <3>2, <3>3
  <2>5. CASE AbandonSiblings \/ DestroySuccessor
    <3>1. op.pc = "siblings" /\ op \in OpType /\ heirs' = heirs
      BY <1>3, <2>5, ReorgFacts DEF AbandonSiblings, DestroySuccessor, mainVars
    <3>2. op'.pc # "reorg"
      <4>1. op' = Idle \/ op' = [op EXCEPT !.level = op.level + 1]
        BY <2>5 DEF AbandonSiblings, DestroySuccessor
      <4> QED
        BY <3>1, <4>1 DEF Idle, OpType
    <3> QED
      BY <1>3, <3>1, <3>2 DEF VisibleChain
  <2> QED
    BY <1>3, <2>1, <2>2, <2>3, <2>4, <2>5 DEF Step
<1>4. ASSUME Step PROVE accepted' = accepted /\ fault = "none"
  BY <1>4 DEF Step, RuleII, RuleIII, RuleIV, AbandonChild, AddHeir, LeaveChain, AbandonSiblings,
              DestroySuccessor, Fail
<1> QED
  BY <1>1, <1>2, <1>3, <1>4 DEF Next, Ignore, Halted

\* For every block tree: what readers see starts as MainChain says, and moves
\* only by a block taken in or, in one step, to another linked chain of known
\* blocks, however many callbacks the reorganisation took under the mutex.
THEOREM ReadersSeeLinkedChains ==
    Spec => Abstract!Init /\ [][Abstract!Learn \/ Adoption]_<<VisibleChain, accepted>>
<1>1. Init => Abstract!Init
  <2> SUFFICES ASSUME Init PROVE Abstract!Init
    OBVIOUS
  <2> DEFINE genesis == [hash |-> Genesis, cd |-> difficulty[Genesis], complete |-> TRUE]
  <2>1. heirs = <<genesis>> /\ op.pc # "reorg" /\ accepted = {}
    BY DEF Init, Idle
  <2>2. genesis.hash = Genesis
    OBVIOUS
  <2>3. hashes_of(heirs) = <<Genesis>>
    <3> HIDE DEF genesis
    <3> QED
      BY <2>1, <2>2 DEF hashes_of
  <2> QED
    BY <2>1, <2>3 DEF Abstract!Init, VisibleChain
<1>2. IInv /\ IInv' /\ [Next]_vars => [Abstract!Learn \/ Adoption]_<<VisibleChain, accepted>>
  BY ReadersStep
<1> QED
  BY <1>1, <1>2, Invariance, PTL DEF Spec

-----------------------------------------------------------------------------
(* What a sequence of distinct elements holds *)

\* What is in a sequence of no or one element.
LEMMA SetOfShort ==
    /\ ToSet(<<>>) = {} /\ IsInjective(<<>>)
    /\ \A a : ToSet(<<a>>) = {a} /\ IsInjective(<<a>>)
<1>1. DOMAIN <<>> = {} /\ ToSet(<<>>) = {} /\ IsInjective(<<>>)
  BY DEF ToSet, IsInjective
<1>2. ASSUME NEW a PROVE ToSet(<<a>>) = {a} /\ IsInjective(<<a>>)
  <2>1. DOMAIN <<a>> = {1} /\ <<a>>[1] = a
    OBVIOUS
  <2> QED
    BY <2>1 DEF ToSet, IsInjective
<1> QED
  BY <1>1, <1>2

\* What is in a concatenation, and when nothing is in it twice.
LEMMA SetOfConcat ==
    ASSUME NEW D, NEW s \in Seq(D), NEW t \in Seq(D)
    PROVE  /\ s \o t \in Seq(D) /\ ToSet(s \o t) = ToSet(s) \cup ToSet(t)
           /\ IsInjective(s) /\ IsInjective(t) /\ ToSet(s) \cap ToSet(t) = {} => IsInjective(s \o t)
<1> DEFINE m == Len(s)
           n == Len(t)
           u == s \o t
<1>1. /\ m \in Nat /\ n \in Nat /\ u \in Seq(D) /\ DOMAIN u = 1 .. m + n
      /\ DOMAIN s = 1 .. m /\ DOMAIN t = 1 .. n
      /\ \A i \in 1 .. m + n : u[i] = IF i <= m THEN s[i] ELSE t[i - m]
  BY ConcatProperties, LenProperties
<1> HIDE DEF m, n, u
<1>2. ASSUME NEW i \in 1 .. m PROVE i \in 1 .. m + n /\ u[i] = s[i]
  BY <1>1
<1>3. ASSUME NEW i \in 1 .. n PROVE m + i \in 1 .. m + n /\ u[m + i] = t[i]
  <2>1. m + i \in 1 .. m + n /\ ~(m + i <= m) /\ (m + i) - m = i
    BY <1>1
  <2> QED
    BY <1>1, <2>1
<1>4. ASSUME NEW i \in 1 .. m + n
      PROVE  \/ i \in 1 .. m /\ u[i] = s[i]
             \/ \E j \in 1 .. n : i = m + j /\ u[i] = t[j]
  <2>1. CASE i <= m
    BY <1>1, <2>1
  <2>2. CASE ~(i <= m)
    <3>1. i - m \in 1 .. n /\ i = m + (i - m)
      BY <1>1, <2>2
    <3> QED
      BY <1>1, <2>2, <3>1
  <2> QED
    BY <2>1, <2>2
<1>5. ToSet(u) = ToSet(s) \cup ToSet(t)
  <2>1. ASSUME NEW e \in ToSet(u) PROVE e \in ToSet(s) \cup ToSet(t)
    <3>1. PICK i \in 1 .. m + n : e = u[i]
      BY <1>1 DEF ToSet
    <3> QED
      BY <1>1, <1>4, <3>1 DEF ToSet
  <2>2. ASSUME NEW e \in ToSet(s) \cup ToSet(t) PROVE e \in ToSet(u)
    <3>1. CASE e \in ToSet(s)
      <4>1. PICK i \in 1 .. m : e = s[i]
        BY <1>1, <3>1 DEF ToSet
      <4> QED
        BY <1>1, <1>2, <4>1 DEF ToSet
    <3>2. CASE e \in ToSet(t)
      <4>1. PICK i \in 1 .. n : e = t[i]
        BY <1>1, <3>2 DEF ToSet
      <4> QED
        BY <1>1, <1>3, <4>1 DEF ToSet
    <3> QED
      BY <3>1, <3>2
  <2> QED
    BY <2>1, <2>2
<1>6. ASSUME IsInjective(s), IsInjective(t), ToSet(s) \cap ToSet(t) = {}
      PROVE  IsInjective(u)
  <2>1. \A i \in 1 .. m : s[i] \in ToSet(s)
    BY <1>1 DEF ToSet
  <2>2. \A i \in 1 .. n : t[i] \in ToSet(t)
    BY <1>1 DEF ToSet
  <2>3. \A i, j \in 1 .. m : s[i] = s[j] => i = j
    BY <1>1, <1>6 DEF IsInjective
  <2>4. \A i, j \in 1 .. n : t[i] = t[j] => i = j
    BY <1>1, <1>6 DEF IsInjective
  <2>5. ASSUME NEW i \in 1 .. m + n, NEW j \in 1 .. m + n, u[i] = u[j] PROVE i = j
    <3>1. CASE i \in 1 .. m /\ u[i] = s[i]
      BY <1>4, <1>6, <2>1, <2>2, <2>3, <2>5, <3>1
    <3>2. CASE \E k \in 1 .. n : i = m + k /\ u[i] = t[k]
      BY <1>4, <1>6, <2>1, <2>2, <2>4, <2>5, <3>2
    <3> QED
      BY <1>4, <3>1, <3>2
  <2> QED
    BY <1>1, <2>5 DEF IsInjective
<1> QED
  BY <1>1, <1>5, <1>6 DEF u

\* The first element and the others.
LEMMA SetOfHeadTail ==
    ASSUME NEW D, NEW s \in Seq(D), s # <<>>
    PROVE  /\ ToSet(s) = {Head(s)} \cup ToSet(Tail(s))
           /\ IsInjective(s) => IsInjective(Tail(s)) /\ Head(s) \notin ToSet(Tail(s))
<1> DEFINE n == Len(s)
           t == Tail(s)
<1>1. /\ n \in Nat /\ n >= 1 /\ DOMAIN s = 1 .. n /\ DOMAIN t = 1 .. n - 1
      /\ \A i \in 1 .. n - 1 : t[i] = s[i + 1]
      /\ Head(s) = s[1]
  <2>1. n \in Nat /\ n >= 1 /\ DOMAIN s = 1 .. n
    BY LenProperties, EmptySeq
  <2>2. t \in Seq(D) /\ Len(t) = n - 1 /\ \A i \in 1 .. Len(t) : t[i] = s[i + 1]
    BY HeadTailProperties
  <2>3. DOMAIN t = 1 .. n - 1
    BY <2>2, LenProperties
  <2> QED
    BY <2>1, <2>2, <2>3
<1> HIDE DEF n, t
<1>2. \A i \in 1 .. n - 1 : i + 1 \in 1 .. n /\ i + 1 # 1
  BY <1>1
<1>3. \A i \in 1 .. n : i = 1 \/ (i - 1 \in 1 .. n - 1 /\ (i - 1) + 1 = i)
  BY <1>1
<1>4. 1 \in 1 .. n
  BY <1>1
<1>5. ToSet(s) = {Head(s)} \cup ToSet(t)
  <2>1. ASSUME NEW e \in ToSet(s) PROVE e = Head(s) \/ e \in ToSet(t)
    <3>1. PICK i \in 1 .. n : e = s[i]
      BY <1>1 DEF ToSet
    <3>2. CASE i # 1
      <4>1. i - 1 \in 1 .. n - 1 /\ e = t[i - 1]
        BY <1>1, <1>3, <3>1, <3>2
      <4> QED
        BY <1>1, <4>1 DEF ToSet
    <3> QED
      BY <1>1, <3>1, <3>2
  <2>2. ASSUME NEW e \in ToSet(t) PROVE e \in ToSet(s)
    <3>1. PICK i \in 1 .. n - 1 : e = t[i]
      BY <1>1 DEF ToSet
    <3> QED
      BY <1>1, <1>2, <3>1 DEF ToSet
  <2>3. Head(s) \in ToSet(s)
    BY <1>1, <1>4 DEF ToSet
  <2> QED
    BY <2>1, <2>2, <2>3
<1>6. ASSUME IsInjective(s) PROVE IsInjective(t) /\ Head(s) \notin ToSet(t)
  <2>1. \A i, j \in 1 .. n : s[i] = s[j] => i = j
    BY <1>1, <1>6 DEF IsInjective
  <2>2. ASSUME NEW i \in 1 .. n - 1, NEW j \in 1 .. n - 1, t[i] = t[j] PROVE i = j
    <3>1. i + 1 = j + 1
      BY <1>1, <1>2, <2>1, <2>2
    <3> QED
      BY <1>1, <3>1
  <2>3. \A i \in 1 .. n - 1 : t[i] # Head(s)
    BY <1>1, <1>2, <1>4, <2>1
  <2> QED
    BY <1>1, <2>2, <2>3 DEF IsInjective, ToSet
<1> QED
  BY <1>5, <1>6 DEF t

\* A sequence is one over every set that has its elements.
LEMMA SeqWithin ==
    ASSUME NEW D, NEW s \in Seq(D), NEW S, ToSet(s) \subseteq S
    PROVE  s \in Seq(S)
<1>1. DOMAIN s = 1 .. Len(s) /\ Len(s) \in Nat /\ s \in [1 .. Len(s) -> D]
  BY LenProperties
<1>2. \A i \in 1 .. Len(s) : s[i] \in S
  BY <1>1 DEF ToSet
<1>3. s \in [1 .. Len(s) -> S]
  BY <1>1, <1>2
<1> QED
  BY <1>1, <1>3, SeqDef

\* One element more.
LEMMA SetOfAppend ==
    ASSUME NEW D, NEW s \in Seq(D), NEW x \in D
    PROVE  /\ Append(s, x) \in Seq(D) /\ ToSet(Append(s, x)) = ToSet(s) \cup {x}
           /\ IsInjective(s) /\ x \notin ToSet(s) => IsInjective(Append(s, x))
<1>1. Append(s, x) = s \o <<x>> /\ <<x>> \in Seq(D)
  BY AppendIsConcat
<1>2. ToSet(<<x>>) = {x} /\ IsInjective(<<x>>)
  BY SetOfShort
<1>3. /\ s \o <<x>> \in Seq(D) /\ ToSet(s \o <<x>>) = ToSet(s) \cup ToSet(<<x>>)
      /\ IsInjective(s) /\ IsInjective(<<x>>) /\ ToSet(s) \cap ToSet(<<x>>) = {}
            => IsInjective(s \o <<x>>)
  BY <1>1, SetOfConcat, Zenon
<1> HIDE <1>1
<1>4. Append(s, x) = s \o <<x>>
  BY <1>1
<1> QED
  BY <1>2, <1>3, <1>4, Zenon

\* The child that jumps to the first place stays one of the same children.
LEMMA SetOfPromote ==
    ASSUME NEW D, NEW kids \in Seq(D), NEW k \in ToSet(kids)
    PROVE  /\ ToSet(promote(kids, k)) = ToSet(kids)
           /\ IsInjective(kids) => IsInjective(promote(kids, k))
<1> DEFINE j == CHOOSE i \in DOMAIN kids : kids[i] = k
           n == Len(kids)
           a == SubSeq(kids, 1, j - 1)
           b == SubSeq(kids, j + 1, n)
<1>1. n \in Nat /\ DOMAIN kids = 1 .. n
  BY LenProperties
<1>2. j \in 1 .. n /\ kids[j] = k /\ k \in D
  <2>1. \E i \in 1 .. n : kids[i] = k
    BY <1>1 DEF ToSet
  <2>2. j \in 1 .. n /\ kids[j] = k
    BY <1>1, <2>1
  <2> QED
    BY <2>2, ElementOfSeq
<1> HIDE DEF j
<1>3. \A i \in 1 .. n : kids[i] \in D
  BY ElementOfSeq
<1> HIDE DEF n
<1>4. /\ a \in Seq(D) /\ DOMAIN a = 1 .. j - 1
      /\ \A i \in 1 .. j - 1 : a[i] = kids[i]
  <2>1. j - 1 \in Nat /\ \A i \in 1 .. j - 1 : kids[i] \in D
    BY <1>1, <1>2, <1>3
  <2>2. PICK m \in Nat : m = j - 1
    BY <2>1
  <2>3. /\ SubSeq(kids, 1, m) \in Seq(D)
        /\ Len(SubSeq(kids, 1, m)) = IF 1 <= m THEN m - 1 + 1 ELSE 0
        /\ \A i \in 1 .. m - 1 + 1 : SubSeq(kids, 1, m)[i] = kids[1 + i - 1]
    <3>1. 1 \in Int /\ m \in Int /\ \A i \in 1 .. m : kids[i] \in D
      BY <2>1, <2>2
    <3> QED
      BY <3>1, SubSeqProperties
  <2>4. m - 1 + 1 = m /\ (IF 1 <= m THEN m - 1 + 1 ELSE 0) = m /\ \A i \in 1 .. m : 1 + i - 1 = i
    BY <2>2
  <2>5. SubSeq(kids, 1, m) \in Seq(D) /\ Len(SubSeq(kids, 1, m)) = m
        /\ \A i \in 1 .. m : SubSeq(kids, 1, m)[i] = kids[i]
    BY <2>3, <2>4
  <2> QED
    BY <2>2, <2>5, LenProperties
<1>5. /\ b \in Seq(D) /\ DOMAIN b = 1 .. n - j
      /\ \A i \in 1 .. n - j : b[i] = kids[i + j]
  <2>1. PICK m \in Nat : m = j + 1
    BY <1>2
  <2>2. /\ SubSeq(kids, m, n) \in Seq(D)
        /\ Len(SubSeq(kids, m, n)) = IF m <= n THEN n - m + 1 ELSE 0
        /\ \A i \in 1 .. n - m + 1 : SubSeq(kids, m, n)[i] = kids[m + i - 1]
    <3>1. n \in Int /\ m \in Int /\ \A i \in m .. n : kids[i] \in D
      BY <1>1, <1>2, <1>3, <2>1
    <3> QED
      BY <3>1, SubSeqProperties
  <2>3. /\ n - m + 1 = n - j /\ (IF m <= n THEN n - m + 1 ELSE 0) = n - j
        /\ \A i \in 1 .. n - j : m + i - 1 = i + j
    BY <1>1, <1>2, <2>1
  <2>4. /\ SubSeq(kids, m, n) \in Seq(D) /\ Len(SubSeq(kids, m, n)) = n - j
        /\ \A i \in 1 .. n - j : SubSeq(kids, m, n)[i] = kids[i + j]
    BY <2>2, <2>3
  <2> QED
    BY <2>1, <2>4, LenProperties
<1>6. RemoveAt(kids, j) = a \o b
  BY DEF RemoveAt, n
<1>7. promote(kids, k) = <<k>> \o (a \o b)
  BY <1>6 DEF promote, j
<1> HIDE DEF a, b
<1>8. ToSet(a) = {kids[i] : i \in 1 .. j - 1}
  BY <1>4 DEF ToSet
<1>9. ToSet(b) = {kids[i] : i \in j + 1 .. n}
  <2>1. \A i \in 1 .. n - j : i + j \in j + 1 .. n
    BY <1>1, <1>2
  <2>2. \A i \in j + 1 .. n : i - j \in 1 .. n - j /\ (i - j) + j = i
    BY <1>1, <1>2
  <2>3. ASSUME NEW e \in ToSet(b) PROVE e \in {kids[i] : i \in j + 1 .. n}
    <3>1. PICK i \in 1 .. n - j : e = b[i]
      BY <1>5 DEF ToSet
    <3> QED
      BY <1>5, <2>1, <3>1
  <2>4. ASSUME NEW i \in j + 1 .. n PROVE kids[i] \in ToSet(b)
    <3>1. i - j \in DOMAIN b /\ b[i - j] = kids[i]
      BY <1>5, <2>2
    <3> QED
      BY <3>1 DEF ToSet
  <2> QED
    BY <2>3, <2>4
<1> DEFINE first == <<k>>
           rest == a \o b
<1>10. first \in Seq(D) /\ ToSet(first) = {k} /\ IsInjective(first)
  BY <1>2, SetOfShort
<1>11. /\ rest \in Seq(D) /\ ToSet(rest) = ToSet(a) \cup ToSet(b)
       /\ IsInjective(a) /\ IsInjective(b) /\ ToSet(a) \cap ToSet(b) = {} => IsInjective(rest)
  BY <1>4, <1>5, SetOfConcat
<1>15. promote(kids, k) = first \o rest
  BY <1>7
<1> HIDE DEF first, rest
<1>16. /\ ToSet(first \o rest) = ToSet(first) \cup ToSet(rest)
       /\ IsInjective(first) /\ IsInjective(rest) /\ ToSet(first) \cap ToSet(rest) = {}
             => IsInjective(first \o rest)
  BY <1>10, <1>11, SetOfConcat
<1>12. ToSet(promote(kids, k)) = {k} \cup (ToSet(a) \cup ToSet(b))
  BY <1>10, <1>11, <1>15, <1>16
<1>13. ToSet(kids) = {k} \cup (ToSet(a) \cup ToSet(b))
  <2>1. \A i \in 1 .. n : i = j \/ i \in 1 .. j - 1 \/ i \in j + 1 .. n
    BY <1>1, <1>2
  <2>2. (\A i \in 1 .. j - 1 : i \in 1 .. n) /\ (\A i \in j + 1 .. n : i \in 1 .. n)
    BY <1>1, <1>2
  <2>3. ToSet(kids) = {kids[i] : i \in 1 .. n}
    BY <1>1 DEF ToSet
  <2> QED
    BY <1>2, <1>8, <1>9, <2>1, <2>2, <2>3
<1>14. ASSUME IsInjective(kids) PROVE IsInjective(promote(kids, k))
  <2>1. \A i, l \in 1 .. n : kids[i] = kids[l] => i = l
    BY <1>1, <1>14 DEF IsInjective
  <2>2. IsInjective(a)
    <3>1. \A i \in 1 .. j - 1 : i \in 1 .. n
      BY <1>1, <1>2
    <3> QED
      BY <1>4, <2>1, <3>1 DEF IsInjective
  <2>3. IsInjective(b)
    <3>1. ASSUME NEW i \in 1 .. n - j, NEW l \in 1 .. n - j, b[i] = b[l] PROVE i = l
      <4>1. i + j \in 1 .. n /\ l + j \in 1 .. n /\ kids[i + j] = kids[l + j]
        BY <1>1, <1>2, <1>5, <3>1
      <4>2. i + j = l + j
        BY <2>1, <4>1
      <4> QED
        BY <1>2, <4>2
    <3> QED
      BY <1>5, <3>1 DEF IsInjective
  <2>4. ToSet(a) \cap ToSet(b) = {}
    <3>1. \A i \in 1 .. j - 1, l \in j + 1 .. n : i \in 1 .. n /\ l \in 1 .. n /\ i # l
      BY <1>1, <1>2
    <3> QED
      BY <1>8, <1>9, <2>1, <3>1
  <2>5. k \notin ToSet(a) \cup ToSet(b)
    <3>1. \A i \in 1 .. j - 1 : i \in 1 .. n /\ i # j
      BY <1>1, <1>2
    <3>2. \A i \in j + 1 .. n : i \in 1 .. n /\ i # j
      BY <1>1, <1>2
    <3> QED
      BY <1>2, <1>8, <1>9, <2>1, <3>1, <3>2
  <2>6. IsInjective(rest)
    BY <1>11, <2>2, <2>3, <2>4
  <2>7. ToSet(first) \cap ToSet(rest) = {}
    BY <1>10, <1>11, <2>5
  <2> QED
    BY <1>10, <1>15, <1>16, <2>6, <2>7
<1> QED
  BY <1>12, <1>13, <1>14

-----------------------------------------------------------------------------
(* The walk over the offspring *)

\* What n more visits see, the calls pending being `todo`; `below` is the same
\* for n - 1.
Visits(N, n, below) ==
    [todo \in Seq(DOMAIN N) |->
        IF n = 0 \/ todo = <<>> THEN <<>>
        ELSE <<Head(todo)>> \o below[N[Head(todo)].kids \o Tail(todo)]]

Walks(f, N, m) == f = [n \in 0 .. m |-> Visits(N, n, f[n - 1])]

\* No visit asks for what fewer visits see.
LEMMA VisitsNone == ASSUME NEW N, NEW f, NEW g PROVE Visits(N, 0, f) = Visits(N, 0, g)
BY DEF Visits

\* The recursive function of offspring() exists.
LEMMA WalksExist ==
    ASSUME NEW N, NEW m \in Nat
    PROVE  \E f : Walks(f, N, m)
<1> DEFINE T == {k \in Nat : \E f : Walks(f, N, k)}
<1>1. 0 \in T
  <2> DEFINE f == [n \in 0 .. 0 |-> Visits(N, n, <<>>)]
  <2>1. f = [n \in 0 .. 0 |-> Visits(N, n, f[n - 1])]
    <3>1. \A n \in 0 .. 0 : n = 0
      OBVIOUS
    <3>2. Visits(N, 0, <<>>) = Visits(N, 0, f[0 - 1])
      BY VisitsNone
    <3>3. \A n \in 0 .. 0 : Visits(N, n, <<>>) = Visits(N, n, f[n - 1])
      BY <3>1, <3>2
    <3> QED
      BY <3>3
  <2>2. Walks(f, N, 0)
    BY <2>1 DEF Walks
  <2> QED
    BY <2>2
<1>2. ASSUME NEW k \in T PROVE k + 1 \in T
  <2>1. PICK f : Walks(f, N, k)
    BY <1>2
  <2>2. k \in Nat
    BY <1>2
  <2> DEFINE g == [n \in 0 .. k + 1 |-> IF n = k + 1 THEN Visits(N, n, f[n - 1]) ELSE f[n]]
  <2>3. ASSUME NEW n \in 0 .. k + 1 PROVE g[n] = Visits(N, n, g[n - 1])
    <3>1. CASE n = k + 1
      <4>1. n - 1 \in 0 .. k + 1 /\ n - 1 # k + 1
        BY <2>2, <3>1
      <4> QED
        BY <3>1, <4>1
    <3>2. CASE n # k + 1
      <4>1. n \in 0 .. k /\ g[n] = f[n]
        BY <2>2, <3>2
      <4>2. f[n] = Visits(N, n, f[n - 1])
        BY <2>1, <4>1 DEF Walks
      <4>3. n # 0 => f[n - 1] = g[n - 1]
        <5>1. n # 0 => n - 1 \in 0 .. k + 1 /\ n - 1 # k + 1
          BY <2>2, <4>1
        <5> QED
          BY <5>1
      <4>4. n = 0 => Visits(N, n, f[n - 1]) = Visits(N, n, g[n - 1])
        BY VisitsNone
      <4> QED
        BY <4>1, <4>2, <4>3, <4>4
    <3> QED
      BY <3>1, <3>2
  <2>4. g = [n \in 0 .. k + 1 |-> g[n]]
    OBVIOUS
  <2> HIDE DEF g
  <2>5. Walks(g, N, k + 1)
    BY <2>3, <2>4 DEF Walks
  <2> QED
    BY <2>2, <2>5
<1> HIDE DEF T
<1>3. T = Nat
  BY <1>1, <1>2, SetInduction DEF T
<1> QED
  BY <1>3 DEF T

\* What offspring() is: the last value of that function, begun with the node.
LEMMA OffspringIs ==
    ASSUME NEW N, NEW x
    PROVE  \E f : Walks(f, N, MaxNodes) /\ offspring(N, x) = f[MaxNodes][<<x>>]
<1> DEFINE w == CHOOSE f : f = [n \in 0 .. MaxNodes |-> [todo \in Seq(DOMAIN N) |->
                    IF n = 0 \/ todo = <<>> THEN <<>>
                    ELSE <<Head(todo)>> \o f[n - 1][N[Head(todo)].kids \o Tail(todo)]]]
<1>1. offspring(N, x) = w[MaxNodes][<<x>>]
  BY Zenon DEF offspring
<1>2. Walks(w, N, MaxNodes)
  <2>1. \E f : Walks(f, N, MaxNodes)
    BY WalksExist, MaxNodesAssumption
  <2> QED
    BY <2>1, Zenon DEF Walks, Visits
<1> QED
  BY <1>1, <1>2, Zenon

\* Every child is a live node.
KidsLive(N) == \A y \in DOMAIN N : N[y].kids \in Seq(DOMAIN N)

\* Whose children are in S too.
Closed(N, S) == \A y \in S : ToSet(N[y].kids) \subseteq S

\* The calls pending after a visit are still to live nodes.
LEMMA PendingLive ==
    ASSUME NEW N, KidsLive(N), NEW todo \in Seq(DOMAIN N), todo # <<>>
    PROVE  /\ Head(todo) \in DOMAIN N
           /\ N[Head(todo)].kids \in Seq(DOMAIN N) /\ Tail(todo) \in Seq(DOMAIN N)
           /\ N[Head(todo)].kids \o Tail(todo) \in Seq(DOMAIN N)
           /\ ToSet(N[Head(todo)].kids \o Tail(todo)) = ToSet(N[Head(todo)].kids) \cup ToSet(Tail(todo))
<1>1. Head(todo) \in DOMAIN N /\ Tail(todo) \in Seq(DOMAIN N)
  BY HeadTailProperties
<1>2. N[Head(todo)].kids \in Seq(DOMAIN N)
  BY <1>1 DEF KidsLive
<1> QED
  BY <1>1, <1>2, SetOfConcat

\* A set with the pending nodes and all children of its nodes has all that is seen.
LEMMA WalkWithin ==
    ASSUME NEW N, KidsLive(N), NEW S \in SUBSET DOMAIN N, Closed(N, S),
           NEW m \in Nat, NEW f, Walks(f, N, m), NEW n \in 0 .. m,
           NEW todo \in Seq(DOMAIN N), ToSet(todo) \subseteq S
    PROVE  f[n][todo] \in Seq(S)
<1> DEFINE T == {k \in Nat : k <= m => \A t \in Seq(DOMAIN N) :
                                          ToSet(t) \subseteq S => f[k][t] \in Seq(S)}
<1>1. 0 \in T
  <2>1. ASSUME NEW t \in Seq(DOMAIN N) PROVE f[0][t] = <<>>
    <3>1. 0 \in 0 .. m
      OBVIOUS
    <3>2. f[0] = Visits(N, 0, f[0 - 1])
      BY <3>1 DEF Walks
    <3> QED
      BY <3>2 DEF Visits
  <2> QED
    BY <2>1, EmptySeq
<1>2. ASSUME NEW k \in T PROVE k + 1 \in T
  <2> SUFFICES ASSUME k + 1 <= m, NEW t \in Seq(DOMAIN N), ToSet(t) \subseteq S
               PROVE  f[k + 1][t] \in Seq(S)
    BY <1>2
  <2>1. /\ k + 1 \in 0 .. m /\ k + 1 # 0 /\ (k + 1) - 1 = k
        /\ \A u \in Seq(DOMAIN N) : ToSet(u) \subseteq S => f[k][u] \in Seq(S)
    BY <1>2
  <2> HIDE DEF T
  <2>2. f[k + 1][t] = IF t = <<>> THEN <<>> ELSE <<Head(t)>> \o f[k][N[Head(t)].kids \o Tail(t)]
    <3>1. f[k + 1] = Visits(N, k + 1, f[k])
      BY <2>1 DEF Walks
    <3> QED
      BY <2>1, <3>1 DEF Visits
  <2>3. CASE t = <<>>
    BY <2>2, <2>3, EmptySeq
  <2>4. CASE t # <<>>
    <3> DEFINE u == N[Head(t)].kids \o Tail(t)
    <3>1. ToSet(t) = {Head(t)} \cup ToSet(Tail(t))
      BY <2>4, SetOfHeadTail
    <3>2. ToSet(N[Head(t)].kids) \subseteq S
      BY <3>1 DEF Closed
    <3>3. u \in Seq(DOMAIN N) /\ ToSet(u) = ToSet(N[Head(t)].kids) \cup ToSet(Tail(t))
      BY <2>4, PendingLive
    <3> HIDE DEF u
    <3>4. f[k][u] \in Seq(S)
      BY <2>1, <3>1, <3>2, <3>3
    <3>5. <<Head(t)>> \in Seq(S)
      BY <3>1
    <3>6. <<Head(t)>> \o f[k][u] \in Seq(S)
      BY <3>4, <3>5, ConcatProperties
    <3> QED
      BY <2>2, <2>4, <3>6 DEF u
  <2> QED
    BY <2>3, <2>4
<1> HIDE DEF T
<1>3. T = Nat
  BY <1>1, <1>2, SetInduction DEF T
<1>4. n \in Nat /\ n <= m
  OBVIOUS
<1> QED
  BY <1>3, <1>4 DEF T

\* The offspring are live, and in every closed set that has the node itself.
LEMMA OffspringWithin ==
    ASSUME NEW N, KidsLive(N), NEW S \in SUBSET DOMAIN N, Closed(N, S), NEW x \in S
    PROVE  offspring(N, x) \in Seq(S)
<1>1. PICK f : Walks(f, N, MaxNodes) /\ offspring(N, x) = f[MaxNodes][<<x>>]
  BY OffspringIs
<1>2. <<x>> \in Seq(DOMAIN N) /\ ToSet(<<x>>) \subseteq S
  BY SetOfShort
<1>3. MaxNodes \in 0 .. MaxNodes /\ MaxNodes \in Nat
  BY MaxNodesAssumption
<1>4. f[MaxNodes][<<x>>] \in Seq(S)
  BY <1>1, <1>2, <1>3, WalkWithin
<1> QED
  BY <1>1, <1>4

-----------------------------------------------------------------------------
(* In a forest the walk sees all of the offspring *)

\* q has x among its children.
HasKid(N, q, x) == x \in ToSet(N[q].kids)

\* No node is a child twice.
Forest(N) ==
    /\ \A q \in DOMAIN N : IsInjective(N[q].kids)
    /\ \A q, r, x \in DOMAIN N : HasKid(N, q, x) /\ HasKid(N, r, x) => q = r

\* V has been seen, `todo` is pending, on a walk that began with x.
Underway(N, x, V, todo) ==
    /\ V \in SUBSET DOMAIN N /\ IsFiniteSet(V)
    /\ todo \in Seq(DOMAIN N) /\ IsInjective(todo)
    /\ \A y \in ToSet(todo) : y \notin V
    /\ \A y \in V : ToSet(N[y].kids) \subseteq V \cup ToSet(todo)
    /\ \A y \in V \cup ToSet(todo) : y = x \/ \E p \in V : HasKid(N, p, y)

\* One more visit.
LEMMA VisitOne ==
    ASSUME NEW N, KidsLive(N), Forest(N), NEW x, \A q \in DOMAIN N : ~HasKid(N, q, x),
           NEW V, NEW todo, Underway(N, x, V, todo), todo # <<>>
    PROVE  /\ Head(todo) \in DOMAIN N /\ Head(todo) \notin V
           /\ ToSet(todo) = {Head(todo)} \cup ToSet(Tail(todo))
           /\ Underway(N, x, V \cup {Head(todo)}, N[Head(todo)].kids \o Tail(todo))
<1> DEFINE h == Head(todo)
           k == N[h].kids
           t == Tail(todo)
           W == V \cup {h}
<1>1. todo \in Seq(DOMAIN N) /\ IsInjective(todo) /\ V \in SUBSET DOMAIN N /\ IsFiniteSet(V)
  BY DEF Underway
<1>2. /\ h \in DOMAIN N /\ k \in Seq(DOMAIN N) /\ t \in Seq(DOMAIN N) /\ k \o t \in Seq(DOMAIN N)
      /\ ToSet(k \o t) = ToSet(k) \cup ToSet(t)
  BY <1>1, PendingLive
<1>3. ToSet(todo) = {h} \cup ToSet(t) /\ IsInjective(t) /\ h \notin ToSet(t)
  BY <1>1, SetOfHeadTail
<1>4. h \notin V
  BY <1>3 DEF Underway
<1>5. IsInjective(k)
  BY <1>2 DEF Forest
<1>6. ToSet(k) \subseteq DOMAIN N /\ ToSet(t) \subseteq DOMAIN N
  BY <1>2, ToSetProps
<1> HIDE DEF h, k, t
<1>7. ASSUME NEW y \in ToSet(k), y \in V \cup ToSet(todo) PROVE FALSE
  <2>1. y \in DOMAIN N /\ HasKid(N, h, y)
    BY <1>6 DEF HasKid, k
  <2>2. y # x
    BY <1>2, <2>1
  <2>3. PICK p \in V : HasKid(N, p, y)
    BY <1>7, <2>2 DEF Underway
  <2>4. p = h
    BY <1>1, <1>2, <2>1, <2>3 DEF Forest
  <2> QED
    BY <1>4, <2>3, <2>4
<1>8. IsInjective(k \o t)
  <2>1. ToSet(k) \cap ToSet(t) = {}
    BY <1>3, <1>7
  <2> QED
    BY <1>2, <1>3, <1>5, <2>1, SetOfConcat
<1>9. W \in SUBSET DOMAIN N /\ IsFiniteSet(W)
  BY <1>1, <1>2, FS_AddElement
<1>10. \A y \in ToSet(k \o t) : y \notin W
  <2>1. \A y \in ToSet(t) : y \notin V /\ y # h
    BY <1>3 DEF Underway
  <2>2. \A y \in ToSet(k) : y \notin V /\ y # h
    BY <1>3, <1>7
  <2> QED
    BY <1>2, <2>1, <2>2
<1>11. \A y \in W : ToSet(N[y].kids) \subseteq W \cup ToSet(k \o t)
  <2>1. \A y \in V : ToSet(N[y].kids) \subseteq W \cup ToSet(k \o t)
    BY <1>2, <1>3 DEF Underway
  <2>2. ToSet(N[h].kids) \subseteq W \cup ToSet(k \o t)
    BY <1>2 DEF k
  <2> QED
    BY <2>1, <2>2
<1>12. \A y \in W \cup ToSet(k \o t) : y = x \/ \E p \in W : HasKid(N, p, y)
  <2>1. \A y \in V \cup ToSet(todo) : y = x \/ \E p \in W : HasKid(N, p, y)
    BY DEF Underway
  <2>2. \A y \in ToSet(k) : HasKid(N, h, y)
    BY DEF HasKid, k
  <2> QED
    BY <1>2, <1>3, <2>1, <2>2
<1>13. Underway(N, x, W, k \o t)
  BY <1>2, <1>8, <1>9, <1>10, <1>11, <1>12 DEF Underway
<1> QED
  BY <1>2, <1>3, <1>4, <1>13 DEF h, k, t

\* As many nodes as there are addresses are all the nodes.
LEMMA AllSeen ==
    ASSUME NEW V, V \subseteq Ptr, MaxNodes <= Cardinality(V)
    PROVE  V = Ptr
<1>1. IsFiniteSet(Ptr) /\ Cardinality(Ptr) = MaxNodes
  <2>1. /\ IsFiniteSet(1 .. MaxNodes)
        /\ Cardinality(1 .. MaxNodes) = IF 1 > MaxNodes THEN 0 ELSE MaxNodes - 1 + 1
    BY FS_Interval, MaxNodesAssumption
  <2> QED
    BY <2>1, MaxNodesAssumption DEF Ptr
<1>2. /\ IsFiniteSet(V) /\ Cardinality(V) \in Nat
      /\ Cardinality(V) <= MaxNodes /\ (Cardinality(V) = MaxNodes => V = Ptr)
  BY <1>1, FS_Subset, FS_CardinalityType
<1> QED
  BY <1>2, MaxNodesAssumption

\* With room for n more visits, the walk ends with nothing pending.
LEMMA WalkSeesAll ==
    ASSUME NEW N, KidsLive(N), Forest(N), DOMAIN N \subseteq Ptr,
           NEW x, \A q \in DOMAIN N : ~HasKid(N, q, x),
           NEW m \in Nat, NEW f, Walks(f, N, m), NEW n \in 0 .. m,
           NEW V, NEW todo, Underway(N, x, V, todo), MaxNodes <= Cardinality(V) + n
    PROVE  /\ ToSet(todo) \subseteq V \cup ToSet(f[n][todo])
           /\ Closed(N, V \cup ToSet(f[n][todo]))
<1> DEFINE Seen(k, U, t) == /\ ToSet(t) \subseteq U \cup ToSet(f[k][t])
                            /\ Closed(N, U \cup ToSet(f[k][t]))
           Room(k, U) == MaxNodes <= Cardinality(U) + k
           All(k) == \A U \in SUBSET DOMAIN N, t \in Seq(DOMAIN N) :
                        Underway(N, x, U, t) /\ Room(k, U) => Seen(k, U, t)
           T == {k \in Nat : k <= m => All(k)}
<1>1. 0 \in T
  <2> SUFFICES ASSUME NEW U \in SUBSET DOMAIN N, NEW t \in Seq(DOMAIN N),
                      Underway(N, x, U, t), Room(0, U)
               PROVE  Seen(0, U, t)
    OBVIOUS
  <2>1. f[0][t] = <<>>
    <3>1. 0 \in 0 .. m
      OBVIOUS
    <3>2. f[0] = Visits(N, 0, f[0 - 1])
      BY <3>1 DEF Walks
    <3> QED
      BY <3>2 DEF Visits
  <2>2. U = Ptr
    <3>1. Cardinality(U) \in Nat
      BY FS_CardinalityType DEF Underway
    <3>2. MaxNodes <= Cardinality(U)
      BY <3>1, MaxNodesAssumption
    <3> QED
      BY <3>2, AllSeen
  <2>3. ToSet(f[0][t]) = {}
    BY <2>1, SetOfShort
  <2>4. \A y \in DOMAIN N : ToSet(N[y].kids) \subseteq DOMAIN N
    BY ToSetProps DEF KidsLive
  <2>5. ToSet(t) \subseteq DOMAIN N
    BY ToSetProps
  <2> QED
    BY <2>2, <2>3, <2>4, <2>5 DEF Closed
<1>2. ASSUME NEW k \in T PROVE k + 1 \in T
  <2> HIDE DEF All
  <2> SUFFICES ASSUME k + 1 <= m PROVE All(k + 1)
    BY <1>2
  <2>1. k \in 0 .. m /\ k + 1 \in 0 .. m /\ k + 1 # 0 /\ (k + 1) - 1 = k /\ k \in Nat /\ All(k)
    BY <1>2
  <2> HIDE DEF T
  <2> SUFFICES ASSUME NEW U \in SUBSET DOMAIN N, NEW t \in Seq(DOMAIN N),
                      Underway(N, x, U, t), Room(k + 1, U)
               PROVE  Seen(k + 1, U, t)
    BY DEF All
  <2>2. f[k + 1][t] = IF t = <<>> THEN <<>> ELSE <<Head(t)>> \o f[k][N[Head(t)].kids \o Tail(t)]
    <3>1. f[k + 1] = Visits(N, k + 1, f[k])
      BY <2>1 DEF Walks
    <3> QED
      BY <2>1, <3>1 DEF Visits
  <2>3. CASE t = <<>>
    <3>1. ToSet(t) = {} /\ ToSet(f[k + 1][t]) = {}
      BY <2>2, <2>3, SetOfShort
    <3>2. \A y \in U : ToSet(N[y].kids) \subseteq U \cup ToSet(t)
      BY DEF Underway
    <3> QED
      BY <3>1, <3>2 DEF Closed
  <2>4. CASE t # <<>>
    <3> DEFINE h == Head(t)
               u == N[h].kids \o Tail(t)
               W == U \cup {h}
               g == f[k][u]
               one == <<h>>
    <3>1. /\ h \in DOMAIN N /\ h \notin U /\ ToSet(t) = {h} \cup ToSet(Tail(t))
          /\ Underway(N, x, W, u)
      BY <2>4, VisitOne
    <3>2. u \in Seq(DOMAIN N) /\ ToSet(u) = ToSet(N[h].kids) \cup ToSet(Tail(t))
      BY <2>4, PendingLive
    <3>3. f[k + 1][t] = one \o g
      BY <2>2, <2>4
    <3>4. one \in Seq(DOMAIN N) /\ ToSet(one) = {h}
      BY <3>1, SetOfShort
    <3> HIDE DEF h, u, one
    <3>5. Cardinality(W) = Cardinality(U) + 1 /\ Cardinality(U) \in Nat
      BY <3>1, FS_AddElement, FS_CardinalityType DEF Underway
    <3>6. Room(k, W)
      <4> HIDE DEF W
      <4> QED
        BY <2>1, <3>5, MaxNodesAssumption
    <3>7. W \in SUBSET DOMAIN N
      BY <3>1
    <3>8. g \in Seq(DOMAIN N)
      <4>1. Closed(N, DOMAIN N) /\ ToSet(u) \subseteq DOMAIN N
        BY <3>2, ToSetProps DEF Closed, KidsLive
      <4> QED
        BY <2>1, <3>2, <4>1, WalkWithin
    <3> HIDE DEF g
    <3>9. ToSet(one \o g) = ToSet(one) \cup ToSet(g)
      BY <3>4, <3>8, SetOfConcat
    <3>10. ToSet(u) \subseteq W \cup ToSet(g) /\ Closed(N, W \cup ToSet(g))
      BY <2>1, <3>1, <3>2, <3>6, <3>7 DEF g, All
    <3>11. W \cup ToSet(g) = U \cup ToSet(f[k + 1][t])
      BY <3>3, <3>4, <3>9
    <3> QED
      BY <3>1, <3>2, <3>10, <3>11
  <2> QED
    BY <2>3, <2>4
<1> HIDE DEF T
<1>3. T = Nat
  BY <1>1, <1>2, SetInduction DEF T
<1>4. n \in Nat /\ n <= m
  OBVIOUS
<1>5. V \in SUBSET DOMAIN N /\ todo \in Seq(DOMAIN N)
  BY DEF Underway
<1> QED
  BY <1>3, <1>4, <1>5 DEF T

\* Begun with a node that is nobody's child, it sees the node and, of every
\* node it sees, the children.
LEMMA OffspringAll ==
    ASSUME NEW N, KidsLive(N), Forest(N), DOMAIN N \subseteq Ptr,
           NEW x \in DOMAIN N, \A q \in DOMAIN N : ~HasKid(N, q, x)
    PROVE  x \in ToSet(offspring(N, x)) /\ Closed(N, ToSet(offspring(N, x)))
<1>1. PICK f : Walks(f, N, MaxNodes) /\ offspring(N, x) = f[MaxNodes][<<x>>]
  BY OffspringIs
<1> DEFINE t == <<x>>
<1>2. t \in Seq(DOMAIN N) /\ ToSet(t) = {x} /\ IsInjective(t)
  BY SetOfShort
<1>3. offspring(N, x) = f[MaxNodes][t]
  BY <1>1
<1> HIDE DEF t
<1>4. IsFiniteSet({}) /\ Cardinality({}) = 0
  BY FS_EmptySet
<1>5. Underway(N, x, {}, t)
  BY <1>2, <1>4 DEF Underway
<1>6. MaxNodes \in Nat /\ MaxNodes \in 0 .. MaxNodes /\ MaxNodes <= Cardinality({}) + MaxNodes
  BY <1>4, MaxNodesAssumption
<1>7. /\ ToSet(t) \subseteq {} \cup ToSet(f[MaxNodes][t])
      /\ Closed(N, {} \cup ToSet(f[MaxNodes][t]))
  BY <1>1, <1>5, <1>6, WalkSeesAll
<1>8. {} \cup ToSet(f[MaxNodes][t]) = ToSet(f[MaxNodes][t])
  OBVIOUS
<1> QED
  BY <1>2, <1>3, <1>7, <1>8

-----------------------------------------------------------------------------
(* The other walks: the line of first children, the sums, the longest *)

\* The lines of n generations more, `below` those of n - 1.
Generations(N, n, below) ==
    [y \in DOMAIN N |-> IF n = 0 \/ N[y].kids = <<>> THEN <<y>>
                        ELSE <<y>> \o below[Head(N[y].kids)]]

Lines(f, N, m) == f = [n \in 0 .. m |-> Generations(N, n, f[n - 1])]

\* The first generation asks for no other.
LEMMA GenerationsNone == ASSUME NEW N, NEW f, NEW g PROVE Generations(N, 0, f) = Generations(N, 0, g)
BY DEF Generations

\* The recursive function of first_child_line() exists.
LEMMA LinesExist ==
    ASSUME NEW N, NEW m \in Nat
    PROVE  \E f : Lines(f, N, m)
<1> DEFINE T == {k \in Nat : \E f : Lines(f, N, k)}
<1>1. 0 \in T
  <2> DEFINE f == [n \in 0 .. 0 |-> Generations(N, n, <<>>)]
  <2>1. f = [n \in 0 .. 0 |-> Generations(N, n, f[n - 1])]
    <3>1. \A n \in 0 .. 0 : n = 0
      OBVIOUS
    <3>2. Generations(N, 0, <<>>) = Generations(N, 0, f[0 - 1])
      BY GenerationsNone
    <3>3. \A n \in 0 .. 0 : Generations(N, n, <<>>) = Generations(N, n, f[n - 1])
      BY <3>1, <3>2
    <3> QED
      BY <3>3
  <2>2. Lines(f, N, 0)
    BY <2>1 DEF Lines
  <2> QED
    BY <2>2
<1>2. ASSUME NEW k \in T PROVE k + 1 \in T
  <2>1. PICK f : Lines(f, N, k)
    BY <1>2
  <2>2. k \in Nat
    BY <1>2
  <2> DEFINE g == [n \in 0 .. k + 1 |-> IF n = k + 1 THEN Generations(N, n, f[n - 1]) ELSE f[n]]
  <2>3. ASSUME NEW n \in 0 .. k + 1 PROVE g[n] = Generations(N, n, g[n - 1])
    <3>1. CASE n = k + 1
      <4>1. n - 1 \in 0 .. k + 1 /\ n - 1 # k + 1
        BY <2>2, <3>1
      <4> QED
        BY <3>1, <4>1
    <3>2. CASE n # k + 1
      <4>1. n \in 0 .. k /\ g[n] = f[n]
        BY <2>2, <3>2
      <4>2. f[n] = Generations(N, n, f[n - 1])
        BY <2>1, <4>1 DEF Lines
      <4>3. n # 0 => f[n - 1] = g[n - 1]
        <5>1. n # 0 => n - 1 \in 0 .. k + 1 /\ n - 1 # k + 1
          BY <2>2, <4>1
        <5> QED
          BY <5>1
      <4>4. n = 0 => Generations(N, n, f[n - 1]) = Generations(N, n, g[n - 1])
        BY GenerationsNone
      <4> QED
        BY <4>1, <4>2, <4>3, <4>4
    <3> QED
      BY <3>1, <3>2
  <2>4. g = [n \in 0 .. k + 1 |-> g[n]]
    OBVIOUS
  <2> HIDE DEF g
  <2>5. Lines(g, N, k + 1)
    BY <2>3, <2>4 DEF Lines
  <2> QED
    BY <2>2, <2>5
<1> HIDE DEF T
<1>3. T = Nat
  BY <1>1, <1>2, SetInduction DEF T
<1> QED
  BY <1>3 DEF T

\* What first_child_line() is: the last value of that function, at the node.
LEMMA FirstChildLineIs ==
    ASSUME NEW N, NEW x
    PROVE  \E f : Lines(f, N, MaxNodes) /\ first_child_line(N, x) = f[MaxNodes][x]
<1> DEFINE w == CHOOSE f : f = [n \in 0 .. MaxNodes |-> [y \in DOMAIN N |->
                    IF n = 0 \/ N[y].kids = <<>> THEN <<y>>
                    ELSE <<y>> \o f[n - 1][Head(N[y].kids)]]]
<1>1. first_child_line(N, x) = w[MaxNodes][x]
  BY Zenon DEF first_child_line
<1>2. Lines(w, N, MaxNodes)
  <2>1. \E f : Lines(f, N, MaxNodes)
    BY LinesExist, MaxNodesAssumption
  <2> QED
    BY <2>1, Zenon DEF Lines, Generations
<1> QED
  BY <1>1, <1>2, Zenon

\* The line is of live nodes and begins with the node.
LEMMA LineWithin ==
    ASSUME NEW N, KidsLive(N), NEW x \in DOMAIN N
    PROVE  first_child_line(N, x) \in Seq(DOMAIN N) /\ first_child_line(N, x) # <<>>
<1>1. PICK f : Lines(f, N, MaxNodes) /\ first_child_line(N, x) = f[MaxNodes][x]
  BY FirstChildLineIs
<1> DEFINE Good(s) == s \in Seq(DOMAIN N) /\ s # <<>>
           All(k) == \A y \in DOMAIN N : Good(f[k][y])
           T == {k \in Nat : k <= MaxNodes => All(k)}
<1>2. ASSUME NEW y \in DOMAIN N PROVE <<y>> \in Seq(DOMAIN N) /\ <<y>> # <<>>
  OBVIOUS
<1>3. 0 \in T
  <2> SUFFICES ASSUME NEW y \in DOMAIN N PROVE Good(f[0][y])
    OBVIOUS
  <2>1. 0 \in 0 .. MaxNodes
    BY MaxNodesAssumption
  <2>2. f[0] = Generations(N, 0, f[0 - 1])
    BY <1>1, <2>1 DEF Lines
  <2>3. f[0][y] = <<y>>
    BY <2>2 DEF Generations
  <2> QED
    BY <1>2, <2>3
<1>4. ASSUME NEW k \in T PROVE k + 1 \in T
  <2> HIDE DEF All
  <2> SUFFICES ASSUME k + 1 <= MaxNodes PROVE All(k + 1)
    BY <1>4
  <2>1. /\ k \in Nat /\ k + 1 \in 0 .. MaxNodes /\ k + 1 # 0 /\ (k + 1) - 1 = k /\ All(k)
    BY <1>4, MaxNodesAssumption
  <2> HIDE DEF T
  <2> SUFFICES ASSUME NEW y \in DOMAIN N PROVE Good(f[k + 1][y])
    BY DEF All
  <2>2. f[k + 1] = Generations(N, k + 1, f[k])
    BY <1>1, <2>1 DEF Lines
  <2>3. f[k + 1][y] = IF N[y].kids = <<>> THEN <<y>> ELSE <<y>> \o f[k][Head(N[y].kids)]
    BY <2>1, <2>2 DEF Generations
  <2>4. CASE N[y].kids = <<>>
    BY <1>2, <2>3, <2>4
  <2>5. CASE N[y].kids # <<>>
    <3>1. Head(N[y].kids) \in DOMAIN N
      BY <2>5, HeadTailProperties DEF KidsLive
    <3> DEFINE g == f[k][Head(N[y].kids)]
               one == <<y>>
    <3>2. g \in Seq(DOMAIN N) /\ g # <<>>
      BY <2>1, <3>1 DEF All
    <3>3. one \in Seq(DOMAIN N) /\ one # <<>>
      BY <1>2
    <3>4. f[k + 1][y] = one \o g
      BY <2>3, <2>5
    <3> HIDE DEF one, g
    <3>5. one \o g \in Seq(DOMAIN N) /\ one \o g # <<>>
      BY <3>2, <3>3, ConcatProperties, ConcatEqualIffEmpty
    <3> QED
      BY <3>4, <3>5
  <2> QED
    BY <2>4, <2>5
<1> HIDE DEF T
<1>5. T = Nat
  BY <1>3, <1>4, SetInduction DEF T
<1>6. All(MaxNodes)
  <2> HIDE DEF All
  <2> QED
    BY <1>5, MaxNodesAssumption DEF T
<1> QED
  BY <1>1, <1>6

\* The last of the line is a live node.
LEMMA LineEnd ==
    ASSUME NEW N, KidsLive(N), NEW x \in DOMAIN N
    PROVE  Last(first_child_line(N, x)) \in DOMAIN N
<1> DEFINE s == first_child_line(N, x)
<1>1. s \in Seq(DOMAIN N) /\ s # <<>>
  BY LineWithin
<1> HIDE DEF s
<1>2. Len(s) \in 1 .. Len(s)
  BY <1>1, EmptySeq, LenProperties
<1>3. s[Len(s)] \in DOMAIN N
  BY <1>1, <1>2, ElementOfSeq
<1> QED
  BY <1>3 DEF Last, s

\* What the nodes hold when n have been visited, `before` what they held before.
Passing(N, visited, x, base, n, before) ==
    IF n = 0 THEN [y \in DOMAIN N |-> IF y = x THEN base ELSE N[y].cd]
    ELSE LET v == visited[n]
             sum == before[v] + difficulty[N[v].hash]
             below == ToSet(N[v].kids) \cap ToSet(visited)
         IN  [y \in DOMAIN N |-> IF y \in {v} \cup below THEN sum ELSE before[y]]

Passes(f, N, visited, x, base, m) ==
    f = [n \in 0 .. m |-> Passing(N, visited, x, base, n, f[n - 1])]

\* Before the first visit nothing was passed.
LEMMA PassingNone ==
    ASSUME NEW N, NEW visited, NEW x, NEW base, NEW f, NEW g
    PROVE  Passing(N, visited, x, base, 0, f) = Passing(N, visited, x, base, 0, g)
BY DEF Passing

\* The recursive function of accumulate() exists.
LEMMA PassesExist ==
    ASSUME NEW N, NEW visited, NEW x, NEW base, NEW m \in Nat
    PROVE  \E f : Passes(f, N, visited, x, base, m)
<1> DEFINE T == {k \in Nat : \E f : Passes(f, N, visited, x, base, k)}
<1>1. 0 \in T
  <2> DEFINE f == [n \in 0 .. 0 |-> Passing(N, visited, x, base, n, <<>>)]
  <2>1. f = [n \in 0 .. 0 |-> Passing(N, visited, x, base, n, f[n - 1])]
    <3>1. \A n \in 0 .. 0 : n = 0
      OBVIOUS
    <3>2. Passing(N, visited, x, base, 0, <<>>) = Passing(N, visited, x, base, 0, f[0 - 1])
      BY PassingNone
    <3>3. \A n \in 0 .. 0 : Passing(N, visited, x, base, n, <<>>) = Passing(N, visited, x, base, n, f[n - 1])
      BY <3>1, <3>2
    <3> QED
      BY <3>3
  <2>2. Passes(f, N, visited, x, base, 0)
    BY <2>1 DEF Passes
  <2> QED
    BY <2>2
<1>2. ASSUME NEW k \in T PROVE k + 1 \in T
  <2>1. PICK f : Passes(f, N, visited, x, base, k)
    BY <1>2
  <2>2. k \in Nat
    BY <1>2
  <2> DEFINE g == [n \in 0 .. k + 1 |-> IF n = k + 1 THEN Passing(N, visited, x, base, n, f[n - 1]) ELSE f[n]]
  <2>3. ASSUME NEW n \in 0 .. k + 1 PROVE g[n] = Passing(N, visited, x, base, n, g[n - 1])
    <3>1. CASE n = k + 1
      <4>1. n - 1 \in 0 .. k + 1 /\ n - 1 # k + 1
        BY <2>2, <3>1
      <4> QED
        BY <3>1, <4>1
    <3>2. CASE n # k + 1
      <4>1. n \in 0 .. k /\ g[n] = f[n]
        BY <2>2, <3>2
      <4>2. f[n] = Passing(N, visited, x, base, n, f[n - 1])
        BY <2>1, <4>1 DEF Passes
      <4>3. n # 0 => f[n - 1] = g[n - 1]
        <5>1. n # 0 => n - 1 \in 0 .. k + 1 /\ n - 1 # k + 1
          BY <2>2, <4>1
        <5> QED
          BY <5>1
      <4>4. n = 0 => Passing(N, visited, x, base, n, f[n - 1]) = Passing(N, visited, x, base, n, g[n - 1])
        BY PassingNone
      <4> QED
        BY <4>1, <4>2, <4>3, <4>4
    <3> QED
      BY <3>1, <3>2
  <2>4. g = [n \in 0 .. k + 1 |-> g[n]]
    OBVIOUS
  <2> HIDE DEF g
  <2>5. Passes(g, N, visited, x, base, k + 1)
    BY <2>3, <2>4 DEF Passes
  <2> QED
    BY <2>2, <2>5
<1> HIDE DEF T
<1>3. T = Nat
  BY <1>1, <1>2, SetInduction DEF T
<1> QED
  BY <1>3 DEF T

\* M is N with the difficulties cd.
WithDifficulties(M, N, cd) == M = [y \in DOMAIN N |-> [N[y] EXCEPT !.cd = cd[y]]]

\* What accumulate() is: the nodes with the last sums of that function.
LEMMA AccumulateSums ==
    ASSUME NEW N, NEW visited, NEW x, NEW base, Len(visited) \in Nat
    PROVE  \E f : /\ Passes(f, N, visited, x, base, Len(visited))
                  /\ WithDifficulties(accumulate(N, visited, x, base), N, f[Len(visited)])
<1> DEFINE w == CHOOSE f : f = [n \in 0 .. Len(visited) |->
                    IF n = 0 THEN [y \in DOMAIN N |-> IF y = x THEN base ELSE N[y].cd]
                    ELSE LET before == f[n - 1]
                             v == visited[n]
                             sum == before[v] + difficulty[N[v].hash]
                             below == ToSet(N[v].kids) \cap ToSet(visited)
                         IN  [y \in DOMAIN N |-> IF y \in {v} \cup below THEN sum ELSE before[y]]]
<1>1. WithDifficulties(accumulate(N, visited, x, base), N, w[Len(visited)])
  BY Zenon DEF accumulate, WithDifficulties
<1>2. Passes(w, N, visited, x, base, Len(visited))
  <2>1. \E f : Passes(f, N, visited, x, base, Len(visited))
    BY PassesExist
  <2> QED
    BY <2>1, Zenon DEF Passes, Passing
<1> QED
  BY <1>1, <1>2, Zenon

\* The last n visited have yet to be compared with the heir.
Comparing(N, visited, n, others) ==
    [heir \in Ptr \cup {Null} |->
        IF n = 0 THEN heir
        ELSE LET node == visited[Len(visited) - n + 1]
             IN  others[IF heir = Null \/ N[node].cd > N[heir].cd THEN node ELSE heir]]

Compares(f, N, visited, m) == f = [n \in 0 .. m |-> Comparing(N, visited, n, f[n - 1])]

\* Before the first comparison there were no others.
LEMMA ComparingNone == ASSUME NEW N, NEW visited, NEW f, NEW g PROVE Comparing(N, visited, 0, f) = Comparing(N, visited, 0, g)
BY DEF Comparing

\* The recursive function of longest_offspring() exists.
LEMMA ComparesExist ==
    ASSUME NEW N, NEW visited, NEW m \in Nat
    PROVE  \E f : Compares(f, N, visited, m)
<1> DEFINE T == {k \in Nat : \E f : Compares(f, N, visited, k)}
<1>1. 0 \in T
  <2> DEFINE f == [n \in 0 .. 0 |-> Comparing(N, visited, n, <<>>)]
  <2>1. f = [n \in 0 .. 0 |-> Comparing(N, visited, n, f[n - 1])]
    <3>1. \A n \in 0 .. 0 : n = 0
      OBVIOUS
    <3>2. Comparing(N, visited, 0, <<>>) = Comparing(N, visited, 0, f[0 - 1])
      BY ComparingNone
    <3>3. \A n \in 0 .. 0 : Comparing(N, visited, n, <<>>) = Comparing(N, visited, n, f[n - 1])
      BY <3>1, <3>2
    <3> QED
      BY <3>3
  <2>2. Compares(f, N, visited, 0)
    BY <2>1 DEF Compares
  <2> QED
    BY <2>2
<1>2. ASSUME NEW k \in T PROVE k + 1 \in T
  <2>1. PICK f : Compares(f, N, visited, k)
    BY <1>2
  <2>2. k \in Nat
    BY <1>2
  <2> DEFINE g == [n \in 0 .. k + 1 |-> IF n = k + 1 THEN Comparing(N, visited, n, f[n - 1]) ELSE f[n]]
  <2>3. ASSUME NEW n \in 0 .. k + 1 PROVE g[n] = Comparing(N, visited, n, g[n - 1])
    <3>1. CASE n = k + 1
      <4>1. n - 1 \in 0 .. k + 1 /\ n - 1 # k + 1
        BY <2>2, <3>1
      <4> QED
        BY <3>1, <4>1
    <3>2. CASE n # k + 1
      <4>1. n \in 0 .. k /\ g[n] = f[n]
        BY <2>2, <3>2
      <4>2. f[n] = Comparing(N, visited, n, f[n - 1])
        BY <2>1, <4>1 DEF Compares
      <4>3. n # 0 => f[n - 1] = g[n - 1]
        <5>1. n # 0 => n - 1 \in 0 .. k + 1 /\ n - 1 # k + 1
          BY <2>2, <4>1
        <5> QED
          BY <5>1
      <4>4. n = 0 => Comparing(N, visited, n, f[n - 1]) = Comparing(N, visited, n, g[n - 1])
        BY ComparingNone
      <4> QED
        BY <4>1, <4>2, <4>3, <4>4
    <3> QED
      BY <3>1, <3>2
  <2>4. g = [n \in 0 .. k + 1 |-> g[n]]
    OBVIOUS
  <2> HIDE DEF g
  <2>5. Compares(g, N, visited, k + 1)
    BY <2>3, <2>4 DEF Compares
  <2> QED
    BY <2>2, <2>5
<1> HIDE DEF T
<1>3. T = Nat
  BY <1>1, <1>2, SetInduction DEF T
<1> QED
  BY <1>3 DEF T

\* What longest_offspring() is: the last value of that function, at the start.
LEMMA LongestIs ==
    ASSUME NEW N, NEW x, NEW start, Len(offspring(N, x)) \in Nat
    PROVE  \E f : /\ Compares(f, N, offspring(N, x), Len(offspring(N, x)))
                  /\ longest_offspring(N, x, start) = f[Len(offspring(N, x))][start]
<1> DEFINE s == offspring(N, x)
           w == CHOOSE f : f = [n \in 0 .. Len(s) |-> [heir \in Ptr \cup {Null} |->
                    IF n = 0 THEN heir
                    ELSE LET node == s[Len(s) - n + 1]
                         IN  f[n - 1][IF heir = Null \/ N[node].cd > N[heir].cd THEN node
                                      ELSE heir]]]
<1>1. longest_offspring(N, x, start) = w[Len(s)][start]
  BY Zenon DEF longest_offspring
<1>2. Compares(w, N, s, Len(s))
  <2>1. \E f : Compares(f, N, s, Len(s))
    <3> HIDE DEF s
    <3> QED
      BY ComparesExist DEF s
  <2> QED
    BY <2>1, Zenon DEF Compares, Comparing
<1> QED
  BY <1>1, <1>2, Zenon

\* The longest of them is an address, or still the one it began with.
LEMMA LongestWithin ==
    ASSUME NEW N, KidsLive(N), DOMAIN N \subseteq Ptr, NEW x \in DOMAIN N,
           NEW start \in Ptr \cup {Null}
    PROVE  longest_offspring(N, x, start) \in Ptr \cup {Null}
<1> DEFINE s == offspring(N, x)
<1>1. s \in Seq(DOMAIN N)
  <2>1. Closed(N, DOMAIN N)
    BY ToSetProps DEF Closed, KidsLive
  <2> QED
    BY <2>1, OffspringWithin
<1>2. Len(s) \in Nat /\ \A i \in 1 .. Len(s) : s[i] \in Ptr
  BY <1>1, LenProperties, ElementOfSeq
<1>3. PICK f : Compares(f, N, s, Len(s)) /\ longest_offspring(N, x, start) = f[Len(s)][start]
  BY <1>2, LongestIs
<1> HIDE DEF s
<1> DEFINE len == Len(s)
           All(k) == \A heir \in Ptr \cup {Null} : f[k][heir] \in Ptr \cup {Null}
           T == {k \in Nat : k <= len => All(k)}
<1>4. len \in Nat
  BY <1>2
<1>5. 0 \in T
  <2> SUFFICES ASSUME NEW heir \in Ptr \cup {Null} PROVE f[0][heir] \in Ptr \cup {Null}
    OBVIOUS
  <2>1. 0 \in 0 .. len
    BY <1>4
  <2>2. f[0] = Comparing(N, s, 0, f[0 - 1])
    BY <1>3, <2>1 DEF Compares
  <2> QED
    BY <2>2 DEF Comparing
<1>6. ASSUME NEW k \in T PROVE k + 1 \in T
  <2> HIDE DEF All, len
  <2> SUFFICES ASSUME k + 1 <= len PROVE All(k + 1)
    BY <1>6
  <2>1. k \in Nat /\ k + 1 \in 0 .. len /\ k + 1 # 0 /\ (k + 1) - 1 = k /\ All(k)
    BY <1>4, <1>6
  <2> HIDE DEF T
  <2> SUFFICES ASSUME NEW heir \in Ptr \cup {Null} PROVE f[k + 1][heir] \in Ptr \cup {Null}
    BY DEF All
  <2>2. f[k + 1] = Comparing(N, s, k + 1, f[k])
    BY <1>3, <2>1 DEF Compares, len
  <2> DEFINE node == s[Len(s) - (k + 1) + 1]
             next == IF heir = Null \/ N[node].cd > N[heir].cd THEN node ELSE heir
  <2>3. f[k + 1][heir] = f[k][next]
    BY <2>1, <2>2 DEF Comparing
  <2>4. node \in Ptr
    <3>1. Len(s) - (k + 1) + 1 \in 1 .. Len(s)
      BY <1>4, <2>1 DEF len
    <3> QED
      BY <1>2, <3>1
  <2> HIDE DEF node
  <2>5. next \in Ptr \cup {Null}
    BY <2>4
  <2> QED
    BY <2>1, <2>3, <2>5 DEF All
<1> HIDE DEF T, All
<1>7. T = Nat
  BY <1>5, <1>6, SetInduction DEF T
<1>8. All(len)
  BY <1>4, <1>7 DEF T
<1> QED
  BY <1>3, <1>8 DEF All, len

-----------------------------------------------------------------------------
(* Types *)

\* What a node holds beside its children.
Scalar(n) ==
    /\ n.hash \in Hashes /\ n.prev \in Hashes /\ n.complete \in BOOLEAN
    /\ n.cd \in Nat /\ n.parent \in Ptr \cup {Null}

Scalars(N) == \A y \in DOMAIN N : DOMAIN N[y] = Fields /\ Scalar(N[y])

\* Adding up difficulties gives sums of difficulties.
LEMMA AccumulateScalars ==
    ASSUME NEW N, Scalars(N), NEW visited \in Seq(DOMAIN N), NEW x, NEW base \in Nat
    PROVE  Scalars(accumulate(N, visited, x, base))
<1> DEFINE len == Len(visited)
<1>1. len \in Nat /\ \A i \in 1 .. len : visited[i] \in DOMAIN N
  BY LenProperties, ElementOfSeq
<1>2. PICK f : /\ Passes(f, N, visited, x, base, len)
               /\ WithDifficulties(accumulate(N, visited, x, base), N, f[len])
  BY <1>1, AccumulateSums
<1> HIDE DEF len
<1> DEFINE T == {k \in Nat : k <= len => f[k] \in [DOMAIN N -> Nat]}
<1>3. 0 \in T
  <2>1. 0 \in 0 .. len
    BY <1>1
  <2>2. f[0] = Passing(N, visited, x, base, 0, f[0 - 1])
    BY <1>2, <2>1 DEF Passes
  <2>3. f[0] = [y \in DOMAIN N |-> IF y = x THEN base ELSE N[y].cd]
    BY <2>2 DEF Passing
  <2> QED
    BY <2>3 DEF Scalars, Scalar
<1>4. ASSUME NEW k \in T PROVE k + 1 \in T
  <2> SUFFICES ASSUME k + 1 <= len PROVE f[k + 1] \in [DOMAIN N -> Nat]
    BY <1>4
  <2>1. /\ k \in Nat /\ k + 1 \in 0 .. len /\ k + 1 \in 1 .. len /\ k + 1 # 0 /\ (k + 1) - 1 = k
        /\ f[k] \in [DOMAIN N -> Nat]
    BY <1>1, <1>4
  <2> HIDE DEF T
  <2>2. f[k + 1] = Passing(N, visited, x, base, k + 1, f[k])
    BY <1>2, <2>1 DEF Passes
  <2> DEFINE v == visited[k + 1]
             sum == f[k][v] + difficulty[N[v].hash]
             below == ToSet(N[v].kids) \cap ToSet(visited)
  <2>3. f[k + 1] = [y \in DOMAIN N |-> IF y \in {v} \cup below THEN sum ELSE f[k][y]]
    BY <2>1, <2>2 DEF Passing
  <2>4. v \in DOMAIN N
    BY <1>1, <2>1
  <2>5. sum \in Nat
    <3>1. difficulty[N[v].hash] \in Nat
      BY <2>4, HeadersAssumption DEF Scalars, Scalar
    <3>2. f[k][v] \in Nat
      BY <2>1, <2>4
    <3> QED
      BY <3>1, <3>2
  <2> HIDE DEF v, sum, below
  <2> QED
    BY <2>1, <2>3, <2>5
<1> HIDE DEF T
<1>5. T = Nat
  BY <1>3, <1>4, SetInduction DEF T
<1>6. f[len] \in [DOMAIN N -> Nat]
  BY <1>1, <1>5 DEF T
<1> DEFINE M == accumulate(N, visited, x, base)
           cd == f[len]
<1>7. M = [y \in DOMAIN N |-> [N[y] EXCEPT !.cd = cd[y]]]
  BY <1>2 DEF WithDifficulties
<1> HIDE DEF M, cd
<1>8. \A y \in DOMAIN N : cd[y] \in Nat
  BY <1>6 DEF cd
<1>9. Scalars(M)
  BY <1>7, <1>8 DEF Scalars, Scalar, Fields
<1> QED
  BY <1>9 DEF M

\* The whole family of x, or its line of first children.
LEMMA UpdateScalars ==
    ASSUME NEW N, KidsLive(N), Scalars(N), NEW x \in DOMAIN N, NEW base \in Nat
    PROVE  /\ Scalars(block_info_update_cumulative_difficulty(N, x, base))
           /\ Scalars(update_first_child_cumulative_difficulty(N, x, base))
<1>1. offspring(N, x) \in Seq(DOMAIN N)
  <2>1. Closed(N, DOMAIN N)
    BY ToSetProps DEF Closed, KidsLive
  <2> QED
    BY <2>1, OffspringWithin
<1>2. first_child_line(N, x) \in Seq(DOMAIN N)
  BY LineWithin
<1>3. Scalars(accumulate(N, offspring(N, x), x, base))
  BY <1>1, AccumulateScalars
<1>4. Scalars(accumulate(N, first_child_line(N, x), x, base))
  BY <1>2, AccumulateScalars
<1> QED
  BY <1>3, <1>4 DEF block_info_update_cumulative_difficulty, update_first_child_cumulative_difficulty

\* Children that change places hold what they held.
LEMMA DeclareScalars ==
    ASSUME NEW N, Scalars(N), NEW x
    PROVE  Scalars(block_info_declare_inheritance(N, x))
<1> DEFINE M == block_info_declare_inheritance(N, x)
<1>1. DOMAIN M = DOMAIN N /\ \A y \in DOMAIN N : M[y] = N[y] \/ \E k : M[y] = [N[y] EXCEPT !.kids = k]
  BY DEF block_info_declare_inheritance
<1> HIDE DEF M
<1>2. ASSUME NEW y \in DOMAIN N PROVE DOMAIN M[y] = Fields /\ Scalar(M[y])
  <2>1. CASE M[y] = N[y]
    BY <2>1 DEF Scalars
  <2>2. CASE \E k : M[y] = [N[y] EXCEPT !.kids = k]
    <3>1. PICK k : M[y] = [N[y] EXCEPT !.kids = k]
      BY <2>2
    <3> QED
      BY <3>1 DEF Scalars, Scalar, Fields
  <2> QED
    BY <1>1, <2>1, <2>2
<1>3. Scalars(M)
  BY <1>1, <1>2 DEF Scalars
<1> QED
  BY <1>3 DEF M

\* The types of what TypeOK says of the candidates, beyond IInv.
ListTypes ==
    /\ Scalars(info)
    /\ \A c \in Heads : longest_end[c] \in Ptr \cup {Null}

\* With a family tree as it should be, its children are live nodes.
LEMMA NodesKidsLive ==
    ASSUME NEW N, NEW H, NodesOK(N, H)
    PROVE  KidsLive(N)
<1>1. DOMAIN N \ H \subseteq DOMAIN N
  OBVIOUS
<1> QED
  BY <1>1, SeqMonotonic DEF NodesOK, KidsLive

\* The same before difficulties were added up as after.
LEMMA KidsLiveBefore ==
    ASSUME NEW M, NEW N, OtherDifficulties(M, N), NEW H, NodesOK(M, H), Scalars(N)
    PROVE  KidsLive(N) /\ DOMAIN N = DOMAIN M
<1>1. PICK cd : M = [y \in DOMAIN N |-> [N[y] EXCEPT !.cd = cd[y]]]
  BY DEF OtherDifficulties
<1>2. DOMAIN M = DOMAIN N /\ \A y \in DOMAIN N : M[y].kids = N[y].kids
  BY <1>1 DEF Scalars, Fields
<1>3. KidsLive(M)
  BY NodesKidsLive
<1> QED
  BY <1>2, <1>3 DEF KidsLive

\* A new node with a header of its own and the sums of its offspring.
LEMMA EnrolTypes ==
    ASSUME IInv, IInv', ListTypes, fault = "none", NEW b \in Blocks, Enrol(b)
    PROVE  ListTypes'
<1>1. CASE ClaimLoops(b)
  BY <1>1 DEF Enrol, Fail, listVars, ListTypes, Heads
<1>2. CASE ~ClaimLoops(b)
  <2> DEFINE x == new_node(info)
             kids == Claimed(b)
             heads == {h \in DOMAIN longest_end : b \in DOMAIN list_root /\ h = list_root[b]}
             renounce == [y \in DOMAIN info \ heads |->
                            IF y \in ToSet(kids) THEN [info[y] EXCEPT !.parent = x]
                            ELSE IF b \in DOMAIN list_root /\ y = list_root[b]
                                 THEN [info[y] EXCEPT !.kids = <<>>]
                                 ELSE info[y]]
             node == block_info(b, prev_hash[b], TRUE, kids, 0)
             N == Put(renounce, x, node)
  <2>1. /\ CanAllocate(info)
        /\ info' = block_info_update_cumulative_difficulty(N, x, 0)
        /\ longest_end' = list_remove(longest_end, heads)
        /\ fault' = fault
    BY <1>2 DEF Enrol, Enrolled
  <2>2. x \in Ptr
    BY <2>1, NewNode
  <2>3. b \in Hashes /\ prev_hash[b] \in Hashes
    BY HeadersAssumption DEF Hashes
  <2> HIDE DEF x, kids, heads
  <2>4. Scalars(renounce)
    BY <2>2 DEF ListTypes, Scalars, Scalar, Fields
  <2>5. DOMAIN node = Fields /\ Scalar(node)
    BY <2>3 DEF block_info, Fields, Scalar, Null
  <2> HIDE DEF renounce, node
  <2>12. N = Put(renounce, x, node)
    OBVIOUS
  <2> HIDE DEF N
  <2>6. x \in DOMAIN N /\ Scalars(N)
    BY <2>4, <2>5, <2>12 DEF Put, Scalars
  <2>7. OtherDifficulties(info', N)
    BY <2>1, AccumulateIs DEF block_info_update_cumulative_difficulty
  <2>8. NodesOK(info', Heads')
    BY <2>1 DEF IInv, ListInv
  <2>9. KidsLive(N)
    BY <2>6, <2>7, <2>8, KidsLiveBefore
  <2>10. Scalars(info')
    BY <2>1, <2>6, <2>9, UpdateScalars
  <2>11. \A c \in Heads' : longest_end'[c] \in Ptr \cup {Null}
    BY <2>1 DEF list_remove, Without, Heads, ListTypes
  <2> QED
    BY <2>10, <2>11 DEF ListTypes
<1> QED
  BY <1>1, <1>2

\* The sums start from the parent's; the longest offspring is live.
LEMMA RuleIITypes ==
    ASSUME IInv, ListTypes, RuleII
    PROVE  ListTypes'
<1> DEFINE x == op.child
           parent == list_root[info[x].prev]
           c == get_current_chain(info, parent)
           joined == [info EXCEPT ![parent].kids = Append(@, x), ![x].parent = parent]
           summed == block_info_update_cumulative_difficulty(joined, x, info[parent].cd)
           end == longest_offspring(summed, x, Null)
<1>1. op.pc = "rule1" /\ fault = "none" /\ info[x].prev \in DOMAIN list_root
  BY DEF RuleII
<1>2. CASE c \notin DOMAIN longest_end
  BY <1>2 DEF RuleII, Fail, listVars, ListTypes, Heads
<1>3. CASE c \in DOMAIN longest_end
  <2>1. /\ \E differ \in MayDiffer(longest_end[c], end) :
              info' = IF differ THEN block_info_declare_inheritance(summed, end) ELSE summed
        /\ longest_end' = [longest_end EXCEPT ![c] = end]
    BY <1>3 DEF RuleII
  <2>2. NodesOK(info, Heads) /\ RootOK(info, list_root) /\ x \in Relatives
    BY <1>1 DEF IInv, ListInv, OpOK
  <2>3. parent \in DOMAIN info /\ x \in DOMAIN info /\ DOMAIN info \subseteq Ptr
    BY <1>1, <2>2 DEF RootOK, NodesOK, Relatives
  <2>4. KidsLive(info)
    BY <2>2, NodesKidsLive
  <2>5. Append(info[parent].kids, x) \in Seq(DOMAIN info) /\ info[parent].cd \in Nat
    BY <2>3, <2>4, AppendProperties DEF KidsLive, ListTypes, Scalars, Scalar
  <2> HIDE DEF x, parent, c
  <2>6. /\ DOMAIN joined = DOMAIN info
        /\ \A y \in DOMAIN info :
              /\ DOMAIN joined[y] = Fields
              /\ joined[y].hash = info[y].hash /\ joined[y].prev = info[y].prev
              /\ joined[y].complete = info[y].complete /\ joined[y].cd = info[y].cd
              /\ joined[y].parent = IF y = x THEN parent ELSE info[y].parent
              /\ joined[y].kids = IF y = parent THEN Append(info[parent].kids, x)
                                  ELSE info[y].kids
    BY <2>3 DEF ListTypes, Scalars, Fields
  <2> HIDE DEF joined
  <2>7. Scalars(joined)
    <3>1. parent \in Ptr
      BY <2>3
    <3> QED
      BY <2>6, <3>1 DEF ListTypes, Scalars, Scalar
  <2>8. KidsLive(joined)
    BY <2>4, <2>5, <2>6 DEF KidsLive
  <2>9. Scalars(summed)
    BY <2>3, <2>5, <2>6, <2>7, <2>8, UpdateScalars
  <2>10. OtherDifficulties(summed, joined)
    BY AccumulateIs DEF block_info_update_cumulative_difficulty
  <2> HIDE DEF summed
  <2>11. PICK cd : summed = [y \in DOMAIN joined |-> [joined[y] EXCEPT !.cd = cd[y]]]
    BY <2>10 DEF OtherDifficulties
  <2>12. DOMAIN summed = DOMAIN joined /\ \A y \in DOMAIN joined : summed[y].kids = joined[y].kids
    BY <2>7, <2>11 DEF Scalars, Fields
  <2>13. KidsLive(summed)
    BY <2>8, <2>12 DEF KidsLive
  <2>14. end \in Ptr \cup {Null}
    BY <2>3, <2>6, <2>12, <2>13, LongestWithin
  <2> HIDE DEF end
  <2>15. Scalars(block_info_declare_inheritance(summed, end))
    BY <2>9, DeclareScalars
  <2>16. Scalars(info')
    BY <2>1, <2>9, <2>15
  <2>17. \A e \in Heads' : longest_end'[e] \in Ptr \cup {Null}
    BY <1>3, <2>1, <2>14 DEF Heads, ListTypes
  <2> QED
    BY <2>16, <2>17 DEF ListTypes
<1> QED
  BY <1>2, <1>3

\* The sums start from zero, below a head with the header's parent.
LEMMA RuleIIITypes ==
    ASSUME IInv, IInv', ListTypes, RuleIII
    PROVE  ListTypes'
<1> DEFINE x == op.child
           c == new_node(info)
           p == info[x].prev
           head == chain_head(p, <<x>>)
           put == Put(info, c, head)
           headed == [put EXCEPT ![x].parent = c]
           summed == block_info_update_cumulative_difficulty(headed, x, 0)
           start == Last(first_child_line(summed, x))
           end == longest_offspring(summed, x, start)
<1>1. /\ op.pc = "rule1" /\ fault = "none" /\ CanAllocate(info)
      /\ info' = summed
      /\ longest_end' = list_add(longest_end, c, end)
      /\ fault' = fault
  BY DEF RuleIII
<1>2. NodesOK(info, Heads) /\ x \in Relatives
  BY <1>1 DEF IInv, ListInv, OpOK
<1>3. c \in Ptr /\ c \notin DOMAIN info
  BY <1>1, NewNode
<1>4. x \in DOMAIN info /\ x # c
  BY <1>2, <1>3 DEF Relatives
<1>5. p \in Hashes
  BY <1>4 DEF ListTypes, Scalars, Scalar
<1> HIDE DEF x, c, p
<1>6. DOMAIN head = Fields /\ Scalar(head)
  BY <1>5 DEF chain_head, block_info, Fields, Scalar, Null
<1> HIDE DEF head
<1>7. DOMAIN put = DOMAIN info \cup {c} /\ Scalars(put)
  BY <1>6 DEF Put, Scalars, ListTypes
<1> HIDE DEF put
<1>8. DOMAIN headed = DOMAIN put /\ Scalars(headed)
  BY <1>3, <1>7 DEF Scalars, Scalar, Fields
<1> HIDE DEF headed
<1>9. x \in DOMAIN headed
  BY <1>4, <1>7, <1>8
<1>10. OtherDifficulties(summed, headed)
  BY AccumulateIs DEF block_info_update_cumulative_difficulty
<1>11. NodesOK(summed, Heads')
  BY <1>1 DEF IInv, ListInv
<1>12. KidsLive(headed) /\ DOMAIN headed = DOMAIN summed /\ KidsLive(summed)
  <2> HIDE DEF summed
  <2> QED
    BY <1>8, <1>10, <1>11, KidsLiveBefore, NodesKidsLive
<1>13. Scalars(summed)
  BY <1>8, <1>9, <1>12, UpdateScalars
<1> HIDE DEF summed
<1>14. DOMAIN summed \subseteq Ptr
  BY <1>11 DEF NodesOK
<1>15. start \in Ptr \cup {Null}
  BY <1>9, <1>12, <1>14, LineEnd
<1> HIDE DEF start
<1>16. end \in Ptr \cup {Null}
  BY <1>9, <1>12, <1>14, <1>15, LongestWithin
<1> HIDE DEF end
<1>17. \A e \in Heads' : longest_end'[e] \in Ptr \cup {Null}
  BY <1>1, <1>16 DEF Heads, ListTypes, list_add, Put
<1> QED
  BY <1>1, <1>13, <1>17 DEF ListTypes

\* The sums start from the heir at the fork.
LEMMA RuleIVTypes ==
    ASSUME IInv, ListTypes, RuleIV
    PROVE  ListTypes'
<1> DEFINE c == op.chain
           h == info[c].hash
           first == Head(info[c].kids)
           fork == search_root[h]
           base == heirs[fork].cd
           summed == update_first_child_cumulative_difficulty(info, first, base)
<1>1. op.pc = "rule4" /\ fault = "none" /\ longest_end' = longest_end
  BY DEF RuleIV
<1>2. NodesOK(info, Heads) /\ HeadsLead(info, Heads, op) /\ c \in Heads
  BY <1>1 DEF IInv, ListInv, OpOK
<1>3. CASE h \notin DOMAIN search_root
  BY <1>1, <1>3 DEF RuleIV, ListTypes, Heads
<1>4. CASE h \in DOMAIN search_root
  <2>1. info' = summed
    BY <1>4 DEF RuleIV, blockchain_find
  <2>2. base \in Nat
    <3>1. heirs \in Seq(Heir) /\ fork \in 1 .. Len(heirs)
      BY <1>4, LenProperties DEF IInv, MainInv, SearchRootExact
    <3>2. heirs[fork] \in Heir
      BY <3>1, ElementOfSeq
    <3> QED
      BY <3>2 DEF Heir
  <2>3. first \in DOMAIN info
    <3>1. info[c].kids \in Seq(DOMAIN info \ Heads) /\ info[c].kids # <<>>
      BY <1>1, <1>2 DEF NodesOK, HeadsLead
    <3> QED
      BY <3>1, HeadTailProperties
  <2>4. KidsLive(info) /\ Scalars(info)
    BY <1>2, NodesKidsLive DEF ListTypes
  <2> HIDE DEF base, first
  <2>5. Scalars(summed)
    BY <2>2, <2>3, <2>4, UpdateScalars
  <2> QED
    BY <1>1, <2>1, <2>5 DEF ListTypes, Heads
<1> QED
  BY <1>3, <1>4

\* A node made from an heir has the heir's difficulty.
LEMMA AbandonChildTypes ==
    ASSUME IInv, ListTypes, AbandonChild
    PROVE  ListTypes'
<1> DEFINE last == Last(heirs)
           x == new_node(info)
           child == eldest(op.orphans)
           n == Len(heirs)
           orphan == abandon_child(heirs[n - 1], last, child)
           below == [y \in DOMAIN info |-> IF y \in ToSet(child)
                                           THEN [info[y] EXCEPT !.parent = x] ELSE info[y]]
<1>1. /\ op.pc = "reorg" /\ fault = "none" /\ n > op.fork /\ CanAllocate(info)
      /\ info' = Put(below, x, orphan) /\ longest_end' = longest_end
  BY DEF AbandonChild
<1>2. x \in Ptr /\ x \notin DOMAIN info
  BY <1>1, NewNode
<1>3. n \in 1 .. n /\ n - 1 \in 1 .. n /\ heirs \in Seq(Heir)
  <2>1. op \in OpType /\ op.fork >= 1
    BY <1>1, ReorgFacts
  <2>2. n \in Nat /\ op.fork \in Nat /\ heirs \in Seq(Heir)
    BY <2>1, LenProperties DEF IInv, MainInv, OpType
  <2> QED
    BY <1>1, <2>1, <2>2
<1>4. last \in Heir /\ heirs[n - 1] \in Heir
  BY <1>3, ElementOfSeq DEF Last
<1> HIDE DEF last, x, child, n
<1>5. DOMAIN orphan = Fields /\ Scalar(orphan)
  BY <1>4 DEF abandon_child, block_info, Fields, Scalar, Heir, Null
<1>6. DOMAIN below = DOMAIN info /\ Scalars(below)
  BY <1>2 DEF ListTypes, Scalars, Scalar, Fields
<1> HIDE DEF orphan, below
<1>7. Scalars(info')
  BY <1>1, <1>5, <1>6 DEF Put, Scalars
<1> QED
  BY <1>1, <1>7 DEF ListTypes, Heads

\* Only the children of the chain's head change.
LEMMA LeaveChainTypes ==
    ASSUME ListTypes, LeaveChain
    PROVE  ListTypes'
<1>1. longest_end' = longest_end /\ (info' = info \/ \E k : info' = [info EXCEPT ![op.chain].kids = k])
  BY DEF LeaveChain, Fail, listVars
<1>2. CASE info' = info
  BY <1>1, <1>2 DEF ListTypes, Heads
<1>3. CASE info' # info
  <2>1. PICK k : info' = [info EXCEPT ![op.chain].kids = k]
    BY <1>1, <1>3
  <2>2. DOMAIN info' = DOMAIN info
    BY <2>1
  <2>3. ASSUME NEW y \in DOMAIN info PROVE DOMAIN info'[y] = Fields /\ Scalar(info'[y])
    <3>1. CASE y = op.chain
      <4>1. info'[y] = [info[y] EXCEPT !.kids = k]
        BY <2>1, <3>1
      <4> QED
        BY <4>1 DEF ListTypes, Scalars, Scalar, Fields
    <3>2. CASE y # op.chain
      BY <2>1, <3>2 DEF ListTypes, Scalars
    <3> QED
      BY <3>1, <3>2
  <2> QED
    BY <1>1, <2>2, <2>3 DEF ListTypes, Scalars, Heads
<1> QED
  BY <1>2, <1>3

\* The new head's longest end is the end of the leader's line.
LEMMA AbandonSiblingsTypes ==
    ASSUME IInv, ListTypes, AbandonSiblings
    PROVE  ListTypes'
<1> DEFINE elder == op.line[op.level - 1]
           siblings == Tail(info[elder].kids)
           c == new_node(info)
           leader == Head(siblings)
           moved == [info EXCEPT ![elder].kids = <<op.line[op.level]>>, ![leader].parent = c]
           p == info[leader].prev
           head == chain_head(p, siblings)
           end == Last(first_child_line(info, leader))
<1>1. op.pc = "siblings" /\ fault = "none" /\ op.level <= Len(op.line) /\ CanAllocate(info)
  BY DEF AbandonSiblings
<1>2. CASE siblings = <<>>
  BY <1>2 DEF AbandonSiblings, listVars, ListTypes, Heads
<1>3. CASE siblings # <<>>
  <2>1. info' = Put(moved, c, head) /\ longest_end' = list_add(longest_end, c, end)
    BY <1>3 DEF AbandonSiblings
  <2>2. c \in Ptr /\ c \notin DOMAIN info
    BY <1>1, NewNode
  <2>3. elder \in Relatives /\ NodesOK(info, Heads) /\ Relatives \subseteq DOMAIN info
        /\ info[elder].kids \in Seq(Relatives) /\ info[elder].kids # <<>>
    <3>1. /\ NodesOK(info, Heads) /\ op \in OpType /\ op.line \in Seq(Relatives)
          /\ LineOK(op, info) /\ Len(op.line) \in Nat /\ Relatives \subseteq DOMAIN info
      BY <1>1, ReorgFacts
    <3>2. op.level \in Nat /\ op.level >= 2
      BY <1>1, <3>1 DEF IInv, ListInv, OpOK, OpType
    <3>3. op.level - 1 \in 1 .. Len(op.line) /\ op.level - 1 < Len(op.line)
      BY <1>1, <3>1, <3>2
    <3>4. elder \in Relatives /\ info[elder].kids # <<>>
      BY <1>1, <3>1, <3>3, ElementOfSeq DEF LineOK
    <3> QED
      BY <3>1, <3>4 DEF NodesOK, Relatives
  <2>4. leader \in DOMAIN info /\ DOMAIN info \subseteq Ptr
    <3>1. siblings \in Seq(Relatives)
      BY <2>3, HeadTailProperties
    <3>2. leader \in Relatives
      BY <1>3, <3>1, HeadTailProperties
    <3> QED
      BY <2>3, <3>2 DEF NodesOK
  <2>5. end \in Ptr
    <3>1. KidsLive(info)
      BY <2>3, NodesKidsLive
    <3> QED
      BY <2>4, <3>1, LineEnd
  <2>6. p \in Hashes
    BY <2>4 DEF ListTypes, Scalars, Scalar
  <2>7. elder \in DOMAIN info
    BY <2>3
  <2> HIDE DEF elder, siblings, c, leader, p, end
  <2>8. DOMAIN head = Fields /\ Scalar(head)
    BY <2>6 DEF chain_head, block_info, Fields, Scalar, Null
  <2>9. Scalars(moved)
    BY <2>2, <2>4, <2>7 DEF ListTypes, Scalars, Scalar, Fields
  <2> HIDE DEF head, moved
  <2>10. Scalars(info')
    BY <2>1, <2>8, <2>9 DEF Put, Scalars
  <2>11. \A e \in Heads' : longest_end'[e] \in Ptr \cup {Null}
    BY <2>1, <2>5 DEF Heads, ListTypes, list_add, Put
  <2> QED
    BY <2>10, <2>11 DEF ListTypes
<1> QED
  BY <1>2, <1>3

\* What is left keeps its types; a freed longest_end becomes Null.
LEMMA DestroySuccessorTypes ==
    ASSUME ListTypes, DestroySuccessor
    PROVE  ListTypes'
<1>1. \E gone : /\ info' = Without(info, gone)
                /\ longest_end' = [x \in DOMAIN longest_end \ gone |->
                                     IF longest_end[x] \in gone THEN Null ELSE longest_end[x]]
  BY DEF DestroySuccessor
<1>2. PICK gone : /\ info' = Without(info, gone)
                  /\ longest_end' = [x \in DOMAIN longest_end \ gone |->
                                       IF longest_end[x] \in gone THEN Null ELSE longest_end[x]]
  BY <1>1
<1>3. Scalars(info')
  BY <1>2 DEF ListTypes, Scalars, Without
<1>4. \A e \in Heads' : longest_end'[e] \in Ptr \cup {Null}
  BY <1>2 DEF ListTypes, Heads
<1> QED
  BY <1>3, <1>4 DEF ListTypes

\* All of TypeOK that is about the candidates, faults included.
Candidates ==
    /\ ListTypes
    /\ DOMAIN info \subseteq Ptr /\ Heads \subseteq DOMAIN info
    /\ \A x \in DOMAIN info : info[x].kids \in Seq(Ptr)
    /\ DOMAIN list_root \subseteq Hashes
    /\ \A h \in DOMAIN list_root : list_root[h] \in Ptr

\* A chain just initialised has no candidates.
LEMMA FreshCandidates == Fresh => Candidates
<1> SUFFICES ASSUME Fresh PROVE Candidates
  OBVIOUS
<1>1. DOMAIN info = {} /\ DOMAIN list_root = {} /\ DOMAIN longest_end = {}
  BY DEF Fresh
<1> QED
  BY <1>1 DEF Candidates, ListTypes, Scalars, Heads

\* As long as nothing has failed, they follow from the two invariants.
LEMMA CandidatesFollow ==
    ASSUME ListInv, ListTypes
    PROVE  Candidates
<1>1. NodesOK(info, Heads) /\ RootOK(info, list_root)
  BY DEF ListInv
<1>2. DOMAIN info \subseteq Ptr /\ Heads \subseteq DOMAIN info
  BY <1>1 DEF NodesOK
<1>3. ASSUME NEW x \in DOMAIN info PROVE info[x].kids \in Seq(Ptr)
  <2>1. info[x].kids \in Seq(DOMAIN info \ Heads) /\ DOMAIN info \ Heads \subseteq Ptr
    BY <1>1, <1>2 DEF NodesOK
  <2> QED
    BY <2>1, SeqMonotonic
<1>4. \A h \in DOMAIN list_root : h \in Hashes /\ list_root[h] \in Ptr
  BY <1>1, <1>2 DEF RootOK, ListTypes, Scalars, Scalar
<1> QED
  BY <1>2, <1>3, <1>4 DEF Candidates

\* The types of the candidates hold after every step, one that fails included.
LEMMA CandidatesNext ==
    ASSUME IInv, IInv', Candidates, [Next]_vars
    PROVE  Candidates'
<1>1. CASE UNCHANGED listVars
  BY <1>1 DEF listVars, Candidates, ListTypes, Heads
<1>2. CASE ~UNCHANGED listVars
  <2>0. ListTypes
    BY DEF Candidates
  <2>1. fault = "none"
    BY <1>2 DEF Next, Step, Halted, Ignore, Enrol, RuleII, RuleIII, RuleIV, AbandonChild, AddHeir,
                LeaveChain, AbandonSiblings, DestroySuccessor, vars, listVars
  <2>2. ListTypes'
    <3>1. ASSUME NEW b \in Blocks, Enrol(b) PROVE ListTypes'
      BY <2>0, <2>1, <3>1, EnrolTypes
    <3>2. ASSUME Step PROVE ListTypes'
      <4>1. CASE AddHeir
        BY <1>2, <4>1 DEF AddHeir, Fail
      <4> QED
        BY <2>0, <3>2, <4>1, RuleIITypes, RuleIIITypes, RuleIVTypes, AbandonChildTypes,
           LeaveChainTypes, AbandonSiblingsTypes, DestroySuccessorTypes DEF Step
    <3> QED
      BY <1>2, <3>1, <3>2 DEF Next, Ignore, Halted, vars, listVars
  <2>3. CASE fault' = "none"
    <3>1. ListInv'
      BY <2>3 DEF IInv
    <3> QED
      BY <2>2, <3>1, CandidatesFollow, PTL
  <2>4. CASE fault' # "none"
    <3>1. DestroySuccessor
      BY <1>2, <2>1, <2>4 DEF Next, Step, Halted, Ignore, Enrol, RuleII, RuleIII, RuleIV, AbandonChild,
         AddHeir, LeaveChain, AbandonSiblings, Fail, vars, listVars
    <3>2. PICK gone, K : /\ info' = Without(info, gone)
                         /\ list_root' = Without(list_root, K)
                         /\ DOMAIN longest_end' = DOMAIN longest_end \ gone
      BY <3>1 DEF DestroySuccessor
    <3>3. /\ DOMAIN info' \subseteq DOMAIN info /\ Heads' \subseteq DOMAIN info'
          /\ \A x \in DOMAIN info' : info'[x].kids \in Seq(Ptr)
      BY <3>2 DEF Without, Heads, Candidates
    <3>4. DOMAIN list_root' \subseteq Hashes /\ \A h \in DOMAIN list_root' : list_root'[h] \in Ptr
      BY <3>2 DEF Without, Candidates
    <3> QED
      BY <2>2, <3>3, <3>4 DEF Candidates
  <2> QED
    BY <2>3, <2>4
<1> QED
  BY <1>1, <1>2

\* What TypeOK says beside the main chain and the candidates.
Faults == {"none", "hang", "bad_cast", "dangling", "heir_assert", "assert", "abort"}
Rest == DOMAIN db \subseteq Blocks /\ fault \in Faults /\ accepted \subseteq Blocks

\* So do those of the database, of the fault and of the history.
LEMMA RestNext ==
    ASSUME IInv, Rest, [Next]_vars
    PROVE  Rest'
<1>1. DOMAIN db' \subseteq Blocks
  <2>1. CASE UNCHANGED mainVars
    BY <2>1 DEF mainVars, Rest
  <2>2. CASE db' = on_remove_block(db, Last(heirs).hash)
    BY <2>2 DEF on_remove_block, headers_db_del, Without, Rest
  <2>3. ASSUME NEW x \in Relatives, info[x].hash \in Blocks,
               db' = on_add_block(db, info[x], Len(heirs))
        PROVE  DOMAIN db' \subseteq Blocks
    BY <2>3 DEF on_add_block, headers_db_put, Put, Rest
  <2> QED
    BY <2>1, <2>2, <2>3, MainSteps
<1>2. fault' \in Faults
  BY DEF Next, Step, Halted, Ignore, Enrol, RuleII, RuleIII, RuleIV, AbandonChild, AddHeir, LeaveChain,
         AbandonSiblings, DestroySuccessor, Fail, vars, Rest, Faults
<1>3. accepted' \subseteq Blocks
  <2>1. accepted' = accepted \/ \E b \in Blocks : accepted' = accepted \cup {b}
    BY DEF Next, Step, Halted, Ignore, Enrol, RuleII, RuleIII, RuleIV, AbandonChild, AddHeir, LeaveChain,
           AbandonSiblings, DestroySuccessor, Fail, vars
  <2> QED
    BY <2>1 DEF Rest
<1> QED
  BY <1>1, <1>2, <1>3 DEF Rest

\* Together they are TypeOK.
LEMMA TypesFollow == IInv /\ Candidates /\ Rest => TypeOK
<1> SUFFICES ASSUME IInv, Candidates, Rest PROVE TypeOK
  OBVIOUS
<1>1. heirs \in Seq([hash : Hashes, cd : Nat, complete : BOOLEAN])
  BY DEF IInv, MainInv, Heir
<1>2. DOMAIN search_root \subseteq Hashes
  <2>1. heirs \in Seq(Heir) /\ DOMAIN heirs = 1 .. Len(heirs)
    BY LenProperties DEF IInv, MainInv
  <2>2. \A i \in 1 .. Len(heirs) : heirs[i].hash \in Hashes
    <3>1. \A i \in 1 .. Len(heirs) : heirs[i] \in Heir
      BY <2>1, ElementOfSeq
    <3> QED
      BY <3>1 DEF Heir
  <2>3. DOMAIN search_root = {heirs[i].hash : i \in DOMAIN heirs}
    BY DEF IInv, MainInv, SearchRootExact
  <2> QED
    BY <2>1, <2>2, <2>3
<1> QED
  BY <1>1, <1>2 DEF TypeOK, Candidates, ListTypes, Scalars, Scalar, Rest, Faults

\* For every block tree and number of nodes: every variable has its type, the
\* addresses and the sums of difficulties that the walks compute included.
THEOREM ChainsTypes == Spec => []TypeOK
<1>1. Init => Candidates /\ Rest
  <2>1. Init => Candidates
    BY FreshCandidates DEF Init, Fresh
  <2>2. Init => Rest
    BY DEF Init, Rest, Faults
  <2> QED
    BY <2>1, <2>2
<1>2. IInv /\ IInv' /\ Candidates /\ Rest /\ [Next]_vars => Candidates' /\ Rest'
  BY CandidatesNext, RestNext
<1> QED
  BY <1>1, <1>2, TypesFollow, Invariance, PTL DEF Spec

-----------------------------------------------------------------------------
(* The family trees *)

\* The nodes N, the heads among them H: each of the others is the child of one
\* node, once, but those of P, of none; a child links back to its parent, or to
\* a node of E, or, below a head, to nobody.
Tree(N, H, P, E) ==
    /\ Forest(N)
    /\ P \subseteq DOMAIN N \ H
    /\ \A x \in DOMAIN N \ H : x \in P <=> \A q \in DOMAIN N : ~HasKid(N, q, x)
    /\ \A c \in H : N[c].parent = Null
    /\ \A q, x \in DOMAIN N : HasKid(N, q, x) =>
          N[x].parent = q \/ N[x].parent \in E \/ (q \in H /\ N[x].parent = Null)

\* The node that is nobody's child at a step of blockchain_add(), and those
\* that are leaving for the main chain while others may still link to them.
Loose(o) == CASE o.pc = "rule1"    -> {o.child}
              [] o.pc = "reorg"    -> ToSet(eldest(o.orphans))
              [] o.pc = "siblings" -> {o.line[1]}
              [] OTHER             -> {}
Leaving(o) == IF o.pc = "siblings" THEN ToSet(o.line) ELSE {}

\* The line goes from first child to first child; the node below its last one
\* is the next to become an heir.
LineDescends(o, N) ==
    /\ \A i \in 1 .. Len(o.line) - 1 : Head(N[o.line[i]].kids) = o.line[i + 1]
    /\ o.line # <<>> => IF o.child = Null THEN N[Last(o.line)].kids = <<>>
                        ELSE Head(N[Last(o.line)].kids) = o.child

\* The chain it left, and the abandoned line that will take its place.
LineLeads(o, N) ==
    /\ Head(N[o.chain].kids) = IF o.line = <<>> THEN o.child ELSE o.line[1]
    /\ o.orphans # <<>> => N[Head(o.orphans)].parent = Null

\* The siblings above op.level have been given away.
LineAlone(o, N) ==
    /\ o.line # <<>> /\ o.child = Null
    /\ \A i \in 1 .. Len(o.line) - 1 : i + 2 <= o.level => Len(N[o.line[i]].kids) = 1

LineInTree(o, N) ==
    /\ o.pc \in {"reorg", "siblings"} => LineDescends(o, N)
    /\ o.pc = "reorg" => LineLeads(o, N)
    /\ o.pc = "siblings" => LineAlone(o, N)

\* Every block taken in is an heir or a node of the candidates.
Present == \A b \in accepted : b \in DOMAIN search_root \/ \E x \in Relatives : info[x].hash = b

TreeInv == fault = "none" => /\ Tree(info, Heads, Loose(op), Leaving(op))
                             /\ LineInTree(op, info)
                             /\ Present

\* What the steps leave of a node, its children and its parent.
SameFamily(M, N) ==
    /\ DOMAIN M = DOMAIN N
    /\ \A y \in DOMAIN N :
          /\ ToSet(M[y].kids) = ToSet(N[y].kids)
          /\ IsInjective(N[y].kids) => IsInjective(M[y].kids)
          /\ M[y].parent = N[y].parent

\* Such steps keep a tree a tree.
LEMMA SameFamilyTree ==
    ASSUME NEW M, NEW N, SameFamily(M, N), NEW H, H \subseteq DOMAIN N, NEW P, NEW E, Tree(N, H, P, E)
    PROVE  Tree(M, H, P, E)
<1>1. DOMAIN M = DOMAIN N /\ \A q \in DOMAIN N : \A x : HasKid(M, q, x) <=> HasKid(N, q, x)
  BY DEF SameFamily, HasKid
<1>2. Forest(M)
  BY <1>1 DEF Tree, Forest, SameFamily
<1>3. \A y \in DOMAIN N : M[y].parent = N[y].parent
  BY DEF SameFamily
<1> QED
  BY <1>1, <1>2, <1>3 DEF Tree

\* Two of them are one.
LEMMA SameFamilyTwice ==
    ASSUME NEW K, NEW M, NEW N, SameFamily(K, M), SameFamily(M, N)
    PROVE  SameFamily(K, N)
BY DEF SameFamily

\* Adding up difficulties keeps the children, in their order, and the parents.
LEMMA AccumulateFamily ==
    ASSUME NEW N, \A y \in DOMAIN N : DOMAIN N[y] = Fields, NEW M, OtherDifficulties(M, N)
    PROVE  /\ SameFamily(M, N)
           /\ \A y \in DOMAIN N : M[y].kids = N[y].kids /\ M[y].hash = N[y].hash
<1>1. PICK cd : M = [y \in DOMAIN N |-> [N[y] EXCEPT !.cd = cd[y]]]
  BY DEF OtherDifficulties
<1>2. DOMAIN M = DOMAIN N /\ \A y \in DOMAIN N : M[y].kids = N[y].kids /\ M[y].parent = N[y].parent
                                                 /\ M[y].hash = N[y].hash
  BY <1>1 DEF Fields
<1> QED
  BY <1>2 DEF SameFamily

\* Promoting first children changes the order of children only.
LEMMA DeclareFamily ==
    ASSUME NEW N, KidsLive(N), \A y \in DOMAIN N : DOMAIN N[y] = Fields, NEW x
    PROVE  SameFamily(block_info_declare_inheritance(N, x), N)
<1> DEFINE path == ToSet(ancestry(N, x))
           Fav(y) == {k \in ToSet(N[y].kids) : k \in path}
           M == block_info_declare_inheritance(N, x)
           best(y) == promote(N[y].kids, CHOOSE k \in Fav(y) : TRUE)
<1>1. /\ DOMAIN M = DOMAIN N
      /\ \A y \in DOMAIN N : M[y] = IF y \in path /\ Fav(y) # {}
                                    THEN [N[y] EXCEPT !.kids = best(y)] ELSE N[y]
  BY DEF block_info_declare_inheritance, Fields
<1>2. ASSUME NEW y \in DOMAIN N, Fav(y) # {}
      PROVE  /\ ToSet(best(y)) = ToSet(N[y].kids)
             /\ IsInjective(N[y].kids) => IsInjective(best(y))
  <2>1. PICK k : k = (CHOOSE e \in Fav(y) : TRUE)
    OBVIOUS
  <2>2. k \in ToSet(N[y].kids) /\ N[y].kids \in Seq(DOMAIN N)
    BY <1>2, <2>1 DEF KidsLive
  <2>3. best(y) = promote(N[y].kids, k)
    BY <2>1
  <2> HIDE DEF best, Fav
  <2>4. PICK s \in Seq(DOMAIN N) : s = N[y].kids
    BY <2>2
  <2>5. ToSet(promote(s, k)) = ToSet(s) /\ (IsInjective(s) => IsInjective(promote(s, k)))
    BY <2>2, <2>4, SetOfPromote
  <2> QED
    BY <2>3, <2>4, <2>5
<1> HIDE DEF path, Fav, M, best
<1>3. ASSUME NEW y \in DOMAIN N
      PROVE  /\ ToSet(M[y].kids) = ToSet(N[y].kids)
             /\ IsInjective(N[y].kids) => IsInjective(M[y].kids)
             /\ M[y].parent = N[y].parent
  <2>1. CASE y \in path /\ Fav(y) # {}
    <3>1. M[y] = [N[y] EXCEPT !.kids = best(y)]
      BY <1>1, <2>1
    <3>2. M[y].kids = best(y) /\ M[y].parent = N[y].parent
      BY <3>1 DEF Fields
    <3> QED
      BY <3>2, <1>2, <2>1
  <2>2. CASE ~(y \in path /\ Fav(y) # {})
    BY <1>1, <2>2
  <2> QED
    BY <2>1, <2>2
<1> QED
  BY <1>1, <1>3 DEF SameFamily, M

\* Blocks stay present as long as nodes and heirs do.
LEMMA StillPresent ==
    ASSUME Present, accepted' = accepted, DOMAIN search_root \subseteq DOMAIN search_root',
           \A y \in Relatives : y \in Relatives' /\ info'[y].hash = info[y].hash
    PROVE  Present'
BY DEF Present

\* No line is under way.
LEMMA NoLine ==
    /\ Loose(Idle) = {} /\ Leaving(Idle) = {} /\ \A N : LineInTree(Idle, N)
    /\ \A c : Loose(Contest(c)) = {} /\ Leaving(Contest(c)) = {} /\ \A N : LineInTree(Contest(c), N)
    /\ \A x : LET o == [Idle EXCEPT !.pc = "rule1", !.child = x]
              IN  Loose(o) = {x} /\ Leaving(o) = {} /\ \A N : LineInTree(o, N)
BY DEF Idle, Contest, Loose, Leaving, LineInTree

\* The node for b owns what b's own chain, or the node that looked like its
\* head, owned before.
LEMMA EnrolTree ==
    ASSUME IInv, IInv', TreeInv, NEW b \in Blocks, Enrol(b)
    PROVE  TreeInv'
<1>1. CASE ClaimLoops(b)
  BY <1>1 DEF Enrol, Fail, TreeInv
<1>2. CASE ~ClaimLoops(b)
  <2> DEFINE x == new_node(info)
             kids == Claimed(b)
             r == list_root[b]
             heads == {h \in DOMAIN longest_end : b \in DOMAIN list_root /\ h = list_root[b]}
             renounce == [y \in DOMAIN info \ heads |->
                            IF y \in ToSet(kids) THEN [info[y] EXCEPT !.parent = x]
                            ELSE IF b \in DOMAIN list_root /\ y = list_root[b]
                                 THEN [info[y] EXCEPT !.kids = <<>>]
                                 ELSE info[y]]
             node == block_info(b, prev_hash[b], TRUE, kids, 0)
             N == Put(renounce, x, node)
             H == Heads \ heads
             o == [Idle EXCEPT !.pc = "rule1", !.child = x]
             M == info'
  <2>1. /\ fault = "none" /\ op.pc = "idle" /\ CanAllocate(info) /\ ~IsClone(b)
        /\ M = block_info_update_cumulative_difficulty(N, x, 0)
        /\ longest_end' = list_remove(longest_end, heads)
        /\ op' = o /\ accepted' = accepted \cup {b}
        /\ fault' = fault /\ search_root' = search_root
    BY <1>2 DEF Enrol, Enrolled, mainVars
  <2>2. /\ NodesOK(info, Heads) /\ RootOK(info, list_root) /\ KidsLive(info)
        /\ Heads \subseteq DOMAIN info
        /\ \A y \in DOMAIN info : DOMAIN info[y] = Fields
        /\ \A q \in DOMAIN info : \A y : HasKid(info, q, y) => y \in Relatives
    <3>1. NodesOK(info, Heads) /\ RootOK(info, list_root)
      BY <2>1 DEF IInv, ListInv
    <3>2. \A q \in DOMAIN info : ToSet(info[q].kids) \subseteq Relatives
      BY <3>1, ToSetProps DEF NodesOK, Relatives
    <3> QED
      BY <3>1, <3>2, NodesKidsLive DEF NodesOK, HasKid
  <2>3. /\ Tree(info, Heads, {}, {}) /\ Present
    BY <2>1 DEF TreeInv, Loose, Leaving
  <2>4. x \in Ptr /\ x \notin DOMAIN info
    BY <2>1, NewNode
  <2>5. /\ b \in DOMAIN list_root => r \in DOMAIN info /\ info[r].hash = b /\ kids = info[r].kids
                                     /\ info[r].parent = Null
        /\ b \notin DOMAIN list_root => kids = <<>> /\ heads = {}
        /\ heads = {h \in Heads : b \in DOMAIN list_root /\ h = r}
    BY <2>1, <2>2 DEF RootOK, IsClone, Claimed, Heads
  <2>6. \A y : y \in ToSet(kids) <=> b \in DOMAIN list_root /\ HasKid(info, r, y)
    BY <2>5, SetOfShort DEF HasKid
  <2>7. IsInjective(kids) /\ kids \in Seq(Relatives)
    <3>1. kids \in Seq(Relatives)
      BY <2>2, <2>5, EmptySeq DEF NodesOK, Relatives
    <3> QED
      BY <2>3, <2>5, <3>1, SetOfShort DEF Tree, Forest
  <2>8. b \in DOMAIN list_root => ~HasKid(info, r, r)
    <3> SUFFICES ASSUME b \in DOMAIN list_root, HasKid(info, r, r) PROVE FALSE
      OBVIOUS
    <3>1. info[r].parent = r \/ (r \in Heads /\ info[r].parent = Null)
      BY <2>3, <2>5 DEF Tree
    <3>2. r \in Relatives /\ r \in Ptr
      BY <2>2, <2>5 DEF NodesOK
    <3> QED
      BY <2>5, <3>1, <3>2, MaxNodesAssumption DEF Relatives, Ptr, Null
  <2> HIDE DEF x, kids, r, heads, o
  <2>9. node.kids = kids /\ node.parent = Null /\ DOMAIN node = Fields /\ node.hash = b
    BY DEF block_info, Fields
  <2>10. /\ DOMAIN renounce = DOMAIN info \ heads
         /\ \A y \in DOMAIN info \ heads :
              /\ DOMAIN renounce[y] = Fields /\ renounce[y].hash = info[y].hash
              /\ renounce[y].parent = IF y \in ToSet(kids) THEN x ELSE info[y].parent
              /\ renounce[y].kids = IF b \in DOMAIN list_root /\ y = r THEN <<>> ELSE info[y].kids
    BY <2>2, <2>6, <2>8 DEF Fields, r
  <2> HIDE DEF node, renounce
  <2>11. /\ DOMAIN N = (DOMAIN info \ heads) \cup {x}
         /\ N[x] = node
         /\ \A y \in DOMAIN info \ heads : N[y] = renounce[y]
    BY <2>4, <2>10 DEF Put
  <2> HIDE DEF N
  <2>12. \A y \in DOMAIN N : DOMAIN N[y] = Fields
    BY <2>9, <2>10, <2>11
  <2>13. OtherDifficulties(M, N)
    BY <2>1, AccumulateIs DEF block_info_update_cumulative_difficulty
  <2>14. SameFamily(M, N) /\ DOMAIN M = DOMAIN N /\ \A y \in DOMAIN N : M[y].hash = N[y].hash
    <3> HIDE DEF M
    <3>1. SameFamily(M, N) /\ \A y \in DOMAIN N : M[y].kids = N[y].kids /\ M[y].hash = N[y].hash
      BY <2>12, <2>13, AccumulateFamily
    <3> QED
      BY <3>1 DEF SameFamily
  <2>15. /\ Heads' = H /\ H \subseteq DOMAIN N /\ DOMAIN N \ H = Relatives \cup {x}
         /\ Relatives \subseteq DOMAIN info \ heads
    BY <2>1, <2>2, <2>4, <2>5, <2>11 DEF Heads, Relatives, list_remove, Without
  <2> HIDE DEF H
  \* Who has whom.
  <2>16. /\ \A y : HasKid(N, x, y) <=> b \in DOMAIN list_root /\ HasKid(info, r, y)
         /\ \A q \in DOMAIN info \ heads : \A y :
               HasKid(N, q, y) <=> HasKid(info, q, y) /\ ~(b \in DOMAIN list_root /\ q = r)
    <3>1. \A y : HasKid(N, x, y) <=> b \in DOMAIN list_root /\ HasKid(info, r, y)
      BY <2>6, <2>9, <2>11 DEF HasKid
    <3>2. ToSet(<<>>) = {}
      BY SetOfShort
    <3>3. ASSUME NEW q \in DOMAIN info \ heads
          PROVE  \A y : HasKid(N, q, y) <=> HasKid(info, q, y) /\ ~(b \in DOMAIN list_root /\ q = r)
      BY <2>10, <2>11, <3>2 DEF HasKid
    <3> QED
      BY <3>1, <3>3
  <2>17. \A q \in DOMAIN N : q = x \/ q \in DOMAIN info \ heads
    BY <2>11
  <2>18. Forest(N)
    <3>1. ASSUME NEW q \in DOMAIN N PROVE IsInjective(N[q].kids)
      <4>1. IsInjective(<<>>) /\ \A p \in DOMAIN info : IsInjective(info[p].kids)
        BY <2>3, SetOfShort DEF Tree, Forest
      <4> QED
        BY <2>7, <2>9, <2>10, <2>11, <4>1
    <3>2. ASSUME NEW p \in DOMAIN N, NEW q \in DOMAIN N, NEW y, HasKid(N, p, y), HasKid(N, q, y)
          PROVE  p = q
      <4>1. \A s, t \in DOMAIN info : HasKid(info, s, y) /\ HasKid(info, t, y) => s = t
        BY <2>2, <2>3 DEF Tree, Forest, Relatives
      <4> QED
        BY <2>5, <2>16, <2>17, <3>2, <4>1
    <3> QED
      BY <3>1, <3>2 DEF Forest
  <2>19. ASSUME NEW y \in DOMAIN N \ H
         PROVE  y \in {x} <=> \A q \in DOMAIN N : ~HasKid(N, q, y)
    <3>1. CASE y = x
      <4>1. \A q \in DOMAIN info : ~HasKid(info, q, x)
        BY <2>2, <2>4 DEF Relatives
      <4> QED
        BY <2>5, <2>16, <2>17, <3>1, <4>1
    <3>2. CASE y # x
      <4>1. PICK q \in DOMAIN info : HasKid(info, q, y)
        BY <2>3, <2>15, <3>2 DEF Tree, Relatives
      <4>2. CASE b \in DOMAIN list_root /\ q = r
        BY <2>11, <2>16, <3>2, <4>1, <4>2
      <4>3. CASE ~(b \in DOMAIN list_root /\ q = r)
        <5>1. q \in DOMAIN info \ heads
          BY <2>5, <4>1, <4>3
        <5> QED
          BY <2>11, <2>16, <3>2, <4>1, <4>3, <5>1
      <4> QED
        BY <4>2, <4>3
    <3> QED
      BY <3>1, <3>2
  <2>20. ASSUME NEW c \in H PROVE N[c].parent = Null
    <3>1. c \in DOMAIN info \ heads /\ c \in Heads /\ c \notin Relatives
      BY <2>2 DEF H, Relatives
    <3>2. c \notin ToSet(kids)
      BY <2>2, <2>5, <2>6, <3>1
    <3> QED
      BY <2>3, <2>10, <2>11, <3>1, <3>2 DEF Tree
  <2>21. ASSUME NEW q \in DOMAIN N, NEW y \in DOMAIN N, HasKid(N, q, y)
         PROVE  N[y].parent = q \/ (q \in H /\ N[y].parent = Null)
    <3>1. y \in Relatives /\ y # x
      BY <2>2, <2>4, <2>5, <2>16, <2>17, <2>21 DEF Relatives
    <3>2. y \in DOMAIN info \ heads /\ N[y] = renounce[y]
      BY <2>11, <2>15, <3>1
    <3>3. CASE q = x
      <4>1. y \in ToSet(kids)
        BY <2>6, <2>16, <2>21, <3>3
      <4> QED
        BY <2>10, <3>2, <3>3, <4>1
    <3>4. CASE q # x
      <4>1. q \in DOMAIN info \ heads /\ HasKid(info, q, y) /\ ~(b \in DOMAIN list_root /\ q = r)
        BY <2>16, <2>17, <2>21, <3>4
      <4>2. y \notin ToSet(kids)
        BY <2>3, <2>5, <2>6, <3>2, <4>1 DEF Tree, Forest
      <4>3. info[y].parent = q \/ (q \in Heads /\ info[y].parent = Null)
        BY <2>3, <3>2, <4>1 DEF Tree
      <4>4. q \in Heads => q \in H
        BY <4>1 DEF H
      <4> QED
        BY <2>10, <3>2, <4>2, <4>3, <4>4
    <3> QED
      BY <3>3, <3>4
  <2>22. Tree(N, H, {x}, {})
    BY <2>11, <2>15, <2>18, <2>19, <2>20, <2>21 DEF Tree
  <2>23. Tree(M, H, {x}, {})
    <3> HIDE DEF M
    <3> QED
      BY <2>14, <2>15, <2>22, SameFamilyTree
  <2>24. Loose(o) = {x} /\ Leaving(o) = {} /\ LineInTree(o, M)
    BY NoLine DEF o
  <2>25. Present'
    <3>1. ASSUME NEW y \in Relatives PROVE y \in Relatives' /\ M[y].hash = info[y].hash
      <4>1. y \in DOMAIN info \ heads /\ y \in DOMAIN N \ H
        BY <2>15
      <4>2. N[y].hash = info[y].hash
        BY <2>10, <2>11, <4>1
      <4> QED
        BY <2>14, <2>15, <4>1, <4>2 DEF Relatives
    <3>2. x \in Relatives' /\ M[x].hash = b
      <4>1. x \in DOMAIN N \ H
        BY <2>15
      <4> QED
        BY <2>9, <2>11, <2>14, <2>15, <4>1 DEF Relatives
    <3>3. ASSUME NEW a \in accepted'
          PROVE  a \in DOMAIN search_root' \/ \E y \in Relatives' : M[y].hash = a
      <4>1. CASE a = b
        BY <3>2, <4>1
      <4>2. CASE a # b
        <5>1. a \in accepted
          BY <2>1, <4>2
        <5> QED
          BY <2>1, <2>3, <3>1, <5>1 DEF Present
      <4> QED
        BY <4>1, <4>2
    <3> QED
      BY <3>3 DEF Present
  <2> QED
    BY <2>1, <2>15, <2>23, <2>24, <2>25 DEF TreeInv
<1> QED
  BY <1>1, <1>2

\* The children are never heads.
LEMMA KidsAreRelatives ==
    ASSUME NodesOK(info, Heads)
    PROVE  /\ KidsLive(info) /\ Heads \subseteq DOMAIN info /\ Relatives \subseteq DOMAIN info
           /\ \A y \in DOMAIN info : DOMAIN info[y] = Fields
           /\ \A q \in DOMAIN info : \A y : HasKid(info, q, y) => y \in Relatives
<1>1. \A q \in DOMAIN info : ToSet(info[q].kids) \subseteq Relatives
  BY ToSetProps DEF NodesOK, Relatives
<1> QED
  BY <1>1, NodesKidsLive DEF NodesOK, HasKid, Relatives

\* The node is no child yet, so its parent gains a child it did not have.
LEMMA RuleIITree ==
    ASSUME IInv, TreeInv, RuleII
    PROVE  TreeInv'
<1> DEFINE x == op.child
           parent == list_root[info[x].prev]
           c == get_current_chain(info, parent)
           joined == [info EXCEPT ![parent].kids = Append(@, x), ![x].parent = parent]
           summed == block_info_update_cumulative_difficulty(joined, x, info[parent].cd)
           end == longest_offspring(summed, x, Null)
           M == info'
<1>1. op.pc = "rule1" /\ fault = "none" /\ info[x].prev \in DOMAIN list_root
  BY DEF RuleII
<1>2. CASE c \notin DOMAIN longest_end
  BY <1>2 DEF RuleII, Fail, TreeInv
<1>3. CASE c \in DOMAIN longest_end
  <2>1. /\ \E differ \in MayDiffer(longest_end[c], end) :
              M = IF differ THEN block_info_declare_inheritance(summed, end) ELSE summed
        /\ longest_end' = [longest_end EXCEPT ![c] = end]
        /\ op' = Contest(c)
        /\ fault' = fault /\ search_root' = search_root /\ accepted' = accepted
    BY <1>3 DEF RuleII, mainVars
  <2>2. NodesOK(info, Heads) /\ RootOK(info, list_root) /\ x \in Relatives
    BY <1>1 DEF IInv, ListInv, OpOK
  <2>3. /\ KidsLive(info) /\ Heads \subseteq DOMAIN info /\ Relatives \subseteq DOMAIN info
        /\ \A y \in DOMAIN info : DOMAIN info[y] = Fields
        /\ \A q \in DOMAIN info : \A y : HasKid(info, q, y) => y \in Relatives
    BY <2>2, KidsAreRelatives
  <2>4. Tree(info, Heads, {x}, {}) /\ Present
    BY <1>1 DEF TreeInv, Loose, Leaving
  <2>5. parent \in DOMAIN info /\ x \in DOMAIN info
    BY <1>1, <2>2, <2>3 DEF RootOK
  <2>6. \A q \in DOMAIN info : ~HasKid(info, q, x)
    BY <2>2, <2>4 DEF Tree, Relatives
  <2> HIDE DEF x, parent, c
  <2>7. /\ Append(info[parent].kids, x) \in Seq(DOMAIN info)
        /\ ToSet(Append(info[parent].kids, x)) = ToSet(info[parent].kids) \cup {x}
        /\ IsInjective(Append(info[parent].kids, x))
    <3>1. PICK s \in Seq(DOMAIN info) : s = info[parent].kids
      BY <2>3, <2>5 DEF KidsLive
    <3>2. IsInjective(s) /\ x \notin ToSet(s)
      BY <2>4, <2>5, <2>6, <3>1 DEF Tree, Forest, HasKid
    <3>3. Append(s, x) \in Seq(DOMAIN info) /\ ToSet(Append(s, x)) = ToSet(s) \cup {x}
          /\ IsInjective(Append(s, x))
      BY <2>5, <3>2, SetOfAppend
    <3> QED
      BY <3>1, <3>3
  <2>8. /\ DOMAIN joined = DOMAIN info
        /\ \A y \in DOMAIN info :
              /\ DOMAIN joined[y] = Fields /\ joined[y].hash = info[y].hash
              /\ joined[y].parent = IF y = x THEN parent ELSE info[y].parent
              /\ joined[y].kids = IF y = parent THEN Append(info[parent].kids, x)
                                  ELSE info[y].kids
    BY <2>3, <2>5 DEF Fields
  <2> HIDE DEF joined
  <2>9. \A q \in DOMAIN info : \A y : HasKid(joined, q, y) <=> HasKid(info, q, y) \/ (q = parent /\ y = x)
    BY <2>7, <2>8 DEF HasKid
  <2>10. Tree(joined, Heads, {}, {})
    <3>1. Forest(joined)
      <4>1. \A q \in DOMAIN info : IsInjective(joined[q].kids)
        BY <2>4, <2>7, <2>8 DEF Tree, Forest
      <4>2. ASSUME NEW p \in DOMAIN info, NEW q \in DOMAIN info, NEW y \in DOMAIN info,
                   HasKid(joined, p, y), HasKid(joined, q, y)
            PROVE  p = q
        <5>1. CASE y = x
          BY <2>6, <2>9, <4>2, <5>1
        <5>2. CASE y # x
          BY <2>4, <2>9, <4>2, <5>2 DEF Tree, Forest
        <5> QED
          BY <5>1, <5>2
      <4> QED
        BY <2>8, <4>1, <4>2 DEF Forest
    <3>2. ASSUME NEW y \in DOMAIN joined \ Heads PROVE ~(\A q \in DOMAIN joined : ~HasKid(joined, q, y))
      <4>1. CASE y = x
        BY <2>5, <2>8, <2>9, <4>1
      <4>2. CASE y # x
        <5>1. PICK q \in DOMAIN info : HasKid(info, q, y)
          BY <2>4, <2>8, <4>2 DEF Tree
        <5> QED
          BY <2>8, <2>9, <5>1
      <4> QED
        BY <4>1, <4>2
    <3>3. ASSUME NEW e \in Heads PROVE joined[e].parent = Null
      BY <2>2, <2>3, <2>4, <2>8 DEF Tree, Relatives
    <3>4. ASSUME NEW q \in DOMAIN joined, NEW y \in DOMAIN joined, HasKid(joined, q, y)
          PROVE  joined[y].parent = q \/ (q \in Heads /\ joined[y].parent = Null)
      <4>1. CASE y = x
        BY <2>6, <2>8, <2>9, <3>4, <4>1
      <4>2. CASE y # x
        BY <2>4, <2>8, <2>9, <3>4, <4>2 DEF Tree
      <4> QED
        BY <4>1, <4>2
    <3> QED
      BY <2>3, <2>8, <3>1, <3>2, <3>3, <3>4 DEF Tree
  <2>11. OtherDifficulties(summed, joined)
    BY AccumulateIs DEF block_info_update_cumulative_difficulty
  <2> HIDE DEF summed, end
  <2>12. /\ SameFamily(summed, joined)
         /\ \A y \in DOMAIN joined : summed[y].kids = joined[y].kids /\ summed[y].hash = joined[y].hash
    BY <2>8, <2>11, AccumulateFamily
  <2>13. KidsLive(summed) /\ DOMAIN summed = DOMAIN info
         /\ \A y \in DOMAIN summed : DOMAIN summed[y] = Fields
    <3>1. DOMAIN summed = DOMAIN joined
      BY <2>12 DEF SameFamily
    <3>2. KidsLive(summed)
      BY <2>3, <2>7, <2>8, <2>12, <3>1 DEF KidsLive
    <3>3. PICK cd : summed = [y \in DOMAIN joined |-> [joined[y] EXCEPT !.cd = cd[y]]]
      BY <2>11 DEF OtherDifficulties
    <3>4. \A y \in DOMAIN summed : DOMAIN summed[y] = Fields
      BY <2>8, <3>1, <3>3 DEF Fields
    <3> QED
      BY <2>8, <3>1, <3>2, <3>4
  <2> DEFINE D == block_info_declare_inheritance(summed, end)
  <2>14. SameFamily(D, summed) /\ \A y \in DOMAIN summed : D[y].hash = summed[y].hash
    <3>1. \A y \in DOMAIN summed : D[y].hash = summed[y].hash
      BY <2>13 DEF block_info_declare_inheritance, Fields
    <3> QED
      BY <2>13, <3>1, DeclareFamily
  <2> HIDE DEF D
  <2>15. M = summed \/ M = D
    BY <2>1 DEF D
  <2>16. SameFamily(M, joined) /\ \A y \in DOMAIN info : M[y].hash = info[y].hash
    <3>1. SameFamily(D, joined)
      BY <2>12, <2>14, SameFamilyTwice
    <3> QED
      BY <2>8, <2>12, <2>13, <2>14, <2>15, <3>1
  <2>17. DOMAIN M = DOMAIN info /\ Heads' = Heads /\ Relatives' = Relatives
    <3>1. DOMAIN M = DOMAIN info
      BY <2>8, <2>16 DEF SameFamily
    <3>2. Heads' = Heads
      BY <2>1 DEF Heads
    <3> QED
      BY <3>1, <3>2 DEF Relatives
  <2>18. Tree(M, Heads, {}, {})
    <3> HIDE DEF M
    <3> QED
      BY <2>3, <2>8, <2>10, <2>16, SameFamilyTree
  <2>19. Loose(op') = {} /\ Leaving(op') = {} /\ LineInTree(op', M)
    BY <2>1, NoLine
  <2>20. Present'
    BY <2>1, <2>3, <2>4, <2>16, <2>17, StillPresent
  <2> QED
    BY <2>17, <2>18, <2>19, <2>20 DEF TreeInv
<1> QED
  BY <1>2, <1>3

\* The node gets a head of its own for a parent.
LEMMA RuleIIITree ==
    ASSUME IInv, TreeInv, RuleIII
    PROVE  TreeInv'
<1> DEFINE x == op.child
           c == new_node(info)
           p == info[x].prev
           head == chain_head(p, <<x>>)
           put == Put(info, c, head)
           headed == [put EXCEPT ![x].parent = c]
           H == Heads \cup {c}
           M == info'
<1>1. /\ op.pc = "rule1" /\ fault = "none" /\ CanAllocate(info)
      /\ M = block_info_update_cumulative_difficulty(headed, x, 0)
      /\ \E e : longest_end' = list_add(longest_end, c, e)
      /\ op' = Contest(c)
      /\ fault' = fault /\ search_root' = search_root /\ accepted' = accepted
  BY DEF RuleIII, mainVars
<1>2. NodesOK(info, Heads) /\ x \in Relatives
  BY <1>1 DEF IInv, ListInv, OpOK
<1>3. c \in Ptr /\ c \notin DOMAIN info
  BY <1>1, NewNode
<1>4. /\ KidsLive(info) /\ Heads \subseteq DOMAIN info /\ Relatives \subseteq DOMAIN info
      /\ \A y \in DOMAIN info : DOMAIN info[y] = Fields
      /\ \A q \in DOMAIN info : \A y : HasKid(info, q, y) => y \in Relatives
  BY <1>2, KidsAreRelatives
<1>5. Tree(info, Heads, {x}, {}) /\ Present
  BY <1>1 DEF TreeInv, Loose, Leaving
<1>6. x \in DOMAIN info /\ x # c /\ \A q \in DOMAIN info : ~HasKid(info, q, x)
  BY <1>2, <1>3, <1>4, <1>5 DEF Tree, Relatives
<1> HIDE DEF x, c, p
<1>7. /\ head.kids = <<x>> /\ head.parent = Null /\ DOMAIN head = Fields
      /\ ToSet(<<x>>) = {x} /\ IsInjective(<<x>>)
  BY SetOfShort DEF chain_head, block_info, Fields
<1> HIDE DEF head
<1>8. /\ DOMAIN put = DOMAIN info \cup {c} /\ put[c] = head
      /\ \A y \in DOMAIN info : put[y] = info[y]
  BY <1>3 DEF Put
<1> HIDE DEF put
<1>9. /\ DOMAIN headed = DOMAIN info \cup {c} /\ headed[c] = head
      /\ \A y \in DOMAIN info :
            /\ DOMAIN headed[y] = Fields
            /\ headed[y].hash = info[y].hash /\ headed[y].kids = info[y].kids
            /\ headed[y].parent = IF y = x THEN c ELSE info[y].parent
  BY <1>3, <1>4, <1>6, <1>8 DEF Fields
<1> HIDE DEF headed
<1>10. /\ \A y : HasKid(headed, c, y) <=> y = x
       /\ \A q \in DOMAIN info : \A y : HasKid(headed, q, y) <=> HasKid(info, q, y)
  BY <1>7, <1>9 DEF HasKid
<1>11. DOMAIN headed \ H = Relatives
  BY <1>3, <1>4, <1>9 DEF Relatives
<1>12. Tree(headed, H, {}, {})
  <2>1. Forest(headed)
    <3>1. \A q \in DOMAIN headed : IsInjective(headed[q].kids)
      BY <1>5, <1>7, <1>9 DEF Tree, Forest
    <3>2. ASSUME NEW q \in DOMAIN headed, NEW r \in DOMAIN headed, NEW y \in DOMAIN headed,
                 HasKid(headed, q, y), HasKid(headed, r, y)
          PROVE  q = r
      <4>1. CASE y = x
        BY <1>6, <1>9, <1>10, <3>2, <4>1
      <4>2. CASE y # x
        BY <1>4, <1>5, <1>9, <1>10, <3>2, <4>2 DEF Tree, Forest, Relatives
      <4> QED
        BY <4>1, <4>2
    <3> QED
      BY <3>1, <3>2 DEF Forest
  <2>2. ASSUME NEW y \in DOMAIN headed \ H PROVE ~(\A q \in DOMAIN headed : ~HasKid(headed, q, y))
    <3>1. CASE y = x
      BY <1>9, <1>10, <3>1
    <3>2. CASE y # x
      <4>1. PICK q \in DOMAIN info : HasKid(info, q, y)
        BY <1>5, <1>11, <3>2 DEF Tree, Relatives
      <4> QED
        BY <1>9, <1>10, <4>1
    <3> QED
      BY <3>1, <3>2
  <2>3. ASSUME NEW e \in H PROVE headed[e].parent = Null
    <3>1. e \in Heads => e # x
      BY <1>2 DEF Relatives
    <3> QED
      BY <1>4, <1>5, <1>7, <1>9, <3>1 DEF Tree
  <2>4. ASSUME NEW q \in DOMAIN headed, NEW y \in DOMAIN headed, HasKid(headed, q, y)
        PROVE  headed[y].parent = q \/ (q \in H /\ headed[y].parent = Null)
    <3>1. CASE y = x
      BY <1>6, <1>9, <1>10, <2>4, <3>1
    <3>2. CASE y # x
      <4>1. q \in DOMAIN info /\ HasKid(info, q, y) /\ y \in DOMAIN info
        BY <1>4, <1>9, <1>10, <2>4, <3>2
      <4> QED
        BY <1>5, <1>9, <3>2, <4>1 DEF Tree
    <3> QED
      BY <3>1, <3>2
  <2> QED
    BY <1>4, <1>9, <2>1, <2>2, <2>3, <2>4 DEF Tree
<1>13. OtherDifficulties(M, headed)
  BY <1>1, AccumulateIs DEF block_info_update_cumulative_difficulty
<1>14. SameFamily(M, headed) /\ DOMAIN M = DOMAIN headed
       /\ \A y \in DOMAIN headed : M[y].hash = headed[y].hash
  <2> HIDE DEF M
  <2>1. \A y \in DOMAIN headed : DOMAIN headed[y] = Fields
    BY <1>7, <1>9
  <2>2. SameFamily(M, headed)
        /\ \A y \in DOMAIN headed : M[y].kids = headed[y].kids /\ M[y].hash = headed[y].hash
    BY <1>13, <2>1, AccumulateFamily
  <2> QED
    BY <2>2 DEF SameFamily
<1>15. Heads' = H /\ Relatives' = Relatives /\ H \subseteq DOMAIN headed
  BY <1>1, <1>4, <1>9, <1>11, <1>14 DEF Heads, Relatives, list_add, Put
<1>16. Tree(M, H, {}, {})
  <2> HIDE DEF M
  <2> QED
    BY <1>12, <1>14, <1>15, SameFamilyTree
<1>17. Loose(op') = {} /\ Leaving(op') = {} /\ LineInTree(op', M)
  BY <1>1, NoLine
<1>18. Present'
  <2>1. \A y \in Relatives : y \in Relatives' /\ info'[y].hash = info[y].hash
    BY <1>4, <1>9, <1>14, <1>15
  <2> QED
    BY <1>1, <1>5, <2>1, StillPresent
<1> QED
  BY <1>15, <1>16, <1>17, <1>18 DEF TreeInv

\* The first child of the chain that won is the next heir.
LEMMA RuleIVTree ==
    ASSUME IInv, TreeInv, RuleIV
    PROVE  TreeInv'
<1> DEFINE c == op.chain
           h == info[c].hash
           fork == search_root[h]
           first == Head(info[c].kids)
           summed == update_first_child_cumulative_difficulty(info, first, heirs[fork].cd)
           won == [op EXCEPT !.pc = "reorg", !.fork = fork, !.child = first,
                             !.before = hashes_of(heirs)]
<1>1. /\ op.pc = "rule4" /\ fault = "none" /\ fault' = fault
      /\ search_root' = search_root /\ accepted' = accepted /\ longest_end' = longest_end
  BY DEF RuleIV, mainVars
<1>2. NodesOK(info, Heads) /\ op = Contest(c) /\ c \in Heads
  BY <1>1 DEF IInv, ListInv, OpOK
<1>3. Tree(info, Heads, {}, {}) /\ Present
  BY <1>1 DEF TreeInv, Loose, Leaving
<1>4. /\ KidsLive(info) /\ Heads \subseteq DOMAIN info /\ Relatives \subseteq DOMAIN info
      /\ \A y \in DOMAIN info : DOMAIN info[y] = Fields
  BY <1>2, KidsAreRelatives
<1>5. CASE h \notin DOMAIN search_root
  <2>1. op' = Idle /\ info' = info
    BY <1>5 DEF RuleIV
  <2>2. Loose(op') = {} /\ Leaving(op') = {} /\ LineInTree(op', info')
    BY <2>1, NoLine
  <2> QED
    BY <1>1, <1>3, <2>1, <2>2 DEF TreeInv, Heads, Relatives, Present
<1>6. CASE h \in DOMAIN search_root
  <2>1. info' = summed /\ (op' = won \/ op' = Idle)
    BY <1>6 DEF RuleIV, blockchain_find
  <2>2. OtherDifficulties(summed, info)
    BY AccumulateIs DEF update_first_child_cumulative_difficulty
  <2> HIDE DEF summed
  <2>3. /\ SameFamily(summed, info)
        /\ \A y \in DOMAIN info : summed[y].kids = info[y].kids /\ summed[y].hash = info[y].hash
    BY <1>4, <2>2, AccumulateFamily
  <2>4. Tree(summed, Heads, {}, {})
    BY <1>3, <1>4, <2>3, SameFamilyTree
  <2>5. Heads' = Heads /\ Relatives' = Relatives
    BY <1>1, <2>1, <2>3 DEF Heads, Relatives, SameFamily
  <2>6. Present'
    BY <1>1, <1>3, <1>4, <2>1, <2>3, <2>5, StillPresent
  <2>7. Loose(op') = {} /\ Leaving(op') = {} /\ LineInTree(op', info')
    <3>1. CASE op' = Idle
      BY <3>1, NoLine
    <3>2. CASE op' = won
      <4> HIDE DEF fork
      <4>1. op.line = <<>> /\ op.orphans = <<>> /\ op.chain = c /\ DOMAIN op = DOMAIN Idle
        <5>1. Contest(c).line = <<>> /\ Contest(c).orphans = <<>> /\ DOMAIN Contest(c) = DOMAIN Idle
          BY DEF Contest, Idle
        <5> QED
          BY <1>2, <5>1
      <4>2. /\ op'.pc = "reorg" /\ op'.chain = c /\ op'.child = first
            /\ op'.line = <<>> /\ op'.orphans = <<>>
        <5> HIDE DEF c, first
        <5> QED
          BY <3>2, <4>1 DEF Idle
      <4>3. Loose(op') = {} /\ Leaving(op') = {}
        BY <4>2, SetOfShort DEF Loose, Leaving, eldest
      <4>4. LineDescends(op', info')
        <5>1. Len(<<>>) = 0 /\ \A i \in 1 .. 0 - 1 : FALSE
          OBVIOUS
        <5>2. \A i \in 1 .. Len(op'.line) - 1 : FALSE
          BY <4>2, <5>1
        <5> QED
          BY <4>2, <5>2 DEF LineDescends
      <4>5. LineLeads(op', info')
        BY <1>2, <1>4, <2>1, <2>3, <4>2 DEF LineLeads
      <4> QED
        BY <4>2, <4>3, <4>4, <4>5 DEF LineInTree
    <3> QED
      BY <2>1, <3>1, <3>2
  <2> QED
    BY <2>1, <2>4, <2>5, <2>6, <2>7 DEF TreeInv
<1> QED
  BY <1>5, <1>6

\* The head of the abandoned line stands for it.
LEMMA EldestSet ==
    ASSUME NEW o
    PROVE  /\ ToSet(eldest(o)) = IF o = <<>> THEN {} ELSE {Head(o)}
           /\ IsInjective(eldest(o))
BY SetOfShort DEF eldest

\* The heir that goes back to a node takes the abandoned line for its child.
LEMMA AbandonChildTree ==
    ASSUME IInv, TreeInv, AbandonChild
    PROVE  TreeInv'
<1> DEFINE last == Last(heirs)
           x == new_node(info)
           child == eldest(op.orphans)
           orphan == abandon_child(heirs[Len(heirs) - 1], last, child)
           below == [y \in DOMAIN info |-> IF y \in ToSet(child)
                                           THEN [info[y] EXCEPT !.parent = x] ELSE info[y]]
           M == info'
           P == ToSet(child)
<1>1. /\ op.pc = "reorg" /\ fault = "none" /\ op.line = <<>> /\ CanAllocate(info)
      /\ M = Put(below, x, orphan)
      /\ op' = [op EXCEPT !.orphans = <<x>> \o @]
      /\ search_root' = tdelete(search_root, last.hash)
      /\ longest_end' = longest_end /\ fault' = fault /\ accepted' = accepted
  BY DEF AbandonChild
<1>2. /\ NodesOK(info, Heads) /\ op \in OpType /\ op.chain \in Heads
      /\ op.orphans \in Seq(Relatives) /\ op.child \in Relatives \cup {Null}
  BY <1>1, ReorgFacts
<1>3. /\ KidsLive(info) /\ Heads \subseteq DOMAIN info /\ Relatives \subseteq DOMAIN info
      /\ \A y \in DOMAIN info : DOMAIN info[y] = Fields
      /\ \A q \in DOMAIN info : \A y : HasKid(info, q, y) => y \in Relatives
  BY <1>2, KidsAreRelatives
<1>4. Tree(info, Heads, P, {}) /\ LineLeads(op, info) /\ Present
  BY <1>1 DEF TreeInv, Loose, Leaving, LineInTree
<1>5. x \in Ptr /\ x \notin DOMAIN info
  BY <1>1, NewNode
<1>6. P \subseteq Relatives /\ IsInjective(child)
  BY <1>2, EldestSet, HeadTailProperties
<1> HIDE DEF last, x, child, P
<1>7. /\ orphan.hash = last.hash /\ orphan.kids = child /\ orphan.parent = Null
      /\ DOMAIN orphan = Fields
  BY DEF abandon_child, block_info, Fields
<1>8. /\ DOMAIN below = DOMAIN info
      /\ \A y \in DOMAIN info :
            /\ below[y].hash = info[y].hash /\ below[y].kids = info[y].kids
            /\ below[y].parent = IF y \in P THEN x ELSE info[y].parent
  BY <1>3 DEF Fields, P
<1> HIDE DEF orphan, below
<1>9. /\ DOMAIN M = DOMAIN info \cup {x} /\ M[x] = orphan
      /\ \A y \in DOMAIN info : M[y] = below[y]
  BY <1>1, <1>5, <1>8 DEF Put
<1>10. Heads' = Heads /\ Relatives' = Relatives \cup {x} /\ DOMAIN M \ Heads = Relatives \cup {x}
  BY <1>1, <1>3, <1>5, <1>9 DEF Heads, Relatives
<1> HIDE DEF M
<1>11. /\ \A y : HasKid(M, x, y) <=> y \in P
       /\ \A q \in DOMAIN info : \A y : HasKid(M, q, y) <=> HasKid(info, q, y)
  BY <1>7, <1>8, <1>9 DEF HasKid, P
<1>12. \A y \in P, q \in DOMAIN info : ~HasKid(info, q, y)
  BY <1>4, <1>6 DEF Tree, Relatives
<1>13. Tree(M, Heads, {x}, {})
  <2>1. Forest(M)
    <3>1. \A q \in DOMAIN M : IsInjective(M[q].kids)
      BY <1>4, <1>6, <1>7, <1>8, <1>9 DEF Tree, Forest
    <3>2. ASSUME NEW q \in DOMAIN M, NEW r \in DOMAIN M, NEW y \in DOMAIN M,
                 HasKid(M, q, y), HasKid(M, r, y)
          PROVE  q = r
      <4>1. CASE y \in P
        BY <1>9, <1>11, <1>12, <3>2, <4>1
      <4>2. CASE y \notin P
        <5>1. q \in DOMAIN info /\ r \in DOMAIN info /\ HasKid(info, q, y) /\ HasKid(info, r, y)
          BY <1>9, <1>11, <3>2, <4>2
        <5> QED
          BY <1>3, <1>4, <5>1 DEF Tree, Forest
      <4> QED
        BY <4>1, <4>2
    <3> QED
      BY <3>1, <3>2 DEF Forest
  <2>2. ASSUME NEW y \in DOMAIN M \ Heads
        PROVE  y \in {x} <=> \A q \in DOMAIN M : ~HasKid(M, q, y)
    <3>1. CASE y = x
      <4>1. ~HasKid(M, x, x) /\ \A q \in DOMAIN info : ~HasKid(M, q, x)
        BY <1>3, <1>5, <1>6, <1>11
      <4> QED
        BY <1>9, <3>1, <4>1
    <3>2. CASE y # x
      <4>1. y \in Relatives
        BY <1>10, <3>2
      <4>2. CASE y \in P
        BY <1>9, <1>11, <3>2, <4>2
      <4>3. CASE y \notin P
        <5>1. PICK q \in DOMAIN info : HasKid(info, q, y)
          BY <1>4, <4>1, <4>3 DEF Tree, Relatives
        <5> QED
          BY <1>9, <1>11, <3>2, <5>1
      <4> QED
        BY <4>2, <4>3
    <3> QED
      BY <3>1, <3>2
  <2>3. ASSUME NEW e \in Heads PROVE M[e].parent = Null
    <3>1. e \in DOMAIN info /\ e \notin P
      BY <1>3, <1>6 DEF Relatives
    <3> QED
      BY <1>4, <1>8, <1>9, <3>1 DEF Tree
  <2>4. ASSUME NEW q \in DOMAIN M, NEW y \in DOMAIN M, HasKid(M, q, y)
        PROVE  M[y].parent = q \/ (q \in Heads /\ M[y].parent = Null)
    <3>1. CASE y \in P
      <4>1. q = x
        BY <1>9, <1>11, <1>12, <2>4, <3>1
      <4> QED
        BY <1>3, <1>6, <1>8, <1>9, <3>1, <4>1
    <3>2. CASE y \notin P
      <4>1. q \in DOMAIN info /\ HasKid(info, q, y) /\ y \in DOMAIN info
        BY <1>3, <1>9, <1>11, <2>4, <3>2
      <4> QED
        BY <1>4, <1>8, <1>9, <3>2, <4>1 DEF Tree
    <3> QED
      BY <3>1, <3>2
  <2>5. {x} \subseteq DOMAIN M \ Heads
    BY <1>10
  <2> QED
    BY <2>1, <2>2, <2>3, <2>4, <2>5 DEF Tree
<1>14. <<x>> \o op.orphans # <<>> /\ Head(<<x>> \o op.orphans) = x
  <2>1. <<x>> \in Seq(Ptr) /\ op.orphans \in Seq(Ptr) /\ Len(<<x>>) = 1 /\ <<x>>[1] = x
    BY <1>2, <1>5 DEF OpType
  <2>2. Len(op.orphans) \in Nat
    BY <2>1, LenProperties
  <2>3. /\ <<x>> \o op.orphans \in Seq(Ptr) /\ Len(<<x>> \o op.orphans) = 1 + Len(op.orphans)
        /\ (<<x>> \o op.orphans)[1] = x
    BY <2>1, <2>2, ConcatProperties
  <2> QED
    BY <2>2, <2>3, EmptySeq, HeadTailProperties
<1>15. /\ op'.pc = "reorg" /\ op'.line = <<>> /\ op'.chain = op.chain /\ op'.child = op.child
       /\ op'.orphans = <<x>> \o op.orphans
  BY <1>1, <1>2 DEF OpType
<1>16. Loose(op') = {x} /\ Leaving(op') = {}
  BY <1>14, <1>15, EldestSet DEF Loose, Leaving
<1>17. LineInTree(op', M)
  <2>1. Len(<<>>) = 0 /\ \A i \in 1 .. 0 - 1 : FALSE
    OBVIOUS
  <2>2. \A i \in 1 .. Len(op'.line) - 1 : FALSE
    BY <1>15, <2>1
  <2>3. LineDescends(op', M)
    BY <1>15, <2>2 DEF LineDescends
  <2>4. M[op.chain].kids = info[op.chain].kids
    BY <1>2, <1>3, <1>8, <1>9
  <2>5. LineLeads(op', M)
    BY <1>1, <1>4, <1>7, <1>9, <1>14, <1>15, <2>4 DEF LineLeads
  <2> QED
    BY <1>15, <2>3, <2>5 DEF LineInTree
<1>18. Present'
  <2>1. ASSUME NEW b \in accepted
        PROVE  b \in DOMAIN search_root' \/ \E y \in Relatives' : M[y].hash = b
    <3>1. CASE b = last.hash
      BY <1>7, <1>9, <1>10, <3>1
    <3>2. CASE b # last.hash
      <4>1. CASE b \in DOMAIN search_root
        BY <1>1, <3>2, <4>1 DEF tdelete, Without
      <4>2. CASE b \notin DOMAIN search_root
        <5>1. PICK y \in Relatives : info[y].hash = b
          BY <1>4, <4>2 DEF Present
        <5> QED
          BY <1>3, <1>8, <1>9, <1>10, <5>1
      <4> QED
        BY <4>1, <4>2
    <3> QED
      BY <3>1, <3>2
  <2> QED
    BY <1>1, <2>1 DEF Present, M
<1> QED
  BY <1>10, <1>13, <1>16, <1>17, <1>18 DEF TreeInv, M

\* The line grows by the next first child.
LEMMA AddHeirTree ==
    ASSUME IInv, TreeInv, AddHeir
    PROVE  TreeInv'
<1> DEFINE node == info[op.child]
           next == IF node.kids = <<>> THEN Null ELSE Head(node.kids)
           long == Append(op.line, op.child)
           n == Len(op.line)
<1>1. /\ op.pc = "reorg" /\ fault = "none" /\ op.child # Null
      /\ Len(heirs) = op.fork + Len(op.line)
  BY DEF AddHeir
<1>2. /\ NodesOK(info, Heads) /\ op \in OpType /\ op.child \in Relatives
      /\ op.line \in Seq(Relatives) /\ n \in Nat /\ Relatives \subseteq DOMAIN info /\ Null \notin Relatives
  BY <1>1, ReorgFacts
<1>3. node.prev = Last(heirs).hash /\ node.hash \notin DOMAIN search_root
  BY <1>1, HeirFits
<1>4. /\ search_root' = tsearch(search_root, node.hash, Len(heirs) + 1)
      /\ op' = [op EXCEPT !.line = long, !.child = next]
      /\ info' = info /\ longest_end' = longest_end /\ fault' = fault /\ accepted' = accepted
  BY <1>3 DEF AddHeir, listVars
<1>5. Tree(info, Heads, Loose(op), Leaving(op)) /\ LineDescends(op, info) /\ LineLeads(op, info) /\ Present
  BY <1>1 DEF TreeInv, LineInTree
<1>6. node.kids \in Seq(Relatives) /\ (next # Null => node.kids # <<>> /\ next = Head(node.kids))
      /\ (next = Null => node.kids = <<>>)
  BY <1>2, HeadTailProperties DEF NodesOK, Relatives
<1>7. /\ long \in Seq(Relatives) /\ Len(long) = n + 1 /\ long[n + 1] = op.child
      /\ (\A i \in 1 .. n : long[i] = op.line[i]) /\ long # <<>> /\ Last(long) = op.child
  <2>1. /\ long \in Seq(Relatives) /\ Len(long) = n + 1 /\ long[n + 1] = op.child
        /\ (\A i \in 1 .. n : long[i] = op.line[i])
    BY <1>2, AppendProperties
  <2>2. long # <<>>
    <3> HIDE DEF long
    <3> QED
      BY <1>2, <2>1, EmptySeq
  <2> QED
    BY <2>1, <2>2 DEF Last
<1> HIDE DEF long, next, n
<1>8. /\ op'.pc = "reorg" /\ op'.chain = op.chain /\ op'.child = next /\ op'.line = long
      /\ op'.orphans = op.orphans
  BY <1>1, <1>2, <1>4 DEF OpType
<1>9. Loose(op') = Loose(op) /\ Leaving(op') = Leaving(op)
  BY <1>1, <1>8 DEF Loose, Leaving
<1>10. LineDescends(op', info)
  <2>1. ASSUME NEW i \in 1 .. Len(op'.line) - 1
        PROVE  Head(info[op'.line[i]].kids) = op'.line[i + 1]
    <3>1. CASE i = n
      <4>1. n \in 1 .. n /\ op.line # <<>>
        BY <1>2, <1>7, <1>8, <2>1, <3>1 DEF n
      <4>2. Last(op.line) = long[n] /\ long[n + 1] = op.child
        BY <1>7, <4>1 DEF Last, n
      <4> QED
        BY <1>1, <1>5, <1>8, <3>1, <4>1, <4>2 DEF LineDescends
    <3>2. CASE i # n
      <4>1. i \in 1 .. n - 1 /\ i \in 1 .. n /\ i + 1 \in 1 .. n
        BY <1>2, <1>7, <1>8, <2>1, <3>2
      <4> QED
        BY <1>5, <1>7, <1>8, <4>1 DEF LineDescends, n
    <3> QED
      BY <3>1, <3>2
  <2>2. IF next = Null THEN info[Last(long)].kids = <<>> ELSE Head(info[Last(long)].kids) = next
    BY <1>6, <1>7
  <2> QED
    BY <1>8, <2>1, <2>2 DEF LineDescends
<1>11. LineLeads(op', info)
  <2>1. op.line = <<>> => long[1] = op.child
    <3>1. op.line = <<>> => n = 0
      BY DEF n
    <3>2. op.line = <<>> => long[1] = long[n + 1]
      BY <3>1
    <3> QED
      BY <1>7, <3>2
  <2>2. op.line # <<>> => long[1] = op.line[1]
    <3>1. op.line # <<>> => 1 \in 1 .. n
      BY <1>2, EmptySeq DEF n
    <3> QED
      BY <1>7, <3>1
  <2> QED
    BY <1>5, <1>7, <1>8, <2>1, <2>2 DEF LineLeads
<1>12. Heads' = Heads /\ Relatives' = Relatives
  BY <1>4 DEF Heads, Relatives
<1>13. Present'
  <2>1. DOMAIN search_root \subseteq DOMAIN search_root'
    BY <1>4 DEF tsearch, Put
  <2> QED
    BY <1>4, <1>5, <1>12, <2>1, StillPresent
<1> QED
  BY <1>4, <1>5, <1>8, <1>9, <1>10, <1>11, <1>12, <1>13 DEF TreeInv, LineInTree

\* The first heir is nobody's child, the abandoned line takes its place.
LEMMA LeaveChainTree ==
    ASSUME IInv, TreeInv, LeaveChain
    PROVE  TreeInv'
<1> DEFINE c == op.chain
           s == op.line[1]
           P == ToSet(eldest(op.orphans))
           kids == replace_first(info[c].kids, op.orphans)
           M == info'
<1>1. op.pc = "reorg" /\ fault = "none" /\ op.child = Null
  BY DEF LeaveChain
<1>2. CASE ~(leaving_hashes(info, op.line) \subseteq DOMAIN list_root)
  BY <1>2 DEF LeaveChain, Fail, TreeInv
<1>3. CASE leaving_hashes(info, op.line) \subseteq DOMAIN list_root
  <2>1. /\ M = [info EXCEPT ![c].kids = kids]
        /\ op' = [op EXCEPT !.pc = "siblings", !.level = 2]
        /\ longest_end' = longest_end /\ fault' = fault /\ accepted' = accepted
        /\ search_root' = search_root
    BY <1>3 DEF LeaveChain, mainVars
  <2>2. /\ NodesOK(info, Heads) /\ op \in OpType /\ c \in Heads /\ info[c].kids # <<>>
        /\ op.line \in Seq(Relatives) /\ op.orphans \in Seq(Relatives) /\ op.line # <<>>
    BY <1>1, ReorgFacts DEF HeadsLead, ReorgLinked
  <2>3. /\ KidsLive(info) /\ Heads \subseteq DOMAIN info /\ Relatives \subseteq DOMAIN info
        /\ \A y \in DOMAIN info : DOMAIN info[y] = Fields
        /\ \A q \in DOMAIN info : \A y : HasKid(info, q, y) => y \in Relatives
    BY <2>2, KidsAreRelatives
  <2>4. /\ Tree(info, Heads, P, {}) /\ LineDescends(op, info) /\ LineLeads(op, info) /\ Present
    BY <1>1 DEF TreeInv, Loose, Leaving, LineInTree
  <2>5. \A y \in P : y = Head(op.orphans) /\ y \in Relatives /\ info[y].parent = Null
    BY <2>2, <2>4, EldestSet, HeadTailProperties DEF LineLeads
  <2>6. \A y \in P, q \in DOMAIN info : ~HasKid(info, q, y)
    BY <2>4, <2>5 DEF Tree, Relatives
  <2>7. /\ s \in Relatives /\ HasKid(info, c, s)
        /\ \A y : y \in ToSet(kids) <=> y \in P \/ (HasKid(info, c, y) /\ y # s)
        /\ IsInjective(kids)
    <3>1. PICK t \in Seq(Relatives) : t = info[c].kids
      BY <2>2 DEF NodesOK, Relatives
    <3>2. Head(t) = s /\ t # <<>> /\ IsInjective(t)
      BY <2>2, <2>3, <2>4, <3>1 DEF LineLeads, Tree, Forest
    <3>3. /\ ToSet(t) = {s} \cup ToSet(Tail(t)) /\ IsInjective(Tail(t)) /\ s \notin ToSet(Tail(t))
      BY <3>2, SetOfHeadTail
    <3>4. PICK u \in Seq(Relatives) : u = Tail(t)
      BY <3>2, HeadTailProperties
    <3>5. PICK v \in Seq(Relatives) : v = eldest(op.orphans)
      BY <2>2, EldestProps
    <3>6. ToSet(v) = P /\ IsInjective(v)
      BY <3>5, EldestSet
    <3>7. ToSet(v) \cap ToSet(u) = {}
      BY <2>2, <2>3, <2>6, <3>1, <3>3, <3>4, <3>6 DEF HasKid
    <3>8. ToSet(v \o u) = ToSet(v) \cup ToSet(u) /\ IsInjective(v \o u)
      <4>1. IsInjective(v) /\ IsInjective(u)
        BY <3>3, <3>4, <3>6
      <4> HIDE DEF s, P, kids, c
      <4> QED
        BY ONLY <3>7, <4>1, u \in Seq(Relatives), v \in Seq(Relatives), SetOfConcat
    <3>9. kids = v \o u
      BY <3>1, <3>4, <3>5 DEF replace_first
    <3>10. s \in Relatives
      BY <3>2, HeadTailProperties
    <3> HIDE DEF s, P, kids
    <3>11. HasKid(info, c, s)
      BY <3>1, <3>3 DEF HasKid
    <3>12. \A y : y \in ToSet(kids) <=> y \in P \/ (HasKid(info, c, y) /\ y # s)
      BY <3>1, <3>3, <3>4, <3>6, <3>8, <3>9 DEF HasKid
    <3> QED
      BY <3>8, <3>9, <3>10, <3>11, <3>12
  <2>8. c \in DOMAIN info
    BY <2>2, <2>3
  <2>19. \A i \in 1 .. Len(op.line) : op.line[i] \in DOMAIN info /\ op.line[i] # c
    BY <2>2, <2>3, ElementOfSeq DEF Relatives
  <2> HIDE DEF kids, P, s, c
  <2>9. /\ DOMAIN M = DOMAIN info
        /\ \A y \in DOMAIN info :
              /\ M[y].hash = info[y].hash /\ M[y].parent = info[y].parent
              /\ M[y].kids = IF y = c THEN kids ELSE info[y].kids
    BY <2>1, <2>3, <2>8 DEF Fields
  <2>10. Heads' = Heads /\ Relatives' = Relatives
    BY <2>1, <2>9 DEF Heads, Relatives
  <2> HIDE DEF M
  <2>11. \A q \in DOMAIN info : \A y :
            HasKid(M, q, y) <=> (HasKid(info, q, y) /\ y # s) \/ (q = c /\ y \in P)
    <3>1. \A q \in DOMAIN info : HasKid(info, q, s) => q = c
      BY <2>3, <2>4, <2>7, <2>8 DEF Tree, Forest
    <3>2. \A y : HasKid(M, c, y) <=> (HasKid(info, c, y) /\ y # s) \/ y \in P
      BY <2>7, <2>8, <2>9 DEF HasKid
    <3>3. \A q \in DOMAIN info : \A y : q # c => (HasKid(M, q, y) <=> HasKid(info, q, y))
      BY <2>9 DEF HasKid
    <3> QED
      BY <3>1, <3>2, <3>3
  <2> DEFINE E == ToSet(op.line)
  <2> HIDE DEF E
  <2>12. Tree(M, Heads, {s}, E)
    <3>1. Forest(M)
      <4>1. \A q \in DOMAIN M : IsInjective(M[q].kids)
        BY <2>4, <2>7, <2>9 DEF Tree, Forest
      <4>2. ASSUME NEW q \in DOMAIN M, NEW r \in DOMAIN M, NEW y \in DOMAIN M,
                   HasKid(M, q, y), HasKid(M, r, y)
            PROVE  q = r
        <5>1. CASE y \in P
          BY <2>6, <2>9, <2>11, <4>2, <5>1
        <5>2. CASE y \notin P
          BY <2>4, <2>9, <2>11, <4>2, <5>2 DEF Tree, Forest
        <5> QED
          BY <5>1, <5>2
      <4> QED
        BY <4>1, <4>2 DEF Forest
    <3>2. ASSUME NEW y \in DOMAIN M \ Heads
          PROVE  y \in {s} <=> \A q \in DOMAIN M : ~HasKid(M, q, y)
      <4>1. CASE y = s
        <5>1. s \notin P
          BY <2>6, <2>7, <2>8
        <5> QED
          BY <2>9, <2>11, <4>1, <5>1
      <4>2. CASE y # s
        <5>1. CASE y \in P
          BY <2>8, <2>9, <2>11, <4>2, <5>1
        <5>2. CASE y \notin P
          <6>1. PICK q \in DOMAIN info : HasKid(info, q, y)
            BY <2>4, <2>9, <5>2 DEF Tree
          <6> QED
            BY <2>9, <2>11, <4>2, <6>1
        <5> QED
          BY <5>1, <5>2
      <4> QED
        BY <4>1, <4>2
    <3>3. ASSUME NEW e \in Heads PROVE M[e].parent = Null
      BY <2>3, <2>4, <2>9 DEF Tree
    <3>4. ASSUME NEW q \in DOMAIN M, NEW y \in DOMAIN M, HasKid(M, q, y)
          PROVE  M[y].parent = q \/ (q \in Heads /\ M[y].parent = Null)
      <4>1. CASE y \in P
        <5>1. q = c
          BY <2>6, <2>9, <2>11, <3>4, <4>1
        <5> QED
          BY <2>2, <2>5, <2>9, <3>4, <4>1, <5>1 DEF c
      <4>2. CASE y \notin P
        <5>1. HasKid(info, q, y)
          BY <2>9, <2>11, <3>4, <4>2
        <5> QED
          BY <2>4, <2>9, <3>4, <5>1 DEF Tree
      <4> QED
        BY <4>1, <4>2
    <3>5. {s} \subseteq DOMAIN M \ Heads
      BY <2>7, <2>9 DEF Relatives
    <3> QED
      BY <3>1, <3>2, <3>3, <3>4, <3>5 DEF Tree
  <2>13. /\ op'.pc = "siblings" /\ op'.line = op.line /\ op'.child = Null /\ op'.level = 2
    BY <1>1, <2>1, <2>2 DEF OpType
  <2>14. Loose(op') = {s} /\ Leaving(op') = E
    BY <2>13 DEF Loose, Leaving, s, E
  <2>15. LineInTree(op', M)
    <3>1. \A i \in 1 .. Len(op.line) : M[op.line[i]].kids = info[op.line[i]].kids
      BY <2>9, <2>19
    <3>2. Last(op.line) = op.line[Len(op.line)] /\ Len(op.line) \in 1 .. Len(op.line)
          /\ \A i \in 1 .. Len(op.line) - 1 : i \in 1 .. Len(op.line)
      BY <2>2, EmptySeq, LenProperties DEF Last
    <3>3. LineDescends(op', M)
      BY <1>1, <2>4, <2>13, <3>1, <3>2 DEF LineDescends
    <3>4. \A i \in 1 .. Len(op.line) - 1 : ~(i + 2 <= 2)
      BY <3>2
    <3>5. LineAlone(op', M)
      BY <2>2, <2>13, <3>4 DEF LineAlone
    <3> QED
      BY <2>13, <3>3, <3>5 DEF LineInTree
  <2>16. Present'
    <3>1. \A y \in Relatives : M[y].hash = info[y].hash
      BY <2>3, <2>9
    <3> QED
      BY <2>1, <2>4, <2>10, <3>1, StillPresent DEF M
  <2> QED
    BY <2>10, <2>12, <2>14, <2>15, <2>16 DEF TreeInv, M
<1> QED
  BY <1>2, <1>3

\* The siblings of an heir get a head of their own; those after the first
\* keep the elder, which is about to be freed, for a parent.
LEMMA AbandonSiblingsTree ==
    ASSUME IInv, TreeInv, AbandonSiblings
    PROVE  TreeInv'
<1> DEFINE elder == op.line[op.level - 1]
           kids == info[elder].kids
           siblings == Tail(kids)
           c == new_node(info)
           leader == Head(siblings)
           younger == op.line[op.level]
           moved == [info EXCEPT ![elder].kids = <<younger>>, ![leader].parent = c]
           p == info[leader].prev
           n == Len(op.line)
           E == ToSet(op.line)
           s == op.line[1]
           M == info'
<1>1. /\ op.pc = "siblings" /\ fault = "none" /\ op.level <= n /\ CanAllocate(info)
      /\ op' = [op EXCEPT !.level = @ + 1]
      /\ search_root' = search_root /\ accepted' = accepted /\ fault' = fault
  BY DEF AbandonSiblings, mainVars
<1>2. /\ NodesOK(info, Heads) /\ op \in OpType /\ LineOK(op, info)
      /\ op.line \in Seq(Relatives) /\ n \in Nat /\ op.level \in Nat /\ op.level >= 2
  BY <1>1, ReorgFacts DEF IInv, ListInv, OpOK, OpType
<1>3. /\ KidsLive(info) /\ Heads \subseteq DOMAIN info /\ Relatives \subseteq DOMAIN info
      /\ \A y \in DOMAIN info : DOMAIN info[y] = Fields
      /\ \A q \in DOMAIN info : \A y : HasKid(info, q, y) => y \in Relatives
  BY <1>2, KidsAreRelatives
<1>4. /\ Tree(info, Heads, {s}, E) /\ LineDescends(op, info) /\ LineAlone(op, info) /\ Present
  BY <1>1 DEF TreeInv, Loose, Leaving, LineInTree
<1>5. /\ op.level - 1 \in 1 .. n - 1 /\ op.level - 1 \in 1 .. n /\ op.level \in 1 .. n
      /\ op.level - 1 < n /\ (op.level - 1) + 1 = op.level
  BY <1>1, <1>2
<1>6. /\ elder \in Relatives /\ younger \in Relatives /\ kids # <<>> /\ kids \in Seq(Relatives)
      /\ Head(kids) = younger /\ IsInjective(kids)
  <2>1. elder \in Relatives /\ younger \in Relatives
    BY <1>2, <1>5, ElementOfSeq
  <2>2. kids # <<>> /\ kids \in Seq(Relatives)
    BY <1>1, <1>2, <1>3, <1>5, <2>1 DEF LineOK, NodesOK, Relatives
  <2>3. Head(kids) = op.line[(op.level - 1) + 1]
    BY <1>4, <1>5 DEF LineDescends
  <2>4. IsInjective(kids)
    BY <1>3, <1>4, <2>1 DEF Tree, Forest
  <2> QED
    BY <1>5, <2>1, <2>2, <2>3, <2>4
<1>7. /\ ToSet(kids) = {younger} \cup ToSet(siblings) /\ IsInjective(siblings)
      /\ younger \notin ToSet(siblings) /\ siblings \in Seq(Relatives)
  <2>1. PICK t \in Seq(Relatives) : t = kids
    BY <1>6
  <2>2. t # <<>> /\ IsInjective(t) /\ Head(t) = younger
    BY <1>6, <2>1
  <2>3. /\ ToSet(t) = {Head(t)} \cup ToSet(Tail(t)) /\ IsInjective(Tail(t))
        /\ Head(t) \notin ToSet(Tail(t))
    BY <2>2, SetOfHeadTail
  <2>4. Tail(t) \in Seq(Relatives)
    BY <2>2, HeadTailProperties
  <2> HIDE DEF kids, younger
  <2> QED
    BY <2>1, <2>2, <2>3, <2>4
<1>8. /\ op'.pc = "siblings" /\ op'.line = op.line /\ op'.child = op.child
      /\ op'.level = op.level + 1
  BY <1>1, <1>2 DEF OpType
<1>9. Loose(op') = {s} /\ Leaving(op') = E
  BY <1>8 DEF Loose, Leaving
<1>10. /\ \A i \in 1 .. n : op.line[i] \in DOMAIN info
       /\ Last(op.line) = op.line[n] /\ n \in 1 .. n
       /\ \A i \in 1 .. n - 1 : i \in 1 .. n
  BY <1>2, <1>3, <1>5, ElementOfSeq DEF Last
\* What the step has to leave of the line.
<1>11. ASSUME NEW N, \A y \in DOMAIN info : y # elder => N[y].kids = info[y].kids,
              Head(N[elder].kids) = younger, Len(N[elder].kids) = 1
       PROVE  LineInTree(op', N)
  <2>1. \A i \in 1 .. n : Head(N[op.line[i]].kids) = Head(info[op.line[i]].kids)
    BY <1>6, <1>10, <1>11
  <2>2. info[Last(op.line)].kids = <<>> => N[Last(op.line)].kids = <<>>
    BY <1>6, <1>10, <1>11
  <2>3. op.child = Null /\ op.line # <<>>
    BY <1>4 DEF LineAlone
  <2>4. LineDescends(op', N)
    BY <1>4, <1>8, <1>10, <2>1, <2>2, <2>3 DEF LineDescends
  <2>5. ASSUME NEW i \in 1 .. n - 1, i + 2 <= op.level + 1
        PROVE  Len(N[op.line[i]].kids) = 1
    <3>1. CASE op.line[i] = elder
      BY <1>11, <3>1
    <3>2. CASE op.line[i] # elder
      <4>1. i # op.level - 1
        BY <3>2
      <4>2. i + 2 <= op.level
        BY <1>2, <2>5, <4>1
      <4>3. Len(info[op.line[i]].kids) = 1
        BY <1>4, <4>2 DEF LineAlone
      <4> QED
        BY <1>10, <1>11, <3>2, <4>3
    <3> QED
      BY <3>1, <3>2
  <2>6. LineAlone(op', N)
    BY <1>8, <2>3, <2>5 DEF LineAlone
  <2> QED
    BY <1>8, <2>4, <2>6 DEF LineInTree
<1>12. CASE siblings = <<>>
  <2>1. info' = info /\ longest_end' = longest_end
    BY <1>12 DEF AbandonSiblings, listVars
  <2>2. Heads' = Heads /\ Relatives' = Relatives
    BY <2>1 DEF Heads, Relatives
  <2>3. Len(kids) = 1
    <3>1. PICK t \in Seq(Relatives) : t = kids
      BY <1>6
    <3>2. t # <<>> /\ Tail(t) = <<>> /\ Len(<<>>) = 0
      BY <1>6, <1>12, <3>1
    <3>3. Len(Tail(t)) = Len(t) - 1 /\ Len(t) \in Nat
      BY <3>2, HeadTailProperties, LenProperties
    <3>4. Len(t) = 1
      BY <3>2, <3>3
    <3> QED
      BY <3>1, <3>4
  <2>4. LineInTree(op', info)
    BY <1>6, <1>11, <2>3
  <2> QED
    BY <1>1, <1>4, <1>9, <2>1, <2>2, <2>4 DEF TreeInv, Present
<1>13. CASE siblings # <<>>
  <2> DEFINE head == chain_head(p, siblings)
             H == Heads \cup {c}
  <2>1. M = Put(moved, c, head) /\ \E e : longest_end' = list_add(longest_end, c, e)
    BY <1>13 DEF AbandonSiblings
  <2>2. leader \in Relatives /\ leader \in ToSet(siblings)
    <3>1. PICK t \in Seq(Relatives) : t = siblings
      BY <1>7
    <3>2. Head(t) \in Relatives /\ ToSet(t) = {Head(t)} \cup ToSet(Tail(t))
      BY <1>13, <3>1, SetOfHeadTail, HeadTailProperties
    <3> QED
      BY <3>1, <3>2
  <2>3. c \in Ptr /\ c \notin DOMAIN info
    BY <1>1, NewNode
  <2>4. elder \in DOMAIN info /\ leader \in DOMAIN info /\ younger # c
    BY <1>3, <1>6, <2>2, <2>3
  <2>5. /\ head.kids = siblings /\ head.parent = Null /\ DOMAIN head = Fields
    BY DEF chain_head, block_info, Fields
  <2>6. /\ ToSet(<<younger>>) = {younger} /\ IsInjective(<<younger>>) /\ Len(<<younger>>) = 1
        /\ Head(<<younger>>) = younger
    BY SetOfShort
  <2>7. elder \in E
    BY <1>2, <1>5, LenProperties DEF ToSet
  <2> DEFINE one == <<younger>>
  <2> HIDE DEF elder, kids, siblings, c, leader, younger, p, E, s, head, one
  <2>8. /\ DOMAIN moved = DOMAIN info
        /\ \A y \in DOMAIN info :
              /\ moved[y].hash = info[y].hash
              /\ moved[y].parent = IF y = leader THEN c ELSE info[y].parent
              /\ moved[y].kids = IF y = elder THEN one ELSE info[y].kids
    BY <1>3, <2>4 DEF Fields, one
  <2> HIDE DEF moved
  <2>9. /\ DOMAIN M = DOMAIN info \cup {c} /\ M[c] = head
        /\ \A y \in DOMAIN info : M[y] = moved[y]
    BY <2>1, <2>3, <2>8 DEF Put
  <2>10. Heads' = H /\ Relatives' = Relatives /\ DOMAIN M \ H = Relatives
    BY <1>3, <2>1, <2>3, <2>9 DEF Heads, Relatives, list_add, Put
  <2> HIDE DEF M, H
  <2>11. \A y : HasKid(info, elder, y) <=> y = younger \/ y \in ToSet(siblings)
    BY <1>7 DEF HasKid, kids
  <2>12. /\ \A y : HasKid(M, c, y) <=> y \in ToSet(siblings)
         /\ \A y : HasKid(M, elder, y) <=> y = younger
         /\ \A q \in DOMAIN info : \A y : q # elder => (HasKid(M, q, y) <=> HasKid(info, q, y))
    BY <2>4, <2>5, <2>6, <2>8, <2>9 DEF HasKid, one
  <2>13. \A q \in DOMAIN info : \A y : HasKid(info, q, y) /\ HasKid(info, elder, y) => q = elder
    BY <1>3, <1>4, <2>4 DEF Tree, Forest
  <2>14. \A q \in DOMAIN M : \A y : HasKid(M, q, y) =>
            \/ q = c /\ y \in ToSet(siblings) /\ HasKid(info, elder, y)
            \/ q = elder /\ y = younger /\ HasKid(info, elder, y)
            \/ q \in DOMAIN info /\ q # elder /\ ~HasKid(info, elder, y) /\ HasKid(info, q, y)
    BY <2>9, <2>11, <2>12, <2>13
  <2>15. Tree(M, H, {s}, E)
    <3>1. Forest(M)
      <4>1. \A q \in DOMAIN M : IsInjective(M[q].kids)
        BY <1>4, <1>7, <2>5, <2>6, <2>8, <2>9 DEF Tree, Forest, one
      <4>2. ASSUME NEW q \in DOMAIN M, NEW r \in DOMAIN M, NEW y \in DOMAIN M,
                   HasKid(M, q, y), HasKid(M, r, y)
            PROVE  q = r
        <5>1. CASE HasKid(info, elder, y)
          BY <1>7, <2>14, <4>2, <5>1
        <5>2. CASE ~HasKid(info, elder, y)
          <6>1. q \in DOMAIN info /\ r \in DOMAIN info /\ HasKid(info, q, y) /\ HasKid(info, r, y)
            BY <2>14, <4>2, <5>2
          <6> QED
            BY <1>3, <1>4, <6>1 DEF Tree, Forest
        <5> QED
          BY <5>1, <5>2
      <4> QED
        BY <4>1, <4>2 DEF Forest
    <3>2. ASSUME NEW y \in DOMAIN M \ H
          PROVE  y \in {s} <=> \A q \in DOMAIN M : ~HasKid(M, q, y)
      <4>1. y \in {s} <=> \A q \in DOMAIN info : ~HasKid(info, q, y)
        BY <1>4, <2>10 DEF Tree, Relatives
      <4>2. ASSUME NEW q \in DOMAIN info, HasKid(info, q, y) PROVE \E r \in DOMAIN M : HasKid(M, r, y)
        BY <2>9, <2>4, <2>11, <2>12, <4>2
      <4>3. ASSUME NEW q \in DOMAIN M, HasKid(M, q, y) PROVE \E r \in DOMAIN info : HasKid(info, r, y)
        BY <2>4, <2>14, <4>3
      <4> QED
        BY <4>1, <4>2, <4>3
    <3>3. ASSUME NEW e \in H PROVE M[e].parent = Null
      <4>1. CASE e = c
        BY <2>5, <2>9, <4>1
      <4>2. CASE e # c
        <5>1. e \in Heads /\ e \in DOMAIN info /\ e # leader
          BY <1>3, <2>2, <4>2 DEF H, Relatives
        <5> QED
          BY <1>4, <2>8, <2>9, <5>1 DEF Tree
      <4> QED
        BY <4>1, <4>2
    <3>4. ASSUME NEW q \in DOMAIN M, NEW y \in DOMAIN M, HasKid(M, q, y)
          PROVE  M[y].parent = q \/ M[y].parent \in E \/ (q \in H /\ M[y].parent = Null)
      <4>1. PICK r \in DOMAIN info : HasKid(info, r, y)
        BY <2>4, <2>14, <3>4
      <4>2. y \in DOMAIN info
        BY <1>3, <4>1
      <4>3. info[y].parent = r \/ info[y].parent \in E \/ (r \in Heads /\ info[y].parent = Null)
        BY <1>4, <4>1, <4>2 DEF Tree
      <4>4. M[y].parent = IF y = leader THEN c ELSE info[y].parent
        BY <2>8, <2>9, <4>2
      <4>5. CASE HasKid(info, elder, y)
        <5>1. r = elder /\ elder \notin Heads
          BY <1>6, <2>13, <4>1, <4>5 DEF Relatives, elder
        <5>2. y = leader => q = c
          BY <1>7, <2>2, <2>14, <3>4, <4>5
        <5> QED
          BY <2>7, <4>3, <4>4, <5>1, <5>2
      <4>6. CASE ~HasKid(info, elder, y)
        <5>1. y # leader
          BY <2>2, <2>11, <4>6
        <5>2. q \in DOMAIN info /\ HasKid(info, q, y)
          BY <2>14, <3>4, <4>6
        <5>3. q = r
          BY <1>4, <4>1, <4>2, <5>2 DEF Tree, Forest
        <5> QED
          BY <4>3, <4>4, <5>1, <5>3 DEF H
      <4> QED
        BY <4>5, <4>6
    <3>5. {s} \subseteq DOMAIN M \ H
      BY <1>4, <2>10 DEF Tree, Relatives
    <3> QED
      BY <3>1, <3>2, <3>3, <3>4, <3>5 DEF Tree
  <2>16. LineInTree(op', M)
    <3>1. \A y \in DOMAIN info : y # elder => M[y].kids = info[y].kids
      BY <2>8, <2>9
    <3>2. M[elder].kids = one
      BY <2>4, <2>8, <2>9
    <3> QED
      BY <1>11, <2>6, <3>1, <3>2 DEF one
  <2>17. Present'
    <3>1. \A y \in Relatives : M[y].hash = info[y].hash
      BY <1>3, <2>8, <2>9
    <3> QED
      BY <1>1, <1>4, <2>10, <3>1, StillPresent DEF M
  <2> QED
    BY <1>9, <2>10, <2>15, <2>16, <2>17 DEF TreeInv, M, E, s
<1> QED
  BY <1>12, <1>13

\* The walk begins with the node itself.
LEMMA OffspringSelf ==
    ASSUME NEW N, KidsLive(N), DOMAIN N \subseteq Ptr, NEW x \in DOMAIN N
    PROVE  x \in ToSet(offspring(N, x))
<1>1. PICK f : Walks(f, N, MaxNodes) /\ offspring(N, x) = f[MaxNodes][<<x>>]
  BY OffspringIs
<1> DEFINE t == <<x>>
           u == N[x].kids \o Tail(t)
           m == MaxNodes - 1
<1>2. t \in Seq(DOMAIN N) /\ t # <<>> /\ Head(t) = x /\ ToSet(t) = {x}
  BY SetOfShort
<1>3. MaxNodes \in 0 .. MaxNodes /\ m \in 0 .. MaxNodes /\ MaxNodes # 0 /\ MaxNodes \in Nat
  BY MaxNodesAssumption DEF Ptr
<1>4. offspring(N, x) = f[MaxNodes][t]
  BY <1>1
<1> HIDE DEF t
<1>5. f[MaxNodes][t] = t \o f[m][u]
  <2>1. f[MaxNodes] = Visits(N, MaxNodes, f[m])
    BY <1>1, <1>3 DEF Walks
  <2>2. f[MaxNodes][t] = <<Head(t)>> \o f[m][N[Head(t)].kids \o Tail(t)]
    BY <1>2, <1>3, <2>1 DEF Visits
  <2> QED
    BY <1>2, <2>2 DEF t
<1>6. u \in Seq(DOMAIN N)
  BY <1>2, PendingLive
<1> HIDE DEF u, m
<1>7. f[m][u] \in Seq(DOMAIN N)
  <2>1. Closed(N, DOMAIN N)
    BY ToSetProps DEF Closed, KidsLive
  <2>2. ToSet(u) \subseteq DOMAIN N
    BY <1>6, ToSetProps
  <2> QED
    BY <1>1, <1>3, <1>6, <2>1, <2>2, WalkWithin
<1>8. ToSet(t \o f[m][u]) = ToSet(t) \cup ToSet(f[m][u])
  BY <1>2, <1>7, SetOfConcat
<1> QED
  BY <1>2, <1>4, <1>5, <1>8

\* Once every sibling is given away the offspring of the successor are the line.
LEMMA LineIsOffspring ==
    ASSUME IInv, TreeInv, op.pc = "siblings", fault = "none", op.level > Len(op.line)
    PROVE  /\ ToSet(offspring(info, op.line[1])) = ToSet(op.line)
           /\ ToSet(op.line) \subseteq Relatives /\ Closed(info, ToSet(op.line))
           /\ op.line[1] \in ToSet(op.line) /\ Head(op.line) = op.line[1]
<1> DEFINE n == Len(op.line)
           E == ToSet(op.line)
           s == op.line[1]
           V == ToSet(offspring(info, s))
<1>1. /\ NodesOK(info, Heads) /\ op \in OpType /\ LineOK(op, info)
      /\ op.line \in Seq(Relatives) /\ n \in Nat /\ op.level \in Nat
  BY ReorgFacts DEF OpType
<1>2. /\ KidsLive(info) /\ Relatives \subseteq DOMAIN info /\ DOMAIN info \subseteq Ptr
  BY <1>1, KidsAreRelatives DEF NodesOK
<1>3. /\ Tree(info, Heads, {s}, E) /\ LineDescends(op, info) /\ LineAlone(op, info)
  BY DEF TreeInv, Loose, Leaving, LineInTree
<1>4. /\ 1 \in 1 .. n /\ n \in 1 .. n /\ Last(op.line) = op.line[n] /\ Head(op.line) = s
      /\ DOMAIN op.line = 1 .. n /\ \A i \in 1 .. n : op.line[i] \in Relatives
  BY <1>1, <1>3, EmptySeq, LenProperties, ElementOfSeq, HeadTailProperties DEF Last, LineAlone
<1>5. E \subseteq Relatives /\ E \subseteq DOMAIN info /\ s \in E
  BY <1>2, <1>4 DEF ToSet
<1>6. ASSUME NEW i \in 1 .. n - 1
      PROVE  ToSet(info[op.line[i]].kids) = {op.line[i + 1]} /\ i + 1 \in 1 .. n
  <2>1. i \in 1 .. n /\ i + 1 \in 1 .. n /\ i + 2 <= op.level
    BY <1>1
  <2>2. PICK t \in Seq(DOMAIN info) : t = info[op.line[i]].kids
    BY <1>2, <1>4, <2>1 DEF KidsLive
  <2>3. Len(t) = 1 /\ Head(t) = op.line[i + 1]
    BY <1>3, <2>1, <2>2 DEF LineAlone, LineDescends
  <2>4. DOMAIN t = {1} /\ t[1] = Head(t)
    BY <2>3, HeadTailProperties, LenProperties
  <2> QED
    BY <2>1, <2>2, <2>3, <2>4 DEF ToSet
<1>7. ToSet(info[op.line[n]].kids) = {}
  BY <1>3, <1>4, SetOfShort DEF LineDescends, LineAlone
<1>8. Closed(info, E)
  <2>1. ASSUME NEW y \in E PROVE ToSet(info[y].kids) \subseteq E
    <3>1. PICK i \in 1 .. n : y = op.line[i]
      BY <1>4 DEF ToSet
    <3>2. CASE i = n
      BY <1>7, <3>1, <3>2
    <3>3. CASE i # n
      <4>1. i \in 1 .. n - 1
        BY <1>1, <3>3
      <4>2. i + 1 \in 1 .. n /\ ToSet(info[y].kids) = {op.line[i + 1]}
        BY <1>6, <3>1, <4>1
      <4>3. op.line[i + 1] \in E
        BY <1>4, <4>2 DEF ToSet
      <4> QED
        BY <4>2, <4>3
    <3> QED
      BY <3>2, <3>3
  <2> QED
    BY <2>1 DEF Closed
<1> HIDE DEF E, V, s
<1>9. V \subseteq E
  <2>1. E \in SUBSET DOMAIN info
    BY <1>5
  <2>2. offspring(info, s) \in Seq(E)
    BY <1>2, <1>5, <1>8, <2>1, OffspringWithin
  <2> QED
    BY <2>2, ToSetProps DEF V
<1>10. s \in V /\ Closed(info, V)
  <2>1. s \in DOMAIN info \ Heads
    BY <1>5 DEF Relatives
  <2>2. \A q \in DOMAIN info : ~HasKid(info, q, s)
    BY <1>3, <2>1 DEF Tree
  <2>3. Forest(info)
    BY <1>3 DEF Tree
  <2> QED
    BY <1>2, <2>1, <2>2, <2>3, OffspringAll DEF V
<1>11. \A i \in 1 .. n : op.line[i] \in V
  <2> DEFINE T == {k \in Nat : k + 1 <= n => op.line[k + 1] \in V}
  <2>1. 0 \in T
    BY <1>10 DEF s
  <2>2. ASSUME NEW k \in T PROVE k + 1 \in T
    <3> SUFFICES ASSUME (k + 1) + 1 <= n PROVE op.line[(k + 1) + 1] \in V
      BY <2>2
    <3>1. k \in Nat /\ k + 1 <= n /\ op.line[k + 1] \in V
      BY <1>1, <2>2
    <3>2. k + 1 \in 1 .. n - 1
      BY <1>1, <3>1
    <3> QED
      BY <1>6, <1>10, <3>1, <3>2 DEF Closed
  <2> HIDE DEF T
  <2>3. T = Nat
    BY <2>1, <2>2, SetInduction DEF T
  <2>4. ASSUME NEW i \in 1 .. n PROVE op.line[i] \in V
    <3>1. i - 1 \in Nat /\ (i - 1) + 1 = i /\ i <= n
      BY <1>1
    <3> QED
      BY <2>3, <3>1 DEF T
  <2> QED
    BY <2>4
<1>12. E \subseteq V
  BY <1>4, <1>11 DEF ToSet, E
<1> QED
  BY <1>4, <1>5, <1>8, <1>9, <1>12 DEF V, E, s

\* What goes is the line, the siblings of the successor with all their offspring
\* (some children of the chain's head: B), and the head once nothing hangs off it.
LEMMA FreedAre ==
    ASSUME IInv, TreeInv, DestroySuccessor
    PROVE  \E B \in SUBSET ToSet(info[op.chain].kids) :
              LET gone == ToSet(op.line) \cup (UNION {ToSet(offspring(info, x)) : x \in B})
                             \cup (IF info[op.chain].kids = <<>> THEN {op.chain} ELSE {})
              IN  /\ B \subseteq Relatives
                  /\ \A x \in B : /\ x \in ToSet(offspring(info, x))
                                  /\ ToSet(offspring(info, x)) \subseteq Relatives
                  /\ info' = Without(info, gone) /\ Heads' = Heads \ gone
<1> DEFINE c == op.chain
           kids == info[c].kids
           m == Len(eldest(op.orphans)) + 1
           n == Len(kids)
           successor == Head(op.line)
           siblings == SubSeq(kids, m, n)
           freed == <<successor>> \o siblings
           gone == Freed(info, freed) \cup (IF kids = <<>> THEN {c} ELSE {})
           B == ToSet(siblings)
<1>1. op.pc = "siblings" /\ fault = "none" /\ op.level > Len(op.line)
  BY DEF DestroySuccessor
<1>2. info' = Without(info, gone) /\ DOMAIN longest_end' = DOMAIN longest_end \ gone
  BY DEF DestroySuccessor
<1>3. /\ NodesOK(info, Heads) /\ c \in Heads /\ op.orphans \in Seq(Relatives)
      /\ Relatives \subseteq DOMAIN info /\ kids \in Seq(Relatives)
  BY <1>1, ReorgFacts DEF NodesOK, Relatives
<1>4. KidsLive(info) /\ DOMAIN info \subseteq Ptr /\ c \in DOMAIN info
  BY <1>3, KidsAreRelatives DEF NodesOK
<1>5. /\ ToSet(offspring(info, successor)) = ToSet(op.line)
      /\ successor \in Relatives
  BY <1>1, LineIsOffspring
<1>6. siblings \in Seq(Relatives) /\ ToSet(siblings) \subseteq ToSet(kids)
  <2>1. m \in Int /\ n \in Int /\ m \in Nat /\ m >= 1 /\ n \in Nat
    BY <1>3, EldestProps, LenProperties
  <2> HIDE DEF m, kids
  <2>2. \A i \in m .. n : i \in 1 .. n /\ kids[i] \in Relatives /\ kids[i] \in ToSet(kids)
    <3>1. \A i \in m .. n : i \in 1 .. n
      BY <2>1
    <3>2. \A i \in 1 .. n : kids[i] \in Relatives
      BY <1>3, ElementOfSeq
    <3>3. DOMAIN kids = 1 .. n
      BY <1>3, LenProperties
    <3> QED
      BY <3>1, <3>2, <3>3 DEF ToSet
  <2> DEFINE S == Relatives \cap ToSet(kids)
  <2>3. \A i \in m .. n : kids[i] \in S
    BY <2>2
  <2> HIDE DEF S, n
  <2>4. SubSeq(kids, m, n) \in Seq(S)
    BY <2>1, <2>3, SubSeqProperties, SMT
  <2>5. siblings \in Seq(Relatives)
    BY <2>4, SeqMonotonic DEF S
  <2>6. ToSet(siblings) \subseteq S
    BY <2>4, ToSetProps
  <2> QED
    BY <2>5, <2>6 DEF S
<1> HIDE DEF successor, siblings, c, kids, m, n
<1>7. ToSet(freed) = {successor} \cup B
  <2> DEFINE one == <<successor>>
  <2>1. one \in Seq(Relatives) /\ ToSet(one) = {successor}
    BY <1>5, SetOfShort
  <2> HIDE DEF one
  <2>2. ToSet(one \o siblings) = ToSet(one) \cup ToSet(siblings)
    BY <1>6, <2>1, SetOfConcat
  <2> QED
    BY <2>1, <2>2 DEF one
<1> HIDE DEF freed
<1>8. B \subseteq ToSet(kids) /\ B \subseteq Relatives
  BY <1>6, ToSetProps
<1> HIDE DEF B
<1>9. \A x \in B : x \in ToSet(offspring(info, x)) /\ ToSet(offspring(info, x)) \subseteq Relatives
  <2>1. Closed(info, Relatives) /\ Relatives \in SUBSET DOMAIN info
    <3>1. \A y \in Relatives : info[y].kids \in Seq(Relatives)
      BY <1>3 DEF NodesOK, Relatives
    <3> QED
      BY <1>3, <3>1, ToSetProps DEF Closed
  <2>2. \A x \in Relatives : offspring(info, x) \in Seq(Relatives)
    BY <1>4, <2>1, OffspringWithin
  <2>3. \A x \in Relatives : x \in ToSet(offspring(info, x))
    BY <1>3, <1>4, OffspringSelf
  <2> QED
    BY <1>8, <2>2, <2>3, ToSetProps
<1>10. Freed(info, freed) = ToSet(op.line) \cup (UNION {ToSet(offspring(info, x)) : x \in B})
  BY <1>5, <1>7 DEF Freed
<1> DEFINE went == ToSet(op.line) \cup (UNION {ToSet(offspring(info, x)) : x \in B})
                      \cup (IF info[op.chain].kids = <<>> THEN {op.chain} ELSE {})
<1>11. gone = went
  BY <1>10 DEF c, kids
<1>12. info' = Without(info, went) /\ Heads' = Heads \ went
  BY <1>2, <1>11 DEF Heads
<1>13. B \in SUBSET ToSet(info[op.chain].kids)
  BY <1>8 DEF c, kids
<1> HIDE DEF gone
<1> QED
  BY <1>8, <1>9, <1>12, <1>13

\* Unless what is freed is still in use, exactly the line goes, and its head
\* once nothing hangs off it.
LEMMA FreedIsLine ==
    ASSUME IInv, TreeInv, DestroySuccessor, fault' = "none"
    PROVE  LET gone == ToSet(op.line) \cup (IF info[op.chain].kids = <<>> THEN {op.chain} ELSE {})
           IN  info' = Without(info, gone) /\ Heads' = Heads \ gone
<1> DEFINE c == op.chain
           kids == info[c].kids
           E == ToSet(op.line)
           Gone(B) == E \cup (UNION {ToSet(offspring(info, x)) : x \in B})
                        \cup (IF kids = <<>> THEN {c} ELSE {})
<1>1. PICK B \in SUBSET ToSet(kids) :
         /\ B \subseteq Relatives
         /\ \A x \in B : x \in ToSet(offspring(info, x)) /\ ToSet(offspring(info, x)) \subseteq Relatives
         /\ info' = Without(info, Gone(B)) /\ Heads' = Heads \ Gone(B)
  BY FreedAre
<1>2. op.pc = "siblings" /\ fault = "none" /\ op.level > Len(op.line) /\ ~Dangling(info', list_root')
  BY DEF DestroySuccessor
<1>3. c \in Heads /\ c \in DOMAIN info /\ E \subseteq Relatives
  BY <1>2, ReorgFacts, LineIsOffspring DEF NodesOK
<1>4. ASSUME NEW k \in B PROVE FALSE
  <2>1. kids # <<>>
    BY <1>1, <1>4, SetOfShort
  <2>2. c \notin Gone(B)
    BY <1>1, <1>3, <2>1 DEF Relatives
  <2>3. k \in Gone(B)
    BY <1>1, <1>4
  <2> HIDE DEF Gone, kids
  <2>4. c \in DOMAIN info' /\ info'[c] = info[c] /\ k \notin DOMAIN info'
    BY <1>1, <1>3, <2>2, <2>3 DEF Without
  <2> QED
    BY <1>1, <1>2, <1>4, <2>4 DEF Dangling, kids
<1>5. (UNION {ToSet(offspring(info, x)) : x \in B}) = {}
  BY <1>4
<1>6. Gone(B) = E \cup (IF kids = <<>> THEN {c} ELSE {})
  BY <1>5
<1> HIDE DEF Gone
<1> QED
  BY <1>1, <1>6

\* The line leaves no trace in the tree.
LEMMA DestroySuccessorTree ==
    ASSUME IInv, IInv', TreeInv, DestroySuccessor
    PROVE  TreeInv'
<1> SUFFICES ASSUME fault' = "none" PROVE TreeInv'
  BY DEF TreeInv
<1> DEFINE c == op.chain
           E == ToSet(op.line)
           s == op.line[1]
           gone == E \cup (IF info[c].kids = <<>> THEN {c} ELSE {})
           M == info'
<1>1. /\ op.pc = "siblings" /\ fault = "none" /\ op.level > Len(op.line)
      /\ op' = Idle /\ accepted' = accepted /\ search_root' = search_root /\ heirs' = heirs
  BY DEF DestroySuccessor, mainVars
<1>2. info' = Without(info, gone) /\ Heads' = Heads \ gone
  BY FreedIsLine
<1>3. ~Dangling(info', list_root')
  BY DEF DestroySuccessor
<1>4. /\ NodesOK(info, Heads) /\ c \in Heads /\ op.line \in Seq(Relatives) /\ Null \notin Relatives
      /\ ReorgLinked(op, info, heirs) /\ Len(op.line) \in Nat /\ Len(heirs) \in Nat
      /\ op.fork \in 1 .. Len(heirs)
  BY <1>1, ReorgFacts
<1>5. /\ KidsLive(info) /\ Heads \subseteq DOMAIN info /\ Relatives \subseteq DOMAIN info
      /\ \A q \in DOMAIN info : \A y : HasKid(info, q, y) => y \in Relatives
  BY <1>4, KidsAreRelatives
<1>6. Tree(info, Heads, {s}, E) /\ LineAlone(op, info) /\ Present
  BY <1>1 DEF TreeInv, Loose, Leaving, LineInTree
<1>7. E \subseteq Relatives /\ Closed(info, E) /\ s \in E
  BY <1>1, LineIsOffspring
<1> HIDE DEF E, s
<1>8. /\ DOMAIN M = DOMAIN info \ gone
      /\ \A y \in DOMAIN M : M[y] = info[y] /\ y \in DOMAIN info /\ y \notin E
  BY <1>2 DEF Without
<1>9. Heads' \subseteq Heads /\ Relatives' = Relatives \ E /\ DOMAIN M \ Heads' = Relatives \ E
      /\ \A y \in Heads : y \in DOMAIN M => y \in Heads'
  BY <1>2, <1>4, <1>5, <1>7, <1>8 DEF Relatives
<1>10. \A q \in DOMAIN M : \A y : HasKid(M, q, y) <=> HasKid(info, q, y)
  BY <1>8 DEF HasKid
<1>11. \A q \in DOMAIN info : \A y : HasKid(info, q, y) /\ y \notin E => q \in DOMAIN M
  <2> SUFFICES ASSUME NEW q \in DOMAIN info, NEW y, HasKid(info, q, y), y \notin E
               PROVE  q \notin gone
    BY <1>8
  <2>1. q \notin E
    BY <1>7 DEF Closed, HasKid
  <2>2. info[q].kids # <<>>
    BY SetOfShort DEF HasKid
  <2> QED
    BY <2>1, <2>2
<1> HIDE DEF gone, M
<1>12. Tree(M, Heads', {}, {})
  <2>1. Forest(M)
    BY <1>6, <1>8, <1>10 DEF Tree, Forest
  <2>2. ASSUME NEW y \in DOMAIN M \ Heads' PROVE ~(\A q \in DOMAIN M : ~HasKid(M, q, y))
    <3>1. y \in Relatives /\ y \notin E
      BY <1>9
    <3>2. PICK q \in DOMAIN info : HasKid(info, q, y)
      BY <1>6, <1>7, <3>1 DEF Tree, Relatives
    <3> QED
      BY <1>10, <1>11, <3>1, <3>2
  <2>3. ASSUME NEW e \in Heads' PROVE M[e].parent = Null
    <3>1. e \in Heads /\ e \in DOMAIN M
      <4>1. e \in Heads /\ e \in DOMAIN info /\ e \notin gone
        BY <1>2, <1>5
      <4> QED
        BY <1>8, <4>1
    <3> QED
      BY <1>6, <1>8, <3>1 DEF Tree
  <2>4. ASSUME NEW q \in DOMAIN M, NEW y \in DOMAIN M, HasKid(M, q, y)
        PROVE  M[y].parent = q \/ (q \in Heads' /\ M[y].parent = Null)
    <3>1. HasKid(info, q, y) /\ q \in DOMAIN info /\ y \in DOMAIN info /\ M[y].parent = info[y].parent
      BY <1>8, <1>10, <2>4
    <3>2. info[y].parent = q \/ info[y].parent \in E \/ (q \in Heads /\ info[y].parent = Null)
      BY <1>6, <3>1 DEF Tree
    <3>3. M[y].parent \in DOMAIN M \cup {Null}
      BY <1>3 DEF Dangling, M
    <3>4. M[y].parent \notin E
      BY <1>4, <1>7, <1>8, <3>3
    <3> QED
      BY <1>9, <3>1, <3>2, <3>4
  <2> QED
    BY <2>1, <2>2, <2>3, <2>4 DEF Tree
<1>13. Loose(op') = {} /\ Leaving(op') = {} /\ LineInTree(op', M)
  BY <1>1, NoLine
<1>14. Present'
  <2>1. ASSUME NEW b \in accepted
        PROVE  b \in DOMAIN search_root \/ \E y \in Relatives' : M[y].hash = b
    <3>1. CASE b \in DOMAIN search_root
      BY <3>1
    <3>2. CASE b \notin DOMAIN search_root
      <4>1. PICK y \in Relatives : info[y].hash = b
        BY <1>6, <3>2 DEF Present
      <4>2. CASE y \in E
        <5>1. PICK i \in 1 .. Len(op.line) : y = op.line[i]
          BY <1>4, <4>2, LenProperties DEF E, ToSet
        <5>2. info[y].hash = heirs[op.fork + i].hash
          BY <1>1, <1>4, <5>1 DEF ReorgLinked
        <5>3. Len(heirs) = op.fork + Len(op.line)
          BY <1>1, <1>4, <1>6 DEF ReorgLinked, LineAlone
        <5>4. op.fork + i \in 1 .. Len(heirs)
          BY <1>4, <5>3
        <5>5. DOMAIN heirs = 1 .. Len(heirs)
          BY LenProperties DEF IInv, MainInv
        <5>6. heirs[op.fork + i].hash \in DOMAIN search_root
          BY <5>4, <5>5 DEF IInv, MainInv, SearchRootExact
        <5> QED
          BY <3>2, <4>1, <5>2, <5>6
      <4>3. CASE y \notin E
        <5>1. y \in Relatives' /\ y \in DOMAIN M
          BY <1>9, <4>3
        <5> QED
          BY <1>8, <4>1, <5>1
      <4> QED
        BY <4>2, <4>3
    <3> QED
      BY <3>1, <3>2
  <2> QED
    BY <1>1, <2>1 DEF Present, M
<1> QED
  BY <1>12, <1>13, <1>14 DEF TreeInv, M

\* Every step keeps it.
LEMMA NextTree ==
    ASSUME IInv, IInv', TreeInv, [Next]_vars
    PROVE  TreeInv'
<1>1. CASE UNCHANGED vars
  <2>1. /\ info' = info /\ Heads' = Heads /\ Relatives' = Relatives /\ op' = op /\ fault' = fault
        /\ accepted' = accepted /\ search_root' = search_root
    BY <1>1 DEF vars, Heads, Relatives
  <2> QED
    BY <2>1 DEF TreeInv, Present
<1>2. ASSUME NEW b \in Blocks, Enrol(b) PROVE TreeInv'
  BY <1>2, EnrolTree
<1>3. ASSUME Step PROVE TreeInv'
  BY <1>3, RuleIITree, RuleIIITree, RuleIVTree, AbandonChildTree, AddHeirTree,
     LeaveChainTree, AbandonSiblingsTree, DestroySuccessorTree DEF Step
<1> QED
  BY <1>1, <1>2, <1>3 DEF Next, Ignore, Halted

\* A chain just initialised has no candidates.
LEMMA InitTree == Init => TreeInv
<1> SUFFICES ASSUME Init PROVE TreeInv
  OBVIOUS
<1>1. DOMAIN info = {} /\ Heads = {} /\ Relatives = {} /\ op = Idle /\ accepted = {}
  BY DEF Init, Heads, Relatives
<1>2. Loose(op) = {} /\ Leaving(op) = {} /\ LineInTree(op, info)
  BY <1>1, NoLine
<1>3. Tree(info, Heads, {}, {})
  BY <1>1 DEF Tree, Forest
<1> QED
  BY <1>1, <1>2, <1>3 DEF TreeInv, Present

\* The candidates are a forest in every reachable state, in the middle of
\* blockchain_add() too, but for the nodes that the step has in its hands.
THEOREM CandidatesAreForest == Spec => []TreeInv
BY InitTree, NextTree, Invariance, PTL DEF Spec

\* Between calls the candidates are a forest with nothing loose.
LEMMA TreeSettled ==
    ASSUME IInv, TreeInv, Settled
    PROVE  /\ NodesOK(info, Heads) /\ HeadsLead(info, Heads, op) /\ KidsLinked(info, Relatives)
           /\ Tree(info, Heads, {}, {}) /\ Present /\ op.pc = "idle"
           /\ \A x \in Relatives : \E q \in DOMAIN info : HasKid(info, q, x)
<1>1. /\ NodesOK(info, Heads) /\ HeadsLead(info, Heads, op) /\ KidsLinked(info, Relatives)
      /\ op.pc = "idle" /\ fault = "none"
  BY DEF Settled, IInv, ListInv
<1>2. Tree(info, Heads, {}, {}) /\ Present
  BY <1>1 DEF TreeInv, Loose, Leaving
<1>3. \A x \in Relatives : \E q \in DOMAIN info : HasKid(info, q, x)
  BY <1>2 DEF Tree, Relatives
<1> QED
  BY <1>1, <1>2, <1>3

\* A child's header names its owner.
LEMMA KidNamesOwner ==
    ASSUME KidsLinked(info, Relatives), NEW q \in DOMAIN info, NEW x, HasKid(info, q, x)
    PROVE  info[x].prev = info[q].hash
<1>1. x \in Children(info, Relatives, info[q].hash)
  BY ToSetProps DEF KidsLinked, HasKid
<1> QED
  BY <1>1 DEF Children

\* The invariants say what FamilyIsTree does.
LEMMA TreeIsFamily == IInv /\ TreeInv => FamilyIsTree
<1> SUFFICES ASSUME IInv, TreeInv, Settled
             PROVE  /\ \A x \in Relatives :
                          \E p \in DOMAIN info :
                             /\ {q \in DOMAIN info : x \in ToSet(info[q].kids)} = {p}
                             /\ Cardinality({i \in DOMAIN info[p].kids : info[p].kids[i] = x}) = 1
                             /\ info[x].parent = p \/ (info[x].parent = Null /\ p \in Heads)
                             /\ info[x].prev = info[p].hash
                    /\ \A c \in Heads : info[c].parent = Null /\ info[c].kids # <<>>
  BY DEF FamilyIsTree
<1>1. /\ NodesOK(info, Heads) /\ HeadsLead(info, Heads, op) /\ KidsLinked(info, Relatives)
      /\ Tree(info, Heads, {}, {}) /\ op.pc = "idle"
      /\ \A x \in Relatives : \E q \in DOMAIN info : HasKid(info, q, x)
  BY TreeSettled
<1>2. ASSUME NEW c \in Heads PROVE info[c].parent = Null /\ info[c].kids # <<>>
  BY <1>1 DEF Tree, HeadsLead
<1>3. ASSUME NEW x \in Relatives
      PROVE  \E p \in DOMAIN info :
                /\ {q \in DOMAIN info : x \in ToSet(info[q].kids)} = {p}
                /\ Cardinality({i \in DOMAIN info[p].kids : info[p].kids[i] = x}) = 1
                /\ info[x].parent = p \/ (info[x].parent = Null /\ p \in Heads)
                /\ info[x].prev = info[p].hash
  <2>1. PICK p \in DOMAIN info : HasKid(info, p, x)
    BY <1>1
  <2>2. x \in DOMAIN info
    BY DEF Relatives
  <2>3. {q \in DOMAIN info : x \in ToSet(info[q].kids)} = {p}
    BY <1>1, <2>1, <2>2 DEF Tree, Forest, HasKid
  <2>4. Cardinality({i \in DOMAIN info[p].kids : info[p].kids[i] = x}) = 1
    <3>1. PICK i \in DOMAIN info[p].kids : info[p].kids[i] = x
      BY <2>1 DEF HasKid, ToSet
    <3>2. IsInjective(info[p].kids)
      BY <1>1 DEF Tree, Forest
    <3>3. {j \in DOMAIN info[p].kids : info[p].kids[j] = x} = {i}
      BY <3>1, <3>2 DEF IsInjective
    <3> QED
      BY <3>3, FS_Singleton
  <2>5. info[x].parent = p \/ (info[x].parent = Null /\ p \in Heads)
    BY <1>1, <2>1, <2>2 DEF Tree
  <2>6. info[x].prev = info[p].hash
    BY <1>1, <2>1, KidNamesOwner
  <2> QED
    BY <2>3, <2>4, <2>5, <2>6
<1> QED
  BY <1>2, <1>3

\* For every block tree and order of arrival: between calls every candidate
\* block has one place in one family, linked both ways, whatever
\* blockchain_add() claimed, joined, abandoned and freed before.
THEOREM FamilyTreesHold == Spec => []FamilyIsTree
BY TreeIsFamily, CandidatesAreForest, Invariance, PTL

\* Every node of the candidates is below a head: going up from one that is not,
\* from owner to owner, the headers would name one another in a circle.
LEMMA AllInFamilies ==
    ASSUME IInv, TreeInv, Settled
    PROVE  Relatives \subseteq UNION {ToSet(offspring(info, c)) : c \in Heads}
<1> DEFINE families == UNION {ToSet(offspring(info, c)) : c \in Heads}
           lost == Relatives \ families
           S == {info[x].hash : x \in lost}
<1>1. /\ NodesOK(info, Heads) /\ KidsLinked(info, Relatives) /\ Tree(info, Heads, {}, {})
      /\ \A x \in Relatives : \E q \in DOMAIN info : HasKid(info, q, x)
  BY TreeSettled
<1>2. /\ KidsLive(info) /\ Heads \subseteq DOMAIN info /\ DOMAIN info \subseteq Ptr
      /\ \A q \in DOMAIN info : \A y : HasKid(info, q, y) => y \in Relatives
  BY <1>1, KidsAreRelatives DEF NodesOK
<1>3. ASSUME NEW c \in Heads
      PROVE  c \in ToSet(offspring(info, c)) /\ Closed(info, ToSet(offspring(info, c)))
  <2>1. \A q \in DOMAIN info : ~HasKid(info, q, c)
    BY <1>2 DEF Relatives
  <2>2. Forest(info) /\ c \in DOMAIN info
    BY <1>1, <1>2 DEF Tree
  <2> QED
    BY <1>2, <2>1, <2>2, OffspringAll
<1>4. ASSUME NEW q \in DOMAIN info, NEW x, HasKid(info, q, x), q \in Heads \/ q \in families
      PROVE  x \in families
  <2>1. PICK c \in Heads : q \in ToSet(offspring(info, c))
    BY <1>3, <1>4
  <2>2. x \in ToSet(offspring(info, c))
    BY <1>3, <1>4, <2>1 DEF Closed, HasKid
  <2> QED
    BY <2>2
<1> HIDE DEF families
<1>5. S \subseteq Blocks /\ \A x \in lost : info[x].prev = prev_hash[info[x].hash]
  BY <1>1 DEF NodesOK, Relatives
<1>6. ASSUME S # {} PROVE FALSE
  <2>1. PICK b \in S : prev_hash[b] \notin S
    BY <1>5, <1>6, AcyclicAssumption
  <2>2. PICK x \in lost : info[x].hash = b
    BY <2>1
  <2>3. PICK q \in DOMAIN info : HasKid(info, q, x)
    BY <1>1, <2>2
  <2>4. info[q].hash = prev_hash[b]
    BY <1>1, <1>5, <2>2, <2>3, KidNamesOwner
  <2>5. q \notin lost
    BY <2>1, <2>4
  <2>6. q \in Heads \/ q \in families
    BY <2>3, <2>5 DEF Relatives
  <2> QED
    BY <1>4, <2>2, <2>3, <2>6
<1>7. lost = {}
  BY <1>6
<1> QED
  BY <1>7 DEF families

\* The loss a fault leaves: blocks above a fork whose head lists a freed child.
SiblingsLost ==
    fault = "dangling" =>
        \A b \in Lost :
            \E c \in Heads : /\ info[c].hash \in DOMAIN search_root
                             /\ ~(ToSet(info[c].kids) \subseteq DOMAIN info)
                             /\ Descends(b, info[c].hash)

\* Every node below a child of the node c is of a block that descends from c's.
LEMMA OffspringDescend ==
    ASSUME IInv, fault = "none", NEW c \in DOMAIN info, NEW k, HasKid(info, c, k),
           NEW y \in ToSet(offspring(info, k))
    PROVE  Descends(info[y].hash, info[c].hash)
<1> DEFINE h == info[c].hash
           W == {x \in Relatives : Descends(info[x].hash, h)}
<1>1. NodesOK(info, Heads) /\ KidsLinked(info, Relatives) /\ AllKnown(heirs, info, Relatives, accepted)
  BY DEF IInv, ListInv
<1>2. /\ KidsLive(info) /\ Relatives \subseteq DOMAIN info
      /\ \A q \in DOMAIN info : \A x : HasKid(info, q, x) => x \in Relatives
  BY <1>1, KidsAreRelatives
<1>3. \A x \in Relatives : info[x].prev = prev_hash[info[x].hash] /\ info[x].hash \in accepted
  BY <1>1 DEF NodesOK, AllKnown, Relatives
<1>4. \A q \in DOMAIN info : \A x : HasKid(info, q, x) => prev_hash[info[x].hash] = info[q].hash
  BY <1>1, <1>2, <1>3, KidNamesOwner
<1>5. k \in W
  <2>1. {info[k].hash} \in SUBSET accepted /\ prev_hash[info[k].hash] = h
    BY <1>2, <1>3, <1>4
  <2> QED
    BY <1>2, <2>1 DEF Descends
<1>6. Closed(info, W)
  <2>1. ASSUME NEW q \in W, NEW x, HasKid(info, q, x) PROVE x \in W
    <3>1. PICK line \in SUBSET accepted :
             info[q].hash \in line /\ \A d \in line : prev_hash[d] \in line \cup {h}
      BY DEF Descends
    <3>2. x \in Relatives /\ info[x].hash \in accepted /\ prev_hash[info[x].hash] = info[q].hash
      BY <1>2, <1>3, <1>4, <2>1
    <3> DEFINE longer == line \cup {info[x].hash}
    <3>3. longer \in SUBSET accepted /\ \A d \in longer : prev_hash[d] \in longer \cup {h}
      BY <3>1, <3>2
    <3> QED
      BY <3>2, <3>3 DEF Descends
  <2> QED
    BY <2>1 DEF Closed, HasKid
<1>7. offspring(info, k) \in Seq(W)
  <2>1. W \in SUBSET DOMAIN info
    BY <1>2
  <2> HIDE DEF W
  <2> QED
    BY <1>2, <1>5, <1>6, <2>1, OffspringWithin
<1>8. y \in W
  BY <1>7, ToSetProps
<1> QED
  BY <1>8

\* A block of which the free leaves no node was below one of the siblings, and
\* the head of the chain still lists that one.
LEMMA DestroySuccessorLoses ==
    ASSUME IInv, TreeInv, DestroySuccessor
    PROVE  SiblingsLost'
<1> DEFINE c == op.chain
           kids == info[c].kids
           E == ToSet(op.line)
           Gone(B) == E \cup (UNION {ToSet(offspring(info, x)) : x \in B})
                        \cup (IF kids = <<>> THEN {c} ELSE {})
<1>1. /\ op.pc = "siblings" /\ fault = "none" /\ op.level > Len(op.line)
      /\ accepted' = accepted /\ search_root' = search_root
  BY DEF DestroySuccessor, mainVars
<1>2. PICK B \in SUBSET ToSet(kids) :
         /\ B \subseteq Relatives
         /\ \A x \in B : x \in ToSet(offspring(info, x)) /\ ToSet(offspring(info, x)) \subseteq Relatives
         /\ info' = Without(info, Gone(B)) /\ Heads' = Heads \ Gone(B)
  BY FreedAre
<1>3. /\ c \in Heads /\ c \in DOMAIN info /\ E \subseteq Relatives /\ Relatives \subseteq DOMAIN info
      /\ ReorgLinked(op, info, heirs) /\ op.fork \in 1 .. Len(heirs) /\ Len(heirs) \in Nat
      /\ op.line \in Seq(Relatives) /\ Len(op.line) \in Nat
  BY <1>1, ReorgFacts, LineIsOffspring DEF NodesOK
<1>4. Present /\ LineAlone(op, info)
  BY <1>1 DEF TreeInv, LineInTree
<1>5. \A i \in 1 .. Len(heirs) : heirs[i].hash \in DOMAIN search_root
  BY LenProperties DEF IInv, MainInv, SearchRootExact
<1>6. info[c].hash \in DOMAIN search_root
  BY <1>1, <1>3, <1>5 DEF ReorgLinked
<1>7. ASSUME NEW y \in E PROVE info[y].hash \in DOMAIN search_root
  <2>1. PICK i \in 1 .. Len(op.line) : y = op.line[i]
    BY <1>3, <1>7, LenProperties DEF ToSet
  <2>2. info[y].hash = heirs[op.fork + i].hash /\ Len(heirs) = op.fork + Len(op.line)
    BY <1>1, <1>3, <1>4, <2>1 DEF ReorgLinked, LineAlone
  <2>3. op.fork + i \in 1 .. Len(heirs)
    BY <1>3, <2>2
  <2> QED
    BY <1>5, <2>2, <2>3
<1>8. ASSUME NEW b \in accepted, b \notin DOMAIN search_root,
             \A x \in Relatives' : info'[x].hash # b
      PROVE  \E e \in Heads' : /\ info'[e].hash \in DOMAIN search_root
                               /\ ~(ToSet(info'[e].kids) \subseteq DOMAIN info')
                               /\ Descends(b, info'[e].hash)
  <2>1. PICK y \in Relatives : info[y].hash = b
    BY <1>4, <1>8 DEF Present
  <2>2. y \in Gone(B)
    <3> SUFFICES ASSUME y \notin Gone(B) PROVE FALSE
      OBVIOUS
    <3> HIDE DEF Gone
    <3>1. y \in DOMAIN info' /\ info'[y] = info[y]
      BY <1>2, <1>3, <2>1 DEF Without
    <3>2. y \in Relatives'
      BY <1>2, <2>1, <3>1 DEF Relatives
    <3> QED
      BY <1>8, <2>1, <3>1, <3>2
  <2>3. y \notin E /\ y # c
    BY <1>3, <1>7, <1>8, <2>1 DEF Relatives
  <2>4. PICK k \in B : y \in ToSet(offspring(info, k))
    <3>1. y \in (UNION {ToSet(offspring(info, x)) : x \in B})
      <4>1. y \notin IF kids = <<>> THEN {c} ELSE {}
        BY <2>3
      <4> QED
        BY <2>2, <2>3, <4>1
    <3> QED
      BY <3>1
  <2>5. HasKid(info, c, k) /\ kids # <<>> /\ k \in Gone(B)
    BY <1>2, <2>4, SetOfShort DEF HasKid
  <2>6. c \notin Gone(B)
    BY <1>2, <1>3, <2>5 DEF Relatives
  <2>7. Descends(b, info[c].hash)
    BY <1>1, <1>3, <2>1, <2>4, <2>5, OffspringDescend
  <2> HIDE DEF Gone
  <2>8. c \in Heads' /\ c \in DOMAIN info' /\ info'[c] = info[c] /\ k \notin DOMAIN info'
    BY <1>2, <1>3, <2>5, <2>6 DEF Without
  <2>9. ~(ToSet(info'[c].kids) \subseteq DOMAIN info')
    BY <1>2, <2>4, <2>8
  <2> QED
    BY <1>6, <2>7, <2>8, <2>9
<1>9. \A b, h : Descends(b, h)' <=> Descends(b, h)
  BY <1>1 DEF Descends
<1> QED
  BY <1>1, <1>8, <1>9 DEF SiblingsLost, Lost, Descends

\* After that fault nothing happens any more; no other step leaves it.
LEMMA NextLoses ==
    ASSUME IInv, TreeInv, SiblingsLost, [Next]_vars
    PROVE  SiblingsLost'
<1>1. CASE UNCHANGED vars
  BY <1>1 DEF vars, SiblingsLost, Lost, Descends, Heads, Relatives
<1>2. CASE DestroySuccessor
  BY <1>2, DestroySuccessorLoses
<1>3. ASSUME Step, ~DestroySuccessor PROVE fault' # "dangling"
  <2>1. fault = "none"
    BY <1>3, Zenon DEF Step, RuleII, RuleIII, RuleIV, AbandonChild, AddHeir, LeaveChain, AbandonSiblings
  <2>2. fault' = fault \/ fault' = "bad_cast" \/ fault' = "heir_assert" \/ fault' = "assert"
    BY <1>3, Zenon DEF Step, RuleII, RuleIII, RuleIV, AbandonChild, AddHeir, LeaveChain, AbandonSiblings, Fail
  <2> QED
    BY <2>1, <2>2
<1>4. ASSUME NEW b \in Blocks, Enrol(b) PROVE fault' # "dangling"
  BY <1>4 DEF Enrol, Fail
<1> QED
  BY <1>1, <1>2, <1>3, <1>4 DEF Next, Ignore, Halted, SiblingsLost

\* For every block tree and order of arrival: between calls every block ever
\* taken in is an heir or hangs, by first_child and next_sibling, off a head,
\* until a free of blockchain_add() leaves a dangling pointer; and what that
\* one loses are blocks above the fork, off a head that lists a freed child.
THEOREM OnlySiblingsAreLost == Spec => []LossesAreSiblings
<1>1. IInv /\ TreeInv /\ SiblingsLost => LossesAreSiblings
  <2> SUFFICES ASSUME IInv, TreeInv, Settled
               PROVE  LET families == UNION {ToSet(offspring(info, c)) : c \in Heads}
                      IN  /\ Relatives \subseteq families
                          /\ \A b \in accepted : \/ b \in DOMAIN search_root
                                                 \/ \E x \in families \cap Relatives : info[x].hash = b
    BY DEF LossesAreSiblings, SiblingsLost, Settled
  <2>1. Relatives \subseteq UNION {ToSet(offspring(info, c)) : c \in Heads}
    BY AllInFamilies
  <2>2. Present
    BY TreeSettled
  <2> QED
    BY <2>1, <2>2 DEF Present
<1>2. Init => SiblingsLost
  BY DEF Init, SiblingsLost
<1> QED
  BY <1>1, <1>2, NextLoses, CandidatesAreForest, Invariance, PTL DEF Spec
=============================================================================
