---------------------------- MODULE SpvAppProofs ----------------------------
(***************************************************************************)
(* For every block tree, page size and number of restarts: whatever the    *)
(* database held when the process started, it covers the main chain built  *)
(* over it, in every state.                                                *)
(*                                                                         *)
(* StoreMirrorsHeirs of module Chains fails here (a restart finds records  *)
(* of blocks the new chain does not have), and StoreCoversHeirs alone is   *)
(* not inductive: that deleting the record of the last heir leaves those   *)
(* of the others takes the search tree, which says that no block is on the *)
(* main chain twice.  IInv of ChainsProofs, which does not mention the     *)
(* database, holds across restarts too and gives that; DbInv says that the *)
(* records a page is made of are those of blocks, so that loading one is   *)
(* a step of the chain.                                                    *)
(***************************************************************************)
EXTENDS SpvApp, ChainsProofs, SequenceLemmas, FiniteSetTheorems

Stored == [height : Nat, prev : Hashes, complete : BOOLEAN]
Loaded == [hash : Blocks, height : Nat, complete : BOOLEAN]

\* The database has finitely many records, each of a block; so has a page.
DbInv ==
    /\ IsFiniteSet(DOMAIN db) /\ DOMAIN db \subseteq Blocks
    /\ db \in [DOMAIN db -> Stored]
    /\ page \in Seq(Loaded)

AppInv == IInv /\ StoreCoversHeirs /\ DbInv

\* A set of naturals that is not empty has a least element.
LEMMA LeastExists ==
    ASSUME NEW S, S \subseteq Nat, S # {}
    PROVE  Min(S) \in S /\ \A y \in S : Min(S) <= y
<1> DEFINE R == OpToRel(<, Nat)
<1>1. IsWellFoundedOn(R, Nat)
  BY NatLessThanWellFounded, Zenon
<1>2. R = {ss \in Nat \X Nat : ss[1] < ss[2]}
  BY Zenon DEF OpToRel
<1> HIDE DEF R
<1>3. PICK x \in S : \A y \in S : ~(<<y, x>> \in R)
  BY <1>1, WFMin, Zenon
<1>4. ASSUME NEW y \in S PROVE x <= y
  <2>1. x \in Nat /\ y \in Nat
    BY <1>3
  <2>2. y < x => <<y, x>> \in R
    BY <1>2, <2>1
  <2> QED
    BY <1>3, <2>1, <2>2
<1> QED
  BY <1>3, <1>4 DEF Min

\* A page is made of records of the database.
LEMMA PageOK ==
    ASSUME DbInv, NEW s \in ByHeight, NEW want
    PROVE  read_page(s, want) \in Seq(Loaded)
<1> DEFINE I == {i \in 1 .. Len(s) : db[s[i]].height = want}
           at == IF I # {} THEN Min(I) ELSE 0
           from == IF at = 0 THEN 1 ELSE at
           to == IF from + limits - 1 < Len(s) THEN from + limits - 1 ELSE Len(s)
           record(i) == [hash |-> s[from + i - 1], height |-> db[s[from + i - 1]].height,
                         complete |-> db[s[from + i - 1]].complete]
<1>1. Cardinality(DOMAIN db) \in Nat
  BY FS_CardinalityType DEF DbInv
<1>2. s \in [1 .. Cardinality(DOMAIN db) -> DOMAIN db]
  BY DEF ByHeight, SetToSeqs
<1>3. s \in Seq(DOMAIN db) /\ Len(s) \in Nat /\ \A i \in 1 .. Len(s) : s[i] \in DOMAIN db
  BY <1>1, <1>2
<1>4. at \in Nat /\ (at # 0 => at <= Len(s))
  <2>1. CASE I # {}
    <3>1. I \subseteq Nat
      BY <1>3
    <3> HIDE DEF I
    <3>2. Min(I) \in I
      BY <2>1, <3>1, LeastExists
    <3> QED
      BY <2>1, <3>1, <3>2, <1>3 DEF I
  <2>2. CASE I = {}
    BY <2>2
  <2> QED
    BY <2>1, <2>2
<1> HIDE DEF at
<1>5. from \in Nat /\ from >= 1
  BY <1>4
<1> HIDE DEF from
<1>6. to \in Int /\ to <= Len(s)
  BY <1>3, <1>5, LimitsAssumption
<1> HIDE DEF to
<1>7. ASSUME NEW i \in 1 .. (to - from + 1) PROVE record(i) \in Loaded
  <2>1. from + i - 1 \in 1 .. Len(s)
    BY <1>3, <1>5, <1>6
  <2>2. PICK h \in DOMAIN db : h = s[from + i - 1]
    BY <1>3, <2>1
  <2>3. h \in Blocks /\ db[h] \in Stored
    BY <2>2 DEF DbInv
  <2> QED
    BY <2>2, <2>3 DEF Stored, Loaded
<1>8. read_page(s, want) = [i \in 1 .. (to - from + 1) |-> record(i)]
  <2>1. SelectInSeq(s, LAMBDA h : db[h].height = want) = at
    BY Zenon DEF SelectInSeq, at
  <2> QED
    BY <2>1, Zenon DEF read_page, to, from
<1> HIDE DEF record
<1>9. CASE to - from + 1 \in Nat
  <2>1. [i \in 1 .. (to - from + 1) |-> record(i)] \in [1 .. (to - from + 1) -> Loaded]
    BY <1>7
  <2> QED
    BY <1>8, <1>9, <2>1
<1>10. CASE ~(to - from + 1 \in Nat)
  <2>1. 1 .. (to - from + 1) = {}
    BY <1>5, <1>6, <1>10
  <2>2. [i \in 1 .. (to - from + 1) |-> record(i)] = <<>>
    BY <2>1
  <2>3. <<>> \in Seq(Loaded)
    OBVIOUS
  <2> QED
    BY <1>8, <2>2, <2>3, Zenon
<1> QED
  BY <1>9, <1>10
-----------------------------------------------------------------------------
(* The steps of the application *)

\* A step of the application is a step of the chain, an abort while loading,
\* or a restart.
LEMMA AppSteps ==
    ASSUME DbInv, [AppNext]_allVars
    PROVE  [Next]_vars \/ restart \/ (\E how \in {"assert", "abort"} : Fail(how))
<1>1. next_page \/ UNCHANGED allVars => UNCHANGED vars
  BY DEF next_page, allVars
<1>2. ASSUME load_record PROVE [Next]_vars \/ (\E how \in {"assert", "abort"} : Fail(how))
  <2>1. page # <<>> /\ (Fail("assert") \/ Fail("abort") \/ Enrol(Head(page).hash))
    BY <1>2 DEF load_record
  <2>2. Head(page) \in Loaded
    BY <2>1, HeadTailProperties DEF DbInv
  <2>3. Head(page).hash \in Blocks
    BY <2>2 DEF Loaded
  <2> QED
    BY <2>1, <2>3 DEF Next
<1>3. chain_step \/ (\E b \in Blocks : peer_header(b)) \/ (Halted /\ UNCHANGED appVars) => [Next]_vars
  BY DEF chain_step, peer_header, Next
<1> QED
  BY <1>1, <1>2, <1>3 DEF AppNext

\* The invariant of the chain survives aborts and restarts.
LEMMA ChainStep ==
    ASSUME IInv, DbInv, [AppNext]_allVars
    PROVE  IInv'
<1>1. CASE [Next]_vars
  BY <1>1, NextInv
<1>2. ASSUME NEW how \in {"assert", "abort"}, Fail(how) PROVE IInv'
  <2>1. fault' # "none" /\ UNCHANGED mainVars
    BY <1>2 DEF Fail
  <2> QED
    BY <2>1, MainUnchanged DEF IInv
<1>3. CASE restart
  <2>1. Fresh'
    BY <1>3 DEF restart, Fresh
  <2>2. (Fresh => IInv)'
    BY FreshInv, PTL
  <2> QED
    BY <2>1, <2>2
<1> QED
  BY <1>1, <1>2, <1>3, AppSteps

\* Only a reorganisation changes the database, one record at a time.
LEMMA DbStep ==
    ASSUME IInv, DbInv, [AppNext]_allVars
    PROVE  DbInv'
<1>1. IsFiniteSet(DOMAIN db') /\ DOMAIN db' \subseteq Blocks /\ db' \in [DOMAIN db' -> Stored]
  <2>1. CASE UNCHANGED db
    BY <2>1 DEF DbInv
  <2>2. CASE db' = on_remove_block(db, Last(heirs).hash)
    <3>1. db' = [h \in DOMAIN db \ {Last(heirs).hash} |-> db[h]]
      BY <2>2 DEF on_remove_block, headers_db_del, Without
    <3>2. DOMAIN db' = DOMAIN db \ {Last(heirs).hash}
      BY <3>1
    <3>3. IsFiniteSet(DOMAIN db \ {Last(heirs).hash})
      BY FS_RemoveElement DEF DbInv
    <3> QED
      BY <3>1, <3>2, <3>3 DEF DbInv
  <2>3. ASSUME NEW x \in Relatives, info[x].hash \in Blocks, info[x].prev = prev_hash[info[x].hash],
               info[x].complete \in BOOLEAN, db' = on_add_block(db, info[x], Len(heirs))
        PROVE  IsFiniteSet(DOMAIN db') /\ DOMAIN db' \subseteq Blocks /\ db' \in [DOMAIN db' -> Stored]
    <3> DEFINE new == [height |-> Len(heirs), prev |-> info[x].prev, complete |-> info[x].complete]
    <3>1. new \in Stored
      BY <2>3, HeadersAssumption, LenProperties DEF Stored, IInv, MainInv
    <3> HIDE DEF new
    <3>2. db' = [h \in DOMAIN db \cup {info[x].hash} |-> IF h = info[x].hash THEN new ELSE db[h]]
      BY <2>3 DEF on_add_block, headers_db_put, Put, new
    <3>3. DOMAIN db' = DOMAIN db \cup {info[x].hash}
      BY <3>2
    <3>4. IsFiniteSet(DOMAIN db \cup {info[x].hash})
      BY FS_AddElement DEF DbInv
    <3> QED
      BY <2>3, <3>1, <3>2, <3>3, <3>4 DEF DbInv
  <2>4. CASE [Next]_vars
    BY <2>1, <2>2, <2>3, <2>4, MainSteps DEF mainVars
  <2> QED
    BY <2>1, <2>4, AppSteps DEF restart, Fail, mainVars
<1>2. page' \in Seq(Loaded)
  <2>1. CASE next_page
    <3>1. PICK s \in ByHeight : page' \in {page, read_page(s, offset + 1)}
      BY <2>1 DEF next_page
    <3> QED
      BY <3>1, PageOK DEF DbInv
  <2>2. CASE load_record
    <3>1. page # <<>> /\ page' = Tail(page)
      BY <2>2 DEF load_record
    <3> QED
      BY <3>1, HeadTailProperties DEF DbInv
  <2>3. CASE restart
    <3>1. page' = <<>>
      BY <2>3 DEF restart
    <3> QED
      BY <3>1
  <2>4. CASE UNCHANGED page
    BY <2>4 DEF DbInv
  <2> QED
    BY <2>1, <2>2, <2>3, <2>4 DEF AppNext, chain_step, peer_header, appVars, allVars
<1> QED
  BY <1>1, <1>2 DEF DbInv

\* The records of the heirs that stay are not the one that goes.
LEMMA CoverStep ==
    ASSUME IInv, DbInv, StoreCoversHeirs, [AppNext]_allVars
    PROVE  StoreCoversHeirs'
<1> DEFINE n == Len(heirs)
<1>0. /\ heirs \in Seq(Heir) /\ heirs # <<>> /\ n \in Nat /\ n > 0
      /\ Last(heirs) = heirs[n] /\ DOMAIN heirs = 1 .. n
  BY LenProperties, EmptySeq DEF IInv, MainInv, HeirsLinked, Last
<1>1. \A i, j \in 1 .. n : heirs[i].hash = heirs[j].hash => i = j
  BY <1>0 DEF IInv, MainInv, SearchRootExact
<1>2. CASE UNCHANGED mainVars
  BY <1>2 DEF StoreCoversHeirs, mainVars
<1>3. CASE Len(heirs) > 1 /\ heirs' = Front(heirs) /\ db' = on_remove_block(db, Last(heirs).hash)
  <2>1. Len(heirs') = n - 1 /\ \A i \in 1 .. n - 1 : heirs'[i] = heirs[i]
    BY <1>0, <1>3, FrontProps
  <2>2. DOMAIN db' = DOMAIN db \ {heirs[n].hash} /\ \A h \in DOMAIN db' : db'[h] = db[h]
    BY <1>0, <1>3 DEF on_remove_block, headers_db_del, Without
  <2> SUFFICES ASSUME NEW i \in 2 .. n - 1
               PROVE  heirs'[i].hash \in DOMAIN db' /\ db'[heirs'[i].hash].height = i - 1
    BY <2>1 DEF StoreCoversHeirs
  <2>3. i \in 2 .. n /\ i \in 1 .. n /\ n \in 1 .. n /\ i # n /\ heirs'[i] = heirs[i]
    <3>1. heirs'[i] = heirs[i]
      BY <1>0, <2>1
    <3> HIDE DEF n
    <3> QED
      BY <1>0, <3>1
  <2>4. heirs[i].hash \in DOMAIN db /\ db[heirs[i].hash].height = i - 1
    BY <2>3 DEF StoreCoversHeirs
  <2>5. heirs[i].hash # heirs[n].hash
    BY <1>1, <2>3
  <2> QED
    BY <2>2, <2>3, <2>4, <2>5
<1>4. ASSUME NEW x \in Relatives, info[x].hash \notin DOMAIN search_root,
             heirs' = Append(heirs, new_heir(Last(heirs), info[x])),
             info[x].hash \in Blocks,
             db' = on_add_block(db, info[x], Len(heirs))
      PROVE  StoreCoversHeirs'
  <2> DEFINE new == new_heir(Last(heirs), info[x])
  <2>1. new.hash = info[x].hash
    BY DEF new_heir
  <2>2. Len(heirs') = n + 1 /\ (\A i \in 1 .. n : heirs'[i] = heirs[i]) /\ heirs'[n + 1] = new
    BY <1>0, <1>4
  <2>3. /\ DOMAIN db' = DOMAIN db \cup {info[x].hash} /\ db'[info[x].hash].height = n
        /\ \A h \in DOMAIN db : h # info[x].hash => db'[h] = db[h]
    BY <1>4 DEF on_add_block, headers_db_put, Put
  <2>4. \A i \in 1 .. n : heirs[i].hash # info[x].hash
    BY <1>0, <1>4 DEF IInv, MainInv, SearchRootExact
  <2> HIDE DEF new
  <2> SUFFICES ASSUME NEW i \in 2 .. n + 1
               PROVE  heirs'[i].hash \in DOMAIN db' /\ db'[heirs'[i].hash].height = i - 1
    BY <2>2 DEF StoreCoversHeirs
  <2>5. CASE i = n + 1
    <3>1. heirs'[i].hash = info[x].hash /\ i - 1 = n
      BY <1>0, <2>1, <2>2, <2>5
    <3> QED
      BY <2>3, <3>1
  <2>6. CASE i # n + 1
    <3>1. i \in 2 .. n /\ i \in 1 .. n /\ heirs'[i] = heirs[i]
      BY <1>0, <2>2, <2>6
    <3>2. heirs[i].hash \in DOMAIN db /\ db[heirs[i].hash].height = i - 1
      BY <3>1 DEF StoreCoversHeirs
    <3> QED
      BY <2>3, <2>4, <3>1, <3>2
  <2> QED
    BY <2>5, <2>6
<1>5. CASE [Next]_vars
  BY <1>2, <1>3, <1>4, <1>5, MainSteps
<1>6. CASE restart
  <2>1. Fresh'
    BY <1>6 DEF restart, Fresh
  <2>2. (Fresh => IInv /\ Len(heirs) = 1)'
    BY FreshInv, PTL
  <2>3. Len(heirs)' = 1
    BY <2>1, <2>2
  <2> QED
    BY <2>3 DEF StoreCoversHeirs
<1> QED
  BY <1>2, <1>5, <1>6, AppSteps DEF Fail
-----------------------------------------------------------------------------
(* The theorems *)

LEMMA AppInitInv == AppInit => AppInv
<1> SUFFICES ASSUME AppInit PROVE AppInv
  OBVIOUS
<1>1. IInv /\ Len(heirs) = 1
  BY FreshInv DEF AppInit, Init, Fresh
<1>2. StoreCoversHeirs
  BY <1>1 DEF StoreCoversHeirs
<1>3. DOMAIN db = {} /\ page = <<>> /\ db = [h \in {} |-> Null]
  BY DEF AppInit, Init
<1>4. IsFiniteSet({})
  BY FS_EmptySet
<1>5. DbInv
  BY <1>3, <1>4 DEF DbInv
<1> QED
  BY <1>1, <1>2, <1>5 DEF AppInv

LEMMA AppInvariance == AppSpec => []AppInv
<1>1. AppInv /\ [AppNext]_allVars => AppInv'
  BY ChainStep, DbStep, CoverStep DEF AppInv
<1> QED
  BY <1>1, AppInitInv, PTL DEF AppSpec

\* Through loading, reorganisations and any number of deaths and restarts, at
\* whatever step of blockchain_add() the process dies: the database holds every
\* block of the main chain at its height.
THEOREM StoreCovers == AppSpec => []StoreCoversHeirs
BY AppInvariance, PTL DEF AppInv

\* The main chain that is built over an old database is linked, and its search
\* tree exact, through the same restarts.
THEOREM ChainSurvivesRestarts == AppSpec => [](HeirsLinked /\ SearchRootExact)
<1>1. AppInv => HeirsLinked /\ SearchRootExact
  BY DEF AppInv, IInv, MainInv
<1> QED
  BY <1>1, AppInvariance, PTL
=============================================================================
