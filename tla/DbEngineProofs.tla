--------------------------- MODULE DbEngineProofs ---------------------------
(***************************************************************************)
(* For any number of threads, any keys, values and secondary keys, any     *)
(* depth of transactions: what the return codes said is what is stored,    *)
(* the secondary index is in step, the engine outlives every reference,    *)
(* its list names the open databases and a cursor shows the record it      *)
(* moved to.                                                               *)
(*                                                                         *)
(* The stored records (StoreInv) and the registry of threads, handles and  *)
(* references (RegInv) do not depend on each other.  The first needs every *)
(* unresolved transaction to remember a state that is consistent itself.   *)
(* The second counts: a reference that a thread has given up stays in      *)
(* refs_count until the thread gets the mutex.                             *)
(***************************************************************************)
EXTENDS DbEngine, SequenceLemmas, FiniteSetTheorems

\* The primary has finitely many records.
Datas == {d \in [Keys -> Values \cup {NoValue}] : IsFiniteSet({k \in Keys : d[k] # NoValue})}
IndexOf(d) == {e \in Skeys \X Keys : d[e[2]] # NoValue /\ e[1] \in ToSet(skeys[d[e[2]]])}

\* What an abort can go back to is as consistent as what is there now.
TxnOK ==
    {t \in [state : {"active", "prepared"}, data : Datas, index : SUBSET (Skeys \X Keys),
            told : Datas] : t.told = t.data /\ t.index = IndexOf(t.data)}

StoreInv ==
    /\ data \in Datas /\ told = data
    /\ index = IndexOf(data)
    /\ txns \in Seq(TxnOK)

Lists == {<<>>, <<"blocks">>, <<"heights">>, <<"blocks", "heights">>, <<"heights", "blocks">>}
EngineType == [priv : BOOLEAN, refs_count : Nat, databases : Lists, max_size : Nat]
CursorFields == {"priv", "db", "pos", "skey", "key", "value", "rc"}

RegType ==
    /\ engine \in EngineType /\ lock \in Threads \cup {NoThread}
    /\ pc \in [Threads -> PcType] /\ held \in [Threads -> 0 .. MaxRefs]
    /\ db \in [Handles -> HandleType]
    /\ DOMAIN cursor = CursorFields /\ cursor.priv \in BOOLEAN /\ cursor.db \in Handles

\* Who is inside which operation.
CallsInv ==
    \A t \in Threads :
        /\ pc[t].at = "idle" <=> pc[t].op = "none"
        /\ pc[t].at = "locked" <=> lock = t
        /\ pc[t].op \in {"list_add", "list_remove"} =>
              /\ t = Main /\ held[Main] > 0
              /\ db[pc[t].db].state = IF pc[t].op = "list_add" THEN "open" ELSE "listed"
        /\ pc[t].op = "add_ref" => held[t] < MaxRefs

Dropping == {t \in Threads : pc[t].op = "cleanup"}
Taking == \E t \in Threads : pc[t].op = "add_ref"

\* References given up are counted until the mutex is had; the count is exact
\* as long as it matters.
CountInv ==
    Given \/ (Taking /\ engine.priv) =>
        /\ engine.priv
        /\ engine.refs_count = TotalRefs + Cardinality(Dropping)

ListedInv ==
    /\ \A h \in Handles : db[h].state = "listed" <=> h \in ToSet(engine.databases)
    /\ engine.priv => engine.max_size = AllocSize
    /\ ~engine.priv => engine.databases = <<>>

HandleInv ==
    /\ \A h \in Handles : db[h].state # "none" => db[h].multiple = (h = "heights")
    /\ cursor.priv => Idle(Main) /\ held[Main] > 0 /\ db[cursor.db].state = "listed"

RegInv == RegType /\ CallsInv /\ CountInv /\ ListedInv /\ HandleInv

IInv == StoreInv /\ RegInv
-----------------------------------------------------------------------------
(* The stored records *)

\* Front drops the last element.
LEMMA FrontProps ==
    ASSUME NEW S, NEW s \in Seq(S), s # <<>>
    PROVE  Front(s) \in Seq(S) /\ Len(Front(s)) = Len(s) - 1 /\ Last(s) \in S /\ s[1] \in S
<1>1. Len(s) \in Nat /\ Len(s) > 0
  BY EmptySeq
<1>2. \A i \in 1 .. Len(s) : s[i] \in S
  BY <1>1, ElementOfSeq
<1>3. SubSeq(s, 1, Len(s) - 1) \in Seq(S) /\ Len(SubSeq(s, 1, Len(s) - 1)) = Len(s) - 1
  <2> DEFINE m == Len(s) - 1
  <2>1. m \in Nat /\ \A i \in 1 .. m : s[i] \in S
    BY <1>1, <1>2
  <2> HIDE DEF m
  <2>2. SubSeq(s, 1, m) \in Seq(S) /\ Len(SubSeq(s, 1, m)) = IF 1 <= m THEN m - 1 + 1 ELSE 0
    BY <2>1, SubSeqProperties
  <2>3. (IF 1 <= m THEN m - 1 + 1 ELSE 0) = m
    BY <2>1
  <2>4. SubSeq(s, 1, m) \in Seq(S) /\ Len(SubSeq(s, 1, m)) = m
    BY <2>2, <2>3
  <2> QED
    BY <2>4 DEF m
<1> QED
  BY <1>1, <1>2, <1>3 DEF Front, Last

\* The secondary keys of a value are secondary keys.
LEMMA SkeysOfValue ==
    ASSUME NEW v \in Values
    PROVE  ToSet(skeys[v]) \subseteq Skeys
BY DEF Skeys

\* The index the property speaks of is the one the proof does.
LEMMA IndexIsUnion ==
    ASSUME NEW d \in Datas
    PROVE  IndexOf(d) = UNION {ToSet(skeys[d[k]]) \X {k} : k \in {q \in Keys : d[q] # NoValue}}
<1> DEFINE U == UNION {ToSet(skeys[d[k]]) \X {k} : k \in {q \in Keys : d[q] # NoValue}}
<1>1. ASSUME NEW k \in Keys, d[k] # NoValue
      PROVE  ToSet(skeys[d[k]]) \subseteq Skeys
  BY <1>1, SkeysOfValue DEF Datas
<1>2. ASSUME NEW e \in IndexOf(d) PROVE e \in U
  BY <1>2 DEF IndexOf
<1>3. ASSUME NEW e \in U PROVE e \in IndexOf(d)
  <2>1. PICK k \in {q \in Keys : d[q] # NoValue} : e \in ToSet(skeys[d[k]]) \X {k}
    BY <1>3
  <2> QED
    BY <2>1, <1>1 DEF IndexOf
<1> QED
  BY <1>2, <1>3

\* A write of v to k leaves the index in step.
LEMMA PutKeeps ==
    ASSUME data \in Datas, told = data, index = IndexOf(data),
           NEW k \in Keys, NEW v \in Values \cup {NoValue}, put(k, v)
    PROVE  data' \in Datas /\ told' = data' /\ index' = IndexOf(data')
<1>1. data' = [data EXCEPT ![k] = v] /\ data' \in Datas /\ told' = data'
  <2>1. data' = [data EXCEPT ![k] = v] /\ data' \in [Keys -> Values \cup {NoValue}] /\ told' = data'
    BY DEF put, Datas
  <2>2. {q \in Keys : data'[q] # NoValue} \in SUBSET ({q \in Keys : data[q] # NoValue} \cup {k})
    BY <2>1 DEF Datas
  <2>3. IsFiniteSet({q \in Keys : data[q] # NoValue} \cup {k})
    BY FS_AddElement DEF Datas
  <2>4. IsFiniteSet({q \in Keys : data'[q] # NoValue})
    BY <2>2, <2>3, FS_Subset
  <2> QED
    BY <2>1, <2>4 DEF Datas
<1>2. \A w \in Values : secondary_db_get_key(w) = ToSet(skeys[w]) /\ ToSet(skeys[w]) \subseteq Skeys
  BY SkeysOfValue DEF secondary_db_get_key
<1>3. \A w \in Values \cup {NoValue} : \A e \in Skeys \X Keys :
          e \in entries(k, w) <=> e[2] = k /\ w # NoValue /\ e[1] \in ToSet(skeys[w])
  BY <1>2 DEF entries
<1>4. \A w \in Values \cup {NoValue} : entries(k, w) \subseteq Skeys \X Keys
  BY <1>2 DEF entries
<1>5. index' = (index \ entries(k, data[k])) \cup entries(k, v)
  BY DEF put
<1>6. data[k] \in Values \cup {NoValue} /\ data'[k] = v
      /\ \A q \in Keys : q # k => data'[q] = data[q]
  BY <1>1 DEF Datas
<1>7. index' \subseteq Skeys \X Keys
  BY <1>4, <1>5, <1>6 DEF IndexOf
<1>8. ASSUME NEW e \in Skeys \X Keys
      PROVE  e \in index' <=> e \in IndexOf(data')
  <2>1. e[2] \in Keys
    OBVIOUS
  <2>2. CASE e[2] = k
    BY <2>2, <1>3, <1>5, <1>6 DEF IndexOf
  <2>3. CASE e[2] # k
    BY <2>1, <2>3, <1>3, <1>5, <1>6 DEF IndexOf
  <2> QED
    BY <2>2, <2>3
<1>9. IndexOf(data') \subseteq Skeys \X Keys
  BY DEF IndexOf
<1> QED
  BY <1>1, <1>7, <1>8, <1>9

\* A write, done or refused, or stopped by an assertion.
LEMMA WriteKeeps ==
    ASSUME StoreInv, NEW k \in Keys, NEW v \in Values \cup {NoValue}, NEW ok \in BOOLEAN,
           Write(k, v, ok), txns' = txns
    PROVE  StoreInv'
<1>1. put(k, v) \/ UNCHANGED stored
  BY DEF Write, refused
<1>2. CASE put(k, v)
  BY <1>2, PutKeeps DEF StoreInv
<1>3. CASE UNCHANGED stored
  BY <1>3 DEF StoreInv, stored
<1> QED
  BY <1>1, <1>2, <1>3

\* Every operation keeps the stored records, the index and the reports in step.
LEMMA StoreStep == StoreInv /\ [Next]_vars => StoreInv'
<1> SUFFICES ASSUME StoreInv, [Next]_vars PROVE StoreInv'
  OBVIOUS
<1>1. CASE UNCHANGED <<stored, txns>>
  BY <1>1 DEF StoreInv, stored
<1>2. CASE txn_begin
  <2>1. engine_txn_new \in TxnOK
    BY DEF engine_txn_new, TxnOK, StoreInv, IndexOf
  <2>2. txns' \in Seq(TxnOK)
    BY <1>2, <2>1, AppendProperties DEF txn_begin, StoreInv
  <2> QED
    BY <1>2, <2>2 DEF txn_begin, StoreInv, stored
<1>3. ASSUME NEW t \in TxnOK, Undo(t), told' = t.told, txns' \in Seq(TxnOK)
      PROVE  StoreInv'
  BY <1>3 DEF StoreInv, TxnOK, Undo
<1>4. ASSUME txns # <<>>
      PROVE  Front(txns) \in Seq(TxnOK) /\ Last(txns) \in TxnOK /\ txns[1] \in TxnOK
  BY <1>4, FrontProps DEF StoreInv
<1>5. ASSUME NEW ok \in BOOLEAN, txn_commit(ok) PROVE StoreInv'
  <2>1. txns # <<>> /\ txns' = Front(txns)
    BY <1>5 DEF txn_commit
  <2>2. CASE UNCHANGED stored
    BY <2>1, <2>2, <1>4 DEF StoreInv, stored
  <2>3. CASE Undo(Last(txns)) /\ told' = Last(txns).told
    BY <2>1, <2>3, <1>3, <1>4
  <2> QED
    BY <1>5, <2>2, <2>3 DEF txn_commit
<1>6. CASE txn_abort
  BY <1>6, <1>3, <1>4 DEF txn_abort
<1>7. CASE txn_prepare
  <2>1. Len(txns) = 1 /\ txns[1] \in TxnOK
    BY <1>7, ElementOfSeq DEF txn_prepare, Begun, StoreInv
  <2>2. [txns[1] EXCEPT !.state = "prepared"] \in TxnOK
    BY <2>1 DEF TxnOK
  <2>3. txns' = [txns EXCEPT ![1] = [txns[1] EXCEPT !.state = "prepared"]]
    BY <1>7 DEF txn_prepare
  <2>4. txns' \in Seq(TxnOK)
    BY <2>1, <2>2, <2>3, ExceptSeq DEF StoreInv
  <2> QED
    BY <1>7, <2>4 DEF txn_prepare, StoreInv, stored
<1>8. CASE db_associate
  <2>1. UNION {entries(k, data[k]) : k \in Keys} = IndexOf(data)
    <3>1. \A k \in Keys : entries(k, data[k]) =
             IF data[k] = NoValue THEN {} ELSE ToSet(skeys[data[k]]) \X {k}
      BY DEF entries, secondary_db_get_key
    <3>2. IndexOf(data) = UNION {ToSet(skeys[data[k]]) \X {k} : k \in {q \in Keys : data[q] # NoValue}}
      BY IndexIsUnion DEF StoreInv
    <3> QED
      BY <3>1, <3>2
  <2> QED
    BY <1>8, <2>1 DEF db_associate, StoreInv
<1>9. ASSUME NEW k \in Keys, NEW v \in Values, NEW ok \in BOOLEAN,
             db_insert(k, v, ok) \/ db_update(k, v, ok)
      PROVE  StoreInv'
  <2>1. txns' = txns /\ (Write(k, v, ok) \/ UNCHANGED stored)
    BY <1>9 DEF db_insert, db_update, refused
  <2> QED
    BY <2>1, <1>1, WriteKeeps
<1>10. ASSUME NEW k \in Keys, NEW ok \in BOOLEAN, db_del(k, ok) PROVE StoreInv'
  <2>1. txns' = txns /\ (Write(k, NoValue, ok) \/ UNCHANGED stored)
    BY <1>10 DEF db_del, refused
  <2> QED
    BY <2>1, <1>1, WriteKeeps
<1>11. OnRecord => cursor.pos[2] \in Keys
  BY DEF OnRecord, records, StoreInv, IndexOf
<1>12. ASSUME NEW v \in Values, NEW ok \in BOOLEAN, db_cursor_set(v, ok) PROVE StoreInv'
  <2>1. txns' = txns /\ ((OnRecord /\ Write(cursor.pos[2], v, ok)) \/ UNCHANGED stored)
    BY <1>12 DEF db_cursor_set, refused
  <2> QED
    BY <2>1, <1>1, <1>11, WriteKeeps
<1>13. ASSUME NEW ok \in BOOLEAN, db_cursor_del(ok) PROVE StoreInv'
  <2>1. txns' = txns /\ ((OnRecord /\ Write(cursor.pos[2], NoValue, ok)) \/ UNCHANGED stored)
    BY <1>13 DEF db_cursor_del, refused
  <2> QED
    BY <2>1, <1>1, <1>11, WriteKeeps
<1>14. CASE Crash
  <2>1. txns' = <<>> /\ txns' \in Seq(TxnOK)
    BY <1>14 DEF Crash
  <2>2. CASE txns = <<>>
    BY <1>14, <2>1, <2>2 DEF Crash, StoreInv, stored
  <2>3. CASE txns # <<>>
    BY <1>14, <2>1, <2>3, <1>3, <1>4 DEF Crash
  <2> QED
    BY <2>2, <2>3
<1>15. ASSUME NEW t \in Threads, CallAddRef(t) \/ CallCleanup(t) \/ global_lock(t) \/ Locked(t)
       PROVE  UNCHANGED <<stored, txns>>
  BY <1>15 DEF CallAddRef, CallCleanup, global_lock, Locked, db_engine_add_ref, db_engine_cleanup,
               ListAdd, ListRemove
<1>16. ASSUME NEW h \in Handles, NEW b \in BOOLEAN,
              engine_open_db(h, b) \/ engine_close_db(h) \/ db_cursor_init(h)
       PROVE  UNCHANGED <<stored, txns>>
  BY <1>16 DEF engine_open_db, engine_close_db, db_cursor_init
<1>17. ASSUME \/ db_engine_init \/ txn_discard \/ db_cursor_cleanup
              \/ \E flag \in Flags : db_cursor_op(flag)
              \/ \E k \in Keys : db_cursor_move_to(k)
       PROVE  UNCHANGED <<stored, txns>>
  BY <1>17 DEF db_engine_init, txn_discard, db_cursor_cleanup, db_cursor_op, db_cursor_move_to
<1>18. CASE UNCHANGED vars
  BY <1>18, <1>1 DEF vars, stored
<1> QED
  BY <1>1, <1>2, <1>5, <1>6, <1>7, <1>8, <1>9, <1>10, <1>12, <1>13, <1>14, <1>15, <1>16, <1>17, <1>18
     DEF Next
-----------------------------------------------------------------------------
(* Threads and references *)

Tokens == {r \in Threads \X (1 .. MaxRefs) : r[2] <= held[r[1]]}

LEMMA ThreadsFinite == IsFiniteSet(Threads) /\ Main \in Threads
BY EngineAssumption, FS_Singleton, FS_Union DEF Threads

\* The references are finitely many, so they can be counted.
LEMMA TokensFinite ==
    ASSUME TRUE
    PROVE  /\ IsFiniteSet(Tokens) /\ TotalRefs = Cardinality(Tokens) /\ TotalRefs \in Nat
           /\ IsFiniteSet(Dropping) /\ Cardinality(Dropping) \in Nat
<1>1. IsFiniteSet(1 .. MaxRefs)
  BY EngineAssumption, FS_Interval
<1>2. IsFiniteSet(Threads \X (1 .. MaxRefs))
  BY <1>1, ThreadsFinite, FS_Product
<1>3. IsFiniteSet(Tokens) /\ IsFiniteSet(Dropping)
  BY <1>2, ThreadsFinite, FS_Subset DEF Tokens, Dropping
<1>4. TotalRefs = Cardinality(Tokens)
  BY DEF TotalRefs, Tokens
<1> QED
  BY <1>3, <1>4, FS_CardinalityType

\* A thread takes one more reference.
LEMMA TokenAdded ==
    ASSUME held \in [Threads -> 0 .. MaxRefs], NEW t \in Threads, held[t] < MaxRefs,
           held' = [held EXCEPT ![t] = @ + 1]
    PROVE  TotalRefs' = TotalRefs + 1
<1>1. held[t] + 1 \in 1 .. MaxRefs /\ held[t] \in Nat
  BY EngineAssumption
<1>2. Tokens' = Tokens \cup {<<t, held[t] + 1>>}
  <2>1. ASSUME NEW u \in Threads, NEW n \in 1 .. MaxRefs
        PROVE  <<u, n>> \in Tokens' <=> <<u, n>> \in Tokens \/ <<u, n>> = <<t, held[t] + 1>>
    <3>1. CASE u = t
      BY <3>1, <1>1 DEF Tokens
    <3>2. CASE u # t
      BY <3>2 DEF Tokens
    <3> QED
      BY <3>1, <3>2
  <2>2. Tokens \subseteq Threads \X (1 .. MaxRefs) /\ Tokens' \subseteq Threads \X (1 .. MaxRefs)
    BY DEF Tokens
  <2> QED
    BY <1>1, <2>1, <2>2
<1>3. <<t, held[t] + 1>> \notin Tokens
  BY <1>1 DEF Tokens
<1>4. Cardinality(Tokens \cup {<<t, held[t] + 1>>}) = Cardinality(Tokens) + 1
  BY <1>3, TokensFinite, FS_AddElement
<1>5. TotalRefs' = Cardinality(Tokens')
  BY DEF TotalRefs, Tokens
<1> QED
  BY <1>2, <1>4, <1>5, TokensFinite

\* A thread gives one up.
LEMMA TokenRemoved ==
    ASSUME held \in [Threads -> 0 .. MaxRefs], NEW t \in Threads, held[t] > 0,
           held' = [held EXCEPT ![t] = @ - 1]
    PROVE  TotalRefs' = TotalRefs - 1
<1>1. held[t] \in 1 .. MaxRefs /\ held[t] \in Nat
  BY EngineAssumption
<1>2. Tokens' = Tokens \ {<<t, held[t]>>}
  <2>1. ASSUME NEW u \in Threads, NEW n \in 1 .. MaxRefs
        PROVE  <<u, n>> \in Tokens' <=> <<u, n>> \in Tokens /\ <<u, n>> # <<t, held[t]>>
    <3>1. CASE u = t
      BY <3>1, <1>1 DEF Tokens
    <3>2. CASE u # t
      BY <3>2 DEF Tokens
    <3> QED
      BY <3>1, <3>2
  <2>2. Tokens \subseteq Threads \X (1 .. MaxRefs) /\ Tokens' \subseteq Threads \X (1 .. MaxRefs)
    BY DEF Tokens
  <2> QED
    BY <2>1, <2>2
<1>3. <<t, held[t]>> \in Tokens
  BY <1>1 DEF Tokens
<1>4. Cardinality(Tokens \ {<<t, held[t]>>}) = Cardinality(Tokens) - 1
  BY <1>3, TokensFinite, FS_RemoveElement
<1>5. TotalRefs' = Cardinality(Tokens')
  BY DEF TotalRefs, Tokens
<1> QED
  BY <1>2, <1>4, <1>5, TokensFinite

\* Who has a reference is counted, and no thread has more than all together.
LEMMA TokenBounds ==
    ASSUME held \in [Threads -> 0 .. MaxRefs]
    PROVE  /\ Given => TotalRefs >= 1
           /\ \A t \in Threads : TotalRefs < MaxRefs => held[t] < MaxRefs
<1>1. ASSUME Given PROVE TotalRefs >= 1
  <2>1. PICK t \in Threads : held[t] > 0
    BY <1>1 DEF Given
  <2>2. <<t, 1>> \in Tokens
    BY <2>1, EngineAssumption DEF Tokens
  <2>3. Cardinality(Tokens) # 0
    BY <2>2, TokensFinite, FS_EmptySet
  <2> QED
    BY <2>3, TokensFinite
<1>2. ASSUME NEW t \in Threads, held[t] >= MaxRefs PROVE TotalRefs >= MaxRefs
  <2> DEFINE Own == {t} \X (1 .. MaxRefs)
  <2>1. Own \subseteq Tokens
    BY <1>2, EngineAssumption DEF Tokens
  <2>2. Cardinality({t}) = 1 /\ IsFiniteSet({t})
    BY FS_Singleton
  <2>3. Cardinality(1 .. MaxRefs) = MaxRefs /\ IsFiniteSet(1 .. MaxRefs)
    BY EngineAssumption, FS_Interval
  <2>4. Cardinality(Own) = MaxRefs
    <3>1. Cardinality(Own) = Cardinality({t}) * Cardinality(1 .. MaxRefs)
      BY <2>2, <2>3, FS_Product
    <3> QED
      BY <3>1, <2>2, <2>3, EngineAssumption
  <2>5. Cardinality(Own) <= Cardinality(Tokens)
    BY <2>1, TokensFinite, FS_Subset
  <2> QED
    BY <2>4, <2>5, TokensFinite
<1> QED
  BY <1>1, <1>2, TokensFinite, EngineAssumption

\* One call of cleanup more, or one less, waits for the mutex.
LEMMA DroppingChanges ==
    ASSUME NEW t \in Threads
    PROVE  /\ Dropping' = Dropping \cup {t} /\ t \notin Dropping
                => Cardinality(Dropping') = Cardinality(Dropping) + 1
           /\ Dropping' = Dropping \ {t} /\ t \in Dropping
                => Cardinality(Dropping') = Cardinality(Dropping) - 1 /\ Cardinality(Dropping) >= 1
<1>1. t \in Dropping => Cardinality(Dropping) # 0
  BY TokensFinite, FS_EmptySet
<1> QED
  BY <1>1, TokensFinite, FS_AddElement, FS_RemoveElement
-----------------------------------------------------------------------------
(* The list of open databases *)

\* What a list of up to two names.
LEMMA ShortSets ==
    /\ ToSet(<<>>) = {}
    /\ \A a : ToSet(<<a>>) = {a}
    /\ \A a, b : ToSet(<<a, b>>) = {a, b}
<1>1. DOMAIN <<>> = {} /\ ToSet(<<>>) = {}
  BY DEF ToSet
<1>2. ASSUME NEW a PROVE ToSet(<<a>>) = {a}
  <2>1. DOMAIN <<a>> = {1} /\ <<a>>[1] = a
    OBVIOUS
  <2> QED
    BY <2>1 DEF ToSet
<1>3. ASSUME NEW a, NEW b PROVE ToSet(<<a, b>>) = {a, b}
  <2>1. DOMAIN <<a, b>> = {1, 2} /\ <<a, b>>[1] = a /\ <<a, b>>[2] = b
    OBVIOUS
  <2> QED
    BY <2>1 DEF ToSet
<1> QED
  BY <1>1, <1>2, <1>3

\* A list of at most two different databases, by what can be asked of it.
LEMMA ListProps ==
    ASSUME NEW l \in Lists
    PROVE  /\ l \in Seq(Handles) /\ Len(l) <= 2 /\ Len(l) \in Nat
           /\ Len(l) = Cardinality(ToSet(l))
           /\ \A h \in Handles : h \notin ToSet(l) => Len(l) <= 1 /\ Append(l, h) \in Lists
                                   /\ ToSet(Append(l, h)) = ToSet(l) \cup {h}
<1>1. PICK a \in Handles, b \in Handles : a # b /\ l \in {<<>>, <<a>>, <<a, b>>} /\ Handles = {a, b}
  <2>1. Handles = {"blocks", "heights"} /\ "blocks" # "heights"
    BY DEF Handles
  <2>2. CASE l \in {<<>>, <<"blocks">>, <<"blocks", "heights">>}
    BY <2>1, <2>2
  <2>3. CASE l \in {<<"heights">>, <<"heights", "blocks">>}
    BY <2>1, <2>3
  <2> QED
    BY <2>2, <2>3 DEF Lists
<1>2. <<>> \in Lists /\ \A x \in Handles : <<x>> \in Lists
  BY DEF Lists, Handles
<1>3. <<a, b>> \in Lists
  BY <1>1 DEF Lists, Handles
<1>4. Cardinality({a}) = 1 /\ Cardinality({a, b}) = 2
  <2>1. IsFiniteSet({a}) /\ Cardinality({a}) = 1
    BY FS_Singleton
  <2>2. Cardinality({a} \cup {b}) = Cardinality({a}) + 1
    BY <2>1, <1>1, FS_AddElement
  <2>3. {a, b} = {a} \cup {b}
    OBVIOUS
  <2> QED
    BY <2>1, <2>2, <2>3
<1>5. CASE l = <<>>
  <2>0. Cardinality({}) = 0 /\ ToSet(<<>>) = {}
    BY ShortSets, FS_EmptySet
  <2>1. Len(l) = 0 /\ l \in Seq(Handles) /\ ToSet(l) = {} /\ Cardinality(ToSet(l)) = 0
    <3>1. Len(<<>>) = 0 /\ <<>> \in Seq(Handles)
      OBVIOUS
    <3> QED
      BY <1>5, <2>0, <3>1
  <2>2. \A h \in Handles : Append(l, h) = <<h>>
    BY <1>5
  <2> QED
    BY <2>1, <2>2, <1>2, ShortSets
<1>6. CASE l = <<a>>
  <2>1. Len(l) = 1 /\ l \in Seq(Handles)
    BY <1>6
  <2>2. ToSet(l) = {a} /\ ToSet(<<a, b>>) = {a, b}
    BY <1>6, ShortSets
  <2>3. Append(l, b) = <<a, b>>
    <3>1. /\ Append(l, b) \in Seq(Handles) /\ Len(Append(l, b)) = 2
          /\ Append(l, b)[1] = a /\ Append(l, b)[2] = b
      BY <2>1, <1>6, AppendProperties
    <3>2. /\ <<a, b>> \in Seq(Handles) /\ Len(<<a, b>>) = 2 /\ <<a, b>>[1] = a /\ <<a, b>>[2] = b
      OBVIOUS
    <3>3. \A i \in 1 .. 2 : Append(l, b)[i] = <<a, b>>[i]
      BY <3>1, <3>2
    <3> QED
      BY <3>1, <3>2, <3>3, SeqEqual
  <2>4. \A h \in Handles : h \notin ToSet(l) => h = b
    BY <1>1, <2>2
  <2>5. {a, b} = {a} \cup {b}
    OBVIOUS
  <2>6. Len(l) = Cardinality(ToSet(l))
    BY <2>1, <2>2, <1>4
  <2>7. ASSUME NEW h \in Handles, h \notin ToSet(l)
        PROVE  Append(l, h) \in Lists /\ ToSet(Append(l, h)) = ToSet(l) \cup {h}
    <3>1. h = b
      BY <2>4, <2>7
    <3>2. Append(l, h) = <<a, b>>
      BY <2>3, <3>1
    <3> QED
      BY <3>1, <3>2, <2>2, <2>5, <1>3
  <2> QED
    BY <2>1, <2>6, <2>7
<1>7. CASE l = <<a, b>>
  <2>1. Len(l) = 2 /\ l \in Seq(Handles)
    BY <1>7
  <2>2. ToSet(l) = {a, b}
    BY <1>7, ShortSets
  <2> QED
    BY <2>1, <2>2, <1>1, <1>4
<1> QED
  BY <1>1, <1>5, <1>6, <1>7

\* Up to two databases need one allocation.
LEMMA OneAllocation ==
    /\ (1 + AllocSize - 1) \div AllocSize = 1
    /\ (2 + AllocSize - 1) \div AllocSize = 1
    /\ 1 * AllocSize = AllocSize
<1>1. AllocSize \in Nat /\ AllocSize > 1
  BY EngineAssumption
<1>2. ASSUME NEW n \in Nat, n < AllocSize PROVE (n + AllocSize) \div AllocSize = 1
  <2>1. n + AllocSize = AllocSize * 1 + n /\ 0 <= n
    BY <1>1, <1>2
  <2> QED
    BY <1>1, <1>2, <2>1
<1>3. 1 + AllocSize - 1 = 0 + AllocSize /\ 2 + AllocSize - 1 = 1 + AllocSize
  BY <1>1
<1> QED
  BY <1>1, <1>2, <1>3

\* engine_list_add() of a database that is not in the list appends it.
LEMMA ListAdded ==
    ASSUME engine \in EngineType, engine.priv, engine.max_size = AllocSize,
           NEW h \in Handles, h \notin ToSet(engine.databases)
    PROVE  engine_list_add(engine, h) = [engine EXCEPT !.databases = Append(@, h)]
<1>1. engine.databases \in Lists
  BY DEF EngineType
<1>2. Len(engine.databases) = 0 \/ Len(engine.databases) = 1
  <2>1. Len(engine.databases) <= 1 /\ Len(engine.databases) \in Nat
    BY <1>1, ListProps
  <2>2. \A n \in Nat : n <= 1 => n = 0 \/ n = 1
    OBVIOUS
  <2> QED
    BY <2>1, <2>2
<1>3. list_find(engine, h) = {}
  BY DEF list_find, ToSet
<1>4. ((Len(engine.databases) + 1 + AllocSize - 1) \div AllocSize) * AllocSize = AllocSize
  <2>1. CASE Len(engine.databases) = 0
    <3>1. Len(engine.databases) + 1 + AllocSize - 1 = 1 + AllocSize - 1
      BY <2>1
    <3> QED
      BY <3>1, OneAllocation
  <2>2. CASE Len(engine.databases) = 1
    <3>1. Len(engine.databases) + 1 + AllocSize - 1 = 2 + AllocSize - 1
      BY <2>2
    <3> QED
      BY <3>1, OneAllocation
  <2> QED
    BY <1>2, <2>1, <2>2
<1>5. db_engine_resize(engine, Len(engine.databases) + 1) = engine
  <2> DEFINE kept == [i \in DOMAIN engine.databases |->
                        IF i <= AllocSize - engine.max_size THEN "NULL" ELSE engine.databases[i]]
  <2>1. DOMAIN engine.databases \subseteq Nat \ {0}
    BY <1>1 DEF Lists
  <2>2. kept = engine.databases
    BY <1>1, <2>1, EngineAssumption DEF Lists
  <2>3. ~(Len(engine.databases) + 1 <= 0)
    BY <1>2
  <2>4. ~(AllocSize < engine.max_size)
    BY EngineAssumption
  <2>5. engine = [engine EXCEPT !.max_size = AllocSize, !.databases = kept]
    BY <2>2 DEF EngineType
  <2> HIDE DEF kept
  <2>6. db_engine_resize(engine, Len(engine.databases) + 1)
           = [engine EXCEPT !.max_size = AllocSize, !.databases = kept]
    BY <1>4, <2>3, <2>4 DEF db_engine_resize, kept
  <2> QED
    BY <2>5, <2>6
<1> QED
  BY <1>3, <1>5 DEF engine_list_add

\* engine_list_remove() of one that is takes out that one alone.
LEMMA ListRemoved ==
    ASSUME engine \in EngineType, NEW h \in Handles, h \in ToSet(engine.databases)
    PROVE  \E l \in Lists :
              /\ engine_list_remove(engine, h) = [engine EXCEPT !.databases = l]
              /\ ToSet(l) = ToSet(engine.databases) \ {h}
<1> DEFINE d == engine.databases
           i == Min(list_find(engine, h))
           l == Front([d EXCEPT ![i] = Last(d)])
<1>1. d \in Lists
  BY DEF EngineType
<1>2. list_find(engine, h) # {}
  BY DEF list_find, ToSet
<1>3. /\ ToSet(<<>>) = {}
      /\ \A a : ToSet(<<a>>) = {a}
      /\ \A a, b : ToSet(<<a, b>>) = {a, b}
  BY ShortSets
<1>4. engine_list_remove(engine, h) = [engine EXCEPT !.databases = l]
  BY <1>2 DEF engine_list_remove
<1>5. \A n \in Nat : Min({n}) = n
  BY DEF Min
<1>6. l \in Lists /\ ToSet(l) = ToSet(d) \ {h}
  <2>1. ASSUME NEW a \in Handles, d = <<a>> PROVE l = <<>> /\ h = a
    <3>1. h = a /\ list_find(engine, h) = {1}
      BY <2>1, <1>3 DEF list_find
    <3> QED
      BY <2>1, <3>1, <1>5 DEF Front, Last
  <2>2. ASSUME NEW a \in Handles, NEW b \in Handles, a # b, d = <<a, b>>
        PROVE  l = IF h = a THEN <<b>> ELSE <<a>>
    <3>1. h \in {a, b} /\ list_find(engine, h) = IF h = a THEN {1} ELSE {2}
      BY <2>2, <1>3 DEF list_find
    <3>2. i = IF h = a THEN 1 ELSE 2
      BY <3>1, <1>5
    <3>3. Last(d) = b /\ [d EXCEPT ![i] = b] = IF h = a THEN <<b, b>> ELSE <<a, b>>
      BY <2>2, <3>2 DEF Last
    <3>4. \A c : Front(<<c, b>>) = <<c>>
      <4>1. ASSUME NEW c PROVE Front(<<c, b>>) = <<c>>
        <5> DEFINE S == {c, b}
                   f == SubSeq(<<c, b>>, 1, 1)
        <5>1. <<c, b>> \in Seq(S) /\ Len(<<c, b>>) = 2 /\ <<c, b>>[1] = c
          OBVIOUS
        <5>2. f \in Seq(S) /\ Len(f) = 1 /\ f[1] = c
          BY <5>1, SubSeqProperties
        <5>3. <<c>> \in Seq(S) /\ Len(<<c>>) = 1 /\ <<c>>[1] = c
          OBVIOUS
        <5>4. f = <<c>>
          <6> HIDE DEF f
          <6>1. \A j \in 1 .. Len(f) : f[j] = <<c>>[j]
            BY <5>2, <5>3
          <6> DEFINE one == <<c>>
          <6>2. one \in Seq(S) /\ Len(f) = Len(one) /\ \A j \in 1 .. Len(f) : f[j] = one[j]
            BY <5>2, <5>3, <6>1
          <6> HIDE DEF one, S
          <6>3. f = one
            BY <5>2, <6>2, SeqEqual
          <6> QED
            BY <6>3 DEF one
        <5>5. Front(<<c, b>>) = f
          <6>1. \A s : Len(s) = 2 => Front(s) = SubSeq(s, 1, 1)
            BY DEF Front
          <6> QED
            BY <5>1, <6>1
        <5> HIDE DEF f
        <5> QED
          BY <5>4, <5>5
      <4> QED
        BY <4>1
    <3> QED
      BY <3>3, <3>4
  <2> HIDE DEF l, i
  <2>3. d # <<>>
    BY <1>3
  <2>4. CASE d = <<"blocks">> \/ d = <<"heights">>
    BY <2>1, <2>4, <1>3 DEF Lists, Handles
  <2>5. CASE d = <<"blocks", "heights">>
    BY <2>2, <2>5, <1>3 DEF Lists, Handles
  <2>6. CASE d = <<"heights", "blocks">>
    BY <2>2, <2>6, <1>3 DEF Lists, Handles
  <2> QED
    BY <1>1, <2>3, <2>4, <2>5, <2>6 DEF Lists
<1> HIDE DEF l
<1> QED
  BY <1>4, <1>6
-----------------------------------------------------------------------------
(* The registry of threads, references and handles *)

\* What does not touch the registry, the handles and the cursor keeps RegInv.
LEMMA RegFrame == RegInv /\ UNCHANGED <<registry, db, cursor>> => RegInv'
<1> SUFFICES ASSUME RegInv, UNCHANGED <<registry, db, cursor>> PROVE RegInv'
  OBVIOUS
<1>1. engine' = engine /\ lock' = lock /\ pc' = pc /\ held' = held /\ db' = db /\ cursor' = cursor
  BY DEF registry
<1>2. RegType'
  BY <1>1 DEF RegInv, RegType
<1>3. CallsInv'
  BY <1>1 DEF RegInv, CallsInv
<1>4. CountInv'
  BY <1>1 DEF RegInv, CountInv, Given, Taking, TotalRefs, Dropping
<1>5. ListedInv'
  BY <1>1 DEF RegInv, ListedInv
<1>6. HandleInv'
  BY <1>1 DEF RegInv, HandleInv, Idle
<1> QED
  BY <1>2, <1>3, <1>4, <1>5, <1>6 DEF RegInv

\* A cursor is opened on a listed database, moves, and is closed.
LEMMA RegCursor ==
    ASSUME RegInv, UNCHANGED <<registry, db>>,
           DOMAIN cursor' = CursorFields, cursor'.priv \in BOOLEAN, cursor'.db \in Handles,
           cursor'.priv => Idle(Main) /\ held[Main] > 0 /\ db[cursor'.db].state = "listed"
    PROVE  RegInv'
<1>1. engine' = engine /\ lock' = lock /\ pc' = pc /\ held' = held /\ db' = db
  BY DEF registry
<1>2. RegType'
  BY <1>1 DEF RegInv, RegType
<1>3. CallsInv'
  BY <1>1 DEF RegInv, CallsInv
<1>4. CountInv'
  BY <1>1 DEF RegInv, CountInv, Given, Taking, TotalRefs, Dropping
<1>5. ListedInv'
  BY <1>1 DEF RegInv, ListedInv
<1>6. HandleInv'
  BY <1>1 DEF RegInv, HandleInv, Idle
<1> QED
  BY <1>2, <1>3, <1>4, <1>5, <1>6 DEF RegInv

\* A new engine: no databases, room for AllocSize of them.
LEMMA NewEngine ==
    /\ db_engine_private_new \in EngineType
    /\ db_engine_private_new.priv /\ db_engine_private_new.databases = <<>>
    /\ db_engine_private_new.max_size = AllocSize
<1> DEFINE e == [no_engine EXCEPT !.priv = TRUE]
<1>1. no_engine \in EngineType
  BY DEF no_engine, EngineType, Lists
<1>2. e \in EngineType /\ e.priv /\ e.databases = <<>> /\ e.max_size = 0
  BY <1>1 DEF no_engine, EngineType
<1> HIDE DEF e
<1> DEFINE kept == [i \in DOMAIN e.databases |->
                      IF i <= AllocSize - e.max_size THEN "NULL" ELSE e.databases[i]]
<1>3. kept = <<>>
  <2>1. DOMAIN e.databases = {}
    BY <1>2
  <2> QED
    BY <2>1
<1>4. ~(AllocSize < e.max_size)
  BY <1>2, EngineAssumption
<1> HIDE DEF kept
<1>5. db_engine_resize(e, 0) = [e EXCEPT !.max_size = AllocSize, !.databases = kept]
  BY <1>4 DEF db_engine_resize, kept
<1>6. db_engine_private_new = [e EXCEPT !.max_size = AllocSize, !.databases = <<>>]
  BY <1>3, <1>5 DEF db_engine_private_new, e
<1> QED
  BY <1>2, <1>6, EngineAssumption DEF EngineType, Lists

\* db_engine_init(): the first reference is Main's.
LEMMA RegInit == RegInv /\ db_engine_init => RegInv'
<1> SUFFICES ASSUME RegInv, db_engine_init PROVE RegInv'
  OBVIOUS
<1>1. /\ ~engine.priv /\ (\A t \in Threads : Idle(t) /\ held[t] = 0)
      /\ held' = [held EXCEPT ![Main] = 1]
      /\ lock' = lock /\ pc' = pc /\ db' = db /\ cursor' = cursor
  BY DEF db_engine_init
<1>2. /\ engine' \in EngineType /\ engine'.priv /\ engine'.refs_count = 1
      /\ engine'.databases = <<>> /\ engine'.max_size = AllocSize
  BY NewEngine DEF db_engine_init, EngineType
<1>3. RegType /\ CallsInv /\ CountInv /\ ListedInv /\ HandleInv
  BY DEF RegInv
<1>4. RegType'
  <2>1. 1 \in 0 .. MaxRefs /\ held \in [Threads -> 0 .. MaxRefs]
    BY <1>3, EngineAssumption DEF RegType
  <2>2. held' \in [Threads -> 0 .. MaxRefs]
    BY <1>1, <2>1
  <2> QED
    BY <1>1, <1>2, <1>3, <2>2 DEF RegType
<1>5. \A t \in Threads : pc[t].op = "none"
  BY <1>1, <1>3 DEF CallsInv, Idle
<1>6. CallsInv'
  BY <1>1, <1>3, <1>5 DEF CallsInv
<1>7. CountInv'
  <2>1. Tokens = {}
    BY <1>1 DEF Tokens
  <2>2. TotalRefs = 0
    BY <2>1, TokensFinite, FS_EmptySet
  <2>3. TotalRefs' = 1
    <3>1. Main \in Threads /\ held[Main] = 0 /\ held \in [Threads -> 0 .. MaxRefs]
      BY <1>1, <1>3, ThreadsFinite DEF RegType
    <3>2. held[Main] < MaxRefs /\ held[Main] + 1 = 1
      BY <3>1, EngineAssumption
    <3>3. held' = [held EXCEPT ![Main] = @ + 1]
      BY <1>1, <3>2
    <3>4. TotalRefs' = TotalRefs + 1
      BY <3>1, <3>2, <3>3, TokenAdded
    <3> QED
      BY <3>4, <2>2
  <2>4. Dropping' = {}
    BY <1>1, <1>5 DEF Dropping
  <2>5. Cardinality(Dropping') = 0
    BY <2>4, FS_EmptySet
  <2> QED
    BY <1>2, <2>3, <2>5 DEF CountInv
<1>8. ListedInv'
  BY <1>1, <1>2, <1>3 DEF ListedInv
<1>9. HandleInv'
  BY <1>1, <1>3, ThreadsFinite DEF HandleInv, Idle
<1> QED
  BY <1>4, <1>6, <1>7, <1>8, <1>9 DEF RegInv

\* A process that has just started, or has died.
LEMMA RegNew ==
    ASSUME engine' = no_engine, lock' = NoThread, pc' = [t \in Threads |-> idle],
           held' = [t \in Threads |-> 0], db' = [h \in Handles |-> no_handle], cursor' = no_cursor
    PROVE  RegInv'
<1>1. RegType'
  BY EngineAssumption DEF RegType, no_engine, EngineType, Lists, idle, PcType, no_handle, HandleType, no_cursor,
         CursorFields, Handles
<1>2. CallsInv'
  BY EngineAssumption DEF CallsInv, idle, NoThread, Threads
<1>3. CountInv'
  BY DEF CountInv, Given, Taking, idle
<1>4. ListedInv'
  BY ShortSets DEF ListedInv, no_handle, no_engine
<1>5. HandleInv'
  BY DEF HandleInv, no_handle, no_cursor
<1> QED
  BY <1>1, <1>2, <1>3, <1>4, <1>5 DEF RegInv

\* A thread asks for a reference: nothing is counted yet.
LEMMA RegCallAddRef ==
    ASSUME RegInv, NEW t \in Threads, CallAddRef(t)
    PROVE  RegInv'
<1> USE DEF RegInv
<1>1. /\ pc[t].at = "idle" /\ ~cursor.priv /\ TotalRefs < MaxRefs /\ Given
      /\ pc' = [pc EXCEPT ![t] = [op |-> "add_ref", db |-> "blocks", at |-> "wait"]]
      /\ engine' = engine /\ lock' = lock /\ held' = held /\ db' = db /\ cursor' = cursor
  BY DEF CallAddRef, Idle, Quiet, Call
<1>2. held \in [Threads -> 0 .. MaxRefs] /\ pc \in [Threads -> PcType]
  BY DEF RegType
<1>3. pc[t].op = "none" /\ held[t] < MaxRefs
  BY <1>1, <1>2, TokenBounds DEF CallsInv
<1>4. RegType'
  BY <1>1, <1>2 DEF RegType, PcType, Handles
<1>5. CallsInv'
  BY <1>1, <1>2, <1>3 DEF CallsInv
<1>6. CountInv'
  <2>1. Dropping' = Dropping
    BY <1>1, <1>2, <1>3 DEF Dropping
  <2>2. TotalRefs' = TotalRefs
    BY <1>1 DEF TotalRefs
  <2> QED
    BY <1>1, <2>1, <2>2 DEF CountInv
<1>7. ListedInv'
  BY <1>1 DEF ListedInv
<1>8. HandleInv'
  BY <1>1 DEF HandleInv
<1> QED
  BY <1>4, <1>5, <1>6, <1>7, <1>8

\* A thread gives its reference up: it leaves TotalRefs and joins Dropping.
LEMMA RegCallCleanup ==
    ASSUME RegInv, NEW t \in Threads, CallCleanup(t)
    PROVE  RegInv'
<1> USE DEF RegInv
<1>1. /\ pc[t].at = "idle" /\ ~cursor.priv
      /\ held[t] > 0 \/ (~Given /\ \A o \in Threads : pc[o].op # "add_ref")
      /\ held' = [held EXCEPT ![t] = IF @ > 0 THEN @ - 1 ELSE 0]
      /\ pc' = [pc EXCEPT ![t] = [op |-> "cleanup", db |-> "blocks", at |-> "wait"]]
      /\ engine' = engine /\ lock' = lock /\ db' = db /\ cursor' = cursor
  BY DEF CallCleanup, Idle, Quiet, Call
<1>2. held \in [Threads -> 0 .. MaxRefs] /\ pc \in [Threads -> PcType] /\ MaxRefs \in Nat
  BY EngineAssumption DEF RegType
<1>3. pc[t].op = "none"
  BY <1>1 DEF CallsInv
<1>4. /\ held' \in [Threads -> 0 .. MaxRefs] /\ held'[t] <= held[t]
      /\ \A u \in Threads : u # t => held'[u] = held[u]
  BY <1>1, <1>2
<1>5. /\ pc'[t] = [op |-> "cleanup", db |-> "blocks", at |-> "wait"]
      /\ \A u \in Threads : u # t => pc'[u] = pc[u]
  BY <1>1, <1>2
<1>6. RegType'
  BY <1>1, <1>2, <1>4 DEF RegType, PcType, Handles
<1>7. CallsInv'
  <2> SUFFICES ASSUME NEW u \in Threads
               PROVE  /\ pc'[u].at = "idle" <=> pc'[u].op = "none"
                      /\ pc'[u].at = "locked" <=> lock' = u
                      /\ pc'[u].op \in {"list_add", "list_remove"} =>
                            /\ u = Main /\ held'[Main] > 0
                            /\ db'[pc'[u].db].state = IF pc'[u].op = "list_add" THEN "open" ELSE "listed"
                      /\ pc'[u].op = "add_ref" => held'[u] < MaxRefs
    BY DEF CallsInv
  <2>1. CASE u = t
    BY <2>1, <1>1, <1>5 DEF CallsInv
  <2>2. CASE u # t
    BY <2>2, <1>1, <1>4, <1>5 DEF CallsInv
  <2> QED
    BY <2>1, <2>2
<1>8. CountInv'
  <2>1. CASE held[t] > 0
    <3>1. Given
      BY <2>1 DEF Given
    <3>2. engine.priv /\ engine.refs_count = TotalRefs + Cardinality(Dropping)
      BY <3>1 DEF CountInv
    <3>3. TotalRefs' = TotalRefs - 1
      BY <1>1, <1>2, <2>1, TokenRemoved
    <3>4. Dropping' = Dropping \cup {t} /\ t \notin Dropping
      BY <1>3, <1>5 DEF Dropping
    <3>5. Cardinality(Dropping') = Cardinality(Dropping) + 1
      BY <3>4, DroppingChanges
    <3>6. engine'.refs_count = TotalRefs' + Cardinality(Dropping')
      BY <1>1, <3>2, <3>3, <3>5, TokensFinite
    <3> QED
      BY <1>1, <3>2, <3>6 DEF CountInv
  <2>2. CASE ~(held[t] > 0)
    <3>1. ~Given'
      BY <1>1, <1>2, <1>4, <2>2 DEF Given
    <3>2. ~Taking'
      BY <1>1, <1>5, <2>2 DEF Taking
    <3> QED
      BY <3>1, <3>2 DEF CountInv
  <2> QED
    BY <2>1, <2>2
<1>9. ListedInv'
  BY <1>1 DEF ListedInv
<1>10. HandleInv'
  BY <1>1 DEF HandleInv
<1> QED
  BY <1>6, <1>7, <1>8, <1>9, <1>10

\* The mutex is free and one of those who wait gets it.
LEMMA RegGlobalLock ==
    ASSUME RegInv, NEW t \in Threads, global_lock(t)
    PROVE  RegInv'
<1> USE DEF RegInv
<1>1. /\ pc[t].at = "wait" /\ lock = NoThread /\ lock' = t
      /\ pc' = [pc EXCEPT ![t].at = "locked"]
      /\ engine' = engine /\ held' = held /\ db' = db /\ cursor' = cursor
  BY DEF global_lock
<1>2. pc \in [Threads -> PcType] /\ NoThread \notin Threads
  BY EngineAssumption DEF RegType, NoThread, Threads
<1>3. /\ pc'[t].at = "locked" /\ pc'[t].op = pc[t].op /\ pc'[t].db = pc[t].db
      /\ \A u \in Threads : u # t => pc'[u] = pc[u]
  BY <1>1, <1>2 DEF PcType
<1>4. \A u \in Threads : pc'[u].op = pc[u].op /\ pc'[u].db = pc[u].db
  BY <1>3
<1>5. RegType'
  BY <1>1, <1>2 DEF RegType, PcType
<1>6. CallsInv'
  BY <1>1, <1>2, <1>3, <1>4 DEF CallsInv
<1>7. CountInv'
  <2>1. Dropping' = Dropping /\ Taking' = Taking
    BY <1>4 DEF Dropping, Taking
  <2>2. TotalRefs' = TotalRefs /\ Given' = Given
    BY <1>1 DEF TotalRefs, Given
  <2> QED
    BY <1>1, <2>1, <2>2 DEF CountInv
<1>8. ListedInv'
  BY <1>1 DEF ListedInv
<1>9. HandleInv'
  BY <1>1, <1>3, ThreadsFinite DEF HandleInv, Idle
<1> QED
  BY <1>5, <1>6, <1>7, <1>8, <1>9

\* What every operation under the mutex has in common: the thread has it, is
\* done, and leaves it; the others are where they were.
LEMMA Unlocks ==
    ASSUME RegInv, NEW t \in Threads, pc[t].at = "locked", lock' = NoThread,
           pc' = [pc EXCEPT ![t] = idle]
    PROVE  /\ pc' \in [Threads -> PcType] /\ lock = t /\ lock' \in Threads \cup {NoThread}
           /\ pc'[t].op = "none" /\ \A u \in Threads : u # t => pc'[u] = pc[u]
           /\ \A u \in Threads : /\ pc'[u].at = "idle" <=> pc'[u].op = "none"
                                 /\ pc'[u].at = "locked" <=> lock' = u
           /\ Taking' => Taking
<1>1. pc \in [Threads -> PcType] /\ NoThread \notin Threads /\ idle \in PcType
  BY EngineAssumption DEF RegInv, RegType, NoThread, Threads, idle, PcType, Handles
<1>2. pc' \in [Threads -> PcType] /\ pc'[t] = idle /\ \A u \in Threads : u # t => pc'[u] = pc[u]
  BY <1>1
<1>3. lock = t
  BY DEF RegInv, CallsInv
<1> QED
  BY <1>1, <1>2, <1>3 DEF RegInv, CallsInv, idle, Taking

\* db_engine_add_ref(): the reference is counted if there is still an engine.
LEMMA RegAddRef ==
    ASSUME RegInv, NEW t \in Threads, Locked(t), pc[t].op = "add_ref", db_engine_add_ref(t)
    PROVE  RegInv'
<1> USE DEF RegInv
<1>1. /\ pc[t].at = "locked" /\ pc' = [pc EXCEPT ![t] = idle] /\ lock' = NoThread
      /\ db' = db /\ cursor' = cursor
  BY DEF Locked, db_engine_add_ref
<1>2. held \in [Threads -> 0 .. MaxRefs] /\ held[t] < MaxRefs /\ MaxRefs \in Nat /\ engine \in EngineType
  BY EngineAssumption DEF RegType, CallsInv
<1>3. /\ pc' \in [Threads -> PcType] /\ lock' \in Threads \cup {NoThread}
      /\ pc'[t].op = "none" /\ (\A u \in Threads : u # t => pc'[u] = pc[u])
      /\ (\A u \in Threads : /\ pc'[u].at = "idle" <=> pc'[u].op = "none"
                             /\ pc'[u].at = "locked" <=> lock' = u)
  BY <1>1, Unlocks
<1>4. Dropping' = Dropping
  BY <1>3 DEF Dropping
<1>5. /\ engine' \in EngineType /\ held' \in [Threads -> 0 .. MaxRefs]
      /\ (\A u \in Threads : held'[u] >= held[u] /\ (u # t => held'[u] = held[u]))
      /\ engine'.databases = engine.databases /\ engine'.max_size = engine.max_size
      /\ engine'.priv = engine.priv
  <2>1. CASE engine.priv
    <3>1. engine' = [engine EXCEPT !.refs_count = @ + 1] /\ held' = [held EXCEPT ![t] = @ + 1]
      BY <2>1 DEF db_engine_add_ref
    <3>2. held' \in [Threads -> 0 .. MaxRefs] /\ (\A u \in Threads : held'[u] >= held[u] /\ (u # t => held'[u] = held[u]))
      BY <1>2, <3>1
    <3> QED
      BY <1>2, <3>1, <3>2 DEF EngineType
  <2>2. CASE ~engine.priv
    BY <1>2, <2>2 DEF db_engine_add_ref
  <2> QED
    BY <2>1, <2>2
<1>6. RegType'
  BY <1>1, <1>3, <1>5 DEF RegType
<1>7. CallsInv'
  <2>1. Main \in Threads
    BY ThreadsFinite
  <2>2. ASSUME NEW u \in Threads, pc'[u].op \in {"list_add", "list_remove"}
        PROVE  /\ u = Main /\ held'[Main] > 0
               /\ db'[pc'[u].db].state = IF pc'[u].op = "list_add" THEN "open" ELSE "listed"
    <3>1. u # t /\ pc'[u] = pc[u]
      BY <1>3, <2>2
    <3>2. u = Main /\ held[Main] > 0
      BY <2>2, <3>1 DEF CallsInv
    <3> QED
      BY <1>1, <1>2, <1>5, <2>1, <2>2, <3>1, <3>2 DEF CallsInv
  <2>3. ASSUME NEW u \in Threads, pc'[u].op = "add_ref" PROVE held'[u] < MaxRefs
    BY <1>3, <1>5, <2>3 DEF CallsInv
  <2> QED
    BY <1>3, <2>2, <2>3 DEF CallsInv
<1>8. CountInv'
  <2>1. CASE engine.priv
    <3>1. engine' = [engine EXCEPT !.refs_count = @ + 1] /\ held' = [held EXCEPT ![t] = @ + 1]
      BY <2>1 DEF db_engine_add_ref
    <3>2. engine.refs_count = TotalRefs + Cardinality(Dropping)
      BY <2>1 DEF CountInv, Taking
    <3>3. TotalRefs' = TotalRefs + 1
      BY <1>2, <3>1, TokenAdded
    <3>4. engine'.refs_count = engine.refs_count + 1
      BY <1>2, <3>1 DEF EngineType
    <3>5. engine'.refs_count = TotalRefs' + Cardinality(Dropping')
      BY <1>4, <3>2, <3>3, <3>4, TokensFinite
    <3> QED
      BY <1>5, <2>1, <3>5 DEF CountInv
  <2>2. CASE ~engine.priv
    <3>1. ~Given /\ held' = held
      BY <2>2 DEF CountInv, db_engine_add_ref
    <3> QED
      BY <3>1, <2>2, <1>5 DEF CountInv, Given
  <2> QED
    BY <2>1, <2>2
<1>9. ListedInv'
  BY <1>1, <1>5 DEF ListedInv
<1>10. HandleInv'
  BY <1>1, <1>2, <1>3, <1>5, ThreadsFinite DEF HandleInv, Idle, CallsInv
<1> QED
  BY <1>6, <1>7, <1>8, <1>9, <1>10

\* db_engine_cleanup(): the engine goes with the last reference, and then no
\* thread has one, no thread is at the list and no cursor is open.
LEMMA RegCleanup ==
    ASSUME RegInv, NEW t \in Threads, Locked(t), pc[t].op = "cleanup", db_engine_cleanup(t)
    PROVE  RegInv'
<1> USE DEF RegInv
<1>1. /\ pc[t].at = "locked" /\ pc' = [pc EXCEPT ![t] = idle] /\ lock' = NoThread
      /\ held' = held /\ cursor' = cursor
  BY DEF Locked, db_engine_cleanup
<1>2. held \in [Threads -> 0 .. MaxRefs] /\ engine \in EngineType /\ db \in [Handles -> HandleType]
  BY DEF RegType
<1>3. /\ pc' \in [Threads -> PcType] /\ lock' \in Threads \cup {NoThread}
      /\ pc'[t].op = "none" /\ (\A u \in Threads : u # t => pc'[u] = pc[u])
      /\ (\A u \in Threads : /\ pc'[u].at = "idle" <=> pc'[u].op = "none"
                             /\ pc'[u].at = "locked" <=> lock' = u)
      /\ (Taking' => Taking)
  BY <1>1, Unlocks
<1>4. Dropping' = Dropping \ {t} /\ t \in Dropping
  BY <1>3 DEF Dropping
<1>5. Cardinality(Dropping') = Cardinality(Dropping) - 1 /\ Cardinality(Dropping) >= 1
  BY <1>4, DroppingChanges
<1>6. TotalRefs' = TotalRefs /\ Given' = Given
  BY <1>1 DEF TotalRefs, Given
<1>7. ASSUME Given PROVE engine.priv /\ engine.refs_count >= 2
  <2>1. engine.priv /\ engine.refs_count = TotalRefs + Cardinality(Dropping)
    BY <1>7 DEF CountInv
  <2>2. TotalRefs >= 1
    BY <1>2, <1>7, TokenBounds
  <2> QED
    BY <2>1, <2>2, <1>5, TokensFinite
<1>8. CASE engine.priv /\ engine.refs_count > 1
  <2>1. engine' = [engine EXCEPT !.refs_count = @ - 1] /\ db' = db
    BY <1>2, <1>8 DEF db_engine_cleanup, EngineType
  <2>2. /\ engine' \in EngineType /\ engine'.refs_count = engine.refs_count - 1 /\ engine'.priv
        /\ engine'.databases = engine.databases /\ engine'.max_size = engine.max_size
    BY <1>2, <1>8, <2>1 DEF EngineType
  <2>3. RegType'
    BY <1>1, <1>3, <2>1, <2>2 DEF RegType
  <2>4. CallsInv'
    BY <1>1, <1>3, <2>1 DEF CallsInv
  <2>5. CountInv'
    <3>1. ASSUME Given' \/ Taking' PROVE engine'.refs_count = TotalRefs' + Cardinality(Dropping')
      <4>1. engine.refs_count = TotalRefs + Cardinality(Dropping)
        BY <3>1, <1>3, <1>6, <1>8 DEF CountInv
      <4> QED
        BY <4>1, <1>5, <1>6, <2>2, TokensFinite
    <3> QED
      BY <3>1, <2>2 DEF CountInv
  <2>6. ListedInv'
    BY <1>8, <2>1, <2>2 DEF ListedInv
  <2>7. HandleInv'
    BY <1>1, <1>3, <2>1, ThreadsFinite DEF HandleInv, Idle, CallsInv
  <2> QED
    BY <2>3, <2>4, <2>5, <2>6, <2>7
<1>9. CASE ~(engine.priv /\ engine.refs_count > 1)
  <2>1. ~Given
    BY <1>2, <1>7, <1>9 DEF EngineType
  <2>2. ~(held[Main] > 0) /\ ~cursor.priv
    BY <2>1, ThreadsFinite DEF Given, HandleInv
  <2>3. \A u \in Threads : pc[u].op \notin {"list_add", "list_remove"}
    BY <2>2 DEF CallsInv
  <2>4. CallsInv'
    BY <1>1, <1>3, <2>3 DEF CallsInv
  <2>5. CASE UNCHANGED <<engine, db>> /\ (~engine.priv \/ engine.refs_count = 0)
    <3>1. RegType'
      BY <1>1, <1>3, <2>5 DEF RegType
    <3>2. ~(Taking' /\ engine'.priv)
      <4>1. SUFFICES ASSUME Taking', engine.priv PROVE FALSE
        BY <2>5
      <4>2. engine.refs_count = TotalRefs + Cardinality(Dropping)
        BY <4>1, <1>3 DEF CountInv
      <4> QED
        BY <4>1, <4>2, <2>5, <1>5, TokensFinite
    <3>3. CountInv'
      BY <2>1, <1>6, <3>2 DEF CountInv
    <3>4. ListedInv' /\ HandleInv'
      BY <1>1, <2>2, <2>5 DEF ListedInv, HandleInv
    <3> QED
      BY <3>1, <2>4, <3>3, <3>4
  <2>6. CASE engine' = no_engine /\ db' = db_engine_private_free(db)
    <3>1. \A h \in Handles : db'[h] = no_handle \/ (db'[h] = db[h] /\ db[h].state # "listed")
      BY <2>6 DEF db_engine_private_free, db_private_free, ListedInv
    <3>2. db' \in [Handles -> HandleType]
      <4>1. no_handle \in HandleType
        BY DEF no_handle, HandleType
      <4> QED
        BY <2>6, <4>1, <1>2 DEF db_engine_private_free, db_private_free
    <3>3. RegType'
      BY <1>1, <1>3, <2>6, <3>2 DEF RegType, no_engine, EngineType, Lists
    <3>4. CountInv'
      BY <2>1, <2>6, <1>6 DEF CountInv, no_engine
    <3>5. ListedInv'
      BY <2>6, <3>1, ShortSets DEF ListedInv, no_engine, no_handle
    <3>6. HandleInv'
      BY <1>1, <2>2, <3>1 DEF HandleInv, no_handle
    <3> QED
      BY <3>3, <2>4, <3>4, <3>5, <3>6
  <2> QED
    BY <1>9, <2>5, <2>6 DEF db_engine_cleanup
<1> QED
  BY <1>8, <1>9

\* A change of the list and of the state of one handle, made by Main under the
\* mutex.
LEMMA RegList ==
    ASSUME RegInv, NEW t \in Threads, pc[t].at = "locked", lock' = NoThread,
           pc[t].op \in {"list_add", "list_remove"}, pc' = [pc EXCEPT ![t] = idle],
           held' = held, cursor' = cursor,
           NEW l \in Lists, engine' = [engine EXCEPT !.databases = l],
           NEW s \in {"listed", "closed"}, db' = [db EXCEPT ![pc[t].db].state = s],
           \A h \in Handles : db'[h].state = "listed" <=> h \in ToSet(l)
    PROVE  RegInv'
<1> USE DEF RegInv
<1>1. t = Main /\ held[Main] > 0 /\ Given /\ engine.priv
  <2>1. t = Main /\ held[Main] > 0
    BY DEF CallsInv
  <2> QED
    BY <2>1, ThreadsFinite DEF Given, CountInv
<1>2. engine \in EngineType /\ db \in [Handles -> HandleType] /\ pc[t].db \in Handles
  BY DEF RegType, PcType
<1>3. /\ pc' \in [Threads -> PcType] /\ lock' \in Threads \cup {NoThread}
      /\ pc'[t].op = "none" /\ (\A u \in Threads : u # t => pc'[u] = pc[u])
      /\ (\A u \in Threads : /\ pc'[u].at = "idle" <=> pc'[u].op = "none"
                             /\ pc'[u].at = "locked" <=> lock' = u)
      /\ (Taking' => Taking)
  BY Unlocks
<1>4. /\ engine' \in EngineType /\ engine'.priv /\ engine'.refs_count = engine.refs_count
      /\ engine'.databases = l /\ engine'.max_size = engine.max_size
  BY <1>1, <1>2 DEF EngineType
<1>5. /\ db' \in [Handles -> HandleType]
      /\ \A h \in Handles : db'[h].multiple = db[h].multiple
                            /\ (db'[h].state # "none" => db[h].state # "none" \/ h = pc[t].db)
  BY <1>2 DEF HandleType
<1>6. RegType'
  BY <1>3, <1>4, <1>5 DEF RegType
<1>7. CallsInv'
  BY <1>1, <1>3 DEF CallsInv
<1>8. CountInv'
  <2>1. Dropping' = Dropping
    BY <1>3 DEF Dropping
  <2>2. TotalRefs' = TotalRefs
    BY DEF TotalRefs
  <2> QED
    BY <1>1, <1>4, <2>1, <2>2 DEF CountInv
<1>9. ListedInv'
  BY <1>1, <1>4 DEF ListedInv
<1>10. HandleInv'
  <2>1. ~cursor.priv
    BY <1>1 DEF HandleInv, Idle
  <2>2. db[pc[t].db].state # "none"
    BY DEF CallsInv
  <2> QED
    BY <1>5, <2>1, <2>2 DEF HandleInv
<1> QED
  BY <1>6, <1>7, <1>8, <1>9, <1>10

\* engine_list_add(): the handle is open and not yet in the list.
LEMMA RegListAdd ==
    ASSUME RegInv, NEW t \in Threads, Locked(t), pc[t].op = "list_add", ListAdd(pc[t].db)
    PROVE  RegInv'
<1> DEFINE h == pc[t].db
           l == Append(engine.databases, h)
<1>1. /\ pc[t].at = "locked" /\ pc' = [pc EXCEPT ![t] = idle] /\ lock' = NoThread
      /\ held' = held /\ cursor' = cursor
      /\ engine' = engine_list_add(engine, h) /\ db' = [db EXCEPT ![h].state = "listed"]
  BY DEF Locked, ListAdd
<1>2. /\ engine \in EngineType /\ engine.databases \in Lists /\ h \in Handles
      /\ db \in [Handles -> HandleType]
  BY DEF RegInv, RegType, PcType, EngineType
<1>3. db[h].state = "open" /\ engine.priv /\ engine.max_size = AllocSize
  BY ThreadsFinite DEF RegInv, CallsInv, CountInv, Given, ListedInv
<1>4. h \notin ToSet(engine.databases)
  BY <1>2, <1>3 DEF RegInv, ListedInv
<1>5. l \in Lists /\ ToSet(l) = ToSet(engine.databases) \cup {h}
  BY <1>2, <1>4, ListProps
<1>6. engine' = [engine EXCEPT !.databases = l]
  BY <1>1, <1>2, <1>3, <1>4, ListAdded
<1>7. \A g \in Handles : db'[g].state = "listed" <=> g \in ToSet(l)
  BY <1>1, <1>2, <1>5 DEF RegInv, ListedInv, HandleType
<1> HIDE DEF l
<1> QED
  BY <1>1, <1>5, <1>6, <1>7, RegList

\* engine_list_remove(): the handle is in the list, and only it leaves.
LEMMA RegListRemove ==
    ASSUME RegInv, NEW t \in Threads, Locked(t), pc[t].op = "list_remove", ListRemove(pc[t].db)
    PROVE  RegInv'
<1> DEFINE h == pc[t].db
<1>1. /\ pc[t].at = "locked" /\ pc' = [pc EXCEPT ![t] = idle] /\ lock' = NoThread
      /\ held' = held /\ cursor' = cursor
      /\ engine' = engine_list_remove(engine, h) /\ db' = [db EXCEPT ![h].state = "closed"]
  BY DEF Locked, ListRemove
<1>2. engine \in EngineType /\ h \in Handles /\ db \in [Handles -> HandleType]
  BY DEF RegInv, RegType, PcType
<1>3. h \in ToSet(engine.databases)
  BY <1>2 DEF RegInv, CallsInv, ListedInv
<1>4. PICK l \in Lists : /\ engine_list_remove(engine, h) = [engine EXCEPT !.databases = l]
                         /\ ToSet(l) = ToSet(engine.databases) \ {h}
  BY <1>2, <1>3, ListRemoved
<1>5. \A g \in Handles : db'[g].state = "listed" <=> g \in ToSet(l)
  BY <1>1, <1>2, <1>4 DEF RegInv, ListedInv, HandleType
<1> QED
  BY <1>1, <1>4, <1>5, RegList

\* engine_open_db(), engine_close_db(): Main goes for the mutex.
LEMMA RegOpenClose ==
    ASSUME RegInv, NEW h \in Handles, NEW b \in BOOLEAN, engine_open_db(h, b) \/ engine_close_db(h)
    PROVE  RegInv'
<1> USE DEF RegInv
<1>1. PICK op \in {"list_add", "list_remove"} :
        /\ pc' = [pc EXCEPT ![Main] = [op |-> op, db |-> h, at |-> "wait"]]
        /\ pc[Main].at = "idle" /\ held[Main] > 0 /\ ~cursor.priv
        /\ engine' = engine /\ lock' = lock /\ held' = held /\ cursor' = cursor
        /\ op = "list_add" => engine_open_db(h, b)
        /\ op = "list_remove" => db[h].state = "listed" /\ db' = db
  BY DEF engine_open_db, engine_close_db, MainMay, Quiet, Idle, Call
<1>2. pc \in [Threads -> PcType] /\ db \in [Handles -> HandleType] /\ Main \in Threads
  BY ThreadsFinite DEF RegType
<1>3. /\ pc'[Main].op = op /\ pc'[Main].db = h /\ pc'[Main].at = "wait"
      /\ \A u \in Threads : u # Main => pc'[u] = pc[u]
  BY <1>1, <1>2
<1>4. /\ db' \in [Handles -> HandleType]
      /\ \A g \in Handles : db'[g].state = "listed" <=> db[g].state = "listed"
      /\ \A g \in Handles : db'[g].state # "none" => db'[g].multiple = (g = "heights")
      /\ db'[h].state = IF op = "list_add" THEN "open" ELSE "listed"
  <2>1. CASE op = "list_add"
    <3> DEFINE new == [db_open(db_handle_init, h = "heights") EXCEPT
                          !.no_overwrite = b /\ h = "blocks"]
    <3>1. db[h].state = "none" /\ db' = [db EXCEPT ![h] = new]
      BY <1>1, <2>1 DEF engine_open_db
    <3>2. new \in HandleType /\ new.state = "open" /\ new.multiple = (h = "heights")
      BY DEF db_open, db_handle_init, no_handle, HandleType
    <3> HIDE DEF new
    <3> QED
      BY <1>2, <2>1, <3>1, <3>2 DEF HandleInv
  <2>2. CASE op = "list_remove"
    BY <1>1, <1>2, <2>2 DEF HandleInv
  <2> QED
    BY <1>1, <2>1, <2>2
<1>5. RegType'
  BY <1>1, <1>2, <1>4 DEF RegType, PcType
<1>6. CallsInv'
  <2>1. \A u \in Threads : pc[u].op \in {"list_add", "list_remove"} => FALSE
    BY <1>1 DEF CallsInv
  <2> QED
    BY <1>1, <1>3, <1>4, <2>1 DEF CallsInv
<1>7. CountInv'
  <2>1. Dropping' = Dropping
    BY <1>1, <1>2, <1>3 DEF Dropping, CallsInv
  <2>2. TotalRefs' = TotalRefs /\ Given
    BY <1>1, <1>2 DEF TotalRefs, Given
  <2> QED
    BY <1>1, <2>1, <2>2 DEF CountInv
<1>8. ListedInv'
  BY <1>1, <1>4 DEF ListedInv
<1>9. HandleInv'
  BY <1>1, <1>4 DEF HandleInv
<1> QED
  BY <1>5, <1>6, <1>7, <1>8, <1>9

\* db_associate() sets a flag of the secondary.
LEMMA RegAssociate == RegInv /\ db_associate => RegInv'
<1> SUFFICES ASSUME RegInv, db_associate PROVE RegInv'
  OBVIOUS
<1> USE DEF RegInv
<1>1. engine' = engine /\ lock' = lock /\ pc' = pc /\ held' = held /\ cursor' = cursor
  BY DEF db_associate, registry
<1>2. db \in [Handles -> HandleType] /\ db' = [db EXCEPT !["heights"].associate_func = TRUE]
  BY DEF RegType, db_associate
<1>3. /\ db' \in [Handles -> HandleType]
      /\ \A h \in Handles : db'[h].state = db[h].state /\ db'[h].multiple = db[h].multiple
  BY <1>2 DEF HandleType, Handles
<1>4. RegType'
  BY <1>1, <1>3 DEF RegType
<1>5. CallsInv'
  BY <1>1, <1>3 DEF CallsInv, RegType, PcType
<1>6. CountInv'
  BY <1>1 DEF CountInv, Given, Taking, TotalRefs, Dropping
<1>7. ListedInv'
  BY <1>1, <1>3 DEF ListedInv
<1>8. HandleInv'
  BY <1>1, <1>3 DEF HandleInv, Idle, RegType
<1> QED
  BY <1>4, <1>5, <1>6, <1>7, <1>8

\* Every step keeps the registry.
LEMMA RegStep == RegInv /\ [Next]_vars => RegInv'
<1> SUFFICES ASSUME RegInv, [Next]_vars PROVE RegInv'
  OBVIOUS
<1>1. CASE db_engine_init
  BY <1>1, RegInit
<1>2. CASE Crash
  BY <1>2, RegNew DEF Crash
<1>3. ASSUME NEW t \in Threads, CallAddRef(t) \/ CallCleanup(t) \/ global_lock(t) PROVE RegInv'
  BY <1>3, RegCallAddRef, RegCallCleanup, RegGlobalLock
<1>4. ASSUME NEW t \in Threads, Locked(t) PROVE RegInv'
  <2>1. \/ pc[t].op = "add_ref" /\ db_engine_add_ref(t)
        \/ pc[t].op = "cleanup" /\ db_engine_cleanup(t)
        \/ pc[t].op = "list_add" /\ ListAdd(pc[t].db)
        \/ pc[t].op = "list_remove" /\ ListRemove(pc[t].db)
    BY <1>4 DEF Locked
  <2> QED
    BY <1>4, <2>1, RegAddRef, RegCleanup, RegListAdd, RegListRemove
<1>5. ASSUME NEW h \in Handles, NEW b \in BOOLEAN, engine_open_db(h, b) \/ engine_close_db(h)
      PROVE  RegInv'
  BY <1>5, RegOpenClose
<1>6. CASE db_associate
  BY <1>6, RegAssociate
<1>7. ASSUME NEW h \in Handles, db_cursor_init(h) PROVE RegInv'
  <2>1. /\ UNCHANGED <<registry, db>> /\ Idle(Main) /\ held[Main] > 0 /\ db[h].state = "listed"
        /\ cursor' = [no_cursor EXCEPT !.priv = TRUE, !.db = h]
    BY <1>7 DEF db_cursor_init, MainMay
  <2>2. DOMAIN cursor' = CursorFields /\ cursor'.priv \in BOOLEAN /\ cursor'.db = h
    BY <2>1 DEF no_cursor, CursorFields
  <2> QED
    BY <2>1, <2>2, RegCursor
<1>8. CASE db_cursor_cleanup
  <2>1. UNCHANGED <<registry, db>> /\ cursor' = no_cursor
    BY <1>8 DEF db_cursor_cleanup
  <2>2. DOMAIN cursor' = CursorFields /\ cursor'.priv = FALSE /\ cursor'.db \in Handles
    BY <2>1 DEF no_cursor, CursorFields, Handles
  <2> QED
    BY <2>1, <2>2, RegCursor
<1>9. ASSUME UNCHANGED <<registry, db>>, DOMAIN cursor' = DOMAIN cursor,
             cursor'.priv = cursor.priv, cursor'.db = cursor.db
      PROVE  RegInv'
  BY <1>9, RegCursor DEF RegInv, RegType, HandleInv
<1>10. DOMAIN cursor = CursorFields
  BY DEF RegInv, RegType
<1>11. ASSUME NEW flag \in Flags, db_cursor_op(flag) PROVE RegInv'
  <2>1. UNCHANGED <<registry, db>>
    BY <1>11 DEF db_cursor_op
  <2>2. cursor' = [cursor EXCEPT !.rc = -1] \/ \E e : cursor' = filled(cursor, e)
    BY <1>11 DEF db_cursor_op
  <2>3. DOMAIN cursor' = DOMAIN cursor /\ cursor'.priv = cursor.priv /\ cursor'.db = cursor.db
    BY <2>2, <1>10 DEF filled, CursorFields
  <2> QED
    BY <2>1, <2>3, <1>9
<1>12. ASSUME NEW k \in Keys, db_cursor_move_to(k) PROVE RegInv'
  <2>1. /\ UNCHANGED <<registry, db>>
        /\ cursor' = [cursor EXCEPT !.skey = k, !.rc = -1] \/ cursor' = [cursor EXCEPT !.key = k, !.rc = -1]
    BY <1>12 DEF db_cursor_move_to
  <2>2. DOMAIN cursor' = DOMAIN cursor /\ cursor'.priv = cursor.priv /\ cursor'.db = cursor.db
    BY <2>1, <1>10 DEF CursorFields
  <2> QED
    BY <2>1, <2>2, <1>9
<1>13. ASSUME NEW v \in Values, NEW ok \in BOOLEAN, db_cursor_set(v, ok) PROVE RegInv'
  <2>1. UNCHANGED <<registry, db>> /\ cursor' = [cursor EXCEPT !.value = v]
    BY <1>13 DEF db_cursor_set
  <2>2. DOMAIN cursor' = DOMAIN cursor /\ cursor'.priv = cursor.priv /\ cursor'.db = cursor.db
    BY <2>1, <1>10 DEF CursorFields
  <2> QED
    BY <2>1, <2>2, <1>9
<1>14. CASE txn_begin \/ txn_abort \/ txn_prepare \/ txn_discard
  BY <1>14, RegFrame DEF txn_begin, txn_abort, txn_prepare, txn_discard
<1>15. ASSUME NEW ok \in BOOLEAN, txn_commit(ok) \/ db_cursor_del(ok) PROVE RegInv'
  BY <1>15, RegFrame DEF txn_commit, db_cursor_del
<1>16. ASSUME NEW k \in Keys, NEW ok \in BOOLEAN, db_del(k, ok) PROVE RegInv'
  BY <1>16, RegFrame DEF db_del
<1>17. ASSUME NEW k \in Keys, NEW v \in Values, NEW ok \in BOOLEAN,
              db_insert(k, v, ok) \/ db_update(k, v, ok)
       PROVE  RegInv'
  BY <1>17, RegFrame DEF db_insert, db_update
<1>18. CASE UNCHANGED vars
  BY <1>18, RegFrame DEF vars, registry
<1> QED
  BY <1>1, <1>2, <1>3, <1>4, <1>5, <1>6, <1>7, <1>8, <1>11, <1>12, <1>13, <1>14, <1>15, <1>16, <1>17,
     <1>18 DEF Next
-----------------------------------------------------------------------------
(* The order of the secondary *)

Pairs == Nat \X Nat

\* f lists the elements of S in the order of the database.
Ordered(f, S) ==
    f \in [1 .. Cardinality(S) -> S] /\ \A i, j \in 1 .. Cardinality(S) : i < j => Before(f[i], f[j])

LEMMA BeforeOrders ==
    ASSUME NEW a \in Pairs, NEW b \in Pairs, NEW c \in Pairs
    PROVE  /\ a = b \/ Before(a, b) \/ Before(b, a)
           /\ Before(a, b) /\ Before(b, c) => Before(a, c)
           /\ ~Before(a, a)
BY DEF Before, Pairs

Greatest(S, m) == m \in S /\ \A e \in S : e = m \/ Before(e, m)

\* A finite set of entries that is not empty has a last one.
LEMMA HasGreatest ==
    ASSUME NEW S \in SUBSET Pairs, IsFiniteSet(S), S # {}
    PROVE  \E m : Greatest(S, m)
<1> DEFINE T == {n \in Nat : \A U \in SUBSET Pairs :
                    IsFiniteSet(U) /\ Cardinality(U) = n /\ U # {} => \E m : Greatest(U, m)}
<1>1. 0 \in T
  BY FS_EmptySet
<1>2. ASSUME NEW n \in T PROVE n + 1 \in T
  <2>1. n \in Nat /\ \A U \in SUBSET Pairs :
            IsFiniteSet(U) /\ Cardinality(U) = n /\ U # {} => \E m : Greatest(U, m)
    BY <1>2
  <2> HIDE DEF T
  <2>2. ASSUME NEW U \in SUBSET Pairs, IsFiniteSet(U), Cardinality(U) = n + 1, U # {}
        PROVE  \E m : Greatest(U, m)
    <3>1. PICK e \in U : TRUE
      BY <2>2
    <3> DEFINE R == U \ {e}
    <3>2. R \in SUBSET Pairs /\ IsFiniteSet(R) /\ Cardinality(R) = n
      <4>1. IsFiniteSet(R) /\ Cardinality(R) = Cardinality(U) - 1
        BY <2>2, <3>1, FS_RemoveElement, Zenon
      <4> QED
        BY <2>1, <2>2, <4>1
    <3>3. CASE R = {}
      <4>1. \A x \in U : x = e
        BY <3>3
      <4> QED
        BY <4>1 DEF Greatest
    <3>4. CASE R # {}
      <4>1. PICK m : Greatest(R, m)
        BY <2>1, <3>2, <3>4
      <4>2. m \in R /\ m \in Pairs /\ e \in Pairs /\ \A x \in R : x = m \/ Before(x, m)
        BY <3>2, <4>1 DEF Greatest
      <4>3. \A x \in U : x = e \/ (x \in R /\ x \in Pairs)
        OBVIOUS
      <4> HIDE DEF R
      <4>4. CASE Before(e, m)
        <5>1. m \in U
          BY <4>2 DEF R
        <5> QED
          BY <4>2, <4>3, <4>4, <5>1 DEF Greatest
      <4>5. CASE ~Before(e, m)
        <5>1. e = m \/ Before(m, e)
          BY <4>2, <4>5, BeforeOrders
        <5>2. ASSUME NEW x \in U PROVE x = e \/ Before(x, e)
          <6>1. CASE x \in R
            <7>1. x = m \/ Before(x, m)
              BY <4>2, <6>1
            <7>2. x \in Pairs
              BY <2>2
            <7> QED
              BY <4>2, <5>1, <7>1, <7>2, BeforeOrders
          <6> QED
            BY <4>3, <6>1
        <5> QED
          BY <3>1, <5>2 DEF Greatest
      <4> QED
        BY <4>4, <4>5
    <3> QED
      BY <3>3, <3>4
  <2> QED
    BY <2>1, <2>2 DEF T
<1> HIDE DEF T
<1>3. T = Nat
  BY <1>1, <1>2, SetInduction DEF T
<1>4. Cardinality(S) \in T
  BY <1>3, FS_CardinalityType
<1> QED
  BY <1>4 DEF T

\* Every finite set of entries has such a list.
LEMMA ListExists ==
    ASSUME NEW S \in SUBSET Pairs, IsFiniteSet(S)
    PROVE  \E f : Ordered(f, S)
<1> DEFINE T == {n \in Nat : \A U \in SUBSET Pairs :
                    IsFiniteSet(U) /\ Cardinality(U) = n => \E f : Ordered(f, U)}
<1>1. 0 \in T
  <2>1. ASSUME NEW U \in SUBSET Pairs, IsFiniteSet(U), Cardinality(U) = 0
        PROVE  \E f : Ordered(f, U)
    <3> DEFINE f == [i \in 1 .. 0 |-> 0]
    <3>1. f \in [1 .. 0 -> U]
      OBVIOUS
    <3>2. Ordered(f, U)
      BY <2>1, <3>1 DEF Ordered
    <3> QED
      BY <3>2
  <2> QED
    BY <2>1
<1>2. ASSUME NEW n \in T PROVE n + 1 \in T
  <2>1. n \in Nat /\ \A U \in SUBSET Pairs :
            IsFiniteSet(U) /\ Cardinality(U) = n => \E f : Ordered(f, U)
    BY <1>2
  <2> HIDE DEF T
  <2>2. ASSUME NEW U \in SUBSET Pairs, IsFiniteSet(U), Cardinality(U) = n + 1
        PROVE  \E f : Ordered(f, U)
    <3>1. U # {}
      BY <2>1, <2>2, FS_EmptySet
    <3>2. PICK m : Greatest(U, m)
      BY <2>2, <3>1, HasGreatest
    <3>3. m \in U /\ \A e \in U : e = m \/ Before(e, m)
      BY <3>2 DEF Greatest
    <3> DEFINE R == U \ {m}
    <3>4. R \in SUBSET Pairs /\ IsFiniteSet(R) /\ Cardinality(R) = n
      <4>1. IsFiniteSet(R) /\ Cardinality(R) = Cardinality(U) - 1
        BY <2>2, <3>3, FS_RemoveElement, Zenon
      <4> QED
        BY <2>1, <2>2, <4>1
    <3>5. PICK g : Ordered(g, R)
      BY <2>1, <3>4
    <3>6. g \in [1 .. n -> R] /\ \A i, j \in 1 .. n : i < j => Before(g[i], g[j])
      BY <3>4, <3>5 DEF Ordered
    <3> DEFINE f == [i \in 1 .. n + 1 |-> IF i = n + 1 THEN m ELSE g[i]]
    <3>7. \A i \in 1 .. n + 1 : i = n + 1 \/ i \in 1 .. n
      BY <2>1
    <3>8. f \in [1 .. n + 1 -> U]
      BY <3>3, <3>6, <3>7
    <3>9. ASSUME NEW i \in 1 .. n + 1, NEW j \in 1 .. n + 1, i < j
          PROVE  Before(f[i], f[j])
      <4>1. i \in 1 .. n /\ i # n + 1
        BY <2>1, <3>9
      <4>2. f[i] = g[i] /\ g[i] \in U /\ g[i] # m
        BY <3>6, <4>1
      <4>3. CASE j = n + 1
        BY <3>3, <4>2, <4>3
      <4>4. CASE j # n + 1
        <5>1. j \in 1 .. n /\ f[j] = g[j]
          BY <3>7, <4>4
        <5> QED
          BY <3>6, <3>9, <4>1, <4>2, <5>1
      <4> QED
        BY <4>3, <4>4
    <3> HIDE DEF f
    <3>10. Ordered(f, U)
      BY <2>2, <3>8, <3>9 DEF Ordered
    <3> QED
      BY <3>10
  <2> QED
    BY <2>1, <2>2 DEF T
<1> HIDE DEF T
<1>3. T = Nat
  BY <1>1, <1>2, SetInduction DEF T
<1>4. Cardinality(S) \in T
  BY <1>3, FS_CardinalityType
<1> QED
  BY <1>4 DEF T

\* What in_order() returns: each element once.
LEMMA InOrder ==
    ASSUME NEW S \in SUBSET Pairs, IsFiniteSet(S)
    PROVE  /\ Cardinality(S) \in Nat
           /\ in_order(S) \in [1 .. Cardinality(S) -> S]
           /\ \A e \in S : \E i \in 1 .. Cardinality(S) : in_order(S)[i] = e
<1> DEFINE n == Cardinality(S)
           f == in_order(S)
<1>1. n \in Nat
  BY FS_CardinalityType
<1>2. f = CHOOSE g \in [1 .. n -> S] : \A i, j \in DOMAIN g : i < j => Before(g[i], g[j])
  BY DEF in_order
<1>3. \E g \in [1 .. n -> S] : \A i, j \in DOMAIN g : i < j => Before(g[i], g[j])
  <2>1. PICK g : Ordered(g, S)
    BY ListExists
  <2> QED
    BY <2>1 DEF Ordered
<1> HIDE DEF f
<1>4. f \in [1 .. n -> S] /\ \A i, j \in DOMAIN f : i < j => Before(f[i], f[j])
  BY <1>2, <1>3, Zenon
<1>5. ASSUME NEW i \in 1 .. n, NEW j \in 1 .. n, f[i] = f[j] PROVE i = j
  <2>1. f[i] \in Pairs
    BY <1>4
  <2>2. ~Before(f[i], f[j]) /\ ~Before(f[j], f[i])
    BY <1>5, <2>1, BeforeOrders
  <2>3. ~(i < j) /\ ~(j < i)
    BY <1>4, <2>2
  <2> QED
    BY <1>1, <2>3
<1>6. f \in Injection(1 .. n, S)
  BY <1>4, <1>5, Zenon DEF Injection, IsInjective
<1>7. IsFiniteSet(1 .. n) /\ Cardinality(1 .. n) = n
  <2> HIDE DEF n
  <2> QED
    BY <1>1, FS_Interval
<1>8. f \in Surjection(1 .. n, S)
  BY <1>6, <1>7, FS_Injection
<1>9. \A e \in S : \E i \in 1 .. n : f[i] = e
  BY <1>8, Zenon DEF Surjection
<1> QED
  BY <1>1, <1>4, <1>9 DEF f

\* find_secondary() finds every record with the secondary key, once.
LEMMA FindsAll ==
    ASSUME StoreInv, NEW s
    PROVE  LET found == db_find_secondary(s)
               wanted == {k \in Keys : data[k] # NoValue /\ s \in ToSet(skeys[data[k]])}
           IN  /\ found.count = Cardinality(wanted)
               /\ ToSet(found.keys) = wanted
               /\ \A i \in DOMAIN found.keys : found.values[i] = data[found.keys[i]]
<1> DEFINE E == {e \in index : e[1] = s}
           W == {k \in Keys : data[k] # NoValue /\ s \in ToSet(skeys[data[k]])}
           g == [e \in E |-> e[2]]
           f == in_order(E)
           n == Cardinality(E)
           found == db_find_secondary(s)
<1>1. /\ data \in Datas /\ index = IndexOf(data)
      /\ \A v \in Values : ToSet(skeys[v]) \subseteq Skeys
  BY SkeysOfValue DEF StoreInv
<1>2. \A e : e \in E <=> e = <<s, e[2]>> /\ e[2] \in W
  <2>1. ASSUME NEW e \in E PROVE e = <<s, e[2]>> /\ e[2] \in W
    BY <1>1 DEF IndexOf
  <2>2. ASSUME NEW e, e = <<s, e[2]>>, e[2] \in W PROVE e \in E
    <3>1. PICK k \in W : e = <<s, k>>
      BY <2>2
    <3>2. data[k] \in Values
      BY <1>1 DEF Datas
    <3>3. s \in Skeys
      BY <1>1, <3>2
    <3>4. e \in IndexOf(data)
      BY <3>1, <3>3 DEF IndexOf
    <3> QED
      BY <1>1, <3>1, <3>4
  <2> QED
    BY <2>1, <2>2
<1>3. IsFiniteSet(W)
  <2>1. W \subseteq {q \in Keys : data[q] # NoValue}
    OBVIOUS
  <2> QED
    BY <1>1, <2>1, FS_Subset DEF Datas
<1>4. g \in Bijection(E, W)
  <2>1. g \in [E -> W]
    BY <1>2
  <2>2. \A a, b \in E : g[a] = g[b] => a = b
    BY <1>2
  <2>3. \A k \in W : \E e \in E : g[e] = k
    <3>1. ASSUME NEW k \in W PROVE <<s, k>> \in E /\ g[<<s, k>>] = k
      BY <1>2
    <3> QED
      BY <3>1
  <2> HIDE DEF E, W, g
  <2> QED
    BY <2>1, <2>2, <2>3, Zenon DEF Bijection, Injection, Surjection, IsInjective
<1>5. IsFiniteSet(E) /\ Cardinality(E) = Cardinality(W)
  <2> HIDE DEF E, W, g
  <2>1. IsFiniteSet(E)
    <3>1. g \in Injection(E, W)
      BY <1>4, Zenon DEF Bijection
    <3> QED
      BY <1>3, <3>1, FS_Injection
  <2>2. ExistsBijection(E, W)
    BY <1>4, Zenon DEF ExistsBijection
  <2> QED
    BY <2>1, <2>2, FS_Bijection
<1>6. E \in SUBSET Pairs
  <2>1. Skeys \subseteq Nat
    BY EngineAssumption DEF Skeys, ToSet
  <2>2. Keys \subseteq Nat
    BY EngineAssumption
  <2> QED
    BY <1>1, <2>1, <2>2 DEF IndexOf, Pairs
<1> HIDE DEF E, W, g, n, f
<1>7. n \in Nat /\ f \in [1 .. n -> E] /\ \A e \in E : \E i \in 1 .. n : f[i] = e
  BY <1>5, <1>6, InOrder DEF f, n
<1>8. /\ found.count = Len(f)
      /\ found.keys = [i \in DOMAIN f |-> f[i][2]]
      /\ found.values = [i \in DOMAIN f |-> data[f[i][2]]]
  BY DEF db_find_secondary, f, E
<1> HIDE DEF found
<1>9. Len(f) = n
  BY <1>7
<1>10. ToSet(found.keys) = W
  <2>1. \A i \in 1 .. n : f[i][2] \in W
    BY <1>2, <1>7
  <2>2. ASSUME NEW k \in W PROVE \E i \in 1 .. n : f[i][2] = k
    <3>1. <<s, k>> \in E /\ <<s, k>>[2] = k
      BY <1>2
    <3> QED
      BY <1>7, <3>1
  <2>3. DOMAIN found.keys = 1 .. n /\ \A i \in 1 .. n : found.keys[i] = f[i][2]
    BY <1>7, <1>8
  <2> QED
    BY <2>1, <2>2, <2>3 DEF ToSet
<1>11. \A i \in DOMAIN found.keys : found.values[i] = data[found.keys[i]]
  BY <1>8
<1>12. found.count = Cardinality(W)
  BY <1>5, <1>8, <1>9 DEF n
<1> QED
  BY <1>10, <1>11, <1>12 DEF found, W

-----------------------------------------------------------------------------
(* The theorems *)

LEMMA InitInv == Init => IInv
<1> SUFFICES ASSUME Init PROVE IInv
  OBVIOUS
<1>1. StoreInv
  <2>1. data = [k \in Keys |-> NoValue] /\ index = {} /\ told = data /\ txns = <<>>
    BY DEF Init
  <2>2. data \in Datas /\ IndexOf(data) = {} /\ txns \in Seq(TxnOK)
    <3>1. {k \in Keys : data[k] # NoValue} = {}
      BY <2>1
    <3>2. data \in [Keys -> Values \cup {NoValue}]
      BY <2>1
    <3>3. IsFiniteSet({k \in Keys : data[k] # NoValue})
      BY <3>1, FS_EmptySet, Zenon
    <3>4. IndexOf(data) = {} /\ txns \in Seq(TxnOK)
      BY <2>1 DEF IndexOf
    <3> QED
      BY <3>2, <3>3, <3>4, Zenon DEF Datas
  <2> QED
    BY <2>1, <2>2 DEF StoreInv
<1>2. RegType
  BY EngineAssumption DEF Init, RegType, no_engine, EngineType, Lists, idle, PcType, no_handle, HandleType, no_cursor,
         CursorFields, Handles
<1>3. CallsInv
  BY EngineAssumption DEF Init, CallsInv, idle, NoThread, Threads
<1>4. CountInv
  BY DEF Init, CountInv, Given, Taking, idle
<1>5. ListedInv
  BY ShortSets DEF Init, ListedInv, no_handle, no_engine
<1>6. HandleInv
  BY DEF Init, HandleInv, no_handle, no_cursor
<1> QED
  BY <1>1, <1>2, <1>3, <1>4, <1>5, <1>6 DEF IInv, RegInv

LEMMA Invariance == Spec => []IInv
<1>1. IInv /\ [Next]_vars => IInv'
  BY StoreStep, RegStep DEF IInv
<1> QED
  BY InitInv, <1>1, PTL DEF Spec

\* How many transactions are unresolved, and how the program may have stopped.
Depth == Len(txns) <= MaxDepth /\ fault \in {"none", "assert", "environment"}

\* txn_begin() counts those begun, and every other operation leaves as many as
\* there are or fewer.
LEMMA DepthStep ==
    ASSUME IInv, Depth, [Next]_vars
    PROVE  Depth'
<1>1. txns \in Seq(TxnOK) /\ Len(txns) \in Nat /\ MaxDepth \in Nat
  BY LenProperties, EngineAssumption DEF IInv, StoreInv
<1>2. Len(txns') <= MaxDepth
  <2>1. CASE txns' = txns
    BY <2>1 DEF Depth
  <2>2. CASE txn_begin
    <3>1. engine_txn_new \in TxnOK
      BY DEF engine_txn_new, TxnOK, IInv, StoreInv, IndexOf
    <3>2. Len(txns') = Len(txns) + 1 /\ Len(txns) < MaxDepth
      BY <1>1, <2>2, <3>1, AppendProperties DEF txn_begin, Begun
    <3> QED
      BY <1>1, <3>2
  <2>3. CASE txns # <<>> /\ txns' = Front(txns)
    <3>1. Len(txns') = Len(txns) - 1
      BY <1>1, <2>3, FrontProps
    <3> QED
      BY <1>1, <3>1 DEF Depth
  <2>4. CASE txn_prepare
    <3>1. Len(txns) = 1 /\ txns[1] \in TxnOK /\ txns' = [txns EXCEPT ![1] = [txns[1] EXCEPT !.state = "prepared"]]
      BY <1>1, <2>4, ElementOfSeq DEF txn_prepare, Begun
    <3>2. [txns[1] EXCEPT !.state = "prepared"] \in TxnOK
      BY <3>1 DEF TxnOK
    <3>3. Len(txns') = Len(txns)
      BY <1>1, <3>1, <3>2, ExceptSeq
    <3> QED
      BY <3>3 DEF Depth
  <2>5. CASE txns' = <<>>
    BY <1>1, <2>5, EmptySeq
  <2>6. CASE UNCHANGED vars
    BY <2>1, <2>6 DEF vars
  <2>7. ASSUME NEW t \in Threads, CallAddRef(t) \/ CallCleanup(t) \/ global_lock(t) \/ Locked(t)
        PROVE  txns' = txns
    BY <2>7 DEF CallAddRef, CallCleanup, global_lock, Locked, db_engine_add_ref, db_engine_cleanup,
                ListAdd, ListRemove
  <2>8. ASSUME NEW h \in Handles, NEW b \in BOOLEAN,
               engine_open_db(h, b) \/ engine_close_db(h) \/ db_cursor_init(h)
        PROVE  txns' = txns
    BY <2>8 DEF engine_open_db, engine_close_db, db_cursor_init
  <2>9. ASSUME \/ db_engine_init \/ txn_discard \/ db_cursor_cleanup \/ db_associate
               \/ \E flag \in Flags : db_cursor_op(flag)
               \/ \E k \in Keys : db_cursor_move_to(k)
        PROVE  txns' = txns
    <3>1. CASE db_engine_init
      BY <3>1 DEF db_engine_init
    <3>2. CASE txn_discard \/ db_associate
      BY <3>2 DEF txn_discard, db_associate
    <3>3. CASE db_cursor_cleanup
      BY <3>3 DEF db_cursor_cleanup
    <3>4. CASE \E flag \in Flags : db_cursor_op(flag)
      BY <3>4 DEF db_cursor_op
    <3>5. CASE \E k \in Keys : db_cursor_move_to(k)
      BY <3>5 DEF db_cursor_move_to
    <3> QED
      BY <2>9, <3>1, <3>2, <3>3, <3>4, <3>5
  <2>10. ASSUME NEW k \in Keys, NEW v \in Values, NEW ok \in BOOLEAN,
                db_insert(k, v, ok) \/ db_update(k, v, ok)
         PROVE  txns' = txns
    BY <2>10 DEF db_insert, db_update
  <2>11. ASSUME NEW k \in Keys, NEW ok \in BOOLEAN, db_del(k, ok) PROVE txns' = txns
    BY <2>11 DEF db_del
  <2>12. ASSUME NEW v \in Values, NEW ok \in BOOLEAN, db_cursor_set(v, ok) PROVE txns' = txns
    BY <2>12 DEF db_cursor_set
  <2>13. ASSUME NEW ok \in BOOLEAN, db_cursor_del(ok) PROVE txns' = txns
    BY <2>13 DEF db_cursor_del
  <2>14. ASSUME \/ txn_abort \/ \E ok \in BOOLEAN : txn_commit(ok)
         PROVE  txns # <<>> /\ txns' = Front(txns)
    BY <2>14 DEF txn_abort, txn_commit
  <2>15. Crash => txns' = <<>>
    BY DEF Crash
  <2> QED
    BY <2>1, <2>2, <2>3, <2>4, <2>5, <2>6, <2>7, <2>8, <2>9, <2>10, <2>11, <2>12, <2>13, <2>14, <2>15
       DEF Next
<1>3. fault' \in {"none", "assert", "environment"}
  <2>1. fault' = fault \/ fault' = "none" \/ fault' = "assert" \/ fault' = "environment"
    BY Zenon DEF Next, vars, db_engine_init, Crash, CallAddRef, CallCleanup, global_lock, Locked,
          db_engine_add_ref, db_engine_cleanup, ListAdd, ListRemove, engine_open_db, engine_close_db,
          db_cursor_init, txn_begin, txn_abort, txn_prepare, txn_discard, db_engine_txn_cleanup,
          txn_commit, db_cursor_del, db_associate, db_del, db_insert, db_update, db_cursor_op,
          db_cursor_move_to, db_cursor_set, db_cursor_cleanup, Write
  <2> QED
    BY <2>1 DEF Depth
<1> QED
  BY <1>2, <1>3 DEF Depth

\* Every variable of the engine keeps its type, the list of databases never
\* outgrows the room db_engine_resize() gave it, and transactions nest no
\* deeper than the bound.
THEOREM TypeCorrect == Spec => []TypeOK
<1>1. IInv /\ Depth => TypeOK
  <2> SUFFICES ASSUME IInv, Depth PROVE TypeOK
    OBVIOUS
  <2>1. engine \in EngineType /\ engine.databases \in Lists
    BY DEF IInv, RegInv, RegType, EngineType
  <2>2. engine.databases \in Seq(Handles) /\ Len(engine.databases) <= 2 /\ Len(engine.databases) \in Nat
    BY <2>1, ListProps
  <2>3. Len(engine.databases) <= engine.max_size
    <3>1. CASE engine.priv
      <4>1. engine.max_size = AllocSize
        BY <3>1 DEF IInv, RegInv, ListedInv
      <4> QED
        BY <4>1, <2>2, EngineAssumption
    <3>2. CASE ~engine.priv
      <4>1. engine.databases = <<>> /\ engine.max_size \in Nat
        BY <2>1, <3>2 DEF IInv, RegInv, ListedInv, EngineType
      <4>2. Len(<<>>) = 0
        OBVIOUS
      <4> QED
        BY <4>1, <4>2
    <3> QED
      BY <3>1, <3>2
  <2>4. txns \in Seq(TxnType)
    <3>1. TxnOK \subseteq TxnType
      BY DEF TxnOK, TxnType, Datas, Contents
    <3> QED
      BY <3>1, SeqMonotonic DEF IInv, StoreInv
  <2>5. data \in Contents /\ told \in Contents /\ index \subseteq Skeys \X Keys
    BY DEF IInv, StoreInv, Datas, Contents, IndexOf
  <2>6. /\ pc \in [Threads -> PcType] /\ held \in [Threads -> 0 .. MaxRefs] /\ lock \in Threads \cup {NoThread}
        /\ db \in [Handles -> HandleType] /\ cursor.priv \in BOOLEAN /\ cursor.db \in Handles
        /\ engine.priv \in BOOLEAN /\ engine.refs_count \in Nat
    BY DEF IInv, RegInv, RegType, EngineType
  <2> QED
    BY <2>2, <2>3, <2>4, <2>5, <2>6 DEF Depth, TypeOK
<1>2. Init => Depth
  BY EngineAssumption DEF Init, Depth
<1> QED
  BY Invariance, <1>1, <1>2, DepthStep, PTL DEF Spec

\* What the return codes said about the primary is what it holds, at any
\* depth of transactions and after any number of aborts and crashes.
THEOREM ReportsHold == Spec => []ReportsAreTrue
<1>1. IInv => ReportsAreTrue
  BY DEF IInv, StoreInv, ReportsAreTrue
<1> QED
  BY Invariance, <1>1, PTL

\* The secondary index never differs from what secondary_db_get_key() gives
\* for the records of the primary.
THEOREM SecondaryHolds == Spec => []SecondaryInStep
<1>1. IInv => SecondaryInStep
  BY IndexIsUnion DEF IInv, StoreInv, SecondaryInStep
<1> QED
  BY Invariance, <1>1, PTL

\* db_find_secondary() returns every record with the secondary key, each once,
\* and counts them, for any number of them, in a transaction or after its abort.
THEOREM FindsHold == Spec => []FindsEveryRecord
<1>1. IInv => FindsEveryRecord
  BY FindsAll, Zenon DEF IInv, FindsEveryRecord
<1> QED
  BY Invariance, <1>1, PTL

\* The engine's list names the open databases, each once, for any number of
\* threads that take and drop references meanwhile.
THEOREM ListHolds == Spec => []ListNamesOpenDatabases
<1>1. IInv => ListNamesOpenDatabases
  <2> SUFFICES ASSUME IInv PROVE ListNamesOpenDatabases
    OBVIOUS
  <2>1. Len(engine.databases) = Cardinality(ToSet(engine.databases))
    BY ListProps DEF IInv, RegInv, RegType, EngineType
  <2> QED
    BY <2>1 DEF IInv, RegInv, ListedInv, ListNamesOpenDatabases
<1> QED
  BY Invariance, <1>1, PTL

\* No interleaving of db_engine_add_ref() and db_engine_cleanup() frees the
\* engine while a thread has a reference.
THEOREM ReferencesHold == Spec => []ReferencesKeepEngine
<1>1. IInv => ReferencesKeepEngine
  <2> SUFFICES ASSUME IInv, Given PROVE engine.priv /\ engine.refs_count >= TotalRefs
    BY DEF ReferencesKeepEngine
  <2>1. engine.priv /\ engine.refs_count = TotalRefs + Cardinality(Dropping)
    BY DEF IInv, RegInv, CountInv
  <2> QED
    BY <2>1, TokensFinite
<1> QED
  BY Invariance, <1>1, PTL

\* A cursor that has moved shows the record it moved to.
THEOREM CursorHolds == Spec => CursorShowsRecord
<1> DEFINE Shows == (cursor'.rc = 0 /\ cursor'.pos # cursor.pos) =>
                       /\ cursor'.key = cursor'.pos[2]
                       /\ cursor'.value = data'[cursor'.pos[2]]
                       /\ cursor'.db = "heights" => cursor'.skey = cursor'.pos[1]
<1>1. IInv /\ [Next]_vars => [Shows]_vars
  <2> SUFFICES ASSUME IInv, Next, cursor'.rc = 0, cursor'.pos # cursor.pos
               PROVE  /\ cursor'.key = cursor'.pos[2]
                      /\ cursor'.value = data'[cursor'.pos[2]]
                      /\ cursor'.db = "heights" => cursor'.skey = cursor'.pos[1]
    OBVIOUS
  <2>1. DOMAIN cursor = CursorFields
    BY DEF IInv, RegInv, RegType
  <2>2. cursor' # cursor /\ cursor' # no_cursor
    BY DEF no_cursor
  <2>3. PICK flag \in Flags : db_cursor_op(flag)
    <3>1. ASSUME NEW h \in Handles PROVE ~db_cursor_init(h)
      <4> DEFINE c == [no_cursor EXCEPT !.priv = TRUE, !.db = h]
      <4>1. c.rc = -1
        BY DEF no_cursor
      <4>2. db_cursor_init(h) => cursor' = c
        BY DEF db_cursor_init
      <4> HIDE DEF c
      <4> QED
        BY <4>1, <4>2
    <3>2. \A k \in Keys : ~db_cursor_move_to(k)
      BY <2>1 DEF db_cursor_move_to, CursorFields
    <3>3. \A v \in Values, ok \in BOOLEAN : ~db_cursor_set(v, ok)
      BY <2>1 DEF db_cursor_set, CursorFields
    <3>4. \A t \in Threads : ~(CallAddRef(t) \/ CallCleanup(t) \/ global_lock(t) \/ Locked(t))
      BY <2>2 DEF CallAddRef, CallCleanup, global_lock, Locked, db_engine_add_ref, db_engine_cleanup,
                  ListAdd, ListRemove
    <3>5. /\ \A h \in Handles, b \in BOOLEAN : ~engine_open_db(h, b)
          /\ \A h \in Handles : ~engine_close_db(h)
          /\ ~db_engine_init /\ ~Crash /\ ~db_associate /\ ~db_cursor_cleanup
      BY <2>2 DEF engine_open_db, engine_close_db, db_engine_init, Crash, db_associate, db_cursor_cleanup
    <3>6. /\ ~txn_begin /\ ~txn_abort /\ ~txn_prepare /\ ~txn_discard
          /\ \A ok \in BOOLEAN : ~txn_commit(ok) /\ ~db_cursor_del(ok)
          /\ \A k \in Keys, ok \in BOOLEAN : ~db_del(k, ok)
          /\ \A k \in Keys, v \in Values, ok \in BOOLEAN : ~db_insert(k, v, ok) /\ ~db_update(k, v, ok)
      BY <2>2 DEF txn_begin, txn_abort, txn_prepare, txn_discard, txn_commit, db_cursor_del, db_del,
                  db_insert, db_update
    <3> QED
      BY <3>1, <3>2, <3>3, <3>4, <3>5, <3>6 DEF Next
  <2>4. cursor.priv /\ data' = data
    BY <2>3 DEF db_cursor_op, CursorMay, stored
  <2>5. cursor.db \in Handles /\ (db[cursor.db].multiple <=> cursor.db = "heights")
    BY <2>4 DEF IInv, RegInv, RegType, HandleInv
  <2>6. PICK e : cursor' = filled(cursor, e)
    <3>1. cursor' # [cursor EXCEPT !.rc = -1]
      BY <2>1 DEF CursorFields
    <3> QED
      BY <2>3, <3>1 DEF db_cursor_op
  <2> QED
    BY <2>1, <2>4, <2>5, <2>6 DEF filled, CursorFields
<1> QED
  BY Invariance, <1>1, PTL DEF Spec, CursorShowsRecord
=============================================================================
