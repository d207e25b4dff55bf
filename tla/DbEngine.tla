------------------------------ MODULE DbEngine ------------------------------
(***************************************************************************)
(* The storage engine (src/db_engine.c): one process-wide engine with a    *)
(* reference count and a list of open databases, transactions, a primary   *)
(* database ("blocks") with a secondary index on it ("heights", opened     *)
(* with duplicates), and cursors over both.                                *)
(*                                                                         *)
(* Berkeley DB is external: a write through it happens or is refused (for  *)
(* any reason of its own), transactions nest, what is not committed is     *)
(* undone by an abort and by the recovery DB_RECOVER asks for at the next  *)
(* start, and a secondary is kept by calling secondary_db_get_key() for    *)
(* every record written to its primary.  Main is the thread that uses the  *)
(* databases, the others only take and drop references.                    *)
(***************************************************************************)
EXTENDS Integers, Sequences, FiniteSets, SequencesExt, FiniteSetsExt

CONSTANTS
    Main, Others,  \* the threads of the program
    Keys,          \* keys of the primary, positive integers in their order
    Values,        \* values a caller may store; those of a database have one size
    skeys,         \* the associate callback: the array of secondary keys of a value
    AllocSize,     \* DB_ENGINE_ALLOC_SIZE
    MaxRefs,       \* bound: references held at a time
    MaxDepth,      \* bound: transactions begun and not resolved
    CursorDepth    \* bound: transactions around an open cursor

Threads == {Main} \cup Others
Handles == {"blocks", "heights"}
NoValue == 0
NoPos == <<0, 0>>

ASSUME EngineAssumption ==
    /\ Main \notin Others /\ IsFiniteSet(Others) /\ "nobody" \notin {Main} \cup Others
    /\ Keys \subseteq Nat \ {0} /\ Values \subseteq Nat \ {0}
    /\ skeys \in [Values -> Seq(Nat \ {0})]
    /\ AllocSize \in Nat /\ AllocSize >= 2      \* 64 in the code, and two databases
    /\ MaxRefs \in Nat \ {0} /\ MaxDepth \in Nat /\ CursorDepth \in Nat

Skeys == UNION {ToSet(skeys[v]) : v \in Values}

VARIABLES
    engine,        \* g_db_engine: does priv exist, refs_count, databases, max_size
    lock,          \* who holds g_mutex
    pc,            \* per thread: the locked operation it is in and how far it is
    held,          \* per thread: the references it has and has not given up
    db,            \* per database: its db_handle
    data,          \* the primary: key -> value
    index,         \* the secondary: pairs <<secondary key, primary key>>
    told,          \* the primary as the return codes describe it to the caller
    txns,          \* unresolved transactions, the innermost last
    cursor,        \* the db_cursor Main uses
    fault          \* an assertion failed: the program stopped

vars == <<engine, lock, pc, held, db, data, index, told, txns, cursor, fault>>
stored == <<data, index, told>>
registry == <<engine, lock, pc, held>>

no_engine == [priv |-> FALSE, refs_count |-> 0, databases |-> <<>>, max_size |-> 0]
no_handle == [state |-> "none", multiple |-> FALSE, no_overwrite |-> FALSE, associate_func |-> FALSE]
no_cursor == [priv |-> FALSE, db |-> "blocks", pos |-> NoPos, skey |-> 0, key |-> 0, value |-> 0,
              rc |-> -1]
idle == [op |-> "none", db |-> "blocks", at |-> "idle"]
NoThread == "nobody"

-----------------------------------------------------------------------------
(* The list of open databases, always changed under g_mutex.               *)

\* mutant: the size is rounded down
db_engine_resize_down(e, size) ==
    LET new_size == IF size <= 0 THEN 0 ELSE (size \div AllocSize) * AllocSize
    IN  IF new_size < e.max_size THEN e ELSE [e EXCEPT !.max_size = new_size]

\* db_engine_resize(): room in multiples of AllocSize; the new room is
\* cleared at the start of the array, whatever is there.
db_engine_resize(e, size) ==
    LET new_size == IF size <= 0 THEN AllocSize
                    ELSE ((size + AllocSize - 1) \div AllocSize) * AllocSize
        wiped == new_size - e.max_size
    IN  IF new_size < e.max_size THEN e
        ELSE [e EXCEPT !.max_size = new_size,
                       !.databases = [i \in DOMAIN @ |-> IF i <= wiped THEN "NULL" ELSE @[i]]]

list_find(e, h) == {i \in DOMAIN e.databases : e.databases[i] = h}

engine_list_add(e, h) ==
    IF list_find(e, h) # {} THEN e
    ELSE LET bigger == db_engine_resize(e, Len(e.databases) + 1)
         IN  [bigger EXCEPT !.databases = Append(@, h)]

\* mutant: the last entry is dropped instead of moved
engine_list_remove_last(e, h) ==
    IF list_find(e, h) = {} THEN e ELSE [e EXCEPT !.databases = Front(@)]

\* the last entry takes the place of the one removed
engine_list_remove(e, h) ==
    IF list_find(e, h) = {} THEN e
    ELSE LET moved == [e.databases EXCEPT ![Min(list_find(e, h))] = Last(e.databases)]
         IN  [e EXCEPT !.databases = Front(moved)]

\* db_engine_private_new(): an engine without references or databases
db_engine_private_new == db_engine_resize([no_engine EXCEPT !.priv = TRUE], 0)

\* db_handle_init(): a handle with a DB of its own; db_private_free() ends it
db_handle_init == [no_handle EXCEPT !.state = "open"]
db_private_free(d) == no_handle

\* db_open(): with db_flags_dup_sort find() looks for several records
db_open(d, dup_sort) == [d EXCEPT !.multiple = dup_sort]

\* db_engine_private_free(): the handles still in the list are closed and
\* freed.  A handle close_db() took out of it is leaked: nobody has it.
db_engine_private_free(dbs) ==
    [h \in Handles |-> IF h \in ToSet(engine.databases) \/ dbs[h].state = "closed"
                       THEN db_private_free(dbs[h]) ELSE dbs[h]]

\* mutant: a reference is returned and not counted
db_engine_add_ref_uncounted(t) ==
    /\ lock' = NoThread
    /\ held' = IF engine.priv THEN [held EXCEPT ![t] = @ + 1] ELSE held
    /\ UNCHANGED <<engine, db, stored, txns, cursor, fault>>

\* db_engine_add_ref(), after global_lock()
db_engine_add_ref(t) ==
    /\ lock' = NoThread
    /\ IF engine.priv
       THEN /\ engine' = [engine EXCEPT !.refs_count = @ + 1]
            /\ held' = [held EXCEPT ![t] = @ + 1]
       ELSE UNCHANGED <<engine, held>>
    /\ UNCHANGED <<db, stored, txns, cursor, fault>>

\* mutant: the early return keeps the lock
db_engine_cleanup_locked(t) ==
    /\ lock' = IF engine.priv THEN NoThread ELSE t
    /\ IF ~engine.priv \/ engine.refs_count = 0 THEN UNCHANGED <<engine, db>>
       ELSE IF engine.refs_count > 1
       THEN engine' = [engine EXCEPT !.refs_count = @ - 1] /\ UNCHANGED db
       ELSE engine' = no_engine /\ db' = db_engine_private_free(db)
    /\ UNCHANGED <<held, stored, txns, cursor, fault>>

\* db_engine_cleanup(), after global_lock()
db_engine_cleanup(t) ==
    /\ lock' = NoThread
    /\ IF ~engine.priv \/ engine.refs_count = 0 THEN UNCHANGED <<engine, db>>
       ELSE IF engine.refs_count > 1
       THEN engine' = [engine EXCEPT !.refs_count = @ - 1] /\ UNCHANGED db
       ELSE engine' = no_engine /\ db' = db_engine_private_free(db)
    /\ UNCHANGED <<held, stored, txns, cursor, fault>>

\* engine_list_add() and engine_list_remove(), after global_lock()
ListAdd(h) ==
    /\ lock' = NoThread
    /\ engine' = engine_list_add(engine, h)
    /\ db' = [db EXCEPT ![h].state = "listed"]
    /\ UNCHANGED <<held, stored, txns, cursor, fault>>

ListRemove(h) ==
    /\ lock' = NoThread
    /\ engine' = engine_list_remove(engine, h)
    /\ db' = [db EXCEPT ![h].state = "closed"]
    /\ UNCHANGED <<held, stored, txns, cursor, fault>>

-----------------------------------------------------------------------------
(* Threads call the operations that need g_mutex.                          *)

Given == \E t \in Threads : held[t] > 0
TotalRefs == Cardinality({r \in Threads \X (1..MaxRefs) : r[2] <= held[r[1]]})

Call(t, op, h) == pc' = [pc EXCEPT ![t] = [op |-> op, db |-> h, at |-> "wait"]]
Idle(t) == pc[t].at = "idle"
\* bound: references change hands between transactions and without a cursor
Quiet == txns = <<>> /\ ~cursor.priv /\ fault = "none"

\* db_engine_init(): the program calls it before it starts its threads.
\* set_home() opens the environment and recovers it.
db_engine_init ==
    /\ ~engine.priv /\ \A t \in Threads : Idle(t) /\ held[t] = 0
    /\ engine' = [db_engine_private_new EXCEPT !.refs_count = 1]
    /\ held' = [held EXCEPT ![Main] = 1]
    /\ UNCHANGED <<lock, pc, db, stored, txns, cursor, fault>>

\* A thread takes a reference while some thread has one.
CallAddRef(t) ==
    /\ Idle(t) /\ Quiet /\ TotalRefs < MaxRefs /\ Given
    /\ Call(t, "add_ref", "blocks")
    /\ UNCHANGED <<engine, lock, held, db, stored, txns, cursor, fault>>

\* A thread drops its reference; once all are given up and none is being
\* taken, a superfluous call (the test program makes one) may come as well.
\* Without priv the call returns before the lock.
CallCleanup(t) ==
    /\ Idle(t) /\ Quiet /\ engine.priv
    /\ held[t] > 0 \/ (~Given /\ \A o \in Threads : pc[o].op # "add_ref")
    /\ held' = [held EXCEPT ![t] = IF @ > 0 THEN @ - 1 ELSE 0]
    /\ Call(t, "cleanup", "blocks")
    /\ UNCHANGED <<engine, lock, db, stored, txns, cursor, fault>>

MainMay == Idle(Main) /\ held[Main] > 0 /\ fault = "none"

\* engine_open_db(): db_handle_init(), db_open(), then the list; the caller
\* chooses db_record_flags_no_overwrite for the primary
engine_open_db(h, no_overwrite) ==
    /\ MainMay /\ Quiet
    /\ db[h].state = "none"
    /\ db' = [db EXCEPT ![h] = [db_open(db_handle_init, h = "heights") EXCEPT
                                    !.no_overwrite = no_overwrite /\ h = "blocks"]]
    /\ Call(Main, "list_add", h)
    /\ UNCHANGED <<engine, lock, held, stored, txns, cursor, fault>>

\* engine_close_db(): db_close() does nothing, the handle leaves the list
engine_close_db(h) ==
    /\ MainMay /\ Quiet
    /\ db[h].state = "listed"
    /\ Call(Main, "list_remove", h)
    /\ UNCHANGED <<engine, lock, held, db, stored, txns, cursor, fault>>

global_lock(t) ==
    /\ pc[t].at = "wait" /\ lock = NoThread
    /\ lock' = t
    /\ pc' = [pc EXCEPT ![t].at = "locked"]
    /\ UNCHANGED <<engine, held, db, stored, txns, cursor, fault>>

Locked(t) ==
    /\ pc[t].at = "locked" /\ lock = t
    /\ pc' = [pc EXCEPT ![t] = idle]
    /\ \/ pc[t].op = "add_ref" /\ db_engine_add_ref(t)
       \/ pc[t].op = "cleanup" /\ db_engine_cleanup(t)
       \/ pc[t].op = "list_add" /\ ListAdd(pc[t].db)
       \/ pc[t].op = "list_remove" /\ ListRemove(pc[t].db)

-----------------------------------------------------------------------------
(* Transactions.                                                           *)

Begun == Len(txns)
InTxn == txns # <<>> => Last(txns).state = "active"

\* engine_txn_new(): a transaction remembers what an abort goes back to
engine_txn_new == [state |-> "active", data |-> data, index |-> index, told |-> told]

\* txn_begin() inside the innermost one
txn_begin ==
    /\ MainMay /\ Begun < MaxDepth /\ InTxn /\ ~cursor.priv
    /\ db["blocks"].state = "listed"
    /\ txns' = Append(txns, engine_txn_new)
    /\ UNCHANGED <<registry, db, stored, cursor, fault>>

Undo(t) == data' = t.data /\ index' = t.index

\* txn_commit(), when Berkeley DB commits and when it fails to
txn_commit(ok) ==
    /\ MainMay /\ txns # <<>> /\ ~cursor.priv
    /\ txns' = Front(txns)
    /\ IF ok THEN UNCHANGED stored ELSE Undo(Last(txns)) /\ told' = Last(txns).told
    /\ UNCHANGED <<registry, db, cursor, fault>>

txn_abort ==
    /\ MainMay /\ txns # <<>> /\ ~cursor.priv
    /\ txns' = Front(txns)
    /\ Undo(Last(txns)) /\ told' = Last(txns).told
    /\ UNCHANGED <<registry, db, cursor, fault>>

txn_prepare ==
    /\ MainMay /\ Begun = 1 /\ InTxn /\ ~cursor.priv
    /\ txns' = [txns EXCEPT ![1].state = "prepared"]
    /\ UNCHANGED <<registry, db, stored, cursor, fault>>

\* db_engine_txn_cleanup() of a transaction that is not resolved: Berkeley DB
\* discards only those recovery returned, refuses, and the environment has to
\* be recovered: the program cannot go on.
db_engine_txn_cleanup == fault' = "environment"

\* txn_discard(), and engine_txn_free() of a transaction not resolved
txn_discard ==
    /\ MainMay /\ txns # <<>> /\ ~cursor.priv
    /\ db_engine_txn_cleanup
    /\ UNCHANGED <<registry, db, stored, txns, cursor>>

-----------------------------------------------------------------------------
(* Records.                                                                *)

\* mutant: only the first of several keys is returned
secondary_db_get_key_first(v) == IF skeys[v] = <<>> THEN {} ELSE {Head(skeys[v])}

\* secondary_db_get_key(): the keys of the callback, none when it returns
\* less than one.  It looks its own handle up in the engine's list.
secondary_db_get_key(v) == ToSet(skeys[v])

entries(k, v) == IF v = NoValue THEN {} ELSE secondary_db_get_key(v) \X {k}

\* db_engine_find_db() and the assertions on what it finds
callback_asserts == "heights" \notin ToSet(engine.databases) \/ "NULL" \in ToSet(engine.databases)

\* What a write of v to k through Berkeley DB leaves, when it is done.
put(k, v) ==
    /\ data' = [data EXCEPT ![k] = v]
    /\ index' = (index \ entries(k, data[k])) \cup entries(k, v)
    /\ told' = [told EXCEPT ![k] = v]

\* the caller sees a return code other than 0
refused == UNCHANGED stored

Writable ==
    /\ MainMay /\ InTxn
    /\ db["blocks"].state = "listed" /\ db["heights"].associate_func

\* a record is written when Berkeley DB does it and the callback gives keys
Write(k, v, ok) ==
    IF callback_asserts
    THEN fault' = "assert" /\ UNCHANGED stored
    ELSE /\ UNCHANGED fault
         /\ IF ok /\ (v # NoValue => secondary_db_get_key(v) # {}) THEN put(k, v) ELSE refused

\* db_associate(): the secondary is filled when it is empty.  The program
\* associates before it writes.
db_associate ==
    /\ MainMay /\ txns = <<>> /\ ~cursor.priv
    /\ \A h \in Handles : db[h].state = "listed"
    /\ ~db["heights"].associate_func
    /\ db' = [db EXCEPT !["heights"].associate_func = TRUE]
    /\ index' = IF index = {} THEN UNION {entries(k, data[k]) : k \in Keys} ELSE index
    /\ UNCHANGED <<registry, data, told, txns, cursor, fault>>

db_insert(k, v, ok) ==
    /\ Writable
    /\ IF db["blocks"].no_overwrite /\ data[k] # NoValue
       THEN refused /\ UNCHANGED fault
       ELSE Write(k, v, ok)
    /\ UNCHANGED <<registry, db, txns, cursor>>

\* mutant: the code of cursor->close() is returned
db_update_closes(k, v, ok) ==
    /\ Writable
    /\ IF data[k] = NoValue THEN refused /\ UNCHANGED fault
       ELSE IF ok THEN Write(k, v, ok)
       ELSE told' = [told EXCEPT ![k] = v] /\ UNCHANGED <<data, index, fault>>
    /\ UNCHANGED <<registry, db, txns, cursor>>

\* db_update(): a cursor is set to the record, which is then overwritten
db_update(k, v, ok) ==
    /\ Writable
    /\ IF data[k] = NoValue THEN refused /\ UNCHANGED fault ELSE Write(k, v, ok)
    /\ UNCHANGED <<registry, db, txns, cursor>>

db_del(k, ok) ==
    /\ Writable
    /\ IF data[k] = NoValue THEN refused /\ UNCHANGED fault ELSE Write(k, NoValue, ok)
    /\ UNCHANGED <<registry, db, txns, cursor>>

Before(a, b) == a[1] < b[1] \/ (a[1] = b[1] /\ a[2] < b[2])
\* the entries S in the order in which DB_NEXT_DUP returns them
in_order(S) ==
    CHOOSE f \in [1 .. Cardinality(S) -> S] : \A i, j \in DOMAIN f : i < j => Before(f[i], f[j])

\* db_find() on a database without duplicates reports one record, found or
\* not; values holds the record when there is one.
db_find(k) ==
    [count |-> 1, values |-> IF data[k] = NoValue THEN <<>> ELSE <<data[k]>>]

\* mutant: no DB_NEXT_DUP
db_find_secondary_one(s) ==
    LET all == in_order({e \in index : e[1] = s})
        found == SubSeq(all, 1, IF all = <<>> THEN 0 ELSE 1)
    IN  [count |-> Len(found),
         keys |-> [i \in DOMAIN found |-> found[i][2]],
         values |-> [i \in DOMAIN found |-> data[found[i][2]]]]

\* db_find_secondary() with duplicates: DB_SET, then DB_NEXT_DUP to the end;
\* db_find() on such a database is this without the primary keys.
db_find_secondary(s) ==
    LET found == in_order({e \in index : e[1] = s})
    IN  [count |-> Len(found),
         keys |-> [i \in DOMAIN found |-> found[i][2]],
         values |-> [i \in DOMAIN found |-> data[found[i][2]]]]

-----------------------------------------------------------------------------
(* Cursors.                                                                *)

\* the records of a database in its order: <<its key, primary key>>
records(h) == IF h = "blocks" THEN {<<k, k>> : k \in {q \in Keys : data[q] # NoValue}} ELSE index

after(h, p) == {e \in records(h) : Before(p, e)}
before(h, p) == {e \in records(h) : Before(e, p)}
least(set) == IF set = {} THEN {} ELSE {CHOOSE e \in set : \A o \in set : o = e \/ Before(e, o)}
greatest(set) == IF set = {} THEN {} ELSE {CHOOSE e \in set : \A o \in set : o = e \/ Before(o, e)}

\* where DBC->get() goes for each flag: a set of at most one record
target(h, p, flag) ==
    CASE flag = "DB_FIRST" -> least(records(h))
      [] flag = "DB_LAST" -> greatest(records(h))
      [] flag = "DB_NEXT" -> least(after(h, p))
      [] flag = "DB_PREV" -> greatest(IF p = NoPos THEN records(h) ELSE before(h, p))
      [] flag = "DB_NEXT_DUP" -> least({e \in after(h, p) : p # NoPos /\ e[1] = p[1]})
      [] flag = "DB_PREV_DUP" -> greatest({e \in before(h, p) : p # NoPos /\ e[1] = p[1]})

CursorMay == MainMay /\ cursor.priv /\ InTxn

db_cursor_init(h) ==
    /\ MainMay /\ InTxn /\ ~cursor.priv
    /\ Begun <= CursorDepth
    /\ db[h].state = "listed" /\ db["heights"].associate_func
    /\ cursor' = [no_cursor EXCEPT !.priv = TRUE, !.db = h]
    /\ UNCHANGED <<registry, db, stored, txns, fault>>

\* mutant: a buffer that is there is taken for the result
filled_once(c, e) ==
    [c EXCEPT !.pos = e, !.rc = 0,
              !.skey = IF db[c.db].multiple THEN e[1] ELSE @,
              !.key = IF @ = 0 THEN e[2] ELSE @,
              !.value = IF @ = 0 THEN data[e[2]] ELSE @]

\* The buffers after a read of record e: the first read allocates them
\* (DB_DBT_MALLOC), a later one writes into them (DB_DBT_USERMEM).
filled(c, e) ==
    [c EXCEPT !.pos = e, !.rc = 0,
              !.skey = IF db[c.db].multiple THEN e[1] ELSE @,
              !.key = e[2],
              !.value = data[e[2]]]

db_cursor_op(flag) ==
    LET e == target(cursor.db, cursor.pos, flag)
    IN  /\ CursorMay
        /\ cursor' = IF e = {} THEN [cursor EXCEPT !.rc = -1]
                     ELSE filled(cursor, CHOOSE r \in e : TRUE)
        /\ UNCHANGED <<registry, db, stored, txns, fault>>

\* db_cursor_move_to(): the key goes to the buffer and the lookup is made
\* with a DBT whose size is 0, which is no key of the database.
db_cursor_move_to(k) ==
    /\ CursorMay
    /\ cursor' = IF db[cursor.db].multiple THEN [cursor EXCEPT !.skey = k, !.rc = -1]
                 ELSE [cursor EXCEPT !.key = k, !.rc = -1]
    /\ UNCHANGED <<registry, db, stored, txns, fault>>

OnRecord == cursor.pos \in records(cursor.db)

\* db_cursor_set(): the caller has put v into the value buffer.  Berkeley DB
\* does not write through a secondary.
db_cursor_set(v, ok) ==
    /\ CursorMay /\ cursor.rc = 0            \* the caller has just read a record
    /\ cursor' = [cursor EXCEPT !.value = v]
    /\ IF OnRecord /\ cursor.db = "blocks" THEN Write(cursor.pos[2], v, ok)
       ELSE refused /\ UNCHANGED fault
    /\ UNCHANGED <<registry, db, txns>>

db_cursor_del(ok) ==
    /\ CursorMay
    /\ IF OnRecord THEN Write(cursor.pos[2], NoValue, ok) ELSE refused /\ UNCHANGED fault
    /\ UNCHANGED <<registry, db, txns, cursor>>

db_cursor_cleanup ==
    /\ CursorMay
    /\ cursor' = no_cursor
    /\ UNCHANGED <<registry, db, stored, txns, fault>>

-----------------------------------------------------------------------------
\* The process dies; the next db_engine_init() runs recovery, which undoes
\* what the outermost open transaction had done.
Crash ==
    /\ engine.priv
    /\ engine' = no_engine /\ lock' = NoThread
    /\ pc' = [t \in Threads |-> idle] /\ held' = [t \in Threads |-> 0]
    /\ db' = [h \in Handles |-> no_handle]
    /\ IF txns = <<>> THEN UNCHANGED stored ELSE Undo(txns[1]) /\ told' = txns[1].told
    /\ txns' = <<>> /\ cursor' = no_cursor /\ fault' = "none"

Init ==
    /\ engine = no_engine /\ lock = NoThread
    /\ pc = [t \in Threads |-> idle] /\ held = [t \in Threads |-> 0]
    /\ db = [h \in Handles |-> no_handle]
    /\ data = [k \in Keys |-> NoValue] /\ index = {} /\ told = data
    /\ txns = <<>> /\ cursor = no_cursor /\ fault = "none"

Flags == {"DB_FIRST", "DB_LAST", "DB_NEXT", "DB_PREV", "DB_NEXT_DUP", "DB_PREV_DUP"}

Next ==
    \/ db_engine_init \/ Crash
    \/ \E t \in Threads : CallAddRef(t) \/ CallCleanup(t) \/ global_lock(t) \/ Locked(t)
    \/ \E h \in Handles, b \in BOOLEAN : engine_open_db(h, b)
    \/ \E h \in Handles : engine_close_db(h) \/ db_cursor_init(h)
    \/ txn_begin \/ txn_abort \/ txn_prepare \/ txn_discard
    \/ \E ok \in BOOLEAN : txn_commit(ok) \/ db_cursor_del(ok)
    \/ db_associate
    \/ \E k \in Keys, ok \in BOOLEAN : db_del(k, ok)
    \/ \E k \in Keys, v \in Values, ok \in BOOLEAN : db_insert(k, v, ok) \/ db_update(k, v, ok)
    \/ \E flag \in Flags : db_cursor_op(flag)
    \/ \E k \in Keys : db_cursor_move_to(k)
    \/ \E v \in Values, ok \in BOOLEAN : db_cursor_set(v, ok)
    \/ db_cursor_cleanup

\* A thread that has the lock goes on.
Spec == Init /\ [][Next]_vars /\ \A t \in Threads : WF_vars(Locked(t))

-----------------------------------------------------------------------------
(* Properties.                                                             *)

PcType == [op : {"none", "add_ref", "cleanup", "list_add", "list_remove"}, db : Handles,
           at : {"idle", "wait", "locked"}]
HandleType == [state : {"none", "open", "listed", "closed"}, multiple : BOOLEAN,
               no_overwrite : BOOLEAN, associate_func : BOOLEAN]
Contents == [Keys -> Values \cup {NoValue}]
TxnType == [state : {"active", "prepared"}, data : Contents, index : SUBSET (Skeys \X Keys),
            told : Contents]

\* The type of every variable, but for the buffers of the cursor; the list of
\* the engine never holds more than max_size, and no more transactions are
\* unresolved than MaxDepth allows to begin.
TypeOK ==
    /\ engine.priv \in BOOLEAN /\ engine.refs_count \in Nat
    /\ engine.databases \in Seq(Handles) /\ Len(engine.databases) <= engine.max_size
    /\ lock \in Threads \cup {NoThread}
    /\ pc \in [Threads -> PcType] /\ held \in [Threads -> 0..MaxRefs]
    /\ db \in [Handles -> HandleType]
    /\ data \in Contents /\ told \in Contents
    /\ index \subseteq Skeys \X Keys
    /\ txns \in Seq(TxnType) /\ Len(txns) <= MaxDepth
    /\ cursor.priv \in BOOLEAN /\ cursor.db \in Handles
    /\ fault \in {"none", "assert", "environment"}

\* What insert(), update(), del() and the cursor's set() and del() reported
\* is what the database holds: through nested transactions, commits that
\* fail, aborts and the recovery after a crash.
ReportsAreTrue == data = told

\* The secondary holds exactly the keys the callback gives for the records
\* of the primary, however they were written.
SecondaryInStep ==
    index = UNION {ToSet(skeys[data[k]]) \X {k} : k \in {q \in Keys : data[q] # NoValue}}

\* The list of the engine names every database that is open and not closed,
\* and once: db_engine_private_free() closes what it names, and
\* secondary_db_get_key() asserts that the secondary is in it.
ListNamesOpenDatabases ==
    lock = NoThread =>
        /\ \A h \in Handles : db[h].state = "listed" <=> h \in ToSet(engine.databases)
        /\ Len(engine.databases) = Cardinality(ToSet(engine.databases))

\* The engine lives as long as a thread has a reference it has not given up.
ReferencesKeepEngine ==
    Given => engine.priv /\ engine.refs_count >= TotalRefs

\* A read of a cursor that succeeds leaves in its buffers the record it has
\* moved to, whether it allocated the buffers or found them there.
CursorShowsRecord ==
    [][(cursor'.rc = 0 /\ cursor'.pos # cursor.pos) =>
         /\ cursor'.key = cursor'.pos[2]
         /\ cursor'.value = data'[cursor'.pos[2]]
         /\ cursor'.db = "heights" => cursor'.skey = cursor'.pos[1]]_vars

\* find_secondary() returns every record of the primary with that secondary
\* key, each once, and counts them.
FindsEveryRecord ==
    \A s \in Skeys :
        LET found == db_find_secondary(s)
            wanted == {k \in Keys : data[k] # NoValue /\ s \in ToSet(skeys[data[k]])}
        IN  /\ found.count = Cardinality(wanted)
            /\ ToSet(found.keys) = wanted
            /\ \A i \in DOMAIN found.keys : found.values[i] = data[found.keys[i]]

\* g_mutex is released on every path of the operations that take it.
LockIsReleased == lock # NoThread ~> lock = NoThread

=============================================================================
