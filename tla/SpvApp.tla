------------------------------- MODULE SpvApp -------------------------------
(***************************************************************************)
(* The life of the spv node application around its block chain             *)
(* (src/spv_node_app.c, src/block_hdrs-db.c): app_run() first reads the    *)
(* headers database page by page into an empty chain, then the node takes  *)
(* headers from its peer; chain callbacks keep the database up to date in  *)
(* both phases; the process may die at any moment and start over.          *)
(*                                                                         *)
(* The database is external (Berkeley DB): a put or del is taken to be     *)
(* durable when it returns.                                                *)
(***************************************************************************)
EXTENDS Chains

CONSTANTS
    limits,       \* db->limits: the records of a page (2016 in the code)
    MaxRestarts   \* bound: how often the process dies

ASSUME LimitsAssumption == limits \in Nat \ {0} /\ MaxRestarts \in Nat

VARIABLES
    phase,        \* "load" (the loop of app_run) or "run" (spv_node_run)
    offset,       \* db->offset: the height of the last record read
    page,         \* what app_run still has to add of the page it read
    restarts

appVars == <<phase, offset, page, restarts>>
allVars == <<vars, appVars>>

AppInit ==
    /\ Init
    /\ phase = "load" /\ offset = 0 /\ page = <<>> /\ restarts = 0

\* headers-height.db in key order; the order of records of one height depends
\* on their hashes.
ByHeight ==
    {s \in SetToSeqs(DOMAIN db) :
        \A i \in 1 .. Len(s) - 1 : db[s[i]].height <= db[s[i + 1]].height}

\* mutant: the loop stops one record short, so a page is never full.
read_page_one_short(s, want) ==
    [i \in 1 .. (IF limits - 1 < Len(s) THEN limits - 1 ELSE Len(s)) |->
        [hash |-> s[i], height |-> db[s[i]].height, complete |-> db[s[i]].complete]]

\* db_cursor_pget(DB_NEXT): from the record at height `want`, or from the first
\* one when there is none (DB_NEXT on a cursor DB_SET left unpositioned).
read_page(s, want) ==
    LET at == SelectInSeq(s, LAMBDA h : db[h].height = want)
        from == IF at = 0 THEN 1 ELSE at
        to == IF from + limits - 1 < Len(s) THEN from + limits - 1 ELSE Len(s)
    IN  [i \in 1 .. (to - from + 1) |->
            [hash |-> s[from + i - 1], height |-> db[s[from + i - 1]].height,
             complete |-> db[s[from + i - 1]].complete]]

\* The loop condition of app_run(). db_cursor_pget() returns 0 only for a full
\* page: records of a last, partial page are read and not used.
next_page ==
    /\ phase = "load" /\ page = <<>> /\ op.pc = "idle" /\ fault = "none"
    /\ \E s \in ByHeight :
          LET got == read_page(s, offset + 1)
          IN  /\ offset' = IF got = <<>> THEN offset + 1 ELSE Last(got).height
              /\ IF Len(got) = limits
                 THEN page' = got /\ UNCHANGED phase
                 ELSE phase' = "run" /\ UNCHANGED page
    /\ UNCHANGED <<vars, restarts>>

\* mutant: a duplicate is skipped instead of aborting.
load_record_skips ==
    /\ phase = "load" /\ page # <<>> /\ op.pc = "idle" /\ fault = "none"
    /\ page' = Tail(page)
    /\ UNCHANGED <<phase, offset, restarts>>
    /\ LET r == Head(page)
       IN  IF ~r.complete THEN Fail("assert")
           ELSE IF IsClone(r.hash) THEN UNCHANGED vars
           ELSE Enrol(r.hash)

\* The body of the loop: chain->add(hash, hdr). It asserts that the header
\* hashes to the key it was stored under, and -1 makes app_run() abort.
load_record ==
    /\ phase = "load" /\ page # <<>> /\ op.pc = "idle" /\ fault = "none"
    /\ page' = Tail(page)
    /\ UNCHANGED <<phase, offset, restarts>>
    /\ LET r == Head(page)
       IN  IF ~r.complete THEN Fail("assert")
           ELSE IF IsClone(r.hash) THEN Fail("abort")
           ELSE Enrol(r.hash)

\* on_message_headers(): chain->add(NULL, hdr) for a header of the peer.
peer_header(b) ==
    /\ phase = "run"
    /\ Ignore(b) \/ Enrol(b)
    /\ UNCHANGED appVars

chain_step == Step /\ UNCHANGED appVars

\* The process dies, whatever it was doing, and main() starts again.
restart ==
    /\ restarts < MaxRestarts
    /\ restarts' = restarts + 1
    /\ phase' = "load" /\ offset' = 0 /\ page' = <<>>
    /\ heirs' = <<[hash |-> Genesis, cd |-> difficulty[Genesis], complete |-> TRUE]>>
    /\ search_root' = [h \in {Genesis} |-> 1]
    /\ info' = [x \in {} |-> Null]
    /\ list_root' = [h \in {} |-> Null]
    /\ longest_end' = [x \in {} |-> Null]
    /\ op' = Idle /\ fault' = "none" /\ accepted' = {}
    /\ UNCHANGED db

AppNext ==
    \/ next_page \/ load_record \/ chain_step \/ restart
    \/ \E b \in Blocks : peer_header(b)
    \/ Halted /\ UNCHANGED appVars

\* app_run() and blockchain_add() run on by themselves; peers owe us nothing.
AppSpec ==
    /\ AppInit /\ [][AppNext]_allVars
    /\ WF_allVars(next_page) /\ WF_allVars(load_record) /\ WF_allVars(chain_step)

-----------------------------------------------------------------------------
(* Properties *)

\* Whatever is on the main chain is in the database, at its height, in every
\* state: while loading, in the middle of a reorganisation, and after any
\* number of restarts that found records of other chains there.
StoreCoversHeirs ==
    \A i \in 2 .. Len(heirs) :
        /\ heirs[i].hash \in DOMAIN db
        /\ db[heirs[i].hash].height = i - 1

\* The stored records form one chain from the genesis block.
StoredChain ==
    /\ {db[h].height : h \in DOMAIN db} = 1 .. Cardinality(DOMAIN db)
    /\ \A h \in DOMAIN db :
          \/ db[h].height = 1 /\ db[h].prev = Genesis
          \/ \E p \in DOMAIN db : p = db[h].prev /\ db[p].height = db[h].height - 1

\* When the database holds one chain, loading it brings back that chain up to
\* less than a page from its end.
ReloadLosesLessThanAPage ==
    [][phase = "load" /\ phase' = "run" /\ StoredChain
          => Cardinality(DOMAIN db) - (Len(heirs) - 1) < limits]_allVars

\* Loading comes to an end, unless the process dies first.
LoadEnds == (phase = "load") ~> (phase = "run" \/ fault # "none")

\* spv_node_app.c on -1 from chain->add(): "duplicated found, should never
\* happen".
NoDuplicateOnLoad == fault # "abort"
=============================================================================
