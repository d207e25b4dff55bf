------------------------------ MODULE TxCodec -------------------------------
(***************************************************************************)
(* Transactions and blocks on the wire: varint and varstr, the parsers of  *)
(* satoshi-types.c, satoshi-tx.c and satoshi-block.c as one step for each  *)
(* field they read, with what they allocate and what their error paths     *)
(* release, and the serialisers.                                           *)
(*                                                                         *)
(* A payload is a sequence of bytes in which every field of a fixed size   *)
(* (version, outpoint, sequence, value, lock time, block header) takes one *)
(* place; varints and strings are as in the code.  The merkle root of a    *)
(* block header is kept beside it.  Structures are parsed into zeroed      *)
(* memory, as every caller does.  is_coinbase and the flags of an output   *)
(* are derived from what is stored here and left out.                      *)
(***************************************************************************)
EXTENDS Integers, Sequences, SequencesExt, MerkleTree

CONSTANTS
    Payloads       \* what a parser is given: the bytes, whether they are a block's,
                   \* and the merkle root that the header in their first place carries

\* Bytes, but for 255: at the start of a varint it announces eight more, a count
\* beyond four billion, which the operators below give no value.
ASSUME PayloadsAssumption ==
    \A q \in Payloads : q.block \in BOOLEAN /\ q.data \in Seq(0 .. 254)

VARIABLES
    payload,
    pc,            \* the field read next, or how the call ended
    p,             \* bytes consumed
    txs,           \* the transactions parsed, the last one being filled
    txn_count,     \* block->txn_count
    held,          \* the pointers the structures hold, by field
    live           \* the allocations not freed

codecVars == <<payload, pc, p, txs, txn_count, held, live>>

-----------------------------------------------------------------------------
(* varint and varstr *)

varint_calc_size(value) == IF value < 253 THEN 1 ELSE IF value <= 65535 THEN 3 ELSE 5

varint_set_data(value) ==
    IF value < 253 THEN <<value>>
    ELSE IF value <= 65535 THEN <<253, value % 256, value \div 256>>
    ELSE <<254, value % 256, (value \div 256) % 256, (value \div 65536) % 256, value \div 16777216>>

\* b[j + 1] is the byte at offset j; a byte past the end reads as zero, and the
\* size already exceeds what is left
byte(j) == IF j < Len(payload.data) THEN payload.data[j + 1] ELSE 0

varint_size(j) == CASE byte(j) = 253 -> 3 [] byte(j) = 254 -> 5 [] OTHER -> 1

varint_get(j) ==
    CASE byte(j) = 253 -> byte(j + 1) + 256 * byte(j + 2)
      [] byte(j) = 254 -> byte(j + 1) + 256 * byte(j + 2) + 65536 * byte(j + 3) + 16777216 * byte(j + 4)
      [] OTHER -> byte(j)

varstr_new(data) == varint_set_data(Len(data)) \o data
varstr_size(j) == varint_size(j) + varint_get(j)
varstr_clone(j) == SubSeq(payload.data, j + 1, j + varstr_size(j))

Has(n) == p + n <= Len(payload.data)

\* parse_varint(): the count is read, from bytes that are all there
parse_varint == p < Len(payload.data) /\ Has(varint_size(p))
parse_varstr == p < Len(payload.data) /\ Has(varstr_size(p))

-----------------------------------------------------------------------------
(* serialisers *)

Concat(strings) == FlattenSeq(strings)

satoshi_txin_serialize(txin) == <<txin.outpoint>> \o txin.scripts \o <<txin.sequence>>
satoshi_txout_serialize(txout) == <<txout.value>> \o txout.scripts

serialize_witness(w) == varint_set_data(Len(w)) \o Concat(w)

\* witnesses and lock time
serialize_tail(tx) ==
    (IF tx.has_flag THEN Concat([i \in DOMAIN tx.witnesses |-> serialize_witness(tx.witnesses[i])]) ELSE <<>>)
    \o <<tx.lock_time>>

serialize_inputs(tx) ==
    varint_set_data(tx.txin_count) \o Concat([i \in DOMAIN tx.txins |-> satoshi_txin_serialize(tx.txins[i])])
serialize_outputs(tx) ==
    varint_set_data(tx.txout_count) \o Concat([i \in DOMAIN tx.txouts |-> satoshi_txout_serialize(tx.txouts[i])])

\* satoshi_tx_serialize(); with the flag set it asserts that there are witnesses
satoshi_tx_serialize(tx) ==
    <<tx.version>> \o (IF tx.has_flag THEN <<0, 1>> ELSE <<>>)
    \o serialize_inputs(tx) \o serialize_outputs(tx) \o serialize_tail(tx)

serializable(tx) == tx.has_flag => tx.cb_witnesses > 0

\* satoshi_block_serialize()
satoshi_block_serialize(header, list) ==
    <<header>> \o (IF list = <<>> THEN <<>>
                   ELSE varint_set_data(Len(list)) \o Concat([i \in DOMAIN list |-> satoshi_tx_serialize(list[i])]))

-----------------------------------------------------------------------------
(* what the structures own, and cleanup *)

new_tx == [version |-> 0, has_flag |-> FALSE, txin_count |-> 0, txins |-> <<>>, txout_count |-> 0,
           txouts |-> <<>>, witnesses |-> <<>>, items |-> 0, cb_witnesses |-> 0, lock_time |-> 0,
           body |-> <<0, 0>>, canonical |-> TRUE, txid |-> zero]

t == Len(txs)
tx == txs[t]
Fields(H, names, n) == {f \in H : f[1] \in names /\ f[2] = n}

\* each cleanup returns the pointers still held
satoshi_txin_cleanup(H, n, i) == H \ {<<"txin.scripts", n, i>>}
satoshi_txout_cleanup(H, n, i) == H \ {<<"txout.scripts", n, i>>}
bitcoin_tx_witness_cleanup(H, n) == H \ Fields(H, {"items", "item"}, n)

\* mutant: the witnesses are forgotten
satoshi_tx_cleanup_inputs_outputs(H, n) ==
    H \ Fields(H, {"txins", "txin.scripts", "txouts", "txout.scripts"}, n)

satoshi_tx_cleanup(H, n) ==
    LET W == IF txs[n].has_flag /\ <<"witnesses", n>> \in H
             THEN bitcoin_tx_witness_cleanup(H, n) \ {<<"witnesses", n>>} ELSE H
        I == IF <<"txins", n>> \in H THEN Fields(H, {"txins", "txin.scripts"}, n) ELSE {}
        O == IF <<"txouts", n>> \in H THEN Fields(H, {"txouts", "txout.scripts"}, n) ELSE {}
    IN  (W \ I) \ O

satoshi_block_cleanup(H) ==
    IF <<"txns", 0>> \in H
    THEN {f \in H : \A n \in DOMAIN txs : f \in satoshi_tx_cleanup(H, n)} \ {<<"txns", 0>>}
    ELSE H

\* What is no longer held has been freed.
Release(H) == held' = H /\ live' = live \ (held \ H)

Allocate(F) == held' = held \cup F /\ live' = live \cup F

\* label_error of satoshi_tx_parse(), then that of satoshi_block_parse()
Abandon(H) ==
    /\ Release(IF payload.block THEN satoshi_block_cleanup(satoshi_tx_cleanup(H, t))
               ELSE satoshi_tx_cleanup(H, t))
    /\ pc' = "failed"
    /\ UNCHANGED <<payload, p, txs, txn_count>>

RejectBlock ==
    /\ Release(satoshi_block_cleanup(held)) /\ pc' = "failed"
    /\ UNCHANGED <<payload, p, txs, txn_count>>

\* The transaction being filled takes the value new, n bytes are consumed.
Filled(new, n) == txs' = [txs EXCEPT ![t] = new] /\ p' = p + n /\ UNCHANGED <<payload, txn_count>>

-----------------------------------------------------------------------------
(* satoshi_tx_parse(), field by field *)

parse_version ==
    /\ pc = "version"
    /\ IF ~Has(1) THEN Abandon(held)
       ELSE /\ Filled([tx EXCEPT !.version = byte(p)], 1)
            /\ pc' = "flag" /\ UNCHANGED <<held, live>>

parse_flag ==
    /\ pc = "flag"
    /\ IF ~Has(2) \/ (byte(p) = 0 /\ byte(p + 1) # 1) THEN Abandon(held)
       ELSE /\ IF byte(p) = 0 THEN Filled([tx EXCEPT !.has_flag = TRUE], 2) ELSE Filled(tx, 0)
            /\ pc' = "txin_count" /\ UNCHANGED <<held, live>>

short_count == varint_size(p) = varint_calc_size(varint_get(p))

parse_txin_count ==
    /\ pc = "txin_count"
    /\ IF ~parse_varint \/ varint_get(p) = 0 THEN Abandon(held)
       ELSE /\ Filled([tx EXCEPT !.txin_count = varint_get(p), !.canonical = short_count, !.body[1] = p],
                      varint_size(p))
            /\ Allocate({<<"txins", t>>}) /\ pc' = "txin"

\* satoshi_txin_parse() up to the scripts
parse_txin ==
    /\ pc = "txin"
    /\ IF ~Has(1) \/ ~Has(1 + varstr_size(p + 1)) THEN Abandon(held)
       ELSE /\ Filled([tx EXCEPT !.txins = Append(@, [outpoint |-> byte(p), scripts |-> varstr_clone(p + 1),
                                                      sequence |-> 0])],
                      1 + varstr_size(p + 1))
            /\ Allocate({<<"txin.scripts", t, Len(tx.txins) + 1>>}) /\ pc' = "sequence"

\* the rest of it; its own error path releases the scripts first
parse_sequence ==
    /\ pc = "sequence"
    /\ IF ~Has(1) THEN Abandon(satoshi_txin_cleanup(held, t, Len(tx.txins)))
       ELSE /\ Filled([tx EXCEPT !.txins[Len(tx.txins)].sequence = byte(p)], 1)
            /\ pc' = IF Len(tx.txins) = tx.txin_count THEN "txout_count" ELSE "txin"
            /\ UNCHANGED <<held, live>>

parse_txout_count ==
    /\ pc = "txout_count"
    /\ IF ~parse_varint \/ varint_get(p) = 0 THEN Abandon(held)
       ELSE /\ Filled([tx EXCEPT !.txout_count = varint_get(p), !.canonical = @ /\ short_count], varint_size(p))
            /\ Allocate({<<"txouts", t>>}) /\ pc' = "txout"

\* where parsing goes after the outputs: more than a lock time is left, or not
after_outputs(flag, end) == IF flag /\ end + 1 < Len(payload.data) THEN "witnesses" ELSE "lock_time"

parse_txout ==
    /\ pc = "txout"
    /\ IF ~Has(2) \/ ~Has(1 + varstr_size(p + 1))
       THEN Abandon(satoshi_txout_cleanup(held, t, Len(tx.txouts) + 1))
       ELSE \E n \in {1 + varstr_size(p + 1)} :
            \E new \in {[tx EXCEPT !.txouts = Append(@, [value |-> byte(p), scripts |-> varstr_clone(p + 1)]),
                                   !.body[2] = p + n]} :
               /\ Filled(new, n)
               /\ Allocate({<<"txout.scripts", t, Len(new.txouts)>>})
               /\ pc' = IF Len(new.txouts) = tx.txout_count THEN after_outputs(tx.has_flag, p + n) ELSE "txout"

alloc_witnesses ==
    /\ pc = "witnesses"
    /\ Filled(tx, 0)
    /\ Allocate({<<"witnesses", t>>}) /\ pc' = "num_items"

\* the witness of the next input; one without items is a zero
parse_num_items ==
    /\ pc = "num_items"
    /\ IF ~parse_varint THEN Abandon(held)
       ELSE \E n \in {varint_get(p)} :
               /\ Filled([tx EXCEPT !.witnesses = Append(@, <<>>), !.items = n, !.canonical = @ /\ short_count,
                                    !.cb_witnesses = @ + varint_size(p)], varint_size(p))
               /\ Allocate(IF n > 0 THEN {<<"items", t, Len(tx.witnesses) + 1>>} ELSE {})
               /\ pc' = IF n > 0 THEN "item"
                        ELSE IF Len(tx.witnesses) + 1 < tx.txin_count THEN "num_items" ELSE "lock_time"

parse_item ==
    /\ pc = "item"
    /\ IF ~parse_varstr THEN Abandon(held)
       ELSE \E i \in {Len(tx.witnesses)} :
            \E new \in {[tx EXCEPT !.witnesses[i] = Append(@, varstr_clone(p)),
                                   !.cb_witnesses = @ + varstr_size(p)]} :
               /\ Filled(new, varstr_size(p))
               /\ Allocate({<<"item", t, i, Len(new.witnesses[i])>>})
               /\ pc' = IF Len(new.witnesses[i]) < tx.items THEN "item"
                        ELSE IF i < tx.txin_count THEN "num_items" ELSE "lock_time"

\* mutant: the id is the hash of the whole serialisation
hashed_with_witnesses(x) == satoshi_tx_serialize(x)

\* what txid is the hash of: the bytes between flag and witnesses, as they came
hashed(x) == <<x.version>> \o SubSeq(payload.data, x.body[1] + 1, x.body[2]) \o <<x.lock_time>>

parse_lock_time ==
    /\ pc = "lock_time"
    /\ IF ~Has(1) THEN Abandon(held)
       ELSE /\ \E new \in {[tx EXCEPT !.lock_time = byte(p)]} :
                  Filled([new EXCEPT !.txid = <<"txid", hashed(new)>>], 1)
            /\ pc' = IF payload.block THEN "next_tx" ELSE "parsed"
            /\ UNCHANGED <<held, live>>

-----------------------------------------------------------------------------
(* satoshi_block_parse() *)

\* satoshi_block_header_verify() compares a local it has not set when the
\* caller asks for the hash, as this one does: either answer is possible.
satoshi_block_header_verify == BOOLEAN

parse_header ==
    /\ pc = "header"
    /\ \/ RejectBlock /\ (Has(1) => FALSE \in satoshi_block_header_verify)
       \/ /\ Has(1) /\ TRUE \in satoshi_block_header_verify
          /\ p' = p + 1
          /\ pc' = IF Len(payload.data) = 1 THEN "parsed" ELSE "txn_count"
          /\ UNCHANGED <<payload, txs, txn_count, held, live>>

parse_txn_count ==
    /\ pc = "txn_count"
    /\ IF ~Has(varint_size(p)) \/ varint_get(p) = 0 THEN RejectBlock
       ELSE /\ txn_count' = varint_get(p) /\ p' = p + varint_size(p) /\ pc' = "next_tx"
            /\ held' = held \cup {<<"txns", 0>>}
            /\ live' = live \cup {<<"txns", 0>>, <<"mtree", 0>>}
            /\ UNCHANGED <<payload, txs>>

txids == [i \in DOMAIN txs |-> txs[i].txid]

\* The next transaction, or the merkle root when there is none; the tree is
\* freed on this path only.  Its recalc() gives RootOf (MerkleRootRight).
next_tx ==
    /\ pc = "next_tx"
    /\ IF t < txn_count
       THEN IF ~Has(1) THEN RejectBlock
            ELSE txs' = Append(txs, new_tx) /\ pc' = "version" /\ UNCHANGED <<payload, p, txn_count, held, live>>
       ELSE LET H == IF payload.root = RootOf(txids) THEN held ELSE satoshi_block_cleanup(held)
            IN  /\ held' = H /\ live' = (live \ (held \ H)) \ {<<"mtree", 0>>}
                /\ pc' = IF H = held THEN "parsed" ELSE "failed"
                /\ UNCHANGED <<payload, p, txs, txn_count>>

\* the caller's cleanup of what was parsed
Discard ==
    /\ pc = "parsed"
    /\ Release(IF payload.block THEN satoshi_block_cleanup(held) ELSE satoshi_tx_cleanup(held, t))
    /\ pc' = "discarded" /\ UNCHANGED <<payload, p, txs, txn_count>>

CodecInit ==
    /\ payload \in Payloads
    /\ pc = IF payload.block THEN "header" ELSE "version"
    /\ txs = IF payload.block THEN <<>> ELSE <<new_tx>>
    /\ p = 0 /\ txn_count = 0 /\ held = {} /\ live = {}

CodecNext ==
    \/ parse_version \/ parse_flag \/ parse_txin_count \/ parse_txin \/ parse_sequence
    \/ parse_txout_count \/ parse_txout \/ alloc_witnesses \/ parse_num_items \/ parse_item
    \/ parse_lock_time \/ parse_header \/ parse_txn_count \/ next_tx \/ Discard

CodecSpec == CodecInit /\ [][CodecNext]_codecVars

-----------------------------------------------------------------------------
(* Properties *)

Consumed == SubSeq(payload.data, 1, p)

\* A block's number of transactions came in its shortest form.
short_txn_count == txs = <<>> \/ varint_size(1) = varint_calc_size(txn_count)

\* A parser that succeeds has understood its bytes: serialising what it filled
\* in gives back exactly the bytes it consumed (when every count was in its
\* shortest form and, with the flag, witnesses were there), and each id is the
\* hash of the serialisation without flag and witnesses.
TxRoundTrip ==
    pc = "parsed" /\ (\A i \in DOMAIN txs : txs[i].canonical) =>
        /\ \A i \in DOMAIN txs : txs[i].txid = <<"txid", satoshi_tx_serialize([txs[i] EXCEPT !.has_flag = FALSE])>>
        /\ (\A i \in DOMAIN txs : serializable(txs[i])) /\ (payload.block => short_txn_count) =>
               Consumed = IF payload.block THEN satoshi_block_serialize(payload.data[1], txs)
                          ELSE satoshi_tx_serialize(tx)

\* A parser that fails, at whatever byte of whichever input, output or witness
\* item, has released everything the structures owned, and the caller's cleanup
\* does the same after a success; no pointer to freed memory stays behind for a
\* second cleanup.  What satoshi_block_parse() keeps on an error is its tree.
TxFailureReleases ==
    /\ held \subseteq live
    /\ pc \in {"failed", "discarded"} =>
          held = {} /\ live \subseteq {<<"mtree", 0>>}
=============================================================================
