-------------------------------- MODULE RawTx --------------------------------
(***************************************************************************)
(* The digests that signatures commit to: satoshi_rawtx of                 *)
(* src/satoshi-tx.c (legacy inputs) and src/segwit-tx.c (version 0 witness *)
(* programs), with the partly hashed SHA-256 contexts a rawtx keeps so     *)
(* that the inputs of one transaction share work.                          *)
(*                                                                         *)
(* A SHA-256 context is the sequence of the fields fed to it so far, and a *)
(* hash is an injective tag on what was hashed: two digests are equal      *)
(* exactly when the same fields were hashed in the same order.             *)
(*                                                                         *)
(* A transaction is [version, has_flag, txins, txouts, lock_time]; indices *)
(* start from 0 as in the code.                                            *)
(***************************************************************************)
EXTENDS Integers, Sequences, SequencesExt

-----------------------------------------------------------------------------
(* Values *)

uint256_zero == <<"zero">>
varstr_empty == <<>>

sha256(x) == <<"sha256", x>>
ripemd160(x) == <<"ripemd160", x>>
hash256(x) == sha256(sha256(x))
hash160(x) == ripemd160(sha256(x))

txin_at(tx, i) == tx.txins[i + 1]
txout_at(tx, i) == tx.txouts[i + 1]

\* satoshi_tx_sighash_type: all, none or single, with anyone_can_pay or not.
sighash(base, anyone_can_pay) == [base |-> base, anyone_can_pay |-> anyone_can_pay]
SighashTypes == [base : {"all", "none", "single"}, anyone_can_pay : BOOLEAN]
sighash_all == sighash("all", FALSE)

\* What one input and one output add to a context.
hash_txin(txin, script) ==
    << <<"outpoint", txin.outpoint>>, <<"script", script>>, <<"sequence", txin.sequence>> >>
hash_txout(txout) == << <<"value", txout.value>>, <<"scripts", txout.scripts>> >>
hash_txouts(tx) == FlattenSeq([j \in DOMAIN tx.txouts |-> hash_txout(tx.txouts[j])])

\* The inputs first .. last: `script` in the place of input i's, the others empty.
hash_txins(tx, first, last, i, script) ==
    FlattenSeq([n \in 1 .. last - first + 1 |->
        LET j == first + n - 1
        IN  hash_txin(txin_at(tx, j), IF j = i THEN script ELSE varstr_empty)])

-----------------------------------------------------------------------------
(* The shared parts *)

prehash_prevouts(tx) ==
    << <<"prevouts", hash256([j \in DOMAIN tx.txins |-> tx.txins[j].outpoint])>> >>
prehash_sequences(tx) ==
    << <<"sequences", hash256([j \in DOMAIN tx.txins |-> tx.txins[j].sequence])>> >>
prehash_outputs(txouts) ==
    hash256(FlattenSeq([j \in DOMAIN txouts |-> hash_txout(txouts[j])]))

\* sha[1] and txouts_hash of a transaction that has the segwit flag.
satoshi_rawtx_attach_segwit_tx(tx) ==
    [sha |-> << <<"version", tx.version>> >> \o prehash_prevouts(tx) \o prehash_sequences(tx),
     txouts_hash |-> prehash_outputs(tx.txouts)]

no_segwit == [sha |-> <<>>, txouts_hash |-> uint256_zero]

satoshi_rawtx_attach(tx) ==
    [sha |-> << <<"version", tx.version>>, <<"txin_count", Len(tx.txins)>> >>,
     last_hashed_txin_index |-> 0,
     segwit |-> IF tx.has_flag THEN satoshi_rawtx_attach_segwit_tx(tx) ELSE no_segwit]

satoshi_rawtx_detach ==
    [sha |-> <<>>, last_hashed_txin_index |-> -1, segwit |-> no_segwit]

-----------------------------------------------------------------------------
(* Legacy inputs *)

\* mutant: the cached context takes in the current input too
prehash_txins_past(rawtx, tx, i) ==
    [rawtx EXCEPT !.sha = @ \o hash_txins(tx, rawtx.last_hashed_txin_index, i, i, varstr_empty),
                  !.last_hashed_txin_index = i - 1]
\* The inputs before the current one join rawtx->sha, without their scripts.
\* last_hashed_txin_index is moved to i - 1, not to i.
prehash_txins(rawtx, tx, i) ==
    LET first == IF rawtx.last_hashed_txin_index < 0 THEN 0
                 ELSE rawtx.last_hashed_txin_index
    IN  [rawtx EXCEPT !.sha = @ \o hash_txins(tx, first, i - 1, i, varstr_empty),
                      !.last_hashed_txin_index = i - 1]

\* The outputs a legacy digest commits to; `single` leaves the count out.
legacy_txouts(tx, i, type) ==
    CASE type.base = "all" -> << <<"txout_count", Len(tx.txouts)>> >> \o hash_txouts(tx)
      [] type.base = "single" -> hash_txout(txout_at(tx, i))
      [] OTHER -> <<>>

digest_of(rc, rawtx, digest) == [rc |-> rc, rawtx |-> rawtx, digest |-> digest]

\* With anyone_can_pay the context starts anew and the cache is left alone.
satoshi_utxo_get_digest(rawtx, tx, i, type, redeem_scripts) ==
    LET r == IF type.anyone_can_pay THEN rawtx ELSE prehash_txins(rawtx, tx, i)
        txins ==
            IF type.anyone_can_pay
            THEN << <<"version", tx.version>> >> \o hash_txin(txin_at(tx, i), redeem_scripts)
            ELSE r.sha \o hash_txins(tx, i, Len(tx.txins) - 1, i, redeem_scripts)
    IN  IF type.base = "single" /\ i >= Len(tx.txouts)
        THEN digest_of(-1, r, uint256_zero)
        ELSE digest_of(0, r, hash256(txins \o legacy_txouts(tx, i, type) \o
                                     << <<"lock_time", tx.lock_time>>, <<"type", type>> >>))

-----------------------------------------------------------------------------
(* Witness programs *)

\* Steps 1 to 3: version, hashPrevouts, hashSequence.
segwit_prefix(rawtx, tx, type) ==
    CASE type.anyone_can_pay ->
            << <<"version", tx.version>>, <<"prevouts", uint256_zero>>, <<"sequences", uint256_zero>> >>
      [] ~type.anyone_can_pay /\ type.base = "all" -> rawtx.segwit.sha
      [] OTHER ->
            << <<"version", tx.version>> >> \o prehash_prevouts(tx) \o
            << <<"sequences", uint256_zero>> >>

\* Step 8: hashOutputs.
segwit_outputs(rawtx, tx, i, type) ==
    CASE type.base = "all" -> rawtx.segwit.txouts_hash
      [] type.base = "single" /\ i < Len(tx.txouts) -> prehash_outputs(<<txout_at(tx, i)>>)
      [] OTHER -> uint256_zero

segwit_utxo_get_digest(rawtx, tx, i, type, redeem_scripts, value) ==
    digest_of(0, rawtx, hash256(
        segwit_prefix(rawtx, tx, type) \o
        << <<"outpoint", txin_at(tx, i).outpoint>>, <<"script", redeem_scripts>>,
           <<"value", value>>, <<"sequence", txin_at(tx, i).sequence>>,
           <<"outputs", segwit_outputs(rawtx, tx, i, type)>>,
           <<"lock_time", tx.lock_time>>, <<"type", type>> >>))

\* utxo.flags holds the type of the output script and, once it is known to
\* hide a witness program, the p2sh_segwit flag.
satoshi_rawtx_get_digest(rawtx, tx, i, type, utxo, redeem_scripts) ==
    CASE utxo.p2sh_segwit \/ utxo.type = "segwit" ->
            segwit_utxo_get_digest(rawtx, tx, i, type, redeem_scripts, utxo.value)
      [] ~utxo.p2sh_segwit /\ utxo.type = "legacy" ->
            satoshi_utxo_get_digest(rawtx, tx, i, type, redeem_scripts)
      [] OTHER -> digest_of(-1, rawtx, uint256_zero)

-----------------------------------------------------------------------------
(* The deprecated digests, computed from the whole transaction each time *)

segwit_v0_tx_get_digest(tx, i, type, utxo, redeem_scripts) ==
    hash256(<< <<"version", tx.version>> >> \o prehash_prevouts(tx) \o prehash_sequences(tx) \o
        << <<"outpoint", txin_at(tx, i).outpoint>>, <<"script", redeem_scripts>>,
           <<"value", utxo.value>>, <<"sequence", txin_at(tx, i).sequence>>,
           <<"outputs", prehash_outputs(tx.txouts)>>,
           <<"lock_time", tx.lock_time>>, <<"type", type>> >>)

\* Every script but the current input's is set to length zero, and the
\* transaction is serialised: satoshi_tx_serialize().
satoshi_tx_serialize_for(tx, i, script) ==
    << <<"version", tx.version>>, <<"txin_count", Len(tx.txins)>> >> \o
    hash_txins(tx, 0, Len(tx.txins) - 1, i, script) \o
    << <<"txout_count", Len(tx.txouts)>> >> \o hash_txouts(tx) \o << <<"lock_time", tx.lock_time>> >>

\* An input that pays to a script hash is signed with the redeem script of
\* the FIRST input (txins->redeem_scripts).
satoshi_tx_get_digest(tx, i, type, utxo, is_p2sh, first_redeem, redeem_scripts) ==
    IF tx.has_flag THEN segwit_v0_tx_get_digest(tx, i, type, utxo, redeem_scripts)
    ELSE hash256(satoshi_tx_serialize_for(tx, i, IF is_p2sh THEN first_redeem ELSE utxo.scripts)
                 \o << <<"type", type>> >>)
=============================================================================
