--------------------------- MODULE TxCodecProofs ----------------------------
(***************************************************************************)
(* TxFailureReleases holds in every reachable state, whatever the payload: *)
(* wherever parsing stops, the error paths of satoshi_tx_parse() and       *)
(* satoshi_block_parse() free all that was allocated.                      *)
(*                                                                         *)
(* The cleanup of a transaction frees scripts only through the pointer to  *)
(* the array they are in, and witnesses only under the flag.  So the       *)
(* invariant is about the order of allocation: what is held is reachable   *)
(* by the cleanup (Owned), because an array is allocated before what is in *)
(* it and the flag is set before the witnesses (Phases).                   *)
(*                                                                         *)
(* TxRoundTrip holds because at every byte the fields filled in so far     *)
(* serialise to the bytes read so far (RoundInv): ReadSoFar says what the  *)
(* bytes of a transaction are when a field is about to be read, Continues  *)
(* that this is so from one field to the next, and the lemmas ...Read that *)
(* it is for each field.                                                   *)
(*                                                                         *)
(* MerkleRootRight holds for any number of leaves the layers can take,     *)
(* because recalc() has computed the levels of the definition as far as it *)
(* got (Climbed).                                                          *)
(***************************************************************************)
EXTENDS TxCodec, SequenceLemmas

txns == <<"txns", 0>>
mtree == <<"mtree", 0>>

FieldNames == {"txins", "txin.scripts", "txouts", "txout.scripts", "witnesses", "items", "item", "txns"}

\* The cleanup of the transactions X reaches every pointer of H.
Owned(H, X) ==
    \A f \in H :
        /\ f[1] \in FieldNames
        /\ f[1] = "txns" => f = txns
        /\ f[1] # "txns" => f[2] \in DOMAIN X
        /\ f[1] \in {"txins", "txin.scripts"} => <<"txins", f[2]>> \in H
        /\ f[1] \in {"txouts", "txout.scripts"} => <<"txouts", f[2]>> \in H
        /\ f[1] \in {"items", "item"} => <<"witnesses", f[2]>> \in H
        /\ f[1] = "witnesses" => f = <<"witnesses", f[2]>> /\ X[f[2]].has_flag

\* X is a list of transactions
Listed(X) ==
    /\ Len(X) \in Nat /\ X = [n \in 1 .. Len(X) |-> X[n]]
    /\ \A n \in 1 .. Len(X) : "has_flag" \in DOMAIN X[n]

TxPhases == {"version", "flag", "txin_count", "txin", "sequence", "txout_count", "txout",
             "witnesses", "num_items", "item", "lock_time"}

\* what is held when a field is about to be read
Phases ==
    /\ pc \in TxPhases \cup {"header", "txn_count", "next_tx", "parsed", "failed", "discarded"}
    /\ pc \in TxPhases => t >= 1
    /\ pc \in TxPhases /\ payload.block => txns \in held
    /\ pc = "next_tx" => payload.block /\ txns \in held
    /\ pc \in {"header", "txn_count"} => payload.block
    /\ pc \in {"header", "txn_count", "failed", "discarded"} => held = {}
    /\ pc = "parsed" /\ payload.block => held = {} \/ txns \in held
    /\ ~payload.block => t = 1 /\ txns \notin held
    /\ pc \in {"txin", "sequence"} => <<"txins", t>> \in held
    /\ pc = "txout" => <<"txouts", t>> \in held
    /\ pc \in {"witnesses", "num_items", "item"} => tx.has_flag
    /\ pc \in {"num_items", "item"} => <<"witnesses", t>> \in held

IInv ==
    /\ Listed(txs) /\ Owned(held, txs) /\ Phases
    /\ held \subseteq live /\ live \subseteq held \cup {mtree}
-----------------------------------------------------------------------------
(* The cleanup functions *)

\* The cleanup of transaction n leaves what the other transactions own.
LEMMA TxCleanup ==
    ASSUME NEW H, Listed(txs), Owned(H, txs), NEW n \in 1 .. t
    PROVE  satoshi_tx_cleanup(H, n) = {f \in H : f[2] # n}
<1> DEFINE W == IF txs[n].has_flag /\ <<"witnesses", n>> \in H
                THEN bitcoin_tx_witness_cleanup(H, n) \ {<<"witnesses", n>>} ELSE H
           I == IF <<"txins", n>> \in H THEN Fields(H, {"txins", "txin.scripts"}, n) ELSE {}
           O == IF <<"txouts", n>> \in H THEN Fields(H, {"txouts", "txout.scripts"}, n) ELSE {}
<1>1. satoshi_tx_cleanup(H, n) = (W \ I) \ O
  BY DEF satoshi_tx_cleanup
<1>2. W \subseteq H /\ (\A f \in H : f \notin W => f[2] = n) /\ (\A f \in I \cup O : f[2] = n)
  BY DEF bitcoin_tx_witness_cleanup, Fields
<1>3. ASSUME NEW f \in H, f[2] = n PROVE f \notin (W \ I) \ O
  <2>1. f # txns
    BY <1>3 DEF txns, t
  <2>2. /\ f[1] \in FieldNames /\ f[1] # "txns"
        /\ f[1] \in {"txins", "txin.scripts"} => <<"txins", n>> \in H
        /\ f[1] \in {"txouts", "txout.scripts"} => <<"txouts", n>> \in H
        /\ f[1] \in {"items", "item"} => <<"witnesses", n>> \in H
        /\ f[1] = "witnesses" => f = <<"witnesses", n>> /\ txs[n].has_flag
    BY <1>3, <2>1 DEF Owned
  <2>3. <<"witnesses", n>> \in H => txs[n].has_flag
    <3>1. <<"witnesses", n>>[1] = "witnesses" /\ <<"witnesses", n>>[2] = n
      OBVIOUS
    <3> QED
      BY <3>1 DEF Owned
  <2>4. CASE f[1] \in {"witnesses", "items", "item"}
    <3>1. <<"witnesses", n>> \in H /\ txs[n].has_flag
      BY <2>2, <2>3, <2>4
    <3>2. f \notin W
      BY <1>3, <2>2, <2>4, <3>1 DEF bitcoin_tx_witness_cleanup, Fields
    <3> HIDE DEF W, I, O
    <3> QED
      BY <3>2
  <2>5. CASE f[1] \in {"txins", "txin.scripts"}
    <3>1. f \in I
      BY <1>3, <2>2, <2>5 DEF Fields
    <3> HIDE DEF W, I, O
    <3> QED
      BY <3>1
  <2>6. CASE f[1] \in {"txouts", "txout.scripts"}
    <3>1. f \in O
      BY <1>3, <2>2, <2>6 DEF Fields
    <3> HIDE DEF W, I, O
    <3> QED
      BY <3>1
  <2> QED
    BY <2>2, <2>4, <2>5, <2>6 DEF FieldNames
<1> HIDE DEF W, I, O
<1> QED
  BY <1>1, <1>2, <1>3

\* Without the pointers of a transaction the rest is still reachable.
LEMMA OwnedRest ==
    ASSUME NEW H, NEW X, Owned(H, X), NEW n
    PROVE  Owned({f \in H : f[2] # n}, X)
<1> DEFINE R == {f \in H : f[2] # n}
<1> SUFFICES ASSUME NEW f \in R
             PROVE  /\ f[1] \in FieldNames
                    /\ f[1] = "txns" => f = txns
                    /\ f[1] # "txns" => f[2] \in DOMAIN X
                    /\ f[1] \in {"txins", "txin.scripts"} => <<"txins", f[2]>> \in R
                    /\ f[1] \in {"txouts", "txout.scripts"} => <<"txouts", f[2]>> \in R
                    /\ f[1] \in {"items", "item"} => <<"witnesses", f[2]>> \in R
                    /\ f[1] = "witnesses" => f = <<"witnesses", f[2]>> /\ X[f[2]].has_flag
  BY DEF Owned
<1>1. f \in H /\ f[2] # n
  OBVIOUS
<1>2. \A name : <<name, f[2]>> \in H => <<name, f[2]>> \in R
  BY <1>1
<1> HIDE DEF R
<1> QED
  BY <1>1, <1>2 DEF Owned

\* The cleanup of a block frees everything.
LEMMA BlockCleanup ==
    ASSUME NEW H, Listed(txs), Owned(H, txs), H # {} => txns \in H
    PROVE  satoshi_block_cleanup(H) = {}
<1>1. CASE H = {}
  BY <1>1 DEF satoshi_block_cleanup
<1>2. CASE H # {}
  <2>1. satoshi_block_cleanup(H)
        = {f \in H : \A n \in DOMAIN txs : f \in satoshi_tx_cleanup(H, n)} \ {txns}
    BY <1>2 DEF satoshi_block_cleanup, txns
  <2>2. ASSUME NEW f \in H, f # txns PROVE \E n \in DOMAIN txs : f \notin satoshi_tx_cleanup(H, n)
    <3>1. f[2] \in DOMAIN txs
      BY <2>2 DEF Owned
    <3>2. f[2] \in 1 .. t
      BY <3>1 DEF Listed, t
    <3>3. f \notin satoshi_tx_cleanup(H, f[2])
      BY <3>2, TxCleanup
    <3> QED
      BY <3>1, <3>3
  <2> QED
    BY <2>1, <2>2
<1> QED
  BY <1>1, <1>2
-----------------------------------------------------------------------------
(* The steps of the parsers *)

\* A failing transaction parser, called with the rest H of what was held.
LEMMA AbandonReleases ==
    ASSUME IInv, pc \in TxPhases, NEW H, H \subseteq held, Owned(H, txs), payload.block => txns \in H, Abandon(H)
    PROVE  IInv'
<1>1. t \in 1 .. t /\ t \in Nat
  BY DEF IInv, Phases, Listed, t
<1> DEFINE R == {f \in H : f[2] # t}
<1>2. satoshi_tx_cleanup(H, t) = R
  BY <1>1, TxCleanup DEF IInv
<1>3. Owned(R, txs)
  BY OwnedRest
<1>4. CASE payload.block
  <2>1. txns \in R
    BY <1>1, <1>4 DEF txns
  <2>2. satoshi_block_cleanup(R) = {}
    BY <1>3, <2>1, BlockCleanup DEF IInv
  <2> HIDE DEF R
  <2>3. held' = {} /\ live' = live \ held /\ pc' = "failed" /\ payload' = payload /\ txs' = txs
    BY <1>2, <1>4, <2>2 DEF Abandon, Release
  <2> QED
    BY <1>1, <1>4, <2>3 DEF IInv, Phases, Owned, t, TxPhases
<1>5. CASE ~payload.block
  <2>1. \A f \in H : f[2] = t
    <3>1. t = 1 /\ DOMAIN txs = 1 .. t /\ txns \notin held
      BY <1>5 DEF IInv, Phases, Listed, t
    <3>2. ASSUME NEW f \in H PROVE f[2] \in DOMAIN txs
      BY <3>1 DEF Owned
    <3> QED
      BY <3>1, <3>2
  <2>2. R = {}
    BY <2>1
  <2> HIDE DEF R
  <2>3. held' = {} /\ live' = live \ held /\ pc' = "failed" /\ payload' = payload /\ txs' = txs
    BY <1>2, <1>5, <2>2 DEF Abandon, Release
  <2> QED
    BY <1>1, <1>5, <2>3 DEF IInv, Phases, Owned, t, TxPhases
<1> QED
  BY <1>4, <1>5

\* The same with all that was held.
LEMMA AbandonAll ==
    ASSUME IInv, pc \in TxPhases, Abandon(held)
    PROVE  IInv'
BY AbandonReleases DEF IInv, Phases

\* The transaction being filled changes, and keeps the flag if it has it.
LEMMA FilledListed ==
    ASSUME IInv, pc \in TxPhases, NEW new, txs' = [txs EXCEPT ![t] = new], "has_flag" \in DOMAIN new,
           tx.has_flag => new.has_flag
    PROVE  /\ t' = t /\ tx' = new /\ Listed(txs') /\ \A H : Owned(H, txs) => Owned(H, txs')
<1> DEFINE k == Len(txs)
<1>1. k \in Nat /\ k >= 1 /\ txs = [n \in 1 .. k |-> txs[n]] /\ \A n \in 1 .. k : "has_flag" \in DOMAIN txs[n]
  BY DEF IInv, Phases, Listed, t
<1> HIDE DEF k
<1>2. txs' = [n \in 1 .. k |-> IF n = k THEN new ELSE txs[n]]
  BY <1>1 DEF t, k
<1>3. Len(txs') = k /\ DOMAIN txs' = 1 .. k /\ DOMAIN txs = 1 .. k
  BY <1>1, <1>2
<1>4. t' = t /\ tx' = new
  <2>1. t = k /\ t' = k
    BY <1>3 DEF t, k
  <2>2. txs'[k] = new
    BY <1>1, <1>2
  <2> QED
    BY <2>1, <2>2 DEF tx
<1>5. Listed(txs')
  BY <1>1, <1>2, <1>3 DEF Listed
<1>6. \A n \in 1 .. k : txs[n].has_flag => txs'[n].has_flag
  BY <1>1, <1>2 DEF tx, t, k
<1>7. ASSUME NEW H, Owned(H, txs) PROVE Owned(H, txs')
  BY <1>3, <1>6, <1>7 DEF Owned
<1> QED
  BY <1>4, <1>5, <1>7

\* The transaction parser reads a field, which makes the transaction new and
\* allocates F, and goes on.
Advances(new, F) ==
    /\ "has_flag" \in DOMAIN new /\ (tx.has_flag => new.has_flag)
    /\ txs' = [txs EXCEPT ![t] = new] /\ payload' = payload
    /\ held' = held \cup F /\ live' = live \cup F /\ txns \notin F /\ Owned(held', txs)
    /\ pc' \in TxPhases \cup {"next_tx", "parsed"}
    /\ pc' = "next_tx" => payload.block
    /\ pc' = "parsed" => ~payload.block
    /\ pc' \in {"txin", "sequence"} => <<"txins", t>> \in held'
    /\ pc' = "txout" => <<"txouts", t>> \in held'
    /\ pc' \in {"witnesses", "num_items", "item"} => new.has_flag
    /\ pc' \in {"num_items", "item"} => <<"witnesses", t>> \in held'

LEMMA Progress ==
    ASSUME IInv, pc \in TxPhases, NEW new, NEW F, Advances(new, F)
    PROVE  IInv'
<1>1. txs' = [txs EXCEPT ![t] = new] /\ payload' = payload /\ Owned(held', txs)
  BY DEF Advances
<1>2. t' = t /\ tx' = new /\ Listed(txs') /\ Owned(held', txs')
  BY <1>1, FilledListed DEF Advances
<1>3. t >= 1 /\ (payload.block => txns \in held) /\ (~payload.block => t = 1 /\ txns \notin held)
  BY DEF IInv, Phases
<1>4. /\ (payload.block => txns \in held') /\ (~payload.block => txns \notin held')
      /\ held' \subseteq live' /\ live' \subseteq held' \cup {mtree}
  BY <1>3 DEF IInv, Advances
<1>5. pc' \notin {"header", "txn_count", "failed", "discarded"}
  BY DEF Advances, TxPhases
<1>6. Phases'
  BY <1>1, <1>2, <1>3, <1>4, <1>5 DEF Phases, TxPhases, Advances
<1> QED
  BY <1>2, <1>4, <1>6 DEF IInv

\* One pointer more is reachable when the array it is in is held, and the flag
\* is set when it is the array of the witnesses.
LEMMA OneMore ==
    ASSUME NEW H, NEW X, Owned(H, X), NEW n \in DOMAIN X, NEW f, f[2] = n,
           f[1] \in FieldNames \ {"txns"},
           f[1] = "txins" => f = <<"txins", n>>,
           f[1] = "txouts" => f = <<"txouts", n>>,
           f[1] = "witnesses" => f = <<"witnesses", n>> /\ X[n].has_flag,
           f[1] = "txin.scripts" => <<"txins", n>> \in H,
           f[1] = "txout.scripts" => <<"txouts", n>> \in H,
           f[1] \in {"items", "item"} => <<"witnesses", n>> \in H
    PROVE  Owned(H \cup {f}, X) /\ f # txns
<1>1. f # txns
  BY DEF txns
<1> DEFINE G == H \cup {f}
<1> SUFFICES ASSUME NEW g \in G
             PROVE  /\ g[1] \in FieldNames
                    /\ g[1] = "txns" => g = txns
                    /\ g[1] # "txns" => g[2] \in DOMAIN X
                    /\ g[1] \in {"txins", "txin.scripts"} => <<"txins", g[2]>> \in G
                    /\ g[1] \in {"txouts", "txout.scripts"} => <<"txouts", g[2]>> \in G
                    /\ g[1] \in {"items", "item"} => <<"witnesses", g[2]>> \in G
                    /\ g[1] = "witnesses" => g = <<"witnesses", g[2]>> /\ X[g[2]].has_flag
  BY <1>1 DEF Owned
<1>2. H \subseteq G /\ f \in G
  OBVIOUS
<1>3. CASE g = f
  BY <1>2, <1>3
<1>4. CASE g \in H
  <2> HIDE DEF G
  <2> QED
    BY <1>2, <1>4 DEF Owned
<1> QED
  BY <1>3, <1>4

\* The transaction at the end of the list, while it is being filled.
LEMMA Filling ==
    ASSUME IInv, pc \in TxPhases
    PROVE  t \in DOMAIN txs /\ "has_flag" \in DOMAIN tx /\ Owned(held, txs)
BY DEF IInv, Phases, Listed, t, tx

\* Each action that reads a field keeps the invariant.
LEMMA VersionStep == ASSUME IInv, parse_version PROVE IInv'
<1>1. pc \in TxPhases
  BY DEF parse_version, TxPhases
<1>2. CASE ~Has(1)
  BY <1>1, <1>2, AbandonAll DEF parse_version
<1>3. CASE Has(1)
  <2> DEFINE new == [tx EXCEPT !.version = byte(p)]
  <2>1. "has_flag" \in DOMAIN new /\ new.has_flag = tx.has_flag
    BY <1>1, Filling
  <2> HIDE DEF new
  <2>2. Filled(new, 1) /\ pc' = "flag" /\ held' = held \cup {} /\ live' = live \cup {}
    BY <1>3 DEF parse_version, new
  <2>3. Advances(new, {})
    BY <1>1, <2>1, <2>2, Filling DEF Advances, Filled, TxPhases
  <2> QED
    BY <1>1, <2>3, Progress
<1> QED
  BY <1>2, <1>3

LEMMA FlagStep == ASSUME IInv, parse_flag PROVE IInv'
<1>1. pc \in TxPhases
  BY DEF parse_flag, TxPhases
<1>2. CASE ~Has(2) \/ (byte(p) = 0 /\ byte(p + 1) # 1)
  BY <1>1, <1>2, AbandonAll DEF parse_flag
<1>3. CASE ~(~Has(2) \/ (byte(p) = 0 /\ byte(p + 1) # 1))
  <2>1. pc' = "txin_count" /\ held' = held \cup {} /\ live' = live \cup {}
    BY <1>3 DEF parse_flag
  <2>2. CASE byte(p) = 0
    <3> DEFINE new == [tx EXCEPT !.has_flag = TRUE]
    <3>1. "has_flag" \in DOMAIN new /\ new.has_flag
      BY <1>1, Filling
    <3> HIDE DEF new
    <3>2. Filled(new, 2)
      BY <1>3, <2>2 DEF parse_flag, new
    <3>3. Advances(new, {})
      BY <1>1, <2>1, <3>1, <3>2, Filling DEF Advances, Filled, TxPhases
    <3> QED
      BY <1>1, <3>3, Progress
  <2>3. CASE byte(p) # 0
    <3>1. Filled(tx, 0)
      BY <1>3, <2>3 DEF parse_flag
    <3>2. Advances(tx, {})
      BY <1>1, <2>1, <3>1, Filling DEF Advances, Filled, TxPhases
    <3> QED
      BY <1>1, <3>2, Progress
  <2> QED
    BY <2>2, <2>3
<1> QED
  BY <1>2, <1>3

LEMMA TxinCountStep == ASSUME IInv, parse_txin_count PROVE IInv'
<1>1. pc \in TxPhases
  BY DEF parse_txin_count, TxPhases
<1>2. CASE ~parse_varint \/ varint_get(p) = 0
  BY <1>1, <1>2, AbandonAll DEF parse_txin_count
<1>3. CASE ~(~parse_varint \/ varint_get(p) = 0)
  <2> DEFINE new == [tx EXCEPT !.txin_count = varint_get(p), !.canonical = short_count, !.body[1] = p]
             f == <<"txins", t>>
  <2>1. "has_flag" \in DOMAIN new /\ new.has_flag = tx.has_flag
    BY <1>1, Filling
  <2> HIDE DEF new
  <2>2. Filled(new, varint_size(p)) /\ pc' = "txin" /\ held' = held \cup {f} /\ live' = live \cup {f}
    BY <1>3 DEF parse_txin_count, Allocate, new
  <2>3. Owned(held \cup {f}, txs) /\ f # txns
    BY <1>1, Filling, OneMore DEF FieldNames
  <2>4. Advances(new, {f})
    BY <1>1, <2>1, <2>2, <2>3, Filling DEF Advances, Filled, TxPhases
  <2> QED
    BY <1>1, <2>4, Progress
<1> QED
  BY <1>2, <1>3

LEMMA TxinStep == ASSUME IInv, parse_txin PROVE IInv'
<1>1. pc \in TxPhases /\ <<"txins", t>> \in held
  BY DEF parse_txin, TxPhases, IInv, Phases
<1>2. CASE ~Has(1) \/ ~Has(1 + varstr_size(p + 1))
  BY <1>1, <1>2, AbandonAll DEF parse_txin
<1>3. CASE ~(~Has(1) \/ ~Has(1 + varstr_size(p + 1)))
  <2> DEFINE new == [tx EXCEPT !.txins = Append(@, [outpoint |-> byte(p), scripts |-> varstr_clone(p + 1),
                                                    sequence |-> 0])]
             f == <<"txin.scripts", t, Len(tx.txins) + 1>>
  <2>1. "has_flag" \in DOMAIN new /\ new.has_flag = tx.has_flag
    BY <1>1, Filling
  <2> HIDE DEF new
  <2>2. Filled(new, 1 + varstr_size(p + 1)) /\ pc' = "sequence" /\ held' = held \cup {f} /\ live' = live \cup {f}
    BY <1>3 DEF parse_txin, Allocate, new
  <2>3. Owned(held \cup {f}, txs) /\ f # txns
    BY <1>1, Filling, OneMore DEF FieldNames
  <2>4. Advances(new, {f})
    BY <1>1, <2>1, <2>2, <2>3, Filling DEF Advances, Filled, TxPhases
  <2> QED
    BY <1>1, <2>4, Progress
<1> QED
  BY <1>2, <1>3

\* The scripts that satoshi_txin_parse() and satoshi_txout_parse() release
\* themselves leave the rest reachable.
LEMMA WithoutScripts ==
    ASSUME NEW H, NEW X, Owned(H, X), NEW s, s[1] \in {"txin.scripts", "txout.scripts"}
    PROVE  Owned(H \ {s}, X) /\ (txns \in H => txns \in H \ {s})
<1> DEFINE G == H \ {s}
<1>1. \A name, n : name \notin {"txin.scripts", "txout.scripts"} /\ <<name, n>> \in H => <<name, n>> \in G
  OBVIOUS
<1>2. G \subseteq H /\ (txns \in H => txns \in G)
  BY DEF txns
<1> HIDE DEF G
<1>3. Owned(G, X)
  BY <1>1, <1>2 DEF Owned
<1> QED
  BY <1>2, <1>3 DEF G

LEMMA SequenceStep == ASSUME IInv, parse_sequence PROVE IInv'
<1>1. pc \in TxPhases /\ <<"txins", t>> \in held
  BY DEF parse_sequence, TxPhases, IInv, Phases
<1>2. CASE ~Has(1)
  <2> DEFINE s == <<"txin.scripts", t, Len(tx.txins)>>
             H == held \ {s}
  <2>1. Abandon(H)
    BY <1>2 DEF parse_sequence, satoshi_txin_cleanup
  <2>2. s[1] \in {"txin.scripts", "txout.scripts"}
    OBVIOUS
  <2> HIDE DEF s
  <2>3. Owned(H, txs) /\ H \subseteq held /\ (payload.block => txns \in H)
    BY <1>1, <2>2, WithoutScripts DEF IInv, Phases
  <2> HIDE DEF H
  <2> QED
    BY <1>1, <2>1, <2>3, AbandonReleases
<1>3. CASE Has(1)
  <2> DEFINE new == [tx EXCEPT !.txins[Len(tx.txins)].sequence = byte(p)]
  <2>1. "has_flag" \in DOMAIN new /\ new.has_flag = tx.has_flag
    BY <1>1, Filling
  <2> HIDE DEF new
  <2>2. Filled(new, 1) /\ pc' \in {"txout_count", "txin"} /\ held' = held \cup {} /\ live' = live \cup {}
    BY <1>3 DEF parse_sequence, new
  <2>3. Advances(new, {})
    BY <1>1, <2>1, <2>2, Filling DEF Advances, Filled, TxPhases
  <2> QED
    BY <1>1, <2>3, Progress
<1> QED
  BY <1>2, <1>3

LEMMA TxoutCountStep == ASSUME IInv, parse_txout_count PROVE IInv'
<1>1. pc \in TxPhases
  BY DEF parse_txout_count, TxPhases
<1>2. CASE ~parse_varint \/ varint_get(p) = 0
  BY <1>1, <1>2, AbandonAll DEF parse_txout_count
<1>3. CASE ~(~parse_varint \/ varint_get(p) = 0)
  <2> DEFINE new == [tx EXCEPT !.txout_count = varint_get(p), !.canonical = @ /\ short_count]
             f == <<"txouts", t>>
  <2>1. "has_flag" \in DOMAIN new /\ new.has_flag = tx.has_flag
    BY <1>1, Filling
  <2> HIDE DEF new
  <2>2. Filled(new, varint_size(p)) /\ pc' = "txout" /\ held' = held \cup {f} /\ live' = live \cup {f}
    BY <1>3 DEF parse_txout_count, Allocate, new
  <2>3. Owned(held \cup {f}, txs) /\ f # txns
    BY <1>1, Filling, OneMore DEF FieldNames
  <2>4. Advances(new, {f})
    BY <1>1, <2>1, <2>2, <2>3, Filling DEF Advances, Filled, TxPhases
  <2> QED
    BY <1>1, <2>4, Progress
<1> QED
  BY <1>2, <1>3

LEMMA TxoutStep == ASSUME IInv, parse_txout PROVE IInv'
<1>1. pc \in TxPhases /\ <<"txouts", t>> \in held
  BY DEF parse_txout, TxPhases, IInv, Phases
<1>2. CASE ~Has(2) \/ ~Has(1 + varstr_size(p + 1))
  <2> DEFINE s == <<"txout.scripts", t, Len(tx.txouts) + 1>>
             H == held \ {s}
  <2>1. Abandon(H)
    BY <1>2 DEF parse_txout, satoshi_txout_cleanup
  <2>2. s[1] \in {"txin.scripts", "txout.scripts"}
    OBVIOUS
  <2> HIDE DEF s
  <2>3. Owned(H, txs) /\ H \subseteq held /\ (payload.block => txns \in H)
    BY <1>1, <2>2, WithoutScripts DEF IInv, Phases
  <2> HIDE DEF H
  <2> QED
    BY <1>1, <2>1, <2>3, AbandonReleases
<1>3. CASE ~(~Has(2) \/ ~Has(1 + varstr_size(p + 1)))
  <2> DEFINE n == 1 + varstr_size(p + 1)
             new == [tx EXCEPT !.txouts = Append(@, [value |-> byte(p), scripts |-> varstr_clone(p + 1)]),
                               !.body[2] = p + n]
             f == <<"txout.scripts", t, Len(new.txouts)>>
  <2>1. "has_flag" \in DOMAIN new /\ new.has_flag = tx.has_flag
    BY <1>1, Filling
  <2>2. /\ Filled(new, n) /\ held' = held \cup {f} /\ live' = live \cup {f}
        /\ pc' = IF Len(new.txouts) = tx.txout_count THEN after_outputs(tx.has_flag, p + n) ELSE "txout"
    BY <1>3 DEF parse_txout, Allocate
  <2> HIDE DEF new, n
  <2>3. pc' \in {"txout", "witnesses", "lock_time"} /\ (pc' = "witnesses" => tx.has_flag)
    BY <2>2 DEF after_outputs
  <2>4. Owned(held \cup {f}, txs) /\ f # txns
    BY <1>1, Filling, OneMore DEF FieldNames
  <2>5. Advances(new, {f})
    BY <1>1, <2>1, <2>2, <2>3, <2>4, Filling DEF Advances, Filled, TxPhases
  <2> QED
    BY <1>1, <2>5, Progress
<1> QED
  BY <1>2, <1>3

LEMMA WitnessesStep == ASSUME IInv, alloc_witnesses PROVE IInv'
<1>1. pc \in TxPhases /\ tx.has_flag
  BY DEF alloc_witnesses, TxPhases, IInv, Phases
<1> DEFINE f == <<"witnesses", t>>
<1>2. Filled(tx, 0) /\ pc' = "num_items" /\ held' = held \cup {f} /\ live' = live \cup {f}
  BY DEF alloc_witnesses, Allocate
<1>3. Owned(held \cup {f}, txs) /\ f # txns
  BY <1>1, Filling, OneMore DEF FieldNames, tx
<1>4. Advances(tx, {f})
  BY <1>1, <1>2, <1>3, Filling DEF Advances, Filled, TxPhases
<1> QED
  BY <1>1, <1>4, Progress

LEMMA NumItemsStep == ASSUME IInv, parse_num_items PROVE IInv'
<1>1. pc \in TxPhases /\ tx.has_flag /\ <<"witnesses", t>> \in held
  BY DEF parse_num_items, TxPhases, IInv, Phases
<1>2. CASE ~parse_varint
  BY <1>1, <1>2, AbandonAll DEF parse_num_items
<1>3. CASE parse_varint
  <2> DEFINE n == varint_get(p)
             new == [tx EXCEPT !.witnesses = Append(@, <<>>), !.items = n, !.canonical = @ /\ short_count,
                               !.cb_witnesses = @ + varint_size(p)]
             f == <<"items", t, Len(tx.witnesses) + 1>>
             F == IF n > 0 THEN {f} ELSE {}
  <2>1. "has_flag" \in DOMAIN new /\ new.has_flag = tx.has_flag
    BY <1>1, Filling
  <2>2. /\ Filled(new, varint_size(p)) /\ held' = held \cup F /\ live' = live \cup F
        /\ pc' \in {"item", "num_items", "lock_time"}
    BY <1>3 DEF parse_num_items, Allocate
  <2> HIDE DEF new
  <2>3. Owned(held \cup {f}, txs) /\ f # txns
    BY <1>1, Filling, OneMore DEF FieldNames
  <2>4. Owned(held \cup F, txs) /\ txns \notin F
    BY <1>1, <2>3, Filling
  <2> HIDE DEF F
  <2>5. Advances(new, F)
    BY <1>1, <2>1, <2>2, <2>4, Filling DEF Advances, Filled, TxPhases
  <2> QED
    BY <1>1, <2>5, Progress
<1> QED
  BY <1>2, <1>3

LEMMA ItemStep == ASSUME IInv, parse_item PROVE IInv'
<1>1. pc \in TxPhases /\ tx.has_flag /\ <<"witnesses", t>> \in held
  BY DEF parse_item, TxPhases, IInv, Phases
<1>2. CASE ~parse_varstr
  BY <1>1, <1>2, AbandonAll DEF parse_item
<1>3. CASE parse_varstr
  <2> DEFINE i == Len(tx.witnesses)
             new == [tx EXCEPT !.witnesses[i] = Append(@, varstr_clone(p)), !.cb_witnesses = @ + varstr_size(p)]
             f == <<"item", t, i, Len(new.witnesses[i])>>
  <2>1. "has_flag" \in DOMAIN new /\ new.has_flag = tx.has_flag
    BY <1>1, Filling
  <2>2. /\ Filled(new, varstr_size(p)) /\ held' = held \cup {f} /\ live' = live \cup {f}
        /\ pc' \in {"item", "num_items", "lock_time"}
    BY <1>3 DEF parse_item, Allocate
  <2> HIDE DEF new
  <2>3. Owned(held \cup {f}, txs) /\ f # txns
    BY <1>1, Filling, OneMore DEF FieldNames
  <2> HIDE DEF f
  <2>4. Advances(new, {f})
    BY <1>1, <2>1, <2>2, <2>3, Filling DEF Advances, Filled, TxPhases
  <2> QED
    BY <1>1, <2>4, Progress
<1> QED
  BY <1>2, <1>3

LEMMA LockTimeStep == ASSUME IInv, parse_lock_time PROVE IInv'
<1>1. pc \in TxPhases
  BY DEF parse_lock_time, TxPhases
<1>2. CASE ~Has(1)
  BY <1>1, <1>2, AbandonAll DEF parse_lock_time
<1>3. CASE Has(1)
  <2> DEFINE x == [tx EXCEPT !.lock_time = byte(p)]
             new == [x EXCEPT !.txid = <<"txid", hashed(x)>>]
  <2>1. "has_flag" \in DOMAIN new /\ new.has_flag = tx.has_flag
    <3>1. "has_flag" \in DOMAIN x /\ x.has_flag = tx.has_flag
      BY <1>1, Filling
    <3> HIDE DEF x
    <3> QED
      BY <3>1
  <2>2. /\ Filled(new, 1) /\ held' = held \cup {} /\ live' = live \cup {}
        /\ pc' = IF payload.block THEN "next_tx" ELSE "parsed"
    BY <1>3 DEF parse_lock_time
  <2> HIDE DEF new
  <2>3. /\ pc' \in {"next_tx", "parsed"}
        /\ (pc' = "next_tx" => payload.block) /\ (pc' = "parsed" => ~payload.block)
    BY <2>2
  <2>4. Advances(new, {})
    BY <1>1, <2>1, <2>2, <2>3, Filling DEF Advances, Filled, TxPhases
  <2> QED
    BY <1>1, <2>4, Progress
<1> QED
  BY <1>2, <1>3

\* A rejected block is cleaned up.
LEMMA RejectStep ==
    ASSUME IInv, payload.block, held # {} => txns \in held, RejectBlock
    PROVE  IInv'
<1>1. satoshi_block_cleanup(held) = {}
  BY BlockCleanup DEF IInv
<1>2. held' = {} /\ live' = live \ held /\ pc' = "failed" /\ payload' = payload /\ txs' = txs
  BY <1>1 DEF RejectBlock, Release
<1> QED
  BY <1>2 DEF IInv, Phases, Owned, TxPhases

LEMMA HeaderStep == ASSUME IInv, parse_header PROVE IInv'
<1>1. payload.block /\ held = {}
  BY DEF parse_header, IInv, Phases
<1>2. CASE RejectBlock
  BY <1>1, <1>2, RejectStep
<1>3. CASE ~RejectBlock
  <2>1. pc' \in {"parsed", "txn_count"} /\ payload' = payload /\ txs' = txs /\ held' = held /\ live' = live
    BY <1>3 DEF parse_header
  <2> QED
    BY <1>1, <2>1 DEF IInv, Phases, TxPhases
<1> QED
  BY <1>2, <1>3

LEMMA TxnCountStep == ASSUME IInv, parse_txn_count PROVE IInv'
<1>1. payload.block /\ held = {}
  BY DEF parse_txn_count, IInv, Phases
<1>2. CASE RejectBlock
  BY <1>1, <1>2, RejectStep
<1>3. CASE ~RejectBlock
  <2>1. /\ pc' = "next_tx" /\ payload' = payload /\ txs' = txs /\ held' = {txns} /\ live' = live \cup {txns, mtree}
    BY <1>1, <1>3 DEF parse_txn_count, txns, mtree
  <2>2. Owned(held', txs')
    BY <2>1 DEF Owned, txns, FieldNames
  <2> QED
    BY <1>1, <2>1, <2>2 DEF IInv, Phases, TxPhases
<1> QED
  BY <1>2, <1>3

LEMMA NextTxStep == ASSUME IInv, next_tx PROVE IInv'
<1>1. payload.block /\ txns \in held
  BY DEF next_tx, IInv, Phases
<1>2. CASE RejectBlock
  BY <1>1, <1>2, RejectStep
<1>3. CASE ~RejectBlock /\ t < txn_count
  <2>1. txs' = Append(txs, new_tx) /\ pc' = "version" /\ payload' = payload /\ held' = held /\ live' = live
    BY <1>3 DEF next_tx
  <2> DEFINE k == Len(txs)
  <2>2. k \in Nat /\ txs = [n \in 1 .. k |-> txs[n]] /\ \A n \in 1 .. k : "has_flag" \in DOMAIN txs[n]
    BY DEF IInv, Listed
  <2> HIDE DEF k
  <2>3. txs \in Seq({txs[n] : n \in 1 .. k} \cup {new_tx})
    BY <2>2
  <2>4. /\ Len(txs') = k + 1 /\ txs' = [n \in 1 .. k + 1 |-> txs'[n]]
        /\ (\A n \in 1 .. k : txs'[n] = txs[n]) /\ txs'[k + 1] = new_tx
    <3>0. PICK S : txs \in Seq(S) /\ new_tx \in S
      BY <2>3
    <3>1. PICK s \in Seq(S), e \in S : s = txs /\ e = new_tx
      BY <3>0
    <3>2. Len(s) = k
      BY <3>1 DEF k
    <3>3. /\ Append(s, e) \in Seq(S) /\ Len(Append(s, e)) = k + 1
          /\ (\A n \in 1 .. k : Append(s, e)[n] = s[n]) /\ Append(s, e)[k + 1] = e
      BY <3>2
    <3>4. Append(s, e) = [n \in 1 .. k + 1 |-> Append(s, e)[n]]
      <4>1. PICK a \in Seq(S) : a = Append(s, e)
        BY <3>3
      <4>2. a \in [1 .. k + 1 -> S]
        BY <3>3, <4>1, LenProperties
      <4> QED
        BY <4>1, <4>2
    <3> QED
      BY <2>1, <3>1, <3>3, <3>4
  <2>5. "has_flag" \in DOMAIN new_tx
    BY DEF new_tx
  <2>6. Listed(txs')
    <3>1. \A n \in 1 .. k + 1 : n = k + 1 \/ n \in 1 .. k
      BY <2>2
    <3> QED
      BY <2>2, <2>4, <2>5, <3>1 DEF Listed
  <2>7. DOMAIN txs = 1 .. k /\ DOMAIN txs' = 1 .. k + 1 /\ 1 .. k \subseteq 1 .. k + 1
    BY <2>2, <2>4
  <2>8. Owned(held, txs')
    BY <2>4, <2>7 DEF Owned, IInv
  <2>9. t' >= 1
    BY <2>2, <2>4 DEF t
  <2> QED
    BY <1>1, <2>1, <2>6, <2>8, <2>9 DEF IInv, Phases, TxPhases
<1>4. CASE ~RejectBlock /\ ~(t < txn_count)
  <2>1. satoshi_block_cleanup(held) = {}
    BY <1>1, BlockCleanup DEF IInv
  <2>2. PICK H \in {held, {}} :
           /\ held' = H /\ live' = (live \ (held \ H)) \ {mtree}
           /\ pc' = IF H = held THEN "parsed" ELSE "failed"
           /\ payload' = payload /\ txs' = txs
    BY <1>4, <2>1 DEF next_tx, mtree
  <2>3. mtree \notin held
    <3>1. mtree[1] = "mtree"
      BY DEF mtree
    <3>2. "mtree" \notin FieldNames
      BY DEF FieldNames
    <3> QED
      BY <3>1, <3>2 DEF IInv, Owned
  <2>4. held' \subseteq live' /\ live' \subseteq held' \cup {mtree}
    BY <2>2, <2>3 DEF IInv
  <2>5. Owned(held', txs')
    BY <2>2 DEF IInv, Owned
  <2> QED
    BY <1>1, <2>2, <2>4, <2>5 DEF IInv, Phases, TxPhases
<1> QED
  BY <1>2, <1>3, <1>4

LEMMA DiscardStep == ASSUME IInv, Discard PROVE IInv'
<1>1. CASE payload.block
  <2>1. satoshi_block_cleanup(held) = {}
    BY <1>1, BlockCleanup DEF Discard, IInv, Phases
  <2>2. held' = {} /\ live' = live \ held /\ pc' = "discarded" /\ payload' = payload /\ txs' = txs
    BY <1>1, <2>1 DEF Discard, Release
  <2> QED
    BY <1>1, <2>2 DEF IInv, Phases, Owned, TxPhases
<1>2. CASE ~payload.block
  <2>1. t = 1 /\ DOMAIN txs = 1 .. t /\ txns \notin held
    BY <1>2 DEF IInv, Phases, Listed, t
  <2>2. satoshi_tx_cleanup(held, t) = {f \in held : f[2] # t}
    BY <2>1, TxCleanup DEF IInv
  <2>3. ASSUME NEW f \in held PROVE f[2] \in DOMAIN txs
    BY <2>1 DEF IInv, Owned
  <2>4. satoshi_tx_cleanup(held, t) = {}
    BY <2>1, <2>2, <2>3
  <2>5. held' = {} /\ live' = live \ held /\ pc' = "discarded" /\ payload' = payload /\ txs' = txs
    BY <1>2, <2>4 DEF Discard, Release
  <2> QED
    BY <1>2, <2>1, <2>5 DEF IInv, Phases, Owned, TxPhases, t
<1> QED
  BY <1>1, <1>2
-----------------------------------------------------------------------------
(* The theorem *)

LEMMA CodecInitInv == CodecInit => IInv
<1> SUFFICES ASSUME CodecInit PROVE IInv
  OBVIOUS
<1>1. Listed(<<>>) /\ Listed(<<new_tx>>)
  BY DEF Listed, new_tx
<1>2. Listed(txs) /\ t \in Nat /\ (~payload.block => t = 1)
  BY <1>1 DEF CodecInit, t
<1>3. held = {} /\ live = {} /\ pc = IF payload.block THEN "header" ELSE "version"
  BY DEF CodecInit
<1>4. Phases
  BY <1>2, <1>3 DEF Phases, TxPhases
<1> QED
  BY <1>2, <1>3, <1>4 DEF IInv, Owned

LEMMA CodecStep == IInv /\ [CodecNext]_codecVars => IInv'
<1>1. IInv /\ UNCHANGED codecVars => IInv'
  BY DEF codecVars, IInv, Phases, t, tx
<1> QED
  BY <1>1, VersionStep, FlagStep, TxinCountStep, TxinStep, SequenceStep, TxoutCountStep, TxoutStep,
     WitnessesStep, NumItemsStep, ItemStep, LockTimeStep, HeaderStep, TxnCountStep, NextTxStep, DiscardStep
     DEF CodecNext

\* Whatever the payload, at whatever byte a parser gives up: what it allocated
\* for its structures is freed, and so it is by the caller's cleanup after a
\* success.
THEOREM FailureReleases == CodecSpec => []TxFailureReleases
<1>1. IInv => TxFailureReleases
  BY DEF IInv, Phases, TxFailureReleases, mtree
<1> QED
  BY <1>1, CodecInitInv, CodecStep, PTL DEF CodecSpec
-----------------------------------------------------------------------------
(* The merkle tree: what the levels of the definition are, and that        *)
(* recalc() has computed them as far as it got.                            *)

\* f holds the levels above the leaves s, up to the n-th.
LevelsTo(f, s, n) == f = [m \in 0 .. n |-> IF m = 0 THEN s ELSE Paired(f[m - 1])]
Levels(s) == CHOOSE f : LevelsTo(f, s, Len(s))

LEMMA LevelsExist ==
    ASSUME NEW s, NEW n \in Nat
    PROVE  \E f : LevelsTo(f, s, n)
<1> DEFINE T == {m \in Nat : \E f : LevelsTo(f, s, m)}
<1>1. 0 \in T
  <2> DEFINE f == [m \in 0 .. 0 |-> s]
  <2>1. f = [m \in 0 .. 0 |-> IF m = 0 THEN s ELSE Paired(f[m - 1])]
    OBVIOUS
  <2> QED
    BY <2>1, Zenon DEF LevelsTo
<1>2. ASSUME NEW m \in T PROVE m + 1 \in T
  <2>1. PICK f : LevelsTo(f, s, m)
    BY <1>2
  <2> DEFINE g == [i \in 0 .. m + 1 |-> IF i = m + 1 THEN Paired(f[m]) ELSE f[i]]
  <2>2. m \in Nat
    BY <1>2
  <2>3. ASSUME NEW i \in 0 .. m + 1 PROVE g[i] = IF i = 0 THEN s ELSE Paired(g[i - 1])
    <3>1. CASE i = m + 1
      <4>1. i # 0 /\ i - 1 = m /\ m \in 0 .. m + 1 /\ m # m + 1
        BY <2>2, <3>1
      <4> QED
        BY <3>1, <4>1
    <3>2. CASE i # m + 1
      <4>1. i \in 0 .. m /\ g[i] = f[i] /\ (i # 0 => i - 1 \in 0 .. m /\ g[i - 1] = f[i - 1])
        BY <2>2, <3>2
      <4>2. f[i] = IF i = 0 THEN s ELSE Paired(f[i - 1])
        BY <2>1, <4>1 DEF LevelsTo
      <4> QED
        BY <4>1, <4>2
    <3> QED
      BY <3>1, <3>2
  <2>4. g = [i \in 0 .. m + 1 |-> g[i]]
    OBVIOUS
  <2> HIDE DEF g
  <2>5. LevelsTo(g, s, m + 1)
    BY <2>3, <2>4 DEF LevelsTo
  <2> QED
    BY <2>2, <2>5
<1> HIDE DEF T
<1>3. T = Nat
  BY <1>1, <1>2, SetInduction DEF T
<1> QED
  BY <1>3 DEF T

LEMMA LevelsAre ==
    ASSUME NEW s, Len(s) \in Nat
    PROVE  /\ DOMAIN Levels(s) = 0 .. Len(s)
           /\ Levels(s)[0] = s
           /\ \A n \in 1 .. Len(s) : Levels(s)[n] = Paired(Levels(s)[n - 1])
<1> DEFINE f == Levels(s)
<1>1. LevelsTo(f, s, Len(s))
  <2>1. \E g : LevelsTo(g, s, Len(s))
    BY LevelsExist
  <2> QED
    BY <2>1, Zenon DEF Levels
<1> HIDE DEF f
<1>2. /\ DOMAIN f = 0 .. Len(s) /\ f[0] = s
      /\ \A n \in 1 .. Len(s) : f[n] = Paired(f[n - 1])
  BY <1>1 DEF LevelsTo
<1> QED
  BY <1>2 DEF f

\* The first level with one node holds the root.
LEMMA RootIs ==
    ASSUME NEW s, Len(s) \in Nat, NEW n \in 0 .. Len(s), Len(Levels(s)[n]) = 1,
           \A k \in 0 .. n - 1 : Len(Levels(s)[k]) \in Nat /\ Len(Levels(s)[k]) > 1
    PROVE  RootOf(s) = Levels(s)[n][1]
<1> DEFINE f == Levels(s)
           First(m) == Len(f[m]) = 1 /\ \A k \in 0 .. m - 1 : Len(f[k]) > 1
           top == CHOOSE m \in DOMAIN f : First(m)
<1>1. RootOf(s) = f[top][1]
  BY Zenon DEF RootOf, Levels, LevelsTo
<1>2. DOMAIN f = 0 .. Len(s)
  BY LevelsAre
<1>3. n \in DOMAIN f /\ First(n)
  BY <1>2
<1>4. top \in DOMAIN f /\ First(top)
  <2> HIDE DEF First
  <2> QED
    BY <1>3, Zenon
<1> HIDE DEF f, top
<1>5. top = n
  <2>1. n \in Nat /\ top \in Nat
    BY <1>2, <1>4
  <2>2. ASSUME top < n PROVE FALSE
    <3>1. top \in 0 .. n - 1
      BY <2>1, <2>2
    <3>2. Len(f[top]) > 1
      BY <3>1 DEF f
    <3>3. Len(f[top]) = 1
      BY <1>4
    <3> QED
      BY <3>2, <3>3
  <2>3. ASSUME n < top PROVE FALSE
    <3>1. n \in 0 .. top - 1
      BY <2>1, <2>3
    <3>2. Len(f[n]) = 1
      BY DEF f
    <3>3. Len(f[n]) > 1
      BY <1>4, <3>1
    <3> QED
      BY <3>2, <3>3
  <2> QED
    BY <2>1, <2>2, <2>3
<1> QED
  BY <1>1, <1>5 DEF f

\* The room above a layer is half of the room in it.
LEMMA CapacityIs ==
    /\ MaxLayers \in Nat /\ MaxLeaves \in Nat
    /\ capacity[0] = 1
    /\ \A n \in 1 .. MaxLayers : capacity[n] = 2 * capacity[n - 1]
    /\ \A n \in 0 .. MaxLayers : capacity[n] \in Nat
<1> DEFINE Doubles(f, n) == f = [m \in 0 .. n |-> IF m = 0 THEN 1 ELSE 2 * f[m - 1]]
           T == {n \in Nat : \E f : Doubles(f, n)}
<1>1. 0 \in T
  <2> DEFINE f == [m \in 0 .. 0 |-> 1]
  <2>1. f = [m \in 0 .. 0 |-> IF m = 0 THEN 1 ELSE 2 * f[m - 1]]
    OBVIOUS
  <2> QED
    BY <2>1, Zenon
<1>2. ASSUME NEW n \in T PROVE n + 1 \in T
  <2>1. PICK f : Doubles(f, n)
    BY <1>2
  <2> DEFINE g == [i \in 0 .. n + 1 |-> IF i = n + 1 THEN 2 * f[n] ELSE f[i]]
  <2>2. n \in Nat
    BY <1>2
  <2>3. ASSUME NEW i \in 0 .. n + 1 PROVE g[i] = IF i = 0 THEN 1 ELSE 2 * g[i - 1]
    <3>1. CASE i = n + 1
      <4>1. i # 0 /\ i - 1 = n /\ n \in 0 .. n + 1 /\ n # n + 1
        BY <2>2, <3>1
      <4> QED
        BY <3>1, <4>1
    <3>2. CASE i # n + 1
      <4>1. i \in 0 .. n /\ g[i] = f[i] /\ (i # 0 => i - 1 \in 0 .. n /\ g[i - 1] = f[i - 1])
        BY <2>2, <3>2
      <4>2. f[i] = IF i = 0 THEN 1 ELSE 2 * f[i - 1]
        BY <2>1, <4>1
      <4> QED
        BY <4>1, <4>2
    <3> QED
      BY <3>1, <3>2
  <2>4. g = [i \in 0 .. n + 1 |-> g[i]]
    OBVIOUS
  <2> HIDE DEF g
  <2>5. Doubles(g, n + 1)
    BY <2>3, <2>4
  <2> QED
    BY <2>2, <2>5
<1>3. T = Nat
  <2> HIDE DEF T
  <2> QED
    BY <1>1, <1>2, SetInduction DEF T
<1>4. MaxLayers \in Nat /\ MaxLeaves \in Nat
  BY LayersAssumption
<1>5. Doubles(capacity, MaxLayers)
  <2>1. \E f : Doubles(f, MaxLayers)
    BY <1>3, <1>4
  <2> QED
    BY <2>1, Zenon DEF capacity
<1>6. capacity[0] = 1 /\ \A n \in 1 .. MaxLayers : capacity[n] = 2 * capacity[n - 1]
  BY <1>4, <1>5
<1> DEFINE N == {n \in Nat : n <= MaxLayers => capacity[n] \in Nat}
<1>7. 0 \in N
  BY <1>6
<1>8. ASSUME NEW n \in N PROVE n + 1 \in N
  <2>1. n \in Nat /\ (n <= MaxLayers => capacity[n] \in Nat)
    OBVIOUS
  <2>2. SUFFICES ASSUME n + 1 <= MaxLayers PROVE capacity[n + 1] \in Nat
    BY <2>1
  <2>3. n <= MaxLayers /\ n + 1 \in 1 .. MaxLayers /\ (n + 1) - 1 = n
    BY <1>4, <2>1, <2>2
  <2>4. capacity[n + 1] = 2 * capacity[n] /\ capacity[n] \in Nat
    BY <1>6, <2>1, <2>3
  <2> QED
    BY <2>4
<1>9. N = Nat
  <2> HIDE DEF N
  <2> QED
    BY <1>7, <1>8, SetInduction DEF N
<1> QED
  BY <1>4, <1>6, <1>9

\* a shows the n items of s.
Shows(s, a, n) == s = [i \in 1 .. n |-> a[i]]

LEMMA Halves ==
    ASSUME NEW n \in Nat, n > 1, NEW c \in Nat
    PROVE  /\ (n + 1) \div 2 \in 1 .. n - 1
           /\ n <= 2 * c => (n + 1) \div 2 <= c
           /\ \A i \in 1 .. (n + 1) \div 2 :
                 /\ 2 * i - 1 \in 1 .. n
                 /\ i <= n \div 2 <=> ~(2 * i > n)
                 /\ ~(2 * i > n) => 2 * i \in 1 .. n
                 /\ 2 * i > n => i = (n + 1) \div 2 /\ 2 * i - 1 = n
OBVIOUS

\* A new layer has the next level of the definition in its first slots.
LEMMA LayerShows ==
    ASSUME NEW n \in Nat, n > 1, n <= MaxLeaves, NEW s, NEW below, Shows(s, below, n), NEW old
    PROVE  Shows(Paired(s), layer_over(below, n, old), (n + 1) \div 2)
<1> DEFINE half == (n + 1) \div 2
           new == layer_over(below, n, old)
<1>1. Len(s) = n /\ \A i \in 1 .. n : s[i] = below[i]
  BY DEF Shows
<1>2. half \in 1 .. n - 1 /\ MaxLeaves \in Nat
  BY Halves, CapacityIs
<1>3. ASSUME NEW i \in 1 .. half
      PROVE  hash_func(s[2 * i - 1], IF 2 * i > n THEN s[2 * i - 1] ELSE s[2 * i]) = new[i]
  <2>1. i \in Slots
    BY <1>2 DEF Slots
  <2>2. new[i] = IF i <= n \div 2 THEN hash_func(below[2 * i - 1], below[2 * i])
                 ELSE IF i = half THEN hash_func(below[n], below[n]) ELSE old[i]
    BY <2>1 DEF layer_over
  <2>3. /\ 2 * i - 1 \in 1 .. n
        /\ i <= n \div 2 <=> ~(2 * i > n)
        /\ ~(2 * i > n) => 2 * i \in 1 .. n
        /\ 2 * i > n => i = half /\ 2 * i - 1 = n
    BY Halves
  <2>4. CASE 2 * i > n
    BY <1>1, <2>2, <2>3, <2>4, Zenon
  <2>5. CASE ~(2 * i > n)
    BY <1>1, <2>2, <2>3, <2>5, Zenon
  <2> QED
    BY <2>4, <2>5
<1>4. Paired(s) = [i \in 1 .. half |->
                      hash_func(s[2 * i - 1], IF 2 * i > n THEN s[2 * i - 1] ELSE s[2 * i])]
  BY <1>1, Zenon DEF Paired
<1> QED
  <2> HIDE DEF new, half
  <2>1. Paired(s) = [i \in 1 .. half |-> new[i]]
    BY <1>3, <1>4, Zenon
  <2> QED
    BY <2>1, Zenon DEF Shows, new, half

\* The leaves in the tree.
Kept == SubSeq(items, 1, item_count)

LEMMA KeptIs ==
    ASSUME item_count \in Nat
    PROVE  Len(Kept) = item_count /\ Shows(Kept, items, item_count)
<1> DEFINE S == {items[i] : i \in 1 .. item_count}
<1>1. \A i \in 1 .. item_count : items[i] \in S
  BY Zenon
<1> HIDE DEF S
<1>2. /\ Kept \in Seq(S)
      /\ Len(Kept) = IF 1 <= item_count THEN item_count - 1 + 1 ELSE 0
      /\ \A i \in 1 .. item_count - 1 + 1 : Kept[i] = items[1 + i - 1]
  <2>1. 1 \in Int /\ item_count \in Int
    OBVIOUS
  <2> QED
    BY <1>1, <2>1, SubSeqProperties DEF Kept
<1>3. Len(Kept) = item_count
  BY <1>2
<1>4. \A i \in 1 .. item_count : Kept[i] = items[i]
  BY <1>2
<1> QED
  BY <1>2, <1>3, <1>4 DEF Shows

\* The slots recalc() reads for layer l, and what they hold: level l - 1.
Below(l) == IF l = 1 THEN items ELSE layers[l - 1]
Climbed(l, n) ==
    /\ n > 1 /\ n <= capacity[MaxLayers + 1 - l] /\ l - 1 + n <= item_count
    /\ Shows(Levels(Kept)[l - 1], Below(l), n)
    /\ \A k \in 0 .. l - 1 : Len(Levels(Kept)[k]) \in Nat /\ Len(Levels(Kept)[k]) > 1

MerkleInv ==
    /\ item_count \in 0 .. MaxLeaves /\ DOMAIN layers = LayerIndex
    /\ MerkleIdle \/ \E l \in LayerIndex, n \in Nat : recalculating = <<l, n>> /\ Climbed(l, n)
    /\ MerkleRootRight

LEMMA MerkleInitInv == MerkleInit => MerkleInv
<1> SUFFICES ASSUME MerkleInit PROVE MerkleInv
  OBVIOUS
<1>1. item_count = 0 /\ DOMAIN layers = LayerIndex /\ MerkleIdle /\ fresh = FALSE
  BY DEF MerkleInit, MerkleIdle
<1>2. item_count \in 0 .. MaxLeaves
  BY <1>1, CapacityIs
<1> QED
  BY <1>1, <1>2 DEF MerkleInv, MerkleRootRight

LEMMA MerkleAddStep ==
    ASSUME MerkleInv, NEW new, merkle_tree_add(new), Len(new) \in Nat
    PROVE  MerkleInv'
<1>1. item_count' = item_count + Len(new) /\ item_count + Len(new) <= MaxLeaves
      /\ recalculating' = recalculating /\ MerkleIdle /\ layers' = layers /\ fresh' = FALSE
  BY DEF merkle_tree_add
<1>2. item_count' \in 0 .. MaxLeaves
  BY <1>1, CapacityIs DEF MerkleInv
<1> QED
  BY <1>1, <1>2 DEF MerkleInv, MerkleIdle, MerkleRootRight

LEMMA MerkleChangeStep ==
    ASSUME MerkleInv, NEW i \in 1 .. MaxLeaves, NEW a,
           merkle_tree_remove(i) \/ merkle_tree_set(i, a)
    PROVE  MerkleInv'
<1>1. /\ i \in 1 .. item_count
      /\ item_count' = item_count - 1 \/ item_count' = item_count
      /\ recalculating' = recalculating /\ MerkleIdle /\ layers' = layers /\ fresh' = FALSE
  BY DEF merkle_tree_remove, merkle_tree_set
<1>2. item_count' \in 0 .. MaxLeaves
  BY <1>1, CapacityIs DEF MerkleInv
<1> QED
  BY <1>1, <1>2 DEF MerkleInv, MerkleIdle, MerkleRootRight

\* Without leaves there is nothing to show; a single one is the root; else
\* the first layer is to be made, and the leaves are the level below it.
LEMMA MerkleRecalcStep == ASSUME MerkleInv, merkle_tree_recalc PROVE MerkleInv'
<1>1. /\ items' = items /\ item_count' = item_count /\ layers' = layers
      /\ merkle_root' = IF item_count = 1 THEN items[1] ELSE merkle_root
      /\ recalculating' = IF item_count <= 1 THEN <<>> ELSE <<1, item_count>>
  BY DEF merkle_tree_recalc
<1>2. item_count \in Nat /\ item_count <= MaxLeaves /\ MaxLeaves \in Nat /\ MaxLayers \in Nat
  BY CapacityIs DEF MerkleInv
<1>3. Kept' = Kept
  BY <1>1 DEF Kept
<1>4. Len(Kept) = item_count /\ Shows(Kept, items, item_count)
  BY <1>2, KeptIs
<1>5. Levels(Kept)[0] = Kept
  BY <1>2, <1>4, LevelsAre
<1>6. CASE item_count = 0
  BY <1>1, <1>2, <1>6 DEF MerkleInv, MerkleIdle, MerkleRootRight
<1>7. CASE item_count = 1
  <2>1. RootOf(Kept) = Levels(Kept)[0][1]
    <3>1. Len(Levels(Kept)[0]) = 1 /\ Len(Kept) \in Nat /\ 0 \in 0 .. Len(Kept)
      BY <1>4, <1>5, <1>7
    <3>2. 0 .. 0 - 1 = {}
      OBVIOUS
    <3> QED
      BY <3>1, <3>2, RootIs
  <2>2. Levels(Kept)[0][1] = items[1]
    BY <1>4, <1>5, <1>7 DEF Shows
  <2>3. recalculating' = <<>> /\ merkle_root' = RootOf(Kept)'
    BY <1>1, <1>3, <1>7, <2>1, <2>2
  <2> QED
    BY <1>1, <2>3 DEF MerkleInv, MerkleIdle, MerkleRootRight, Kept
<1>8. CASE item_count > 1
  <2>1. MaxLeaves <= capacity[MaxLayers] /\ capacity[0] = 1 /\ capacity[MaxLayers] \in Nat
    BY <1>2, CapacityIs, LayersAssumption
  <2>2. MaxLayers # 0
    BY <1>2, <1>8, <2>1
  <2>3. 1 \in LayerIndex /\ MaxLayers + 1 - 1 = MaxLayers /\ 1 - 1 = 0
    BY <1>2, <2>2 DEF LayerIndex
  <2>4. item_count <= capacity[MaxLayers]
    BY <1>2, <2>1
  <2>5. Climbed(1, item_count)
    <3>1. \A k \in 0 .. 0 : Len(Levels(Kept)[k]) \in Nat /\ Len(Levels(Kept)[k]) > 1
      BY <1>2, <1>4, <1>5, <1>8
    <3>2. Below(1) = items
      BY DEF Below
    <3>3. 0 + item_count <= item_count
      BY <1>2
    <3> QED
      BY <1>4, <1>5, <1>8, <2>3, <2>4, <3>1, <3>2, <3>3 DEF Climbed
  <2>6. Climbed(1, item_count)'
    BY <1>1, <1>3, <2>5 DEF Climbed, Below
  <2>7. recalculating' = <<1, item_count'>> /\ item_count' \in Nat
    BY <1>1, <1>2, <1>8
  <2>8. ~MerkleIdle'
    BY <2>7 DEF MerkleIdle
  <2> QED
    BY <1>1, <2>3, <2>6, <2>7, <2>8 DEF MerkleInv, MerkleRootRight
<1> QED
  BY <1>2, <1>6, <1>7, <1>8

LEMMA LayerStep == ASSUME MerkleInv, recalc_layer PROVE MerkleInv'
<1>1. PICK l \in LayerIndex, n \in Nat : recalculating = <<l, n>> /\ Climbed(l, n)
  BY DEF MerkleInv, recalc_layer
<1> DEFINE size == (n + 1) \div 2
           new == layer_over(Below(l), n, layers[l])
           L == Levels(Kept)
<1>2. /\ layers' = [layers EXCEPT ![l] = new]
      /\ recalculating' = IF size = 1 \/ l = MaxLayers THEN <<>> ELSE <<l + 1, size>>
      /\ merkle_root' = IF size = 1 THEN layers'[l][1] ELSE merkle_root
      /\ items' = items /\ item_count' = item_count /\ fresh' = fresh
  <2>1. recalculating[1] = l /\ recalculating[2] = n
    BY <1>1
  <2> HIDE <1>1
  <2> QED
    BY <2>1, Zenon DEF recalc_layer, Below
<1>3. /\ item_count \in Nat /\ item_count <= MaxLeaves /\ MaxLeaves \in Nat /\ MaxLayers \in Nat
      /\ l \in Nat /\ l >= 1 /\ l <= MaxLayers
  BY CapacityIs DEF MerkleInv, LayerIndex
<1>4. n > 1 /\ n <= capacity[MaxLayers + 1 - l] /\ l - 1 + n <= item_count
      /\ Shows(L[l - 1], Below(l), n)
      /\ \A k \in 0 .. l - 1 : Len(L[k]) \in Nat /\ Len(L[k]) > 1
  BY <1>1 DEF Climbed
<1>5. Kept' = Kept
  BY <1>2 DEF Kept
<1>6. Len(Kept) = item_count
  BY <1>3, KeptIs
<1>7. layers'[l] = new /\ DOMAIN layers' = LayerIndex
  BY <1>1, <1>2 DEF MerkleInv
<1>8. size \in 1 .. n - 1
  BY <1>4, Halves
<1>9. l \in 1 .. Len(Kept)
  BY <1>3, <1>4, <1>6
<1>10. Shows(L[l], new, size)
  <2>1. L[l] = Paired(L[l - 1])
    BY <1>3, <1>6, <1>9, LevelsAre
  <2>2. n <= MaxLeaves
    BY <1>3, <1>4
  <2>3. Shows(Paired(L[l - 1]), new, size)
    <3> HIDE DEF L
    <3> QED
      BY <1>4, <2>2, LayerShows
  <2> QED
    BY <2>1, <2>3
<1>11. Len(L[l]) = size
  <2> HIDE DEF L, new, size
  <2> QED
    BY <1>8, <1>10 DEF Shows
<1>12. CASE size = 1
  <2>1. RootOf(Kept) = L[l][1]
    <3>1. Len(Kept) \in Nat /\ l \in 0 .. Len(Kept) /\ Len(L[l]) = 1
      BY <1>3, <1>6, <1>9, <1>11, <1>12
    <3> QED
      BY <1>4, <3>1, RootIs
  <2>2. L[l][1] = new[1]
    <3> HIDE DEF L, new, size
    <3> QED
      BY <1>10, <1>12 DEF Shows
  <2>3. merkle_root' = RootOf(Kept)' /\ recalculating' = <<>>
    <3> HIDE DEF L, new, size
    <3> QED
      BY <1>2, <1>5, <1>7, <1>12, <2>1, <2>2
  <2> QED
    BY <1>2, <1>3, <1>7, <2>3 DEF MerkleInv, MerkleIdle, MerkleRootRight, Kept
<1>13. CASE size # 1
  <2>1. /\ MaxLayers + 1 - l \in 1 .. MaxLayers
        /\ (MaxLayers + 1 - l) - 1 = MaxLayers - l /\ MaxLayers - l \in 0 .. MaxLayers
    BY <1>3
  <2>2. capacity[MaxLayers + 1 - l] = 2 * capacity[MaxLayers - l] /\ capacity[MaxLayers - l] \in Nat
    BY <2>1, CapacityIs
  <2>3. size <= capacity[MaxLayers - l]
    BY <1>4, <2>2, Halves
  <2>4. l # MaxLayers
    <3>1. ASSUME l = MaxLayers PROVE FALSE
      <4>1. MaxLayers - l = 0 /\ capacity[0] = 1
        BY <1>3, <3>1, CapacityIs
      <4>2. size <= 1
        BY <2>3, <4>1
      <4> QED
        BY <1>8, <1>13, <4>2
    <3> QED
      BY <3>1
  <2> HIDE DEF L, new, size
  <2>5. /\ l + 1 \in LayerIndex /\ (l + 1) - 1 = l /\ MaxLayers + 1 - (l + 1) = MaxLayers - l
        /\ l + 1 # 1
    BY <1>3, <2>4 DEF LayerIndex
  <2>6. recalculating' = <<l + 1, size>> /\ size \in Nat /\ size > 1 /\ l + size <= item_count
    BY <1>2, <1>3, <1>4, <1>8, <1>13, <2>4
  <2>7. Below(l + 1)' = new
    BY <1>7, <2>5 DEF Below
  <2>8. \A k \in 0 .. l : Len(L[k]) \in Nat /\ Len(L[k]) > 1
    <3>1. SUFFICES ASSUME NEW k \in 0 .. l PROVE Len(L[k]) \in Nat /\ Len(L[k]) > 1
      OBVIOUS
    <3>2. k = l \/ k \in 0 .. l - 1
      BY <1>3
    <3> QED
      BY <1>4, <1>11, <2>6, <3>2
  <2>9. L' = L
    BY <1>5 DEF L
  <2>10. Climbed(l + 1, size)'
    <3>1. Shows(L[l], Below(l + 1)', size)
      BY <1>10, <2>7
    <3>2. size <= capacity[MaxLayers + 1 - (l + 1)] /\ (l + 1) - 1 + size <= item_count'
      BY <1>2, <2>3, <2>5, <2>6
    <3>3. Levels(Kept)' = L
      BY <2>9 DEF L
    <3> QED
      BY <2>5, <2>6, <2>8, <3>1, <3>2, <3>3 DEF Climbed, Shows
  <2>11. ~MerkleIdle'
    BY <2>6 DEF MerkleIdle
  <2> QED
    BY <1>2, <1>3, <1>7, <2>5, <2>6, <2>10, <2>11 DEF MerkleInv, MerkleRootRight
<1> QED
  BY <1>12, <1>13

LEMMA MerkleStep == MerkleInv /\ [MerkleNext]_merkleVars => MerkleInv'
<1> SUFFICES ASSUME MerkleInv, [MerkleNext]_merkleVars PROVE MerkleInv'
  OBVIOUS
<1>1. CASE UNCHANGED merkleVars
  BY <1>1 DEF merkleVars, MerkleInv, MerkleIdle, MerkleRootRight, Climbed, Below, Kept
<1>2. ASSUME NEW a \in Leaves, merkle_tree_add(<<a>>) PROVE MerkleInv'
  <2>1. Len(<<a>>) \in Nat
    OBVIOUS
  <2> QED
    BY <1>2, <2>1, MerkleAddStep, Zenon
<1>3. ASSUME NEW a \in Leaves, NEW b \in Leaves, merkle_tree_add(<<a, b>>) PROVE MerkleInv'
  <2>1. Len(<<a, b>>) \in Nat
    OBVIOUS
  <2> QED
    BY <1>3, <2>1, MerkleAddStep, Zenon
<1>4. ASSUME NEW i \in 1 .. MaxLeaves, merkle_tree_remove(i) PROVE MerkleInv'
  BY <1>4, MerkleChangeStep
<1>5. ASSUME NEW i \in 1 .. MaxLeaves, NEW a \in Leaves, merkle_tree_set(i, a) PROVE MerkleInv'
  BY <1>5, MerkleChangeStep
<1> QED
  BY <1>1, <1>2, <1>3, <1>4, <1>5, MerkleRecalcStep, LayerStep, Zenon DEF MerkleNext

\* For any number of leaves that the layers can take, in any order of additions,
\* replacements and removals between the calls: recalc() leaves the root that
\* the definition gives for the leaves now in the tree.
THEOREM RootHolds == MerkleSpec => []MerkleRootRight
<1>1. MerkleInv => MerkleRootRight
  BY DEF MerkleInv
<1> QED
  BY <1>1, MerkleInitInv, MerkleStep, PTL DEF MerkleSpec
-----------------------------------------------------------------------------
(* What the bytes read so far are *)

\* The bytes of D from offset a up to offset b are s.
Piece(D, a, b, s) == b \in 0 .. Len(D) /\ a \in 0 .. b /\ SubSeq(D, a + 1, b) = s

\* The first k of a list, serialised.
Inputs(x, k) == Concat([i \in 1 .. k |-> satoshi_txin_serialize(x.txins[i])])
Outputs(x, k) == Concat([i \in 1 .. k |-> satoshi_txout_serialize(x.txouts[i])])
Witnesses(x, k) == Concat([i \in 1 .. k |-> serialize_witness(x.witnesses[i])])
Transactions(X, k) == Concat([i \in 1 .. k |-> satoshi_tx_serialize(X[i])])

Opened(D, x, s, b) == Piece(D, s, b, <<x.version>> \o (IF x.has_flag THEN <<0, 1>> ELSE <<>>))

InputsPart(D, x, k, a, b) ==
    \E m \in 0 .. b : Piece(D, a, m, varint_set_data(x.txin_count)) /\ Piece(D, m, b, Inputs(x, k))
OutputsPart(D, x, k, a, b) ==
    \E m \in 0 .. b : Piece(D, a, m, varint_set_data(x.txout_count)) /\ Piece(D, m, b, Outputs(x, k))

\* The part txid is about is between the two offsets in body.
Framed(D, x, s) ==
    /\ Opened(D, x, s, x.body[1])
    /\ \E m \in 0 .. x.body[2] : /\ Piece(D, x.body[1], m, serialize_inputs(x))
                                 /\ Piece(D, m, x.body[2], serialize_outputs(x))

\* Transaction x begins at offset s, its field c comes next, at offset q.
ReadSoFar(D, x, s, c, q) ==
    /\ c = "version"     => q = s
    /\ c = "flag"        => Piece(D, s, q, <<x.version>>)
    /\ c = "txin_count"  => Opened(D, x, s, q)
    /\ c = "txin"        => Opened(D, x, s, x.body[1]) /\ InputsPart(D, x, Len(x.txins), x.body[1], q)
    /\ c = "sequence"    => /\ Opened(D, x, s, x.body[1])
                            /\ \E m \in 0 .. q :
                                  /\ InputsPart(D, x, Len(x.txins) - 1, x.body[1], m)
                                  /\ Piece(D, m, q, <<Last(x.txins).outpoint>> \o Last(x.txins).scripts)
    /\ c = "txout_count" => Opened(D, x, s, x.body[1]) /\ Piece(D, x.body[1], q, serialize_inputs(x))
    /\ c = "txout"       => /\ Opened(D, x, s, x.body[1])
                            /\ \E m \in 0 .. q : /\ Piece(D, x.body[1], m, serialize_inputs(x))
                                                 /\ OutputsPart(D, x, Len(x.txouts), m, q)
    /\ c \in {"witnesses", "num_items", "item", "lock_time"} => Framed(D, x, s)
    /\ c = "witnesses"   => q = x.body[2]
    /\ c = "num_items"   => Piece(D, x.body[2], q, Witnesses(x, Len(x.witnesses)))
    /\ c = "item"        => \E m \in 0 .. q : \E n \in m .. q :
                               /\ Piece(D, x.body[2], m, Witnesses(x, Len(x.witnesses) - 1))
                               /\ Piece(D, m, n, varint_set_data(x.items))
                               /\ Piece(D, n, q, Concat(Last(x.witnesses)))
    /\ c = "lock_time"   => Piece(D, x.body[2], q, IF x.has_flag THEN Witnesses(x, Len(x.witnesses)) ELSE <<>>)

\* What is not read yet is as in a new transaction.
Unread(x, c) ==
    /\ c \in {"version", "flag"} => ~x.has_flag
    /\ c \in {"version", "flag", "txin_count"} => x.canonical /\ x.txins = <<>>
    /\ c \in {"version", "flag", "txin_count", "txin", "sequence", "txout_count"} => x.txouts = <<>>
    /\ c \in TxPhases \ {"num_items", "item", "lock_time"} => x.witnesses = <<>>
    /\ c = "sequence" => x.txins # <<>> /\ Last(x.txins).sequence = 0
    /\ c \in {"num_items", "item"} => x.has_flag
    /\ c = "item" => x.witnesses # <<>> /\ Len(Last(x.witnesses)) < x.items

TxFields == {"version", "has_flag", "txin_count", "txins", "txout_count", "txouts", "witnesses", "items",
             "cb_witnesses", "lock_time", "body", "canonical", "txid"}

TxIn == [outpoint : Nat, scripts : Seq(Nat), sequence : Nat]
TxOut == [value : Nat, scripts : Seq(Nat)]
Witness == Seq(Seq(Nat))

TxType(x) ==
    /\ DOMAIN x = TxFields
    /\ x.version \in Nat /\ x.has_flag \in BOOLEAN /\ x.txin_count \in Nat /\ x.txout_count \in Nat
    /\ x.txins \in Seq(TxIn)
    /\ x.txouts \in Seq(TxOut)
    /\ x.witnesses \in Seq(Witness) /\ x.items \in Nat /\ x.lock_time \in Nat
    /\ x.body \in Seq(Nat) /\ Len(x.body) = 2 /\ x.canonical \in BOOLEAN

IdRight(x) == x.canonical => x.txid = <<"txid", satoshi_tx_serialize([x EXCEPT !.has_flag = FALSE])>>

\* The first k transactions, and what comes before the first, end at offset s.
Before(B, D, N, h, X, k, s) ==
    IF B THEN /\ k <= N /\ N >= 1 /\ s \in 1 .. Len(D)
              /\ (h /\ \A i \in 1 .. k : X[i].canonical) =>
                    \E m \in 1 .. s : Piece(D, 1, m, varint_set_data(N)) /\ Piece(D, m, s, Transactions(X, k))
    ELSE s = 0

\* The first q bytes of D, those of a block if B, have been read into the
\* transactions X, and field c comes next; N is the number a block announces,
\* in its shortest form if h.
Round(B, D, N, h, X, c, q) ==
    /\ q \in 0 .. Len(D) /\ N \in Nat
    /\ \A i \in 1 .. Len(X) : TxType(X[i]) /\ (i < Len(X) \/ c \in {"next_tx", "parsed"} => IdRight(X[i]))
    /\ c = "header" => q = 0 /\ X = <<>>
    /\ c = "txn_count" => q = 1 /\ X = <<>>
    /\ c \in TxPhases =>
          /\ B => Len(X) <= N
          /\ Unread(X[Len(X)], c)
          /\ \E s \in 0 .. q : /\ Before(B, D, N, h, X, Len(X) - 1, s)
                               /\ X[Len(X)].canonical => ReadSoFar(D, X[Len(X)], s, c, q)
    /\ c = "next_tx" => Before(B, D, N, h, X, Len(X), q)
    /\ c = "parsed" =>
          IF B THEN (X = <<>> /\ q = 1) \/ (X # <<>> /\ Len(X) = N /\ Before(B, D, N, h, X, N, q))
          ELSE X[Len(X)].canonical => Piece(D, 0, q, satoshi_tx_serialize(X[Len(X)]))

shortest == varint_size(1) = varint_calc_size(txn_count)

RoundInv ==
    /\ payload \in Payloads
    /\ pc \notin {"failed", "discarded"} => Round(payload.block, payload.data, txn_count, shortest, txs, pc, p)
-----------------------------------------------------------------------------
(* Pieces of the payload *)

\* Next to each other they are one.
LEMMA PieceJoin ==
    ASSUME NEW D \in Seq(Nat), NEW a, NEW b, NEW c, NEW s, NEW u, Piece(D, a, b, s), Piece(D, b, c, u)
    PROVE  Piece(D, a, c, s \o u)
<1>1. /\ Len(D) \in Nat /\ c \in 0 .. Len(D) /\ b \in 0 .. c /\ a \in 0 .. b
      /\ s = SubSeq(D, a + 1, b) /\ u = SubSeq(D, b + 1, c)
  BY DEF Piece
<1>2. a + 1 \in 1 .. Len(D) + 1 /\ b \in (a + 1) - 1 .. Len(D) /\ c \in b .. Len(D) /\ a \in 0 .. c
  BY <1>1
<1>3. SubSeq(D, a + 1, b) \o SubSeq(D, b + 1, c) = SubSeq(D, a + 1, c)
  BY <1>2, ConcatAdjacentSubSeq
<1> QED
  BY <1>1, <1>2, <1>3 DEF Piece

\* A piece of no bytes.
LEMMA PieceNone ==
    ASSUME NEW D \in Seq(Nat), NEW a \in 0 .. Len(D)
    PROVE  Piece(D, a, a, <<>>)
<1>1. Len(D) \in Nat /\ a \in Int /\ a + 1 \in Int /\ a < a + 1
  OBVIOUS
<1>2. SubSeq(D, a + 1, a) = <<>>
  BY <1>1, SubSeqEmpty
<1> QED
  BY <1>1, <1>2 DEF Piece

\* A piece given byte by byte.
LEMMA PieceIs ==
    ASSUME NEW D \in Seq(Nat), NEW a \in Nat, NEW s \in Seq(Nat), a + Len(s) <= Len(D),
           \A i \in 1 .. Len(s) : s[i] = D[a + i]
    PROVE  Piece(D, a, a + Len(s), s)
<1>1. PICK n \in Nat : n = Len(s)
  OBVIOUS
<1>2. PICK m \in Nat, e \in Nat : /\ m = a + 1 /\ e = a + n /\ e - m + 1 = n /\ e \in 0 .. Len(D) /\ a \in 0 .. e
                                /\ (m <= e <=> 1 <= n) /\ \A i \in 1 .. n : m + i - 1 = a + i
  <2>1. /\ a + 1 \in Nat /\ a + n \in Nat /\ (a + n) - (a + 1) + 1 = n /\ a + n \in 0 .. Len(D)
        /\ a \in 0 .. a + n /\ (a + 1 <= a + n <=> 1 <= n) /\ \A i \in 1 .. n : (a + 1) + i - 1 = a + i
    BY <1>1
  <2> QED
    BY <2>1, Zenon
<1>3. \A i \in m .. e : D[i] \in Nat
  BY <1>2
<1>4. PICK u : u = SubSeq(D, m, e)
  OBVIOUS
<1>5. u \in Seq(Nat) /\ Len(u) = n /\ \A i \in 1 .. n : u[i] = D[a + i]
  <2>1. /\ SubSeq(D, m, e) \in Seq(Nat) /\ Len(SubSeq(D, m, e)) = IF m <= e THEN e - m + 1 ELSE 0
        /\ \A i \in 1 .. e - m + 1 : SubSeq(D, m, e)[i] = D[m + i - 1]
    <3>1. m \in Int /\ e \in Int
      OBVIOUS
    <3> QED
      BY <1>3, <3>1, SubSeqProperties
  <2>2. Len(u) = n
    BY <1>1, <1>2, <1>4, <2>1
  <2> QED
    BY <1>2, <1>4, <2>1, <2>2, Zenon
<1>6. u = s
  BY <1>1, <1>4, <1>5, SeqEqual
<1> QED
  BY <1>1, <1>2, <1>4, <1>6, Zenon DEF Piece

\* Pieces of one to five bytes.
LEMMA PieceOne ==
    ASSUME NEW D \in Seq(Nat), NEW a \in Nat, a < Len(D), NEW x \in Nat, x = D[a + 1]
    PROVE  Piece(D, a, a + 1, <<x>>)
<1> DEFINE s == <<x>>
<1>1. s \in Seq(Nat) /\ Len(s) = 1 /\ s[1] = x
  OBVIOUS
<1> HIDE DEF s
<1>2. a + Len(s) <= Len(D) /\ \A i \in 1 .. Len(s) : s[i] = D[a + i]
  BY <1>1
<1>3. Piece(D, a, a + Len(s), s)
  BY <1>1, <1>2, PieceIs
<1> QED
  BY <1>1, <1>3 DEF s

LEMMA PieceTwo ==
    ASSUME NEW D \in Seq(Nat), NEW a \in Nat, a + 2 <= Len(D),
           NEW v \in Nat, v = D[a + 1], NEW w \in Nat, w = D[a + 2]
    PROVE  Piece(D, a, a + 2, <<v, w>>)
<1> DEFINE s == <<v, w>>
<1>1. s \in Seq(Nat) /\ Len(s) = 2 /\ s[1] = v /\ s[2] = w
  OBVIOUS
<1> HIDE DEF s
<1>2. a + Len(s) <= Len(D) /\ \A i \in 1 .. Len(s) : s[i] = D[a + i]
  BY <1>1
<1>3. Piece(D, a, a + Len(s), s)
  BY <1>1, <1>2, PieceIs
<1> QED
  BY <1>1, <1>3 DEF s

LEMMA PieceThree ==
    ASSUME NEW D \in Seq(Nat), NEW a \in Nat, a + 3 <= Len(D),
           NEW v \in Nat, v = D[a + 1], NEW w \in Nat, w = D[a + 2], NEW x \in Nat, x = D[a + 3]
    PROVE  Piece(D, a, a + 3, <<v, w, x>>)
<1> DEFINE s == <<v, w, x>>
<1>1. s \in Seq(Nat) /\ Len(s) = 3 /\ s[1] = v /\ s[2] = w /\ s[3] = x
  OBVIOUS
<1> HIDE DEF s
<1>2. a + Len(s) <= Len(D) /\ \A i \in 1 .. Len(s) : s[i] = D[a + i]
  BY <1>1
<1>3. Piece(D, a, a + Len(s), s)
  BY <1>1, <1>2, PieceIs
<1> QED
  BY <1>1, <1>3 DEF s

LEMMA PieceFive ==
    ASSUME NEW D \in Seq(Nat), NEW a \in Nat, a + 5 <= Len(D),
           NEW v \in Nat, v = D[a + 1], NEW w \in Nat, w = D[a + 2], NEW x \in Nat, x = D[a + 3],
           NEW y \in Nat, y = D[a + 4], NEW z \in Nat, z = D[a + 5]
    PROVE  Piece(D, a, a + 5, <<v, w, x, y, z>>)
<1> DEFINE s == <<v, w, x, y, z>>
<1>1. s \in Seq(Nat) /\ Len(s) = 5 /\ s[1] = v /\ s[2] = w /\ s[3] = x /\ s[4] = y /\ s[5] = z
  OBVIOUS
<1> HIDE DEF s
<1>2. a + Len(s) <= Len(D) /\ \A i \in 1 .. Len(s) : s[i] = D[a + i]
  BY <1>1
<1>3. Piece(D, a, a + Len(s), s)
  BY <1>1, <1>2, PieceIs
<1> QED
  BY <1>1, <1>3 DEF s

\* What is read is a sequence of numbers.
LEMMA PieceType ==
    ASSUME NEW D \in Seq(Nat), NEW a, NEW b, NEW s, Piece(D, a, b, s)
    PROVE  s \in Seq(Nat)
<1>1. a + 1 \in Int /\ b \in Int /\ (\A i \in a + 1 .. b : D[i] \in Nat) /\ s = SubSeq(D, a + 1, b)
  BY DEF Piece
<1> QED
  BY <1>1, SubSeqProperties

\* The values a byte may have here, and those of two and of four.
Byte == 0 .. 254
little2(a, b) == a + 256 * b
little4(a, b, c, d) == a + 256 * b + 65536 * c + 16777216 * d

\* The payload is a sequence of bytes.
LEMMA PayloadIs ==
    ASSUME payload \in Payloads
    PROVE  /\ payload.block \in BOOLEAN /\ payload.data \in Seq(Nat) /\ Len(payload.data) \in Nat
           /\ \A j \in Nat : byte(j) \in Byte /\ (j < Len(payload.data) => byte(j) = payload.data[j + 1])
<1>1. PICK D \in Seq(0 .. 254) : D = payload.data
  BY PayloadsAssumption
<1>2. payload.block \in BOOLEAN
  BY PayloadsAssumption
<1>3. D \in Seq(Nat) /\ Len(D) \in Nat /\ \A i \in 1 .. Len(D) : D[i] \in 0 .. 254
  <2>1. Len(D) \in Nat /\ \A i \in 1 .. Len(D) : D[i] \in 0 .. 254
    BY LenProperties, ElementOfSeq
  <2>2. \A i \in 0 .. 254 : i \in Nat
    OBVIOUS
  <2>3. D \in [1 .. Len(D) -> 0 .. 254]
    BY LenProperties, Zenon
  <2>4. D \in [1 .. Len(D) -> Nat]
    BY <2>2, <2>3
  <2>5. D \in Seq(Nat)
    BY <2>1, <2>4
  <2> QED
    BY <2>1, <2>5
<1>4. ASSUME NEW j \in Nat PROVE byte(j) \in 0 .. 254 /\ (j < Len(D) => byte(j) = D[j + 1])
  <2>1. byte(j) = IF j < Len(D) THEN D[j + 1] ELSE 0
    BY <1>1, Zenon DEF byte
  <2>2. j < Len(D) => j + 1 \in 1 .. Len(D)
    BY <1>3
  <2> QED
    BY <1>3, <2>1, <2>2
<1> QED
  BY <1>1, <1>2, <1>3, <1>4, Zenon DEF Byte

\* A number of n bytes, the first of which is f.
Number(f, a, b, c, d, n, v) ==
    /\ f < 253 => n = 1 /\ v = f
    /\ f = 253 => n = 3 /\ v = little2(a, b)
    /\ f = 254 => n = 5 /\ v = little4(a, b, c, d)

\* So the bytes of D from offset j on say.
ReadFrom(D, j, n, v) ==
    \E f, a, b, c, d \in Byte : /\ Number(f, a, b, c, d, n, v)
                                /\ j < Len(D) => f = D[j + 1]
                                /\ j + 1 < Len(D) => a = D[j + 2]
                                /\ j + 2 < Len(D) => b = D[j + 3]
                                /\ j + 3 < Len(D) => c = D[j + 4]
                                /\ j + 4 < Len(D) => d = D[j + 5]

LEMMA ByteNat ==
    /\ \A a \in Byte : a \in Nat
    /\ \A a, b \in Byte : little2(a, b) \in Nat
    /\ \A a, b, c, d \in Byte : little4(a, b, c, d) \in Nat
<1>1. \A a \in Byte : a \in Nat
  BY DEF Byte
<1>2. \A a, b \in Nat : little2(a, b) \in Nat
  BY DEF little2
<1>3. \A a, b, c, d \in Nat : little4(a, b, c, d) \in Nat
  BY DEF little4
<1> QED
  BY <1>1, <1>2, <1>3, Zenon

LEMMA NumberIs ==
    ASSUME NEW f \in Byte, NEW a \in Byte, NEW b \in Byte, NEW c \in Byte, NEW d \in Byte, NEW n, NEW v,
           n = CASE f = 253 -> 3 [] f = 254 -> 5 [] OTHER -> 1,
           v = CASE f = 253 -> little2(a, b) [] f = 254 -> little4(a, b, c, d) [] OTHER -> f
    PROVE  n \in Nat /\ v \in Nat /\ Number(f, a, b, c, d, n, v)
<1>1. f \in Nat /\ little2(a, b) \in Nat /\ little4(a, b, c, d) \in Nat
  BY ByteNat, Zenon
<1>2. v \in Nat
  BY <1>1
<1>3. n \in Nat
  OBVIOUS
<1>4. Number(f, a, b, c, d, n, v)
  BY <1>1 DEF Number
<1> QED
  BY <1>2, <1>3, <1>4

\* What a varint is read from.
LEMMA VarintRead ==
    ASSUME payload \in Payloads, NEW j \in Nat
    PROVE  \E n, v \in Nat : varint_size(j) = n /\ varint_get(j) = v /\ ReadFrom(payload.data, j, n, v)
<1>1. PICK D : D = payload.data
  OBVIOUS
<1>2. /\ j + 1 \in Nat /\ j + 2 \in Nat /\ j + 3 \in Nat /\ j + 4 \in Nat
      /\ (j + 1) + 1 = j + 2 /\ (j + 2) + 1 = j + 3 /\ (j + 3) + 1 = j + 4 /\ (j + 4) + 1 = j + 5
  OBVIOUS
<1>3. \A k \in Nat : byte(k) \in Byte /\ (k < Len(D) => byte(k) = D[k + 1])
  BY <1>1, PayloadIs, Zenon
<1>4. PICK f \in Byte : byte(j) = f /\ (j < Len(D) => f = D[j + 1])
  BY <1>3, Zenon
<1>5. PICK a \in Byte : byte(j + 1) = a /\ (j + 1 < Len(D) => a = D[j + 2])
  BY <1>2, <1>3, Zenon
<1>6. PICK b \in Byte : byte(j + 2) = b /\ (j + 2 < Len(D) => b = D[j + 3])
  BY <1>2, <1>3, Zenon
<1>7. PICK c \in Byte : byte(j + 3) = c /\ (j + 3 < Len(D) => c = D[j + 4])
  BY <1>2, <1>3, Zenon
<1>8. PICK d \in Byte : byte(j + 4) = d /\ (j + 4 < Len(D) => d = D[j + 5])
  BY <1>2, <1>3, Zenon
<1>9. varint_size(j) = CASE f = 253 -> 3 [] f = 254 -> 5 [] OTHER -> 1
  BY <1>4 DEF varint_size
<1>10. varint_get(j) = CASE f = 253 -> little2(a, b) [] f = 254 -> little4(a, b, c, d) [] OTHER -> f
  BY <1>4, <1>5, <1>6, <1>7, <1>8 DEF varint_get, little2, little4
<1>11. PICK n : n = CASE f = 253 -> 3 [] f = 254 -> 5 [] OTHER -> 1
  OBVIOUS
<1>12. PICK v : v = CASE f = 253 -> little2(a, b) [] f = 254 -> little4(a, b, c, d) [] OTHER -> f
  OBVIOUS
<1>13. n \in Nat /\ v \in Nat /\ Number(f, a, b, c, d, n, v)
  BY <1>11, <1>12, NumberIs
<1>14. varint_size(j) = n /\ varint_get(j) = v
  BY <1>9, <1>10, <1>11, <1>12
<1>15. ReadFrom(D, j, n, v)
  BY <1>4, <1>5, <1>6, <1>7, <1>8, <1>13, Zenon DEF ReadFrom
<1> QED
  BY <1>1, <1>13, <1>14, <1>15, Zenon

LEMMA VarintNat ==
    ASSUME payload \in Payloads, NEW j \in Nat
    PROVE  varint_size(j) \in Nat /\ varint_get(j) \in Nat
<1>1. PICK n, v \in Nat : varint_size(j) = n /\ varint_get(j) = v
  BY VarintRead, Zenon
<1> QED
  BY <1>1

\* What varint_set_data() writes.
LEMMA VarintType ==
    ASSUME NEW v \in Nat
    PROVE  varint_set_data(v) \in Seq(Nat)
<1>1. /\ v % 256 \in Nat /\ v \div 256 \in Nat /\ (v \div 256) % 256 \in Nat /\ (v \div 65536) % 256 \in Nat
      /\ v \div 16777216 \in Nat
  OBVIOUS
<1> QED
  BY <1>1 DEF varint_set_data

\* Three bytes, or five, are those of the number they stand for.
LEMMA WrittenThree ==
    ASSUME NEW f, f = 253, NEW a \in Byte, NEW b \in Byte, NEW v, v = little2(a, b), ~(v < 253)
    PROVE  varint_set_data(v) = <<f, a, b>>
<1>1. v % 256 = a /\ v \div 256 = b /\ ~(v < 253) /\ v <= 65535
  BY DEF little2, Byte
<1> QED
  BY <1>1 DEF varint_set_data

LEMMA WrittenFive ==
    ASSUME NEW f, f = 254, NEW a \in Byte, NEW b \in Byte, NEW c \in Byte, NEW d \in Byte,
           NEW v, v = little4(a, b, c, d), ~(v <= 65535)
    PROVE  varint_set_data(v) = <<f, a, b, c, d>>
<1> DEFINE x == c + 256 * d
           w == b + 256 * x
<1>1. v = a + 256 * w /\ x \in Nat /\ w \in Nat /\ v \in Nat
  BY DEF little4, Byte
<1>2. v % 256 = a /\ v \div 256 = w
  <2>1. w \in Nat /\ v = a + 256 * w
    BY <1>1
  <2> HIDE DEF w
  <2> QED
    BY <2>1 DEF Byte
<1>3. w % 256 = b
  <2>1. x \in Nat
    BY <1>1
  <2> HIDE DEF x
  <2> QED
    BY <2>1 DEF Byte
<1>4. v \div 65536 = x
  <2>1. x \in Nat /\ v = a + 256 * (b + 256 * x)
    BY <1>1
  <2> HIDE DEF x
  <2> QED
    BY <2>1 DEF Byte
<1>5. x % 256 = c
  BY DEF Byte
<1>6. v \div 16777216 = d
  BY DEF little4, Byte
<1>7. ~(v < 253) /\ ~(v <= 65535)
  BY <1>1
<1> HIDE DEF w, x
<1> QED
  BY <1>2, <1>3, <1>4, <1>5, <1>6, <1>7 DEF varint_set_data

\* A number that did not need fewer bytes is written as it was read.
LEMMA NumberWritten ==
    ASSUME NEW f \in Byte, NEW a \in Byte, NEW b \in Byte, NEW c \in Byte, NEW d \in Byte, NEW n, NEW v,
           Number(f, a, b, c, d, n, v), n = varint_calc_size(v)
    PROVE  \/ n = 1 /\ varint_set_data(v) = <<f>>
           \/ n = 3 /\ varint_set_data(v) = <<f, a, b>>
           \/ n = 5 /\ varint_set_data(v) = <<f, a, b, c, d>>
<1>1. f < 253 \/ f = 253 \/ f = 254
  BY DEF Byte
<1>2. n = IF v < 253 THEN 1 ELSE IF v <= 65535 THEN 3 ELSE 5
  BY DEF varint_calc_size
<1>3. CASE f < 253
  <2>1. n = 1 /\ v = f
    BY <1>3 DEF Number
  <2> QED
    BY <1>3, <2>1 DEF varint_set_data
<1>4. CASE f = 253
  <2>1. n = 3 /\ v = little2(a, b)
    BY <1>4 DEF Number
  <2>2. ~(v < 253)
    BY <1>2, <2>1
  <2>3. varint_set_data(v) = <<f, a, b>>
    BY <1>4, <2>1, <2>2, WrittenThree
  <2> QED
    BY <2>1, <2>3
<1>5. CASE f = 254
  <2>1. n = 5 /\ v = little4(a, b, c, d)
    BY <1>5 DEF Number
  <2>2. ~(v <= 65535)
    BY <1>2, <2>1
  <2>3. varint_set_data(v) = <<f, a, b, c, d>>
    BY <1>5, <2>1, <2>2, WrittenFive
  <2> QED
    BY <2>1, <2>3
<1> QED
  BY <1>1, <1>3, <1>4, <1>5

LEMMA VarintBytes ==
    ASSUME NEW D \in Seq(Nat), NEW j \in Nat, NEW n \in Nat, NEW v \in Nat, j + n <= Len(D),
           n = varint_calc_size(v), ReadFrom(D, j, n, v)
    PROVE  Piece(D, j, j + n, varint_set_data(v))
<1>1. PICK f \in Byte, a \in Byte, b \in Byte, c \in Byte, d \in Byte :
         /\ Number(f, a, b, c, d, n, v)
         /\ j < Len(D) => f = D[j + 1]
         /\ j + 1 < Len(D) => a = D[j + 2]
         /\ j + 2 < Len(D) => b = D[j + 3]
         /\ j + 3 < Len(D) => c = D[j + 4]
         /\ j + 4 < Len(D) => d = D[j + 5]
  BY Zenon DEF ReadFrom
<1>2. PICK l \in Nat : l = Len(D)
  OBVIOUS
<1>3. j + n <= l
  BY <1>2
<1>4. /\ n = 1 => j < l
      /\ n = 3 => j < l /\ j + 1 < l /\ j + 2 < l
      /\ n = 5 => j < l /\ j + 1 < l /\ j + 2 < l /\ j + 3 < l /\ j + 4 < l
  BY <1>3
<1>5. \/ n = 1 /\ varint_set_data(v) = <<f>>
      \/ n = 3 /\ varint_set_data(v) = <<f, a, b>>
      \/ n = 5 /\ varint_set_data(v) = <<f, a, b, c, d>>
  BY <1>1, NumberWritten
<1>6. f \in Nat /\ a \in Nat /\ b \in Nat /\ c \in Nat /\ d \in Nat
  BY ByteNat, Zenon
<1>7. CASE n = 1 /\ varint_set_data(v) = <<f>>
  <2>1. j < Len(D) /\ f = D[j + 1]
    BY <1>1, <1>2, <1>4, <1>7
  <2>2. Piece(D, j, j + 1, <<f>>)
    BY <1>6, <2>1, PieceOne
  <2> QED
    BY <1>7, <2>2
<1>8. CASE n = 3 /\ varint_set_data(v) = <<f, a, b>>
  <2>1. j + 3 <= Len(D) /\ f = D[j + 1] /\ a = D[j + 2] /\ b = D[j + 3]
    BY <1>1, <1>2, <1>4, <1>8
  <2>2. Piece(D, j, j + 3, <<f, a, b>>)
    BY <1>6, <2>1, PieceThree
  <2> QED
    BY <1>8, <2>2
<1>9. CASE n = 5 /\ varint_set_data(v) = <<f, a, b, c, d>>
  <2>1. j + 5 <= Len(D) /\ f = D[j + 1] /\ a = D[j + 2] /\ b = D[j + 3] /\ c = D[j + 4] /\ d = D[j + 5]
    BY <1>1, <1>2, <1>4, <1>9
  <2>2. Piece(D, j, j + 5, <<f, a, b, c, d>>)
    BY <1>6, <2>1, PieceFive
  <2> QED
    BY <1>9, <2>2
<1> QED
  BY <1>5, <1>7, <1>8, <1>9

\* A count in its shortest form is written back as it came.
LEMMA VarintPiece ==
    ASSUME payload \in Payloads, NEW j \in Nat, j + varint_size(j) <= Len(payload.data),
           varint_size(j) = varint_calc_size(varint_get(j))
    PROVE  Piece(payload.data, j, j + varint_size(j), varint_set_data(varint_get(j)))
<1>1. PICK D \in Seq(Nat) : D = payload.data
  BY PayloadIs, Zenon
<1>2. PICK n \in Nat, v \in Nat : varint_size(j) = n /\ varint_get(j) = v /\ ReadFrom(payload.data, j, n, v)
  BY VarintRead, Zenon
<1>3. n = varint_calc_size(v) /\ j + n <= Len(D) /\ ReadFrom(D, j, n, v)
  BY <1>1, <1>2, Zenon
<1>4. Piece(D, j, j + n, varint_set_data(v))
  BY <1>3, VarintBytes, Zenon
<1> QED
  BY <1>1, <1>2, <1>4, Zenon

\* A string is kept as it came.
LEMMA VarstrPiece ==
    ASSUME payload \in Payloads, NEW j \in Nat, j + varstr_size(j) <= Len(payload.data)
    PROVE  /\ varstr_size(j) \in Nat /\ Piece(payload.data, j, j + varstr_size(j), varstr_clone(j))
           /\ varstr_clone(j) \in Seq(Nat)
<1>1. PICK D \in Seq(Nat) : D = payload.data
  BY PayloadIs, Zenon
<1>2. PICK n \in Nat : varstr_size(j) = n
  BY VarintNat DEF varstr_size
<1>3. j + n <= Len(D)
  BY <1>1, <1>2, Zenon
<1>4. j + n \in 0 .. Len(D) /\ j \in 0 .. j + n
  BY <1>3
<1>5. Piece(D, j, j + n, varstr_clone(j))
  BY <1>1, <1>2, <1>4, Zenon DEF Piece, varstr_clone
<1>6. varstr_clone(j) \in Seq(Nat)
  BY <1>5, PieceType
<1> QED
  BY <1>1, <1>2, <1>5, <1>6, Zenon
-----------------------------------------------------------------------------
(* What the serialisers write *)

LEMMA FunctionSeq ==
    ASSUME NEW S, NEW k \in Nat, NEW m \in [1 .. k -> S]
    PROVE  m \in Seq(S) /\ Len(m) = k
OBVIOUS

\* The concatenation of a list with one string more.
LEMMA ConcatGrows ==
    ASSUME NEW k \in Nat, NEW m, NEW n, m = [i \in 1 .. k |-> n[i]], n = [i \in 1 .. k + 1 |-> n[i]],
           \A i \in 1 .. k + 1 : n[i] \in Seq(Nat)
    PROVE  Concat(n) = Concat(m) \o n[k + 1]
<1>1. \A i \in 1 .. k : n[i] \in Seq(Nat)
  OBVIOUS
<1>2. m \in [1 .. k -> Seq(Nat)]
  BY <1>1, Zenon
<1>3. m \in Seq(Seq(Nat)) /\ Len(m) = k
  BY <1>2, FunctionSeq
<1>4. n[k + 1] \in Seq(Nat)
  OBVIOUS
<1>5. n = Append(m, n[k + 1])
  <2> DEFINE a == Append(m, n[k + 1])
  <2>1. /\ a \in Seq(Seq(Nat)) /\ Len(a) = k + 1 /\ \A i \in 1 .. k : a[i] = m[i]
        /\ a[k + 1] = n[k + 1]
    BY <1>3, <1>4, AppendProperties
  <2>2. n \in Seq(Seq(Nat)) /\ Len(n) = k + 1
    <3>1. n \in [1 .. k + 1 -> Seq(Nat)]
      BY Zenon
    <3>2. k + 1 \in Nat
      OBVIOUS
    <3> QED
      BY <3>1, <3>2, FunctionSeq
  <2> HIDE DEF a
  <2>3. \A i \in 1 .. k + 1 : a[i] = n[i]
    <3>1. \A i \in 1 .. k : m[i] = n[i]
      BY Zenon
    <3>2. \A i \in 1 .. k + 1 : i \in 1 .. k \/ i = k + 1
      OBVIOUS
    <3> QED
      BY <2>1, <3>1, <3>2, Zenon
  <2>4. a = n
    BY <2>1, <2>2, <2>3, SeqEqual
  <2> QED
    BY <2>4 DEF a
<1> QED
  BY <1>3, <1>4, <1>5, FlattenAppend DEF Concat

\* Strings make a string.
LEMMA ConcatType ==
    ASSUME NEW k \in Nat, NEW n, n = [i \in 1 .. k |-> n[i]], \A i \in 1 .. k : n[i] \in Seq(Nat)
    PROVE  Concat(n) \in Seq(Nat)
<1>1. n \in [1 .. k -> Seq(Nat)]
  BY Zenon
<1>2. n \in Seq(Seq(Nat))
  BY <1>1, FunctionSeq
<1> QED
  BY <1>2, FlattenType DEF Concat

LEMMA ConcatNone == ASSUME NEW n, n = [i \in 1 .. 0 |-> n[i]] PROVE Concat(n) = <<>>
<1>1. n = <<>>
  OBVIOUS
<1> QED
  BY <1>1, FlattenEmpty DEF Concat

LEMMA ConcatSeq == ASSUME NEW a \in Seq(Nat), NEW b \in Seq(Nat) PROVE a \o b \in Seq(Nat)
OBVIOUS

LEMMA TxInType == ASSUME NEW r \in TxIn PROVE satoshi_txin_serialize(r) \in Seq(Nat)
<1>1. <<r.outpoint>> \in Seq(Nat) /\ r.scripts \in Seq(Nat) /\ <<r.sequence>> \in Seq(Nat)
  BY DEF TxIn
<1> QED
  BY <1>1, ConcatSeq, Zenon DEF satoshi_txin_serialize

LEMMA TxOutType == ASSUME NEW r \in TxOut PROVE satoshi_txout_serialize(r) \in Seq(Nat)
<1>1. <<r.value>> \in Seq(Nat) /\ r.scripts \in Seq(Nat)
  BY DEF TxOut
<1> QED
  BY <1>1, ConcatSeq, Zenon DEF satoshi_txout_serialize

LEMMA WitnessType == ASSUME NEW w \in Witness PROVE serialize_witness(w) \in Seq(Nat)
<1>1. Len(w) \in Nat /\ Concat(w) \in Seq(Nat)
  BY FlattenType DEF Concat, Witness
<1> QED
  BY <1>1, VarintType, ConcatSeq, Zenon DEF serialize_witness

\* One input, output, witness or transaction more.
LEMMA InputsGrow ==
    ASSUME NEW x, NEW k \in Nat, \A i \in 1 .. k + 1 : x.txins[i] \in TxIn
    PROVE  Inputs(x, k + 1) = Inputs(x, k) \o satoshi_txin_serialize(x.txins[k + 1])
<1> DEFINE n == [i \in 1 .. k + 1 |-> satoshi_txin_serialize(x.txins[i])]
           m == [i \in 1 .. k |-> satoshi_txin_serialize(x.txins[i])]
<1>1. \A i \in 1 .. k : i \in 1 .. k + 1
  OBVIOUS
<1>2. k + 1 \in 1 .. k + 1
  OBVIOUS
<1>3. m = [i \in 1 .. k |-> n[i]]
  BY <1>1, Zenon
<1>4. n = [i \in 1 .. k + 1 |-> n[i]] /\ n[k + 1] = satoshi_txin_serialize(x.txins[k + 1])
  BY <1>2, Zenon
<1>5. \A i \in 1 .. k + 1 : n[i] \in Seq(Nat)
  BY TxInType, Zenon
<1>6. Inputs(x, k + 1) = Concat(n) /\ Inputs(x, k) = Concat(m)
  BY Zenon DEF Inputs
<1> HIDE DEF m, n
<1> QED
  BY <1>3, <1>4, <1>5, <1>6, ConcatGrows, Zenon

LEMMA OutputsGrow ==
    ASSUME NEW x, NEW k \in Nat, \A i \in 1 .. k + 1 : x.txouts[i] \in TxOut
    PROVE  Outputs(x, k + 1) = Outputs(x, k) \o satoshi_txout_serialize(x.txouts[k + 1])
<1> DEFINE n == [i \in 1 .. k + 1 |-> satoshi_txout_serialize(x.txouts[i])]
           m == [i \in 1 .. k |-> satoshi_txout_serialize(x.txouts[i])]
<1>1. \A i \in 1 .. k : i \in 1 .. k + 1
  OBVIOUS
<1>2. k + 1 \in 1 .. k + 1
  OBVIOUS
<1>3. m = [i \in 1 .. k |-> n[i]]
  BY <1>1, Zenon
<1>4. n = [i \in 1 .. k + 1 |-> n[i]] /\ n[k + 1] = satoshi_txout_serialize(x.txouts[k + 1])
  BY <1>2, Zenon
<1>5. \A i \in 1 .. k + 1 : n[i] \in Seq(Nat)
  BY TxOutType, Zenon
<1>6. Outputs(x, k + 1) = Concat(n) /\ Outputs(x, k) = Concat(m)
  BY Zenon DEF Outputs
<1> HIDE DEF m, n
<1> QED
  BY <1>3, <1>4, <1>5, <1>6, ConcatGrows, Zenon

LEMMA WitnessesGrow ==
    ASSUME NEW x, NEW k \in Nat, \A i \in 1 .. k + 1 : x.witnesses[i] \in Witness
    PROVE  Witnesses(x, k + 1) = Witnesses(x, k) \o serialize_witness(x.witnesses[k + 1])
<1> DEFINE n == [i \in 1 .. k + 1 |-> serialize_witness(x.witnesses[i])]
           m == [i \in 1 .. k |-> serialize_witness(x.witnesses[i])]
<1>1. \A i \in 1 .. k : i \in 1 .. k + 1
  OBVIOUS
<1>2. k + 1 \in 1 .. k + 1
  OBVIOUS
<1>3. m = [i \in 1 .. k |-> n[i]]
  BY <1>1, Zenon
<1>4. n = [i \in 1 .. k + 1 |-> n[i]] /\ n[k + 1] = serialize_witness(x.witnesses[k + 1])
  BY <1>2, Zenon
<1>5. \A i \in 1 .. k + 1 : n[i] \in Seq(Nat)
  BY WitnessType, Zenon
<1>6. Witnesses(x, k + 1) = Concat(n) /\ Witnesses(x, k) = Concat(m)
  BY Zenon DEF Witnesses
<1> HIDE DEF m, n
<1> QED
  BY <1>3, <1>4, <1>5, <1>6, ConcatGrows, Zenon

\* What they write of a transaction, in these terms.
Remainder(x) == IF x.has_flag THEN Witnesses(x, Len(x.witnesses)) ELSE <<>>

LEMMA SerialIs ==
    ASSUME NEW x, TxType(x)
    PROVE  /\ serialize_inputs(x) = varint_set_data(x.txin_count) \o Inputs(x, Len(x.txins))
           /\ serialize_outputs(x) = varint_set_data(x.txout_count) \o Outputs(x, Len(x.txouts))
           /\ serialize_tail(x) = Remainder(x) \o <<x.lock_time>>
<1>1. DOMAIN x.txins = 1 .. Len(x.txins)
  BY DEF TxType
<1>2. DOMAIN x.txouts = 1 .. Len(x.txouts)
  BY DEF TxType
<1>3. DOMAIN x.witnesses = 1 .. Len(x.witnesses)
  BY DEF TxType
<1>4. serialize_inputs(x) = varint_set_data(x.txin_count) \o Inputs(x, Len(x.txins))
  BY <1>1, Zenon DEF serialize_inputs, Inputs
<1>5. serialize_outputs(x) = varint_set_data(x.txout_count) \o Outputs(x, Len(x.txouts))
  BY <1>2, Zenon DEF serialize_outputs, Outputs
<1>6. serialize_tail(x) = Remainder(x) \o <<x.lock_time>>
  BY <1>3, Zenon DEF serialize_tail, Remainder, Witnesses
<1> QED
  BY <1>4, <1>5, <1>6

LEMMA ListTypes ==
    ASSUME NEW x, TxType(x)
    PROVE  /\ Len(x.txins) \in Nat /\ \A i \in 1 .. Len(x.txins) : x.txins[i] \in TxIn
           /\ Len(x.txouts) \in Nat /\ \A i \in 1 .. Len(x.txouts) : x.txouts[i] \in TxOut
           /\ Len(x.witnesses) \in Nat /\ \A i \in 1 .. Len(x.witnesses) : x.witnesses[i] \in Witness
<1>1. x.txins \in Seq(TxIn) /\ x.txouts \in Seq(TxOut) /\ x.witnesses \in Seq(Witness)
  BY DEF TxType
<1> QED
  BY <1>1, ElementOfSeq, LenProperties

LEMMA InputsType ==
    ASSUME NEW x, NEW k \in Nat, \A i \in 1 .. k : x.txins[i] \in TxIn
    PROVE  Inputs(x, k) \in Seq(Nat)
<1> DEFINE n == [i \in 1 .. k |-> satoshi_txin_serialize(x.txins[i])]
<1>1. n = [i \in 1 .. k |-> n[i]]
  BY Zenon
<1>2. \A i \in 1 .. k : n[i] \in Seq(Nat)
  BY TxInType, Zenon
<1>3. Inputs(x, k) = Concat(n)
  BY Zenon DEF Inputs
<1> HIDE DEF n
<1> QED
  BY <1>1, <1>2, <1>3, ConcatType

LEMMA OutputsType ==
    ASSUME NEW x, NEW k \in Nat, \A i \in 1 .. k : x.txouts[i] \in TxOut
    PROVE  Outputs(x, k) \in Seq(Nat)
<1> DEFINE n == [i \in 1 .. k |-> satoshi_txout_serialize(x.txouts[i])]
<1>1. n = [i \in 1 .. k |-> n[i]]
  BY Zenon
<1>2. \A i \in 1 .. k : n[i] \in Seq(Nat)
  BY TxOutType, Zenon
<1>3. Outputs(x, k) = Concat(n)
  BY Zenon DEF Outputs
<1> HIDE DEF n
<1> QED
  BY <1>1, <1>2, <1>3, ConcatType

LEMMA WitnessesType ==
    ASSUME NEW x, NEW k \in Nat, \A i \in 1 .. k : x.witnesses[i] \in Witness
    PROVE  Witnesses(x, k) \in Seq(Nat)
<1> DEFINE n == [i \in 1 .. k |-> serialize_witness(x.witnesses[i])]
<1>1. n = [i \in 1 .. k |-> n[i]]
  BY Zenon
<1>2. \A i \in 1 .. k : n[i] \in Seq(Nat)
  BY WitnessType, Zenon
<1>3. Witnesses(x, k) = Concat(n)
  BY Zenon DEF Witnesses
<1> HIDE DEF n
<1> QED
  BY <1>1, <1>2, <1>3, ConcatType

LEMMA SerialTypes ==
    ASSUME NEW x, TxType(x)
    PROVE  /\ serialize_inputs(x) \in Seq(Nat) /\ serialize_outputs(x) \in Seq(Nat)
           /\ serialize_tail(x) \in Seq(Nat) /\ satoshi_tx_serialize(x) \in Seq(Nat)
<1>1. x.txin_count \in Nat /\ x.txout_count \in Nat /\ <<x.lock_time>> \in Seq(Nat) /\ <<x.version>> \in Seq(Nat)
  BY DEF TxType
<1>2. serialize_inputs(x) \in Seq(Nat)
  <2>1. Inputs(x, Len(x.txins)) \in Seq(Nat)
    BY ListTypes, InputsType, Zenon
  <2> QED
    BY <1>1, <2>1, SerialIs, VarintType, ConcatSeq, Zenon
<1>3. serialize_outputs(x) \in Seq(Nat)
  <2>1. Outputs(x, Len(x.txouts)) \in Seq(Nat)
    BY ListTypes, OutputsType, Zenon
  <2> QED
    BY <1>1, <2>1, SerialIs, VarintType, ConcatSeq, Zenon
<1>4. serialize_tail(x) \in Seq(Nat)
  <2>1. Witnesses(x, Len(x.witnesses)) \in Seq(Nat) /\ <<>> \in Seq(Nat)
    BY ListTypes, WitnessesType
  <2>2. Remainder(x) \in Seq(Nat)
    BY <2>1, Zenon DEF Remainder
  <2> QED
    BY <1>1, <2>2, SerialIs, ConcatSeq, Zenon
<1>5. (IF x.has_flag THEN <<0, 1>> ELSE <<>>) \in Seq(Nat)
  OBVIOUS
<1>6. satoshi_tx_serialize(x) \in Seq(Nat)
  BY <1>1, <1>2, <1>3, <1>4, <1>5, ConcatSeq, Zenon DEF satoshi_tx_serialize
<1> QED
  BY <1>2, <1>3, <1>4, <1>6

LEMMA TransactionsGrow ==
    ASSUME NEW X, NEW k \in Nat, \A i \in 1 .. k + 1 : TxType(X[i])
    PROVE  Transactions(X, k + 1) = Transactions(X, k) \o satoshi_tx_serialize(X[k + 1])
<1> DEFINE n == [i \in 1 .. k + 1 |-> satoshi_tx_serialize(X[i])]
           m == [i \in 1 .. k |-> satoshi_tx_serialize(X[i])]
<1>1. \A i \in 1 .. k : i \in 1 .. k + 1
  OBVIOUS
<1>2. k + 1 \in 1 .. k + 1
  OBVIOUS
<1>3. m = [i \in 1 .. k |-> n[i]]
  BY <1>1, Zenon
<1>4. n = [i \in 1 .. k + 1 |-> n[i]] /\ n[k + 1] = satoshi_tx_serialize(X[k + 1])
  BY <1>2, Zenon
<1>5. \A i \in 1 .. k + 1 : n[i] \in Seq(Nat)
  BY SerialTypes, Zenon
<1>6. Transactions(X, k + 1) = Concat(n) /\ Transactions(X, k) = Concat(m)
  BY Zenon DEF Transactions
<1> HIDE DEF m, n
<1> QED
  BY <1>3, <1>4, <1>5, <1>6, ConcatGrows, Zenon

\* The first of a list are not changed by what comes after them.
LEMMA FirstInputs ==
    ASSUME NEW x, NEW y, NEW k, \A i \in 1 .. k : x.txins[i] = y.txins[i]
    PROVE  Inputs(x, k) = Inputs(y, k)
BY Zenon DEF Inputs

LEMMA FirstOutputs ==
    ASSUME NEW x, NEW y, NEW k, \A i \in 1 .. k : x.txouts[i] = y.txouts[i]
    PROVE  Outputs(x, k) = Outputs(y, k)
BY Zenon DEF Outputs

LEMMA FirstWitnesses ==
    ASSUME NEW x, NEW y, NEW k, \A i \in 1 .. k : x.witnesses[i] = y.witnesses[i]
    PROVE  Witnesses(x, k) = Witnesses(y, k)
BY Zenon DEF Witnesses

LEMMA FirstTransactions ==
    ASSUME NEW X, NEW Y, NEW k, \A i \in 1 .. k : X[i] = Y[i]
    PROVE  Transactions(X, k) = Transactions(Y, k)
BY Zenon DEF Transactions

\* Nothing of a list.
LEMMA NothingYet ==
    ASSUME NEW x
    PROVE  /\ Inputs(x, 0) = <<>> /\ Outputs(x, 0) = <<>> /\ Witnesses(x, 0) = <<>>
           /\ Transactions(x, 0) = <<>>
<1>1. \A n : n = [i \in 1 .. 0 |-> n[i]] => Concat(n) = <<>>
  BY ConcatNone, Zenon
<1>2. Inputs(x, 0) = <<>>
  <2> DEFINE n == [i \in 1 .. 0 |-> satoshi_txin_serialize(x.txins[i])]
  <2>1. n = [i \in 1 .. 0 |-> n[i]]
    BY Zenon
  <2> QED
    BY <1>1, <2>1, Zenon DEF Inputs
<1>3. Outputs(x, 0) = <<>>
  <2> DEFINE n == [i \in 1 .. 0 |-> satoshi_txout_serialize(x.txouts[i])]
  <2>1. n = [i \in 1 .. 0 |-> n[i]]
    BY Zenon
  <2> QED
    BY <1>1, <2>1, Zenon DEF Outputs
<1>4. Witnesses(x, 0) = <<>>
  <2> DEFINE n == [i \in 1 .. 0 |-> serialize_witness(x.witnesses[i])]
  <2>1. n = [i \in 1 .. 0 |-> n[i]]
    BY Zenon
  <2> QED
    BY <1>1, <2>1, Zenon DEF Witnesses
<1>5. Transactions(x, 0) = <<>>
  <2> DEFINE n == [i \in 1 .. 0 |-> satoshi_tx_serialize(x[i])]
  <2>1. n = [i \in 1 .. 0 |-> n[i]]
    BY Zenon
  <2> QED
    BY <1>1, <2>1, Zenon DEF Transactions
<1> QED
  BY <1>2, <1>3, <1>4, <1>5

-----------------------------------------------------------------------------
(* One field more *)

\* With the field c of x read up to offset r, x is y and field d comes next.
Continues(D, x, c, q, y, d, r) ==
    /\ TxType(y) /\ Unread(y, d)
    /\ \A s \in 0 .. q : y.canonical => x.canonical /\ (ReadSoFar(D, x, s, c, q) => ReadSoFar(D, y, s, d, r))

LEMMA VersionRead ==
    ASSUME NEW D \in Seq(Nat), NEW x, TxType(x), Unread(x, "version"), NEW q \in Nat, NEW v \in Nat,
           Piece(D, q, q + 1, <<v>>), NEW y, y = [x EXCEPT !.version = v]
    PROVE  Continues(D, x, "version", q, y, "flag", q + 1)
<1>1. DOMAIN y = TxFields /\ y.version = v /\ \A f \in TxFields \ {"version"} : y[f] = x[f]
  BY DEF TxType, TxFields
<1>2. TxType(y)
  BY <1>1 DEF TxType, TxFields
<1>3. Unread(y, "flag")
  BY <1>1 DEF Unread, TxFields, TxPhases
<1>4. ASSUME NEW s \in 0 .. q, ReadSoFar(D, x, s, "version", q) PROVE ReadSoFar(D, y, s, "flag", q + 1)
  <2>1. q = s
    BY <1>4 DEF ReadSoFar
  <2>2. Piece(D, s, q + 1, <<y.version>>)
    BY <1>1, <2>1
  <2> QED
    BY <2>2 DEF ReadSoFar
<1>5. y.canonical = x.canonical
  BY <1>1 DEF TxFields
<1> QED
  BY <1>2, <1>3, <1>4, <1>5, Zenon DEF Continues

\* Without the flag, and with it.
LEMMA NoFlagRead ==
    ASSUME NEW D \in Seq(Nat), NEW x, TxType(x), Unread(x, "flag"), NEW q \in 0 .. Len(D)
    PROVE  Continues(D, x, "flag", q, x, "txin_count", q)
<1>1. Unread(x, "txin_count") /\ ~x.has_flag
  BY DEF Unread, TxPhases
<1>2. ASSUME NEW s \in 0 .. q, ReadSoFar(D, x, s, "flag", q) PROVE ReadSoFar(D, x, s, "txin_count", q)
  <2>1. Piece(D, s, q, <<x.version>>)
    BY <1>2 DEF ReadSoFar
  <2>2. Piece(D, q, q, <<>>)
    BY PieceNone
  <2>3. Piece(D, s, q, <<x.version>> \o <<>>)
    BY <2>1, <2>2, PieceJoin
  <2>4. Opened(D, x, s, q)
    BY <1>1, <2>3, Zenon DEF Opened
  <2> QED
    BY <2>4 DEF ReadSoFar
<1> QED
  BY <1>1, <1>2, Zenon DEF Continues

LEMMA FlagRead ==
    ASSUME NEW D \in Seq(Nat), NEW x, TxType(x), Unread(x, "flag"), NEW q \in Nat,
           Piece(D, q, q + 2, <<0, 1>>), NEW y, y = [x EXCEPT !.has_flag = TRUE]
    PROVE  Continues(D, x, "flag", q, y, "txin_count", q + 2)
<1>1. DOMAIN y = TxFields /\ y.has_flag = TRUE /\ \A f \in TxFields \ {"has_flag"} : y[f] = x[f]
  BY DEF TxType, TxFields
<1>2. TxType(y)
  BY <1>1 DEF TxType, TxFields
<1>3. Unread(y, "txin_count")
  BY <1>1 DEF Unread, TxFields, TxPhases
<1>4. ASSUME NEW s \in 0 .. q, ReadSoFar(D, x, s, "flag", q) PROVE ReadSoFar(D, y, s, "txin_count", q + 2)
  <2>1. Piece(D, s, q, <<x.version>>)
    BY <1>4 DEF ReadSoFar
  <2>2. Piece(D, s, q + 2, <<x.version>> \o <<0, 1>>)
    BY <2>1, PieceJoin
  <2>3. y.version = x.version /\ y.has_flag
    BY <1>1 DEF TxFields
  <2>4. Opened(D, y, s, q + 2)
    BY <2>2, <2>3 DEF Opened
  <2> QED
    BY <2>4 DEF ReadSoFar
<1>5. y.canonical = x.canonical
  BY <1>1 DEF TxFields
<1> QED
  BY <1>2, <1>3, <1>4, <1>5, Zenon DEF Continues

\* The number of inputs; its bytes are those of its shortest form or the
\* transaction is not canonical.
LEMMA TxinCountRead ==
    ASSUME NEW D \in Seq(Nat), NEW x, TxType(x), Unread(x, "txin_count"), NEW q \in Nat, NEW r \in q .. Len(D),
           NEW v \in Nat, NEW short \in BOOLEAN, short => Piece(D, q, r, varint_set_data(v)),
           NEW y, y = [x EXCEPT !.txin_count = v, !.canonical = short, !.body[1] = q]
    PROVE  Continues(D, x, "txin_count", q, y, "txin", r)
<1>1. /\ DOMAIN y = TxFields /\ y.txin_count = v /\ y.canonical = short /\ y.body = [x.body EXCEPT ![1] = q]
      /\ \A f \in TxFields \ {"txin_count", "canonical", "body"} : y[f] = x[f]
  BY DEF TxType, TxFields
<1>2. y.body \in Seq(Nat) /\ Len(y.body) = 2 /\ y.body[1] = q
  <2>1. x.body \in Seq(Nat) /\ Len(x.body) = 2
    BY DEF TxType
  <2> QED
    BY <1>1, <2>1
<1>3. TxType(y)
  BY <1>1, <1>2 DEF TxType, TxFields
<1>4. Unread(y, "txin") /\ x.canonical /\ y.txins = <<>>
  BY <1>1 DEF Unread, TxFields, TxPhases
<1>5. ASSUME NEW s \in 0 .. q, ReadSoFar(D, x, s, "txin_count", q), short PROVE ReadSoFar(D, y, s, "txin", r)
  <2>1. Opened(D, x, s, q)
    BY <1>5 DEF ReadSoFar
  <2>2. y.version = x.version /\ y.has_flag = x.has_flag
    BY <1>1 DEF TxFields
  <2>3. Opened(D, y, s, y.body[1])
    BY <1>2, <2>1, <2>2 DEF Opened
  <2>4. Piece(D, y.body[1], r, varint_set_data(y.txin_count))
    BY <1>1, <1>2, <1>5, Zenon
  <2>5. Len(y.txins) = 0 /\ r \in 0 .. Len(D) /\ r \in 0 .. r
    BY <1>4
  <2>6. Piece(D, r, r, Inputs(y, Len(y.txins)))
    BY <2>5, NothingYet, PieceNone
  <2>7. InputsPart(D, y, Len(y.txins), y.body[1], r)
    BY <2>4, <2>5, <2>6, Zenon DEF InputsPart
  <2> QED
    BY <2>3, <2>7 DEF ReadSoFar
<1> QED
  BY <1>1, <1>3, <1>4, <1>5, Zenon DEF Continues

LEMMA LastOf ==
    ASSUME NEW S, NEW l \in Seq(S), NEW k \in Nat, Len(l) = k + 1
    PROVE  l # <<>> /\ Len(l) - 1 = k /\ Last(l) = l[k + 1]
<1>1. l # <<>>
  BY EmptySeq
<1> QED
  BY <1>1 DEF Last

LEMMA SeqUpdate ==
    ASSUME NEW S, NEW u \in Seq(S), NEW n \in 1 .. Len(u), NEW e \in S, NEW w, w = [u EXCEPT ![n] = e]
    PROVE  w \in Seq(S) /\ Len(w) = Len(u) /\ \A i \in 1 .. Len(u) : w[i] = IF i = n THEN e ELSE u[i]
BY ExceptSeq

LEMMA SequenceSet ==
    ASSUME NEW a \in TxIn, NEW v \in Nat
    PROVE  \E b \in TxIn : /\ b = [a EXCEPT !.sequence = v]
                           /\ b.outpoint = a.outpoint /\ b.scripts = a.scripts /\ b.sequence = v
<1> DEFINE b == [a EXCEPT !.sequence = v]
<1>1. b \in TxIn
  BY DEF TxIn
<1>2. b.outpoint = a.outpoint /\ b.scripts = a.scripts /\ b.sequence = v
  BY DEF TxIn
<1> QED
  BY <1>1, <1>2, Zenon

\* An input up to its scripts.
LEMMA TxinRead ==
    ASSUME NEW D \in Seq(Nat), NEW x, TxType(x), Unread(x, "txin"), NEW q \in Nat, NEW r \in q .. Len(D),
           NEW a \in TxIn, a.sequence = 0, Piece(D, q, r, <<a.outpoint>> \o a.scripts),
           NEW y, y = [x EXCEPT !.txins = Append(@, a)]
    PROVE  Continues(D, x, "txin", q, y, "sequence", r)
<1>1. DOMAIN y = TxFields /\ y.txins = Append(x.txins, a) /\ \A f \in TxFields \ {"txins"} : y[f] = x[f]
  BY DEF TxType, TxFields
<1>2. PICK k \in Nat : k = Len(x.txins)
  BY ListTypes
<1>3. /\ y.txins \in Seq(TxIn) /\ Len(y.txins) = k + 1 /\ y.txins[k + 1] = a
      /\ \A i \in 1 .. k : y.txins[i] = x.txins[i]
  <2>1. x.txins \in Seq(TxIn)
    BY DEF TxType
  <2> QED
    BY <1>1, <1>2, <2>1, AppendProperties
<1>4. Last(y.txins) = a /\ y.txins # <<>> /\ Len(y.txins) - 1 = k
  BY <1>3, LastOf, Zenon
<1>5. TxType(y)
  BY <1>1, <1>3 DEF TxType, TxFields
<1>6. Unread(y, "sequence")
  BY <1>1, <1>4 DEF Unread, TxFields, TxPhases
<1>7. ASSUME NEW s \in 0 .. q, ReadSoFar(D, x, s, "txin", q) PROVE ReadSoFar(D, y, s, "sequence", r)
  <2>1. Opened(D, x, s, x.body[1]) /\ InputsPart(D, x, k, x.body[1], q)
    BY <1>2, <1>7 DEF ReadSoFar
  <2>2. y.version = x.version /\ y.has_flag = x.has_flag /\ y.body = x.body /\ y.txin_count = x.txin_count
    BY <1>1 DEF TxFields
  <2>3. Opened(D, y, s, y.body[1])
    BY <2>1, <2>2 DEF Opened
  <2>4. Inputs(y, k) = Inputs(x, k)
    BY <1>3, FirstInputs, ZenonT(30)
  <2>5. InputsPart(D, y, Len(y.txins) - 1, y.body[1], q)
    BY <1>4, <2>1, <2>2, <2>4, Zenon DEF InputsPart
  <2>6. q \in 0 .. r
    OBVIOUS
  <2>7. Piece(D, q, r, <<Last(y.txins).outpoint>> \o Last(y.txins).scripts)
    BY <1>4, Zenon
  <2> QED
    BY <2>3, <2>5, <2>6, <2>7 DEF ReadSoFar
<1>8. y.canonical = x.canonical
  BY <1>1 DEF TxFields
<1> QED
  BY <1>5, <1>6, <1>7, <1>8, Zenon DEF Continues

\* The rest of it; c is what comes after it.
LEMMA SequenceRead ==
    ASSUME NEW D \in Seq(Nat), NEW x, TxType(x), Unread(x, "sequence"), NEW q \in Nat, NEW v \in Nat,
           Piece(D, q, q + 1, <<v>>), NEW y, y = [x EXCEPT !.txins[Len(x.txins)].sequence = v],
           NEW c, c = IF Len(x.txins) = x.txin_count THEN "txout_count" ELSE "txin"
    PROVE  Continues(D, x, "sequence", q, y, c, q + 1)
<1>1. PICK k \in Nat : Len(x.txins) = k + 1
  <2>1. x.txins \in Seq(TxIn) /\ x.txins # <<>>
    BY DEF TxType, Unread
  <2>2. Len(x.txins) \in Nat /\ Len(x.txins) # 0
    BY <2>1, EmptySeq, LenProperties
  <2>3. Len(x.txins) - 1 \in Nat /\ Len(x.txins) = (Len(x.txins) - 1) + 1
    BY <2>2
  <2> QED
    BY <2>3, Zenon
<1>2. PICK a \in TxIn : a = x.txins[k + 1]
  <2>1. k + 1 \in 1 .. Len(x.txins)
    BY <1>1
  <2> QED
    BY <2>1, ListTypes, Zenon
<1>3. PICK b \in TxIn : b = [a EXCEPT !.sequence = v] /\ b.outpoint = a.outpoint /\ b.scripts = a.scripts /\ b.sequence = v
  BY SequenceSet, Zenon
<1>4. /\ DOMAIN y = TxFields /\ y.txins = [x.txins EXCEPT ![k + 1] = b]
      /\ \A f \in TxFields \ {"txins"} : y[f] = x[f]
  BY <1>1, <1>2, <1>3 DEF TxType, TxFields
<1>5. /\ y.txins \in Seq(TxIn) /\ Len(y.txins) = k + 1 /\ y.txins[k + 1] = b
      /\ \A i \in 1 .. k : y.txins[i] = x.txins[i]
  <2>1. x.txins \in Seq(TxIn) /\ k + 1 \in 1 .. Len(x.txins)
    BY <1>1 DEF TxType
  <2>2. PICK u \in Seq(TxIn) : u = x.txins
    BY <2>1
  <2>3. PICK w : w = y.txins
    OBVIOUS
  <2>4. k + 1 \in 1 .. Len(u) /\ w = [u EXCEPT ![k + 1] = b]
    BY <1>4, <2>1, <2>2, <2>3
  <2>5. w \in Seq(TxIn) /\ Len(w) = Len(u) /\ \A i \in 1 .. Len(u) : w[i] = IF i = k + 1 THEN b ELSE u[i]
    BY <2>4, SeqUpdate
  <2>6. \A i \in 1 .. k : i \in 1 .. Len(u) /\ i # k + 1
    BY <1>1, <2>2
  <2>7. Len(w) = k + 1 /\ w[k + 1] = b /\ \A i \in 1 .. k : w[i] = u[i]
    BY <1>1, <2>2, <2>4, <2>5, <2>6
  <2> QED
    BY <2>2, <2>3, <2>5, <2>7
<1>6. TxType(y)
  BY <1>4, <1>5 DEF TxType, TxFields
<1>7. Unread(y, c)
  BY <1>4 DEF Unread, TxFields, TxPhases
<1>8. ASSUME NEW s \in 0 .. q, ReadSoFar(D, x, s, "sequence", q) PROVE ReadSoFar(D, y, s, c, q + 1)
  <2>1. Opened(D, x, s, x.body[1])
    BY <1>8 DEF ReadSoFar
  <2>2. PICK m \in 0 .. q : /\ InputsPart(D, x, k, x.body[1], m)
                            /\ Piece(D, m, q, <<a.outpoint>> \o a.scripts)
    <3>1. Last(x.txins) = a /\ Len(x.txins) - 1 = k
      BY <1>1, <1>2 DEF Last
    <3>2. \E m \in 0 .. q : /\ InputsPart(D, x, Len(x.txins) - 1, x.body[1], m)
                            /\ Piece(D, m, q, <<Last(x.txins).outpoint>> \o Last(x.txins).scripts)
      BY <1>8 DEF ReadSoFar
    <3> QED
      BY <3>1, <3>2
  <2>3. /\ y.version = x.version /\ y.has_flag = x.has_flag /\ y.body = x.body /\ y.txin_count = x.txin_count
    BY <1>4 DEF TxFields
  <2>4. Opened(D, y, s, y.body[1])
    BY <2>1, <2>3 DEF Opened
  <2>5. Piece(D, m, q + 1, satoshi_txin_serialize(b))
    <3>1. Piece(D, m, q + 1, (<<a.outpoint>> \o a.scripts) \o <<v>>)
      BY <2>2, PieceJoin
    <3> QED
      BY <1>3, <3>1, Zenon DEF satoshi_txin_serialize
  <2>6. PICK o \in 0 .. m : /\ Piece(D, y.body[1], o, varint_set_data(y.txin_count))
                            /\ Piece(D, o, m, Inputs(x, k))
    BY <2>2, <2>3, Zenon DEF InputsPart
  <2>7. Inputs(y, k + 1) = Inputs(x, k) \o satoshi_txin_serialize(b)
    <3>1. Inputs(y, k) = Inputs(x, k)
      BY <1>5, FirstInputs, Zenon
    <3>2. \A i \in 1 .. k + 1 : y.txins[i] \in TxIn
      BY <1>5
    <3> QED
      BY <1>5, <3>1, <3>2, InputsGrow, Zenon
  <2>8. Piece(D, o, q + 1, Inputs(y, k + 1))
    BY <2>5, <2>6, <2>7, PieceJoin, Zenon
  <2>9. o \in 0 .. q + 1
    OBVIOUS
  <2>10. CASE c = "txin"
    <3>1. InputsPart(D, y, Len(y.txins), y.body[1], q + 1)
      BY <1>5, <2>6, <2>8, <2>9, Zenon DEF InputsPart
    <3> QED
      BY <2>4, <2>10, <3>1 DEF ReadSoFar
  <2>11. CASE c = "txout_count"
    <3>1. Piece(D, y.body[1], q + 1, varint_set_data(y.txin_count) \o Inputs(y, k + 1))
      BY <2>6, <2>8, PieceJoin, Zenon
    <3>2. Piece(D, y.body[1], q + 1, serialize_inputs(y))
      BY <1>5, <1>6, <3>1, SerialIs, Zenon
    <3> QED
      BY <2>4, <2>11, <3>2 DEF ReadSoFar
  <2> QED
    BY <2>10, <2>11
<1>9. y.canonical = x.canonical
  BY <1>4 DEF TxFields
<1> QED
  BY <1>6, <1>7, <1>8, <1>9, Zenon DEF Continues

\* The number of outputs.
LEMMA TxoutCountRead ==
    ASSUME NEW D \in Seq(Nat), NEW x, TxType(x), Unread(x, "txout_count"), NEW q \in Nat, NEW r \in q .. Len(D),
           NEW v \in Nat, NEW short \in BOOLEAN, short => Piece(D, q, r, varint_set_data(v)),
           NEW y, y = [x EXCEPT !.txout_count = v, !.canonical = @ /\ short]
    PROVE  Continues(D, x, "txout_count", q, y, "txout", r)
<1>1. /\ DOMAIN y = TxFields /\ y.txout_count = v /\ y.canonical = (x.canonical /\ short)
      /\ \A f \in TxFields \ {"txout_count", "canonical"} : y[f] = x[f]
  BY DEF TxType, TxFields
<1>2. TxType(y)
  BY <1>1 DEF TxType, TxFields
<1>3. Unread(y, "txout") /\ y.txouts = <<>>
  BY <1>1 DEF Unread, TxFields, TxPhases
<1>4. ASSUME NEW s \in 0 .. q, ReadSoFar(D, x, s, "txout_count", q), short PROVE ReadSoFar(D, y, s, "txout", r)
  <2>1. Opened(D, x, s, x.body[1]) /\ Piece(D, x.body[1], q, serialize_inputs(x))
    BY <1>4 DEF ReadSoFar
  <2>2. /\ y.version = x.version /\ y.has_flag = x.has_flag /\ y.body = x.body /\ y.txin_count = x.txin_count
        /\ y.txins = x.txins
    BY <1>1 DEF TxFields
  <2>3. Opened(D, y, s, y.body[1])
    BY <2>1, <2>2 DEF Opened
  <2>4. Piece(D, y.body[1], q, serialize_inputs(y))
    BY <2>1, <2>2 DEF serialize_inputs
  <2>5. Piece(D, q, r, varint_set_data(y.txout_count))
    BY <1>1, <1>4, Zenon
  <2>6. Len(y.txouts) = 0 /\ r \in 0 .. Len(D) /\ r \in 0 .. r /\ q \in 0 .. r
    BY <1>3
  <2>7. Piece(D, r, r, Outputs(y, Len(y.txouts)))
    BY <2>6, NothingYet, PieceNone
  <2>8. OutputsPart(D, y, Len(y.txouts), q, r)
    BY <2>5, <2>6, <2>7, Zenon DEF OutputsPart
  <2> QED
    BY <2>3, <2>4, <2>6, <2>8 DEF ReadSoFar
<1> QED
  BY <1>1, <1>2, <1>3, <1>4, Zenon DEF Continues

\* y is x with one output more, which ends at offset r.
OutputMore(x, y, a, r) ==
    /\ DOMAIN y = TxFields /\ y.txouts = Append(x.txouts, a) /\ y.body = [x.body EXCEPT ![2] = r]
    /\ \A f \in TxFields \ {"txouts", "body"} : y[f] = x[f]

\* An output; c is what comes after it.
LEMMA TxoutRead ==
    ASSUME NEW D \in Seq(Nat), NEW x, TxType(x), Unread(x, "txout"), NEW q \in Nat, NEW r \in q .. Len(D),
           NEW a \in TxOut, Piece(D, q, r, satoshi_txout_serialize(a)),
           NEW y, OutputMore(x, y, a, r),
           NEW c \in {"txout", "witnesses", "lock_time"}
    PROVE  Continues(D, x, "txout", q, y, c, r)
<1>1. /\ y.version = x.version /\ y.has_flag = x.has_flag /\ y.txin_count = x.txin_count /\ y.txins = x.txins
      /\ y.txout_count = x.txout_count /\ y.witnesses = x.witnesses /\ y.items = x.items
      /\ y.lock_time = x.lock_time /\ y.canonical = x.canonical
  BY DEF OutputMore, TxFields
<1>2. PICK k \in Nat : k = Len(x.txouts)
  BY ListTypes
<1>3. /\ y.txouts \in Seq(TxOut) /\ Len(y.txouts) = k + 1 /\ y.txouts[k + 1] = a
      /\ \A i \in 1 .. k : y.txouts[i] = x.txouts[i]
  <2>1. PICK u \in Seq(TxOut) : u = x.txouts
    BY DEF TxType
  <2>2. PICK w : w = y.txouts
    OBVIOUS
  <2>3. w = Append(u, a) /\ k = Len(u)
    BY <1>2, <2>1, <2>2 DEF OutputMore
  <2>4. w \in Seq(TxOut) /\ Len(w) = k + 1 /\ w[k + 1] = a /\ \A i \in 1 .. k : w[i] = u[i]
    BY <2>3, AppendProperties
  <2> QED
    BY <2>1, <2>2, <2>4
<1>4. y.body \in Seq(Nat) /\ Len(y.body) = 2 /\ y.body[1] = x.body[1] /\ y.body[2] = r
  <2>1. y.body = [x.body EXCEPT ![2] = r]
    BY Zenon DEF OutputMore
  <2>2. PICK u \in Seq(Nat) : u = x.body /\ Len(u) = 2
    BY Zenon DEF TxType
  <2>3. PICK w : w = [u EXCEPT ![2] = r]
    OBVIOUS
  <2>4. 2 \in 1 .. Len(u) /\ 1 \in 1 .. Len(u) /\ r \in Nat
    <3>1. Len(u) = 2
      BY <2>2
    <3> QED
      BY <3>1
  <2>5. w \in Seq(Nat) /\ Len(w) = Len(u) /\ \A i \in 1 .. Len(u) : w[i] = IF i = 2 THEN r ELSE u[i]
    BY <2>3, <2>4, SeqUpdate
  <2>6. w[1] = u[1] /\ w[2] = r /\ Len(w) = 2
    BY <2>2, <2>4, <2>5
  <2> QED
    BY <2>1, <2>2, <2>3, <2>5, <2>6, Zenon
<1>5. TxType(y)
  <2>1. DOMAIN y = TxFields
    BY DEF OutputMore
  <2> QED
    BY <1>1, <1>3, <1>4, <2>1 DEF TxType
<1>6. Unread(y, c) /\ y.witnesses = <<>>
  BY <1>1 DEF Unread, TxPhases
<1>7. ASSUME NEW s \in 0 .. q, ReadSoFar(D, x, s, "txout", q) PROVE ReadSoFar(D, y, s, c, r)
  <2>1. Opened(D, x, s, x.body[1])
    BY <1>7 DEF ReadSoFar
  <2>2. PICK m \in 0 .. q : Piece(D, x.body[1], m, serialize_inputs(x)) /\ OutputsPart(D, x, k, m, q)
    BY <1>2, <1>7 DEF ReadSoFar
  <2>4. Opened(D, y, s, y.body[1])
    BY <1>1, <1>4, <2>1 DEF Opened
  <2>5. Piece(D, y.body[1], m, serialize_inputs(y))
    BY <1>1, <1>4, <2>2 DEF serialize_inputs
  <2>6. PICK o \in 0 .. q : Piece(D, m, o, varint_set_data(y.txout_count)) /\ Piece(D, o, q, Outputs(x, k))
    BY <1>1, <2>2, Zenon DEF OutputsPart
  <2>7. Outputs(y, k + 1) = Outputs(x, k) \o satoshi_txout_serialize(a)
    <3>1. Outputs(y, k) = Outputs(x, k)
      BY <1>3, FirstOutputs
    <3>2. \A i \in 1 .. k + 1 : y.txouts[i] \in TxOut
      BY <1>3, ListTypes, <1>5
    <3> QED
      BY <1>3, <3>1, <3>2, OutputsGrow, Zenon
  <2>8. Piece(D, o, r, Outputs(y, k + 1))
    <3>1. Piece(D, o, r, Outputs(x, k) \o satoshi_txout_serialize(a))
      BY <2>6, PieceJoin
    <3> QED
      BY <2>7, <3>1
  <2>9. o \in 0 .. r /\ m \in 0 .. r
    OBVIOUS
  <2>10. CASE c = "txout"
    <3>1. OutputsPart(D, y, Len(y.txouts), m, r)
      BY <1>3, <2>6, <2>8, <2>9, Zenon DEF OutputsPart
    <3> QED
      BY <2>4, <2>5, <2>9, <2>10, <3>1 DEF ReadSoFar
  <2>11. CASE c \in {"witnesses", "lock_time"}
    <3>1. Piece(D, m, r, varint_set_data(y.txout_count) \o Outputs(y, k + 1))
      BY <2>6, <2>8, PieceJoin, Zenon
    <3>2. Piece(D, m, r, serialize_outputs(y))
      BY <1>3, <1>5, <3>1, SerialIs, Zenon
    <3>3. Framed(D, y, s)
      BY <1>4, <2>4, <2>5, <2>9, <3>2, Zenon DEF Framed
    <3>4. Len(y.witnesses) = 0 /\ r \in 0 .. Len(D)
      BY <1>6
    <3>5. Piece(D, y.body[2], r, IF y.has_flag THEN Witnesses(y, Len(y.witnesses)) ELSE <<>>)
      BY <1>4, <3>4, NothingYet, PieceNone
    <3> QED
      BY <1>4, <2>11, <3>3, <3>5 DEF ReadSoFar
  <2> QED
    BY <2>10, <2>11
<1> QED
  BY <1>1, <1>5, <1>6, <1>7, Zenon DEF Continues

\* Room for the witnesses.
LEMMA WitnessesRead ==
    ASSUME NEW D \in Seq(Nat), NEW x, TxType(x), Unread(x, "witnesses"), x.has_flag, NEW q \in 0 .. Len(D)
    PROVE  Continues(D, x, "witnesses", q, x, "num_items", q)
<1>1. Unread(x, "num_items") /\ x.witnesses = <<>>
  BY DEF Unread, TxPhases
<1>2. ASSUME NEW s \in 0 .. q, ReadSoFar(D, x, s, "witnesses", q) PROVE ReadSoFar(D, x, s, "num_items", q)
  <2>1. Framed(D, x, s) /\ q = x.body[2]
    BY <1>2 DEF ReadSoFar
  <2>2. Len(x.witnesses) = 0
    BY <1>1
  <2>3. Piece(D, x.body[2], q, Witnesses(x, Len(x.witnesses)))
    BY <2>1, <2>2, NothingYet, PieceNone
  <2> QED
    BY <2>1, <2>3 DEF ReadSoFar
<1> QED
  BY <1>1, <1>2, Zenon DEF Continues

\* What witnesses do not change.
LEMMA FramedKept ==
    ASSUME NEW D, NEW x, NEW y, NEW s, Framed(D, x, s),
           \A f \in {"version", "has_flag", "txin_count", "txins", "txout_count", "txouts", "body"} : y[f] = x[f]
    PROVE  Framed(D, y, s)
<1>1. /\ y.version = x.version /\ y.has_flag = x.has_flag /\ y.txin_count = x.txin_count /\ y.txins = x.txins
      /\ y.txout_count = x.txout_count /\ y.txouts = x.txouts /\ y.body = x.body
  OBVIOUS
<1>2. serialize_inputs(y) = serialize_inputs(x) /\ serialize_outputs(y) = serialize_outputs(x)
  BY <1>1, Zenon DEF serialize_inputs, serialize_outputs
<1> QED
  BY <1>1, <1>2, Zenon DEF Framed, Opened

LEMMA WitnessAppended ==
    ASSUME NEW x, TxType(x), NEW y, y.witnesses = Append(x.witnesses, <<>>),
           NEW k \in Nat, k = Len(x.witnesses)
    PROVE  /\ y.witnesses \in Seq(Witness) /\ Len(y.witnesses) = k + 1 /\ y.witnesses[k + 1] = <<>>
           /\ y.witnesses # <<>> /\ Last(y.witnesses) = <<>> /\ Len(y.witnesses) - 1 = k
           /\ Witnesses(y, k) = Witnesses(x, k)
           /\ Witnesses(y, k + 1) = Witnesses(x, k) \o serialize_witness(<<>>)
<1>1. x.witnesses \in Seq(Witness) /\ <<>> \in Witness
  BY DEF TxType, Witness
<1>2. /\ y.witnesses \in Seq(Witness) /\ Len(y.witnesses) = k + 1 /\ y.witnesses[k + 1] = <<>>
      /\ \A i \in 1 .. k : y.witnesses[i] = x.witnesses[i]
  BY <1>1, AppendProperties
<1>3. y.witnesses # <<>> /\ Last(y.witnesses) = <<>> /\ Len(y.witnesses) - 1 = k
  BY <1>2, LastOf
<1>4. Witnesses(y, k) = Witnesses(x, k)
  BY <1>2, FirstWitnesses, Zenon
<1>5. \A i \in 1 .. k + 1 : y.witnesses[i] \in Witness
  BY <1>2, ElementOfSeq, Zenon
<1>6. Witnesses(y, k + 1) = Witnesses(x, k) \o serialize_witness(<<>>)
  BY <1>2, <1>4, <1>5, WitnessesGrow, Zenon
<1> QED
  BY <1>2, <1>3, <1>4, <1>6

\* The number of items of a witness: none, the witness is complete; or some.
LEMMA NumItemsRead ==
    ASSUME NEW D \in Seq(Nat), NEW x, TxType(x), Unread(x, "num_items"), NEW q \in Nat, NEW r \in q .. Len(D),
           NEW v \in Nat, NEW short \in BOOLEAN, short => Piece(D, q, r, varint_set_data(v)),
           NEW y, DOMAIN y = TxFields, y.witnesses = Append(x.witnesses, <<>>), y.items = v,
           y.canonical = (x.canonical /\ short),
           \A f \in TxFields \ {"witnesses", "items", "canonical", "cb_witnesses"} : y[f] = x[f],
           NEW c, c = "item" <=> v > 0, c \in {"item", "num_items", "lock_time"}
    PROVE  Continues(D, x, "num_items", q, y, c, r)
<1>1. /\ y.version = x.version /\ y.has_flag = x.has_flag /\ y.txin_count = x.txin_count /\ y.txins = x.txins
      /\ y.txout_count = x.txout_count /\ y.txouts = x.txouts /\ y.lock_time = x.lock_time /\ y.body = x.body
  BY DEF TxFields
<1>2. PICK k \in Nat : k = Len(x.witnesses)
  BY ListTypes
<1>3. /\ y.witnesses \in Seq(Witness) /\ Len(y.witnesses) = k + 1 /\ y.witnesses[k + 1] = <<>>
      /\ y.witnesses # <<>> /\ Last(y.witnesses) = <<>> /\ Len(y.witnesses) - 1 = k
      /\ Witnesses(y, k) = Witnesses(x, k)
      /\ Witnesses(y, k + 1) = Witnesses(x, k) \o serialize_witness(<<>>)
  BY <1>2, WitnessAppended, ZenonT(30)
<1>4. TxType(y)
  BY <1>1, <1>3 DEF TxType
<1>5. Unread(y, c)
  <2>1. c = "item" => Len(Last(y.witnesses)) < y.items
    BY <1>3
  <2> QED
    BY <1>1, <1>3, <2>1 DEF Unread, TxPhases
<1>6. ASSUME NEW s \in 0 .. q, ReadSoFar(D, x, s, "num_items", q), short PROVE ReadSoFar(D, y, s, c, r)
  <2>1. Framed(D, x, s) /\ Piece(D, x.body[2], q, Witnesses(x, k))
    BY <1>2, <1>6 DEF ReadSoFar
  <2>2. Framed(D, y, s)
    BY <1>1, <2>1, FramedKept
  <2>3. Piece(D, q, r, varint_set_data(v))
    BY <1>6
  <2>4. r \in 0 .. Len(D) /\ q \in 0 .. r /\ r \in q .. r
    OBVIOUS
  <2>5. Piece(D, r, r, Concat(<<>>))
    BY <2>4, FlattenEmpty, PieceNone DEF Concat
  <2>6. CASE c = "item"
    <3>1. Piece(D, y.body[2], q, Witnesses(y, Len(y.witnesses) - 1))
      BY <1>1, <1>3, <2>1
    <3>2. Piece(D, q, r, varint_set_data(y.items)) /\ Piece(D, r, r, Concat(Last(y.witnesses)))
      BY <1>3, <2>3, <2>5
    <3>3. \E m \in 0 .. r : \E n \in m .. r : /\ Piece(D, y.body[2], m, Witnesses(y, Len(y.witnesses) - 1))
                                              /\ Piece(D, m, n, varint_set_data(y.items))
                                              /\ Piece(D, n, r, Concat(Last(y.witnesses)))
      BY <2>4, <3>1, <3>2, Zenon
    <3> QED
      BY <2>2, <2>6, <3>3 DEF ReadSoFar
  <2>7. CASE c \in {"num_items", "lock_time"}
    <3>1. v = 0 /\ Len(<<>>) = 0
      BY <2>7
    <3>2. Piece(D, q, r, varint_set_data(v) \o Concat(<<>>))
      BY <2>3, <2>5, PieceJoin
    <3>3. Piece(D, q, r, serialize_witness(<<>>))
      BY <3>1, <3>2 DEF serialize_witness
    <3>4. Piece(D, x.body[2], r, Witnesses(x, k) \o serialize_witness(<<>>))
      BY <2>1, <3>3, PieceJoin
    <3>5. Piece(D, y.body[2], r, Witnesses(y, Len(y.witnesses)))
      BY <1>1, <1>3, <3>4
    <3>6. y.has_flag
      BY <1>1 DEF Unread
    <3> QED
      BY <2>2, <2>7, <3>5, <3>6 DEF ReadSoFar
  <2> QED
    BY <2>6, <2>7
<1> QED
  BY <1>4, <1>5, <1>6, Zenon DEF Continues

\* The witness that is being read, with one item more.
WitnessGiven(u, v, k, e) == v = [u EXCEPT ![k + 1] = Append(@, e)]

LEMMA WitnessUpdate ==
    ASSUME NEW u \in Seq(Witness), NEW k \in Nat, Len(u) = k + 1, NEW e \in Seq(Nat),
           NEW v, WitnessGiven(u, v, k, e)
    PROVE  /\ v \in Seq(Witness) /\ Len(v) = k + 1 /\ v[k + 1] = Append(u[k + 1], e)
           /\ \A i \in 1 .. k : v[i] = u[i]
<1>1. k + 1 \in 1 .. Len(u)
  OBVIOUS
<1>2. PICK w \in Witness : w = u[k + 1]
  BY <1>1, ElementOfSeq
<1>3. PICK a \in Witness : a = Append(w, e)
  BY AppendProperties DEF Witness
<1>4. PICK z : z = [u EXCEPT ![k + 1] = a]
  OBVIOUS
<1>5. z \in Seq(Witness) /\ Len(z) = Len(u) /\ \A i \in 1 .. Len(u) : z[i] = IF i = k + 1 THEN a ELSE u[i]
  BY <1>1, <1>4, SeqUpdate
<1>6. \A i \in 1 .. k : i \in 1 .. Len(u) /\ i # k + 1
  OBVIOUS
<1>7. v = z
  BY <1>2, <1>3, <1>4 DEF WitnessGiven
<1>8. z[k + 1] = a /\ \A i \in 1 .. k : z[i] = u[i]
  BY <1>1, <1>5, <1>6
<1> QED
  BY <1>2, <1>3, <1>5, <1>7, <1>8, Zenon

\* y has the item e more than x, in its last witness w, which is a now.
ItemMore(x, y, k, e, w, a) ==
    /\ Len(x.witnesses) = k + 1 /\ w = x.witnesses[k + 1] /\ a = Append(w, e)
    /\ y.witnesses \in Seq(Witness) /\ Len(y.witnesses) = k + 1 /\ y.witnesses[k + 1] = a
    /\ Witnesses(y, k) = Witnesses(x, k)
    /\ Witnesses(y, k + 1) = Witnesses(x, k) \o serialize_witness(a)

LEMMA ItemAdded ==
    ASSUME NEW x, NEW y, NEW u \in Seq(Witness), NEW v, u = x.witnesses, v = y.witnesses, NEW k \in Nat,
           Len(u) = k + 1, NEW e \in Seq(Nat), WitnessGiven(u, v, k, e)
    PROVE  \E w, a : ItemMore(x, y, k, e, w, a)
<1>1. /\ v \in Seq(Witness) /\ Len(v) = k + 1 /\ v[k + 1] = Append(u[k + 1], e)
      /\ \A i \in 1 .. k : v[i] = u[i]
  BY WitnessUpdate
<1>2. PICK a : a = Append(u[k + 1], e)
  OBVIOUS
<1>3. Witnesses(y, k) = Witnesses(x, k)
  BY <1>1, FirstWitnesses, Zenon
<1>4. \A i \in 1 .. k + 1 : y.witnesses[i] \in Witness
  BY <1>1, ElementOfSeq, Zenon
<1>5. Witnesses(y, k + 1) = Witnesses(y, k) \o serialize_witness(y.witnesses[k + 1])
  BY <1>4, WitnessesGrow, Zenon
<1>6. ItemMore(x, y, k, e, u[k + 1], a)
  BY <1>1, <1>2, <1>3, <1>5, Zenon DEF ItemMore
<1> QED
  BY <1>6, Zenon

LEMMA ItemRead ==
    ASSUME NEW D \in Seq(Nat), NEW x, TxType(x), Unread(x, "item"), NEW q \in Nat, NEW r \in q .. Len(D),
           NEW e \in Seq(Nat), Piece(D, q, r, e), NEW k \in Nat, NEW y, NEW w, NEW a, ItemMore(x, y, k, e, w, a),
           DOMAIN y = TxFields, \A f \in TxFields \ {"witnesses", "cb_witnesses"} : y[f] = x[f],
           NEW c, c = "item" <=> Len(a) < x.items, c \in {"item", "num_items", "lock_time"}
    PROVE  Continues(D, x, "item", q, y, c, r)
<1>1. /\ y.version = x.version /\ y.has_flag = x.has_flag /\ y.txin_count = x.txin_count /\ y.txins = x.txins
      /\ y.txout_count = x.txout_count /\ y.txouts = x.txouts /\ y.lock_time = x.lock_time /\ y.body = x.body
      /\ y.items = x.items /\ y.canonical = x.canonical
  BY DEF TxFields
<1>2. w \in Witness
  <2>1. k + 1 \in 1 .. Len(x.witnesses)
    BY DEF ItemMore
  <2> QED
    BY <2>1, ListTypes, Zenon DEF ItemMore
<1>3. a = Append(w, e) /\ y.witnesses \in Seq(Witness)
  BY DEF ItemMore
<1>4. a \in Witness /\ Len(a) = Len(w) + 1 /\ Concat(a) = Concat(w) \o e
  <2>1. a \in Witness /\ Len(a) = Len(w) + 1
    BY <1>2, <1>3, AppendProperties DEF Witness
  <2>2. Concat(a) = Concat(w) \o e
    BY <1>2, <1>3, FlattenAppend DEF Witness, Concat
  <2> QED
    BY <2>1, <2>2
<1>5. /\ Last(x.witnesses) = w /\ Len(x.witnesses) - 1 = k
      /\ y.witnesses # <<>> /\ Last(y.witnesses) = a /\ Len(y.witnesses) - 1 = k
  <2>1. x.witnesses \in Seq(Witness)
    BY DEF TxType
  <2> QED
    BY <1>3, <2>1, LastOf DEF ItemMore
<1>6. Len(y.witnesses) = k + 1
  BY DEF ItemMore
<1>7. /\ Witnesses(y, k) = Witnesses(x, k)
      /\ Witnesses(y, k + 1) = Witnesses(x, k) \o serialize_witness(a)
  BY Zenon DEF ItemMore
<1>8. TxType(y)
  BY <1>1, <1>3 DEF TxType
<1>9. PICK l \in Nat : l = Len(w)
  BY <1>2 DEF Witness
<1>10. l < x.items /\ x.items \in Nat /\ Len(a) = l + 1
  BY <1>4, <1>5, <1>9 DEF Unread, TxType
<1>11. Unread(y, c)
  <2>1. c = "item" => Len(Last(y.witnesses)) < y.items
    BY <1>1, <1>5
  <2> QED
    BY <1>1, <1>5, <2>1 DEF Unread, TxPhases
<1>12. ASSUME NEW s \in 0 .. q, ReadSoFar(D, x, s, "item", q) PROVE ReadSoFar(D, y, s, c, r)
  <2>1. Framed(D, x, s)
    BY <1>12 DEF ReadSoFar
  <2>2. PICK m \in 0 .. q, n \in 0 .. q : /\ n \in m .. q
                                          /\ Piece(D, x.body[2], m, Witnesses(x, k))
                                          /\ Piece(D, m, n, varint_set_data(x.items))
                                          /\ Piece(D, n, q, Concat(w))
    <3>1. PICK m \in 0 .. q : \E n \in m .. q : /\ Piece(D, x.body[2], m, Witnesses(x, Len(x.witnesses) - 1))
                                                /\ Piece(D, m, n, varint_set_data(x.items))
                                                /\ Piece(D, n, q, Concat(Last(x.witnesses)))
      BY <1>12 DEF ReadSoFar
    <3>2. PICK n \in m .. q : /\ Piece(D, x.body[2], m, Witnesses(x, Len(x.witnesses) - 1))
                             /\ Piece(D, m, n, varint_set_data(x.items))
                             /\ Piece(D, n, q, Concat(Last(x.witnesses)))
      BY <3>1
    <3>3. n \in 0 .. q
      OBVIOUS
    <3> QED
      BY <1>5, <3>2, <3>3
  <2>3. Framed(D, y, s)
    BY <1>1, <2>1, FramedKept
  <2>4. Piece(D, n, r, Concat(a))
    <3>1. Piece(D, n, r, Concat(w) \o e)
      BY <2>2, PieceJoin
    <3> QED
      BY <1>4, <3>1
  <2>5. m \in 0 .. r /\ n \in m .. r
    BY <2>2
  <2>6. CASE c = "item"
    <3>1. /\ Piece(D, y.body[2], m, Witnesses(y, Len(y.witnesses) - 1))
          /\ Piece(D, m, n, varint_set_data(y.items)) /\ Piece(D, n, r, Concat(Last(y.witnesses)))
      BY <1>1, <1>5, <1>7, <2>2, <2>4
    <3>2. \E mm \in 0 .. r : \E nn \in mm .. r : /\ Piece(D, y.body[2], mm, Witnesses(y, Len(y.witnesses) - 1))
                                                 /\ Piece(D, mm, nn, varint_set_data(y.items))
                                                 /\ Piece(D, nn, r, Concat(Last(y.witnesses)))
      BY <2>5, <3>1, Zenon
    <3> QED
      BY <2>3, <2>6, <3>2 DEF ReadSoFar
  <2>7. CASE c \in {"num_items", "lock_time"}
    <3>1. Len(a) = x.items
      <4>1. ~(l + 1 < x.items)
        BY <1>10, <2>7
      <4> QED
        BY <1>10, <4>1
    <3>2. Piece(D, m, r, varint_set_data(x.items) \o Concat(a))
      BY <2>2, <2>4, PieceJoin
    <3>3. Piece(D, m, r, serialize_witness(a))
      BY <3>1, <3>2 DEF serialize_witness
    <3>4. Piece(D, x.body[2], r, Witnesses(x, k) \o serialize_witness(a))
      BY <2>2, <3>3, PieceJoin
    <3>5. Piece(D, y.body[2], r, Witnesses(y, Len(y.witnesses)))
      BY <1>1, <1>6, <1>7, <3>4
    <3>6. y.has_flag
      BY <1>1 DEF Unread
    <3> QED
      BY <2>3, <2>7, <3>5, <3>6 DEF ReadSoFar
  <2> QED
    BY <2>6, <2>7
<1> QED
  BY <1>1, <1>8, <1>11, <1>12, Zenon DEF Continues

\* The parts put together, without flag and witnesses.
LEMMA WithoutWitnesses ==
    ASSUME NEW a \in Nat, NEW v \in Nat, NEW i \in Seq(Nat), NEW o \in Seq(Nat)
    PROVE  (((<<a>> \o <<>>) \o i) \o o) \o (<<>> \o <<v>>) = (<<a>> \o (i \o o)) \o <<v>>
<1>1. PICK s \in Seq(Nat), u \in Seq(Nat) : s = <<a>> /\ u = <<v>>
  <2>1. <<a>> \in Seq(Nat) /\ <<v>> \in Seq(Nat)
    OBVIOUS
  <2> QED
    BY <2>1, Zenon
<1>2. s \o <<>> = s /\ <<>> \o u = u
  OBVIOUS
<1>3. (s \o i) \o o = s \o (i \o o)
  BY ConcatAssociative, SMTT(30)
<1> QED
  BY <1>1, <1>2, <1>3, Zenon

\* The lock time is the last field: the bytes of the transaction are its
\* serialisation, and the id is of that without flag and witnesses.
LEMMA LockTimeRead ==
    ASSUME NEW D \in Seq(Nat), NEW x, TxType(x), NEW q \in Nat, NEW v \in Nat, Piece(D, q, q + 1, <<v>>),
           NEW y, DOMAIN y = TxFields, \A f \in TxFields \ {"lock_time", "txid"} : y[f] = x[f], y.lock_time = v,
           y.txid = <<"txid", <<x.version>> \o SubSeq(D, x.body[1] + 1, x.body[2]) \o <<v>>>>
    PROVE  /\ TxType(y) /\ y.canonical = x.canonical
           /\ \A s \in 0 .. q : ReadSoFar(D, x, s, "lock_time", q) =>
                 IdRight(y) /\ Piece(D, s, q + 1, satoshi_tx_serialize(y))
<1>1. /\ y.version = x.version /\ y.has_flag = x.has_flag /\ y.txin_count = x.txin_count /\ y.txins = x.txins
      /\ y.txout_count = x.txout_count /\ y.txouts = x.txouts /\ y.witnesses = x.witnesses /\ y.items = x.items
      /\ y.body = x.body /\ y.canonical = x.canonical
  BY DEF TxFields
<1>2. TxType(y)
  BY <1>1 DEF TxType
<1>3. ASSUME NEW s \in 0 .. q, ReadSoFar(D, x, s, "lock_time", q)
      PROVE  IdRight(y) /\ Piece(D, s, q + 1, satoshi_tx_serialize(y))
  <2> DEFINE A == <<y.version>> \o (IF y.has_flag THEN <<0, 1>> ELSE <<>>)
             I == serialize_inputs(y)
             O == serialize_outputs(y)
             z == [y EXCEPT !.has_flag = FALSE]
  <2>1. Framed(D, y, s) /\ Piece(D, y.body[2], q, Remainder(x))
    <3>1. Framed(D, x, s) /\ Piece(D, x.body[2], q, Remainder(x))
      BY <1>3 DEF ReadSoFar, Remainder
    <3> QED
      BY <1>1, <3>1, FramedKept
  <2>2. Remainder(x) = Remainder(y)
    BY <1>1, Zenon DEF Remainder, Witnesses
  <2>3. PICK m \in 0 .. y.body[2] : /\ Piece(D, s, y.body[1], A)
                                    /\ Piece(D, y.body[1], m, I) /\ Piece(D, m, y.body[2], O)
    BY <2>1, Zenon DEF Framed, Opened
  <2>4. Piece(D, y.body[2], q + 1, serialize_tail(y))
    <3>1. Piece(D, y.body[2], q + 1, Remainder(y) \o <<v>>)
      BY <2>1, <2>2, PieceJoin
    <3> QED
      BY <1>2, <3>1, SerialIs
  <2>5. Piece(D, s, q + 1, satoshi_tx_serialize(y))
    <3> HIDE DEF A, I, O
    <3>1. Piece(D, s, m, A \o I)
      BY <2>3, PieceJoin
    <3>2. Piece(D, s, y.body[2], (A \o I) \o O)
      BY <2>3, <3>1, PieceJoin
    <3>3. Piece(D, s, q + 1, ((A \o I) \o O) \o serialize_tail(y))
      BY <2>4, <3>2, PieceJoin
    <3> QED
      BY <3>3, Zenon DEF satoshi_tx_serialize, A, I, O
  <2>6. SubSeq(D, x.body[1] + 1, x.body[2]) = I \o O
    <3> HIDE DEF I, O
    <3>1. Piece(D, y.body[1], y.body[2], I \o O)
      BY <2>3, PieceJoin
    <3> QED
      BY <1>1, <3>1, Zenon DEF Piece
  <2>7. /\ DOMAIN z = TxFields /\ z.has_flag = FALSE /\ z.version = y.version /\ z.txin_count = y.txin_count
        /\ z.txins = y.txins /\ z.txout_count = y.txout_count /\ z.txouts = y.txouts /\ z.lock_time = v
    BY DEF TxFields
  <2> HIDE DEF z
  <2>8. satoshi_tx_serialize(z) = (<<y.version>> \o (I \o O)) \o <<v>>
    <3>1. serialize_inputs(z) = I /\ serialize_outputs(z) = O
      BY <2>7, Zenon DEF serialize_inputs, serialize_outputs
    <3>2. serialize_tail(z) = <<>> \o <<v>>
      BY <2>7, Zenon DEF serialize_tail
    <3>3. satoshi_tx_serialize(z) = (((<<y.version>> \o <<>>) \o I) \o O) \o (<<>> \o <<v>>)
      BY <2>7, <3>1, <3>2, Zenon DEF satoshi_tx_serialize
    <3>4. y.version \in Nat
      BY <1>2 DEF TxType
    <3>5. I \in Seq(Nat) /\ O \in Seq(Nat)
      BY <1>2, SerialTypes, Zenon
    <3> HIDE DEF I, O
    <3> QED
      BY <3>3, <3>4, <3>5, WithoutWitnesses, ZenonT(30)
  <2>9. IdRight(y)
    <3> HIDE DEF I, O
    <3> QED
      BY <1>1, <2>6, <2>8, Zenon DEF IdRight, z
  <2> QED
    BY <2>5, <2>9
<1> QED
  BY <1>1, <1>2, <1>3, Zenon

-----------------------------------------------------------------------------
(* The whole payload *)

LEMMA BeforeKept ==
    ASSUME NEW B, NEW D, NEW N, NEW h, NEW X, NEW Y, NEW k, NEW s, Before(B, D, N, h, X, k, s),
           \A i \in 1 .. k : Y[i] = X[i]
    PROVE  Before(B, D, N, h, Y, k, s)
<1>1. Transactions(Y, k) = Transactions(X, k)
  BY FirstTransactions, Zenon
<1>2. (\A i \in 1 .. k : Y[i].canonical) => (\A i \in 1 .. k : X[i].canonical)
  BY Zenon
<1> QED
  BY <1>1, <1>2, Zenon DEF Before

\* The transaction being read goes on.
LEMMA RoundProgress ==
    ASSUME NEW B, NEW D \in Seq(Nat), NEW N, NEW h, NEW X, NEW c \in TxPhases, NEW q, Round(B, D, N, h, X, c, q),
           NEW n \in Nat, Len(X) = n + 1, NEW x, x = X[n + 1],
           NEW y, NEW Y, Len(Y) = n + 1, Y[n + 1] = y, \A i \in 1 .. n : Y[i] = X[i],
           NEW d \in TxPhases, NEW r \in q .. Len(D), Continues(D, x, c, q, y, d, r)
    PROVE  Round(B, D, N, h, Y, d, r)
<1>1. /\ q \in 0 .. Len(D) /\ N \in Nat /\ (B => n + 1 <= N) /\ Len(X) - 1 = n
      /\ \A i \in 1 .. n + 1 : TxType(X[i]) /\ (i < n + 1 => IdRight(X[i]))
  BY DEF Round
<1>2. PICK s \in 0 .. q : /\ Before(B, D, N, h, X, n, s)
                          /\ x.canonical => ReadSoFar(D, x, s, c, q)
  <2>1. \E s \in 0 .. q : /\ Before(B, D, N, h, X, Len(X) - 1, s)
                          /\ X[Len(X)].canonical => ReadSoFar(D, X[Len(X)], s, c, q)
    BY DEF Round
  <2>2. Len(X) - 1 = n /\ X[Len(X)] = x
    BY <1>1
  <2> QED
    BY <2>1, <2>2
<1>3. TxType(y) /\ Unread(y, d) /\ (y.canonical => x.canonical /\ (ReadSoFar(D, x, s, c, q) => ReadSoFar(D, y, s, d, r)))
  BY Zenon DEF Continues
<1>4. r \in 0 .. Len(D) /\ s \in 0 .. r /\ Len(Y) - 1 = n
  BY <1>1
<1>5. \A i \in 1 .. Len(Y) : TxType(Y[i]) /\ (i < Len(Y) \/ d \in {"next_tx", "parsed"} => IdRight(Y[i]))
  <2>1. ASSUME NEW i \in 1 .. n + 1 PROVE TxType(Y[i]) /\ (i < n + 1 => IdRight(Y[i]))
    <3>1. CASE i = n + 1
      BY <1>3, <3>1
    <3>2. CASE i # n + 1
      <4>1. i \in 1 .. n
        BY <3>2
      <4> QED
        BY <1>1, <4>1
    <3> QED
      BY <3>1, <3>2
  <2>2. d \notin {"next_tx", "parsed"}
    BY DEF TxPhases
  <2> QED
    BY <2>1, <2>2
<1>6. Before(B, D, N, h, Y, Len(Y) - 1, s)
  BY <1>2, <1>4, BeforeKept
<1>7. Y[Len(Y)].canonical => ReadSoFar(D, Y[Len(Y)], s, d, r)
  BY <1>2, <1>3
<1>8. d \notin {"header", "txn_count", "next_tx", "parsed"}
  BY DEF TxPhases
<1>9. Unread(Y[Len(Y)], d) /\ (B => Len(Y) <= N)
  BY <1>1, <1>3
<1> QED
  BY <1>1, <1>4, <1>5, <1>6, <1>7, <1>8, <1>9, Zenon DEF Round

\* The transaction is complete.
LEMMA RoundComplete ==
    ASSUME NEW B, NEW D \in Seq(Nat), NEW N, NEW h, NEW X, NEW q, Round(B, D, N, h, X, "lock_time", q),
           NEW n \in Nat, Len(X) = n + 1, NEW x, x = X[n + 1],
           NEW y, NEW Y, Len(Y) = n + 1, Y[n + 1] = y, \A i \in 1 .. n : Y[i] = X[i],
           q < Len(D), TxType(y), y.canonical = x.canonical,
           \A s \in 0 .. q : ReadSoFar(D, x, s, "lock_time", q) =>
              IdRight(y) /\ Piece(D, s, q + 1, satoshi_tx_serialize(y)),
           NEW d, d = IF B THEN "next_tx" ELSE "parsed"
    PROVE  Round(B, D, N, h, Y, d, q + 1)
<1>1. "lock_time" \in TxPhases
  BY DEF TxPhases
<1>2. /\ q \in 0 .. Len(D) /\ N \in Nat /\ (B => n + 1 <= N) /\ Len(X) - 1 = n
      /\ \A i \in 1 .. n + 1 : TxType(X[i]) /\ (i < n + 1 => IdRight(X[i]))
  BY <1>1 DEF Round
<1>3. PICK s \in 0 .. q : /\ Before(B, D, N, h, X, n, s)
                          /\ x.canonical => ReadSoFar(D, x, s, "lock_time", q)
  <2>1. \E s \in 0 .. q : /\ Before(B, D, N, h, X, Len(X) - 1, s)
                          /\ X[Len(X)].canonical => ReadSoFar(D, X[Len(X)], s, "lock_time", q)
    BY <1>1 DEF Round
  <2>2. Len(X) - 1 = n /\ X[Len(X)] = x
    BY <1>2
  <2> QED
    BY <2>1, <2>2
<1>4. IdRight(y) /\ (y.canonical => Piece(D, s, q + 1, satoshi_tx_serialize(y)))
  <2>1. CASE y.canonical
    BY <1>3, <2>1
  <2>2. CASE ~y.canonical
    BY <2>2 DEF IdRight
  <2> QED
    BY <2>1, <2>2
<1>5. \A i \in 1 .. Len(Y) : TxType(Y[i]) /\ IdRight(Y[i])
  <2>1. ASSUME NEW i \in 1 .. n + 1 PROVE TxType(Y[i]) /\ IdRight(Y[i])
    <3>1. CASE i = n + 1
      BY <1>4, <3>1
    <3>2. CASE i # n + 1
      <4>1. i \in 1 .. n /\ i < n + 1
        BY <3>2
      <4> QED
        BY <1>2, <4>1
    <3> QED
      BY <3>1, <3>2
  <2> QED
    BY <2>1
<1>6. q + 1 \in 0 .. Len(D)
  BY <1>2
<1>7. Before(B, D, N, h, Y, n, s)
  BY <1>3, BeforeKept
<1>8. CASE B
  <2>1. n <= N /\ N >= 1 /\ s \in 1 .. Len(D) /\ n + 1 <= N
    BY <1>2, <1>7, <1>8 DEF Before
  <2>2. ASSUME h, \A i \in 1 .. n + 1 : Y[i].canonical
        PROVE  \E m \in 1 .. q + 1 : Piece(D, 1, m, varint_set_data(N)) /\ Piece(D, m, q + 1, Transactions(Y, n + 1))
    <3>1. \A i \in 1 .. n : Y[i].canonical
      BY <2>2
    <3>2. PICK m \in 1 .. s : Piece(D, 1, m, varint_set_data(N)) /\ Piece(D, m, s, Transactions(Y, n))
      BY <1>7, <1>8, <2>2, <3>1, Zenon DEF Before
    <3>3. n + 1 \in 1 .. n + 1 /\ m \in 1 .. q + 1
      BY <1>2
    <3>4. y.canonical
      BY <2>2, <3>3
    <3>5. Piece(D, m, q + 1, Transactions(Y, n) \o satoshi_tx_serialize(y))
      BY <1>4, <3>2, <3>4, PieceJoin
    <3>6. Transactions(Y, n + 1) = Transactions(Y, n) \o satoshi_tx_serialize(y)
      BY <1>5, TransactionsGrow
    <3> QED
      BY <3>2, <3>3, <3>5, <3>6, Zenon
  <2>3. q + 1 \in 1 .. Len(D)
    BY <1>2
  <2>4. Before(B, D, N, h, Y, n + 1, q + 1)
    BY <1>8, <2>1, <2>2, <2>3, Zenon DEF Before
  <2>5. d = "next_tx" /\ Len(Y) = n + 1
    BY <1>8
  <2> QED
    BY <1>2, <1>5, <1>6, <2>4, <2>5 DEF Round, TxPhases
<1>9. CASE ~B
  <2>1. s = 0 /\ d = "parsed"
    BY <1>7, <1>9 DEF Before
  <2>2. Y[Len(Y)].canonical => Piece(D, 0, q + 1, satoshi_tx_serialize(Y[Len(Y)]))
    BY <1>4, <2>1
  <2> QED
    BY <1>2, <1>5, <1>6, <1>9, <2>1, <2>2 DEF Round, TxPhases
<1> QED
  BY <1>8, <1>9

-----------------------------------------------------------------------------
(* The steps of the parsers keep RoundInv *)

LEMMA ShortestKept ==
    ASSUME payload' = payload, txn_count' = txn_count
    PROVE  shortest' = shortest
BY DEF shortest, varint_size, byte

\* Failing is allowed at any time.
LEMMA FailedRound ==
    ASSUME RoundInv, payload' = payload, pc' \in {"failed", "discarded"}
    PROVE  RoundInv'
BY DEF RoundInv

LEMMA AbandonRound == ASSUME RoundInv, NEW H, Abandon(H) PROVE RoundInv'
BY FailedRound DEF Abandon

LEMMA RejectRound == ASSUME RoundInv, RejectBlock PROVE RoundInv'
BY FailedRound DEF RejectBlock

\* The transaction that is being read.
LEMMA Reading ==
    ASSUME IInv, RoundInv, pc \in TxPhases
    PROVE  /\ payload \in Payloads /\ payload.data \in Seq(Nat) /\ Len(payload.data) \in Nat
           /\ p \in Nat /\ p <= Len(payload.data)
           /\ Round(payload.block, payload.data, txn_count, shortest, txs, pc, p)
           /\ TxType(tx) /\ Unread(tx, pc)
<1>1. payload \in Payloads /\ payload.data \in Seq(Nat) /\ Len(payload.data) \in Nat
  BY PayloadIs DEF RoundInv
<1>2. Round(payload.block, payload.data, txn_count, shortest, txs, pc, p)
  BY DEF RoundInv, TxPhases
<1>3. t = Len(txs) /\ tx = txs[Len(txs)] /\ Len(txs) \in 1 .. Len(txs)
  BY DEF t, tx, IInv, Phases, Listed
<1>4. p \in 0 .. Len(payload.data) /\ TxType(tx) /\ Unread(tx, pc)
  BY <1>2, <1>3 DEF Round
<1> QED
  BY <1>1, <1>2, <1>4

\* One byte of it.
LEMMA ByteRead ==
    ASSUME payload \in Payloads, NEW j \in Nat, j < Len(payload.data)
    PROVE  byte(j) \in Nat /\ Piece(payload.data, j, j + 1, <<byte(j)>>)
<1>1. byte(j) \in Byte /\ byte(j) = payload.data[j + 1] /\ payload.data \in Seq(Nat)
  BY PayloadIs, Zenon
<1>2. byte(j) \in Nat
  BY <1>1, ByteNat
<1> QED
  BY <1>1, <1>2, PieceOne

\* The list of transactions while the last one is being filled.
LEMMA FilledIs ==
    ASSUME IInv, pc \in TxPhases, NEW y, txs' = [txs EXCEPT ![t] = y]
    PROVE  \E n \in Nat : /\ Len(txs) = n + 1 /\ tx = txs[n + 1] /\ Len(txs') = n + 1 /\ txs'[n + 1] = y
                          /\ \A i \in 1 .. n : txs'[i] = txs[i]
<1> DEFINE k == Len(txs)
<1>1. k \in Nat /\ k >= 1 /\ txs = [i \in 1 .. k |-> txs[i]] /\ t = k
  BY DEF IInv, Phases, Listed, t
<1> HIDE DEF k
<1>2. txs' = [i \in 1 .. k |-> IF i = k THEN y ELSE txs[i]]
  BY <1>1
<1>3. Len(txs') = k
  BY <1>1, <1>2
<1>4. k - 1 \in Nat /\ (k - 1) + 1 = k /\ k \in 1 .. k /\ \A i \in 1 .. k - 1 : i \in 1 .. k /\ i # k
  BY <1>1
<1>5. txs'[k] = y /\ \A i \in 1 .. k - 1 : txs'[i] = txs[i]
  BY <1>2, <1>4, Zenon
<1>6. Len(txs) = k /\ tx = txs[k]
  BY <1>1 DEF k, tx
<1> QED
  BY <1>3, <1>4, <1>5, <1>6, Zenon

\* A step that reads a field of a transaction.
LEMMA ReadStep ==
    ASSUME IInv, RoundInv, pc \in TxPhases, NEW y, NEW k \in Nat, p + k <= Len(payload.data), Filled(y, k),
           pc' \in TxPhases, Continues(payload.data, tx, pc, p, y, pc', p + k)
    PROVE  RoundInv'
<1>1. /\ payload \in Payloads /\ payload.data \in Seq(Nat) /\ Len(payload.data) \in Nat
      /\ p \in Nat /\ p <= Len(payload.data)
      /\ Round(payload.block, payload.data, txn_count, shortest, txs, pc, p)
  BY Reading
<1>2. txs' = [txs EXCEPT ![t] = y] /\ p' = p + k /\ payload' = payload /\ txn_count' = txn_count
  BY DEF Filled
<1>3. PICK n \in Nat : /\ Len(txs) = n + 1 /\ tx = txs[n + 1] /\ Len(txs') = n + 1 /\ txs'[n + 1] = y
                       /\ \A i \in 1 .. n : txs'[i] = txs[i]
  BY <1>2, FilledIs
<1>4. p + k \in p .. Len(payload.data)
  BY <1>1
<1>5. Round(payload.block, payload.data, txn_count, shortest, txs', pc', p + k)
  BY <1>1, <1>3, <1>4, RoundProgress
<1>6. shortest' = shortest
  BY <1>2, ShortestKept
<1> QED
  BY <1>1, <1>2, <1>5, <1>6, Zenon DEF RoundInv

LEMMA VersionRound == ASSUME IInv, RoundInv, parse_version PROVE RoundInv'
<1>1. pc = "version" /\ pc \in TxPhases
  BY DEF parse_version, TxPhases
<1>2. CASE ~Has(1)
  BY <1>2, AbandonRound DEF parse_version
<1>3. CASE Has(1)
  <2>1. PICK y : y = [tx EXCEPT !.version = byte(p)]
    OBVIOUS
  <2>2. Filled(y, 1) /\ pc' = "flag"
    BY <1>3, <2>1 DEF parse_version
  <2>3. p + 1 <= Len(payload.data) /\ p \in Nat /\ p < Len(payload.data) /\ payload.data \in Seq(Nat) /\ payload \in Payloads
    BY <1>1, <1>3, Reading DEF Has
  <2>4. byte(p) \in Nat /\ Piece(payload.data, p, p + 1, <<byte(p)>>)
    BY <2>3, ByteRead
  <2>5. Continues(payload.data, tx, "version", p, y, "flag", p + 1)
    BY <1>1, <2>1, <2>3, <2>4, Reading, VersionRead
  <2> QED
    BY <1>1, <2>2, <2>3, <2>5, ReadStep DEF TxPhases
<1> QED
  BY <1>2, <1>3

LEMMA FlagRound == ASSUME IInv, RoundInv, parse_flag PROVE RoundInv'
<1>1. pc = "flag" /\ pc \in TxPhases
  BY DEF parse_flag, TxPhases
<1>2. CASE ~Has(2) \/ (byte(p) = 0 /\ byte(p + 1) # 1)
  BY <1>2, AbandonRound DEF parse_flag
<1>3. CASE ~(~Has(2) \/ (byte(p) = 0 /\ byte(p + 1) # 1))
  <2>1. /\ p + 2 <= Len(payload.data) /\ p \in Nat /\ p + 1 \in Nat /\ p < Len(payload.data)
        /\ p + 1 < Len(payload.data) /\ (p + 1) + 1 = p + 2 /\ p \in 0 .. Len(payload.data)
        /\ payload.data \in Seq(Nat) /\ payload \in Payloads /\ TxType(tx) /\ Unread(tx, "flag")
    BY <1>1, <1>3, Reading DEF Has
  <2>2. pc' = "txin_count" /\ pc' \in TxPhases
    BY <1>3 DEF parse_flag, TxPhases
  <2>3. CASE byte(p) = 0
    <3>1. PICK y : y = [tx EXCEPT !.has_flag = TRUE]
      OBVIOUS
    <3>2. Filled(y, 2)
      BY <1>3, <2>3, <3>1 DEF parse_flag
    <3>3. payload.data[p + 1] = 0 /\ payload.data[p + 2] = 1
      BY <1>3, <2>1, <2>3, PayloadIs
    <3>4. Piece(payload.data, p, p + 2, <<0, 1>>)
      BY <2>1, <3>3, PieceTwo
    <3>5. Continues(payload.data, tx, "flag", p, y, "txin_count", p + 2)
      BY <2>1, <3>1, <3>4, FlagRead
    <3> QED
      BY <1>1, <2>1, <2>2, <3>2, <3>5, ReadStep
  <2>4. CASE byte(p) # 0
    <3>1. Filled(tx, 0)
      BY <1>3, <2>4 DEF parse_flag
    <3>2. Continues(payload.data, tx, "flag", p, tx, "txin_count", p)
      BY <2>1, NoFlagRead
    <3>3. p + 0 = p /\ p + 0 <= Len(payload.data)
      BY <2>1
    <3> QED
      BY <1>1, <2>1, <2>2, <3>1, <3>2, <3>3, ReadStep
  <2> QED
    BY <2>3, <2>4
<1> QED
  BY <1>2, <1>3

\* A count that is all there.
LEMMA CountRead ==
    ASSUME payload \in Payloads, NEW j \in Nat, j + varint_size(j) <= Len(payload.data),
           NEW short, short = (varint_size(j) = varint_calc_size(varint_get(j)))
    PROVE  /\ varint_size(j) \in Nat /\ varint_get(j) \in Nat /\ short \in BOOLEAN
           /\ j + varint_size(j) \in j .. Len(payload.data)
           /\ short => Piece(payload.data, j, j + varint_size(j), varint_set_data(varint_get(j)))
<1>1. varint_size(j) \in Nat /\ varint_get(j) \in Nat /\ payload.data \in Seq(Nat)
  BY VarintNat, PayloadIs
<1>2. j + varint_size(j) \in j .. Len(payload.data)
  BY <1>1
<1>3. short => Piece(payload.data, j, j + varint_size(j), varint_set_data(varint_get(j)))
  BY VarintPiece
<1> QED
  BY <1>1, <1>2, <1>3

LEMMA TxinCountRound == ASSUME IInv, RoundInv, parse_txin_count PROVE RoundInv'
<1>1. pc = "txin_count" /\ pc \in TxPhases
  BY DEF parse_txin_count, TxPhases
<1>2. CASE ~parse_varint \/ varint_get(p) = 0
  BY <1>2, AbandonRound DEF parse_txin_count
<1>3. CASE ~(~parse_varint \/ varint_get(p) = 0)
  <2>1. PICK y : y = [tx EXCEPT !.txin_count = varint_get(p), !.canonical = short_count, !.body[1] = p]
    OBVIOUS
  <2>2. Filled(y, varint_size(p)) /\ pc' = "txin"
    BY <1>3, <2>1 DEF parse_txin_count
  <2>3. /\ p + varint_size(p) <= Len(payload.data) /\ p \in Nat /\ payload.data \in Seq(Nat)
        /\ payload \in Payloads /\ TxType(tx) /\ Unread(tx, "txin_count")
    BY <1>1, <1>3, Reading DEF parse_varint, Has
  <2>4. short_count = (varint_size(p) = varint_calc_size(varint_get(p)))
    BY Zenon DEF short_count
  <2>5. /\ varint_size(p) \in Nat /\ varint_get(p) \in Nat /\ short_count \in BOOLEAN
        /\ p + varint_size(p) \in p .. Len(payload.data)
        /\ short_count => Piece(payload.data, p, p + varint_size(p), varint_set_data(varint_get(p)))
    BY <2>3, <2>4, CountRead
  <2>6. Continues(payload.data, tx, "txin_count", p, y, "txin", p + varint_size(p))
    BY <2>1, <2>3, <2>5, TxinCountRead
  <2> QED
    BY <1>1, <2>2, <2>3, <2>5, <2>6, ReadStep DEF TxPhases
<1> QED
  BY <1>2, <1>3

\* A number and a string, as inputs and outputs begin.
LEMMA FieldsRead ==
    ASSUME payload \in Payloads, NEW j \in Nat, j + (1 + varstr_size(j + 1)) <= Len(payload.data),
           j < Len(payload.data)
    PROVE  /\ varstr_size(j + 1) \in Nat /\ byte(j) \in Nat /\ varstr_clone(j + 1) \in Seq(Nat)
           /\ j + (1 + varstr_size(j + 1)) \in j .. Len(payload.data)
           /\ Piece(payload.data, j, j + (1 + varstr_size(j + 1)), <<byte(j)>> \o varstr_clone(j + 1))
<1>1. payload.data \in Seq(Nat) /\ Len(payload.data) \in Nat /\ j + 1 \in Nat
  BY PayloadIs
<1>2. varint_size(j + 1) \in Nat /\ varint_get(j + 1) \in Nat
  BY <1>1, VarintNat
<1>3. varstr_size(j + 1) \in Nat
  BY <1>2 DEF varstr_size
<1>4. (j + 1) + varstr_size(j + 1) = j + (1 + varstr_size(j + 1))
  BY <1>3
<1>5. /\ Piece(payload.data, j + 1, j + (1 + varstr_size(j + 1)), varstr_clone(j + 1))
      /\ varstr_clone(j + 1) \in Seq(Nat)
  BY <1>1, <1>4, VarstrPiece
<1>6. byte(j) \in Nat /\ Piece(payload.data, j, j + 1, <<byte(j)>>)
  BY ByteRead
<1>7. Piece(payload.data, j, j + (1 + varstr_size(j + 1)), <<byte(j)>> \o varstr_clone(j + 1))
  BY <1>1, <1>5, <1>6, PieceJoin
<1>8. j + (1 + varstr_size(j + 1)) \in j .. Len(payload.data)
  BY <1>1, <1>3
<1> QED
  BY <1>3, <1>5, <1>6, <1>7, <1>8

LEMMA TxinRound == ASSUME IInv, RoundInv, parse_txin PROVE RoundInv'
<1>1. pc = "txin" /\ pc \in TxPhases
  BY DEF parse_txin, TxPhases
<1>2. CASE ~Has(1) \/ ~Has(1 + varstr_size(p + 1))
  BY <1>2, AbandonRound DEF parse_txin
<1>3. CASE ~(~Has(1) \/ ~Has(1 + varstr_size(p + 1)))
  <2>1. PICK a : a = [outpoint |-> byte(p), scripts |-> varstr_clone(p + 1), sequence |-> 0]
    OBVIOUS
  <2>2. PICK y : y = [tx EXCEPT !.txins = Append(@, a)]
    OBVIOUS
  <2>3. Filled(y, 1 + varstr_size(p + 1)) /\ pc' = "sequence"
    BY <1>3, <2>1, <2>2 DEF parse_txin
  <2>4. /\ p + (1 + varstr_size(p + 1)) <= Len(payload.data) /\ p \in Nat /\ p < Len(payload.data)
        /\ payload.data \in Seq(Nat) /\ payload \in Payloads /\ TxType(tx) /\ Unread(tx, "txin")
    BY <1>1, <1>3, Reading DEF Has
  <2>5. /\ varstr_size(p + 1) \in Nat /\ byte(p) \in Nat /\ varstr_clone(p + 1) \in Seq(Nat)
        /\ p + (1 + varstr_size(p + 1)) \in p .. Len(payload.data)
        /\ Piece(payload.data, p, p + (1 + varstr_size(p + 1)), <<byte(p)>> \o varstr_clone(p + 1))
    BY <2>4, FieldsRead
  <2>6. /\ a \in TxIn /\ a.sequence = 0
        /\ Piece(payload.data, p, p + (1 + varstr_size(p + 1)), <<a.outpoint>> \o a.scripts)
    BY <2>1, <2>5 DEF TxIn
  <2>7. Continues(payload.data, tx, "txin", p, y, "sequence", p + (1 + varstr_size(p + 1)))
    BY <2>2, <2>4, <2>5, <2>6, TxinRead
  <2>8. 1 + varstr_size(p + 1) \in Nat
    BY <2>5
  <2> QED
    BY <1>1, <2>3, <2>4, <2>7, <2>8, ReadStep DEF TxPhases
<1> QED
  BY <1>2, <1>3

LEMMA SequenceRound == ASSUME IInv, RoundInv, parse_sequence PROVE RoundInv'
<1>1. pc = "sequence" /\ pc \in TxPhases
  BY DEF parse_sequence, TxPhases
<1>2. CASE ~Has(1)
  BY <1>2, AbandonRound DEF parse_sequence
<1>3. CASE Has(1)
  <2>1. PICK y : y = [tx EXCEPT !.txins[Len(tx.txins)].sequence = byte(p)]
    OBVIOUS
  <2>2. PICK c : c = IF Len(tx.txins) = tx.txin_count THEN "txout_count" ELSE "txin"
    OBVIOUS
  <2>3. Filled(y, 1) /\ pc' = c /\ c \in TxPhases
    BY <1>3, <2>1, <2>2 DEF parse_sequence, TxPhases
  <2>4. /\ p + 1 <= Len(payload.data) /\ p \in Nat /\ p < Len(payload.data)
        /\ payload.data \in Seq(Nat) /\ payload \in Payloads /\ TxType(tx) /\ Unread(tx, "sequence")
    BY <1>1, <1>3, Reading DEF Has
  <2>5. byte(p) \in Nat /\ Piece(payload.data, p, p + 1, <<byte(p)>>)
    BY <2>4, ByteRead
  <2>6. Continues(payload.data, tx, "sequence", p, y, c, p + 1)
    BY <2>1, <2>2, <2>4, <2>5, SequenceRead
  <2> QED
    BY <1>1, <2>3, <2>4, <2>6, ReadStep
<1> QED
  BY <1>2, <1>3

LEMMA TxoutCountRound == ASSUME IInv, RoundInv, parse_txout_count PROVE RoundInv'
<1>1. pc = "txout_count" /\ pc \in TxPhases
  BY DEF parse_txout_count, TxPhases
<1>2. CASE ~parse_varint \/ varint_get(p) = 0
  BY <1>2, AbandonRound DEF parse_txout_count
<1>3. CASE ~(~parse_varint \/ varint_get(p) = 0)
  <2>1. PICK y : y = [tx EXCEPT !.txout_count = varint_get(p), !.canonical = @ /\ short_count]
    OBVIOUS
  <2>2. Filled(y, varint_size(p)) /\ pc' = "txout"
    BY <1>3, <2>1 DEF parse_txout_count
  <2>3. /\ p + varint_size(p) <= Len(payload.data) /\ p \in Nat /\ payload.data \in Seq(Nat)
        /\ payload \in Payloads /\ TxType(tx) /\ Unread(tx, "txout_count")
    BY <1>1, <1>3, Reading DEF parse_varint, Has
  <2>4. short_count = (varint_size(p) = varint_calc_size(varint_get(p)))
    BY Zenon DEF short_count
  <2>5. /\ varint_size(p) \in Nat /\ varint_get(p) \in Nat /\ short_count \in BOOLEAN
        /\ p + varint_size(p) \in p .. Len(payload.data)
        /\ short_count => Piece(payload.data, p, p + varint_size(p), varint_set_data(varint_get(p)))
    BY <2>3, <2>4, CountRead
  <2>6. Continues(payload.data, tx, "txout_count", p, y, "txout", p + varint_size(p))
    BY <2>1, <2>3, <2>5, TxoutCountRead
  <2> QED
    BY <1>1, <2>2, <2>3, <2>5, <2>6, ReadStep DEF TxPhases
<1> QED
  BY <1>2, <1>3

LEMMA TxoutRound == ASSUME IInv, RoundInv, parse_txout PROVE RoundInv'
<1>1. pc = "txout" /\ pc \in TxPhases
  BY DEF parse_txout, TxPhases
<1>2. CASE ~Has(2) \/ ~Has(1 + varstr_size(p + 1))
  BY <1>2, AbandonRound DEF parse_txout
<1>3. CASE ~(~Has(2) \/ ~Has(1 + varstr_size(p + 1)))
  <2>1. PICK a : a = [value |-> byte(p), scripts |-> varstr_clone(p + 1)]
    OBVIOUS
  <2>2. PICK n : n = 1 + varstr_size(p + 1)
    OBVIOUS
  <2>3. PICK y : /\ y = [tx EXCEPT !.txouts = Append(@, a), !.body[2] = p + n]
                 /\ Filled(y, n)
                 /\ pc' = IF Len(y.txouts) = tx.txout_count THEN after_outputs(tx.has_flag, p + n) ELSE "txout"
    BY <1>3, <2>1, <2>2 DEF parse_txout
  <2>4. pc' \in {"txout", "witnesses", "lock_time"}
    BY <2>3 DEF after_outputs
  <2>5. /\ p + n <= Len(payload.data) /\ p \in Nat /\ p < Len(payload.data)
        /\ payload.data \in Seq(Nat) /\ payload \in Payloads /\ TxType(tx) /\ Unread(tx, "txout")
    BY <1>1, <1>3, <2>2, Reading DEF Has
  <2>6. /\ varstr_size(p + 1) \in Nat /\ byte(p) \in Nat /\ varstr_clone(p + 1) \in Seq(Nat)
        /\ p + n \in p .. Len(payload.data)
        /\ Piece(payload.data, p, p + n, <<byte(p)>> \o varstr_clone(p + 1))
    BY <2>2, <2>5, FieldsRead
  <2>7. a \in TxOut /\ Piece(payload.data, p, p + n, satoshi_txout_serialize(a))
    BY <2>1, <2>6 DEF TxOut, satoshi_txout_serialize
  <2>8. /\ DOMAIN y = TxFields /\ y.txouts = Append(tx.txouts, a) /\ y.body = [tx.body EXCEPT ![2] = p + n]
        /\ \A f \in TxFields \ {"txouts", "body"} : y[f] = tx[f]
    BY <2>3, <2>5 DEF TxType, TxFields
  <2>9. PICK c \in {"txout", "witnesses", "lock_time"} : c = pc'
    BY <2>4
  <2>10. Continues(payload.data, tx, "txout", p, y, c, p + n)
    <3>0. PICK x : x = tx
      OBVIOUS
    <3>1. PICK D \in Seq(Nat), q \in Nat : D = payload.data /\ q = p
      BY <2>5
    <3>2. PICK r \in q .. Len(D) : r = p + n
      BY <2>6, <3>1
    <3>3. a \in TxOut /\ Piece(D, q, r, satoshi_txout_serialize(a))
      BY <2>7, <3>1, <3>2, Zenon
    <3>4. TxType(x) /\ Unread(x, "txout") /\ OutputMore(x, y, a, r)
      BY <2>5, <2>8, <3>0, <3>1, <3>2 DEF OutputMore
    <3>5. Continues(D, x, "txout", q, y, c, r)
      BY <2>9, <3>3, <3>4, TxoutRead
    <3> QED
      BY <3>0, <3>1, <3>2, <3>5, Zenon
  <2>11. n \in Nat
    BY <2>2, <2>6
  <2>12. pc' \in TxPhases
    BY <2>4 DEF TxPhases
  <2> QED
    BY <1>1, <2>3, <2>5, <2>9, <2>10, <2>11, <2>12, ReadStep
<1> QED
  BY <1>2, <1>3

LEMMA WitnessesRound == ASSUME IInv, RoundInv, alloc_witnesses PROVE RoundInv'
<1>1. pc = "witnesses" /\ pc \in TxPhases /\ Filled(tx, 0) /\ pc' = "num_items" /\ pc' \in TxPhases
  BY DEF alloc_witnesses, TxPhases
<1>2. tx.has_flag
  BY <1>1 DEF IInv, Phases
<1>3. /\ p \in 0 .. Len(payload.data) /\ p + 0 = p /\ p + 0 <= Len(payload.data)
      /\ payload.data \in Seq(Nat) /\ TxType(tx) /\ Unread(tx, "witnesses")
  BY <1>1, Reading
<1>4. Continues(payload.data, tx, "witnesses", p, tx, "num_items", p)
  BY <1>2, <1>3, WitnessesRead
<1> QED
  BY <1>1, <1>3, <1>4, ReadStep

LEMMA NumItemsRound == ASSUME IInv, RoundInv, parse_num_items PROVE RoundInv'
<1>1. pc = "num_items" /\ pc \in TxPhases
  BY DEF parse_num_items, TxPhases
<1>2. CASE ~parse_varint
  BY <1>2, AbandonRound DEF parse_num_items
<1>3. CASE parse_varint
  <2>1. PICK y : y = [tx EXCEPT !.witnesses = Append(@, <<>>), !.items = varint_get(p),
                                !.canonical = @ /\ short_count, !.cb_witnesses = @ + varint_size(p)]
    OBVIOUS
  <2>2. /\ Filled(y, varint_size(p))
        /\ pc' = IF varint_get(p) > 0 THEN "item"
                 ELSE IF Len(tx.witnesses) + 1 < tx.txin_count THEN "num_items" ELSE "lock_time"
    BY <1>3, <2>1 DEF parse_num_items
  <2>3. /\ p + varint_size(p) <= Len(payload.data) /\ p \in Nat /\ payload.data \in Seq(Nat)
        /\ payload \in Payloads /\ TxType(tx) /\ Unread(tx, "num_items")
    BY <1>1, <1>3, Reading DEF parse_varint, Has
  <2>4. short_count = (varint_size(p) = varint_calc_size(varint_get(p)))
    BY Zenon DEF short_count
  <2>5. /\ varint_size(p) \in Nat /\ varint_get(p) \in Nat /\ short_count \in BOOLEAN
        /\ p + varint_size(p) \in p .. Len(payload.data)
        /\ short_count => Piece(payload.data, p, p + varint_size(p), varint_set_data(varint_get(p)))
    BY <2>3, <2>4, CountRead
  <2>6. /\ DOMAIN y = TxFields /\ y.witnesses = Append(tx.witnesses, <<>>) /\ y.items = varint_get(p)
        /\ y.canonical = (tx.canonical /\ short_count)
        /\ \A f \in TxFields \ {"witnesses", "items", "canonical", "cb_witnesses"} : y[f] = tx[f]
    BY <2>1, <2>3 DEF TxType, TxFields
  <2>7. PICK c : c = pc'
    OBVIOUS
  <2>8. (c = "item" <=> varint_get(p) > 0) /\ c \in {"item", "num_items", "lock_time"}
    BY <2>2, <2>7
  <2>9. Continues(payload.data, tx, "num_items", p, y, c, p + varint_size(p))
    BY <2>3, <2>5, <2>6, <2>8, NumItemsRead
  <2>10. pc' \in TxPhases
    BY <2>7, <2>8 DEF TxPhases
  <2> QED
    BY <1>1, <2>2, <2>3, <2>5, <2>7, <2>9, <2>10, ReadStep
<1> QED
  BY <1>2, <1>3

LEMMA ItemRound == ASSUME IInv, RoundInv, parse_item PROVE RoundInv'
<1>1. pc = "item" /\ pc \in TxPhases
  BY DEF parse_item, TxPhases
<1>2. CASE ~parse_varstr
  BY <1>2, AbandonRound DEF parse_item
<1>3. CASE parse_varstr
  <2>1. PICK i : i = Len(tx.witnesses)
    OBVIOUS
  <2>2. PICK e : e = varstr_clone(p)
    OBVIOUS
  <2>3. PICK y : /\ y = [tx EXCEPT !.witnesses[i] = Append(@, e), !.cb_witnesses = @ + varstr_size(p)]
                 /\ Filled(y, varstr_size(p))
                 /\ pc' = IF Len(y.witnesses[i]) < tx.items THEN "item"
                          ELSE IF i < tx.txin_count THEN "num_items" ELSE "lock_time"
    BY <1>3, <2>1, <2>2 DEF parse_item
  <2>4. /\ p + varstr_size(p) <= Len(payload.data) /\ p \in Nat
        /\ payload.data \in Seq(Nat) /\ payload \in Payloads /\ TxType(tx) /\ Unread(tx, "item")
    BY <1>1, <1>3, Reading DEF parse_varstr, Has
  <2>5. /\ varstr_size(p) \in Nat /\ e \in Seq(Nat)
        /\ Piece(payload.data, p, p + varstr_size(p), e)
    BY <2>2, <2>4, VarstrPiece
  <2>6. p + varstr_size(p) \in p .. Len(payload.data)
    BY <2>4, <2>5
  <2>7. PICK u \in Seq(Witness) : u = tx.witnesses /\ u # <<>>
    BY <2>4 DEF TxType, Unread
  <2>8. PICK k \in Nat : Len(u) = k + 1 /\ i = k + 1
    <3>1. Len(u) \in Nat /\ Len(u) # 0
      BY <2>7, EmptySeq, LenProperties
    <3>2. Len(u) - 1 \in Nat /\ Len(u) = (Len(u) - 1) + 1
      BY <3>1
    <3> QED
      BY <2>1, <2>7, <3>2, Zenon
  <2>9. /\ DOMAIN y = TxFields /\ y.witnesses = [u EXCEPT ![i] = Append(@, e)]
        /\ \A f \in TxFields \ {"witnesses", "cb_witnesses"} : y[f] = tx[f]
    BY <2>3, <2>4, <2>7 DEF TxType, TxFields
  <2>10. PICK v : v = y.witnesses
    OBVIOUS
  <2>11. WitnessGiven(u, v, k, e)
    BY <2>8, <2>9, <2>10 DEF WitnessGiven
  <2>12. PICK w, a : ItemMore(tx, y, k, e, w, a)
    BY <2>5, <2>7, <2>8, <2>10, <2>11, ItemAdded
  <2>13. y.witnesses[i] = a
    BY <2>8, <2>12, Zenon DEF ItemMore
  <2>14. PICK c : c = pc'
    OBVIOUS
  <2>15. (c = "item" <=> Len(a) < tx.items) /\ c \in {"item", "num_items", "lock_time"}
    BY <2>3, <2>13, <2>14
  <2>16. Continues(payload.data, tx, "item", p, y, c, p + varstr_size(p))
    BY <2>4, <2>5, <2>6, <2>9, <2>12, <2>15, ItemRead
  <2>17. pc' \in TxPhases
    BY <2>14, <2>15 DEF TxPhases
  <2> QED
    BY <1>1, <2>3, <2>4, <2>5, <2>14, <2>16, <2>17, ReadStep
<1> QED
  BY <1>2, <1>3

LEMMA LockTimeRound == ASSUME IInv, RoundInv, parse_lock_time PROVE RoundInv'
<1>1. pc = "lock_time" /\ pc \in TxPhases
  BY DEF parse_lock_time, TxPhases
<1>2. CASE ~Has(1)
  BY <1>2, AbandonRound DEF parse_lock_time
<1>3. CASE Has(1)
  <2>1. PICK z : z = [tx EXCEPT !.lock_time = byte(p)]
    OBVIOUS
  <2>2. PICK y : y = [z EXCEPT !.txid = <<"txid", hashed(z)>>]
    OBVIOUS
  <2>3. Filled(y, 1) /\ pc' = IF payload.block THEN "next_tx" ELSE "parsed"
    BY <1>3, <2>1, <2>2 DEF parse_lock_time
  <2>4. /\ p + 1 <= Len(payload.data) /\ p \in Nat /\ p < Len(payload.data)
        /\ payload.data \in Seq(Nat) /\ payload \in Payloads /\ TxType(tx)
        /\ Round(payload.block, payload.data, txn_count, shortest, txs, "lock_time", p)
    BY <1>1, <1>3, Reading DEF Has
  <2>5. byte(p) \in Nat /\ Piece(payload.data, p, p + 1, <<byte(p)>>)
    BY <2>4, ByteRead
  <2>6. /\ DOMAIN z = TxFields /\ z.version = tx.version /\ z.body = tx.body /\ z.lock_time = byte(p)
        /\ \A f \in TxFields \ {"lock_time"} : z[f] = tx[f]
    BY <2>1, <2>4 DEF TxType, TxFields
  <2>7. /\ DOMAIN y = TxFields /\ y.lock_time = byte(p) /\ y.txid = <<"txid", hashed(z)>>
        /\ \A f \in TxFields \ {"lock_time", "txid"} : y[f] = tx[f]
    BY <2>2, <2>6 DEF TxFields
  <2>8. hashed(z) = <<tx.version>> \o SubSeq(payload.data, tx.body[1] + 1, tx.body[2]) \o <<byte(p)>>
    BY <2>6, Zenon DEF hashed
  <2>9. /\ TxType(y) /\ y.canonical = tx.canonical
        /\ \A s \in 0 .. p : ReadSoFar(payload.data, tx, s, "lock_time", p) =>
              IdRight(y) /\ Piece(payload.data, s, p + 1, satoshi_tx_serialize(y))
    <3>0. PICK x : x = tx
      OBVIOUS
    <3>1. PICK D \in Seq(Nat), q \in Nat, v \in Nat : D = payload.data /\ q = p /\ v = byte(p)
      BY <2>4, <2>5
    <3>2. TxType(x) /\ Piece(D, q, q + 1, <<v>>)
      BY <2>4, <2>5, <3>0, <3>1, Zenon
    <3>3. DOMAIN y = TxFields /\ y.lock_time = v /\ \A f \in TxFields \ {"lock_time", "txid"} : y[f] = x[f]
      BY <2>7, <3>0, <3>1, Zenon
    <3>4. y.txid = <<"txid", <<x.version>> \o SubSeq(D, x.body[1] + 1, x.body[2]) \o <<v>>>>
      BY <2>7, <2>8, <3>0, <3>1, Zenon
    <3>5. /\ TxType(y) /\ y.canonical = x.canonical
          /\ \A s \in 0 .. q : ReadSoFar(D, x, s, "lock_time", q) =>
                IdRight(y) /\ Piece(D, s, q + 1, satoshi_tx_serialize(y))
      BY <3>2, <3>3, <3>4, LockTimeRead
    <3> QED
      BY <3>0, <3>1, <3>5, Zenon
  <2>10. txs' = [txs EXCEPT ![t] = y] /\ p' = p + 1 /\ payload' = payload /\ txn_count' = txn_count
    BY <2>3 DEF Filled
  <2>11. PICK n \in Nat : /\ Len(txs) = n + 1 /\ tx = txs[n + 1] /\ Len(txs') = n + 1 /\ txs'[n + 1] = y
                          /\ \A i \in 1 .. n : txs'[i] = txs[i]
    BY <1>1, <2>10, FilledIs
  <2>12. Round(payload.block, payload.data, txn_count, shortest, txs', pc', p + 1)
    <3>1. PICK D \in Seq(Nat), q \in Nat : D = payload.data /\ q = p /\ q < Len(D)
      BY <2>4
    <3>2. PICK B, N, h, X : B = payload.block /\ N = txn_count /\ h = shortest /\ X = txs
      OBVIOUS
    <3>3. PICK x, Y, d : x = tx /\ Y = txs' /\ d = pc'
      OBVIOUS
    <3>4. Round(B, D, N, h, X, "lock_time", q)
      BY <2>4, <3>1, <3>2, Zenon
    <3>5. /\ TxType(y) /\ y.canonical = x.canonical
          /\ \A s \in 0 .. q : ReadSoFar(D, x, s, "lock_time", q) =>
                IdRight(y) /\ Piece(D, s, q + 1, satoshi_tx_serialize(y))
      BY <2>9, <3>1, <3>3, Zenon
    <3>6. Len(X) = n + 1 /\ x = X[n + 1] /\ Len(Y) = n + 1 /\ Y[n + 1] = y /\ \A i \in 1 .. n : Y[i] = X[i]
      BY <2>11, <3>2, <3>3, Zenon
    <3>7. d = IF B THEN "next_tx" ELSE "parsed"
      BY <2>3, <3>2, <3>3, Zenon
    <3>8. Round(B, D, N, h, Y, d, q + 1)
      BY <3>1, <3>4, <3>5, <3>6, <3>7, RoundComplete
    <3> QED
      BY <3>1, <3>2, <3>3, <3>8, Zenon
  <2>13. shortest' = shortest
    BY <2>10, ShortestKept
  <2> QED
    BY <2>4, <2>10, <2>12, <2>13, Zenon DEF RoundInv
<1> QED
  BY <1>2, <1>3

LEMMA HeaderRound == ASSUME IInv, RoundInv, parse_header PROVE RoundInv'
<1>1. CASE RejectBlock
  BY <1>1, RejectRound
<1>2. CASE ~RejectBlock
  <2>1. /\ pc = "header" /\ Has(1) /\ p' = p + 1 /\ payload' = payload /\ txs' = txs /\ txn_count' = txn_count
        /\ pc' = IF Len(payload.data) = 1 THEN "parsed" ELSE "txn_count"
    BY <1>2 DEF parse_header
  <2>2. Round(payload.block, payload.data, txn_count, shortest, txs, "header", p) /\ payload \in Payloads
    BY <2>1 DEF RoundInv
  <2>3. p = 0 /\ txs = <<>> /\ txn_count \in Nat
    BY <2>2 DEF Round
  <2>4. payload.block
    BY <2>1 DEF IInv, Phases
  <2>5. payload.data \in Seq(Nat) /\ Len(payload.data) \in Nat /\ 1 <= Len(payload.data)
    BY <2>1, <2>2, <2>3, PayloadIs DEF Has
  <2>6. Round(payload.block, payload.data, txn_count, shortest, txs, pc', 1)
    BY <2>1, <2>3, <2>4, <2>5 DEF Round, TxPhases
  <2>7. shortest' = shortest /\ p' = 1
    BY <2>1, <2>3, ShortestKept
  <2> QED
    BY <2>1, <2>2, <2>6, <2>7, Zenon DEF RoundInv
<1> QED
  BY <1>1, <1>2

\* Nothing is transactions, none of them.
LEMMA CountBefore ==
    ASSUME NEW D \in Seq(Nat), NEW N \in Nat, N # 0, NEW h, NEW m \in 1 .. Len(D),
           h => Piece(D, 1, m, varint_set_data(N))
    PROVE  Before(TRUE, D, N, h, <<>>, 0, m)
<1>1. h => Piece(D, 1, m, varint_set_data(N)) /\ Piece(D, m, m, Transactions(<<>>, 0))
  <2>1. m \in 0 .. Len(D)
    OBVIOUS
  <2>2. Piece(D, m, m, <<>>)
    BY <2>1, PieceNone
  <2> QED
    BY <2>2, NothingYet, Zenon
<1>2. 0 <= N /\ N >= 1 /\ m \in 1 .. m
  OBVIOUS
<1> QED
  BY <1>1, <1>2 DEF Before

LEMMA TxnCountRound == ASSUME IInv, RoundInv, parse_txn_count PROVE RoundInv'
<1>1. CASE RejectBlock
  BY <1>1, RejectRound
<1>2. CASE ~RejectBlock
  <2>1. /\ pc = "txn_count" /\ Has(varint_size(p)) /\ varint_get(p) # 0
        /\ p' = p + varint_size(p) /\ payload' = payload /\ txs' = txs /\ txn_count' = varint_get(p)
        /\ pc' = "next_tx"
    BY <1>2 DEF parse_txn_count
  <2>2. Round(payload.block, payload.data, txn_count, shortest, txs, "txn_count", p) /\ payload \in Payloads
    BY <2>1 DEF RoundInv
  <2>3. p = 1 /\ txs = <<>>
    BY <2>2 DEF Round
  <2>4. payload.block = TRUE
    <3>1. payload.block
      BY <2>1 DEF IInv, Phases
    <3> QED
      BY <2>2, <3>1, PayloadIs
  <2>5. payload.data \in Seq(Nat) /\ Len(payload.data) \in Nat /\ 1 + varint_size(1) <= Len(payload.data)
    BY <2>1, <2>2, <2>3, PayloadIs DEF Has
  <2>6. PICK h : h = (varint_size(1) = varint_calc_size(varint_get(1)))
    OBVIOUS
  <2>7. /\ varint_size(1) \in Nat /\ varint_get(1) \in Nat
        /\ 1 + varint_size(1) \in 1 .. Len(payload.data)
        /\ h => Piece(payload.data, 1, 1 + varint_size(1), varint_set_data(varint_get(1)))
    BY <2>2, <2>5, <2>6, CountRead
  <2>8. shortest' = h
    BY <2>1, <2>3, <2>6 DEF shortest, varint_size, byte
  <2>9. Before(TRUE, payload.data, varint_get(1), h, <<>>, 0, 1 + varint_size(1))
    BY <2>1, <2>3, <2>5, <2>7, CountBefore
  <2>10. 1 + varint_size(1) \in 0 .. Len(payload.data)
    BY <2>5, <2>7
  <2>11. Round(TRUE, payload.data, varint_get(1), h, <<>>, "next_tx", 1 + varint_size(1))
    <3>1. PICK X : X = <<>> /\ Len(X) = 0
      BY Zenon, EmptySeq
    <3>2. \A i \in 1 .. Len(X) : FALSE
      BY <3>1
    <3>3. Before(TRUE, payload.data, varint_get(1), h, X, Len(X), 1 + varint_size(1))
      BY <2>9, <3>1, Zenon
    <3>4. Round(TRUE, payload.data, varint_get(1), h, X, "next_tx", 1 + varint_size(1))
      BY <2>7, <2>10, <3>2, <3>3 DEF Round, TxPhases
    <3> QED
      BY <3>1, <3>4, Zenon
  <2>12. p' = 1 + varint_size(1) /\ txn_count' = varint_get(1) /\ txs' = <<>>
    BY <2>1, <2>3
  <2> QED
    BY <2>1, <2>2, <2>4, <2>8, <2>11, <2>12, Zenon DEF RoundInv
<1> QED
  BY <1>1, <1>2

LEMMA ListAppended ==
    ASSUME NEW X, NEW k \in Nat, k = Len(X), X = [n \in 1 .. k |-> X[n]], NEW e, NEW Y, Y = Append(X, e)
    PROVE  Len(Y) = k + 1 /\ Y[k + 1] = e /\ \A n \in 1 .. k : Y[n] = X[n]
<1>1. X \in Seq({X[n] : n \in 1 .. k} \cup {e})
  OBVIOUS
<1>2. PICK S : X \in Seq(S) /\ e \in S
  BY <1>1
<1>3. PICK s \in Seq(S), b \in S : s = X /\ b = e /\ Len(s) = k
  BY <1>2
<1>4. /\ Len(Append(s, b)) = k + 1 /\ Append(s, b)[k + 1] = b
      /\ \A n \in 1 .. k : Append(s, b)[n] = s[n]
  BY <1>3
<1> QED
  BY <1>3, <1>4

LEMMA NewTx == TxType(new_tx) /\ Unread(new_tx, "version")
<1>1. new_tx.body \in Seq(Nat) /\ Len(new_tx.body) = 2
  BY DEF new_tx
<1>2. DOMAIN new_tx = TxFields
  BY DEF new_tx, TxFields
<1>3. /\ new_tx.version \in Nat /\ new_tx.has_flag = FALSE /\ new_tx.txin_count \in Nat /\ new_tx.txout_count \in Nat
      /\ new_tx.txins = <<>> /\ new_tx.txouts = <<>> /\ new_tx.witnesses = <<>>
      /\ new_tx.items \in Nat /\ new_tx.lock_time \in Nat /\ new_tx.canonical = TRUE
  BY DEF new_tx
<1>4. TxType(new_tx)
  <2>1. new_tx.txins \in Seq(TxIn) /\ new_tx.txouts \in Seq(TxOut) /\ new_tx.witnesses \in Seq(Witness)
    BY <1>3, EmptySeq, Zenon
  <2> QED
    BY <1>1, <1>2, <1>3, <2>1 DEF TxType
<1>5. Unread(new_tx, "version")
  BY <1>3 DEF Unread
<1> QED
  BY <1>4, <1>5

\* One transaction more is begun.
LEMMA RoundBegins ==
    ASSUME NEW D \in Seq(Nat), NEW N, NEW h, NEW X, NEW q, Round(TRUE, D, N, h, X, "next_tx", q),
           NEW n \in Nat, Len(X) = n, n < N,
           NEW Y, Len(Y) = n + 1, Y[n + 1] = new_tx, \A i \in 1 .. n : Y[i] = X[i]
    PROVE  Round(TRUE, D, N, h, Y, "version", q)
<1>1. /\ q \in 0 .. Len(D) /\ N \in Nat /\ Before(TRUE, D, N, h, X, n, q)
      /\ \A i \in 1 .. n : TxType(X[i]) /\ IdRight(X[i])
  BY DEF Round
<1>2. Before(TRUE, D, N, h, Y, n, q)
  BY <1>1, BeforeKept, Zenon
<1>3. \A i \in 1 .. Len(Y) : TxType(Y[i]) /\ (i < Len(Y) \/ "version" \in {"next_tx", "parsed"} => IdRight(Y[i]))
  <2>1. \A i \in 1 .. n + 1 : i \in 1 .. n \/ (i = n + 1 /\ ~(i < n + 1))
    OBVIOUS
  <2> QED
    BY <1>1, <2>1, NewTx
<1>4. Unread(Y[Len(Y)], "version") /\ Len(Y) - 1 = n /\ Len(Y) <= N
  BY <1>1, NewTx
<1>5. ReadSoFar(D, Y[Len(Y)], q, "version", q)
  BY DEF ReadSoFar
<1>6. \E s \in 0 .. q : /\ Before(TRUE, D, N, h, Y, Len(Y) - 1, s)
                        /\ Y[Len(Y)].canonical => ReadSoFar(D, Y[Len(Y)], s, "version", q)
  <2>1. q \in 0 .. q
    BY <1>1
  <2> QED
    BY <1>2, <1>4, <1>5, <2>1, Zenon
<1> QED
  BY <1>1, <1>3, <1>4, <1>6, Zenon DEF Round

\* There are as many as were announced.
LEMMA RoundEnds ==
    ASSUME NEW D \in Seq(Nat), NEW N, NEW h, NEW X, NEW q, Round(TRUE, D, N, h, X, "next_tx", q),
           NEW n \in Nat, Len(X) = n, ~(n < N)
    PROVE  Round(TRUE, D, N, h, X, "parsed", q)
<1>1. /\ q \in 0 .. Len(D) /\ N \in Nat /\ Before(TRUE, D, N, h, X, n, q)
      /\ \A i \in 1 .. n : TxType(X[i]) /\ IdRight(X[i])
  BY DEF Round
<1>2. n <= N /\ N >= 1
  BY <1>1 DEF Before
<1>3. n = N /\ n # 0
  BY <1>1, <1>2
<1>4. X # <<>>
  BY <1>3, EmptySeq
<1> QED
  BY <1>1, <1>3, <1>4 DEF Round, TxPhases

LEMMA NextTxRound == ASSUME IInv, RoundInv, next_tx PROVE RoundInv'
<1>1. /\ payload \in Payloads /\ payload.data \in Seq(Nat) /\ payload.block = TRUE
      /\ Round(TRUE, payload.data, txn_count, shortest, txs, "next_tx", p)
  <2>1. pc = "next_tx" /\ payload.block
    BY DEF next_tx, IInv, Phases
  <2>2. payload \in Payloads /\ Round(payload.block, payload.data, txn_count, shortest, txs, "next_tx", p)
    BY <2>1 DEF RoundInv
  <2>3. payload.block = TRUE /\ payload.data \in Seq(Nat)
    BY <2>1, <2>2, PayloadIs
  <2> QED
    BY <2>2, <2>3
<1>2. PICK n \in Nat : n = Len(txs) /\ txs = [i \in 1 .. n |-> txs[i]]
  BY DEF IInv, Listed
<1>3. CASE RejectBlock
  BY <1>3, RejectRound
<1>4. CASE ~RejectBlock /\ t < txn_count
  <2>1. /\ txs' = Append(txs, new_tx) /\ pc' = "version" /\ payload' = payload /\ p' = p
        /\ txn_count' = txn_count
    BY <1>4 DEF next_tx
  <2>2. Len(txs') = n + 1 /\ txs'[n + 1] = new_tx /\ \A i \in 1 .. n : txs'[i] = txs[i]
    BY <1>2, <2>1, ListAppended
  <2>3. n < txn_count
    BY <1>2, <1>4 DEF t
  <2>4. Round(TRUE, payload.data, txn_count, shortest, txs', "version", p)
    BY <1>1, <1>2, <2>2, <2>3, RoundBegins
  <2>5. shortest' = shortest
    BY <2>1, ShortestKept
  <2> QED
    BY <1>1, <2>1, <2>4, <2>5, Zenon DEF RoundInv
<1>5. CASE ~RejectBlock /\ ~(t < txn_count)
  <2>1. /\ payload' = payload /\ p' = p /\ txs' = txs /\ txn_count' = txn_count
        /\ pc' = "parsed" \/ pc' = "failed"
    BY <1>5 DEF next_tx
  <2>2. CASE pc' = "failed"
    BY <2>1, <2>2, FailedRound
  <2>3. CASE pc' = "parsed"
    <3>1. ~(n < txn_count)
      BY <1>2, <1>5 DEF t
    <3>2. Round(TRUE, payload.data, txn_count, shortest, txs, "parsed", p)
      BY <1>1, <1>2, <3>1, RoundEnds
    <3>3. shortest' = shortest
      BY <2>1, ShortestKept
    <3> QED
      BY <1>1, <2>1, <2>3, <3>2, <3>3, Zenon DEF RoundInv
  <2> QED
    BY <2>1, <2>2, <2>3
<1> QED
  BY <1>3, <1>4, <1>5

LEMMA DiscardRound == ASSUME RoundInv, Discard PROVE RoundInv'
BY FailedRound DEF Discard

LEMMA RoundInitInv == CodecInit => RoundInv
<1> SUFFICES ASSUME CodecInit PROVE RoundInv
  OBVIOUS
<1>1. /\ payload \in Payloads /\ p = 0 /\ txn_count = 0 /\ payload.data \in Seq(Nat)
      /\ payload.block \in BOOLEAN
  BY PayloadIs DEF CodecInit
<1>0. PICK h : h = shortest
  OBVIOUS
<1>2. PICK D \in Seq(Nat) : D = payload.data
  BY <1>1
<1>3. 0 \in 0 .. Len(D)
  OBVIOUS
<1>4. CASE payload.block
  <2>1. pc = "header" /\ txs = <<>>
    BY <1>4 DEF CodecInit
  <2>2. Round(TRUE, D, 0, h, <<>>, "header", 0)
    BY <1>3 DEF Round, TxPhases
  <2> QED
    BY <1>0, <1>1, <1>2, <1>4, <2>1, <2>2, Zenon DEF RoundInv
<1>5. CASE ~payload.block
  <2>1. pc = "version" /\ txs = <<new_tx>>
    BY <1>5 DEF CodecInit
  <2>2. PICK X : X = <<new_tx>> /\ Len(X) = 1 /\ X[1] = new_tx
    <3>1. Len(<<new_tx>>) = 1 /\ <<new_tx>>[1] = new_tx
      OBVIOUS
    <3> QED
      BY <3>1, Zenon
  <2>3. \A i \in 1 .. 1 : i = 1 /\ ~(i < 1)
    OBVIOUS
  <2>4. Before(FALSE, D, 0, h, X, Len(X) - 1, 0)
    BY DEF Before
  <2>5. ReadSoFar(D, X[1], 0, "version", 0)
    BY DEF ReadSoFar
  <2>6. \E s \in 0 .. 0 : /\ Before(FALSE, D, 0, h, X, Len(X) - 1, s)
                          /\ X[1].canonical => ReadSoFar(D, X[1], s, "version", 0)
    <3>1. 0 \in 0 .. 0
      OBVIOUS
    <3> QED
      BY <2>4, <2>5, <3>1, Zenon
  <2>7. Round(FALSE, D, 0, h, X, "version", 0)
    BY <1>3, <2>2, <2>3, <2>6, NewTx DEF Round, TxPhases
  <2>8. payload.block = FALSE
    BY <1>1, <1>5
  <2> QED
    BY <1>0, <1>1, <1>2, <2>1, <2>2, <2>7, <2>8, Zenon DEF RoundInv
<1> QED
  BY <1>4, <1>5

LEMMA RoundStep == IInv /\ RoundInv /\ [CodecNext]_codecVars => RoundInv'
<1>1. RoundInv /\ UNCHANGED codecVars => RoundInv'
  BY ShortestKept DEF codecVars, RoundInv
<1> QED
  BY <1>1, VersionRound, FlagRound, TxinCountRound, TxinRound, SequenceRound, TxoutCountRound, TxoutRound,
     WitnessesRound, NumItemsRound, ItemRound, LockTimeRound, HeaderRound, TxnCountRound, NextTxRound, DiscardRound
     DEF CodecNext

\* What a block's bytes are when it has been read to its end.
LEMMA BlockIs ==
    ASSUME NEW D \in Seq(Nat), NEW N, NEW h, h, NEW X, NEW n \in Nat, Len(X) = n, X = [i \in 1 .. n |-> X[i]],
           \A i \in 1 .. n : X[i].canonical, NEW q, Round(TRUE, D, N, h, X, "parsed", q)
    PROVE  Piece(D, 0, q, satoshi_block_serialize(D[1], X))
<1>1. /\ q \in 0 .. Len(D) /\ N \in Nat
      /\ (X = <<>> /\ q = 1) \/ (X # <<>> /\ n = N /\ Before(TRUE, D, N, h, X, N, q))
  BY DEF Round, TxPhases
<1>2. q >= 1
  BY <1>1 DEF Before
<1>3. Piece(D, 0, 1, <<D[1]>>) /\ <<D[1]>> \in Seq(Nat)
  <2>1. 0 < Len(D) /\ D[1] \in Nat
    BY <1>1, <1>2
  <2>2. PICK a \in Nat, x \in Nat : a = 0 /\ a + 1 = 1 /\ x = D[1] /\ a < Len(D)
    BY <2>1
  <2>3. Piece(D, a, a + 1, <<x>>)
    BY <2>2, PieceOne
  <2> QED
    BY <2>2, <2>3
<1>4. CASE X = <<>> /\ q = 1
  <2>1. <<D[1]>> \o <<>> = <<D[1]>>
    BY <1>3
  <2> QED
    BY <1>3, <1>4, <2>1, Zenon DEF satoshi_block_serialize
<1>5. CASE X # <<>> /\ n = N /\ Before(TRUE, D, N, h, X, N, q)
  <2>1. PICK m \in 1 .. q : Piece(D, 1, m, varint_set_data(N)) /\ Piece(D, m, q, Transactions(X, N))
    BY <1>5 DEF Before
  <2>2. Piece(D, 1, q, varint_set_data(N) \o Transactions(X, N))
    BY <2>1, PieceJoin, Zenon
  <2>3. Piece(D, 0, q, <<D[1]>> \o (varint_set_data(N) \o Transactions(X, N)))
    BY <1>3, <2>2, PieceJoin, Zenon
  <2>4. DOMAIN X = 1 .. n
    OBVIOUS
  <2>5. satoshi_block_serialize(D[1], X) = <<D[1]>> \o (varint_set_data(N) \o Transactions(X, N))
    BY <1>5, <2>4, Zenon DEF satoshi_block_serialize, Transactions
  <2> QED
    BY <2>3, <2>5, Zenon
<1> QED
  BY <1>1, <1>4, <1>5, Zenon

LEMMA RoundGives == IInv /\ RoundInv => TxRoundTrip
<1> SUFFICES ASSUME IInv, RoundInv, pc = "parsed", \A i \in DOMAIN txs : txs[i].canonical
             PROVE  /\ \A i \in DOMAIN txs :
                          txs[i].txid = <<"txid", satoshi_tx_serialize([txs[i] EXCEPT !.has_flag = FALSE])>>
                    /\ (\A i \in DOMAIN txs : serializable(txs[i])) /\ (payload.block => short_txn_count) =>
                          Consumed = IF payload.block THEN satoshi_block_serialize(payload.data[1], txs)
                                     ELSE satoshi_tx_serialize(tx)
  BY Zenon DEF TxRoundTrip
<1>1. /\ payload \in Payloads /\ payload.data \in Seq(Nat) /\ payload.block \in BOOLEAN
      /\ Round(payload.block, payload.data, txn_count, shortest, txs, "parsed", p)
  BY PayloadIs DEF RoundInv
<1>2. PICK n \in Nat : n = Len(txs) /\ txs = [i \in 1 .. n |-> txs[i]] /\ DOMAIN txs = 1 .. n
  BY DEF IInv, Listed
<1>3. \A i \in 1 .. n : IdRight(txs[i])
  BY <1>1, <1>2 DEF Round
<1>4. \A i \in DOMAIN txs :
         txs[i].txid = <<"txid", satoshi_tx_serialize([txs[i] EXCEPT !.has_flag = FALSE])>>
  BY <1>2, <1>3, Zenon DEF IdRight
<1>5. ASSUME payload.block, short_txn_count PROVE Consumed = satoshi_block_serialize(payload.data[1], txs)
  <2>1. Round(TRUE, payload.data, txn_count, shortest, txs, "parsed", p)
    BY <1>1, <1>5
  <2>2. CASE txs = <<>>
    <3>1. Round(TRUE, payload.data, txn_count, TRUE, txs, "parsed", p)
      <4>1. Len(txs) = 0
        BY <2>2
      <4>2. p = 1 /\ txn_count \in Nat /\ p \in 0 .. Len(payload.data)
        BY <2>1, <2>2 DEF Round
      <4> QED
        BY <2>2, <4>1, <4>2 DEF Round, TxPhases
    <3>2. Piece(payload.data, 0, p, satoshi_block_serialize(payload.data[1], txs))
      BY <1>1, <1>2, <3>1, BlockIs
    <3> QED
      BY <3>2 DEF Piece, Consumed
  <2>3. CASE txs # <<>>
    <3>1. shortest
      BY <1>5, <2>3, Zenon DEF short_txn_count, shortest
    <3>2. Piece(payload.data, 0, p, satoshi_block_serialize(payload.data[1], txs))
      BY <1>1, <1>2, <2>1, <3>1, BlockIs
    <3> QED
      BY <3>2 DEF Piece, Consumed
  <2> QED
    BY <2>2, <2>3
<1>6. ASSUME ~payload.block PROVE Consumed = satoshi_tx_serialize(tx)
  <2>1. t = 1 /\ tx = txs[Len(txs)] /\ Len(txs) = 1
    BY <1>6 DEF IInv, Phases, t, tx
  <2>2. tx.canonical
    BY <1>2, <2>1
  <2>3. Round(FALSE, payload.data, txn_count, shortest, txs, "parsed", p)
    BY <1>1, <1>6
  <2>4. Piece(payload.data, 0, p, satoshi_tx_serialize(tx))
    BY <2>1, <2>2, <2>3 DEF Round
  <2> QED
    BY <2>4 DEF Piece, Consumed
<1> QED
  BY <1>4, <1>5, <1>6, Zenon

\* Whatever the payload: what a parser that succeeds has filled in serialises to
\* exactly the bytes it consumed, if every count was in its shortest form and,
\* with the flag, witnesses were there; and each id is the hash of the
\* serialisation without flag and witnesses (TxRoundTrip).
THEOREM RoundTrips == CodecSpec => []TxRoundTrip
<1>1. CodecInit => IInv /\ RoundInv
  BY CodecInitInv, RoundInitInv
<1>2. (IInv /\ RoundInv) /\ [CodecNext]_codecVars => (IInv /\ RoundInv)'
  BY CodecStep, RoundStep
<1> QED
  BY <1>1, <1>2, RoundGives, PTL DEF CodecSpec
=============================================================================
