---------------------------- MODULE ScriptProofs ----------------------------
(***************************************************************************)
(* For every transaction, every output script and signature script, every  *)
(* allocation of the stack and limit of the if depth: the interpreter's    *)
(* state is well formed, the assert on the order of the inputs holds, the  *)
(* if depth an input used is given back, the digest for a witness program  *)
(* is that of BIP 143 whatever was cached, and a legacy digest is right    *)
(* when the cache it continues from is.                                    *)
(*                                                                         *)
(* IInv(c) speaks of the case c the behaviour runs: scripts that are in a  *)
(* frame, an output or an input are scripts of c, which bounds what opcodes*)
(* can push and so keeps the values of stack items inside scripts (Known). *)
(* The frames of nested scripts_parse() calls have a shape (Frames): the   *)
(* outermost one, at most one call for a redeem script, blocks above; the  *)
(* if depth is the number of blocks.  The digests need to know what rawtx  *)
(* holds: the segwit parts are those of the transaction from the attach on *)
(* and the context of the first input has no input in it yet (CacheOf).    *)
(***************************************************************************)
EXTENDS Script, SequenceLemmas

-----------------------------------------------------------------------------
(* The invariant *)

IsSeq(s) == s \in Seq({s[i] : i \in DOMAIN s})

\* Scripts of a transaction whose scripts are those of S, items of its stack.
Code(S, code) == IsSeq(code) /\ \A i \in DOMAIN code : Known(S, code[i].arg)
Item(S, x) == DOMAIN x = {"t", "v"} /\ Known(S, x.v)
Stack(S, s) == IsSeq(s) /\ \A i \in DOMAIN s : Item(S, s[i])

Outermost == {"txin", "pre", "txout"}
\* The calls for the script that an output script names.
Redeeming == {"redeem", "wpkh"}

Frame(S, f) ==
    /\ DOMAIN f = {"kind", "code", "pc", "base", "saved"}
    /\ f.kind \in Kinds
    /\ Code(S, f.code) /\ f.pc \in 1 .. Len(f.code) + 1
    /\ f.base \in Int /\ f.base >= -1
    /\ Stack(S, f.saved) /\ (f.kind = "redeem" => f.saved # <<>>)

\* Such a call is the second, and those above it are blocks.
Frames(S, fs) ==
    /\ IsSeq(fs)
    /\ \A i \in DOMAIN fs :
        /\ Frame(S, fs[i])
        /\ (i = 1) = (fs[i].kind \in Outermost)
        /\ fs[i].kind \in Redeeming => i = 2
    /\ Len(fs) > 1 => fs[1].kind # "pre"

\* The calls that are not blocks.
Floor(fs) == IF Len(fs) > 1 /\ fs[2].kind \in Redeeming THEN 2 ELSE 1

Depth(fs) == IF fs = <<>> THEN 0 ELSE Len(fs) - Floor(fs)

Alive == phase # "rejected" /\ fault = "none"
Parsing == {"txout", "verify"}
OutOfOrder == "assert: inputs out of order"

UtxoInv(c) ==
    /\ tx = c.tx
    /\ DOMAIN utxoes = DOMAIN tx.txins
    /\ \A i \in DOMAIN utxoes : /\ DOMAIN utxoes[i] = {"scripts", "value", "p2sh_segwit", "type"}
                                /\ utxoes[i].scripts \in c.scripts

TxinInv(S) ==
    /\ DOMAIN txins = DOMAIN tx.txins
    /\ \A i \in DOMAIN txins :
        /\ DOMAIN txins[i] = {"redeem_scripts", "redeem_scripts_start_pos", "is_p2sh"}
        /\ Code(S, txins[i].redeem_scripts)
        /\ txins[i].redeem_scripts_start_pos \in 0 .. Len(txins[i].redeem_scripts)

StackInv(S) == Stack(S, main_stack) /\ Len(main_stack) <= StackAlloc

ControlInv ==
    /\ phase \in {"attach", "txin", "txout", "verify", "done", "rejected"}
    /\ txin_index \in 0 .. Len(tx.txins)
    /\ phase \in Parsing => txin_index < Len(tx.txins)
    /\ frames # <<>> => phase \in Parsing
    /\ results \in Seq({"accepted", "skipped"}) /\ Len(results) = txin_index
    /\ fault # OutOfOrder

DepthInv ==
    /\ if_depth \in 0 .. MaxIfDepth + 1
    /\ Alive => /\ if_depth <= MaxIfDepth
                /\ if_depth = Depth(frames)

MultisigInv ==
    multisig # <<>> => /\ frames # <<>> /\ fault = "none"
                       /\ Cur.kind \notin {"txin", "pre"} /\ Cur.pc <= Len(Cur.code)

header(t) == << <<"version", t.version>>, <<"txin_count", Len(t.txins)>> >>

\* The cache of the digests at input i of t. The context of the first input's
\* digests holds no input.
CacheOf(r, t, i) ==
    /\ DOMAIN r = {"sha", "last_hashed_txin_index", "segwit"}
    /\ r.last_hashed_txin_index \in -1 .. i
    /\ r.segwit = IF t.has_flag THEN satoshi_rawtx_attach_segwit_tx(t) ELSE no_segwit
    /\ i = 0 => r.sha = header(t)

CacheInv == phase \notin {"attach", "done"} => CacheOf(rawtx, tx, txin_index)

\* The digests of the last step are those of the current input.
DigestInv ==
    digests # <<>> /\ Alive => frames # <<>> /\ Cur.kind # "pre"

WitnessDigestsRight ==
    \A j \in DOMAIN digests :
        LET d == digests[j]
        IN  d.rc = 0 /\ d.segwit /\ tx.has_flag =>
                d.digest = Bip143(tx, txin_index, d.type, d.script, cur_utxo.value)

LegacyDigestsRight ==
    \A j \in DOMAIN digests :
        LET d == digests[j]
        IN  d.rc = 0 /\ ~d.segwit /\ d.type \in SighashTypes /\ (d.type.anyone_can_pay \/ txin_index = 0) =>
                d.digest = LegacyDigest(tx, txin_index, d.type, d.script)

IInv(c) ==
    /\ UtxoInv(c) /\ TxinInv(c.scripts) /\ StackInv(c.scripts) /\ Frames(c.scripts, frames)
    /\ ControlInv /\ DepthInv /\ MultisigInv /\ CacheInv /\ DigestInv
    /\ WitnessDigestsRight /\ LegacyDigestsRight

-----------------------------------------------------------------------------
(* The digests, whatever the transaction *)

\* z is x and y put together.
LEMMA ConcatIs ==
    ASSUME NEW S, NEW x \in Seq(S), NEW y \in Seq(S), NEW z \in Seq(S),
           Len(z) = Len(x) + Len(y),
           \A k \in 1 .. Len(x) : z[k] = x[k], \A k \in 1 .. Len(y) : z[Len(x) + k] = y[k]
    PROVE  x \o y = z
<1>1. PICK m \in Nat, n \in Nat : m = Len(x) /\ n = Len(y)
  BY LenProperties
<1>2. x \o y \in Seq(S) /\ Len(x \o y) = m + n
  BY <1>1
<1>3. ASSUME NEW k \in 1 .. m + n PROVE (x \o y)[k] = z[k]
  <2>1. (x \o y)[k] = IF k <= m THEN x[k] ELSE y[k - m]
    BY <1>1, ConcatProperties
  <2>2. CASE k <= m
    BY <1>1, <2>1, <2>2
  <2>3. CASE ~(k <= m)
    <3>1. PICK h \in 1 .. n : h = k - m /\ m + h = k
      BY <2>3
    <3>2. z[m + h] = y[h]
      BY <1>1
    <3> QED
      BY <2>1, <2>3, <3>1, <3>2
  <2> QED
    BY <2>2, <2>3
<1> QED
  BY <1>1, <1>2, <1>3, SeqEqual

\* Ten fields hashed in two pieces, and three in three.
LEMMA TenFields ==
    ASSUME NEW a, NEW b, NEW c, NEW d, NEW e, NEW f, NEW g, NEW h, NEW i, NEW j
    PROVE  <<a, b, c>> \o <<d, e, f, g, h, i, j>> = <<a, b, c, d, e, f, g, h, i, j>>
<1> DEFINE S == {a, b, c, d, e, f, g, h, i, j}
           x == <<a, b, c>>
           y == <<d, e, f, g, h, i, j>>
           z == <<a, b, c, d, e, f, g, h, i, j>>
<1>1. x \in Seq(S) /\ y \in Seq(S) /\ z \in Seq(S) /\ Len(x) = 3 /\ Len(y) = 7 /\ Len(z) = 10
  OBVIOUS
<1>2. /\ x[1] = z[1] /\ x[2] = z[2] /\ x[3] = z[3]
      /\ y[1] = z[4] /\ y[2] = z[5] /\ y[3] = z[6] /\ y[4] = z[7]
      /\ y[5] = z[8] /\ y[6] = z[9] /\ y[7] = z[10]
  OBVIOUS
<1> HIDE DEF x, y, z, S
<1>3. \A k \in 1 .. Len(x) : z[k] = x[k]
  BY <1>1, <1>2
<1>4. \A k \in 1 .. Len(y) : z[Len(x) + k] = y[k]
  <2>1. ASSUME NEW k \in 1 .. 7 PROVE z[3 + k] = y[k]
    <3>1. k = 1 \/ k = 2 \/ k = 3 \/ k = 4 \/ k = 5 \/ k = 6 \/ k = 7
      OBVIOUS
    <3> QED
      BY <1>2, <3>1
  <2> QED
    BY <2>1, <1>1
<1>5. Len(z) = Len(x) + Len(y)
  BY <1>1
<1>6. x \o y = z
  BY <1>1, <1>3, <1>4, <1>5, ConcatIs, Zenon
<1> QED
  BY <1>6, Zenon DEF x, y, z

LEMMA TwoFields == ASSUME NEW a, NEW b PROVE <<a>> \o <<b>> = <<a, b>>
<1> DEFINE S == {a, b}
           x == <<a>>
           y == <<b>>
           z == <<a, b>>
<1>1. x \in Seq(S) /\ y \in Seq(S) /\ z \in Seq(S) /\ Len(x) = 1 /\ Len(y) = 1 /\ Len(z) = 2
  OBVIOUS
<1>2. x[1] = z[1] /\ y[1] = z[2]
  OBVIOUS
<1> HIDE DEF x, y, z, S
<1>3. /\ Len(z) = Len(x) + Len(y)
      /\ \A k \in 1 .. Len(x) : z[k] = x[k]
      /\ \A k \in 1 .. Len(y) : z[Len(x) + k] = y[k]
  BY <1>1, <1>2
<1>4. x \o y = z
  BY <1>1, <1>3, ConcatIs, Zenon
<1> QED
  BY <1>4, Zenon DEF x, y, z

LEMMA ThreeFields ==
    ASSUME NEW a, NEW b, NEW c
    PROVE  (<<a>> \o <<b>>) \o <<c>> = <<a, b, c>>
<1> DEFINE S == {a, b, c}
           x == <<a, b>>
           y == <<c>>
           z == <<a, b, c>>
<1>1. x \in Seq(S) /\ y \in Seq(S) /\ z \in Seq(S) /\ Len(x) = 2 /\ Len(y) = 1 /\ Len(z) = 3
  OBVIOUS
<1>2. x[1] = z[1] /\ x[2] = z[2] /\ y[1] = z[3]
  OBVIOUS
<1> HIDE DEF x, y, z, S
<1>3. /\ Len(z) = Len(x) + Len(y)
      /\ \A k \in 1 .. Len(x) : z[k] = x[k]
      /\ \A k \in 1 .. Len(y) : z[Len(x) + k] = y[k]
  BY <1>1, <1>2
<1>4. x \o y = z
  BY <1>1, <1>3, ConcatIs, Zenon
<1>5. <<a>> \o <<b>> = x
  BY TwoFields, Zenon DEF x
<1> QED
  BY <1>4, <1>5, Zenon DEF y, z

LEMMA OneFlattened ==
    ASSUME NEW a, NEW b, NEW f, DOMAIN f = {1}, f[1] = <<a, b>>, f = [i \in DOMAIN f |-> f[i]]
    PROVE  FlattenSeq(f) = <<a, b>>
<1> DEFINE S == {a, b}
<1>1. <<a, b>> \in Seq(S)
  OBVIOUS
<1>2. f = <<f[1]>>
  OBVIOUS
<1>3. f = Append(<<>>, <<a, b>>)
  BY <1>2
<1>4. FlattenSeq(Append(<<>>, <<a, b>>)) = FlattenSeq(<<>>) \o <<a, b>>
  <2>1. <<>> \in Seq(Seq(S))
    OBVIOUS
  <2> QED
    BY <1>1, <2>1, FlattenAppend
<1>5. <<>> \o <<a, b>> = <<a, b>>
  OBVIOUS
<1> QED
  BY <1>3, <1>4, <1>5, FlattenEmpty

\* hashOutputs of one output.
LEMMA OneOutput == ASSUME NEW x PROVE prehash_outputs(<<x>>) = hash256(hash_txout(x))
<1> DEFINE f == [j \in DOMAIN <<x>> |-> hash_txout(<<x>>[j])]
<1>1. DOMAIN f = {1} /\ f[1] = hash_txout(x) /\ f = [i \in DOMAIN f |-> f[i]]
  OBVIOUS
<1>2. prehash_outputs(<<x>>) = hash256(FlattenSeq(f))
  BY Zenon DEF prehash_outputs
<1> HIDE DEF f
<1>3. FlattenSeq(f) = hash_txout(x)
  BY <1>1, OneFlattened DEF hash_txout
<1> QED
  BY <1>2, <1>3

PrevoutsHash(t) == hash256([j \in DOMAIN t.txins |-> t.txins[j].outpoint])
SequencesHash(t) == hash256([j \in DOMAIN t.txins |-> t.txins[j].sequence])

LEMMA SharedParts ==
    ASSUME NEW t
    PROVE  /\ prehash_prevouts(t) = << <<"prevouts", PrevoutsHash(t)>> >>
           /\ prehash_sequences(t) = << <<"sequences", SequencesHash(t)>> >>
           /\ satoshi_rawtx_attach_segwit_tx(t).sha =
                << <<"version", t.version>>, <<"prevouts", PrevoutsHash(t)>>, <<"sequences", SequencesHash(t)>> >>
<1> DEFINE v == <<"version", t.version>>
           P == <<"prevouts", PrevoutsHash(t)>>
           Q == <<"sequences", SequencesHash(t)>>
<1>1. prehash_prevouts(t) = <<P>>
  BY Zenon DEF prehash_prevouts, PrevoutsHash
<1>2. prehash_sequences(t) = <<Q>>
  BY Zenon DEF prehash_sequences, SequencesHash
<1>3. satoshi_rawtx_attach_segwit_tx(t).sha = (<<v>> \o prehash_prevouts(t)) \o prehash_sequences(t)
  BY DEF satoshi_rawtx_attach_segwit_tx
<1> HIDE DEF v, P, Q
<1>4. satoshi_rawtx_attach_segwit_tx(t).sha = <<v, P, Q>>
  BY <1>1, <1>2, <1>3, ThreeFields, Zenon
<1> QED
  BY <1>1, <1>2, <1>4, Zenon DEF v, P, Q

\* With the shared parts computed from the transaction, the digest of a witness
\* program is that of BIP 143.
LEMMA WitnessDigest ==
    ASSUME NEW r, NEW t, NEW i, NEW type, NEW script, NEW value,
           r.segwit = satoshi_rawtx_attach_segwit_tx(t)
    PROVE  segwit_utxo_get_digest(r, t, i, type, script, value)
              = digest_of(0, r, Bip143(t, i, type, script, value))
<1> DEFINE alone == type.anyone_can_pay
           all == type.base = "all"
           v == <<"version", t.version>>
           P == <<"prevouts", IF alone THEN uint256_zero ELSE PrevoutsHash(t)>>
           Q == <<"sequences", IF alone \/ ~all THEN uint256_zero ELSE SequencesHash(t)>>
           o == <<"outpoint", t.txins[i + 1].outpoint>>
           s == <<"script", script>>
           w == <<"value", value>>
           q == <<"sequence", t.txins[i + 1].sequence>>
           outs == IF all THEN hash256(hash_txouts(t))
                   ELSE IF type.base = "single" /\ i < Len(t.txouts)
                   THEN hash256(hash_txout(t.txouts[i + 1])) ELSE uint256_zero
           u == <<"outputs", outs>>
           l == <<"lock_time", t.lock_time>>
           y == <<"type", type>>
<1>1. segwit_prefix(r, t, type) = <<v, P, Q>>
  <2>1. CASE alone
    BY <2>1 DEF segwit_prefix
  <2>2. CASE ~alone /\ all
    <3>1. segwit_prefix(r, t, type) = r.segwit.sha
      BY <2>2 DEF segwit_prefix
    <3>2. P = <<"prevouts", PrevoutsHash(t)>> /\ Q = <<"sequences", SequencesHash(t)>>
      BY <2>2
    <3> HIDE DEF P, Q
    <3> QED
      BY <3>1, <3>2, SharedParts, Zenon
  <2>3. CASE ~alone /\ ~all
    <3>1. segwit_prefix(r, t, type) = (<<v>> \o prehash_prevouts(t)) \o << <<"sequences", uint256_zero>> >>
      BY <2>3 DEF segwit_prefix
    <3>2. P = <<"prevouts", PrevoutsHash(t)>> /\ Q = <<"sequences", uint256_zero>>
      BY <2>3
    <3>3. segwit_prefix(r, t, type) = (<<v>> \o <<P>>) \o <<Q>>
      <4> HIDE DEF P, Q
      <4> QED
        BY <3>1, <3>2, SharedParts, Zenon
    <3> QED
      BY <3>3, ThreeFields, Zenon
  <2> QED
    BY <2>1, <2>2, <2>3
<1>2. segwit_outputs(r, t, i, type) = outs
  <2>1. CASE all
    <3>1. r.segwit.txouts_hash = prehash_outputs(t.txouts)
      BY DEF satoshi_rawtx_attach_segwit_tx
    <3>2. prehash_outputs(t.txouts) = hash256(hash_txouts(t))
      BY Zenon DEF prehash_outputs, hash_txouts
    <3> QED
      BY <2>1, <3>1, <3>2 DEF segwit_outputs
  <2>2. CASE ~all /\ type.base = "single" /\ i < Len(t.txouts)
    BY <2>2, OneOutput DEF segwit_outputs, txout_at
  <2>3. CASE ~all /\ ~(type.base = "single" /\ i < Len(t.txouts))
    BY <2>3 DEF segwit_outputs
  <2> QED
    BY <2>1, <2>2, <2>3
<1>3. segwit_utxo_get_digest(r, t, i, type, script, value)
         = digest_of(0, r, hash256(<<v, P, Q>> \o <<o, s, w, q, u, l, y>>))
  <2>1. segwit_utxo_get_digest(r, t, i, type, script, value) = digest_of(0, r, hash256(
             segwit_prefix(r, t, type) \o
             <<o, s, w, q, <<"outputs", segwit_outputs(r, t, i, type)>>, l, y>>))
    BY Zenon DEF segwit_utxo_get_digest, txin_at
  <2> HIDE DEF P, Q, outs
  <2> QED
    BY <1>1, <1>2, <2>1, Zenon
<1>4. Bip143(t, i, type, script, value) = hash256(<<v, P, Q, o, s, w, q, u, l, y>>)
  BY Zenon DEF Bip143, PrevoutsHash, SequencesHash
<1> HIDE DEF v, P, Q, o, s, w, q, u, l, y
<1>5. <<v, P, Q>> \o <<o, s, w, q, u, l, y>> = <<v, P, Q, o, s, w, q, u, l, y>>
  BY TenFields, SMTT(30)
<1> QED
  BY <1>3, <1>4, <1>5, Zenon

-----------------------------------------------------------------------------
(* Legacy inputs *)

\* The fields hashed of the inputs of t, of which one has the script s.
Fields(t, s) ==
    {<<"outpoint", t.txins[j].outpoint>> : j \in DOMAIN t.txins} \cup
    {<<"sequence", t.txins[j].sequence>> : j \in DOMAIN t.txins} \cup
    {<<"script", s>>, <<"script", varstr_empty>>, <<"version", t.version>>, <<"txin_count", Len(t.txins)>>}

\* What input n (from 1) adds when i (from 0) is the signed one, and what the
\* inputs a .. b - 1 (from 0) add.
InputOf(t, i, s, n) == hash_txin(t.txins[n], IF n = i + 1 THEN s ELSE varstr_empty)
Inputs(t, i, s, a, b) == [n \in 1 .. b - a |-> InputOf(t, i, s, a + n)]
Hashed(t, i, s, a, b) == FlattenSeq(Inputs(t, i, s, a, b))

LEMMA HashTxins ==
    ASSUME NEW t, NEW s, NEW i \in Nat, NEW a \in Nat, NEW b \in Nat
    PROVE  hash_txins(t, a, b - 1, i, s) = Hashed(t, i, s, a, b)
<1> DEFINE h == [n \in 1 .. b - 1 - a + 1 |->
                   LET j == a + n - 1
                   IN  hash_txin(txin_at(t, j), IF j = i THEN s ELSE varstr_empty)]
<1>1. hash_txins(t, a, b - 1, i, s) = FlattenSeq(h)
  BY Zenon DEF hash_txins
<1>2. ASSUME NEW n \in 1 .. b - a
      PROVE  hash_txin(txin_at(t, a + n - 1), IF a + n - 1 = i THEN s ELSE varstr_empty)
               = InputOf(t, i, s, a + n)
  <2>1. a + n - 1 + 1 = a + n /\ (a + n - 1 = i <=> a + n = i + 1)
    OBVIOUS
  <2>2. txin_at(t, a + n - 1) = t.txins[a + n]
    BY <2>1 DEF txin_at
  <2> QED
    BY <2>1, <2>2, Zenon DEF InputOf
<1>3. b - 1 - a + 1 = b - a
  OBVIOUS
<1>4. h = Inputs(t, i, s, a, b)
  BY <1>2, <1>3, Zenon DEF Inputs
<1> QED
  BY <1>1, <1>4, Zenon DEF Hashed

LEMMA InputFields ==
    ASSUME NEW t, NEW s, NEW i, NEW n \in DOMAIN t.txins
    PROVE  InputOf(t, i, s, n) \in Seq(Fields(t, s))
<1> DEFINE o == <<"outpoint", t.txins[n].outpoint>>
           c == <<"script", IF n = i + 1 THEN s ELSE varstr_empty>>
           q == <<"sequence", t.txins[n].sequence>>
           F == Fields(t, s)
<1>1. InputOf(t, i, s, n) = <<o, c, q>>
  BY Zenon DEF InputOf, hash_txin
<1>2. o \in F /\ q \in F
  BY Zenon DEF Fields
<1>3. c \in F
  <2>1. CASE n = i + 1
    <3>1. c = <<"script", s>>
      BY <2>1
    <3> QED
      BY <3>1, Zenon DEF Fields
  <2>2. CASE n # i + 1
    <3>1. c = <<"script", varstr_empty>>
      BY <2>2
    <3> QED
      BY <3>1, Zenon DEF Fields
  <2> QED
    BY <2>1, <2>2
<1> HIDE DEF o, c, q, F
<1>4. <<o, c, q>> \in Seq(F)
  BY <1>2, <1>3
<1> QED
  BY <1>1, <1>4, Zenon DEF F

\* The transaction t has N inputs, a .. b - 1 among them.
Within(t, N, a, b) == /\ N \in Nat /\ DOMAIN t.txins = 1 .. N
                      /\ a \in Nat /\ b \in Nat /\ a <= b /\ b <= N
InputsAre(t, i, s, a, b) ==
    /\ Inputs(t, i, s, a, b) \in Seq(Seq(Fields(t, s)))
    /\ Len(Inputs(t, i, s, a, b)) = b - a
    /\ \A n \in 1 .. b - a : Inputs(t, i, s, a, b)[n] = InputOf(t, i, s, a + n)
    /\ Hashed(t, i, s, a, b) \in Seq(Fields(t, s))

LEMMA InputsType == ASSUME NEW t, NEW s, NEW i, NEW N, NEW a, NEW b, Within(t, N, a, b)
                    PROVE  InputsAre(t, i, s, a, b)
<1> USE DEF Within
<1> DEFINE f == Inputs(t, i, s, a, b)
           k == b - a
<1>1. k \in Nat
  OBVIOUS
<1>2. DOMAIN f = 1 .. k /\ \A n \in 1 .. k : f[n] = InputOf(t, i, s, a + n)
  BY Zenon DEF Inputs
<1>3. ASSUME NEW n \in 1 .. k PROVE InputOf(t, i, s, a + n) \in Seq(Fields(t, s))
  <2>1. a + n \in DOMAIN t.txins
    OBVIOUS
  <2> QED
    BY <2>1, InputFields, Zenon
<1>4. f = [n \in 1 .. k |-> InputOf(t, i, s, a + n)]
  BY Zenon DEF Inputs
<1> HIDE DEF f, k
<1>5. f \in [1 .. k -> Seq(Fields(t, s))]
  BY <1>3, <1>4, Zenon
<1>6. f \in Seq(Seq(Fields(t, s))) /\ Len(f) = k
  BY <1>1, <1>5
<1>7. FlattenSeq(f) \in Seq(Fields(t, s))
  BY <1>6, FlattenType, Zenon
<1> QED
  BY <1>2, <1>6, <1>7, Zenon DEF f, k, Hashed, InputsAre

SplitAt(t, i, s, a, m, b) == Hashed(t, i, s, a, m) \o Hashed(t, i, s, m, b) = Hashed(t, i, s, a, b)

LEMMA HashedSplit ==
    ASSUME NEW t, NEW s, NEW i, NEW N, NEW a, NEW m, NEW b, Within(t, N, a, m), Within(t, N, m, b)
    PROVE  SplitAt(t, i, s, a, m, b)
<1> DEFINE x == Inputs(t, i, s, a, m)
           y == Inputs(t, i, s, m, b)
           z == Inputs(t, i, s, a, b)
           F == Seq(Fields(t, s))
<1>1. Within(t, N, a, b) /\ a \in Nat /\ b \in Nat /\ m \in Nat /\ a <= m /\ m <= b
  BY DEF Within
<1>a. InputsAre(t, i, s, a, m) /\ InputsAre(t, i, s, m, b) /\ InputsAre(t, i, s, a, b)
  BY <1>1, InputsType, Zenon
<1>2. x \in Seq(F) /\ Len(x) = m - a /\ \A n \in 1 .. m - a : x[n] = InputOf(t, i, s, a + n)
  BY <1>a, Zenon DEF InputsAre
<1>3. y \in Seq(F) /\ Len(y) = b - m /\ \A n \in 1 .. b - m : y[n] = InputOf(t, i, s, m + n)
  BY <1>a, Zenon DEF InputsAre
<1>4. z \in Seq(F) /\ Len(z) = b - a /\ \A n \in 1 .. b - a : z[n] = InputOf(t, i, s, a + n)
  BY <1>a, Zenon DEF InputsAre
<1> HIDE DEF x, y, z, F
<1>5. Len(z) = Len(x) + Len(y)
  BY <1>1, <1>2, <1>3, <1>4
<1>6. \A n \in 1 .. Len(x) : z[n] = x[n]
  <2>1. ASSUME NEW n \in 1 .. m - a PROVE z[n] = x[n]
    <3>1. n \in 1 .. b - a
      BY <1>1
    <3> QED
      BY <1>2, <1>4, <3>1, Zenon
  <2> QED
    BY <1>2, <2>1, Zenon
<1>7. \A n \in 1 .. Len(y) : z[Len(x) + n] = y[n]
  <2>1. ASSUME NEW n \in 1 .. b - m PROVE z[m - a + n] = y[n]
    <3>1. m - a + n \in 1 .. b - a /\ a + (m - a + n) = m + n
      BY <1>1
    <3> QED
      BY <1>3, <1>4, <3>1
  <2> QED
    BY <1>1, <1>2, <1>3, <2>1
<1>8. x \o y = z
  BY <1>2, <1>3, <1>4, <1>5, <1>6, <1>7, ConcatIs, Zenon
<1>9. FlattenSeq(x \o y) = FlattenSeq(x) \o FlattenSeq(y)
  BY <1>2, <1>3, FlattenConcat, Zenon DEF F
<1> QED
  BY <1>8, <1>9, Zenon DEF x, y, z, Hashed, SplitAt

\* Of the inputs before the signed one no script is hashed.
Before(b, i) == b \in Nat /\ i \in Nat /\ b <= i

LEMMA HashedBefore ==
    ASSUME NEW t, NEW s, NEW s2, NEW i, NEW i2, NEW a \in Nat, NEW b, Before(b, i), Before(b, i2)
    PROVE  Hashed(t, i, s, a, b) = Hashed(t, i2, s2, a, b)
<1>1. ASSUME NEW n \in 1 .. b - a
      PROVE  InputOf(t, i, s, a + n) = InputOf(t, i2, s2, a + n)
  <2>1. a + n # i + 1 /\ a + n # i2 + 1
    BY DEF Before
  <2> QED
    BY <2>1 DEF InputOf
<1>2. Inputs(t, i, s, a, b) = Inputs(t, i2, s2, a, b)
  BY <1>1, Zenon DEF Inputs
<1> QED
  BY <1>2, Zenon DEF Hashed

AssociatesAt(x, y, z) == (x \o y) \o z = x \o (y \o z)

LEMMA ConcatAssociatesAt ==
    ASSUME NEW F, NEW x, NEW y, NEW z, x \in Seq(F), y \in Seq(F), z \in Seq(F)
    PROVE  AssociatesAt(x, y, z)
BY ConcatAssociative DEF AssociatesAt

RegroupedAt(v, k, a, b, c) == (((v \o k) \o a) \o b) \o c = v \o (k \o ((a \o b) \o c))

LEMMA Regrouped ==
    ASSUME NEW F, NEW v, NEW k, NEW a, NEW b, NEW c,
           v \in Seq(F), k \in Seq(F), a \in Seq(F), b \in Seq(F), c \in Seq(F)
    PROVE  RegroupedAt(v, k, a, b, c)
<1>1. v \o k \in Seq(F) /\ a \o b \in Seq(F)
  BY ConcatProperties
<1>2. (a \o b) \o c \in Seq(F)
  BY <1>1, ConcatProperties
<1>3. AssociatesAt(v \o k, a, b)
  BY <1>1, ConcatAssociatesAt, Zenon
<1>4. AssociatesAt(v \o k, a \o b, c)
  BY <1>1, ConcatAssociatesAt, Zenon
<1>5. AssociatesAt(v, k, (a \o b) \o c)
  BY <1>2, ConcatAssociatesAt, Zenon
<1> QED
  BY <1>3, <1>4, <1>5, Zenon DEF AssociatesAt, RegroupedAt

\* The index names the first input the cached context does not hold.
Cached(r) == IF r.last_hashed_txin_index < 0 THEN 0 ELSE r.last_hashed_txin_index
CacheSound(r, t) == r.sha = header(t) \o hash_txins(t, 0, Cached(r) - 1, Cached(r), varstr_empty)

\* From such a cache the context of input i holds every input, the script in
\* the place of its own.
ContextAt(r, t, N, i, s) ==
    prehash_txins(r, t, i).sha \o hash_txins(t, i, N - 1, i, s)
        = << <<"version", t.version>> >> \o (<< <<"txin_count", Len(t.txins)>> >> \o Hashed(t, i, s, 0, N))

LEMMA ContextIs ==
    ASSUME NEW r, NEW t, NEW N \in Nat, DOMAIN t.txins = 1 .. N, NEW i \in Nat, i < N, NEW s,
           Cached(r) \in Nat, Cached(r) <= i,
           DOMAIN r = {"sha", "last_hashed_txin_index", "segwit"}, CacheSound(r, t)
    PROVE  ContextAt(r, t, N, i, s)
<1> PICK first \in Nat : first = Cached(r)
  OBVIOUS
<1> DEFINE v == <<"version", t.version>>
           k == <<"txin_count", Len(t.txins)>>
           F == Fields(t, s)
           before == Hashed(t, i, s, 0, first)
           some == Hashed(t, i, s, first, i)
           after == Hashed(t, i, s, i, N)
           all == Hashed(t, i, s, 0, N)
<1>1. /\ 0 \in Nat /\ Within(t, N, 0, first) /\ Within(t, N, first, i) /\ Within(t, N, 0, i)
      /\ Within(t, N, i, N) /\ Within(t, N, 0, N)
      /\ Before(first, first) /\ Before(first, i) /\ Before(i, i)
  BY DEF Within, Before
<1>2. v \in F /\ k \in F
  BY Zenon DEF Fields
<1>3. before \in Seq(F) /\ some \in Seq(F) /\ after \in Seq(F) /\ all \in Seq(F)
  <2>1. /\ InputsAre(t, i, s, 0, first) /\ InputsAre(t, i, s, first, i)
        /\ InputsAre(t, i, s, i, N) /\ InputsAre(t, i, s, 0, N)
    BY <1>1, InputsType, Zenon
  <2> QED
    BY <2>1, Zenon DEF InputsAre
<1>4. (before \o some) \o after = all
  <2>1. SplitAt(t, i, s, 0, first, i) /\ SplitAt(t, i, s, 0, i, N)
    BY <1>1, HashedSplit, Zenon
  <2> QED
    BY <2>1, Zenon DEF SplitAt
<1>5. r.sha = <<v, k>> \o before
  <2>1. r.sha = header(t) \o hash_txins(t, 0, first - 1, first, varstr_empty)
    BY Zenon DEF CacheSound
  <2>2. hash_txins(t, 0, first - 1, first, varstr_empty) = Hashed(t, first, varstr_empty, 0, first)
    BY <1>1, HashTxins
  <2>3. Hashed(t, first, varstr_empty, 0, first) = before
    BY <1>1, HashedBefore
  <2> QED
    BY <2>1, <2>2, <2>3, Zenon DEF header
<1>6. prehash_txins(r, t, i).sha = r.sha \o some
  <2>1. prehash_txins(r, t, i).sha = r.sha \o hash_txins(t, Cached(r), i - 1, i, varstr_empty)
    <3>1. prehash_txins(r, t, i) = [r EXCEPT !.sha = @ \o hash_txins(t, Cached(r), i - 1, i, varstr_empty),
                                             !.last_hashed_txin_index = i - 1]
      BY Zenon DEF prehash_txins, Cached
    <3> QED
      BY <3>1
  <2>2. hash_txins(t, first, i - 1, i, varstr_empty) = Hashed(t, i, varstr_empty, first, i)
    BY HashTxins
  <2>3. Hashed(t, i, varstr_empty, first, i) = some
    BY <1>1, HashedBefore
  <2> QED
    BY <2>1, <2>2, <2>3, Zenon
<1>7. hash_txins(t, i, N - 1, i, s) = after
  BY HashTxins, Zenon
<1> HIDE DEF v, k, F, before, some, after, all
<1>8. ((<<v, k>> \o before) \o some) \o after = <<v>> \o (<<k>> \o ((before \o some) \o after))
  <2>1. <<v>> \in Seq(F) /\ <<k>> \in Seq(F)
    BY <1>2
  <2>2. <<v>> \o <<k>> = <<v, k>>
    BY TwoFields, Zenon
  <2>3. RegroupedAt(<<v>>, <<k>>, before, some, after)
    BY <1>3, <2>1, Regrouped, Zenon
  <2> QED
    BY <2>2, <2>3, Zenon DEF RegroupedAt
<1>9. prehash_txins(r, t, i).sha \o hash_txins(t, i, N - 1, i, s) = <<v>> \o (<<k>> \o all)
  BY <1>4, <1>5, <1>6, <1>7, <1>8, Zenon
<1> QED
  BY <1>9, Zenon DEF v, k, all, ContextAt

\* From such a cache, and with anyone_can_pay from any, the digest of a legacy
\* input is that of the whole transaction.
LEMMA LegacyDigestIs ==
    ASSUME NEW r, NEW t, NEW N \in Nat, DOMAIN t.txins = 1 .. N, NEW i \in Nat, i < N,
           NEW type \in SighashTypes, NEW s,
           DOMAIN r = {"sha", "last_hashed_txin_index", "segwit"},
           r.last_hashed_txin_index \in Int, r.last_hashed_txin_index <= i, Len(t.txins) = N,
           type.anyone_can_pay \/ CacheSound(r, t),
           satoshi_utxo_get_digest(r, t, i, type, s).rc = 0
    PROVE  satoshi_utxo_get_digest(r, t, i, type, s).digest = LegacyDigest(t, i, type, s)
<1> DEFINE v == <<"version", t.version>>
           k == <<"txin_count", Len(t.txins)>>
           tail == << <<"lock_time", t.lock_time>>, <<"type", type>> >>
           context == IF type.anyone_can_pay THEN <<v>> \o hash_txin(txin_at(t, i), s)
                      ELSE prehash_txins(r, t, i).sha \o hash_txins(t, i, Len(t.txins) - 1, i, s)
           inputs == IF type.anyone_can_pay THEN InputOf(t, i, s, i + 1) ELSE <<k>> \o Hashed(t, i, s, 0, N)
           outputs == CASE type.base = "all" -> << <<"txout_count", Len(t.txouts)>> >> \o hash_txouts(t)
                        [] type.base = "none" -> <<>>
                        [] type.base = "single" -> hash_txout(t.txouts[i + 1])
<1>1. satoshi_utxo_get_digest(r, t, i, type, s).digest = hash256((context \o legacy_txouts(t, i, type)) \o tail)
  <2> DEFINE w == IF type.anyone_can_pay THEN r ELSE prehash_txins(r, t, i)
             text == hash256((context \o legacy_txouts(t, i, type)) \o tail)
             none == type.base = "single" /\ i >= Len(t.txouts)
  <2>1. context = IF type.anyone_can_pay THEN <<v>> \o hash_txin(txin_at(t, i), s)
                  ELSE w.sha \o hash_txins(t, i, Len(t.txins) - 1, i, s)
    <3> HIDE DEF v
    <3> QED
      OBVIOUS
  <2>2. satoshi_utxo_get_digest(r, t, i, type, s)
           = IF none THEN digest_of(-1, w, uint256_zero) ELSE digest_of(0, w, text)
    <3> HIDE DEF context, w
    <3>1. satoshi_utxo_get_digest(r, t, i, type, s)
             = LET txs == IF type.anyone_can_pay THEN <<v>> \o hash_txin(txin_at(t, i), s)
                          ELSE w.sha \o hash_txins(t, i, Len(t.txins) - 1, i, s)
               IN  IF none THEN digest_of(-1, w, uint256_zero)
                   ELSE digest_of(0, w, hash256(txs \o legacy_txouts(t, i, type) \o tail))
      BY Zenon DEF satoshi_utxo_get_digest, w
    <3> QED
      BY <2>1, <3>1, Zenon
  <2> HIDE DEF text, w, none
  <2>3. satoshi_utxo_get_digest(r, t, i, type, s).digest = text
    BY <2>2 DEF digest_of
  <2> QED
    BY <2>3, Zenon DEF text
<1>2. legacy_txouts(t, i, type) = outputs
  BY DEF legacy_txouts, SighashTypes, txout_at
<1>3. LegacyDigest(t, i, type, s) = hash256(((<<v>> \o inputs) \o outputs) \o tail)
  <2> DEFINE input(j) == << <<"outpoint", t.txins[j].outpoint>>,
                            <<"script", IF j = i + 1 THEN s ELSE <<>>>>,
                            <<"sequence", t.txins[j].sequence>> >>
             g == [j \in DOMAIN t.txins |-> input(j)]
             ins == IF type.anyone_can_pay THEN input(i + 1) ELSE <<k>> \o FlattenSeq(g)
  <2>1. LegacyDigest(t, i, type, s) = hash256(((<<v>> \o ins) \o outputs) \o tail)
    BY Zenon DEF LegacyDigest
  <2>2. \A j : input(j) = InputOf(t, i, s, j)
    BY Zenon DEF InputOf, hash_txin, varstr_empty
  <2>3. g = Inputs(t, i, s, 0, N)
    <3>1. (1 .. N - 0) = 1 .. N /\ \A n \in 1 .. N : 0 + n = n
      OBVIOUS
    <3>2. \A n \in 1 .. N : input(n) = InputOf(t, i, s, 0 + n)
      BY <2>2, <3>1
    <3> HIDE DEF input
    <3> QED
      BY <3>1, <3>2, Zenon DEF Inputs
  <2>4. ins = inputs
    <3> HIDE DEF g, input
    <3> QED
      BY <2>2, <2>3, Zenon DEF Hashed
  <2> HIDE DEF ins, g, input
  <2> QED
    BY <2>1, <2>4, Zenon
<1>4. context = <<v>> \o inputs
  <2>1. CASE type.anyone_can_pay
    <3>1. hash_txin(txin_at(t, i), s) = InputOf(t, i, s, i + 1)
      BY Zenon DEF InputOf, txin_at
    <3> QED
      BY <2>1, <3>1
  <2>2. CASE ~type.anyone_can_pay
    <3>1. Cached(r) \in Nat /\ Cached(r) <= i
      BY DEF Cached
    <3>2. context = <<v>> \o (<<k>> \o Hashed(t, i, s, 0, N))
      <4>1. prehash_txins(r, t, i).sha \o hash_txins(t, i, N - 1, i, s) = <<v>> \o (<<k>> \o Hashed(t, i, s, 0, N))
        <5>1. ContextAt(r, t, N, i, s)
          BY <2>2, <3>1, ContextIs, SMT
        <5> QED
          BY <5>1, Zenon DEF ContextAt
      <4> QED
        BY <2>2, <4>1, Zenon
    <3> HIDE DEF v, k
    <3> QED
      BY <2>2, <3>2
  <2> QED
    BY <2>1, <2>2
<1> HIDE DEF context, inputs, outputs, v, tail
<1> QED
  BY <1>1, <1>2, <1>3, <1>4, Zenon

-----------------------------------------------------------------------------
(* Sequences of any elements, stacks and scripts *)

LEMMA IsSeqLen == ASSUME NEW s, IsSeq(s) PROVE Len(s) \in Nat /\ DOMAIN s = 1 .. Len(s)
<1> DEFINE S == {s[i] : i \in DOMAIN s}
<1>1. s \in Seq(S)
  BY Zenon DEF IsSeq
<1> HIDE DEF S
<1> QED
  BY <1>1

LEMMA SeqIs == ASSUME NEW S, NEW s \in Seq(S) PROVE IsSeq(s)
<1> DEFINE R == {s[i] : i \in DOMAIN s}
<1>1. PICK n \in Nat : n = Len(s)
  OBVIOUS
<1>2. DOMAIN s = 1 .. n /\ s \in [1 .. n -> S]
  BY <1>1
<1>3. \A i \in 1 .. n : s[i] \in R
  BY <1>2
<1> HIDE DEF R
<1>4. s \in [1 .. n -> R]
  BY <1>2, <1>3
<1>5. s \in Seq(R)
  BY <1>4
<1> QED
  BY <1>5, Zenon DEF IsSeq, R

\* A function on an initial segment of the naturals.
LEMMA SegmentIsSeq ==
    ASSUME NEW f, NEW n \in Nat, DOMAIN f = 1 .. n, f = [i \in 1 .. n |-> f[i]]
    PROVE  IsSeq(f) /\ Len(f) = n
<1> DEFINE R == {f[i] : i \in DOMAIN f}
<1>1. \A i \in 1 .. n : f[i] \in R
  OBVIOUS
<1> HIDE DEF R
<1>2. f \in [1 .. n -> R]
  BY <1>1, Zenon
<1>3. f \in Seq(R) /\ Len(f) = n
  BY <1>2
<1> QED
  BY <1>3, Zenon DEF IsSeq, R

\* What is appended, and what is cut off.
LEMMA AppendIs ==
    ASSUME NEW s, IsSeq(s), NEW x
    PROVE  /\ IsSeq(Append(s, x)) /\ Len(Append(s, x)) = Len(s) + 1
           /\ \A i \in 1 .. Len(s) : Append(s, x)[i] = s[i]
           /\ Append(s, x)[Len(s) + 1] = x
<1> DEFINE R == {s[i] : i \in DOMAIN s} \cup {x}
<1>1. s \in Seq({s[i] : i \in DOMAIN s})
  BY Zenon DEF IsSeq
<1>2. s \in Seq(R) /\ x \in R
  BY <1>1
<1> HIDE DEF R
<1>3. Append(s, x) \in Seq(R) /\ Len(Append(s, x)) = Len(s) + 1
      /\ (\A i \in 1 .. Len(s) : Append(s, x)[i] = s[i]) /\ Append(s, x)[Len(s) + 1] = x
  BY <1>2, AppendProperties
<1> QED
  BY <1>3, SeqIs, Zenon

LEMMA SubSeqIs ==
    ASSUME NEW s, IsSeq(s), NEW a \in Nat, NEW b \in Nat, 1 <= a, a <= b + 1, b <= Len(s)
    PROVE  /\ IsSeq(SubSeq(s, a, b)) /\ Len(SubSeq(s, a, b)) = b - a + 1
           /\ \A i \in 1 .. b - a + 1 : SubSeq(s, a, b)[i] = s[a + i - 1]
<1> DEFINE R == {s[i] : i \in DOMAIN s}
<1>1. s \in Seq(R) /\ Len(s) \in Nat /\ DOMAIN s = 1 .. Len(s)
  BY IsSeqLen, Zenon DEF IsSeq
<1>2. PICK n \in Nat : n = Len(s)
  BY <1>1
<1>3. \A i \in 1 .. n : s[i] \in R
  BY <1>1, <1>2
<1> HIDE DEF R
<1> DEFINE f == [i \in 1 .. b - a + 1 |-> s[i + a - 1]]
<1>4. SubSeq(s, a, b) = f
  OBVIOUS
<1>5. b - a + 1 \in Nat /\ DOMAIN f = 1 .. b - a + 1 /\ f = [i \in 1 .. b - a + 1 |-> f[i]]
  OBVIOUS
<1>6. \A i \in 1 .. b - a + 1 : f[i] = s[a + i - 1]
  OBVIOUS
<1> HIDE DEF f
<1>7. IsSeq(f) /\ Len(f) = b - a + 1
  BY <1>5, SegmentIsSeq, Zenon
<1> QED
  BY <1>4, <1>6, <1>7, Zenon

LEMMA FrontIs ==
    ASSUME NEW s, IsSeq(s), s # <<>>
    PROVE  /\ Len(s) >= 1
           /\ IsSeq(Front(s)) /\ Len(Front(s)) = Len(s) - 1
           /\ \A i \in 1 .. Len(s) - 1 : Front(s)[i] = s[i]
           /\ Last(s) = s[Len(s)]
<1>1. PICK n \in Nat : n = Len(s) /\ DOMAIN s = 1 .. n
  BY IsSeqLen
<1>2. n # 0
  <2>1. s \in Seq({s[i] : i \in DOMAIN s})
    BY Zenon DEF IsSeq
  <2> QED
    BY <1>1, <2>1, EmptySeq
<1>3. PICK m \in Nat : m = n - 1
  BY <1>2
<1>4. Front(s) = SubSeq(s, 1, m)
  BY <1>1, <1>3 DEF Front
<1>5. 1 \in Nat /\ 1 <= m + 1 /\ 1 <= 1 /\ m <= Len(s) /\ m - 1 + 1 = m
  BY <1>1, <1>3
<1>6. /\ IsSeq(SubSeq(s, 1, m)) /\ Len(SubSeq(s, 1, m)) = m - 1 + 1
      /\ \A i \in 1 .. m - 1 + 1 : SubSeq(s, 1, m)[i] = s[1 + i - 1]
  BY <1>5, SubSeqIs
<1>7. \A i \in 1 .. m : 1 + i - 1 = i
  OBVIOUS
<1>8. IsSeq(Front(s)) /\ Len(Front(s)) = m /\ \A i \in 1 .. m : Front(s)[i] = s[i]
  BY <1>4, <1>5, <1>6, <1>7, Zenon
<1> QED
  BY <1>1, <1>2, <1>3, <1>8 DEF Last

LEMMA EmptyIsSeq == IsSeq(<<>>) /\ Len(<<>>) = 0
BY SeqIs, EmptySeq

LEMMA OneIsSeq == ASSUME NEW x PROVE IsSeq(<<x>>) /\ Len(<<x>>) = 1 /\ <<x>>[1] = x
<1>1. <<x>> \in Seq({x})
  OBVIOUS
<1> QED
  BY <1>1, SeqIs

LEMMA StackAppend ==
    ASSUME NEW S, NEW s, Stack(S, s), NEW x, Item(S, x)
    PROVE  Stack(S, Append(s, x)) /\ Len(Append(s, x)) = Len(s) + 1
<1>1. IsSeq(s) /\ \A i \in DOMAIN s : Item(S, s[i])
  BY Zenon DEF Stack
<1>2. PICK n \in Nat : n = Len(s) /\ DOMAIN s = 1 .. n
  BY <1>1, IsSeqLen
<1>3. /\ IsSeq(Append(s, x)) /\ Len(Append(s, x)) = n + 1
      /\ \A i \in 1 .. n : Append(s, x)[i] = s[i]
      /\ Append(s, x)[n + 1] = x
  BY <1>1, <1>2, AppendIs
<1>4. DOMAIN Append(s, x) = 1 .. n + 1
  BY <1>3, IsSeqLen
<1>5. \A i \in 1 .. n + 1 : i \in 1 .. n \/ i = n + 1
  OBVIOUS
<1>6. \A i \in 1 .. n + 1 : Item(S, Append(s, x)[i])
  BY <1>1, <1>2, <1>3, <1>5, Zenon
<1> QED
  BY <1>2, <1>3, <1>4, <1>6, Zenon DEF Stack

LEMMA StackCut ==
    ASSUME NEW S, NEW s, Stack(S, s), NEW k \in Int, k <= Len(s)
    PROVE  Stack(S, SubSeq(s, 1, k)) /\ Len(SubSeq(s, 1, k)) <= Len(s)
<1>1. IsSeq(s) /\ \A i \in DOMAIN s : Item(S, s[i])
  BY Zenon DEF Stack
<1>2. PICK n \in Nat : n = Len(s) /\ DOMAIN s = 1 .. n
  BY <1>1, IsSeqLen
<1>3. CASE k \in Nat
  <2>1. 1 \in Nat /\ 1 <= k + 1 /\ 1 <= 1 /\ k <= Len(s) /\ k - 1 + 1 = k
    BY <1>3
  <2>2. /\ IsSeq(SubSeq(s, 1, k)) /\ Len(SubSeq(s, 1, k)) = k - 1 + 1
        /\ \A i \in 1 .. k - 1 + 1 : SubSeq(s, 1, k)[i] = s[1 + i - 1]
    BY <1>1, <1>3, <2>1, SubSeqIs
  <2>3. \A i \in 1 .. k : 1 + i - 1 = i /\ i \in 1 .. n
    BY <1>2, <1>3
  <2>4. DOMAIN SubSeq(s, 1, k) = 1 .. k
    BY <2>1, <2>2, IsSeqLen
  <2>5. \A i \in DOMAIN SubSeq(s, 1, k) : Item(S, SubSeq(s, 1, k)[i])
    BY <1>1, <1>2, <2>1, <2>2, <2>3, <2>4, Zenon
  <2> QED
    BY <1>2, <2>1, <2>2, <2>5 DEF Stack
<1>4. CASE k \notin Nat
  <2>1. k < 1 /\ 1 \in Int
    BY <1>4
  <2>2. SubSeq(s, 1, k) = <<>>
    BY <2>1, SubSeqEmpty
  <2>3. Stack(S, <<>>)
    BY EmptyIsSeq DEF Stack
  <2>4. Len(SubSeq(s, 1, k)) = 0
    BY <2>2
  <2>5. 0 <= Len(s)
    BY <1>2
  <2> QED
    BY <2>2, <2>3, <2>4, <2>5, Zenon
<1> QED
  BY <1>3, <1>4

LEMMA StackTop ==
    ASSUME NEW S, NEW s, Stack(S, s), s # <<>>
    PROVE  /\ Item(S, Top(s)) /\ Top(s) = s[Len(s)]
           /\ Len(s) \in Nat /\ Len(s) >= 1
           /\ Stack(S, Front(s)) /\ Len(Front(s)) = Len(s) - 1
<1>1. IsSeq(s) /\ \A i \in DOMAIN s : Item(S, s[i])
  BY Zenon DEF Stack
<1>2. PICK n \in Nat : n = Len(s) /\ DOMAIN s = 1 .. n
  BY <1>1, IsSeqLen
<1>3. /\ n >= 1 /\ IsSeq(Front(s)) /\ Len(Front(s)) = n - 1
      /\ \A i \in 1 .. n - 1 : Front(s)[i] = s[i]
      /\ Last(s) = s[n]
  BY <1>1, <1>2, FrontIs
<1>4. DOMAIN Front(s) = 1 .. n - 1
  BY <1>3, IsSeqLen
<1>5. n \in 1 .. n /\ \A i \in 1 .. n - 1 : i \in 1 .. n
  BY <1>3
<1>6. \A i \in DOMAIN Front(s) : Item(S, Front(s)[i])
  BY <1>1, <1>2, <1>3, <1>4, <1>5, Zenon
<1> QED
  BY <1>1, <1>2, <1>3, <1>5, <1>6, Zenon DEF Stack, Top

LEMMA StackEmpty == ASSUME NEW S PROVE Stack(S, <<>>) /\ Len(<<>>) = 0
BY EmptyIsSeq DEF Stack

LEMMA StackOne == ASSUME NEW S, NEW x, Item(S, x) PROVE Stack(S, <<x>>) /\ <<x>> # <<>>
<1>1. IsSeq(<<x>>) /\ DOMAIN <<x>> = {1} /\ <<x>>[1] = x
  BY OneIsSeq
<1>2. <<x>> # <<>>
  OBVIOUS
<1> QED
  BY <1>1, <1>2 DEF Stack

-----------------------------------------------------------------------------
(* What the operations on the stack return *)

\* A stack of items, of at most the allocated size, and not the assert on the
\* order of the inputs.
Good(S, r) == Stack(S, r.stack) /\ Len(r.stack) <= StackAlloc /\ r.fault # OutOfOrder
Full(S, s) == Stack(S, s) /\ Len(s) <= StackAlloc

LEMMA OutcomeIs ==
    ASSUME NEW rc, NEW s, NEW why
    PROVE  /\ Outcome(rc, s, why).rc = rc /\ Outcome(rc, s, why).stack = s /\ Outcome(rc, s, why).fault = why
BY DEF Outcome

LEMMA GoodOutcome ==
    ASSUME NEW S, NEW rc, NEW s, Full(S, s)
    PROVE  Good(S, Outcome(rc, s, "none")) /\ Good(S, Fine(s)) /\ Good(S, Refuse(s))
<1>1. "none" # OutOfOrder
  BY DEF OutOfOrder
<1>2. ASSUME NEW k PROVE Good(S, Outcome(k, s, "none"))
  <2>1. Outcome(k, s, "none").stack = s /\ Outcome(k, s, "none").fault = "none"
    BY OutcomeIs
  <2> QED
    BY <1>1, <2>1 DEF Good, Full
<1> QED
  BY <1>2, Zenon DEF Fine, Refuse

LEMMA FineIs == ASSUME NEW s PROVE Fine(s).rc = 0 /\ Fine(s).stack = s /\ Fine(s).fault = "none"
BY DEF Fine, Outcome
LEMMA RefuseIs == ASSUME NEW s PROVE Refuse(s).rc # 0 /\ Refuse(s).stack = s /\ Refuse(s).fault = "none"
BY DEF Refuse, Outcome
LEMMA CrashIs == ASSUME NEW why PROVE Crash(why).rc # 0 /\ Crash(why).stack = <<>> /\ Crash(why).fault = why
BY DEF Crash, Outcome

LEMMA FullEmpty == ASSUME NEW S PROVE Full(S, <<>>)
<1>1. Stack(S, <<>>) /\ Len(<<>>) = 0
  BY StackEmpty, Zenon
<1>2. 0 <= StackAlloc
  BY BoundsAssumption
<1> QED
  BY <1>1, <1>2, Zenon DEF Full

LEMMA GoodCrash == ASSUME NEW S, NEW why, why # OutOfOrder PROVE Good(S, Crash(why))
BY FullEmpty, CrashIs, Zenon DEF Good, Full

LEMMA FullCut == ASSUME NEW S, NEW s, Full(S, s), NEW k \in Int, k <= Len(s) PROVE Full(S, SubSeq(s, 1, k))
<1>1. Stack(S, SubSeq(s, 1, k)) /\ Len(SubSeq(s, 1, k)) <= Len(s)
  BY StackCut, Zenon DEF Full
<1>2. Len(s) \in Nat /\ Len(SubSeq(s, 1, k)) \in Nat
  BY <1>1, IsSeqLen, Zenon DEF Stack, Full
<1>3. StackAlloc \in Nat /\ Len(s) <= StackAlloc
  BY BoundsAssumption DEF Full
<1>4. Len(SubSeq(s, 1, k)) <= StackAlloc
  BY <1>1, <1>2, <1>3
<1> QED
  BY <1>1, <1>4, Zenon DEF Full

LEMMA FullFront == ASSUME NEW S, NEW s, Full(S, s), s # <<>>
                   PROVE  /\ Full(S, Front(s)) /\ Len(Front(s)) = Len(s) - 1 /\ Len(s) \in Nat /\ Len(s) >= 1
                          /\ Item(S, Top(s)) /\ Top(s) = s[Len(s)]
<1>1. /\ Item(S, Top(s)) /\ Top(s) = s[Len(s)] /\ Len(s) \in Nat /\ Len(s) >= 1
      /\ Stack(S, Front(s)) /\ Len(Front(s)) = Len(s) - 1
  BY StackTop, Zenon DEF Full
<1> QED
  BY <1>1, BoundsAssumption DEF Full

\* An item put on a stack that has room.
LEMMA FullAppend ==
    ASSUME NEW S, NEW s, Stack(S, s), Len(s) < StackAlloc, NEW x, Item(S, x)
    PROVE  Full(S, Append(s, x))
<1>1. Stack(S, Append(s, x)) /\ Len(Append(s, x)) = Len(s) + 1 /\ Len(s) \in Nat
  BY StackAppend, IsSeqLen, Zenon DEF Stack
<1> QED
  BY <1>1, BoundsAssumption DEF Full

LEMMA PushGood ==
    ASSUME NEW S, NEW s, Full(S, s), NEW x, Item(S, x)
    PROVE  Good(S, stack_push(s, x))
<1>1. CASE Len(s) >= StackAlloc
  <2>1. stack_push(s, x) = Crash("stack items wiped")
    BY <1>1 DEF stack_push
  <2>2. "stack items wiped" # OutOfOrder
    BY DEF OutOfOrder
  <2> QED
    BY <2>1, <2>2, GoodCrash, Zenon
<1>2. CASE ~(Len(s) >= StackAlloc)
  <2>1. stack_push(s, x) = Fine(Append(s, x))
    BY <1>2 DEF stack_push
  <2>2. Len(s) \in Nat
    BY IsSeqLen DEF Full, Stack
  <2>3. Full(S, Append(s, x))
    BY <1>2, <2>2, FullAppend, BoundsAssumption DEF Full
  <2> QED
    BY <2>1, <2>3, GoodOutcome, Zenon
<1> QED
  BY <1>1, <1>2

LEMMA DataItem == ASSUME NEW S, NEW k, NEW v, Known(S, v) PROVE Item(S, satoshi_script_data_new(k, v))
BY DEF Item, satoshi_script_data_new

LEMMA PlainValues ==
    ASSUME NEW S, NEW x
    PROVE  /\ Known(S, Byte(x)) /\ Known(S, Empty) /\ Known(S, sha256(x)) /\ Known(S, ripemd160(x))
           /\ Known(S, hash160(x)) /\ Known(S, hash256(x))
BY DEF Known, is_script, Byte, Empty, sha256, ripemd160, hash160, hash256

LEMMA BooleanItem == ASSUME NEW S, NEW b PROVE Item(S, satoshi_script_data_new_boolean(b))
<1>1. Known(S, Byte(IF b THEN 1 ELSE 0))
  BY PlainValues, Zenon
<1> QED
  BY <1>1, DataItem, Zenon DEF satoshi_script_data_new_boolean

LEMMA PushBoolean == ASSUME NEW S, NEW s, Full(S, s), NEW b
                     PROVE  Good(S, stack_push(s, satoshi_script_data_new_boolean(b)))
BY BooleanItem, PushGood, Zenon

LEMMA VerifyGood ==
    ASSUME NEW S, NEW s, Full(S, s)
    PROVE  /\ Good(S, scripts_verify(s)) /\ scripts_verify(s).fault = "none" /\ Full(S, scripts_verify(s).stack)
           /\ scripts_verify(s).rc = 0 =>
                s # <<>> /\ scripts_verify(s).stack = Front(s) /\ Len(scripts_verify(s).stack) = Len(s) - 1
<1>1. CASE s = <<>>
  <2>1. scripts_verify(s) = Refuse(s)
    BY <1>1 DEF scripts_verify
  <2>2. /\ Good(S, Refuse(s)) /\ Refuse(s).fault = "none" /\ Refuse(s).stack = s /\ Refuse(s).rc # 0
    <3>1. Refuse(s).rc # 0
      BY RefuseIs
    <3> QED
      BY <3>1, RefuseIs, GoodOutcome, Zenon
  <2> QED
    BY <2>1, <2>2, Zenon
<1>2. CASE s # <<>>
  <2>1. scripts_verify(s) = Outcome(IF is_true(Top(s)) THEN 0 ELSE -1, Front(s), "none")
    BY <1>2 DEF scripts_verify
  <2>2. Full(S, Front(s)) /\ Len(Front(s)) = Len(s) - 1
    BY <1>2, FullFront, Zenon
  <2> DEFINE rc == IF is_true(Top(s)) THEN 0 ELSE -1
  <2>3. scripts_verify(s) = Outcome(rc, Front(s), "none")
    BY <2>1, Zenon
  <2> HIDE DEF rc
  <2>4. scripts_verify(s).stack = Front(s) /\ scripts_verify(s).fault = "none"
    <3>1. Outcome(rc, Front(s), "none").stack = Front(s) /\ Outcome(rc, Front(s), "none").fault = "none"
      BY OutcomeIs
    <3> QED
      BY <2>3, <3>1, Zenon
  <2>5. Good(S, scripts_verify(s))
    BY <2>2, <2>3, GoodOutcome, Zenon
  <2>6. Full(S, scripts_verify(s).stack)
    BY <2>2, <2>4
  <2>7. Len(scripts_verify(s).stack) = Len(s) - 1
    BY <2>2, <2>4
  <2> QED
    BY <1>2, <2>4, <2>5, <2>6, <2>7
<1> QED
  BY <1>1, <1>2

LEMMA EqualverifyGood ==
    ASSUME NEW S, NEW s, Full(S, s)
    PROVE  /\ Good(S, parse_op_equalverify(s))
           /\ Full(S, parse_op_equalverify(s).stack)
<1>1. CASE Len(s) < 2
  <2>1. parse_op_equalverify(s) = Refuse(s)
    BY <1>1 DEF parse_op_equalverify
  <2> QED
    BY <2>1, RefuseIs, GoodOutcome, Zenon
<1>2. CASE ~(Len(s) < 2)
  <2> DEFINE x == s[Len(s)]
             y == s[Len(s) - 1]
             t == SubSeq(s, 1, Len(s) - 2)
  <2>1. Full(S, t)
    <3>1. Len(s) \in Nat
      BY IsSeqLen DEF Full, Stack
    <3> QED
      BY <3>1, FullCut
  <2>2. \/ parse_op_equalverify(s) = Crash("free of a static item")
        \/ parse_op_equalverify(s) = Fine(t)
        \/ parse_op_equalverify(s) = Refuse(t)
    <3> HIDE DEF t
    <3>1. parse_op_equalverify(s) =
            CASE "static" \in {x.t, y.t} -> Crash("free of a static item")
              [] satoshi_script_data_compare(x, y) -> Fine(t)
              [] OTHER -> Refuse(t)
      BY <1>2, Zenon DEF parse_op_equalverify, t
    <3> QED
      BY <3>1
  <2>3. "free of a static item" # OutOfOrder
    BY DEF OutOfOrder
  <2> HIDE DEF t
  <2> QED
    <3>1. CASE parse_op_equalverify(s) = Crash("free of a static item")
      <4>1. Good(S, Crash("free of a static item"))
        BY <2>3, GoodCrash, Zenon
      <4>2. Full(S, Crash("free of a static item").stack)
        BY CrashIs, FullEmpty
      <4> QED
        BY <3>1, <4>1, <4>2, Zenon
    <3>2. CASE parse_op_equalverify(s) = Fine(t)
      BY <2>1, <3>2, FineIs, GoodOutcome, Zenon
    <3>3. CASE parse_op_equalverify(s) = Refuse(t)
      BY <2>1, <3>3, RefuseIs, GoodOutcome, Zenon
    <3> QED
      BY <2>2, <3>1, <3>2, <3>3, Zenon
<1> QED
  BY <1>1, <1>2

LEMMA ExecGood ==
    ASSUME NEW S, NEW s, Full(S, s), NEW token, token.op \in StackOps, Known(S, token.arg)
    PROVE  Good(S, exec(s, token))
<1>1. CASE token.op = "0"
  <2>1. exec(s, token) = stack_push(s, satoshi_script_data_new_boolean(FALSE))
    BY <1>1 DEF exec, PushOps, HashOps
  <2> QED
    BY <2>1, PushBoolean, Zenon
<1>2. CASE token.op \in PushOps
  <2>1. exec(s, token) = parse_op_push_data(s, token.op, token.arg)
    BY <1>2 DEF exec, PushOps, HashOps
  <2>2. Good(S, Refuse(s)) /\ Good(S, Crash("assert: op_pushdata4"))
    <3>1. "assert: op_pushdata4" # OutOfOrder
      BY DEF OutOfOrder
    <3> QED
      BY <3>1, GoodOutcome, GoodCrash, Zenon
  <2>3. Good(S, stack_push(s, satoshi_script_data_new_ptr(token.arg)))
    BY DataItem, PushGood, Zenon DEF satoshi_script_data_new_ptr
  <2> QED
    BY <2>1, <2>2, <2>3, Zenon DEF parse_op_push_data
<1>3. CASE token.op = "n"
  <2>1. exec(s, token) = stack_push(s, satoshi_script_data_new("uint8", token.arg))
    BY <1>3 DEF exec, PushOps, HashOps
  <2> QED
    BY <2>1, DataItem, PushGood, Zenon
<1>4. CASE token.op \in HashOps
  <2>1. exec(s, token) = parse_op_hash(s, token.op)
    BY <1>4 DEF exec, PushOps, HashOps
  <2>2. CASE s = <<>>
    <3>1. parse_op_hash(s, token.op) = Refuse(s)
      BY <2>2 DEF parse_op_hash
    <3> QED
      BY <2>1, <3>1, GoodOutcome, Zenon
  <2>3. CASE s # <<>>
    <3> DEFINE x == hash_op(token.op, satoshi_script_data_get(Top(s)))
    <3>1. parse_op_hash(s, token.op) = Fine(Append(Front(s), x))
      BY <2>3, Zenon DEF parse_op_hash
    <3>2. Item(S, x)
      <4>1. token.op \in {"ripemd160", "hash160", "sha256", "hash256"}
        BY <1>4 DEF HashOps
      <4>2. \A v : /\ Item(S, satoshi_script_data_new("hash160", ripemd160(v)))
                   /\ Item(S, satoshi_script_data_new("hash160", hash160(v)))
                   /\ Item(S, satoshi_script_data_new("hash256", sha256(v)))
                   /\ Item(S, satoshi_script_data_new("hash256", hash256(v)))
        BY PlainValues, DataItem, Zenon
      <4>3. \A v : \/ hash_op(token.op, v) = satoshi_script_data_new("hash160", ripemd160(v))
                   \/ hash_op(token.op, v) = satoshi_script_data_new("hash160", hash160(v))
                   \/ hash_op(token.op, v) = satoshi_script_data_new("hash256", sha256(v))
                   \/ hash_op(token.op, v) = satoshi_script_data_new("hash256", hash256(v))
        BY <4>1 DEF hash_op
      <4> QED
        BY <4>2, <4>3, Zenon
    <3>3. /\ Stack(S, Front(s)) /\ Len(Front(s)) < StackAlloc
      BY <2>3, FullFront, BoundsAssumption DEF Full
    <3> HIDE DEF x
    <3>4. Full(S, Append(Front(s), x))
      BY <3>2, <3>3, FullAppend, Zenon
    <3> QED
      BY <2>1, <3>1, <3>4, GoodOutcome, Zenon
  <2> QED
    BY <2>2, <2>3
<1>5. CASE token.op = "dup"
  <2>1. exec(s, token) = parse_op_dup(s)
    BY <1>5 DEF exec, PushOps, HashOps
  <2>2. CASE s = <<>>
    <3>1. parse_op_dup(s) = Refuse(s)
      BY <2>2 DEF parse_op_dup
    <3> QED
      BY <2>1, <3>1, GoodOutcome, Zenon
  <2>3. CASE s # <<>> /\ Top(s).v = Empty
    <3>1. parse_op_dup(s) = Crash("assert: data to clone")
      BY <2>3 DEF parse_op_dup
    <3>2. "assert: data to clone" # OutOfOrder
      BY DEF OutOfOrder
    <3> QED
      BY <2>1, <3>1, <3>2, GoodCrash, Zenon
  <2>4. CASE s # <<>> /\ Top(s).v # Empty
    <3>1. parse_op_dup(s) = stack_push(s, satoshi_script_data_clone(Top(s)))
      BY <2>4 DEF parse_op_dup
    <3>2. Item(S, satoshi_script_data_clone(Top(s)))
      <4>1. DOMAIN Top(s) = {"t", "v"} /\ Known(S, Top(s).v)
        BY <2>4, FullFront, Zenon DEF Item
      <4>2. DOMAIN satoshi_script_data_clone(Top(s)) = {"t", "v"} /\ satoshi_script_data_clone(Top(s)).v = Top(s).v
        BY <4>1 DEF satoshi_script_data_clone
      <4> QED
        BY <4>1, <4>2, Zenon DEF Item
    <3> QED
      BY <2>1, <3>1, <3>2, PushGood, Zenon
  <2> QED
    BY <2>2, <2>3, <2>4
<1>6. CASE token.op = "equalverify"
  <2>1. exec(s, token) = parse_op_equalverify(s)
    BY <1>6 DEF exec, PushOps, HashOps
  <2> QED
    BY <2>1, EqualverifyGood, Zenon
<1>7. CASE token.op = "equal"
  <2>1. exec(s, token) = parse_op_equal(s)
    BY <1>7 DEF exec, PushOps, HashOps
  <2>2. Good(S, stack_push(parse_op_equalverify(s).stack, satoshi_script_data_new_boolean(parse_op_equalverify(s).rc = 0)))
    BY EqualverifyGood, PushBoolean, Zenon
  <2> QED
    BY <2>1, <2>2, EqualverifyGood, Zenon DEF parse_op_equal
<1>8. CASE token.op = "verify"
  <2>1. exec(s, token) = scripts_verify(s)
    BY <1>8 DEF exec, PushOps, HashOps
  <2> QED
    BY <2>1, VerifyGood, Zenon
<1>9. CASE token.op \in {"nop", "return", "reserved", "else", "endif"}
  <2>1. exec(s, token) = Fine(s) \/ exec(s, token) = Refuse(s)
    BY <1>9 DEF exec, PushOps, HashOps
  <2> QED
    BY <2>1, GoodOutcome, Zenon
<1> QED
  BY <1>1, <1>2, <1>3, <1>4, <1>5, <1>6, <1>7, <1>8, <1>9 DEF StackOps

-----------------------------------------------------------------------------
(* Scripts and the calls that parse them *)

LEMMA CodeToken == ASSUME NEW S, NEW code, Code(S, code), NEW i \in 1 .. Len(code)
                   PROVE  Known(S, code[i].arg)
<1>1. IsSeq(code) /\ \A k \in DOMAIN code : Known(S, code[k].arg)
  BY Zenon DEF Code
<1>2. DOMAIN code = 1 .. Len(code)
  BY <1>1, IsSeqLen
<1> QED
  BY <1>1, <1>2

LEMMA CodeLen == ASSUME NEW S, NEW code, Code(S, code)
                 PROVE  Len(code) \in Nat /\ DOMAIN code = 1 .. Len(code) /\ (code = <<>> => Len(code) = 0)
                        /\ (code # <<>> => Len(code) >= 1)
<1>1. IsSeq(code)
  BY Zenon DEF Code
<1>2. CASE code = <<>>
  BY <1>1, <1>2, IsSeqLen, EmptyIsSeq
<1>3. CASE code # <<>>
  BY <1>1, <1>3, IsSeqLen, FrontIs
<1> QED
  BY <1>2, <1>3

LEMMA CodeSub ==
    ASSUME NEW S, NEW code, Code(S, code), NEW a \in Nat, NEW b \in Nat, 1 <= a, a <= b + 1, b <= Len(code)
    PROVE  Code(S, SubSeq(code, a, b)) /\ Len(SubSeq(code, a, b)) = b - a + 1
<1>1. IsSeq(code)
  BY Zenon DEF Code
<1>2. PICK n \in Nat : n = Len(code) /\ DOMAIN code = 1 .. n
  BY <1>1, IsSeqLen
<1>3. /\ IsSeq(SubSeq(code, a, b)) /\ Len(SubSeq(code, a, b)) = b - a + 1
      /\ \A i \in 1 .. b - a + 1 : SubSeq(code, a, b)[i] = code[a + i - 1]
  BY <1>1, SubSeqIs
<1>4. DOMAIN SubSeq(code, a, b) = 1 .. b - a + 1
  BY <1>3, IsSeqLen
<1>5. \A i \in 1 .. b - a + 1 : a + i - 1 \in 1 .. Len(code)
  BY <1>2
<1>6. \A i \in 1 .. b - a + 1 : Known(S, code[a + i - 1].arg)
  BY <1>5, CodeToken, Zenon
<1>7. \A i \in DOMAIN SubSeq(code, a, b) : Known(S, SubSeq(code, a, b)[i].arg)
  BY <1>3, <1>4, <1>6, Zenon
<1> QED
  BY <1>3, <1>7, Zenon DEF Code

LEMMA CodeEmpty == ASSUME NEW S PROVE Code(S, <<>>)
BY EmptyIsSeq DEF Code

LEMMA CodeGiven == ASSUME NEW S, Closed(S), NEW code \in S PROVE Code(S, code)
BY Zenon DEF Closed, Code, IsSeq

LEMMA CodeOf == ASSUME NEW S, Closed(S), NEW v, Known(S, v) PROVE Code(S, code_of(v))
<1>1. CASE is_script(v)
  <2>1. v[2] \in S
    BY <1>1 DEF Known
  <2>2. code_of(v) = v[2]
    BY <1>1 DEF code_of
  <2> QED
    BY <2>1, <2>2, CodeGiven, Zenon
<1>2. CASE ~is_script(v)
  <2> DEFINE x == [op |-> "reserved", arg |-> Empty]
  <2>1. code_of(v) = <<x>>
    BY <1>2 DEF code_of
  <2>2. Known(S, x.arg)
    BY PlainValues
  <2> HIDE DEF x
  <2>3. IsSeq(<<x>>) /\ DOMAIN <<x>> = {1} /\ <<x>>[1] = x
    BY OneIsSeq
  <2>4. \A i \in DOMAIN <<x>> : Known(S, <<x>>[i].arg)
    BY <2>2, <2>3
  <2> QED
    BY <2>1, <2>3, <2>4, Zenon DEF Code
<1> QED
  BY <1>1, <1>2

LEMMA CodeKeyHash ==
    ASSUME NEW S, NEW h, h[1] = "ripemd160"
    PROVE  Code(S, satoshi_script_generate_p2pkh_script(h))
<1> DEFINE a == ops("dup")
           b == ops("hash160")
           d == pushes(h)
           e == ops("equalverify")
           f == ops("checksig")
<1>1. Known(S, a.arg) /\ Known(S, b.arg) /\ Known(S, d.arg) /\ Known(S, e.arg) /\ Known(S, f.arg)
  BY PlainValues DEF ops, pushes, Known, is_script
<1>2. satoshi_script_generate_p2pkh_script(h) = <<a, b, d, e, f>>
  BY Zenon DEF satoshi_script_generate_p2pkh_script
<1> HIDE DEF a, b, d, e, f
<1>3. <<a, b, d, e, f>> \in Seq({a, b, d, e, f}) /\ DOMAIN <<a, b, d, e, f>> = 1 .. 5
  OBVIOUS
<1>4. ASSUME NEW i \in 1 .. 5 PROVE Known(S, <<a, b, d, e, f>>[i].arg)
  <2>1. i = 1 \/ i = 2 \/ i = 3 \/ i = 4 \/ i = 5
    OBVIOUS
  <2> QED
    BY <1>1, <2>1
<1>5. IsSeq(<<a, b, d, e, f>>)
  BY <1>3, SeqIs
<1> QED
  BY <1>2, <1>3, <1>4, <1>5 DEF Code

LEMMA FrameIs ==
    ASSUME NEW S, NEW kind \in Kinds, NEW code, Code(S, code), NEW base \in Int, base >= -1,
           NEW saved, Stack(S, saved), kind = "redeem" => saved # <<>>
    PROVE  /\ Frame(S, frame(kind, code, base, saved))
           /\ frame(kind, code, base, saved).kind = kind
<1>1. Len(code) \in Nat
  BY CodeLen
<1> QED
  BY <1>1 DEF Frame, frame

\* The innermost call.
LEMMA InnermostIs ==
    ASSUME NEW S, NEW fs, Frames(S, fs), fs # <<>>
    PROVE  /\ IsSeq(fs) /\ Len(fs) \in Nat /\ Len(fs) >= 1 /\ DOMAIN fs = 1 .. Len(fs)
           /\ Last(fs) = fs[Len(fs)] /\ Frame(S, Last(fs))
           /\ (Len(fs) = 1) = (Last(fs).kind \in Outermost)
           /\ (Last(fs).kind \in Redeeming => Len(fs) = 2)
           /\ (Len(fs) > 1 => fs[1].kind # "pre")
<1>1. IsSeq(fs)
  BY Zenon DEF Frames
<1>2. PICK n \in Nat : n = Len(fs) /\ DOMAIN fs = 1 .. n /\ n >= 1 /\ Last(fs) = fs[n]
  BY <1>1, IsSeqLen, FrontIs
<1>3. n \in DOMAIN fs
  BY <1>2
<1>4. /\ Frame(S, fs[n]) /\ (n = 1) = (fs[n].kind \in Outermost) /\ (fs[n].kind \in Redeeming => n = 2)
      /\ (Len(fs) > 1 => fs[1].kind # "pre")
  BY <1>3, Zenon DEF Frames
<1> QED
  BY <1>1, <1>2, <1>4

LEMMA OneFrame ==
    ASSUME NEW S, NEW f, Frame(S, f), f.kind \in Outermost
    PROVE  Frames(S, <<f>>) /\ Depth(<<f>>) = 0 /\ <<f>> # <<>> /\ Last(<<f>>) = f
<1>1. IsSeq(<<f>>) /\ Len(<<f>>) = 1 /\ <<f>>[1] = f /\ DOMAIN <<f>> = {1} /\ <<f>> # <<>>
  BY OneIsSeq
<1>2. f.kind \notin Redeeming
  BY DEF Outermost, Redeeming
<1>3. Frames(S, <<f>>)
  BY <1>1, <1>2 DEF Frames
<1>4. Depth(<<f>>) = 0
  BY <1>1 DEF Depth, Floor
<1> QED
  BY <1>1, <1>3, <1>4 DEF Last

LEMMA NoFrame == ASSUME NEW S PROVE Frames(S, <<>>) /\ Depth(<<>>) = 0
<1>1. IsSeq(<<>>) /\ Len(<<>>) = 0 /\ DOMAIN <<>> = {}
  BY EmptyIsSeq
<1> QED
  BY <1>1 DEF Frames, Depth

\* The innermost call in a new state.
LEMMA ReplacedFrame ==
    ASSUME NEW S, NEW fs, Frames(S, fs), fs # <<>>, NEW g, Frame(S, g), g.kind = Last(fs).kind
    PROVE  LET gs == [fs EXCEPT ![Len(fs)] = g]
           IN  /\ Frames(S, gs) /\ Depth(gs) = Depth(fs) /\ gs # <<>> /\ Last(gs) = g
               /\ Len(gs) = Len(fs)
<1> DEFINE gs == [fs EXCEPT ![Len(fs)] = g]
<1>1. PICK n \in Nat : /\ n = Len(fs) /\ n >= 1 /\ DOMAIN fs = 1 .. n /\ Last(fs) = fs[n] /\ IsSeq(fs)
                      /\ (n > 1 => fs[1].kind # "pre")
  BY InnermostIs
<1>2. fs = [i \in 1 .. n |-> fs[i]]
  <2>1. fs \in Seq({fs[i] : i \in DOMAIN fs})
    BY <1>1, Zenon DEF IsSeq
  <2> QED
    BY <1>1, <2>1
<1>3. gs = [i \in 1 .. n |-> IF i = n THEN g ELSE fs[i]]
  BY <1>1, <1>2
<1>4. /\ DOMAIN gs = 1 .. n /\ gs = [i \in 1 .. n |-> gs[i]] /\ gs[n] = g
      /\ \A i \in 1 .. n : gs[i] = IF i = n THEN g ELSE fs[i]
  BY <1>1, <1>3
<1> HIDE DEF gs
<1>5. IsSeq(gs) /\ Len(gs) = n
  BY <1>4, SegmentIsSeq, Zenon
<1>6. \A i \in 1 .. n : Frame(S, gs[i]) /\ gs[i].kind = fs[i].kind
  <2>1. \A i \in 1 .. n : Frame(S, fs[i])
    BY <1>1, Zenon DEF Frames
  <2> QED
    BY <1>1, <1>4, <2>1
<1>7. \A i \in 1 .. n : /\ (i = 1) = (fs[i].kind \in Outermost)
                        /\ fs[i].kind \in Redeeming => i = 2
  BY <1>1, Zenon DEF Frames
<1>8. Len(gs) > 1 => gs[1].kind # "pre"
  BY <1>1, <1>5, <1>6
<1>9. Frames(S, gs)
  BY <1>4, <1>5, <1>6, <1>7, <1>8 DEF Frames
<1>10. gs # <<>>
  BY <1>1, <1>5
<1>11. Depth(gs) = Depth(fs)
  <2>1. CASE n > 1
    <3>1. gs[2].kind = fs[2].kind
      BY <1>6, <2>1
    <3> QED
      BY <1>1, <1>5, <1>10, <3>1 DEF Depth, Floor
  <2>2. CASE ~(n > 1)
    BY <1>1, <1>5, <1>10, <2>2 DEF Depth, Floor
  <2> QED
    BY <2>1, <2>2
<1> QED
  BY <1>1, <1>4, <1>5, <1>9, <1>10, <1>11 DEF gs, Last

LEMMA JumpedFrame ==
    ASSUME NEW S, NEW fs, Frames(S, fs), fs # <<>>, NEW pc \in 1 .. Len(Last(fs).code) + 1
    PROVE  LET gs == [fs EXCEPT ![Len(fs)].pc = pc]
           IN  /\ Frames(S, gs) /\ Depth(gs) = Depth(fs) /\ gs # <<>>
               /\ Last(gs) = [Last(fs) EXCEPT !.pc = pc] /\ Len(gs) = Len(fs)
<1> DEFINE f == Last(fs)
           g == [f EXCEPT !.pc = pc]
<1>1. Frame(S, f) /\ f = fs[Len(fs)] /\ Len(fs) \in DOMAIN fs
  BY InnermostIs
<1>2. [fs EXCEPT ![Len(fs)].pc = pc] = [fs EXCEPT ![Len(fs)] = g]
  BY <1>1
<1>3. DOMAIN g = DOMAIN f /\ g.kind = f.kind /\ g.code = f.code /\ g.base = f.base /\ g.saved = f.saved /\ g.pc = pc
  BY <1>1 DEF Frame
<1>4. pc \in 1 .. Len(f.code) + 1
  OBVIOUS
<1> HIDE DEF g, f
<1>5. Frame(S, g)
  BY <1>1, <1>3, <1>4, Zenon DEF Frame
<1>6. /\ Frames(S, [fs EXCEPT ![Len(fs)] = g]) /\ Depth([fs EXCEPT ![Len(fs)] = g]) = Depth(fs)
      /\ [fs EXCEPT ![Len(fs)] = g] # <<>> /\ Last([fs EXCEPT ![Len(fs)] = g]) = g
      /\ Len([fs EXCEPT ![Len(fs)] = g]) = Len(fs)
  <2>1. g.kind = Last(fs).kind
    BY <1>3 DEF f
  <2> QED
    BY <1>5, <2>1, ReplacedFrame
<1> QED
  BY <1>2, <1>6, Zenon DEF g, f

LEMMA ClearedFrame ==
    ASSUME NEW S, NEW fs, Frames(S, fs), fs # <<>>, Last(fs).kind # "redeem"
    PROVE  LET gs == [fs EXCEPT ![Len(fs)].saved = <<>>]
           IN  Frames(S, gs) /\ Depth(gs) = Depth(fs)
<1> DEFINE f == Last(fs)
           g == [f EXCEPT !.saved = <<>>]
<1>1. Frame(S, f) /\ f = fs[Len(fs)] /\ Len(fs) \in DOMAIN fs
  BY InnermostIs
<1>2. [fs EXCEPT ![Len(fs)].saved = <<>>] = [fs EXCEPT ![Len(fs)] = g]
  BY <1>1
<1>3. DOMAIN g = DOMAIN f /\ g.kind = f.kind /\ g.code = f.code /\ g.base = f.base /\ g.saved = <<>> /\ g.pc = f.pc
  BY <1>1 DEF Frame
<1>4. f.kind # "redeem" /\ Stack(S, <<>>)
  BY StackEmpty
<1> HIDE DEF g, f
<1>5. Frame(S, g)
  BY <1>1, <1>3, <1>4, Zenon DEF Frame
<1>6. Frames(S, [fs EXCEPT ![Len(fs)] = g]) /\ Depth([fs EXCEPT ![Len(fs)] = g]) = Depth(fs)
  <2>1. g.kind = Last(fs).kind
    BY <1>3 DEF f
  <2> QED
    BY <1>5, <2>1, ReplacedFrame, Zenon
<1> QED
  BY <1>2, <1>6, Zenon

LEMMA NestedFrame ==
    ASSUME NEW S, NEW fs, Frames(S, fs), fs # <<>>, fs[1].kind # "pre",
           NEW f, Frame(S, f), f.kind \notin Outermost, f.kind \in Redeeming => Len(fs) = 1
    PROVE  /\ Frames(S, Append(fs, f)) /\ Append(fs, f) # <<>>
           /\ Depth(Append(fs, f)) = IF f.kind \in Redeeming THEN 0 ELSE Depth(fs) + 1
<1>1. PICK n \in Nat : n = Len(fs) /\ n >= 1 /\ DOMAIN fs = 1 .. n /\ IsSeq(fs)
  BY InnermostIs
<1>2. /\ IsSeq(Append(fs, f)) /\ Len(Append(fs, f)) = n + 1
      /\ \A i \in 1 .. n : Append(fs, f)[i] = fs[i]
      /\ Append(fs, f)[n + 1] = f
  BY <1>1, AppendIs
<1>3. DOMAIN Append(fs, f) = 1 .. n + 1
  BY <1>2, IsSeqLen
<1> DEFINE gs == Append(fs, f)
<1> HIDE DEF gs
<1>4. \A i \in 1 .. n : /\ Frame(S, fs[i]) /\ (i = 1) = (fs[i].kind \in Outermost)
                        /\ fs[i].kind \in Redeeming => i = 2
  BY <1>1, Zenon DEF Frames
<1>5. ASSUME NEW i \in 1 .. n + 1
      PROVE  /\ Frame(S, gs[i]) /\ (i = 1) = (gs[i].kind \in Outermost)
             /\ gs[i].kind \in Redeeming => i = 2
  <2>1. CASE i \in 1 .. n
    BY <1>2, <1>4, <2>1 DEF gs
  <2>2. CASE i = n + 1
    BY <1>1, <1>2, <2>2 DEF gs
  <2> QED
    BY <2>1, <2>2
<1>6. gs[1].kind # "pre" /\ Len(gs) = n + 1 /\ IsSeq(gs) /\ DOMAIN gs = 1 .. n + 1
  BY <1>1, <1>2, <1>3 DEF gs
<1>7. Frames(S, gs)
  BY <1>5, <1>6 DEF Frames
<1>8. gs # <<>> /\ fs # <<>>
  BY <1>6
<1>9. Depth(gs) = IF f.kind \in Redeeming THEN 0 ELSE Depth(fs) + 1
  <2>1. CASE n = 1
    <3>1. gs[2] = f
      BY <1>2, <2>1 DEF gs
    <3> QED
      BY <1>1, <1>6, <1>8, <2>1, <3>1 DEF Depth, Floor
  <2>2. CASE n > 1
    <3>1. gs[2] = fs[2] /\ f.kind \notin Redeeming
      BY <1>1, <1>2, <2>2 DEF gs
    <3>2. Floor(gs) = Floor(fs) /\ Floor(fs) \in Nat
      BY <1>1, <1>6, <2>2, <3>1 DEF Floor
    <3>3. Depth(gs) = (n + 1) - Floor(fs) /\ Depth(fs) = n - Floor(fs)
      BY <1>1, <1>6, <1>8, <3>2 DEF Depth
    <3> QED
      BY <3>1, <3>2, <3>3
  <2> QED
    BY <1>1, <2>1, <2>2
<1> QED
  BY <1>7, <1>8, <1>9 DEF gs

LEMMA LeftFrame ==
    ASSUME NEW S, NEW fs, Frames(S, fs), fs # <<>>, Last(fs).kind \notin Outermost
    PROVE  /\ Frames(S, Front(fs)) /\ Front(fs) # <<>> /\ Len(Front(fs)) = Len(fs) - 1
           /\ Last(Front(fs)) = fs[Len(fs) - 1] /\ Front(fs)[1] = fs[1]
           /\ Depth(Front(fs)) = IF Last(fs).kind \in Redeeming THEN 0 ELSE Depth(fs) - 1
<1>1. PICK n \in Nat : n = Len(fs) /\ n >= 1 /\ DOMAIN fs = 1 .. n /\ IsSeq(fs) /\ Last(fs) = fs[n]
                      /\ (n = 1) = (Last(fs).kind \in Outermost)
                      /\ (Last(fs).kind \in Redeeming => n = 2)
                      /\ (n > 1 => fs[1].kind # "pre")
  BY InnermostIs
<1>2. n > 1
  BY <1>1
<1>3. PICK m \in Nat : m = n - 1 /\ m >= 1
  BY <1>2
<1>4. IsSeq(Front(fs)) /\ Len(Front(fs)) = m /\ \A i \in 1 .. m : Front(fs)[i] = fs[i]
  BY <1>1, <1>3, FrontIs
<1>5. DOMAIN Front(fs) = 1 .. m
  BY <1>4, IsSeqLen
<1> DEFINE gs == Front(fs)
<1> HIDE DEF gs
<1>6. \A i \in 1 .. n : /\ Frame(S, fs[i]) /\ (i = 1) = (fs[i].kind \in Outermost)
                        /\ fs[i].kind \in Redeeming => i = 2
  BY <1>1, Zenon DEF Frames
<1>7. \A i \in 1 .. m : /\ Frame(S, gs[i]) /\ (i = 1) = (gs[i].kind \in Outermost)
                        /\ gs[i].kind \in Redeeming => i = 2
  BY <1>3, <1>4, <1>6 DEF gs
<1>8. gs[1] = fs[1] /\ gs[m] = fs[m] /\ IsSeq(gs) /\ Len(gs) = m /\ DOMAIN gs = 1 .. m
  BY <1>3, <1>4, <1>5 DEF gs
<1>9. Frames(S, gs)
  BY <1>1, <1>2, <1>7, <1>8 DEF Frames
<1>10. gs # <<>> /\ Last(gs) = fs[m]
  BY <1>3, <1>8 DEF Last
<1>11. Depth(gs) = IF Last(fs).kind \in Redeeming THEN 0 ELSE Depth(fs) - 1
  <2>1. CASE m = 1
    <3>1. n = 2 /\ fs[2] = Last(fs)
      <4>1. n = 2
        BY <1>3, <2>1
      <4>2. Last(fs) = fs[n]
        BY <1>1
      <4> QED
        BY <4>1, <4>2, Zenon
    <3>2. Floor(gs) = 1 /\ Len(gs) = 1
      BY <1>8, <2>1 DEF Floor
    <3>3. Depth(gs) = 0
      BY <1>10, <3>2 DEF Depth
    <3>4. Floor(fs) = IF Last(fs).kind \in Redeeming THEN 2 ELSE 1
      BY <1>1, <3>1 DEF Floor
    <3>5. Depth(fs) = 2 - Floor(fs)
      BY <1>1, <3>1 DEF Depth
    <3> QED
      BY <3>3, <3>4, <3>5
  <2>2. CASE m > 1
    <3>1. gs[2] = fs[2] /\ Last(fs).kind \notin Redeeming
      BY <1>1, <1>3, <1>4, <2>2 DEF gs
    <3> QED
      BY <1>1, <1>2, <1>3, <1>8, <1>10, <2>2, <3>1 DEF Depth, Floor
  <2> QED
    BY <1>3, <2>1, <2>2
<1> QED
  BY <1>1, <1>3, <1>8, <1>9, <1>10, <1>11 DEF gs

-----------------------------------------------------------------------------
(* Signatures and witnesses *)

LEMMA CutGood ==
    ASSUME NEW S, NEW s, Full(S, s), NEW k \in Nat
    PROVE  /\ Full(S, SubSeq(s, 1, Len(s) - k)) /\ Good(S, Fine(SubSeq(s, 1, Len(s) - k)))
           /\ \A rc : Good(S, Outcome(rc, SubSeq(s, 1, Len(s) - k), "none"))
<1>1. Len(s) \in Nat
  BY IsSeqLen DEF Full, Stack
<1>2. Len(s) - k \in Int /\ Len(s) - k <= Len(s)
  BY <1>1
<1>3. Full(S, SubSeq(s, 1, Len(s) - k))
  BY <1>2, FullCut, Zenon
<1> QED
  BY <1>3, GoodOutcome, Zenon

LEMMA ChecksigverifyGood ==
    ASSUME NEW S, NEW s, Full(S, s), NEW d PROVE Good(S, checksigverify(s, d))
<1>1. 2 \in Nat
  OBVIOUS
<1>2. \A rc : Good(S, Outcome(rc, SubSeq(s, 1, Len(s) - 2), "none"))
  BY <1>1, CutGood, Zenon
<1> QED
  BY <1>2, Zenon DEF checksigverify

LEMMA UncheckedGood ==
    ASSUME NEW S, NEW s, Full(S, s) PROVE Good(S, checksigverify_unchecked(s))
<1>1. "public key is no pointer" # OutOfOrder /\ "signature is no pointer" # OutOfOrder
  BY DEF OutOfOrder
<1>2. Good(S, Crash("public key is no pointer")) /\ Good(S, Crash("signature is no pointer"))
  BY <1>1, GoodCrash, Zenon
<1>3. Good(S, Fine(s))
  BY GoodOutcome, Zenon
<1>4. 2 \in Nat
  OBVIOUS
<1>5. Good(S, Fine(SubSeq(s, 1, Len(s) - 2)))
  BY <1>4, CutGood, Zenon
<1>6. CASE Len(s) < 2
  BY <1>3, <1>6 DEF checksigverify_unchecked
<1>7. CASE ~(Len(s) < 2)
  <2>1. s # <<>>
    BY <1>7
  <2>2. Good(S, Fine(Front(s)))
    BY <2>1, FullFront, GoodOutcome, Zenon
  <2> QED
    BY <1>2, <1>3, <1>5, <1>7, <2>2, Zenon DEF checksigverify_unchecked
<1> QED
  BY <1>6, <1>7

LEMMA ChecksigGood ==
    ASSUME NEW S, NEW r, Good(S, r) PROVE Good(S, parse_op_checksig(r))
<1>1. Full(S, r.stack)
  BY Zenon DEF Good, Full
<1>2. Good(S, stack_push(r.stack, satoshi_script_data_new_boolean(r.rc = 0)))
  BY <1>1, PushBoolean, Zenon
<1> QED
  BY <1>2, Zenon DEF parse_op_checksig

LEMMA MultisigOperandsGood ==
    ASSUME NEW S, NEW s, Full(S, s) PROVE Good(S, multisig_operands(s))
<1> DEFINE p == Reverse(s)
           n == p[1].v[2]
<1>1. "count is no number" # OutOfOrder
  BY DEF OutOfOrder
<1>2. Good(S, Crash("count is no number")) /\ Good(S, Refuse(s))
  BY <1>1, GoodCrash, GoodOutcome, Zenon
<1>3. ASSUME n \in 1 .. 16 PROVE Good(S, Fine(SubSeq(s, 1, Len(s) - (n + 2))))
  <2>1. PICK k \in Nat : k = n + 2
    BY <1>3
  <2>2. Good(S, Fine(SubSeq(s, 1, Len(s) - k)))
    BY CutGood, Zenon
  <2> QED
    BY <2>1, <2>2, Zenon
<1>4. multisig_operands(s) =
        IF p = <<>> THEN Refuse(s)
        ELSE IF ~is_number(p[1]) THEN Crash("count is no number")
        ELSE IF n \notin 1 .. 16 \/ Len(p) < n + 2 THEN Refuse(s)
        ELSE IF \E j \in 2 .. n + 1 : ~crypto_pubkey_import(p[j].v) THEN Refuse(s)
        ELSE IF ~is_number(p[n + 2]) THEN Crash("count is no number")
        ELSE IF p[n + 2].v[2] > n THEN Refuse(s)
        ELSE Fine(SubSeq(s, 1, Len(s) - (n + 2)))
  BY Zenon DEF multisig_operands
<1> HIDE DEF p, n
<1> QED
  BY <1>2, <1>3, <1>4, Zenon

LEMMA StackConcat ==
    ASSUME NEW S, NEW s, Stack(S, s), NEW t, Stack(S, t)
    PROVE  Stack(S, s \o t) /\ Len(s \o t) \in Nat
<1> DEFINE R == {s[i] : i \in DOMAIN s} \cup {t[i] : i \in DOMAIN t}
<1>1. /\ s \in Seq({s[i] : i \in DOMAIN s}) /\ t \in Seq({t[i] : i \in DOMAIN t})
      /\ IsSeq(s) /\ IsSeq(t)
      /\ (\A i \in DOMAIN s : Item(S, s[i])) /\ \A i \in DOMAIN t : Item(S, t[i])
  BY Zenon DEF Stack, IsSeq
<1>2. s \in Seq(R) /\ t \in Seq(R)
  BY <1>1
<1> HIDE DEF R
<1>3. PICK m \in Nat, n \in Nat : m = Len(s) /\ n = Len(t) /\ DOMAIN s = 1 .. m /\ DOMAIN t = 1 .. n
  BY <1>1, IsSeqLen
<1>4. /\ s \o t \in Seq(R) /\ Len(s \o t) = m + n
      /\ \A i \in 1 .. m + n : (s \o t)[i] = IF i <= m THEN s[i] ELSE t[i - m]
  BY <1>2, <1>3, ConcatProperties
<1>5. IsSeq(s \o t)
  BY <1>4, SeqIs
<1>6. DOMAIN (s \o t) = 1 .. m + n
  BY <1>4
<1>7. ASSUME NEW i \in 1 .. m + n PROVE Item(S, (s \o t)[i])
  <2>1. CASE i <= m
    <3>1. i \in DOMAIN s /\ (s \o t)[i] = s[i]
      BY <1>3, <1>4, <2>1
    <3> QED
      BY <1>1, <3>1, Zenon
  <2>2. CASE ~(i <= m)
    <3>1. i - m \in DOMAIN t /\ (s \o t)[i] = t[i - m]
      BY <1>3, <1>4, <2>2
    <3> QED
      BY <1>1, <3>1, Zenon
  <2> QED
    BY <2>1, <2>2
<1>8. m + n \in Nat
  OBVIOUS
<1> QED
  BY <1>4, <1>5, <1>6, <1>7, <1>8, Zenon DEF Stack

\* The recursive function of push_witness, for the witness w.
Collects(f, w, n) ==
    f = [j \in 0 .. n |->
            IF j = 0 THEN <<>>
            ELSE IF w[j] = Empty THEN f[j - 1]
            ELSE Append(f[j - 1], satoshi_script_data_new_ptr(w[j]))]

LEMMA CollectExists == ASSUME NEW w, NEW n \in Nat PROVE \E f : Collects(f, w, n)
<1> DEFINE Step(g, j) == IF w[j] = Empty THEN g[j - 1] ELSE Append(g[j - 1], satoshi_script_data_new_ptr(w[j]))
           T == {m \in Nat : \E f : Collects(f, w, m)}
<1>1. 0 \in T
  <2> DEFINE f == [j \in 0 .. 0 |-> <<>>]
  <2>1. Collects(f, w, 0)
    BY DEF Collects
  <2> QED
    BY <2>1
<1>2. ASSUME NEW m \in T PROVE m + 1 \in T
  <2>1. PICK f : Collects(f, w, m)
    BY <1>2
  <2> DEFINE g == [j \in 0 .. m + 1 |-> IF j = m + 1 THEN Step(f, j) ELSE f[j]]
  <2>2. m \in Nat
    BY <1>2
  <2>3. ASSUME NEW j \in 0 .. m + 1
        PROVE  g[j] = IF j = 0 THEN <<>> ELSE Step(g, j)
    <3>1. CASE j = m + 1
      <4>1. j # 0 /\ j - 1 \in 0 .. m + 1 /\ g[j - 1] = f[j - 1]
        BY <2>2, <3>1
      <4>2. g[j] = Step(f, j)
        BY <3>1
      <4>3. Step(f, j) = Step(g, j)
        BY <4>1
      <4> QED
        BY <4>1, <4>2, <4>3
    <3>2. CASE j # m + 1
      <4>1. j \in 0 .. m /\ g[j] = f[j]
        BY <2>2, <3>2
      <4>2. f[j] = IF j = 0 THEN <<>> ELSE Step(f, j)
        BY <2>1, <4>1 DEF Collects
      <4>3. j # 0 => g[j - 1] = f[j - 1]
        BY <2>2, <4>1
      <4>4. j # 0 => Step(f, j) = Step(g, j)
        BY <4>3
      <4> QED
        BY <4>1, <4>2, <4>4
    <3> QED
      BY <3>1, <3>2
  <2>4. g = [j \in 0 .. m + 1 |-> g[j]]
    OBVIOUS
  <2> HIDE DEF g
  <2>5. Collects(g, w, m + 1)
    BY <2>3, <2>4 DEF Collects
  <2> QED
    BY <2>2, <2>5
<1> HIDE DEF T
<1>3. T = Nat
  BY <1>1, <1>2, SetInduction DEF T
<1> QED
  BY <1>3 DEF T

LEMMA CollectGood ==
    ASSUME NEW S, NEW w, NEW n \in Nat, \A j \in 1 .. n : Known(S, w[j]), NEW f, Collects(f, w, n)
    PROVE  Stack(S, f[n])
<1> DEFINE T == {k \in Nat : k <= n => Stack(S, f[k])}
<1>1. 0 \in T
  <2>1. f[0] = <<>>
    BY DEF Collects
  <2> QED
    BY <2>1, StackEmpty
<1>2. ASSUME NEW k \in T PROVE k + 1 \in T
  <2>1. k \in Nat /\ (k <= n => Stack(S, f[k]))
    BY <1>2
  <2> HIDE DEF T
  <2>2. SUFFICES ASSUME k + 1 <= n PROVE Stack(S, f[k + 1])
    BY <2>1 DEF T
  <2>3. PICK j \in 1 .. n : j = k + 1 /\ j # 0 /\ j \in 0 .. n /\ j - 1 = k
    BY <2>1, <2>2
  <2>4. f[j] = IF w[j] = Empty THEN f[k] ELSE Append(f[k], satoshi_script_data_new_ptr(w[j]))
    BY <2>3 DEF Collects
  <2>5. Stack(S, f[k]) /\ Item(S, satoshi_script_data_new_ptr(w[j]))
    <3>1. Stack(S, f[k])
      BY <2>1, <2>2
    <3>2. Known(S, w[j])
      BY <2>3
    <3> QED
      BY <3>1, <3>2, DataItem, Zenon DEF satoshi_script_data_new_ptr
  <2>6. Stack(S, Append(f[k], satoshi_script_data_new_ptr(w[j])))
    BY <2>5, StackAppend, Zenon
  <2> QED
    BY <2>3, <2>4, <2>5, <2>6, Zenon
<1> HIDE DEF T
<1>3. T = Nat
  BY <1>1, <1>2, SetInduction DEF T
<1> QED
  BY <1>3 DEF T

LEMMA PushWitnessGood ==
    ASSUME NEW S, NEW s, Full(S, s), NEW i, Len(Witness(i)) \in Nat,
           \A j \in 1 .. Len(Witness(i)) : Known(S, Witness(i)[j])
    PROVE  Good(S, push_witness(s, i))
<1> DEFINE w == Witness(i)
           n == Len(w)
           f == CHOOSE f : Collects(f, w, n)
<1>1. Collects(f, w, n)
  BY CollectExists, Zenon
<1>2. Stack(S, f[n])
  <2> HIDE DEF f
  <2> QED
    BY <1>1, CollectGood
<1>3. push_witness(s, i) = IF Len(s \o f[n]) > StackAlloc THEN Crash("stack items wiped") ELSE Fine(s \o f[n])
  BY Zenon DEF push_witness, Collects
<1> HIDE DEF f, n
<1>4. Stack(S, s \o f[n]) /\ Len(s \o f[n]) \in Nat
  BY <1>2, StackConcat, Zenon DEF Full
<1>5. "stack items wiped" # OutOfOrder
  BY DEF OutOfOrder
<1>6. CASE Len(s \o f[n]) > StackAlloc
  BY <1>3, <1>5, <1>6, GoodCrash, Zenon
<1>7. CASE ~(Len(s \o f[n]) > StackAlloc)
  <2>1. Full(S, s \o f[n])
    BY <1>4, <1>7, BoundsAssumption DEF Full
  <2> QED
    BY <1>3, <1>7, <2>1, GoodOutcome, Zenon
<1> QED
  BY <1>6, <1>7

-----------------------------------------------------------------------------
(* A digest and the cache it leaves *)

LEMMA NothingHashed ==
    ASSUME NEW t, NEW s, NEW i \in Nat
    PROVE  header(t) \o hash_txins(t, 0, -1, i, s) = header(t)
<1>1. hash_txins(t, 0, 0 - 1, i, s) = Hashed(t, i, s, 0, 0)
  BY HashTxins
<1>2. Inputs(t, i, s, 0, 0) = <<>>
  BY DEF Inputs
<1>3. Hashed(t, i, s, 0, 0) = <<>>
  BY <1>2, FlattenEmpty DEF Hashed
<1>4. 0 - 1 = -1
  OBVIOUS
<1>5. hash_txins(t, 0, -1, i, s) = <<>>
  BY <1>1, <1>3, <1>4, Zenon
<1> DEFINE a == <<"version", t.version>>
           b == <<"txin_count", Len(t.txins)>>
<1> HIDE DEF a, b
<1>6. <<a, b>> \in Seq({a, b})
  OBVIOUS
<1>7. <<a, b>> \o <<>> = <<a, b>>
  BY <1>6, ConcatEmptySeq
<1> QED
  BY <1>5, <1>7, Zenon DEF header, a, b

LEMMA FreshCacheSound ==
    ASSUME NEW r, NEW t, r.sha = header(t), Cached(r) = 0 PROVE CacheSound(r, t)
<1>1. header(t) \o hash_txins(t, 0, -1, 0, varstr_empty) = header(t)
  BY NothingHashed
<1>2. 0 - 1 = -1
  OBVIOUS
<1> QED
  BY <1>1, <1>2, Zenon DEF CacheSound

LEMMA PrehashIs ==
    ASSUME NEW r, NEW t, NEW i \in Nat, CacheOf(r, t, i)
    PROVE  CacheOf(prehash_txins(r, t, i), t, i)
<1> DEFINE first == IF r.last_hashed_txin_index < 0 THEN 0 ELSE r.last_hashed_txin_index
           p == prehash_txins(r, t, i)
<1>1. DOMAIN r = {"sha", "last_hashed_txin_index", "segwit"} /\ r.last_hashed_txin_index \in -1 .. i
  BY DEF CacheOf
<1>2. /\ DOMAIN p = {"sha", "last_hashed_txin_index", "segwit"}
      /\ p.last_hashed_txin_index = i - 1 /\ p.segwit = r.segwit
      /\ p.sha = r.sha \o hash_txins(t, first, i - 1, i, varstr_empty)
  BY <1>1 DEF prehash_txins
<1> HIDE DEF p
<1>3. i - 1 \in -1 .. i
  OBVIOUS
<1>4. ASSUME i = 0 PROVE p.sha = header(t)
  <2>1. first = 0 /\ i - 1 = -1 /\ r.sha = header(t)
    BY <1>1, <1>4 DEF CacheOf
  <2>2. header(t) \o hash_txins(t, 0, -1, 0, varstr_empty) = header(t)
    BY NothingHashed
  <2> HIDE DEF first
  <2> QED
    BY <1>2, <1>4, <2>1, <2>2, Zenon
<1>5. p.segwit = IF t.has_flag THEN satoshi_rawtx_attach_segwit_tx(t) ELSE no_segwit
  BY <1>2, Zenon DEF CacheOf
<1>6. p.last_hashed_txin_index \in -1 .. i
  BY <1>2, <1>3, Zenon
<1> QED
  BY <1>2, <1>4, <1>5, <1>6, Zenon DEF CacheOf, p

LEMMA FirstCacheSound == ASSUME NEW r, NEW t, CacheOf(r, t, 0) PROVE CacheSound(r, t)
<1>1. r.sha = header(t) /\ r.last_hashed_txin_index \in -1 .. 0
  BY DEF CacheOf
<1>2. Cached(r) = 0
  BY <1>1 DEF Cached
<1> QED
  BY <1>1, <1>2, FreshCacheSound

LEMMA DigestOf ==
    ASSUME NEW rc, NEW r, NEW x, NEW d, d = digest_of(rc, r, x)
    PROVE  d.rc = rc /\ d.rawtx = r /\ d.digest = x
BY DEF digest_of

Segwit(u) == u.p2sh_segwit \/ u.type = "segwit"

\* The digest of input i with the cache r, where it must be right.
DigestRight(d, r, t, i, type, u, s) ==
    d.rc = 0 =>
        /\ Segwit(u) /\ t.has_flag => d.digest = Bip143(t, i, type, s, u.value)
        /\ ~Segwit(u) /\ type \in SighashTypes /\ (type.anyone_can_pay \/ CacheSound(r, t)) =>
                d.digest = LegacyDigest(t, i, type, s)

LEMMA DigestIs ==
    ASSUME NEW r, NEW t, NEW N \in Nat, DOMAIN t.txins = 1 .. N, Len(t.txins) = N, NEW i \in Nat, i < N,
           CacheOf(r, t, i), NEW type, NEW u, NEW s
    PROVE  /\ CacheOf(satoshi_rawtx_get_digest(r, t, i, type, u, s).rawtx, t, i)
           /\ DigestRight(satoshi_rawtx_get_digest(r, t, i, type, u, s), r, t, i, type, u, s)
<1> DEFINE d == satoshi_rawtx_get_digest(r, t, i, type, u, s)
<1>1. CASE Segwit(u)
  <2>1. d = segwit_utxo_get_digest(r, t, i, type, s, u.value)
    BY <1>1, Zenon DEF satoshi_rawtx_get_digest, Segwit
  <2>2. d.rawtx = r
    <3>1. PICK x : d = digest_of(0, r, x)
      BY <2>1, Zenon DEF segwit_utxo_get_digest
    <3> HIDE DEF d
    <3> QED
      BY <3>1, DigestOf
  <2>3. ASSUME t.has_flag PROVE d.digest = Bip143(t, i, type, s, u.value)
    <3>1. r.segwit = satoshi_rawtx_attach_segwit_tx(t)
      BY <2>3, Zenon DEF CacheOf
    <3>2. d = digest_of(0, r, Bip143(t, i, type, s, u.value))
      BY <2>1, <3>1, WitnessDigest, Zenon
    <3> HIDE DEF d
    <3> QED
      BY <3>2, DigestOf
  <2> HIDE DEF d
  <2> QED
    BY <1>1, <2>2, <2>3, Zenon DEF DigestRight, d
<1>2. CASE ~Segwit(u) /\ u.type = "legacy"
  <2>1. d = satoshi_utxo_get_digest(r, t, i, type, s)
    BY <1>2, Zenon DEF satoshi_rawtx_get_digest, Segwit
  <2> DEFINE w == IF type.anyone_can_pay THEN r ELSE prehash_txins(r, t, i)
             x == IF type.anyone_can_pay
                  THEN << <<"version", t.version>> >> \o hash_txin(txin_at(t, i), s)
                  ELSE w.sha \o hash_txins(t, i, Len(t.txins) - 1, i, s)
             y == hash256(x \o legacy_txouts(t, i, type) \o << <<"lock_time", t.lock_time>>, <<"type", type>> >>)
  <2>2. d = IF type.base = "single" /\ i >= Len(t.txouts) THEN digest_of(-1, w, uint256_zero)
            ELSE digest_of(0, w, y)
    BY <2>1, Zenon DEF satoshi_utxo_get_digest
  <2>3. d.rawtx = w
    <3> HIDE DEF w, y, d
    <3>1. d = digest_of(-1, w, uint256_zero) \/ d = digest_of(0, w, y)
      BY <2>2, Zenon
    <3> QED
      BY <3>1, DigestOf
  <2>4. CacheOf(w, t, i)
    BY PrehashIs, Zenon
  <2>5. ASSUME d.rc = 0, type \in SighashTypes, type.anyone_can_pay \/ CacheSound(r, t)
        PROVE  d.digest = LegacyDigest(t, i, type, s)
    <3>1. /\ DOMAIN r = {"sha", "last_hashed_txin_index", "segwit"}
          /\ r.last_hashed_txin_index \in Int /\ r.last_hashed_txin_index <= i
      BY DEF CacheOf
    <3> HIDE DEF d
    <3>2. satoshi_utxo_get_digest(r, t, i, type, s).rc = 0
      BY <2>1, <2>5, Zenon
    <3>3. satoshi_utxo_get_digest(r, t, i, type, s).digest = LegacyDigest(t, i, type, s)
      BY <2>5, <3>1, <3>2, LegacyDigestIs
    <3> QED
      BY <2>1, <3>3, Zenon
  <2> HIDE DEF d, w
  <2> QED
    BY <1>2, <2>3, <2>4, <2>5, Zenon DEF DigestRight, d
<1>3. CASE ~Segwit(u) /\ u.type # "legacy"
  <2>1. d = digest_of(-1, r, uint256_zero)
    BY <1>3, Zenon DEF satoshi_rawtx_get_digest, Segwit
  <2> HIDE DEF d
  <2>2. d.rawtx = r /\ d.rc = -1
    BY <2>1, DigestOf
  <2>3. d.rc # 0
    BY <2>2
  <2> QED
    BY <2>2, <2>3, Zenon DEF DigestRight, d
<1> QED
  BY <1>1, <1>2, <1>3, Zenon

-----------------------------------------------------------------------------
(* Steps *)

LEMMA CaseIs ==
    ASSUME NEW c \in Cases
    PROVE  /\ Closed(c.scripts)
           /\ Len(c.tx.txins) \in Nat \ {0} /\ DOMAIN c.tx.txins = 1 .. Len(c.tx.txins)
           /\ \A i \in 1 .. Len(c.tx.txins) :
                 /\ c.tx.txins[i].scripts \in c.scripts
                 /\ Len(c.tx.txins[i].witness) \in Nat
                 /\ \A j \in 1 .. Len(c.tx.txins[i].witness) : Known(c.scripts, c.tx.txins[i].witness[j])
           /\ c.utxoes \in Seq(Utxoes(c.scripts)) /\ Len(c.utxoes) = Len(c.tx.txins)
<1>1. /\ Closed(c.scripts) /\ c.tx.txins # <<>> /\ IsSeq(c.tx.txins)
      /\ c.utxoes \in Seq(Utxoes(c.scripts)) /\ Len(c.utxoes) = Len(c.tx.txins)
  BY CasesAssumption, Zenon DEF IsSeq
<1>2. Len(c.tx.txins) \in Nat \ {0} /\ DOMAIN c.tx.txins = 1 .. Len(c.tx.txins)
  BY <1>1, IsSeqLen, FrontIs
<1>3. ASSUME NEW i \in 1 .. Len(c.tx.txins)
      PROVE  /\ c.tx.txins[i].scripts \in c.scripts
             /\ Len(c.tx.txins[i].witness) \in Nat
             /\ \A j \in 1 .. Len(c.tx.txins[i].witness) : Known(c.scripts, c.tx.txins[i].witness[j])
  <2>1. i \in DOMAIN c.tx.txins
    BY <1>2
  <2> DEFINE w == c.tx.txins[i].witness
  <2>2. /\ c.tx.txins[i].scripts \in c.scripts /\ IsSeq(w)
        /\ \A j \in DOMAIN w : Known(c.scripts, w[j])
    BY <2>1, CasesAssumption, Zenon DEF IsSeq
  <2> HIDE DEF w
  <2>3. Len(w) \in Nat /\ DOMAIN w = 1 .. Len(w)
    BY <2>2, IsSeqLen
  <2> QED
    BY <2>2, <2>3 DEF w
<1> QED
  BY <1>1, <1>2, <1>3, Zenon

\* How a call goes on: the state is broken, given up, or that of the frames fs.
LEMMA ContinueIs ==
    ASSUME NEW res, NEW fs, Continue(res, fs)
    PROVE  /\ main_stack' = res.stack
           /\ \/ res.fault # "none" /\ fault' = res.fault /\ frames' = frames /\ phase' = phase
              \/ /\ res.fault = "none" /\ res.rc # 0 /\ frames' = <<>> /\ phase' = "rejected"
                 /\ fault' = fault \/ fault' = "assert: p2wpkh script"
              \/ /\ res.fault = "none" /\ res.rc = 0 /\ frames' = fs /\ phase' = phase /\ fault' = fault
BY Zenon DEF Continue, Fail, Broken

LEMMA Moved ==
    ASSUME NEW S, Frames(S, frames), ControlInv, frames # <<>>, fault = "none",
           NEW res, NEW fs, Good(S, res), Continue(res, fs),
           tx' = tx, txin_index' = txin_index, results' = results, if_depth' \in 0 .. MaxIfDepth + 1,
           res.fault = "none" /\ res.rc = 0 =>
                Frames(S, fs) /\ if_depth' <= MaxIfDepth /\ if_depth' = Depth(fs)
    PROVE  /\ StackInv(S)' /\ Frames(S, frames') /\ ControlInv' /\ DepthInv'
           /\ phase' = phase \/ phase' = "rejected"
           /\ phase \in Parsing
<1>1. main_stack' = res.stack /\ Stack(S, res.stack) /\ Len(res.stack) <= StackAlloc /\ res.fault # OutOfOrder
  BY ContinueIs, Zenon DEF Good
<1>2. StackInv(S)'
  BY <1>1 DEF StackInv
<1>3. phase \in Parsing
  BY DEF ControlInv
<1>4. CASE res.fault # "none" /\ fault' = res.fault /\ frames' = frames /\ phase' = phase
  <2>1. ControlInv'
    BY <1>1, <1>4 DEF ControlInv
  <2>2. DepthInv'
    BY <1>4 DEF DepthInv, Alive
  <2> QED
    BY <1>2, <1>3, <1>4, <2>1, <2>2
<1>5. CASE /\ res.fault = "none" /\ res.rc # 0 /\ frames' = <<>> /\ phase' = "rejected"
           /\ fault' = fault \/ fault' = "assert: p2wpkh script"
  <2>1. ControlInv'
    BY <1>3, <1>5 DEF ControlInv, Parsing, OutOfOrder
  <2>2. DepthInv'
    BY <1>5 DEF DepthInv, Alive
  <2>3. Frames(S, frames')
    BY <1>5, NoFrame, Zenon
  <2> QED
    BY <1>2, <1>3, <1>5, <2>1, <2>2, <2>3
<1>6. CASE res.fault = "none" /\ res.rc = 0 /\ frames' = fs /\ phase' = phase /\ fault' = fault
  <2>1. ControlInv'
    BY <1>3, <1>6 DEF ControlInv
  <2>2. DepthInv'
    BY <1>6 DEF DepthInv, Alive
  <2> QED
    BY <1>2, <1>3, <1>6, <2>1, <2>2
<1> QED
  BY <1>4, <1>5, <1>6, ContinueIs, Zenon

LEMMA NoDigests ==
    ASSUME digests' = <<>> PROVE DigestInv' /\ WitnessDigestsRight' /\ LegacyDigestsRight'
<1>1. DOMAIN digests' = {}
  OBVIOUS
<1> QED
  BY <1>1 DEF DigestInv, WitnessDigestsRight, LegacyDigestsRight

\* An operation that computes no digest.
LEMMA QuietStep ==
    ASSUME NEW c, IInv(c), frames # <<>>, fault = "none",
           NEW res, NEW fs, Good(c.scripts, res), Continue(res, fs),
           tx' = tx, txin_index' = txin_index, results' = results, rawtx' = rawtx, digests' = <<>>,
           if_depth' \in 0 .. MaxIfDepth + 1,
           res.fault = "none" /\ res.rc = 0 =>
                Frames(c.scripts, fs) /\ if_depth' <= MaxIfDepth /\ if_depth' = Depth(fs),
           MultisigInv', UtxoInv(c)', TxinInv(c.scripts)'
    PROVE  IInv(c)'
<1>1. Frames(c.scripts, frames) /\ ControlInv /\ CacheInv
  BY Zenon DEF IInv
<1>2. /\ StackInv(c.scripts)' /\ Frames(c.scripts, frames') /\ ControlInv' /\ DepthInv'
      /\ phase' = phase \/ phase' = "rejected"
      /\ phase \in Parsing
  BY <1>1, Moved
<1>3. CacheInv'
  BY <1>1, <1>2 DEF CacheInv, Parsing
<1> QED
  BY <1>2, <1>3, NoDigests, Zenon DEF IInv

LEMMA KeptTxins == ASSUME NEW S, TxinInv(S), txins' = txins, tx' = tx PROVE TxinInv(S)'
BY DEF TxinInv

LEMMA KeptUtxoes == ASSUME NEW c, UtxoInv(c), utxoes' = utxoes, tx' = tx PROVE UtxoInv(c)'
BY DEF UtxoInv

\* What an active call can rely on.
LEMMA ActiveIs ==
    ASSUME NEW c \in Cases, IInv(c), frames # <<>>, fault = "none"
    PROVE  /\ phase \in Parsing /\ Closed(c.scripts) /\ Full(c.scripts, main_stack)
           /\ if_depth \in 0 .. MaxIfDepth + 1 /\ if_depth <= MaxIfDepth /\ if_depth = Depth(frames)
           /\ tx = c.tx /\ Len(tx.txins) \in Nat /\ txin_index \in Nat /\ txin_index < Len(tx.txins)
           /\ txin_index + 1 \in 1 .. Len(tx.txins)
           /\ DOMAIN tx.txins = 1 .. Len(tx.txins) /\ DOMAIN txins = 1 .. Len(tx.txins)
           /\ DOMAIN utxoes = 1 .. Len(tx.txins)
           /\ CacheOf(rawtx, tx, txin_index)
           /\ DOMAIN cur_txin = {"redeem_scripts", "redeem_scripts_start_pos", "is_p2sh"}
           /\ Code(c.scripts, cur_txin.redeem_scripts)
           /\ cur_txin.redeem_scripts_start_pos \in 0 .. Len(cur_txin.redeem_scripts)
           /\ Code(c.scripts, cur_utxo.scripts)
<1>1. /\ UtxoInv(c) /\ TxinInv(c.scripts) /\ StackInv(c.scripts) /\ Frames(c.scripts, frames)
      /\ ControlInv /\ DepthInv /\ CacheInv
  BY Zenon DEF IInv
<1>2. phase \in Parsing /\ phase # "rejected" /\ phase \notin {"attach", "done"}
  BY <1>1 DEF ControlInv, Parsing
<1>3. /\ Closed(c.scripts) /\ Len(c.tx.txins) \in Nat /\ DOMAIN c.tx.txins = 1 .. Len(c.tx.txins)
  BY CaseIs
<1>4. tx = c.tx /\ DOMAIN utxoes = DOMAIN tx.txins
  BY <1>1 DEF UtxoInv
<1>5. txin_index \in 0 .. Len(tx.txins) /\ txin_index < Len(tx.txins)
  BY <1>1, <1>2 DEF ControlInv
<1>6. Len(tx.txins) \in Nat /\ DOMAIN tx.txins = 1 .. Len(tx.txins)
  BY <1>3, <1>4
<1>7. txin_index \in Nat /\ txin_index + 1 \in 1 .. Len(tx.txins)
  BY <1>5, <1>6
<1>8. DOMAIN txins = 1 .. Len(tx.txins)
  BY <1>1, <1>6 DEF TxinInv
<1>9. /\ DOMAIN cur_txin = {"redeem_scripts", "redeem_scripts_start_pos", "is_p2sh"}
      /\ Code(c.scripts, cur_txin.redeem_scripts)
      /\ cur_txin.redeem_scripts_start_pos \in 0 .. Len(cur_txin.redeem_scripts)
  BY <1>1, <1>7, <1>8, Zenon DEF TxinInv, cur_txin
<1>10. Code(c.scripts, cur_utxo.scripts)
  <2>1. cur_utxo.scripts \in c.scripts
    BY <1>1, <1>4, <1>6, <1>7 DEF UtxoInv, cur_utxo
  <2> QED
    BY <1>3, <2>1, CodeGiven
<1>11. Full(c.scripts, main_stack)
  BY <1>1, Zenon DEF StackInv, Full
<1>12. if_depth \in 0 .. MaxIfDepth + 1 /\ if_depth <= MaxIfDepth /\ if_depth = Depth(frames)
  BY <1>1, <1>2 DEF DepthInv, Alive
<1>13. CacheOf(rawtx, tx, txin_index)
  BY <1>1, <1>2 DEF CacheInv
<1> QED
  BY <1>2, <1>3, <1>4, <1>5, <1>6, <1>7, <1>8, <1>9, <1>10, <1>11, <1>12, <1>13, Zenon

\* An operation at a token moves its call on.
LEMMA JumpIs ==
    ASSUME NEW S, Frames(S, frames), frames # <<>>, NEW pc \in 1 .. Len(Cur.code) + 1
    PROVE  /\ Frames(S, Jump(pc)) /\ Depth(Jump(pc)) = Depth(frames) /\ Jump(pc) # <<>>
           /\ Last(Jump(pc)).kind = Cur.kind /\ Len(Jump(pc)) = Len(frames)
<1>1. Frame(S, Cur)
  BY InnermostIs DEF Cur
<1>2. [Cur EXCEPT !.pc = pc].kind = Cur.kind
  BY <1>1 DEF Frame
<1>3. pc \in 1 .. Len(Last(frames).code) + 1
  BY DEF Cur
<1>4. /\ Frames(S, Jump(pc)) /\ Depth(Jump(pc)) = Depth(frames) /\ Jump(pc) # <<>>
      /\ Last(Jump(pc)) = [Cur EXCEPT !.pc = pc] /\ Len(Jump(pc)) = Len(frames)
  BY <1>3, JumpedFrame DEF Jump, Cur
<1> QED
  BY <1>2, <1>4

LEMMA TokenIs ==
    ASSUME NEW S, Frames(S, frames), frames # <<>>, Cur.pc <= Len(Cur.code)
    PROVE  /\ Known(S, Token.arg) /\ Code(S, Cur.code) /\ Cur.pc \in 1 .. Len(Cur.code) /\ Len(Cur.code) \in Nat
           /\ Cur.pc + 1 \in 1 .. Len(Cur.code) + 1
           /\ Cur.base \in Int /\ Cur.base >= -1
<1>1. /\ Code(S, Cur.code) /\ Cur.pc \in 1 .. Len(Cur.code) + 1
      /\ Cur.base \in Int /\ Cur.base >= -1
  BY InnermostIs DEF Cur, Frame
<1>2. Len(Cur.code) \in Nat
  BY <1>1, CodeLen
<1>3. Cur.pc \in 1 .. Len(Cur.code) /\ Cur.pc + 1 \in 1 .. Len(Cur.code) + 1
  BY <1>1, <1>2
<1> QED
  BY <1>1, <1>2, <1>3, CodeToken DEF Token

LEMMA DigestFaultIs ==
    ASSUME NEW t, NEW i \in Int, CacheOf(rawtx, t, i), txin_index = i PROVE digest_fault # OutOfOrder
<1>1. rawtx.last_hashed_txin_index \in Int /\ rawtx.last_hashed_txin_index <= txin_index /\ txin_index \in Int
  BY DEF CacheOf
<1>2. ~(rawtx.last_hashed_txin_index > txin_index)
  BY <1>1
<1> QED
  BY <1>2 DEF digest_fault, OutOfOrder

\* An operation that computes one.
LEMMA DigestStep ==
    ASSUME NEW c \in Cases, IInv(c), frames # <<>>, fault = "none",
           NEW res, NEW fs, Good(c.scripts, res), Continue(res, fs),
           tx' = tx, txin_index' = txin_index, results' = results, utxoes' = utxoes, txins' = txins,
           if_depth' = if_depth, NEW type,
           rawtx' = get_digest(type).rawtx, digests' = <<digest_entry(type, get_digest(type))>>,
           res.fault = "none" /\ res.rc = 0 =>
                Frames(c.scripts, fs) /\ Depth(fs) = Depth(frames) /\ fs # <<>> /\ Last(fs).kind # "pre",
           MultisigInv'
    PROVE  IInv(c)'
<1>1. UtxoInv(c) /\ TxinInv(c.scripts) /\ Frames(c.scripts, frames) /\ ControlInv /\ CacheInv
  BY Zenon DEF IInv
<1>2. /\ if_depth \in 0 .. MaxIfDepth + 1 /\ if_depth <= MaxIfDepth /\ if_depth = Depth(frames)
      /\ Len(tx.txins) \in Nat /\ txin_index \in Nat /\ txin_index < Len(tx.txins)
      /\ DOMAIN tx.txins = 1 .. Len(tx.txins)
      /\ CacheOf(rawtx, tx, txin_index)
  BY ActiveIs
<1>3. /\ StackInv(c.scripts)' /\ Frames(c.scripts, frames') /\ ControlInv' /\ DepthInv'
      /\ phase' = phase \/ phase' = "rejected"
      /\ phase \in Parsing
  BY <1>1, <1>2, Moved
<1> DEFINE script == satoshi_txin_get_redeem_scripts(cur_txin)
           d == get_digest(type)
           e == digest_entry(type, d)
<1>4. CacheOf(d.rawtx, tx, txin_index) /\ DigestRight(d, rawtx, tx, txin_index, type, cur_utxo, script)
  BY <1>2, DigestIs, Zenon DEF get_digest
<1>5. CacheInv'
  BY <1>3, <1>4 DEF CacheInv, Parsing
<1>6. DigestInv'
  <2>1. CASE res.fault # "none" /\ fault' = res.fault /\ frames' = frames /\ phase' = phase
    BY <2>1 DEF DigestInv, Alive
  <2>2. CASE phase' = "rejected"
    BY <2>2 DEF DigestInv, Alive
  <2>3. CASE res.fault = "none" /\ res.rc = 0 /\ frames' = fs /\ phase' = phase /\ fault' = fault
    BY <2>3 DEF DigestInv, Alive, Cur
  <2> QED
    BY <2>1, <2>2, <2>3, ContinueIs, Zenon
<1>7. DOMAIN digests' = {1} /\ digests'[1] = e
  <2>1. digests' = <<e>>
    OBVIOUS
  <2> HIDE DEF e
  <2> QED
    BY <2>1
<1>8. cur_utxo' = cur_utxo
  BY DEF cur_utxo
<1>9. e.type = type /\ e.script = script /\ e.rc = d.rc /\ e.digest = d.digest /\ e.segwit = Segwit(cur_utxo)
  <2> HIDE DEF d
  <2> QED
    BY DEF digest_entry, Segwit
<1> HIDE DEF e, d, script
<1>10. WitnessDigestsRight'
  <2>1. ASSUME e.rc = 0, e.segwit, tx.has_flag
        PROVE  e.digest = Bip143(tx, txin_index, e.type, e.script, cur_utxo.value)
    BY <1>4, <1>9, <2>1, Zenon DEF DigestRight
  <2> QED
    BY <1>7, <1>8, <2>1 DEF WitnessDigestsRight
<1>11. LegacyDigestsRight'
  <2>1. ASSUME e.rc = 0, ~e.segwit, e.type \in SighashTypes, e.type.anyone_can_pay \/ txin_index = 0
        PROVE  e.digest = LegacyDigest(tx, txin_index, e.type, e.script)
    <3>1. txin_index = 0 => CacheSound(rawtx, tx)
      BY <1>2, FirstCacheSound, Zenon
    <3> QED
      BY <1>4, <1>9, <2>1, <3>1, Zenon DEF DigestRight
  <2> QED
    BY <1>7, <1>8, <2>1 DEF LegacyDigestsRight
<1>12. UtxoInv(c)' /\ TxinInv(c.scripts)'
  BY <1>1, KeptTxins, KeptUtxoes
<1> QED
  BY <1>3, <1>5, <1>6, <1>10, <1>11, <1>12, Zenon DEF IInv

LEMMA OpStackStep == ASSUME NEW c \in Cases, IInv(c), OpStack PROVE IInv(c)'
<1>1. /\ frames # <<>> /\ fault = "none" /\ multisig = <<>> /\ Cur.pc <= Len(Cur.code) /\ Token.op \in StackOps
  BY DEF OpStack, AtToken, Running
<1> DEFINE foreign == Cur.kind = "txin" /\ Token.op \notin PushOps \cup {"0"}
           res == IF foreign THEN Refuse(main_stack) ELSE exec(main_stack, Token)
           fs == Jump(Cur.pc + 1)
<1>2. /\ Continue(res, fs) /\ digests' = <<>>
      /\ tx' = tx /\ multisig' = multisig /\ utxoes' = utxoes /\ txins' = txins /\ txin_index' = txin_index
      /\ if_depth' = if_depth /\ rawtx' = rawtx /\ results' = results
  BY DEF OpStack, given
<1>3. /\ Full(c.scripts, main_stack) /\ if_depth \in 0 .. MaxIfDepth + 1 /\ if_depth <= MaxIfDepth
      /\ if_depth = Depth(frames)
  BY <1>1, ActiveIs
<1>4. Frames(c.scripts, frames) /\ UtxoInv(c) /\ TxinInv(c.scripts)
  BY Zenon DEF IInv
<1>5. Known(c.scripts, Token.arg) /\ Cur.pc + 1 \in 1 .. Len(Cur.code) + 1
  BY <1>1, <1>4, TokenIs
<1>6. Good(c.scripts, res)
  BY <1>1, <1>3, <1>5, ExecGood, GoodOutcome, Zenon
<1>7. Frames(c.scripts, fs) /\ Depth(fs) = Depth(frames)
  BY <1>1, <1>4, <1>5, JumpIs
<1>8. MultisigInv'
  BY <1>1, <1>2 DEF MultisigInv
<1>9. UtxoInv(c)' /\ TxinInv(c.scripts)'
  BY <1>2, <1>4, KeptTxins, KeptUtxoes
<1> HIDE DEF res, fs
<1> QED
  BY <1>1, <1>2, <1>3, <1>6, <1>7, <1>8, <1>9, QuietStep

LEMMA OpSignedStep == ASSUME NEW c \in Cases, IInv(c), OpSigned PROVE IInv(c)'
<1>1. /\ frames # <<>> /\ fault = "none" /\ multisig = <<>> /\ Cur.pc <= Len(Cur.code) /\ Cur.kind # "pre"
  BY DEF OpSigned, AtToken, Running
<1> DEFINE finish(r) == IF Token.op = "checksig" THEN parse_op_checksig(r) ELSE r
           fs == Jump(Cur.pc + 1)
           type == sig_item(main_stack).v[4]
           d == get_digest(type)
           checked == IF digest_fault # "none" THEN Crash(digest_fault) ELSE checksigverify(main_stack, d)
<1>2. /\ tx' = tx /\ multisig' = multisig /\ utxoes' = utxoes /\ txins' = txins /\ txin_index' = txin_index
      /\ if_depth' = if_depth /\ results' = results
  BY DEF OpSigned, given
<1>3. /\ Full(c.scripts, main_stack) /\ if_depth \in 0 .. MaxIfDepth + 1 /\ if_depth <= MaxIfDepth
      /\ if_depth = Depth(frames) /\ CacheOf(rawtx, tx, txin_index) /\ txin_index \in Nat
  BY <1>1, ActiveIs
<1>4. Frames(c.scripts, frames) /\ UtxoInv(c) /\ TxinInv(c.scripts)
  BY Zenon DEF IInv
<1>5. Cur.pc + 1 \in 1 .. Len(Cur.code) + 1
  BY <1>1, <1>4, TokenIs
<1>6. Frames(c.scripts, fs) /\ Depth(fs) = Depth(frames) /\ fs # <<>> /\ Last(fs).kind = Cur.kind
  BY <1>1, <1>4, <1>5, JumpIs
<1>7. MultisigInv'
  BY <1>1, <1>2 DEF MultisigInv
<1>8. UtxoInv(c)' /\ TxinInv(c.scripts)'
  BY <1>2, <1>4, KeptTxins, KeptUtxoes
<1>9. \A r : Good(c.scripts, r) => Good(c.scripts, finish(r))
  BY ChecksigGood, Zenon
<1>10. CASE Continue(Refuse(main_stack), frames) /\ digests' = <<>> /\ rawtx' = rawtx
  <2>1. Good(c.scripts, Refuse(main_stack)) /\ Refuse(main_stack).rc # 0
    BY <1>3, GoodOutcome, RefuseIs
  <2> DEFINE res == Refuse(main_stack)
  <2> HIDE DEF res
  <2>2. Good(c.scripts, res) /\ res.rc # 0 /\ Continue(res, frames)
    BY <1>10, <2>1 DEF res
  <2> QED
    BY <1>1, <1>2, <1>3, <1>4, <1>7, <1>8, <1>10, <2>2, QuietStep
<1>11. CASE /\ Continue(finish(checksigverify_unchecked(main_stack)), fs)
            /\ digests' = <<>> /\ rawtx' = rawtx
  <2> DEFINE res == finish(checksigverify_unchecked(main_stack))
  <2>1. Good(c.scripts, res)
    BY <1>3, <1>9, UncheckedGood, Zenon
  <2> HIDE DEF res, fs
  <2> QED
    BY <1>1, <1>2, <1>3, <1>6, <1>7, <1>8, <1>11, <2>1, QuietStep DEF res
<1>12. CASE /\ Continue(finish(checked), fs)
            /\ rawtx' = d.rawtx /\ digests' = <<digest_entry(type, d)>>
  <2>1. Good(c.scripts, checked)
    <3>1. digest_fault # OutOfOrder
      BY <1>3, DigestFaultIs
    <3>2. Good(c.scripts, Crash(digest_fault))
      BY <3>1, GoodCrash, Zenon
    <3>3. Good(c.scripts, checksigverify(main_stack, d))
      BY <1>3, ChecksigverifyGood, Zenon
    <3> QED
      BY <3>2, <3>3, Zenon
  <2> DEFINE res == finish(checked)
  <2>2. Good(c.scripts, res)
    BY <1>9, <2>1, Zenon
  <2>3. Continue(res, fs) /\ rawtx' = get_digest(type).rawtx /\ digests' = <<digest_entry(type, get_digest(type))>>
    BY <1>12, Zenon
  <2> HIDE DEF res, fs, type, checked, d
  <2> QED
    BY <1>1, <1>2, <1>3, <1>6, <1>7, <2>2, <2>3, DigestStep
<1> QED
  <2>1. \/ Continue(Refuse(main_stack), frames) /\ digests' = <<>> /\ rawtx' = rawtx
        \/ \E r \in {checksigverify_unchecked(main_stack)} :
              Continue(finish(r), fs) /\ digests' = <<>> /\ rawtx' = rawtx
        \/ \E dd \in {get_digest(type)} :
              /\ \E r \in {IF digest_fault # "none" THEN Crash(digest_fault)
                           ELSE checksigverify(main_stack, dd)} : Continue(finish(r), fs)
              /\ rawtx' = dd.rawtx
              /\ digests' = <<digest_entry(type, dd)>>
    BY Zenon DEF OpSigned
  <2> HIDE DEF finish, fs
  <2> QED
    BY <1>10, <1>11, <1>12, <2>1, Zenon

\* A refused operation changes nothing but the stack.
LEMMA OpCodeseparatorStep == ASSUME NEW c \in Cases, IInv(c), OpCodeseparator PROVE IInv(c)'
<1>1. /\ frames # <<>> /\ fault = "none" /\ multisig = <<>> /\ Cur.pc <= Len(Cur.code) /\ Cur.kind # "pre"
  BY DEF OpCodeseparator, AtToken, Running
<1>2. /\ tx' = tx /\ multisig' = multisig /\ utxoes' = utxoes /\ txin_index' = txin_index
      /\ if_depth' = if_depth /\ results' = results /\ rawtx' = rawtx /\ digests' = <<>>
  BY DEF OpCodeseparator, given
<1>3. /\ Full(c.scripts, main_stack) /\ if_depth \in 0 .. MaxIfDepth + 1 /\ if_depth <= MaxIfDepth
      /\ if_depth = Depth(frames)
      /\ DOMAIN cur_txin = {"redeem_scripts", "redeem_scripts_start_pos", "is_p2sh"}
      /\ Code(c.scripts, cur_txin.redeem_scripts)
      /\ txin_index \in Nat /\ txin_index + 1 \in 1 .. Len(tx.txins) /\ DOMAIN txins = 1 .. Len(tx.txins)
      /\ DOMAIN tx.txins = 1 .. Len(tx.txins)
  BY <1>1, ActiveIs
<1>4. Frames(c.scripts, frames) /\ UtxoInv(c) /\ TxinInv(c.scripts)
  BY Zenon DEF IInv
<1>5. /\ Cur.pc + 1 \in 1 .. Len(Cur.code) + 1 /\ Cur.pc \in 1 .. Len(Cur.code) /\ Len(Cur.code) \in Nat
      /\ Cur.base \in Int
  BY <1>1, <1>4, TokenIs
<1> DEFINE fs == Jump(Cur.pc + 1)
<1>6. Frames(c.scripts, fs) /\ Depth(fs) = Depth(frames)
  BY <1>1, <1>4, <1>5, JumpIs
<1>7. MultisigInv'
  BY <1>1, <1>2 DEF MultisigInv
<1>8. UtxoInv(c)'
  BY <1>2, <1>4, KeptUtxoes
<1> HIDE DEF fs
<1>9. CASE /\ Cur.base >= 0 /\ Cur.base + Cur.pc < Len(cur_txin.redeem_scripts)
           /\ txins' = [txins EXCEPT ![txin_index + 1].redeem_scripts_start_pos = Cur.base + Cur.pc]
           /\ Continue(Fine(main_stack), fs)
  <2> DEFINE res == Fine(main_stack)
             pos == Cur.base + Cur.pc
             i == txin_index + 1
  <2>1. Good(c.scripts, res)
    BY <1>3, GoodOutcome, Zenon
  <2>2. pos \in 0 .. Len(cur_txin.redeem_scripts)
    <3>1. Len(cur_txin.redeem_scripts) \in Nat
      BY <1>3, CodeLen
    <3> QED
      BY <1>5, <1>9, <3>1
  <2>3. TxinInv(c.scripts)'
    <3>1. cur_txin = txins[i] /\ i \in 1 .. Len(tx.txins)
      BY <1>3 DEF cur_txin
    <3>2. txins' = [txins EXCEPT ![i].redeem_scripts_start_pos = pos]
      BY <1>9, Zenon
    <3> HIDE DEF i, pos
    <3>3. /\ DOMAIN txins' = DOMAIN txins
          /\ \A j \in DOMAIN txins : j # i => txins'[j] = txins[j]
          /\ DOMAIN txins'[i] = {"redeem_scripts", "redeem_scripts_start_pos", "is_p2sh"}
          /\ txins'[i].redeem_scripts = cur_txin.redeem_scripts
          /\ txins'[i].redeem_scripts_start_pos = pos
      BY <1>3, <3>1, <3>2
    <3> QED
      BY <1>2, <1>3, <1>4, <2>2, <3>1, <3>3 DEF TxinInv
  <2> HIDE DEF res
  <2> QED
    BY <1>1, <1>2, <1>3, <1>6, <1>7, <1>8, <1>9, <2>1, <2>3, QuietStep DEF res
<1>10. CASE /\ txins' = txins
            /\ Continue(Refuse(main_stack), frames) \/ Continue(Crash("assert: separator in redeem script"), frames)
  <2>1. Good(c.scripts, Refuse(main_stack)) /\ Refuse(main_stack).rc # 0
    BY <1>3, GoodOutcome, RefuseIs
  <2>2. /\ Good(c.scripts, Crash("assert: separator in redeem script"))
        /\ Crash("assert: separator in redeem script").rc # 0
    <3>1. "assert: separator in redeem script" # OutOfOrder
      BY DEF OutOfOrder
    <3>2. Good(c.scripts, Crash("assert: separator in redeem script"))
      BY <3>1, GoodCrash, Zenon
    <3> QED
      BY <3>2, CrashIs, Zenon
  <2>3. PICK res : Good(c.scripts, res) /\ res.rc # 0 /\ Continue(res, frames)
    BY <1>10, <2>1, <2>2, Zenon
  <2>4. TxinInv(c.scripts)'
    BY <1>2, <1>4, <1>10, KeptTxins
  <2> QED
    BY <1>1, <1>2, <1>3, <1>4, <1>7, <1>8, <2>3, <2>4, QuietStep
<1> QED
  BY <1>9, <1>10, Zenon DEF OpCodeseparator, fs

\* The least and the greatest of a set of positions.
LEMMA LeastIs ==
    ASSUME NEW n \in Nat, NEW T, T \subseteq 1 .. n, T # {}
    PROVE  least(T) \in T /\ \A y \in T : least(T) <= y
<1> DEFINE R == OpToRel(<, Nat)
<1>1. IsWellFoundedOn(R, Nat)
  BY NatLessThanWellFounded, Zenon
<1>2. R = {ss \in Nat \X Nat : ss[1] < ss[2]}
  BY Zenon DEF OpToRel
<1> HIDE DEF R
<1>3. T \subseteq Nat
  OBVIOUS
<1>4. PICK x \in T : \A y \in T : ~(<<y, x>> \in R)
  BY <1>1, <1>3, WFMin, Zenon
<1>5. \A y \in T : x <= y
  <2>1. ASSUME NEW y \in T PROVE x <= y
    <3>1. x \in Nat /\ y \in Nat /\ (y < x => <<y, x>> \in R)
      BY <1>2, <1>3, <1>4
    <3> QED
      BY <1>4, <3>1
  <2> QED
    BY <2>1
<1> QED
  BY <1>5, Zenon DEF least

LEMMA GreatestIs ==
    ASSUME NEW n \in Nat, NEW T, T \subseteq 1 .. n, T # {}
    PROVE  greatest(T) \in T /\ \A y \in T : greatest(T) >= y
<1> DEFINE U == {n + 1 - x : x \in T}
<1>1. U \subseteq 1 .. n /\ U # {}
  <2>1. \A x \in T : n + 1 - x \in 1 .. n
    OBVIOUS
  <2> QED
    BY <2>1
<1>2. least(U) \in U /\ \A y \in U : least(U) <= y
  BY <1>1, LeastIs
<1>3. PICK x \in T : least(U) = n + 1 - x
  BY <1>2
<1>4. ASSUME NEW y \in T PROVE x >= y
  <2>1. n + 1 - y \in U
    OBVIOUS
  <2>2. n + 1 - x <= n + 1 - y
    BY <1>2, <1>3, <2>1
  <2>3. x \in Nat /\ y \in Nat
    OBVIOUS
  <2> QED
    BY <2>2, <2>3
<1> QED
  BY <1>4, Zenon DEF greatest

\* The block an if statement runs: positions first .. last of the code, which
\* end before its endif.
LEMMA OpIfStep == ASSUME NEW c \in Cases, IInv(c), OpIf PROVE IInv(c)'
<1>1. /\ frames # <<>> /\ fault = "none" /\ multisig = <<>> /\ Cur.pc <= Len(Cur.code) /\ Cur.kind # "pre"
  BY DEF OpIf, AtToken, Running
<1>2. /\ tx' = tx /\ multisig' = multisig /\ utxoes' = utxoes /\ txins' = txins /\ txin_index' = txin_index
      /\ results' = results /\ rawtx' = rawtx /\ digests' = <<>>
  BY DEF OpIf, given
<1>3. /\ Full(c.scripts, main_stack) /\ if_depth \in 0 .. MaxIfDepth + 1 /\ if_depth <= MaxIfDepth
      /\ if_depth = Depth(frames)
  BY <1>1, ActiveIs
<1>4. Frames(c.scripts, frames) /\ UtxoInv(c) /\ TxinInv(c.scripts)
  BY Zenon DEF IInv
<1>5. /\ Cur.pc + 1 \in 1 .. Len(Cur.code) + 1 /\ Cur.pc \in 1 .. Len(Cur.code) /\ Len(Cur.code) \in Nat
      /\ Cur.base \in Int /\ Cur.base >= -1 /\ Code(c.scripts, Cur.code)
  BY <1>1, <1>4, TokenIs
<1>6. MultisigInv' /\ UtxoInv(c)' /\ TxinInv(c.scripts)'
  BY <1>1, <1>2, <1>4, KeptTxins, KeptUtxoes DEF MultisigInv
<1> DEFINE v == scripts_verify(main_stack)
           taken == (v.rc = 0) = (Token.op = "if")
           ends == matching(Cur.code, Cur.pc, "endif")
           p_endif == least(ends)
           elses == {j \in matching(Cur.code, Cur.pc, "else") : j < p_endif}
           first == IF taken THEN Cur.pc + 1 ELSE greatest(elses) + 1
           last == IF taken /\ elses # {} THEN greatest(elses) - 1 ELSE p_endif - 1
           base == IF Cur.base < 0 THEN -1 ELSE Cur.base + first - 1
           block == frame("block", SubSeq(Cur.code, first, last), base, <<>>)
           resumed == Jump(p_endif + 1)
           entered == IF first > last THEN Crash("assert: script length") ELSE Fine(v.stack)
<1>7. Full(c.scripts, v.stack)
  BY <1>3, VerifyGood, Zenon
<1>8. /\ Good(c.scripts, Fine(v.stack)) /\ Good(c.scripts, Refuse(v.stack))
      /\ Good(c.scripts, Refuse(main_stack)) /\ Good(c.scripts, entered)
  <2>1. "assert: script length" # OutOfOrder
    BY DEF OutOfOrder
  <2>2. Good(c.scripts, Crash("assert: script length"))
    BY <2>1, GoodCrash, Zenon
  <2> QED
    BY <1>3, <1>7, <2>2, GoodOutcome, Zenon
<1>9. \/ /\ Continue(Refuse(main_stack), frames) \/ Continue(Refuse(v.stack), frames)
         /\ if_depth' = if_depth \/ if_depth' = if_depth + 1
      \/ /\ if_depth < MaxIfDepth /\ ends # {} /\ (taken \/ elses # {}) /\ Cur.kind # "txin"
         /\ Continue(entered, Append(resumed, block))
         /\ if_depth' = if_depth + 1
      \/ /\ ends # {}
         /\ Continue(Fine(v.stack), resumed)
         /\ if_depth' = if_depth
  <2> HIDE DEF entered, resumed, block, taken, ends, elses, v
  <2> QED
    BY Zenon DEF OpIf, entered, resumed, block, taken, ends, elses, v
<1> HIDE DEF v
<1>10. CASE /\ Continue(Refuse(main_stack), frames) \/ Continue(Refuse(v.stack), frames)
            /\ if_depth' = if_depth \/ if_depth' = if_depth + 1
  <2>1. Refuse(main_stack).rc # 0 /\ Refuse(v.stack).rc # 0
    BY RefuseIs
  <2>2. PICK res : Good(c.scripts, res) /\ res.rc # 0 /\ Continue(res, frames)
    BY <1>8, <1>10, <2>1, Zenon
  <2>3. if_depth' \in 0 .. MaxIfDepth + 1
    BY <1>3, <1>10, BoundsAssumption
  <2> QED
    BY <1>1, <1>2, <1>6, <2>2, <2>3, QuietStep
<1>11. ends \subseteq Cur.pc + 1 .. Len(Cur.code) /\ elses \subseteq Cur.pc + 1 .. Len(Cur.code)
       /\ \A j \in elses : j < p_endif
  BY DEF matching
<1> HIDE DEF ends, elses, taken, p_endif
<1>12. ASSUME ends # {}
       PROVE  /\ p_endif \in Cur.pc + 1 .. Len(Cur.code)
              /\ Frames(c.scripts, resumed) /\ Depth(resumed) = Depth(frames) /\ resumed # <<>>
              /\ Last(resumed).kind = Cur.kind /\ Len(resumed) = Len(frames)
  <2>1. ends \subseteq 1 .. Len(Cur.code) /\ Len(Cur.code) \in Nat
    BY <1>5, <1>11
  <2>2. least(ends) \in ends
    BY <1>12, <2>1, LeastIs, Zenon
  <2>3. p_endif \in Cur.pc + 1 .. Len(Cur.code)
    BY <1>11, <2>2, Zenon DEF p_endif
  <2>4. p_endif + 1 \in 1 .. Len(Cur.code) + 1
    BY <1>5, <2>3
  <2> QED
    BY <1>1, <1>4, <2>3, <2>4, JumpIs, Zenon
<1>13. CASE /\ ends # {}
            /\ Continue(Fine(v.stack), resumed)
            /\ if_depth' = if_depth
  <2> DEFINE res == Fine(v.stack)
  <2>1. Good(c.scripts, res) /\ Continue(res, resumed)
    BY <1>8, <1>13
  <2>2. Frames(c.scripts, resumed) /\ Depth(resumed) = Depth(frames)
    BY <1>12, <1>13
  <2> HIDE DEF res, resumed
  <2> QED
    BY <1>1, <1>2, <1>3, <1>6, <1>13, <2>1, <2>2, QuietStep
<1>14. CASE /\ if_depth < MaxIfDepth /\ ends # {} /\ (taken \/ elses # {}) /\ Cur.kind # "txin"
            /\ Continue(entered, Append(resumed, block))
            /\ if_depth' = if_depth + 1
  <2>1. /\ p_endif \in Cur.pc + 1 .. Len(Cur.code) /\ Frames(c.scripts, resumed) /\ Depth(resumed) = Depth(frames)
        /\ resumed # <<>> /\ Last(resumed).kind = Cur.kind /\ Len(resumed) = Len(frames)
    BY <1>12, <1>14, Zenon
  <2> DEFINE g == greatest(elses)
             n == Len(Cur.code)
             pc == Cur.pc
  <2>2. ASSUME elses # {} PROVE g \in pc + 1 .. n /\ g < p_endif
    <3>1. elses \subseteq 1 .. n /\ n \in Nat
      BY <1>5, <1>11
    <3>2. g \in elses
      BY <2>2, <3>1, GreatestIs, Zenon
    <3> HIDE DEF g
    <3> QED
      BY <1>11, <3>2, Zenon
  <2>3. \/ first = pc + 1 /\ last = g - 1 /\ elses # {}
        \/ first = pc + 1 /\ last = p_endif - 1
        \/ first = g + 1 /\ last = p_endif - 1 /\ elses # {}
    <3> HIDE DEF g
    <3>1. CASE taken /\ elses # {}
      BY <3>1, Zenon DEF g
    <3>2. CASE taken /\ elses = {}
      BY <3>2, Zenon
    <3>3. CASE ~taken /\ elses # {}
      BY <3>3, Zenon DEF g
    <3> QED
      BY <1>14, <3>1, <3>2, <3>3, Zenon
  <2> HIDE DEF first, last, g
  <2>4. /\ first \in Nat /\ last \in Nat /\ 1 <= first /\ last <= n
        /\ base \in Int /\ base >= -1
    <3>1. n \in Nat /\ pc \in 1 .. n /\ p_endif \in pc + 1 .. n /\ Cur.base \in Int /\ Cur.base >= -1
      BY <1>5, <2>1
    <3> HIDE DEF n, pc
    <3>2. first \in Nat /\ last \in Nat /\ 1 <= first /\ last <= n
      BY <2>2, <2>3, <3>1
    <3> QED
      BY <3>1, <3>2
  <2>5. ASSUME first <= last PROVE Frame(c.scripts, block) /\ block.kind = "block"
    <3>1. first <= last + 1
      BY <2>4, <2>5
    <3>2. Code(c.scripts, SubSeq(Cur.code, first, last))
      BY <1>5, <2>4, <3>1, CodeSub
    <3>3. "block" \in Kinds /\ "block" # "redeem" /\ Stack(c.scripts, <<>>)
      BY StackEmpty DEF Kinds
    <3> HIDE DEF base
    <3> QED
      BY <2>4, <3>2, <3>3, FrameIs
  <2> HIDE DEF base
  <2> DEFINE fs == Append(resumed, block)
  <2>6. ASSUME first <= last PROVE Frames(c.scripts, fs) /\ Depth(fs) = Depth(frames) + 1
    <3> HIDE DEF resumed, block
    <3>1. resumed[1].kind # "pre"
      <4>1. Len(resumed) \in Nat /\ Len(resumed) >= 1 /\ (Len(resumed) > 1 => resumed[1].kind # "pre")
        BY <2>1, InnermostIs
      <4>2. CASE Len(resumed) = 1
        <5>1. Last(resumed) = resumed[1]
          BY <4>2 DEF Last
        <5> QED
          BY <1>1, <2>1, <5>1, Zenon
      <4>3. CASE Len(resumed) # 1
        <5> DEFINE len == Len(resumed)
        <5>1. len > 1
          <6>1. len \in Nat /\ len >= 1 /\ len # 1
            BY <4>1, <4>3, Zenon
          <6> HIDE DEF len
          <6> QED
            BY <6>1
        <5> QED
          BY <4>1, <5>1, Zenon
      <4> QED
        BY <4>2, <4>3, Zenon
    <3>2. block.kind \notin Outermost /\ block.kind \notin Redeeming
      BY <2>5, <2>6 DEF Outermost, Redeeming
    <3>3. Frame(c.scripts, block)
      BY <2>5, <2>6
    <3> QED
      BY <2>1, <3>1, <3>2, <3>3, NestedFrame
  <2>7. entered.fault = "none" => first <= last
    <3>1. CASE first > last
      <4>1. entered = Crash("assert: script length")
        BY <3>1
      <4>2. Crash("assert: script length").fault = "assert: script length"
        BY CrashIs
      <4>3. "assert: script length" # "none"
        OBVIOUS
      <4> QED
        BY <4>1, <4>2, <4>3, Zenon
    <3>2. CASE ~(first > last)
      BY <2>4, <3>2
    <3> QED
      BY <3>1, <3>2
  <2>8. if_depth' \in 0 .. MaxIfDepth + 1 /\ if_depth' <= MaxIfDepth /\ if_depth' = Depth(frames) + 1
    <3>1. if_depth < MaxIfDepth /\ if_depth' = if_depth + 1
      BY <1>14, Zenon
    <3> QED
      BY <1>3, <3>1, BoundsAssumption
  <2>9. Good(c.scripts, entered) /\ Continue(entered, fs)
    BY <1>8, <1>14, Zenon
  <2> HIDE DEF entered, fs
  <2> QED
    BY <1>1, <1>2, <1>6, <2>6, <2>7, <2>8, <2>9, QuietStep
<1> QED
  BY <1>9, <1>10, <1>13, <1>14, Zenon

LEMMA DepthNat == ASSUME NEW S, NEW fs, Frames(S, fs) PROVE Depth(fs) \in Nat
<1>1. CASE fs = <<>>
  BY <1>1, NoFrame
<1>2. CASE fs # <<>>
  <2>1. Len(fs) \in Nat /\ Len(fs) >= 1
    BY <1>2, InnermostIs
  <2> QED
    BY <1>2, <2>1 DEF Depth, Floor
<1> QED
  BY <1>1, <1>2

\* The depth is given back with the block.
LEMMA ReturnBlockStep == ASSUME NEW c \in Cases, IInv(c), ReturnBlock PROVE IInv(c)'
<1>1. /\ frames # <<>> /\ fault = "none" /\ multisig = <<>> /\ Cur.kind = "block" /\ phase # "rejected"
      /\ frames' = Front(frames) /\ if_depth' = if_depth - 1 /\ digests' = <<>>
      /\ tx' = tx /\ multisig' = multisig /\ utxoes' = utxoes /\ txins' = txins /\ txin_index' = txin_index
      /\ main_stack' = main_stack /\ rawtx' = rawtx /\ phase' = phase /\ results' = results /\ fault' = fault
  BY DEF ReturnBlock, AtEnd, Running, given
<1>2. /\ phase \in Parsing /\ if_depth \in 0 .. MaxIfDepth + 1 /\ if_depth <= MaxIfDepth
      /\ if_depth = Depth(frames)
  BY <1>1, ActiveIs
<1>3. /\ UtxoInv(c) /\ TxinInv(c.scripts) /\ StackInv(c.scripts) /\ Frames(c.scripts, frames)
      /\ ControlInv /\ CacheInv
  BY Zenon DEF IInv
<1>4. Frames(c.scripts, frames') /\ Depth(frames') = Depth(frames) - 1
  <2>1. Last(frames).kind = "block" /\ "block" \notin Outermost /\ "block" \notin Redeeming
    BY <1>1 DEF Cur, Outermost, Redeeming
  <2> QED
    BY <1>1, <1>3, <2>1, LeftFrame
<1>5. DepthInv'
  <2>1. Depth(frames') \in Nat
    BY <1>4, DepthNat
  <2>2. if_depth' = Depth(frames')
    BY <1>1, <1>2, <1>4
  <2>3. if_depth' \in 0 .. MaxIfDepth + 1 /\ if_depth' <= MaxIfDepth
    BY <1>1, <1>2, <2>1, <2>2, BoundsAssumption
  <2> QED
    BY <2>2, <2>3 DEF DepthInv
<1>6. StackInv(c.scripts)'
  BY <1>1, <1>3 DEF StackInv
<1>7. ControlInv'
  BY <1>1, <1>2, <1>3 DEF ControlInv
<1>8. MultisigInv' /\ CacheInv'
  BY <1>1, <1>3 DEF MultisigInv, CacheInv
<1> QED
  BY <1>1, <1>3, <1>4, <1>5, <1>6, <1>7, <1>8, NoDigests, KeptTxins, KeptUtxoes, Zenon DEF IInv

LEMMA OpMultisigStep == ASSUME NEW c \in Cases, IInv(c), OpMultisig PROVE IInv(c)'
<1> DEFINE r == IF Cur.kind = "txin" THEN Refuse(main_stack) ELSE multisig_operands(main_stack)
<1>1. /\ frames # <<>> /\ fault = "none" /\ multisig = <<>> /\ Cur.kind # "pre" /\ Cur.pc <= Len(Cur.code)
      /\ Continue(r, frames) /\ digests' = <<>>
      /\ multisig' = IF r.fault = "none" /\ r.rc = 0 THEN <<multisig_loop(main_stack)>> ELSE <<>>
      /\ tx' = tx /\ utxoes' = utxoes /\ txins' = txins /\ txin_index' = txin_index
      /\ if_depth' = if_depth /\ rawtx' = rawtx /\ results' = results
  BY DEF OpMultisig, AtToken, Running, given
<1>2. /\ Full(c.scripts, main_stack) /\ if_depth \in 0 .. MaxIfDepth + 1 /\ if_depth <= MaxIfDepth
      /\ if_depth = Depth(frames)
  BY <1>1, ActiveIs
<1>3. Frames(c.scripts, frames) /\ UtxoInv(c) /\ TxinInv(c.scripts)
  BY Zenon DEF IInv
<1>4. Good(c.scripts, r)
  BY <1>2, GoodOutcome, MultisigOperandsGood, Zenon
<1>5. r.rc = 0 => Cur.kind # "txin"
  BY RefuseIs, Zenon
<1> HIDE DEF r
<1>6. MultisigInv'
  <2>1. CASE r.fault = "none" /\ r.rc = 0
    <3>1. frames' = frames /\ fault' = fault
      BY <1>1, <2>1, ContinueIs
    <3>2. Cur' = Cur
      BY <3>1 DEF Cur
    <3> QED
      BY <1>1, <1>5, <2>1, <3>1, <3>2 DEF MultisigInv
  <2>2. CASE ~(r.fault = "none" /\ r.rc = 0)
    BY <1>1, <2>2 DEF MultisigInv
  <2> QED
    BY <2>1, <2>2
<1>7. UtxoInv(c)' /\ TxinInv(c.scripts)'
  BY <1>1, <1>3, KeptTxins, KeptUtxoes
<1> QED
  BY <1>1, <1>2, <1>3, <1>4, <1>6, <1>7, QuietStep

\* One signature of the loop: it is left, or stays at its opcode.
LEMMA CheckMultisigStep == ASSUME NEW c \in Cases, IInv(c), CheckMultisig PROVE IInv(c)'
<1> DEFINE m == multisig[1]
           empty == main_stack = <<>>
           item == IF empty THEN satoshi_script_data_new_ptr(Empty) ELSE Top(main_stack)
           rest == IF empty THEN <<>> ELSE Front(main_stack)
           type == item.v[4]
           fs == Jump(Cur.pc + 1)
           d == get_digest(type)
<1>1. /\ UtxoInv(c) /\ TxinInv(c.scripts) /\ Frames(c.scripts, frames) /\ MultisigInv
  BY Zenon DEF IInv
<1>2. /\ fault = "none" /\ multisig # <<>>
      /\ tx' = tx /\ utxoes' = utxoes /\ txins' = txins /\ txin_index' = txin_index
      /\ if_depth' = if_depth /\ results' = results
  BY DEF CheckMultisig, given
<1>3. frames # <<>> /\ Cur.kind \notin {"txin", "pre"} /\ Cur.pc <= Len(Cur.code)
  BY <1>1, <1>2 DEF MultisigInv
<1>4. /\ Full(c.scripts, main_stack) /\ if_depth \in 0 .. MaxIfDepth + 1 /\ if_depth <= MaxIfDepth
      /\ if_depth = Depth(frames) /\ CacheOf(rawtx, tx, txin_index) /\ txin_index \in Nat
  BY <1>2, <1>3, ActiveIs
<1>5. Cur.pc + 1 \in 1 .. Len(Cur.code) + 1
  BY <1>1, <1>3, TokenIs
<1>6. Frames(c.scripts, fs) /\ Depth(fs) = Depth(frames) /\ fs # <<>> /\ Last(fs).kind # "pre"
  <2>1. Frames(c.scripts, fs) /\ Depth(fs) = Depth(frames) /\ fs # <<>> /\ Last(fs).kind = Cur.kind
    BY <1>1, <1>3, <1>5, JumpIs
  <2> QED
    BY <1>3, <2>1
<1>7. UtxoInv(c)' /\ TxinInv(c.scripts)'
  BY <1>1, <1>2, KeptTxins, KeptUtxoes
<1>8. Full(c.scripts, rest)
  BY <1>4, FullEmpty, FullFront, Zenon
<1>9. \A rc : Good(c.scripts, Outcome(rc, rest, "none")) /\ Good(c.scripts, Fine(rest)) /\ Good(c.scripts, Refuse(rest))
  BY <1>8, GoodOutcome, Zenon
<1> DEFINE Went == \E r, gs : Good(c.scripts, r) /\ Continue(r, gs) /\ gs \in {fs, frames} /\ MultisigInv'
<1>10. ASSUME NEW r, Good(c.scripts, r), LeaveMultisig(r) PROVE Went
  <2>1. Continue(r, fs) /\ multisig' = <<>>
    BY <1>10, Zenon DEF LeaveMultisig
  <2>2. MultisigInv'
    BY <2>1 DEF MultisigInv
  <2> HIDE DEF fs
  <2> QED
    BY <1>10, <2>1, <2>2, Zenon
<1>11. ASSUME Continue(Fine(rest), frames) PROVE Went
  <2>1. frames' = frames /\ fault' = fault
    BY <1>11, ContinueIs, FineIs, Zenon
  <2>2. Cur' = Cur
    BY <2>1 DEF Cur
  <2>3. MultisigInv'
    BY <1>2, <1>3, <2>1, <2>2 DEF MultisigInv
  <2> HIDE DEF fs, rest
  <2> QED
    BY <1>9, <1>11, <2>3, Zenon
<1> HIDE DEF Went
<1>12. /\ Went
       /\ \/ rawtx' = rawtx /\ digests' = <<>>
          \/ rawtx' = d.rawtx /\ digests' = <<digest_entry(type, d)>>
  <2> DEFINE done == stack_push(main_stack, satoshi_script_data_new_boolean(m.num_verified = m.num_sigs))
  <2>1. \/ LeaveMultisig(done) /\ rawtx' = rawtx /\ digests' = <<>>
        \/ LeaveMultisig(Outcome(m.rc, rest, "none")) /\ rawtx' = rawtx /\ digests' = <<>>
        \/ LeaveMultisig(Crash("signature is no pointer")) /\ rawtx' = rawtx /\ digests' = <<>>
        \/ Continue(Fine(rest), frames) /\ rawtx' = rawtx /\ digests' = <<>>
        \/ \E dd \in {get_digest(type)} :
              /\ \/ LeaveMultisig(IF dd.rc # 0 THEN Refuse(rest) ELSE Crash(digest_fault))
                 \/ Continue(Fine(rest), frames)
              /\ rawtx' = dd.rawtx
              /\ digests' = <<digest_entry(type, dd)>>
    BY Zenon DEF CheckMultisig
  <2>2. Good(c.scripts, done)
    BY <1>4, PushBoolean, Zenon
  <2>3. Good(c.scripts, Crash("signature is no pointer"))
    <3>1. "signature is no pointer" # OutOfOrder
      BY DEF OutOfOrder
    <3> QED
      BY <3>1, GoodCrash, Zenon
  <2>4. Good(c.scripts, IF d.rc # 0 THEN Refuse(rest) ELSE Crash(digest_fault))
    <3>1. digest_fault # OutOfOrder
      BY <1>4, DigestFaultIs
    <3>2. Good(c.scripts, Crash(digest_fault))
      BY <3>1, GoodCrash, Zenon
    <3> HIDE DEF rest, d
    <3> QED
      BY <1>9, <3>2, Zenon
  <2> HIDE DEF done, rest, type, m
  <2> QED
    BY <1>9, <1>10, <1>11, <2>1, <2>2, <2>3, <2>4, Zenon DEF d
<1>13. PICK r, gs : Good(c.scripts, r) /\ Continue(r, gs) /\ gs \in {fs, frames} /\ MultisigInv'
  BY <1>12, Zenon DEF Went
<1>14. Frames(c.scripts, gs) /\ Depth(gs) = Depth(frames) /\ gs # <<>> /\ Last(gs).kind # "pre"
  BY <1>1, <1>3, <1>6, <1>13 DEF Cur
<1>15. CASE rawtx' = rawtx /\ digests' = <<>>
  BY <1>2, <1>3, <1>4, <1>7, <1>13, <1>14, <1>15, QuietStep
<1>16. CASE rawtx' = d.rawtx /\ digests' = <<digest_entry(type, d)>>
  <2>1. rawtx' = get_digest(type).rawtx /\ digests' = <<digest_entry(type, get_digest(type))>>
    BY <1>16, Zenon
  <2> HIDE DEF d, type
  <2> QED
    BY <1>2, <1>3, <1>4, <1>13, <1>14, <2>1, DigestStep
<1> QED
  BY <1>12, <1>15, <1>16, Zenon

-----------------------------------------------------------------------------
(* Redeem scripts and witness programs *)

TxinFields == {"redeem_scripts", "redeem_scripts_start_pos", "is_p2sh"}

TxinGood(S, t) == /\ DOMAIN t = TxinFields /\ Code(S, t.redeem_scripts)
                  /\ t.redeem_scripts_start_pos \in 0 .. Len(t.redeem_scripts)

\* What is written to the fields of one input.
LEMMA TxinUpdated ==
    ASSUME NEW S, TxinInv(S), tx' = tx, NEW i \in DOMAIN txins, NEW t, TxinGood(S, t),
           txins' = [txins EXCEPT ![i] = t]
    PROVE  TxinInv(S)'
<1>1. DOMAIN txins' = DOMAIN txins
  OBVIOUS
<1>2. ASSUME NEW j \in DOMAIN txins' PROVE TxinGood(S, txins'[j])
  <2>1. CASE j = i
    <3>1. txins'[j] = t
      BY <2>1
    <3> QED
      BY <3>1
  <2>2. CASE j # i
    <3>1. txins'[j] = txins[j] /\ j \in DOMAIN txins
      BY <1>1, <2>2
    <3> QED
      BY <3>1, Zenon DEF TxinInv, TxinGood, TxinFields
  <2> QED
    BY <2>1, <2>2
<1>3. DOMAIN txins' = DOMAIN tx'.txins
  BY <1>1 DEF TxinInv
<1> QED
  BY <1>2, <1>3, Zenon DEF TxinInv, TxinGood, TxinFields

\* The state goes on at calls without a block, or stops.
Turn(S) == \E res, gs : /\ Good(S, res) /\ Continue(res, gs)
                        /\ res.fault = "none" /\ res.rc = 0 => Frames(S, gs) /\ Depth(gs) = 0

LEMMA TurnStep ==
    ASSUME NEW c, IInv(c), frames # <<>>, fault = "none", multisig = <<>>, if_depth = 0, Turn(c.scripts),
           tx' = tx, txin_index' = txin_index, results' = results, rawtx' = rawtx, digests' = <<>>,
           if_depth' = if_depth, multisig' = multisig, UtxoInv(c)', TxinInv(c.scripts)'
    PROVE  IInv(c)'
<1>1. MultisigInv'
  BY DEF MultisigInv
<1>2. 0 \in 0 .. MaxIfDepth + 1 /\ 0 <= MaxIfDepth
  BY BoundsAssumption
<1>3. PICK res, gs : /\ Good(c.scripts, res) /\ Continue(res, gs)
                     /\ res.fault = "none" /\ res.rc = 0 => Frames(c.scripts, gs) /\ Depth(gs) = 0
  BY Zenon DEF Turn
<1> QED
  BY <1>1, <1>2, <1>3, QuietStep

\* An outermost call alone.
LEMMA AloneIs ==
    ASSUME NEW S, NEW fs, Frames(S, fs), fs # <<>>, Last(fs).kind \in Outermost
    PROVE  Len(fs) = 1 /\ Last(fs) = fs[1] /\ Depth(fs) = 0
<1>1. Len(fs) = 1 /\ Last(fs) = fs[Len(fs)]
  BY InnermostIs
<1> QED
  BY <1>1 DEF Depth, Floor

LEMMA RedeemedTurn ==
    ASSUME NEW S, Closed(S), TxinInv(S), tx' = tx, txin_index + 1 \in DOMAIN txins,
           NEW s, Full(S, s), NEW fs, Frames(S, fs), Len(fs) = 1, fs # <<>>, fs[1].kind # "pre",
           txin_p2sh_scripts_post_process(s, fs)
    PROVE  Turn(S) /\ TxinInv(S)'
<1> DEFINE item == Top(s)
           marked == [cur_txin EXCEPT !.is_p2sh = TRUE]
           i == txin_index + 1
           code == code_of(item.v)
           f == frame("redeem", code, 0, <<item>>)
<1>1. TxinGood(S, cur_txin)
  BY Zenon DEF TxinInv, TxinGood, TxinFields, cur_txin
<1>2. TxinGood(S, marked)
  <2>1. /\ DOMAIN marked = DOMAIN cur_txin /\ marked.redeem_scripts = cur_txin.redeem_scripts
        /\ marked.redeem_scripts_start_pos = cur_txin.redeem_scripts_start_pos
    BY <1>1 DEF TxinGood, TxinFields
  <2> HIDE DEF marked
  <2> QED
    BY <1>1, <2>1 DEF TxinGood
<1>3. CASE s = <<>> \/ item.t # "pointer"
  <2> DEFINE res == Refuse(IF s = <<>> THEN s ELSE Front(s))
  <2>1. Continue(res, fs) /\ txins' = [txins EXCEPT ![i] = marked]
    BY <1>3, Zenon DEF txin_p2sh_scripts_post_process
  <2>2. Full(S, IF s = <<>> THEN s ELSE Front(s))
    BY FullFront, Zenon
  <2>3. Good(S, res) /\ res.rc # 0
    BY <2>2, GoodOutcome, RefuseIs, Zenon
  <2>4. TxinInv(S)'
    BY <1>2, <2>1, TxinUpdated, Zenon
  <2> HIDE DEF res
  <2> QED
    BY <2>1, <2>3, <2>4, Zenon DEF Turn
<1>4. CASE ~(s = <<>> \/ item.t # "pointer")
  <2> DEFINE res == IF item.v = Empty THEN Crash("assert: script length") ELSE Fine(Front(s))
             updated == satoshi_txin_set_redeem_scripts(marked, code)
             gs == Append(fs, f)
  <2>1. Continue(res, gs) /\ txins' = [txins EXCEPT ![i] = updated]
    BY <1>4, Zenon DEF txin_p2sh_scripts_post_process
  <2>2. Full(S, Front(s)) /\ Item(S, item)
    BY <1>4, FullFront, Zenon
  <2>3. Good(S, res)
    <3>1. Good(S, Fine(Front(s)))
      BY <2>2, GoodOutcome, Zenon
    <3>2. "assert: script length" # OutOfOrder
      BY DEF OutOfOrder
    <3>3. Good(S, Crash("assert: script length"))
      BY <3>2, GoodCrash, Zenon
    <3> QED
      BY <3>1, <3>3, Zenon
  <2>4. Code(S, code)
    <3>1. Known(S, item.v)
      BY <2>2, Zenon DEF Item
    <3> QED
      BY <3>1, CodeOf, Zenon
  <2>5. TxinGood(S, updated)
    <3>1. Len(code) \in Nat
      BY <2>4, CodeLen
    <3>2. 0 \in 0 .. Len(code)
      BY <3>1
    <3>3. DOMAIN updated = TxinFields /\ updated.redeem_scripts = code /\ updated.redeem_scripts_start_pos = 0
      <4> HIDE DEF marked, code
      <4> QED
        BY <1>2 DEF TxinGood, TxinFields, satoshi_txin_set_redeem_scripts
    <3> HIDE DEF updated, code
    <3> QED
      BY <2>4, <3>2, <3>3 DEF TxinGood
  <2>6. Frames(S, gs) /\ Depth(gs) = 0
    <3>1. Frame(S, f) /\ f.kind = "redeem"
      <4>1. Stack(S, <<item>>) /\ <<item>> # <<>>
        BY <2>2, StackOne, Zenon
      <4>2. "redeem" \in Kinds /\ 0 \in Int /\ 0 >= -1
        BY DEF Kinds
      <4> HIDE DEF item, code
      <4> QED
        BY <2>4, <4>1, <4>2, FrameIs
    <3>2. "redeem" \notin Outermost /\ "redeem" \in Redeeming
      BY DEF Outermost, Redeeming
    <3> HIDE DEF f
    <3> QED
      BY <3>1, <3>2, NestedFrame
  <2>7. TxinInv(S)'
    BY <2>1, <2>5, TxinUpdated, Zenon
  <2> HIDE DEF res, gs
  <2> QED
    BY <2>1, <2>3, <2>6, <2>7, Zenon DEF Turn
<1> QED
  BY <1>3, <1>4

LEMMA ProgramTurn ==
    ASSUME NEW S, Closed(S), TxinInv(S), tx' = tx, txin_index + 1 \in DOMAIN txins, NEW code,
           NEW s, Full(S, s), NEW fs, Frames(S, fs), Len(fs) = 1, fs # <<>>, fs[1].kind # "pre",
           parse_segwit_script(code, s, fs)
    PROVE  Turn(S) /\ TxinInv(S)'
<1> DEFINE program == witness_program(code)
           script == IF cur_txin.redeem_scripts = <<>>
                     THEN satoshi_script_generate_p2pkh_script(program[1])
                     ELSE cur_txin.redeem_scripts
           i == txin_index + 1
           f == frame("wpkh", script, 0, <<>>)
<1>1. TxinGood(S, cur_txin) /\ cur_txin = txins[i]
  BY Zenon DEF TxinInv, TxinGood, TxinFields, cur_txin
<1>2. CASE program # <<>> /\ program[1][1] = "ripemd160"
  <2> DEFINE gs == Append(fs, f)
             res == Fine(s)
             updated == [cur_txin EXCEPT !.redeem_scripts = script]
  <2>1. Continue(res, gs) /\ txins' = [txins EXCEPT ![i].redeem_scripts = script]
    BY <1>2, Zenon DEF parse_segwit_script
  <2>2. Code(S, script)
    <3>1. CASE cur_txin.redeem_scripts = <<>>
      <4>1. Code(S, satoshi_script_generate_p2pkh_script(program[1]))
        BY <1>2, CodeKeyHash
      <4> QED
        BY <3>1, <4>1, Zenon
    <3>2. CASE cur_txin.redeem_scripts # <<>>
      BY <1>1, <3>2, Zenon DEF TxinGood
    <3> QED
      BY <3>1, <3>2, Zenon
  <2>3. cur_txin.redeem_scripts_start_pos \in 0 .. Len(script)
    <3>1. CASE cur_txin.redeem_scripts = <<>>
      <4>1. Len(script) \in Nat
        BY <2>2, CodeLen
      <4>2. Len(cur_txin.redeem_scripts) = 0
        BY <3>1
      <4>3. cur_txin.redeem_scripts_start_pos = 0
        BY <1>1, <4>2 DEF TxinGood
      <4> HIDE DEF script
      <4> QED
        BY <4>1, <4>3
    <3>2. CASE cur_txin.redeem_scripts # <<>>
      BY <1>1, <3>2, Zenon DEF TxinGood
    <3> QED
      BY <3>1, <3>2, Zenon
  <2> HIDE DEF script
  <2>4. TxinGood(S, updated)
    <3>1. /\ DOMAIN updated = TxinFields /\ updated.redeem_scripts = script
          /\ updated.redeem_scripts_start_pos = cur_txin.redeem_scripts_start_pos
      BY <1>1 DEF TxinGood, TxinFields
    <3> HIDE DEF updated
    <3> QED
      BY <2>2, <2>3, <3>1 DEF TxinGood
  <2>5. TxinInv(S)'
    <3>1. txins' = [txins EXCEPT ![i] = updated]
      BY <1>1, <2>1
    <3> HIDE DEF updated
    <3> QED
      BY <2>4, <3>1, TxinUpdated, Zenon
  <2>6. Frames(S, gs) /\ Depth(gs) = 0
    <3>1. Frame(S, f) /\ f.kind = "wpkh"
      <4>1. "wpkh" \in Kinds /\ "wpkh" # "redeem" /\ 0 \in Int /\ 0 >= -1 /\ Stack(S, <<>>)
        BY StackEmpty DEF Kinds
      <4> QED
        BY <2>2, <4>1, FrameIs
    <3>2. "wpkh" \notin Outermost /\ "wpkh" \in Redeeming
      BY DEF Outermost, Redeeming
    <3> HIDE DEF f
    <3> QED
      BY <3>1, <3>2, NestedFrame
  <2>7. Good(S, res)
    BY GoodOutcome, Zenon
  <2> HIDE DEF res, gs
  <2> QED
    BY <2>1, <2>5, <2>6, <2>7, Zenon DEF Turn
<1>3. CASE /\ ~(program # <<>> /\ program[1][1] = "ripemd160")
           /\ program # <<>> /\ program[1][1] = "sha256"
  <2>1. txin_p2sh_scripts_post_process(s, fs)
    BY <1>3, Zenon DEF parse_segwit_script
  <2> QED
    BY <2>1, RedeemedTurn
<1>4. CASE /\ ~(program # <<>> /\ program[1][1] = "ripemd160")
           /\ ~(program # <<>> /\ program[1][1] = "sha256")
  <2>1. Continue(Refuse(s), fs) /\ txins' = txins
    BY <1>4, Zenon DEF parse_segwit_script
  <2>2. Good(S, Refuse(s)) /\ Refuse(s).rc # 0
    BY GoodOutcome, RefuseIs, Zenon
  <2>3. TxinInv(S)'
    BY <2>1, KeptTxins
  <2> QED
    BY <2>1, <2>2, <2>3, Zenon DEF Turn
<1> QED
  BY <1>2, <1>3, <1>4, Zenon

\* The script of the output goes on after its witness program.
LEMMA DoneTurn ==
    ASSUME NEW S, NEW s, Full(S, s), NEW fs, Frames(S, fs), fs # <<>>, Last(fs).kind # "redeem", Depth(fs) = 0,
           segwit_done(s, fs)
    PROVE  Turn(S)
<1> DEFINE f == Last(fs)
<1>1. CASE f.saved = <<>>
  <2>1. Continue(Fine(s), fs) /\ Good(S, Fine(s))
    BY <1>1, GoodOutcome, Zenon DEF segwit_done
  <2> QED
    BY <2>1, Zenon DEF Turn
<1>2. CASE f.saved # <<>> /\ s = <<>>
  <2>1. Continue(Refuse(s), fs) /\ Good(S, Refuse(s))
    BY <1>2, GoodOutcome, Zenon DEF segwit_done
  <2> QED
    BY <2>1, Zenon DEF Turn
<1>3. CASE f.saved # <<>> /\ s # <<>>
  <2> DEFINE gs == [fs EXCEPT ![Len(fs)].saved = <<>>]
             res == Fine(Append(Front(s), f.saved[1]))
  <2>1. Continue(res, gs)
    BY <1>3, Zenon DEF segwit_done
  <2>2. Frames(S, gs) /\ Depth(gs) = 0
    BY ClearedFrame
  <2>3. Stack(S, Front(s)) /\ Len(Front(s)) < StackAlloc
    <3>1. Full(S, Front(s)) /\ Len(Front(s)) = Len(s) - 1 /\ Len(s) \in Nat /\ Len(s) <= StackAlloc
      BY <1>3, FullFront, Zenon DEF Full
    <3> QED
      BY <3>1, BoundsAssumption DEF Full
  <2>4. Item(S, f.saved[1])
    <3>1. Stack(S, f.saved)
      BY InnermostIs, Zenon DEF Frame
    <3>2. 1 \in DOMAIN f.saved
      <4>1. DOMAIN f.saved = 1 .. Len(f.saved) /\ Len(f.saved) \in Nat /\ Len(f.saved) >= 1
        BY <1>3, <3>1, IsSeqLen, StackTop, Zenon DEF Stack
      <4> HIDE DEF f
      <4> QED
        BY <4>1
    <3> QED
      BY <3>1, <3>2, Zenon DEF Stack
  <2>5. Good(S, res)
    BY <2>3, <2>4, FullAppend, GoodOutcome, Zenon
  <2> HIDE DEF res, gs
  <2> QED
    BY <2>1, <2>2, <2>5, Zenon DEF Turn
<1> QED
  BY <1>1, <1>2, <1>3, Zenon

\* What a return at the end of its code has in common.
LEMMA EndIs ==
    ASSUME NEW c \in Cases, IInv(c), NEW kind, AtEnd(kind)
    PROVE  /\ frames # <<>> /\ fault = "none" /\ multisig = <<>> /\ Cur.kind = kind /\ Cur = Last(frames)
           /\ UtxoInv(c) /\ TxinInv(c.scripts) /\ Frames(c.scripts, frames) /\ Closed(c.scripts)
           /\ Full(c.scripts, main_stack) /\ if_depth = Depth(frames)
           /\ txin_index + 1 \in DOMAIN txins
<1>1. frames # <<>> /\ fault = "none" /\ multisig = <<>> /\ Cur.kind = kind
  BY Zenon DEF AtEnd, Running
<1>2. UtxoInv(c) /\ TxinInv(c.scripts) /\ Frames(c.scripts, frames)
  BY Zenon DEF IInv
<1>3. /\ Closed(c.scripts) /\ Full(c.scripts, main_stack) /\ if_depth = Depth(frames)
      /\ txin_index + 1 \in 1 .. Len(tx.txins) /\ DOMAIN txins = 1 .. Len(tx.txins)
  BY <1>1, ActiveIs
<1> QED
  BY <1>1, <1>2, <1>3, Zenon DEF Cur

\* The call of a redeem script or of a generated one, and its caller.
LEMMA CalleeIs ==
    ASSUME NEW S, NEW fs, Frames(S, fs), fs # <<>>, Last(fs).kind \in Redeeming
    PROVE  /\ Frames(S, Front(fs)) /\ Front(fs) # <<>> /\ Len(Front(fs)) = 1 /\ Depth(Front(fs)) = 0
           /\ Last(Front(fs)) = fs[1] /\ Len(fs) = 2 /\ Depth(fs) = 0
           /\ Last(Front(fs)).kind \in {"txin", "txout"}
<1>1. Last(fs).kind \notin Outermost /\ Last(fs).kind \in Redeeming
  BY DEF Outermost, Redeeming
<1>2. Len(fs) = 2 /\ Last(fs) = fs[Len(fs)] /\ fs[1].kind # "pre"
  BY <1>1, InnermostIs
<1>3. /\ Frames(S, Front(fs)) /\ Front(fs) # <<>> /\ Len(Front(fs)) = Len(fs) - 1
      /\ Last(Front(fs)) = fs[Len(fs) - 1]
      /\ Depth(Front(fs)) = IF Last(fs).kind \in Redeeming THEN 0 ELSE Depth(fs) - 1
  BY <1>1, LeftFrame, Zenon
<1>4. Len(Front(fs)) = 1 /\ Last(Front(fs)) = fs[1] /\ Depth(Front(fs)) = 0
  BY <1>1, <1>2, <1>3
<1>5. Depth(fs) = 0
  BY <1>1, <1>2 DEF Depth, Floor
<1>6. Last(Front(fs)).kind \in Outermost
  BY <1>3, <1>4, InnermostIs
<1>7. Last(Front(fs)).kind \in {"txin", "txout"}
  BY <1>2, <1>4, <1>6 DEF Outermost
<1> QED
  BY <1>2, <1>3, <1>4, <1>5, <1>7, Zenon

LEMMA ReturnWpkhStep == ASSUME NEW c \in Cases, IInv(c), ReturnWpkh PROVE IInv(c)'
<1>1. AtEnd("wpkh") /\ segwit_done(main_stack, Front(frames))
  BY Zenon DEF ReturnWpkh
<1>2. /\ digests' = <<>> /\ tx' = tx /\ multisig' = multisig /\ utxoes' = utxoes /\ txins' = txins
      /\ txin_index' = txin_index /\ if_depth' = if_depth /\ rawtx' = rawtx /\ results' = results
  BY DEF ReturnWpkh, given
<1>3. /\ frames # <<>> /\ fault = "none" /\ multisig = <<>> /\ Last(frames).kind = "wpkh"
      /\ UtxoInv(c) /\ TxinInv(c.scripts) /\ Frames(c.scripts, frames)
      /\ Full(c.scripts, main_stack) /\ if_depth = Depth(frames)
  BY <1>1, EndIs
<1>4. /\ Frames(c.scripts, Front(frames)) /\ Front(frames) # <<>> /\ Depth(Front(frames)) = 0
      /\ Depth(frames) = 0 /\ Last(Front(frames)).kind # "redeem"
  <2>1. Last(frames).kind \in Redeeming
    BY <1>3 DEF Redeeming
  <2> QED
    BY <1>3, <2>1, CalleeIs
<1>5. Turn(c.scripts)
  BY <1>1, <1>3, <1>4, DoneTurn, Zenon
<1> QED
  BY <1>2, <1>3, <1>4, <1>5, KeptTxins, KeptUtxoes, TurnStep

LEMMA ReturnRedeemStep == ASSUME NEW c \in Cases, IInv(c), ReturnRedeem PROVE IInv(c)'
<1> DEFINE v == scripts_verify(main_stack)
           redeem == Cur.saved[1]
           caller == frames[Len(frames) - 1]
           judged == Append(v.stack, satoshi_script_data_new_boolean(p2wsh_matches(redeem, caller)))
<1>1. /\ AtEnd("redeem")
      /\ \/ v.rc # 0 /\ Continue(v, frames)
         \/ v.rc = 0 /\ Continue(stack_push(v.stack, redeem), <<>>)
         \/ v.rc = 0 /\ segwit_done(judged, Front(frames))
  BY Zenon DEF ReturnRedeem
<1>2. /\ digests' = <<>> /\ tx' = tx /\ multisig' = multisig /\ utxoes' = utxoes /\ txins' = txins
      /\ txin_index' = txin_index /\ if_depth' = if_depth /\ rawtx' = rawtx /\ results' = results
  BY DEF ReturnRedeem, given
<1>3. /\ frames # <<>> /\ fault = "none" /\ multisig = <<>> /\ Last(frames).kind = "redeem" /\ Cur = Last(frames)
      /\ UtxoInv(c) /\ TxinInv(c.scripts) /\ Frames(c.scripts, frames)
      /\ Full(c.scripts, main_stack) /\ if_depth = Depth(frames)
  BY <1>1, EndIs
<1>4. /\ Frames(c.scripts, Front(frames)) /\ Front(frames) # <<>> /\ Depth(Front(frames)) = 0
      /\ Depth(frames) = 0 /\ Last(Front(frames)).kind # "redeem"
  <2>1. Last(frames).kind \in Redeeming
    BY <1>3 DEF Redeeming
  <2> QED
    BY <1>3, <2>1, CalleeIs
<1>5. /\ Good(c.scripts, v) /\ Full(c.scripts, v.stack)
      /\ v.rc = 0 => main_stack # <<>> /\ Len(v.stack) = Len(main_stack) - 1
  BY <1>3, VerifyGood, Zenon
<1>6. Item(c.scripts, redeem)
  <2>1. Stack(c.scripts, Cur.saved) /\ Cur.saved # <<>>
    BY <1>3, InnermostIs, Zenon DEF Frame
  <2>2. DOMAIN Cur.saved = 1 .. Len(Cur.saved) /\ Len(Cur.saved) \in Nat /\ Len(Cur.saved) >= 1
    BY <2>1, IsSeqLen, StackTop, Zenon DEF Stack
  <2>3. 1 \in DOMAIN Cur.saved
    BY <2>2
  <2> QED
    BY <2>1, <2>3, Zenon DEF Stack
<1>7. v.rc = 0 => Full(c.scripts, judged)
  <2>1. Item(c.scripts, satoshi_script_data_new_boolean(p2wsh_matches(redeem, caller)))
    BY BooleanItem, Zenon
  <2>2. ASSUME v.rc = 0 PROVE Len(v.stack) < StackAlloc
    <3>1. Len(main_stack) \in Nat /\ Len(main_stack) <= StackAlloc
      BY <1>3, <1>5, <2>2, FullFront, Zenon DEF Full
    <3> HIDE DEF v
    <3> QED
      BY <1>5, <2>2, <3>1, BoundsAssumption
  <2> QED
    BY <1>5, <2>1, <2>2, FullAppend, Zenon DEF Full
<1> HIDE DEF v, redeem, judged
<1>8. ASSUME v.rc # 0, Continue(v, frames) PROVE Turn(c.scripts)
  BY <1>3, <1>4, <1>5, <1>8, Zenon DEF Turn
<1>9. ASSUME Continue(stack_push(v.stack, redeem), <<>>), v.rc = 0 PROVE Turn(c.scripts)
  <2>1. Good(c.scripts, stack_push(v.stack, redeem))
    BY <1>5, <1>6, PushGood, Zenon
  <2> QED
    BY <1>9, <2>1, NoFrame, Zenon DEF Turn
<1>10. ASSUME v.rc = 0, segwit_done(judged, Front(frames)) PROVE Turn(c.scripts)
  BY <1>4, <1>7, <1>10, DoneTurn, Zenon
<1>11. Turn(c.scripts)
  BY <1>1, <1>8, <1>9, <1>10, Zenon
<1> QED
  BY <1>2, <1>3, <1>4, <1>11, KeptTxins, KeptUtxoes, TurnStep

LEMMA ReturnTxinStep == ASSUME NEW c \in Cases, IInv(c), ReturnTxin PROVE IInv(c)'
<1>1. /\ AtEnd("txin")
      /\ \/ txin_p2sh_scripts_post_process(main_stack, frames)
         \/ Continue(Fine(main_stack), <<>>) /\ txins' = txins
  BY Zenon DEF ReturnTxin
<1>2. /\ digests' = <<>> /\ tx' = tx /\ multisig' = multisig /\ utxoes' = utxoes
      /\ txin_index' = txin_index /\ if_depth' = if_depth /\ rawtx' = rawtx /\ results' = results
  BY DEF ReturnTxin, given
<1>3. /\ frames # <<>> /\ fault = "none" /\ multisig = <<>> /\ Last(frames).kind = "txin"
      /\ UtxoInv(c) /\ TxinInv(c.scripts) /\ Frames(c.scripts, frames) /\ Closed(c.scripts)
      /\ Full(c.scripts, main_stack) /\ if_depth = Depth(frames)
      /\ txin_index + 1 \in DOMAIN txins
  BY <1>1, EndIs
<1>4. Len(frames) = 1 /\ frames[1].kind # "pre" /\ Depth(frames) = 0
  <2>1. Last(frames).kind \in Outermost
    BY <1>3 DEF Outermost
  <2>2. Len(frames) = 1 /\ Last(frames) = frames[1] /\ Depth(frames) = 0
    BY <1>3, <2>1, AloneIs
  <2> QED
    BY <1>3, <2>2
<1>5. Turn(c.scripts) /\ TxinInv(c.scripts)'
  <2>1. ASSUME txin_p2sh_scripts_post_process(main_stack, frames)
        PROVE  Turn(c.scripts) /\ TxinInv(c.scripts)'
    BY <1>2, <1>3, <1>4, <2>1, RedeemedTurn
  <2>2. ASSUME Continue(Fine(main_stack), <<>>), txins' = txins
        PROVE  Turn(c.scripts) /\ TxinInv(c.scripts)'
    <3>1. Good(c.scripts, Fine(main_stack))
      BY <1>3, GoodOutcome, Zenon
    <3>2. Turn(c.scripts)
      BY <2>2, <3>1, NoFrame, Zenon DEF Turn
    <3> QED
      BY <1>2, <1>3, <2>2, <3>2, KeptTxins
  <2> QED
    BY <1>1, <2>1, <2>2, Zenon
<1> QED
  BY <1>2, <1>3, <1>4, <1>5, KeptUtxoes, TurnStep

LEMMA ReturnTxoutStep == ASSUME NEW c \in Cases, IInv(c), ReturnTxout PROVE IInv(c)'
<1>1. /\ AtEnd("txout") /\ Continue(Fine(main_stack), <<>>)
      /\ digests' = <<>> /\ tx' = tx /\ multisig' = multisig /\ utxoes' = utxoes /\ txins' = txins
      /\ txin_index' = txin_index /\ if_depth' = if_depth /\ rawtx' = rawtx /\ results' = results
  BY DEF ReturnTxout, given
<1>2. /\ frames # <<>> /\ fault = "none" /\ multisig = <<>> /\ Last(frames).kind = "txout"
      /\ UtxoInv(c) /\ TxinInv(c.scripts) /\ Frames(c.scripts, frames)
      /\ Full(c.scripts, main_stack) /\ if_depth = Depth(frames)
  BY <1>1, EndIs
<1>3. Depth(frames) = 0
  <2>1. Last(frames).kind \in Outermost
    BY <1>2 DEF Outermost
  <2> QED
    BY <1>2, <2>1, AloneIs
<1>4. Turn(c.scripts)
  <2>1. Good(c.scripts, Fine(main_stack))
    BY <1>2, GoodOutcome, Zenon
  <2> QED
    BY <1>1, <2>1, NoFrame, Zenon DEF Turn
<1> QED
  BY <1>1, <1>2, <1>3, <1>4, KeptTxins, KeptUtxoes, TurnStep

-----------------------------------------------------------------------------
(* The caller *)

\* Where the script of the output is looked at, no digest was computed.
LEMMA PreIs ==
    ASSUME NEW c \in Cases, IInv(c), Running, Cur.kind = "pre"
    PROVE  /\ frames # <<>> /\ fault = "none" /\ multisig = <<>> /\ digests = <<>> /\ if_depth = 0
           /\ UtxoInv(c) /\ TxinInv(c.scripts) /\ Frames(c.scripts, frames) /\ Closed(c.scripts)
           /\ Full(c.scripts, main_stack) /\ Code(c.scripts, cur_utxo.scripts)
           /\ txin_index + 1 \in DOMAIN txins /\ txin_index + 1 \in DOMAIN utxoes
           /\ phase \in Parsing /\ phase # "rejected"
<1>1. frames # <<>> /\ fault = "none" /\ multisig = <<>> /\ phase # "rejected"
  BY Zenon DEF Running
<1>2. UtxoInv(c) /\ TxinInv(c.scripts) /\ Frames(c.scripts, frames) /\ DigestInv
  BY Zenon DEF IInv
<1>3. digests = <<>>
  BY <1>1, <1>2 DEF DigestInv, Alive
<1>4. /\ Closed(c.scripts) /\ Full(c.scripts, main_stack) /\ if_depth = Depth(frames) /\ phase \in Parsing
      /\ txin_index + 1 \in 1 .. Len(tx.txins) /\ DOMAIN txins = 1 .. Len(tx.txins)
      /\ DOMAIN utxoes = 1 .. Len(tx.txins) /\ Code(c.scripts, cur_utxo.scripts)
  BY <1>1, ActiveIs
<1>5. Depth(frames) = 0
  <2>1. Last(frames).kind \in Outermost
    BY DEF Cur, Outermost
  <2> QED
    BY <1>1, <1>2, <2>1, AloneIs
<1> QED
  BY <1>1, <1>2, <1>3, <1>4, <1>5, Zenon

\* The legacy loop, moved to a position or with an item saved.
LEMMA LegacyIs ==
    ASSUME NEW S, Code(S, cur_utxo.scripts)
    PROVE  /\ Frame(S, Legacy) /\ Legacy.kind = "txout"
           /\ Frame(S, [Legacy EXCEPT !.pc = Len(Legacy.code) + 1])
           /\ [Legacy EXCEPT !.pc = Len(Legacy.code) + 1].kind = "txout"
           /\ \A x : Item(S, x) => /\ Frame(S, [Legacy EXCEPT !.saved = <<x>>])
                                   /\ [Legacy EXCEPT !.saved = <<x>>].kind = "txout"
<1>1. "txout" \in Kinds /\ "txout" # "redeem" /\ -1 \in Int /\ -1 >= -1 /\ Stack(S, <<>>)
  BY StackEmpty DEF Kinds
<1>2. Frame(S, Legacy) /\ Legacy.kind = "txout"
  BY <1>1, FrameIs DEF Legacy
<1>3. Len(Legacy.code) \in Nat
  BY <1>2, CodeLen, Zenon DEF Frame
<1> HIDE DEF Legacy
<1> DEFINE f == [Legacy EXCEPT !.pc = Len(Legacy.code) + 1]
<1>4. Frame(S, f) /\ f.kind = "txout"
  <2>1. /\ DOMAIN f = DOMAIN Legacy /\ f.kind = Legacy.kind /\ f.code = Legacy.code
        /\ f.pc = Len(Legacy.code) + 1 /\ f.base = Legacy.base /\ f.saved = Legacy.saved
    BY <1>2 DEF Frame
  <2> HIDE DEF f
  <2> QED
    BY <1>2, <1>3, <2>1 DEF Frame
<1>5. ASSUME NEW x, Item(S, x)
      PROVE  Frame(S, [Legacy EXCEPT !.saved = <<x>>]) /\ [Legacy EXCEPT !.saved = <<x>>].kind = "txout"
  <2> DEFINE g == [Legacy EXCEPT !.saved = <<x>>]
  <2>1. /\ DOMAIN g = DOMAIN Legacy /\ g.kind = Legacy.kind /\ g.code = Legacy.code
        /\ g.pc = Legacy.pc /\ g.base = Legacy.base /\ g.saved = <<x>>
    BY <1>2 DEF Frame
  <2>2. Stack(S, <<x>>) /\ <<x>> # <<>>
    BY <1>5, StackOne
  <2> HIDE DEF g
  <2>3. Frame(S, g) /\ g.kind = "txout"
    BY <1>2, <2>1, <2>2 DEF Frame
  <2> QED
    BY <2>3 DEF g
<1> QED
  BY <1>2, <1>4, <1>5, Zenon

\* A redeem script is set where there was none.
LEMMA RedeemSet ==
    ASSUME NEW S, TxinInv(S), tx' = tx, txin_index + 1 \in DOMAIN txins, cur_txin.redeem_scripts = <<>>,
           NEW script, Code(S, script), txins' = [txins EXCEPT ![txin_index + 1].redeem_scripts = script]
    PROVE  TxinInv(S)'
<1> DEFINE i == txin_index + 1
           updated == [cur_txin EXCEPT !.redeem_scripts = script]
<1>1. TxinGood(S, cur_txin) /\ cur_txin = txins[i]
  BY Zenon DEF TxinInv, TxinGood, TxinFields, cur_txin
<1>2. cur_txin.redeem_scripts_start_pos \in 0 .. Len(script)
  <2>1. Len(script) \in Nat
    BY CodeLen
  <2>2. Len(cur_txin.redeem_scripts) = 0
    OBVIOUS
  <2>3. cur_txin.redeem_scripts_start_pos = 0
    BY <1>1, <2>2 DEF TxinGood
  <2> QED
    BY <2>1, <2>3
<1>3. TxinGood(S, updated)
  <2>1. /\ DOMAIN updated = TxinFields /\ updated.redeem_scripts = script
        /\ updated.redeem_scripts_start_pos = cur_txin.redeem_scripts_start_pos
    BY <1>1 DEF TxinGood, TxinFields
  <2> HIDE DEF updated
  <2> QED
    BY <1>2, <2>1 DEF TxinGood
<1>4. txins' = [txins EXCEPT ![i] = updated]
  BY <1>1
<1> HIDE DEF updated
<1> QED
  BY <1>3, <1>4, TxinUpdated, Zenon

LEMMA PreProcessLegacyStep == ASSUME NEW c \in Cases, IInv(c), PreProcessLegacy PROVE IInv(c)'
<1>1. /\ Running /\ Cur.kind = "pre" /\ frames' = <<Legacy>>
      /\ tx' = tx /\ multisig' = multisig /\ utxoes' = utxoes /\ txin_index' = txin_index
      /\ main_stack' = main_stack /\ if_depth' = if_depth /\ rawtx' = rawtx /\ phase' = phase
      /\ results' = results /\ digests' = digests /\ fault' = fault
  BY DEF PreProcessLegacy, given
<1>2. /\ multisig = <<>> /\ digests = <<>> /\ if_depth = 0
      /\ UtxoInv(c) /\ TxinInv(c.scripts) /\ Code(c.scripts, cur_utxo.scripts)
      /\ txin_index + 1 \in DOMAIN txins /\ phase \in Parsing
  BY <1>1, PreIs
<1>3. StackInv(c.scripts) /\ ControlInv /\ DepthInv /\ CacheInv
  BY Zenon DEF IInv
<1>4. Frames(c.scripts, frames') /\ Depth(frames') = 0
  <2>1. Frame(c.scripts, Legacy) /\ Legacy.kind = "txout"
    BY <1>2, LegacyIs, Zenon
  <2>2. Legacy.kind \in Outermost
    BY <2>1 DEF Outermost
  <2> QED
    BY <1>1, <2>1, <2>2, OneFrame, Zenon
<1>5. TxinInv(c.scripts)'
  <2>1. CASE txins' = txins
    BY <1>1, <1>2, <2>1, KeptTxins
  <2>2. CASE txins' # txins
    <3>1. /\ cur_txin.redeem_scripts = <<>>
          /\ txins' = [txins EXCEPT ![txin_index + 1].redeem_scripts = cur_utxo.scripts]
      BY <2>2, Zenon DEF PreProcessLegacy
    <3> QED
      BY <1>1, <1>2, <3>1, RedeemSet
  <2> QED
    BY <2>1, <2>2
<1>6. StackInv(c.scripts)' /\ CacheInv'
  BY <1>1, <1>3 DEF StackInv, CacheInv
<1>7. ControlInv' /\ MultisigInv'
  BY <1>1, <1>2, <1>3 DEF ControlInv, MultisigInv
<1>8. DepthInv'
  BY <1>1, <1>2, <1>4, BoundsAssumption DEF DepthInv
<1> QED
  BY <1>1, <1>2, <1>4, <1>5, <1>6, <1>7, <1>8, NoDigests, KeptUtxoes, Zenon DEF IInv

\* The witness items of the current input.
LEMMA WitnessGood ==
    ASSUME NEW c \in Cases, UtxoInv(c), txin_index + 1 \in DOMAIN utxoes, NEW s, Full(c.scripts, s)
    PROVE  /\ Good(c.scripts, push_witness(s, txin_index))
           /\ Full(c.scripts, push_witness(s, txin_index).stack)
<1>1. tx = c.tx /\ txin_index + 1 \in DOMAIN c.tx.txins
  BY Zenon DEF UtxoInv
<1>2. txin_index + 1 \in 1 .. Len(c.tx.txins)
  BY <1>1, CaseIs
<1>3. /\ Len(Witness(txin_index)) \in Nat
      /\ \A j \in 1 .. Len(Witness(txin_index)) : Known(c.scripts, Witness(txin_index)[j])
  BY <1>1, <1>2, CaseIs, Zenon DEF Witness
<1>4. Good(c.scripts, push_witness(s, txin_index))
  BY <1>3, PushWitnessGood, Zenon
<1> QED
  BY <1>4, Zenon DEF Good, Full

LEMMA PreProcessNativeStep == ASSUME NEW c \in Cases, IInv(c), PreProcessNative PROVE IInv(c)'
<1> DEFINE w == push_witness(main_stack, txin_index)
           f == [Legacy EXCEPT !.pc = Len(Legacy.code) + 1]
<1>1. /\ Running /\ Cur.kind = "pre"
      /\ \/ w.fault # "none" /\ Continue(w, frames) /\ txins' = txins
         \/ parse_segwit_script(cur_utxo.scripts, w.stack, <<f>>)
  BY Zenon DEF PreProcessNative
<1>2. /\ tx' = tx /\ multisig' = multisig /\ utxoes' = utxoes /\ txin_index' = txin_index
      /\ if_depth' = if_depth /\ rawtx' = rawtx /\ results' = results /\ digests' = digests
  BY DEF PreProcessNative, given
<1>3. /\ frames # <<>> /\ fault = "none" /\ multisig = <<>> /\ digests = <<>> /\ if_depth = 0
      /\ UtxoInv(c) /\ TxinInv(c.scripts) /\ Closed(c.scripts)
      /\ Full(c.scripts, main_stack) /\ Code(c.scripts, cur_utxo.scripts)
      /\ txin_index + 1 \in DOMAIN txins /\ txin_index + 1 \in DOMAIN utxoes
  BY <1>1, PreIs
<1>4. Good(c.scripts, w) /\ Full(c.scripts, w.stack)
  BY <1>3, WitnessGood
<1>5. Turn(c.scripts) /\ TxinInv(c.scripts)'
  <2>1. ASSUME w.fault # "none", Continue(w, frames), txins' = txins
        PROVE  Turn(c.scripts) /\ TxinInv(c.scripts)'
    <3>1. TxinInv(c.scripts)'
      BY <1>2, <1>3, <2>1, KeptTxins
    <3> HIDE DEF w
    <3> QED
      BY <1>4, <2>1, <3>1, Zenon DEF Turn
  <2>2. ASSUME parse_segwit_script(cur_utxo.scripts, w.stack, <<f>>)
        PROVE  Turn(c.scripts) /\ TxinInv(c.scripts)'
    <3>1. Frame(c.scripts, f) /\ f.kind = "txout"
      BY <1>3, LegacyIs, Zenon
    <3>2. f.kind \in Outermost /\ f.kind # "pre"
      BY <3>1 DEF Outermost
    <3> HIDE DEF f
    <3>3. Frames(c.scripts, <<f>>) /\ <<f>> # <<>> /\ Len(<<f>>) = 1 /\ <<f>>[1] = f
      BY <3>1, <3>2, OneFrame
    <3>4. <<f>>[1].kind # "pre"
      BY <3>2, <3>3
    <3> HIDE DEF w
    <3> QED
      BY <1>2, <1>3, <1>4, <2>2, <3>3, <3>4, ProgramTurn
  <2> QED
    BY <1>1, <2>1, <2>2, Zenon
<1> QED
  BY <1>2, <1>3, <1>5, KeptUtxoes, TurnStep

LEMMA PreProcessNestedStep == ASSUME NEW c \in Cases, IInv(c), PreProcessNested PROVE IInv(c)'
<1> DEFINE item == Top(main_stack)
           w == push_witness(Front(main_stack), txin_index)
           f == [Legacy EXCEPT !.saved = <<item>>]
           i == txin_index + 1
<1>1. /\ Running /\ Cur.kind = "pre" /\ utxoes' = [utxoes EXCEPT ![i].p2sh_segwit = TRUE]
      /\ \/ Continue(Refuse(main_stack), frames) /\ txins' = txins
         \/ Continue(Crash("assert: witness program"), frames) /\ txins' = txins
         \/ main_stack # <<>> /\ w.fault # "none" /\ Continue(w, frames) /\ txins' = txins
         \/ main_stack # <<>> /\ parse_segwit_script(code_of(item.v), w.stack, <<f>>)
  BY Zenon DEF PreProcessNested
<1>2. /\ tx' = tx /\ multisig' = multisig /\ txin_index' = txin_index
      /\ if_depth' = if_depth /\ rawtx' = rawtx /\ results' = results /\ digests' = digests
  BY DEF PreProcessNested, given
<1>3. /\ frames # <<>> /\ fault = "none" /\ multisig = <<>> /\ digests = <<>> /\ if_depth = 0
      /\ UtxoInv(c) /\ TxinInv(c.scripts) /\ Closed(c.scripts)
      /\ Full(c.scripts, main_stack) /\ Code(c.scripts, cur_utxo.scripts)
      /\ i \in DOMAIN txins /\ i \in DOMAIN utxoes
  BY <1>1, PreIs
<1>4. UtxoInv(c)'
  <2> HIDE DEF i
  <2>1. /\ DOMAIN utxoes' = DOMAIN utxoes
        /\ \A j \in DOMAIN utxoes : j # i => utxoes'[j] = utxoes[j]
        /\ DOMAIN utxoes'[i] = DOMAIN utxoes[i] /\ utxoes'[i].scripts = utxoes[i].scripts
    BY <1>1, <1>3 DEF UtxoInv
  <2> QED
    BY <1>2, <1>3, <2>1 DEF UtxoInv
<1>5. ASSUME NEW res, Good(c.scripts, res), ~(res.fault = "none" /\ res.rc = 0), Continue(res, frames), txins' = txins
      PROVE  Turn(c.scripts) /\ TxinInv(c.scripts)'
  <2>1. TxinInv(c.scripts)'
    BY <1>2, <1>3, <1>5, KeptTxins
  <2> QED
    BY <1>5, <2>1, Zenon DEF Turn
<1>6. Good(c.scripts, Refuse(main_stack)) /\ Refuse(main_stack).rc # 0
  BY <1>3, GoodOutcome, RefuseIs, Zenon
<1>7. Good(c.scripts, Crash("assert: witness program")) /\ Crash("assert: witness program").rc # 0
  <2>1. "assert: witness program" # OutOfOrder
    BY DEF OutOfOrder
  <2> QED
    BY <2>1, GoodCrash, CrashIs, Zenon
<1>8. main_stack # <<>> => Item(c.scripts, item) /\ Good(c.scripts, w) /\ Full(c.scripts, w.stack)
  <2>1. main_stack # <<>> => Full(c.scripts, Front(main_stack)) /\ Item(c.scripts, item)
    BY <1>3, FullFront, Zenon
  <2> QED
    BY <1>3, <2>1, WitnessGood, Zenon
<1>9. ASSUME main_stack # <<>>, parse_segwit_script(code_of(item.v), w.stack, <<f>>)
      PROVE  Turn(c.scripts) /\ TxinInv(c.scripts)'
  <2>1. Frame(c.scripts, f) /\ f.kind = "txout"
    BY <1>3, <1>8, <1>9, LegacyIs, Zenon
  <2>2. f.kind \in Outermost /\ f.kind # "pre"
    BY <2>1 DEF Outermost
  <2> HIDE DEF f
  <2>3. Frames(c.scripts, <<f>>) /\ <<f>> # <<>> /\ Len(<<f>>) = 1 /\ <<f>>[1] = f
    BY <2>1, <2>2, OneFrame
  <2>4. <<f>>[1].kind # "pre"
    BY <2>2, <2>3
  <2> DEFINE code == code_of(item.v)
  <2> HIDE DEF w, code, item
  <2> QED
    BY <1>2, <1>3, <1>8, <1>9, <2>3, <2>4, ProgramTurn DEF code
<1>10. Turn(c.scripts) /\ TxinInv(c.scripts)'
  <2> HIDE DEF w, f, item
  <2> QED
    BY <1>1, <1>5, <1>6, <1>7, <1>8, <1>9, Zenon
<1> QED
  BY <1>2, <1>3, <1>4, <1>10, TurnStep

\* Between two scripts there is no call, no loop and no digest.
LEMMA CallingIs ==
    ASSUME NEW c \in Cases, IInv(c), NEW p, p \notin {"rejected", "done"}, Calling(p)
    PROVE  /\ frames = <<>> /\ fault = "none" /\ phase = p /\ multisig = <<>> /\ digests = <<>> /\ if_depth = 0
           /\ UtxoInv(c) /\ TxinInv(c.scripts) /\ Full(c.scripts, main_stack)
           /\ txin_index \in Nat /\ Len(tx.txins) \in Nat /\ txin_index <= Len(tx.txins)
           /\ results \in Seq({"accepted", "skipped"}) /\ Len(results) = txin_index
           /\ p \in Parsing => txin_index < Len(tx.txins)
           /\ p # "attach" => CacheOf(rawtx, tx, txin_index)
<1>1. frames = <<>> /\ fault = "none" /\ phase = p
  BY DEF Calling
<1>2. /\ UtxoInv(c) /\ TxinInv(c.scripts) /\ StackInv(c.scripts) /\ ControlInv /\ DepthInv
      /\ MultisigInv /\ CacheInv /\ DigestInv
  BY Zenon DEF IInv
<1>3. multisig = <<>> /\ digests = <<>>
  BY <1>1, <1>2 DEF MultisigInv, DigestInv, Alive
<1>4. if_depth = 0
  BY <1>1, <1>2 DEF DepthInv, Alive, Depth
<1>5. Len(tx.txins) \in Nat
  BY <1>2, CaseIs DEF UtxoInv
<1>6. /\ txin_index \in Nat /\ txin_index <= Len(tx.txins)
      /\ results \in Seq({"accepted", "skipped"}) /\ Len(results) = txin_index
      /\ p \in Parsing => txin_index < Len(tx.txins)
  BY <1>1, <1>2, <1>5 DEF ControlInv
<1>7. p # "attach" => CacheOf(rawtx, tx, txin_index)
  BY <1>1, <1>2 DEF CacheInv
<1> QED
  BY <1>1, <1>2, <1>3, <1>4, <1>5, <1>6, <1>7, Zenon DEF StackInv, Full

\* The caller's steps, which change neither the inputs nor the outputs.
LEMMA CallerStep ==
    ASSUME NEW c \in Cases, UtxoInv(c), TxinInv(c.scripts), tx' = tx, utxoes' = utxoes, txins' = txins,
           multisig' = <<>>, digests' = <<>>, if_depth = 0, if_depth' = if_depth,
           Full(c.scripts, main_stack)', Frames(c.scripts, frames'), Depth(frames') = 0,
           ControlInv', CacheInv'
    PROVE  IInv(c)'
<1>1. StackInv(c.scripts)'
  BY DEF StackInv, Full
<1>2. DepthInv'
  <2>1. 0 \in 0 .. MaxIfDepth + 1 /\ 0 <= MaxIfDepth
    BY BoundsAssumption
  <2> QED
    BY <2>1 DEF DepthInv
<1>3. MultisigInv'
  BY DEF MultisigInv
<1> QED
  BY <1>1, <1>2, <1>3, NoDigests, KeptTxins, KeptUtxoes, Zenon DEF IInv

LEMMA AttachStep == ASSUME NEW c \in Cases, IInv(c), scripts_attach_tx PROVE IInv(c)'
<1>1. /\ Calling("attach") /\ rawtx' = satoshi_rawtx_attach(tx) /\ phase' = "txin"
      /\ tx' = tx /\ multisig' = multisig /\ utxoes' = utxoes /\ txins' = txins /\ txin_index' = txin_index
      /\ main_stack' = main_stack /\ frames' = frames /\ if_depth' = if_depth /\ results' = results
      /\ digests' = digests /\ fault' = fault
  BY DEF scripts_attach_tx, given
<1>2. /\ frames = <<>> /\ fault = "none" /\ multisig = <<>> /\ digests = <<>> /\ if_depth = 0
      /\ UtxoInv(c) /\ TxinInv(c.scripts) /\ Full(c.scripts, main_stack)
      /\ txin_index \in Nat /\ Len(tx.txins) \in Nat /\ txin_index <= Len(tx.txins)
      /\ results \in Seq({"accepted", "skipped"}) /\ Len(results) = txin_index
  BY <1>1, CallingIs
<1>3. Frames(c.scripts, frames') /\ Depth(frames') = 0
  BY <1>1, <1>2, NoFrame
<1>4. ControlInv'
  BY <1>1, <1>2 DEF ControlInv, Parsing, OutOfOrder
<1>5. CacheInv'
  <2>1. CacheOf(satoshi_rawtx_attach(tx), tx, txin_index)
    BY <1>2 DEF CacheOf, satoshi_rawtx_attach, header
  <2> QED
    BY <1>1, <2>1, Zenon DEF CacheInv
<1>6. Full(c.scripts, main_stack)'
  BY <1>1, <1>2 DEF Full
<1> QED
  BY <1>1, <1>2, <1>3, <1>4, <1>5, <1>6, CallerStep

\* The cache of an input serves the next one.
LEMMA CacheOfNext ==
    ASSUME NEW r, NEW t, NEW i \in Nat, CacheOf(r, t, i) PROVE CacheOf(r, t, i + 1)
<1>1. r.last_hashed_txin_index \in -1 .. i + 1 /\ i + 1 # 0
  BY DEF CacheOf
<1> QED
  BY <1>1 DEF CacheOf

LEMMA ParseTxinStep == ASSUME NEW c \in Cases, IInv(c), ParseTxin PROVE IInv(c)'
<1> DEFINE code == txin_at(tx, txin_index).scripts
           f == frame("txin", code, -1, <<>>)
           g == IF code[1].op = "0" THEN [f EXCEPT !.pc = 2] ELSE f
<1>1. /\ Calling("txin") /\ txin_index < Len(tx.txins)
      /\ \/ code # <<>> /\ frames' = <<g>> /\ phase' = "txout" /\ txin_index' = txin_index /\ results' = results
         \/ /\ results' = Append(results, "skipped") /\ txin_index' = txin_index + 1
            /\ frames' = frames /\ phase' = phase
         \/ phase' = "txout" /\ frames' = frames /\ txin_index' = txin_index /\ results' = results
  BY Zenon DEF ParseTxin
<1>2. /\ tx' = tx /\ multisig' = multisig /\ utxoes' = utxoes /\ txins' = txins
      /\ main_stack' = main_stack /\ if_depth' = if_depth /\ rawtx' = rawtx
      /\ digests' = digests /\ fault' = fault
  BY DEF ParseTxin, given
<1>3. /\ frames = <<>> /\ fault = "none" /\ phase = "txin" /\ multisig = <<>> /\ digests = <<>> /\ if_depth = 0
      /\ UtxoInv(c) /\ TxinInv(c.scripts) /\ Full(c.scripts, main_stack)
      /\ txin_index \in Nat /\ Len(tx.txins) \in Nat /\ txin_index <= Len(tx.txins)
      /\ results \in Seq({"accepted", "skipped"}) /\ Len(results) = txin_index
      /\ CacheOf(rawtx, tx, txin_index)
  BY <1>1, CallingIs
<1>4. Full(c.scripts, main_stack)'
  BY <1>2, <1>3 DEF Full
<1>5. ASSUME code # <<>> PROVE Frames(c.scripts, <<g>>) /\ Depth(<<g>>) = 0
  <2>1. Code(c.scripts, code)
    <3>1. tx = c.tx /\ txin_index + 1 \in 1 .. Len(c.tx.txins)
      BY <1>1, <1>3 DEF UtxoInv
    <3>2. code \in c.scripts /\ Closed(c.scripts)
      BY <3>1, CaseIs DEF txin_at
    <3> QED
      BY <3>2, CodeGiven, Zenon
  <2>2. Len(code) \in Nat /\ Len(code) >= 1
    BY <1>5, <2>1, CodeLen
  <2>3. Frame(c.scripts, f) /\ f.kind = "txin"
    <3>1. "txin" \in Kinds /\ "txin" # "redeem" /\ -1 \in Int /\ -1 >= -1 /\ Stack(c.scripts, <<>>)
      BY StackEmpty DEF Kinds
    <3> HIDE DEF code
    <3> QED
      BY <2>1, <3>1, FrameIs
  <2>4. f.code = code
    BY DEF frame
  <2> DEFINE h == [f EXCEPT !.pc = 2]
  <2> HIDE DEF f, code
  <2>5. Frame(c.scripts, h) /\ h.kind = "txin"
    <3>1. /\ DOMAIN h = DOMAIN f /\ h.kind = f.kind /\ h.code = f.code
          /\ h.pc = 2 /\ h.base = f.base /\ h.saved = f.saved
      BY <2>3 DEF Frame
    <3>2. 2 \in 1 .. Len(f.code) + 1
      BY <2>2, <2>4
    <3> HIDE DEF h
    <3> QED
      BY <2>3, <3>1, <3>2 DEF Frame
  <2>6. Frame(c.scripts, g) /\ g.kind = "txin"
    BY <2>3, <2>5, Zenon
  <2>7. g.kind \in Outermost
    BY <2>6 DEF Outermost
  <2> HIDE DEF g
  <2> QED
    BY <2>6, <2>7, OneFrame
<1> HIDE DEF g, code
<1>6. CASE code # <<>> /\ frames' = <<g>> /\ phase' = "txout" /\ txin_index' = txin_index /\ results' = results
  <2>1. ControlInv'
    BY <1>1, <1>2, <1>3, <1>6 DEF ControlInv, Parsing, OutOfOrder
  <2>2. CacheInv'
    BY <1>2, <1>3, <1>6 DEF CacheInv
  <2> QED
    BY <1>2, <1>3, <1>4, <1>5, <1>6, <2>1, <2>2, CallerStep
<1>7. CASE /\ results' = Append(results, "skipped") /\ txin_index' = txin_index + 1
           /\ frames' = frames /\ phase' = phase
  <2>1. results' \in Seq({"accepted", "skipped"}) /\ Len(results') = txin_index + 1
    BY <1>3, <1>7
  <2>2. ControlInv'
    BY <1>1, <1>2, <1>3, <1>7, <2>1 DEF ControlInv, Parsing, OutOfOrder
  <2>3. CacheInv'
    <3>1. CacheOf(rawtx, tx, txin_index + 1)
      BY <1>3, CacheOfNext
    <3> QED
      BY <1>2, <1>7, <3>1, Zenon DEF CacheInv
  <2>4. Frames(c.scripts, frames') /\ Depth(frames') = 0
    BY <1>3, <1>7, NoFrame
  <2> QED
    BY <1>2, <1>3, <1>4, <2>2, <2>3, <2>4, CallerStep
<1>8. CASE phase' = "txout" /\ frames' = frames /\ txin_index' = txin_index /\ results' = results
  <2>1. ControlInv'
    BY <1>1, <1>2, <1>3, <1>8 DEF ControlInv, Parsing, OutOfOrder
  <2>2. CacheInv'
    BY <1>2, <1>3, <1>8 DEF CacheInv
  <2>3. Frames(c.scripts, frames') /\ Depth(frames') = 0
    BY <1>3, <1>8, NoFrame
  <2> QED
    BY <1>2, <1>3, <1>4, <2>1, <2>2, <2>3, CallerStep
<1> QED
  BY <1>1, <1>6, <1>7, <1>8, Zenon

LEMMA ParseTxoutStep == ASSUME NEW c \in Cases, IInv(c), ParseTxout PROVE IInv(c)'
<1> DEFINE f == frame("pre", cur_utxo.scripts, -1, <<>>)
<1>1. /\ Calling("txout") /\ phase' = "verify"
      /\ frames' = <<>> \/ frames' = <<f>>
      /\ tx' = tx /\ multisig' = multisig /\ utxoes' = utxoes /\ txins' = txins /\ txin_index' = txin_index
      /\ main_stack' = main_stack /\ if_depth' = if_depth /\ rawtx' = rawtx /\ results' = results
      /\ digests' = digests /\ fault' = fault
  BY DEF ParseTxout, given
<1>2. /\ frames = <<>> /\ fault = "none" /\ multisig = <<>> /\ digests = <<>> /\ if_depth = 0
      /\ UtxoInv(c) /\ TxinInv(c.scripts) /\ Full(c.scripts, main_stack)
      /\ txin_index \in Nat /\ Len(tx.txins) \in Nat /\ txin_index < Len(tx.txins)
      /\ results \in Seq({"accepted", "skipped"}) /\ Len(results) = txin_index
      /\ CacheOf(rawtx, tx, txin_index)
  BY <1>1, CallingIs DEF Parsing
<1>3. Frames(c.scripts, frames') /\ Depth(frames') = 0
  <2>1. Code(c.scripts, cur_utxo.scripts)
    <3>1. txin_index + 1 \in DOMAIN utxoes
      BY <1>2, CaseIs DEF UtxoInv
    <3>2. cur_utxo.scripts \in c.scripts
      BY <1>2, <3>1 DEF UtxoInv, cur_utxo
    <3> QED
      BY <3>2, CaseIs, CodeGiven
  <2>2. Frame(c.scripts, f) /\ f.kind = "pre"
    <3>1. "pre" \in Kinds /\ "pre" # "redeem" /\ -1 \in Int /\ -1 >= -1 /\ Stack(c.scripts, <<>>)
      BY StackEmpty DEF Kinds
    <3> QED
      BY <2>1, <3>1, FrameIs
  <2>3. f.kind \in Outermost
    BY <2>2 DEF Outermost
  <2> HIDE DEF f
  <2>4. Frames(c.scripts, <<f>>) /\ Depth(<<f>>) = 0
    BY <2>2, <2>3, OneFrame
  <2> QED
    BY <1>1, <2>4, NoFrame
<1>4. ControlInv'
  BY <1>1, <1>2 DEF ControlInv, Parsing, OutOfOrder
<1>5. CacheInv'
  BY <1>1, <1>2 DEF CacheInv
<1>6. Full(c.scripts, main_stack)'
  BY <1>1, <1>2 DEF Full
<1> QED
  BY <1>1, <1>2, <1>3, <1>4, <1>5, <1>6, CallerStep

LEMMA VerifyInputStep == ASSUME NEW c \in Cases, IInv(c), VerifyInput PROVE IInv(c)'
<1> DEFINE v == scripts_verify(main_stack)
<1>1. /\ Calling("verify") /\ main_stack' = v.stack
      /\ \/ results' = Append(results, "accepted") /\ txin_index' = txin_index + 1 /\ phase' = "txin"
         \/ phase' = "rejected" /\ results' = results /\ txin_index' = txin_index
      /\ digests' = <<>> /\ tx' = tx /\ multisig' = multisig /\ utxoes' = utxoes /\ txins' = txins
      /\ frames' = frames /\ if_depth' = if_depth /\ rawtx' = rawtx /\ fault' = fault
  BY DEF VerifyInput, given
<1>2. /\ frames = <<>> /\ fault = "none" /\ multisig = <<>> /\ if_depth = 0
      /\ UtxoInv(c) /\ TxinInv(c.scripts) /\ Full(c.scripts, main_stack)
      /\ txin_index \in Nat /\ Len(tx.txins) \in Nat /\ txin_index < Len(tx.txins)
      /\ results \in Seq({"accepted", "skipped"}) /\ Len(results) = txin_index
      /\ CacheOf(rawtx, tx, txin_index)
  BY <1>1, CallingIs DEF Parsing
<1>3. Frames(c.scripts, frames') /\ Depth(frames') = 0
  BY <1>1, <1>2, NoFrame
<1>4. Full(c.scripts, main_stack)'
  BY <1>1, <1>2, VerifyGood DEF Full
<1> HIDE DEF v
<1>5. CASE results' = Append(results, "accepted") /\ txin_index' = txin_index + 1 /\ phase' = "txin"
  <2>1. results' \in Seq({"accepted", "skipped"}) /\ Len(results') = txin_index + 1
    BY <1>2, <1>5
  <2>2. ControlInv'
    BY <1>1, <1>2, <1>5, <2>1 DEF ControlInv, Parsing, OutOfOrder
  <2>3. CacheInv'
    <3>1. CacheOf(rawtx, tx, txin_index + 1)
      BY <1>2, CacheOfNext
    <3> QED
      BY <1>1, <1>5, <3>1, Zenon DEF CacheInv
  <2> QED
    BY <1>1, <1>2, <1>3, <1>4, <2>2, <2>3, CallerStep
<1>6. CASE phase' = "rejected" /\ results' = results /\ txin_index' = txin_index
  <2>1. ControlInv'
    BY <1>1, <1>2, <1>6 DEF ControlInv, Parsing, OutOfOrder
  <2>2. CacheInv'
    BY <1>1, <1>2, <1>6 DEF CacheInv
  <2> QED
    BY <1>1, <1>2, <1>3, <1>4, <2>1, <2>2, CallerStep
<1> QED
  BY <1>1, <1>5, <1>6, Zenon

LEMMA DetachStep == ASSUME NEW c \in Cases, IInv(c), scripts_detach_tx PROVE IInv(c)'
<1>1. /\ Calling("txin") /\ phase' = "done"
      /\ tx' = tx /\ multisig' = multisig /\ utxoes' = utxoes /\ txins' = txins /\ txin_index' = txin_index
      /\ main_stack' = main_stack /\ frames' = frames /\ if_depth' = if_depth /\ results' = results
      /\ digests' = digests /\ fault' = fault
  BY DEF scripts_detach_tx, given
<1>2. /\ frames = <<>> /\ fault = "none" /\ multisig = <<>> /\ digests = <<>> /\ if_depth = 0
      /\ UtxoInv(c) /\ TxinInv(c.scripts) /\ Full(c.scripts, main_stack)
      /\ txin_index \in Nat /\ Len(tx.txins) \in Nat /\ txin_index <= Len(tx.txins)
      /\ results \in Seq({"accepted", "skipped"}) /\ Len(results) = txin_index
  BY <1>1, CallingIs
<1>3. Frames(c.scripts, frames') /\ Depth(frames') = 0
  BY <1>1, <1>2, NoFrame
<1>4. ControlInv'
  BY <1>1, <1>2 DEF ControlInv, Parsing, OutOfOrder
<1>5. CacheInv'
  BY <1>1 DEF CacheInv
<1>6. Full(c.scripts, main_stack)'
  BY <1>1, <1>2 DEF Full
<1> QED
  BY <1>1, <1>2, <1>3, <1>4, <1>5, <1>6, CallerStep

-----------------------------------------------------------------------------
(* The invariant holds *)

Inv == \E c \in Cases : IInv(c)

LEMMA InitInv == Init => Inv
<1>1. SUFFICES ASSUME Init PROVE Inv
  OBVIOUS
<1>2. PICK c \in Cases :
        /\ tx = c.tx /\ utxoes = c.utxoes
        /\ txins = [i \in DOMAIN c.tx.txins |->
                      [redeem_scripts |-> <<>>, redeem_scripts_start_pos |-> 0, is_p2sh |-> FALSE]]
        /\ txin_index = 0 /\ main_stack = <<>> /\ frames = <<>> /\ if_depth = 0 /\ multisig = <<>>
        /\ phase = "attach" /\ results = <<>> /\ digests = <<>> /\ fault = "none"
  BY <1>1, Zenon DEF Init
<1>3. /\ Len(c.tx.txins) \in Nat \ {0} /\ DOMAIN c.tx.txins = 1 .. Len(c.tx.txins)
      /\ c.utxoes \in Seq(Utxoes(c.scripts)) /\ Len(c.utxoes) = Len(c.tx.txins)
  BY CaseIs
<1>4. UtxoInv(c)
  <2>1. DOMAIN utxoes = 1 .. Len(c.tx.txins)
    BY <1>2, <1>3
  <2>2. ASSUME NEW i \in DOMAIN utxoes
        PROVE  DOMAIN utxoes[i] = {"scripts", "value", "p2sh_segwit", "type"} /\ utxoes[i].scripts \in c.scripts
    <3>1. utxoes[i] \in Utxoes(c.scripts)
      BY <1>2, <1>3
    <3> QED
      BY <3>1 DEF Utxoes
  <2> QED
    BY <1>2, <1>3, <2>1, <2>2 DEF UtxoInv
<1>5. TxinInv(c.scripts)
  <2>1. Code(c.scripts, <<>>) /\ 0 \in 0 .. Len(<<>>)
    BY CodeEmpty
  <2>2. DOMAIN txins = DOMAIN tx.txins
    BY <1>2
  <2>3. ASSUME NEW i \in DOMAIN txins PROVE TxinGood(c.scripts, txins[i])
    <3>1. txins[i] = [redeem_scripts |-> <<>>, redeem_scripts_start_pos |-> 0, is_p2sh |-> FALSE]
      BY <1>2
    <3> QED
      BY <2>1, <3>1 DEF TxinGood, TxinFields
  <2> QED
    BY <2>2, <2>3, Zenon DEF TxinInv, TxinGood, TxinFields
<1>6. StackInv(c.scripts) /\ Frames(c.scripts, frames) /\ Depth(frames) = 0
  BY <1>2, NoFrame, FullEmpty, Zenon DEF StackInv, Full
<1>7. ControlInv
  BY <1>2, <1>3 DEF ControlInv, Parsing, OutOfOrder
<1>8. DepthInv
  BY <1>2, <1>6, BoundsAssumption DEF DepthInv
<1>9. MultisigInv /\ CacheInv /\ DigestInv /\ WitnessDigestsRight /\ LegacyDigestsRight
  <2>1. DOMAIN digests = {}
    BY <1>2
  <2> QED
    BY <1>2, <2>1 DEF MultisigInv, CacheInv, DigestInv, WitnessDigestsRight, LegacyDigestsRight
<1>10. IInv(c)
  BY <1>4, <1>5, <1>6, <1>7, <1>8, <1>9, Zenon DEF IInv
<1> QED
  BY <1>10, Zenon DEF Inv

LEMMA StutterInv == ASSUME NEW c, IInv(c), UNCHANGED vars PROVE IInv(c)'
<1>1. /\ tx' = tx /\ utxoes' = utxoes /\ txins' = txins /\ txin_index' = txin_index
      /\ main_stack' = main_stack /\ frames' = frames /\ if_depth' = if_depth /\ multisig' = multisig
      /\ rawtx' = rawtx /\ phase' = phase /\ results' = results /\ digests' = digests /\ fault' = fault
  BY DEF vars
<1>2. /\ UtxoInv(c) /\ TxinInv(c.scripts) /\ StackInv(c.scripts) /\ Frames(c.scripts, frames)
      /\ ControlInv /\ DepthInv /\ MultisigInv /\ CacheInv /\ DigestInv
      /\ WitnessDigestsRight /\ LegacyDigestsRight
  BY Zenon DEF IInv
<1>3. UtxoInv(c)' /\ TxinInv(c.scripts)' /\ StackInv(c.scripts)' /\ Frames(c.scripts, frames')
  BY <1>1, <1>2, KeptTxins, KeptUtxoes DEF StackInv
<1>4. ControlInv' /\ DepthInv' /\ MultisigInv' /\ CacheInv' /\ DigestInv'
  BY <1>1, <1>2 DEF ControlInv, DepthInv, Alive, MultisigInv, Cur, CacheInv, DigestInv
<1>5. WitnessDigestsRight' /\ LegacyDigestsRight'
  BY <1>1, <1>2 DEF WitnessDigestsRight, LegacyDigestsRight, cur_utxo
<1> QED
  BY <1>3, <1>4, <1>5, Zenon DEF IInv

LEMMA StepInv == Inv /\ [Next]_vars => Inv'
<1>1. SUFFICES ASSUME NEW c \in Cases, IInv(c), [Next]_vars PROVE IInv(c)'
  <2>1. SUFFICES ASSUME Inv, [Next]_vars PROVE Inv'
    OBVIOUS
  <2>2. PICK c \in Cases : IInv(c)
    BY <2>1, Zenon DEF Inv
  <2>3. IInv(c)'
    BY <1>1, <2>1, <2>2
  <2> QED
    BY <2>3 DEF Inv
<1>2. CASE scripts_attach_tx \/ ParseTxin \/ ParseTxout
  BY <1>1, <1>2, AttachStep, ParseTxinStep, ParseTxoutStep, Zenon
<1>3. CASE PreProcessLegacy \/ PreProcessNative \/ PreProcessNested
  BY <1>1, <1>3, PreProcessLegacyStep, PreProcessNativeStep, PreProcessNestedStep, Zenon
<1>4. CASE OpStack \/ OpSigned \/ OpMultisig \/ CheckMultisig \/ OpCodeseparator \/ OpIf
  BY <1>1, <1>4, OpStackStep, OpSignedStep, OpMultisigStep, CheckMultisigStep, OpCodeseparatorStep,
     OpIfStep, Zenon
<1>5. CASE ReturnBlock \/ ReturnWpkh \/ ReturnRedeem \/ ReturnTxin \/ ReturnTxout
  BY <1>1, <1>5, ReturnBlockStep, ReturnWpkhStep, ReturnRedeemStep, ReturnTxinStep, ReturnTxoutStep, Zenon
<1>6. CASE VerifyInput \/ scripts_detach_tx
  BY <1>1, <1>6, VerifyInputStep, DetachStep, Zenon
<1>7. CASE Halted \/ UNCHANGED vars
  BY <1>1, <1>7, StutterInv, Zenon DEF Halted
<1> QED
  BY <1>1, <1>2, <1>3, <1>4, <1>5, <1>6, <1>7, Zenon DEF Next

LEMMA SpecInv == Spec => []Inv
BY InitInv, StepInv, PTL DEF Spec

-----------------------------------------------------------------------------
(* Theorems *)

LEMMA InvTypeOK == Inv => TypeOK
<1>1. SUFFICES ASSUME NEW c \in Cases, IInv(c) PROVE TypeOK
  BY Zenon DEF Inv
<1>2. /\ TxinInv(c.scripts) /\ StackInv(c.scripts) /\ Frames(c.scripts, frames) /\ ControlInv /\ DepthInv
  BY <1>1, Zenon DEF IInv
<1>3. \A i \in DOMAIN frames :
        /\ frames[i].kind \in Kinds
        /\ frames[i].pc \in 1 .. Len(frames[i].code) + 1
        /\ (i = 1) = (frames[i].kind \in {"txin", "pre", "txout"})
  BY <1>2, Zenon DEF Frames, Frame, Outermost
<1>4. \A i \in DOMAIN txins : txins[i].redeem_scripts_start_pos \in 0 .. Len(txins[i].redeem_scripts)
  BY <1>2, Zenon DEF TxinInv
<1> QED
  BY <1>2, <1>3, <1>4, Zenon DEF TypeOK, StackInv, ControlInv, DepthInv

\* The state of the interpreter is well formed for every transaction, script,
\* stack size and if depth: the positions of every nested scripts_parse() stay
\* in their code, the stack in its allocation, the if depth within its limit
\* and the start of the signed code in the redeem script.
THEOREM Typed == Spec => []TypeOK
BY SpecInv, InvTypeOK, PTL

\* The digest computed for an input that spends a witness program is the one of
\* BIP 143, whatever the inputs before it cached in rawtx.
THEOREM WitnessDigestsAreRight == Spec => []WitnessDigestsRight
<1>1. Inv => WitnessDigestsRight
  BY Zenon DEF Inv, IInv
<1> QED
  BY <1>1, SpecInv, PTL

\* assert(cur_index >= rawtx->last_hashed_txin_index) of get_digest() never fails.
InputsInOrder == fault # OutOfOrder
THEOREM InputsStayInOrder == Spec => []InputsInOrder
<1>1. Inv => InputsInOrder
  BY Zenon DEF Inv, IInv, ControlInv, InputsInOrder
<1> QED
  BY <1>1, SpecInv, PTL

\* priv->if_statement_depth, which verify_tx() never resets, is 0 again when an
\* input is over: each nested call gives it back.
DepthGivenBack == Calling("txin") => if_depth = 0
THEOREM DepthIsGivenBack == Spec => []DepthGivenBack
<1>1. Inv => DepthGivenBack
  BY DEF Inv, IInv, DepthInv, Alive, Depth, Calling, DepthGivenBack
<1> QED
  BY <1>1, SpecInv, PTL

\* A step computes at most one digest, of the current input.
DigestOrNone ==
    \/ digests' = <<>>
    \/ \E type : /\ digests' = <<digest_entry(type, get_digest(type))>>
                 /\ frames # <<>> /\ fault = "none"

LEMMA StepDigest == ASSUME Inv, Next PROVE DigestOrNone \/ UNCHANGED vars
<1>1. PICK c \in Cases : IInv(c)
  BY Zenon DEF Inv
<1>2. CASE scripts_attach_tx \/ ParseTxin \/ ParseTxout \/ scripts_detach_tx
  <2>1. frames = <<>> /\ fault = "none" /\ digests' = digests
    BY <1>2 DEF scripts_attach_tx, ParseTxin, ParseTxout, scripts_detach_tx, Calling
  <2>2. phase # "rejected"
    BY <1>2 DEF scripts_attach_tx, ParseTxin, ParseTxout, scripts_detach_tx, Calling
  <2>3. digests = <<>>
    BY <1>1, <2>1, <2>2 DEF IInv, DigestInv, Alive
  <2> QED
    BY <2>1, <2>3 DEF DigestOrNone
<1>3. CASE PreProcessLegacy \/ PreProcessNative \/ PreProcessNested
  <2>1. Running /\ Cur.kind = "pre" /\ digests' = digests
    BY <1>3 DEF PreProcessLegacy, PreProcessNative, PreProcessNested
  <2>2. digests = <<>>
    BY <1>1, <2>1, PreIs
  <2> QED
    BY <2>1, <2>2 DEF DigestOrNone
<1>4. CASE OpSigned
  BY <1>4, Zenon DEF OpSigned, AtToken, Running, DigestOrNone
<1>5. CASE CheckMultisig
  <2>1. fault = "none" /\ frames # <<>>
    BY <1>1, <1>5 DEF CheckMultisig, IInv, MultisigInv
  <2> QED
    BY <1>5, <2>1, Zenon DEF CheckMultisig, DigestOrNone
<1>6. CASE OpStack \/ OpMultisig \/ OpCodeseparator \/ OpIf \/ ReturnBlock \/ ReturnWpkh \/ ReturnRedeem
           \/ ReturnTxin \/ ReturnTxout \/ VerifyInput
  BY <1>6, Zenon DEF OpStack, OpMultisig, OpCodeseparator, OpIf, ReturnBlock, ReturnWpkh, ReturnRedeem,
     ReturnTxin, ReturnTxout, VerifyInput, DigestOrNone
<1>7. CASE Halted
  BY <1>7 DEF Halted
<1> QED
  BY <1>2, <1>3, <1>4, <1>5, <1>6, <1>7, Zenon DEF Next

\* The digest a step computes for a legacy input is that of the whole
\* transaction, with anyone_can_pay from any cache and otherwise from one that
\* holds each input before last_hashed_txin_index once.
LegacyFromSoundCache ==
    \A j \in DOMAIN digests' :
        LET d == digests'[j]
        IN  d.rc = 0 /\ ~d.segwit /\ d.type \in SighashTypes /\ (d.type.anyone_can_pay \/ CacheSound(rawtx, tx)) =>
                d.digest = LegacyDigest(tx, txin_index, d.type, d.script)

LEMMA StepLegacy == Inv /\ [Next]_vars => [LegacyFromSoundCache]_vars
<1>1. SUFFICES ASSUME Inv, Next PROVE LegacyFromSoundCache \/ UNCHANGED vars
  OBVIOUS
<1>2. PICK c \in Cases : IInv(c)
  BY <1>1, Zenon DEF Inv
<1>3. CASE digests' = <<>>
  <2>1. DOMAIN digests' = {}
    BY <1>3
  <2> QED
    BY <2>1 DEF LegacyFromSoundCache
<1>4. ASSUME NEW type, digests' = <<digest_entry(type, get_digest(type))>>, frames # <<>>, fault = "none"
      PROVE  LegacyFromSoundCache
  <2> DEFINE script == satoshi_txin_get_redeem_scripts(cur_txin)
             d == get_digest(type)
             e == digest_entry(type, d)
  <2>1. /\ Len(tx.txins) \in Nat /\ txin_index \in Nat /\ txin_index < Len(tx.txins)
        /\ DOMAIN tx.txins = 1 .. Len(tx.txins) /\ CacheOf(rawtx, tx, txin_index)
    BY <1>2, <1>4, ActiveIs
  <2>2. DigestRight(d, rawtx, tx, txin_index, type, cur_utxo, script)
    BY <2>1, DigestIs, Zenon DEF get_digest
  <2>3. DOMAIN digests' = {1} /\ digests'[1] = e
    <3>1. digests' = <<e>>
      BY <1>4, Zenon
    <3> HIDE DEF e
    <3> QED
      BY <3>1
  <2>4. e.type = type /\ e.script = script /\ e.rc = d.rc /\ e.digest = d.digest /\ e.segwit = Segwit(cur_utxo)
    <3> HIDE DEF d
    <3> QED
      BY DEF digest_entry, Segwit
  <2> HIDE DEF e, d, script
  <2>5. ASSUME e.rc = 0, ~e.segwit, e.type \in SighashTypes, e.type.anyone_can_pay \/ CacheSound(rawtx, tx)
        PROVE  e.digest = LegacyDigest(tx, txin_index, e.type, e.script)
    BY <2>2, <2>4, <2>5, Zenon DEF DigestRight
  <2> QED
    BY <2>3, <2>5 DEF LegacyFromSoundCache
<1> QED
  BY <1>1, <1>3, <1>4, StepDigest, Zenon DEF DigestOrNone

\* A digest of get_digest() for a legacy input is that of the whole transaction
\* as long as the hash it continues from covers each earlier input once.
THEOREM LegacyDigestsFollowCache == Spec => [][LegacyFromSoundCache]_vars
BY SpecInv, StepLegacy, PTL DEF Spec

=============================================================================
