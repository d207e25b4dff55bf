-------------------------------- MODULE Script --------------------------------
(***************************************************************************)
(* The script interpreter of src/satoshi-script.c, driven over the inputs  *)
(* of one transaction as verify_tx() of src/segwit-tx.c does: the input's  *)
(* script is parsed, then the script of the output it spends, and the top  *)
(* of the stack must be true.                                              *)
(*                                                                         *)
(* scripts_parse() calls itself for a redeem script, for the script of a   *)
(* witness program and for the block of an if statement; the nested calls  *)
(* are `frames`, the innermost last, and a step executes one opcode of the *)
(* innermost one.  All of them share the main stack, the if depth and the  *)
(* digest cache of rawtx, and none is reset between two inputs.            *)
(*                                                                         *)
(* Bytes are abstract: <<"key", k>> is a public key, <<"sig", k, d, t>> a  *)
(* signature of key k over digest d with hash type t, <<"script", code>>   *)
(* the bytes of a script.  A token is [op, arg].  `fault` records that the *)
(* code left defined behaviour (an assert that fails, a pointer read from  *)
(* a value that is none); nothing is said of what happens afterwards.      *)
(***************************************************************************)
EXTENDS RawTx, FiniteSets

CONSTANTS
    Cases,        \* transactions with the outputs they spend, the scripts that occur in
                  \* them and what is claimed of each input
    StackAlloc,   \* bound: SATOSHI_SCRIPT_STACK_ALLOC_SIZE (64 in the code)
    MaxIfDepth    \* bound: MAX_IF_STATEMENT_DEPTH (256 in the code)

ASSUME BoundsAssumption == StackAlloc \in Nat \ {0} /\ MaxIfDepth \in Nat

is_script(v) == v[1] = "script"
Known(S, v) == is_script(v) => v[2] \in S

\* S is a set of scripts with those that occur in what they push.
Closed(S) ==
    \A code \in S : /\ code \in Seq({code[i] : i \in DOMAIN code})
                   /\ \A i \in DOMAIN code : Known(S, code[i].arg)

\* Every input spends an output, of a type the parser of transactions gives.
Utxoes(S) == [scripts : S, value : Int, p2sh_segwit : {FALSE}, type : {"unknown", "legacy", "segwit"}]

ASSUME CasesAssumption ==
    \A c \in Cases :
        /\ Closed(c.scripts)
        /\ c.tx.txins # <<>> /\ c.tx.txins \in Seq({c.tx.txins[i] : i \in DOMAIN c.tx.txins})
        /\ \A i \in DOMAIN c.tx.txins :
            LET witness == c.tx.txins[i].witness
            IN  /\ c.tx.txins[i].scripts \in c.scripts
                /\ witness \in Seq({witness[j] : j \in DOMAIN witness})
                /\ \A j \in DOMAIN witness : Known(c.scripts, witness[j])
        /\ c.utxoes \in Seq(Utxoes(c.scripts)) /\ Len(c.utxoes) = Len(c.tx.txins)
        /\ Len(c.honest) = Len(c.tx.txins)
        /\ c.tx.has_flag \in BOOLEAN /\ (c.tx.has_flag => c.tx.txouts # <<>>)

VARIABLES
    tx,           \* priv->tx: what was parsed from the wire
    utxoes,       \* the outputs spent; priv->utxo is the current one
    honest,       \* what the signer of each input did: properties only
    txins,        \* the fields of tx->txins[] the interpreter writes
    txin_index,   \* priv->txin_index
    main_stack,   \* scripts->main_stack
    frames,       \* the running calls of scripts_parse()
    if_depth,     \* priv->if_statement_depth
    multisig,     \* the loop of a running checkmultisig, or <<>>
    rawtx,        \* priv->rawtx
    phase,        \* where the caller is
    results,      \* what the caller found for the inputs so far
    digests,      \* history: the digests computed by the last step
    fault

vars == <<tx, utxoes, honest, txins, txin_index, main_stack, frames, if_depth,
          multisig, rawtx, phase, results, digests, fault>>
given == <<tx, honest>>

-----------------------------------------------------------------------------
(* Stack items: satoshi_script_data *)

Byte(n) == <<"byte", n>>
Empty == <<"empty">>

\* t: static (s_sdata_true, s_sdata_false), bool, uint8, hash160, hash256, pointer
satoshi_script_data_new(t, v) == [t |-> t, v |-> v]
satoshi_script_data_new_ptr(v) == satoshi_script_data_new("pointer", v)
satoshi_script_data_new_boolean(b) == satoshi_script_data_new("static", Byte(IF b THEN 1 ELSE 0))

is_number(x) == x.t \in {"static", "bool", "uint8"}
is_true(x) == is_number(x) /\ x.v # Byte(0)

\* A number of any width is handed out as 8 bytes.
satoshi_script_data_get(x) == IF x.t = "uint8" THEN <<"u64", x.v>> ELSE x.v

satoshi_script_data_compare(x, y) == x.v # Empty /\ x.v = y.v

\* The copy of a static boolean is an ordinary one.
satoshi_script_data_clone(x) == [x EXCEPT !.t = IF @ = "static" THEN "bool" ELSE @]

\* What an operation on the stack s returns.
Outcome(rc, s, why) == [rc |-> rc, stack |-> s, fault |-> why]
Fine(s) == Outcome(0, s, "none")
Refuse(s) == Outcome(-1, s, "none")
Crash(why) == Outcome(-1, <<>>, why)

\* mutant: the capacity of the array is not looked at
stack_push_unchecked(s, x) == Fine(Append(s, x))
\* Growing the array past its first allocation clears the start of it.
stack_push(s, x) ==
    IF Len(s) >= StackAlloc THEN Crash("stack items wiped") ELSE Fine(Append(s, x))

Top(s) == Last(s)

-----------------------------------------------------------------------------
(* Crypto: wrappers of libsecp256k1, seen through what the script needs *)

crypto_pubkey_import(v) == v[1] = "key"
crypto_signature_import(v) == v[1] = "sig"
crypto_verify(sig, key, digest) == sig[2] = key[2] /\ sig[3] = digest

-----------------------------------------------------------------------------
(* Opcodes that use the stack only *)

parse_op_push_data(s, op, arg) ==
    CASE op = "truncated" -> Refuse(s)
      [] op = "pushdata4" -> Crash("assert: op_pushdata4")
      [] OTHER -> stack_push(s, satoshi_script_data_new_ptr(arg))

hash_op(op, v) ==
    CASE op = "ripemd160" -> satoshi_script_data_new("hash160", ripemd160(v))
      [] op = "hash160" -> satoshi_script_data_new("hash160", hash160(v))
      [] op = "sha256" -> satoshi_script_data_new("hash256", sha256(v))
      [] op = "hash256" -> satoshi_script_data_new("hash256", hash256(v))

parse_op_hash(s, op) ==
    IF s = <<>> THEN Refuse(s)
    ELSE Fine(Append(Front(s), hash_op(op, satoshi_script_data_get(Top(s)))))

parse_op_dup(s) ==
    CASE s = <<>> -> Refuse(s)
      [] s # <<>> /\ Top(s).v = Empty -> Crash("assert: data to clone")
      [] OTHER -> stack_push(s, satoshi_script_data_clone(Top(s)))

\* The two operands are released with free(), static ones too.
parse_op_equalverify(s) ==
    IF Len(s) < 2 THEN Refuse(s)
    ELSE LET x == s[Len(s)]
             y == s[Len(s) - 1]
         IN  CASE "static" \in {x.t, y.t} -> Crash("free of a static item")
               [] satoshi_script_data_compare(x, y) -> Fine(SubSeq(s, 1, Len(s) - 2))
               [] OTHER -> Refuse(SubSeq(s, 1, Len(s) - 2))

parse_op_equal(s) ==
    LET r == parse_op_equalverify(s)
    IN  IF r.fault # "none" THEN r
        ELSE stack_push(r.stack, satoshi_script_data_new_boolean(r.rc = 0))

\* verify() takes the top item away, whatever it is.
scripts_verify(s) ==
    IF s = <<>> THEN Refuse(s) ELSE Outcome(IF is_true(Top(s)) THEN 0 ELSE -1, Front(s), "none")

HashOps == {"ripemd160", "hash160", "sha256", "hash256"}
PushOps == {"push", "truncated", "pushdata4"}

\* The opcodes that read and write nothing but the main stack, as classes of
\* enum satoshi_script_opcode; "reserved" is every one the interpreter refuses.
StackOps == PushOps \cup HashOps \cup {"0", "n", "dup", "equalverify", "equal", "verify",
                                       "nop", "return", "reserved", "else", "endif"}
exec(s, token) ==
    CASE token.op = "0" -> stack_push(s, satoshi_script_data_new_boolean(FALSE))
      [] token.op \in PushOps -> parse_op_push_data(s, token.op, token.arg)
      [] token.op = "n" -> stack_push(s, satoshi_script_data_new("uint8", token.arg))
      [] token.op \in HashOps -> parse_op_hash(s, token.op)
      [] token.op = "dup" -> parse_op_dup(s)
      [] token.op = "equalverify" -> parse_op_equalverify(s)
      [] token.op = "equal" -> parse_op_equal(s)
      [] token.op = "verify" -> scripts_verify(s)
      [] token.op \in {"nop", "return"} -> Fine(s)
      [] token.op \in {"reserved", "else", "endif"} -> Refuse(s)

-----------------------------------------------------------------------------
(* Opcodes that check signatures *)

cur_txin == txins[txin_index + 1]
cur_utxo == utxoes[txin_index + 1]

\* The redeem script from the last executed code separator on.
satoshi_txin_get_redeem_scripts(txin) ==
    SubSeq(txin.redeem_scripts, txin.redeem_scripts_start_pos + 1, Len(txin.redeem_scripts))

\* rawtx->get_digest() for the current input.
get_digest(type) ==
    satoshi_rawtx_get_digest(rawtx, tx, txin_index, type, cur_utxo,
                             satoshi_txin_get_redeem_scripts(cur_txin))

\* What get_digest() asserts, or reads through a pointer it does not check.
digest_fault ==
    IF satoshi_txin_get_redeem_scripts(cur_txin) = <<>> THEN "no redeem script"
    ELSE IF rawtx.last_hashed_txin_index > txin_index THEN "assert: inputs out of order"
    ELSE "none"

\* What is remembered of a digest.
digest_entry(type, d) ==
    [type |-> type, script |-> satoshi_txin_get_redeem_scripts(cur_txin), rc |-> d.rc,
     digest |-> d.digest, segwit |-> cur_utxo.p2sh_segwit \/ cur_utxo.type = "segwit"]

key_item(s) == s[Len(s)]
sig_item(s) == s[Len(s) - 1]

\* The key and the signature on top can both be imported.
importable(s) ==
    /\ Len(s) >= 2
    /\ key_item(s).t = "pointer" /\ crypto_pubkey_import(key_item(s).v)
    /\ sig_item(s).t = "pointer" /\ crypto_signature_import(sig_item(s).v)

\* mutant: the result of crypto->verify() is not looked at
checksigverify_blind(s, d) == Fine(SubSeq(s, 1, Len(s) - 2))
\* parse_op_checksigverify() with a signature and its digest.
checksigverify(s, d) ==
    Outcome(IF d.rc = 0 /\ crypto_verify(sig_item(s).v, key_item(s).v, d.digest) THEN 0 ELSE -1,
            SubSeq(s, 1, Len(s) - 2), "none")

\* parse_op_checksigverify() without: rc is still 0, so that too few items, or
\* a key or signature that cannot be imported, count as success.
checksigverify_unchecked(s) ==
    IF Len(s) < 2 THEN Fine(s)
    ELSE IF key_item(s).t # "pointer" \/ key_item(s).v = Empty THEN Crash("public key is no pointer")
    ELSE IF ~crypto_pubkey_import(key_item(s).v) THEN Fine(Front(s))
    ELSE IF sig_item(s).t # "pointer" \/ sig_item(s).v = Empty THEN Crash("signature is no pointer")
    ELSE Fine(SubSeq(s, 1, Len(s) - 2))

\* checksig pushes what checksigverify returns.
parse_op_checksig(r) ==
    IF r.fault # "none" THEN r
    ELSE stack_push(r.stack, satoshi_script_data_new_boolean(r.rc = 0))

\* What checkmultisig does before its loop over the signatures: the number of
\* keys, the keys, the number of signatures are popped.
multisig_operands(s) ==
    LET p == Reverse(s)                     \* in the order of popping
        n == p[1].v[2]                      \* num_pubkeys
    IN  IF p = <<>> THEN Refuse(s)
        ELSE IF ~is_number(p[1]) THEN Crash("count is no number")
        ELSE IF n \notin 1 .. 16 \/ Len(p) < n + 2 THEN Refuse(s)
        ELSE IF \E j \in 2 .. n + 1 : ~crypto_pubkey_import(p[j].v) THEN Refuse(s)
        ELSE IF ~is_number(p[n + 2]) THEN Crash("count is no number")
        ELSE IF p[n + 2].v[2] > n THEN Refuse(s)
        ELSE Fine(SubSeq(s, 1, Len(s) - (n + 2)))

\* The loop's variables: rc, prev_sighash_type, digest, num_verified and the
\* key the next signature is first tried with.
multisig_loop(s) ==
    LET p == Reverse(s)
        n == p[1].v[2]
    IN  [keys |-> SubSeq(p, 2, n + 1), num_sigs |-> p[n + 2].v[2], i |-> 0, rc |-> -1,
         prev_sighash_type |-> <<>>, digest |-> uint256_zero, num_verified |-> 0, pubkey_index |-> 1]

matching_keys(m, sig, digest) ==
    {j \in m.pubkey_index .. Len(m.keys) : crypto_verify(sig, m.keys[j].v, digest)}

least(S) == CHOOSE x \in S : \A y \in S : x <= y
greatest(S) == CHOOSE x \in S : \A y \in S : x >= y

\* A signature against the digest: the keys are tried from pubkey_index on, and
\* the one that matches is where the next signature starts.
try_keys(m, sig, digest) ==
    LET match == matching_keys(m, sig, digest)
    IN  [m EXCEPT !.i = @ + 1, !.prev_sighash_type = <<sig[4]>>, !.digest = digest,
                  !.rc = IF match = {} THEN -1 ELSE 0,
                  !.num_verified = IF match = {} THEN @ ELSE @ + 1,
                  !.pubkey_index = IF match = {} THEN Len(m.keys) + 1 ELSE least(match)]

SignedOps == {"checksig", "checksigverify"}

-----------------------------------------------------------------------------
(* Calls of scripts_parse() *)

\* base: offset of the code in the redeem script, or -1 when the code is not
\* the redeem script's. saved: the item the caller puts back when it is over.
frame(kind, code, base, saved) ==
    [kind |-> kind, code |-> code, pc |-> 1, base |-> base, saved |-> saved]

Cur == Last(frames)
Token == Cur.code[Cur.pc]
Running == phase # "rejected" /\ fault = "none" /\ frames # <<>> /\ multisig = <<>>
AtToken(codes) == Running /\ Cur.kind # "pre" /\ Cur.pc <= Len(Cur.code) /\ Token.op \in codes
AtEnd(kind) == Running /\ Cur.pc > Len(Cur.code) /\ Cur.kind = kind

\* The frames with the innermost call moved on to position pc.
Jump(pc) == [frames EXCEPT ![Len(frames)].pc = pc]

\* -1 is returned through every call; the one of p2wpkh asserts that it is not.
Fail ==
    /\ frames' = <<>>
    /\ phase' = "rejected"
    /\ fault' = IF \E i \in DOMAIN frames : frames[i].kind = "wpkh"
                THEN "assert: p2wpkh script" ELSE fault

Broken(why) == /\ fault' = why
               /\ UNCHANGED <<frames, phase>>

\* How a call goes on after an operation with outcome res: at the frames fs.
Continue(res, fs) ==
    \E r \in {res} :
        /\ main_stack' = r.stack
        /\ \/ /\ r.fault # "none"
              /\ Broken(r.fault)
           \/ /\ r.fault = "none" /\ r.rc # 0
              /\ Fail
           \/ /\ r.fault = "none" /\ r.rc = 0
              /\ frames' = fs
              /\ UNCHANGED <<phase, fault>>

-----------------------------------------------------------------------------
(* The loop over the opcodes *)

\* In the script of an input only pushes are allowed.
OpStack ==
    /\ AtToken(StackOps)
    /\ LET foreign == Cur.kind = "txin" /\ Token.op \notin PushOps \cup {"0"}
       IN  Continue(IF foreign THEN Refuse(main_stack) ELSE exec(main_stack, Token), Jump(Cur.pc + 1))
    /\ digests' = <<>>
    /\ UNCHANGED <<given, multisig, utxoes, txins, txin_index, if_depth, rawtx, results>>

OpSigned ==
    /\ AtToken(SignedOps)
    /\ LET finish(r) == Continue(IF Token.op = "checksig" THEN parse_op_checksig(r) ELSE r, Jump(Cur.pc + 1))
           type == sig_item(main_stack).v[4]
       IN  \/ /\ Cur.kind = "txin"
              /\ Continue(Refuse(main_stack), frames)
              /\ digests' = <<>> /\ UNCHANGED rawtx
           \/ /\ Cur.kind # "txin" /\ ~importable(main_stack)
              /\ \E r \in {checksigverify_unchecked(main_stack)} : finish(r)
              /\ digests' = <<>> /\ UNCHANGED rawtx
           \/ /\ Cur.kind # "txin" /\ importable(main_stack)
              /\ \E d \in {get_digest(type)} :
                    /\ \E r \in {IF digest_fault # "none" THEN Crash(digest_fault)
                                 ELSE checksigverify(main_stack, d)} : finish(r)
                    /\ rawtx' = d.rawtx
                    /\ digests' = <<digest_entry(type, d)>>
    /\ UNCHANGED <<given, multisig, utxoes, txins, txin_index, if_depth, results>>

OpMultisig ==
    /\ AtToken({"checkmultisig"})
    /\ LET r == IF Cur.kind = "txin" THEN Refuse(main_stack) ELSE multisig_operands(main_stack)
       IN  /\ Continue(r, frames)
           /\ multisig' = IF r.fault = "none" /\ r.rc = 0 THEN <<multisig_loop(main_stack)>> ELSE <<>>
    /\ digests' = <<>>
    /\ UNCHANGED <<given, utxoes, txins, txin_index, if_depth, rawtx, results>>

\* The loop is left, with the outcome r.
LeaveMultisig(r) ==
    /\ Continue(r, Jump(Cur.pc + 1))
    /\ multisig' = <<>>

\* One signature, or the end of the loop. A digest is kept while the hash type
\* stays the same. An error returns the rc of the signature before.
CheckMultisig ==
    /\ fault = "none" /\ multisig # <<>>
    /\ LET m == multisig[1]
           empty == main_stack = <<>>
           item == IF empty THEN satoshi_script_data_new_ptr(Empty) ELSE Top(main_stack)
           rest == IF empty THEN <<>> ELSE Front(main_stack)
           type == item.v[4]
       IN  \/ /\ m.i = m.num_sigs
              /\ LeaveMultisig(stack_push(main_stack, satoshi_script_data_new_boolean(m.num_verified = m.num_sigs)))
              /\ digests' = <<>> /\ UNCHANGED rawtx
           \/ /\ m.i < m.num_sigs /\ item.t = "pointer" /\ ~crypto_signature_import(item.v)
              /\ LeaveMultisig(Outcome(m.rc, rest, "none"))
              /\ digests' = <<>> /\ UNCHANGED rawtx
           \/ /\ m.i < m.num_sigs /\ item.t # "pointer"
              /\ LeaveMultisig(Crash("signature is no pointer"))
              /\ digests' = <<>> /\ UNCHANGED rawtx
           \/ /\ m.i < m.num_sigs /\ item.t = "pointer" /\ crypto_signature_import(item.v)
              /\ m.prev_sighash_type = <<type>>
              /\ Continue(Fine(rest), frames)
              /\ multisig' = <<try_keys(m, item.v, m.digest)>>
              /\ digests' = <<>> /\ UNCHANGED rawtx
           \/ /\ m.i < m.num_sigs /\ item.t = "pointer" /\ crypto_signature_import(item.v)
              /\ m.prev_sighash_type # <<type>>
              /\ \E d \in {get_digest(type)} :
                    /\ IF digest_fault # "none" \/ d.rc # 0
                       THEN LeaveMultisig(IF d.rc # 0 THEN Refuse(rest) ELSE Crash(digest_fault))
                       ELSE /\ Continue(Fine(rest), frames)
                            /\ multisig' = <<try_keys(m, item.v, d.digest)>>
                    /\ rawtx' = d.rawtx
                    /\ digests' = <<digest_entry(type, d)>>
    /\ UNCHANGED <<given, utxoes, txins, txin_index, if_depth, results>>

\* The position after the opcode becomes the start of the code signed.
OpCodeseparator ==
    /\ AtToken({"codeseparator"})
    /\ IF Cur.kind # "txin" /\ Cur.base >= 0 /\ Cur.base + Cur.pc < Len(cur_txin.redeem_scripts)
       THEN /\ txins' = [txins EXCEPT ![txin_index + 1].redeem_scripts_start_pos = Cur.base + Cur.pc]
            /\ Continue(Fine(main_stack), Jump(Cur.pc + 1))
       ELSE /\ Continue(IF Cur.kind = "txin" THEN Refuse(main_stack)
                        ELSE Crash("assert: separator in redeem script"), frames)
            /\ UNCHANGED txins
    /\ digests' = <<>>
    /\ UNCHANGED <<given, multisig, utxoes, txin_index, if_depth, rawtx, results>>

\* The if statements opened and not closed in code[from .. to].
open_ifs(code, from, to) ==
    Cardinality({j \in from .. to : code[j].op \in {"if", "notif"}}) -
    Cardinality({j \in from .. to : code[j].op = "endif"})

\* mutant: the first endif after the opcode, of whatever level
matching_flat(code, pc, op) == {j \in pc + 1 .. Len(code) : code[j].op = op}
\* The else / endif of the statement at pc. Beyond its endif the count is
\* negative or another statement's: the first endif is the one.
matching(code, pc, op) ==
    {j \in pc + 1 .. Len(code) : code[j].op = op /\ open_ifs(code, pc + 1, j - 1) = 0}

\* The condition is popped; the block it selects is parsed by a nested call.
\* The last else of the level ends the if block and starts the else block.
OpIf ==
    /\ AtToken({"if", "notif"})
    /\ LET c == scripts_verify(main_stack)
           taken == (c.rc = 0) = (Token.op = "if")
           ends == matching(Cur.code, Cur.pc, "endif")
           p_endif == least(ends)
           elses == {j \in matching(Cur.code, Cur.pc, "else") : j < p_endif}
           first == IF taken THEN Cur.pc + 1 ELSE greatest(elses) + 1
           last == IF taken /\ elses # {} THEN greatest(elses) - 1 ELSE p_endif - 1
           block == frame("block", SubSeq(Cur.code, first, last),
                          IF Cur.base < 0 THEN -1 ELSE Cur.base + first - 1, <<>>)
           resumed == Jump(p_endif + 1)
       IN  \/ /\ Cur.kind = "txin"
              /\ Continue(Refuse(main_stack), frames)
              /\ UNCHANGED if_depth
           \/ /\ Cur.kind # "txin" /\ if_depth >= MaxIfDepth
              /\ Continue(Refuse(main_stack), frames)
              /\ if_depth' = if_depth + 1
           \/ /\ Cur.kind # "txin" /\ if_depth < MaxIfDepth /\ ends = {}
              /\ Continue(Refuse(c.stack), frames)
              /\ if_depth' = if_depth + 1
           \/ /\ Cur.kind # "txin" /\ if_depth < MaxIfDepth /\ ends # {}
              /\ taken \/ elses # {}
              /\ Continue(IF first > last THEN Crash("assert: script length") ELSE Fine(c.stack),
                          Append(resumed, block))
              /\ if_depth' = if_depth + 1
           \/ /\ Cur.kind # "txin" /\ if_depth < MaxIfDepth /\ ends # {}
              /\ ~taken /\ elses = {}
              /\ Continue(Fine(c.stack), resumed)
              /\ UNCHANGED if_depth
    /\ digests' = <<>>
    /\ UNCHANGED <<given, multisig, utxoes, txins, txin_index, rawtx, results>>

\* mutant: the depth is not given back
ReturnBlock_leaks ==
    /\ AtEnd("block")
    /\ frames' = Front(frames)
    /\ digests' = <<>>
    /\ UNCHANGED <<given, multisig, utxoes, txins, txin_index, main_stack, if_depth, rawtx, phase, results, fault>>
ReturnBlock ==
    /\ AtEnd("block")
    /\ frames' = Front(frames)
    /\ if_depth' = if_depth - 1
    /\ digests' = <<>>
    /\ UNCHANGED <<given, multisig, utxoes, txins, txin_index, main_stack, rawtx, phase, results, fault>>

-----------------------------------------------------------------------------
(* Redeem scripts and witness programs *)

code_of(v) == IF is_script(v) THEN v[2] ELSE << [op |-> "reserved", arg |-> Empty] >>

satoshi_txin_set_redeem_scripts(txin, code) ==
    [txin EXCEPT !.redeem_scripts = code, !.redeem_scripts_start_pos = 0]

\* The item on top is the redeem script: it is parsed above the frames fs and
\* put back when it ends in true.
txin_p2sh_scripts_post_process(s, fs) ==
    LET item == Top(s)
        marked == [cur_txin EXCEPT !.is_p2sh = TRUE]
    IN  IF s = <<>> \/ item.t # "pointer"
        THEN /\ Continue(Refuse(IF s = <<>> THEN s ELSE Front(s)), fs)
             /\ txins' = [txins EXCEPT ![txin_index + 1] = marked]
        ELSE /\ Continue(IF item.v = Empty THEN Crash("assert: script length") ELSE Fine(Front(s)),
                         Append(fs, frame("redeem", code_of(item.v), 0, <<item>>)))
             /\ txins' = [txins EXCEPT ![txin_index + 1] =
                            satoshi_txin_set_redeem_scripts(marked, code_of(item.v))]

ops(op) == [op |-> op, arg |-> Empty]
pushes(v) == [op |-> "push", arg |-> v]

satoshi_script_generate_p2pkh_script(h160) ==
    <<ops("dup"), ops("hash160"), pushes(h160), ops("equalverify"), ops("checksig")>>

\* The program pushed after the version byte 0, as a sequence of at most one.
witness_program(code) ==
    IF Len(code) >= 2 /\ code[1].op = "0" /\ code[2].op = "push" THEN <<code[2].arg>> ELSE <<>>

\* p2wpkh: the script generated from the program; p2wsh: the last witness item.
parse_segwit_script(code, s, fs) ==
    LET program == witness_program(code)
        script == IF cur_txin.redeem_scripts = <<>>
                  THEN satoshi_script_generate_p2pkh_script(program[1])
                  ELSE cur_txin.redeem_scripts
    IN  IF program # <<>> /\ program[1][1] = "ripemd160"
        THEN /\ Continue(Fine(s), Append(fs, frame("wpkh", script, 0, <<>>)))
             /\ txins' = [txins EXCEPT ![txin_index + 1].redeem_scripts = script]
        ELSE IF program # <<>> /\ program[1][1] = "sha256"
        THEN txin_p2sh_scripts_post_process(s, fs)
        ELSE /\ Continue(Refuse(s), fs)
             /\ UNCHANGED txins

\* The call of the output script goes on after its witness program: a native
\* one is over; a nested one drops the result and puts the program back.
segwit_done(s, fs) ==
    LET f == Last(fs)
    IN  IF f.saved = <<>> THEN Continue(Fine(s), fs)
        ELSE IF s = <<>> THEN Continue(Refuse(s), fs)
        ELSE Continue(Fine(Append(Front(s), f.saved[1])),
                      [fs EXCEPT ![Len(fs)].saved = <<>>])

ReturnWpkh ==
    /\ AtEnd("wpkh")
    /\ segwit_done(main_stack, Front(frames))
    /\ digests' = <<>>
    /\ UNCHANGED <<given, multisig, utxoes, txins, txin_index, if_depth, rawtx, results>>

p2wsh_matches(redeem, f) ==
    sha256(redeem.v) = witness_program(IF f.saved = <<>> THEN f.code ELSE code_of(f.saved[1].v))[1]

\* The redeem script must leave true. Under an output script (p2wsh) it is
\* then replaced by the comparison of its hash with the program.
ReturnRedeem ==
    /\ AtEnd("redeem")
    /\ LET v == scripts_verify(main_stack)
           redeem == Cur.saved[1]
           caller == frames[Len(frames) - 1]
       IN  \/ /\ v.rc # 0
              /\ Continue(v, frames)
           \/ /\ v.rc = 0 /\ caller.kind = "txin"
              /\ Continue(stack_push(v.stack, redeem), <<>>)
           \/ /\ v.rc = 0 /\ caller.kind = "txout"
              /\ segwit_done(Append(v.stack, satoshi_script_data_new_boolean(p2wsh_matches(redeem, caller))),
                             Front(frames))
    /\ digests' = <<>>
    /\ UNCHANGED <<given, multisig, utxoes, txins, txin_index, if_depth, rawtx, results>>

\* An input script that starts with op_0 is taken for one of p2sh.
ReturnTxin ==
    /\ AtEnd("txin")
    /\ IF Cur.code[1].op = "0" THEN txin_p2sh_scripts_post_process(main_stack, frames)
       ELSE Continue(Fine(main_stack), <<>>) /\ UNCHANGED txins
    /\ digests' = <<>>
    /\ UNCHANGED <<given, multisig, utxoes, txin_index, if_depth, rawtx, results>>

ReturnTxout ==
    /\ AtEnd("txout")
    /\ Continue(Fine(main_stack), <<>>)
    /\ digests' = <<>>
    /\ UNCHANGED <<given, multisig, utxoes, txins, txin_index, if_depth, rawtx, results>>

-----------------------------------------------------------------------------
(* The caller *)

Init ==
    \E c \in Cases :
        /\ tx = c.tx
        /\ utxoes = c.utxoes
        /\ honest = c.honest
        /\ txins = [i \in DOMAIN c.tx.txins |->
                      [redeem_scripts |-> <<>>, redeem_scripts_start_pos |-> 0, is_p2sh |-> FALSE]]
        /\ txin_index = 0
        /\ main_stack = <<>>
        /\ frames = <<>>
        /\ if_depth = 0
        /\ multisig = <<>>
        /\ rawtx = satoshi_rawtx_detach
        /\ phase = "attach"
        /\ results = <<>>
        /\ digests = <<>>
        /\ fault = "none"

Calling(p) == phase = p /\ frames = <<>> /\ fault = "none"

scripts_attach_tx ==
    /\ Calling("attach")
    /\ rawtx' = satoshi_rawtx_attach(tx)
    /\ phase' = "txin"
    /\ UNCHANGED <<given, multisig, utxoes, txins, txin_index, main_stack, frames, if_depth, results, digests, fault>>

Witness(i) == tx.txins[i + 1].witness

\* An input without script in a transaction without witnesses is passed over.
\* The op_0 of a p2sh input is skipped.
ParseTxin ==
    /\ Calling("txin") /\ txin_index < Len(tx.txins)
    /\ LET code == txin_at(tx, txin_index).scripts
           f == frame("txin", code, -1, <<>>)
       IN  \/ /\ code # <<>>
              /\ frames' = <<IF code[1].op = "0" THEN [f EXCEPT !.pc = 2] ELSE f>>
              /\ phase' = "txout"
              /\ UNCHANGED <<txin_index, results>>
           \/ /\ code = <<>> /\ ~tx.has_flag
              /\ results' = Append(results, "skipped")
              /\ txin_index' = txin_index + 1
              /\ UNCHANGED <<frames, phase>>
           \/ /\ code = <<>> /\ tx.has_flag
              /\ phase' = "txout"
              /\ UNCHANGED <<frames, txin_index, results>>
    /\ UNCHANGED <<given, multisig, utxoes, txins, main_stack, if_depth, rawtx, digests, fault>>

size_of(v) == CASE v[1] = "ripemd160" -> 20 [] v[1] = "sha256" -> 32
                [] v[1] = "key" -> 33 [] v[1] = "byte" -> 1 [] v[1] = "empty" -> 0 [] OTHER -> 71
first_byte_over_16(code) ==
    CASE code[1].op = "0" -> FALSE
      [] code[1].op = "push" -> size_of(code[1].arg) > 16
      [] OTHER -> TRUE

\* The witness items of the input, without the empty ones.
push_witness(s, i) ==
    LET items[j \in 0 .. Len(Witness(i))] ==
            IF j = 0 THEN <<>>
            ELSE IF Witness(i)[j] = Empty THEN items[j - 1]
            ELSE Append(items[j - 1], satoshi_script_data_new_ptr(Witness(i)[j]))
        pushed == s \o items[Len(Witness(i))]
    IN  IF Len(pushed) > StackAlloc THEN Crash("stack items wiped") ELSE Fine(pushed)

Native == ~cur_txin.is_p2sh /\ ~first_byte_over_16(cur_utxo.scripts)
Nested == ~cur_txin.is_p2sh /\ first_byte_over_16(cur_utxo.scripts) /\ tx.has_flag /\ Witness(txin_index) # <<>>

\* The script of the output, when it has one.
ParseTxout ==
    /\ Calling("txout")
    /\ phase' = "verify"
    /\ frames' = IF cur_utxo.scripts = <<>> THEN <<>>
                 ELSE <<frame("pre", cur_utxo.scripts, -1, <<>>)>>
    /\ UNCHANGED <<given, multisig, utxoes, txins, txin_index, main_stack, if_depth, rawtx, results, digests, fault>>

Legacy == frame("txout", cur_utxo.scripts, -1, <<>>)

\* txout_scripts_pre_process(): where the legacy loop starts, and with what.
PreProcessLegacy ==
    /\ Running /\ Cur.kind = "pre" /\ ~Native /\ ~Nested
    /\ frames' = <<Legacy>>
    /\ txins' = IF cur_txin.is_p2sh \/ cur_txin.redeem_scripts # <<>> THEN txins
                ELSE [txins EXCEPT ![txin_index + 1].redeem_scripts = cur_utxo.scripts]
    /\ UNCHANGED <<given, multisig, utxoes, txin_index, main_stack, if_depth, rawtx, phase, results, digests, fault>>

PreProcessNative ==
    /\ Running /\ Cur.kind = "pre" /\ Native
    /\ \E w \in {push_witness(main_stack, txin_index)} :
           IF w.fault # "none" THEN Continue(w, frames) /\ UNCHANGED txins
           ELSE parse_segwit_script(cur_utxo.scripts, w.stack, <<[Legacy EXCEPT !.pc = Len(Legacy.code) + 1]>>)
    /\ UNCHANGED <<given, multisig, utxoes, txin_index, if_depth, rawtx, results, digests>>

\* The program was pushed by the input's script.
PreProcessNested ==
    /\ Running /\ Cur.kind = "pre" /\ Nested
    /\ utxoes' = [utxoes EXCEPT ![txin_index + 1].p2sh_segwit = TRUE]
    /\ LET item == Top(main_stack)
           w == push_witness(Front(main_stack), txin_index)
       IN  IF main_stack = <<>> THEN Continue(Refuse(main_stack), frames) /\ UNCHANGED txins
           ELSE IF item.t # "pointer" \/ item.v = Empty
           THEN Continue(Crash("assert: witness program"), frames) /\ UNCHANGED txins
           ELSE IF w.fault # "none" THEN Continue(w, frames) /\ UNCHANGED txins
           ELSE parse_segwit_script(code_of(item.v), w.stack, <<[Legacy EXCEPT !.saved = <<item>>]>>)
    /\ UNCHANGED <<given, multisig, txin_index, if_depth, rawtx, results, digests>>

\* The input is accepted when the script left true.
VerifyInput ==
    /\ Calling("verify")
    /\ LET v == scripts_verify(main_stack)
       IN  /\ main_stack' = v.stack
           /\ IF v.rc = 0
              THEN /\ results' = Append(results, "accepted")
                   /\ txin_index' = txin_index + 1
                   /\ phase' = "txin"
              ELSE /\ phase' = "rejected"
                   /\ UNCHANGED <<results, txin_index>>
    /\ digests' = <<>>
    /\ UNCHANGED <<given, multisig, utxoes, txins, frames, if_depth, rawtx, fault>>

scripts_detach_tx ==
    /\ Calling("txin") /\ txin_index = Len(tx.txins)
    /\ rawtx' = satoshi_rawtx_detach
    /\ phase' = "done"
    /\ UNCHANGED <<given, multisig, utxoes, txins, txin_index, main_stack, frames, if_depth, results, digests, fault>>

Stopped == phase \in {"done", "rejected"} \/ fault # "none"
Halted == Stopped /\ UNCHANGED vars

Next ==
    \/ scripts_attach_tx \/ ParseTxin \/ ParseTxout
    \/ PreProcessLegacy \/ PreProcessNative \/ PreProcessNested
    \/ OpStack \/ OpSigned \/ OpMultisig \/ CheckMultisig \/ OpCodeseparator \/ OpIf
    \/ ReturnBlock \/ ReturnWpkh \/ ReturnRedeem \/ ReturnTxin \/ ReturnTxout
    \/ VerifyInput \/ scripts_detach_tx
    \/ Halted

\* The caller is one thread that runs on until it returns.
Spec == Init /\ [][Next]_vars /\ WF_vars(Next)

-----------------------------------------------------------------------------
(* What a signer commits to *)

\* BIP 143, as the comment at the top of src/segwit-tx.c states it.
Bip143(t, i, type, script, value) ==
    LET all == type.base = "all"
        alone == type.anyone_can_pay
    IN  hash256(<< <<"version", t.version>>,
           <<"prevouts", IF alone THEN uint256_zero
                         ELSE hash256([j \in DOMAIN t.txins |-> t.txins[j].outpoint])>>,
           <<"sequences", IF alone \/ ~all THEN uint256_zero
                          ELSE hash256([j \in DOMAIN t.txins |-> t.txins[j].sequence])>>,
           <<"outpoint", t.txins[i + 1].outpoint>>, <<"script", script>>,
           <<"value", value>>, <<"sequence", t.txins[i + 1].sequence>>,
           <<"outputs", IF all THEN hash256(hash_txouts(t))
                        ELSE IF type.base = "single" /\ i < Len(t.txouts)
                        THEN hash256(hash_txout(t.txouts[i + 1])) ELSE uint256_zero>>,
           <<"lock_time", t.lock_time>>, <<"type", type>> >>)

\* The hash types of include/satoshi-tx.h: every input, or the current one
\* alone; all outputs, none, or the one of the same index.
LegacyDigest(t, i, type, script) ==
    LET input(j) == << <<"outpoint", t.txins[j].outpoint>>,
                       <<"script", IF j = i + 1 THEN script ELSE <<>>>>,
                       <<"sequence", t.txins[j].sequence>> >>
        inputs == IF type.anyone_can_pay THEN input(i + 1)
                  ELSE << <<"txin_count", Len(t.txins)>> >> \o
                       FlattenSeq([j \in DOMAIN t.txins |-> input(j)])
        outputs == CASE type.base = "all" -> << <<"txout_count", Len(t.txouts)>> >> \o hash_txouts(t)
                     [] type.base = "none" -> <<>>
                     [] type.base = "single" -> hash_txout(t.txouts[i + 1])
    IN  hash256(<< <<"version", t.version>> >> \o inputs \o outputs \o
                << <<"lock_time", t.lock_time>>, <<"type", type>> >>)

\* The branches of if statements the way the Bitcoin wiki defines them: one
\* pass over the code, in which the opcodes of a branch not taken are skipped.
Branching(code, s) ==
    LET run[i \in 0 .. Len(code)] ==
            IF i = 0 THEN [taken |-> <<>>, stack |-> s, ok |-> TRUE]
            ELSE LET b == run[i - 1]
                     token == code[i]
                     on == \A j \in DOMAIN b.taken : b.taken[j]
                     r == exec(b.stack, token)
                 IN  CASE token.op \in {"if", "notif"} ->
                            [b EXCEPT !.taken = Append(@, on /\ (is_true(Top(b.stack)) = (token.op = "if"))),
                                      !.stack = IF on THEN Front(@) ELSE @]
                       [] token.op = "else" -> [b EXCEPT !.taken = Append(Front(@), ~Last(@))]
                       [] token.op = "endif" -> [b EXCEPT !.taken = Front(@)]
                       [] OTHER -> IF on THEN [b EXCEPT !.stack = r.stack, !.ok = @ /\ r.rc = 0] ELSE b
    IN  run[Len(code)]

-----------------------------------------------------------------------------
(* Properties *)

Kinds == {"txin", "pre", "txout", "redeem", "wpkh", "block"}

\* The state is well formed; the outermost call parses the input's or the
\* output's script and the ones above it what that script calls for.
TypeOK ==
    /\ txin_index \in 0 .. Len(tx.txins)
    /\ if_depth \in 0 .. MaxIfDepth + 1
    /\ phase \in {"attach", "txin", "txout", "verify", "done", "rejected"}
    /\ Len(main_stack) <= StackAlloc
    /\ \A i \in DOMAIN frames :
        /\ frames[i].kind \in Kinds
        /\ frames[i].pc \in 1 .. Len(frames[i].code) + 1
        /\ (i = 1) = (frames[i].kind \in {"txin", "pre", "txout"})
    /\ results \in Seq({"accepted", "skipped"}) /\ Len(results) = txin_index
    /\ \A i \in DOMAIN txins :
        txins[i].redeem_scripts_start_pos \in 0 .. Len(txins[i].redeem_scripts)

AllSigned == \A i \in DOMAIN honest : honest[i] \in {"honest", "forged"}

\* A transaction whose inputs all carry the signatures their outputs ask for is
\* accepted; one with a signature of another key or over another message is
\* rejected, without an assert of the interpreter. Every input kind and hash
\* type, in any order, with the cache of rawtx shared between them.
VerdictIsRight ==
    AllSigned => <>(/\ phase = (IF \A i \in DOMAIN honest : honest[i] = "honest"
                              THEN "done" ELSE "rejected")
                  /\ fault = "none")

\* verify_tx() never resets the interpreter between inputs: what an accepted
\* input leaves on the stack, or of the if depth, meets the next one.
NothingLeftBetweenInputs ==
    AllSigned /\ Calling("txin") => main_stack = <<>> /\ if_depth = 0

\* Each digest, whatever was cached by the inputs before, is the one the signer
\* computes from the whole transaction and the script after the last separator.
DigestsMatchReference ==
    \A j \in DOMAIN digests :
        LET d == digests[j]
        IN  d.rc = 0 => d.digest = (IF d.segwit
                                    THEN Bip143(tx, txin_index, d.type, d.script, cur_utxo.value)
                                    ELSE LegacyDigest(tx, txin_index, d.type, d.script))

\* The nested calls for the blocks of if statements execute what one pass over
\* the script does (one else per statement, no empty block).
BranchesAgree ==
    honest = <<"branch">> /\ results = <<>> =>
        LET b == Branching(SubSeq(utxoes[1].scripts, 4, Len(utxoes[1].scripts)), <<>>)
        IN  /\ fault = "none"
            /\ Calling("verify") => b.ok /\ main_stack = b.stack
            /\ phase = "rejected" => ~(b.ok /\ b.stack # <<>> /\ is_true(Top(b.stack)))

\* The assertion of the test in src/satoshi-script.c: the digest of the rawtx
\* is the one satoshi_tx_get_digest() computes from the whole transaction.
DigestsAgree ==
    \A j \in DOMAIN digests :
        LET d == digests[j]
        IN  d.rc = 0 /\ d.type = sighash_all =>
                d.digest = satoshi_tx_get_digest(tx, txin_index, d.type, cur_utxo, cur_txin.is_p2sh,
                                                 txins[1].redeem_scripts, d.script)
=============================================================================
