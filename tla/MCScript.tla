------------------------------ MODULE MCScript ------------------------------
(* Transactions for TLC: signed ones of one and two inputs, scripts with if *)
(* statements, and scripts that end in each of the error paths.             *)
EXTENDS Script, TLC

key(k) == <<"key", k>>
script(code) == <<"script", code>>
n(i) == [op |-> "n", arg |-> Byte(i)]
junk == <<"junk", 1>>

Multisig(ks, m) == <<n(m)>> \o [i \in DOMAIN ks |-> pushes(key(ks[i]))] \o <<n(Len(ks)), ops("checkmultisig")>>
PubkeyHash(k) == satoshi_script_generate_p2pkh_script(hash160(key(k)))
Program(code) == <<ops("0"), pushes(sha256(script(code)))>>
KeyProgram(k) == <<ops("0"), pushes(hash160(key(k)))>>
ScriptHash(code) == <<ops("hash160"), pushes(hash160(script(code))), ops("equal")>>

\* Two signatures, the second over the code after the separator.
Separated == <<pushes(key("k1")), ops("checksigverify"), ops("codeseparator"),
               pushes(key("k2")), ops("checksig")>>
\* A hash lock: the preimage selects the key.
Locked == <<ops("sha256"), pushes(sha256(junk)), ops("equal"), ops("if"), pushes(key("k1")),
            ops("else"), pushes(key("k2")), ops("endif"), ops("checksig")>>
Nested2 == <<n(1), ops("if")>> \o Locked \o <<ops("endif")>>

Legacies == {"p2pk", "p2pkh", "p2sh"}
Segwits == {"p2wpkh", "p2wsh", "separated", "locked"}
Nesteds == {"p2sh_p2wpkh", "p2sh_p2wsh"}
Names == Legacies \cup Segwits \cup Nesteds

\* A template: the output's script, the scripts the signatures commit to with
\* their keys, and where signatures go in the input's script and witness.
Template == [name \in Names |->
    CASE name = "p2pk" ->
            [scripts |-> <<pushes(key("k1")), ops("checksig")>>, segwit |-> FALSE,
             signs |-> << <<"k1", <<pushes(key("k1")), ops("checksig")>> >> >>]
      [] name = "p2pkh" ->
            [scripts |-> PubkeyHash("k1"), segwit |-> FALSE, signs |-> << <<"k1", PubkeyHash("k1")>> >>]
      [] name = "p2sh" ->
            [scripts |-> ScriptHash(Multisig(<<"k1", "k2", "k3">>, 2)), segwit |-> FALSE,
             signs |-> << <<"k1", Multisig(<<"k1", "k2", "k3">>, 2)>>, <<"k3", Multisig(<<"k1", "k2", "k3">>, 2)>> >>]
      [] name = "p2wpkh" ->
            [scripts |-> KeyProgram("k1"), segwit |-> TRUE, signs |-> << <<"k1", PubkeyHash("k1")>> >>]
      [] name = "p2wsh" ->
            [scripts |-> Program(Multisig(<<"k1", "k2">>, 1)), segwit |-> TRUE,
             signs |-> << <<"k2", Multisig(<<"k1", "k2">>, 1)>> >>]
      [] name = "separated" ->
            [scripts |-> Program(Separated), segwit |-> TRUE,
             signs |-> << <<"k1", Separated>>, <<"k2", SubSeq(Separated, 4, 5)>> >>]
      [] name = "locked" ->
            [scripts |-> Program(Nested2), segwit |-> TRUE, signs |-> << <<"k1", Nested2>> >>]
      [] name = "p2sh_p2wpkh" ->
            [scripts |-> ScriptHash(KeyProgram("k1")), segwit |-> TRUE, signs |-> << <<"k1", PubkeyHash("k1")>> >>]
      [] name = "p2sh_p2wsh" ->
            [scripts |-> ScriptHash(Program(Multisig(<<"k1", "k2">>, 1))), segwit |-> TRUE,
             signs |-> << <<"k1", Multisig(<<"k1", "k2">>, 1)>> >>]]

\* The input's script and witness, given its signatures.
Filled(name, sigs) ==
    CASE name = "p2pk" -> [scripts |-> <<pushes(sigs[1])>>, witness |-> <<>>]
      [] name = "p2pkh" -> [scripts |-> <<pushes(sigs[1]), pushes(key("k1"))>>, witness |-> <<>>]
      [] name = "p2sh" ->
            [scripts |-> <<ops("0"), pushes(sigs[1]), pushes(sigs[2]),
                           pushes(script(Multisig(<<"k1", "k2", "k3">>, 2)))>>, witness |-> <<>>]
      [] name = "p2wpkh" -> [scripts |-> <<>>, witness |-> <<sigs[1], key("k1")>>]
      [] name = "p2wsh" -> [scripts |-> <<>>, witness |-> <<Empty, sigs[1], script(Multisig(<<"k1", "k2">>, 1))>>]
      [] name = "separated" -> [scripts |-> <<>>, witness |-> <<sigs[2], sigs[1], script(Separated)>>]
      [] name = "locked" -> [scripts |-> <<>>, witness |-> <<sigs[1], junk, script(Nested2)>>]
      [] name = "p2sh_p2wpkh" ->
            [scripts |-> <<pushes(script(KeyProgram("k1")))>>, witness |-> <<sigs[1], key("k1")>>]
      [] name = "p2sh_p2wsh" ->
            [scripts |-> <<pushes(script(Program(Multisig(<<"k1", "k2">>, 1))))>>,
             witness |-> <<Empty, sigs[1], script(Multisig(<<"k1", "k2">>, 1))>>]

Utxo(scripts, i) ==
    [scripts |-> scripts, value |-> 10 * i, p2sh_segwit |-> FALSE,
     type |-> IF scripts = <<>> \/ first_byte_over_16(scripts) THEN "legacy" ELSE "segwit"]
Outs == << [value |-> 5, scripts |-> PubkeyHash("k9")] >>

\* choices[i] = <<template, hash type, intent>>
\* The scripts of inputs and outputs, and those inside what they push and the
\* witnesses.
Inner(values) == {v[2] : v \in {v \in values : is_script(v)}}
ScriptsOf(ins, outs) ==
    LET outer == {i.scripts : i \in Range(ins)} \cup {o.scripts : o \in Range(outs)} \cup
                 UNION {Inner(Range(i.witness)) : i \in Range(ins)}
    IN  outer \cup UNION {Inner({token.arg : token \in Range(code)}) : code \in outer}
Claimed(spending, outs, claims) ==
    [tx |-> spending, utxoes |-> outs, honest |-> claims, scripts |-> ScriptsOf(spending.txins, outs)]

Case(choices) ==
    LET N == DOMAIN choices
        bare == [version |-> 1, has_flag |-> \E i \in N : Template[choices[i][1]].segwit,
                 txins |-> [i \in N |-> [outpoint |-> i, sequence |-> 100 + i]],
                 txouts |-> Outs, lock_time |-> 0]
        digest(i, code) ==
            IF Template[choices[i][1]].segwit
            THEN Bip143(bare, i - 1, choices[i][2], code, 10 * i)
            ELSE LegacyDigest(bare, i - 1, choices[i][2], code)
        sig(i, s) ==
            CASE choices[i][3] = "honest" -> <<"sig", s[1], digest(i, s[2]), choices[i][2]>>
              [] choices[i][3] = "forged" -> <<"sig", "k8", digest(i, s[2]), choices[i][2]>>
              [] choices[i][3] = "other" -> <<"sig", s[1], hash256(<< <<"other">> >>), choices[i][2]>>
        filled(i) == Filled(choices[i][1], [j \in DOMAIN Template[choices[i][1]].signs |->
                                                sig(i, Template[choices[i][1]].signs[j])])
    IN  Claimed([bare EXCEPT !.txins = [i \in N |->
                    [outpoint |-> i, sequence |-> 100 + i,
                     scripts |-> filled(i).scripts, witness |-> filled(i).witness]]],
                [i \in N |-> Utxo(Template[choices[i][1]].scripts, i)],
                [i \in N |-> IF choices[i][3] = "honest" THEN "honest" ELSE "forged"])

\* A legacy input cannot sign the output of an index there is none of.
Signable(choices) ==
    \A i \in DOMAIN choices :
        ~(choices[i][1] \in Legacies /\ choices[i][2].base = "single" /\ i > Len(Outs))

\* The first input is signed with one of three hash types; the second with any,
\* or with a signature of another key or over another message.
First == Names \X {sighash_all, sighash("single", FALSE), sighash("none", TRUE)} \X {"honest"}
Second == (Names \X SighashTypes \X {"honest"}) \cup
          ((Legacies \cup Segwits) \X {sighash_all, sighash("none", FALSE)} \X {"forged", "other"})
SignedCases ==
    {Case(<<a>>) : a \in Second} \cup {Case(c) : c \in {c \in First \X Second : Signable(c)}}

-----------------------------------------------------------------------------
(* If statements: conditions and blocks of constants, two levels *)

Consts == {<<n(1)>>, <<ops("0")>>}
Conditions == {n(1), ops("0")}
If(blocks) == {<<c, ops(o)>> \o b \o <<ops("endif")>> : c \in Conditions, o \in {"if", "notif"}, b \in blocks}
IfElse(blocks, others) ==
    {<<c, ops(o)>> \o b \o <<ops("else")>> \o d \o <<ops("endif")>> :
        c \in Conditions, o \in {"if", "notif"}, b \in blocks, d \in others}
Level1 == If(Consts) \cup IfElse(Consts, Consts)
Level2 == If(Level1) \cup IfElse(Level1, Consts) \cup IfElse(Consts, Level1)

\* One input whose script pushes `pushed`, and an output script.
Single(pushed, witness, scripts, claim) ==
    Claimed([version |-> 1, has_flag |-> witness # <<>>,
             txins |-> << [outpoint |-> 1, sequence |-> 101, scripts |-> pushed, witness |-> witness] >>,
             txouts |-> Outs, lock_time |-> 0],
            << Utxo(scripts, 1) >>, <<claim>>)

\* The pushed item is consumed first, so that the statement starts clean.
BranchCases ==
    {Single(<<pushes(junk)>>, <<>>,
            <<ops("hash160"), pushes(hash160(junk)), ops("equalverify")>> \o b, "branch") :
        b \in Level1 \cup Level2}

-----------------------------------------------------------------------------
(* One script for each error path *)

Odd(scripts) == Single(<<pushes(junk)>>, <<>>, scripts, "any")
OddInput(pushed) == Single(pushed, <<>>, PubkeyHash("k1"), "any")
Redeem(pushed, code) == Single(<<ops("0")>> \o pushed \o <<pushes(script(code))>>, <<>>, ScriptHash(code), "any")

OddCases ==
    {Odd(<<ops(o)>>) : o \in {"reserved", "else", "endif", "return", "verify", "nop", "truncated",
                              "pushdata4", "equal", "checksig", "checksigverify", "checkmultisig",
                              "codeseparator", "if", "ripemd160"}} \cup
    {Odd(<<ops("equalverify")>>), Odd(<<ops("0"), ops("dup"), ops("verify")>>),
     Odd(<<ops("equal"), ops("hash256"), ops("hash160")>>),
     Odd(<<pushes(Empty), ops("dup")>>), Odd(<<ops("0"), ops("0"), ops("equal")>>),
     Odd(<<n(1), ops("hash160"), pushes(hash160(<<"u64", Byte(1)>>)), ops("equal")>>),
     Odd(<<pushes(Empty), ops("checksig")>>), Odd(<<n(1), ops("checksig")>>),
     Odd(<<n(1), pushes(key("k1")), ops("checksig")>>),
     Odd(<<pushes(key("k1")), ops("checksigverify"), n(1)>>),
     Odd(<<pushes(junk), ops("checksig")>>),
     Odd(<<n(1), ops("if"), ops("endif")>>), Odd(<<n(1), ops("if"), n(1)>>),
     Odd(<<n(1), ops("if"), n(1), ops("if"), n(1), ops("if"), n(1),
           ops("endif"), ops("endif"), ops("endif")>>),
     Odd([i \in 1 .. StackAlloc |-> n(1)]),
     Odd(<<>>), Odd(<<ops("0"), pushes(junk)>>), 
     OddInput(<<pushes(junk), ops("dup")>>), OddInput(<<ops("checksig")>>),
     OddInput(<<ops("codeseparator")>>), OddInput(<<ops("if")>>), OddInput(<<>>),
     OddInput(<<ops("0")>>), OddInput(<<ops("0"), ops("0")>>), OddInput(<<ops("0"), pushes(Empty)>>),
     OddInput(<<ops("0"), pushes(junk)>>),
     Redeem(<<>>, <<ops("0")>>), Redeem(<<>>, <<n(1)>>),
     Redeem(<<>>, <<n(1), ops("codeseparator")>>),
     Redeem(<<>>, <<ops("codeseparator"), n(1), ops("if"), ops("codeseparator"), n(1), ops("endif")>>),
     Redeem(<<>>, <<n(1), n(1), pushes(junk), n(1), ops("checkmultisig")>>),
     Redeem(<<>>, <<pushes(junk), ops("checkmultisig")>>),
     Redeem(<<>>, <<n(2), ops("checkmultisig")>>),
     Redeem(<<>>, <<pushes(key("k1")), n(1), ops("checkmultisig")>>),
     Redeem(<<>>, <<pushes(junk), pushes(key("k1")), n(1), ops("checkmultisig")>>),
     Redeem(<<>>, <<n(2), pushes(key("k1")), n(1), ops("checkmultisig")>>),
     Redeem(<<>>, <<n(1), pushes(key("k1")), n(1), ops("checkmultisig")>>),
     Redeem(<<>>, <<ops("0"), pushes(key("k1")), n(1), ops("checkmultisig")>>),
     Redeem(<<pushes(junk)>>, <<n(1), pushes(key("k1")), n(1), ops("checkmultisig")>>),
     Redeem(<<>>, <<n(1), n(1), pushes(key("k1")), n(1), ops("checkmultisig")>>),
     Single(<<>>, <<junk, script(<<n(1)>>)>>, Program(<<n(2)>>), "any"),
     Single(<<>>, <<junk>>, <<n(1), pushes(junk)>>, "any"),
     Single(<<>>, <<junk>>, <<ops("0"), pushes(junk)>>, "any"),
     Single(<<>>, <<junk, key("k2")>>, KeyProgram("k1"), "any"),
     Single(<<>>, <<Empty>>, Program(<<n(1)>>), "any"),
     Single(<<>>, <<junk>>, ScriptHash(<<n(1)>>), "any"),
     Single(<<pushes(Empty)>>, <<junk>>, ScriptHash(<<n(1)>>), "any"),
     Single(<<pushes(junk)>>, <<junk>>, ScriptHash(<<n(1)>>), "any"),
     Single(<<>>, [i \in 1 .. StackAlloc + 1 |-> junk], KeyProgram("k1"), "any"),
     Single(<<pushes(junk)>>, [i \in 1 .. StackAlloc + 1 |-> junk], ScriptHash(<<n(1)>>), "any")}

AllCases == SignedCases \cup BranchCases \cup OddCases

-----------------------------------------------------------------------------
\* Three inputs that pay to public key hashes, all signed with sighash_all.
ThreeInputs == {Case([i \in 1 .. 3 |-> <<"p2pkh", sighash_all, "honest">>])}
=============================================================================
