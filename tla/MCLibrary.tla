----------------------------- MODULE MCLibrary ------------------------------
(* The parts of the library that share no state: a behaviour uses one.     *)
EXTENDS AvlTree, Containers, CompactInt, TxCodec, Message

VARIABLE machine

MCLeaves == {Leaf(1), Leaf(2)}

MCTypes == {"inv", "notfound", "ping"}
MCCommands == {"inv", "notfound", "notefound", "ping"}
MCContents == {<<1>>, <<1, 2>>}

MCBytes == {0, 1, 127, 128, 255}
MCTargets == {<<a, b, c, d, 0, 0, 0>> : a, b, c, d \in MCBytes}
MCAddends == {<<a, b, c, 0, 0, 0, 0>> : a \in {0, 128}, b \in {0, 1, 128}, c \in {0, 127, 128}}

input(scripts) == [outpoint |-> 7, scripts |-> scripts, sequence |-> 9]
output(scripts) == [value |-> 5, scripts |-> scripts]
transaction(ins, outs, wits) ==
    [new_tx EXCEPT !.version = 2, !.txin_count = Len(ins), !.txins = ins, !.txout_count = Len(outs),
                   !.txouts = outs, !.has_flag = wits # <<>>, !.witnesses = wits, !.lock_time = 3]

legacy == transaction(<<input(varstr_new(<<1>>)), input(varstr_new(<<>>))>>, <<output(varstr_new(<<4>>))>>, <<>>)
segwit == transaction(<<input(varstr_new(<<>>)), input(varstr_new(<<1>>))>>,
                      <<output(varstr_new(<<0>>)), output(varstr_new(<<4>>))>>,
                      <<<<varstr_new(<<6>>), varstr_new(<<>>)>>, <<>>>>)
\* a script whose length needs three bytes, and a length not in its shortest form
long == transaction(<<input(varstr_new([i \in 1 .. 253 |-> 8]))>>, <<output(<<253, 1, 0, 4>>)>>, <<>>)

prefixes(data) == {SubSeq(data, 1, n) : n \in 1 .. Len(data)}
changed(data, from) == {[data EXCEPT ![i] = b] : i \in from .. Len(data), b \in {0, 1, 2, 3, 253}}
as_tx(data) == [block |-> FALSE, root |-> zero, data |-> data]

id(x) == <<"txid", satoshi_tx_serialize([x EXCEPT !.has_flag = FALSE])>>
root_of(list) == IF list = <<>> THEN zero ELSE RootOf([i \in DOMAIN list |-> id(list[i])])
as_block(data, list) == [block |-> TRUE, root |-> root_of(list), data |-> data]
block_of(list) == as_block(satoshi_block_serialize(11, list), list)
pair == <<segwit, legacy>>

MCPayloads ==
    {as_tx(d) : d \in prefixes(satoshi_tx_serialize(legacy)) \cup changed(satoshi_tx_serialize(legacy), 1)
                      \cup prefixes(satoshi_tx_serialize(segwit)) \cup changed(satoshi_tx_serialize(segwit), 1)
                      \cup {satoshi_tx_serialize(long), Front(satoshi_tx_serialize(long))}}
    \cup {as_block(d, pair) : d \in prefixes(block_of(pair).data) \cup changed(block_of(pair).data, 2)}
    \cup {block_of(<<legacy>>), block_of(<<legacy, segwit, legacy>>), block_of(<<>>)}
    \* a count of transactions not in its shortest form
    \cup {as_block(<<11, 253, 1, 0>> \o satoshi_tx_serialize(legacy), <<legacy>>)}

MCInit ==
    /\ AvlInit /\ ContainersInit /\ MerkleInit /\ MessageInit
    /\ \/ /\ machine \in {"avl", "list", "ring", "buffer", "merkle", "message"}
          /\ target = uint256_NaN /\ total = compact_uint256_NaN /\ adds = 0
          /\ payload = as_tx(<<>>) /\ pc = "idle" /\ txs = <<>>
          /\ p = 0 /\ txn_count = 0 /\ held = {} /\ live = {}
       \/ /\ machine = "compact" /\ CompactInit
          /\ payload = as_tx(<<>>) /\ pc = "idle" /\ txs = <<>>
          /\ p = 0 /\ txn_count = 0 /\ held = {} /\ live = {}
       \/ /\ machine = "codec" /\ CodecInit
          /\ target = uint256_NaN /\ total = compact_uint256_NaN /\ adds = 0

MCNext ==
    \/ machine = "avl" /\ AvlNext /\ UNCHANGED <<machine, messageVars, containerVars, merkleVars, compactVars, codecVars>>
    \/ machine = "list" /\ ListNext /\ UNCHANGED <<machine, messageVars, avlVars, merkleVars, compactVars, codecVars>>
    \/ machine = "ring" /\ RingNext /\ UNCHANGED <<machine, messageVars, avlVars, merkleVars, compactVars, codecVars>>
    \/ machine = "buffer" /\ BufferNext /\ UNCHANGED <<machine, messageVars, avlVars, merkleVars, compactVars, codecVars>>
    \/ machine = "merkle" /\ MerkleNext /\ UNCHANGED <<machine, messageVars, avlVars, containerVars, compactVars, codecVars>>
    \/ machine = "compact" /\ CompactNext /\ UNCHANGED <<machine, messageVars, avlVars, containerVars, merkleVars, codecVars>>
    \/ machine = "codec" /\ CodecNext /\ UNCHANGED <<machine, messageVars, avlVars, containerVars, merkleVars, compactVars>>
    \/ machine = "message" /\ MessageNext /\ UNCHANGED <<machine, avlVars, containerVars, merkleVars, compactVars, codecVars>>

MCSpec == MCInit /\ [][MCNext]_<<machine, messageVars, avlVars, containerVars, merkleVars, compactVars, codecVars>>
=============================================================================
