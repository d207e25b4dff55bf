# Formal models of bitcoin-clib

TLA+ models of this repository's block chain, of the node that feeds and stores it,
and of the library below them (scripts and transactions, the storage engine,
messages, containers, codecs), TLC configurations that check them on small
instances, and TLAPS proofs of the core invariants for every instance. Source paths
below are relative to the repository root; `PROJECT.json` names the source lines
behind every definition.

## The system

bitcoin-clib is a C library for bitcoin data (headers, transactions, scripts,
keys) with an SPV node on top of it. The parts, the state they keep and how
they interact:

| part | files | state | operations | works with |
|---|---|---|---|---|
| block chain | `src/chains.c` | `heirs` (main chain, an array), `search_root` (its index), `candidates_list` (family trees of blocks off the main chain, their index, the longest end of each) | `blockchain_add`, `blockchain_find`, `get_latest`, `get_known_hashes`, reset | calls `on_add_block` / `on_remove_block` for every heir gained or lost, under its mutex |
| headers database | `src/block_hdrs-db.c` | Berkeley DB: hash -> (height, header), a second index by height; the page buffer and `offset` of the reader | put, del, `next` page | written by the chain's callbacks, read once at start |
| spv application | `src/spv_node_app.c` | the node, the database, the phase (load, run) | `app_run`, handlers of verack, inv, headers | loads the database into the chain, then runs the node |
| network loop | `src/spv-node.c` | socket, `in_buf`, `out_buf`, poll events, retries, `g_quit` | `spv_node_run`, `on_read`, `on_write`, `send_message` | parses messages, calls one handler per message |
| default handlers | `src/spv_node_message_handlers.c` | peer version and height, address list, sendheaders flag | one per message type | push replies to `out_buf` |
| message formats | `src/bitcoin-message.c` | type, header, the object of the message and who owns it, its bytes | new, parse, attach, detach, clear, serialise | network loop and handlers |
| db engine | `src/db_engine.c`, `src/db/db-helpler.c` | one engine per process, reference count, handles, transactions | open, close, txn begin/commit/abort, find, insert, update, del | meant for blocks.db / utxoes.db |
| scripts | `src/satoshi-script.c` | main and alt stack, position, flags, depth of if statements, current input | parse, one step per opcode | transactions, crypto |
| transactions | `src/satoshi-tx.c`, `src/segwit-tx.c` | parsed fields, the partly hashed contexts the inputs share | parse, serialise, digest for each sighash type | scripts, crypto |
| merkle tree | `src/merkle_tree.c` | levels of hashes | add, recalculate | blocks |
| numbers and types | `src/compact_int.c`, `src/satoshi-types.c`, `src/satoshi-block.c` | - | compact difficulty, varint, varstr, block parsing | everywhere |
| containers | `utils/avl_tree.c`, `utils/auto_buffer.c`, `utils/clib-stack.c` | a tree, a byte queue, a stack | add/delete/find, push/pop | node, handlers, scripts |
| json-rpc client | `src/rpc/json-rpc.c` | ring of past requests and its index | request, response | standalone |
| crypto, encodings, json helpers, parameters | `src/crypto.c`, `src/base58.c`, `utils/*`, `consensus/*` | - | conversions, wrappers | everywhere |

What is hard here. `blockchain_add` is one long sequence of pointer surgery on
two linked structures and an array, and the order in which blocks arrive
decides which of its rules apply; a unit test tries a few orders. Each
reorganisation writes the database record by record, so a crash in the middle
is visible on disk at the next start. The reader of the database works in
pages, with off-by-one cases at the page boundary. The network loop keeps
partial messages across reads and reconnects a limited number of times.
The script interpreter is not reset between the inputs of a transaction, calls
itself for redeem scripts, witness programs and if blocks over one shared stack,
and the digests it asks for reuse hashes of earlier inputs. The storage engine is
one object shared by threads behind a reference count, and its secondary index is
written by a callback that must keep up with transactions that abort, fail to
commit or die. Parsers allocate as they go and can fail at every byte.
`PROJECT.json` lists these hazards at their lines with the properties that
watch them.

## Plan

In the order of importance, with what each step adds:

1. **Chains** (done): `blockchain_add` step by step, the abstract main chain it
   implements (**MainChain**), invariants, **ChainsProofs**.
2. **SpvApp** (done): database load, callbacks, peers' headers, crash and restart.
3. **SpvNode** (done): connection life cycle, retries, framing of the input
   stream, output buffer and POLLOUT, dispatch to the handlers.
   **SpvSync** (done): header download, composing the chain, the block locator,
   `on_message_headers` and a peer whose chain grows and reorganises.
4. **Script** over **RawTx** (done): verification of a transaction's inputs.
5. **DbEngine** (done): reference count, transactions, secondary index, cursors.
6. **Message**, **Containers**, **AvlTree** (done): ownership and order.
7. **MerkleTree**, **CompactInt**, **TxCodec** (done): algorithms and parsers
   against reference definitions.
8. Proofs: Chains, SpvApp, SpvNode, DbEngine, Message, Containers, TxCodec, CompactInt,
   Script, MerkleTree (done, see "Proofs"). Left: what the last clause of MainChain says of
   a new chain's end, which needs the difficulties of whole trees; the reload of SpvApp; what
   the scripts of Script compute; AvlTree, which is written with RECURSIVE operators.

## Modules

**Chains.tla** models `src/chains.c`. One `blockchain_add` call is a sequence of
steps; `op.pc` says which comes next, and no other call starts in between
because the code holds `chain->mutex` throughout.

| action | code |
|---|---|
| `Ignore` | the early return -1 for a block that is known |
| `Enrol` | a new node, which claims the children of the head that waited for it; that head's chain is removed from the list |
| `RuleII`, `RuleIII` | the node joins its parent's chain, or starts one |
| `RuleIV` | a chain that hangs off the main chain is weighed against its tip |
| `AbandonChild` | one heir goes back to the candidates, with `on_remove_block` |
| `AddHeir` | one candidate becomes an heir, with `on_add_block` |
| `LeaveChain` | the new heirs leave the candidates' index, the abandoned line takes their place |
| `AbandonSiblings` | the siblings of one new heir form a chain of their own |
| `DestroySuccessor` | the nodes that moved to the main chain are freed, with them whatever siblings the first still has, and the chain if it is empty |

A node is addressed by a number, as a pointer would: `info` maps live addresses
to `block_info` records (`kids` is the list first_child, next_sibling, ...),
`longest_end` maps the addresses that are heads of an `active_chain` to their
longest end, `list_root` is the candidates' search tree. `heirs[i]` is the code's
`chain->heirs[i - 1]`. `accepted` is a history variable.

`fault` is set where the code leaves defined behaviour: a failed assert, the
endless claim loop ("hang"), a `block_info` used as an `active_chain`
("bad_cast"), a live pointer to freed memory ("dangling"), the abort of the
application ("abort"). Nothing is claimed about what follows, so a fault is final
(until the process restarts, in SpvApp). The properties say which faults cannot
happen. The violation runs exhibit three that can: "hang" (`chains_claim`), "dangling"
(`chains_siblings`) and "abort" (`spv_app_duplicate`). Three more can happen and have no run of
their own: "bad_cast", which follows from the NULL parent of the first abandoned block and at
which behaviours of `chains` end; the assert (chains.c:497) on a stored header that lost its
fields, which `LoadEnds` counts as an end of loading; and an assert that takes more blocks
than the runs have (see the end of "Proofs").

The parent of the first block of an abandoned line stays NULL, although chains.h:90 says
that only a head has none: after a1, b1, b2 off the genesis block a1 is such a block, and
with a later child a2 of it `get_current_chain()` takes a1 for an `active_chain`, the fault
"bad_cast". `FamilyIsTree` excepts this parent.

Abstractions: a header is its hash, with `prev_hash` and `difficulty` as
constant functions; difficulties are naturals where the code uses doubles;
`complete` says whether a header still has all the fields it came with
(`abandon_child` restores only some). The code's recursions over a family tree are walks of
at most `MaxNodes` steps (`first_child_line`, `offspring`: what they visit, in what order;
`accumulate`, `longest_offspring`: what they compute on the way), as many as there are nodes. The code checks no proof of work, so
neither does the model. A longest_end that points to a freed node is only ever
compared with another pointer, and the allocator may reuse the address: the
outcome of that comparison is left open (`MayDiffer`). The heirs array is
allocated for a hundred years of blocks and its growth is not modelled.

**MainChain.tla** is what readers of the chain rely on: known blocks, and one
chain that moves in one step from a linked chain to a linked chain that ends in
a block that was not on the old one. `Chains!ImplementsMainChain` maps the heirs
to it, with the old chain standing in until a reorganisation is over, as the
mutex makes it appear to readers.

**SpvApp.tla** adds the application: `next_page` and `load_record` are the loop
of `app_run` over the headers database, `peer_header` a header of
`on_message_headers`, `chain_step` the steps of `blockchain_add`, `restart` the
death of the process at any moment, after which `main` starts over with an empty
chain and the database as it was. Berkeley DB is external: a put or del is durable
when it returns, the height index returns records in height order with ties in
any order, and DB_NEXT on a cursor that is not positioned starts at the first
record.

**SpvNode.tla** models `src/spv-node.c` and the handlers. `pc` is where the one
thread of `spv_node_run` is:

| actions | code |
|---|---|
| `connect`, `connect_fails`, `resolve_fails`, `run_ends` | the for loop over retries, `connect2`, the cleaned buffers, `add_message_version` |
| `poll_ready`, `poll_leaves`, `check` | the inner loop: ppoll, its exits, and the close after an error or a hang-up |
| `read_some`, `read_would_block`, `read_fails` | one `read()` of `on_read` |
| `parse_waits`, `parse_fails`, `handle_message` | one round of its inner loop: length, magic, command and checksum tests, then the handler |
| `write_some`, `write_fails`, `write_killed`, `write_done` | one `write()` of `on_write` |
| `peer_sends`, `peer_reads`, `peer_leaves`, `on_signal` | the world: at any moment |

A byte is a pair (message, position), so that a byte out of place is visible, and
lengths are a few units. Messages are well formed or fail one of the parser's
checks; the asserts that handlers make on payloads are not modelled. SIGINT is
blocked inside ppoll and SIGUSR1 interrupts it, but either sets `g_quit`, so an
interrupted ppoll is `poll_leaves`. What a headers message does to the chain is
`peer_header` of SpvApp; here it only asks for more. The node is single-threaded
in this repository (`async_mode` is unused), so the half-used `out_mutex` plays no
role.

**SpvSync.tla** extends Chains with the download of headers. `on_message_verack`
opens a connection to a peer and asks with the locator of
`blockchain_get_known_hashes`; `PeerAnswers` (external) replies with at most
`BatchSize` headers after the first hash it shares; `AddHeader` is a turn of the loop of
`on_message_headers`, which stops at the first header the chain refuses; `PullMore` asks
again, unless the answer was empty; `ChainStep` is a step of `blockchain_add`. The
locator is the code's, except that its count is one too high when `max_hashes` runs out
before the genesis block, which no chain is long enough for.

**RawTx.tla** holds the digests that signatures commit to. A SHA-256 context is the
sequence of fields fed to it and a hash is an injective tag, so two digests are equal
exactly when the same fields were hashed in the same order. `rawtx` keeps the context of
the legacy inputs with `last_hashed_txin_index`, and the three shared segwit hashes;
`satoshi_tx_get_digest` is the computation from the whole transaction.

**Script.tla** models `satoshi-script.c` as `verify_tx()` of `segwit-tx.c` drives it.
`frames` are the running calls of `scripts_parse`, the innermost last.

| actions | code |
|---|---|
| `scripts_attach_tx`, `scripts_detach_tx` | the life of the interpreter's `rawtx` |
| `ParseTxin`, `ParseTxout`, `ReturnTxin`, `ReturnTxout`, `VerifyInput` | `verify_tx`: the input's script, the output's, then the top of the stack |
| `PreProcessLegacy`, `PreProcessNative`, `PreProcessNested` | what is recognised before an output's script runs |
| `OpStack`, `OpSigned`, `OpMultisig`, `CheckMultisig`, `OpCodeseparator`, `OpIf` | one opcode; `CheckMultisig` is one turn of the loop over signatures |
| `ReturnBlock`, `ReturnWpkh`, `ReturnRedeem` | the return of a nested call and what its caller does with it |

An opcode is a class of the enumeration (all pushes of data are one, all opcodes that
are not handled are one), a byte string is a tagged value: a key, a signature (key,
digest, hash type), a script, junk. `phase` "rejected" is a failed assert on a
return code in `verify_tx`, which is how that function refuses; `fault` is an assert inside
the interpreter. The model keeps what the interpreter does, where it differs from other
implementations too: `op_checksigverify` succeeds on input it cannot parse;
`op_checkmultisig` pops no extra item and does not advance past a key that matched;
the result of a nested witness program is popped unseen; `op_return` is ignored; a
script hash is recognised only when the input's script starts with `op_0`; an empty
if block, or a separator at the end of a script, fails an assert. Growth of the stack past
its allocation clears its first entries: that is a fault, and a behaviour ends there.

**DbEngine.tla** models `src/db_engine.c`. `Main` uses the databases, `Others` take and
drop references.

| actions | code |
|---|---|
| `db_engine_init`, `CallAddRef`, `CallCleanup`, `global_lock`, `Locked` | the engine; an operation under `g_mutex` is entered, waits for the lock and then runs to its end |
| `engine_open_db`, `engine_close_db`, `db_associate` | handles and the engine's list of them |
| `txn_begin`, `txn_commit`, `txn_abort`, `txn_prepare`, `txn_discard` | transactions, nested |
| `db_insert`, `db_update`, `db_del` | one record of the primary, with the callback for the secondary; `ok` = FALSE is a refusal by Berkeley DB |
| `db_cursor_*` | a cursor, with the buffers it reuses from one read to the next |
| `Crash` | the process dies; recovery undoes what was not committed |

The engine counts calls, not holders, so what callers do is part of what makes it right. A thread
takes a reference while some thread has one (`Given`); a superfluous `db_engine_cleanup()`, like
the one in the test program, comes only when all references are given up and none is being
taken. Without these two conditions a thread could take a reference that another thread's
superfluous call then drops: this needs three threads, which the run does not have, and
was found by the proof.

`told` is a history variable: the contents as the return codes describe them to the
caller. Kept as in the code: `db_find` on a database without duplicates returns 1
for an absent key too; `db_cursor_move_to` looks up with a key of size 0; closing a
database leaks its handle; when the list grows past its allocation its first slots are
cleared (the runs stay below). Initialising the engine twice replaces the
live one, and nothing in the repository does so: the action is guarded.

**Message.tla** models the `bitcoin_message_t`: `heap` has the objects alive, `mine`
the ones the caller owns, `msg` may hold one more. `spv_node_send_message` is
`send_message` with serialisation. Payload formats are external: the sources do not
contain them. Kept as in the code: parsing leaves the header empty;
the names "notefound" and "merkle_block" differ from those of their types; a message
whose type has no object cannot be serialised; a second serialisation reports the
header only (`MessageKeepsItsParts` is about the first); attach owns the object even
when it fails.

**Containers.tla** has the stack or queue of `clib-stack.c`, the ring of pointers of
`chains.c` and `auto_buffer`, each with its memory and beside it (`expected`) the sequence
its user believes in. The ring does not move its items when it grows, so order is lost
if they start past the first slot; `kept` marks those behaviours and the property
excepts them. **AvlTree.tla** has nodes in a heap, the path an operation descends, one
`rebalance` step for each turn of the loop upwards, and the iterator.
**MerkleTree.tla** has the slots, the layers that survive from one recalc to the
next, and one step per layer. **CompactInt.tla** has the conversions between 256-bit
and compact integers, comparison and sum; `uint256_add` asserts on a sum that is zero or
overflows, and above exponent 29 the conversion clips bytes, so both properties are about
the exponents below. **TxCodec.tla** has the parsers of transactions and blocks with one
step per field, what each allocates and its error path frees, and the serialisers.
Fields of a fixed size take one place; varints and strings are as in the code, but for the
nine-byte varint (`PayloadsAssumption`: no byte 255). A count that is not in its shortest form, a
block's number of transactions among them, is parsed and re-encoded shorter; a flag without witnesses is parsed and fails an assert when
serialised; the comparison of the block hash reads an uninitialised local, so both outcomes
are modelled.

The `MC` modules give the constants their values; **MCLibrary.tla** runs the parts
of the library one at a time (`machine`), as they share no state.
**ChainsProofs**, **SpvAppProofs**, **SpvNodeProofs**, **DbEngineProofs**, **TxCodecProofs** and
**ScriptProofs** hold the theorems about the module of that name, **LibraryProofs** those
about Message, Containers and CompactInt, **SequenceLemmas** what several of them need: induction
in the form the provers can use, concatenation, and `FlattenSeq` of the community modules.

## Runs

| run | checks | result |
|---|---|---|
| `chains` | `TypeOK`; `HeirsLinked`, `SearchRootExact`, `StoreMirrorsHeirs`: main chain, index and database agree at every step; `AddHeirAsserts`: the first child of the chain that wins names the last heir; `CandidatesOffMain`, `FamilyIsTree`: between calls and without a fault the candidates are trees and hold no block of the main chain; `LossesAreSiblings`: they hold every other block, until a free leaves a dangling pointer, and that one loses only blocks above a fork whose head lists a freed child; `ImplementsMainChain` | hold |
| `spv_app` | `StoreCoversHeirs`; `ReloadLosesLessThanAPage`; `LoadEnds` | hold |
| `spv_node` | `TypeOK`; `InputIntact`: what is handled, buffered and on the wire is what the peer sent; `OutputIntact`: what is written and buffered is the version message and one reply per message handled; `RepliesLeave`, `MessagesHandled`, `QuitEnds` | hold |
| `script` | `TypeOK`; `VerdictIsRight`: a transaction is accepted if every input is signed as its output asks and rejected if one is signed by another key or over another message; `NothingLeftBetweenInputs`; `DigestsMatchReference`: whatever is cached; `BranchesAgree`: nested parses of if blocks against one pass over the script | hold |
| `db_engine` | `TypeOK`; `ReportsAreTrue`: what return codes said is what is stored, after aborts, failures and recovery; `SecondaryInStep`, `FindsEveryRecord`; `ListNamesOpenDatabases`; `ReferencesKeepEngine`; `CursorShowsRecord`; `LockIsReleased` | hold |
| `library` | `AvlIsOrderedSet`, `AvlIteratesInOrder`; `ContainersKeepOrder`; `MerkleRootRight`: whatever the layers kept; `CompactKeepsTarget`, `CompactOrder`; `TxRoundTrip`, `TxFailureReleases`; `MessageKeepsItsParts`: one owner per object, and the first send is whole | hold |
| `chains_siblings` | `SiblingsBecomeOrphans` (chains.h: siblings are regarded as orphans and can regain their status) | violated: when the first child of a candidate chain wins, its siblings are freed with it |
| `chains_claim` | `ClaimingEnds` (chains.h: after claiming the children, go on) | violated: endless loop with two children |
| `chains_work` | `HeirsHaveMostWork` (chains.h: heirs have the largest cumulative difficulty) | violated: `longest_end` is replaced without a comparison |
| `spv_app_duplicate` | `NoDuplicateOnLoad` (spv_node_app.c: "should never happen") | violated: the page after a full last page is the first one again |
| `script_digest` | `DigestsAgree` (satoshi-script.c: the two digests are asserted equal) | violated: from the third legacy input on an input is hashed twice |
| `spv_sync` | `CatchesUp` (chains.c: nodes consider the longest chain to be the correct one) | violated: the answer starts with a block that is a candidate already, and the rest is dropped each time |

Every property of a passing run has a mutant in `PROJECT.json`: a plausible slip
in one of the modelled functions that makes it fail.

**Bounds.** `MCChains`: eight blocks, three branches off the genesis block, one of
which forks on two levels, with difficulties chosen so that a branch can win with
fewer blocks. In this tree a block can be claimed with one and with two children,
a chain with siblings on several levels can win, one whose head has a second child too (which
frees it), an abandoned line of two can come
back, and every rule meets every other. `MaxNodes` = 16 is enough for all eight
blocks and their heads to be candidates at once, so allocation never blocks a
step that matters. `chains_siblings` has the smallest tree that shows its violation: three
children of the genesis block, one of which has a child.
`MCSpvApp`: five blocks, one fork, pages of two (the code's 2016 only moves the
boundary), two crashes: the second one hits a database the first one left behind.
`MCSpvNode`: headers of two bytes and payloads of up to three, a read buffer of
three and a window of four, so a message spans several reads, a read spans several
messages, and a reply can be longer than the window; two connections, so that the
second starts with what the first left; two messages per connection, of five sorts
(replied to shortly, replied to at length, kept, refused by its handler, refused by
the parser).
`MCSpvSync`: a branch of one block and one of two, the smallest in which a tie is
broken later; answers of two headers, so an answer can end in the middle of a branch.
`MCScript`: every output kind (p2pk, p2pkh, p2sh, both witness programs, both nested),
every hash type, one and two inputs in every order, signed rightly, by another key, or over
another message; a separator, nested if statements and one script per error path; three
inputs in `script_digest`. `MCDbEngine`: two threads with up to two references, two keys and
three values (two share a secondary key, one of them has a second one, the third has
none), two nested transactions, a list of two
(64 in the code), cursors outside transactions (`CursorDepth` = 0). `MCLibrary`: AVL
trees over five keys, which reach both double rotations and deletion of a node with
two children; containers of four items or six bytes with allocation units of three (4096
in the code), so that growth and restart happen; five leaves, so an odd layer above an odd
layer; integers of seven bytes (32 in the code), of which four vary over the
boundary values; every prefix and every change of one byte of two transactions and a
block of two, a script of 253 bytes, and blocks of zero, one and three transactions; two
objects and three message types, one of which has no object and one whose name differs.

**Fairness.** `AppSpec` assumes weak fairness of `next_page`, `load_record` and
`chain_step`: straight-line code of the one thread that runs `app_run`. Nothing is
assumed of peers, and crashes are bounded by `MaxRestarts` (a process that dies
for ever never finishes loading). `SpvNode!Spec` assumes weak fairness of the node's
thread only. `MaxSent` makes the peer pause in the end, and the liveness properties
need that: `on_read` does not return while data keeps coming. `Script!Spec` assumes that
the one thread goes on. `DbEngine!Spec` assumes that a thread that holds the mutex goes on;
nothing is assumed of one that waits or calls. `SyncSpec` assumes weak fairness of the
node's own steps and strong fairness of connections and of the peer's answers. That is
more than `spv_node_run` promises, which stops after `max_retries`, and makes the
violation stronger: it is not for lack of connections or answers that the node stays behind.
`spv_node`, `spv_app` and `chains` are deadlock free; the library's behaviours end where
their bounds are reached, and the engine may stop for good after a failed assert.

## Proofs

Each theorem is for every value of the constants that satisfies the named assumption, for
behaviours of any length. `PROJECT.json` lists them.

| module | assumption | theorems (`Spec => []...`) |
|---|---|---|
| `ChainsProofs` | `HeadersAssumption`: the genesis block is not handed in, parents are hashes of the universe, difficulties are positive; any `MaxNodes` (a number). For `OnlySiblingsAreLost` alone `AcyclicAssumption`: no set of headers in which each has its parent in the set, which would be a circle of SHA-256 digests | `MainChainLinked`, `SearchTreeExact`, `StoreIsMainChain`, `HeirAssertsHold`, `ReadersSeeLinkedChains`, and `Invariance` from which they follow; `ChainsTypes`, `FamilyTreesHold`, `OnlySiblingsAreLost`, and `CandidatesAreForest` from which the last two follow |
| `SpvAppProofs` | that, and `LimitsAssumption`: pages are not empty | `StoreCovers`, `ChainSurvivesRestarts` |
| `SpvNodeProofs` | `MessagesAssumption`: a message header, a read and the window are not empty | `TypeCorrect`, `InputHolds`, `OutputHolds` |
| `DbEngineProofs` | `EngineAssumption`: finitely many threads, room for two databases in the list | `TypeCorrect`, `ReportsHold`, `SecondaryHolds`, `FindsHold`, `ListHolds`, `ReferencesHold`, `CursorHolds` |
| `LibraryProofs` | `MessageAssumption`: "unknown" is not the type of an object; `ContainersAssumption`: an allocation unit of at least one place, bounds that are numbers; `CompactAssumption`: a width of at most 254 bytes (32 in the code), so that it fits an exponent and is not that of NaN | `PartsHold`; `ListKeepsOrder`, `RingKeepsOrder`, `BufferKeepsOrder`; `TargetKept`, `OrderHolds` |
| `TxCodecProofs` | `LayersAssumption`: the layers (32 in the code) have room for the leaves a tree may have; `PayloadsAssumption`: payloads are bytes, none of them 255 (used by `RoundTrips` alone) | `RootHolds` (`MerkleSpec`), `FailureReleases`, `RoundTrips` |
| `ScriptProofs` | `CasesAssumption`: what a case is (the scripts of its inputs and outputs are sequences of tokens, and those pushed inside them scripts as well), limits that are numbers | `Typed`, `WitnessDigestsAreRight`, `InputsStayInOrder`, `DepthIsGivenBack`, `LegacyDigestsFollowCache` |

**Chains.** None of its invariants is inductive. `AddHeir` appends the node `op.child` points
to and asserts that its stored `prev` is the tip; that the *header* of that node names
the tip needs "every node but a head carries its own header" (`NodesOK`), that the
pointers followed (`kids`, `op.child`, `op.line`, the search tree) lead to live nodes
that are not heads (`RootOK`, `OpOK`), and that a chain that is contested has a first
child and the line of new heirs can be followed to its end (`HeadsLead`, `LineOK`). That
the assert never fails needs every child's header to name its parent (`KidsLinked`: claiming,
`RuleII`, the abandoned line and the siblings each have to establish it) and the
reorganisation under way to hang off the heir at the fork (`ReorgLinked`: the line is the
heirs above it, the next child and the first abandoned node name the right parent).
`IInv` is the conjunction of the main-chain part, which holds always, and this
candidates part, which holds while there is no fault. For these theorems the difficulties and
longest ends, which the code computes by walking the trees, only decide *which* chain
wins, and nothing is assumed about their values. Every
action has its lemma (`EnrolStep`, `RuleIIStep`, ...), `NextInv` combines them.

`ChainsTypes` needs a little of the walks: what they visit is live (`offspring`,
`first_child_line`), and so the difficulties they pass down are numbers and a longest end is an
address or NULL.

`FamilyTreesHold` and `OnlySiblingsAreLost` need all of it, since `DestroySuccessor` frees what a walk
sees. `TreeInv` says that the candidates are a forest (`Tree`), in the middle of a call too, but for
one node that the step has in its hands (`Loose`: the new node until a rule has placed it, the
first of the abandoned line, the successor on its way out) and the parent links
that still lead to the line that leaves (`Leaving`: `abandon_siblings()` redirects the parent of one
sibling only). It also says that the line goes from first child to first child, that it
took the first place in its chain, and that its nodes have no other children down to
`op.level` (`LineInTree`). So what `block_info_free()` reaches from the successor, when all siblings are
given away, is the line itself, whose blocks are heirs by then, and no block that was taken in
is gone (`Present`). When the successor has siblings itself they are freed too: that leaves the head of
the chain with a freed child, which is the fault "dangling", and nothing is said of the trees
after it. Of the blocks it is said that only descendants of the fork are lost
(`SiblingsLost`): a block in no node any more was reached from a child of the head
(`AllInFamilies`), and the headers on the way down name one another up to the head
(`OffspringDescend`). That a walk of `MaxNodes` steps from a root sees *everything* below it is
`OffspringAll`: in a forest no node is visited twice, so the steps suffice.
Last, a node that no head reaches would have an owner that no head reaches: such headers
would name one another without end, which `AcyclicAssumption` excludes (`AllInFamilies`).

`ReadersSeeLinkedChains` is the refinement of MainChain step by step, in which `Adoption` stands for
`Abstract!Adopt` without its clause on the new last block: with `op.before` standing
in during a reorganisation, each step of `blockchain_add` is a stutter, a block learnt, or the
adoption of a chain that is linked from the genesis block and made of known blocks
(`AllKnown`). The clause that the new last block was not on the old chain needs that no block of
a candidate chain is an heir, and stays with TLC.

**SpvApp.** `StoreMirrorsHeirs` is false there, since a restart finds records of blocks the
new chain does not have. `AppInv` is `IInv` of Chains, which does not mention the database and so
survives restarts, with `StoreCoversHeirs` and the shape of records and pages (`DbInv`). That
deleting the record of the last heir leaves those of the others takes the exact search
tree: no block is on the main chain twice.

**SpvNode.** `InputInv` says that what is not handled is itself a sequence of whole messages, cut
off at the end by a reset; `NextMessage` gets from it that a complete message at the front of
`in_buf` is the next one the peer sent. Streams are `FlattenSeq` of the messages' bytes, and the
lemmas about it are in SequenceLemmas.

**DbEngine.** The records (`StoreInv`) and the registry of threads, handles and references
(`RegInv`) do not depend on each other. `TypeCorrect` adds
that open transactions never exceed `MaxDepth` (`Depth`). `StoreInv` says that `told` is `data`, that the index
is computed from it, and that every unresolved transaction remembers a state of which the same holds.
`FindsHold` needs besides that there are finitely many records: then they can be listed in the
btree's order (`ListExists`), and a list in strict order has each of them once (`InOrder`).
`RegInv` counts: `refs_count` is the number of references held and of those given up by
threads that wait for the mutex. `CursorHolds` is an action property and needs of the
invariant only the types in `RegInv`.

**Message.** Ownership, the type of the object and the bytes of the message depend on each
other: `Part` says of one message and one heap what `clear` and `serialize` need, so that
each is proved once and used for every caller.

**Containers.** A behaviour uses one of the three, so `ListSpec`, `RingSpec` and `BufferSpec` each
have a theorem and an invariant, of the memory and of the sequence it should hold (`Links`,
`RingHolds`, `Holds`). The list's says that some sequence of addresses names every cell once, in order;
`ChainIs` shows by induction that the recursive function `chain` has that sequence for its
value. That a free cell exists while the list is not full is a count of cells (`FreeCell`). The
ring's is about `%`, and says nothing once it grew away from its first slot (`kept`): growth
loses the order there, which `QueuesAreFifo` excepts.

**TxCodec.** The cleanup of a transaction reaches a script only through the array it is in, and
witnesses only under the flag. `Owned` says that all that is held can be reached so, `Phases`
that each field is read after its array is allocated. For `TxRoundTrip`, `RoundInv` relates the
fields filled in so far to the bytes read so far: `ReadSoFar` says for each field about to be
read which serialised fields the bytes of this transaction are, `Before` the same of the
transactions before it. One lemma for each field (`VersionRead` ... `LockTimeRead`) shows that
reading it continues this; the number in a varint serialises to the bytes it came from if they
were the shortest (`VarintPiece`); and the lists are concatenations that grow by what is
appended (`ConcatGrows`). The attempt showed that the property was false of a block whose
number of transactions does not come in its shortest form, a payload the run did not
have; the property now says so (`short_txn_count`) and the run has one.

**MerkleTree.** While recalc() works on layer l, the layer below shows level l - 1 of the
definition in as many slots as that level has nodes (`Climbed`); what a slot beyond them
kept is never read. No level before was a single node, so the first that is is the root, and
each layer has half as many nodes as the one below, so the layers suffice (`CapacityIs`).

**CompactInt.** The invariant is only that the compact form is that of the number last
converted. The work is in the operators: what the conversions, the comparison and the addition with its
carries return, for every width (`CompactIs`, `BackIs`, `CarriesAre`, `NormalIs`, `PairwiseIs`).
The proof showed that the code's comparison is right only for two representable operands, which
`CompactOrder` now says of both.

**Script.** A case of the run becomes a parameter: `IInv(c)` holds for some case `c` from the
first step on. Types need to know where items come from: everything in a frame, an output, an
input or on the stack is a script of the case or made from one (`Known`, `Code`, `Stack`). `Frames` is
the shape of nested `scripts_parse()` calls, and the if depth is the number of blocks among
them (`DepthInv`), which gives `DepthIsGivenBack`. The digests rest on `CacheOf`: the segwit parts in
rawtx are those of the transaction from the attach on, and the context of the first input
has no input in it. With that, a witness digest is BIP 143's whatever came before
(`WitnessDigestsAreRight`). A legacy digest is right when the context covers each input before
`last_hashed_txin_index` once (`LegacyDigestsFollowCache`, which says nothing of one that does not);
that it always does is false, which is what the run `script_digest` shows, and so `DigestsMatchReference` is no theorem.

Only model-checked, and why:

- liveness (`LoadEnds`, `RepliesLeave`, `MessagesHandled`, `QuitEnds`, `VerdictIsRight`,
  `LockIsReleased`) is out of the prover's reach;
- of Chains, `CandidatesOffMain` and the last clause of `ImplementsMainChain`. They hold for the
  trees the runs have. Both are about a hash that is in the candidates and on the main
  chain, and with more blocks one hash can have two nodes, as below: then neither
  follows from the forest;
- of SpvApp, `ReloadLosesLessThanAPage`, which needs the difficulties of the loaded chain;
- what recursive definitions compute: the AVL tree, what scripts compute
  (`NothingLeftBetweenInputs`, `BranchesAgree` are about the scripts of the cases). Some induction over data is possible
  (`SetInduction` proves that a set of naturals with 0 and all successors is Nat, and the lemmas
  on `FlattenSeq`, the carries and the linked cells rest on it), but not over definitions with
  RECURSIVE.

**An assert that can fail.** Trying to prove that no assert of `blockchain_add` fails separated
those of `add_heir()`, which never do (`AddHeirAsserts`, `HeirAssertsHold`), from the one in
`list_search_tree_remove()` (chains.c:1073-1079), called for each new heir (chains.c:636). A
reorganisation abandons blocks whose hash the candidates' search tree already
holds for the head of another chain; `tsearch()` keeps the head's entry, so the abandoned
block cannot be found and is taken in a second time when it arrives again. When the second copy
becomes an heir the hash leaves the search tree, and when later the chain with the first
copy wins, `tdelete()` finds nothing. One such order, on twelve blocks: with parents
u: genesis, p: genesis, k: p, k2: k, g: p, h: g, t: h, s: t, z: h, y: t, r: y, q: s and
difficulties u 6, k2 6, q 5, r 4, s 3 and 1 for the rest, the order of arrival is
u p g k h t s z y k2 g h t r q. The eight blocks of `chains` do not reach it, so `LeaveChain`
has the fault ("assert") and no run exhibits it.

## Not modelled

Listed with reasons in `PROJECT.json` under "components". In short: cryptography is
an abstract relation between keys, digests and signatures; encodings, json helpers and
parameter tables are data without state; the databases of blocks and utxos are interfaces
without an implementation; the json-rpc client is one blocking request per call that nothing
uses; `db-helpler.c` is an older wrapper with a test program of its own; the payload
formats of messages are not in the repository; test programs and the GTK demonstration are
drivers. Of the modelled parts, dumps, argument parsing, the allocation of the heirs
array and releasing whole structures at exit are left out.
