------------------------------- MODULE SpvSync ------------------------------
(***************************************************************************)
(* Downloading headers (on_message_verack() and on_message_headers() of    *)
(* src/spv_node_app.c with blockchain_get_known_hashes() of src/chains.c): *)
(* the node sends the hashes of its main chain, the peer answers with the  *)
(* headers after the first of them it has on its own best chain, the node  *)
(* adds them up to the first blockchain_add() refuses and asks again.  An  *)
(* empty answer ends it until the next connection.                         *)
(*                                                                         *)
(* The peer is external: it answers what the protocol says, its best chain *)
(* grows, and another connection may lead to a peer with another chain of  *)
(* at least as much work.                                                  *)
(***************************************************************************)
EXTENDS Chains

CONSTANTS
    BatchSize     \* headers a peer sends at a time (2000 in the protocol)

VARIABLES
    best,         \* the tip of the peer's best chain
    state,        \* "ready": nothing asked; "asked"; "adding": in on_message_headers()
    locator,      \* the hashes of the getheaders message
    headers       \* what is left to add of the headers message

syncVars == <<best, state, locator, headers>>
all == <<vars, syncVars>>

\* blockchain_get_known_hashes(): from the tip to genesis, the steps doubling
\* from the tenth hash on.
blockchain_get_known_hashes(max_hashes) ==
    LET height[i \in 0 .. max_hashes - 1] ==
            IF i = 0 THEN Len(heirs) - 1
            ELSE LET down == height[i - 1] - (IF i <= 10 THEN 1 ELSE 2 ^ (i - 10))
                 IN  IF down < 0 THEN 0 ELSE down
        last == CHOOSE i \in 0 .. max_hashes - 1 :
                    /\ height[i] = 0 \/ i = max_hashes - 1
                    /\ \A j \in 0 .. i - 1 : height[j] # 0
    IN  [i \in 1 .. last + 1 |-> heirs[height[i - 1] + 1].hash]

\* the chain of the peer that ends in tip, from genesis on
PeerChain(tip) ==
    LET line[h \in Hashes] == IF h = Genesis THEN <<h>> ELSE line[prev_hash[h]] \o <<h>>
    IN  line[tip]

\* the headers after the first hash of the locator that the peer knows
PeerAnswer ==
    LET chain == PeerChain(best)
        known == SelectInSeq(locator, LAMBDA h : h \in ToSet(chain))
        from == IF known = 0 THEN 1 ELSE SelectInSeq(chain, LAMBDA h : h = locator[known])
        to == IF from + BatchSize < Len(chain) THEN from + BatchSize ELSE Len(chain)
    IN  SubSeq(chain, from + 1, to)

\* A new connection is up, with the same peer or another, and it has sent
\* verack: ask for headers.  A headers message is never left half added.
on_message_verack(tip) ==
    /\ state # "adding"
    /\ Work[tip] >= Work[best]
    /\ best' = tip
    /\ locator' = blockchain_get_known_hashes(2000)
    /\ state' = "asked" /\ headers' = <<>>
    /\ UNCHANGED vars

PeerGrows(b) ==
    /\ prev_hash[b] = best
    /\ best' = b
    /\ UNCHANGED <<vars, state, locator, headers>>

PeerAnswers ==
    /\ state = "asked"
    /\ headers' = PeerAnswer
    /\ state' = IF PeerAnswer = <<>> THEN "ready" ELSE "adding"
    /\ locator' = <<>>
    /\ UNCHANGED <<vars, best>>

\* The loop of on_message_headers(): the first refusal ends it.
AddHeader ==
    /\ state = "adding" /\ headers # <<>>
    /\ \/ Ignore(Head(headers)) /\ headers' = <<>>
       \/ Enrol(Head(headers)) /\ headers' = Tail(headers)
    /\ UNCHANGED <<best, state, locator>>

\* "pull more headers", with the main chain as it is now
PullMore ==
    /\ state = "adding" /\ headers = <<>> /\ Settled
    /\ locator' = blockchain_get_known_hashes(100)
    /\ state' = "asked"
    /\ UNCHANGED <<vars, best, headers>>

ChainStep == Step /\ UNCHANGED syncVars

SyncInit == Init /\ best = Genesis /\ state = "ready" /\ locator = <<>> /\ headers = <<>>

SyncNext ==
    \/ \E h \in Hashes : on_message_verack(h)
    \/ \E b \in Blocks : PeerGrows(b)
    \/ PeerAnswers \/ AddHeader \/ PullMore \/ ChainStep
    \/ Halted /\ UNCHANGED syncVars

\* The node runs, peers that are asked again and again answer, and
\* connections are made again and again (more than spv_node_run() promises,
\* which gives up after max_retries).
SyncSpec ==
    /\ SyncInit /\ [][SyncNext]_all
    /\ WF_all(AddHeader) /\ WF_all(PullMore) /\ WF_all(ChainStep)
    /\ SF_all(PeerAnswers)
    /\ SF_all(\E h \in Hashes : on_message_verack(h))

-----------------------------------------------------------------------------
\* chains.c quotes "Nodes always consider the longest chain to be the correct
\* one": a node whose peers have a chain with more work ends up with as much.
CatchesUp == (Work[best] > Last(heirs).cd) ~> (Work[best] <= Last(heirs).cd \/ fault # "none")
=============================================================================
