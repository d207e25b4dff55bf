------------------------------ MODULE Message -------------------------------
(***************************************************************************)
(* The life of a bitcoin_message_t (src/bitcoin-message.c): its type, its  *)
(* header, the object the message stands for and msg_data, the bytes it    *)
(* came in or goes out as; and send_message() of src/spv-node.c.           *)
(*                                                                         *)
(* The payload formats are not part of the sources: parsing a payload      *)
(* gives an object with its contents or fails, serialising an object gives *)
(* its contents or fails.  The network magic is a flag of the header.      *)
(***************************************************************************)
EXTENDS Integers, Sequences, FiniteSets

CONSTANTS
    MessageTypes,  \* the message types in use, by the names of the enumeration
    Commands,      \* the commands a peer may put into a header
    Contents,      \* what objects and payloads may contain
    MaxObjects     \* bound: objects alive at a time

ASSUME MessageAssumption == MaxObjects \in Nat /\ "unknown" \notin MessageTypes

VARIABLES
    msg,           \* the bitcoin_message_t
    heap,          \* the objects alive: address -> type and contents
    mine,          \* the objects the caller owns
    wire,          \* what the last send_message() pushed to out_buf
    broken         \* an assertion failed or memory was misused

messageVars == <<msg, heap, mine, wire, broken>>

no_object == 0
no_data == <<>>
no_payload == <<>>
no_hdr == [magic |-> FALSE, command |-> ""]
not_sent == [size |-> 0, data |-> no_data, built |-> FALSE]

\* the types that have a parser, a serialiser and a cleanup function
object_types == {"version", "addr", "inv", "getdata", "notfound", "getblocks", "getheaders",
                 "tx", "block", "headers"}

\* s_sz_message_types: two names differ from their types
bitcoin_message_type_to_string(type) ==
    CASE type = "notfound" -> "notefound"
      [] type = "merkleblock" -> "merkle_block"
      [] OTHER -> type

bitcoin_message_type_from_string(command) ==
    LET found == {type \in MessageTypes : bitcoin_message_type_to_string(type) = command}
    IN  IF found = {} THEN "unknown" ELSE CHOOSE type \in found : TRUE

empty_message == [type |-> "unknown", hdr |-> no_hdr, object |-> no_object, data |-> no_data]

checksum(payload) == <<"checksum", payload>>

\* The cleanup function of the type is called on the object, which is freed:
\* what is left of the heap, and whether memory was misused, because the object
\* was freed before or the function is not the one of its own type.
released(H, o) == [a \in DOMAIN H \ {o} |-> H[a]]
misused(H, type, o) ==
    \/ o \notin DOMAIN H
    \/ H[o].type \in object_types /\ H[o].type # type

\* mutant: the object is left to clear() too
detached_still_held(m) == m

\* the message clear() is called on by detach()
detached(m) == [m EXCEPT !.object = no_object]

\* bitcoin_message_clear(): the heap after it, and its faults
cleared_heap(H, m) == IF m.object = no_object THEN H ELSE released(H, m.object)
clear_breaks(H, m) == m.object # no_object /\ misused(H, m.type, m.object)

bitcoin_message_clear ==
    /\ msg' = empty_message
    /\ heap' = cleared_heap(heap, msg)
    /\ broken' = (broken \/ clear_breaks(heap, msg))
    /\ UNCHANGED <<mine, wire>>

free_address(H) == CHOOSE a \in 1 .. MaxObjects + 1 : a \notin DOMAIN H
with_object(H, a, type, c) ==
    [b \in DOMAIN H \cup {a} |-> IF b = a THEN [type |-> type, contents |-> c] ELSE H[b]]

-----------------------------------------------------------------------------
\* bitcoin_message_new() of a new message, whose object the caller then fills
bitcoin_message_new(type, c) ==
    /\ msg = empty_message /\ Cardinality(DOMAIN heap) < MaxObjects
    /\ \E a \in {IF type \in object_types THEN free_address(heap) ELSE no_object} :
          /\ msg' = [type |-> type, object |-> a, data |-> no_data,
                     hdr |-> [magic |-> TRUE, command |-> bitcoin_message_type_to_string(type)]]
          /\ heap' = IF a = no_object THEN heap ELSE with_object(heap, a, type, c)
    /\ UNCHANGED <<mine, wire, broken>>

\* bitcoin_message_parse() of a header and its payload; ok: the payload parser
\* of the type accepts it.  msg->hdr is not filled in.
bitcoin_message_parse(command, payload, sum, ok) ==
    /\ \E type \in {bitcoin_message_type_from_string(command)}, H \in {cleared_heap(heap, msg)} :
       \E a \in {free_address(H)} :
          LET data == [magic |-> TRUE, command |-> command, length |-> Len(payload), checksum |-> sum,
                       payload |-> payload]
              object == type \in object_types /\ payload # no_payload /\ ok
          IN  /\ Cardinality(DOMAIN H) < MaxObjects
              /\ IF type = "unknown" \/ sum # checksum(payload) THEN msg' = empty_message /\ heap' = H
                 ELSE /\ msg' = [empty_message EXCEPT !.type = type, !.data = data,
                                                      !.object = IF object THEN a ELSE no_object]
                      /\ heap' = IF object THEN with_object(H, a, type, payload) ELSE H
    /\ broken' = (broken \/ clear_breaks(heap, msg))
    /\ UNCHANGED <<mine, wire>>

\* message_object_serialize(): a type without a serialiser has no payload
message_object_serialize(type, o, H) == IF type \in object_types THEN H[o].contents ELSE no_payload

\* the header and payload bitcoin_message_serialize() puts into msg_data
header_of(hdr, payload) ==
    [magic |-> hdr.magic, command |-> hdr.command, length |-> Len(payload),
     checksum |-> checksum(payload), payload |-> payload]

\* bitcoin_message_serialize(m, NULL); ok: the serialiser of the type succeeds.
\* cb_payload is counted only when msg_data is made by this call.
bitcoin_message_serialize(m, H, ok) ==
    LET name == bitcoin_message_type_to_string(m.type)
        hdr == [m.hdr EXCEPT !.command = IF @ = "" THEN name ELSE @]
        payload == message_object_serialize(m.type, m.object, H)
    IN  IF m.object = no_object \/ m.type = "unknown" THEN [m |-> m, size |-> -1, asserts |-> FALSE]
        ELSE IF m.data # no_data
             THEN [m |-> [m EXCEPT !.hdr = hdr], size |-> 1, asserts |-> hdr.command # name]
        ELSE IF ~ok THEN [m |-> [m EXCEPT !.hdr = hdr], size |-> -1, asserts |-> hdr.command # name]
        ELSE [m |-> [m EXCEPT !.hdr = hdr, !.data = header_of(hdr, payload)],
              size |-> 1 + Len(payload), asserts |-> hdr.command # name]

\* bitcoin_message_attach() of the caller's object o, or of none; the message
\* owns it whether attach() succeeds or not.
bitcoin_message_attach(type, o, ok) ==
    /\ o \in mine \cup {no_object}
    /\ o # no_object => heap[o].type = type
    /\ \E H \in {cleared_heap(heap, msg)} :
       \E s \in {bitcoin_message_serialize([type |-> type, hdr |-> [magic |-> TRUE, command |-> ""],
                                            object |-> o, data |-> no_data], H, ok)} :
          /\ msg' = s.m
          /\ heap' = H
          /\ broken' = (broken \/ clear_breaks(heap, msg) \/ s.asserts)
    /\ mine' = mine \ {o}
    /\ UNCHANGED wire

\* bitcoin_message_detech(): the caller takes the object, or it is cleaned up here
bitcoin_message_detach(takes) ==
    /\ \E o \in {msg.object}, H \in {cleared_heap(heap, detached(msg))} :
          /\ msg' = empty_message
          /\ IF o = no_object
             THEN heap' = H /\ UNCHANGED mine /\ broken' = broken
             ELSE IF takes
             THEN /\ heap' = H /\ mine' = mine \cup {o}
                  /\ broken' = (broken \/ clear_breaks(heap, detached(msg)))
             ELSE /\ heap' = released(H, o) /\ UNCHANGED mine
                  /\ broken' = (broken \/ clear_breaks(heap, detached(msg)) \/ misused(H, msg.type, o))
    /\ UNCHANGED wire

\* spv_node_send_message(): as many bytes of msg_data as serialize() reports
spv_node_send_message(ok) ==
    /\ \E s \in {bitcoin_message_serialize(msg, heap, ok)} :
          /\ msg' = s.m
          /\ broken' = (broken \/ s.asserts)
          /\ wire' = IF s.size <= 0 THEN not_sent
                     ELSE [size |-> s.size, data |-> s.m.data, built |-> msg.data = no_data]
    /\ UNCHANGED <<heap, mine>>

\* The caller makes an object to attach, and frees one it owns.
make_object(type, c) ==
    /\ Cardinality(DOMAIN heap) < MaxObjects
    /\ \E a \in {free_address(heap)} : heap' = with_object(heap, a, type, c) /\ mine' = mine \cup {a}
    /\ UNCHANGED <<msg, wire, broken>>

drop_object(o) ==
    /\ o \in mine
    /\ heap' = released(heap, o) /\ mine' = mine \ {o}
    /\ UNCHANGED <<msg, wire, broken>>

MessageInit ==
    /\ msg = empty_message /\ heap = <<>> /\ mine = {} /\ wire = not_sent /\ broken = FALSE

MessageNext ==
    \/ \E type \in MessageTypes, c \in Contents : bitcoin_message_new(type, c) \/ make_object(type, c)
    \/ \E command \in Commands, c \in Contents \cup {no_payload}, ok \in BOOLEAN :
       \E sum \in {checksum(c), <<"other">>} : bitcoin_message_parse(command, c, sum, ok)
    \/ \E type \in MessageTypes, o \in 0 .. MaxObjects, ok \in BOOLEAN : bitcoin_message_attach(type, o, ok)
    \/ \E b \in BOOLEAN : bitcoin_message_detach(b) \/ spv_node_send_message(b)
    \/ \E o \in 1 .. MaxObjects : drop_object(o)
    \/ bitcoin_message_clear

MessageSpec == MessageInit /\ [][MessageNext]_messageVars

-----------------------------------------------------------------------------
(* Properties *)

\* Through any sequence of new, parse, attach, detach, clear and send an object
\* belongs to the caller or to the message, never to both or to neither, and is
\* cleaned up once, by the function of its own type.
ObjectsHaveOneOwner ==
    /\ ~broken
    /\ DOMAIN heap = mine \cup ({msg.object} \ {no_object})
    /\ msg.object \notin mine

\* msg_data is the message: the command names its type, length and checksum
\* are those of the payload, and the payload is that of the object.  The send
\* that makes msg_data puts all of it on the wire.  Excepted is a send that finds
\* it made (by attach(), parse() or an earlier send): it puts the header alone.
DataIsTheMessage ==
    /\ msg.data # no_data =>
         /\ msg.data.magic /\ msg.data.command = bitcoin_message_type_to_string(msg.type)
         /\ msg.data.length = Len(msg.data.payload) /\ msg.data.checksum = checksum(msg.data.payload)
         /\ msg.object # no_object => msg.data.payload = message_object_serialize(msg.type, msg.object, heap)
    /\ wire.built => wire.size = 1 + wire.data.length

\* The two together: what on_read() relies on when it parses into the same
\* bitcoin_message_t again and again, and send_message() when it reports success.
MessageKeepsItsParts == ObjectsHaveOneOwner /\ DataIsTheMessage
=============================================================================
