--------------------------- MODULE LibraryProofs ----------------------------
(***************************************************************************)
(* What the containers promise, and the messages handed through them, for  *)
(* any items, types, commands, contents and bounds.                        *)
(*                                                                         *)
(* MessageKeepsItsParts: neither half is inductive alone.  That an object  *)
(* is cleaned up by the function of its own type needs the type of the     *)
(* message to be that of its object; that msg_data carries the magic and   *)
(* the right command needs the header to be filled in before the data is   *)
(* made, or to be empty.  Part says this of one message and one heap, so   *)
(* that clear(), and serialize() called by attach() and by send_message(), *)
(* are each proved once for any message.                                   *)
(*                                                                         *)
(* ContainersKeepOrder: each container has an invariant of its memory and  *)
(* of the sequence it should hold.  A buffer holds it in the length places *)
(* after start_pos, inside the allocation (Holds).  A ring holds it from   *)
(* start_pos modulo max_size (RingHolds), until it grows away from its     *)
(* first slot.  A list holds it in cells that a sequence c of addresses    *)
(* lists without repeating one (Links); the recursive function chain is    *)
(* shown to have that c for its value, whatever the cells.                 *)
(*                                                                         *)
(* CompactKeepsTarget and CompactOrder: for integers of every width and    *)
(* with any bytes the compact form is the one of the integer last          *)
(* converted, whose bytes are bytes.                                       *)
(***************************************************************************)
EXTENDS Message, Containers, CompactInt, SequenceLemmas, FiniteSetTheorems

-----------------------------------------------------------------------------
(* The invariant of the messages *)

\* the half of DataIsTheMessage that is about a message m and its heap H
DataOf(m, H) ==
    m.data # no_data =>
        /\ m.data.magic /\ m.data.command = bitcoin_message_type_to_string(m.type)
        /\ m.data.length = Len(m.data.payload) /\ m.data.checksum = checksum(m.data.payload)
        /\ m.object # no_object => m.data.payload = message_object_serialize(m.type, m.object, H)

\* the type of a message is that of its object, and the header its data will be
\* made from is right
HeaderOf(m, H) ==
    m.object # no_object =>
        /\ H[m.object].type = m.type
        /\ m.hdr.command \in {"", bitcoin_message_type_to_string(m.type)}
        /\ m.data = no_data => m.hdr.magic

\* a bitcoin_message_t with these fields
message(type, magic, command, object, data) ==
    [type |-> type, hdr |-> [magic |-> magic, command |-> command], object |-> object, data |-> data]

Shaped(m) == \E type, magic, command, object, data : m = message(type, magic, command, object, data)

Part(m, H) == Shaped(m) /\ HeaderOf(m, H) /\ DataOf(m, H)

\* The addresses in use are those objects can have.
HeapInv == DOMAIN heap \subseteq 1 .. MaxObjects + 1

WireInv == wire.built => wire.size = 1 + wire.data.length

MessageInv == ObjectsHaveOneOwner /\ Part(msg, heap) /\ HeapInv /\ WireInv
-----------------------------------------------------------------------------
(* The operators of a message *)

\* With an object less than the bound there is an address no object has.
LEMMA FreeAddress ==
    ASSUME NEW H, DOMAIN H \subseteq 1 .. MaxObjects + 1, Cardinality(DOMAIN H) < MaxObjects
    PROVE  free_address(H) \in 1 .. MaxObjects + 1 /\ free_address(H) \notin DOMAIN H
<1>1. IsFiniteSet(1 .. MaxObjects + 1) /\ Cardinality(1 .. MaxObjects + 1) = MaxObjects + 1
  BY FS_Interval, MessageAssumption
<1>2. \E a \in 1 .. MaxObjects + 1 : a \notin DOMAIN H
  <2>1. SUFFICES ASSUME 1 .. MaxObjects + 1 \subseteq DOMAIN H PROVE FALSE
    OBVIOUS
  <2>2. DOMAIN H = 1 .. MaxObjects + 1
    BY <2>1
  <2> QED
    BY <1>1, <2>2, MessageAssumption
<1> QED
  BY <1>2 DEF free_address

LEMMA ReleasedObject ==
    ASSUME NEW H, NEW o
    PROVE  /\ DOMAIN released(H, o) = DOMAIN H \ {o}
           /\ \A b \in DOMAIN H \ {o} : released(H, o)[b] = H[b]
BY DEF released

\* A message keeps its parts in a heap that agrees on its object.
LEMMA PartOnly ==
    ASSUME NEW m, NEW H, NEW G, Part(m, H), m.object # no_object => G[m.object] = H[m.object]
    PROVE  Part(m, G)
BY DEF Part, HeaderOf, DataOf, message_object_serialize

LEMMA HeaderExcept ==
    \A g, c, x : [[magic |-> g, command |-> c] EXCEPT !.command = x] = [magic |-> g, command |-> x]
OBVIOUS

LEMMA MessageShaped ==
    \A type, magic, command, object, data : Shaped(message(type, magic, command, object, data))
BY Zenon DEF Shaped

LEMMA EmptyPart == ASSUME NEW H PROVE Part(empty_message, H)
<1>1. empty_message = message("unknown", FALSE, "", no_object, no_data)
  BY DEF empty_message, message, no_hdr
<1>2. empty_message.object = no_object /\ empty_message.data = no_data
  BY DEF empty_message
<1>3. Shaped(empty_message)
  BY <1>1, MessageShaped, Zenon
<1> QED
  BY <1>1, <1>2, <1>3 DEF Part, HeaderOf, DataOf

\* clear() frees the object of the message, and no other.
LEMMA Clear ==
    ASSUME NEW H, NEW m, Part(m, H), m.object # no_object => m.object \in DOMAIN H
    PROVE  /\ ~clear_breaks(H, m)
           /\ DOMAIN cleared_heap(H, m) = DOMAIN H \ ({m.object} \ {no_object})
           /\ \A b \in DOMAIN cleared_heap(H, m) : cleared_heap(H, m)[b] = H[b]
<1>1. ~clear_breaks(H, m)
  BY DEF clear_breaks, misused, Part, HeaderOf
<1>2. CASE m.object = no_object
  BY <1>1, <1>2 DEF cleared_heap
<1>3. CASE m.object # no_object
  <2>1. cleared_heap(H, m) = released(H, m.object)
    BY <1>3 DEF cleared_heap
  <2>2. /\ DOMAIN released(H, m.object) = DOMAIN H \ {m.object}
        /\ \A b \in DOMAIN H \ {m.object} : released(H, m.object)[b] = H[b]
    BY ReleasedObject, Zenon
  <2> QED
    BY <1>1, <1>3, <2>1, <2>2
<1> QED
  BY <1>2, <1>3

\* serialize() keeps type and object, and the data it makes is the message.
LEMMA Serialize ==
    ASSUME NEW m, NEW H, NEW ok \in BOOLEAN, Part(m, H)
    PROVE  /\ Part(bitcoin_message_serialize(m, H, ok).m, H)
           /\ bitcoin_message_serialize(m, H, ok).m.object = m.object
           /\ ~bitcoin_message_serialize(m, H, ok).asserts
           /\ m.data = no_data /\ ~(bitcoin_message_serialize(m, H, ok).size <= 0) =>
                 bitcoin_message_serialize(m, H, ok).size = 1 + bitcoin_message_serialize(m, H, ok).m.data.length
<1>0. PICK type, magic, command, object, data : m = message(type, magic, command, object, data)
  BY Zenon DEF Part, Shaped
<1> DEFINE name == bitcoin_message_type_to_string(type)
           hdr == [magic |-> magic, command |-> name]
           load == message_object_serialize(type, object, H)
           s == bitcoin_message_serialize(m, H, ok)
<1>1. /\ m.type = type /\ m.object = object /\ m.data = data
      /\ m.hdr = [magic |-> magic, command |-> command]
      /\ m.hdr.magic = magic /\ m.hdr.command = command
  BY <1>0 DEF message
<1>2. CASE object = no_object \/ type = "unknown"
  <2>1. s = [m |-> m, size |-> -1, asserts |-> FALSE]
    BY <1>1, <1>2 DEF bitcoin_message_serialize
  <2> QED
    BY <2>1
<1>3. CASE ~(object = no_object \/ type = "unknown")
  <2>1. H[object].type = type /\ command \in {"", name} /\ (data = no_data => magic)
    BY <1>1, <1>3 DEF Part, HeaderOf
  <2>2. [m.hdr EXCEPT !.command = IF @ = "" THEN name ELSE @] = hdr /\ hdr.command = name
    <3>1. (IF m.hdr.command = "" THEN name ELSE m.hdr.command) = name
      BY <1>1, <2>1
    <3>2. [m.hdr EXCEPT !.command = name] = hdr
      BY <1>1, HeaderExcept
    <3> QED
      BY <3>1, <3>2
  <2>3. CASE data # no_data \/ ~ok
    <3>1. s.m = [m EXCEPT !.hdr = hdr] /\ ~s.asserts /\ (data = no_data => s.size = -1)
      BY <1>1, <1>3, <2>2, <2>3 DEF bitcoin_message_serialize
    <3>2. s.m = message(type, magic, name, object, data)
      BY <1>0, <3>1 DEF message
    <3>3. /\ Shaped(s.m) /\ s.m.type = type /\ s.m.object = object /\ s.m.data = data
          /\ s.m.hdr.magic = magic /\ s.m.hdr.command = name
      <4>1. Shaped(s.m)
        BY <3>2, MessageShaped, Zenon
      <4> QED
        BY <3>2, <4>1 DEF message
    <3> HIDE DEF s, hdr
    <3>4. HeaderOf(s.m, H)
      BY <2>1, <3>3 DEF HeaderOf
    <3>5. DataOf(s.m, H)
      BY <1>1, <3>3 DEF Part, DataOf
    <3> QED
      BY <1>1, <3>1, <3>3, <3>4, <3>5 DEF Part, s
  <2>4. CASE ~(data # no_data \/ ~ok)
    <3> DEFINE made == header_of(hdr, load)
    <3>1. s.m = [m EXCEPT !.hdr = hdr, !.data = made] /\ ~s.asserts /\ s.size = 1 + Len(load)
      BY <1>1, <1>3, <2>2, <2>4 DEF bitcoin_message_serialize
    <3>2. s.m = message(type, magic, name, object, made)
      BY <1>0, <3>1 DEF message
    <3>3. /\ Shaped(s.m) /\ s.m.type = type /\ s.m.object = object /\ s.m.data = made
          /\ s.m.hdr.magic = magic /\ s.m.hdr.command = name
      <4>1. Shaped(s.m)
        BY <3>2, MessageShaped, Zenon
      <4> QED
        BY <3>2, <4>1 DEF message
    <3>4. /\ made.magic /\ made.command = name /\ made.length = Len(load) /\ made.payload = load
          /\ made.checksum = checksum(load)
      BY <2>1, <2>4 DEF header_of
    <3> HIDE DEF s, hdr, made
    <3>5. HeaderOf(s.m, H)
      BY <2>1, <2>4, <3>3 DEF HeaderOf
    <3>6. DataOf(s.m, H)
      BY <3>3, <3>4 DEF DataOf
    <3> QED
      BY <1>1, <3>1, <3>3, <3>4, <3>5, <3>6 DEF Part, s
  <2> QED
    BY <2>3, <2>4
<1> QED
  BY <1>2, <1>3
-----------------------------------------------------------------------------
(* The steps *)

LEMMA MessageInitInv == MessageInit => MessageInv
BY EmptyPart DEF MessageInit, MessageInv, ObjectsHaveOneOwner, HeapInv, WireInv, empty_message, not_sent, no_object

LEMMA MessageStep == MessageInv /\ [MessageNext]_messageVars => MessageInv'
<1> SUFFICES ASSUME MessageInv, [MessageNext]_messageVars PROVE MessageInv'
  OBVIOUS
<1>0. /\ ~broken /\ DOMAIN heap = mine \cup ({msg.object} \ {no_object}) /\ msg.object \notin mine
      /\ Part(msg, heap) /\ DOMAIN heap \subseteq 1 .. MaxObjects + 1 /\ WireInv
  BY DEF MessageInv, ObjectsHaveOneOwner, HeapInv
<1>1. no_object \notin DOMAIN heap
  BY <1>0, MessageAssumption DEF no_object
<1>2. msg.object # no_object => msg.object \in DOMAIN heap
  BY <1>0
<1> DEFINE C == cleared_heap(heap, msg)
<1>3. ~clear_breaks(heap, msg) /\ DOMAIN C = mine /\ \A b \in DOMAIN C : C[b] = heap[b]
  <2>1. /\ ~clear_breaks(heap, msg) /\ DOMAIN C = DOMAIN heap \ ({msg.object} \ {no_object})
        /\ \A b \in DOMAIN C : C[b] = heap[b]
    BY <1>0, <1>2, Clear, Zenon
  <2> HIDE DEF C
  <2> QED
    BY <1>0, <2>1
<1> HIDE DEF C
<1>4. empty_message.object = no_object /\ empty_message.type = "unknown" /\ empty_message.data = no_data
  BY DEF empty_message
<1>5. CASE bitcoin_message_clear
  <2>1. msg' = empty_message /\ heap' = C /\ ~broken' /\ mine' = mine /\ wire' = wire
    BY <1>0, <1>3, <1>5 DEF bitcoin_message_clear, C
  <2> QED
    BY <2>1, <1>0, <1>1, <1>3, <1>4, EmptyPart DEF MessageInv, ObjectsHaveOneOwner, HeapInv, WireInv
<1>6. ASSUME NEW type \in MessageTypes, NEW c \in Contents, bitcoin_message_new(type, c) PROVE MessageInv'
  <2> DEFINE name == bitcoin_message_type_to_string(type)
             new(a) == message(type, TRUE, name, a, no_data)
  <2>1. /\ msg = empty_message /\ Cardinality(DOMAIN heap) < MaxObjects
        /\ mine' = mine /\ wire' = wire /\ broken' = broken
    BY <1>6 DEF bitcoin_message_new
  <2>2. CASE type \in object_types
    <3> DEFINE a == free_address(heap)
    <3>1. a \in 1 .. MaxObjects + 1 /\ a \notin DOMAIN heap
      BY <1>0, <2>1, FreeAddress
    <3>2. a # no_object
      BY <3>1, MessageAssumption DEF no_object
    <3> HIDE DEF a
    <3>3. msg' = new(a) /\ heap' = with_object(heap, a, type, c)
      BY <1>6, <2>2, <3>2 DEF bitcoin_message_new, a, message
    <3>4. DOMAIN heap' = DOMAIN heap \cup {a} /\ heap'[a] = [type |-> type, contents |-> c]
      <4>1. /\ DOMAIN with_object(heap, a, type, c) = DOMAIN heap \cup {a}
            /\ with_object(heap, a, type, c)[a] = [type |-> type, contents |-> c]
        BY <3>1 DEF with_object
      <4> QED
        BY <3>3, <4>1
    <3>5. /\ Shaped(msg') /\ msg'.type = type /\ msg'.object = a /\ msg'.data = no_data
          /\ msg'.hdr.magic = TRUE /\ msg'.hdr.command = name
      <4>1. Shaped(msg')
        BY <3>3, MessageShaped, Zenon
      <4> QED
        BY <3>3, <4>1 DEF message
    <3>6. Part(msg', heap')
      BY <3>4, <3>5 DEF Part, HeaderOf, DataOf
    <3> QED
      BY <1>0, <1>4, <2>1, <3>1, <3>2, <3>4, <3>5, <3>6 DEF MessageInv, ObjectsHaveOneOwner, HeapInv, WireInv
  <2>3. CASE type \notin object_types
    <3>1. msg' = new(no_object) /\ heap' = heap
      BY <1>6, <2>3 DEF bitcoin_message_new, message
    <3>2. Shaped(msg') /\ msg'.object = no_object /\ msg'.data = no_data
      <4>1. Shaped(msg')
        BY <3>1, MessageShaped, Zenon
      <4> QED
        BY <3>1, <4>1 DEF message
    <3>3. Part(msg', heap')
      BY <3>2 DEF Part, HeaderOf, DataOf
    <3> QED
      BY <1>0, <1>1, <1>4, <2>1, <3>1, <3>2, <3>3 DEF MessageInv, ObjectsHaveOneOwner, HeapInv, WireInv
  <2> QED
    BY <2>2, <2>3
<1>7. ASSUME NEW command \in Commands, NEW load, NEW sum, NEW ok \in BOOLEAN,
             bitcoin_message_parse(command, load, sum, ok)
      PROVE  MessageInv'
  <2> DEFINE type == bitcoin_message_type_from_string(command)
             a == free_address(C)
             data == [magic |-> TRUE, command |-> command, length |-> Len(load), checksum |-> sum,
                      payload |-> load]
             object == type \in object_types /\ load # no_payload /\ ok
  <2>1. /\ Cardinality(DOMAIN C) < MaxObjects /\ ~broken' /\ mine' = mine /\ wire' = wire
        /\ IF type = "unknown" \/ sum # checksum(load) THEN msg' = empty_message /\ heap' = C
           ELSE /\ msg' = [empty_message EXCEPT !.type = type, !.data = data,
                                                !.object = IF object THEN a ELSE no_object]
                /\ heap' = IF object THEN with_object(C, a, type, load) ELSE C
    BY <1>0, <1>3, <1>7 DEF bitcoin_message_parse, C
  <2>2. a \in 1 .. MaxObjects + 1 /\ a \notin DOMAIN C
    BY <1>0, <1>3, <2>1, FreeAddress
  <2>3. a # no_object
    BY <2>2, MessageAssumption DEF no_object
  <2>4. type # "unknown" => bitcoin_message_type_to_string(type) = command
    BY DEF bitcoin_message_type_from_string
  <2> HIDE DEF a, type
  <2>5. CASE type = "unknown" \/ sum # checksum(load)
    <3>1. msg' = empty_message /\ heap' = C
      BY <2>1, <2>5
    <3> QED
      BY <2>1, <3>1, <1>0, <1>1, <1>3, <1>4, EmptyPart DEF MessageInv, ObjectsHaveOneOwner, HeapInv, WireInv
  <2>6. CASE ~(type = "unknown" \/ sum # checksum(load)) /\ object
    <3>1. msg' = message(type, FALSE, "", a, data) /\ heap' = with_object(C, a, type, load)
      BY <2>1, <2>6 DEF empty_message, message, no_hdr
    <3>2. DOMAIN heap' = DOMAIN C \cup {a} /\ heap'[a] = [type |-> type, contents |-> load]
      <4>1. /\ DOMAIN with_object(C, a, type, load) = DOMAIN C \cup {a}
            /\ with_object(C, a, type, load)[a] = [type |-> type, contents |-> load]
        BY <2>2 DEF with_object
      <4> QED
        BY <3>1, <4>1
    <3>3. Shaped(msg') /\ msg'.object = a /\ msg'.data = data /\ msg'.type = type /\ msg'.hdr.command = ""
      <4>1. Shaped(msg')
        BY <3>1, MessageShaped, Zenon
      <4> QED
        BY <3>1, <4>1 DEF message
    <3>4. data # no_data
      BY DEF no_data
    <3>5. data.magic /\ data.command = command /\ data.length = Len(load) /\ data.checksum = sum /\ data.payload = load
      OBVIOUS
    <3> HIDE DEF data
    <3>6. heap'[msg'.object].type = msg'.type /\ heap'[msg'.object].contents = load
      <4>1. heap'[msg'.object] = [type |-> type, contents |-> load]
        BY <3>2, <3>3
      <4>2. PICK y, r : y = type /\ r = heap'[msg'.object]
        OBVIOUS
      <4>3. r.type = y /\ r.contents = load
        BY <4>1, <4>2
      <4> QED
        BY <3>3, <4>2, <4>3
    <3>7. HeaderOf(msg', heap')
      BY <3>6, <3>3, <3>4 DEF HeaderOf
    <3>8. DataOf(msg', heap')
      BY <2>4, <2>6, <3>6, <3>3, <3>5 DEF DataOf, message_object_serialize
    <3> QED
      BY <1>0, <1>3, <2>1, <2>2, <2>3, <3>2, <3>3, <3>7, <3>8 DEF MessageInv, Part, ObjectsHaveOneOwner, HeapInv, WireInv
  <2>7. CASE ~(type = "unknown" \/ sum # checksum(load)) /\ ~object
    <3>1. msg' = message(type, FALSE, "", no_object, data) /\ heap' = C
      BY <2>1, <2>7 DEF empty_message, message, no_hdr
    <3>2. Shaped(msg') /\ msg'.object = no_object /\ msg'.data = data /\ msg'.type = type
      <4>1. Shaped(msg')
        BY <3>1, MessageShaped, Zenon
      <4> QED
        BY <3>1, <4>1 DEF message
    <3>3. data.magic /\ data.command = command /\ data.length = Len(load) /\ data.checksum = sum /\ data.payload = load
      OBVIOUS
    <3> HIDE DEF data, object
    <3>4. HeaderOf(msg', heap')
      BY <3>2 DEF HeaderOf
    <3>5. DataOf(msg', heap')
      BY <2>4, <2>7, <3>2, <3>3 DEF DataOf
    <3> QED
      BY <1>0, <1>1, <1>3, <2>1, <3>1, <3>2, <3>4, <3>5 DEF MessageInv, Part, ObjectsHaveOneOwner, HeapInv, WireInv
  <2> QED
    BY <2>5, <2>6, <2>7
<1>8. ASSUME NEW type \in MessageTypes, NEW o, NEW ok \in BOOLEAN, bitcoin_message_attach(type, o, ok)
      PROVE  MessageInv'
  <2> DEFINE m == [type |-> type, hdr |-> [magic |-> TRUE, command |-> ""], object |-> o, data |-> no_data]
             s == bitcoin_message_serialize(m, C, ok)
  <2>1. /\ o \in mine \cup {no_object} /\ (o # no_object => heap[o].type = type)
        /\ msg' = s.m /\ heap' = C /\ broken' = (broken \/ clear_breaks(heap, msg) \/ s.asserts)
        /\ mine' = mine \ {o} /\ wire' = wire
    BY <1>8 DEF bitcoin_message_attach, C
  <2>2. m = message(type, TRUE, "", o, no_data)
    BY Zenon DEF message
  <2>3. Shaped(m) /\ m.object = o /\ m.type = type /\ m.data = no_data /\ m.hdr.magic = TRUE /\ m.hdr.command = ""
    <3> HIDE DEF m
    <3>1. Shaped(m)
      BY <2>2, MessageShaped, Zenon
    <3> QED
      BY <2>2, <3>1 DEF message
  <2>4. o # no_object => C[o].type = type
    BY <1>3, <2>1
  <2> HIDE DEF m
  <2>5. Part(m, C)
    BY <2>3, <2>4 DEF Part, HeaderOf, DataOf
  <2>6. Part(s.m, C) /\ s.m.object = o /\ ~s.asserts
    BY <2>3, <2>5, Serialize
  <2> HIDE DEF s
  <2> QED
    BY <1>0, <1>1, <1>3, <2>1, <2>6 DEF MessageInv, ObjectsHaveOneOwner, HeapInv, WireInv
<1>9. ASSUME NEW b \in BOOLEAN, bitcoin_message_detach(b) PROVE MessageInv'
  <2> DEFINE o == msg.object
             H == cleared_heap(heap, detached(msg))
  <2>1. detached(msg).object = no_object
    <3>1. PICK type, magic, command, object, data : msg = message(type, magic, command, object, data)
      BY <1>0, Zenon DEF Part, Shaped
    <3> QED
      BY <3>1 DEF detached, message
  <2>2. H = heap /\ ~clear_breaks(heap, detached(msg))
    BY <2>1 DEF cleared_heap, clear_breaks
  <2> HIDE DEF H
  <2>3. /\ msg' = empty_message /\ wire' = wire
        /\ IF o = no_object
           THEN heap' = H /\ UNCHANGED mine /\ broken' = broken
           ELSE IF b
           THEN /\ heap' = H /\ mine' = mine \cup {o}
                /\ broken' = (broken \/ clear_breaks(heap, detached(msg)))
           ELSE /\ heap' = released(H, o) /\ UNCHANGED mine
                /\ broken' = (broken \/ clear_breaks(heap, detached(msg)) \/ misused(H, msg.type, o))
    BY <1>9 DEF bitcoin_message_detach, H
  <2>4. Part(msg', heap')
    BY <2>3, EmptyPart
  <2>5. o # no_object => ~misused(heap, msg.type, o)
    BY <1>0, <1>2 DEF misused, Part, HeaderOf
  <2>6. DOMAIN released(heap, o) = DOMAIN heap \ {o}
    BY ReleasedObject
  <2> QED
    BY <1>0, <1>1, <1>4, <2>2, <2>3, <2>4, <2>5, <2>6 DEF MessageInv, ObjectsHaveOneOwner, HeapInv, WireInv
<1>10. ASSUME NEW b \in BOOLEAN, spv_node_send_message(b) PROVE MessageInv'
  <2> DEFINE s == bitcoin_message_serialize(msg, heap, b)
  <2>1. /\ msg' = s.m /\ broken' = (broken \/ s.asserts) /\ heap' = heap /\ mine' = mine
        /\ wire' = IF s.size <= 0 THEN not_sent
                   ELSE [size |-> s.size, data |-> s.m.data, built |-> msg.data = no_data]
    BY <1>10 DEF spv_node_send_message
  <2>2. /\ Part(s.m, heap) /\ s.m.object = msg.object /\ ~s.asserts
        /\ msg.data = no_data /\ ~(s.size <= 0) => s.size = 1 + s.m.data.length
    BY <1>0, Serialize
  <2> HIDE DEF s
  <2>3. WireInv'
    <3>1. CASE s.size <= 0
      BY <2>1, <3>1 DEF WireInv, not_sent
    <3>2. CASE ~(s.size <= 0)
      BY <2>1, <2>2, <3>2 DEF WireInv
    <3> QED
      BY <3>1, <3>2
  <2> QED
    BY <1>0, <2>1, <2>2, <2>3 DEF MessageInv, ObjectsHaveOneOwner, HeapInv
<1>11. ASSUME NEW type \in MessageTypes, NEW c \in Contents, make_object(type, c) PROVE MessageInv'
  <2> DEFINE a == free_address(heap)
  <2>1. /\ Cardinality(DOMAIN heap) < MaxObjects /\ heap' = with_object(heap, a, type, c)
        /\ mine' = mine \cup {a} /\ msg' = msg /\ wire' = wire /\ broken' = broken
    BY <1>11 DEF make_object
  <2>2. a \in 1 .. MaxObjects + 1 /\ a \notin DOMAIN heap
    BY <1>0, <2>1, FreeAddress
  <2> HIDE DEF a
  <2>3. DOMAIN heap' = DOMAIN heap \cup {a} /\ \A b \in DOMAIN heap : heap'[b] = heap[b]
    <3>1. /\ DOMAIN with_object(heap, a, type, c) = DOMAIN heap \cup {a}
          /\ \A b \in DOMAIN heap : with_object(heap, a, type, c)[b] = heap[b]
      BY <2>2 DEF with_object
    <3> QED
      BY <2>1, <3>1
  <2>4. Part(msg, heap')
    BY <1>0, <1>2, <2>3, PartOnly
  <2>5. a # no_object
    BY <2>2, MessageAssumption DEF no_object
  <2> QED
    BY <1>0, <1>2, <2>1, <2>2, <2>3, <2>4, <2>5 DEF MessageInv, ObjectsHaveOneOwner, HeapInv, WireInv
<1>12. ASSUME NEW o, drop_object(o) PROVE MessageInv'
  <2>1. o \in mine /\ heap' = released(heap, o) /\ mine' = mine \ {o} /\ msg' = msg /\ wire' = wire /\ broken' = broken
    BY <1>12 DEF drop_object
  <2>2. DOMAIN heap' = DOMAIN heap \ {o} /\ \A b \in DOMAIN heap \ {o} : heap'[b] = heap[b]
    BY <2>1, ReleasedObject
  <2>3. Part(msg, heap')
    BY <1>0, <1>2, <2>1, <2>2, PartOnly
  <2> QED
    BY <1>0, <1>2, <2>1, <2>2, <2>3 DEF MessageInv, ObjectsHaveOneOwner, HeapInv, WireInv
<1>13. CASE UNCHANGED messageVars
  BY <1>0, <1>13 DEF MessageInv, ObjectsHaveOneOwner, HeapInv, WireInv, messageVars
<1> QED
  BY <1>5, <1>6, <1>7, <1>8, <1>9, <1>10, <1>11, <1>12, <1>13 DEF MessageNext
-----------------------------------------------------------------------------
(* The theorem of the messages *)

\* Through any sequence of calls each object has one owner and is cleaned up
\* once, by the function of its own type, and msg_data is the message.
THEOREM PartsHold == MessageSpec => []MessageKeepsItsParts
<1>1. MessageInv => MessageKeepsItsParts
  BY DEF MessageInv, Part, DataOf, WireInv, MessageKeepsItsParts, DataIsTheMessage
<1> QED
  BY <1>1, MessageInitInv, MessageStep, PTL DEF MessageSpec
-----------------------------------------------------------------------------
(* The containers: what their memory may hold *)

Stored == Items \cup {unused}
-----------------------------------------------------------------------------
(* A stretch of memory read as a sequence *)

\* s is what memory d holds in the l places after the first a.
Window(s, d, a, l) == Len(s) = l /\ \A i \in 1 .. l : s[i] = d[a + i]

LEMMA WindowIs ==
    ASSUME NEW V, NEW d, NEW a \in Nat, NEW l \in Nat, \A i \in a + 1 .. a + l : d[i] \in V
    PROVE  SubSeq(d, a + 1, a + l) \in Seq(V) /\ Window(SubSeq(d, a + 1, a + l), d, a, l)
<1>1. /\ SubSeq(d, a + 1, a + l) \in Seq(V)
      /\ Len(SubSeq(d, a + 1, a + l)) = IF a + 1 <= a + l THEN (a + l) - (a + 1) + 1 ELSE 0
      /\ \A i \in 1 .. (a + l) - (a + 1) + 1 : SubSeq(d, a + 1, a + l)[i] = d[(a + 1) + i - 1]
  BY SubSeqProperties
<1>2. \A i \in 1 .. l : (a + 1) + i - 1 = a + i /\ i \in 1 .. (a + l) - (a + 1) + 1
  OBVIOUS
<1> QED
  BY <1>1, <1>2 DEF Window

\* Two sequences that read the same memory are the same.
LEMMA WindowsAgree ==
    ASSUME NEW V, NEW s \in Seq(V), NEW t \in Seq(V), NEW d, NEW a, NEW l, Window(s, d, a, l), Window(t, d, a, l)
    PROVE  s = t
BY SeqEqual DEF Window

\* The first n of a sequence, and the rest.
LEMMA TakenAndLeft ==
    ASSUME NEW V, NEW s \in Seq(V), NEW d, NEW a \in Nat, NEW l \in Nat, Window(s, d, a, l), NEW n \in 0 .. l
    PROVE  /\ SubSeq(s, 1, n) \in Seq(V) /\ Window(SubSeq(s, 1, n), d, a, n)
           /\ SubSeq(s, n + 1, Len(s)) \in Seq(V) /\ Window(SubSeq(s, n + 1, Len(s)), d, a + n, l - n)
<1>1. Len(s) = l /\ \A i \in 1 .. l : s[i] \in V /\ s[i] = d[a + i]
  BY DEF Window
<1>2. SubSeq(s, 0 + 1, 0 + n) \in Seq(V) /\ Window(SubSeq(s, 0 + 1, 0 + n), s, 0, n)
  <2>1. 0 \in Nat /\ n \in Nat /\ \A i \in 0 + 1 .. 0 + n : s[i] \in V
    BY <1>1
  <2> QED
    BY <2>1, WindowIs
<1>3. SubSeq(s, n + 1, n + (l - n)) \in Seq(V) /\ Window(SubSeq(s, n + 1, n + (l - n)), s, n, l - n)
  <2>1. n \in Nat /\ l - n \in Nat /\ \A i \in n + 1 .. n + (l - n) : s[i] \in V
    BY <1>1
  <2> QED
    BY <2>1, WindowIs
<1>4. 0 + 1 = 1 /\ 0 + n = n /\ n + (l - n) = Len(s)
  BY <1>1
<1>5. \A i \in 1 .. n : 0 + i = i /\ i \in 1 .. l
  OBVIOUS
<1>6. \A i \in 1 .. l - n : n + i \in 1 .. l /\ a + (n + i) = (a + n) + i
  OBVIOUS
<1> QED
  BY <1>1, <1>2, <1>3, <1>4, <1>5, <1>6 DEF Window

\* What is written behind the items held is held behind them.
Overwritten(d, n, end, bytes) ==
    [i \in 1 .. n |-> IF i \in end + 1 .. end + Len(bytes) THEN bytes[i - end] ELSE d[i]]

LEMMA WindowWritten ==
    ASSUME NEW V, NEW d \in Seq(V), NEW a \in Nat, NEW l \in Nat, NEW s \in Seq(V), Window(s, d, a, l),
           NEW bytes \in Seq(V), NEW end, end = a + l, NEW n, n = Len(d), end + Len(bytes) <= n,
           NEW e, e = Overwritten(d, n, end, bytes)
    PROVE  /\ e \in Seq(V) /\ Len(e) = n
           /\ s \o bytes \in Seq(V) /\ Window(s \o bytes, e, a, l + Len(bytes))
<1>1. PICK k \in Nat : k = Len(bytes)
  OBVIOUS
<1>2. /\ Len(s) = l /\ n \in Nat /\ end + k <= n
      /\ \A i \in 1 .. l : s[i] = d[a + i]
      /\ \A i \in 1 .. k : bytes[i] \in V
      /\ \A i \in 1 .. n : d[i] \in V
      /\ e = [i \in 1 .. n |-> IF i \in end + 1 .. end + k THEN bytes[i - end] ELSE d[i]]
  BY <1>1 DEF Window, Overwritten
<1>3. \A i \in 1 .. l : e[a + i] = s[i]
  BY <1>2
<1>4. ASSUME NEW i \in 1 .. k PROVE e[end + i] = bytes[i]
  <2>1. end + i \in 1 .. n /\ end + i \in end + 1 .. end + k /\ (end + i) - end = i
    BY <1>2
  <2> QED
    BY <1>2, <2>1
<1>9. e \in Seq(V) /\ Len(e) = n
  <2>1. ASSUME NEW i \in 1 .. n PROVE e[i] \in V
    <3>1. i \in end + 1 .. end + k => i - end \in 1 .. k
      BY <1>2
    <3> QED
      BY <1>2, <3>1
  <2> QED
    BY <1>2, <2>1
<1>5. s \o bytes \in Seq(V) /\ Len(s \o bytes) = l + k
  BY <1>1, <1>2, ConcatProperties
<1>6. \A i \in 1 .. l + k : (s \o bytes)[i] = IF i <= l THEN s[i] ELSE bytes[i - l]
  <2>1. \A i \in 1 .. Len(s) + Len(bytes) : (s \o bytes)[i] = IF i <= Len(s) THEN s[i] ELSE bytes[i - Len(s)]
    BY ConcatProperties, Zenon
  <2>2. Len(s) = l /\ Len(bytes) = k
    BY <1>1, <1>2
  <2> QED
    BY <2>1, <2>2, Zenon
<1>7. ASSUME NEW i \in 1 .. l + k PROVE (s \o bytes)[i] = e[a + i]
  <2>1. CASE i <= l
    <3>1. (s \o bytes)[i] = s[i]
      BY <1>6, <2>1
    <3>2. i \in 1 .. l
      BY <2>1
    <3> QED
      BY <1>3, <3>1, <3>2, Zenon
  <2>2. CASE ~(i <= l)
    <3>1. PICK j \in 1 .. k : j = i - l /\ end + j = a + i
      BY <2>2
    <3>2. (s \o bytes)[i] = bytes[j]
      BY <1>6, <2>2, <3>1
    <3> QED
      BY <1>4, <3>1, <3>2
  <2> QED
    BY <2>1, <2>2
<1>8. Window(s \o bytes, e, a, l + Len(bytes))
  BY <1>1, <1>5, <1>7 DEF Window
<1> QED
  BY <1>5, <1>8, <1>9
-----------------------------------------------------------------------------
(* The byte buffer *)

\* Buffer b has its memory and holds the sequence s in it.
Holds(b, s) ==
    /\ DOMAIN b = {"data", "size", "start_pos", "length"}
    /\ b.data \in Seq(Stored) /\ Len(b.data) = b.size
    /\ b.start_pos \in Nat /\ b.length \in Nat /\ b.start_pos + b.length <= b.size
    /\ s \in Seq(Stored) /\ Window(s, b.data, b.start_pos, b.length)

BufferInv ==
    /\ sq = empty_sq(TRUE) /\ cells = <<>> /\ ring = no_ring /\ kept = TRUE
    /\ Holds(buf, expected)
    /\ got.was = got.should

LEMMA RoundsUp == ASSUME NEW n \in Nat PROVE round_up(n) \in Nat /\ round_up(n) >= n
<1>1. n + UnitSize - 1 \in Nat /\ UnitSize \in Nat /\ UnitSize > 0
  BY ContainersAssumption
<1> DEFINE d == (n + UnitSize - 1) \div UnitSize
           r == (n + UnitSize - 1) % UnitSize
<1>2. d \in Nat /\ r \in 0 .. UnitSize - 1 /\ n + UnitSize - 1 = UnitSize * d + r
  BY <1>1
<1>3. UnitSize * d \in Nat
  BY <1>1, <1>2
<1> HIDE DEF d, r
<1>4. UnitSize * d >= n
  BY <1>1, <1>2, <1>3
<1> QED
  BY <1>3, <1>4 DEF round_up, d

\* An allocation that grows keeps what it holds.
LEMMA Resized ==
    ASSUME NEW b, NEW s, Holds(b, s), NEW n \in Nat
    PROVE  /\ Holds(auto_buffer_resize(b, n), s)
           /\ auto_buffer_resize(b, n).start_pos = b.start_pos
           /\ auto_buffer_resize(b, n).length = b.length
           /\ n <= auto_buffer_resize(b, n).size
<1> DEFINE m == IF n = 0 THEN UnitSize ELSE round_up(n)
           e == [i \in 1 .. m |-> IF i <= b.size THEN b.data[i] ELSE unused]
           c == [b EXCEPT !.size = m, !.data = e]
<1>1. m \in Nat /\ n <= m
  BY RoundsUp, ContainersAssumption
<1>2. auto_buffer_resize(b, n) = IF m <= b.size THEN b ELSE c
  BY Zenon DEF auto_buffer_resize
<1> HIDE DEF m
<1>3. b.data \in Seq(Stored) /\ b.size \in Nat /\ b.start_pos \in Nat /\ b.length \in Nat /\ Len(b.data) = b.size
  BY DEF Holds
<1>4. CASE m <= b.size
  BY <1>1, <1>2, <1>3, <1>4
<1>5. CASE ~(m <= b.size)
  <2>1. \A i \in 1 .. m : (IF i <= b.size THEN b.data[i] ELSE unused) \in Stored
    BY <1>1, <1>3 DEF Stored
  <2>2. e \in Seq(Stored) /\ Len(e) = m
    BY <1>1, <2>1
  <2>3. \A i \in 1 .. b.size : e[i] = b.data[i]
    BY <1>1, <1>3, <1>5
  <2> HIDE DEF e
  <2>4. /\ DOMAIN c = {"data", "size", "start_pos", "length"}
        /\ c.data = e /\ c.size = m /\ c.start_pos = b.start_pos /\ c.length = b.length
    BY DEF Holds
  <2> HIDE DEF c
  <2>5. \A i \in 1 .. b.length : b.start_pos + i \in 1 .. b.size
    BY <1>3 DEF Holds
  <2>6. Window(s, c.data, c.start_pos, c.length)
    BY <2>3, <2>4, <2>5 DEF Holds, Window
  <2>7. Holds(c, s)
    BY <1>1, <1>3, <1>5, <2>2, <2>4, <2>6 DEF Holds
  <2> QED
    BY <1>1, <1>2, <1>5, <2>4, <2>7
<1> QED
  BY <1>4, <1>5

LEMMA Written ==
    ASSUME NEW b, NEW s, Holds(b, s), NEW bytes \in Seq(Stored), NEW end, end = b.start_pos + b.length,
           end + Len(bytes) <= b.size
    PROVE  Holds([b EXCEPT !.length = @ + Len(bytes),
                           !.data = [i \in 1 .. b.size |->
                                        IF i \in end + 1 .. end + Len(bytes) THEN bytes[i - end] ELSE @[i]]],
                 s \o bytes)
<1> DEFINE e == [i \in 1 .. b.size |-> IF i \in end + 1 .. end + Len(bytes) THEN bytes[i - end] ELSE b.data[i]]
           c == [b EXCEPT !.length = @ + Len(bytes), !.data = e]
<1>1. /\ b.data \in Seq(Stored) /\ b.start_pos \in Nat /\ b.length \in Nat /\ s \in Seq(Stored)
      /\ Len(bytes) \in Nat /\ b.size = Len(b.data) /\ Window(s, b.data, b.start_pos, b.length)
  BY DEF Holds
<1>2. /\ e \in Seq(Stored) /\ Len(e) = b.size
      /\ s \o bytes \in Seq(Stored) /\ Window(s \o bytes, e, b.start_pos, b.length + Len(bytes))
  <2>1. e = [i \in 1 .. b.size |-> IF i \in end + 1 .. end + Len(bytes) THEN bytes[i - end] ELSE b.data[i]]
    OBVIOUS
  <2> HIDE DEF e
  <2>2. ASSUME NEW d, d = b.data, NEW a, a = b.start_pos, NEW l, l = b.length, NEW n, n = b.size
        PROVE  /\ e \in Seq(Stored) /\ Len(e) = n
               /\ s \o bytes \in Seq(Stored) /\ Window(s \o bytes, e, a, l + Len(bytes))
    <3>1. /\ d \in Seq(Stored) /\ a \in Nat /\ l \in Nat /\ s \in Seq(Stored) /\ Window(s, d, a, l)
          /\ end = a + l /\ n = Len(d) /\ end + Len(bytes) <= n
      BY <1>1, <2>2
    <3>2. e = Overwritten(d, n, end, bytes)
      BY <2>1, <2>2, Zenon DEF Overwritten
    <3> QED
      BY <3>1, <3>2, WindowWritten
  <2> QED
    BY <2>2, Zenon
<1> HIDE DEF e
<1>3. /\ DOMAIN c = {"data", "size", "start_pos", "length"}
      /\ c.data = e /\ c.size = b.size /\ c.start_pos = b.start_pos /\ c.length = b.length + Len(bytes)
  BY DEF Holds
<1> HIDE DEF c
<1>4. c.start_pos + c.length <= c.size /\ c.length \in Nat
  BY <1>1, <1>3
<1>5. Holds(c, s \o bytes)
  BY <1>1, <1>2, <1>3, <1>4 DEF Holds
<1> QED
  BY <1>5 DEF c, e

\* The first n items.
LEMMA WindowTaken ==
    ASSUME NEW V, NEW d \in Seq(V), NEW a \in Nat, NEW l \in Nat, a + l <= Len(d),
           NEW s \in Seq(V), Window(s, d, a, l), NEW n \in 0 .. l
    PROVE  SubSeq(d, a + 1, a + n) = SubSeq(s, 1, n)
<1>1. SubSeq(s, 1, n) \in Seq(V) /\ Window(SubSeq(s, 1, n), d, a, n)
  BY TakenAndLeft
<1>2. n \in Nat /\ \A i \in a + 1 .. a + n : d[i] \in V
  OBVIOUS
<1>3. SubSeq(d, a + 1, a + n) \in Seq(V) /\ Window(SubSeq(d, a + 1, a + n), d, a, n)
  BY <1>2, WindowIs
<1> QED
  <2>1. ASSUME NEW x, x = SubSeq(d, a + 1, a + n), NEW y, y = SubSeq(s, 1, n) PROVE x = y
    <3>1. x \in Seq(V) /\ y \in Seq(V) /\ Window(x, d, a, n) /\ Window(y, d, a, n)
      BY <1>1, <1>3, <2>1, Zenon
    <3> QED
      BY <3>1, WindowsAgree
  <2> QED
    BY <2>1, Zenon

LEMMA Taken ==
    ASSUME NEW b, NEW s, Holds(b, s), NEW n \in 0 .. b.length
    PROVE  SubSeq(b.data, b.start_pos + 1, b.start_pos + n) = SubSeq(s, 1, n)
<1>1. /\ b.data \in Seq(Stored) /\ b.start_pos \in Nat /\ b.length \in Nat /\ s \in Seq(Stored)
      /\ Window(s, b.data, b.start_pos, b.length) /\ b.start_pos + b.length <= Len(b.data)
  BY DEF Holds
<1> QED
  BY <1>1, WindowTaken, Zenon

\* What is left after n items are taken.
LEMMA Popped ==
    ASSUME NEW b, NEW s, Holds(b, s), NEW n \in 0 .. b.length
    PROVE  Holds(buffer_popped(b, n), SubSeq(s, n + 1, Len(s)))
<1> DEFINE c == buffer_popped(b, n)
           p == IF b.length = n THEN 0 ELSE b.start_pos + n
           t == SubSeq(s, n + 1, Len(s))
<1>1. /\ b.data \in Seq(Stored) /\ b.start_pos \in Nat /\ b.length \in Nat /\ s \in Seq(Stored)
      /\ b.size = Len(b.data) /\ Window(s, b.data, b.start_pos, b.length)
      /\ b.start_pos + b.length <= b.size
  BY DEF Holds
<1>2. /\ DOMAIN c = {"data", "size", "start_pos", "length"}
      /\ c.data = b.data /\ c.size = b.size /\ c.start_pos = p /\ c.length = b.length - n
  BY DEF Holds, buffer_popped
<1>3. t \in Seq(Stored) /\ Window(t, b.data, b.start_pos + n, b.length - n)
  BY <1>1, TakenAndLeft
<1> HIDE DEF c, t
<1>4. Window(t, b.data, p, b.length - n)
  BY <1>1, <1>3 DEF Window
<1> QED
  BY <1>1, <1>2, <1>3, <1>4 DEF Holds, c, t

LEMMA BufferStep == BufferInv /\ [BufferNext]_containerVars => BufferInv'
<1> SUFFICES ASSUME BufferInv, [BufferNext]_containerVars PROVE BufferInv'
  OBVIOUS
<1>1. sq = empty_sq(TRUE) /\ cells = <<>> /\ ring = no_ring /\ kept = TRUE
  BY DEF BufferInv
<1>2. Holds(buf, expected) /\ got.was = got.should
  BY DEF BufferInv
<1>3. Holds(no_buffer, <<>>)
  BY DEF Holds, Window, no_buffer
<1>4. ASSUME NEW bytes \in Seq(Stored), auto_buffer_push(bytes) PROVE BufferInv'
  <2>1. LET b == auto_buffer_resize(buf, buf.start_pos + buf.length + Len(bytes))
        IN  Holds(b, expected) /\ b.start_pos + b.length + Len(bytes) <= b.size
    <3>1. buf.start_pos + buf.length + Len(bytes) \in Nat
      BY <1>2 DEF Holds
    <3> QED
      BY <1>2, <3>1, Resized
  <2>2. PICK b : /\ b = auto_buffer_resize(buf, buf.start_pos + buf.length + Len(bytes))
                 /\ \E end \in {b.start_pos + b.length} :
                       buf' = [b EXCEPT !.length = @ + Len(bytes),
                                        !.data = [i \in 1 .. b.size |->
                                                    IF i \in end + 1 .. end + Len(bytes) THEN bytes[i - end]
                                                    ELSE @[i]]]
    BY <1>4, Zenon DEF auto_buffer_push
  <2>3. Holds(buf', expected \o bytes)
    <3>1. PICK end : /\ end = b.start_pos + b.length
                     /\ buf' = [b EXCEPT !.length = @ + Len(bytes),
                                         !.data = [i \in 1 .. b.size |->
                                                     IF i \in end + 1 .. end + Len(bytes) THEN bytes[i - end]
                                                     ELSE @[i]]]
      BY <2>2, Zenon
    <3>2. Holds(b, expected) /\ end + Len(bytes) <= b.size
      BY <2>1, <2>2, <3>1
    <3> QED
      BY <3>1, <3>2, Written, Zenon
  <2> QED
    BY <1>1, <1>2, <1>4, <2>3 DEF auto_buffer_push, BufferInv
<1>5. ASSUME NEW n \in 0 .. 3, auto_buffer_pop(n) PROVE BufferInv'
  <2>1. PICK m \in 0 .. buf.length :
           /\ got' = [was |-> SubSeq(buf.data, buf.start_pos + 1, buf.start_pos + m), should |-> taken(m)]
           /\ buf' = buffer_popped(buf, m)
           /\ expected' = left(m)
    <3>1. (IF n = 0 \/ n > buf.length THEN buf.length ELSE n) \in 0 .. buf.length
      BY <1>2 DEF Holds
    <3> QED
      BY <1>5, <3>1, Zenon DEF auto_buffer_pop
  <2>2. SubSeq(buf.data, buf.start_pos + 1, buf.start_pos + m) = taken(m)
    BY <1>2, Taken DEF taken
  <2>3. Holds(buf', expected')
    BY <1>2, <2>1, Popped DEF left
  <2>4. got'.was = got'.should
    BY <2>1, <2>2
  <2> QED
    BY <1>1, <1>5, <2>3, <2>4 DEF auto_buffer_pop, BufferInv
<1>6. CASE auto_buffer_init
  <2>1. expected = <<>>
    BY <1>2, <1>6 DEF auto_buffer_init, Holds, Window
  <2>2. Holds(auto_buffer_resize(no_buffer, 0), <<>>)
    BY <1>3, Resized
  <2> QED
    BY <1>1, <1>2, <1>6, <2>1, <2>2 DEF auto_buffer_init, BufferInv
<1>7. CASE auto_buffer_cleanup
  BY <1>1, <1>3, <1>7 DEF auto_buffer_cleanup, BufferInv
<1>8. CASE UNCHANGED containerVars
  BY <1>8 DEF containerVars, BufferInv
<1>9. \A d, e \in Items : <<d>> \in Seq(Stored) /\ <<d, e>> \in Seq(Stored)
  BY DEF Stored
<1> QED
  BY <1>4, <1>5, <1>6, <1>7, <1>8, <1>9 DEF BufferNext
-----------------------------------------------------------------------------
(* The ring *)

\* The slot of the item that is i-th from position p.
Slot(p, i, m) == (p + i - 1) % m

LEMMA Remainder ==
    ASSUME NEW m \in Nat, NEW x \in Nat, x < m + m
    PROVE  x % m = IF x < m THEN x ELSE x - m
<1>1. m > 0
  OBVIOUS
<1>2. PICK q \in Nat, r \in 0 .. m - 1 : q = x \div m /\ r = x % m /\ x = m * q + r
  BY <1>1
<1>3. CASE q = 0
  BY <1>2, <1>3
<1>4. CASE q = 1
  BY <1>2, <1>4
<1>5. CASE q >= 2
  <2>1. PICK k \in Nat : q = k + 2
    BY <1>2, <1>5
  <2>2. m * q = m * k + m + m /\ m * k \in Nat
    BY <2>1
  <2> QED
    BY <1>2, <2>2
<1> QED
  BY <1>2, <1>3, <1>4, <1>5

LEMMA SlotIs ==
    ASSUME NEW m \in Nat, NEW p \in 0 .. m - 1, NEW i \in 1 .. m + 1
    PROVE  Slot(p, i, m) = IF p + i - 1 < m THEN p + i - 1 ELSE p + i - 1 - m
<1>1. PICK x \in Nat : x = p + i - 1 /\ x < m + m
  OBVIOUS
<1>2. x % m = IF x < m THEN x ELSE x - m
  BY <1>1, Remainder
<1> QED
  BY <1>1, <1>2 DEF Slot

LEMMA SlotFirst == ASSUME NEW m \in Nat, NEW p \in 0 .. m - 1 PROVE Slot(p, 1, m) = p
BY SlotIs

\* The slot behind n items is none of theirs.
LEMMA SlotFree ==
    ASSUME NEW m \in Nat, NEW p \in 0 .. m - 1, NEW n \in 0 .. m - 1, NEW i \in 1 .. n
    PROVE  Slot(p, i, m) \in 0 .. m - 1 /\ Slot(p, i, m) # Slot(p, n + 1, m)
<1>1. Slot(p, i, m) = IF p + i - 1 < m THEN p + i - 1 ELSE p + i - 1 - m
  BY SlotIs
<1>2. Slot(p, n + 1, m) = IF p + (n + 1) - 1 < m THEN p + (n + 1) - 1 ELSE p + (n + 1) - 1 - m
  BY SlotIs
<1> QED
  BY <1>1, <1>2

\* From the next position the items are one slot nearer.
LEMMA SlotNext ==
    ASSUME NEW m \in Nat, NEW p \in 0 .. m - 1, NEW i \in 1 .. m
    PROVE  Slot(p, 2, m) \in 0 .. m - 1 /\ Slot(Slot(p, 2, m), i, m) = Slot(p, i + 1, m)
<1>1. PICK x \in 0 .. m - 1 : x = Slot(p, 2, m) /\ x = IF p + 1 < m THEN p + 1 ELSE p + 1 - m
  <2>1. Slot(p, 2, m) = IF p + 2 - 1 < m THEN p + 2 - 1 ELSE p + 2 - 1 - m
    BY SlotIs
  <2> QED
    BY <2>1
<1>2. Slot(x, i, m) = IF x + i - 1 < m THEN x + i - 1 ELSE x + i - 1 - m
  BY SlotIs
<1>3. Slot(p, i + 1, m) = IF p + (i + 1) - 1 < m THEN p + (i + 1) - 1 ELSE p + (i + 1) - 1 - m
  BY SlotIs
<1> QED
  BY <1>1, <1>2, <1>3

LEMMA SubSeqOne ==
    ASSUME NEW V, NEW s \in Seq(V), Len(s) >= 1
    PROVE  SubSeq(s, 1, 1) = <<s[1]>>
<1>1. SubSeq(s, 1, 1) \in Seq(V) /\ Len(SubSeq(s, 1, 1)) = 1 /\ SubSeq(s, 1, 1)[1] = s[1] /\ s[1] \in V
  OBVIOUS
<1>2. <<s[1]>> \in Seq(V) /\ Len(<<s[1]>>) = 1 /\ <<s[1]>>[1] = s[1]
  BY <1>1
<1>3. ASSUME NEW x \in Seq(V), NEW y \in Seq(V), Len(x) = 1, Len(y) = 1, x[1] = y[1] PROVE x = y
  BY <1>3, SeqEqual
<1> QED
  BY <1>1, <1>2, <1>3, Zenon

RingOK(q) ==
    /\ DOMAIN q = {"nodes", "max_size", "start_pos", "length"}
    /\ q.max_size \in Nat /\ q.start_pos \in Nat /\ q.length \in Nat
    /\ DOMAIN q.nodes = 0 .. q.max_size - 1

\* Ring q holds the sequence s.
RingHolds(q, s) ==
    /\ q.length <= q.max_size /\ (q.max_size = 0 \/ q.start_pos < q.max_size)
    /\ s \in Seq(Items) /\ Len(s) = q.length
    /\ \A i \in 1 .. q.length : s[i] = q.nodes[Slot(q.start_pos, i, q.max_size)]

RingInv ==
    /\ sq = empty_sq(TRUE) /\ cells = <<>> /\ buf = no_buffer
    /\ kept \in BOOLEAN /\ RingOK(ring)
    /\ kept => RingHolds(ring, expected) /\ got.was = got.should
    /\ ~kept => ring.max_size > 0

\* A ring that grows is as it was if its items start at the first slot.
LEMMA RingResized ==
    ASSUME NEW q, RingOK(q), NEW n \in Nat
    PROVE  /\ RingOK(queue_resize(q, n)) /\ n <= queue_resize(q, n).max_size
           /\ queue_resize(q, n).length = q.length /\ queue_resize(q, n).start_pos = q.start_pos
           /\ queue_resize(q, n).max_size > 0
           /\ \A s : RingHolds(q, s) /\ (queue_resize(q, n) = q \/ q.start_pos = 0)
                        => RingHolds(queue_resize(q, n), s)
<1> DEFINE m == IF n <= 0 THEN UnitSize ELSE round_up(n)
           e == [i \in 0 .. m - 1 |-> IF i < q.max_size THEN q.nodes[i] ELSE unused]
           c == [q EXCEPT !.max_size = m, !.nodes = e]
<1>1. m \in Nat /\ n <= m /\ m > 0
  BY RoundsUp, ContainersAssumption
<1>2. queue_resize(q, n) = IF m <= q.max_size THEN q ELSE c
  BY Zenon DEF queue_resize
<1> HIDE DEF m
<1>3. q.max_size \in Nat /\ q.start_pos \in Nat /\ q.length \in Nat
  BY DEF RingOK
<1>4. CASE m <= q.max_size
  BY <1>1, <1>2, <1>3, <1>4
<1>5. CASE ~(m <= q.max_size)
  <2>1. DOMAIN e = 0 .. m - 1 /\ \A i \in 0 .. q.max_size - 1 : e[i] = q.nodes[i]
    BY <1>1, <1>3, <1>5
  <2> HIDE DEF e
  <2>2. /\ DOMAIN c = {"nodes", "max_size", "start_pos", "length"}
        /\ c.nodes = e /\ c.max_size = m /\ c.start_pos = q.start_pos /\ c.length = q.length
    BY DEF RingOK
  <2> HIDE DEF c
  <2>3. ASSUME NEW s, RingHolds(q, s), q.start_pos = 0 PROVE RingHolds(c, s)
    <3>1. ASSUME NEW i \in 1 .. q.length PROVE s[i] = c.nodes[Slot(0, i, m)]
      <4>1. Slot(0, i, q.max_size) = i - 1
        BY <1>3, <2>3, SlotIs DEF RingHolds
      <4>2. Slot(0, i, m) = i - 1
        BY <1>1, <1>3, <1>5, <2>3, SlotIs DEF RingHolds
      <4>3. i - 1 \in 0 .. q.max_size - 1
        BY <1>3, <2>3 DEF RingHolds
      <4>4. s[i] = q.nodes[i - 1]
        BY <2>3, <4>1 DEF RingHolds
      <4> QED
        BY <2>1, <2>2, <4>2, <4>3, <4>4
    <3> QED
      BY <1>1, <1>3, <1>5, <2>2, <2>3, <3>1 DEF RingHolds
  <2>4. c # q
    BY <1>3, <1>5, <2>2
  <2> QED
    BY <1>1, <1>2, <1>3, <1>5, <2>1, <2>2, <2>3, <2>4 DEF RingOK
<1> QED
  BY <1>4, <1>5

\* One more item goes to the slot behind the last.
LEMMA RingEntered ==
    ASSUME NEW q, RingOK(q), NEW s, NEW d \in Items, q.length + 1 <= q.max_size
    PROVE  LET r == [q EXCEPT !.nodes[(q.start_pos + q.length) % q.max_size] = d, !.length = @ + 1]
           IN  RingOK(r) /\ r.max_size = q.max_size /\ (RingHolds(q, s) => RingHolds(r, Append(s, d)))
<1> DEFINE x == (q.start_pos + q.length) % q.max_size
           r == [q EXCEPT !.nodes[x] = d, !.length = @ + 1]
           e == [q.nodes EXCEPT ![x] = d]
<1>1. q.max_size \in Nat /\ q.start_pos \in Nat /\ q.length \in Nat /\ DOMAIN q.nodes = 0 .. q.max_size - 1
  BY DEF RingOK
<1>2. x \in 0 .. q.max_size - 1 /\ x = Slot(q.start_pos, q.length + 1, q.max_size)
  <2>1. q.start_pos + q.length \in Nat /\ q.max_size > 0
    BY <1>1
  <2>2. q.start_pos + (q.length + 1) - 1 = q.start_pos + q.length
    BY <1>1
  <2> QED
    BY <1>1, <2>1, <2>2 DEF Slot
<1> HIDE DEF x
<1>3. /\ DOMAIN r = {"nodes", "max_size", "start_pos", "length"}
      /\ r.nodes = e /\ r.max_size = q.max_size /\ r.start_pos = q.start_pos /\ r.length = q.length + 1
  BY DEF RingOK
<1>4. DOMAIN e = 0 .. q.max_size - 1 /\ e[x] = d /\ \A i \in 0 .. q.max_size - 1 : i # x => e[i] = q.nodes[i]
  BY <1>1, <1>2
<1> HIDE DEF e, r
<1>5. ASSUME RingHolds(q, s) PROVE RingHolds(r, Append(s, d))
  <2>1. /\ Append(s, d) \in Seq(Items) /\ Len(Append(s, d)) = q.length + 1
        /\ \A i \in 1 .. q.length : Append(s, d)[i] = s[i]
        /\ Append(s, d)[q.length + 1] = d
    BY <1>1, <1>5 DEF RingHolds
  <2>2. ASSUME NEW i \in 1 .. q.length PROVE s[i] = e[Slot(q.start_pos, i, q.max_size)]
    <3>1. q.start_pos \in 0 .. q.max_size - 1 /\ q.length \in 0 .. q.max_size - 1
      BY <1>1, <1>5 DEF RingHolds
    <3>2. PICK y \in 0 .. q.max_size - 1 : y = Slot(q.start_pos, i, q.max_size) /\ y # x
      BY <1>1, <1>2, <3>1, SlotFree
    <3> QED
      BY <1>4, <1>5, <3>2 DEF RingHolds
  <2>3. \A i \in 1 .. q.length + 1 : Append(s, d)[i] = e[Slot(q.start_pos, i, q.max_size)]
    BY <1>1, <1>2, <1>4, <2>1, <2>2
  <2> QED
    BY <1>1, <1>3, <1>5, <2>1, <2>3 DEF RingHolds
<1>6. RingOK(r)
  BY <1>1, <1>3, <1>4 DEF RingOK
<1> QED
  BY <1>3, <1>5, <1>6, Zenon DEF r, x

\* The first item leaves.
LEMMA RingLeft ==
    ASSUME NEW q, RingOK(q), q.length > 0, q.max_size > 0
    PROVE  LET r == [q EXCEPT !.start_pos = next_pos(q), !.length = @ - 1]
           IN  /\ RingOK(r) /\ r.max_size = q.max_size
               /\ \A s : RingHolds(q, s) =>
                     /\ RingHolds(r, SubSeq(s, 1 + 1, Len(s)))
                     /\ SubSeq(s, 1, 1) = <<q.nodes[q.start_pos]>>
<1> DEFINE x == next_pos(q)
           r == [q EXCEPT !.start_pos = x, !.length = @ - 1]
<1>1. q.max_size \in Nat /\ q.start_pos \in Nat /\ q.length \in Nat
  BY DEF RingOK
<1>2. x \in Nat /\ x < q.max_size /\ x = Slot(q.start_pos, 2, q.max_size)
  <2>1. q.start_pos + 1 \in Nat /\ q.start_pos + 2 - 1 = q.start_pos + 1
    BY <1>1
  <2> QED
    BY <1>1, <2>1 DEF next_pos, Slot
<1> HIDE DEF x
<1>3. /\ DOMAIN r = {"nodes", "max_size", "start_pos", "length"}
      /\ r.nodes = q.nodes /\ r.max_size = q.max_size /\ r.start_pos = x /\ r.length = q.length - 1
  BY DEF RingOK
<1> HIDE DEF r
<1>4. ASSUME NEW s, RingHolds(q, s)
      PROVE  RingHolds(r, SubSeq(s, 1 + 1, Len(s))) /\ SubSeq(s, 1, 1) = <<q.nodes[q.start_pos]>>
  <2>1. /\ SubSeq(s, 2, Len(s)) \in Seq(Items) /\ Len(SubSeq(s, 2, Len(s))) = q.length - 1
        /\ \A i \in 1 .. q.length - 1 : SubSeq(s, 2, Len(s))[i] = s[i + 1]
    BY <1>1, <1>4 DEF RingHolds
  <2>2. SubSeq(s, 1, 1) = <<s[1]>> /\ s[1] = q.nodes[q.start_pos]
    <3>1. q.start_pos \in 0 .. q.max_size - 1 /\ 1 \in 1 .. q.length
      BY <1>1, <1>4 DEF RingHolds
    <3>2. Slot(q.start_pos, 1, q.max_size) = q.start_pos
      BY <1>1, <3>1, SlotFirst
    <3>3. s[1] = q.nodes[q.start_pos]
      BY <1>4, <3>1, <3>2 DEF RingHolds
    <3>4. s \in Seq(Items) /\ Len(s) >= 1
      BY <1>1, <1>4 DEF RingHolds
    <3>5. SubSeq(s, 1, 1) = <<s[1]>>
      BY <3>4, SubSeqOne
    <3> QED
      BY <3>3, <3>5
  <2>3. ASSUME NEW i \in 1 .. q.length - 1
        PROVE  SubSeq(s, 2, Len(s))[i] = q.nodes[Slot(x, i, q.max_size)]
    <3>1. q.start_pos \in 0 .. q.max_size - 1 /\ i \in 1 .. q.max_size
      BY <1>1, <1>4 DEF RingHolds
    <3>2. PICK j \in 1 .. q.length : j = i + 1
      BY <1>1
    <3>5. Slot(x, i, q.max_size) = Slot(q.start_pos, j, q.max_size)
      BY <1>1, <1>2, <3>1, <3>2, SlotNext
    <3>6. s[j] = q.nodes[Slot(q.start_pos, j, q.max_size)]
      BY <1>4, <3>2 DEF RingHolds
    <3> QED
      BY <2>1, <3>2, <3>5, <3>6
  <2> QED
    BY <1>1, <1>2, <1>3, <1>4, <2>1, <2>2, <2>3 DEF RingHolds
<1>5. RingOK(r)
  BY <1>1, <1>2, <1>3 DEF RingOK
<1> QED
  BY <1>3, <1>4, <1>5 DEF r, x

LEMMA RingStep == RingInv /\ [RingNext]_containerVars => RingInv'
<1> SUFFICES ASSUME RingInv, [RingNext]_containerVars PROVE RingInv'
  OBVIOUS
<1>1. sq = empty_sq(TRUE) /\ cells = <<>> /\ buf = no_buffer /\ kept \in BOOLEAN /\ RingOK(ring)
  BY DEF RingInv
<1>2. (kept => RingHolds(ring, expected) /\ got.was = got.should) /\ (~kept => ring.max_size > 0)
  BY DEF RingInv
<1>3. RingOK(no_ring) /\ RingHolds(no_ring, <<>>)
  BY DEF RingOK, RingHolds, no_ring
<1>4. ASSUME NEW d \in Items, queue_enter(d) PROVE RingInv'
  <2>1. PICK q : /\ q = queue_resize(ring, ring.length + 1)
                 /\ ring' = [q EXCEPT !.nodes[(q.start_pos + q.length) % q.max_size] = d, !.length = @ + 1]
                 /\ kept' = (kept /\ (q = ring \/ ring.start_pos = 0))
    BY <1>4, Zenon DEF queue_enter
  <2>2. ring.length + 1 \in Nat /\ ring.length \in Nat
    BY <1>1 DEF RingOK
  <2>3. /\ RingOK(q) /\ q.length = ring.length /\ ring.length + 1 <= q.max_size /\ q.max_size > 0
        /\ kept' => RingHolds(q, expected)
    BY <1>1, <1>2, <2>1, <2>2, RingResized
  <2>4. /\ RingOK(ring') /\ ring'.max_size = q.max_size
        /\ RingHolds(q, expected) => RingHolds(ring', Append(expected, d))
    BY <2>1, <2>3, RingEntered
  <2>5. expected' = Append(expected, d) /\ UNCHANGED <<sq, cells, buf, got>>
    BY <1>4 DEF queue_enter
  <2>6. kept' \in BOOLEAN /\ (kept' => kept)
    BY <1>1, <2>1
  <2> QED
    BY <1>1, <1>2, <2>3, <2>4, <2>5, <2>6 DEF RingInv
<1>5. CASE queue_leave
  <2>1. CASE ring.length <= 0
    <3>1. /\ got' = [was |-> nothing, should |-> taken(0)]
          /\ UNCHANGED <<ring, expected, sq, cells, kept, buf>>
      BY <1>5, <2>1 DEF queue_leave
    <3>2. taken(0) = nothing
      BY SubSeqEmpty DEF taken, nothing
    <3> QED
      BY <1>1, <1>2, <3>1, <3>2 DEF RingInv
  <2>2. CASE ring.length > 0 /\ ring.max_size > 0
    <3>1. /\ got' = [was |-> <<ring.nodes[ring.start_pos]>>, should |-> taken(1)]
          /\ ring' = [ring EXCEPT !.start_pos = next_pos(ring), !.length = @ - 1]
          /\ expected' = left(1) /\ UNCHANGED <<sq, cells, kept, buf>>
      <4>1. ~(ring.length <= 0)
        BY <1>1, <2>2 DEF RingOK
      <4> QED
        BY <1>5, <4>1 DEF queue_leave
    <3>2. /\ RingOK(ring') /\ ring'.max_size = ring.max_size
          /\ RingHolds(ring, expected) =>
                RingHolds(ring', left(1)) /\ taken(1) = <<ring.nodes[ring.start_pos]>>
      BY <1>1, <2>2, <3>1, RingLeft DEF left, taken
    <3> QED
      BY <1>1, <1>2, <2>2, <3>1, <3>2 DEF RingInv
  <2> QED
    BY <1>1, <1>5, <2>1, <2>2 DEF queue_leave, RingOK
<1>6. CASE clib_queue_init
  <2>1. /\ ring.max_size = 0 /\ ring' = queue_resize(no_ring, 0)
        /\ UNCHANGED <<sq, cells, kept, buf, expected, got>>
    BY <1>6 DEF clib_queue_init
  <2>2. kept /\ expected = <<>>
    BY <1>1, <1>2, <2>1 DEF RingOK, RingHolds
  <2>3. no_ring.start_pos = 0
    BY DEF no_ring
  <2>4. RingOK(ring') /\ RingHolds(ring', <<>>)
    BY <1>3, <2>1, <2>3, RingResized
  <2> QED
    BY <1>1, <1>2, <2>1, <2>2, <2>4 DEF RingInv
<1>7. CASE clib_queue_cleanup
  BY <1>1, <1>3, <1>7 DEF clib_queue_cleanup, RingInv
<1>8. CASE UNCHANGED containerVars
  BY <1>8 DEF containerVars, RingInv
<1> QED
  BY <1>4, <1>5, <1>6, <1>7, <1>8 DEF RingNext
-----------------------------------------------------------------------------
(* The linked cells *)

\* c lists the cells that link s, from cell top to the last one.
Links(c, s, C, top) ==
    /\ c \in Seq(1 .. MaxHeld) /\ s \in Seq(Items) /\ Len(c) = Len(s)
    /\ top = IF Len(c) = 0 THEN no_cell ELSE c[1]
    /\ \A i \in 1 .. Len(c) :
          /\ C[c[i]].data = s[i]
          /\ C[c[i]].next = IF i = Len(c) THEN no_cell ELSE c[i + 1]
    /\ \A i, j \in 1 .. Len(c) : c[i] = c[j] => i = j
    /\ DOMAIN C = ToSet(c)

\* The recursion in chain, and its value: from cell c[i] the rest of c.
Chases(f, C) ==
    f = [n \in DOMAIN C \cup {no_cell} |-> IF n = no_cell THEN <<>> ELSE <<n>> \o f[C[n].next]]

Rest(c, i) == SubSeq(c, i, Len(c))

LEMMA RestIs ==
    ASSUME NEW V, NEW c \in Seq(V)
    PROVE  /\ \A i \in 1 .. Len(c) : Rest(c, i) = <<c[i]>> \o Rest(c, i + 1)
           /\ Rest(c, Len(c) + 1) = <<>> /\ Rest(c, 1) = c
<1>1. ASSUME NEW i \in 1 .. Len(c) PROVE Rest(c, i) = <<c[i]>> \o Rest(c, i + 1)
  <2>1. Len(c) \in i .. Len(c)
    OBVIOUS
  <2> QED
    BY <2>1, SubSeqRecursiveFirst, Zenon DEF Rest
<1>2. Rest(c, Len(c) + 1) = <<>>
  <2>1. Len(c) + 1 \in Int /\ Len(c) \in Int /\ Len(c) < Len(c) + 1
    OBVIOUS
  <2> QED
    BY <2>1, SubSeqEmpty, Zenon DEF Rest
<1>3. Rest(c, 1) = c
  BY SubSeqFull, Zenon DEF Rest
<1> QED
  BY <1>1, <1>2, <1>3

LEMMA InSeq == ASSUME NEW V, NEW c \in Seq(V) PROVE \A i \in 1 .. Len(c) : c[i] \in V
OBVIOUS

LEMMA ToSetIs ==
    ASSUME NEW V, NEW c \in Seq(V), NEW k, k = Len(c)
    PROVE  ToSet(c) = {c[i] : i \in 1 .. k}
<1>1. ToSet(c) = {c[i] : i \in 1 .. Len(c)}
  BY DEF ToSet
<1> QED
  BY <1>1

\* A cell of the list, and where it is.
LEMMA CellsListed ==
    ASSUME NEW c, NEW s, NEW C, NEW top, Links(c, s, C, top)
    PROVE  /\ \A i \in 1 .. Len(c) : c[i] \in DOMAIN C /\ c[i] # no_cell /\ c[i] \in 1 .. MaxHeld
           /\ \A n \in DOMAIN C : n # no_cell /\ \E i \in 1 .. Len(c) : n = c[i]
<1>1. c \in Seq(1 .. MaxHeld) /\ DOMAIN C = ToSet(c) /\ MaxHeld \in Nat
  BY ContainersAssumption DEF Links
<1>2. ToSet(c) = {c[i] : i \in 1 .. Len(c)}
  BY <1>1 DEF ToSet
<1>3. \A i \in 1 .. Len(c) : c[i] \in 1 .. MaxHeld
  BY <1>1
<1> QED
  BY <1>1, <1>2, <1>3 DEF no_cell

LEMMA ChaseExists ==
    ASSUME NEW c, NEW s, NEW C, NEW top, Links(c, s, C, top)
    PROVE  \E f : Chases(f, C)
<1> DEFINE pos(n) == CHOOSE i \in 1 .. Len(c) : n = c[i]
           f == [n \in DOMAIN C \cup {no_cell} |-> IF n = no_cell THEN <<>> ELSE Rest(c, pos(n))]
<1>1. \A n \in DOMAIN C : n # no_cell /\ pos(n) \in 1 .. Len(c) /\ n = c[pos(n)]
  BY CellsListed
<1>2. c \in Seq(1 .. MaxHeld)
  BY DEF Links
<1>3. \A i \in 1 .. Len(c) : pos(c[i]) = i /\ c[i] \in DOMAIN C /\ c[i] # no_cell
  BY <1>1, CellsListed DEF Links
<1> HIDE DEF pos
<1>4. f[no_cell] = <<>> /\ \A i \in 1 .. Len(c) : f[c[i]] = Rest(c, i)
  BY <1>3
<1>5. ASSUME NEW n \in DOMAIN C PROVE Rest(c, pos(n)) = <<n>> \o f[C[n].next]
  <2>1. PICK i \in 1 .. Len(c) : i = pos(n) /\ n = c[i]
    BY <1>1
  <2>2. C[n].next = IF i = Len(c) THEN no_cell ELSE c[i + 1]
    BY <2>1 DEF Links
  <2>3. f[C[n].next] = Rest(c, i + 1)
    <3>1. CASE i = Len(c)
      BY <1>2, <1>4, <2>2, <3>1, RestIs
    <3>2. CASE i # Len(c)
      <4>1. PICK j \in 1 .. Len(c) : j = i + 1
        BY <1>2, <3>2
      <4> QED
        BY <1>4, <2>2, <3>2, <4>1
    <3> QED
      BY <3>1, <3>2
  <2>4. Rest(c, i) = <<c[i]>> \o Rest(c, i + 1)
    BY <1>2, RestIs
  <2> QED
    BY <2>1, <2>3, <2>4, Zenon
<1>6. f = [n \in DOMAIN C \cup {no_cell} |-> IF n = no_cell THEN <<>> ELSE <<n>> \o f[C[n].next]]
  <2> DEFINE g == f
  <2>1. f = [n \in DOMAIN C \cup {no_cell} |-> IF n = no_cell THEN <<>> ELSE Rest(c, pos(n))]
    OBVIOUS
  <2> HIDE DEF f
  <2>2. \A n \in DOMAIN C \cup {no_cell} :
           (IF n = no_cell THEN <<>> ELSE Rest(c, pos(n))) = IF n = no_cell THEN <<>> ELSE <<n>> \o f[C[n].next]
    BY <1>5, Zenon
  <2> QED
    BY <2>1, <2>2
<1> HIDE DEF f
<1> QED
  BY <1>6, Zenon DEF Chases

\* Whatever the recursion defines, from cell c[i] it is the rest of c.
LEMMA ChaseIs ==
    ASSUME NEW c, NEW s, NEW C, NEW top, Links(c, s, C, top), NEW f, Chases(f, C)
    PROVE  f[top] = c
<1> DEFINE T == {k \in Nat : \A i \in 1 .. Len(c) : i + k = Len(c) => f[c[i]] = Rest(c, i)}
<1>1. c \in Seq(1 .. MaxHeld) /\ Len(c) \in Nat
  BY DEF Links
<1>2. f[no_cell] = <<>> /\ \A n \in DOMAIN C : n # no_cell => f[n] = <<n>> \o f[C[n].next]
  BY DEF Chases
<1>3. \A i \in 1 .. Len(c) : f[c[i]] = <<c[i]>> \o f[C[c[i]].next] /\ Rest(c, i) = <<c[i]>> \o Rest(c, i + 1)
  BY <1>1, <1>2, CellsListed, RestIs
<1>4. \A i \in 1 .. Len(c) : C[c[i]].next = IF i = Len(c) THEN no_cell ELSE c[i + 1]
  BY DEF Links
<1>5. 0 \in T
  <2>1. ASSUME NEW i \in 1 .. Len(c), i = Len(c) PROVE f[c[i]] = Rest(c, i)
    <3>1. f[C[c[i]].next] = Rest(c, i + 1)
      BY <1>1, <1>2, <1>4, <2>1, RestIs
    <3> QED
      BY <1>3, <3>1, Zenon
  <2> QED
    BY <1>1, <2>1
<1>6. ASSUME NEW k \in T PROVE k + 1 \in T
  <2>1. ASSUME NEW i \in 1 .. Len(c), i + (k + 1) = Len(c) PROVE f[c[i]] = Rest(c, i)
    <3>1. PICK j \in 1 .. Len(c) : j = i + 1 /\ j + k = Len(c) /\ i # Len(c)
      BY <1>1, <1>6, <2>1
    <3>2. f[c[j]] = Rest(c, j)
      BY <1>6, <3>1
    <3>3. f[C[c[i]].next] = Rest(c, i + 1)
      BY <1>4, <3>1, <3>2
    <3> QED
      BY <1>3, <3>3, Zenon
  <2> QED
    BY <1>6, <2>1
<1> HIDE DEF T
<1>7. T = Nat
  BY <1>5, <1>6, SetInduction DEF T
<1>8. CASE Len(c) = 0
  BY <1>1, <1>2, <1>8, EmptySeq DEF Links
<1>9. CASE Len(c) # 0
  <2>1. PICK k \in Nat : 1 + k = Len(c) /\ 1 \in 1 .. Len(c)
    BY <1>1, <1>9
  <2>2. f[c[1]] = Rest(c, 1)
    BY <1>7, <2>1 DEF T
  <2> QED
    BY <1>1, <1>9, <2>2, RestIs DEF Links
<1> QED
  BY <1>8, <1>9

LEMMA ChainIs == ASSUME NEW c, NEW s, Links(c, s, cells, sq.top) PROVE chain = c
<1> DEFINE from == CHOOSE f : f = [n \in DOMAIN cells \cup {no_cell} |->
                                     IF n = no_cell THEN <<>> ELSE <<n>> \o f[cells[n].next]]
<1>1. chain = from[sq.top]
  BY Zenon DEF chain
<1>2. Chases(from, cells)
  <2>1. \E f : f = [n \in DOMAIN cells \cup {no_cell} |->
                      IF n = no_cell THEN <<>> ELSE <<n>> \o f[cells[n].next]]
    <3>1. \E f : Chases(f, cells)
      BY ChaseExists
    <3> QED
      BY <3>1, Zenon DEF Chases
  <2> QED
    BY <2>1, Zenon DEF Chases
<1> HIDE DEF from
<1>3. from[sq.top] = c
  BY <1>2, ChaseIs
<1> QED
  BY <1>1, <1>3

\* A cell that was not in use comes before the others, ...
LEMMA LinkedFirst ==
    ASSUME NEW c, NEW s, NEW C, NEW top, Links(c, s, C, top),
           NEW n \in (1 .. MaxHeld) \ DOMAIN C, NEW d \in Items
    PROVE  Links(<<n>> \o c, <<d>> \o s, with_cell(C, n, d, top), n)
<1> DEFINE b == <<n>> \o c
           t == <<d>> \o s
           D == with_cell(C, n, d, top)
<1>1. /\ c \in Seq(1 .. MaxHeld) /\ s \in Seq(Items) /\ Len(s) = Len(c)
      /\ top = IF Len(c) = 0 THEN no_cell ELSE c[1]
  BY DEF Links
<1>2. PICK k \in Nat : k = Len(c) /\ k = Len(s)
  BY <1>1
<1>3. /\ b \in Seq(1 .. MaxHeld) /\ Len(b) = k + 1 /\ b[1] = n
      /\ \A i \in 1 .. k : b[i + 1] = c[i]
  BY <1>1, <1>2
<1>4. /\ t \in Seq(Items) /\ Len(t) = k + 1 /\ t[1] = d
      /\ \A i \in 1 .. k : t[i + 1] = s[i]
  BY <1>1, <1>2
<1>5. /\ DOMAIN D = DOMAIN C \cup {n}
      /\ D[n].data = d /\ D[n].next = top
      /\ \A m \in DOMAIN C : D[m] = C[m]
  BY DEF with_cell
<1> HIDE DEF b, t, D
<1>6. \A i \in 1 .. k : c[i] \in DOMAIN C /\ c[i] # n
  <2>1. \A i \in 1 .. Len(c) : c[i] \in DOMAIN C
    BY CellsListed
  <2> QED
    BY <1>2, <2>1
<1>7. \A i \in 2 .. k + 1 : \E j \in 1 .. k : i = j + 1 /\ b[i] = c[j] /\ t[i] = s[j]
  <2>1. \A i \in 2 .. k + 1 : i - 1 \in 1 .. k /\ (i - 1) + 1 = i
    OBVIOUS
  <2> QED
    BY <1>3, <1>4, <2>1
<1>8. ASSUME NEW i \in 1 .. k + 1
      PROVE  D[b[i]].data = t[i] /\ D[b[i]].next = IF i = k + 1 THEN no_cell ELSE b[i + 1]
  <2>1. CASE i = 1
    <3>1. k # 0 => b[1 + 1] = c[1]
      BY <1>3
    <3> QED
      BY <1>1, <1>2, <1>3, <1>4, <1>5, <2>1, <3>1
  <2>2. CASE i # 1
    <3>1. PICK j \in 1 .. k : i = j + 1 /\ b[i] = c[j] /\ t[i] = s[j]
      BY <1>7, <2>2
    <3>2. C[c[j]].data = s[j] /\ C[c[j]].next = IF j = k THEN no_cell ELSE c[j + 1]
      BY <1>2, <3>1 DEF Links
    <3>3. j # k => j + 1 \in 1 .. k /\ b[i + 1] = c[j + 1]
      BY <1>3, <3>1
    <3> QED
      BY <1>5, <1>6, <3>1, <3>2, <3>3
  <2> QED
    BY <2>1, <2>2
<1>9. ASSUME NEW i \in 1 .. k + 1, NEW j \in 1 .. k + 1, b[i] = b[j] PROVE i = j
  <2>1. \A x \in 1 .. k, y \in 1 .. k : c[x] = c[y] => x = y
    BY <1>2 DEF Links
  <2>2. i # 1 => \E x \in 1 .. k : i = x + 1 /\ b[i] = c[x]
    BY <1>7
  <2>3. j # 1 => \E x \in 1 .. k : j = x + 1 /\ b[j] = c[x]
    BY <1>7
  <2> QED
    BY <1>3, <1>6, <1>9, <2>1, <2>2, <2>3
<1>10. DOMAIN D = ToSet(b)
  <2>1. ToSet(b) = {b[i] : i \in 1 .. k + 1} /\ DOMAIN C = {c[i] : i \in 1 .. k}
    <3>1. DOMAIN C = ToSet(c)
      BY DEF Links
    <3>2. ToSet(c) = {c[i] : i \in 1 .. k}
      BY <1>1, <1>2, ToSetIs
    <3>3. ToSet(b) = {b[i] : i \in 1 .. k + 1}
      BY <1>3, ToSetIs
    <3> QED
      BY <3>1, <3>2, <3>3
  <2>2. ASSUME NEW m \in DOMAIN D PROVE \E i \in 1 .. k + 1 : m = b[i]
    <3>1. CASE m = n
      BY <1>3, <3>1
    <3>2. CASE m # n
      <4>1. PICK i \in 1 .. k : m = c[i]
        BY <1>5, <2>1, <3>2
      <4> QED
        BY <1>3, <4>1
    <3> QED
      BY <3>1, <3>2
  <2>3. ASSUME NEW i \in 1 .. k + 1 PROVE b[i] \in DOMAIN D
    BY <1>3, <1>5, <1>6, <1>7
  <2> QED
    <3> DEFINE X == DOMAIN D
               Y == {b[i] : i \in 1 .. k + 1}
    <3>1. X \subseteq Y
      BY <2>2
    <3>2. Y \subseteq X
      BY <2>3
    <3> QED
      BY <2>1, <3>1, <3>2, Zenon
<1>11. Links(b, t, D, n)
  BY <1>3, <1>4, <1>8, <1>9, <1>10 DEF Links
<1> QED
  BY <1>11 DEF b, t, D

\* ... or behind the last one, cell l.
CellAdded(D, C, l, n, d) ==
    /\ DOMAIN D = DOMAIN C \cup {n}
    /\ D[n].data = d /\ D[n].next = no_cell
    /\ \A m \in DOMAIN C : D[m].data = C[m].data /\ D[m].next = IF m = l THEN n ELSE C[m].next

LEMMA LinkedLast ==
    ASSUME NEW c, NEW s, NEW C, NEW top, Links(c, s, C, top),
           NEW n \in (1 .. MaxHeld) \ DOMAIN C, NEW d \in Items,
           NEW D, CellAdded(D, C, c[Len(c)], n, d)
    PROVE  Links(Append(c, n), Append(s, d), D, IF Len(c) = 0 THEN n ELSE top)
<1> DEFINE b == Append(c, n)
           t == Append(s, d)
<1>0. /\ DOMAIN D = DOMAIN C \cup {n} /\ D[n].data = d /\ D[n].next = no_cell
      /\ \A m \in DOMAIN C : D[m].data = C[m].data /\ D[m].next = IF m = c[Len(c)] THEN n ELSE C[m].next
  BY DEF CellAdded
<1>1. /\ c \in Seq(1 .. MaxHeld) /\ s \in Seq(Items) /\ Len(s) = Len(c)
      /\ top = IF Len(c) = 0 THEN no_cell ELSE c[1]
  BY DEF Links
<1>2. PICK k \in Nat : k = Len(c) /\ k = Len(s)
  BY <1>1
<1>3. /\ b \in Seq(1 .. MaxHeld) /\ Len(b) = k + 1 /\ b[k + 1] = n
      /\ \A i \in 1 .. k : b[i] = c[i]
  BY <1>1, <1>2
<1>4. /\ t \in Seq(Items) /\ Len(t) = k + 1 /\ t[k + 1] = d
      /\ \A i \in 1 .. k : t[i] = s[i]
  BY <1>1, <1>2
<1> HIDE DEF b, t
<1>5. \A i \in 1 .. k : c[i] \in DOMAIN C /\ c[i] # n
  <2>1. \A i \in 1 .. Len(c) : c[i] \in DOMAIN C
    BY CellsListed
  <2> QED
    BY <1>2, <2>1
<1>6. \A x \in 1 .. k, y \in 1 .. k : c[x] = c[y] => x = y
  BY <1>2 DEF Links
<1>7. ASSUME NEW i \in 1 .. k + 1
      PROVE  D[b[i]].data = t[i] /\ D[b[i]].next = IF i = k + 1 THEN no_cell ELSE b[i + 1]
  <2>1. CASE i = k + 1
    BY <1>0, <1>3, <1>4, <2>1
  <2>2. CASE i # k + 1
    <3>1. PICK j \in 1 .. k : i = j
      BY <2>2
    <3>2. C[c[j]].data = s[j] /\ C[c[j]].next = IF j = k THEN no_cell ELSE c[j + 1]
      BY <1>2, <3>1 DEF Links
    <3>3. D[c[j]].data = s[j] /\ D[c[j]].next = IF c[j] = c[k] THEN n ELSE C[c[j]].next
      BY <1>0, <1>2, <1>5, <3>1, <3>2
    <3>4. c[j] = c[k] => j = k
      BY <1>6
    <3>5. j # k => b[j + 1] = c[j + 1]
      BY <1>3
    <3> QED
      BY <1>3, <1>4, <2>2, <3>1, <3>2, <3>3, <3>4, <3>5
  <2> QED
    BY <2>1, <2>2
<1>8. ASSUME NEW i \in 1 .. k + 1, NEW j \in 1 .. k + 1, b[i] = b[j] PROVE i = j
  BY <1>3, <1>5, <1>6, <1>8
<1>9. DOMAIN D = ToSet(b)
  <2>1. ToSet(b) = {b[i] : i \in 1 .. k + 1} /\ DOMAIN C = {c[i] : i \in 1 .. k}
    <3>1. DOMAIN C = ToSet(c)
      BY DEF Links
    <3>2. ToSet(c) = {c[i] : i \in 1 .. k}
      BY <1>1, <1>2, ToSetIs
    <3>3. ToSet(b) = {b[i] : i \in 1 .. k + 1}
      BY <1>3, ToSetIs
    <3> QED
      BY <3>1, <3>2, <3>3
  <2>2. ASSUME NEW m \in DOMAIN D PROVE \E i \in 1 .. k + 1 : m = b[i]
    <3>1. CASE m = n
      BY <1>3, <3>1
    <3>2. CASE m # n
      <4>1. PICK i \in 1 .. k : m = c[i]
        BY <1>0, <2>1, <3>2
      <4> QED
        BY <1>3, <4>1
    <3> QED
      BY <3>1, <3>2
  <2>3. ASSUME NEW i \in 1 .. k + 1 PROVE b[i] \in DOMAIN D
    BY <1>0, <1>3, <1>5
  <2> DEFINE X == DOMAIN D
             Y == {b[i] : i \in 1 .. k + 1}
  <2>4. X \subseteq Y
    BY <2>2
  <2>5. Y \subseteq X
    BY <2>3
  <2> QED
    BY <2>1, <2>4, <2>5, Zenon
<1>10. b[1] = IF k = 0 THEN n ELSE top
  BY <1>1, <1>2, <1>3
<1>11. Links(b, t, D, IF k = 0 THEN n ELSE top)
  BY <1>3, <1>4, <1>7, <1>8, <1>9, <1>10 DEF Links
<1> QED
  BY <1>2, <1>11 DEF b, t

Without(C, n) == [m \in DOMAIN C \ {n} |-> C[m]]

\* The first cell is freed.
LEMMA LinkedRest ==
    ASSUME NEW c, NEW s, NEW C, NEW top, Links(c, s, C, top), top # no_cell
    PROVE  /\ top \in DOMAIN C /\ <<C[top].data>> = SubSeq(s, 1, 1) /\ Len(c) >= 1
           /\ C[top].next = no_cell <=> Len(c) = 1
           /\ Links(Rest(c, 2), SubSeq(s, 1 + 1, Len(s)), Without(C, top), C[top].next)
<1> DEFINE b == Rest(c, 2)
           t == SubSeq(s, 2, Len(s))
           D == Without(C, top)
<1>1. /\ c \in Seq(1 .. MaxHeld) /\ s \in Seq(Items) /\ Len(s) = Len(c)
      /\ top = IF Len(c) = 0 THEN no_cell ELSE c[1]
  BY DEF Links
<1>2. PICK k \in Nat : k + 1 = Len(c) /\ k + 1 = Len(s) /\ top = c[1]
  <2>1. Len(c) \in Nat /\ Len(c) # 0
    BY <1>1
  <2>2. PICK k \in Nat : k + 1 = Len(c)
    BY <2>1
  <2> QED
    BY <1>1, <2>1, <2>2
<1>3. /\ b \in Seq(1 .. MaxHeld) /\ Len(b) = k /\ \A i \in 1 .. k : b[i] = c[i + 1]
  <2>1. b = SubSeq(c, 2, k + 1) /\ 2 \in 1 .. Len(c) + 1 /\ k + 1 \in 0 .. Len(c)
    <3>1. b = SubSeq(c, 2, k + 1)
      BY <1>2, Zenon DEF Rest
    <3> QED
      BY <1>2, <3>1
  <2>2. \A i \in 2 .. k + 1 : c[i] \in 1 .. MaxHeld
    <3>1. \A i \in 1 .. Len(c) : c[i] \in 1 .. MaxHeld
      BY <1>1, InSeq, Zenon
    <3> QED
      BY <1>2, <3>1
  <2>3. b \in Seq(1 .. MaxHeld) /\ Window(b, c, 1, k)
    <3>1. \A i \in 1 + 1 .. 1 + k : c[i] \in 1 .. MaxHeld
      BY <2>2
    <3>2. b = SubSeq(c, 1 + 1, 1 + k)
      BY <2>1
    <3> QED
      BY <3>1, <3>2, WindowIs
  <2>4. ASSUME NEW i \in 1 .. k PROVE b[i] = c[i + 1]
    <3>1. b[i] = c[1 + i] /\ 1 + i = i + 1
      BY <2>3 DEF Window
    <3> QED
      BY <3>1, Zenon
  <2>5. Len(b) = k
    BY <2>3 DEF Window
  <2> QED
    BY <2>3, <2>4, <2>5, Zenon
<1>4. /\ t \in Seq(Items) /\ Len(t) = k /\ \A i \in 1 .. k : t[i] = s[i + 1]
  BY <1>1, <1>2
<1>5. DOMAIN D = DOMAIN C \ {top} /\ \A m \in DOMAIN C \ {top} : D[m] = C[m]
  BY DEF Without
<1> HIDE DEF b, t, D
<1>6. \A x \in 1 .. k + 1, y \in 1 .. k + 1 : c[x] = c[y] => x = y
  BY <1>2 DEF Links
<1>7. \A i \in 1 .. k + 1 : c[i] \in DOMAIN C /\ c[i] # no_cell
  BY <1>2, CellsListed
<1>8. \A i \in 1 .. k + 1 : /\ C[c[i]].data = s[i]
                            /\ C[c[i]].next = IF i = k + 1 THEN no_cell ELSE c[i + 1]
  BY <1>2 DEF Links
<1>9. ASSUME NEW i \in 1 .. k
      PROVE  D[b[i]].data = t[i] /\ D[b[i]].next = IF i = k THEN no_cell ELSE b[i + 1]
  <2>1. PICK j \in 1 .. k + 1 : j = i + 1 /\ j # 1
    OBVIOUS
  <2>2. b[i] = c[j] /\ t[i] = s[j]
    BY <1>3, <1>4, <2>1
  <2>3. c[j] \in DOMAIN C \ {top}
    BY <1>2, <1>6, <1>7, <2>1
  <2>4. i # k => b[i + 1] = c[j + 1]
    BY <1>3, <2>1
  <2> QED
    BY <1>5, <1>8, <2>1, <2>2, <2>3, <2>4
<1>10. ASSUME NEW i \in 1 .. k, NEW j \in 1 .. k, b[i] = b[j] PROVE i = j
  BY <1>3, <1>6, <1>10
<1>11. DOMAIN D = ToSet(b)
  <2>1. ToSet(b) = {b[i] : i \in 1 .. k} /\ DOMAIN C = {c[i] : i \in 1 .. k + 1}
    <3>1. DOMAIN C = ToSet(c)
      BY DEF Links
    <3>2. ToSet(c) = {c[i] : i \in 1 .. k + 1}
      BY <1>1, <1>2, ToSetIs
    <3>3. ToSet(b) = {b[i] : i \in 1 .. k}
      BY <1>3, ToSetIs
    <3> QED
      BY <3>1, <3>2, <3>3
  <2>2. ASSUME NEW m \in DOMAIN D PROVE \E i \in 1 .. k : m = b[i]
    <3>1. PICK i \in 1 .. k + 1 : m = c[i] /\ i # 1
      BY <1>2, <1>5, <2>1
    <3>2. i - 1 \in 1 .. k /\ (i - 1) + 1 = i
      BY <1>2, <3>1
    <3>3. b[i - 1] = c[i]
      BY <1>3, <3>2
    <3> QED
      BY <3>1, <3>2, <3>3
  <2>3. ASSUME NEW i \in 1 .. k PROVE b[i] \in DOMAIN D
    <3>1. PICK j \in 1 .. k + 1 : j = i + 1 /\ j # 1
      OBVIOUS
    <3> QED
      BY <1>2, <1>3, <1>5, <1>6, <1>7, <3>1
  <2> QED
    BY <2>1, <2>2, <2>3
<1>12. C[top].next = IF k = 0 THEN no_cell ELSE b[1]
  BY <1>2, <1>3, <1>8
<1>13. Links(b, t, D, C[top].next)
  BY <1>3, <1>4, <1>9, <1>10, <1>11, <1>12 DEF Links
<1>14. top \in DOMAIN C /\ C[top].data = s[1] /\ Len(s) >= 1 /\ Len(c) >= 1
  BY <1>2, <1>7, <1>8
<1>15. C[top].next = no_cell <=> Len(c) = 1
  BY <1>2, <1>3, <1>7, <1>12
<1>16. SubSeq(s, 1, 1) = <<s[1]>>
  BY <1>1, <1>14, SubSeqOne
<1> QED
  BY <1>13, <1>14, <1>15, <1>16 DEF b, t, D
-----------------------------------------------------------------------------
(* The list *)

\* The cells of c hold what the list should, up to the bottom of a queue.
Listed(c) ==
    /\ Links(c, expected, cells, sq.top)
    /\ sq.is_queue => sq.bottom = IF Len(c) = 0 THEN no_cell ELSE c[Len(c)]

ListInv ==
    /\ ring = no_ring /\ kept = TRUE /\ buf = no_buffer
    /\ DOMAIN sq = {"is_queue", "top", "bottom", "count"}
    /\ sq.is_queue \in BOOLEAN /\ sq.count = Len(expected)
    /\ \E c : Listed(c)
    /\ got.was = got.should

\* A list that is not full leaves a cell.
LEMMA FreeCell ==
    ASSUME NEW c, NEW s, Links(c, s, cells, sq.top), Len(c) < MaxHeld
    PROVE  new_cell \in (1 .. MaxHeld) \ DOMAIN cells
<1>1. c \in Seq(1 .. MaxHeld) /\ Len(c) \in Nat /\ DOMAIN c = 1 .. Len(c) /\ MaxHeld \in Nat
  BY ContainersAssumption DEF Links
<1>2. /\ \A i \in 1 .. Len(c) : c[i] \in DOMAIN cells
      /\ \A n \in DOMAIN cells : \E i \in 1 .. Len(c) : n = c[i]
  BY CellsListed
<1>3. c \in Surjection(1 .. Len(c), DOMAIN cells)
  <2>1. c = [i \in 1 .. Len(c) |-> c[i]]
    BY <1>1
  <2>2. c \in [1 .. Len(c) -> DOMAIN cells]
    BY <1>2, <2>1
  <2> QED
    BY <1>2, <2>2 DEF Surjection
<1>4. IsFiniteSet(1 .. Len(c)) /\ Cardinality(1 .. Len(c)) = Len(c)
  <2>1. PICK k \in Nat : k = Len(c)
    BY <1>1
  <2>2. IsFiniteSet(1 .. k) /\ Cardinality(1 .. k) = k
    BY FS_Interval
  <2> QED
    BY <2>1, <2>2
<1>5. Cardinality(DOMAIN cells) <= Len(c)
  BY <1>3, <1>4, FS_Surjection
<1>6. Cardinality(1 .. MaxHeld) = MaxHeld
  BY <1>1, FS_Interval
<1>7. DOMAIN cells \subseteq 1 .. MaxHeld
  <2>1. \A i \in 1 .. Len(c) : c[i] \in 1 .. MaxHeld
    BY <1>1
  <2> QED
    BY <1>2, <2>1
<1>8. DOMAIN cells # 1 .. MaxHeld
  BY <1>1, <1>5, <1>6
<1>9. \E n \in 1 .. MaxHeld : n \notin DOMAIN cells
  BY <1>7, <1>8
<1> QED
  BY <1>9 DEF new_cell

\* No cells.
LEMMA NoLinks == Links(<<>>, <<>>, <<>>, no_cell)
<1>1. ToSet(<<>>) = {}
  BY DEF ToSet
<1> QED
  BY <1>1 DEF Links

LEMMA ListStart == ASSUME NEW q \in BOOLEAN, sq = empty_sq(q), cells = <<>>, expected = <<>>,
                          ring = no_ring, kept = TRUE, buf = no_buffer, got.was = got.should
                   PROVE  ListInv
BY NoLinks DEF ListInv, Listed, empty_sq

LEMMA ListStep == ListInv /\ [ListNext]_containerVars => ListInv'
<1> SUFFICES ASSUME ListInv, [ListNext]_containerVars PROVE ListInv'
  OBVIOUS
<1>1. /\ ring = no_ring /\ kept = TRUE /\ buf = no_buffer
      /\ DOMAIN sq = {"is_queue", "top", "bottom", "count"}
      /\ sq.is_queue \in BOOLEAN /\ sq.count = Len(expected) /\ got.was = got.should
  BY DEF ListInv, Listed
<1>0. PICK c : Listed(c)
  BY DEF ListInv
<1>2. /\ Links(c, expected, cells, sq.top)
      /\ sq.is_queue => sq.bottom = IF Len(c) = 0 THEN no_cell ELSE c[Len(c)]
  BY <1>0 DEF Listed
<1>3. c \in Seq(1 .. MaxHeld) /\ expected \in Seq(Items) /\ Len(c) = Len(expected) /\ Len(c) \in Nat
  BY <1>2 DEF Links
<1>4. ASSUME NEW q \in BOOLEAN, clib_stack_or_queue_init(q) PROVE ListInv'
  <2>1. /\ sq' = empty_sq(q) /\ cells' = <<>> /\ expected' = <<>> /\ ring' = no_ring /\ kept' = TRUE
        /\ buf' = no_buffer /\ got'.was = got'.should
    BY <1>1, <1>4 DEF clib_stack_or_queue_init
  <2>2. Links(<<>>, expected', cells', sq'.top)
    BY <2>1, NoLinks DEF empty_sq
  <2> QED
    BY <2>1, <2>2 DEF ListInv, Listed, empty_sq
<1>5. ASSUME NEW d \in Items, stack_push(d) PROVE ListInv'
  <2>1. new_cell \in (1 .. MaxHeld) \ DOMAIN cells
    BY <1>1, <1>2, <1>3, <1>5, FreeCell DEF stack_push
  <2>2. /\ cells' = with_cell(cells, new_cell, d, sq.top) /\ expected' = <<d>> \o expected
        /\ UNCHANGED <<ring, kept, buf, got>>
    BY <1>5 DEF stack_push
  <2>3. Links(<<new_cell>> \o c, expected', cells', new_cell)
    BY <1>2, <2>1, <2>2, LinkedFirst
  <2>4. DOMAIN sq' = DOMAIN sq /\ sq'.top = new_cell /\ sq'.count = sq.count + 1 /\ sq'.is_queue = FALSE
    BY <1>1, <1>5 DEF stack_push
  <2>5. Len(expected') = sq'.count
    BY <1>1, <1>3, <2>2, <2>4
  <2> QED
    BY <1>1, <2>2, <2>3, <2>4, <2>5 DEF ListInv, Listed
<1>6. ASSUME NEW d \in Items, queue_push(d) PROVE ListInv'
  <2>1. new_cell \in (1 .. MaxHeld) \ DOMAIN cells
    BY <1>1, <1>2, <1>3, <1>6, FreeCell DEF queue_push
  <2>2. PICK n : n = new_cell
    OBVIOUS
  <2>3. PICK C : C = with_cell(cells, n, d, no_cell)
    OBVIOUS
  <2>4. /\ sq.is_queue /\ expected' = Append(expected, d)
        /\ UNCHANGED <<ring, kept, buf, got>>
    BY <1>6 DEF queue_push
  <2>5. IF sq.top = no_cell
        THEN /\ cells' = C
             /\ sq' = [sq EXCEPT !.top = n, !.bottom = n, !.count = @ + 1]
        ELSE /\ cells' = [C EXCEPT ![sq.bottom].next = n]
             /\ sq' = [sq EXCEPT !.bottom = n, !.count = @ + 1]
    BY <1>6, <2>2, <2>3, Zenon DEF queue_push
  <2>6. /\ DOMAIN C = DOMAIN cells \cup {n} /\ C[n] = [data |-> d, next |-> no_cell]
        /\ \A m \in DOMAIN cells : C[m] = cells[m]
    BY <2>1, <2>2, <2>3 DEF with_cell
  <2>7. /\ sq.top = IF Len(c) = 0 THEN no_cell ELSE c[1]
        /\ \A i \in 1 .. Len(c) : c[i] \in DOMAIN cells /\ c[i] # no_cell
    BY <1>2, CellsListed DEF Links
  <2>8. sq.top = no_cell <=> Len(c) = 0
    BY <1>3, <2>7
  <2>9. /\ DOMAIN cells' = DOMAIN cells \cup {n} /\ cells'[n].data = d /\ cells'[n].next = no_cell
        /\ \A m \in DOMAIN cells : /\ cells'[m].data = cells[m].data
                                  /\ cells'[m].next = IF m = c[Len(c)] THEN n ELSE cells[m].next
    <3>1. CASE Len(c) = 0
      <4>1. DOMAIN cells = {}
        <5>1. \A m \in DOMAIN cells : \E i \in 1 .. Len(c) : m = c[i]
          BY <1>2, CellsListed
        <5> QED
          BY <3>1, <5>1
      <4> QED
        BY <2>5, <2>6, <2>8, <3>1, <4>1
    <3>2. CASE Len(c) # 0
      <4>1. sq.bottom = c[Len(c)] /\ c[Len(c)] \in DOMAIN cells /\ n # c[Len(c)]
        BY <1>2, <1>3, <2>1, <2>2, <2>4, <2>7, <3>2
      <4>2. cells' = [C EXCEPT ![sq.bottom].next = n]
        BY <2>5, <2>8, <3>2
      <4> QED
        BY <2>6, <4>1, <4>2
    <3> QED
      BY <3>1, <3>2
  <2>10. Links(Append(c, n), expected', cells', IF Len(c) = 0 THEN n ELSE sq.top)
    <3>1. CellAdded(cells', cells, c[Len(c)], n, d)
      BY <2>9, Zenon DEF CellAdded
    <3>2. n \in (1 .. MaxHeld) \ DOMAIN cells
      BY <2>1, <2>2
    <3> QED
      BY <1>2, <2>4, <3>1, <3>2, LinkedLast, Zenon
  <2>11. /\ DOMAIN sq' = DOMAIN sq /\ sq'.is_queue = sq.is_queue /\ sq'.count = sq.count + 1
         /\ sq'.top = (IF Len(c) = 0 THEN n ELSE sq.top) /\ sq'.bottom = n
    BY <1>1, <2>5, <2>8
  <2>12. Len(Append(c, n)) # 0 /\ Append(c, n)[Len(Append(c, n))] = n /\ Len(expected') = sq'.count
    BY <1>1, <1>3, <2>1, <2>2, <2>4, <2>11
  <2> QED
    BY <1>1, <2>4, <2>10, <2>11, <2>12 DEF ListInv, Listed
<1>7. CASE sq_pop
  <2>1. UNCHANGED <<ring, kept, buf>>
    BY <1>7 DEF sq_pop
  <2>2. CASE sq.top = no_cell
    <3>1. /\ got' = [was |-> nothing, should |-> taken(0)]
          /\ UNCHANGED <<sq, cells, expected>>
      BY <1>7, <2>2 DEF sq_pop
    <3>2. taken(0) = nothing
      BY SubSeqEmpty DEF taken, nothing
    <3>3. got'.was = got'.should
      BY <3>1, <3>2
    <3>4. Listed(c)'
      BY <1>0, <3>1 DEF Listed
    <3> QED
      BY <1>1, <2>1, <3>1, <3>3, <3>4 DEF ListInv
  <2>3. CASE sq.top # no_cell
    <3>1. /\ got' = [was |-> <<cells[sq.top].data>>, should |-> taken(1)]
          /\ sq' = IF sq.is_queue THEN queue_popped ELSE stack_popped
          /\ cells' = Without(cells, sq.top)
          /\ expected' = left(1)
      BY <1>7, <2>3, Zenon DEF sq_pop, Without
    <3>2. /\ <<cells[sq.top].data>> = SubSeq(expected, 1, 1) /\ Len(c) >= 1
          /\ cells[sq.top].next = no_cell <=> Len(c) = 1
          /\ Links(Rest(c, 2), SubSeq(expected, 1 + 1, Len(expected)),
                   Without(cells, sq.top), cells[sq.top].next)
      BY <1>2, <2>3, LinkedRest
    <3>3. Links(Rest(c, 2), expected', cells', cells[sq.top].next)
      BY <3>1, <3>2 DEF left
    <3>4. got'.was = got'.should
      BY <3>1, <3>2 DEF taken
    <3>5. /\ DOMAIN sq' = DOMAIN sq /\ sq'.is_queue = sq.is_queue
          /\ sq'.count = sq.count - 1 /\ sq'.top = cells[sq.top].next
          /\ sq.is_queue => sq'.bottom = IF cells[sq.top].next = no_cell THEN no_cell ELSE sq.bottom
      <4>1. CASE sq.is_queue
        BY <1>1, <3>1, <4>1 DEF queue_popped
      <4>2. CASE ~sq.is_queue
        BY <1>1, <3>1, <4>2 DEF stack_popped
      <4> QED
        BY <4>1, <4>2
    <3>6. PICK k \in Nat : k + 1 = Len(c)
      BY <1>3, <3>2
    <3>7. Len(Rest(c, 2)) = k /\ (k # 0 => Rest(c, 2)[k] = c[k + 1])
      <4>1. \A i \in 1 + 1 .. 1 + k : c[i] \in 1 .. MaxHeld
        <5>1. \A i \in 1 .. Len(c) : c[i] \in 1 .. MaxHeld
          BY <1>3, InSeq, Zenon
        <5> QED
          BY <3>6, <5>1
      <4>2. Rest(c, 2) = SubSeq(c, 1 + 1, 1 + k)
        BY <3>6 DEF Rest
      <4>3. Window(Rest(c, 2), c, 1, k)
        BY <4>1, <4>2, WindowIs
      <4>4. k # 0 => k \in 1 .. k /\ 1 + k = k + 1
        OBVIOUS
      <4> QED
        BY <4>3, <4>4 DEF Window
    <3>8. Len(expected') = sq'.count
      <4>1. Len(expected') = Len(Rest(c, 2))
        BY <3>3 DEF Links
      <4>2. Len(Rest(c, 2)) = k
        BY <3>7
      <4> QED
        BY <1>1, <1>3, <3>5, <3>6, <4>1, <4>2
    <3>9. sq'.is_queue => sq'.bottom = IF Len(Rest(c, 2)) = 0 THEN no_cell ELSE Rest(c, 2)[Len(Rest(c, 2))]
      <4>1. PICK r : r = Rest(c, 2)
        OBVIOUS
      <4>2. Len(r) = k /\ (k # 0 => r[k] = c[k + 1])
        BY <3>7, <4>1
      <4>3. cells[sq.top].next = no_cell <=> k = 0
        BY <3>2, <3>6
      <4>4. sq.is_queue => sq.bottom = c[k + 1]
        BY <1>2, <3>6
      <4> QED
        BY <3>5, <4>1, <4>2, <4>3, <4>4
    <3>10. Links(Rest(c, 2), expected', cells', sq'.top)
      BY <3>3, <3>5
    <3> QED
      BY <1>1, <2>1, <3>4, <3>5, <3>8, <3>9, <3>10 DEF ListInv, Listed
  <2> QED
    BY <2>2, <2>3
<1>8. CASE clib_stack_or_queue_cleanup
  <2>1. /\ sq' = empty_sq(sq.is_queue) /\ cells' = [m \in DOMAIN cells \ ToSet(chain) |-> cells[m]]
        /\ expected' = <<>> /\ got' = [was |-> nothing, should |-> nothing]
        /\ ring' = no_ring /\ kept' = TRUE /\ buf' = no_buffer
    BY <1>1, <1>8 DEF clib_stack_or_queue_cleanup
  <2>2. DOMAIN cells \ ToSet(chain) = {}
    <3>1. chain = c
      BY <1>2, ChainIs
    <3>2. DOMAIN cells = ToSet(c)
      BY <1>2 DEF Links
    <3> QED
      BY <3>1, <3>2, Zenon
  <2>3. cells' = <<>>
    BY <2>1, <2>2
  <2>4. Links(<<>>, expected', cells', sq'.top)
    BY <2>1, <2>3, NoLinks DEF empty_sq
  <2>5. /\ DOMAIN sq' = {"is_queue", "top", "bottom", "count"}
        /\ sq'.is_queue \in BOOLEAN /\ sq'.bottom = no_cell /\ sq'.count = 0
    BY <1>1, <2>1 DEF empty_sq
  <2>6. Len(<<>>) = 0 /\ Len(expected') = 0
    BY <2>1
  <2> QED
    BY <2>1, <2>4, <2>5, <2>6 DEF ListInv, Listed
<1>9. CASE UNCHANGED containerVars
  BY <1>9 DEF containerVars, ListInv, Listed
<1> QED
  BY <1>4, <1>5, <1>6, <1>7, <1>8, <1>9 DEF ListNext

-----------------------------------------------------------------------------
(* The theorems of the containers *)

\* A list not in use.
LEMMA NoList ==
    ASSUME sq = empty_sq(TRUE), cells = <<>>
    PROVE  /\ chain = <<>> /\ sq.count = 0 /\ sq.bottom = no_cell
           /\ [i \in DOMAIN chain |-> cells[chain[i]].data] = <<>> /\ DOMAIN cells = ToSet(chain)
<1>1. Links(<<>>, <<>>, cells, sq.top)
  BY NoLinks DEF empty_sq
<1>2. chain = <<>>
  BY <1>1, ChainIs
<1>3. DOMAIN cells = ToSet(<<>>)
  BY <1>1 DEF Links
<1> QED
  BY <1>2, <1>3 DEF empty_sq

\* What is linked from the top of a list is what it should hold, cell by cell,
\* with no cell besides; a pop returns the oldest item of a queue, the newest of
\* a stack.  A queue is one again after it was emptied.
THEOREM ListKeepsOrder == ListSpec => []ContainersKeepOrder
<1>1. ContainersInit => ListInv
  <2>1. SUFFICES ASSUME ContainersInit PROVE ListInv
    OBVIOUS
  <2>2. /\ sq = empty_sq(TRUE) /\ cells = <<>> /\ expected = <<>> /\ ring = no_ring /\ kept = TRUE
        /\ buf = no_buffer /\ got.was = got.should /\ TRUE \in BOOLEAN
    BY <2>1 DEF ContainersInit
  <2> QED
    BY <2>2, ListStart, Zenon
<1>2. ListInv => ContainersKeepOrder
  <2>1. SUFFICES ASSUME ListInv PROVE ContainersKeepOrder
    OBVIOUS
  <2>2. buf.size = 0 /\ ring.max_size = 0 /\ got.was = got.should /\ sq.count = Len(expected)
    BY <2>1 DEF ListInv, no_buffer, no_ring
  <2>3. PICK c : Listed(c)
    BY <2>1 DEF ListInv
  <2>4. chain = c
    BY <2>3, ChainIs DEF Listed
  <2>5. /\ c \in Seq(1 .. MaxHeld) /\ expected \in Seq(Items) /\ Len(c) = Len(expected)
        /\ \A i \in 1 .. Len(c) : cells[c[i]].data = expected[i]
        /\ DOMAIN cells = ToSet(c)
    BY <2>3 DEF Listed, Links
  <2>6. expected = [i \in DOMAIN chain |-> cells[chain[i]].data]
    <3>1. expected = [i \in 1 .. Len(expected) |-> expected[i]] /\ DOMAIN c = 1 .. Len(c)
      BY <2>5
    <3>2. expected = [i \in 1 .. Len(c) |-> cells[c[i]].data]
      BY <2>5, <3>1
    <3> QED
      BY <2>4, <3>1, <3>2, Zenon
  <2>7. sq.is_queue => sq.bottom = IF chain = <<>> THEN no_cell ELSE Last(chain)
    <3>1. sq.is_queue => sq.bottom = IF Len(c) = 0 THEN no_cell ELSE c[Len(c)]
      BY <2>3 DEF Listed
    <3>2. Len(c) = 0 <=> c = <<>>
      BY <2>5, EmptySeq
    <3> QED
      BY <2>4, <3>1, <3>2 DEF Last
  <2> QED
    BY <2>2, <2>4, <2>5, <2>6, <2>7 DEF ContainersKeepOrder, QueuesAreFifo, BufferKeepsBytes
<1> QED
  BY <1>1, <1>2, ListStep, PTL DEF ListSpec

\* The ring read from start_pos, across its end, is what was entered and has not
\* left, through every growth that finds it at the first slot.
THEOREM RingKeepsOrder == RingSpec => []ContainersKeepOrder
<1>1. ContainersInit => RingInv
  BY DEF ContainersInit, RingInv, RingOK, RingHolds, no_ring
<1>2. RingInv => ContainersKeepOrder
  <2>1. SUFFICES ASSUME RingInv PROVE ContainersKeepOrder
    OBVIOUS
  <2>2. /\ sq = empty_sq(TRUE) /\ cells = <<>> /\ buf = no_buffer /\ kept \in BOOLEAN /\ RingOK(ring)
        /\ kept => RingHolds(ring, expected) /\ got.was = got.should
        /\ ~kept => ring.max_size > 0
    BY <2>1 DEF RingInv
  <2>3. buf.size = 0
    BY <2>2 DEF no_buffer
  <2>4. ring.max_size = 0 => expected = <<>>
    BY <2>2 DEF RingHolds, RingOK
  <2>5. kept => expected = ring_items
    <3>1. SUFFICES ASSUME kept PROVE expected = ring_items
      OBVIOUS
    <3>2. /\ expected \in Seq(Items) /\ Len(expected) = ring.length
          /\ \A i \in 1 .. ring.length : expected[i] = ring.nodes[(ring.start_pos + i - 1) % ring.max_size]
      BY <2>2, <3>1 DEF RingHolds, Slot
    <3>3. expected = [i \in 1 .. ring.length |-> expected[i]]
      BY <3>2
    <3> QED
      BY <3>2, <3>3, Zenon DEF ring_items
  <2>6. /\ chain = <<>> /\ sq.count = 0 /\ sq.bottom = no_cell
        /\ [i \in DOMAIN chain |-> cells[chain[i]].data] = <<>> /\ DOMAIN cells = ToSet(chain)
    BY <2>2, NoList, Zenon
  <2>7. Len(<<>>) = 0 /\ (kept => got.was = got.should) /\ sq.count = 0
    BY <2>2, <2>6
  <2>8. QueuesAreFifo
    BY <2>3, <2>4, <2>5, <2>6, <2>7, Zenon DEF QueuesAreFifo
  <2>9. BufferKeepsBytes
    BY <2>3 DEF BufferKeepsBytes
  <2> QED
    BY <2>8, <2>9 DEF ContainersKeepOrder
<1> QED
  BY <1>1, <1>2, RingStep, PTL DEF RingSpec

\* The bytes between start_pos and start_pos + length are those pushed and not
\* yet popped, whatever is popped in part and however the allocation grows.
THEOREM BufferKeepsOrder == BufferSpec => []ContainersKeepOrder
<1>1. ContainersInit => BufferInv
  BY DEF ContainersInit, BufferInv, Holds, Window, no_buffer
<1>2. BufferInv => ContainersKeepOrder
  <2>1. SUFFICES ASSUME BufferInv PROVE ContainersKeepOrder
    OBVIOUS
  <2>2. /\ sq = empty_sq(TRUE) /\ cells = <<>> /\ ring = no_ring
        /\ Holds(buf, expected) /\ got.was = got.should
    BY <2>1 DEF BufferInv
  <2>3. /\ buf.data \in Seq(Stored) /\ Len(buf.data) = buf.size
        /\ buf.start_pos \in Nat /\ buf.length \in Nat /\ buf.start_pos + buf.length <= buf.size
        /\ expected \in Seq(Stored) /\ Window(expected, buf.data, buf.start_pos, buf.length)
    BY <2>2 DEF Holds
  <2>4. auto_buffer_get_data = expected
    <3>1. \A i \in buf.start_pos + 1 .. buf.start_pos + buf.length : buf.data[i] \in Stored
      <4>1. \A i \in 1 .. Len(buf.data) : buf.data[i] \in Stored
        BY <2>3, InSeq, Zenon
      <4> QED
        BY <2>3, <4>1
    <3>2. /\ auto_buffer_get_data \in Seq(Stored)
          /\ Window(auto_buffer_get_data, buf.data, buf.start_pos, buf.length)
      BY <2>3, <3>1, WindowIs DEF auto_buffer_get_data
    <3> QED
      BY <2>3, <3>2, WindowsAgree, Zenon
  <2>5. buf.size = 0 => expected = <<>>
    BY <2>3 DEF Window
  <2>6. ring.max_size = 0 /\ ~(ring.max_size > 0)
    BY <2>2 DEF no_ring
  <2>7. /\ chain = <<>> /\ sq.count = 0 /\ sq.bottom = no_cell
        /\ [i \in DOMAIN chain |-> cells[chain[i]].data] = <<>> /\ DOMAIN cells = ToSet(chain)
    BY <2>2, NoList, Zenon
  <2> QED
    BY <2>2, <2>3, <2>4, <2>5, <2>6, <2>7 DEF ContainersKeepOrder, QueuesAreFifo, BufferKeepsBytes
<1> QED
  BY <1>1, <1>2, BufferStep, PTL DEF BufferSpec

-----------------------------------------------------------------------------
(* Compact integers *)


CompactInv == target \in Uint256 /\ total = uint256_to_compact(target)
-----------------------------------------------------------------------------
(* Max *)

\* A nonempty set of naturals below a bound has a greatest one.
LEMMA GreatestExists ==
    ASSUME NEW n \in Nat, NEW S \in SUBSET (0 .. n), S # {}
    PROVE  \E x \in S : \A y \in S : x >= y
<1> DEFINE T == {m \in Nat : \A R \in SUBSET (0 .. m) : R # {} => \E x \in R : \A y \in R : x >= y}
<1>1. 0 \in T
  <2>1. ASSUME NEW R \in SUBSET (0 .. 0), NEW r \in R
        PROVE  \A y \in R : r >= y
    OBVIOUS
  <2> QED
    BY <2>1
<1>2. ASSUME NEW m \in T PROVE m + 1 \in T
  <2>1. SUFFICES ASSUME NEW R \in SUBSET (0 .. m + 1), R # {}
                 PROVE  \E x \in R : \A y \in R : x >= y
    OBVIOUS
  <2>2. CASE m + 1 \in R
    BY <2>2
  <2>3. CASE m + 1 \notin R
    <3>1. R \in SUBSET (0 .. m)
      BY <2>3
    <3> QED
      BY <2>1, <3>1
  <2> QED
    BY <2>2, <2>3
<1> HIDE DEF T
<1>3. T = Nat
  BY <1>1, <1>2, SetInduction DEF T
<1> QED
  BY <1>3 DEF T

LEMMA MaxIs ==
    ASSUME NEW n \in Nat, NEW S \in SUBSET (0 .. n), S # {}
    PROVE  Max(S) \in S /\ \A y \in S : Max(S) >= y
BY GreatestExists, Zenon DEF Max
-----------------------------------------------------------------------------
(* The length of an integer, and comparing two *)

LEMMA LengthIs ==
    ASSUME NEW t \in Uint256
    PROVE  /\ length_of(t) \in 0 .. Width
           /\ length_of(t) # 0 => t[length_of(t)] # 0
           /\ \A j \in 1 .. Width : j > length_of(t) => t[j] = 0
<1> DEFINE S == {0} \cup {j \in 1 .. Width : t[j] # 0}
<1>1. Width \in Nat /\ S \in SUBSET (0 .. Width) /\ S # {}
  BY CompactAssumption
<1>2. length_of(t) = Max(S)
  BY DEF length_of
<1>3. Max(S) \in S /\ \A y \in S : Max(S) >= y
  BY <1>1, MaxIs
<1> QED
  BY <1>1, <1>2, <1>3

\* The two facts length_of() is used through determine it.
LEMMA LengthUnique ==
    ASSUME NEW t \in Uint256, NEW n \in 0 .. Width, n # 0 => t[n] # 0,
           \A j \in 1 .. Width : j > n => t[j] = 0
    PROVE  length_of(t) = n
<1>1. Width \in Nat
  BY CompactAssumption
<1>2. /\ length_of(t) \in 0 .. Width
      /\ length_of(t) # 0 => t[length_of(t)] # 0
      /\ \A j \in 1 .. Width : j > length_of(t) => t[j] = 0
  BY LengthIs
<1> QED
  BY <1>1, <1>2

\* The highest byte that differs decides.
LEMMA CompareAt ==
    ASSUME NEW a \in Uint256, NEW b \in Uint256, NEW m \in 1 .. Width, a[m] # b[m],
           \A j \in 1 .. Width : j > m => a[j] = b[j]
    PROVE  uint256_compare(a, b) = sign(a[m] - b[m])
<1> DEFINE S == {j \in 1 .. Width : a[j] # b[j]}
<1>1. Width \in Nat /\ S \in SUBSET (0 .. Width) /\ S # {} /\ m \in S
  BY CompactAssumption
<1>2. Max(S) \in S /\ \A y \in S : Max(S) >= y
  BY <1>1, MaxIs
<1>3. Max(S) = m
  BY <1>1, <1>2
<1> QED
  BY <1>1, <1>3 DEF uint256_compare

LEMMA CompareEqual ==
    ASSUME NEW a \in Uint256, NEW b \in Uint256, \A j \in 1 .. Width : a[j] = b[j]
    PROVE  uint256_compare(a, b) = 0
BY DEF uint256_compare
-----------------------------------------------------------------------------
(* The compact form *)

Compact == [exp : 0 .. 255, mantissa : [1 .. 3 -> 0 .. 255]]

LEMMA CopiedIs ==
    ASSUME NEW e \in 0 .. Width
    PROVE  /\ copied(e) \in 0 .. e /\ copied(e) <= 3
           /\ e <= Width - 3 => copied(e) = IF e < 3 THEN e ELSE 3
BY CompactAssumption DEF copied

LEMMA ThreeBytes ==
    ASSUME NEW x \in 0 .. 255
    PROVE  <<x, x, x>> = [j \in 1 .. 3 |-> x]
OBVIOUS

\* the mantissa of exponent e and the n bytes of t that end there
mantissa_of(t, e, n) == [j \in 1 .. 3 |-> IF j <= n THEN t[e - n + j] ELSE 0]

\* the exponent: a set high bit needs one more byte
exponent(t) == IF length_of(t) > 0 /\ negative(t[length_of(t)]) THEN length_of(t) + 1 ELSE length_of(t)

LEMMA CompactIs ==
    ASSUME NEW t \in Uint256
    PROVE  uint256_to_compact(t) =
             IF length_of(t) = 0 THEN compact_zero
             ELSE IF exponent(t) > Width THEN compact_uint256_NaN
             ELSE [exp |-> exponent(t), mantissa |-> mantissa_of(t, exponent(t), copied(exponent(t)))]
<1>1. length_of(t) \in 0 .. Width /\ Width \in Nat
  BY LengthIs, CompactAssumption
<1> QED
  BY <1>1 DEF uint256_to_compact, exponent, mantissa_of

LEMMA TakenType ==
    ASSUME NEW t \in Uint256, NEW e \in 0 .. Width, NEW n \in 0 .. e, n <= 3
    PROVE  mantissa_of(t, e, n) \in [1 .. 3 -> 0 .. 255]
<1>1. \A k \in 1 .. Width : t[k] \in 0 .. 255
  BY DEF Uint256
<1>2. ASSUME NEW j \in 1 .. 3 PROVE (IF j <= n THEN t[e - n + j] ELSE 0) \in 0 .. 255
  <2>1. j <= n => e - n + j \in 1 .. Width
    BY CompactAssumption
  <2> QED
    BY <1>1, <2>1
<1> QED
  BY <1>2 DEF mantissa_of

LEMMA CompactType ==
    ASSUME NEW t \in Uint256
    PROVE  uint256_to_compact(t) \in Compact
<1>1. length_of(t) \in 0 .. Width /\ Width \in 1 .. 254
  BY LengthIs, CompactAssumption
<1>2. compact_zero \in Compact /\ compact_uint256_NaN \in Compact
  BY ThreeBytes DEF compact_zero, compact_uint256_NaN, Compact
<1>3. ASSUME length_of(t) # 0, ~(exponent(t) > Width)
      PROVE  [exp |-> exponent(t), mantissa |-> mantissa_of(t, exponent(t), copied(exponent(t)))] \in Compact
  <2>1. exponent(t) \in 0 .. Width
    BY <1>1, <1>3 DEF exponent
  <2>2. mantissa_of(t, exponent(t), copied(exponent(t))) \in [1 .. 3 -> 0 .. 255]
    BY <2>1, CopiedIs, TakenType
  <2> QED
    BY <1>1, <2>1, <2>2 DEF Compact
<1> QED
  BY <1>2, <1>3, CompactIs

LEMMA BackType ==
    ASSUME NEW c \in Compact
    PROVE  compact_to_uint256(c) \in Uint256
<1> DEFINE n == IF c.exp < 3 THEN c.exp ELSE 3
<1>1. Width \in Nat /\ c.exp \in 0 .. 255
  BY CompactAssumption DEF Compact
<1>2. ASSUME NEW j \in 1 .. Width, j \in c.exp - n + 1 .. c.exp
      PROVE  c.mantissa[j - c.exp + n] \in 0 .. 255
  <2>1. j - c.exp + n \in 1 .. 3
    BY <1>1, <1>2
  <2> QED
    BY <2>1 DEF Compact
<1> QED
  BY <1>1, <1>2 DEF compact_to_uint256, Uint256, uint256_NaN

\* A representable form: the exponent and the mantissa that is taken, zero included.
LEMMA RepresentableIs ==
    ASSUME NEW t \in Uint256, Representable(uint256_to_compact(t))
    PROVE  /\ exponent(t) \in 0 .. Width - 3
           /\ uint256_to_compact(t).exp = exponent(t)
           /\ uint256_to_compact(t).mantissa
                = mantissa_of(t, exponent(t), IF exponent(t) < 3 THEN exponent(t) ELSE 3)
<1>1. length_of(t) \in 0 .. Width /\ Width \in 1 .. 254
  BY LengthIs, CompactAssumption
<1>2. CASE length_of(t) = 0
  <2>1. exponent(t) = 0 /\ uint256_to_compact(t) = compact_zero
    BY <1>2, CompactIs DEF exponent
  <2>2. mantissa_of(t, 0, 0) = [j \in 1 .. 3 |-> 0]
    BY DEF mantissa_of
  <2> QED
    BY <1>1, <2>1, <2>2, ThreeBytes DEF compact_zero, Representable
<1>3. CASE length_of(t) # 0
  <2>1. exponent(t) \in 0 .. Width + 1
    BY <1>1 DEF exponent
  <2>2. ~(exponent(t) > Width)
    BY <1>1, <1>3, CompactIs DEF compact_uint256_NaN, Representable
  <2>3. uint256_to_compact(t)
          = [exp |-> exponent(t), mantissa |-> mantissa_of(t, exponent(t), copied(exponent(t)))]
    BY <1>3, <2>2, CompactIs
  <2>4. exponent(t) <= Width - 3
    BY <2>3 DEF Representable
  <2>5. copied(exponent(t)) = IF exponent(t) < 3 THEN exponent(t) ELSE 3
    BY <1>1, <2>1, <2>4, CopiedIs
  <2> QED
    BY <1>1, <2>1, <2>3, <2>4, <2>5
<1> QED
  BY <1>2, <1>3

\* What comes back: the bytes above the three that end at the exponent are zero.
LEMMA BackIs ==
    ASSUME NEW t \in Uint256, Representable(uint256_to_compact(t))
    PROVE  compact_to_uint256(uint256_to_compact(t))
             = [j \in 1 .. Width |-> IF j > exponent(t) - 3 THEN t[j] ELSE 0]
<1> DEFINE c == uint256_to_compact(t)
           e == exponent(t)
           n == IF e < 3 THEN e ELSE 3
<1>1. /\ Width \in 1 .. 254 /\ e \in 0 .. Width - 3 /\ c.exp = e /\ c.mantissa = mantissa_of(t, e, n)
  BY CompactAssumption, RepresentableIs
<1>2. compact_to_uint256(c)
        = [j \in 1 .. Width |-> IF j \in e - n + 1 .. e THEN mantissa_of(t, e, n)[j - e + n] ELSE 0]
  BY <1>1 DEF compact_to_uint256
<1>3. ASSUME NEW j \in 1 .. Width
      PROVE  (IF j \in e - n + 1 .. e THEN mantissa_of(t, e, n)[j - e + n] ELSE 0)
               = IF j > e - 3 THEN t[j] ELSE 0
  <2>1. CASE j \in e - n + 1 .. e
    <3>1. j - e + n \in 1 .. 3 /\ j - e + n <= n /\ e - n + (j - e + n) = j /\ j > e - 3
      BY <1>1, <2>1
    <3> QED
      BY <2>1, <3>1 DEF mantissa_of
  <2>2. CASE j \notin e - n + 1 .. e
    <3>1. CASE j > e
      <4>1. length_of(t) \in 0 .. Width /\ j > length_of(t)
        BY <1>1, <3>1, LengthIs DEF exponent
      <4>2. t[j] = 0
        BY <4>1, LengthIs
      <4> QED
        BY <2>2, <4>2
    <3>2. CASE ~(j > e)
      BY <1>1, <2>2, <3>2
    <3> QED
      BY <3>1, <3>2
  <2> QED
    BY <2>1, <2>2
<1> QED
  BY <1>2, <1>3

\* What comes back is an integer of the same length with the same highest byte.
LEMMA BackLength ==
    ASSUME NEW t \in Uint256, Representable(uint256_to_compact(t))
    PROVE  LET back == compact_to_uint256(uint256_to_compact(t))
           IN  back \in Uint256 /\ length_of(back) = length_of(t) /\ exponent(back) = exponent(t)
<1> DEFINE back == compact_to_uint256(uint256_to_compact(t))
           top == length_of(t)
<1>1. Width \in 1 .. 254 /\ top \in 0 .. Width /\ exponent(t) \in 0 .. Width - 3
  BY CompactAssumption, LengthIs, RepresentableIs
<1>2. back \in Uint256
  BY CompactType, BackType
<1>3. \A j \in 1 .. Width : back[j] = IF j > exponent(t) - 3 THEN t[j] ELSE 0
  BY BackIs
<1>4. top # 0 => back[top] = t[top] /\ t[top] # 0
  BY <1>1, <1>3, LengthIs DEF exponent
<1>5. \A j \in 1 .. Width : j > top => back[j] = 0
  BY <1>3, LengthIs
<1>6. length_of(back) = top
  <2> HIDE DEF back, top
  <2> QED
    BY <1>1, <1>2, <1>4, <1>5, LengthUnique
<1> QED
  BY <1>1, <1>2, <1>4, <1>6 DEF exponent

\* A converted value converts to itself.
LEMMA BackAgain ==
    ASSUME NEW t \in Uint256, Representable(uint256_to_compact(t))
    PROVE  uint256_to_compact(compact_to_uint256(uint256_to_compact(t))) = uint256_to_compact(t)
<1> DEFINE back == compact_to_uint256(uint256_to_compact(t))
           e == exponent(t)
           n == IF e < 3 THEN e ELSE 3
<1>1. /\ back \in Uint256 /\ length_of(back) = length_of(t) /\ exponent(back) = e
      /\ Width \in 1 .. 254 /\ e \in 0 .. Width - 3 /\ copied(e) = n
  BY BackLength, CompactAssumption, RepresentableIs, CopiedIs
<1>2. \A j \in 1 .. Width : back[j] = IF j > e - 3 THEN t[j] ELSE 0
  BY BackIs
<1>3. mantissa_of(back, e, n) = mantissa_of(t, e, n)
  <2>1. ASSUME NEW j \in 1 .. 3
        PROVE  (IF j <= n THEN back[e - n + j] ELSE 0) = IF j <= n THEN t[e - n + j] ELSE 0
    <3>1. j <= n => e - n + j \in 1 .. Width /\ e - n + j > e - 3
      BY <1>1
    <3> QED
      BY <1>2, <3>1
  <2> QED
    BY <2>1 DEF mantissa_of
<1>4. /\ uint256_to_compact(back) =
             IF length_of(t) = 0 THEN compact_zero
             ELSE IF e > Width THEN compact_uint256_NaN
             ELSE [exp |-> e, mantissa |-> mantissa_of(back, e, n)]
      /\ uint256_to_compact(t) =
             IF length_of(t) = 0 THEN compact_zero
             ELSE IF e > Width THEN compact_uint256_NaN
             ELSE [exp |-> e, mantissa |-> mantissa_of(t, e, n)]
  <2> HIDE DEF back
  <2> QED
    BY <1>1, CompactIs
<1> QED
  BY <1>3, <1>4

\* The value that comes back is not above the integer.
LEMMA BackBelow ==
    ASSUME NEW t \in Uint256, Representable(uint256_to_compact(t))
    PROVE  uint256_compare(t, compact_to_uint256(uint256_to_compact(t))) >= 0
<1> DEFINE back == compact_to_uint256(uint256_to_compact(t))
           S == {j \in 1 .. Width : t[j] # back[j]}
<1>1. Width \in Nat /\ S \in SUBSET (0 .. Width)
  BY CompactAssumption
<1>2. ASSUME NEW j \in S PROVE t[j] \in 1 .. 255 /\ back[j] = 0
  <2>1. j \in 1 .. Width /\ t[j] # back[j] /\ t[j] \in 0 .. 255
    BY <1>2 DEF Uint256
  <2>2. back[j] = IF j > exponent(t) - 3 THEN t[j] ELSE 0
    BY <2>1, BackIs
  <2> QED
    BY <2>1, <2>2
<1>3. uint256_compare(t, back) = IF S = {} THEN 0 ELSE sign(t[Max(S)] - back[Max(S)])
  BY DEF uint256_compare
<1> HIDE DEF S, back
<1>4. CASE S = {}
  BY <1>3, <1>4 DEF back
<1>5. CASE S # {}
  <2>1. Max(S) \in S
    BY <1>1, <1>5, MaxIs
  <2>2. t[Max(S)] \in 1 .. 255 /\ back[Max(S)] = 0
    BY <1>2, <2>1
  <2>3. sign(t[Max(S)] - back[Max(S)]) = 1
    BY <2>2 DEF sign
  <2> QED
    BY <1>3, <1>5, <2>3 DEF back
<1> QED
  BY <1>4, <1>5
-----------------------------------------------------------------------------
(* The sum *)

\* the carry out of a byte
Over(x, y, z) == (x + y + z) \div 256

LEMMA OverIs ==
    ASSUME NEW x \in 0 .. 255, NEW y \in 0 .. 255, NEW z \in 0 .. 1
    PROVE  Over(x, y, z) \in 0 .. 1 /\ (x + y + z) % 256 \in 0 .. 255
<1>1. PICK s \in Nat : s = x + y + z
  OBVIOUS
<1>2. s <= 511
  BY <1>1
<1>3. s \div 256 \in 0 .. 1 /\ s % 256 \in 0 .. 255
  BY <1>2
<1> QED
  BY <1>1, <1>3 DEF Over

\* f holds the carries into the first n bytes.
Carries(f, a, b, n) ==
    f = [j \in 1 .. n |-> IF j = 1 THEN 0 ELSE Over(a[j - 1], b[j - 1], f[j - 1])]

LEMMA CarriesExist ==
    ASSUME NEW a, NEW b, NEW n \in Nat
    PROVE  \E f : Carries(f, a, b, n)
<1> DEFINE T == {m \in Nat : \E f : Carries(f, a, b, m)}
<1>1. 0 \in T
  <2> DEFINE f == [i \in 1 .. 0 |-> 0]
  <2>1. Carries(f, a, b, 0)
    BY DEF Carries
  <2> QED
    BY <2>1
<1>2. ASSUME NEW m \in T PROVE m + 1 \in T
  <2>1. PICK f : Carries(f, a, b, m)
    BY <1>2
  <2>2. m \in Nat
    BY <1>2
  <2> DEFINE next(h, j) == IF j = 1 THEN 0 ELSE Over(a[j - 1], b[j - 1], h[j - 1])
             g == [j \in 1 .. m + 1 |-> IF j = m + 1 THEN next(f, j) ELSE f[j]]
  <2>3. ASSUME NEW j \in 1 .. m + 1 PROVE g[j] = next(g, j)
    <3>1. j # 1 => j - 1 \in 1 .. m /\ g[j - 1] = f[j - 1]
      BY <2>2
    <3>2. next(g, j) = next(f, j)
      BY <3>1
    <3>3. j # m + 1 => j \in 1 .. m /\ f[j] = next(f, j)
      BY <2>1, <2>2 DEF Carries
    <3> HIDE DEF next
    <3> QED
      BY <3>2, <3>3
  <2>4. g = [j \in 1 .. m + 1 |-> g[j]]
    OBVIOUS
  <2> HIDE DEF g
  <2>5. Carries(g, a, b, m + 1)
    BY <2>3, <2>4 DEF Carries
  <2> QED
    BY <2>2, <2>5
<1> HIDE DEF T
<1>3. T = Nat
  BY <1>1, <1>2, SetInduction DEF T
<1> QED
  BY <1>3 DEF T

LEMMA CarriesAre ==
    ASSUME NEW a \in Uint256, NEW b \in Uint256
    PROVE  \A j \in 1 .. Width : carries(a, b)[j] \in 0 .. 1
<1> DEFINE f == carries(a, b)
           T == {k \in Nat : k \in 1 .. Width => f[k] \in 0 .. 1}
<1>1. Width \in Nat /\ Width + 1 \in Nat
  BY CompactAssumption
<1>2. Carries(f, a, b, Width + 1)
  <2>1. \E g : Carries(g, a, b, Width + 1)
    BY <1>1, CarriesExist
  <2>2. f = CHOOSE g : Carries(g, a, b, Width + 1)
    BY Zenon DEF Carries, carries, Over
  <2> QED
    BY <2>1, <2>2, Zenon
<1> HIDE DEF f
<1>3. 0 \in T
  OBVIOUS
<1>4. ASSUME NEW k \in T PROVE k + 1 \in T
  <2>1. SUFFICES ASSUME k + 1 \in 1 .. Width PROVE f[k + 1] \in 0 .. 1
    OBVIOUS
  <2>2. k \in Nat /\ (k \in 1 .. Width => f[k] \in 0 .. 1)
    OBVIOUS
  <2> HIDE DEF T
  <2>3. f[k + 1] = IF k + 1 = 1 THEN 0 ELSE Over(a[(k + 1) - 1], b[(k + 1) - 1], f[(k + 1) - 1])
    <3>1. k + 1 \in 1 .. Width + 1
      BY <1>1, <2>1, <2>2
    <3> QED
      BY <1>2, <3>1 DEF Carries
  <2>4. CASE k = 0
    BY <2>3, <2>4
  <2>5. CASE k # 0
    <3>1. k \in 1 .. Width /\ (k + 1) - 1 = k /\ k + 1 # 1
      BY <1>1, <2>1, <2>2, <2>5
    <3>2. a[k] \in 0 .. 255 /\ b[k] \in 0 .. 255 /\ f[k] \in 0 .. 1
      BY <2>2, <3>1 DEF Uint256
    <3>3. f[k + 1] = Over(a[k], b[k], f[k])
      BY <2>3, <3>1
    <3>4. Over(a[k], b[k], f[k]) \in 0 .. 1
      BY <3>2, OverIs
    <3> QED
      BY <3>3, <3>4
  <2> QED
    BY <2>4, <2>5
<1> HIDE DEF T
<1>5. T = Nat
  BY <1>3, <1>4, SetInduction DEF T
<1> QED
  BY <1>1, <1>5 DEF T, f

LEMMA SumType ==
    ASSUME NEW a \in Uint256, NEW b \in Uint256
    PROVE  uint256_add(a, b).sum \in Uint256
<1> DEFINE f == carries(a, b)
<1>1. uint256_add(a, b).sum = [j \in 1 .. Width |-> (a[j] + b[j] + f[j]) % 256]
  BY DEF uint256_add
<1>2. ASSUME NEW j \in 1 .. Width PROVE (a[j] + b[j] + f[j]) % 256 \in 0 .. 255
  <2>1. a[j] \in 0 .. 255 /\ b[j] \in 0 .. 255 /\ f[j] \in 0 .. 1
    BY CarriesAre DEF Uint256
  <2> QED
    BY <2>1, OverIs
<1>3. [j \in 1 .. Width |-> (a[j] + b[j] + f[j]) % 256] \in Uint256
  BY <1>2, Zenon DEF Uint256
<1> QED
  BY <1>1, <1>3, Zenon
-----------------------------------------------------------------------------
(* The invariant, and CompactKeepsTarget *)

LEMMA Invariance == CompactSpec => []CompactInv
<1>1. CompactInit => CompactInv
  BY CompactAssumption DEF CompactInit, CompactInv
<1>2. ASSUME CompactInv, [CompactNext]_compactVars PROVE CompactInv'
  <2>1. CASE UNCHANGED compactVars
    BY <1>2, <2>1 DEF CompactInv, compactVars
  <2>2. CASE CompactNext
    <3>1. PICK a \in Addends : compact_uint256_add(uint256_to_compact(a))
      BY <2>2 DEF CompactNext
    <3> DEFINE x == compact_to_uint256(total)
               y == compact_to_uint256(uint256_to_compact(a))
    <3>2. x \in Uint256 /\ y \in Uint256
      BY <1>2, CompactType, BackType, CompactAssumption DEF CompactInv
    <3>3. target' = uint256_add(x, y).sum /\ total' = uint256_to_compact(target')
      BY <3>1 DEF compact_uint256_add
    <3> QED
      BY <3>2, <3>3, SumType DEF CompactInv
  <2> QED
    BY <1>2, <2>1, <2>2
<1> QED
  BY <1>1, <1>2, PTL DEF CompactSpec

\* uint256_to_compact() and back keeps the bytes that end at the exponent, for
\* integers of every width and every sum of them (compact_int.c:40-95).
THEOREM TargetKept == CompactSpec => []CompactKeepsTarget
<1>1. ASSUME CompactInv PROVE CompactKeepsTarget
  <2>1. SUFFICES ASSUME Representable(total)
                 PROVE  LET back == compact_to_uint256(total)
                        IN  /\ back = [j \in 1 .. Width |-> IF j > total.exp - 3 THEN target[j] ELSE 0]
                            /\ uint256_to_compact(back) = total
                            /\ uint256_compare_with_compact(target, total) >= 0
    BY DEF CompactKeepsTarget
  <2>2. target \in Uint256 /\ total = uint256_to_compact(target)
    BY <1>1 DEF CompactInv
  <2>3. total.exp = exponent(target)
    BY <2>1, <2>2, RepresentableIs
  <2> QED
    BY <2>1, <2>2, <2>3, BackIs, BackAgain, BackBelow DEF uint256_compare_with_compact
<1> QED
  BY <1>1, Invariance, PTL
-----------------------------------------------------------------------------
(* CompactOrder *)

\* What compact_uint256_compare() compares, for an integer of one, two or p
\* bytes: the length and the three highest bytes.  The zero borrowed by one byte
\* is not dropped, and two bytes with a set high bit are shifted further.
One(a, x, y) ==
    /\ a[1] < 128 => x = 1 /\ y = a[1]
    /\ a[1] >= 128 => x = 2 /\ y = a[1]
Two(a, x, y) ==
    /\ x = 2
    /\ a[2] < 128 => y = a[1] + 256 * a[2]
    /\ a[2] >= 128 => y = 256 * a[1] + 65536 * a[2]
More(a, p, x, y) == x = p /\ y = a[p - 2] + 256 * a[p - 1] + 65536 * a[p]

Normal(a, p, x, y) ==
    /\ p = 0 => x = 0 /\ y = 0
    /\ p = 1 => One(a, x, y)
    /\ p = 2 => Two(a, x, y)
    /\ p > 2 => More(a, p, x, y)

\* the bytes of a that are not zero
Significant(a, p) ==
    /\ p \in 0 .. Width /\ (p # 0 => a[p] # 0)
    /\ \A j \in 1 .. Width : j > p \/ j < p - 2 => a[j] = 0

LEMMA NormalParts ==
    ASSUME NEW c \in Compact
    PROVE  LET m == c.mantissa
               x == normal(c)
           IN  /\ m[3] = 0 /\ m[2] >= 128 => x[1] = c.exp - 1 /\ x[2] = 256 * m[1] + 65536 * m[2]
               /\ ~(m[3] = 0 /\ m[2] >= 128) => x[1] = c.exp /\ x[2] = m[1] + 256 * m[2] + 65536 * m[3]
<1>1. PICK e \in Int, m1 \in 0 .. 255, m2 \in 0 .. 255, m3 \in 0 .. 255 :
          c.exp = e /\ c.mantissa[1] = m1 /\ c.mantissa[2] = m2 /\ c.mantissa[3] = m3
  <2>1. c.exp \in Int /\ c.mantissa \in [1 .. 3 -> 0 .. 255]
    BY DEF Compact
  <2>2. c.mantissa[1] \in 0 .. 255 /\ c.mantissa[2] \in 0 .. 255 /\ c.mantissa[3] \in 0 .. 255
    BY <2>1
  <2> QED
    BY <2>1, <2>2
<1>2. PICK v \in Int : v = m1 + 256 * m2 + 65536 * m3
  OBVIOUS
<1>3. normal(c) = IF m3 = 0 /\ negative(m2) THEN <<e - 1, 256 * v>> ELSE <<e, v>>
  BY <1>1, <1>2 DEF normal
<1>4. CASE m3 = 0 /\ m2 >= 128
  <2>1. normal(c) = <<e - 1, 256 * v>>
    BY <1>3, <1>4 DEF negative
  <2>2. normal(c)[1] = e - 1 /\ normal(c)[2] = 256 * v
    BY <2>1
  <2>3. 256 * v = 256 * m1 + 65536 * m2
    BY <1>2, <1>4
  <2> QED
    BY <1>1, <1>4, <2>2, <2>3
<1>5. CASE ~(m3 = 0 /\ m2 >= 128)
  <2>1. normal(c) = <<e, v>>
    BY <1>3, <1>5 DEF negative
  <2>2. normal(c)[1] = e /\ normal(c)[2] = v
    BY <2>1
  <2> QED
    BY <1>1, <1>2, <1>5, <2>2
<1> QED
  BY <1>4, <1>5

LEMMA NormalIs ==
    ASSUME NEW t \in Uint256, Representable(uint256_to_compact(t))
    PROVE  LET back == compact_to_uint256(uint256_to_compact(t))
               c == uint256_to_compact(t)
           IN  /\ Significant(back, length_of(t))
               /\ Normal(back, length_of(t), normal(c)[1], normal(c)[2])
<1> DEFINE c == uint256_to_compact(t)
           a == compact_to_uint256(c)
           e == exponent(t)
           n == IF e < 3 THEN e ELSE 3
           p == length_of(t)
           m == c.mantissa
<1>1. /\ Width \in 1 .. 254 /\ p \in 0 .. Width /\ e \in 0 .. Width - 3 /\ a \in Uint256
      /\ c.exp = e /\ m = mantissa_of(t, e, n)
  BY CompactAssumption, LengthIs, RepresentableIs, BackLength
<1>2. /\ \A j \in 1 .. Width : a[j] \in 0 .. 255
      /\ \A j \in 1 .. Width : j > p => a[j] = 0
      /\ p # 0 => a[p] # 0
      /\ e = IF p > 0 /\ a[p] >= 128 THEN p + 1 ELSE p
  <2>1. a \in Uint256 /\ length_of(a) = p /\ exponent(a) = e
    BY BackLength
  <2> HIDE DEF a, p, e
  <2>2. /\ length_of(a) # 0 => a[length_of(a)] # 0
        /\ \A j \in 1 .. Width : j > length_of(a) => a[j] = 0
    BY <2>1, LengthIs
  <2> QED
    BY <2>1, <2>2 DEF exponent, negative, Uint256
<1>3. \A j \in 1 .. Width : a[j] = IF j > e - 3 THEN t[j] ELSE 0
  BY BackIs
<1>4. ASSUME NEW j \in 1 .. 3 PROVE m[j] = IF j <= n THEN a[e - n + j] ELSE 0
  <2>1. m[j] = IF j <= n THEN t[e - n + j] ELSE 0
    BY <1>1 DEF mantissa_of
  <2>2. j <= n => e - n + j \in 1 .. Width /\ e - n + j > e - 3
    BY <1>1
  <2> QED
    BY <1>3, <2>1, <2>2
<1>5. /\ m[1] = IF 1 <= n THEN a[e - n + 1] ELSE 0
      /\ m[2] = IF 2 <= n THEN a[e - n + 2] ELSE 0
      /\ m[3] = IF 3 <= n THEN a[e - n + 3] ELSE 0
  BY <1>4
<1>6. \A j \in 1 .. Width : j < e - 2 => a[j] = 0
  BY <1>1, <1>3
<1>7. Significant(a, p)
  <2>1. e >= p
    BY <1>1, <1>2
  <2> HIDE DEF a, e, p
  <2> QED
    BY <1>1, <1>2, <1>6, <2>1 DEF Significant
<1> DEFINE x1 == normal(c)[1]
           x2 == normal(c)[2]
<1>8. /\ m[3] = 0 /\ m[2] >= 128 => x1 = e - 1 /\ x2 = 256 * m[1] + 65536 * m[2]
      /\ ~(m[3] = 0 /\ m[2] >= 128) => x1 = e /\ x2 = m[1] + 256 * m[2] + 65536 * m[3]
  BY <1>1, CompactType, NormalParts
<1> HIDE DEF a, c, e, p, m, x1, x2
<1>9. ASSUME p = 0 PROVE Normal(a, p, x1, x2)
  <2>1. e = 0 /\ m[1] = 0 /\ m[2] = 0 /\ m[3] = 0
    BY <1>2, <1>5, <1>9
  <2>2. x1 = 0 /\ x2 = 0
    BY <1>8, <2>1
  <2> QED
    BY <1>9, <2>2 DEF Normal
<1>10. ASSUME p = 1 PROVE Normal(a, p, x1, x2)
  <2>1. a[1] \in 0 .. 255 /\ a[1] # 0 /\ a[2] = 0
    BY <1>1, <1>2, <1>10
  <2>2. /\ a[1] < 128 => e = 1
        /\ a[1] >= 128 => e = 2
        /\ m[1] = a[1] /\ m[2] = 0 /\ m[3] = 0
    BY <1>1, <1>2, <1>5, <1>10, <2>1
  <2>3. x1 = e /\ x2 = a[1]
    BY <1>8, <2>1, <2>2
  <2>4. One(a, x1, x2)
    BY <2>1, <2>2, <2>3 DEF One
  <2> QED
    BY <1>10, <2>4 DEF Normal
<1>11. ASSUME p = 2 PROVE Normal(a, p, x1, x2)
  <2>1. /\ a[1] \in 0 .. 255 /\ a[2] \in 0 .. 255 /\ a[2] # 0
        /\ a[2] >= 128 => e = 3 /\ a[3] = 0
        /\ a[2] < 128 => e = 2
    BY <1>1, <1>2, <1>11
  <2>2. m[1] = a[1] /\ m[2] = a[2] /\ m[3] = 0
    BY <1>1, <1>5, <2>1
  <2>3. PICK q1 \in 0 .. 255, q2 \in 0 .. 255 : a[1] = q1 /\ a[2] = q2
    BY <2>1
  <2>4. /\ q2 >= 128 => x1 = e - 1 /\ x2 = 256 * q1 + 65536 * q2
        /\ q2 < 128 => x1 = e /\ x2 = q1 + 256 * q2
    <3>1. m[1] = q1 /\ m[2] = q2 /\ m[3] = 0
      BY <2>2, <2>3
    <3>2. CASE q2 >= 128
      BY <1>8, <3>1, <3>2
    <3>3. CASE q2 < 128
      <4>1. ~(m[3] = 0 /\ m[2] >= 128)
        BY <3>1, <3>3
      <4>2. x1 = e /\ x2 = m[1] + 256 * m[2] + 65536 * m[3]
        BY <1>8, <4>1
      <4>3. x2 = q1 + 256 * q2
        BY <3>1, <4>2
      <4> QED
        BY <3>3, <4>2, <4>3
    <3> QED
      BY <3>2, <3>3
  <2>5. Two(a, x1, x2)
    BY <2>1, <2>3, <2>4 DEF Two
  <2> QED
    BY <1>11, <2>5 DEF Normal
<1>12. ASSUME p > 2 PROVE Normal(a, p, x1, x2)
  <2>1. /\ a[p - 2] \in 0 .. 255 /\ a[p - 1] \in 0 .. 255 /\ a[p] \in 0 .. 255 /\ a[p] # 0
        /\ p - 2 \in 1 .. Width
    BY <1>1, <1>2, <1>12
  <2>2. PICK q1 \in 0 .. 255, q2 \in 0 .. 255, q3 \in 0 .. 255 :
            a[p - 2] = q1 /\ a[p - 1] = q2 /\ a[p] = q3 /\ q3 # 0
    BY <2>1
  <2>3. x1 = p /\ x2 = q1 + 256 * q2 + 65536 * q3
    <3>1. CASE q3 >= 128
      <4>1. e = p + 1 /\ n = 3 /\ e - n + 1 = p - 1 /\ e - n + 2 = p /\ e - n + 3 = p + 1
        BY <1>1, <1>2, <1>12, <2>2, <3>1
      <4>2. p + 1 \in 1 .. Width /\ a[p + 1] = 0 /\ q1 = 0
        BY <1>1, <1>2, <1>6, <1>12, <2>1, <2>2, <4>1
      <4>3. m[1] = q2 /\ m[2] = q3 /\ m[3] = 0
        BY <1>5, <2>2, <4>1, <4>2
      <4>4. x1 = e - 1 /\ x2 = 256 * q2 + 65536 * q3
        BY <1>8, <3>1, <4>3
      <4> QED
        BY <1>1, <4>1, <4>2, <4>4
    <3>2. CASE ~(q3 >= 128)
      <4>1. e = p /\ n = 3 /\ e - n + 1 = p - 2 /\ e - n + 2 = p - 1 /\ e - n + 3 = p
        BY <1>1, <1>2, <1>12, <2>2, <3>2
      <4>2. m[1] = q1 /\ m[2] = q2 /\ m[3] = q3
        BY <1>5, <2>2, <4>1
      <4> QED
        BY <1>1, <1>8, <2>2, <4>1, <4>2
    <3> QED
      BY <3>1, <3>2
  <2>4. More(a, p, x1, x2)
    BY <2>2, <2>3 DEF More
  <2> QED
    BY <1>1, <1>12, <2>4 DEF Normal
<1>13. Normal(a, p, x1, x2)
  BY <1>1, <1>9, <1>10, <1>11, <1>12
<1> QED
  BY <1>7, <1>13 DEF a, c, p, x1, x2

\* sign(i), by the three cases it is used in
LEMMA SignIs ==
    ASSUME NEW i \in Int
    PROVE  /\ i < 0 => sign(i) = -1
           /\ i > 0 => sign(i) = 1
           /\ i = 0 => sign(i) = 0
BY DEF sign

\* What is compared is a pair of naturals, ordered by the length first.
LEMMA NormalOrder ==
    ASSUME NEW a \in Uint256, NEW p, NEW x, NEW y, Significant(a, p), Normal(a, p, x, y)
    PROVE  /\ x \in Nat /\ y \in Nat /\ x >= p
           /\ p = 0 => x = 0 /\ y = 0
           /\ p = 1 => x <= 2 /\ y <= 255
           /\ p = 2 => x = 2 /\ y >= 256
           /\ p > 2 => x = p
<1>1. Width \in Nat /\ p \in 0 .. Width
  BY CompactAssumption DEF Significant
<1>2. \A j \in 1 .. Width : a[j] \in 0 .. 255
  BY DEF Uint256
<1>3. CASE p = 0
  BY <1>3 DEF Normal
<1>4. CASE p = 1
  <2>1. a[1] \in 0 .. 255
    BY <1>1, <1>2, <1>4
  <2>2. One(a, x, y)
    BY <1>4 DEF Normal
  <2> QED
    BY <1>4, <2>1, <2>2 DEF One
<1>5. CASE p = 2
  <2>1. a[1] \in 0 .. 255 /\ a[2] \in 1 .. 255
    BY <1>1, <1>2, <1>5 DEF Significant
  <2>2. Two(a, x, y)
    BY <1>5 DEF Normal
  <2>3. PICK q1 \in 0 .. 255, q2 \in 1 .. 255 : a[1] = q1 /\ a[2] = q2
    BY <2>1
  <2>4. x = 2 /\ (y = q1 + 256 * q2 \/ y = 256 * q1 + 65536 * q2)
    BY <2>2, <2>3 DEF Two
  <2> QED
    BY <1>5, <2>4
<1>6. CASE p > 2
  <2>1. a[p - 2] \in 0 .. 255 /\ a[p - 1] \in 0 .. 255 /\ a[p] \in 0 .. 255
    BY <1>1, <1>2, <1>6
  <2>2. More(a, p, x, y)
    BY <1>6 DEF Normal
  <2>3. PICK q1 \in 0 .. 255, q2 \in 0 .. 255, q3 \in 0 .. 255 :
            a[p - 2] = q1 /\ a[p - 1] = q2 /\ a[p] = q3
    BY <2>1
  <2>4. x = p /\ y = q1 + 256 * q2 + 65536 * q3
    BY <2>2, <2>3 DEF More
  <2> QED
    BY <1>1, <1>6, <2>4
<1> QED
  BY <1>1, <1>3, <1>4, <1>5, <1>6

\* An integer of fewer bytes is the lower one, in both comparisons.
LEMMA ShorterIsLower ==
    ASSUME NEW a \in Uint256, NEW b \in Uint256, NEW p, NEW q, Significant(a, p), Significant(b, q), p < q
    PROVE  uint256_compare(a, b) = -1 /\ uint256_compare(b, a) = 1
<1>1. Width \in Nat /\ p \in 0 .. Width /\ q \in 1 .. Width
  BY CompactAssumption DEF Significant
<1>2. /\ a[q] = 0 /\ b[q] \in 1 .. 255
      /\ \A j \in 1 .. Width : j > q => a[j] = b[j]
  BY <1>1 DEF Significant, Uint256
<1>3. uint256_compare(a, b) = sign(a[q] - b[q]) /\ uint256_compare(b, a) = sign(b[q] - a[q])
  BY <1>1, <1>2, CompareAt
<1>4. PICK i \in 1 .. 255 : i = b[q]
  BY <1>2
<1>5. a[q] - b[q] = -i /\ b[q] - a[q] = i
  BY <1>2, <1>4
<1> QED
  BY <1>3, <1>5, SignIs

\* The highest of three bytes that differs decides the order of the values.
Decides(i1, i2, i3, k1, k2, k3) ==
    LET d == (i1 + 256 * i2 + 65536 * i3) - (k1 + 256 * k2 + 65536 * k3)
    IN  /\ i3 # k3 => sign(d) = sign(i3 - k3)
        /\ i3 = k3 /\ i2 # k2 => sign(d) = sign(i2 - k2)
        /\ i3 = k3 /\ i2 = k2 => sign(d) = sign(i1 - k1)

LEMMA Digits ==
    ASSUME NEW i1 \in 0 .. 255, NEW i2 \in 0 .. 255, NEW i3 \in 0 .. 255,
           NEW k1 \in 0 .. 255, NEW k2 \in 0 .. 255, NEW k3 \in 0 .. 255
    PROVE  Decides(i1, i2, i3, k1, k2, k3)
<1>1. PICK d \in Int : d = (i1 + 256 * i2 + 65536 * i3) - (k1 + 256 * k2 + 65536 * k3)
  OBVIOUS
<1>2. /\ i3 < k3 => d < 0
      /\ i3 > k3 => d > 0
  BY <1>1
<1>3. /\ i3 = k3 /\ i2 < k2 => d < 0
      /\ i3 = k3 /\ i2 > k2 => d > 0
  BY <1>1
<1>4. i3 = k3 /\ i2 = k2 => d = i1 - k1
  BY <1>1
<1>5. i3 # k3 => sign(d) = sign(i3 - k3)
  BY <1>2, SignIs
<1>6. i3 = k3 /\ i2 # k2 => sign(d) = sign(i2 - k2)
  BY <1>3, SignIs
<1> QED
  BY <1>1, <1>4, <1>5, <1>6 DEF Decides

\* the order of two pairs
Pairwise(x, y, u, v) == IF x = u THEN sign(y - v) ELSE sign(x - u)

\* Of two integers of the same length the highest byte that differs decides.
LEMMA SameLengthMore ==
    ASSUME NEW a \in Uint256, NEW b \in Uint256, NEW p, NEW x, NEW y, NEW u, NEW v,
           Significant(a, p), Significant(b, p), p > 2, More(a, p, x, y), More(b, p, u, v)
    PROVE  Pairwise(x, y, u, v) = uint256_compare(a, b)
<1>1. /\ Width \in Nat /\ p \in 0 .. Width
      /\ p \in 1 .. Width /\ p - 1 \in 1 .. Width /\ p - 2 \in 1 .. Width
  BY CompactAssumption DEF Significant
<1>2. PICK i1 \in 0 .. 255, i2 \in 0 .. 255, i3 \in 0 .. 255 :
          a[p - 2] = i1 /\ a[p - 1] = i2 /\ a[p] = i3
  BY <1>1 DEF Uint256
<1>3. PICK k1 \in 0 .. 255, k2 \in 0 .. 255, k3 \in 0 .. 255 :
          b[p - 2] = k1 /\ b[p - 1] = k2 /\ b[p] = k3
  BY <1>1 DEF Uint256
<1>4. /\ x = p /\ y = i1 + 256 * i2 + 65536 * i3
      /\ u = p /\ v = k1 + 256 * k2 + 65536 * k3
  BY <1>2, <1>3 DEF More
<1> DEFINE d == (i1 + 256 * i2 + 65536 * i3) - (k1 + 256 * k2 + 65536 * k3)
<1>5. /\ i3 # k3 => sign(d) = sign(i3 - k3)
      /\ i3 = k3 /\ i2 # k2 => sign(d) = sign(i2 - k2)
      /\ i3 = k3 /\ i2 = k2 => sign(d) = sign(i1 - k1)
  <2>1. Decides(i1, i2, i3, k1, k2, k3)
    BY Digits
  <2> QED
    BY <2>1 DEF Decides
<1>6. Pairwise(x, y, u, v) = sign(d)
  BY <1>4 DEF Pairwise
<1> HIDE DEF d
<1>7. \A j \in 1 .. Width : j > p \/ j < p - 2 => a[j] = b[j]
  BY DEF Significant
<1>8. CASE i3 # k3
  <2>1. uint256_compare(a, b) = sign(i3 - k3)
    BY <1>1, <1>2, <1>3, <1>7, <1>8, CompareAt
  <2> QED
    BY <1>5, <1>6, <1>8, <2>1
<1>9. CASE i3 = k3 /\ i2 # k2
  <2>1. \A j \in 1 .. Width : j > p - 1 => a[j] = b[j]
    BY <1>1, <1>2, <1>3, <1>7, <1>9
  <2>2. uint256_compare(a, b) = sign(i2 - k2)
    BY <1>1, <1>2, <1>3, <1>9, <2>1, CompareAt
  <2> QED
    BY <1>5, <1>6, <1>9, <2>2
<1>10. CASE i3 = k3 /\ i2 = k2 /\ i1 # k1
  <2>1. \A j \in 1 .. Width : j > p - 2 => a[j] = b[j]
    BY <1>1, <1>2, <1>3, <1>7, <1>10
  <2>2. uint256_compare(a, b) = sign(i1 - k1)
    BY <1>1, <1>2, <1>3, <1>10, <2>1, CompareAt
  <2> QED
    BY <1>5, <1>6, <1>10, <2>2
<1>11. CASE i3 = k3 /\ i2 = k2 /\ i1 = k1
  <2>1. \A j \in 1 .. Width : a[j] = b[j]
    BY <1>1, <1>2, <1>3, <1>7, <1>11
  <2>2. uint256_compare(a, b) = 0
    BY <2>1, CompareEqual
  <2>3. sign(i1 - k1) = 0
    BY <1>11, SignIs
  <2> QED
    BY <1>5, <1>6, <1>11, <2>2, <2>3
<1> QED
  BY <1>8, <1>9, <1>10, <1>11

LEMMA SameLengthTwo ==
    ASSUME NEW a \in Uint256, NEW b \in Uint256, NEW x, NEW y, NEW u, NEW v,
           Significant(a, 2), Significant(b, 2), Two(a, x, y), Two(b, u, v)
    PROVE  Pairwise(x, y, u, v) = uint256_compare(a, b)
<1>1. Width \in Nat /\ 1 \in 1 .. Width /\ 2 \in 1 .. Width
  BY CompactAssumption DEF Significant
<1>2. PICK i1 \in 0 .. 255, i2 \in 0 .. 255, k1 \in 0 .. 255, k2 \in 0 .. 255 :
          a[1] = i1 /\ a[2] = i2 /\ b[1] = k1 /\ b[2] = k2
  BY <1>1 DEF Uint256
<1>3. \A j \in 1 .. Width : j > 2 => a[j] = b[j]
  BY DEF Significant
<1>4. /\ x = 2 /\ u = 2
      /\ i2 < 128 => y = i1 + 256 * i2
      /\ i2 >= 128 => y = 256 * i1 + 65536 * i2
      /\ k2 < 128 => v = k1 + 256 * k2
      /\ k2 >= 128 => v = 256 * k1 + 65536 * k2
  BY <1>2 DEF Two
<1>5. PICK d \in Int : d = y - v
  BY <1>4
<1>6. /\ i2 < k2 => d < 0
      /\ i2 > k2 => d > 0
  BY <1>4, <1>5
<1>7. /\ i2 = k2 /\ i1 < k1 => d < 0
      /\ i2 = k2 /\ i1 > k1 => d > 0
      /\ i2 = k2 /\ i1 = k1 => d = 0
  BY <1>4, <1>5
<1>8. Pairwise(x, y, u, v) = sign(d)
  BY <1>4, <1>5 DEF Pairwise
<1>9. CASE i2 # k2
  <2>1. uint256_compare(a, b) = sign(i2 - k2)
    BY <1>1, <1>2, <1>3, <1>9, CompareAt
  <2>2. sign(d) = sign(i2 - k2)
    BY <1>6, <1>9, SignIs
  <2> QED
    BY <1>8, <2>1, <2>2
<1>10. CASE i2 = k2 /\ i1 # k1
  <2>1. \A j \in 1 .. Width : j > 1 => a[j] = b[j]
    BY <1>1, <1>2, <1>3, <1>10
  <2>2. uint256_compare(a, b) = sign(i1 - k1)
    BY <1>1, <1>2, <1>10, <2>1, CompareAt
  <2>3. sign(d) = sign(i1 - k1)
    BY <1>7, <1>10, SignIs
  <2> QED
    BY <1>8, <2>2, <2>3
<1>11. CASE i2 = k2 /\ i1 = k1
  <2>1. \A j \in 1 .. Width : a[j] = b[j]
    BY <1>1, <1>2, <1>3, <1>11
  <2>2. uint256_compare(a, b) = 0
    BY <2>1, CompareEqual
  <2>3. sign(d) = 0
    BY <1>7, <1>11, SignIs
  <2> QED
    BY <1>8, <2>2, <2>3
<1> QED
  BY <1>9, <1>10, <1>11

LEMMA SameLengthOne ==
    ASSUME NEW a \in Uint256, NEW b \in Uint256, NEW x, NEW y, NEW u, NEW v,
           Significant(a, 1), Significant(b, 1), One(a, x, y), One(b, u, v)
    PROVE  Pairwise(x, y, u, v) = uint256_compare(a, b)
<1>1. Width \in Nat /\ 1 \in 1 .. Width
  BY CompactAssumption DEF Significant
<1>2. PICK i1 \in 0 .. 255, k1 \in 0 .. 255 : a[1] = i1 /\ b[1] = k1
  BY <1>1 DEF Uint256
<1>3. \A j \in 1 .. Width : j > 1 => a[j] = b[j]
  BY DEF Significant
<1>4. /\ y = i1 /\ v = k1
      /\ x \in Int /\ u \in Int
      /\ i1 < 128 => x = 1
      /\ i1 >= 128 => x = 2
      /\ k1 < 128 => u = 1
      /\ k1 >= 128 => u = 2
  BY <1>2 DEF One
<1>5. Pairwise(x, y, u, v) = sign(i1 - k1)
  <2>1. x = u => Pairwise(x, y, u, v) = sign(i1 - k1)
    BY <1>4 DEF Pairwise
  <2>2. x < u => i1 < k1 /\ x - u < 0
    BY <1>4
  <2>3. x > u => i1 > k1 /\ x - u > 0
    BY <1>4
  <2>4. x # u => Pairwise(x, y, u, v) = sign(x - u)
    BY DEF Pairwise
  <2>5. x # u => sign(x - u) = sign(i1 - k1)
    BY <1>4, <2>2, <2>3, SignIs
  <2> QED
    BY <2>1, <2>4, <2>5
<1>6. CASE i1 # k1
  BY <1>1, <1>2, <1>3, <1>5, <1>6, CompareAt
<1>7. CASE i1 = k1
  <2>1. \A j \in 1 .. Width : a[j] = b[j]
    BY <1>1, <1>2, <1>3, <1>7
  <2>2. uint256_compare(a, b) = 0
    BY <2>1, CompareEqual
  <2>3. sign(i1 - k1) = 0
    BY <1>7, SignIs
  <2> QED
    BY <1>5, <2>2, <2>3
<1> QED
  BY <1>6, <1>7

\* The pairs are ordered as the integers are, and the other way round.
LEMMA PairwiseIs ==
    ASSUME NEW a \in Uint256, NEW b \in Uint256, NEW p, NEW q, NEW x, NEW y, NEW u, NEW v,
           Significant(a, p), Significant(b, q), Normal(a, p, x, y), Normal(b, q, u, v)
    PROVE  Pairwise(x, y, u, v) = uint256_compare(a, b) /\ Pairwise(u, v, x, y) = -Pairwise(x, y, u, v)
<1>1. Width \in Nat /\ p \in 0 .. Width /\ q \in 0 .. Width
  BY CompactAssumption DEF Significant
<1>2. /\ x \in Nat /\ y \in Nat /\ x >= p
      /\ p = 0 => x = 0 /\ y = 0
      /\ p = 1 => x <= 2 /\ y <= 255
      /\ p = 2 => x = 2 /\ y >= 256
      /\ p > 2 => x = p
  BY NormalOrder
<1>3. /\ u \in Nat /\ v \in Nat /\ u >= q
      /\ q = 0 => u = 0 /\ v = 0
      /\ q = 1 => u <= 2 /\ v <= 255
      /\ q = 2 => u = 2 /\ v >= 256
      /\ q > 2 => u = q
  BY NormalOrder
<1>4. Pairwise(u, v, x, y) = -Pairwise(x, y, u, v)
  <2>1. CASE x = u
    <3>1. sign(v - y) = -sign(y - v)
      BY <1>2, <1>3 DEF sign
    <3> QED
      BY <2>1, <3>1 DEF Pairwise
  <2>2. CASE x # u
    <3>1. sign(u - x) = -sign(x - u)
      BY <1>2, <1>3 DEF sign
    <3> QED
      BY <2>2, <3>1 DEF Pairwise
  <2> QED
    BY <2>1, <2>2
<1>5. CASE p < q
  <2>1. uint256_compare(a, b) = -1
    BY <1>5, ShorterIsLower
  <2>2. x < u \/ (x = u /\ y < v)
    BY <1>1, <1>2, <1>3, <1>5
  <2>3. (x < u => x - u < 0) /\ (y < v => y - v < 0)
    BY <1>2, <1>3
  <2>4. Pairwise(x, y, u, v) = -1
    BY <1>2, <1>3, <2>2, <2>3, SignIs DEF Pairwise
  <2> QED
    BY <1>4, <2>1, <2>4
<1>6. CASE q < p
  <2>1. uint256_compare(a, b) = 1
    BY <1>6, ShorterIsLower
  <2>2. u < x \/ (x = u /\ v < y)
    BY <1>1, <1>2, <1>3, <1>6
  <2>3. (u < x => x - u > 0) /\ (v < y => y - v > 0)
    BY <1>2, <1>3
  <2>4. Pairwise(x, y, u, v) = 1
    BY <1>2, <1>3, <2>2, <2>3, SignIs DEF Pairwise
  <2> QED
    BY <1>4, <2>1, <2>4
<1>7. CASE p = q
  <2>1. CASE p = 0
    <3>1. \A j \in 1 .. Width : a[j] = b[j]
      BY <1>1, <1>7, <2>1 DEF Significant
    <3>2. uint256_compare(a, b) = 0
      BY <3>1, CompareEqual
    <3>3. Pairwise(x, y, u, v) = 0
      BY <1>2, <1>3, <1>7, <2>1, SignIs DEF Pairwise
    <3> QED
      BY <1>4, <3>2, <3>3
  <2>2. CASE p = 1
    <3>1. Significant(a, 1) /\ Significant(b, 1) /\ One(a, x, y) /\ One(b, u, v)
      BY <1>7, <2>2 DEF Normal
    <3> QED
      BY <1>4, <3>1, SameLengthOne
  <2>3. CASE p = 2
    <3>1. Significant(a, 2) /\ Significant(b, 2) /\ Two(a, x, y) /\ Two(b, u, v)
      BY <1>7, <2>3 DEF Normal
    <3> QED
      BY <1>4, <3>1, SameLengthTwo
  <2>4. CASE p > 2
    <3>1. Significant(a, p) /\ Significant(b, p) /\ More(a, p, x, y) /\ More(b, p, u, v)
      BY <1>7, <2>4 DEF Normal
    <3> QED
      BY <1>4, <2>4, <3>1, SameLengthMore
  <2> QED
    BY <1>1, <2>1, <2>2, <2>3, <2>4
<1> QED
  BY <1>1, <1>5, <1>6, <1>7

\* compact_uint256_compare() orders compact integers as uint256_compare() does
\* what they stand for, and is antisymmetric (compact_int.c:145-179), whatever
\* was added up and whatever it is compared with.
THEOREM OrderHolds == CompactSpec => []CompactOrder
<1>1. ASSUME CompactInv PROVE CompactOrder
  <2>1. SUFFICES ASSUME NEW s \in Addends, Representable(total), Representable(uint256_to_compact(s))
                 PROVE  LET d == uint256_to_compact(s)
                        IN  /\ compact_uint256_compare(total, d)
                                 = uint256_compare(compact_to_uint256(total), compact_to_uint256(d))
                            /\ compact_uint256_compare(d, total) = -compact_uint256_compare(total, d)
    BY DEF CompactOrder
  <2> DEFINE d == uint256_to_compact(s)
             a == compact_to_uint256(total)
             b == compact_to_uint256(d)
             x == normal(total)
             y == normal(d)
  <2>2. /\ target \in Uint256 /\ total = uint256_to_compact(target)
        /\ s \in Uint256
    BY <1>1, CompactAssumption DEF CompactInv
  <2>3. a \in Uint256 /\ b \in Uint256
    BY <2>2, CompactType, BackType
  <2>4. /\ Significant(a, length_of(target)) /\ Normal(a, length_of(target), x[1], x[2])
        /\ Significant(b, length_of(s)) /\ Normal(b, length_of(s), y[1], y[2])
    BY <2>1, <2>2, NormalIs
  <2>5. /\ compact_uint256_compare(total, d) = Pairwise(x[1], x[2], y[1], y[2])
        /\ compact_uint256_compare(d, total) = Pairwise(y[1], y[2], x[1], x[2])
    BY DEF compact_uint256_compare, Pairwise
  <2> HIDE DEF a, b, d, x, y
  <2>6. /\ Pairwise(x[1], x[2], y[1], y[2]) = uint256_compare(a, b)
        /\ Pairwise(y[1], y[2], x[1], x[2]) = -Pairwise(x[1], x[2], y[1], y[2])
    BY <2>3, <2>4, PairwiseIs
  <2> QED
    BY <2>5, <2>6 DEF a, b, d
<1> QED
  BY <1>1, Invariance, PTL

=============================================================================
