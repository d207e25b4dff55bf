----------------------------- MODULE Containers -----------------------------
(***************************************************************************)
(* The containers the library hands data through: the linked stack or      *)
(* queue of utils/clib-stack.c, the ring of pointers of chains.c and the   *)
(* byte buffer of utils/auto_buffer.c.  Each is modelled with its memory,  *)
(* next to the sequence its user believes it holds.                        *)
(***************************************************************************)
EXTENDS Integers, Sequences, SequencesExt

CONSTANTS
    Items,         \* what is stored; no item is the NULL a pop of nothing returns
    MaxHeld,       \* bound: items held at a time
    MaxBuffer,     \* bound: the allocation of a buffer, which only an empty one restarts
    UnitSize       \* CLIB_QUEUE_ALLOC_SIZE and AUTO_BUFFER_ALLOC_SIZE (4096)

ASSUME ContainersAssumption == UnitSize \in Nat \ {0} /\ MaxHeld \in Nat /\ MaxBuffer \in Nat

VARIABLES
    sq,            \* clib_stack_or_queue: is_queue, top, bottom, count
    cells,         \* its clib_nodes: address -> data and next
    ring,          \* clib_queue: nodes, max_size, start_pos, length
    kept,          \* history: the ring has not grown while its items started past the first slot
    buf,           \* auto_buffer: data, size, start_pos, length
    expected,      \* history: what the container in use should hold, first out first
    got            \* history: what the last pop returned and should have returned

containerVars == <<sq, cells, ring, kept, buf, expected, got>>

no_cell == 0
unused == "unused"
nothing == <<>>

taken(n) == SubSeq(expected, 1, n)
left(n) == SubSeq(expected, n + 1, Len(expected))

-----------------------------------------------------------------------------
(* clib_stack_or_queue *)

empty_sq(is_queue) == [is_queue |-> is_queue, top |-> no_cell, bottom |-> no_cell, count |-> 0]

clib_stack_or_queue_init(is_queue) ==
    /\ expected = <<>> /\ cells = <<>> /\ sq.is_queue # is_queue
    /\ sq' = empty_sq(is_queue)
    /\ UNCHANGED <<cells, ring, kept, buf, expected, got>>

new_cell == CHOOSE n \in 1 .. MaxHeld : n \notin DOMAIN cells

with_cell(C, n, data, next) ==
    [m \in DOMAIN C \cup {n} |-> IF m = n THEN [data |-> data, next |-> next] ELSE C[m]]

stack_push(data) ==
    /\ ~sq.is_queue /\ sq.count < MaxHeld
    /\ cells' = with_cell(cells, new_cell, data, sq.top)
    /\ sq' = [sq EXCEPT !.top = new_cell, !.count = @ + 1]
    /\ expected' = <<data>> \o expected
    /\ UNCHANGED <<ring, kept, buf, got>>

queue_push(data) ==
    /\ sq.is_queue /\ sq.count < MaxHeld
    /\ \E n \in {new_cell} :
       \E C \in {with_cell(cells, n, data, no_cell)} :
          IF sq.top = no_cell
          THEN /\ cells' = C
               /\ sq' = [sq EXCEPT !.top = n, !.bottom = n, !.count = @ + 1]
          ELSE /\ cells' = [C EXCEPT ![sq.bottom].next = n]
               /\ sq' = [sq EXCEPT !.bottom = n, !.count = @ + 1]
    /\ expected' = Append(expected, data)
    /\ UNCHANGED <<ring, kept, buf, got>>

\* mutant: the bottom of an emptied queue is not reset
queue_popped_keeps == [sq EXCEPT !.top = cells[@].next, !.count = @ - 1]

\* the queue without its first cell
queue_popped ==
    LET top == cells[sq.top].next
    IN  [sq EXCEPT !.top = top, !.bottom = IF top = no_cell THEN no_cell ELSE @, !.count = @ - 1]

stack_popped == [sq EXCEPT !.top = cells[sq.top].next, !.count = @ - 1]

\* queue_pop() and stack_pop()
sq_pop ==
    /\ IF sq.top = no_cell THEN got' = [was |-> nothing, should |-> taken(0)] /\ UNCHANGED <<sq, cells, expected>>
       ELSE /\ got' = [was |-> <<cells[sq.top].data>>, should |-> taken(1)]
            /\ sq' = IF sq.is_queue THEN queue_popped ELSE stack_popped
            /\ cells' = [m \in DOMAIN cells \ {sq.top} |-> cells[m]]
            /\ expected' = left(1)
    /\ UNCHANGED <<ring, kept, buf>>

\* the cells from the top, which clib_stack_or_queue_cleanup() frees one by one
chain ==
    LET from[n \in DOMAIN cells \cup {no_cell}] ==
            IF n = no_cell THEN <<>> ELSE <<n>> \o from[cells[n].next]
    IN  from[sq.top]

clib_stack_or_queue_cleanup ==
    /\ sq' = empty_sq(sq.is_queue)
    /\ cells' = [m \in DOMAIN cells \ ToSet(chain) |-> cells[m]]
    /\ expected' = <<>> /\ got' = [was |-> nothing, should |-> nothing]
    /\ UNCHANGED <<ring, kept, buf>>

-----------------------------------------------------------------------------
(* clib_queue, the ring of chains.c *)

round_up(size) == UnitSize * ((size + UnitSize - 1) \div UnitSize)

no_ring == [nodes |-> <<>>, max_size |-> 0, start_pos |-> 0, length |-> 0]

\* queue_resize(): what is stored stays where it is
queue_resize(q, size) ==
    LET new_size == IF size <= 0 THEN UnitSize ELSE round_up(size)
    IN  IF new_size <= q.max_size THEN q
        ELSE [q EXCEPT !.max_size = new_size,
                       !.nodes = [i \in 0 .. new_size - 1 |->
                                     IF i < q.max_size THEN q.nodes[i] ELSE unused]]

queue_enter(data) ==
    /\ ring.max_size > 0 /\ ring.length < MaxHeld
    /\ \E q \in {queue_resize(ring, ring.length + 1)} :
          /\ ring' = [q EXCEPT !.nodes[(q.start_pos + q.length) % q.max_size] = data, !.length = @ + 1]
          /\ kept' = (kept /\ (q = ring \/ ring.start_pos = 0))
    /\ expected' = Append(expected, data)
    /\ UNCHANGED <<sq, cells, buf, got>>

\* where the next item to leave is, after one has left
next_pos(q) == (q.start_pos + 1) % q.max_size

queue_leave ==
    /\ ring.max_size > 0
    /\ IF ring.length <= 0 THEN got' = [was |-> nothing, should |-> taken(0)] /\ UNCHANGED <<ring, expected>>
       ELSE /\ got' = [was |-> <<ring.nodes[ring.start_pos]>>, should |-> taken(1)]
            /\ ring' = [ring EXCEPT !.start_pos = next_pos(ring), !.length = @ - 1]
            /\ expected' = left(1)
    /\ UNCHANGED <<sq, cells, kept, buf>>

clib_queue_init ==
    /\ ring.max_size = 0
    /\ ring' = queue_resize(no_ring, 0)
    /\ UNCHANGED <<sq, cells, kept, buf, expected, got>>

\* clib_queue_cleanup(); the struct, a local of the caller, ends with it
clib_queue_cleanup ==
    /\ ring.max_size > 0
    /\ ring' = no_ring /\ kept' = TRUE /\ expected' = <<>> /\ got' = [was |-> nothing, should |-> nothing]
    /\ UNCHANGED <<sq, cells, buf>>

-----------------------------------------------------------------------------
(* auto_buffer *)

no_buffer == [data |-> <<>>, size |-> 0, start_pos |-> 0, length |-> 0]

auto_buffer_resize(b, size) ==
    LET new_size == IF size = 0 THEN UnitSize ELSE round_up(size)
    IN  IF new_size <= b.size THEN b
        ELSE [b EXCEPT !.size = new_size,
                       !.data = [i \in 1 .. new_size |-> IF i <= b.size THEN b.data[i] ELSE unused]]

auto_buffer_init ==
    /\ buf.size = 0
    /\ buf' = auto_buffer_resize(no_buffer, 0)
    /\ UNCHANGED <<sq, cells, ring, kept, expected, got>>

auto_buffer_push(bytes) ==
    /\ buf.size > 0 /\ buf.start_pos + buf.length + Len(bytes) <= MaxBuffer
    /\ \E b \in {auto_buffer_resize(buf, buf.start_pos + buf.length + Len(bytes))} :
       \E end \in {b.start_pos + b.length} :
          buf' = [b EXCEPT !.length = @ + Len(bytes),
                           !.data = [i \in 1 .. b.size |->
                                        IF i \in end + 1 .. end + Len(bytes) THEN bytes[i - end] ELSE @[i]]]
    /\ expected' = expected \o bytes
    /\ UNCHANGED <<sq, cells, ring, kept, got>>

\* the buffer after n bytes are taken; an empty one starts at the front again
buffer_popped(b, n) ==
    [b EXCEPT !.start_pos = IF b.length = n THEN 0 ELSE @ + n, !.length = @ - n]

\* auto_buffer_pop(); data_size 0 asks for everything
auto_buffer_pop(data_size) ==
    /\ buf.size > 0
    /\ \E n \in {IF data_size = 0 \/ data_size > buf.length THEN buf.length ELSE data_size} :
          /\ got' = [was |-> SubSeq(buf.data, buf.start_pos + 1, buf.start_pos + n), should |-> taken(n)]
          /\ buf' = buffer_popped(buf, n)
          /\ expected' = left(n)
    /\ UNCHANGED <<sq, cells, ring, kept>>

auto_buffer_get_data == SubSeq(buf.data, buf.start_pos + 1, buf.start_pos + buf.length)

auto_buffer_cleanup ==
    /\ buf.size > 0
    /\ buf' = no_buffer /\ expected' = <<>> /\ got' = [was |-> nothing, should |-> nothing]
    /\ UNCHANGED <<sq, cells, ring, kept>>

-----------------------------------------------------------------------------
ContainersInit ==
    /\ sq = empty_sq(TRUE) /\ cells = <<>> /\ ring = no_ring /\ kept = TRUE /\ buf = no_buffer
    /\ expected = <<>> /\ got = [was |-> nothing, should |-> nothing]

ListNext ==
    \/ \E q \in BOOLEAN : clib_stack_or_queue_init(q)
    \/ \E d \in Items : stack_push(d) \/ queue_push(d)
    \/ sq_pop \/ clib_stack_or_queue_cleanup

RingNext == (\E d \in Items : queue_enter(d)) \/ queue_leave \/ clib_queue_init \/ clib_queue_cleanup

BufferNext ==
    \/ \E d \in Items : auto_buffer_push(<<d>>)
    \/ \E d, e \in Items : auto_buffer_push(<<d, e>>)
    \/ \E n \in 0 .. 3 : auto_buffer_pop(n)
    \/ auto_buffer_init \/ auto_buffer_cleanup

\* The containers share no state: a behaviour is about one of them.
ListSpec == ContainersInit /\ [][ListNext]_containerVars
RingSpec == ContainersInit /\ [][RingNext]_containerVars
BufferSpec == ContainersInit /\ [][BufferNext]_containerVars

-----------------------------------------------------------------------------
(* Properties *)

ring_items == [i \in 1 .. ring.length |-> ring.nodes[(ring.start_pos + i - 1) % ring.max_size]]

\* What a pop or a leave returns is the item the order of the container calls
\* for; the linked cells are exactly the items held, in that order, none leaked,
\* with the bottom of a queue at its last one; and the ring read from start_pos
\* holds them across its wrap-around.  A queue emptied and filled again is a
\* queue: the case the bottom pointer is there for.  Excepted is a ring that
\* grew while its items started past the first slot: queue_resize() leaves them
\* where they are, and their order is lost.
QueuesAreFifo ==
    /\ buf.size = 0 /\ kept => got.was = got.should
    /\ ring.max_size = 0 /\ buf.size = 0 =>
         /\ expected = [i \in DOMAIN chain |-> cells[chain[i]].data]
         /\ sq.count = Len(expected) /\ DOMAIN cells = ToSet(chain)
         /\ sq.is_queue => sq.bottom = IF chain = <<>> THEN no_cell ELSE Last(chain)
    /\ ring.max_size > 0 /\ kept => expected = ring_items

\* The bytes between start_pos and start_pos + length are those pushed and not
\* yet popped, in order, inside the allocation, however pushes, partial pops
\* and growth of the allocation interleave; what a pop copies out is their head.
BufferKeepsBytes ==
    buf.size > 0 =>
        /\ auto_buffer_get_data = expected
        /\ got.was = got.should
        /\ buf.start_pos + buf.length <= buf.size

\* Both: search_tree_traverse_BFS() visits a level of the candidates after the
\* one above it, and the network loop sends and parses the bytes in their order.
ContainersKeepOrder == QueuesAreFifo /\ BufferKeepsBytes
=============================================================================
