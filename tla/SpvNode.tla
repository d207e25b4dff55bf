------------------------------ MODULE SpvNode ------------------------------
(***************************************************************************)
(* The network side of the spv node (src/spv-node.c): spv_node_run()       *)
(* connects to a full node, polls the socket, cuts the bytes it reads into *)
(* messages, hands each to its handler and writes the replies; it closes   *)
(* the connection on an error and connects again, max_retries times in     *)
(* all.  One thread does all of this (pc says where it is); peer, kernel   *)
(* and signals act at any moment.                                          *)
(*                                                                         *)
(* A byte is a pair <<m, k>>: the k-th byte of message m, of which the     *)
(* first `header` are its header.  Messages are well formed or fail one of *)
(* the checks of on_read() and bitcoin_message_parse(): wrong magic,       *)
(* unknown command, wrong checksum.  What a headers message does to the    *)
(* block chain is in module SpvApp.                                        *)
(***************************************************************************)
EXTENDS Integers, Sequences, FiniteSets, SequencesExt

CONSTANTS
    Messages,      \* what the peer may send
    kind,          \* the command of every message of the peer, or what is wrong with it
    length,        \* the bytes of payload of every message
    header,        \* sizeof(struct bitcoin_message_header)
    chunk,         \* sizeof(data) in on_read()
    window,        \* bytes the kernel takes that the peer has not read
    max_retries,
    MaxSent        \* bound: messages of the peer on one connection

Kinds == {"version", "verack", "addr", "inv", "headers", "no_headers", "ping",
          "sendheaders", "ignored", "refused", "magic", "unknown", "checksum"}
ReplyNames == {"version", "verack", "getheaders", "getdata", "pong"}

ASSUME MessagesAssumption ==
    /\ kind \in [Messages -> Kinds]
    /\ length \in [Messages \cup ReplyNames -> Nat]
    /\ header \in Nat \ {0} /\ chunk \in Nat \ {0} /\ window \in Nat \ {0}
    /\ max_retries \in Nat /\ MaxSent \in Nat

VARIABLES
    pc,            \* where spv_node_run() is
    rc,            \* its rc: 0 or -1
    retries,
    quit,          \* g_quit
    fd,            \* "none" (-1) or "open"
    events,        \* POLLOUT is among pfd->events
    revents,       \* what ppoll() returned
    in_buf, out_buf,
    peer_version, addrs_list, send_headers_flag,
    wire,          \* bytes the node has not read yet
    unread,        \* how many bytes of the node the peer has not read yet
    peer,          \* "up", "closed" (FIN) or "reset"
    sent, handled, \* history: messages sent by the peer, passed to a handler
    written        \* history: bytes the kernel took

loopVars == <<rc, retries, fd, events, revents>>
nodeVars == <<peer_version, addrs_list, send_headers_flag>>
netVars == <<wire, unread, peer, sent, written>>
vars == <<pc, quit, loopVars, in_buf, out_buf, nodeVars, netVars, handled>>

size(m) == header + length[m]
bytes(m) == [k \in 1 .. size(m) |-> <<m, k>>]
stream(ms) == FlattenSeq([i \in DOMAIN ms |-> bytes(ms[i])])
Drop(s, n) == SubSeq(s, n + 1, Len(s))
Least(a, b) == IF a < b THEN a ELSE b

NoEvents == [pollin |-> FALSE, pollout |-> FALSE, hup |-> FALSE]

Init ==
    /\ pc = "connect" /\ rc = 0 /\ retries = 0 /\ quit = FALSE
    /\ fd = "none" /\ events = FALSE /\ revents = NoEvents
    /\ in_buf = <<>> /\ out_buf = <<>>
    /\ peer_version = 0 /\ addrs_list = {} /\ send_headers_flag = 0
    /\ wire = <<>> /\ unread = 0 /\ peer = "closed"
    /\ sent = <<>> /\ handled = <<>> /\ written = <<>>

-----------------------------------------------------------------------------
(* The loop of spv_node_run() *)

Goto(where) == pc' = where

\* mutant: one connection too many.
may_retry_once_more(n) == n <= max_retries

may_retry(n) == n < max_retries

\* The for loop ends: asked to quit, or out of retries.
run_ends ==
    /\ pc = "connect" /\ (quit \/ ~may_retry(retries))
    /\ Goto("end")
    /\ UNCHANGED <<quit, loopVars, in_buf, out_buf, nodeVars, netVars, handled>>

connect_fails ==
    /\ pc = "connect" /\ ~quit /\ may_retry(retries)
    /\ retries' = retries + 1
    /\ UNCHANGED <<pc, quit, rc, fd, events, revents, in_buf, out_buf, nodeVars, netVars, handled>>

\* connect2() calls exit() when the host has no address.
resolve_fails ==
    /\ pc = "connect" /\ ~quit /\ may_retry(retries)
    /\ Goto("end")
    /\ UNCHANGED <<quit, loopVars, in_buf, out_buf, nodeVars, netVars, handled>>

\* mutant: what the last connection left in the buffers stays.
fresh_buffer_kept(buf) == buf

\* auto_buffer_cleanup()
fresh_buffer(buf) == <<>>

\* connect2(), the buffers cleaned, add_message_version().
connect ==
    /\ pc = "connect" /\ ~quit /\ may_retry(retries)
    /\ fd' = "open" /\ events' = TRUE
    /\ in_buf' = fresh_buffer(in_buf)
    /\ out_buf' = fresh_buffer(out_buf) \o bytes("version")
    /\ wire' = <<>> /\ unread' = 0 /\ peer' = "up"
    /\ sent' = <<>> /\ handled' = <<>> /\ written' = <<>>
    /\ Goto("poll")
    /\ UNCHANGED <<quit, rc, retries, revents, nodeVars>>

\* mutant: POLLOUT is asked for once, after connecting.
want_pollout_once(buf) == events

\* POLLOUT is asked for while there is something to write.
want_pollout(buf) == events \/ Len(buf) > 0

Readable == wire # <<>> \/ peer # "up"
Writable == unread < window \/ peer # "up"

\* mutant: only a closed socket ends the inner loop.
leaving_closed == fd = "none"

\* The inner loop ends on quit, and at the first timeout once the socket is closed.
leaving == quit \/ fd = "none"

\* ppoll() returns what is ready; on_read() first, then on_write().
poll_ready ==
    /\ pc = "poll" /\ ~leaving
    /\ LET out == want_pollout(out_buf) /\ Writable
       IN  /\ Readable \/ out
           /\ events' = want_pollout(out_buf)
           /\ revents' = [pollin |-> Readable, pollout |-> out, hup |-> peer # "up"]
           /\ Goto(IF Readable THEN "read" ELSE "write")
    /\ rc' = 0
    /\ UNCHANGED <<quit, retries, fd, in_buf, out_buf, nodeVars, netVars, handled>>

poll_leaves ==
    /\ pc = "poll" /\ leaving
    /\ retries' = retries + 1
    /\ Goto("connect")
    /\ UNCHANGED <<quit, rc, fd, events, revents, in_buf, out_buf, nodeVars, netVars, handled>>

\* An error, or a hang-up that ppoll() saw, closes the socket.
check ==
    /\ pc = "check"
    /\ fd' = IF rc < 0 \/ revents.hup THEN "none" ELSE fd
    /\ Goto("poll")
    /\ UNCHANGED <<quit, rc, retries, events, revents, in_buf, out_buf, nodeVars, netVars, handled>>

-----------------------------------------------------------------------------
(* on_read() *)

AfterRead == IF revents.pollout THEN "write" ELSE "check"

\* read() returns some of the bytes that are there.
read_some ==
    /\ pc = "read" /\ wire # <<>>
    /\ \E n \in 1 .. Least(chunk, Len(wire)) :
          LET buf == in_buf \o SubSeq(wire, 1, n)
          IN  /\ in_buf' = buf
              /\ wire' = Drop(wire, n)
              /\ Goto(IF Len(buf) < header THEN "read" ELSE "parse")
    /\ UNCHANGED <<quit, loopVars, out_buf, nodeVars, unread, peer, sent, written, handled>>

\* EAGAIN ends the loop without an error.
read_would_block ==
    /\ pc = "read" /\ wire = <<>> /\ peer = "up"
    /\ events' = want_pollout(out_buf)
    /\ Goto(AfterRead)
    /\ UNCHANGED <<quit, rc, retries, fd, revents, in_buf, out_buf, nodeVars, netVars, handled>>

\* End of file, or a reset.
read_fails ==
    /\ pc = "read" /\ wire = <<>> /\ peer # "up"
    /\ rc' = -1
    /\ Goto("check")
    /\ UNCHANGED <<quit, retries, fd, events, revents, in_buf, out_buf, nodeVars, netVars, handled>>

\* mutant: a message counts as complete without its last byte.
complete_early(buf) == buf # <<>> /\ size(Head(buf)[1]) <= Len(buf) + 1

\* The header at the front of the buffer and its whole payload are there.
complete(buf) == buf # <<>> /\ size(Head(buf)[1]) <= Len(buf)

\* Bytes that do not start at a header do not start with the magic either.
Acceptable(buf) ==
    /\ Head(buf)[2] = 1
    /\ kind[Head(buf)[1]] \notin {"magic", "unknown", "checksum"}

parse_waits ==
    /\ pc = "parse" /\ ~complete(in_buf)
    /\ Goto(IF rc = 0 THEN "read" ELSE "check")
    /\ UNCHANGED <<quit, loopVars, in_buf, out_buf, nodeVars, netVars, handled>>

\* Magic, command or checksum: the message stays in the buffer.
parse_fails ==
    /\ pc = "parse" /\ complete(in_buf) /\ ~Acceptable(in_buf)
    /\ rc' = -1
    /\ Goto("check")
    /\ UNCHANGED <<quit, retries, fd, events, revents, in_buf, out_buf, nodeVars, netVars, handled>>

\* What each handler pushes to out_buf, and its rc. Most of them only log.
on_message_version == [replies |-> <<"verack">>, rc |-> 0]
on_message_verack == [replies |-> <<"getheaders">>, rc |-> 0]
on_message_inv == [replies |-> <<"getdata">>, rc |-> 0]
on_message_ping == [replies |-> <<"pong">>, rc |-> 0]
on_message_other == [replies |-> <<>>, rc |-> 0]

\* More headers are asked for after some, not after none; a negative count is
\* refused.
on_message_headers(count) ==
    [replies |-> IF count > 0 THEN <<"getheaders">> ELSE <<>>,
     rc |-> IF count < 0 THEN -1 ELSE 0]

\* avl_tree_add() or the update of the entry that is there.
on_message_addr(book, m) == book \cup {m}

msg_callback(m) ==
    CASE kind[m] = "version" -> on_message_version
      [] kind[m] = "verack" -> on_message_verack
      [] kind[m] = "inv" -> on_message_inv
      [] kind[m] = "ping" -> on_message_ping
      [] kind[m] = "headers" -> on_message_headers(1)
      [] kind[m] = "no_headers" -> on_message_headers(0)
      [] kind[m] = "refused" -> on_message_headers(-1)
      [] OTHER -> on_message_other

\* auto_buffer_push(), from a handler or through spv_node_send_message().
push(buf, ms) == buf \o stream(ms)

\* mutant: one message per read().
next_message_waits == "read"

\* After a message the inner loop looks for another one in the buffer.
next_message == "parse"

\* bitcoin_message_parse() and on_message_handler(). rc is that of this
\* message: the next one of the buffer overwrites it.
handle_message ==
    /\ pc = "parse" /\ complete(in_buf) /\ Acceptable(in_buf)
    /\ LET m == Head(in_buf)[1]
       IN  /\ rc' = msg_callback(m).rc
           /\ in_buf' = Drop(in_buf, size(m))
           /\ out_buf' = push(out_buf, msg_callback(m).replies)
           /\ handled' = Append(handled, m)
           /\ peer_version' = IF kind[m] = "version" THEN 1 ELSE peer_version
           /\ addrs_list' = IF kind[m] = "addr" THEN on_message_addr(addrs_list, m) ELSE addrs_list
           /\ send_headers_flag' = IF kind[m] = "sendheaders" THEN 1 ELSE send_headers_flag
    /\ Goto(next_message)
    /\ UNCHANGED <<quit, retries, fd, events, revents, netVars>>

-----------------------------------------------------------------------------
(* on_write() *)

\* write() takes some bytes. The loop goes on until all are written; what is
\* left moves to the front of the buffer.
write_some ==
    /\ pc = "write" /\ out_buf # <<>> /\ Writable
    /\ \E n \in 1 .. (IF peer = "up" THEN Least(window - unread, Len(out_buf)) ELSE Len(out_buf)) :
          /\ written' = written \o SubSeq(out_buf, 1, n)
          /\ out_buf' = Drop(out_buf, n)
          /\ unread' = IF peer = "up" THEN unread + n ELSE unread
    /\ UNCHANGED <<pc, quit, loopVars, in_buf, nodeVars, wire, peer, sent, handled>>

\* A full socket (EAGAIN is tested on length, not on cb) and a lost peer alike.
write_fails ==
    /\ pc = "write" /\ out_buf # <<>>
    /\ ~Writable \/ peer # "up"
    /\ rc' = -1
    /\ Goto("check")
    /\ UNCHANGED <<quit, retries, fd, events, revents, in_buf, out_buf, nodeVars, netVars, handled>>

\* SIGPIPE is blocked inside ppoll() only, and its default action is to kill.
write_killed ==
    /\ pc = "write" /\ out_buf # <<>> /\ peer # "up"
    /\ Goto("killed")
    /\ UNCHANGED <<quit, loopVars, in_buf, out_buf, nodeVars, netVars, handled>>

write_done ==
    /\ pc = "write" /\ out_buf = <<>>
    /\ events' = FALSE
    /\ Goto("check")
    /\ UNCHANGED <<quit, rc, retries, fd, revents, in_buf, out_buf, nodeVars, netVars, handled>>

-----------------------------------------------------------------------------
(* Peer, kernel and signals *)

localVars == <<pc, loopVars, in_buf, out_buf, nodeVars, handled>>

peer_sends(m) ==
    /\ fd = "open" /\ peer = "up" /\ Len(sent) < MaxSent
    /\ sent' = Append(sent, m)
    /\ wire' = wire \o bytes(m)
    /\ UNCHANGED <<localVars, quit, unread, peer, written>>

peer_reads ==
    /\ fd = "open" /\ peer = "up" /\ unread > 0
    /\ unread' = 0
    /\ UNCHANGED <<localVars, quit, wire, peer, sent, written>>

\* FIN: what is on its way still arrives. Reset: it is lost.
peer_leaves(how) ==
    /\ fd = "open" /\ peer = "up"
    /\ peer' = how
    /\ wire' = IF how = "reset" THEN <<>> ELSE wire
    /\ UNCHANGED <<localVars, quit, unread, sent, written>>

\* SIGINT or SIGUSR1.
on_signal ==
    /\ ~quit /\ quit' = TRUE
    /\ UNCHANGED <<localVars, netVars>>

Ended == pc \in {"end", "killed"}
Stopped == Ended /\ UNCHANGED vars

Node == \/ run_ends \/ resolve_fails \/ connect_fails \/ connect \/ poll_ready \/ poll_leaves \/ check
        \/ read_some \/ read_would_block \/ read_fails
        \/ parse_waits \/ parse_fails \/ handle_message
        \/ write_some \/ write_fails \/ write_killed \/ write_done

Environment == \/ \E m \in Messages : peer_sends(m)
               \/ peer_reads \/ on_signal
               \/ \E how \in {"closed", "reset"} : peer_leaves(how)

Next == Node \/ Environment \/ Stopped

\* The node's thread is scheduled; nothing is assumed of peers and signals.
Spec == Init /\ [][Next]_vars /\ WF_vars(Node)

-----------------------------------------------------------------------------
(* Properties *)

\* Every variable has its type.
TypeOK ==
    /\ pc \in {"connect", "poll", "read", "parse", "write", "check", "end", "killed"}
    /\ rc \in {0, -1} /\ retries \in 0 .. max_retries /\ quit \in BOOLEAN
    /\ fd \in {"none", "open"} /\ events \in BOOLEAN
    /\ revents \in [pollin : BOOLEAN, pollout : BOOLEAN, hup : BOOLEAN]
    /\ in_buf \in Seq(Messages \X Nat) /\ wire \in Seq(Messages \X Nat)
    /\ out_buf \in Seq(ReplyNames \X Nat) /\ written \in Seq(ReplyNames \X Nat)
    /\ peer_version \in {0, 1} /\ send_headers_flag \in {0, 1}
    /\ addrs_list \subseteq Messages
    /\ peer \in {"up", "closed", "reset"} /\ unread \in 0 .. window
    /\ sent \in Seq(Messages) /\ handled \in Seq(Messages)

\* However the peer's bytes are cut by read(): the messages handled, the bytes
\* in in_buf and those still on the wire are exactly what the peer sent on this
\* connection, in order, or, after a reset, the beginning of it.
InputIntact ==
    LET input == stream(handled) \o in_buf \o wire
    IN  IF peer = "reset" THEN IsPrefix(input, stream(sent)) ELSE input = stream(sent)

\* What the kernel took and what waits in out_buf is the version message and
\* then the reply to every message handled on this connection, once, in order:
\* whatever was written in parts, and whatever an earlier connection left over.
OutputIntact ==
    fd = "open" =>
        written \o out_buf =
            bytes("version") \o stream(FlattenSeq([i \in DOMAIN handled |-> msg_callback(handled[i]).replies]))

\* Replies do not sit in out_buf while the socket would take them: they leave,
\* unless the connection does, or the peer stops reading.
RepliesLeave ==
    (fd = "open" /\ out_buf # <<>>)
        ~> (out_buf = <<>> \/ fd = "none" \/ Ended \/ unread = window)

\* A message of the peer is handled, or the connection is given up.
MessagesHandled ==
    \A i \in 1 .. MaxSent :
        (fd = "open" /\ Len(sent) >= i) ~> (Len(handled) >= i \/ fd = "none" \/ Ended)

\* Asked to quit, spv_node_run() returns (or the process is dead).
QuitEnds == quit ~> Ended
=============================================================================
