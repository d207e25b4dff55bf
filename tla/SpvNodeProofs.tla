--------------------------- MODULE SpvNodeProofs ---------------------------
(***************************************************************************)
(* For any messages of any lengths, any sizes of header, chunk and window  *)
(* and any number of connections: however read() and write() cut the bytes *)
(* what the peer sent is handled message by message, in order, and what    *)
(* goes out is the version message and one reply to each.                  *)
(*                                                                         *)
(* InputIntact alone is not inductive: that a complete message at the      *)
(* front of in_buf is the next one the peer sent follows only if what is   *)
(* not handled is itself a stream of messages.  InputInv says so.          *)
(***************************************************************************)
EXTENDS SpvNode, SequenceLemmas

ByteType == Messages \X Nat
ReplyByteType == ReplyNames \X Nat
repliesTo(ms) == FlattenSeq([i \in DOMAIN ms |-> msg_callback(ms[i]).replies])

\* A connection is open, and closed again, within the retries.
RetryInv == pc \notin {"connect", "end"} => retries < max_retries

\* What is not handled yet is a sequence of whole messages; a reset cuts the
\* end of its bytes off.
InputInv ==
    \E pending \in Seq(Messages), lost \in Seq(ByteType) :
        /\ sent = handled \o pending
        /\ (in_buf \o wire) \o lost = stream(pending)
        /\ peer # "reset" => lost = <<>>

IInv == TypeOK /\ RetryInv /\ InputInv /\ OutputIntact
-----------------------------------------------------------------------------
(* Sequences of bytes *)

\* What is taken from the front of one sequence is put at the end of another.
LEMMA Moved ==
    ASSUME NEW S
    PROVE  \A a, b \in Seq(S) : \A n \in 1 .. Len(b) :
              /\ SubSeq(b, 1, n) \in Seq(S) /\ Drop(b, n) \in Seq(S)
              /\ a \o SubSeq(b, 1, n) \in Seq(S)
              /\ (a \o SubSeq(b, 1, n)) \o Drop(b, n) = a \o b
<1> SUFFICES ASSUME NEW a \in Seq(S), NEW b \in Seq(S), NEW n \in 1 .. Len(b)
             PROVE  /\ SubSeq(b, 1, n) \in Seq(S) /\ Drop(b, n) \in Seq(S)
                    /\ a \o SubSeq(b, 1, n) \in Seq(S)
                    /\ (a \o SubSeq(b, 1, n)) \o Drop(b, n) = a \o b
  BY Zenon
<1>1. Len(b) \in Nat /\ \A i \in 1 .. Len(b) : b[i] \in S
  BY LenProperties, ElementOfSeq
<1>2. PICK c \in Seq(S) : c = SubSeq(b, 1, n)
  <2>1. n \in Int /\ \A i \in 1 .. n : b[i] \in S
    BY <1>1
  <2>2. SubSeq(b, 1, n) \in Seq(S)
    BY <2>1, SubSeqProperties
  <2> QED
    BY <2>2
<1>3. PICK d \in Seq(S) : d = Drop(b, n)
  <2>1. n + 1 \in Int /\ Len(b) \in Int /\ \A i \in n + 1 .. Len(b) : b[i] \in S
    BY <1>1
  <2>2. SubSeq(b, n + 1, Len(b)) \in Seq(S)
    BY <2>1, SubSeqProperties
  <2> QED
    BY <2>2 DEF Drop
<1>4. c \o d = b
  <2>1. SubSeq(b, 1, n) \o SubSeq(b, n + 1, Len(b)) = SubSeq(b, 1, Len(b))
    BY <1>1, ConcatAdjacentSubSeq
  <2>2. SubSeq(b, 1, Len(b)) = b
    BY SubSeqFull
  <2> QED
    BY <1>2, <1>3, <2>1, <2>2 DEF Drop
<1>5. (a \o c) \o d = a \o (c \o d)
  OBVIOUS
<1>6. a \o c \in Seq(S)
  BY ConcatProperties
<1> QED
  BY <1>2, <1>3, <1>4, <1>5, <1>6

\* A common beginning is cut off.
LEMMA CutFront ==
    ASSUME NEW S
    PROVE  \A a, w, b, r \in Seq(S) :
              a \o w = b \o r /\ Len(b) <= Len(a)
                => Drop(a, Len(b)) \in Seq(S) /\ Drop(a, Len(b)) \o w = r
<1> SUFFICES ASSUME NEW a \in Seq(S), NEW w \in Seq(S), NEW b \in Seq(S), NEW r \in Seq(S),
                    a \o w = b \o r, Len(b) <= Len(a)
             PROVE  Drop(a, Len(b)) \in Seq(S) /\ Drop(a, Len(b)) \o w = r
  BY Zenon
<1>1. Len(a) \in Nat /\ Len(b) \in Nat /\ Len(w) \in Nat /\ Len(r) \in Nat
  BY LenProperties
<1>2. PICK d \in Seq(S) : d = Drop(a, Len(b))
  <2>1. \A i \in Len(b) + 1 .. Len(a) : a[i] \in S
    BY <1>1, ElementOfSeq
  <2>2. SubSeq(a, Len(b) + 1, Len(a)) \in Seq(S)
    BY <1>1, <2>1, SubSeqProperties
  <2> QED
    BY <2>2 DEF Drop
<1>3. Len(d) = Len(a) - Len(b) /\ \A i \in 1 .. Len(d) : d[i] = a[Len(b) + i]
  BY <1>1, <1>2, ElementOfSeq, SubSeqProperties DEF Drop
<1>4. /\ Len(a \o w) = Len(a) + Len(w) /\ Len(b \o r) = Len(b) + Len(r)
      /\ \A i \in 1 .. Len(a) + Len(w) : (a \o w)[i] = IF i <= Len(a) THEN a[i] ELSE w[i - Len(a)]
      /\ \A i \in 1 .. Len(b) + Len(r) : (b \o r)[i] = IF i <= Len(b) THEN b[i] ELSE r[i - Len(b)]
  BY ConcatProperties
<1>5. /\ d \o w \in Seq(S) /\ Len(d \o w) = Len(d) + Len(w)
      /\ \A i \in 1 .. Len(d) + Len(w) : (d \o w)[i] = IF i <= Len(d) THEN d[i] ELSE w[i - Len(d)]
  BY ConcatProperties
<1>6. Len(d \o w) = Len(r)
  BY <1>1, <1>3, <1>4, <1>5
<1>7. ASSUME NEW i \in 1 .. Len(r) PROVE (d \o w)[i] = r[i]
  <2>1. /\ Len(b) + i \in 1 .. Len(b) + Len(r) /\ ~(Len(b) + i <= Len(b)) /\ (Len(b) + i) - Len(b) = i
        /\ Len(b) + i \in 1 .. Len(a) + Len(w) /\ i \in 1 .. Len(d) + Len(w)
    BY <1>1, <1>3, <1>4, <1>5, <1>6
  <2>2. r[i] = (a \o w)[Len(b) + i]
    BY <1>4, <2>1
  <2>3. CASE i <= Len(d)
    <3>1. Len(b) + i <= Len(a) /\ i \in 1 .. Len(d)
      BY <1>1, <1>3, <2>3
    <3> QED
      BY <1>3, <1>4, <1>5, <2>1, <2>2, <2>3, <3>1
  <2>4. CASE ~(i <= Len(d))
    <3>1. ~(Len(b) + i <= Len(a)) /\ (Len(b) + i) - Len(a) = i - Len(d)
      BY <1>1, <1>3, <2>4
    <3> QED
      BY <1>4, <1>5, <2>1, <2>2, <2>4, <3>1
  <2> QED
    BY <2>3, <2>4
<1>8. d \o w = r
  BY <1>5, <1>6, <1>7, SeqEqual
<1> QED
  BY <1>2, <1>8
-----------------------------------------------------------------------------
(* Messages as bytes *)

\* Every message has at least a header.
LEMMA BytesType ==
    ASSUME NEW M, M \in {Messages, ReplyNames}, NEW m \in M
    PROVE  /\ bytes(m) \in Seq(M \X Nat) /\ Len(bytes(m)) = size(m) /\ size(m) \in Nat \ {0}
           /\ bytes(m)[1] = <<m, 1>>
<1>1. size(m) \in Nat \ {0}
  BY MessagesAssumption DEF size
<1>2. bytes(m) \in [1 .. size(m) -> M \X Nat]
  BY <1>1 DEF bytes
<1>3. bytes(m) \in Seq(M \X Nat) /\ Len(bytes(m)) = size(m)
  BY <1>1, <1>2
<1>4. 1 \in 1 .. size(m)
  BY <1>1
<1> QED
  BY <1>1, <1>3, <1>4 DEF bytes

\* The bytes of a sequence of messages, as a sequence of sequences.
LEMMA PartsType ==
    ASSUME NEW M, M \in {Messages, ReplyNames}, NEW ms \in Seq(M)
    PROVE  /\ [i \in DOMAIN ms |-> bytes(ms[i])] \in Seq(Seq(M \X Nat))
           /\ stream(ms) \in Seq(M \X Nat)
<1> DEFINE parts == [i \in DOMAIN ms |-> bytes(ms[i])]
<1>1. DOMAIN ms = 1 .. Len(ms) /\ Len(ms) \in Nat /\ \A i \in 1 .. Len(ms) : ms[i] \in M
  BY LenProperties, ElementOfSeq
<1>2. \A i \in 1 .. Len(ms) : bytes(ms[i]) \in Seq(M \X Nat)
  BY <1>1, BytesType
<1>3. parts \in [1 .. Len(ms) -> Seq(M \X Nat)]
  BY <1>1, <1>2
<1> HIDE DEF parts
<1>4. parts \in Seq(Seq(M \X Nat))
  BY <1>1, <1>3
<1>5. FlattenSeq(parts) \in Seq(M \X Nat)
  BY <1>4, FlattenType
<1> QED
  BY <1>4, <1>5 DEF stream, parts

LEMMA StreamEmpty == stream(<<>>) = <<>>
<1>1. [i \in DOMAIN <<>> |-> bytes(<<>>[i])] = <<>>
  OBVIOUS
<1> QED
  BY <1>1, FlattenEmpty DEF stream

\* One more message at the end.
LEMMA StreamAppend ==
    ASSUME NEW M, M \in {Messages, ReplyNames}, NEW ms \in Seq(M), NEW m \in M
    PROVE  stream(Append(ms, m)) = stream(ms) \o bytes(m)
<1> DEFINE more == Append(ms, m)
           parts(q) == [i \in DOMAIN q |-> bytes(q[i])]
<1>1. /\ more \in Seq(M) /\ Len(more) = Len(ms) + 1 /\ Len(ms) \in Nat
      /\ (\A i \in 1 .. Len(ms) : more[i] = ms[i]) /\ more[Len(ms) + 1] = m
      /\ DOMAIN ms = 1 .. Len(ms) /\ DOMAIN more = 1 .. Len(ms) + 1
  BY AppendProperties, LenProperties
<1> HIDE DEF more
<1>2. PICK p \in Seq(Seq(M \X Nat)) : p = parts(ms)
  BY PartsType
<1>3. PICK b \in Seq(M \X Nat) : b = bytes(m)
  BY BytesType
<1>4. PICK q \in Seq(Seq(M \X Nat)) : q = parts(more)
  BY <1>1, PartsType
<1>5. Len(p) = Len(ms) /\ \A i \in 1 .. Len(ms) : p[i] = bytes(ms[i])
  BY <1>1, <1>2
<1>6. Len(q) = Len(ms) + 1 /\ \A i \in 1 .. Len(ms) + 1 : q[i] = bytes(more[i])
  BY <1>1, <1>4
<1>7. q = Append(p, b)
  <2>1. /\ Append(p, b) \in Seq(Seq(M \X Nat)) /\ Len(Append(p, b)) = Len(p) + 1
        /\ (\A i \in 1 .. Len(p) : Append(p, b)[i] = p[i]) /\ Append(p, b)[Len(p) + 1] = b
    BY AppendProperties
  <2>2. ASSUME NEW i \in 1 .. Len(q) PROVE q[i] = Append(p, b)[i]
    <3>1. CASE i \in 1 .. Len(ms)
      BY <3>1, <1>1, <1>5, <1>6, <2>1
    <3>2. CASE i = Len(ms) + 1
      <4>1. q[i] = b
        BY <3>2, <1>1, <1>3, <1>6
      <4> QED
        BY <3>2, <4>1, <1>5, <2>1
    <3>3. \A n \in Nat : \A j \in 1 .. n + 1 : j \in 1 .. n \/ j = n + 1
      OBVIOUS
    <3>4. i \in 1 .. Len(ms) + 1
      BY <1>6
    <3> QED
      BY <1>1, <3>1, <3>2, <3>3, <3>4
  <2>3. Len(q) = Len(Append(p, b))
    BY <1>5, <1>6, <2>1
  <2> QED
    BY <2>1, <2>2, <2>3, SeqEqual
<1>8. FlattenSeq(Append(p, b)) = FlattenSeq(p) \o b
  BY FlattenAppend
<1> QED
  BY <1>2, <1>3, <1>4, <1>7, <1>8 DEF stream, more

\* Two sequences of messages one after the other.
LEMMA StreamConcat ==
    ASSUME NEW ms \in Seq(Messages), NEW ns \in Seq(Messages)
    PROVE  stream(ms \o ns) = stream(ms) \o stream(ns)
<1> DEFINE T == {n \in Nat : \A u \in Seq(Messages) : Len(u) = n => stream(ms \o u) = stream(ms) \o stream(u)}
<1>1. 0 \in T
  <2>1. \A u \in Seq(Messages) : Len(u) = 0 => u = <<>>
    BY EmptySeq
  <2>2. stream(ms \o <<>>) = stream(ms) \o stream(<<>>)
    <3>1. PICK b \in Seq(ByteType) : b = stream(ms)
      BY PartsType DEF ByteType
    <3>2. ms \o <<>> = ms /\ b \o <<>> = b
      BY ConcatEmptySeq
    <3> QED
      BY <3>1, <3>2, StreamEmpty
  <2> QED
    BY <2>1, <2>2
<1>2. ASSUME NEW n \in T PROVE n + 1 \in T
  <2>1. n \in Nat /\ \A u \in Seq(Messages) : Len(u) = n => stream(ms \o u) = stream(ms) \o stream(u)
    BY <1>2
  <2>2. ASSUME NEW u \in Seq(Messages), Len(u) = n + 1
        PROVE  stream(ms \o u) = stream(ms) \o stream(u)
    <3>1. u # <<>>
      BY <2>1, <2>2, EmptySeq
    <3>2. PICK v \in Seq(Messages), x \in Messages : u = Append(v, x)
      BY <3>1, SequenceEmptyOrAppend
    <3>3. Len(v) = n
      <4>1. Len(Append(v, x)) = Len(v) + 1 /\ Len(v) \in Nat
        BY AppendProperties, LenProperties
      <4> QED
        BY <2>1, <2>2, <3>2, <4>1
    <3>4. ms \o v \in Seq(Messages) /\ ms \o u = Append(ms \o v, x)
      BY <3>2, ConcatAppend
    <3>5. stream(ms \o u) = stream(ms \o v) \o bytes(x) /\ stream(u) = stream(v) \o bytes(x)
      BY <3>2, <3>4, StreamAppend
    <3>6. PICK a \in Seq(ByteType) : a = stream(ms)
      BY PartsType DEF ByteType
    <3>7. PICK b \in Seq(ByteType) : b = stream(v)
      BY PartsType DEF ByteType
    <3>8. PICK c \in Seq(ByteType) : c = bytes(x)
      BY BytesType DEF ByteType
    <3>9. (a \o b) \o c = a \o (b \o c)
      <4>1. Associates(ByteType)
        BY ConcatAssociates, Zenon
      <4> QED
        BY <4>1, Zenon DEF Associates
    <3> QED
      BY <2>1, <3>3, <3>5, <3>6, <3>7, <3>8, <3>9
  <2> QED
    BY <2>1, <2>2
<1> HIDE DEF T
<1>3. T = Nat
  BY <1>1, <1>2, SetInduction DEF T
<1>4. Len(ns) \in Nat
  BY LenProperties
<1> QED
  BY <1>3, <1>4 DEF T

\* A complete message at the front of the buffer is the next of those the peer
\* sent, and what is behind it the stream of the rest.
LEMMA NextMessage ==
    ASSUME NEW buf \in Seq(ByteType), NEW more \in Seq(ByteType), NEW pending \in Seq(Messages),
           buf \o more = stream(pending), complete(buf)
    PROVE  LET m == Head(buf)[1]
           IN  /\ m \in Messages /\ Drop(buf, size(m)) \in Seq(ByteType)
               /\ \E rest \in Seq(Messages) :
                     /\ pending = <<m>> \o rest
                     /\ Drop(buf, size(m)) \o more = stream(rest)
<1>1. buf # <<>> /\ Len(buf) \in Nat \ {0} /\ Len(more) \in Nat
  BY EmptySeq, LenProperties DEF complete
<1>2. Len(buf \o more) = Len(buf) + Len(more) /\ (buf \o more)[1] = buf[1]
  BY <1>1, ConcatProperties
<1>3. pending # <<>>
  BY <1>1, <1>2, StreamEmpty
<1>4. PICK p \in Messages, rest \in Seq(Messages) : pending = <<p>> \o rest
  <2>1. Head(pending) \in Messages /\ Tail(pending) \in Seq(Messages)
    BY <1>3, HeadTailProperties
  <2>2. pending = <<Head(pending)>> \o Tail(pending)
    BY <1>3
  <2> QED
    BY <2>1, <2>2
<1>5. PICK b \in Seq(ByteType) : b = bytes(p)
  BY BytesType DEF ByteType
<1>6. PICK r \in Seq(ByteType) : r = stream(rest)
  BY PartsType DEF ByteType
<1>7. stream(pending) = b \o r
  <2>1. <<p>> \in Seq(Messages) /\ Append(<<>>, p) = <<p>> /\ <<>> \in Seq(Messages)
    OBVIOUS
  <2>2. stream(<<p>>) = stream(<<>>) \o bytes(p)
    BY <2>1, StreamAppend
  <2>3. stream(<<p>>) = b
    BY <2>2, <1>5, StreamEmpty, ConcatEmptySeq
  <2> QED
    BY <1>4, <1>6, <2>1, <2>3, StreamConcat
<1>8. Len(b) = size(p) /\ Len(b) \in Nat \ {0} /\ b[1] = <<p, 1>> /\ Len(r) \in Nat
  BY <1>5, BytesType, LenProperties
<1>9. (b \o r)[1] = b[1]
  BY <1>8, ConcatProperties
<1>10. Head(buf) = <<p, 1>> /\ Head(buf)[1] = p
  BY <1>1, <1>2, <1>7, <1>8, <1>9
<1>11. Len(b) <= Len(buf)
  BY <1>8, <1>10 DEF complete
<1>12. Drop(buf, Len(b)) \in Seq(ByteType) /\ Drop(buf, Len(b)) \o more = r
  <2>1. buf \o more = b \o r
    BY <1>7
  <2>2. \A a, w, c, q \in Seq(ByteType) :
              a \o w = c \o q /\ Len(c) <= Len(a)
                => Drop(a, Len(c)) \in Seq(ByteType) /\ Drop(a, Len(c)) \o w = q
    BY CutFront
  <2>3. buf \o more = b \o r /\ Len(b) <= Len(buf)
                => Drop(buf, Len(b)) \in Seq(ByteType) /\ Drop(buf, Len(b)) \o more = r
    BY <2>2
  <2> QED
    BY <2>1, <2>3, <1>11
<1> QED
  BY <1>4, <1>6, <1>8, <1>10, <1>12

\* A handler pushes one reply or none.
LEMMA CallbackType ==
    ASSUME NEW m \in Messages
    PROVE  /\ msg_callback(m).rc \in {0, -1}
           /\ msg_callback(m).replies = <<>> \/ \E r \in ReplyNames : msg_callback(m).replies = <<r>>
<1>1. kind[m] \in Kinds
  BY MessagesAssumption
<1> QED
  BY <1>1 DEF Kinds, ReplyNames, msg_callback, on_message_version, on_message_verack, on_message_inv,
       on_message_ping, on_message_headers, on_message_other

\* What a handler pushes, as bytes.
LEMMA PushType ==
    ASSUME NEW m \in Messages, NEW q \in Seq(ReplyNames)
    PROVE  /\ q \o msg_callback(m).replies \in Seq(ReplyNames)
           /\ stream(msg_callback(m).replies) \in Seq(ReplyByteType)
           /\ stream(q \o msg_callback(m).replies) = stream(q) \o stream(msg_callback(m).replies)
<1>0. PICK b \in Seq(ReplyByteType) : b = stream(q)
  BY PartsType DEF ReplyByteType
<1>1. CASE msg_callback(m).replies = <<>>
  <2>1. q \o <<>> = q /\ b \o <<>> = b /\ <<>> \in Seq(ReplyByteType)
    BY ConcatEmptySeq
  <2> QED
    BY <1>0, <1>1, <2>1, StreamEmpty
<1>2. ASSUME NEW r \in ReplyNames, msg_callback(m).replies = <<r>>
      PROVE  /\ q \o msg_callback(m).replies \in Seq(ReplyNames)
             /\ stream(msg_callback(m).replies) \in Seq(ReplyByteType)
             /\ stream(q \o msg_callback(m).replies) = stream(q) \o stream(msg_callback(m).replies)
  <2>1. Append(q, r) = q \o <<r>> /\ Append(q, r) \in Seq(ReplyNames)
    BY AppendIsConcat, AppendProperties
  <2>2. PICK c \in Seq(ReplyByteType) : c = bytes(r)
    BY BytesType DEF ReplyByteType
  <2>3. stream(<<r>>) = c
    <3>1. Append(<<>>, r) = <<r>> /\ <<>> \in Seq(ReplyNames)
      OBVIOUS
    <3>2. stream(<<r>>) = stream(<<>>) \o bytes(r)
      BY <3>1, StreamAppend
    <3> QED
      BY <3>2, <2>2, StreamEmpty, ConcatEmptySeq
  <2>4. stream(Append(q, r)) = stream(q) \o bytes(r)
    BY StreamAppend
  <2> QED
    BY <1>2, <2>1, <2>2, <2>3, <2>4
<1> QED
  BY <1>1, <1>2, CallbackType

LEMMA RepliesType ==
    ASSUME NEW m \in Messages
    PROVE  msg_callback(m).replies \in Seq(ReplyNames)
<1>1. <<>> \in Seq(ReplyNames) /\ \A r \in ReplyNames : <<r>> \in Seq(ReplyNames)
  OBVIOUS
<1> QED
  BY <1>1, CallbackType

\* The replies to one more message.
LEMMA RepliesAppend ==
    ASSUME NEW ms \in Seq(Messages)
    PROVE  /\ repliesTo(ms) \in Seq(ReplyNames)
           /\ \A m \in Messages : repliesTo(Append(ms, m)) = repliesTo(ms) \o msg_callback(m).replies
<1> DEFINE parts(q) == [i \in DOMAIN q |-> msg_callback(q[i]).replies]
<1>1. ASSUME NEW q \in Seq(Messages) PROVE parts(q) \in Seq(Seq(ReplyNames))
  <2>1. DOMAIN q = 1 .. Len(q) /\ Len(q) \in Nat /\ \A i \in 1 .. Len(q) : q[i] \in Messages
    BY LenProperties, ElementOfSeq
  <2>2. \A i \in 1 .. Len(q) : msg_callback(q[i]).replies \in Seq(ReplyNames)
    BY <2>1, RepliesType
  <2>3. parts(q) \in [1 .. Len(q) -> Seq(ReplyNames)]
    BY <2>1, <2>2
  <2> QED
    BY <2>1, <2>3
<1>2. PICK p \in Seq(Seq(ReplyNames)) : p = parts(ms)
  BY <1>1
<1>3. repliesTo(ms) = FlattenSeq(p) /\ FlattenSeq(p) \in Seq(ReplyNames)
  BY <1>2, FlattenType DEF repliesTo
<1>4. ASSUME NEW m \in Messages
      PROVE  repliesTo(Append(ms, m)) = repliesTo(ms) \o msg_callback(m).replies
  <2> DEFINE more == Append(ms, m)
  <2>1. /\ more \in Seq(Messages) /\ Len(more) = Len(ms) + 1 /\ Len(ms) \in Nat
        /\ (\A i \in 1 .. Len(ms) : more[i] = ms[i]) /\ more[Len(ms) + 1] = m
        /\ DOMAIN ms = 1 .. Len(ms) /\ DOMAIN more = 1 .. Len(ms) + 1
    BY AppendProperties, LenProperties
  <2> HIDE DEF more
  <2>2. PICK b \in Seq(ReplyNames) : b = msg_callback(m).replies
    BY RepliesType
  <2>3. PICK q \in Seq(Seq(ReplyNames)) : q = parts(more)
    BY <2>1, <1>1
  <2>4. Len(p) = Len(ms) /\ \A i \in 1 .. Len(ms) : p[i] = msg_callback(ms[i]).replies
    BY <2>1, <1>2
  <2>5. Len(q) = Len(ms) + 1 /\ \A i \in 1 .. Len(ms) + 1 : q[i] = msg_callback(more[i]).replies
    BY <2>1, <2>3
  <2>6. q = Append(p, b)
    <3>1. /\ Append(p, b) \in Seq(Seq(ReplyNames)) /\ Len(Append(p, b)) = Len(p) + 1
          /\ (\A i \in 1 .. Len(p) : Append(p, b)[i] = p[i]) /\ Append(p, b)[Len(p) + 1] = b
      BY AppendProperties
    <3>2. ASSUME NEW i \in 1 .. Len(q) PROVE q[i] = Append(p, b)[i]
      <4>1. CASE i \in 1 .. Len(ms)
        BY <4>1, <2>1, <2>4, <2>5, <3>1
      <4>2. CASE i = Len(ms) + 1
        <5>1. q[i] = b
          BY <4>2, <2>1, <2>2, <2>5
        <5> QED
          BY <4>2, <5>1, <2>4, <3>1
      <4>3. \A n \in Nat : \A j \in 1 .. n + 1 : j \in 1 .. n \/ j = n + 1
        OBVIOUS
      <4>4. i \in 1 .. Len(ms) + 1
        BY <2>5
      <4> QED
        BY <2>1, <4>1, <4>2, <4>3, <4>4
    <3>3. Len(q) = Len(Append(p, b))
      BY <2>4, <2>5, <3>1
    <3> QED
      BY <3>1, <3>2, <3>3, SeqEqual
  <2>7. FlattenSeq(Append(p, b)) = FlattenSeq(p) \o b
    BY FlattenAppend
  <2> QED
    BY <1>3, <2>2, <2>3, <2>6, <2>7 DEF repliesTo, more
<1> QED
  BY <1>3, <1>4
-----------------------------------------------------------------------------
(* The loop *)

\* Every step keeps the types, and the loop stays within its retries.
LEMMA TypeStep == TypeOK /\ RetryInv /\ [Next]_vars => TypeOK' /\ RetryInv'
<1> SUFFICES ASSUME TypeOK, RetryInv, [Next]_vars PROVE TypeOK' /\ RetryInv'
  OBVIOUS
<1> USE MessagesAssumption
<1>1. CASE run_ends \/ resolve_fails
  BY <1>1 DEF run_ends, resolve_fails, Goto, TypeOK, RetryInv, loopVars, nodeVars, netVars
<1>2. CASE connect_fails
  BY <1>2 DEF connect_fails, may_retry, TypeOK, RetryInv, nodeVars, netVars
<1>3. CASE connect
  <2>1. PICK b \in Seq(ReplyByteType) : b = bytes("version")
    BY BytesType DEF ReplyByteType, ReplyNames
  <2>2. <<>> \o b = b /\ <<>> \in Seq(ReplyByteType) /\ <<>> \in Seq(ByteType) /\ <<>> \in Seq(Messages)
    BY ConcatEmptySeq
  <2>3. out_buf' = b /\ in_buf' = <<>> /\ wire' = <<>> /\ sent' = <<>> /\ handled' = <<>> /\ written' = <<>>
    BY <1>3, <2>1, <2>2 DEF connect, fresh_buffer
  <2>4. /\ pc' = "poll" /\ fd' = "open" /\ events' = TRUE /\ unread' = 0 /\ peer' = "up"
        /\ retries < max_retries /\ UNCHANGED <<quit, rc, retries, revents, nodeVars>>
    BY <1>3 DEF connect, may_retry, Goto
  <2>5. RetryInv'
    BY <2>4 DEF RetryInv
  <2> QED
    BY <2>2, <2>3, <2>4, <2>5 DEF TypeOK, nodeVars, ByteType, ReplyByteType
<1>4. CASE poll_ready
  BY <1>4 DEF poll_ready, want_pollout, Readable, Goto, TypeOK, RetryInv, nodeVars, netVars
<1>5. CASE poll_leaves
  BY <1>5 DEF poll_leaves, Goto, TypeOK, RetryInv, nodeVars, netVars
<1>6. CASE check
  BY <1>6 DEF check, Goto, TypeOK, RetryInv, nodeVars, netVars
<1>7. CASE read_some
  <2>1. PICK n \in 1 .. Len(wire) :
          in_buf' = in_buf \o SubSeq(wire, 1, n) /\ wire' = Drop(wire, n)
    <3>1. Len(wire) \in Nat
      BY LenProperties DEF TypeOK
    <3>2. PICK n \in 1 .. Least(chunk, Len(wire)) :
            in_buf' = in_buf \o SubSeq(wire, 1, n) /\ wire' = Drop(wire, n)
      BY <1>7 DEF read_some
    <3>3. n \in 1 .. Len(wire)
      BY <3>1, <3>2 DEF Least
    <3> QED
      BY <3>2, <3>3
  <2>2. in_buf \in Seq(ByteType) /\ wire \in Seq(ByteType)
    BY DEF TypeOK, ByteType
  <2>3. in_buf' \in Seq(ByteType) /\ wire' \in Seq(ByteType)
    BY <2>1, <2>2, Moved
  <2> QED
    BY <1>7, <2>3 DEF read_some, Goto, TypeOK, RetryInv, loopVars, nodeVars, ByteType
<1>8. CASE read_would_block
  BY <1>8 DEF read_would_block, want_pollout, AfterRead, Goto, TypeOK, RetryInv, nodeVars, netVars
<1>9. CASE read_fails \/ parse_fails \/ write_fails
  BY <1>9 DEF read_fails, parse_fails, write_fails, Goto, TypeOK, RetryInv, nodeVars, netVars
<1>10. CASE parse_waits \/ write_killed
  BY <1>10 DEF parse_waits, write_killed, Goto, TypeOK, RetryInv, loopVars, nodeVars, netVars
<1>11. CASE handle_message
  <2> DEFINE m == Head(in_buf)[1]
  <2>1. in_buf \in Seq(ByteType) /\ in_buf # <<>> /\ size(m) <= Len(in_buf) /\ Len(in_buf) \in Nat
    BY <1>11, LenProperties DEF handle_message, complete, TypeOK, ByteType
  <2>2. m \in Messages
    <3>1. Head(in_buf) \in ByteType
      BY <2>1, HeadTailProperties
    <3> QED
      BY <3>1 DEF ByteType
  <2> HIDE DEF m
  <2>3. size(m) \in Nat \ {0}
    BY <2>2, BytesType
  <2>4. size(m) \in 1 .. Len(in_buf)
    BY <2>1, <2>3
  <2>5. Drop(in_buf, size(m)) \in Seq(ByteType)
    BY <2>1, <2>4, Moved
  <2>6. PICK c \in Seq(ReplyByteType) : c = stream(msg_callback(m).replies)
    <3>1. <<>> \in Seq(ReplyNames)
      OBVIOUS
    <3> QED
      BY <2>2, <3>1, PushType
  <2>7. out_buf \o c \in Seq(ReplyByteType)
    BY ConcatProperties DEF TypeOK, ReplyByteType
  <2>8. Append(handled, m) \in Seq(Messages)
    BY <2>2, AppendProperties DEF TypeOK
  <2>9. msg_callback(m).rc \in {0, -1}
    BY <2>2, CallbackType
  <2>10. /\ rc' = msg_callback(m).rc /\ in_buf' = Drop(in_buf, size(m)) /\ out_buf' = out_buf \o c
         /\ handled' = Append(handled, m) /\ pc' = "parse" /\ pc = "parse"
         /\ peer_version' \in {1, peer_version} /\ send_headers_flag' \in {1, send_headers_flag}
         /\ addrs_list' \in {addrs_list \cup {m}, addrs_list}
         /\ UNCHANGED <<quit, retries, fd, events, revents, netVars>>
    BY <1>11, <2>6 DEF handle_message, m, push, next_message, Goto, on_message_addr
  <2> QED
    BY <2>2, <2>5, <2>7, <2>8, <2>9, <2>10 DEF TypeOK, RetryInv, netVars, ByteType, ReplyByteType
<1>12. CASE write_some
  <2>1. window - unread \in Nat /\ unread \in Nat /\ Len(out_buf) \in Nat
    BY LenProperties DEF TypeOK
  <2>2. PICK n \in 1 .. (IF peer = "up" THEN Least(window - unread, Len(out_buf)) ELSE Len(out_buf)) :
          /\ written' = written \o SubSeq(out_buf, 1, n) /\ out_buf' = Drop(out_buf, n)
          /\ unread' = IF peer = "up" THEN unread + n ELSE unread
    BY <1>12 DEF write_some
  <2>3. n \in 1 .. Len(out_buf) /\ unread' \in 0 .. window
    BY <2>1, <2>2 DEF Least, TypeOK
  <2>4. written \in Seq(ReplyByteType) /\ out_buf \in Seq(ReplyByteType)
    BY DEF TypeOK, ReplyByteType
  <2>5. written' \in Seq(ReplyByteType) /\ out_buf' \in Seq(ReplyByteType)
    BY <2>2, <2>3, <2>4, Moved
  <2> QED
    BY <1>12, <2>3, <2>5 DEF write_some, TypeOK, RetryInv, loopVars, nodeVars, ReplyByteType
<1>13. CASE write_done
  BY <1>13 DEF write_done, Goto, TypeOK, RetryInv, nodeVars, netVars
<1>14. ASSUME NEW m \in Messages, peer_sends(m) PROVE TypeOK' /\ RetryInv'
  <2>1. Append(sent, m) \in Seq(Messages)
    BY AppendProperties DEF TypeOK
  <2>2. PICK b \in Seq(ByteType) : b = bytes(m)
    BY BytesType DEF ByteType
  <2>3. wire \o b \in Seq(ByteType)
    BY ConcatProperties DEF TypeOK, ByteType
  <2> QED
    BY <1>14, <2>1, <2>2, <2>3 DEF peer_sends, localVars, TypeOK, RetryInv, loopVars, nodeVars, ByteType
<1>15. CASE peer_reads \/ on_signal
  <2>1. CASE peer_reads
    BY <2>1 DEF peer_reads, localVars, TypeOK, RetryInv, loopVars, nodeVars
  <2>2. CASE on_signal
    BY <2>2 DEF on_signal, localVars, TypeOK, RetryInv, loopVars, nodeVars, netVars
  <2> QED
    BY <1>15, <2>1, <2>2
<1>16. ASSUME NEW how \in {"closed", "reset"}, peer_leaves(how) PROVE TypeOK' /\ RetryInv'
  <2>1. wire' \in {wire, <<>>} /\ <<>> \in Seq(ByteType)
    BY <1>16 DEF peer_leaves
  <2> QED
    BY <1>16, <2>1 DEF peer_leaves, localVars, TypeOK, RetryInv, loopVars, nodeVars, ByteType
<1>17. CASE Stopped \/ UNCHANGED vars
  <2>1. UNCHANGED vars
    BY <1>17 DEF Stopped
  <2> QED
    BY <2>1 DEF vars, TypeOK, RetryInv, loopVars, nodeVars, netVars
<1> QED
  BY <1>1, <1>2, <1>3, <1>4, <1>5, <1>6, <1>7, <1>8, <1>9, <1>10, <1>11, <1>12, <1>13, <1>14, <1>15,
     <1>16, <1>17 DEF Next, Node, Environment

\* Where the bytes of the peer are changes only by these steps.
LEMMA InputFrame ==
    ASSUME [Next]_vars
    PROVE  \/ UNCHANGED <<sent, handled, in_buf, wire, peer>>
           \/ connect \/ read_some \/ handle_message
           \/ \E m \in Messages : peer_sends(m)
           \/ \E how \in {"closed", "reset"} : peer_leaves(how)
BY DEF Next, Node, Environment, Stopped, vars, run_ends, resolve_fails, connect_fails, poll_ready,
       poll_leaves, check, read_would_block, read_fails, parse_waits, parse_fails, write_some, write_fails,
       write_killed, write_done, peer_reads, on_signal, localVars, netVars

\* The next message joins those before it.
LEMMA OneMore ==
    ASSUME NEW S
    PROVE  \A h, r \in Seq(S) : \A x \in S : h \o (<<x>> \o r) = Append(h, x) \o r
<1> SUFFICES ASSUME NEW h \in Seq(S), NEW r \in Seq(S), NEW x \in S
             PROVE  h \o (<<x>> \o r) = Append(h, x) \o r
  BY Zenon
<1>1. Associates(S)
  BY ConcatAssociates, Zenon
<1>2. <<x>> \in Seq(S)
  OBVIOUS
<1>3. (h \o <<x>>) \o r = h \o (<<x>> \o r)
  BY <1>1, <1>2 DEF Associates
<1>4. Append(h, x) = h \o <<x>>
  BY AppendIsConcat
<1> QED
  BY <1>3, <1>4, Zenon

\* Reading moves bytes to in_buf, handling takes the next message away.
LEMMA InputStep == TypeOK /\ InputInv /\ [Next]_vars => InputInv'
<1> SUFFICES ASSUME TypeOK, InputInv, [Next]_vars PROVE InputInv'
  OBVIOUS
<1>1. /\ sent \in Seq(Messages) /\ handled \in Seq(Messages)
      /\ in_buf \in Seq(ByteType) /\ wire \in Seq(ByteType)
  BY DEF TypeOK, ByteType
<1>2. PICK pending \in Seq(Messages), lost \in Seq(ByteType) :
        /\ sent = handled \o pending
        /\ (in_buf \o wire) \o lost = stream(pending)
        /\ peer # "reset" => lost = <<>>
  BY DEF InputInv
<1>3. CASE UNCHANGED <<sent, handled, in_buf, wire, peer>>
  BY <1>2, <1>3 DEF InputInv
<1>4. CASE connect
  <2>1. sent' = <<>> /\ handled' = <<>> /\ in_buf' = <<>> /\ wire' = <<>>
    BY <1>4 DEF connect, fresh_buffer
  <2>2. <<>> \o <<>> = <<>> /\ <<>> \in Seq(Messages) /\ <<>> \in Seq(ByteType)
    OBVIOUS
  <2>3. sent' = handled' \o <<>> /\ (in_buf' \o wire') \o <<>> = stream(<<>>)
    BY <2>1, <2>2, StreamEmpty
  <2> QED
    BY <2>2, <2>3 DEF InputInv
<1>5. CASE read_some
  <2>1. PICK n \in 1 .. Len(wire) :
          in_buf' = in_buf \o SubSeq(wire, 1, n) /\ wire' = Drop(wire, n)
    <3>1. Len(wire) \in Nat
      BY LenProperties DEF TypeOK
    <3>2. PICK n \in 1 .. Least(chunk, Len(wire)) :
            in_buf' = in_buf \o SubSeq(wire, 1, n) /\ wire' = Drop(wire, n)
      BY <1>5 DEF read_some
    <3>3. n \in 1 .. Len(wire)
      BY <3>1, <3>2, MessagesAssumption DEF Least
    <3> QED
      BY <3>2, <3>3
  <2>2. in_buf' \o wire' = in_buf \o wire
    <3>1. PICK b \in Seq(ByteType) : b = in_buf
      BY <1>1
    <3>2. PICK w \in Seq(ByteType) : w = wire
      BY <1>1
    <3>3. n \in 1 .. Len(w)
      BY <2>1, <3>2
    <3>4. (b \o SubSeq(w, 1, n)) \o Drop(w, n) = b \o w
      <4>1. \A u, v \in Seq(ByteType) : \A k \in 1 .. Len(v) :
              /\ SubSeq(v, 1, k) \in Seq(ByteType) /\ Drop(v, k) \in Seq(ByteType)
              /\ u \o SubSeq(v, 1, k) \in Seq(ByteType)
              /\ (u \o SubSeq(v, 1, k)) \o Drop(v, k) = u \o v
        BY Moved
      <4> QED
        BY <3>3, <4>1
    <3> QED
      BY <2>1, <3>1, <3>2, <3>4
  <2>3. sent' = sent /\ handled' = handled /\ peer' = peer
    BY <1>5 DEF read_some
  <2>4. sent' = handled' \o pending /\ (in_buf' \o wire') \o lost = stream(pending)
        /\ (peer' # "reset" => lost = <<>>)
    BY <1>2, <2>2, <2>3
  <2> QED
    BY <2>4 DEF InputInv
<1>6. CASE handle_message
  <2> DEFINE m == Head(in_buf)[1]
  <2>1. /\ complete(in_buf) /\ in_buf' = Drop(in_buf, size(m)) /\ handled' = Append(handled, m)
        /\ sent' = sent /\ wire' = wire /\ peer' = peer
    BY <1>6 DEF handle_message, netVars
  <2>2. PICK b \in Seq(ByteType) : b = in_buf
    BY <1>1
  <2>3. PICK w \in Seq(ByteType) : w = wire
    BY <1>1
  <2>4. PICK more \in Seq(ByteType) : more = w \o lost
    BY ConcatProperties
  <2>5. b \o more = stream(pending)
    <3>1. (b \o w) \o lost = b \o (w \o lost)
      OBVIOUS
    <3> QED
      BY <1>2, <2>2, <2>3, <2>4, <3>1
  <2>6. PICK rest \in Seq(Messages) :
          /\ m \in Messages /\ Drop(in_buf, size(m)) \in Seq(ByteType)
          /\ pending = <<m>> \o rest
          /\ Drop(in_buf, size(m)) \o more = stream(rest)
    <3>1. complete(b)
      BY <2>1, <2>2
    <3>2. LET h == Head(b)[1]
          IN  /\ h \in Messages /\ Drop(b, size(h)) \in Seq(ByteType)
              /\ \E rest \in Seq(Messages) :
                    /\ pending = <<h>> \o rest
                    /\ Drop(b, size(h)) \o more = stream(rest)
      BY <2>5, <3>1, NextMessage
    <3> QED
      BY <2>2, <3>2
  <2> HIDE DEF m
  <2>7. PICK d \in Seq(ByteType) : d = Drop(in_buf, size(m))
    BY <2>6
  <2>8. (d \o w) \o lost = d \o (w \o lost)
    OBVIOUS
  <2>9. handled \o (<<m>> \o rest) = Append(handled, m) \o rest
    <3>1. PICK h \in Seq(Messages) : h = handled
      BY <1>1
    <3>2. PICK x \in Messages : x = m
      BY <2>6
    <3>3. h \o (<<x>> \o rest) = Append(h, x) \o rest
      <4>1. \A u, v \in Seq(Messages) : \A y \in Messages : u \o (<<y>> \o v) = Append(u, y) \o v
        BY OneMore
      <4> QED
        BY <4>1
    <3> QED
      BY <3>1, <3>2, <3>3, Zenon
  <2>10. sent' = handled' \o rest /\ (in_buf' \o wire') \o lost = stream(rest)
         /\ (peer' # "reset" => lost = <<>>)
    BY <1>2, <2>1, <2>3, <2>4, <2>6, <2>7, <2>8, <2>9
  <2> QED
    BY <2>10 DEF InputInv
<1>7. ASSUME NEW m \in Messages, peer_sends(m) PROVE InputInv'
  <2>1. /\ sent' = Append(sent, m) /\ wire' = wire \o bytes(m) /\ peer = "up" /\ peer' = peer
        /\ handled' = handled /\ in_buf' = in_buf
    BY <1>7 DEF peer_sends, localVars
  <2>2. lost = <<>> /\ in_buf \o wire = stream(pending)
    <3>1. PICK b \in Seq(ByteType) : b = in_buf
      BY <1>1
    <3>2. PICK w \in Seq(ByteType) : w = wire
      BY <1>1
    <3>3. (b \o w) \o <<>> = b \o w
      OBVIOUS
    <3> QED
      BY <1>2, <2>1, <3>1, <3>2, <3>3
  <2>3. PICK next \in Seq(Messages) : next = Append(pending, m)
    BY AppendProperties
  <2>4. Append(sent, m) = handled \o next
    <3>1. PICK h \in Seq(Messages) : h = handled
      BY <1>1
    <3>2. h \o Append(pending, m) = Append(h \o pending, m)
      BY ConcatAppend
    <3> QED
      BY <1>2, <2>3, <3>1, <3>2
  <2>5. in_buf \o (wire \o bytes(m)) = stream(next)
    <3>1. PICK b \in Seq(ByteType) : b = in_buf
      BY <1>1
    <3>2. PICK w \in Seq(ByteType) : w = wire
      BY <1>1
    <3>3. PICK c \in Seq(ByteType) : c = bytes(m)
      BY BytesType DEF ByteType
    <3>4. b \o (w \o c) = (b \o w) \o c
      OBVIOUS
    <3>5. stream(next) = stream(pending) \o bytes(m)
      BY <2>3, StreamAppend
    <3> QED
      BY <2>2, <3>1, <3>2, <3>3, <3>4, <3>5
  <2>6. (in_buf' \o wire') \o <<>> = stream(next)
    <3>1. PICK c \in Seq(ByteType) : c = stream(next)
      BY PartsType DEF ByteType
    <3>2. c \o <<>> = c
      OBVIOUS
    <3> QED
      BY <2>1, <2>5, <3>1, <3>2
  <2>7. <<>> \in Seq(ByteType)
    OBVIOUS
  <2> QED
    BY <2>1, <2>4, <2>6, <2>7 DEF InputInv
<1>8. ASSUME NEW how \in {"closed", "reset"}, peer_leaves(how) PROVE InputInv'
  <2>1. /\ peer' = how /\ wire' = IF how = "reset" THEN <<>> ELSE wire
        /\ sent' = sent /\ handled' = handled /\ in_buf' = in_buf /\ peer = "up"
    BY <1>8 DEF peer_leaves, localVars
  <2>2. CASE how = "closed"
    BY <1>2, <2>1, <2>2 DEF InputInv
  <2>3. CASE how = "reset"
    <3>1. PICK b \in Seq(ByteType) : b = in_buf
      BY <1>1
    <3>2. PICK w \in Seq(ByteType) : w = wire
      BY <1>1
    <3>3. PICK gone \in Seq(ByteType) : gone = w \o lost
      BY ConcatProperties
    <3>4. (b \o w) \o lost = (b \o <<>>) \o (w \o lost)
      OBVIOUS
    <3>5. (in_buf' \o wire') \o gone = stream(pending)
      BY <1>2, <2>1, <2>3, <3>1, <3>2, <3>3, <3>4
    <3> QED
      BY <1>2, <2>1, <2>3, <3>5 DEF InputInv
  <2> QED
    BY <2>2, <2>3
<1> QED
  BY <1>3, <1>4, <1>5, <1>6, <1>7, <1>8, InputFrame
-----------------------------------------------------------------------------
(* What goes out *)

\* The replies change only by these steps; a connection opens by connect only.
LEMMA OutputFrame ==
    ASSUME [Next]_vars
    PROVE  \/ UNCHANGED <<written, out_buf, handled>> /\ (fd' = "open" => fd = "open")
           \/ connect \/ handle_message \/ write_some
BY DEF Next, Node, Environment, Stopped, vars, run_ends, resolve_fails, connect_fails, poll_ready,
       poll_leaves, check, read_some, read_would_block, read_fails, parse_waits, parse_fails, write_fails,
       write_killed, write_done, peer_sends, peer_leaves, peer_reads, on_signal, localVars, netVars, loopVars

\* The queue of replies holds after a handler appended its own.
LEMMA OutputStep == TypeOK /\ InputInv /\ OutputIntact /\ [Next]_vars => OutputIntact'
<1> SUFFICES ASSUME TypeOK, InputInv, OutputIntact, [Next]_vars PROVE OutputIntact'
  OBVIOUS
<1>1. /\ handled \in Seq(Messages) /\ in_buf \in Seq(ByteType)
      /\ out_buf \in Seq(ReplyByteType) /\ written \in Seq(ReplyByteType)
  BY DEF TypeOK, ByteType, ReplyByteType
<1>2. fd = "open" => written \o out_buf = bytes("version") \o stream(repliesTo(handled))
  BY DEF OutputIntact, repliesTo
<1>3. SUFFICES fd' = "open" => written' \o out_buf' = bytes("version") \o stream(repliesTo(handled'))
  BY DEF OutputIntact, repliesTo
<1>4. CASE UNCHANGED <<written, out_buf, handled>> /\ (fd' = "open" => fd = "open")
  BY <1>2, <1>4
<1>5. CASE connect
  <2>1. written' = <<>> /\ out_buf' = <<>> \o bytes("version") /\ handled' = <<>>
    BY <1>5 DEF connect, fresh_buffer
  <2>2. PICK v \in Seq(ReplyByteType) : v = bytes("version")
    BY BytesType DEF ReplyByteType, ReplyNames
  <2>3. repliesTo(<<>>) = <<>>
    <3>1. [i \in DOMAIN <<>> |-> msg_callback(<<>>[i]).replies] = <<>>
      OBVIOUS
    <3> QED
      BY <3>1, FlattenEmpty DEF repliesTo
  <2>4. <<>> \o (<<>> \o v) = v \o <<>>
    OBVIOUS
  <2> QED
    BY <2>1, <2>2, <2>3, <2>4, StreamEmpty
<1>6. CASE handle_message
  <2>1. PICK m \in Messages :
          /\ out_buf' = push(out_buf, msg_callback(m).replies) /\ handled' = Append(handled, m)
          /\ written' = written /\ fd' = fd
    <3>1. Head(in_buf)[1] \in Messages
      <4>1. in_buf # <<>>
        BY <1>6 DEF handle_message, complete
      <4>2. Head(in_buf) \in ByteType
        BY <1>1, <4>1, HeadTailProperties
      <4> QED
        BY <4>2 DEF ByteType
    <3> QED
      BY <1>6, <3>1 DEF handle_message, netVars
  <2>2. PICK q \in Seq(ReplyNames) : q = repliesTo(handled)
    BY <1>1, RepliesAppend
  <2>3. repliesTo(handled') = q \o msg_callback(m).replies
    BY <1>1, <2>1, <2>2, RepliesAppend
  <2>4. PICK r \in Seq(ReplyByteType) : r = stream(msg_callback(m).replies)
    BY <2>2, PushType
  <2>5. PICK s \in Seq(ReplyByteType) : s = stream(q)
    BY PartsType DEF ReplyByteType
  <2>6. stream(repliesTo(handled')) = s \o r
    BY <2>3, <2>4, <2>5, PushType
  <2>7. PICK v \in Seq(ReplyByteType) : v = bytes("version")
    BY BytesType DEF ReplyByteType, ReplyNames
  <2>8. PICK w \in Seq(ReplyByteType) : w = written
    BY <1>1
  <2>9. PICK o \in Seq(ReplyByteType) : o = out_buf
    BY <1>1
  <2>10. Associates(ReplyByteType)
    BY ConcatAssociates, Zenon
  <2>11. (w \o o) \o r = w \o (o \o r) /\ (v \o s) \o r = v \o (s \o r)
    BY <2>10, Zenon DEF Associates
  <2>12. fd' = "open" => w \o o = v \o s
    BY <1>2, <2>1, <2>2, <2>5, <2>7, <2>8, <2>9
  <2> QED
    BY <2>1, <2>4, <2>6, <2>7, <2>8, <2>9, <2>11, <2>12 DEF push
<1>7. CASE write_some
  <2>1. Len(out_buf) \in Nat
    BY <1>1, LenProperties
  <2>2. PICK n \in 1 .. Len(out_buf) :
          written' = written \o SubSeq(out_buf, 1, n) /\ out_buf' = Drop(out_buf, n)
    <3>1. PICK n \in 1 .. (IF peer = "up" THEN Least(window - unread, Len(out_buf)) ELSE Len(out_buf)) :
            written' = written \o SubSeq(out_buf, 1, n) /\ out_buf' = Drop(out_buf, n)
      BY <1>7 DEF write_some
    <3>2. n \in 1 .. Len(out_buf)
      BY <2>1, <3>1, MessagesAssumption DEF Least, TypeOK
    <3> QED
      BY <3>1, <3>2
  <2>3. PICK w \in Seq(ReplyByteType) : w = written
    BY <1>1
  <2>4. PICK o \in Seq(ReplyByteType) : o = out_buf
    BY <1>1
  <2>5. n \in 1 .. Len(o)
    BY <2>2, <2>4
  <2>6. (w \o SubSeq(o, 1, n)) \o Drop(o, n) = w \o o
    <3>1. \A u, v \in Seq(ReplyByteType) : \A k \in 1 .. Len(v) :
            /\ SubSeq(v, 1, k) \in Seq(ReplyByteType) /\ Drop(v, k) \in Seq(ReplyByteType)
            /\ u \o SubSeq(v, 1, k) \in Seq(ReplyByteType)
            /\ (u \o SubSeq(v, 1, k)) \o Drop(v, k) = u \o v
      BY Moved
    <3> QED
      BY <2>5, <3>1
  <2>7. handled' = handled /\ fd' = fd
    BY <1>7 DEF write_some, loopVars
  <2> QED
    BY <1>2, <2>2, <2>3, <2>4, <2>6, <2>7
<1> QED
  BY <1>4, <1>5, <1>6, <1>7, OutputFrame
-----------------------------------------------------------------------------
(* The theorems *)

LEMMA InitInv == Init => IInv
<1> SUFFICES ASSUME Init PROVE IInv
  OBVIOUS
<1>1. TypeOK /\ RetryInv
  <2>1. NoEvents \in [pollin : BOOLEAN, pollout : BOOLEAN, hup : BOOLEAN]
    BY DEF NoEvents
  <2>2. /\ <<>> \in Seq(Messages \X Nat) /\ <<>> \in Seq(ReplyNames \X Nat) /\ <<>> \in Seq(Messages)
        /\ 0 \in 0 .. max_retries /\ 0 \in 0 .. window
    BY MessagesAssumption
  <2> QED
    BY <2>1, <2>2 DEF Init, TypeOK, RetryInv
<1>2. InputInv
  <2>1. <<>> \o <<>> = <<>> /\ <<>> \in Seq(Messages) /\ <<>> \in Seq(ByteType)
    OBVIOUS
  <2>2. sent = handled \o <<>> /\ (in_buf \o wire) \o <<>> = stream(<<>>)
    BY <2>1, StreamEmpty DEF Init
  <2> QED
    BY <2>1, <2>2 DEF InputInv
<1>3. OutputIntact
  BY DEF Init, OutputIntact
<1> QED
  BY <1>1, <1>2, <1>3 DEF IInv

\* IInv is inductive.
LEMMA Invariance == Spec => []IInv
<1>1. IInv /\ [Next]_vars => IInv'
  BY TypeStep, InputStep, OutputStep DEF IInv
<1> QED
  BY <1>1, InitInv, PTL DEF Spec

\* InputInv says what InputIntact says: bytes handled, read and on their way
\* are the bytes sent, or the beginning of them.
LEMMA InputFollows == TypeOK /\ InputInv => InputIntact
<1> SUFFICES ASSUME TypeOK, InputInv PROVE InputIntact
  OBVIOUS
<1>1. PICK pending \in Seq(Messages), lost \in Seq(ByteType) :
        /\ sent = handled \o pending
        /\ (in_buf \o wire) \o lost = stream(pending)
        /\ peer # "reset" => lost = <<>>
  BY DEF InputInv
<1>2. PICK h \in Seq(Messages) : h = handled
  BY DEF TypeOK
<1>3. PICK s \in Seq(ByteType) : s = stream(h)
  BY PartsType DEF ByteType
<1>4. PICK b \in Seq(ByteType) : b = in_buf
  BY DEF TypeOK, ByteType
<1>5. PICK w \in Seq(ByteType) : w = wire
  BY DEF TypeOK, ByteType
<1>6. stream(sent) = s \o ((b \o w) \o lost)
  <2>1. stream(h \o pending) = stream(h) \o stream(pending)
    BY StreamConcat
  <2> QED
    BY <1>1, <1>2, <1>3, <1>4, <1>5, <2>1
<1>7. PICK x \in Seq(ByteType) : x = b \o w
  BY ConcatProperties
<1>8. PICK input \in Seq(ByteType) : input = s \o x
  BY ConcatProperties
<1>9. Associates(ByteType)
  BY ConcatAssociates, Zenon
<1>10. /\ (s \o x) \o lost = s \o (x \o lost)
       /\ (s \o b) \o w = s \o (b \o w)
  <2>1. \A u \in Seq(ByteType) : (s \o x) \o u = s \o (x \o u)
    BY <1>9, Zenon DEF Associates
  <2>2. \A u \in Seq(ByteType) : (s \o b) \o u = s \o (b \o u)
    BY <1>9, Zenon DEF Associates
  <2> QED
    BY <2>1, <2>2
<1>11. stream(sent) = input \o lost /\ stream(handled) \o in_buf \o wire = input
  BY <1>2, <1>3, <1>4, <1>5, <1>6, <1>7, <1>8, <1>10
<1>12. IsPrefix(input, input \o lost)
  <2>1. Len(input) \in Nat /\ Len(lost) \in Nat /\ Len(input \o lost) = Len(input) + Len(lost)
    BY LenProperties, ConcatProperties
  <2>2. SubSeq(input \o lost, 1, Len(input)) = input
    BY SubSeqOfConcat1
  <2>3. SubSeq(input, 1, Len(input)) = input
    BY SubSeqFull
  <2> QED
    BY <2>1, <2>2, <2>3 DEF IsPrefix
<1>13. lost = <<>> => input \o lost = input
  BY ConcatEmptySeq
<1> QED
  BY <1>1, <1>11, <1>12, <1>13 DEF InputIntact

\* Every variable of the network loop has its type; rc, retries and the flags
\* stay within their ranges through any sequence of connections.
THEOREM TypeCorrect == Spec => []TypeOK
BY Invariance, PTL DEF IInv

\* However read() cuts the bytes of the peer and however many messages a
\* buffer holds, on_read() hands exactly the messages sent to the handlers, in
\* order, none twice and none skipped, on every connection.
THEOREM InputHolds == Spec => []InputIntact
<1>1. IInv => InputIntact
  BY InputFollows DEF IInv
<1> QED
  BY <1>1, Invariance, PTL

\* However write() cuts them, the bytes that go out on a connection are its
\* version message and the replies to what was handled on it, in order.
THEOREM OutputHolds == Spec => []OutputIntact
BY Invariance, PTL DEF IInv
=============================================================================
