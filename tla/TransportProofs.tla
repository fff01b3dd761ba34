--------------------------- MODULE TransportProofs ---------------------------
(***************************************************************************)
(* What holds of the data that is passed on.                               *)
(*                                                                         *)
(* The data of a TCP connection is conserved, comes out in order and is    *)
(* not forgotten in a buffer: for any amount of data, every configuration  *)
(* and every order of events.                                              *)
(*                                                                         *)
(* The client tables of the UDP relay agree, the socket a datagram goes    *)
(* out on survives the shrinking of the caches, and a dismantled relay     *)
(* keeps no socket but those of late names: for any number of clients and  *)
(* descriptors and any cache sizes.                                        *)
(***************************************************************************)
EXTENDS TCPStream, UDPRelay, SequenceLemmas, SequenceTheorems, FiniteSetTheorems, TLAPS

-----------------------------------------------------------------------------
(* What a stream may do.                                                   *)

\* Stream t is s after it produced the pieces d: a part of them was sent and the
\* others joined the buffer.
Produced(s, t, d, a, b) ==
    /\ a \in Seq(Nat) /\ b \in Seq(Nat) /\ a \o b = d
    /\ t.sent = s.sent \o a /\ t.buf = s.buf \o b /\ t.next = s.next + Len(d)

\* Stream t is s after the first part of its buffer was sent.
Flushed(s, t, a, b) ==
    /\ a \in Seq(Nat) /\ b \in Seq(Nat) /\ s.buf = a \o b
    /\ t.sent = s.sent \o a /\ t.buf = b /\ t.next = s.next

Has(x, i) == \E j \in 1 .. Len(x) : x[j] = i

LEMMA Associative ==
    ASSUME NEW x \in Seq(Nat), NEW y \in Seq(Nat), NEW z \in Seq(Nat)
    PROVE  (x \o y) \o z = x \o (y \o z)
<1> DEFINE S == Nat
<1>1. x \in Seq(S) /\ y \in Seq(S) /\ z \in Seq(S)
  OBVIOUS
<1> HIDE DEF S
<1>2. QED
  BY ONLY <1>1, ConcatAssociative, SMTT(60)

LEMMA SumAssociative ==
    ASSUME NEW x \in Nat, NEW y \in Nat, NEW z \in Nat
    PROVE  (x + y) + z = x + (y + z)
OBVIOUS

LEMMA HasConcat ==
    ASSUME NEW x \in Seq(Nat), NEW y \in Seq(Nat), NEW i
    PROVE  Has(x \o y, i) <=> Has(x, i) \/ Has(y, i)
<1>1. /\ Len(x) \in Nat /\ Len(y) \in Nat /\ Len(x \o y) = Len(x) + Len(y)
      /\ \A j \in 1 .. Len(x) + Len(y) :
             (x \o y)[j] = IF j <= Len(x) THEN x[j] ELSE y[j - Len(x)]
  BY ConcatProperties
<1>2. ASSUME Has(x \o y, i) PROVE Has(x, i) \/ Has(y, i)
  <2>1. PICK j \in 1 .. Len(x) + Len(y) : (x \o y)[j] = i
    BY <1>1, <1>2 DEF Has
  <2>2. CASE j <= Len(x)
    BY <1>1, <2>1, <2>2 DEF Has
  <2>3. CASE ~(j <= Len(x))
    <3>1. j - Len(x) \in 1 .. Len(y)
      BY <1>1, <2>3
    <3>2. QED
      BY <1>1, <2>1, <2>3, <3>1 DEF Has
  <2>4. QED
    BY <2>2, <2>3
<1>3. ASSUME Has(x, i) PROVE Has(x \o y, i)
  <2>1. PICK j \in 1 .. Len(x) : x[j] = i
    BY <1>3 DEF Has
  <2>2. j \in 1 .. Len(x) + Len(y) /\ (x \o y)[j] = i
    BY <1>1, <2>1
  <2>3. QED
    BY <1>1, <2>2 DEF Has
<1>4. ASSUME Has(y, i) PROVE Has(x \o y, i)
  <2>1. PICK j \in 1 .. Len(y) : y[j] = i
    BY <1>4 DEF Has
  <2>2. Len(x) + j \in 1 .. Len(x) + Len(y) /\ ~(Len(x) + j <= Len(x)) /\ (Len(x) + j) - Len(x) = j
    BY <1>1, <2>1
  <2>3. QED
    BY <1>1, <2>1, <2>2 DEF Has
<1>5. QED
  BY <1>2, <1>3, <1>4

\* Complete, in terms of the two parts of a stream.
LEMMA CompleteIff ==
    ASSUME NEW s \in Streams
    PROVE  Complete(s) <=> /\ Len(s.sent) + Len(s.buf) = s.next
                           /\ \A i \in 1 .. s.next : Has(s.sent, i) \/ Has(s.buf, i)
<1>1. s.sent \in Seq(Nat) /\ s.buf \in Seq(Nat)
  BY DEF Streams
<1>2. Complete(s) <=> /\ Len(s.sent) + Len(s.buf) = s.next
                      /\ \A i \in 1 .. s.next : Has(s.sent \o s.buf, i)
  BY DEF Complete, Has
<1>3. QED
  BY <1>1, <1>2, HasConcat

\* The pieces of a stream are the numbers that follow the ones it has produced.
LEMMA PiecesAre ==
    ASSUME NEW s \in Streams, NEW n \in Nat
    PROVE  /\ Pieces(s, n) \in Seq(Nat) /\ Len(Pieces(s, n)) = n
           /\ \A i \in 1 .. n : Pieces(s, n)[i] = s.next + i
BY DEF Pieces, Streams

\* Nothing is lost by what is produced.
LEMMA ProducedComplete ==
    ASSUME NEW s \in Streams, NEW t \in Streams, NEW n \in Nat, NEW a, NEW b,
           Produced(s, t, Pieces(s, n), a, b), Complete(s)
    PROVE  Complete(t)
<1> DEFINE d == Pieces(s, n)
<1>1. s.sent \in Seq(Nat) /\ s.buf \in Seq(Nat) /\ s.next \in Nat
  BY DEF Streams
<1>2. d \in Seq(Nat) /\ Len(d) = n /\ \A i \in 1 .. n : d[i] = s.next + i
  BY PiecesAre
<1> HIDE DEF d
<1>3. /\ a \in Seq(Nat) /\ b \in Seq(Nat) /\ a \o b = d
      /\ t.sent = s.sent \o a /\ t.buf = s.buf \o b /\ t.next = s.next + n
  BY <1>2 DEF Produced, d
<1>4. /\ Len(s.sent) + Len(s.buf) = s.next
      /\ \A i \in 1 .. s.next : Has(s.sent, i) \/ Has(s.buf, i)
  BY CompleteIff
<1>5. Len(t.sent) + Len(t.buf) = t.next
  <2>1. /\ Len(s.sent \o a) = Len(s.sent) + Len(a)
        /\ Len(s.buf \o b) = Len(s.buf) + Len(b)
        /\ Len(a \o b) = Len(a) + Len(b)
    BY <1>1, <1>3
  <2>5. Len(a) \in Nat /\ Len(b) \in Nat /\ Len(s.sent) \in Nat /\ Len(s.buf) \in Nat
    BY <1>1, <1>3
  <2>2. /\ Len(t.sent) = Len(s.sent) + Len(a) /\ Len(t.buf) = Len(s.buf) + Len(b)
        /\ n = Len(a) + Len(b)
    BY <1>2, <1>3, <2>1
  <2>3. (Len(s.sent) + Len(a)) + (Len(s.buf) + Len(b)) = (Len(s.sent) + Len(s.buf)) + (Len(a) + Len(b))
    <3> DEFINE w == Len(s.sent)
               x == Len(a)
               y == Len(s.buf)
               z == Len(b)
    <3>1. w \in Nat /\ x \in Nat /\ y \in Nat /\ z \in Nat
      BY <2>5
    <3> HIDE DEF w, x, y, z
    <3>2. (w + x) + (y + z) = (w + y) + (x + z)
      BY <3>1
    <3>3. QED
      BY <3>2 DEF w, x, y, z
  <2>4. QED
    BY <1>3, <1>4, <2>2, <2>3
<1>6. ASSUME NEW i \in 1 .. t.next PROVE Has(t.sent, i) \/ Has(t.buf, i)
  <2>1. CASE i \in 1 .. s.next
    BY <1>1, <1>3, <1>4, <2>1, HasConcat
  <2>2. CASE i \notin 1 .. s.next
    <3>0. s.next \in Nat /\ i \in 1 .. s.next + n
      BY <1>1, <1>3
    <3>1. i - s.next \in 1 .. n /\ s.next + (i - s.next) = i
      BY <2>2, <3>0, SMTT(30)
    <3>2. Has(d, i)
      BY <1>2, <3>1 DEF Has
    <3>3. Has(a, i) \/ Has(b, i)
      BY <1>3, <3>2, HasConcat
    <3>4. QED
      BY <1>1, <1>3, <3>3, HasConcat
  <2>3. QED
    BY <2>1, <2>2
<1>7. QED
  BY <1>5, <1>6, CompleteIff

\* Nothing is lost by what is flushed.
LEMMA FlushedComplete ==
    ASSUME NEW s \in Streams, NEW t \in Streams, NEW a, NEW b, Flushed(s, t, a, b),
           Complete(s)
    PROVE  Complete(t)
<1>1. s.sent \in Seq(Nat) /\ s.buf \in Seq(Nat) /\ s.next \in Nat
  BY DEF Streams
<1>2. /\ a \in Seq(Nat) /\ b \in Seq(Nat) /\ s.buf = a \o b
      /\ t.sent = s.sent \o a /\ t.buf = b /\ t.next = s.next
  BY DEF Flushed
<1>3. /\ Len(s.sent) + Len(s.buf) = s.next
      /\ \A i \in 1 .. s.next : Has(s.sent, i) \/ Has(s.buf, i)
  BY CompleteIff
<1>4. Len(t.sent) + Len(t.buf) = t.next
  <2>1. /\ Len(s.sent \o a) = Len(s.sent) + Len(a)
        /\ Len(a \o b) = Len(a) + Len(b)
    BY <1>1, <1>2
  <2>5. Len(a) \in Nat /\ Len(b) \in Nat /\ Len(s.sent) \in Nat
    BY <1>1, <1>2
  <2>2. /\ Len(t.sent) = Len(s.sent) + Len(a) /\ Len(t.buf) = Len(b)
        /\ Len(s.buf) = Len(a) + Len(b)
    BY <1>2, <2>1
  <2>3. (Len(s.sent) + Len(a)) + Len(b) = Len(s.sent) + (Len(a) + Len(b))
    BY <2>5, SumAssociative
  <2>4. QED
    BY <1>2, <1>3, <2>2, <2>3
<1>5. \A i \in 1 .. t.next : Has(t.sent, i) \/ Has(t.buf, i)
  BY <1>1, <1>2, <1>3, HasConcat
<1>6. QED
  BY <1>4, <1>5, CompleteIff

\* What is produced keeps the order when it goes behind everything that waits.
LEMMA ProducedOrdered ==
    ASSUME NEW s \in Streams, NEW t \in Streams, NEW n \in Nat, NEW a, NEW b,
           Produced(s, t, Pieces(s, n), a, b), Ordered(s), s.buf = <<>> \/ a = <<>>
    PROVE  Ordered(t)
<1> DEFINE d == Pieces(s, n)
<1>1. s.sent \in Seq(Nat) /\ s.buf \in Seq(Nat) /\ s.next \in Nat
  BY DEF Streams
<1>2. d \in Seq(Nat) /\ Len(d) = n /\ \A i \in 1 .. n : d[i] = s.next + i
  BY PiecesAre
<1> HIDE DEF d
<1>3. /\ a \in Seq(Nat) /\ b \in Seq(Nat) /\ a \o b = d
      /\ t.sent = s.sent \o a /\ t.buf = s.buf \o b /\ t.next = s.next + n
  BY <1>2 DEF Produced, d
<1>4. t.sent \o t.buf = (s.sent \o s.buf) \o d
  <2>1. CASE s.buf = <<>>
    <3>1. t.buf = b /\ s.sent \o s.buf = s.sent
      BY <1>1, <1>3, <2>1, ConcatEmptySeq
    <3>2. (s.sent \o a) \o b = s.sent \o (a \o b)
      BY <1>1, <1>3, Associative
    <3>3. QED
      BY <1>3, <3>1, <3>2
  <2>2. CASE a = <<>>
    <3>1. t.sent = s.sent /\ b = d
      BY <1>1, <1>3, <2>2, ConcatEmptySeq
    <3>2. (s.sent \o s.buf) \o d = s.sent \o (s.buf \o d)
      BY <1>1, <1>2, Associative
    <3>3. QED
      BY <1>3, <3>1, <3>2
  <2>3. QED
    BY <2>1, <2>2
<1>5. s.sent \o s.buf = [i \in 1 .. s.next |-> i]
  BY DEF Ordered
<1>6. [i \in 1 .. s.next |-> i] \o d = [i \in 1 .. s.next + n |-> i]
  <2> DEFINE x == [i \in 1 .. s.next |-> i]
             y == [i \in 1 .. s.next + n |-> i]
  <2>1. /\ x \in Seq(Nat) /\ Len(x) = s.next /\ \A i \in 1 .. s.next : x[i] = i
        /\ y \in Seq(Nat) /\ Len(y) = s.next + n /\ \A i \in 1 .. s.next + n : y[i] = i
    BY <1>1
  <2> HIDE DEF x, y
  <2>2. /\ x \o d \in Seq(Nat) /\ Len(x \o d) = s.next + n
        /\ \A i \in 1 .. s.next + n : (x \o d)[i] = IF i <= s.next THEN x[i] ELSE d[i - s.next]
    <3>0. x \in Seq(Nat) /\ d \in Seq(Nat)
      BY <1>2, <2>1
    <3>1. /\ x \o d \in Seq(Nat) /\ Len(x \o d) = Len(x) + Len(d)
          /\ \A i \in 1 .. Len(x) + Len(d) :
                 (x \o d)[i] = IF i <= Len(x) THEN x[i] ELSE d[i - Len(x)]
      BY ONLY <3>0, ConcatProperties, SMTT(30)
    <3>2. QED
      BY <1>2, <2>1, <3>1
  <2>3. ASSUME NEW i \in 1 .. s.next + n PROVE (x \o d)[i] = i
    <3>1. CASE i <= s.next
      BY <1>1, <2>1, <2>2, <3>1
    <3>2. CASE ~(i <= s.next)
      <4>1. i - s.next \in 1 .. n /\ s.next + (i - s.next) = i
        BY <1>1, <3>2
      <4>2. QED
        BY <1>2, <2>2, <3>2, <4>1
    <3>3. QED
      BY <3>1, <3>2
  <2>4. x \o d = y
    BY <2>1, <2>2, <2>3, SeqEqual
  <2>5. QED
    BY <2>4 DEF x, y
<1>7. QED
  BY <1>3, <1>4, <1>5, <1>6 DEF Ordered

\* Flushing keeps the order.
LEMMA FlushedOrdered ==
    ASSUME NEW s \in Streams, NEW t \in Streams, NEW a, NEW b, Flushed(s, t, a, b),
           Ordered(s)
    PROVE  Ordered(t)
<1>1. s.sent \in Seq(Nat) /\ a \in Seq(Nat) /\ b \in Seq(Nat)
  BY DEF Streams, Flushed
<1>2. (s.sent \o a) \o b = s.sent \o (a \o b)
  BY <1>1, Associative
<1>3. t.sent \o t.buf = s.sent \o s.buf /\ t.next = s.next
  BY <1>2 DEF Flushed
<1>4. QED
  BY <1>3 DEF Ordered
-----------------------------------------------------------------------------
(* The shape of the stream after each of the model's operations.           *)

\* One piece is produced and written.
LEMMA SendsShape ==
    ASSUME NEW s \in Streams, NEW t, Sends(s, 1, t)
    PROVE  /\ t \in Streams
           /\ \E a, b : /\ Produced(s, t, Pieces(s, 1), a, b)
                        /\ t.status = "WRITING" \/ (t.status = "READING" /\ b = <<>>)
<1> DEFINE d == Pieces(s, 1)
           p == Produce(s, 1)
<1>1. PICK k \in 0 .. 1 : t = WriteToSock(p, d, k)
  BY DEF Sends
<1>2. d \in Seq(Nat) /\ Len(d) = 1 /\ d # <<>>
  <2>1. 1 \in Nat
    OBVIOUS
  <2>2. d \in Seq(Nat) /\ Len(d) = 1
    BY <2>1, PiecesAre
  <2> HIDE DEF d
  <2>3. QED
    BY <2>2, EmptySeq
<1>3. /\ p \in Streams /\ p.sent = s.sent /\ p.buf = s.buf /\ p.next = s.next + 1
      /\ p.sent \in Seq(Nat) /\ p.buf \in Seq(Nat)
  BY SMTT(30) DEF Produce, Streams
<1> HIDE DEF d, p
<1>4. CASE k < 1
  <2>1. SubSeq(d, 1, 0) = <<>> /\ SubSeq(d, 0 + 1, Len(d)) = d /\ k = 0
    BY <1>2, <1>4, SubSeqEmpty, SubSeqFull
  <2>2. t = [p EXCEPT !.sent = @ \o <<>>, !.buf = @ \o d, !.status = "WRITING"]
    BY <1>1, <1>2, <1>4, <2>1 DEF WriteToSock
  <2>3. /\ p.sent \o <<>> \in Seq(Nat) /\ p.buf \o d \in Seq(Nat)
    BY <1>2, <1>3
  <2>4. /\ t \in Streams /\ t.sent = s.sent \o <<>> /\ t.buf = s.buf \o d
        /\ t.next = s.next + 1 /\ t.status = "WRITING"
    BY <1>3, <2>2, <2>3 DEF Streams, Status
  <2>5. <<>> \in Seq(Nat) /\ <<>> \o d = d
    BY <1>2, ConcatEmptySeq
  <2>6. Produced(s, t, d, <<>>, d)
    BY <1>2, <2>4, <2>5 DEF Produced
  <2>7. QED
    BY <2>4, <2>6 DEF d
<1>5. CASE ~(k < 1)
  <2>1. t = [p EXCEPT !.sent = @ \o d, !.status = "READING"]
    BY <1>1, <1>2, <1>5 DEF WriteToSock
  <2>2. p.sent \o d \in Seq(Nat)
    BY <1>2, <1>3
  <2>3. /\ t \in Streams /\ t.sent = s.sent \o d /\ t.buf = s.buf
        /\ t.next = s.next + 1 /\ t.status = "READING"
    BY <1>3, <2>1, <2>2 DEF Streams, Status
  <2>4. <<>> \in Seq(Nat) /\ d \o <<>> = d /\ s.buf \o <<>> = s.buf
    BY <1>2, <1>3, ConcatEmptySeq
  <2>5. Produced(s, t, d, d, <<>>)
    BY <1>2, <2>3, <2>4 DEF Produced
  <2>6. QED
    BY <2>3, <2>5 DEF d
<1>6. QED
  BY <1>4, <1>5

\* The buffer is sent as far as it goes.
LEMMA FlushShape ==
    ASSUME NEW s \in Streams, NEW k \in 0 .. Len(s.buf)
    PROVE  LET t == Flush(s, k)
           IN  /\ t \in Streams
               /\ \E a, b : Flushed(s, t, a, b)
               /\ t.status = "WRITING" \/ (t.status = "READING" /\ t.buf = <<>>)
               /\ s.buf = <<>> => t.buf = <<>>
<1> DEFINE t == Flush(s, k)
           d == s.buf
<1>0. s.sent \in Seq(Nat) /\ d \in Seq(Nat) /\ <<>> \in Seq(Nat) /\ Len(d) \in Nat
  BY DEF Streams
<1>1. CASE d = <<>>
  <2>1. t = [s EXCEPT !.status = "READING"]
    BY <1>1 DEF Flush
  <2>2. t \in Streams /\ t.sent = s.sent /\ t.buf = <<>> /\ t.next = s.next /\ t.status = "READING"
    BY <1>1, <2>1 DEF Streams, Status
  <2>3. s.sent \o <<>> = s.sent /\ <<>> \o <<>> = <<>>
    BY <1>0, ConcatEmptySeq
  <2>4. Flushed(s, t, <<>>, <<>>)
    BY <1>0, <1>1, <2>2, <2>3 DEF Flushed
  <2>5. QED
    BY <2>2, <2>4
<1>2. CASE d # <<>> /\ k < Len(d)
  <2> DEFINE a == SubSeq(d, 1, k)
             b == SubSeq(d, k + 1, Len(d))
  <2>1. a \in Seq(Nat) /\ b \in Seq(Nat)
    BY <1>0, <1>2, SMTT(30)
  <2>2. a \o b = d
    <3>1. /\ 1 \in 1 .. Len(d) + 1 /\ k \in 1 - 1 .. Len(d) /\ Len(d) \in k .. Len(d)
      BY <1>0, <1>2
    <3>2. a \o b = SubSeq(d, 1, Len(d))
      BY <1>0, <3>1, ConcatAdjacentSubSeq
    <3>3. QED
      BY <1>0, <3>2, SubSeqFull
  <2> HIDE DEF a, b
  <2>3. t = [s EXCEPT !.sent = @ \o a, !.buf = <<>> \o b, !.status = "WRITING"]
    BY <1>2 DEF Flush, WriteToSock, a, b, Streams
  <2>4. <<>> \o b = b /\ s.sent \o a \in Seq(Nat)
    BY <1>0, <2>1, ConcatEmptySeq
  <2>5. t \in Streams /\ t.sent = s.sent \o a /\ t.buf = b /\ t.next = s.next /\ t.status = "WRITING"
    BY <2>1, <2>3, <2>4, ZenonT(30) DEF Streams, Status
  <2>6. Flushed(s, t, a, b)
    BY <2>1, <2>2, <2>5 DEF Flushed
  <2>7. QED
    BY <1>2, <2>5, <2>6
<1>3. CASE d # <<>> /\ ~(k < Len(d))
  <2>1. t = [s EXCEPT !.buf = <<>>, !.sent = @ \o d, !.status = "READING"]
    BY <1>3 DEF Flush, WriteToSock, Streams
  <2>2. s.sent \o d \in Seq(Nat) /\ d \o <<>> = d
    BY <1>0, ConcatEmptySeq
  <2>3. t \in Streams /\ t.sent = s.sent \o d /\ t.buf = <<>> /\ t.next = s.next /\ t.status = "READING"
    BY <1>0, <2>1, <2>2 DEF Streams, Status
  <2>4. Flushed(s, t, d, <<>>)
    BY <1>0, <2>2, <2>3 DEF Flushed
  <2>5. QED
    BY <2>3, <2>4
<1>4. QED
  BY <1>1, <1>2, <1>3

\* Data joins the buffer.
LEMMA QueueShape ==
    ASSUME NEW s \in Streams, NEW n \in Nat
    PROVE  LET t == [Produce(s, n) EXCEPT !.buf = @ \o Pieces(s, n)]
           IN  /\ t \in Streams /\ t.status = s.status
               /\ Produced(s, t, Pieces(s, n), <<>>, Pieces(s, n))
<1> DEFINE d == Pieces(s, n)
           p == Produce(s, n)
           t == [p EXCEPT !.buf = @ \o d]
<1>1. d \in Seq(Nat) /\ Len(d) = n
  BY PiecesAre
<1>2. /\ p \in Streams /\ p.sent = s.sent /\ p.buf = s.buf /\ p.next = s.next + n
      /\ p.status = s.status /\ p.sent \in Seq(Nat) /\ p.buf \in Seq(Nat)
  <2>1. p = [s EXCEPT !.next = s.next + n] /\ s.next + n \in Nat
    BY DEF Produce, Streams
  <2>2. QED
    BY <2>1 DEF Streams
<1> HIDE DEF d, p
<1>3. /\ p.buf \o d \in Seq(Nat) /\ s.sent \o <<>> = s.sent /\ <<>> \o d = d
      /\ <<>> \in Seq(Nat)
  BY <1>1, <1>2, ConcatEmptySeq
<1>4. /\ t \in Streams /\ t.sent = s.sent /\ t.buf = s.buf \o d /\ t.next = s.next + n
      /\ t.status = s.status
  BY <1>2, <1>3 DEF Streams
<1>5. Produced(s, t, d, <<>>, d)
  BY <1>1, <1>3, <1>4 DEF Produced
<1>6. QED
  BY <1>4, <1>5 DEF d, p

\* A new status changes nothing else.
LEMMA StatusShape ==
    ASSUME NEW s \in Streams, NEW st \in Status
    PROVE  LET t == [s EXCEPT !.status = st]
           IN  /\ t \in Streams /\ t.status = st
               /\ t.sent = s.sent /\ t.buf = s.buf /\ t.next = s.next
BY DEF Streams
-----------------------------------------------------------------------------
(* What each operation keeps.                                              *)

LEMMA SendsKeeps ==
    ASSUME NEW s \in Streams, NEW t, Sends(s, 1, t)
    PROVE  /\ t \in Streams
           /\ Complete(s) => Complete(t)
           /\ Ordered(s) /\ s.buf = <<>> => Ordered(t)
           /\ \/ t.status = "WRITING"
              \/ t.status = "READING" /\ (s.buf = <<>> => t.buf = <<>>)
<1>1. t \in Streams /\ 1 \in Nat
  BY SendsShape
<1>2. PICK a, b : /\ Produced(s, t, Pieces(s, 1), a, b)
                  /\ t.status = "WRITING" \/ (t.status = "READING" /\ b = <<>>)
  BY SendsShape
<1>3. Complete(s) => Complete(t)
  BY <1>1, <1>2, ProducedComplete
<1>4. Ordered(s) /\ s.buf = <<>> => Ordered(t)
  BY <1>1, <1>2, ProducedOrdered
<1>5. s.buf = <<>> /\ b = <<>> => t.buf = <<>>
  <2>1. t.buf = s.buf \o b
    BY <1>2 DEF Produced
  <2>2. <<>> \o <<>> = <<>>
    OBVIOUS
  <2>3. QED
    BY <2>1, <2>2
<1>6. QED
  BY <1>1, <1>2, <1>3, <1>4, <1>5

LEMMA FlushKeeps ==
    ASSUME NEW s \in Streams, NEW k \in 0 .. Len(s.buf), NEW t, t = Flush(s, k)
    PROVE  /\ t \in Streams
           /\ Complete(s) => Complete(t)
           /\ Ordered(s) => Ordered(t)
           /\ t.status = "WRITING" \/ (t.status = "READING" /\ t.buf = <<>>)
           /\ s.buf = <<>> => t.buf = <<>>
BY FlushShape, FlushedComplete, FlushedOrdered

\* Stream s with n pieces more in its buffer.
Queued(s, n) == [Produce(s, n) EXCEPT !.buf = @ \o Pieces(s, n)]

LEMMA QueueKeeps ==
    ASSUME NEW s \in Streams, NEW n \in Nat, NEW t, t = Queued(s, n)
    PROVE  /\ t \in Streams /\ t.status = s.status
           /\ Complete(s) => Complete(t)
           /\ Ordered(s) => Ordered(t)
<1>1. /\ t \in Streams /\ t.status = s.status
      /\ Produced(s, t, Pieces(s, n), <<>>, Pieces(s, n))
  BY QueueShape DEF Queued
<1>2. QED
  BY <1>1, ProducedComplete, ProducedOrdered

LEMMA StatusKeeps ==
    ASSUME NEW s \in Streams, NEW st \in Status, NEW t, t = [s EXCEPT !.status = st]
    PROVE  /\ t \in Streams /\ t.status = st /\ t.buf = s.buf
           /\ Complete(s) => Complete(t)
           /\ Ordered(s) => Ordered(t)
<1>1. /\ t \in Streams /\ t.status = st
      /\ t.sent = s.sent /\ t.buf = s.buf /\ t.next = s.next
  BY StatusShape
<1>2. QED
  BY <1>1 DEF Complete, Ordered

LEMMA WritableKeeps ==
    ASSUME NEW s \in Streams, NEW t, Writable(s, t)
    PROVE  /\ t \in Streams
           /\ Complete(s) => Complete(t)
           /\ Ordered(s) => Ordered(t)
           /\ t.status = "WRITING" \/ (t.status = "READING" /\ t.buf = <<>>)
           /\ s.buf = <<>> => t.buf = <<>>
<1>1. PICK k \in 0 .. Len(s.buf) : t = Flush(s, k)
  BY DEF Writable
<1>2. QED
  BY <1>1, FlushKeeps
-----------------------------------------------------------------------------
(* The inductive invariant.                                                *)

\* The remote socket and the stages.
RemotePhase ==
    /\ stage \in {"INIT", "ADDR", "DNS"} => ~remote
    /\ stage = "STREAM" => remote
    /\ \A e \in batch : e[1] = "remote" => remote

\* The events come one at a time, and the server's hello was not answered early.
Steady == Serial /\ ~Early

\* Upstream, in a steady connection: which status goes with which stage.  A
\* stream that is read while it is relaying has nothing left to send.
UpSerial ==
    Steady =>
        /\ Ordered(up)
        /\ \A e, f \in batch : e = f
        /\ stage \in {"INIT", "ADDR"} => up.status = "READING"
        /\ stage = "DNS" => up.status = "WRITING"
        /\ stage = "CONNECTING" =>
              IF remote THEN up.status = "READWRITING" ELSE IsLocal /\ FastOpen
        /\ stage = "STREAM" =>
              up.status = "WRITING" \/ (up.status = "READING" /\ up.buf = <<>>)
        /\ <<"local", "IN">> \in batch => up.status \in Reading

\* Downstream, when the handler adds no answers: the remote is not read, and no
\* event of it is at hand, as long as data waits for the client.
DownPlain ==
    ~Answers =>
        /\ Ordered(down) /\ down.status \in {"INIT", "READING", "WRITING"}
        /\ down.buf # <<>> => down.status = "WRITING" /\ remote
        /\ <<"remote", "IN">> \in batch => down.buf = <<>>

StreamInv == TypeOK /\ Conserved /\ RemotePhase /\ UpSerial /\ DownPlain

\* The empty stream.
LEMMA InitInv == Init => StreamInv
<1> SUFFICES ASSUME Init PROVE StreamInv
  OBVIOUS
<1>1. TypeOK
  <2>1. /\ [next |-> 0, sent |-> <<>>, buf |-> <<>>, status |-> "READING"] \in Streams
        /\ [next |-> 0, sent |-> <<>>, buf |-> <<>>, status |-> "INIT"] \in Streams
    <3>1. 0 \in Nat /\ <<>> \in Seq(Nat) /\ "READING" \in Status /\ "INIT" \in Status
      BY DEF Status
    <3>2. QED
      BY <3>1 DEF Streams
  <2>2. QED
    BY <2>1 DEF Init, TypeOK, Stages
<1>2. /\ up.next = 0 /\ up.sent = <<>> /\ up.buf = <<>> /\ up.status = "READING"
      /\ down.next = 0 /\ down.sent = <<>> /\ down.buf = <<>> /\ down.status = "INIT"
  BY DEF Init
<1>3. <<>> \o <<>> = <<>> /\ Len(<<>>) = 0 /\ <<>> = [j \in 1 .. 0 |-> j] /\ 1 .. 0 = {}
  OBVIOUS
<1>4. Ordered(up) /\ Ordered(down)
  BY <1>2, <1>3 DEF Ordered
<1>5. Conserved
  BY <1>2, <1>3 DEF Conserved, Complete
<1>6. RemotePhase /\ UpSerial /\ DownPlain
  BY <1>2, <1>4 DEF Init, RemotePhase, UpSerial, DownPlain, Reading
<1>7. QED
  BY <1>1, <1>5, <1>6 DEF StreamInv

\* The last event of a batch, when they come one at a time.
LEMMA SerialBatch ==
    ASSUME StreamInv, NEW e \in batch, batch' = batch \ {e}, Steady
    PROVE  batch' = {}
BY DEF StreamInv, UpSerial

\* A step that leaves the upstream part alone.
LEMMA UpKept ==
    ASSUME StreamInv, conf' = conf, greeted' = greeted, up' = up, remote' = remote,
           batch' \subseteq batch,
           \/ stage' = stage
           \/ stage' = "DESTROYED"
           \/ stage = "INIT" /\ stage' = "ADDR"
    PROVE  RemotePhase' /\ UpSerial'
<1>1. RemotePhase'
  BY DEF StreamInv, RemotePhase
<1>2. Ordered(up)' <=> Ordered(up)
  BY DEF Ordered
<1>3. UpSerial'
  BY <1>2 DEF StreamInv, UpSerial, Steady, Serial, Early, IsLocal, FastOpen
<1>4. QED
  BY <1>1, <1>3

\* A step whose only effect on the downstream part, if any, is an answer.
LEMMA DownKept ==
    ASSUME StreamInv, conf' = conf, ~Answers => down' = down, remote => remote',
           batch' \subseteq batch
    PROVE  DownPlain'
<1>1. down' = down => (Ordered(down)' <=> Ordered(down))
  BY DEF Ordered
<1>2. Answers' <=> Answers
  BY DEF Answers, IsLocal, SendBack
<1>3. QED
  BY <1>1, <1>2 DEF StreamInv, DownPlain

LEMMA AnswerKeeps ==
    ASSUME StreamInv, Answer
    PROVE  down' \in Streams /\ Complete(down') /\ (~Answers => down' = down)
<1>1. down \in Streams /\ Complete(down)
  BY DEF StreamInv, TypeOK, Conserved
<1>2. ASSUME NEW s \in Streams, Complete(s), NEW t \in MayAnswer(s)
      PROVE  t \in Streams /\ Complete(t) /\ (~Answers => t = s)
  <2>1. CASE t = s
    BY <1>2, <2>1
  <2>2. CASE t # s
    <3>1. Sends(s, 1, t) /\ Answers
      BY <1>2, <2>2 DEF MayAnswer, Sends, Answers
    <3>2. QED
      BY <1>2, <3>1, SendsKeeps
  <2>3. QED
    BY <2>1, <2>2
<1>3. PICK s \in MayAnswer(down) : down' \in MayAnswer(s)
  BY DEF Answer
<1>4. s \in Streams /\ Complete(s) /\ (~Answers => s = down)
  BY <1>1, <1>2, <1>3
<1>5. down' \in Streams /\ Complete(down') /\ (~Answers => down' = s)
  BY <1>2, <1>3, <1>4
<1>6. QED
  BY <1>4, <1>5

\* What is left to show of a step, put together.
LEMMA Together ==
    ASSUME StreamInv, conf' = conf, stage' \in Stages, remote' \in BOOLEAN,
           greeted' \in {"no", "yes", "early"},
           batch' \subseteq batch, up' \in Streams, Complete(up'), down' \in Streams,
           Complete(down'), RemotePhase', UpSerial', DownPlain'
    PROVE  StreamInv'
<1>1. TypeOK'
  BY DEF StreamInv, TypeOK
<1>2. Conserved'
  BY DEF Conserved, Complete
<1>3. QED
  BY <1>1, <1>2 DEF StreamInv

\* What a handler may assume.
LEMMA Parts ==
    ASSUME StreamInv
    PROVE  /\ up \in Streams /\ Complete(up) /\ down \in Streams /\ Complete(down)
           /\ stage \in Stages /\ remote \in BOOLEAN /\ conf \in Configurations
           /\ greeted \in {"no", "yes", "early"}
           /\ Steady => Ordered(up)
           /\ ~Answers => Ordered(down)
BY DEF StreamInv, TypeOK, Conserved, UpSerial, DownPlain

LEMMA DestroyInv ==
    ASSUME StreamInv, Destroy, conf' = conf, batch' \subseteq batch
    PROVE  StreamInv'
<1>1. stage' = "DESTROYED" /\ up' = up /\ down' = down /\ remote' = remote
      /\ greeted' = greeted
  BY DEF Destroy
<1>2. RemotePhase' /\ UpSerial'
  BY <1>1, UpKept
<1>3. DownPlain'
  BY <1>1, DownKept
<1>4. QED
  BY <1>1, <1>2, <1>3, Parts, Together DEF Stages

LEMMA HandleStageInitInv ==
    ASSUME StreamInv, HandleStageInit, conf' = conf, batch' \subseteq batch
    PROVE  StreamInv'
<1>1. /\ stage = "INIT" /\ stage' = "ADDR" /\ up' = up /\ remote' = remote /\ greeted' = greeted
      /\ Sends(down, 1, down') /\ Answers
  BY DEF HandleStageInit, Answers
<1>2. down' \in Streams /\ Complete(down')
  BY <1>1, Parts, SendsKeeps
<1>3. RemotePhase' /\ UpSerial'
  BY <1>1, UpKept
<1>4. DownPlain'
  BY <1>1, DownKept
<1>5. QED
  BY <1>1, <1>2, <1>3, <1>4, Parts, Together DEF Stages

LEMMA HandleStageAddrInv ==
    ASSUME StreamInv, HandleStageAddr, conf' = conf, NEW e \in batch, batch' = batch \ {e}
    PROVE  StreamInv'
<1>1. stage \in {"INIT", "ADDR"} /\ stage' = "DNS" /\ remote' = remote /\ greeted' = greeted
  BY DEF HandleStageAddr
<1>2. PICK n \in 0 .. 1 :
         up' = [Produce(up, n) EXCEPT !.buf = @ \o Pieces(up, n), !.status = "WRITING"]
  BY DEF HandleStageAddr
<1>3. /\ up' \in Streams /\ Complete(up') /\ up'.status = "WRITING"
      /\ Steady => Ordered(up')
  <2> DEFINE q == Queued(up, n)
  <2>1. n \in Nat /\ "WRITING" \in Status
    BY DEF Status
  <2>3. up' = [q EXCEPT !.status = "WRITING"]
    BY <1>2, Parts DEF Produce, Streams, Queued
  <2>2. q \in Streams /\ Complete(q) /\ (Steady => Ordered(q))
    BY <2>1, Parts, QueueKeeps
  <2> HIDE DEF q
  <2>4. QED
    BY <2>1, <2>2, <2>3, StatusKeeps
<1>4. down' \in Streams /\ Complete(down') /\ (~Answers => down' = down)
  <2>1. CASE IsLocal
    BY <2>1, Parts, SendsKeeps DEF HandleStageAddr, Answers
  <2>2. CASE ~IsLocal
    BY <2>2, AnswerKeeps DEF HandleStageAddr
  <2>3. QED
    BY <2>1, <2>2
<1>5. RemotePhase'
  BY <1>1 DEF StreamInv, RemotePhase
<1>6. UpSerial'
  <2>1. Steady => batch' = {}
    BY SerialBatch
  <2>2. QED
    BY <1>1, <1>3, <2>1 DEF UpSerial, Steady, Serial, Early, Ordered
<1>7. DownPlain'
  BY <1>1, <1>4, DownKept
<1>8. QED
  BY <1>1, <1>3, <1>4, <1>5, <1>6, <1>7, Parts, Together DEF Stages

LEMMA HandleStageConnectingInv ==
    ASSUME StreamInv, HandleStageConnecting, conf' = conf, NEW e \in batch, batch' = batch \ {e}
    PROVE  StreamInv'
<1> DEFINE n == IF HoldsBack THEN 0 ELSE 1
           q == Queued(up, n)
<1>1. /\ stage = "CONNECTING" /\ stage' = "CONNECTING" /\ greeted' = greeted
      /\ IF IsLocal /\ FastOpen /\ ~remote
         THEN /\ remote' = TRUE
              /\ \E k \in 0 .. Len(q.buf) : up' = [Flush(q, k) EXCEPT !.status = "READWRITING"]
         ELSE up' = q /\ remote' = remote
  BY DEF HandleStageConnecting, Queued
<1>2. q \in Streams /\ q.status = up.status /\ Complete(q) /\ (Steady => Ordered(q))
  <2>1. n \in Nat
    OBVIOUS
  <2> HIDE DEF n
  <2>2. QED
    BY <2>1, Parts, QueueKeeps
<1> HIDE DEF q
<1>3. /\ up' \in Streams /\ Complete(up') /\ (Steady => Ordered(up'))
      /\ remote' \in BOOLEAN /\ (remote => remote')
      /\ up'.status = IF remote' /\ ~remote THEN "READWRITING" ELSE up.status
      /\ remote' \/ ~(IsLocal /\ FastOpen)
  <2>1. CASE IsLocal /\ FastOpen /\ ~remote
    <3>1. PICK k \in 0 .. Len(q.buf) : up' = [Flush(q, k) EXCEPT !.status = "READWRITING"]
      BY <1>1, <2>1
    <3> DEFINE t == Flush(q, k)
    <3>2. t \in Streams /\ Complete(t) /\ (Steady => Ordered(t)) /\ "READWRITING" \in Status
      BY <1>2, FlushKeeps DEF Status
    <3> HIDE DEF t
    <3>3. up' = [t EXCEPT !.status = "READWRITING"]
      BY <3>1 DEF t
    <3>4. /\ up' \in Streams /\ Complete(up') /\ (Steady => Ordered(up'))
          /\ up'.status = "READWRITING"
      BY <3>2, <3>3, StatusKeeps
    <3>5. QED
      BY <1>1, <2>1, <3>4
  <2>2. CASE ~(IsLocal /\ FastOpen /\ ~remote)
    BY <1>1, <1>2, <2>2, Parts
  <2>3. QED
    BY <2>1, <2>2
<1>4. down' \in Streams /\ Complete(down') /\ (~Answers => down' = down)
  BY AnswerKeeps DEF HandleStageConnecting
<1>5. RemotePhase'
  BY <1>1, <1>3 DEF StreamInv, RemotePhase
<1>6. UpSerial'
  <2>1. Steady => batch' = {}
    BY SerialBatch
  <2>2. Steady /\ remote' => up'.status = "READWRITING"
    BY <1>1, <1>3 DEF StreamInv, UpSerial
  <2>3. Steady /\ ~remote' => IsLocal /\ FastOpen
    BY <1>1, <1>3 DEF StreamInv, UpSerial
  <2>4. QED
    BY <1>1, <1>3, <2>1, <2>2, <2>3 DEF UpSerial, Steady, Serial, Early, Ordered, IsLocal, FastOpen
<1>7. DownPlain'
  BY <1>3, <1>4, DownKept
<1>8. QED
  BY <1>1, <1>3, <1>4, <1>5, <1>6, <1>7, Parts, Together DEF Stages

LEMMA HandleStreamInv ==
    ASSUME StreamInv, HandleStream, conf' = conf, <<"local", "IN">> \in batch,
           batch' = batch \ {<<"local", "IN">>}
    PROVE  StreamInv'
<1>1. /\ stage = "STREAM" /\ stage' = stage /\ remote' = remote /\ greeted' = greeted
      /\ up' = up \/ Sends(up, 1, up')
  BY DEF HandleStream
<1>2. Steady => up.buf = <<>> /\ batch' = {}
  BY <1>1, SerialBatch DEF StreamInv, UpSerial, Reading
<1>3. /\ up' \in Streams /\ Complete(up') /\ (Steady => Ordered(up'))
      /\ Steady => up'.status = "WRITING" \/ (up'.status = "READING" /\ up'.buf = <<>>)
  <2>1. CASE up' = up
    BY <1>1, <2>1, Parts DEF StreamInv, UpSerial
  <2>2. CASE Sends(up, 1, up')
    BY <1>2, <2>2, Parts, SendsKeeps
  <2>3. QED
    BY <1>1, <2>1, <2>2
<1>4. down' \in Streams /\ Complete(down') /\ (~Answers => down' = down)
  BY AnswerKeeps DEF HandleStream
<1>5. RemotePhase'
  BY <1>1 DEF StreamInv, RemotePhase
<1>6. UpSerial'
  BY <1>1, <1>2, <1>3 DEF UpSerial, Steady, Serial, Early, Ordered
<1>7. DownPlain'
  BY <1>1, <1>4, DownKept
<1>8. QED
  BY <1>1, <1>3, <1>4, <1>5, <1>6, <1>7, Parts, Together

LEMMA HandleNoDataInv ==
    ASSUME StreamInv, HandleNoData, conf' = conf, batch' \subseteq batch
    PROVE  StreamInv'
<1>1. stage' = stage /\ up' = up /\ remote' = remote /\ greeted' = greeted
  BY DEF HandleNoData
<1>2. down' \in Streams /\ Complete(down') /\ (~Answers => down' = down)
  BY AnswerKeeps DEF HandleNoData
<1>3. RemotePhase' /\ UpSerial'
  BY <1>1, UpKept
<1>4. DownPlain'
  BY <1>1, <1>2, DownKept
<1>5. QED
  BY <1>1, <1>2, <1>3, <1>4, Parts, Together

\* The answer to the server's hello: in a steady connection nothing waits by then.
LEMMA AnswerHelloInv ==
    ASSUME StreamInv, AnswerHello, conf' = conf, NEW e \in batch, batch' = batch \ {e}
    PROVE  StreamInv'
<1>1. /\ stage' = stage /\ down' = down /\ remote' = remote
      /\ Sends(up, 1, up') /\ greeted = "no"
      /\ greeted' = IF stage = "STREAM" /\ up.buf = <<>> THEN "yes" ELSE "early"
  BY DEF AnswerHello, HoldsBack
<1>2. up' \in Streams /\ Complete(up') /\ (Steady' => Steady /\ stage = "STREAM" /\ up.buf = <<>>)
  BY <1>1, Parts, SendsKeeps DEF Steady, Serial, Early
<1>3. Steady' => /\ Ordered(up') /\ batch' = {}
                 /\ up'.status = "WRITING" \/ (up'.status = "READING" /\ up'.buf = <<>>)
  BY <1>1, <1>2, Parts, SendsKeeps, SerialBatch
<1>4. RemotePhase'
  BY <1>1 DEF StreamInv, RemotePhase
<1>5. UpSerial'
  BY <1>1, <1>2, <1>3 DEF UpSerial, Ordered
<1>6. DownPlain'
  BY <1>1, DownKept
<1>7. QED
  BY <1>1, <1>2, <1>4, <1>5, <1>6, Parts, Together

LEMMA PassDownInv ==
    ASSUME StreamInv, conf' = conf, PassDown,
           <<"remote", "IN">> \in batch, batch' = batch \ {<<"remote", "IN">>}
    PROVE  StreamInv'
<1>1. /\ remote /\ stage' = stage /\ up' = up /\ remote' = remote /\ greeted' = greeted
      /\ Sends(down, 1, down') \/ (Answers /\ down' = down)
  BY DEF PassDown, StreamInv, RemotePhase, Answers
<1>2. ~Answers => down.buf = <<>>
  BY DEF StreamInv, DownPlain
<1>3. /\ down' \in Streams /\ Complete(down') /\ (~Answers => Ordered(down'))
      /\ ~Answers => down'.status = "WRITING" \/ (down'.status = "READING" /\ down'.buf = <<>>)
  BY <1>1, <1>2, Parts, SendsKeeps
<1>4. DownPlain'
  BY <1>1, <1>3 DEF DownPlain, Answers, IsLocal, SendBack, Ordered
<1>5. RemotePhase' /\ UpSerial'
  BY <1>1, UpKept
<1>6. QED
  BY <1>1, <1>3, <1>4, <1>5, Parts, Together

LEMMA OnRemoteWriteInv ==
    ASSUME StreamInv, conf' = conf, Writable(up, up'), stage' = "STREAM", greeted' = greeted,
           down' = down, remote' = remote,
           <<"remote", "OUT">> \in batch, batch' = batch \ {<<"remote", "OUT">>}
    PROVE  StreamInv'
<1>1. remote
  BY DEF StreamInv, RemotePhase
<1>2. Steady => batch' = {}
  BY SerialBatch
<1>3. /\ up' \in Streams /\ Complete(up') /\ (Steady => Ordered(up'))
      /\ up'.status = "WRITING" \/ (up'.status = "READING" /\ up'.buf = <<>>)
  BY Parts, WritableKeeps
<1>4. RemotePhase'
  BY <1>1 DEF RemotePhase
<1>5. UpSerial'
  BY <1>2, <1>3 DEF UpSerial, Steady, Serial, Early, Ordered
<1>6. DownPlain'
  BY DownKept
<1>7. QED
  BY <1>3, <1>4, <1>5, <1>6, Parts, Together DEF Stages

LEMMA OnLocalWriteInv ==
    ASSUME StreamInv, conf' = conf, Writable(down, down'), greeted' = greeted,
           stage' = stage, up' = up, remote' = remote, batch' \subseteq batch
    PROVE  StreamInv'
<1>1. /\ down' \in Streams /\ Complete(down') /\ (~Answers => Ordered(down'))
      /\ down'.status = "WRITING" \/ (down'.status = "READING" /\ down'.buf = <<>>)
      /\ down.buf = <<>> => down'.buf = <<>>
  BY Parts, WritableKeeps
<1>2. RemotePhase' /\ UpSerial'
  BY UpKept
<1>3. DownPlain'
  BY <1>1 DEF StreamInv, DownPlain, Answers, IsLocal, SendBack, Ordered
<1>4. QED
  BY <1>1, <1>2, <1>3, Parts, Together

LEMMA DispatchInv ==
    ASSUME StreamInv, NEW e \in batch, Dispatch(e)
    PROVE  StreamInv'
<1>1. batch' = batch \ {e} /\ batch' \subseteq batch /\ conf' = conf
  BY DEF Dispatch
<1>2. e \in {<<"local", "IN">>, <<"local", "OUT">>, <<"remote", "IN">>, <<"remote", "OUT">>}
  BY DEF StreamInv, TypeOK
<1>3. CASE Destroy
  BY <1>1, <1>3, DestroyInv
<1>4. CASE e = <<"local", "IN">> /\ ~Destroy
  <2>1. HandleStageInit \/ HandleStageAddr \/ HandleStageConnecting \/ HandleStream \/ HandleNoData
    BY <1>4 DEF Dispatch, OnLocalRead
  <2>2. QED
    BY <1>1, <1>4, <2>1, HandleStageInitInv, HandleStageAddrInv, HandleStageConnectingInv,
       HandleStreamInv, HandleNoDataInv
<1>5. CASE e = <<"local", "OUT">> /\ ~Destroy
  <2>1. Writable(down, down') /\ stage' = stage /\ up' = up /\ remote' = remote /\ greeted' = greeted
    BY <1>5 DEF Dispatch, OnLocalWrite
  <2>2. QED
    BY <1>1, <2>1, OnLocalWriteInv
<1>6. CASE e = <<"remote", "IN">> /\ ~Destroy
  <2>1. AnswerHello \/ PassDown
    BY <1>6 DEF Dispatch, OnRemoteRead
  <2>2. QED
    BY <1>1, <1>6, <2>1, AnswerHelloInv, PassDownInv
<1>7. CASE e = <<"remote", "OUT">> /\ ~Destroy
  <2>1. stage' = "STREAM" /\ Writable(up, up') /\ down' = down /\ remote' = remote /\ greeted' = greeted
    BY <1>7 DEF Dispatch, OnRemoteWrite
  <2>2. QED
    BY <1>1, <1>7, <2>1, OnRemoteWriteInv
<1>8. QED
  BY <1>2, <1>3, <1>4, <1>5, <1>6, <1>7

\* The events of the two sockets are finitely many.
LEMMA EventsFinite == IsFiniteSet({"local", "remote"} \X {"IN", "OUT"})
<1>1. ASSUME NEW x, NEW y PROVE IsFiniteSet({x, y})
  <2>1. IsFiniteSet({x} \cup {y})
    BY FS_Singleton, FS_AddElement
  <2>2. {x, y} = {x} \cup {y}
    OBVIOUS
  <2>3. QED
    BY <2>1, <2>2
<1>2. QED
  BY <1>1, FS_Product

LEMMA PollInv ==
    ASSUME StreamInv, Poll
    PROVE  StreamInv'
<1>1. /\ conf' = conf /\ stage' = stage /\ up' = up /\ down' = down /\ remote' = remote
      /\ greeted' = greeted
      /\ batch' \subseteq Polled /\ Live
  BY DEF Poll
<1>2. TypeOK'
  BY <1>1 DEF StreamInv, TypeOK, Polled
<1>3. Conserved'
  BY <1>1 DEF StreamInv, Conserved, Complete
<1>4. RemotePhase'
  BY <1>1 DEF StreamInv, RemotePhase, Polled
<1>5. UpSerial'
  <2>1. ASSUME Serial PROVE \A e, f \in batch' : e = f
    <3>1. IsFiniteSet(batch')
      BY <1>1, EventsFinite, FS_Subset DEF Polled
    <3>2. Cardinality(batch') = 1
      BY <2>1 DEF Poll
    <3>3. \E e : batch' = {e}
      BY <3>1, <3>2, FS_Singleton
    <3>4. QED
      BY <3>3
  <2>2. <<"local", "IN">> \in batch' => up.status \in Reading
    BY <1>1 DEF Polled
  <2>3. Ordered(up)' <=> Ordered(up)
    BY <1>1 DEF Ordered
  <2>4. QED
    BY <1>1, <2>1, <2>2, <2>3 DEF StreamInv, UpSerial, Steady, Serial, Early, IsLocal, FastOpen
<1>6. DownPlain'
  <2>1. <<"remote", "IN">> \in batch' => down.status \in Reading
    BY <1>1 DEF Polled
  <2>2. Ordered(down)' <=> Ordered(down)
    BY <1>1 DEF Ordered
  <2>3. QED
    BY <1>1, <2>1, <2>2
    DEF StreamInv, DownPlain, Answers, IsLocal, SendBack, Reading
<1>7. QED
  BY <1>2, <1>3, <1>4, <1>5, <1>6 DEF StreamInv

LEMMA HandleDnsResolvedInv ==
    ASSUME StreamInv, HandleDnsResolved
    PROVE  StreamInv'
<1>1. stage = "DNS" /\ conf' = conf /\ batch' = batch /\ batch' \subseteq batch /\ ~remote
  BY DEF HandleDnsResolved, StreamInv, RemotePhase
<1>2. CASE Destroy
  BY <1>1, <1>2, DestroyInv
<1>3. CASE /\ IsLocal /\ FastOpen /\ stage' = "CONNECTING"
           /\ up' = [up EXCEPT !.status = "READING"] /\ down' = down /\ remote' = remote
           /\ greeted' = greeted
  <2>1. /\ up' \in Streams /\ Complete(up') /\ (Steady => Ordered(up'))
        /\ up'.status = "READING"
    BY <1>3, Parts, StatusKeeps DEF Status
  <2>2. RemotePhase'
    BY <1>1, <1>3 DEF StreamInv, RemotePhase
  <2>3. UpSerial'
    BY <1>1, <1>3, <2>1
    DEF StreamInv, UpSerial, Steady, Serial, Early, Ordered, IsLocal, FastOpen, Reading
  <2>4. DownPlain'
    BY <1>1, <1>3, DownKept
  <2>5. QED
    BY <1>1, <1>3, <2>1, <2>2, <2>3, <2>4, Parts, Together DEF Stages
<1>4. CASE /\ ~(IsLocal /\ FastOpen) /\ stage' = "CONNECTING" /\ remote' = TRUE
           /\ up' = [up EXCEPT !.status = "READWRITING"]
           /\ down' = [down EXCEPT !.status = "READING"] /\ greeted' = greeted
  <2>1. /\ up' \in Streams /\ Complete(up') /\ (Steady => Ordered(up'))
        /\ up'.status = "READWRITING"
    BY <1>4, Parts, StatusKeeps DEF Status
  <2>2. /\ down' \in Streams /\ Complete(down') /\ (~Answers => Ordered(down'))
        /\ down'.status = "READING" /\ down'.buf = down.buf
    BY <1>4, Parts, StatusKeeps DEF Status
  <2>3. RemotePhase'
    BY <1>1, <1>4 DEF StreamInv, RemotePhase
  <2>4. UpSerial'
    BY <1>1, <1>4, <2>1 DEF StreamInv, UpSerial, Steady, Serial, Early, Ordered, Reading
  <2>5. DownPlain'
    BY <1>1, <2>2 DEF StreamInv, DownPlain, Answers, IsLocal, SendBack, Ordered
  <2>6. QED
    BY <1>1, <1>4, <2>1, <2>2, <2>3, <2>4, <2>5, Parts, Together DEF Stages
<1>5. QED
  BY <1>2, <1>3, <1>4 DEF HandleDnsResolved

LEMMA StutterInv ==
    ASSUME StreamInv, UNCHANGED vars
    PROVE  StreamInv'
<1>1. /\ conf' = conf /\ stage' = stage /\ up' = up /\ down' = down /\ remote' = remote
      /\ greeted' = greeted /\ batch' = batch
  BY DEF vars
<1>2. RemotePhase' /\ UpSerial' /\ DownPlain'
  BY <1>1, UpKept, DownKept
<1>3. QED
  BY <1>1, <1>2, Parts, Together

\* The invariant of a connection's data, for any bounds on it: it is there once,
\* a buffer is filled and read only in the stages and statuses that fit it.
THEOREM StreamInvariant == Spec => []StreamInv
<1>1. ASSUME StreamInv, [Next]_vars PROVE StreamInv'
  <2>1. CASE Poll
    BY <1>1, <2>1, PollInv
  <2>2. CASE \E e \in batch : Dispatch(e)
    BY <1>1, <2>2, DispatchInv
  <2>3. CASE HandleDnsResolved
    BY <1>1, <2>3, HandleDnsResolvedInv
  <2>4. CASE UNCHANGED vars
    BY <1>1, <2>4, StutterInv
  <2>5. QED
    BY <1>1, <2>1, <2>2, <2>3, <2>4 DEF Next
<1>2. QED
  BY <1>1, InitInv, PTL DEF Spec

\* Whatever the partial writes and the order of events, every piece of data a
\* stream has produced was sent once or waits once in the buffer.
THEOREM StreamConserved == Spec => []Conserved
<1>1. StreamInv => Conserved
  BY DEF StreamInv
<1>2. QED
  BY <1>1, StreamInvariant, PTL

\* Upstream data is sent in the order of the client when events come one at a
\* time and the server's hello was not answered early; downstream data always,
\* when the handler adds no answers.
THEOREM StreamInOrder == Spec => []InOrder
<1>1. StreamInv => InOrder
  BY Parts DEF InOrder, Steady
<1>2. QED
  BY <1>1, StreamInvariant, PTL

\* Data left in a buffer of a connected handler is waited for with POLL_OUT,
\* under the conditions PendingIsPolled names.
THEOREM StreamPendingIsPolled == Spec => []PendingIsPolled
<1>1. StreamInv => PendingIsPolled
  <2>1. ASSUME StreamInv, Steady, Live, remote PROVE Watched(up)
    BY <2>1 DEF StreamInv, TypeOK, RemotePhase, UpSerial, Live, Stages, Watched, Writing
  <2>2. ASSUME StreamInv, ~Answers PROVE Watched(down)
    BY <2>2 DEF StreamInv, DownPlain, Watched, Writing
  <2>3. QED
    BY <2>1, <2>2 DEF PendingIsPolled, Steady
<1>2. QED
  BY <1>1, StreamInvariant, PTL

-----------------------------------------------------------------------------
(* The UDP relay.                                                          *)

-----------------------------------------------------------------------------
(* What the operations on a cache do to its keys.                          *)

\* A cache: no key occurs twice.
IsCache(keys) == Unique(keys, Keys)

\* A key that is entered is the youngest.
LEMMA AppendCache ==
    ASSUME NEW keys, IsCache(keys), NEW k \in Keys, k \notin ToSet(keys)
    PROVE  /\ IsCache(Append(keys, k))
           /\ ToSet(Append(keys, k)) = ToSet(keys) \cup {k}
           /\ Len(Append(keys, k)) > 0 /\ Last(Append(keys, k)) = k
<1>1. /\ Unique(Append(keys, k), Keys) /\ ToSet(Append(keys, k)) = ToSet(keys) \cup {k}
      /\ Len(Append(keys, k)) = Len(keys) + 1 /\ Last(Append(keys, k)) = k
      /\ Len(keys) \in Nat
  BY AppendUnique DEF IsCache, Unique
<1>2. QED
  BY <1>1 DEF IsCache

\* The younger part of a cache is a cache, with the youngest key unless empty.
LEMMA SuffixCache ==
    ASSUME NEW keys, IsCache(keys), NEW n \in 1 .. Len(keys) + 1
    PROVE  LET rest == SubSeq(keys, n, Len(keys))
           IN  /\ IsCache(rest)
               /\ ToSet(rest) \subseteq ToSet(keys)
               /\ n <= Len(keys) => Last(keys) \in ToSet(rest)
<1> DEFINE rest == SubSeq(keys, n, Len(keys))
<1>1. /\ rest \in Seq(Keys) /\ Len(rest) = Len(keys) - n + 1
      /\ \A i \in 1 .. Len(rest) : rest[i] = keys[n + i - 1]
      /\ Len(keys) \in Nat /\ DOMAIN keys = 1 .. Len(keys) /\ DOMAIN rest = 1 .. Len(rest)
  BY DEF IsCache, Unique
<1> HIDE DEF rest
<1>2. IsCache(rest)
  <2> SUFFICES ASSUME NEW i \in 1 .. Len(rest), NEW j \in 1 .. Len(rest), rest[i] = rest[j]
               PROVE  i = j
    BY <1>1 DEF IsCache, Unique, IsInjective
  <2>1. n + i - 1 \in DOMAIN keys /\ n + j - 1 \in DOMAIN keys
    BY <1>1
  <2>2. n + i - 1 = n + j - 1
    BY <1>1, <2>1 DEF IsCache, Unique, IsInjective
  <2>3. QED
    BY <1>1, <2>2
<1>3. ToSet(rest) \subseteq ToSet(keys)
  <2>1. ASSUME NEW i \in 1 .. Len(rest) PROVE rest[i] \in ToSet(keys)
    <3>1. n + i - 1 \in DOMAIN keys /\ rest[i] = keys[n + i - 1]
      BY <1>1
    <3>2. QED
      BY <3>1 DEF ToSet
  <2>2. QED
    BY <1>1, <2>1 DEF ToSet
<1>4. ASSUME n <= Len(keys) PROVE Last(keys) \in ToSet(rest)
  <2>1. Len(rest) \in DOMAIN rest /\ rest[Len(rest)] = keys[Len(keys)]
    BY <1>1, <1>4
  <2>2. QED
    BY <2>1 DEF ToSet, Last
<1>5. QED
  BY <1>2, <1>3, <1>4 DEF rest

\* del of a key.
LEMMA RemoveCache ==
    ASSUME NEW keys, IsCache(keys), NEW k
    PROVE  IsCache(RemoveFirst(keys, k)) /\ ToSet(RemoveFirst(keys, k)) = ToSet(keys) \ {k}
BY RemoveFirstUnique DEF IsCache

\* Reading an entry keeps the keys and makes the one that was read the youngest.
LEMMA GetCache ==
    ASSUME NEW keys, IsCache(keys), NEW k \in Keys
    PROVE  /\ IsCache(get(keys, k)) /\ ToSet(get(keys, k)) = ToSet(keys)
           /\ k \in ToSet(keys) => Len(get(keys, k)) > 0 /\ Last(get(keys, k)) = k
<1>1. CASE k \in ToSet(keys)
  <2>1. get(keys, k) = Append(RemoveFirst(keys, k), k)
    BY <1>1 DEF get
  <2>2. QED
    BY <1>1, <2>1, MoveToEnd DEF IsCache
<1>2. CASE k \notin ToSet(keys)
  BY <1>2 DEF get
<1>3. QED
  BY <1>1, <1>2

\* Making room keeps a cache, adds no key and spares the youngest.
LEMMA ClearCache ==
    ASSUME NEW keys, IsCache(keys), NEW keep \in Nat \ {0}
    PROVE  /\ IsCache(clear(keys, keep))
           /\ ToSet(clear(keys, keep)) \subseteq ToSet(keys)
           /\ Len(keys) > 0 => Last(keys) \in ToSet(clear(keys, keep))
<1>0. Len(keys) \in Nat /\ DOMAIN keys = 1 .. Len(keys)
  BY DEF IsCache, Unique
<1>1. CASE Len(keys) > keep
  <2>1. /\ Len(keys) - keep + 1 \in 1 .. Len(keys) + 1
        /\ Len(keys) - keep + 1 <= Len(keys)
    BY <1>0, <1>1
  <2>2. QED
    BY <1>1, <2>1, SuffixCache DEF clear
<1>2. CASE ~(Len(keys) > keep)
  BY <1>0, <1>2 DEF clear, ToSet, Last
<1>3. QED
  BY <1>1, <1>2

\* A sweep keeps a cache and adds no key.
LEMMA SweepCache ==
    ASSUME NEW keys, IsCache(keys), NEW n \in 0 .. Len(keys)
    PROVE  IsCache(sweep(keys, n)) /\ ToSet(sweep(keys, n)) \subseteq ToSet(keys)
<1>1. n + 1 \in 1 .. Len(keys) + 1
  BY DEF IsCache, Unique
<1>2. QED
  BY <1>1, SuffixCache DEF sweep
-----------------------------------------------------------------------------
(* The tables.                                                             *)

\* ClientTables, with the types, of caches c and q, an entry table s, a
\* descriptor table addr and a set F of open sockets that may be in the making.
Tables(c, q, s, addr, F) ==
    /\ IsCache(c) /\ IsCache(q) /\ ToSet(c) \cap ToSet(q) = {}
    /\ s \in [Keys -> Fds \cup {None}] /\ addr \in [Fds -> Keys \cup {None}]
    /\ \A k \in Keys : s[k] # None <=> k \in ToSet(c) \cup ToSet(q)
    /\ F = {s[k] : k \in ToSet(c) \cup ToSet(q)}
    /\ \A fd \in Fds, k \in Keys : addr[fd] = k <=> s[k] = fd

\* A relay that makes no periodic calls has given up its port, so that only the
\* names pending then can still open sockets.
LateInv ==
    ~periodic => /\ server # "open"
                 /\ \A d \in pending : d.key \in late
                 /\ Open \subseteq late

\* The inductive invariant.
UdpInv ==
    /\ UdpTypeOK
    /\ Tables(cache, cache_dns, sock, fd_addr, sockets) /\ fdmap = sockets
    /\ LateInv

LEMMA UdpInvTables == ASSUME UdpInv PROVE ClientTables
<1>1. ToSet(cache) \subseteq Keys /\ ToSet(cache_dns) \subseteq Keys
  BY DEF UdpInv, Tables, IsCache, Unique, ToSet
<1>2. QED
  BY <1>1 DEF UdpInv, Tables, ClientTables, IsCache, Unique, Open

\* What falls out of the caches is closed, and nothing else is.
LEMMA CutInv ==
    ASSUME NEW c, NEW q, NEW c2, NEW q2, NEW s, NEW addr, NEW G,
           Tables(c, q, s, addr, sockets \cup G), fdmap = sockets,
           IsCache(c2), IsCache(q2), ToSet(c2) \subseteq ToSet(c), ToSet(q2) \subseteq ToSet(q),
           Cut(c, q, c2, q2, s, addr, G)
    PROVE  /\ Tables(cache, cache_dns, sock, fd_addr, sockets)' /\ fdmap' = sockets'
           /\ \A k \in ToSet(c2) \cup ToSet(q2) : sock'[k] = s[k] /\ s[k] # None
           /\ \A k \in Keys : sock'[k] # None => k \in ToSet(c2) \cup ToSet(q2)
<1> DEFINE out == (ToSet(c) \cup ToSet(q)) \ (ToSet(c2) \cup ToSet(q2))
           F == {s[k] : k \in out}
<1>0. ToSet(c) \subseteq Keys /\ ToSet(q) \subseteq Keys /\ out \subseteq Keys
  BY DEF Tables, IsCache, Unique, ToSet
<1>1. CloseSockets(s, addr, F, G) /\ cache' = c2 /\ cache_dns' = q2
  BY DEF Cut
<1>2. \A k \in Keys : k \in ToSet(c) \cup ToSet(q) => s[k] \in Fds
  BY DEF Tables
<1>3. \A k \in Keys : s[k] \in F <=> k \in out
  <2>1. \A k, j \in Keys : s[k] = s[j] /\ s[k] \in Fds => k = j
    BY DEF Tables
  <2>2. QED
    BY <1>0, <1>2, <2>1
<1> HIDE DEF out, F
<1>4. /\ sock' = [k \in Keys |-> IF s[k] \in F THEN None ELSE s[k]]
      /\ fd_addr' = [fd \in Fds |-> IF fd \in F THEN None ELSE addr[fd]]
      /\ sockets' = (sockets \cup G) \ F /\ fdmap' = (fdmap \cup G) \ F
  BY <1>1 DEF CloseSockets
<1>5. \A k \in Keys : k \in out <=> k \in ToSet(c) \cup ToSet(q) /\ k \notin ToSet(c2) \cup ToSet(q2)
  BY DEF out
<1>6. /\ sock' \in [Keys -> Fds \cup {None}] /\ fd_addr' \in [Fds -> Keys \cup {None}]
  BY <1>4 DEF Tables
<1>7. \A k \in Keys : sock'[k] = IF k \in ToSet(c2) \cup ToSet(q2) THEN s[k] ELSE None
  BY <1>0, <1>3, <1>4, <1>5 DEF Tables
<1>8. \A k \in Keys : sock'[k] # None <=> k \in ToSet(c2) \cup ToSet(q2)
  BY <1>7 DEF Tables
<1>9. sockets' = {sock'[k] : k \in ToSet(c2) \cup ToSet(q2)}
  <2>1. sockets \cup G = {s[k] : k \in ToSet(c) \cup ToSet(q)}
    BY DEF Tables
  <2>2. ToSet(c2) \cup ToSet(q2) \subseteq Keys
    BY <1>0
  <2>3. \A x : x \in sockets' => x \in {sock'[k] : k \in ToSet(c2) \cup ToSet(q2)}
    BY <1>0, <1>3, <1>4, <1>5, <1>7, <2>1, <2>2
  <2>4. \A k \in ToSet(c2) \cup ToSet(q2) : sock'[k] \in sockets'
    BY <1>0, <1>3, <1>4, <1>5, <1>7, <2>1, <2>2
  <2>5. QED
    BY <2>3, <2>4
<1>10. \A fd \in Fds, k \in Keys : fd_addr'[fd] = k <=> sock'[k] = fd
  BY <1>3, <1>4, UdpAssumption DEF Tables
<1>11. QED
  BY <1>0, <1>1, <1>4, <1>6, <1>7, <1>8, <1>9, <1>10 DEF Tables

\* Both caches are cut down to their size, and the youngest of each is spared.
LEMMA ShrinkInv ==
    ASSUME NEW c, NEW q, NEW s, NEW addr, NEW G,
           Tables(c, q, s, addr, sockets \cup G), fdmap = sockets,
           Shrink(c, q, s, addr, G)
    PROVE  /\ Tables(cache, cache_dns, sock, fd_addr, sockets)' /\ fdmap' = sockets'
           /\ \A k \in Keys : sock'[k] # None => k \in ToSet(c) \cup ToSet(q)
           /\ Len(c) > 0 => sock'[Last(c)] # None
           /\ Len(q) > 0 => sock'[Last(q)] # None
<1> DEFINE c2 == clear(c, UdpCacheSize)
           q2 == clear(q, DnsCacheSize)
<1>1. UdpCacheSize \in Nat \ {0} /\ DnsCacheSize \in Nat \ {0}
  BY UdpAssumption
<1>2. /\ IsCache(c2) /\ ToSet(c2) \subseteq ToSet(c)
      /\ Len(c) > 0 => Last(c) \in ToSet(c2)
  BY <1>1, ClearCache DEF Tables
<1>3. /\ IsCache(q2) /\ ToSet(q2) \subseteq ToSet(q)
      /\ Len(q) > 0 => Last(q) \in ToSet(q2)
  BY <1>1, ClearCache DEF Tables
<1>4. Cut(c, q, c2, q2, s, addr, G)
  BY DEF Shrink
<1> HIDE DEF c2, q2
<1>5. /\ Tables(cache, cache_dns, sock, fd_addr, sockets)' /\ fdmap' = sockets'
      /\ \A k \in ToSet(c2) \cup ToSet(q2) : sock'[k] = s[k] /\ s[k] # None
      /\ \A k \in Keys : sock'[k] # None => k \in ToSet(c2) \cup ToSet(q2)
  BY <1>2, <1>3, <1>4, CutInv
<1>6. QED
  BY <1>2, <1>3, <1>5

\* A datagram is sent on: the tables still agree, its client has a socket, and
\* nobody else has got one.
LEMMA ForwardInv ==
    ASSUME UdpInv, NEW d \in Datagrams, Forward(d)
    PROVE  /\ Tables(cache, cache_dns, sock, fd_addr, sockets)' /\ fdmap' = sockets'
           /\ \A k \in Keys : sock'[k] # None => k \in Open \cup {d.key}
           /\ sock'[d.key] # None
<1> DEFINE k == d.key
<1>0. k \in Keys /\ IsCache(cache) /\ IsCache(cache_dns) /\ sockets \cup {} = sockets
  BY DEF UdpInv, Tables, Datagrams
<1>1. CASE ForwardKnown(d)
  <2> DEFINE c == get(cache, k)
             q == IF k \in ToSet(cache) THEN cache_dns ELSE get(cache_dns, k)
  <2>1. /\ IsCache(c) /\ ToSet(c) = ToSet(cache)
        /\ k \in ToSet(cache) => Len(c) > 0 /\ Last(c) = k
    BY <1>0, GetCache
  <2>2. /\ IsCache(q) /\ ToSet(q) = ToSet(cache_dns)
        /\ k \in ToSet(cache_dns) \ ToSet(cache) => Len(q) > 0 /\ Last(q) = k
    BY <1>0, GetCache
  <2>3. Shrink(c, q, sock, fd_addr, {}) /\ k \in ToSet(cache) \cup ToSet(cache_dns)
    BY <1>1 DEF ForwardKnown, Known
  <2> HIDE DEF c, q, k
  <2>4. Tables(c, q, sock, fd_addr, sockets \cup {}) /\ fdmap = sockets
    BY <1>0, <2>1, <2>2 DEF UdpInv, Tables
  <2>5. /\ Tables(cache, cache_dns, sock, fd_addr, sockets)' /\ fdmap' = sockets'
        /\ \A j \in Keys : sock'[j] # None => j \in ToSet(c) \cup ToSet(q)
        /\ sock'[k] # None
    BY <2>1, <2>2, <2>3, <2>4, ShrinkInv
  <2>6. QED
    BY <2>1, <2>2, <2>5 DEF UdpInv, Tables, Open, k
<1>2. CASE ForwardNew(d)
  <2>1. k \notin ToSet(cache) /\ k \notin ToSet(cache_dns)
    BY <1>2 DEF ForwardNew, Known
  <2>2. PICK fd \in Fds \ fdmap :
            Shrink(IF d.dns THEN cache ELSE Append(cache, k),
                   IF d.dns THEN Append(cache_dns, k) ELSE cache_dns,
                   [sock EXCEPT ![k] = fd], [fd_addr EXCEPT ![fd] = k], {fd})
    BY <1>2 DEF ForwardNew
  <2> DEFINE c == IF d.dns THEN cache ELSE Append(cache, k)
             q == IF d.dns THEN Append(cache_dns, k) ELSE cache_dns
             s == [sock EXCEPT ![k] = fd]
             addr == [fd_addr EXCEPT ![fd] = k]
  <2> HIDE DEF k
  <2>3. /\ IsCache(Append(cache, k)) /\ ToSet(Append(cache, k)) = ToSet(cache) \cup {k}
        /\ Len(Append(cache, k)) > 0 /\ Last(Append(cache, k)) = k
        /\ IsCache(Append(cache_dns, k))
        /\ ToSet(Append(cache_dns, k)) = ToSet(cache_dns) \cup {k}
        /\ Len(Append(cache_dns, k)) > 0 /\ Last(Append(cache_dns, k)) = k
    BY <1>0, <2>1, AppendCache
  <2>4. /\ IsCache(c) /\ IsCache(q) /\ ToSet(c) \cap ToSet(q) = {}
        /\ ToSet(c) \cup ToSet(q) = ToSet(cache) \cup ToSet(cache_dns) \cup {k}
        /\ (Len(c) > 0 /\ Last(c) = k) \/ (Len(q) > 0 /\ Last(q) = k)
    <3>1. CASE d.dns
      BY <1>0, <2>1, <2>3, <3>1 DEF UdpInv, Tables
    <3>2. CASE ~d.dns
      BY <1>0, <2>1, <2>3, <3>2 DEF UdpInv, Tables
    <3>3. QED
      BY <3>1, <3>2
  <2>5. Shrink(c, q, s, addr, {fd})
    BY <2>2
  <2> HIDE DEF c, q
  <2>6. Tables(c, q, s, addr, sockets \cup {fd}) /\ fdmap = sockets
    <3> USE DEF UdpInv, Tables
    <3>0. /\ fd \notin sockets /\ fd # None /\ sock[k] = None
          /\ ToSet(cache) \subseteq Keys /\ ToSet(cache_dns) \subseteq Keys
      BY <1>0, <2>1, UdpAssumption DEF IsCache, Unique, ToSet
    <3>1. s \in [Keys -> Fds \cup {None}] /\ addr \in [Fds -> Keys \cup {None}]
      BY <1>0
    <3>2. \A j \in Keys : s[j] # None <=> j \in ToSet(c) \cup ToSet(q)
      BY <1>0, <2>4, <3>0
    <3>3. \A j \in ToSet(cache) \cup ToSet(cache_dns) : j # k /\ s[j] = sock[j]
      BY <1>0, <2>1, <3>0
    <3>4. sockets \cup {fd} = {s[j] : j \in ToSet(c) \cup ToSet(q)}
      <4>1. sockets = {s[j] : j \in ToSet(cache) \cup ToSet(cache_dns)} /\ s[k] = fd
        BY <1>0, <3>3
      <4>2. \A A : {s[j] : j \in A \cup {k}} = {s[j] : j \in A} \cup {s[k]}
        OBVIOUS
      <4>3. {s[j] : j \in (ToSet(cache) \cup ToSet(cache_dns)) \cup {k}} = sockets \cup {fd}
        BY <4>1, <4>2
      <4>4. QED
        BY <2>4, <4>3
    <3>5. \A f \in Fds, j \in Keys : addr[f] = j <=> s[j] = f
      <4>1. \A j \in Keys : sock[j] # fd
        BY <3>0, <1>0, UdpAssumption
      <4>2. QED
        BY <1>0, <3>0, <4>1, UdpAssumption
    <3>6. QED
      BY <2>4, <3>1, <3>2, <3>4, <3>5
  <2> HIDE DEF s, addr
  <2>7. /\ Tables(cache, cache_dns, sock, fd_addr, sockets)' /\ fdmap' = sockets'
        /\ \A j \in Keys : sock'[j] # None => j \in ToSet(c) \cup ToSet(q)
        /\ sock'[k] # None
    BY <2>4, <2>5, <2>6, ShrinkInv
  <2>8. QED
    BY <2>4, <2>7 DEF UdpInv, Tables, Open, k
<1>3. QED
  BY <1>1, <1>2 DEF Forward

-----------------------------------------------------------------------------
(* The events.                                                             *)

\* The sockets of all clients are closed.
LEMMA ClearAllInv ==
    ASSUME UdpInv, ClearAll
    PROVE  /\ Tables(cache, cache_dns, sock, fd_addr, sockets)' /\ fdmap' = sockets'
           /\ \A k \in Keys : sock'[k] = None
<1>1. IsCache(<<>>) /\ ToSet(<<>>) = {}
  BY DEF IsCache, Unique, IsInjective, ToSet
<1>2. Tables(cache, cache_dns, sock, fd_addr, sockets \cup {}) /\ fdmap = sockets
  BY DEF UdpInv, Tables
<1>3. QED
  BY <1>1, <1>2, CutInv DEF ClearAll

\* UdpTypeOK follows from the tables for the variables of the clients.
LEMMA TypeStep ==
    ASSUME UdpInv, Tables(cache, cache_dns, sock, fd_addr, sockets)', fdmap' = sockets',
           server' \in {"open", "closed", "None"},
           {closed', periodic', running'} \subseteq BOOLEAN,
           pending' \subseteq Datagrams, late' \subseteq Keys
    PROVE  UdpTypeOK'
<1>1. sockets' \subseteq Fds
  <2>1. ToSet(cache') \subseteq Keys /\ ToSet(cache_dns') \subseteq Keys
    BY DEF Tables, IsCache, Unique, ToSet
  <2>2. QED
    BY <2>1 DEF Tables
<1>2. QED
  BY <1>1 DEF UdpTypeOK, Tables, IsCache, Unique

\* A step that leaves the clients' sockets alone.
LEMMA QuietInv ==
    ASSUME UdpInv, UNCHANGED clientVars
    PROVE  Tables(cache, cache_dns, sock, fd_addr, sockets)' /\ fdmap' = sockets' /\ Open' = Open
BY DEF UdpInv, clientVars, Tables, Open

\* A reply of a client's peer.
LEMMA HandleClientInv ==
    ASSUME UdpInv, HandleClient
    PROVE  UdpInv'
<1>1. PICK fd \in fdmap \cap sockets :
        LET k == fd_addr[fd]
            c == get(cache, k)
            q == get(cache_dns, k)
        IN  \/ /\ cache' = c /\ cache_dns' = q
               /\ UNCHANGED <<sock, fd_addr, sockets, fdmap>>
            \/ /\ server # "None" /\ k \in ToSet(cache_dns)
               /\ Cut(c, q, c, RemoveFirst(q, k), sock, fd_addr, {})
  BY DEF HandleClient
<1> DEFINE k == fd_addr[fd]
           c == get(cache, k)
           q == get(cache_dns, k)
<1>2. k \in Keys
  <2>1. ToSet(cache) \subseteq Keys /\ ToSet(cache_dns) \subseteq Keys
    BY DEF UdpInv, Tables, IsCache, Unique, ToSet
  <2>2. PICK j \in ToSet(cache) \cup ToSet(cache_dns) : fd = sock[j]
    BY DEF UdpInv, Tables
  <2>3. fd \in Fds
    BY DEF UdpInv, UdpTypeOK
  <2>4. QED
    BY <2>1, <2>2, <2>3 DEF UdpInv, Tables
<1>3. /\ IsCache(c) /\ ToSet(c) = ToSet(cache)
      /\ IsCache(q) /\ ToSet(q) = ToSet(cache_dns)
  BY <1>2, GetCache DEF UdpInv, Tables
<1>4. IsCache(RemoveFirst(q, k)) /\ ToSet(RemoveFirst(q, k)) \subseteq ToSet(q)
  BY <1>3, RemoveCache
<1>5. \/ /\ cache' = c /\ cache_dns' = q
         /\ UNCHANGED <<sock, fd_addr, sockets, fdmap>>
      \/ Cut(c, q, c, RemoveFirst(q, k), sock, fd_addr, {})
  BY <1>1
<1>6. UNCHANGED <<server, closed, periodic, running, pending, late>>
  BY DEF HandleClient
<1> HIDE DEF k, c, q
<1>7. /\ Tables(c, q, sock, fd_addr, sockets \cup {}) /\ fdmap = sockets
      /\ sockets \cup {} = sockets
  BY <1>3 DEF UdpInv, Tables
<1>8. /\ Tables(cache, cache_dns, sock, fd_addr, sockets)' /\ fdmap' = sockets'
      /\ \A j \in Keys : sock'[j] # None => j \in Open
  <2>1. CASE Cut(c, q, c, RemoveFirst(q, k), sock, fd_addr, {})
    <3>1. /\ Tables(cache, cache_dns, sock, fd_addr, sockets)' /\ fdmap' = sockets'
          /\ \A j \in Keys : sock'[j] # None => j \in ToSet(c) \cup ToSet(RemoveFirst(q, k))
      BY <1>3, <1>4, <1>7, <2>1, CutInv
    <3>2. QED
      BY <1>3, <1>4, <3>1 DEF UdpInv, Tables, Open
  <2>2. CASE cache' = c /\ cache_dns' = q /\ UNCHANGED <<sock, fd_addr, sockets, fdmap>>
    BY <1>7, <2>2 DEF UdpInv, Tables, Open
  <2>3. QED
    BY <1>5, <2>1, <2>2
<1>9. UdpTypeOK'
  BY <1>6, <1>8, TypeStep DEF UdpInv, UdpTypeOK
<1>10. LateInv'
  BY <1>6, <1>8 DEF UdpInv, LateInv, Open
<1>11. QED
  BY <1>8, <1>9, <1>10 DEF UdpInv

\* sweep() of both caches.
LEMMA SweepInv ==
    ASSUME UdpInv, Sweep
    PROVE  UdpInv'
<1>1. PICK n \in 0 .. Len(cache), m \in 0 .. Len(cache_dns) :
          Cut(cache, cache_dns, sweep(cache, n), sweep(cache_dns, m), sock, fd_addr, {})
  BY DEF Sweep
<1>2. /\ IsCache(sweep(cache, n)) /\ ToSet(sweep(cache, n)) \subseteq ToSet(cache)
      /\ IsCache(sweep(cache_dns, m)) /\ ToSet(sweep(cache_dns, m)) \subseteq ToSet(cache_dns)
  BY SweepCache DEF UdpInv, Tables
<1>3. Tables(cache, cache_dns, sock, fd_addr, sockets \cup {}) /\ fdmap = sockets
  BY DEF UdpInv, Tables
<1>4. Tables(cache, cache_dns, sock, fd_addr, sockets)' /\ fdmap' = sockets'
  BY <1>1, <1>2, <1>3, CutInv
<1>5. periodic /\ UNCHANGED <<server, closed, periodic, running, pending, late>>
  BY DEF Sweep
<1>6. UdpTypeOK'
  BY <1>4, <1>5, TypeStep DEF UdpInv, UdpTypeOK
<1>7. QED
  BY <1>4, <1>5, <1>6 DEF UdpInv, LateInv

\* The relay is dismantled, at once or by handle_periodic.
LEMMA DismantleInv ==
    ASSUME UdpInv, ClearAll, periodic' = FALSE, server' \in {"closed", "None"},
           closed' \in BOOLEAN, late' = {d.key : d \in pending}, UNCHANGED <<running, pending>>
    PROVE  UdpInv'
<1>1. /\ Tables(cache, cache_dns, sock, fd_addr, sockets)' /\ fdmap' = sockets'
      /\ \A k \in Keys : sock'[k] = None
  BY ClearAllInv
<1>2. pending \subseteq Datagrams /\ late' \subseteq Keys
  BY DEF UdpInv, UdpTypeOK, Datagrams
<1>3. UdpTypeOK'
  BY <1>1, <1>2, TypeStep DEF UdpInv, UdpTypeOK
<1>4. LateInv'
  BY <1>1 DEF LateInv, Open
<1>5. QED
  BY <1>1, <1>3, <1>4 DEF UdpInv

LEMMA UdpInitInv == UdpInit => UdpInv
<1> SUFFICES ASSUME UdpInit PROVE UdpInv
  OBVIOUS
<1>1. IsCache(<<>>) /\ ToSet(<<>>) = {}
  BY DEF IsCache, Unique, IsInjective, ToSet
<1>2. Tables(cache, cache_dns, sock, fd_addr, sockets) /\ fdmap = sockets
  BY <1>1, UdpAssumption DEF UdpInit, Tables
<1>3. UdpTypeOK
  <2>1. cache \in Seq(Keys) /\ cache_dns \in Seq(Keys)
    BY DEF UdpInit
  <2>2. /\ sock \in [Keys -> Fds \cup {None}] /\ fd_addr \in [Fds -> Keys \cup {None}]
        /\ sockets \subseteq Fds /\ fdmap \subseteq Fds
        /\ server \in {"open", "closed", "None"}
        /\ {closed, periodic, running} \subseteq BOOLEAN
        /\ pending \subseteq Datagrams /\ late \subseteq Keys
    BY DEF UdpInit
  <2>3. QED
    BY <2>1, <2>2 DEF UdpTypeOK
<1>4. LateInv
  BY DEF UdpInit, LateInv
<1>5. QED
  BY <1>2, <1>3, <1>4 DEF UdpInv

LEMMA UdpNextInv == UdpInv /\ [UdpNext]_udpVars => UdpInv'
<1> SUFFICES ASSUME UdpInv, [UdpNext]_udpVars
             PROVE  UdpInv'
  OBVIOUS
<1>1. CASE HandleServerNow
  <2>1. PICK d \in Datagrams : Forward(d)
    BY <1>1 DEF HandleServerNow
  <2>2. Tables(cache, cache_dns, sock, fd_addr, sockets)' /\ fdmap' = sockets'
    BY <2>1, ForwardInv
  <2>3. server = "open" /\ UNCHANGED <<server, closed, periodic, running, pending, late>>
    BY <1>1 DEF HandleServerNow
  <2>4. UdpTypeOK'
    BY <2>2, <2>3, TypeStep DEF UdpInv, UdpTypeOK
  <2>5. QED
    BY <2>2, <2>3, <2>4 DEF UdpInv, LateInv
<1>2. CASE HandleServerResolve
  <2>1. /\ server = "open" /\ UNCHANGED <<clientVars, server, closed, periodic, running, late>>
        /\ pending' \subseteq Datagrams
    BY <1>2 DEF HandleServerResolve, UdpInv, UdpTypeOK
  <2>2. Tables(cache, cache_dns, sock, fd_addr, sockets)' /\ fdmap' = sockets'
    BY <2>1, QuietInv
  <2>3. UdpTypeOK'
    BY <2>1, <2>2, TypeStep DEF UdpInv, UdpTypeOK
  <2>4. QED
    BY <2>1, <2>2, <2>3 DEF UdpInv, LateInv
<1>3. CASE DnsResolved
  <2>1. PICK d \in pending : pending' = pending \ {d} /\ (Forward(d) \/ UNCHANGED clientVars)
    BY <1>3 DEF DnsResolved
  <2>2. d \in Datagrams /\ d.key \in Keys /\ pending' \subseteq Datagrams
    BY <2>1 DEF UdpInv, UdpTypeOK, Datagrams
  <2>3. /\ Tables(cache, cache_dns, sock, fd_addr, sockets)' /\ fdmap' = sockets'
        /\ \A k \in Keys : sock'[k] # None => k \in Open \cup {d.key}
    <3>1. CASE Forward(d)
      BY <2>2, <3>1, ForwardInv
    <3>2. CASE UNCHANGED clientVars
      BY <3>2, QuietInv DEF Open
    <3>3. QED
      BY <2>1, <3>1, <3>2
  <2>4. UNCHANGED <<server, closed, periodic, running, late>>
    BY <1>3 DEF DnsResolved
  <2>5. UdpTypeOK'
    BY <2>2, <2>3, <2>4, TypeStep DEF UdpInv, UdpTypeOK
  <2>6. LateInv'
    BY <2>1, <2>3, <2>4 DEF UdpInv, LateInv, Open
  <2>7. QED
    BY <2>3, <2>5, <2>6 DEF UdpInv
<1>4. CASE DnsResolvedKillsLoop \/ CloseNextTick \/ UNCHANGED udpVars
  <2>1. /\ UNCHANGED <<clientVars, server, periodic, late>>
        /\ pending' \subseteq pending
        /\ closed' \in BOOLEAN /\ running' \in BOOLEAN
    BY <1>4 DEF DnsResolvedKillsLoop, CloseNextTick, udpVars, UdpInv, UdpTypeOK
  <2>2. Tables(cache, cache_dns, sock, fd_addr, sockets)' /\ fdmap' = sockets' /\ Open' = Open
    BY <2>1, QuietInv
  <2>3. UdpTypeOK'
    BY <2>1, <2>2, TypeStep DEF UdpInv, UdpTypeOK
  <2>4. LateInv'
    BY <2>1, <2>2 DEF UdpInv, LateInv
  <2>5. QED
    BY <2>2, <2>3, <2>4 DEF UdpInv
<1>5. CASE HandleClient
  BY <1>5, HandleClientInv
<1>6. CASE Sweep
  BY <1>6, SweepInv
<1>7. CASE Dismantle
  BY <1>7, DismantleInv DEF Dismantle, UdpInv, UdpTypeOK
<1>8. CASE CloseNow
  BY <1>8, DismantleInv DEF CloseNow
<1>9. QED
  BY <1>1, <1>2, <1>3, <1>4, <1>5, <1>6, <1>7, <1>8 DEF UdpNext

-----------------------------------------------------------------------------

\* The UDP relay keeps its inductive invariant, its type invariant included, for
\* any clients, descriptors and cache sizes.
THEOREM UdpInvariant == UdpSpec => []UdpInv
BY UdpInitInv, UdpNextInv, PTL DEF UdpSpec

\* The caches, the descriptor tables and the event loop agree on the client
\* sockets through every eviction, sweep, late answer and closing.
THEOREM UdpClientTables == UdpSpec => []ClientTables
<1>1. UdpInv => ClientTables
  BY UdpInvTables
<1>2. QED
  BY <1>1, UdpInvariant, PTL

\* A dismantled relay holds no client socket but those of names that were being
\* resolved when it was dismantled.
THEOREM UdpOnlyLateLeft == UdpSpec => []OnlyLateLeft
<1>1. UdpInv => OnlyLateLeft
  BY DEF UdpInv, LateInv, OnlyLateLeft
<1>2. QED
  BY <1>1, UdpInvariant, PTL

\* Making room in the caches never closes the socket of the datagram at hand.
THEOREM UdpUsedIsKept == UdpSpec => UsedIsKept
<1>1. UdpInv => [\A d \in Datagrams : Forward(d) => sock'[d.key] # None]_udpVars
  BY ForwardInv
<1>2. QED
  BY <1>1, UdpInvariant, PTL DEF UsedIsKept
=============================================================================
