----------------------------- MODULE ObfsProofs ------------------------------
(***************************************************************************)
(* The obfuscation plug-ins implement a channel in each direction: however *)
(* TCP cuts the stream, whatever part of a handshake is damaged and        *)
(* whether or not the client uses the plug-in, what an end is handed is    *)
(* what the other wrote, in order and from the start, or nothing.          *)
(***************************************************************************)
EXTENDS Obfs, SequenceLemmas

\* The cells of the wires and the buffers.  Only these parts carry data.
Carriers == {"data", "body", "blank"}
Heads == {"rand", "crc", "more"}
Response == {"200", "crlf", "crlf2"}
Kinds == Carriers \cup Heads \cup Response \cup
         {"hello", "rest", "shello", "srest", "fin", "fin11", "finmac", "rec", "get"}
Cells == {c \in [t : Kinds, d : Seq(Nat), ok : BOOLEAN] : c.t \in Carriers \/ c.d = <<>>}

Statuses == IF method = "tls" THEN {-1, 1, 4, 8} ELSE {"sent", "recv", "open"}
Plugins == [status : SUBSET Statuses, send_buffer : Seq(Cells), recv_buffer : Seq(Cells)]

ObfsTypes ==
    /\ method \in {"tls", "http", "random_head"}
    /\ compatible \in BOOLEAN /\ plain \in BOOLEAN
    /\ client \in Plugins /\ server \in Plugins
    /\ wire \in [Ends -> Seq(Cells)]
    /\ sent \in [Ends -> Seq(Nat)]
    /\ out \in [Ends -> Seq(Nat)]
    /\ refused \in [Ends -> BOOLEAN]
    /\ dead \in BOOLEAN

\* Cells of these parts come before all others.
First(b, parts) == \A i, j \in 1 .. Len(b) : i < j /\ b[j].t \in parts => b[i].t \in parts
Has(b, parts) == \E i \in 1 .. Len(b) : b[i].t \in parts
NoData(b) == \A i \in 1 .. Len(b) : b[i].d = <<>>

\* What waits in send_buffer is gone before later data goes out directly.
ClientReady(p) ==
    /\ ~Has(p.send_buffer, Heads) /\ ~Has(p.recv_buffer, Heads)
    /\ plain \/ method = "http" => p.send_buffer = <<>>
    /\ plain \/ method # "tls" => p.recv_buffer = <<>>
    /\ method = "tls" =>
          /\ p.status \in {{}, {1}, {8}}
          /\ 8 \in p.status => p.send_buffer = <<>>
    /\ method = "random_head" /\ ~plain =>
          /\ p.status \in {{}, {"sent"}, {"sent", "recv"}, {"sent", "recv", "open"}}
          /\ "open" \in p.status => p.send_buffer = <<>>

ServerReady(p) ==
    /\ ~Has(p.recv_buffer, Heads)
    /\ method = "tls" /\ -1 \in p.status => p.status \cap {1, 4} = {}
    /\ method = "random_head" => p.recv_buffer = <<>>

\* The server has opened nothing yet, and may refuse.
Unopened(p) == IF method = "tls" THEN p.status \cap {-1, 1, 4} = {} ELSE "recv" \notin p.status

EndsInv ==
    /\ ClientReady(client)
    /\ ServerReady(server)
    /\ Unopened(server) => out["server"] = <<>>

\* The random heads, which must not come out behind data, go first.
HeadInv ==
    /\ \A x \in Ends : First(wire[x], Heads) /\ (Has(wire[x], Heads) => out[x] = <<>>)
    /\ method # "random_head" \/ plain => \A x \in Ends : ~Has(wire[x], Heads)

HttpInv ==
    method = "http" =>
        /\ First(wire["client"], Response)
        /\ "sent" \notin server.status => wire["client"] = <<>> /\ sent["client"] = <<>>
        /\ ~plain /\ "recv" \notin client.status => out["client"] = <<>>

\* The client sends no data before the server's head has come, and the server
\* none before the client's data: the chunk the client drops holds none.
RandomInv ==
    method = "random_head" =>
        /\ server.status \in {{}, {"sent", "recv"}}
        /\ server.status = {} => /\ wire["client"] = <<>>
                                 /\ \A x \in Ends : out[x] = <<>>
        /\ ~plain =>
              /\ client.status \in {{}, {"sent"}, {"sent", "recv", "open"}}
              /\ client.status = {} => wire["server"] = <<>> /\ server.status = {}
              /\ "open" \notin client.status =>
                    /\ out["server"] = <<>>
                    /\ \A x \in Ends : NoData(wire[x])

\* What the server has kept back of the stream.
Held(p) == IF (IF method = "tls" THEN -1 ELSE "recv") \in p.status THEN <<>> ELSE p.recv_buffer

\* Nothing written for the server is missing, doubled or out of place.
UpInv ==
    ~refused["server"] =>
        sent["server"] = out["server"] \o DataOf(Held(server)) \o DataOf(wire["server"])
                            \o DataOf(client.send_buffer)

\* An http client that was given the blank line in two chunks waits for ever.
BlankAhead(b) == \E i \in 2 .. Len(b) : b[i - 1].t = "crlf" /\ b[i].t = "crlf2"
Lost ==
    /\ method = "http" /\ ~plain
    /\ "recv" \notin client.status /\ "sent" \in server.status
    /\ ~BlankAhead(wire["client"])

DownInv ==
    ~refused["client"] /\ ~Lost =>
        sent["client"] = out["client"] \o DataOf(client.recv_buffer) \o DataOf(wire["client"])

ObfsInv ==
    /\ ObfsTypes
    /\ ~dead => EndsInv /\ HeadInv /\ HttpInv /\ RandomInv /\ UpInv /\ DownInv

-----------------------------------------------------------------------------
(* The data of a sequence of cells.                                        *)

\* Data is put together piece by piece.
LEMMA NatConcat ==
    /\ \A s, t \in Seq(Nat) : s \o t \in Seq(Nat)
    /\ \A s, t, u \in Seq(Nat) : (s \o t) \o u = s \o (t \o u)
    /\ \A s \in Seq(Nat) : s \o <<>> = s /\ <<>> \o s = s
    /\ <<>> \in Seq(Nat)
<1>1. \A s, t, u \in Seq(Nat) : (s \o t) \o u = s \o (t \o u)
  BY SMTT(30), ConcatAssociative
<1>2. \A s, t \in Seq(Nat) : s \o t \in Seq(Nat)
  OBVIOUS
<1>3. /\ \A s \in Seq(Nat) : s \o <<>> = s /\ <<>> \o s = s
      /\ <<>> \in Seq(Nat)
  OBVIOUS
<1>4. QED
  BY <1>1, <1>2, <1>3, Zenon

\* The same for the provers, which need not look into the sequences.
Streams == Seq(Nat)
Cat(s, t) == s \o t

LEMMA CatLaws ==
    /\ \A s, t \in Streams : Cat(s, t) \in Streams
    /\ \A s, t, u \in Streams : Cat(Cat(s, t), u) = Cat(s, Cat(t, u))
    /\ \A s \in Streams : Cat(s, <<>>) = s /\ Cat(<<>>, s) = s
    /\ <<>> \in Streams
BY NatConcat DEF Streams, Cat

DataFn(b) == CHOOSE f : f = [n \in 0 .. Len(b) |-> IF n = 0 THEN <<>> ELSE f[n - 1] \o b[n].d]

\* The recursion of DataOf is well defined.
LEMMA DataFnIs ==
    ASSUME NEW b \in Seq(Cells)
    PROVE  /\ Len(b) \in Nat /\ DataOf(b) \in Seq(Nat) /\ DataOf(b) = DataFn(b)[Len(b)]
           /\ DataFn(b) \in [0 .. Len(b) -> Seq(Nat)]
           /\ DataFn(b)[0] = <<>>
           /\ \A n \in 1 .. Len(b) : b[n].d \in Seq(Nat) /\ DataFn(b)[n] = DataFn(b)[n - 1] \o b[n].d
<1> DEFINE h == [n \in 1 .. Len(b) |-> [s \in Seq(Nat) |-> s \o b[n].d]]
           F == DataFn(b)
<1>1. ASSUME NEW n \in 1 .. Len(b) PROVE b[n].d \in Seq(Nat)
  <2>1. b[n] \in Cells
    OBVIOUS
  <2>2. QED
    BY <2>1 DEF Cells
<1>2. /\ h \in [1 .. Len(b) -> [Seq(Nat) -> Seq(Nat)]]
      /\ <<>> \in Seq(Nat) /\ Len(b) \in Nat
  BY <1>1
<1>3. PICK f : Iterates(f, Seq(Nat), Len(b), <<>>, h)
  <2> HIDE DEF h
  <2>1. QED
    BY <1>2, RecursiveFunction
<1>4. f \in [0 .. Len(b) -> Seq(Nat)] /\ f[0] = <<>>
  BY <1>3 DEF Iterates
<1>5. ASSUME NEW n \in 1 .. Len(b) PROVE f[n] = f[n - 1] \o b[n].d
  <2>1. f[n - 1] \in Seq(Nat)
    BY <1>4
  <2>2. h[n][f[n - 1]] = f[n - 1] \o b[n].d
    BY <2>1
  <2>3. QED
    BY <1>3, <2>2 DEF Iterates
<1> HIDE DEF h
<1>6. f = [n \in 0 .. Len(b) |-> IF n = 0 THEN <<>> ELSE f[n - 1] \o b[n].d]
  <2>1. DOMAIN f = 0 .. Len(b) /\ f = [n \in 0 .. Len(b) |-> f[n]]
    BY <1>4
  <2>2. ASSUME NEW n \in 0 .. Len(b) PROVE f[n] = IF n = 0 THEN <<>> ELSE f[n - 1] \o b[n].d
    <3>1. n = 0 \/ n \in 1 .. Len(b)
      BY <1>2
    <3>2. QED
      BY <1>4, <1>5, <3>1
  <2>3. QED
    BY <2>1, <2>2
<1>7. F = [n \in 0 .. Len(b) |-> IF n = 0 THEN <<>> ELSE F[n - 1] \o b[n].d]
  BY <1>6 DEF DataFn
<1>8. \A n \in 1 .. Len(b) : F[n] = F[n - 1] \o b[n].d
  BY <1>7
<1>9. F[0] = <<>> /\ DOMAIN F = 0 .. Len(b)
  BY <1>2, <1>7
<1> HIDE DEF F
<1> DEFINE S == {n \in Nat : F[n] \in Seq(Nat)}
<1>10. 0 \in S
  BY <1>2, <1>9
<1>11. ASSUME NEW n \in 0 .. Len(b) - 1, n \in S PROVE n + 1 \in S
  <2>1. F[n] \in Seq(Nat) /\ n + 1 \in 1 .. Len(b) /\ (n + 1) - 1 = n
    BY <1>2, <1>11
  <2>2. F[n + 1] = F[n] \o b[n + 1].d /\ b[n + 1].d \in Seq(Nat)
    BY <1>1, <1>8, <2>1
  <2>3. F[n + 1] \in Seq(Nat) /\ n + 1 \in Nat
    BY <2>1, <2>2, ConcatProperties
  <2>4. QED
    BY <2>3
<1>12. 0 .. Len(b) \subseteq S
  <2> HIDE DEF S
  <2>1. QED
    BY <1>2, <1>10, <1>11, RangeInduction
<1>13. F \in [0 .. Len(b) -> Seq(Nat)]
  BY <1>7, <1>12
<1>14. DataOf(b) = F[Len(b)]
  BY DEF DataOf, DataFn, F
<1>15. F[Len(b)] \in Seq(Nat)
  BY <1>2, <1>13
<1>16. QED
  BY <1>1, <1>2, <1>15, <1>8, <1>9, <1>13, <1>14 DEF F

LEMMA DataType ==
    ASSUME NEW b \in Seq(Cells)
    PROVE  DataOf(b) \in Seq(Nat)
BY DataFnIs

LEMMA DataEmpty == DataOf(<<>>) = <<>>
<1>1. <<>> \in Seq(Cells) /\ Len(<<>>) = 0
  OBVIOUS
<1>2. QED
  BY <1>1, DataFnIs

LEMMA NoDataBeside ==
    ASSUME NEW d \in Seq(Nat)
    PROVE  d \o DataOf(<<>>) = DataOf(<<>>) \o d
<1>1. d \o <<>> = <<>> \o d
  OBVIOUS
<1>2. QED
  BY <1>1, DataEmpty

\* Sequences that start with the same data, cell by cell.
LEMMA DataAgree ==
    ASSUME NEW a \in Seq(Cells), NEW b \in Seq(Cells), Len(a) <= Len(b),
           \A i \in 1 .. Len(a) : a[i].d = b[i].d
    PROVE  \A n \in 0 .. Len(a) : DataFn(a)[n] = DataFn(b)[n]
<1> DEFINE S == {n \in Nat : DataFn(a)[n] = DataFn(b)[n]}
<1>1. Len(a) \in Nat /\ Len(b) \in Nat
  OBVIOUS
<1>2. 0 \in S
  BY DataFnIs
<1>3. ASSUME NEW n \in 0 .. Len(a) - 1, n \in S PROVE n + 1 \in S
  <2>1. n + 1 \in 1 .. Len(a) /\ n + 1 \in 1 .. Len(b) /\ (n + 1) - 1 = n /\ n + 1 \in Nat
    BY <1>1
  <2>2. /\ DataFn(a)[n + 1] = DataFn(a)[n] \o a[n + 1].d
        /\ DataFn(b)[n + 1] = DataFn(b)[n] \o b[n + 1].d
    BY <2>1, DataFnIs
  <2>3. a[n + 1].d = b[n + 1].d
    BY <2>1
  <2>4. DataFn(a)[n] = DataFn(b)[n]
    BY <1>3
  <2>5. QED
    BY <2>1, <2>2, <2>3, <2>4
<1>4. 0 .. Len(a) \subseteq S
  <2> HIDE DEF S
  <2>1. QED
    BY <1>1, <1>2, <1>3, RangeInduction
<1>5. QED
  BY <1>4

\* Damage does not change the data.
LEMMA DataSame ==
    ASSUME NEW a \in Seq(Cells), NEW b \in Seq(Cells), Len(a) = Len(b),
           \A i \in 1 .. Len(a) : a[i].d = b[i].d
    PROVE  DataOf(a) = DataOf(b)
<1>1. Len(a) \in 0 .. Len(a) /\ Len(a) <= Len(b)
  OBVIOUS
<1>2. DataFn(a)[Len(a)] = DataFn(b)[Len(a)]
  BY <1>1, DataAgree
<1>3. QED
  BY <1>2, DataFnIs

LEMMA DataOne ==
    ASSUME NEW c \in Cells
    PROVE  DataOf(<<c>>) = c.d /\ c.d \in Seq(Nat)
<1> DEFINE b == <<c>>
<1>1. b \in Seq(Cells) /\ Len(b) = 1 /\ b[1] = c
  OBVIOUS
<1> HIDE DEF b
<1>2. /\ DataOf(b) = DataFn(b)[Len(b)] /\ DataFn(b)[0] = <<>>
      /\ 1 \in 1 .. Len(b) /\ 1 - 1 = 0
  <2>1. DataOf(b) = DataFn(b)[Len(b)] /\ DataFn(b)[0] = <<>>
    BY <1>1, DataFnIs
  <2>2. 1 \in 1 .. Len(b)
    BY <1>1
  <2>3. QED
    BY <2>1, <2>2
<1>3. c.d \in Seq(Nat) /\ DataFn(b)[1] = DataFn(b)[1 - 1] \o c.d
  BY <1>1, <1>2, DataFnIs
<1>4. <<>> \o c.d = c.d
  BY <1>3, ConcatEmptySeq
<1>5. QED
  BY <1>1, <1>2, <1>3, <1>4 DEF b

LEMMA DataNone ==
    ASSUME NEW b \in Seq(Cells), NoData(b)
    PROVE  DataOf(b) = <<>>
<1> DEFINE S == {n \in Nat : DataFn(b)[n] = <<>>}
<1>1. Len(b) \in Nat /\ 0 \in S
  <2>1. DataFn(b)[0] = <<>> /\ Len(b) \in Nat
    BY DataFnIs
  <2>2. QED
    BY <2>1
<1>2. ASSUME NEW n \in 0 .. Len(b) - 1, n \in S PROVE n + 1 \in S
  <2>1. n + 1 \in 1 .. Len(b) /\ (n + 1) - 1 = n /\ n + 1 \in Nat
    BY <1>1
  <2>2. DataFn(b)[n + 1] = DataFn(b)[n] \o b[n + 1].d /\ b[n + 1].d = <<>>
    BY <2>1, DataFnIs DEF NoData
  <2>3. QED
    BY <1>2, <2>1, <2>2
<1>3. 0 .. Len(b) \subseteq S
  <2> HIDE DEF S
  <2>1. QED
    BY <1>1, <1>2, RangeInduction
<1>4. DataFn(b)[Len(b)] = <<>>
  BY <1>1, <1>3
<1>5. QED
  BY <1>4, DataFnIs

LEMMA DataConcat ==
    ASSUME NEW a \in Seq(Cells), NEW b \in Seq(Cells)
    PROVE  a \o b \in Seq(Cells) /\ DataOf(a \o b) = DataOf(a) \o DataOf(b)
<1> DEFINE c == a \o b
           S == {n \in Nat : DataFn(c)[Len(a) + n] = DataFn(a)[Len(a)] \o DataFn(b)[n]}
<1>1. /\ c \in Seq(Cells) /\ Len(c) = Len(a) + Len(b) /\ Len(a) \in Nat /\ Len(b) \in Nat
      /\ \A i \in 1 .. Len(a) : c[i] = a[i]
      /\ \A i \in 1 .. Len(b) : c[Len(a) + i] = b[i]
  OBVIOUS
<1> HIDE DEF c
<1>2. 0 \in S
  <2>1. DataFn(c)[Len(a)] = DataFn(a)[Len(a)]
    <3>1. Len(a) <= Len(c) /\ \A i \in 1 .. Len(a) : a[i].d = c[i].d
      BY <1>1
    <3>2. \A n \in 0 .. Len(a) : DataFn(a)[n] = DataFn(c)[n]
      BY <1>1, <3>1, DataAgree
    <3>3. QED
      BY <1>1, <3>2
  <2>2. DataFn(a)[Len(a)] \in Seq(Nat) /\ DataFn(b)[0] = <<>>
    BY <1>1, DataFnIs
  <2>3. DataFn(a)[Len(a)] \o <<>> = DataFn(a)[Len(a)]
    BY <2>2, NatConcat
  <2>4. Len(a) + 0 = Len(a)
    BY <1>1
  <2>5. QED
    BY <2>1, <2>2, <2>3, <2>4
<1>3. ASSUME NEW n \in 0 .. Len(b) - 1, n \in S PROVE n + 1 \in S
  <2>1. /\ n + 1 \in 1 .. Len(b) /\ (n + 1) - 1 = n /\ n + 1 \in Nat /\ n \in 0 .. Len(b)
        /\ Len(a) + (n + 1) \in 1 .. Len(c) /\ (Len(a) + (n + 1)) - 1 = Len(a) + n
    BY <1>1
  <2>2. /\ DataFn(b)[n + 1] = DataFn(b)[n] \o b[n + 1].d
        /\ DataFn(b)[n] \in Seq(Nat) /\ b[n + 1].d \in Seq(Nat)
    BY <2>1, DataFnIs
  <2>3. DataFn(c)[Len(a) + (n + 1)] = DataFn(c)[Len(a) + n] \o b[n + 1].d
    BY <1>1, <2>1, DataFnIs
  <2>4. DataFn(c)[Len(a) + n] = DataFn(a)[Len(a)] \o DataFn(b)[n]
    BY <1>3
  <2>5. DataFn(a)[Len(a)] \in Seq(Nat)
    BY <1>1, DataFnIs
  <2>6. (DataFn(a)[Len(a)] \o DataFn(b)[n]) \o b[n + 1].d
          = DataFn(a)[Len(a)] \o (DataFn(b)[n] \o b[n + 1].d)
    BY ZenonT(30), <2>2, <2>5, NatConcat
  <2>7. QED
    BY <2>1, <2>2, <2>3, <2>4, <2>6
<1>4. 0 .. Len(b) \subseteq S
  <2> HIDE DEF S
  <2>1. QED
    BY <1>1, <1>2, <1>3, RangeInduction
<1>5. DataFn(c)[Len(a) + Len(b)] = DataFn(a)[Len(a)] \o DataFn(b)[Len(b)]
  <2>1. Len(b) \in 0 .. Len(b)
    BY <1>1
  <2>2. QED
    BY <1>4, <2>1
<1>6. QED
  BY <1>1, <1>5, DataFnIs DEF c

\* A stream is cut after n cells.
LEMMA DataSplit ==
    ASSUME NEW b \in Seq(Cells), NEW n \in 0 .. Len(b)
    PROVE  /\ SubSeq(b, 1, n) \in Seq(Cells) /\ Drop(b, n) \in Seq(Cells)
           /\ Len(SubSeq(b, 1, n)) = n /\ \A i \in 1 .. n : SubSeq(b, 1, n)[i] = b[i]
           /\ Len(Drop(b, n)) = Len(b) - n
           /\ \A i \in 1 .. Len(b) - n : Drop(b, n)[i] = b[n + i]
           /\ DataOf(SubSeq(b, 1, n)) \o DataOf(Drop(b, n)) = DataOf(b)
<1>1. /\ SubSeq(b, 1, n) \in Seq(Cells) /\ Drop(b, n) \in Seq(Cells)
      /\ SubSeq(b, 1, n) \o Drop(b, n) = b
  BY CutSeq DEF Drop
<1>2. DataOf(SubSeq(b, 1, n)) \o DataOf(Drop(b, n)) = DataOf(b)
  BY <1>1, DataConcat
<1>3. QED
  BY <1>1, <1>2, CutSeq DEF Drop

-----------------------------------------------------------------------------
(* Which parts a stream has, and where.                                    *)

LEMMA HasConcat ==
    ASSUME NEW a \in Seq(Cells), NEW b \in Seq(Cells), NEW P
    PROVE  /\ Has(a \o b, P) <=> Has(a, P) \/ Has(b, P)
           /\ NoData(a \o b) <=> NoData(a) /\ NoData(b)
<1>1. /\ Len(a) \in Nat /\ Len(b) \in Nat /\ Len(a \o b) = Len(a) + Len(b)
      /\ \A i \in 1 .. Len(a) : (a \o b)[i] = a[i]
      /\ \A i \in 1 .. Len(b) : (a \o b)[Len(a) + i] = b[i]
  OBVIOUS
<1>2. \A i \in 1 .. Len(a) + Len(b) : i \in 1 .. Len(a) \/ \E j \in 1 .. Len(b) : i = Len(a) + j
  <2> TAKE i \in 1 .. Len(a) + Len(b)
  <2>1. CASE i <= Len(a)
    BY <1>1, <2>1
  <2>2. CASE i > Len(a)
    <3>1. i - Len(a) \in 1 .. Len(b) /\ i = Len(a) + (i - Len(a))
      BY <1>1, <2>2
    <3>2. QED
      BY <3>1
  <2>3. QED
    BY <1>1, <2>1, <2>2
<1>3. /\ \A i \in 1 .. Len(a) : i \in 1 .. Len(a) + Len(b)
      /\ \A i \in 1 .. Len(b) : Len(a) + i \in 1 .. Len(a) + Len(b)
  BY <1>1
<1>4. Has(a \o b, P) <=> Has(a, P) \/ Has(b, P)
  <2> DEFINE c == a \o b
  <2>1. ASSUME Has(c, P) PROVE Has(a, P) \/ Has(b, P)
    <3>1. PICK i \in 1 .. Len(a) + Len(b) : c[i].t \in P
      BY <1>1, <2>1 DEF Has
    <3>2. CASE i \in 1 .. Len(a)
      BY <1>1, <3>1, <3>2 DEF Has
    <3>3. CASE \E j \in 1 .. Len(b) : i = Len(a) + j
      BY <1>1, <3>1, <3>3 DEF Has
    <3>4. QED
      BY <1>2, <3>2, <3>3
  <2>2. ASSUME Has(a, P) PROVE Has(c, P)
    BY <1>1, <1>3, <2>2 DEF Has
  <2>3. ASSUME Has(b, P) PROVE Has(c, P)
    BY <1>1, <1>3, <2>3 DEF Has
  <2>4. QED
    BY <2>1, <2>2, <2>3
<1>5. NoData(a \o b) <=> NoData(a) /\ NoData(b)
  BY <1>1, <1>2, <1>3 DEF NoData
<1>6. QED
  BY <1>4, <1>5

LEMMA HasSplit ==
    ASSUME NEW b \in Seq(Cells), NEW n \in 0 .. Len(b), NEW P
    PROVE  /\ Has(b, P) <=> Has(SubSeq(b, 1, n), P) \/ Has(Drop(b, n), P)
           /\ NoData(b) <=> NoData(SubSeq(b, 1, n)) /\ NoData(Drop(b, n))
<1> DEFINE x == SubSeq(b, 1, n)
           y == Drop(b, n)
<1>1. x \in Seq(Cells) /\ y \in Seq(Cells) /\ x \o y = b
  BY CutSeq DEF Drop
<1> HIDE DEF x, y
<1>2. /\ Has(x \o y, P) <=> Has(x, P) \/ Has(y, P)
      /\ NoData(x \o y) <=> NoData(x) /\ NoData(y)
  BY <1>1, HasConcat
<1>3. QED
  BY <1>1, <1>2 DEF x, y

\* Other parts are added behind, or cells are taken off the front.
LEMMA FirstConcat ==
    ASSUME NEW a \in Seq(Cells), NEW b \in Seq(Cells), NEW P, First(a, P), ~Has(b, P)
    PROVE  First(a \o b, P)
<1>1. /\ Len(a) \in Nat /\ Len(b) \in Nat /\ Len(a \o b) = Len(a) + Len(b)
      /\ \A i \in 1 .. Len(a) : (a \o b)[i] = a[i]
      /\ \A i \in 1 .. Len(b) : (a \o b)[Len(a) + i] = b[i]
  OBVIOUS
<1>2. ASSUME NEW i \in 1 .. Len(a) + Len(b), NEW j \in 1 .. Len(a) + Len(b), i < j,
             (a \o b)[j].t \in P
      PROVE  (a \o b)[i].t \in P
  <2>1. j \in 1 .. Len(a)
    <3>1. SUFFICES ASSUME j > Len(a) PROVE FALSE
      BY <1>1
    <3>2. j - Len(a) \in 1 .. Len(b) /\ Len(a) + (j - Len(a)) = j
      BY <1>1, <3>1
    <3>3. b[j - Len(a)].t \in P
      BY <1>1, <1>2, <3>2
    <3>4. QED
      BY <3>2, <3>3 DEF Has
  <2>2. i \in 1 .. Len(a)
    BY <1>1, <1>2, <2>1
  <2>3. QED
    BY <1>1, <1>2, <2>1, <2>2 DEF First
<1>3. QED
  BY <1>1, <1>2 DEF First

LEMMA FirstSplit ==
    ASSUME NEW b \in Seq(Cells), NEW n \in 0 .. Len(b), NEW P, First(b, P)
    PROVE  /\ First(Drop(b, n), P)
           /\ n > 0 /\ Has(Drop(b, n), P) => \A i \in 1 .. n : b[i].t \in P
<1>1. /\ Len(b) \in Nat /\ n \in Nat /\ n <= Len(b) /\ Len(Drop(b, n)) = Len(b) - n
      /\ \A i \in 1 .. Len(b) - n : Drop(b, n)[i] = b[n + i]
  BY DataSplit
<1>2. First(Drop(b, n), P)
  <2>1. \A i \in 1 .. Len(b) - n : n + i \in 1 .. Len(b)
    BY <1>1
  <2>2. \A i, j \in 1 .. Len(b) - n : i < j => n + i < n + j
    BY <1>1
  <2>3. QED
    BY <1>1, <2>1, <2>2 DEF First
<1>3. ASSUME NEW j \in 1 .. Len(b) - n, b[n + j].t \in P, NEW i \in 1 .. n PROVE b[i].t \in P
  <2>1. i \in 1 .. Len(b) /\ n + j \in 1 .. Len(b) /\ i < n + j
    BY <1>1
  <2>2. QED
    BY <1>3, <2>1 DEF First
<1>4. QED
  BY <1>1, <1>2, <1>3 DEF Has

-----------------------------------------------------------------------------
(* What is sent.                                                           *)

\* The messages of the handshakes.
LEMMA MessageIs ==
    ASSUME NEW parts \in Seq(Kinds)
    PROVE  /\ Message(parts) \in Seq(Cells)
           /\ Len(Message(parts)) = Len(parts)
           /\ \A i \in 1 .. Len(parts) : Message(parts)[i].t = parts[i]
           /\ NoData(Message(parts)) /\ DataOf(Message(parts)) = <<>>
<1>1. \A i \in 1 .. Len(parts) : Cell(parts[i], <<>>) \in Cells
  <2> TAKE i \in 1 .. Len(parts)
  <2>1. parts[i] \in Kinds /\ <<>> \in Seq(Nat)
    OBVIOUS
  <2>2. QED
    BY <2>1 DEF Cell, Cells
<1>2. DOMAIN parts = 1 .. Len(parts) /\ Len(parts) \in Nat
  OBVIOUS
<1>3. /\ Message(parts) \in Seq(Cells) /\ Len(Message(parts)) = Len(parts)
      /\ \A i \in 1 .. Len(parts) : Message(parts)[i] = Cell(parts[i], <<>>)
  <2>1. Message(parts) = [i \in 1 .. Len(parts) |-> Cell(parts[i], <<>>)]
    BY <1>2 DEF Message
  <2>2. QED
    BY <1>1, <1>2, <2>1
<1>4. NoData(Message(parts))
  <2>1. \A i \in 1 .. Len(parts) : Cell(parts[i], <<>>).d = <<>>
    BY DEF Cell
  <2>2. QED
    BY <1>3, <2>1 DEF NoData
<1>5. \A i \in 1 .. Len(parts) : Cell(parts[i], <<>>).t = parts[i]
  BY DEF Cell
<1>6. QED
  BY <1>3, <1>4, <1>5, DataNone

\* What a write or an answer brings: one unit of data or none.
Units == {<<>>} \cup {<<k>> : k \in Nat}

\* Cells that carry s, with no part of a random head or of an http response.
Carries(b, s) == b \in Seq(Cells) /\ DataOf(b) = s /\ ~Has(b, Heads) /\ ~Has(b, Response)

LEMMA CellIs ==
    ASSUME NEW t \in Kinds, NEW d \in Seq(Nat), t \in Carriers \/ d = <<>>
    PROVE  Cell(t, d) \in Cells /\ Cell(t, d).t = t /\ Cell(t, d).d = d
BY DEF Cell, Cells

LEMMA NothingCarried == Carries(<<>>, <<>>)
<1>1. <<>> \in Seq(Cells) /\ Len(<<>>) = 0
  OBVIOUS
<1>2. QED
  BY <1>1, DataEmpty DEF Carries, Has

LEMMA CellCarries ==
    ASSUME NEW c \in Cells, c.t \notin Heads, c.t \notin Response
    PROVE  Carries(<<c>>, c.d) /\ c.d \in Seq(Nat)
<1> DEFINE b == <<c>>
<1>1. b \in Seq(Cells) /\ Len(b) = 1 /\ b[1] = c
  OBVIOUS
<1>2. DataOf(b) = c.d /\ c.d \in Seq(Nat)
  BY DataOne
<1> HIDE DEF b
<1>3. ~Has(b, Heads) /\ ~Has(b, Response)
  BY <1>1 DEF Has
<1>4. QED
  BY <1>1, <1>2, <1>3 DEF Carries, b

LEMMA CarryBoth ==
    ASSUME NEW a, NEW b, NEW s, NEW u, Carries(a, s), Carries(b, u)
    PROVE  Carries(a \o b, s \o u)
BY DataConcat, HasConcat DEF Carries

LEMMA PairConcat ==
    ASSUME NEW c1, NEW c2
    PROVE  <<c1>> \o <<c2>> = <<c1, c2>>
<1> DEFINE S == {c1, c2}
           a == <<c1>>
           b == <<c2>>
           x == a \o b
           y == <<c1, c2>>
<1>1. /\ a \in Seq(S) /\ Len(a) = 1 /\ a[1] = c1
      /\ b \in Seq(S) /\ Len(b) = 1 /\ b[1] = c2
      /\ y \in Seq(S) /\ Len(y) = 2 /\ y[1] = c1 /\ y[2] = c2
  OBVIOUS
<1> HIDE DEF S, a, b, y
<1>2. x \in Seq(S) /\ Len(x) = 2 /\ x[1] = c1 /\ x[2] = c2
  BY <1>1, ConcatProperties
<1> HIDE DEF x
<1>3. \A i \in 1 .. 2 : x[i] = y[i]
  BY <1>1, <1>2
<1>4. x = y
  BY <1>1, <1>2, <1>3
<1>5. QED
  BY <1>4 DEF x, y, a, b

LEMMA RecordCarries ==
    ASSUME NEW d \in Seq(Nat)
    PROVE  Carries(<<Cell("rec", <<>>), Cell("body", d)>>, d)
<1> DEFINE c1 == Cell("rec", <<>>)
           c2 == Cell("body", d)
<1>1. c1 \in Cells /\ c1.t = "rec" /\ c1.d = <<>> /\ c2 \in Cells /\ c2.t = "body" /\ c2.d = d
  <2>1. "rec" \in Kinds /\ "body" \in Kinds /\ "body" \in Carriers /\ <<>> \in Seq(Nat)
    BY DEF Kinds, Carriers
  <2>2. c1 \in Cells /\ c1.t = "rec" /\ c1.d = <<>>
    BY <2>1, CellIs
  <2>3. QED
    BY <2>1, <2>2, CellIs
<1> HIDE DEF c1, c2
<1>2. Carries(<<c1>>, <<>>) /\ Carries(<<c2>>, d)
  BY <1>1, CellCarries DEF Heads, Response
<1>3. <<c1>> \o <<c2>> = <<c1, c2>>
  BY PairConcat
<1>4. <<>> \o d = d
  BY NatConcat
<1>5. Carries(<<c1>> \o <<c2>>, <<>> \o d)
  BY <1>2, CarryBoth
<1>6. QED
  BY <1>3, <1>4, <1>5 DEF c1, c2

\* A write goes out as it is, or in records.
LEMMA WriteCarries ==
    ASSUME NEW s \in Units
    PROVE  /\ s \in Seq(Nat)
           /\ Carries(Plainly(s), s) /\ Carries(Record(s), s) /\ Carries(Records(s), s)
<1>1. CASE s = <<>>
  <2>1. Plainly(<<>>) = <<>>
    BY DEF Plainly
  <2>2. Records(<<>>) = <<>>
    BY DEF Records
  <2>3. QED
    BY <1>1, <2>1, <2>2, NothingCarried DEF Record
<1>2. ASSUME NEW k \in Nat, s = <<k>>
      PROVE  /\ s \in Seq(Nat)
             /\ Carries(Plainly(s), s) /\ Carries(Record(s), s) /\ Carries(Records(s), s)
  <2>1. s \in Seq(Nat) /\ s # <<>> /\ Len(s) = 1 /\ DOMAIN s = {1} /\ s[1] = k
    BY <1>2
  <2>2. Plainly(s) = <<Cell("data", s)>>
    BY <1>2, <2>1 DEF Plainly
  <2>3. Records(s) = <<Cell("rec", <<>>), Cell("body", s)>>
    <3>1. Records(s) = [i \in 1 .. 2 |-> IF i % 2 = 1 THEN Cell("rec", <<>>) ELSE Cell("body", <<s[i \div 2]>>)]
      BY <2>1 DEF Records
    <3>2. 1 % 2 = 1 /\ 2 % 2 = 0 /\ 2 \div 2 = 1 /\ 1 .. 2 = {1, 2}
      OBVIOUS
    <3>3. <<s[1]>> = s
      BY <1>2
    <3>4. QED
      BY <3>1, <3>2, <3>3
  <2>4. Record(s) = <<Cell("rec", <<>>), Cell("body", s)>>
    BY <2>1 DEF Record
  <2>5. Carries(Plainly(s), s)
    <3>1. Cell("data", s) \in Cells /\ Cell("data", s).t = "data" /\ Cell("data", s).d = s
      BY <2>1, CellIs DEF Kinds, Carriers
    <3>2. QED
      BY <2>2, <3>1, CellCarries DEF Heads, Response
  <2>6. QED
    BY <2>1, <2>3, <2>4, <2>5, RecordCarries
<1>3. QED
  BY <1>1, <1>2 DEF Units

LEMMA RequestCarries ==
    ASSUME NEW s \in Units
    PROVE  Carries(HttpRequest(s), s)
<1> DEFINE c1 == Cell("get", <<>>)
           c2 == Cell("blank", s)
<1>0. s \in Seq(Nat)
  BY WriteCarries
<1>1. c1 \in Cells /\ c1.t = "get" /\ c1.d = <<>> /\ c2 \in Cells /\ c2.t = "blank" /\ c2.d = s
  <2>1. "get" \in Kinds /\ "blank" \in Kinds /\ "blank" \in Carriers /\ <<>> \in Seq(Nat)
    BY DEF Kinds, Carriers
  <2>2. c1 \in Cells /\ c1.t = "get" /\ c1.d = <<>>
    BY <2>1, CellIs
  <2>3. QED
    BY <1>0, <2>1, <2>2, CellIs
<1> HIDE DEF c1, c2
<1>2. Carries(<<c1>>, <<>>) /\ Carries(<<c2>>, s)
  BY <1>1, CellCarries DEF Heads, Response
<1>3. <<c1>> \o <<c2>> = <<c1, c2>>
  BY PairConcat
<1>4. <<>> \o s = s
  BY <1>0, NatConcat
<1>5. Carries(<<c1>> \o <<c2>>, <<>> \o s)
  BY <1>2, CarryBoth
<1>6. QED
  BY <1>3, <1>4, <1>5 DEF c1, c2, HttpRequest

\* The messages of the TLS handshake carry nothing.
LEMMA HellosCarry ==
    Carries(ClientHello, <<>>) /\ Carries(ServerHello, <<>>) /\ Carries(Finished, <<>>)
<1>1. ASSUME NEW parts \in Seq(Kinds), \A i \in 1 .. Len(parts) : parts[i] \notin Heads \cup Response
      PROVE  Carries(Message(parts), <<>>)
  <2> DEFINE m == Message(parts)
  <2>1. /\ m \in Seq(Cells) /\ DataOf(m) = <<>> /\ Len(m) = Len(parts)
        /\ \A i \in 1 .. Len(parts) : m[i].t = parts[i]
    BY MessageIs
  <2> HIDE DEF m
  <2>2. ~Has(m, Heads) /\ ~Has(m, Response)
    BY <1>1, <2>1 DEF Has
  <2>3. QED
    BY <2>1, <2>2 DEF Carries, m
<1>2. Carries(ClientHello, <<>>)
  <2> DEFINE parts == <<"hello", "rest">>
  <2>1. parts \in Seq(Kinds) /\ \A i \in 1 .. Len(parts) : parts[i] \notin Heads \cup Response
    BY DEF Kinds, Heads, Response
  <2> HIDE DEF parts
  <2>2. Carries(Message(parts), <<>>)
    BY <1>1, <2>1
  <2>3. QED
    BY <2>2 DEF ClientHello, parts
<1>3. Carries(ServerHello, <<>>)
  <2> DEFINE parts == <<"shello", "srest">>
  <2>1. parts \in Seq(Kinds) /\ \A i \in 1 .. Len(parts) : parts[i] \notin Heads \cup Response
    BY DEF Kinds, Heads, Response
  <2> HIDE DEF parts
  <2>2. Carries(Message(parts), <<>>)
    BY <1>1, <2>1
  <2>3. QED
    BY <2>2 DEF ServerHello, parts
<1>4. Carries(Finished, <<>>)
  <2> DEFINE parts == <<"fin", "fin11", "finmac">>
  <2>1. parts \in Seq(Kinds) /\ \A i \in 1 .. Len(parts) : parts[i] \notin Heads \cup Response
    BY DEF Kinds, Heads, Response
  <2> HIDE DEF parts
  <2>2. Carries(Message(parts), <<>>)
    BY <1>1, <2>1
  <2>3. QED
    BY <2>2 DEF Finished, parts
<1>5. QED
  BY <1>2, <1>3, <1>4

\* Those of random_head are all head, that of http is all response.
LEMMA RandomMessages ==
    \A m \in {RandomHead, RandomReply} :
        m \in Seq(Cells) /\ DataOf(m) = <<>> /\ NoData(m) /\ First(m, Heads)
<1>1. ASSUME NEW parts \in Seq(Kinds), \A i \in 1 .. Len(parts) : parts[i] \in Heads
      PROVE  LET m == Message(parts)
             IN  m \in Seq(Cells) /\ DataOf(m) = <<>> /\ NoData(m) /\ First(m, Heads)
  <2> DEFINE m == Message(parts)
  <2>1. /\ m \in Seq(Cells) /\ DataOf(m) = <<>> /\ Len(m) = Len(parts) /\ NoData(m)
        /\ \A i \in 1 .. Len(parts) : m[i].t = parts[i]
    BY MessageIs
  <2> HIDE DEF m
  <2>2. First(m, Heads)
    BY <1>1, <2>1 DEF First
  <2>3. QED
    BY <2>1, <2>2 DEF m
<1> DEFINE crc == <<"rand", "crc">>
           more == <<"rand", "more">>
<1>2. crc \in Seq(Kinds) /\ \A i \in 1 .. Len(crc) : crc[i] \in Heads
  BY DEF Kinds, Heads
<1>3. more \in Seq(Kinds) /\ \A i \in 1 .. Len(more) : more[i] \in Heads
  BY DEF Kinds, Heads
<1> HIDE DEF crc, more
<1>4. LET m == Message(crc)
      IN  m \in Seq(Cells) /\ DataOf(m) = <<>> /\ NoData(m) /\ First(m, Heads)
  BY <1>1, <1>2
<1>5. LET m == Message(more)
      IN  m \in Seq(Cells) /\ DataOf(m) = <<>> /\ NoData(m) /\ First(m, Heads)
  BY <1>1, <1>3
<1>6. QED
  BY <1>4, <1>5 DEF RandomHead, RandomReply, crc, more

LEMMA ResponseIs ==
    /\ HttpResponse \in Seq(Cells) /\ DataOf(HttpResponse) = <<>>
    /\ ~Has(HttpResponse, Heads) /\ First(HttpResponse, Response)
    /\ Len(HttpResponse) = 3 /\ HttpResponse[2].t = "crlf" /\ HttpResponse[3].t = "crlf2"
<1> DEFINE parts == <<"200", "crlf", "crlf2">>
           m == HttpResponse
<1>1. parts \in Seq(Kinds) /\ Len(parts) = 3
  BY DEF Kinds, Response
<1>2. \A i \in 1 .. 3 : parts[i] \in Response \ Heads
  BY DEF Response, Heads
<1>3. /\ m \in Seq(Cells) /\ DataOf(m) = <<>> /\ Len(m) = 3
      /\ \A i \in 1 .. 3 : m[i].t = parts[i]
  BY <1>1, MessageIs DEF HttpResponse
<1> HIDE DEF m
<1>4. ~Has(m, Heads) /\ First(m, Response)
  BY <1>2, <1>3 DEF Has, First
<1>5. m[2].t = "crlf" /\ m[3].t = "crlf2"
  BY <1>3
<1>6. QED
  BY <1>3, <1>4, <1>5 DEF m

-----------------------------------------------------------------------------
(* client_encode: what goes out and what waits is what waited and the      *)
(* write, in this order.                                                   *)

ClientEncoding(p, s, e) ==
    /\ e.p \in Plugins /\ ClientReady(e.p) /\ e.p.recv_buffer = p.recv_buffer
    /\ e.cells \in Seq(Cells)
    /\ DataOf(e.cells) \o DataOf(e.p.send_buffer) = DataOf(p.send_buffer) \o s
    /\ method # "random_head" \/ plain => ~Has(e.cells, Heads)
    /\ method = "http" => e.p.status \in {p.status, p.status \cup {"sent"}}
    /\ method = "random_head" /\ ~plain =>
          /\ p.status = {} => e.cells = RandomHead /\ e.p.status = {"sent"}
          /\ p.status = {"sent"} => e.cells = <<>> /\ e.p.status = {"sent"}
          /\ "recv" \in p.status => ~Has(e.cells, Heads) /\ e.p.status = {"sent", "recv", "open"}

LEMMA PluginParts ==
    ASSUME NEW p \in Plugins
    PROVE  /\ p.status \in SUBSET Statuses
           /\ p.send_buffer \in Seq(Cells) /\ p.recv_buffer \in Seq(Cells)
           /\ DataOf(p.send_buffer) \in Seq(Nat) /\ DataOf(p.recv_buffer) \in Seq(Nat)
<1>1. /\ p.status \in SUBSET Statuses
      /\ p.send_buffer \in Seq(Cells) /\ p.recv_buffer \in Seq(Cells)
  BY DEF Plugins
<1>2. DataOf(p.send_buffer) \in Seq(Nat) /\ DataOf(p.recv_buffer) \in Seq(Nat)
  BY <1>1, DataType
<1>3. QED
  BY <1>1, <1>2

LEMMA PlainClientEncodes ==
    ASSUME ObfsTypes, NEW p \in Plugins, ClientReady(p), NEW s \in Units, plain
    PROVE  ClientEncoding(p, s, client_encode(p, s))
<1> DEFINE e == client_encode(p, s)
<1>1. e = Encoded(p, Plainly(s))
  BY DEF client_encode
<1>2. e.p = p /\ e.cells = Plainly(s)
  BY <1>1 DEF Encoded
<1>3. s \in Seq(Nat) /\ Plainly(s) \in Seq(Cells) /\ DataOf(Plainly(s)) = s /\ ~Has(Plainly(s), Heads)
  BY WriteCarries DEF Carries
<1> HIDE DEF e
<1>4. p.send_buffer = <<>>
  BY DEF ClientReady
<1>5. DataOf(e.cells) \o DataOf(e.p.send_buffer) = DataOf(p.send_buffer) \o s
  BY <1>2, <1>3, <1>4, NoDataBeside
<1>6. QED
  BY <1>2, <1>3, <1>5 DEF ClientEncoding, e

LEMMA TlsClientEncodes ==
    ASSUME ObfsTypes, NEW p \in Plugins, ClientReady(p), NEW s \in Units, ~plain, method = "tls"
    PROVE  ClientEncoding(p, s, client_encode(p, s))
<1> DEFINE e == client_encode(p, s)
           b == p.send_buffer
           q == [p EXCEPT !.send_buffer = b \o Record(s)]
<1>1. e = TlsClientEncode(p, s)
  BY DEF client_encode
<1>2. /\ s \in Seq(Nat)
      /\ Record(s) \in Seq(Cells) /\ DataOf(Record(s)) = s /\ ~Has(Record(s), Heads)
      /\ Records(s) \in Seq(Cells) /\ DataOf(Records(s)) = s /\ ~Has(Records(s), Heads)
  BY WriteCarries DEF Carries
<1>3. b \in Seq(Cells) /\ DataOf(b) \in Seq(Nat) /\ ~Has(b, Heads)
  BY PluginParts DEF ClientReady
<1>4. /\ b \o Record(s) \in Seq(Cells) /\ DataOf(b \o Record(s)) = DataOf(b) \o s
      /\ ~Has(b \o Record(s), Heads)
  <2>1. b \o Record(s) \in Seq(Cells) /\ DataOf(b \o Record(s)) = DataOf(b) \o DataOf(Record(s))
    BY <1>2, <1>3, DataConcat
  <2>2. ~Has(b \o Record(s), Heads)
    BY <1>2, <1>3, HasConcat
  <2>3. QED
    BY <1>2, <2>1, <2>2
<1>5. /\ ClientHello \in Seq(Cells) /\ DataOf(ClientHello) = <<>> /\ ~Has(ClientHello, Heads)
      /\ Finished \in Seq(Cells) /\ DataOf(Finished) = <<>> /\ ~Has(Finished, Heads)
  BY HellosCarry DEF Carries
<1>6. {1} \in SUBSET Statuses /\ {8} \in SUBSET Statuses /\ <<>> \in Seq(Cells)
  BY DEF Statuses
<1>7. ~Has(<<>>, Heads) /\ DataOf(<<>>) = <<>>
  BY NothingCarried DEF Carries
<1>8. ~Has(p.recv_buffer, Heads) /\ p.status \in {{}, {1}, {8}} /\ (8 \in p.status => b = <<>>)
  BY DEF ClientReady
<1>9. CASE p.status = {8}
  <2>1. e = Encoded(p, Records(s))
    BY <1>1, <1>9 DEF TlsClientEncode
  <2>2. e.p = p /\ e.cells = Records(s)
    BY <2>1 DEF Encoded
  <2>3. DataOf(e.cells) \o DataOf(e.p.send_buffer) = DataOf(b) \o s
    <3>1. b = <<>> /\ s \o <<>> = s /\ <<>> \o s = s
      BY <1>2, <1>8, <1>9, NatConcat
    <3>2. QED
      BY <1>2, <1>7, <2>2, <3>1
  <2>4. QED
    BY <1>2, <2>2, <2>3 DEF ClientEncoding
<1>10. CASE p.status = {}
  <2>1. e = Encoded([q EXCEPT !.status = {1}], ClientHello)
    BY <1>1, <1>10 DEF TlsClientEncode
  <2>2. q \in Plugins /\ q.send_buffer = b \o Record(s) /\ q.recv_buffer = p.recv_buffer
    BY <1>4 DEF Plugins
  <2> HIDE DEF q
  <2>3. /\ e.p \in Plugins /\ e.p.status = {1} /\ e.cells = ClientHello
        /\ e.p.send_buffer = b \o Record(s) /\ e.p.recv_buffer = p.recv_buffer
    <3> DEFINE w == [q EXCEPT !.status = {1}]
               St == SUBSET Statuses
    <3>1. {1} \in St /\ q \in [status : St, send_buffer : Seq(Cells), recv_buffer : Seq(Cells)]
      BY <1>6, <2>2 DEF Plugins
    <3> HIDE DEF St
    <3>2. /\ w \in [status : St, send_buffer : Seq(Cells), recv_buffer : Seq(Cells)]
          /\ w.status = {1} /\ w.send_buffer = q.send_buffer /\ w.recv_buffer = q.recv_buffer
      BY <3>1
    <3> HIDE DEF w
    <3>3. e.p = w /\ e.cells = ClientHello
      BY <2>1 DEF Encoded, w
    <3>4. QED
      BY <2>2, <3>2, <3>3 DEF Plugins, St
  <2> HIDE DEF e
  <2>4. DataOf(e.cells) \o DataOf(e.p.send_buffer) = DataOf(b) \o s
    BY SMTT(30), <1>2, <1>3, <1>4, <1>5, <2>3, NatConcat
  <2>5. ClientReady(e.p)
    BY <1>4, <1>8, <2>3 DEF ClientReady
  <2>6. QED
    BY <1>5, <2>3, <2>4, <2>5 DEF ClientEncoding, e
<1>11. CASE p.status = {1} /\ s = <<>>
  <2>1. e = Encoded([p EXCEPT !.status = {8}, !.send_buffer = <<>>], Finished \o b)
    BY <1>1, <1>11 DEF TlsClientEncode
  <2>2. /\ e.p \in Plugins /\ e.p.status = {8} /\ e.cells = Finished \o b
        /\ e.p.send_buffer = <<>> /\ e.p.recv_buffer = p.recv_buffer
    <3> DEFINE w == [p EXCEPT !.status = {8}, !.send_buffer = <<>>]
               St == SUBSET Statuses
    <3>1. {8} \in St /\ p \in [status : St, send_buffer : Seq(Cells), recv_buffer : Seq(Cells)]
      BY <1>6 DEF Plugins
    <3> HIDE DEF St
    <3>2. /\ w \in [status : St, send_buffer : Seq(Cells), recv_buffer : Seq(Cells)]
          /\ w.status = {8} /\ w.send_buffer = <<>> /\ w.recv_buffer = p.recv_buffer
      BY <1>6, <3>1
    <3> HIDE DEF w
    <3>3. e.p = w /\ e.cells = Finished \o b
      BY <2>1 DEF Encoded, w
    <3>4. QED
      BY <3>2, <3>3 DEF Plugins, St
  <2> HIDE DEF e
  <2>3. /\ e.cells \in Seq(Cells) /\ DataOf(e.cells) = DataOf(b) /\ ~Has(e.cells, Heads)
    <3>1. /\ Finished \o b \in Seq(Cells) /\ DataOf(Finished \o b) = <<>> \o DataOf(b)
          /\ ~Has(Finished \o b, Heads)
      BY <1>3, <1>5, DataConcat, HasConcat
    <3>2. QED
      BY <1>3, <2>2, <3>1, NatConcat
  <2>4. DataOf(e.cells) \o DataOf(e.p.send_buffer) = DataOf(b) \o s
    BY <1>3, <1>7, <1>11, <2>2, <2>3, NatConcat
  <2>5. ClientReady(e.p)
    BY <1>7, <1>8, <2>2 DEF ClientReady
  <2>6. QED
    BY <2>2, <2>3, <2>4, <2>5 DEF ClientEncoding, e
<1>12. CASE p.status = {1} /\ s # <<>>
  <2>1. e = Encoded(q, <<>>)
    BY <1>1, <1>12 DEF TlsClientEncode
  <2>2. /\ q \in Plugins /\ q.send_buffer = b \o Record(s) /\ q.recv_buffer = p.recv_buffer
        /\ q.status = p.status
    BY <1>4 DEF Plugins
  <2>3. e.p = q /\ e.cells = <<>>
    BY <2>1 DEF Encoded
  <2> HIDE DEF e, q
  <2>4. DataOf(e.cells) \o DataOf(e.p.send_buffer) = DataOf(b) \o s
    <3>1. DataOf(b) \o s \in Seq(Nat) /\ <<>> \o (DataOf(b) \o s) = DataOf(b) \o s
      BY <1>2, <1>3, NatConcat
    <3>2. QED
      BY <1>4, <1>7, <2>2, <2>3, <3>1
  <2>5. ClientReady(q)
    BY <1>4, <1>8, <1>12, <2>2 DEF ClientReady
  <2>6. QED
    BY <1>6, <1>7, <2>2, <2>3, <2>4, <2>5 DEF ClientEncoding, e
<1>13. QED
  BY <1>8, <1>9, <1>10, <1>11, <1>12

LEMMA HttpClientEncodes ==
    ASSUME ObfsTypes, NEW p \in Plugins, ClientReady(p), NEW s \in Units, ~plain, method = "http"
    PROVE  ClientEncoding(p, s, client_encode(p, s))
<1> DEFINE e == client_encode(p, s)
<1>1. e = HttpClientEncode(p, s)
  BY DEF client_encode
<1>2. /\ s \in Seq(Nat)
      /\ Plainly(s) \in Seq(Cells) /\ DataOf(Plainly(s)) = s /\ ~Has(Plainly(s), Heads)
      /\ HttpRequest(s) \in Seq(Cells) /\ DataOf(HttpRequest(s)) = s /\ ~Has(HttpRequest(s), Heads)
  BY WriteCarries, RequestCarries DEF Carries
<1>3. p.send_buffer = <<>> /\ DataOf(<<>>) = <<>> /\ s \o <<>> = s /\ <<>> \o s = s
  BY <1>2, DataEmpty, NatConcat DEF ClientReady
<1>4. p.status \in SUBSET Statuses /\ p.status \cup {"sent"} \in SUBSET Statuses
  BY PluginParts DEF Statuses
<1>5. CASE "sent" \in p.status
  <2>1. e = Encoded(p, Plainly(s))
    BY <1>1, <1>5 DEF HttpClientEncode
  <2>2. e.p = p /\ e.cells = Plainly(s)
    BY <2>1 DEF Encoded
  <2> HIDE DEF e
  <2>3. QED
    BY <1>2, <1>3, <2>2 DEF ClientEncoding, e
<1>6. CASE "sent" \notin p.status
  <2>1. e = Encoded([p EXCEPT !.status = p.status \cup {"sent"}], HttpRequest(s))
    BY <1>1, <1>6 DEF HttpClientEncode
  <2>2. /\ e.p \in Plugins /\ e.p.status = p.status \cup {"sent"} /\ e.cells = HttpRequest(s)
        /\ e.p.send_buffer = p.send_buffer /\ e.p.recv_buffer = p.recv_buffer
    BY <1>4, <2>1 DEF Encoded, Plugins
  <2> HIDE DEF e
  <2>3. ClientReady(e.p)
    BY <2>2 DEF ClientReady
  <2>4. QED
    BY <1>2, <1>3, <2>2, <2>3 DEF ClientEncoding, e
<1>7. QED
  BY <1>5, <1>6

LEMMA RandomClientEncodes ==
    ASSUME ObfsTypes, NEW p \in Plugins, ClientReady(p), NEW s \in Units, ~plain,
           method = "random_head"
    PROVE  ClientEncoding(p, s, client_encode(p, s))
<1> DEFINE e == client_encode(p, s)
           b == p.send_buffer
           q == [p EXCEPT !.send_buffer = b \o Plainly(s)]
           Full == {"sent", "recv", "open"}
           St == SUBSET Statuses
           P == [status : St, send_buffer : Seq(Cells), recv_buffer : Seq(Cells)]
<1>1. e = RandomClientEncode(p, s)
  BY DEF client_encode
<1>2. /\ s \in Seq(Nat)
      /\ Plainly(s) \in Seq(Cells) /\ DataOf(Plainly(s)) = s /\ ~Has(Plainly(s), Heads)
  BY WriteCarries DEF Carries
<1>3. b \in Seq(Cells) /\ DataOf(b) \in Seq(Nat) /\ ~Has(b, Heads)
  BY PluginParts DEF ClientReady
<1>4. /\ b \o Plainly(s) \in Seq(Cells) /\ DataOf(b \o Plainly(s)) = DataOf(b) \o s
      /\ ~Has(b \o Plainly(s), Heads) /\ DataOf(b) \o s \in Seq(Nat)
      /\ (DataOf(b) \o s) \o <<>> = DataOf(b) \o s /\ <<>> \o (DataOf(b) \o s) = DataOf(b) \o s
  <2>1. /\ b \o Plainly(s) \in Seq(Cells) /\ DataOf(b \o Plainly(s)) = DataOf(b) \o s
        /\ ~Has(b \o Plainly(s), Heads)
    BY <1>2, <1>3, DataConcat, HasConcat
  <2>2. DataOf(b) \o s \in Seq(Nat)
    BY <1>2, <1>3, NatConcat
  <2>3. QED
    BY <2>1, <2>2, NatConcat
<1>5. RandomHead \in Seq(Cells) /\ DataOf(RandomHead) = <<>>
  BY RandomMessages
<1>6. {"sent"} \in St /\ Full \in St /\ <<>> \in Seq(Cells)
  BY DEF Statuses
<1>7. ~Has(<<>>, Heads) /\ DataOf(<<>>) = <<>>
  BY NothingCarried DEF Carries
<1>8. /\ ~Has(p.recv_buffer, Heads) /\ p.recv_buffer = <<>>
      /\ p.status \in {{}, {"sent"}, {"sent", "recv"}, Full} /\ ("open" \in p.status => b = <<>>)
  BY DEF ClientReady
<1>9. p \in P /\ Plugins = P
  BY DEF Plugins
<1> HIDE DEF St
<1>10. /\ q \in P /\ q.send_buffer = b \o Plainly(s) /\ q.recv_buffer = p.recv_buffer
       /\ q.status = p.status
  BY <1>4, <1>9
<1>11. CASE p.status = Full
  <2>1. e = Encoded(p, Plainly(s))
    <3>1. "open" \in p.status /\ "sent" \in p.status /\ "recv" \in p.status
      BY <1>11
    <3>2. p.status # {"sent"} /\ p.status # {"sent", "recv"}
      BY <3>1
    <3>3. QED
      BY <1>1, <3>1, <3>2 DEF RandomClientEncode
  <2>2. e.p = p /\ e.cells = Plainly(s)
    BY <2>1 DEF Encoded
  <2>3. b = <<>> /\ s \o <<>> = s /\ <<>> \o s = s
    BY <1>2, <1>8, <1>11, NatConcat
  <2> HIDE DEF e
  <2>4. DataOf(e.cells) \o DataOf(e.p.send_buffer) = DataOf(b) \o s
    BY <1>2, <1>7, <2>2, <2>3
  <2>5. "recv" \in p.status /\ p.status # {} /\ p.status # {"sent"}
    BY <1>11
  <2>6. QED
    BY <1>2, <1>11, <2>2, <2>4, <2>5 DEF ClientEncoding, e
<1>12. CASE p.status = {}
  <2> DEFINE w == [q EXCEPT !.status = {"sent"}]
  <2> HIDE DEF q
  <2>1. e = Encoded(w, RandomHead)
    <3>1. e = Encoded([q EXCEPT !.status = @ \cup {"sent"}], RandomHead)
      BY <1>1, <1>12 DEF RandomClientEncode, q
    <3>2. q.status \cup {"sent"} = {"sent"}
      BY <1>10, <1>12
    <3>3. QED
      BY <3>1, <3>2
  <2>2. /\ w \in P /\ w.status = {"sent"}
        /\ w.send_buffer = b \o Plainly(s) /\ w.recv_buffer = p.recv_buffer
    BY <1>6, <1>10
  <2> HIDE DEF w
  <2>3. e.p = w /\ e.cells = RandomHead
    BY <2>1 DEF Encoded
  <2> HIDE DEF e
  <2>4. DataOf(e.cells) \o DataOf(e.p.send_buffer) = DataOf(b) \o s
    BY <1>4, <1>5, <2>2, <2>3
  <2>5. ClientReady(w)
    BY <1>4, <1>8, <2>2 DEF ClientReady
  <2>6. QED
    BY <1>5, <1>9, <1>12, <2>2, <2>3, <2>4, <2>5 DEF ClientEncoding, e
<1>13. CASE p.status = {"sent"}
  <2>1. e = Encoded(q, <<>>)
    BY <1>1, <1>13 DEF RandomClientEncode
  <2> HIDE DEF q
  <2>2. e.p = q /\ e.cells = <<>>
    BY <2>1 DEF Encoded
  <2> HIDE DEF e
  <2>3. DataOf(e.cells) \o DataOf(e.p.send_buffer) = DataOf(b) \o s
    BY <1>4, <1>7, <1>10, <2>2
  <2>4. ClientReady(q)
    BY <1>4, <1>8, <1>10, <1>13 DEF ClientReady
  <2>5. QED
    BY <1>6, <1>9, <1>10, <1>13, <2>2, <2>3, <2>4 DEF ClientEncoding, e
<1>14. CASE p.status = {"sent", "recv"}
  <2> DEFINE w == [p EXCEPT !.send_buffer = <<>>, !.status = Full]
  <2>1. e = Encoded(w, b \o Plainly(s))
    <3>1. e = Encoded([p EXCEPT !.send_buffer = <<>>, !.status = @ \cup {"open"}], q.send_buffer)
      BY <1>1, <1>14 DEF RandomClientEncode
    <3>2. p.status \cup {"open"} = Full
      BY <1>14
    <3> HIDE DEF q
    <3>3. QED
      BY <1>10, <3>1, <3>2
  <2>2. w \in P /\ w.status = Full /\ w.send_buffer = <<>> /\ w.recv_buffer = p.recv_buffer
    BY <1>6, <1>9
  <2> HIDE DEF w
  <2>3. e.p = w /\ e.cells = b \o Plainly(s)
    BY <2>1 DEF Encoded
  <2> HIDE DEF e
  <2>4. DataOf(e.cells) \o DataOf(e.p.send_buffer) = DataOf(b) \o s
    BY <1>4, <1>7, <2>2, <2>3
  <2>5. ClientReady(w)
    BY <1>7, <1>8, <2>2 DEF ClientReady
  <2>6. "recv" \in p.status /\ p.status # {} /\ p.status # {"sent"}
    BY <1>14
  <2>7. QED
    BY <1>4, <1>9, <2>2, <2>3, <2>4, <2>5, <2>6 DEF ClientEncoding, e
<1>15. QED
  BY <1>8, <1>11, <1>12, <1>13, <1>14

LEMMA ClientEncodes ==
    ASSUME ObfsTypes, NEW p \in Plugins, ClientReady(p), NEW s \in Units
    PROVE  ClientEncoding(p, s, client_encode(p, s))
BY PlainClientEncodes, TlsClientEncodes, HttpClientEncodes, RandomClientEncodes DEF ObfsTypes

-----------------------------------------------------------------------------
(* server_encode: the write goes out behind what the handshake still owes. *)

ServerEncoding(p, s, e) ==
    /\ e.p \in Plugins /\ e.p.recv_buffer = p.recv_buffer
    /\ e.p.status \in IF method = "tls" THEN {p.status, p.status \cup {8}}
                      ELSE {p.status \cup {"sent"}}
    /\ e.cells \in Seq(Cells)
    /\ \/ DataOf(e.cells) = s /\ ~Has(e.cells, Heads)
       \/ method = "random_head" /\ "sent" \notin p.status /\ e.cells = RandomReply
    /\ method = "http" =>
          /\ First(e.cells, Response)
          /\ "sent" \in p.status => ~Has(e.cells, Response)
          /\ "sent" \notin p.status => BlankAhead(e.cells)

LEMMA TlsServerEncodes ==
    ASSUME ObfsTypes, NEW p \in Plugins, NEW s \in Units, method = "tls"
    PROVE  ServerEncoding(p, s, server_encode(p, s))
<1> DEFINE e == server_encode(p, s)
<1>1. e = TlsServerEncode(p, s)
  BY DEF server_encode
<1>2. /\ s \in Seq(Nat)
      /\ Plainly(s) \in Seq(Cells) /\ DataOf(Plainly(s)) = s /\ ~Has(Plainly(s), Heads)
      /\ Records(s) \in Seq(Cells) /\ DataOf(Records(s)) = s /\ ~Has(Records(s), Heads)
  BY WriteCarries DEF Carries
<1>3. ServerHello \in Seq(Cells) /\ DataOf(ServerHello) = <<>> /\ ~Has(ServerHello, Heads)
  BY HellosCarry DEF Carries
<1>4. /\ ServerHello \o Records(s) \in Seq(Cells) /\ DataOf(ServerHello \o Records(s)) = s
      /\ ~Has(ServerHello \o Records(s), Heads)
  <2>1. /\ ServerHello \o Records(s) \in Seq(Cells) /\ DataOf(ServerHello \o Records(s)) = <<>> \o s
        /\ ~Has(ServerHello \o Records(s), Heads)
    BY ZenonT(30), <1>2, <1>3, DataConcat, HasConcat
  <2>2. QED
    BY <1>2, <2>1, NatConcat
<1>5. \/ e = Encoded(p, Plainly(s)) \/ e = Encoded(p, Records(s))
      \/ e = Encoded([p EXCEPT !.status = p.status \cup {8}], ServerHello \o Records(s))
  BY <1>1 DEF TlsServerEncode
<1>6. CASE e = Encoded(p, Plainly(s)) \/ e = Encoded(p, Records(s))
  <2>1. e.p = p /\ e.cells \in {Plainly(s), Records(s)}
    BY <1>6 DEF Encoded
  <2> HIDE DEF e
  <2>2. QED
    BY <1>2, <2>1 DEF ServerEncoding, e
<1>7. CASE e = Encoded([p EXCEPT !.status = p.status \cup {8}], ServerHello \o Records(s))
  <2>1. p.status \cup {8} \in SUBSET Statuses
    BY PluginParts DEF Statuses
  <2>2. /\ e.p \in Plugins /\ e.p.status = p.status \cup {8} /\ e.p.recv_buffer = p.recv_buffer
        /\ e.cells = ServerHello \o Records(s)
    BY <1>7, <2>1 DEF Encoded, Plugins
  <2> HIDE DEF e
  <2>3. QED
    BY <1>4, <2>2 DEF ServerEncoding, e
<1>8. QED
  BY <1>5, <1>6, <1>7

LEMMA OtherServerEncodes ==
    ASSUME ObfsTypes, NEW p \in Plugins, NEW s \in Units, method # "tls"
    PROVE  ServerEncoding(p, s, server_encode(p, s))
<1> DEFINE e == server_encode(p, s)
           w == [p EXCEPT !.status = p.status \cup {"sent"}]
<1>1. e = IF method = "http" THEN HttpServerEncode(p, s) ELSE RandomServerEncode(p, s)
  BY DEF server_encode, ObfsTypes
<1>2. /\ s \in Seq(Nat) /\ Plainly(s) \in Seq(Cells) /\ DataOf(Plainly(s)) = s
      /\ ~Has(Plainly(s), Heads) /\ ~Has(Plainly(s), Response)
  BY WriteCarries DEF Carries
<1>3. p.status \cup {"sent"} \in SUBSET Statuses
  BY PluginParts DEF Statuses
<1>4. w \in Plugins /\ w.status = p.status \cup {"sent"} /\ w.recv_buffer = p.recv_buffer
  BY <1>3 DEF Plugins
<1> HIDE DEF w
<1>5. CASE "sent" \in p.status
  <2>1. e = Encoded(p, Plainly(s))
    BY <1>1, <1>5 DEF HttpServerEncode, RandomServerEncode
  <2>2. e.p = p /\ e.cells = Plainly(s) /\ p.status = p.status \cup {"sent"}
    BY <1>5, <2>1 DEF Encoded
  <2> HIDE DEF e
  <2>3. First(Plainly(s), Response)
    BY <1>2 DEF First, Has
  <2>4. QED
    BY <1>2, <1>5, <2>2, <2>3 DEF ServerEncoding, e
<1>6. CASE "sent" \notin p.status /\ method = "http"
  <2> DEFINE c == HttpResponse \o Plainly(s)
  <2>1. e = Encoded(w, c)
    BY <1>1, <1>6 DEF HttpServerEncode, w
  <2>2. e.p = w /\ e.cells = c
    BY <2>1 DEF Encoded
  <2>3. c \in Seq(Cells) /\ DataOf(c) = s /\ ~Has(c, Heads) /\ First(c, Response)
    <3>1. c \in Seq(Cells) /\ DataOf(c) = <<>> \o s /\ ~Has(c, Heads)
      BY <1>2, ResponseIs, DataConcat, HasConcat
    <3>2. First(c, Response)
      BY <1>2, ResponseIs, FirstConcat
    <3>3. QED
      BY <1>2, <3>1, <3>2, NatConcat
  <2>4. BlankAhead(c)
    <3>1. /\ Len(c) = 3 + Len(Plainly(s)) /\ Len(Plainly(s)) \in Nat
          /\ \A i \in 1 .. 3 : c[i] = HttpResponse[i]
      <4> DEFINE h == HttpResponse
                 k == Plainly(s)
      <4>1. h \in Seq(Cells) /\ k \in Seq(Cells)
        BY <1>2, ResponseIs
      <4> HIDE DEF h, k
      <4>2. Len(h \o k) = Len(h) + Len(k) /\ Len(k) \in Nat /\ \A i \in 1 .. Len(h) : (h \o k)[i] = h[i]
        BY <4>1, ConcatProperties
      <4>3. Len(h) = 3
        BY ResponseIs DEF h
      <4>4. QED
        BY <4>2, <4>3 DEF h, k
    <3> HIDE DEF c
    <3>2. 3 \in 2 .. Len(c) /\ c[3 - 1].t = "crlf" /\ c[3].t = "crlf2"
      BY <3>1, ResponseIs
    <3>3. QED
      BY <3>2 DEF BlankAhead
  <2> HIDE DEF e, c
  <2>5. QED
    BY <1>4, <1>6, <2>2, <2>3, <2>4 DEF ServerEncoding, e
<1>7. CASE "sent" \notin p.status /\ method # "http"
  <2>1. e = Encoded(w, RandomReply)
    BY <1>1, <1>7 DEF RandomServerEncode, w
  <2>2. e.p = w /\ e.cells = RandomReply
    BY <2>1 DEF Encoded
  <2> HIDE DEF e
  <2>3. QED
    BY <1>4, <1>7, <2>2, RandomMessages DEF ServerEncoding, ObfsTypes, e
<1>8. QED
  BY <1>5, <1>6, <1>7

LEMMA ServerEncodes ==
    ASSUME ObfsTypes, NEW p \in Plugins, NEW s \in Units
    PROVE  ServerEncoding(p, s, server_encode(p, s))
BY TlsServerEncodes, OtherServerEncodes

-----------------------------------------------------------------------------
(* The decoders of TLS: what is handed up and what is kept is what was in  *)
(* recv_buffer, less the handshake.                                        *)

Reading(p, statuses, r) ==
    /\ r.st \in {"ok", "raise"} /\ r.back \in BOOLEAN
    /\ r = Decoded(r.p, r.up, r.back, r.st)
    /\ r.st = "ok" =>
          /\ r.p \in Plugins /\ r.p.status \in statuses /\ r.p.send_buffer = p.send_buffer
          /\ r.up \in Seq(Cells)
          /\ DataOf(r.up) \o DataOf(r.p.recv_buffer) = DataOf(p.recv_buffer)
          /\ ~Has(p.recv_buffer, Heads) => ~Has(r.up, Heads) /\ ~Has(r.p.recv_buffer, Heads)

LEMMA Half ==
    ASSUME NEW L \in Nat
    PROVE  L \div 2 \in Nat /\ \A n \in 0 .. L \div 2 : 2 * n \in 0 .. L
OBVIOUS

LEMMA TakeRecordsReads ==
    ASSUME NEW p \in Plugins
    PROVE  Reading(p, {p.status}, TakeRecords(p))
<1> DEFINE b == p.recv_buffer
           r == TakeRecords(p)
           Whole(n) == \A i \in 1 .. n : Begins(Drop(b, 2 * i - 2), "rec") /\ b[2 * i].t = "body"
           whole == {n \in 0 .. Len(b) \div 2 : Whole(n)}
           n == CHOOSE n \in whole : \A m \in whole : m <= n
           left == Drop(b, 2 * n)
           w == [p EXCEPT !.recv_buffer = left]
<1>1. b \in Seq(Cells) /\ Len(b) \in Nat /\ Len(b) \div 2 \in Nat
  <2>1. b \in Seq(Cells)
    BY PluginParts
  <2>2. Len(b) \in Nat
    BY <2>1
  <2>3. QED
    BY <2>1, <2>2, Half
<1>2. n \in whole
  <2>1. 0 \in whole
    <3>1. \A h \in Nat : 0 \in 0 .. h
      OBVIOUS
    <3>2. 0 \in 0 .. Len(b) \div 2
      BY <1>1, <3>1
    <3>3. 1 .. 0 = {}
      OBVIOUS
    <3>4. QED
      BY <3>2, <3>3
  <2>2. whole \subseteq 0 .. Len(b) \div 2 /\ whole # {}
    BY <2>1
  <2> HIDE DEF whole
  <2>3. \E k \in whole : \A m \in whole : m <= k
    BY <1>1, <2>2, GreatestElement
  <2>4. QED
    BY <2>3
<1>3. 2 * n \in 0 .. Len(b)
  <2>1. n \in 0 .. Len(b) \div 2
    BY <1>2
  <2> HIDE DEF n
  <2>2. QED
    BY <1>1, <2>1, Half
<1>4. r = IF left # <<>> /\ ~Begins(left, "rec") THEN Decoded(p, <<>>, FALSE, "raise")
          ELSE Decoded(w, SubSeq(b, 1, 2 * n), FALSE, "ok")
  BY DEF TakeRecords
<1> DEFINE k == 2 * n
           up == SubSeq(b, 1, k)
<1> HIDE DEF n, whole
<1>5. /\ up \in Seq(Cells) /\ left \in Seq(Cells) /\ DataOf(up) \o DataOf(left) = DataOf(b)
      /\ ~Has(b, Heads) => ~Has(up, Heads) /\ ~Has(left, Heads)
  <2>1. k \in 0 .. Len(b)
    BY <1>3
  <2> HIDE DEF k
  <2>2. QED
    BY <1>1, <2>1, DataSplit, HasSplit DEF k
<1> HIDE DEF left, up, k
<1>6. w \in Plugins /\ w.status = p.status /\ w.send_buffer = p.send_buffer /\ w.recv_buffer = left
  BY <1>5 DEF Plugins
<1> HIDE DEF w
<1>7. CASE left # <<>> /\ ~Begins(left, "rec")
  <2>1. r = Decoded(p, <<>>, FALSE, "raise")
    BY <1>4, <1>7
  <2> HIDE DEF r
  <2>2. r.st = "raise" /\ r.back = FALSE /\ r.p = p /\ r.up = <<>>
    BY <2>1 DEF Decoded
  <2>3. r = Decoded(r.p, r.up, r.back, r.st)
    BY <2>1, <2>2
  <2>4. QED
    BY <2>2, <2>3 DEF Reading, r
<1>8. CASE ~(left # <<>> /\ ~Begins(left, "rec"))
  <2>1. r = Decoded(w, up, FALSE, "ok")
    BY <1>4, <1>8 DEF up, k
  <2> HIDE DEF r
  <2>2. r.st = "ok" /\ r.back = FALSE /\ r.p = w /\ r.up = up
    BY <2>1 DEF Decoded
  <2>3. r = Decoded(r.p, r.up, r.back, r.st)
    BY <2>1, <2>2
  <2>4. QED
    BY <1>5, <1>6, <2>2, <2>3 DEF Reading, r
<1>9. QED
  BY <1>7, <1>8

\* A message of the handshake is taken off.
LEMMA MatchesNoData ==
    ASSUME NEW b \in Seq(Cells), NEW m \in Seq(Cells), Matches(b, m),
           \A i \in 1 .. Len(m) : m[i].t \notin Carriers
    PROVE  /\ Len(m) \in 0 .. Len(b) /\ NoData(SubSeq(b, 1, Len(m)))
           /\ DataOf(SubSeq(b, 1, Len(m))) = <<>>
           /\ Drop(b, Len(m)) \in Seq(Cells) /\ DataOf(Drop(b, Len(m))) = DataOf(b)
<1>1. Len(m) \in 0 .. Len(b) /\ DOMAIN m = 1 .. Len(m)
  BY DEF Matches
<1> DEFINE k == Len(m)
           a == SubSeq(b, 1, k)
           c == Drop(b, k)
<1>2. \A i \in 1 .. k : b[i].t \notin Carriers
  BY <1>1 DEF Matches
<1> HIDE DEF k
<1>3. /\ a \in Seq(Cells) /\ c \in Seq(Cells) /\ Len(a) = k /\ DataOf(a) \o DataOf(c) = DataOf(b)
      /\ \A i \in 1 .. k : a[i] = b[i]
  BY <1>1, DataSplit DEF k
<1> HIDE DEF a, c
<1>4. NoData(a)
  <2>1. ASSUME NEW i \in 1 .. k PROVE a[i].d = <<>>
    <3>0. i \in 1 .. Len(a) /\ a[i] = b[i] /\ b[i].t \notin Carriers
      BY <1>2, <1>3
    <3>1. a[i] \in Cells /\ a[i].t \notin Carriers
      BY <1>3, <3>0
    <3>2. QED
      BY <3>1 DEF Cells
  <2>2. QED
    BY <1>3, <2>1 DEF NoData
<1>5. DataOf(a) = <<>> /\ DataOf(c) \in Seq(Nat)
  BY <1>3, <1>4, DataNone, DataType
<1>6. DataOf(c) = DataOf(b)
  BY <1>3, <1>5, NatConcat
<1>7. QED
  BY <1>1, <1>3, <1>4, <1>5, <1>6 DEF a, c, k

LEMMA HandshakeParts ==
    /\ Len(ClientHello) = 2 /\ Len(ServerHello) = 2 /\ Len(Finished) = 3 /\ Len(RandomHead) = 2
    /\ \A m \in {ClientHello, ServerHello, Finished, RandomHead} :
          m \in Seq(Cells) /\ \A i \in 1 .. Len(m) : m[i].t \notin Carriers
    /\ RandomHead[1].t \in Heads
<1>1. ASSUME NEW parts \in Seq(Kinds), \A i \in 1 .. Len(parts) : parts[i] \notin Carriers
      PROVE  /\ Len(Message(parts)) = Len(parts) /\ Message(parts) \in Seq(Cells)
             /\ \A i \in 1 .. Len(parts) : Message(parts)[i].t = parts[i]
             /\ \A i \in 1 .. Len(Message(parts)) : Message(parts)[i].t \notin Carriers
  BY <1>1, MessageIs
<1> DEFINE ch == <<"hello", "rest">>
           sh == <<"shello", "srest">>
           fi == <<"fin", "fin11", "finmac">>
           rh == <<"rand", "crc">>
<1>2. ch \in Seq(Kinds) /\ Len(ch) = 2 /\ \A i \in 1 .. Len(ch) : ch[i] \notin Carriers
  BY DEF Kinds, Carriers
<1>3. sh \in Seq(Kinds) /\ Len(sh) = 2 /\ \A i \in 1 .. Len(sh) : sh[i] \notin Carriers
  BY DEF Kinds, Carriers
<1>4. fi \in Seq(Kinds) /\ Len(fi) = 3 /\ \A i \in 1 .. Len(fi) : fi[i] \notin Carriers
  BY DEF Kinds, Carriers
<1>5. rh \in Seq(Kinds) /\ Len(rh) = 2 /\ \A i \in 1 .. Len(rh) : rh[i] \notin Carriers
  BY DEF Kinds, Carriers, Heads
<1>6. rh[1] \in Heads
  BY DEF Heads
<1> HIDE DEF ch, sh, fi, rh
<1>7. ClientHello = Message(ch) /\ ServerHello = Message(sh) /\ Finished = Message(fi) /\ RandomHead = Message(rh)
  BY DEF ClientHello, ServerHello, Finished, RandomHead, ch, sh, fi, rh
<1>8. /\ Len(ClientHello) = 2 /\ ClientHello \in Seq(Cells)
      /\ \A i \in 1 .. Len(ClientHello) : ClientHello[i].t \notin Carriers
  BY <1>1, <1>2, <1>7
<1>9. /\ Len(ServerHello) = 2 /\ ServerHello \in Seq(Cells)
      /\ \A i \in 1 .. Len(ServerHello) : ServerHello[i].t \notin Carriers
  BY <1>1, <1>3, <1>7
<1>10. /\ Len(Finished) = 3 /\ Finished \in Seq(Cells)
       /\ \A i \in 1 .. Len(Finished) : Finished[i].t \notin Carriers
  BY <1>1, <1>4, <1>7
<1>11. /\ Len(RandomHead) = 2 /\ RandomHead \in Seq(Cells)
       /\ \A i \in 1 .. Len(RandomHead) : RandomHead[i].t \notin Carriers
       /\ RandomHead[1].t \in Heads
  BY <1>1, <1>5, <1>6, <1>7
<1>12. QED
  BY <1>8, <1>9, <1>10, <1>11

LEMMA TlsServerFinishedReads ==
    ASSUME NEW p \in Plugins, method = "tls"
    PROVE  Reading(p, {p.status, p.status \cup {4}}, TlsServerFinished(p))
<1> DEFINE b == p.recv_buffer
           r == TlsServerFinished(p)
           w == [p EXCEPT !.recv_buffer = Drop(b, 3), !.status = p.status \cup {4}]
<1>1. b \in Seq(Cells) /\ Len(b) \in Nat /\ DataOf(b) \in Seq(Nat)
  BY PluginParts
<1>2. \/ r = Decoded(p, <<>>, FALSE, "raise")
      \/ r = Decoded(p, <<>>, FALSE, "ok")
      \/ Matches(b, Finished) /\ r = TakeRecords(w)
  <2> DEFINE X == Begins(b, "fin")
             L == Len(b)
             M == Matches(b, Finished)
  <2>1. r = CASE ~(L >= 2 /\ X) -> Decoded(p, <<>>, FALSE, "raise")
              [] X /\ L = 2 -> Decoded(p, <<>>, FALSE, "ok")
              [] X /\ L > 2 -> IF M THEN TakeRecords(w) ELSE Decoded(p, <<>>, FALSE, "raise")
    BY DEF TlsServerFinished
  <2>2. X \in BOOLEAN /\ M \in BOOLEAN /\ L \in Nat
    BY <1>1 DEF Begins, Matches
  <2> HIDE DEF X, L, M, r, w
  <2>3. \/ r = Decoded(p, <<>>, FALSE, "raise")
        \/ r = Decoded(p, <<>>, FALSE, "ok")
        \/ M /\ r = TakeRecords(w)
    <3>1. (L >= 2 <=> L = 2 \/ L > 2) /\ ~(L = 2 /\ L > 2)
      BY <2>2
    <3>2. CASE ~(L >= 2 /\ X)
      BY <2>1, <3>1, <3>2, Zenon
    <3>3. CASE X /\ L = 2
      BY <2>1, <3>1, <3>3, Zenon
    <3>4. CASE X /\ L > 2
      BY <2>1, <3>1, <3>4, Zenon
    <3>5. QED
      BY <3>1, <3>2, <3>3, <3>4, Zenon
  <2>4. QED
    BY <2>3 DEF M
<1>3. CASE r = Decoded(p, <<>>, FALSE, "raise")
  <2> HIDE DEF r
  <2>1. r.st = "raise" /\ r.back = FALSE /\ r.p = p /\ r.up = <<>>
    BY <1>3 DEF Decoded
  <2>2. r = Decoded(r.p, r.up, r.back, r.st)
    BY <1>3, <2>1
  <2>3. QED
    BY <2>1, <2>2 DEF Reading, r
<1>4. CASE r = Decoded(p, <<>>, FALSE, "ok")
  <2> HIDE DEF r
  <2>1. r.st = "ok" /\ r.back = FALSE /\ r.p = p /\ r.up = <<>>
    BY <1>4 DEF Decoded
  <2>2. <<>> \in Seq(Cells) /\ DataOf(<<>>) = <<>> /\ ~Has(<<>>, Heads) /\ <<>> \o DataOf(b) = DataOf(b)
    BY <1>1, NothingCarried, NatConcat DEF Carries
  <2>3. r = Decoded(r.p, r.up, r.back, r.st)
    BY <1>4, <2>1
  <2>4. QED
    BY <2>1, <2>2, <2>3 DEF Reading, r
<1>5. CASE Matches(b, Finished) /\ r = TakeRecords(w)
  <2>1. /\ Drop(b, 3) \in Seq(Cells) /\ DataOf(Drop(b, 3)) = DataOf(b)
        /\ ~Has(b, Heads) => ~Has(Drop(b, 3), Heads)
    <3>1. /\ Len(Finished) \in 0 .. Len(b) /\ Drop(b, Len(Finished)) \in Seq(Cells)
          /\ DataOf(Drop(b, Len(Finished))) = DataOf(b)
      BY <1>1, <1>5, HandshakeParts, MatchesNoData
    <3>2. 3 \in 0 .. Len(b) /\ Len(Finished) = 3
      BY <3>1, HandshakeParts
    <3>3. QED
      BY <1>1, <3>1, <3>2, HasSplit
  <2>2. p.status \cup {4} \in SUBSET Statuses
    BY PluginParts DEF Statuses
  <2>3. /\ w \in Plugins /\ w.status = p.status \cup {4} /\ w.send_buffer = p.send_buffer
        /\ w.recv_buffer = Drop(b, 3)
    BY <2>1, <2>2 DEF Plugins
  <2> HIDE DEF w
  <2>4. Reading(w, {w.status}, r)
    BY <1>5, <2>3, TakeRecordsReads
  <2> HIDE DEF r
  <2>5. QED
    BY <2>1, <2>3, <2>4 DEF Reading, r
<1>6. QED
  BY <1>2, <1>3, <1>4, <1>5

-----------------------------------------------------------------------------
(* server_decode.                                                          *)

ServerDecoding(p, chunk, r) ==
    /\ r.st \in {"ok", "junk", "pass", "raise"}
    /\ r.back \in BOOLEAN
    /\ r.st # "raise" =>
          /\ r.p \in Plugins /\ r.up \in Seq(Cells)
          /\ DataOf(r.up) \o DataOf(Held(r.p)) = DataOf(Held(p)) \o DataOf(chunk)
          /\ r.st \in {"junk", "pass"} => Unopened(p)
          /\ Unopened(r.p) => Unopened(p) /\ r.up = <<>>
          /\ ~Has(chunk, Heads) => ~Has(r.up, Heads)
          /\ method # "random_head" /\ ~Has(chunk, Heads) => ~Has(r.p.recv_buffer, Heads)
          /\ method = "tls" /\ -1 \in r.p.status => r.p.status \cap {1, 4} = {}
          /\ method = "http" => ~r.back /\ ("sent" \in p.status => "sent" \in r.p.status)
          /\ method = "random_head" =>
                /\ r.p.recv_buffer = <<>>
                /\ "recv" \in p.status => r.st = "ok" /\ r.p = p /\ r.up = chunk /\ ~r.back
                /\ "recv" \notin p.status =>
                      \/ /\ r.st = "ok" /\ r.back /\ r.up = <<>>
                         /\ r.p.status = p.status \cup {"recv"}
                         /\ Has(chunk, Heads)
                      \/ r.st \in {"junk", "pass"} /\ ~r.back /\ r.up = chunk /\ r.p.status = {"sent", "recv"}

\* What every way to refuse has in common.
LEMMA ErrorReturns ==
    ASSUME ObfsTypes, NEW p \in Plugins, NEW chunk \in Seq(Cells), ServerReady(p),
           method = "tls", Unopened(p), NEW q, q = [p EXCEPT !.recv_buffer = p.recv_buffer \o chunk],
           NEW r, r = decode_error_return(q, q.recv_buffer)
    PROVE  ServerDecoding(p, chunk, r)
<1> DEFINE a == p.recv_buffer
           b == a \o chunk
           w == [q EXCEPT !.status = {-1}]
<1>1. a \in Seq(Cells) /\ DataOf(a) \in Seq(Nat) /\ DataOf(chunk) \in Seq(Nat) /\ ~Has(a, Heads)
  BY PluginParts, DataType DEF ServerReady
<1>2. /\ b \in Seq(Cells) /\ DataOf(b) = DataOf(a) \o DataOf(chunk) /\ DataOf(b) \in Seq(Nat)
      /\ ~Has(chunk, Heads) => ~Has(b, Heads)
  BY <1>1, DataConcat, DataType, HasConcat
<1>3. q \in Plugins /\ q.recv_buffer = b
  BY <1>2 DEF Plugins
<1>4. {-1} \in SUBSET Statuses
  BY DEF Statuses
<1>5. w \in Plugins /\ w.status = {-1} /\ w.recv_buffer = b
  <2> HIDE DEF b
  <2>1. QED
    BY <1>3, <1>4 DEF Plugins
<1> HIDE DEF w, b
<1>6. r.st \in {"pass", "junk"} /\ r.back = FALSE /\ r.p = w /\ r.up = b
  BY <1>3 DEF decode_error_return, Decoded, w
<1>7. Held(p) = a /\ Held(r.p) = <<>>
  BY <1>5, <1>6 DEF Held, Unopened
<1>8. DataOf(b) \o DataOf(<<>>) = DataOf(b)
  BY <1>2, DataEmpty, NatConcat
<1>9. ~Unopened(r.p)
  BY <1>5, <1>6 DEF Unopened
<1>10. r.p.status \cap {1, 4} = {}
  BY <1>5, <1>6
<1>11. QED
  BY <1>2, <1>5, <1>6, <1>7, <1>8, <1>9, <1>10 DEF ServerDecoding

LEMMA ReadingDecodes ==
    ASSUME ObfsTypes, NEW p \in Plugins, NEW chunk \in Seq(Cells), ServerReady(p),
           method = "tls", -1 \notin p.status,
           NEW q \in Plugins, DataOf(q.recv_buffer) = DataOf(p.recv_buffer) \o DataOf(chunk),
           ~Has(chunk, Heads) => ~Has(q.recv_buffer, Heads),
           NEW statuses, \A st \in statuses : -1 \notin st /\ (1 \in st \/ 4 \in st),
           NEW r, Reading(q, statuses, r)
    PROVE  ServerDecoding(p, chunk, r)
<1>1. CASE r.st = "raise"
  BY <1>1 DEF Reading, ServerDecoding
<1>2. CASE r.st = "ok"
  <2>1. -1 \notin r.p.status /\ (1 \in r.p.status \/ 4 \in r.p.status)
    BY <1>2 DEF Reading
  <2>2. Held(p) = p.recv_buffer /\ Held(r.p) = r.p.recv_buffer
    BY <2>1 DEF Held
  <2>3. ~Unopened(r.p)
    BY <2>1 DEF Unopened
  <2>4. QED
    BY <1>2, <2>1, <2>2, <2>3 DEF Reading, ServerDecoding
<1>3. QED
  BY <1>1, <1>2 DEF Reading

LEMMA TlsHelloDecodes ==
    ASSUME ObfsTypes, NEW p \in Plugins, NEW chunk \in Seq(Cells), ServerReady(p),
           NEW suits \in BOOLEAN, method = "tls", Unopened(p),
           NEW q, q = [p EXCEPT !.recv_buffer = p.recv_buffer \o chunk]
    PROVE  ServerDecoding(p, chunk, TlsServerHello(q, suits))
<1> DEFINE r == TlsServerHello(q, suits)
           a == p.recv_buffer
           b == q.recv_buffer
           w == [q EXCEPT !.recv_buffer = Drop(b, 2), !.status = {1}]
           X == Begins(b, "hello")
           L == Len(b)
           M == Matches(b, ClientHello)
           error == decode_error_return(q, b)
<1>1. a \in Seq(Cells) /\ DataOf(a) \in Seq(Nat) /\ DataOf(chunk) \in Seq(Nat) /\ ~Has(a, Heads)
  BY PluginParts, DataType DEF ServerReady
<1>2. /\ b \in Seq(Cells) /\ DataOf(b) = DataOf(a) \o DataOf(chunk) /\ DataOf(b) \in Seq(Nat)
      /\ ~Has(chunk, Heads) => ~Has(b, Heads)
  <2> DEFINE c == a \o chunk
  <2>1. /\ c \in Seq(Cells) /\ DataOf(c) = DataOf(a) \o DataOf(chunk) /\ DataOf(c) \in Seq(Nat)
        /\ ~Has(chunk, Heads) => ~Has(c, Heads)
    BY <1>1, DataConcat, DataType, HasConcat
  <2>2. b = c
    BY DEF Plugins
  <2>3. QED
    BY <2>1, <2>2
<1>3. L \in Nat
  BY <1>2
<1>4. q \in Plugins /\ q.recv_buffer = b /\ q.status = p.status
  BY <1>2 DEF Plugins
<1>5. -1 \notin p.status
  BY DEF Unopened
<1>6. r = CASE ~X -> error
            [] X /\ L = 1 -> Decoded(q, <<>>, FALSE, "ok")
            [] X /\ L > 1 -> IF ~(M /\ suits) THEN error
                             ELSE IF L >= 4 THEN [TlsServerFinished(w) EXCEPT !.back = TRUE]
                             ELSE Decoded(w, <<>>, TRUE, "ok")
  BY DEF TlsServerHello
<1>7. X => L = 1 \/ L > 1
  <2>1. X => b # <<>>
    BY DEF Begins
  <2>2. b # <<>> => L = 1 \/ L > 1
    BY <1>2, <1>3
  <2>3. QED
    BY <2>1, <2>2
<1>8. ~(L = 1 /\ L > 1)
  BY <1>3
<1>9. \/ r = error
      \/ r = Decoded(q, <<>>, FALSE, "ok")
      \/ M /\ r = [TlsServerFinished(w) EXCEPT !.back = TRUE]
      \/ M /\ r = Decoded(w, <<>>, TRUE, "ok")
  <2> HIDE DEF X, M, L, error, r, w
  <2>1. CASE ~X
    BY <1>6, <2>1, Zenon
  <2>2. CASE X /\ L = 1
    BY <1>6, <1>8, <2>2, Zenon
  <2>3. CASE X /\ L > 1
    BY <1>6, <1>8, <2>3, Zenon
  <2>4. QED
    BY <1>7, <2>1, <2>2, <2>3, Zenon
<1>10. CASE r = error
  BY <1>4, <1>10, ErrorReturns
<1>11. CASE r = Decoded(q, <<>>, FALSE, "ok")
  <2> HIDE DEF r, b
  <2>1. r.st = "ok" /\ r.back = FALSE /\ r.p = q /\ r.up = <<>>
    BY <1>11 DEF Decoded
  <2>2. <<>> \in Seq(Cells) /\ DataOf(<<>>) = <<>> /\ ~Has(<<>>, Heads) /\ <<>> \o DataOf(b) = DataOf(b)
    BY <1>2, NothingCarried, NatConcat DEF Carries
  <2>3. Held(p) = a /\ Held(q) = b
    BY <1>4, <1>5 DEF Held
  <2>4. Unopened(q) /\ -1 \notin q.status
    BY <1>4, <1>5 DEF Unopened
  <2>5. QED
    BY <1>2, <1>4, <2>1, <2>2, <2>3, <2>4 DEF ServerDecoding, r
<1>12. ASSUME M
       PROVE  /\ w \in Plugins /\ w.status = {1} /\ DataOf(w.recv_buffer) = DataOf(b)
              /\ ~Has(chunk, Heads) => ~Has(w.recv_buffer, Heads)
  <2>1. /\ Len(ClientHello) \in 0 .. Len(b) /\ Drop(b, Len(ClientHello)) \in Seq(Cells)
        /\ DataOf(Drop(b, Len(ClientHello))) = DataOf(b)
    BY <1>2, <1>12, HandshakeParts, MatchesNoData
  <2>2. 2 \in 0 .. Len(b) /\ Drop(b, 2) \in Seq(Cells) /\ DataOf(Drop(b, 2)) = DataOf(b)
    BY <2>1, HandshakeParts
  <2>3. ~Has(b, Heads) => ~Has(Drop(b, 2), Heads)
    BY <1>2, <2>2, HasSplit
  <2>4. {1} \in SUBSET Statuses
    BY DEF Statuses
  <2> HIDE DEF b
  <2>5. w \in Plugins /\ w.status = {1} /\ w.recv_buffer = Drop(b, 2)
    BY <1>4, <2>2, <2>4 DEF Plugins
  <2>6. QED
    BY <1>2, <2>2, <2>3, <2>5
<1>13. CASE M /\ r = [TlsServerFinished(w) EXCEPT !.back = TRUE]
  <2> DEFINE t == TlsServerFinished(w)
             St == {w.status, w.status \cup {4}}
  <2> HIDE DEF w
  <2>1. Reading(w, St, t)
    BY <1>12, <1>13, TlsServerFinishedReads
  <2>2. /\ r.st = t.st /\ r.p = t.p /\ r.up = t.up /\ r.back \in BOOLEAN
        /\ r = Decoded(r.p, r.up, r.back, r.st)
    <3> HIDE DEF t
    <3>1. t = Decoded(t.p, t.up, t.back, t.st)
      BY <2>1 DEF Reading
    <3>2. r = [Decoded(t.p, t.up, t.back, t.st) EXCEPT !.back = TRUE]
      BY <1>13, <3>1 DEF t
    <3> HIDE DEF r
    <3>3. r = [p |-> r.p, up |-> r.up, back |-> r.back, st |-> r.st]
      BY <3>2 DEF Decoded
    <3>4. r.st = t.st /\ r.p = t.p /\ r.up = t.up
      BY <3>2 DEF Decoded
    <3>5. r.back = TRUE
      BY <3>2 DEF Decoded
    <3>6. QED
      BY <3>3, <3>4, <3>5 DEF Decoded
  <2> HIDE DEF r, t
  <2>3. Reading(w, St, r)
    BY <2>1, <2>2 DEF Reading
  <2>4. \A st \in St : -1 \notin st /\ (1 \in st \/ 4 \in st)
    BY <1>12, <1>13
  <2> HIDE DEF St, b
  <2>5. ServerDecoding(p, chunk, r)
    BY <1>2, <1>5, <1>12, <1>13, <2>3, <2>4, ReadingDecodes
  <2>6. QED
    BY <2>5 DEF r
<1>14. CASE M /\ r = Decoded(w, <<>>, TRUE, "ok")
  <2> HIDE DEF w
  <2>1. r.st = "ok" /\ r.back = TRUE /\ r.p = w /\ r.up = <<>>
    BY <1>14 DEF Decoded
  <2>2. <<>> \in Seq(Cells) /\ DataOf(<<>>) = <<>> /\ ~Has(<<>>, Heads) /\ <<>> \o DataOf(b) = DataOf(b)
    BY <1>2, NothingCarried, NatConcat DEF Carries
  <2>3. Held(p) = a /\ Held(w) = w.recv_buffer
    BY <1>5, <1>12, <1>14 DEF Held
  <2>4. ~Unopened(w) /\ -1 \notin w.status
    <3>1. w.status = {1}
      BY <1>12, <1>14
    <3>2. QED
      BY <3>1 DEF Unopened
  <2> HIDE DEF r, b
  <2>5. QED
    BY <1>2, <1>12, <1>14, <2>1, <2>2, <2>3, <2>4 DEF ServerDecoding, r
<1>15. QED
  BY <1>9, <1>10, <1>11, <1>13, <1>14

LEMMA TlsServerDecodes ==
    ASSUME ObfsTypes, NEW p \in Plugins, NEW chunk \in Seq(Cells), ServerReady(p),
           NEW suits \in BOOLEAN, method = "tls"
    PROVE  ServerDecoding(p, chunk, server_decode(p, chunk, suits))
<1> DEFINE r == server_decode(p, chunk, suits)
           a == p.recv_buffer
           b == a \o chunk
           q == [p EXCEPT !.recv_buffer = b]
           S == p.status
<1>1. r = TlsServerDecode(p, chunk, suits)
  BY DEF server_decode
<1>2. a \in Seq(Cells) /\ DataOf(a) \in Seq(Nat) /\ DataOf(chunk) \in Seq(Nat) /\ ~Has(a, Heads)
  BY PluginParts, DataType DEF ServerReady
<1>3. /\ b \in Seq(Cells) /\ DataOf(b) = DataOf(a) \o DataOf(chunk) /\ DataOf(b) \in Seq(Nat)
      /\ ~Has(chunk, Heads) => ~Has(b, Heads)
  BY <1>2, DataConcat, DataType, HasConcat
<1>4. q \in Plugins /\ q.recv_buffer = b /\ q.status = S
  <2> HIDE DEF b
  <2>1. QED
    BY <1>3 DEF Plugins
<1>5. CASE -1 \in S
  <2>1. 1 \notin S /\ 4 \notin S /\ S \cap {-1, 1, 4} # {}
    BY <1>5 DEF ServerReady
  <2>2. r = Decoded(p, chunk, FALSE, "ok")
    BY <1>1, <1>5, <2>1 DEF TlsServerDecode
  <2>3. r.st = "ok" /\ r.back = FALSE /\ r.p = p /\ r.up = chunk
    BY <2>2 DEF Decoded
  <2>4. Held(p) = <<>> /\ ~Unopened(p)
    BY <1>5 DEF Held, Unopened
  <2>5. DataOf(chunk) \o DataOf(<<>>) = DataOf(<<>>) \o DataOf(chunk)
    BY <1>2, NoDataBeside
  <2> HIDE DEF r
  <2>6. QED
    BY <1>2, <2>1, <2>3, <2>4, <2>5 DEF ServerDecoding, r
<1>6. CASE -1 \notin S /\ 4 \in S
  <2>1. S \cap {-1, 1, 4} # {}
    BY <1>6
  <2>2. r = TakeRecords(q)
    BY <1>1, <1>6, <2>1 DEF TlsServerDecode
  <2> HIDE DEF q, r
  <2>3. Reading(q, {S}, r)
    BY <1>4, <2>2, TakeRecordsReads
  <2> HIDE DEF b
  <2>4. \A st \in {S} : -1 \notin st /\ (1 \in st \/ 4 \in st)
    BY <1>6
  <2>5. QED
    BY <1>3, <1>4, <1>6, <2>3, <2>4, ReadingDecodes DEF r
<1>7. CASE -1 \notin S /\ 1 \in S /\ 4 \notin S
  <2>1. S \cap {-1, 1, 4} # {}
    BY <1>7
  <2>2. r = TlsServerFinished(q)
    BY <1>1, <1>7, <2>1 DEF TlsServerDecode
  <2> DEFINE St == {S, S \cup {4}}
  <2> HIDE DEF q, r
  <2>3. Reading(q, St, r)
    BY <1>4, <2>2, TlsServerFinishedReads
  <2>4. \A st \in St : -1 \notin st /\ (1 \in st \/ 4 \in st)
    BY <1>7
  <2> HIDE DEF b, St
  <2>5. QED
    BY <1>3, <1>4, <1>7, <2>3, <2>4, ReadingDecodes DEF r
<1>8. CASE S \cap {-1, 1, 4} = {}
  <2>1. -1 \notin S /\ 1 \notin S /\ 4 \notin S
    BY <1>8
  <2>2. r = TlsServerHello(q, suits)
    BY <1>1, <1>8, <2>1 DEF TlsServerDecode
  <2>3. Unopened(p)
    BY <1>8 DEF Unopened
  <2>4. ServerDecoding(p, chunk, TlsServerHello(q, suits))
    BY <2>3, TlsHelloDecodes
  <2>5. QED
    BY <2>2, <2>4
<1>9. QED
  BY <1>5, <1>6, <1>7, <1>8

LEMMA HttpServerDecodes ==
    ASSUME ObfsTypes, NEW p \in Plugins, NEW chunk \in Seq(Cells), ServerReady(p),
           NEW suits \in BOOLEAN, method = "http"
    PROVE  ServerDecoding(p, chunk, server_decode(p, chunk, suits))
<1> DEFINE r == server_decode(p, chunk, suits)
           a == p.recv_buffer
           b == a \o chunk
           q == [p EXCEPT !.recv_buffer = b]
           v == [p EXCEPT !.status = {"sent", "recv"}]
           w == [p EXCEPT !.status = p.status \cup {"recv"}]
           R == "recv" \in p.status
           X == Begins(b, "get")
           L == Len(b)
<1>1. r = HttpServerDecode(p, chunk, suits)
  BY DEF server_decode
<1>2. a \in Seq(Cells) /\ DataOf(a) \in Seq(Nat) /\ DataOf(chunk) \in Seq(Nat) /\ ~Has(a, Heads)
  BY PluginParts, DataType DEF ServerReady
<1>3. /\ b \in Seq(Cells) /\ DataOf(b) = DataOf(a) \o DataOf(chunk) /\ DataOf(b) \in Seq(Nat)
      /\ ~Has(chunk, Heads) => ~Has(b, Heads)
  BY <1>2, DataConcat, DataType, HasConcat
<1>4. L \in Nat /\ (X => L = 1 \/ L > 1) /\ ~(L = 1 /\ L > 1)
  <2>1. X => b # <<>>
    BY DEF Begins
  <2>2. L \in Nat /\ (b # <<>> => L = 1 \/ L > 1) /\ ~(L = 1 /\ L > 1)
    BY <1>3
  <2>3. QED
    BY <2>1, <2>2
<1>5. /\ {"sent", "recv"} \in SUBSET Statuses
      /\ p.status \in SUBSET Statuses /\ p.status \cup {"recv"} \in SUBSET Statuses
  BY PluginParts DEF Statuses
<1> HIDE DEF b
<1>6. q \in Plugins /\ q.recv_buffer = b /\ q.status = p.status
  BY <1>3 DEF Plugins
<1>7. v \in Plugins /\ v.recv_buffer = a /\ v.status = {"sent", "recv"}
  BY <1>5 DEF Plugins
<1>8. w \in Plugins /\ w.recv_buffer = a /\ w.status = p.status \cup {"recv"}
  BY <1>5 DEF Plugins
<1>9. r = CASE R -> Decoded(p, chunk, FALSE, "ok")
            [] ~R /\ ~X -> HttpNotMatch(p, b)
            [] ~R /\ X /\ L = 1 -> Decoded(q, <<>>, FALSE, "ok")
            [] ~R /\ X /\ L > 1 -> IF suits THEN Decoded(w, b, FALSE, "ok") ELSE HttpNotMatch(p, b)
  BY <1>1 DEF HttpServerDecode, b
<1>10. HttpNotMatch(p, b) = Decoded(v, b, FALSE, IF compatible THEN "pass" ELSE "junk")
  BY DEF HttpNotMatch
<1> HIDE DEF q, v, w, X, L, r
<1>11. \/ R /\ r = Decoded(p, chunk, FALSE, "ok")
       \/ ~R /\ r = Decoded(v, b, FALSE, IF compatible THEN "pass" ELSE "junk")
       \/ ~R /\ r = Decoded(q, <<>>, FALSE, "ok")
       \/ ~R /\ r = Decoded(w, b, FALSE, "ok")
  <2> HIDE DEF R
  <2>1. CASE R
    BY <1>9, <2>1, Zenon
  <2>2. CASE ~R /\ ~X
    BY <1>9, <1>10, <2>2, Zenon
  <2>3. CASE ~R /\ X /\ L = 1
    BY <1>4, <1>9, <2>3, Zenon
  <2>4. CASE ~R /\ X /\ L > 1
    BY <1>4, <1>9, <1>10, <2>4, Zenon
  <2>5. QED
    BY <1>4, <2>1, <2>2, <2>3, <2>4, Zenon
<1>12. /\ DataOf(chunk) \o DataOf(<<>>) = DataOf(<<>>) \o DataOf(chunk)
       /\ DataOf(b) \o DataOf(<<>>) = DataOf(b) /\ DataOf(<<>>) \o DataOf(b) = DataOf(b)
       /\ <<>> \in Seq(Cells) /\ ~Has(<<>>, Heads)
  BY <1>2, <1>3, DataEmpty, NatConcat, NothingCarried DEF Carries
<1>13. CASE R /\ r = Decoded(p, chunk, FALSE, "ok")
  <2>1. r.st = "ok" /\ r.back = FALSE /\ r.p = p /\ r.up = chunk
    BY <1>13 DEF Decoded
  <2>2. Held(p) = <<>> /\ ~Unopened(p)
    BY <1>13 DEF Held, Unopened
  <2>3. QED
    BY <1>2, <1>12, <2>1, <2>2 DEF ServerDecoding, r
<1>14. CASE ~R /\ r = Decoded(v, b, FALSE, IF compatible THEN "pass" ELSE "junk")
  <2>1. r.st \in {"pass", "junk"} /\ r.back = FALSE /\ r.p = v /\ r.up = b
    BY <1>14 DEF Decoded
  <2>2. Held(p) = a /\ Held(v) = <<>> /\ Unopened(p) /\ ~Unopened(v) /\ "sent" \in v.status
    BY <1>7, <1>14 DEF Held, Unopened
  <2>3. QED
    BY <1>2, <1>3, <1>7, <1>12, <2>1, <2>2 DEF ServerDecoding, r
<1>15. CASE ~R /\ r = Decoded(q, <<>>, FALSE, "ok")
  <2>1. r.st = "ok" /\ r.back = FALSE /\ r.p = q /\ r.up = <<>>
    BY <1>15 DEF Decoded
  <2>2. Held(p) = a /\ Held(q) = b /\ Unopened(p)
    BY <1>6, <1>15 DEF Held, Unopened
  <2>3. QED
    BY <1>2, <1>3, <1>6, <1>12, <2>1, <2>2 DEF ServerDecoding, r
<1>16. CASE ~R /\ r = Decoded(w, b, FALSE, "ok")
  <2>1. r.st = "ok" /\ r.back = FALSE /\ r.p = w /\ r.up = b
    BY <1>16 DEF Decoded
  <2>2. Held(p) = a /\ Held(w) = <<>> /\ ~Unopened(w)
    BY <1>8, <1>16 DEF Held, Unopened
  <2>3. QED
    BY <1>2, <1>3, <1>8, <1>12, <2>1, <2>2 DEF ServerDecoding, r
<1>17. QED
  BY <1>11, <1>13, <1>14, <1>15, <1>16 DEF r

LEMMA RandomServerDecodes ==
    ASSUME ObfsTypes, NEW p \in Plugins, NEW chunk \in Seq(Cells), ServerReady(p),
           NEW suits \in BOOLEAN, method = "random_head"
    PROVE  ServerDecoding(p, chunk, server_decode(p, chunk, suits))
<1> DEFINE r == server_decode(p, chunk, suits)
           v == [p EXCEPT !.status = {"sent", "recv"}]
           w == [p EXCEPT !.status = p.status \cup {"recv"}]
           R == "recv" \in p.status
           M == Len(chunk) = Len(RandomHead) /\ Matches(chunk, RandomHead)
<1>1. r = RandomServerDecode(p, chunk)
  BY DEF server_decode
<1>2. p.recv_buffer = <<>> /\ DataOf(chunk) \in Seq(Nat)
  BY DataType DEF ServerReady
<1>3. /\ {"sent", "recv"} \in SUBSET Statuses
      /\ p.status \in SUBSET Statuses /\ p.status \cup {"recv"} \in SUBSET Statuses
  BY PluginParts DEF Statuses
<1>4. v \in Plugins /\ v.recv_buffer = <<>> /\ v.status = {"sent", "recv"}
  BY <1>2, <1>3 DEF Plugins
<1>5. w \in Plugins /\ w.recv_buffer = <<>> /\ w.status = p.status \cup {"recv"}
  BY <1>2, <1>3 DEF Plugins
<1>6. Held(p) = <<>> /\ Held(v) = <<>> /\ Held(w) = <<>>
  BY <1>2, <1>4, <1>5 DEF Held
<1>7. ~Unopened(v) /\ ~Unopened(w)
  BY <1>4, <1>5 DEF Unopened
<1> HIDE DEF v, w
<1>8. \/ R /\ r = Decoded(p, chunk, FALSE, "ok")
      \/ ~R /\ M /\ r = Decoded(w, <<>>, TRUE, "ok")
      \/ ~R /\ ~M /\ r = Decoded(v, chunk, FALSE, IF compatible THEN "pass" ELSE "junk")
  <2>1. r = CASE R -> Decoded(p, chunk, FALSE, "ok")
              [] ~R /\ M -> Decoded(w, <<>>, TRUE, "ok")
              [] ~R /\ ~M -> Decoded(v, chunk, FALSE, IF compatible THEN "pass" ELSE "junk")
    BY <1>1 DEF RandomServerDecode, v, w
  <2> HIDE DEF R, M, r
  <2>2. QED
    BY <2>1, Zenon
<1>9. /\ DataOf(chunk) \o DataOf(<<>>) = DataOf(<<>>) \o DataOf(chunk)
      /\ <<>> \o <<>> = <<>> /\ DataOf(<<>>) = <<>>
      /\ <<>> \in Seq(Cells) /\ ~Has(<<>>, Heads)
  BY <1>2, DataEmpty, NatConcat, NothingCarried DEF Carries
<1>10. CASE R /\ r = Decoded(p, chunk, FALSE, "ok")
  <2> HIDE DEF r
  <2>1. r.st = "ok" /\ r.back = FALSE /\ r.p = p /\ r.up = chunk
    BY <1>10 DEF Decoded
  <2>2. ~Unopened(p) /\ "recv" \in p.status
    BY <1>10 DEF Unopened
  <2>3. QED
    BY <1>2, <1>6, <1>9, <2>1, <2>2 DEF ServerDecoding, r
<1>11. CASE ~R /\ M /\ r = Decoded(w, <<>>, TRUE, "ok")
  <2> HIDE DEF r
  <2>1. r.st = "ok" /\ r.back = TRUE /\ r.p = w /\ r.up = <<>>
    BY <1>11 DEF Decoded
  <2>2. DataOf(chunk) = <<>> /\ Has(chunk, Heads)
    <3>1. /\ DataOf(SubSeq(chunk, 1, Len(RandomHead))) = <<>> /\ RandomHead \in Seq(Cells)
          /\ Len(RandomHead) = 2 /\ RandomHead[1].t \in Heads
      BY <1>11, HandshakeParts, MatchesNoData
    <3>2. SubSeq(chunk, 1, Len(chunk)) = chunk
      OBVIOUS
    <3>3. 1 \in DOMAIN RandomHead /\ 1 \in 1 .. Len(chunk)
      BY <1>11, <3>1
    <3>4. chunk[1].t \in Heads
      BY <1>11, <3>1, <3>3 DEF Matches
    <3>5. QED
      BY <1>11, <3>1, <3>2, <3>3, <3>4 DEF Has
  <2>3. "recv" \notin p.status /\ Unopened(p)
    BY <1>11 DEF Unopened
  <2>4. QED
    BY <1>2, <1>5, <1>6, <1>7, <1>9, <2>1, <2>2, <2>3 DEF ServerDecoding, r
<1>12. CASE ~R /\ ~M /\ r = Decoded(v, chunk, FALSE, IF compatible THEN "pass" ELSE "junk")
  <2> HIDE DEF r
  <2>1. r.st \in {"pass", "junk"} /\ r.back = FALSE /\ r.p = v /\ r.up = chunk
    BY <1>12 DEF Decoded
  <2>2. "recv" \notin p.status /\ Unopened(p)
    BY <1>12 DEF Unopened
  <2>3. QED
    BY <1>2, <1>4, <1>6, <1>7, <1>9, <2>1, <2>2 DEF ServerDecoding, r
<1>13. QED
  BY <1>8, <1>10, <1>11, <1>12

LEMMA ServerDecodes ==
    ASSUME ObfsTypes, NEW p \in Plugins, NEW chunk \in Seq(Cells), ServerReady(p),
           NEW suits \in BOOLEAN
    PROVE  ServerDecoding(p, chunk, server_decode(p, chunk, suits))
BY TlsServerDecodes, HttpServerDecodes, RandomServerDecodes DEF ObfsTypes

-----------------------------------------------------------------------------
(* client_decode.                                                          *)

\* The chunks that come to a client: heads only of the random ones, http
\* responses at the front, and nothing of value in what is dropped.
Expected(p, chunk) ==
    /\ chunk \in Seq(Cells)
    /\ method # "random_head" \/ plain => ~Has(chunk, Heads)
    /\ method = "http" => First(chunk, Response)
    /\ method = "random_head" /\ ~plain =>
          /\ p.status # {}
          /\ "recv" \notin p.status => NoData(chunk)

\* An http client that has not seen the blank line.
Blind(p) == method = "http" /\ ~plain /\ "recv" \notin p.status

ClientDecoding(p, chunk, r) ==
    /\ r.st \in {"ok", "raise"}
    /\ r.back \in BOOLEAN
    /\ r.st = "ok" =>
          /\ r.p \in Plugins /\ ClientReady(r.p) /\ r.p.send_buffer = p.send_buffer
          /\ r.up \in Seq(Cells)
          /\ ~Blind(r.p) => DataOf(r.up) \o DataOf(r.p.recv_buffer)
                                = DataOf(p.recv_buffer) \o DataOf(chunk)
          /\ ~Has(chunk, Heads) => ~Has(r.up, Heads)
          /\ method = "http" => ~r.back
          /\ Blind(r.p) => Blind(p) /\ r.up = <<>>
          /\ Blind(p) /\ ~Blind(r.p) => BlankAhead(chunk)
          /\ method = "random_head" /\ ~plain =>
                IF "recv" \in p.status THEN r.p = p /\ ~r.back /\ r.up = chunk
                ELSE r.p.status = p.status \cup {"recv"} /\ r.back /\ r.up = <<>>

LEMMA PassingDecodes ==
    ASSUME ObfsTypes, NEW p \in Plugins, NEW chunk, Expected(p, chunk), ClientReady(p),
           plain \/ method # "tls", ~Blind(p),
           method = "random_head" /\ ~plain => "recv" \in p.status,
           NEW r, r = Decoded(p, chunk, FALSE, "ok")
    PROVE  ClientDecoding(p, chunk, r)
<1>1. chunk \in Seq(Cells) /\ DataOf(chunk) \in Seq(Nat)
  BY DataType DEF Expected
<1>2. r.st = "ok" /\ r.back = FALSE /\ r.p = p /\ r.up = chunk
  BY DEF Decoded
<1>3. p.recv_buffer = <<>>
  BY DEF ClientReady
<1>4. DataOf(chunk) \o DataOf(<<>>) = DataOf(<<>>) \o DataOf(chunk)
  BY <1>1, NoDataBeside
<1>5. QED
  BY <1>1, <1>2, <1>3, <1>4 DEF ClientDecoding

LEMMA TlsClientDecodes ==
    ASSUME ObfsTypes, NEW p \in Plugins, NEW chunk, Expected(p, chunk), ClientReady(p),
           ~plain, method = "tls"
    PROVE  ClientDecoding(p, chunk, client_decode(p, chunk))
<1> DEFINE r == client_decode(p, chunk)
           a == p.recv_buffer
           b == a \o chunk
           q == [p EXCEPT !.recv_buffer = b]
           M == Len(chunk) = Len(ServerHello) /\ Matches(chunk, ServerHello)
<1>1. r = TlsClientDecode(p, chunk)
  BY DEF client_decode
<1>2. /\ a \in Seq(Cells) /\ DataOf(a) \in Seq(Nat) /\ ~Has(a, Heads)
      /\ chunk \in Seq(Cells) /\ DataOf(chunk) \in Seq(Nat) /\ ~Has(chunk, Heads)
  BY PluginParts, DataType DEF ClientReady, Expected
<1>3. b \in Seq(Cells) /\ DataOf(b) = DataOf(a) \o DataOf(chunk) /\ ~Has(b, Heads)
  BY <1>2, DataConcat, DataType, HasConcat
<1>4. ~Blind(p)
  BY DEF Blind
<1>5. CASE 8 \in p.status
  <2> HIDE DEF b
  <2>1. /\ q \in Plugins /\ q.recv_buffer = b /\ q.status = p.status
        /\ q.send_buffer = p.send_buffer
    BY <1>3 DEF Plugins
  <2>2. r = TakeRecords(q)
    BY <1>1, <1>5 DEF TlsClientDecode, b
  <2> HIDE DEF q, r
  <2>3. Reading(q, {p.status}, r)
    BY <2>1, <2>2, TakeRecordsReads
  <2>4. CASE r.st = "raise"
    BY <2>3, <2>4 DEF Reading, ClientDecoding, r
  <2>5. CASE r.st = "ok"
    <3>1. /\ r.p \in Plugins /\ r.p.status = p.status /\ r.p.send_buffer = p.send_buffer
          /\ r.up \in Seq(Cells) /\ r.back \in BOOLEAN
          /\ DataOf(r.up) \o DataOf(r.p.recv_buffer) = DataOf(a) \o DataOf(chunk)
          /\ ~Has(r.up, Heads) /\ ~Has(r.p.recv_buffer, Heads)
      BY <1>3, <2>1, <2>3, <2>5 DEF Reading
    <3>2. ClientReady(r.p)
      BY <3>1 DEF ClientReady
    <3>3. ~Blind(r.p)
      BY DEF Blind
    <3>4. QED
      BY <1>4, <2>5, <3>1, <3>2, <3>3 DEF ClientDecoding, r
  <2>6. QED
    BY <2>3, <2>4, <2>5 DEF Reading, r
<1>6. CASE 8 \notin p.status /\ M
  <2>1. r = Decoded(p, <<>>, TRUE, "ok")
    BY <1>1, <1>6 DEF TlsClientDecode
  <2> HIDE DEF r
  <2>2. r.st = "ok" /\ r.back = TRUE /\ r.p = p /\ r.up = <<>>
    BY <2>1 DEF Decoded
  <2>3. DataOf(chunk) = <<>>
    <3>1. DataOf(SubSeq(chunk, 1, Len(ServerHello))) = <<>>
      BY <1>2, <1>6, HandshakeParts, MatchesNoData
    <3>2. SubSeq(chunk, 1, Len(chunk)) = chunk
      BY <1>2
    <3>3. QED
      BY <1>6, <3>1, <3>2
  <2>4. /\ DataOf(<<>>) \o DataOf(a) = DataOf(a) \o <<>> /\ <<>> \in Seq(Cells) /\ ~Has(<<>>, Heads)
    BY <1>2, DataEmpty, NatConcat, NothingCarried DEF Carries
  <2>5. QED
    BY <1>4, <2>2, <2>3, <2>4 DEF ClientDecoding, r
<1>7. CASE 8 \notin p.status /\ ~M
  <2>1. r = Decoded(p, <<>>, FALSE, "raise")
    BY <1>1, <1>7 DEF TlsClientDecode
  <2>2. QED
    BY <2>1 DEF ClientDecoding, Decoded
<1>8. QED
  BY <1>5, <1>6, <1>7

\* Before a part that comes first there are only such.
LEMMA LeadingParts ==
    ASSUME NEW b \in Seq(Cells), First(b, Response), NEW k \in 1 .. Len(b), b[k].t \in Response
    PROVE  /\ Drop(b, k) \in Seq(Cells) /\ DataOf(Drop(b, k)) = DataOf(b)
           /\ ~Has(b, Heads) => ~Has(Drop(b, k), Heads)
<1> DEFINE x == SubSeq(b, 1, k)
           y == Drop(b, k)
<1>1. k \in 0 .. Len(b) /\ k \in Nat
  OBVIOUS
<1>2. /\ x \in Seq(Cells) /\ y \in Seq(Cells) /\ Len(x) = k /\ DataOf(x) \o DataOf(y) = DataOf(b)
      /\ \A i \in 1 .. k : x[i] = b[i]
      /\ ~Has(b, Heads) => ~Has(y, Heads)
  BY <1>1, DataSplit, HasSplit
<1> HIDE DEF x, y
<1>3. NoData(x)
  <2>1. ASSUME NEW i \in 1 .. k PROVE x[i].d = <<>>
    <3>1. i \in 1 .. Len(b) /\ (i = k \/ i < k) /\ i \in 1 .. Len(x)
      BY <1>1, <1>2
    <3>2. b[i].t \in Response
      BY <3>1 DEF First
    <3>3. x[i] \in Cells /\ x[i].t \notin Carriers
      BY <1>2, <3>1, <3>2 DEF Response, Carriers
    <3>4. QED
      BY <3>3 DEF Cells
  <2>2. QED
    BY <1>2, <2>1 DEF NoData
<1>4. DataOf(x) = <<>> /\ DataOf(y) \in Seq(Nat)
  BY <1>2, <1>3, DataNone, DataType
<1>5. DataOf(y) = DataOf(b)
  BY <1>2, <1>4, NatConcat
<1>6. QED
  BY <1>2, <1>5 DEF y

LEMMA BlankLineIs ==
    ASSUME NEW chunk \in Seq(Cells)
    PROVE  /\ BlankLine(chunk) = 0 <=> ~BlankAhead(chunk)
           /\ BlankLine(chunk) # 0 => /\ BlankLine(chunk) \in 1 .. Len(chunk)
                                      /\ chunk[BlankLine(chunk)].t \in Response
<1> DEFINE ends == {i \in 2 .. Len(chunk) : chunk[i - 1].t = "crlf" /\ chunk[i].t = "crlf2"}
           k == BlankLine(chunk)
<1>1. k = IF ends = {} THEN 0 ELSE CHOOSE i \in ends : TRUE
  BY DEF BlankLine
<1>2. ends = {} <=> ~BlankAhead(chunk)
  BY DEF BlankAhead
<1>3. \A i \in ends : i \in 1 .. Len(chunk) /\ i # 0 /\ chunk[i].t \in Response
  BY DEF Response
<1> HIDE DEF ends, k
<1>4. CASE ends = {}
  BY <1>1, <1>2, <1>4 DEF k
<1>5. CASE ends # {}
  <2>1. k \in ends
    BY <1>1, <1>5
  <2>2. QED
    BY <1>2, <1>3, <1>5, <2>1 DEF k
<1>6. QED
  BY <1>4, <1>5

LEMMA HttpClientDecodes ==
    ASSUME ObfsTypes, NEW p \in Plugins, NEW chunk, Expected(p, chunk), ClientReady(p),
           ~plain, method = "http", "recv" \notin p.status
    PROVE  ClientDecoding(p, chunk, client_decode(p, chunk))
<1> DEFINE r == client_decode(p, chunk)
           w == [p EXCEPT !.status = p.status \cup {"recv"}]
           k == BlankLine(chunk)
           up == Drop(chunk, k)
<1>1. r = HttpClientDecode(p, chunk)
  BY DEF client_decode
<1>2. /\ chunk \in Seq(Cells) /\ DataOf(chunk) \in Seq(Nat) /\ ~Has(chunk, Heads)
      /\ First(chunk, Response)
      /\ p.recv_buffer = <<>> /\ <<>> \in Seq(Cells) /\ ~Has(<<>>, Heads) /\ Blind(p)
  BY DataType, NothingCarried DEF ClientReady, Expected, Carries, Blind
<1>3. CASE k = 0
  <2>1. r = Decoded(p, <<>>, FALSE, "ok")
    BY <1>1, <1>3 DEF HttpClientDecode
  <2> HIDE DEF r
  <2>2. r.st = "ok" /\ r.back = FALSE /\ r.p = p /\ r.up = <<>>
    BY <2>1 DEF Decoded
  <2>3. QED
    BY <1>2, <2>2 DEF ClientDecoding, r
<1>4. CASE k # 0
  <2>1. r = Decoded(w, up, FALSE, "ok")
    BY <1>1, <1>4 DEF HttpClientDecode
  <2>2. p.status \cup {"recv"} \in SUBSET Statuses
    BY PluginParts DEF Statuses
  <2>3. /\ w \in Plugins /\ w.status = p.status \cup {"recv"} /\ w.recv_buffer = <<>>
        /\ w.send_buffer = p.send_buffer
    BY <1>2, <2>2 DEF Plugins
  <2> HIDE DEF w
  <2>4. k \in 1 .. Len(chunk) /\ chunk[k].t \in Response /\ BlankAhead(chunk)
    BY <1>2, <1>4, BlankLineIs
  <2> HIDE DEF k
  <2>5. up \in Seq(Cells) /\ DataOf(up) = DataOf(chunk) /\ ~Has(up, Heads)
    BY <1>2, <2>4, LeadingParts
  <2> HIDE DEF up, r
  <2>6. r.st = "ok" /\ r.back = FALSE /\ r.p = w /\ r.up = up
    BY <2>1 DEF Decoded
  <2>7. ClientReady(w) /\ ~Blind(w)
    BY <1>2, <2>3 DEF ClientReady, Blind
  <2>8. DataOf(chunk) \o DataOf(<<>>) = DataOf(<<>>) \o DataOf(chunk)
    BY <1>2, DataEmpty, NatConcat
  <2>9. QED
    BY <1>2, <2>3, <2>4, <2>5, <2>6, <2>7, <2>8 DEF ClientDecoding, r
<1>5. QED
  BY <1>3, <1>4

LEMMA RandomClientDecodes ==
    ASSUME ObfsTypes, NEW p \in Plugins, NEW chunk, Expected(p, chunk), ClientReady(p),
           ~plain, method = "random_head", "recv" \notin p.status
    PROVE  ClientDecoding(p, chunk, client_decode(p, chunk))
<1> DEFINE r == client_decode(p, chunk)
           w == [p EXCEPT !.status = p.status \cup {"recv"}]
<1>1. r = Decoded(w, <<>>, TRUE, "ok")
  BY DEF client_decode, RandomClientDecode
<1>2. /\ chunk \in Seq(Cells) /\ DataOf(chunk) = <<>> /\ p.recv_buffer = <<>>
      /\ <<>> \in Seq(Cells) /\ ~Has(<<>>, Heads)
  BY DataNone, NothingCarried DEF ClientReady, Expected, Carries
<1>3. p.status = {"sent"} /\ p.status \cup {"recv"} = {"sent", "recv"}
  BY DEF ClientReady, Expected
<1>4. {"sent", "recv"} \in SUBSET Statuses
  BY DEF Statuses
<1>5. /\ w \in Plugins /\ w.status = {"sent", "recv"} /\ w.recv_buffer = <<>>
      /\ w.send_buffer = p.send_buffer
  BY <1>2, <1>3, <1>4 DEF Plugins
<1> HIDE DEF w, r
<1>6. r.st = "ok" /\ r.back = TRUE /\ r.p = w /\ r.up = <<>>
  BY <1>1 DEF Decoded
<1>7. ClientReady(w)
  <2>1. "open" \notin w.status
    BY <1>5
  <2>2. QED
    BY <1>2, <1>5, <2>1 DEF ClientReady
<1>8. ~Blind(p) /\ ~Blind(w)
  BY DEF Blind
<1>9. DataOf(<<>>) = <<>> /\ <<>> \o <<>> = <<>>
  BY DataEmpty, NatConcat
<1>10. QED
  BY <1>2, <1>3, <1>5, <1>6, <1>7, <1>8, <1>9 DEF ClientDecoding, r

LEMMA ClientDecodes ==
    ASSUME ObfsTypes, NEW p \in Plugins, NEW chunk, Expected(p, chunk), ClientReady(p)
    PROVE  ClientDecoding(p, chunk, client_decode(p, chunk))
<1> DEFINE r == client_decode(p, chunk)
<1>1. CASE plain \/ (method # "tls" /\ "recv" \in p.status)
  <2>1. r = Decoded(p, chunk, FALSE, "ok")
    BY <1>1 DEF client_decode, HttpClientDecode, RandomClientDecode, ObfsTypes
  <2>2. ~Blind(p)
    BY <1>1 DEF Blind
  <2>3. QED
    BY <1>1, <2>1, <2>2, PassingDecodes
<1>2. CASE ~plain /\ method = "tls"
  BY <1>2, TlsClientDecodes
<1>3. CASE ~plain /\ method # "tls" /\ "recv" \notin p.status
  BY <1>3, HttpClientDecodes, RandomClientDecodes DEF ObfsTypes
<1>4. QED
  BY <1>1, <1>2, <1>3

-----------------------------------------------------------------------------
(* The steps.                                                              *)

\* The configuration does not change.
LEMMA ConfigKept ==
    ASSUME UNCHANGED config
    PROVE  /\ method' = method /\ plain' = plain /\ compatible' = compatible
           /\ Plugins' = Plugins
           /\ ClientReady(client') => ClientReady(client)'
           /\ ServerReady(server') => ServerReady(server)'
           /\ Unopened(server)' <=> Unopened(server')
           /\ Held(server)' = Held(server')
<1>1. method' = method /\ plain' = plain /\ compatible' = compatible
  BY DEF config
<1>2. Statuses' = Statuses
  BY <1>1 DEF Statuses
<1>3. Plugins' = Plugins
  BY <1>2 DEF Plugins
<1>4. ClientReady(client') => ClientReady(client)'
  BY <1>1 DEF ClientReady
<1>5. ServerReady(server') => ServerReady(server)'
  BY <1>1 DEF ServerReady
<1>6. Unopened(server)' <=> Unopened(server')
  BY <1>1 DEF Unopened
<1>7. Held(server)' = Held(server')
  BY <1>1 DEF Held
<1>8. QED
  BY <1>1, <1>3, <1>4, <1>5, <1>6, <1>7

\* One end's wire, data or flag changes.
LEMMA PutAt ==
    ASSUME NEW T, NEW f \in [Ends -> T], NEW x \in Ends, NEW v \in T
    PROVE  /\ [f EXCEPT ![x] = v] \in [Ends -> T] /\ [f EXCEPT ![x] = v][x] = v
           /\ \A y \in Ends : y # x => [f EXCEPT ![x] = v][y] = f[y]
OBVIOUS

LEMMA StreamTypes ==
    ASSUME ObfsTypes
    PROVE  \A x \in Ends :
              /\ wire[x] \in Seq(Cells) /\ DataOf(wire[x]) \in Seq(Nat)
              /\ sent[x] \in Seq(Nat) /\ out[x] \in Seq(Nat) /\ refused[x] \in BOOLEAN
              /\ Fresh(x) \in Units /\ Fresh(x) \in Seq(Nat)
<1> TAKE x \in Ends
<1>1. wire[x] \in Seq(Cells) /\ sent[x] \in Seq(Nat) /\ out[x] \in Seq(Nat) /\ refused[x] \in BOOLEAN
  BY DEF ObfsTypes
<1>2. Len(sent[x]) + 1 \in Nat
  BY <1>1
<1>3. Fresh(x) \in Units /\ Fresh(x) \in Seq(Nat)
  BY <1>2 DEF Fresh, Units
<1>4. QED
  BY <1>1, <1>3, DataType

\* What is written goes to the end of what is on its way.
LEMMA WrittenBehind ==
    ASSUME NEW x \in Streams, NEW u \in Streams, NEW b \in Streams, NEW s \in Streams,
           NEW c \in Streams, NEW k \in Streams, Cat(c, k) = Cat(b, s)
    PROVE  Cat(Cat(Cat(x, u), b), s) = Cat(Cat(x, Cat(u, c)), k)
BY CatLaws

LEMMA ClientWriteStep ==
    ASSUME ObfsInv, ClientWrite
    PROVE  ObfsInv'
<1> DEFINE s == Fresh("server")
           e == client_encode(client, s)
           W == wire["server"]
<1>1. /\ ~dead /\ client' = e.p /\ wire' = [wire EXCEPT !["server"] = W \o e.cells]
      /\ sent' = [sent EXCEPT !["server"] = sent["server"] \o s]
      /\ UNCHANGED config /\ server' = server /\ out' = out /\ refused' = refused /\ dead' = dead
  BY DEF ClientWrite
<1>2. ObfsTypes /\ EndsInv /\ HeadInv /\ HttpInv /\ RandomInv /\ UpInv /\ DownInv
  BY <1>1 DEF ObfsInv
<1>3. /\ "server" \in Ends /\ "client" \in Ends /\ "client" # "server"
      /\ \A x \in Ends : x = "server" \/ x = "client"
  BY DEF Ends
<1>4. /\ W \in Seq(Cells) /\ DataOf(W) \in Seq(Nat) /\ s \in Units /\ s \in Seq(Nat)
      /\ sent["server"] \in Seq(Nat)
  BY <1>2, <1>3, StreamTypes
<1>5. client \in Plugins /\ server \in Plugins /\ ClientReady(client)
  BY <1>2 DEF ObfsTypes, EndsInv
<1>6. ClientEncoding(client, s, e)
  BY <1>2, <1>4, <1>5, ClientEncodes
<1>7. /\ method' = method /\ plain' = plain /\ compatible' = compatible /\ Plugins' = Plugins
      /\ ClientReady(client') => ClientReady(client)'
      /\ ServerReady(server') => ServerReady(server)'
      /\ Unopened(server)' <=> Unopened(server')
      /\ Held(server)' = Held(server')
  BY <1>1, ConfigKept
<1> DEFINE c == e.cells
<1> HIDE DEF e, s
<1>8. c \in Seq(Cells) /\ DataOf(c) \in Seq(Nat) /\ e.p \in Plugins
  BY <1>6, DataType DEF ClientEncoding
<1>9. /\ W \o c \in Seq(Cells) /\ DataOf(W \o c) = DataOf(W) \o DataOf(c)
      /\ sent["server"] \o s \in Seq(Nat)
  BY <1>4, <1>8, DataConcat, NatConcat
<1>10. /\ wire' \in [Ends -> Seq(Cells)] /\ wire'["server"] = W \o c /\ wire'["client"] = wire["client"]
  <2> DEFINE V == W \o c
  <2> HIDE DEF V
  <2>1. V \in Seq(Cells) /\ wire \in [Ends -> Seq(Cells)] /\ wire' = [wire EXCEPT !["server"] = V]
    BY <1>1, <1>2, <1>9 DEF V, ObfsTypes
  <2>2. QED
    BY <1>3, <2>1, PutAt DEF V
<1>11. /\ sent' \in [Ends -> Seq(Nat)] /\ sent'["server"] = sent["server"] \o s
       /\ sent'["client"] = sent["client"]
  <2> DEFINE V == sent["server"] \o s
  <2> HIDE DEF V
  <2>1. V \in Seq(Nat) /\ sent \in [Ends -> Seq(Nat)] /\ sent' = [sent EXCEPT !["server"] = V]
    BY <1>1, <1>2, <1>9 DEF V, ObfsTypes
  <2>2. QED
    BY <1>3, <2>1, PutAt DEF V
<1>12. ObfsTypes'
  BY <1>1, <1>2, <1>7, <1>8, <1>10, <1>11 DEF ObfsTypes
<1>13. EndsInv'
  BY <1>1, <1>2, <1>6, <1>7 DEF EndsInv, ClientEncoding
<1>14. First(W \o c, Heads) /\ (Has(W \o c, Heads) => out["server"] = <<>>)
  <2>1. First(W, Heads) /\ (Has(W, Heads) => out["server"] = <<>>)
    BY <1>2, <1>3 DEF HeadInv
  <2>2. CASE ~Has(c, Heads)
    BY <1>4, <1>8, <2>1, <2>2, FirstConcat, HasConcat
  <2>3. CASE Has(c, Heads)
    <3>1. method = "random_head" /\ ~plain
      BY <1>6, <2>3 DEF ClientEncoding
    <3>2. client.status \in {{}, {"sent"}, {"sent", "recv", "open"}}
      BY <1>2, <3>1 DEF RandomInv
    <3>3. ~Has(<<>>, Heads)
      BY NothingCarried DEF Carries
    <3>4. "recv" \notin client.status /\ client.status # {"sent"}
      BY <1>6, <2>3, <3>1, <3>3 DEF ClientEncoding
    <3>5. client.status = {}
      BY <3>2, <3>4
    <3>6. c = RandomHead /\ W = <<>> /\ out["server"] = <<>>
      BY <1>2, <1>3, <1>6, <3>1, <3>5 DEF ClientEncoding, RandomInv
    <3>7. W \o c = c
      BY <1>8, <3>6
    <3>8. QED
      BY <3>6, <3>7, RandomMessages
  <2>4. QED
    BY <2>2, <2>3
<1>15. HeadInv'
  <2>1. \A x \in Ends : First(wire'[x], Heads) /\ (Has(wire'[x], Heads) => out[x] = <<>>)
    BY <1>2, <1>3, <1>10, <1>14 DEF HeadInv
  <2>2. ASSUME method # "random_head" \/ plain PROVE \A x \in Ends : ~Has(wire'[x], Heads)
    <3>1. ~Has(W, Heads) /\ ~Has(wire["client"], Heads) /\ ~Has(c, Heads)
      BY <1>2, <1>3, <1>6, <2>2 DEF HeadInv, ClientEncoding
    <3>2. ~Has(W \o c, Heads)
      BY <1>4, <1>8, <3>1, HasConcat
    <3>3. QED
      BY <1>3, <1>10, <3>1, <3>2
  <2>3. QED
    BY <1>1, <1>7, <2>1, <2>2 DEF HeadInv
<1>16. HttpInv'
  <2>1. method = "http" => ("recv" \in client'.status <=> "recv" \in client.status)
    BY <1>1, <1>6 DEF ClientEncoding
  <2>2. QED
    BY <1>1, <1>2, <1>7, <1>10, <1>11, <2>1 DEF HttpInv
<1>17. RandomInv'
  <2>1. ASSUME method = "random_head", ~plain
        PROVE  /\ client'.status \in {{"sent"}, {"sent", "recv", "open"}}
               /\ "open" \notin client'.status =>
                     /\ out["server"] = <<>>
                     /\ \A x \in Ends : NoData(wire'[x])
    <3>1. client.status \in {{}, {"sent"}, {"sent", "recv", "open"}}
      BY <1>2, <2>1 DEF RandomInv
    <3>2. CASE client.status = {}
      <4>1. /\ c = RandomHead /\ client'.status = {"sent"} /\ W = <<>> /\ out["server"] = <<>>
            /\ wire["client"] = <<>>
        BY <1>1, <1>2, <1>3, <1>6, <2>1, <3>2 DEF ClientEncoding, RandomInv
      <4>2. W \o c = c /\ NoData(c) /\ NoData(<<>>)
        BY <1>8, <4>1, RandomMessages DEF NoData
      <4>3. QED
        BY <1>3, <1>10, <4>1, <4>2
    <3>3. CASE client.status = {"sent"}
      <4>1. /\ c = <<>> /\ client'.status = {"sent"} /\ out["server"] = <<>>
            /\ \A x \in Ends : NoData(wire[x])
        BY <1>1, <1>2, <1>6, <2>1, <3>3 DEF ClientEncoding, RandomInv
      <4>2. W \o c = W
        BY <1>4, <4>1
      <4>3. QED
        BY <1>3, <1>10, <4>1, <4>2
    <3>4. CASE client.status = {"sent", "recv", "open"}
      <4>1. client'.status = {"sent", "recv", "open"}
        BY <1>1, <1>6, <2>1, <3>4 DEF ClientEncoding
      <4>2. QED
        BY <4>1
    <3>5. QED
      BY <3>1, <3>2, <3>3, <3>4
  <2>2. client'.status \in {{"sent"}, {"sent", "recv", "open"}} => client'.status # {}
    OBVIOUS
  <2>3. QED
    BY <1>1, <1>2, <1>7, <1>10, <2>1, <2>2 DEF RandomInv
<1>18. UpInv'
  <2>1. SUFFICES ASSUME ~refused["server"]
                 PROVE  sent'["server"] = out["server"] \o DataOf(Held(server)) \o DataOf(wire'["server"])
                                            \o DataOf(client'.send_buffer)
    BY <1>1, <1>7 DEF UpInv
  <2> DEFINE o == out["server"]
             h == DataOf(Held(server))
             u == DataOf(W)
             b == DataOf(client.send_buffer)
             k == DataOf(client'.send_buffer)
  <2>2. o \in Seq(Nat) /\ h \in Seq(Nat) /\ b \in Seq(Nat) /\ k \in Seq(Nat)
    <3>1. Held(server) \in Seq(Cells) /\ client' \in Plugins
      BY <1>1, <1>5, <1>8, PluginParts DEF Held
    <3>2. QED
      BY <1>2, <1>3, <1>5, <3>1, DataType, PluginParts, StreamTypes
  <2>3. DataOf(c) \o k = b \o s
    BY <1>1, <1>6 DEF ClientEncoding
  <2>4. sent["server"] = ((o \o h) \o u) \o b
    BY <1>2, <2>1 DEF UpInv
  <2>5. DataOf(wire'["server"]) = u \o DataOf(c)
    BY <1>9, <1>10
  <2> HIDE DEF o, h, u, b, k
  <2> DEFINE x == Cat(o, h)
             d == DataOf(c)
  <2>6. /\ x \in Streams /\ u \in Streams /\ d \in Streams /\ b \in Streams /\ k \in Streams
        /\ s \in Streams
    BY <1>4, <1>8, <2>2, CatLaws DEF u, Streams
  <2>7. sent'["server"] = Cat(Cat(Cat(x, u), b), s) /\ Cat(d, k) = Cat(b, s)
    BY <1>11, <2>3, <2>4 DEF Cat
  <2> HIDE DEF x, d
  <2>8. Cat(Cat(Cat(x, u), b), s) = Cat(Cat(x, Cat(u, d)), k)
    BY <2>6, <2>7, WrittenBehind
  <2>9. QED
    BY <2>5, <2>7, <2>8 DEF o, h, k, x, d, Cat
<1>19. DownInv'
  <2>1. client'.recv_buffer = client.recv_buffer
    BY <1>1, <1>6 DEF ClientEncoding
  <2>2. method = "http" => ("recv" \in client'.status <=> "recv" \in client.status)
    BY <1>1, <1>6 DEF ClientEncoding
  <2>3. Lost' <=> Lost
    BY <1>1, <1>7, <1>10, <2>2 DEF Lost, BlankAhead
  <2>4. QED
    BY <1>1, <1>2, <1>10, <1>11, <2>1, <2>3 DEF DownInv
<1>20. QED
  BY <1>12, <1>13, <1>15, <1>16, <1>17, <1>18, <1>19 DEF ObfsInv

\* The blank line is not made up of later data.
LEMMA NoBlankBehind ==
    ASSUME NEW a \in Seq(Cells), NEW b \in Seq(Cells), ~Has(b, Response), BlankAhead(a \o b)
    PROVE  BlankAhead(a)
<1>1. /\ Len(a) \in Nat /\ Len(b) \in Nat /\ Len(a \o b) = Len(a) + Len(b)
      /\ \A i \in 1 .. Len(a) : (a \o b)[i] = a[i]
      /\ \A i \in 1 .. Len(b) : (a \o b)[Len(a) + i] = b[i]
  OBVIOUS
<1>2. PICK i \in 2 .. Len(a \o b) : (a \o b)[i - 1].t = "crlf" /\ (a \o b)[i].t = "crlf2"
  BY DEF BlankAhead
<1>3. i <= Len(a)
  <2>1. SUFFICES ASSUME i > Len(a) PROVE FALSE
    BY <1>1
  <2>2. i - Len(a) \in 1 .. Len(b) /\ Len(a) + (i - Len(a)) = i
    BY <1>1, <2>1
  <2>3. b[i - Len(a)].t = "crlf2"
    BY <1>1, <1>2, <2>2
  <2>4. QED
    BY <2>2, <2>3 DEF Has, Response
<1>4. i \in 2 .. Len(a) /\ i - 1 \in 1 .. Len(a) /\ i \in 1 .. Len(a)
  BY <1>1, <1>3
<1>5. a[i - 1].t = "crlf" /\ a[i].t = "crlf2"
  BY <1>1, <1>2, <1>4
<1>6. QED
  BY <1>4, <1>5 DEF BlankAhead

LEMMA ServerWriteStep ==
    ASSUME ObfsInv, ServerWrite
    PROVE  ObfsInv'
<1> DEFINE s == Fresh("client")
           e == server_encode(server, s)
           W == wire["client"]
<1>1. /\ ~dead /\ server' = e.p /\ wire' = [wire EXCEPT !["client"] = W \o e.cells]
      /\ sent' = [sent EXCEPT !["client"] = sent["client"] \o s]
      /\ out["server"] # <<>>
      /\ UNCHANGED config /\ client' = client /\ out' = out /\ refused' = refused /\ dead' = dead
  BY DEF ServerWrite
<1>2. ObfsTypes /\ EndsInv /\ HeadInv /\ HttpInv /\ RandomInv /\ UpInv /\ DownInv
  BY <1>1 DEF ObfsInv
<1>3. /\ "server" \in Ends /\ "client" \in Ends /\ "client" # "server"
      /\ \A x \in Ends : x = "server" \/ x = "client"
  BY DEF Ends
<1>4. /\ W \in Seq(Cells) /\ DataOf(W) \in Seq(Nat) /\ s \in Units /\ s \in Seq(Nat)
      /\ sent["client"] \in Seq(Nat)
  BY <1>2, <1>3, StreamTypes
<1>5. client \in Plugins /\ server \in Plugins /\ ServerReady(server) /\ ~Unopened(server)
  BY <1>1, <1>2 DEF ObfsTypes, EndsInv
<1>6. ServerEncoding(server, s, e)
  BY <1>2, <1>4, <1>5, ServerEncodes
<1>7. /\ method' = method /\ plain' = plain /\ compatible' = compatible /\ Plugins' = Plugins
      /\ ClientReady(client') => ClientReady(client)'
      /\ ServerReady(server') => ServerReady(server)'
      /\ Unopened(server)' <=> Unopened(server')
      /\ Held(server)' = Held(server')
  BY <1>1, ConfigKept
<1> DEFINE c == e.cells
<1> HIDE DEF e, s
<1>8. method = "random_head" => "sent" \in server.status
  BY <1>1, <1>2, <1>3 DEF RandomInv
<1>9. /\ c \in Seq(Cells) /\ DataOf(c) = s /\ ~Has(c, Heads) /\ e.p \in Plugins
      /\ e.p.recv_buffer = server.recv_buffer
      /\ e.p.status \in IF method = "tls" THEN {server.status, server.status \cup {8}}
                        ELSE {server.status \cup {"sent"}}
  BY <1>6, <1>8 DEF ServerEncoding
<1>10. /\ W \o c \in Seq(Cells) /\ DataOf(W \o c) = DataOf(W) \o s
       /\ sent["client"] \o s \in Seq(Nat)
  BY <1>4, <1>9, DataConcat, NatConcat
<1>11. /\ wire' \in [Ends -> Seq(Cells)] /\ wire'["client"] = W \o c /\ wire'["server"] = wire["server"]
  <2> DEFINE V == W \o c
  <2> HIDE DEF V
  <2>1. V \in Seq(Cells) /\ wire \in [Ends -> Seq(Cells)] /\ wire' = [wire EXCEPT !["client"] = V]
    BY <1>1, <1>2, <1>10 DEF V, ObfsTypes
  <2>2. QED
    BY <1>3, <2>1, PutAt DEF V
<1>12. /\ sent' \in [Ends -> Seq(Nat)] /\ sent'["client"] = sent["client"] \o s
       /\ sent'["server"] = sent["server"]
  <2> DEFINE V == sent["client"] \o s
  <2> HIDE DEF V
  <2>1. V \in Seq(Nat) /\ sent \in [Ends -> Seq(Nat)] /\ sent' = [sent EXCEPT !["client"] = V]
    BY <1>1, <1>2, <1>10 DEF V, ObfsTypes
  <2>2. QED
    BY <1>3, <2>1, PutAt DEF V
<1>13. ObfsTypes'
  BY <1>1, <1>2, <1>7, <1>9, <1>11, <1>12 DEF ObfsTypes
<1>14. ServerReady(server') /\ ~Unopened(server') /\ Held(server') = Held(server)
  <2>1. /\ method = "tls" => \A i \in {-1, 1, 4} : i \in server'.status <=> i \in server.status
        /\ method # "tls" => ("recv" \in server'.status <=> "recv" \in server.status)
    BY <1>1, <1>9
  <2>2. server'.recv_buffer = server.recv_buffer
    BY <1>1, <1>9
  <2>3. ServerReady(server')
    <3>1. method = "tls" /\ -1 \in server'.status => server'.status \cap {1, 4} = {}
      BY <1>5, <2>1 DEF ServerReady
    <3>2. QED
      BY <1>5, <2>2, <3>1 DEF ServerReady
  <2>4. ~Unopened(server')
    BY <1>5, <2>1 DEF Unopened
  <2>5. Held(server') = Held(server)
    BY <2>1, <2>2 DEF Held
  <2>6. QED
    BY <2>3, <2>4, <2>5
<1>15. EndsInv'
  <2>1. ClientReady(client')
    BY <1>1, <1>2 DEF EndsInv
  <2>2. QED
    BY <1>7, <1>14, <2>1 DEF EndsInv
<1>16. HeadInv'
  <2>1. First(W, Heads) /\ (Has(W, Heads) => out["client"] = <<>>)
    BY <1>2, <1>3 DEF HeadInv
  <2>2. First(W \o c, Heads) /\ (Has(W \o c, Heads) <=> Has(W, Heads))
    BY <1>4, <1>9, <2>1, FirstConcat, HasConcat
  <2>3. QED
    BY <1>1, <1>2, <1>3, <1>7, <1>11, <2>1, <2>2 DEF HeadInv
<1>17. HttpInv'
  <2>1. SUFFICES ASSUME method = "http" PROVE HttpInv'
    BY <1>7 DEF HttpInv
  <2>2. First(W \o c, Response)
    <3>1. CASE "sent" \in server.status
      BY <1>2, <1>4, <1>6, <1>9, <2>1, <3>1, FirstConcat DEF ServerEncoding, HttpInv
    <3>2. CASE "sent" \notin server.status
      <4>1. W = <<>> /\ First(c, Response)
        BY <1>2, <1>6, <2>1, <3>2 DEF ServerEncoding, HttpInv
      <4>2. W \o c = c
        BY <1>9, <4>1
      <4>3. QED
        BY <4>1, <4>2
    <3>3. QED
      BY <3>1, <3>2
  <2>3. "sent" \in server'.status
    BY <1>1, <1>9, <2>1
  <2>4. QED
    BY <1>1, <1>2, <1>7, <1>11, <2>1, <2>2, <2>3 DEF HttpInv
<1>18. RandomInv'
  <2>1. SUFFICES ASSUME method = "random_head" PROVE RandomInv'
    BY <1>7 DEF RandomInv
  <2>2. server.status = {"sent", "recv"}
    BY <1>1, <1>2, <1>3, <2>1 DEF RandomInv
  <2>3. server'.status = {"sent", "recv"} /\ server'.status # {}
    BY <1>1, <1>9, <2>1, <2>2
  <2>4. ~plain => client.status = {"sent", "recv", "open"} /\ "open" \in client.status /\ client.status # {}
    BY <1>1, <1>2, <2>1, <2>2 DEF RandomInv
  <2>5. QED
    BY <1>1, <1>7, <2>3, <2>4 DEF RandomInv
<1>19. UpInv'
  BY <1>1, <1>2, <1>7, <1>11, <1>12, <1>14 DEF UpInv
<1>20. DownInv'
  <2>1. SUFFICES ASSUME ~refused["client"], ~Lost'
                 PROVE  sent'["client"] = out["client"] \o DataOf(client.recv_buffer) \o DataOf(wire'["client"])
    BY <1>1 DEF DownInv
  <2>2. ~Lost
    <3>1. SUFFICES ASSUME Lost PROVE FALSE
      OBVIOUS
    <3>2. method = "http" /\ ~plain /\ "recv" \notin client.status /\ "sent" \in server.status /\ ~BlankAhead(W)
      BY <3>1 DEF Lost
    <3>3. ~Has(c, Response) /\ "sent" \in server'.status
      BY <1>1, <1>6, <1>9, <3>2 DEF ServerEncoding
    <3>4. ~BlankAhead(W \o c)
      BY <1>4, <1>9, <3>2, <3>3, NoBlankBehind
    <3>5. ~BlankAhead(wire["client"])'
      BY <1>11, <3>4 DEF BlankAhead
    <3>6. QED
      BY <1>1, <1>7, <2>1, <3>2, <3>3, <3>5 DEF Lost
  <2> DEFINE o == out["client"]
             h == DataOf(client.recv_buffer)
             u == DataOf(W)
  <2>3. o \in Streams /\ h \in Streams /\ u \in Streams /\ s \in Streams
    BY <1>2, <1>3, <1>4, <1>5, PluginParts, StreamTypes DEF Streams
  <2>4. sent'["client"] = Cat(Cat(Cat(o, h), u), s)
    BY <1>2, <1>12, <2>1, <2>2 DEF DownInv, Cat
  <2>5. DataOf(wire'["client"]) = Cat(u, s)
    BY <1>10, <1>11 DEF Cat
  <2> HIDE DEF o, h, u
  <2>6. sent'["client"] = Cat(Cat(o, h), Cat(u, s))
    BY <2>3, <2>4, CatLaws
  <2>7. QED
    BY <2>5, <2>6 DEF o, h, Cat
<1>21. QED
  BY <1>13, <1>15, <1>16, <1>17, <1>18, <1>19, <1>20 DEF ObfsInv

\* What is cut off the front of a stream is in order too.
LEMMA FirstPrefix ==
    ASSUME NEW b \in Seq(Cells), NEW n \in 0 .. Len(b), NEW P, First(b, P)
    PROVE  First(SubSeq(b, 1, n), P)
<1> DEFINE x == SubSeq(b, 1, n)
<1>1. Len(x) = n /\ (\A i \in 1 .. n : x[i] = b[i]) /\ \A i \in 1 .. n : i \in 1 .. Len(b)
  BY DataSplit
<1> HIDE DEF x
<1>2. First(x, P)
  BY <1>1 DEF First
<1>3. QED
  BY <1>2 DEF x

\* A chunk of nothing but heads or nothing but a response holds no data.
LEMMA PartsNoData ==
    ASSUME NEW b \in Seq(Cells), NEW n \in 0 .. Len(b), NEW P, P \cap Carriers = {},
           \A i \in 1 .. n : b[i].t \in P
    PROVE  NoData(SubSeq(b, 1, n)) /\ DataOf(SubSeq(b, 1, n)) = <<>>
<1> DEFINE x == SubSeq(b, 1, n)
<1>1. x \in Seq(Cells) /\ Len(x) = n /\ \A i \in 1 .. n : x[i] = b[i]
  BY DataSplit
<1> HIDE DEF x
<1>2. ASSUME NEW i \in 1 .. n PROVE x[i].d = <<>>
  <2>1. i \in 1 .. Len(x) /\ x[i].t \in P
    BY <1>1
  <2>2. x[i] \in Cells /\ x[i].t \notin Carriers
    BY <1>1, <2>1
  <2>3. QED
    BY <2>2 DEF Cells
<1>3. NoData(x)
  BY <1>1, <1>2 DEF NoData
<1>4. QED
  BY <1>1, <1>3, DataNone DEF x

\* A chunk is decoded and answered.
ClientTurn(p, chunk, r, c, q) ==
    /\ q \in Plugins /\ ClientReady(q) /\ c \in Seq(Cells) /\ r.up \in Seq(Cells)
    /\ DataOf(c) \o DataOf(q.send_buffer) = DataOf(p.send_buffer)
    /\ q.recv_buffer = r.p.recv_buffer
    /\ ~Has(c, Heads)
    /\ Blind(q) <=> Blind(r.p)
    /\ method = "random_head" /\ ~plain => q.status = {"sent", "recv", "open"} /\ r.up \in {chunk, <<>>}

LEMMA ClientTurns ==
    ASSUME ObfsTypes, NEW p \in Plugins, NEW chunk, Expected(p, chunk), ClientReady(p),
           method = "random_head" /\ ~plain => p.status \in {{"sent"}, {"sent", "recv", "open"}},
           NEW r, r = client_decode(p, chunk), r.st # "raise",
           NEW e, e = client_encode(r.p, <<>>)
    PROVE  ClientTurn(p, chunk, r, IF r.back THEN e.cells ELSE <<>>, IF r.back THEN e.p ELSE r.p)
<1>1. ClientDecoding(p, chunk, r) /\ r.st = "ok"
  BY ClientDecodes DEF ClientDecoding
<1>2. /\ r.p \in Plugins /\ ClientReady(r.p) /\ r.p.send_buffer = p.send_buffer
      /\ r.up \in Seq(Cells) /\ r.back \in BOOLEAN
  BY <1>1 DEF ClientDecoding
<1>3. DataOf(p.send_buffer) \in Seq(Nat)
  BY PluginParts
<1>4. <<>> \in Seq(Cells) /\ ~Has(<<>>, Heads) /\ <<>> \in Units
  BY NothingCarried DEF Carries, Units
<1>5. CASE ~r.back
  <2>1. DataOf(<<>>) \o DataOf(r.p.send_buffer) = DataOf(p.send_buffer)
    BY <1>2, <1>3, DataEmpty, NatConcat
  <2>2. method = "random_head" /\ ~plain => r.p.status = {"sent", "recv", "open"} /\ r.up = chunk
    <3>1. SUFFICES ASSUME method = "random_head", ~plain
                   PROVE  r.p.status = {"sent", "recv", "open"} /\ r.up = chunk
      OBVIOUS
    <3>2. "recv" \in p.status /\ r.p = p /\ r.up = chunk
      BY <1>1, <1>5, <3>1 DEF ClientDecoding
    <3>3. QED
      BY <3>1, <3>2
  <2>3. ClientTurn(p, chunk, r, <<>>, r.p)
    BY <1>2, <1>4, <2>1, <2>2 DEF ClientTurn
  <2>4. QED
    BY <1>5, <2>3
<1>6. CASE r.back
  <2>1. ClientEncoding(r.p, <<>>, e)
    BY <1>2, <1>4, ClientEncodes
  <2>2. DataOf(e.cells) \o DataOf(e.p.send_buffer) = DataOf(p.send_buffer)
    BY <1>2, <1>3, <2>1, NatConcat DEF ClientEncoding
  <2>3. method = "random_head" /\ ~plain => "recv" \in r.p.status /\ r.up = <<>>
    BY <1>1, <1>6 DEF ClientDecoding
  <2>4. ~Has(e.cells, Heads)
    BY <2>1, <2>3 DEF ClientEncoding
  <2>5. method # "http"
    BY <1>1, <1>6 DEF ClientDecoding
  <2>6. Blind(e.p) <=> Blind(r.p)
    BY <2>5 DEF Blind
  <2>7. ClientTurn(p, chunk, r, e.cells, e.p)
    BY <1>2, <2>1, <2>2, <2>3, <2>4, <2>6 DEF ClientTurn, ClientEncoding
  <2>8. QED
    BY <1>6, <2>7
<1>7. QED
  BY <1>2, <1>5, <1>6

LEMMA ClientChunk ==
    ASSUME ObfsInv, ~dead, NEW n \in 1 .. Len(wire["client"])
    PROVE  /\ Expected(client, SubSeq(wire["client"], 1, n))
           /\ ClientReady(client) /\ client \in Plugins
           /\ method = "http" => "sent" \in server.status
           /\ method = "random_head" => server.status = {"sent", "recv"}
           /\ method = "random_head" /\ ~plain => client.status \in {{"sent"}, {"sent", "recv", "open"}}
<1> DEFINE W == wire["client"]
           chunk == SubSeq(W, 1, n)
<1>1. ObfsTypes /\ EndsInv /\ HeadInv /\ HttpInv /\ RandomInv /\ "client" \in Ends
  BY DEF ObfsInv, Ends
<1>2. W \in Seq(Cells)
  BY <1>1, StreamTypes
<1>3. n \in 0 .. Len(W) /\ W # <<>>
  BY <1>2
<1> HIDE DEF W
<1>4. chunk \in Seq(Cells) /\ (Has(chunk, Heads) => Has(W, Heads)) /\ (NoData(W) => NoData(chunk))
  BY <1>2, <1>3, DataSplit, HasSplit
<1>5. method = "http" => "sent" \in server.status /\ First(chunk, Response)
  BY <1>1, <1>2, <1>3, FirstPrefix DEF HttpInv, W
<1>6. method = "random_head" => server.status = {"sent", "recv"} /\ server.status # {}
  BY <1>1, <1>3 DEF RandomInv, W
<1>7. method = "random_head" /\ ~plain => client.status \in {{"sent"}, {"sent", "recv", "open"}}
  BY <1>1, <1>6 DEF RandomInv
<1>8. method # "random_head" \/ plain => ~Has(chunk, Heads)
  BY <1>1, <1>4 DEF HeadInv, W
<1>9. ASSUME method = "random_head", ~plain
      PROVE  client.status # {} /\ ("recv" \notin client.status => NoData(chunk))
  <2>1. client.status # {} /\ ("recv" \notin client.status => "open" \notin client.status)
    BY <1>7, <1>9
  <2>2. "recv" \notin client.status => NoData(W)
    BY <1>1, <1>9, <2>1 DEF RandomInv, W
  <2>3. QED
    BY <1>4, <2>1, <2>2
<1>10. Expected(client, chunk)
  BY <1>4, <1>5, <1>8, <1>9 DEF Expected
<1>11. ClientReady(client) /\ client \in Plugins
  BY <1>1 DEF EndsInv, ObfsTypes
<1>12. QED
  BY <1>5, <1>6, <1>7, <1>10, <1>11 DEF W

\* What is handed up is not the peer's data.
Alien(r) == r.st = "junk" \/ (r.st = "pass" /\ ~IsData(r.up)) \/ Has(r.up, Heads)

LEMMA HandsUp ==
    ASSUME ObfsTypes, NEW x \in Ends, NEW r, r.up \in Seq(Cells), HandUp(x, r)
    PROVE  /\ out' \in [Ends -> Seq(Nat)] /\ refused' \in [Ends -> BOOLEAN]
           /\ \A y \in Ends : y # x => out'[y] = out[y] /\ refused'[y] = refused[y]
           /\ Alien(r) => refused'[x] /\ out'[x] = out[x]
           /\ ~Alien(r) => /\ refused'[x] = refused[x]
                           /\ out'[x] = IF refused[x] THEN out[x] ELSE out[x] \o DataOf(r.up)
<1>1. out \in [Ends -> Seq(Nat)] /\ refused \in [Ends -> BOOLEAN] /\ out[x] \in Seq(Nat)
  BY DEF ObfsTypes
<1> DEFINE A == r.st = "junk" \/ (r.st = "pass" /\ ~IsData(r.up))
                 \/ (\E i \in DOMAIN r.up : r.up[i].t \in {"rand", "crc", "more"})
           v == out[x] \o DataOf(r.up)
<1>2. Alien(r) <=> A
  <2>1. DOMAIN r.up = 1 .. Len(r.up)
    OBVIOUS
  <2>2. QED
    BY <2>1 DEF Alien, Has, Heads
<1>3. v \in Seq(Nat)
  BY <1>1, DataType, NatConcat
<1>4. IF A THEN refused' = [refused EXCEPT ![x] = TRUE] /\ out' = out
      ELSE /\ out' = IF refused[x] THEN out ELSE [out EXCEPT ![x] = v]
           /\ refused' = refused
  BY DEF HandUp
<1> HIDE DEF A, v
<1>5. CASE A
  BY <1>1, <1>2, <1>4, <1>5
<1>6. CASE ~A
  BY <1>1, <1>2, <1>3, <1>4, <1>6 DEF v
<1>7. QED
  BY <1>5, <1>6

\* An exception ends the connection.
LEMMA Raised ==
    ASSUME ObfsInv, UNCHANGED config, dead' = TRUE, client' = client, server' = server,
           sent' = sent, out' = out, refused' = refused,
           NEW x \in Ends, NEW n \in 0 .. Len(wire[x]), wire' = [wire EXCEPT ![x] = Drop(wire[x], n)]
    PROVE  ObfsInv'
<1>1. ObfsTypes
  BY DEF ObfsInv
<1> DEFINE V == Drop(wire[x], n)
<1>2. wire[x] \in Seq(Cells)
  BY <1>1, StreamTypes
<1>3. V \in Seq(Cells)
  BY <1>2, DataSplit
<1> HIDE DEF V
<1>4. wire' \in [Ends -> Seq(Cells)]
  BY <1>1, <1>3 DEF ObfsTypes, V
<1>5. method' = method /\ plain' = plain /\ compatible' = compatible /\ Plugins' = Plugins
  BY ConfigKept
<1>6. ObfsTypes'
  BY <1>1, <1>4, <1>5 DEF ObfsTypes
<1>7. QED
  BY <1>6 DEF ObfsInv

\* A chunk is taken off one wire and an answer put on the other.
Answering(x, y, n, back, a) ==
    LET left == [wire EXCEPT ![x] = Drop(@, n)]
    IN  wire' = IF back THEN [left EXCEPT ![y] = @ \o a] ELSE left

Answered(x, y, n, c) ==
    /\ wire' \in [Ends -> Seq(Cells)]
    /\ wire'[x] = Drop(wire[x], n) /\ wire'[y] = wire[y] \o c

LEMMA TakenAndAnswered ==
    ASSUME wire \in [Ends -> Seq(Cells)], NEW x \in Ends, NEW y \in Ends, x # y,
           NEW n \in 0 .. Len(wire[x]), NEW back \in BOOLEAN, NEW a, NEW c \in Seq(Cells),
           c = IF back THEN a ELSE <<>>, Answering(x, y, n, back, a)
    PROVE  Answered(x, y, n, c)
<1> DEFINE left == [wire EXCEPT ![x] = Drop(wire[x], n)]
<1>0. wire' = IF back THEN [left EXCEPT ![y] = left[y] \o a] ELSE left
  BY DEF Answering
<1> DEFINE V == Drop(wire[x], n)
           U == wire[y] \o c
<1>1. V \in Seq(Cells) /\ U \in Seq(Cells) /\ wire[y] \in Seq(Cells)
  <2>1. wire[x] \in Seq(Cells) /\ wire[y] \in Seq(Cells)
    OBVIOUS
  <2>2. QED
    BY <2>1, DataSplit
<1>2. ~back => U = wire[y]
  BY <1>1
<1> HIDE DEF V
<1>3. left \in [Ends -> Seq(Cells)] /\ left[x] = V /\ left[y] = wire[y]
  BY <1>1 DEF V
<1>4. wire' = IF back THEN [left EXCEPT ![y] = U] ELSE left
  BY <1>0, <1>3
<1> HIDE DEF U, left
<1>5. CASE back
  BY <1>1, <1>3, <1>4, <1>5 DEF V, U, Answered
<1>6. CASE ~back
  BY <1>1, <1>2, <1>3, <1>4, <1>6 DEF V, U, Answered
<1>7. QED
  BY <1>5, <1>6

\* A chunk of n cells is received by the client and does not raise.
ClientTakes(n, r, c) ==
    /\ n \in 1 .. Len(wire["client"])
    /\ r = client_decode(client, SubSeq(wire["client"], 1, n)) /\ r.st = "ok"
    /\ ClientTurn(client, SubSeq(wire["client"], 1, n), r, c, client')
    /\ wire' \in [Ends -> Seq(Cells)]
    /\ wire'["client"] = Drop(wire["client"], n) /\ wire'["server"] = wire["server"] \o c
    /\ HandUp("client", r) /\ UNCHANGED dead

LEMMA ClientReceiveCases ==
    ASSUME ObfsInv, ClientReceive
    PROVE  /\ ~dead /\ UNCHANGED config /\ server' = server /\ sent' = sent
           /\ \/ /\ dead' = TRUE /\ UNCHANGED <<client, out, refused>>
                 /\ \E n \in 0 .. Len(wire["client"]) :
                       wire' = [wire EXCEPT !["client"] = Drop(wire["client"], n)]
              \/ \E n, r, c : ClientTakes(n, r, c)
<1>1. ~dead /\ UNCHANGED config /\ server' = server /\ sent' = sent
  BY DEF ClientReceive
<1> DEFINE R(n) == client_decode(client, SubSeq(wire["client"], 1, n))
           Left(n) == [wire EXCEPT !["client"] = Drop(wire["client"], n)]
           E(n) == client_encode(R(n).p, <<>>)
<1>2. PICK n \in 1 .. Len(wire["client"]) :
          IF R(n).st = "raise"
          THEN dead' = TRUE /\ wire' = Left(n) /\ UNCHANGED <<client, out, refused>>
          ELSE /\ client' = IF R(n).back THEN E(n).p ELSE R(n).p
               /\ wire' = IF R(n).back THEN [Left(n) EXCEPT !["server"] = @ \o E(n).cells] ELSE Left(n)
               /\ HandUp("client", R(n))
               /\ UNCHANGED dead
  BY DEF ClientReceive
<1> DEFINE r == R(n)
           left == Left(n)
           e == E(n)
           c == IF r.back THEN e.cells ELSE <<>>
           chunk == SubSeq(wire["client"], 1, n)
<1>3. ObfsTypes /\ "client" \in Ends /\ "server" \in Ends /\ wire \in [Ends -> Seq(Cells)]
  BY DEF ObfsInv, Ends, ObfsTypes
<1>4. n \in 0 .. Len(wire["client"])
  BY <1>2
<1>5. CASE r.st = "raise"
  BY <1>1, <1>2, <1>4, <1>5
<1>6. CASE r.st # "raise"
  <2>1. /\ Expected(client, chunk) /\ ClientReady(client) /\ client \in Plugins
        /\ method = "random_head" /\ ~plain => client.status \in {{"sent"}, {"sent", "recv", "open"}}
    BY <1>1, ClientChunk
  <2>2. /\ r = client_decode(client, chunk) /\ e = client_encode(r.p, <<>>)
        /\ client' = IF r.back THEN e.p ELSE r.p
        /\ Answering("client", "server", n, r.back, e.cells)
        /\ HandUp("client", r) /\ UNCHANGED dead
    BY <1>2, <1>6 DEF Answering
  <2> HIDE DEF r, e, chunk
  <2>3. ClientTurn(client, chunk, r, c, client')
    BY <1>3, <1>6, <2>1, <2>2, ClientTurns
  <2>4. r.st = "ok" /\ r.back \in BOOLEAN
    BY <1>3, <1>6, <2>1, <2>2, ClientDecodes DEF ClientDecoding
  <2>5. c \in Seq(Cells)
    BY <2>3 DEF ClientTurn
  <2>6. Answered("client", "server", n, c)
    BY <1>3, <1>4, <2>2, <2>4, <2>5, TakenAndAnswered
  <2>7. ClientTakes(n, r, c)
    BY <1>2, <2>2, <2>3, <2>4, <2>6 DEF ClientTakes, Answered, chunk
  <2>8. QED
    BY <1>1, <2>7
<1>7. QED
  BY <1>5, <1>6

\* What a turn leaves of the data on its way.
LEMMA Delivers ==
    ASSUME NEW o \in Streams, NEW h \in Streams, NEW u \in Streams, NEW d \in Streams,
           NEW x \in Streams, NEW k \in Streams, Cat(x, k) = Cat(h, u)
    PROVE  Cat(Cat(o, h), Cat(u, d)) = Cat(Cat(Cat(o, x), k), d)
BY CatLaws

LEMMA ClientTakesStep ==
    ASSUME ObfsInv, ~dead, UNCHANGED config, server' = server, sent' = sent,
           NEW n, NEW r, NEW c, ClientTakes(n, r, c)
    PROVE  ObfsInv'
<1> DEFINE W == wire["client"]
           chunk == SubSeq(W, 1, n)
           D == Drop(W, n)
<1>1. /\ ObfsTypes /\ EndsInv /\ HeadInv /\ HttpInv /\ RandomInv /\ UpInv /\ DownInv
      /\ "server" \in Ends /\ "client" \in Ends /\ "client" # "server"
      /\ \A x \in Ends : x = "server" \/ x = "client"
  BY DEF ObfsInv, Ends
<1>2. /\ n \in 1 .. Len(W) /\ r = client_decode(client, chunk) /\ r.st = "ok"
      /\ ClientTurn(client, chunk, r, c, client') /\ wire' \in [Ends -> Seq(Cells)]
      /\ wire'["client"] = D /\ wire'["server"] = wire["server"] \o c
      /\ HandUp("client", r) /\ dead' = dead
  BY DEF ClientTakes
<1>3. /\ Expected(client, chunk) /\ ClientReady(client) /\ client \in Plugins
      /\ method = "http" => "sent" \in server.status
      /\ method = "random_head" => server.status = {"sent", "recv"}
  BY <1>2, ClientChunk
<1>4. ClientDecoding(client, chunk, r)
  BY <1>1, <1>2, <1>3, ClientDecodes
<1>5. /\ method' = method /\ plain' = plain /\ compatible' = compatible /\ Plugins' = Plugins
      /\ ClientReady(client') => ClientReady(client)'
      /\ ServerReady(server') => ServerReady(server)'
      /\ Unopened(server)' <=> Unopened(server')
      /\ Held(server)' = Held(server')
  BY ConfigKept
<1>6. /\ W \in Seq(Cells) /\ n \in 0 .. Len(W) /\ n > 0 /\ wire["server"] \in Seq(Cells)
      /\ c \in Seq(Cells) /\ r.up \in Seq(Cells) /\ client' \in Plugins
  <2>1. W \in Seq(Cells) /\ wire["server"] \in Seq(Cells)
    BY <1>1, StreamTypes
  <2>2. QED
    BY <1>2, <2>1 DEF ClientTurn
<1>7. /\ chunk \in Seq(Cells) /\ D \in Seq(Cells) /\ DataOf(chunk) \o DataOf(D) = DataOf(W)
      /\ Has(W, Heads) <=> Has(chunk, Heads) \/ Has(D, Heads)
  BY <1>6, DataSplit, HasSplit
<1>8. /\ out' \in [Ends -> Seq(Nat)] /\ refused' \in [Ends -> BOOLEAN]
      /\ out'["server"] = out["server"] /\ refused'["server"] = refused["server"]
      /\ Alien(r) => refused'["client"] /\ out'["client"] = out["client"]
      /\ ~Alien(r) => /\ refused'["client"] = refused["client"]
                      /\ out'["client"] = IF refused["client"] THEN out["client"]
                                          ELSE out["client"] \o DataOf(r.up)
  BY <1>1, <1>2, <1>6, HandsUp
<1>9. /\ r.up = <<>> => out'["client"] = out["client"]
      /\ DataOf(r.up) = <<>> => out'["client"] = out["client"]
  <2>1. out["client"] \in Seq(Nat) /\ DataOf(<<>>) = <<>>
    BY <1>1, StreamTypes, DataEmpty
  <2>2. out["client"] \o <<>> = out["client"]
    BY <2>1, NatConcat
  <2>3. QED
    BY <1>8, <2>1, <2>2
<1> HIDE DEF W, chunk, D
<1>10. ObfsTypes'
  BY <1>1, <1>2, <1>5, <1>6, <1>8 DEF ObfsTypes
<1>11. EndsInv'
  BY <1>1, <1>2, <1>5, <1>8 DEF EndsInv, ClientTurn
<1>12. First(D, Heads) /\ (Has(D, Heads) => out'["client"] = <<>>)
  <2>1. First(W, Heads) /\ (Has(W, Heads) => out["client"] = <<>>)
    BY <1>1 DEF HeadInv, W
  <2>2. First(D, Heads) /\ (Has(D, Heads) => \A i \in 1 .. n : W[i].t \in Heads)
    BY <1>6, <2>1, FirstSplit DEF D
  <2>3. ASSUME Has(D, Heads) PROVE out'["client"] = <<>>
    <3>1. out["client"] = <<>> /\ method = "random_head" /\ ~plain
      BY <1>1, <1>7, <2>1, <2>3 DEF HeadInv, W
    <3>2. Heads \cap Carriers = {}
      BY DEF Heads, Carriers
    <3>3. DataOf(chunk) = <<>>
      BY <1>6, <2>2, <2>3, <3>2, PartsNoData DEF chunk
    <3>4. r.up \in {chunk, <<>>}
      BY <1>2, <3>1 DEF ClientTurn
    <3>5. QED
      BY <1>9, <3>1, <3>3, <3>4
  <2>4. QED
    BY <2>2, <2>3
<1>13. HeadInv'
  <2>1. /\ First(wire["server"], Heads) /\ (Has(wire["server"], Heads) => out["server"] = <<>>)
        /\ ~Has(c, Heads)
    BY <1>1, <1>2 DEF HeadInv, ClientTurn
  <2>2. /\ First(wire["server"] \o c, Heads)
        /\ Has(wire["server"] \o c, Heads) <=> Has(wire["server"], Heads)
    BY <1>6, <2>1, FirstConcat, HasConcat
  <2>3. \A x \in Ends : First(wire'[x], Heads) /\ (Has(wire'[x], Heads) => out'[x] = <<>>)
    BY <1>1, <1>2, <1>8, <1>12, <2>1, <2>2
  <2>4. ASSUME method # "random_head" \/ plain PROVE \A x \in Ends : ~Has(wire'[x], Heads)
    <3>1. ~Has(W, Heads) /\ ~Has(wire["server"], Heads)
      BY <1>1, <2>4 DEF HeadInv, W
    <3>2. QED
      BY <1>1, <1>2, <1>7, <2>2, <3>1
  <2>5. QED
    BY <1>5, <2>3, <2>4 DEF HeadInv
<1>14. HttpInv'
  <2>1. SUFFICES ASSUME method = "http" PROVE HttpInv'
    BY <1>5 DEF HttpInv
  <2>2. First(D, Response)
    BY <1>1, <1>6, <2>1, FirstSplit DEF HttpInv, D, W
  <2>3. ~plain /\ "recv" \notin client'.status => out'["client"] = <<>>
    <3>1. SUFFICES ASSUME ~plain, "recv" \notin client'.status PROVE out'["client"] = <<>>
      OBVIOUS
    <3>2. Blind(client')
      BY <2>1, <3>1 DEF Blind
    <3>3. Blind(client) /\ r.up = <<>>
      BY <1>2, <1>4, <3>2 DEF ClientTurn, ClientDecoding
    <3>4. QED
      BY <1>1, <1>9, <2>1, <3>3 DEF HttpInv, Blind
  <2>4. QED
    BY <1>2, <1>3, <1>5, <2>1, <2>2, <2>3 DEF HttpInv
<1>15. RandomInv'
  <2>1. SUFFICES ASSUME method = "random_head" PROVE RandomInv'
    BY <1>5 DEF RandomInv
  <2>2. server'.status = {"sent", "recv"} /\ server'.status # {}
    BY <1>3, <2>1
  <2>3. ~plain => client'.status = {"sent", "recv", "open"} /\ client'.status # {} /\ "open" \in client'.status
    BY <1>2, <2>1 DEF ClientTurn
  <2>4. QED
    BY <1>5, <2>2, <2>3 DEF RandomInv
<1>16. UpInv'
  <2>1. SUFFICES ASSUME ~refused["server"]
                 PROVE  sent["server"] = out["server"] \o DataOf(Held(server)) \o DataOf(wire'["server"])
                                            \o DataOf(client'.send_buffer)
    BY <1>5, <1>8 DEF UpInv
  <2> DEFINE o == out["server"]
             h == DataOf(Held(server))
             u == DataOf(wire["server"])
             b == DataOf(client.send_buffer)
             k == DataOf(client'.send_buffer)
             d == DataOf(c)
             x == Cat(o, h)
             s == <<>>
  <2>2. o \in Streams /\ h \in Streams /\ u \in Streams /\ b \in Streams /\ k \in Streams /\ d \in Streams
    <3>1. Held(server) \in Seq(Cells)
      BY <1>1, PluginParts DEF Held, ObfsTypes
    <3>2. QED
      BY <1>1, <1>3, <1>6, <3>1, DataType, PluginParts, StreamTypes DEF Streams
  <2>3. Cat(d, k) = b
    BY <1>2 DEF ClientTurn, Cat
  <2>4. sent["server"] = Cat(Cat(Cat(o, h), u), b)
    BY <1>1, <2>1 DEF UpInv, Cat
  <2>5. DataOf(wire'["server"]) = Cat(u, d)
    BY ZenonT(30), <1>2, <1>6, DataConcat DEF Cat
  <2> HIDE DEF o, h, u, b, k, d
  <2>6. sent["server"] = Cat(Cat(Cat(o, h), Cat(u, d)), k)
    <3>1. x \in Streams /\ s \in Streams /\ Cat(b, s) = b /\ Cat(Cat(Cat(x, u), b), s) = Cat(Cat(x, u), b)
      BY <2>2, CatLaws
    <3> HIDE DEF x, s
    <3>2. Cat(Cat(Cat(x, u), b), s) = Cat(Cat(x, Cat(u, d)), k)
      BY SMTT(30), <2>2, <2>3, <3>1, WrittenBehind
    <3>3. QED
      BY <2>4, <3>1, <3>2 DEF x
  <2>7. QED
    BY <2>5, <2>6 DEF o, h, k, Cat
<1>17. DownInv'
  <2>1. SUFFICES ASSUME ~refused'["client"], ~Lost'
                 PROVE  sent["client"] = out'["client"] \o DataOf(client'.recv_buffer) \o DataOf(wire'["client"])
    BY DEF DownInv
  <2>2. ~refused["client"] /\ out'["client"] = out["client"] \o DataOf(r.up)
    BY <1>8, <2>1
  <2>3. client'.recv_buffer = r.p.recv_buffer /\ (Blind(client') <=> Blind(r.p))
    BY <1>2 DEF ClientTurn
  <2>4. ASSUME BlankAhead(D) PROVE BlankAhead(W)
    <3>1. PICK i \in 2 .. Len(D) : D[i - 1].t = "crlf" /\ D[i].t = "crlf2"
      BY <2>4 DEF BlankAhead
    <3>2. Len(D) = Len(W) - n /\ \A j \in 1 .. Len(W) - n : D[j] = W[n + j]
      BY <1>6, DataSplit DEF D
    <3>3. Len(W) \in Nat /\ n \in Nat
      BY <1>6
    <3>4. /\ i - 1 \in 1 .. Len(W) - n /\ i \in 1 .. Len(W) - n /\ n + i \in 2 .. Len(W)
          /\ n + (i - 1) = (n + i) - 1
      BY <3>2, <3>3
    <3>5. W[(n + i) - 1].t = "crlf" /\ W[n + i].t = "crlf2"
      BY <3>1, <3>2, <3>4
    <3>6. QED
      BY <3>4, <3>5 DEF BlankAhead
  <2>5. ASSUME BlankAhead(chunk) PROVE BlankAhead(W)
    <3>1. PICK i \in 2 .. Len(chunk) : chunk[i - 1].t = "crlf" /\ chunk[i].t = "crlf2"
      BY <2>5 DEF BlankAhead
    <3>2. Len(chunk) = n /\ \A j \in 1 .. n : chunk[j] = W[j]
      BY <1>6, DataSplit DEF chunk
    <3>3. i - 1 \in 1 .. n /\ i \in 1 .. n /\ i \in 2 .. Len(W)
      BY <1>6, <3>2
    <3>4. QED
      BY <3>1, <3>2, <3>3 DEF BlankAhead
  <2>6. Blind(client') => BlankAhead(D)
    BY <1>2, <1>3, <1>5, <2>1 DEF Lost, Blind, BlankAhead
  <2>7. ~Lost
    <3>1. CASE Blind(client')
      BY <2>4, <2>6, <3>1 DEF Lost, W
    <3>2. CASE ~Blind(client')
      <4>1. Blind(client) => BlankAhead(chunk)
        BY <1>2, <1>4, <2>3, <3>2 DEF ClientDecoding
      <4>2. QED
        BY <2>5, <4>1 DEF Lost, Blind, W
    <3>3. QED
      BY <3>1, <3>2
  <2>8. DataOf(r.up) \o DataOf(client'.recv_buffer) = DataOf(client.recv_buffer) \o DataOf(chunk)
    <3>1. CASE ~Blind(client')
      BY <1>2, <1>4, <2>3, <3>1 DEF ClientDecoding
    <3>2. CASE Blind(client')
      <4>1. Blind(client) /\ r.up = <<>> /\ method = "http" /\ ~plain
        BY <1>2, <1>4, <2>3, <3>2 DEF ClientDecoding, Blind
      <4>2. client'.recv_buffer = <<>> /\ client.recv_buffer = <<>>
        BY <1>2, <1>3, <4>1 DEF ClientTurn, ClientReady
      <4>3. Has(D, Response)
        <5>1. PICK i \in 2 .. Len(D) : D[i].t = "crlf2"
          BY <2>6, <3>2 DEF BlankAhead
        <5>2. i \in 1 .. Len(D) /\ D[i].t \in Response
          BY <5>1 DEF Response
        <5>3. QED
          BY <5>2 DEF Has
      <4>4. \A i \in 1 .. n : W[i].t \in Response
        BY <1>1, <1>6, <4>1, <4>3, FirstSplit DEF HttpInv, D, W
      <4>5. Response \cap Carriers = {}
        BY DEF Response, Carriers
      <4>6. DataOf(chunk) = <<>>
        BY <1>6, <4>4, <4>5, PartsNoData DEF chunk
      <4>7. QED
        BY <4>1, <4>2, <4>6, DataEmpty
    <3>3. QED
      BY <3>1, <3>2
  <2> DEFINE o == out["client"]
             h == DataOf(client.recv_buffer)
             u == DataOf(chunk)
             d == DataOf(D)
             x == DataOf(r.up)
             k == DataOf(client'.recv_buffer)
  <2>9. o \in Streams /\ h \in Streams /\ u \in Streams /\ d \in Streams /\ x \in Streams /\ k \in Streams
    BY <1>1, <1>3, <1>6, <1>7, DataType, PluginParts, StreamTypes DEF Streams
  <2>10. sent["client"] = Cat(Cat(o, h), Cat(u, d)) /\ Cat(x, k) = Cat(h, u)
    BY <1>1, <1>7, <2>2, <2>7, <2>8 DEF DownInv, Cat, W
  <2>11. out'["client"] = Cat(o, x) /\ DataOf(wire'["client"]) = d
    BY <1>2, <2>2 DEF Cat
  <2> HIDE DEF o, h, u, d, x, k
  <2>12. sent["client"] = Cat(Cat(Cat(o, x), k), d)
    BY <2>9, <2>10, Delivers
  <2>13. QED
    BY <2>11, <2>12 DEF Cat, k
<1>18. QED
  BY <1>10, <1>11, <1>13, <1>14, <1>15, <1>16, <1>17 DEF ObfsInv

LEMMA ClientReceiveStep ==
    ASSUME ObfsInv, ClientReceive
    PROVE  ObfsInv'
<1>1. "client" \in Ends
  BY DEF Ends
<1>2. QED
  BY <1>1, ClientReceiveCases, Raised, ClientTakesStep

ServerTurn(p, chunk, r, c, q) ==
    /\ q \in Plugins /\ ServerReady(q) /\ c \in Seq(Cells) /\ r.up \in Seq(Cells)
    /\ DataOf(r.up) \o DataOf(Held(q)) = DataOf(Held(p)) \o DataOf(chunk)
    /\ DataOf(c) = <<>>
    /\ r.st \in {"junk", "pass"} => Unopened(p)
    /\ Unopened(q) => Unopened(p) /\ r.up = <<>>
    /\ ~Has(chunk, Heads) => ~Has(r.up, Heads)
    /\ method # "random_head" => ~Has(c, Heads)
    /\ method = "http" => c = <<>> /\ ("sent" \in p.status => "sent" \in q.status)
    /\ method = "random_head" =>
          /\ q.status = {"sent", "recv"} /\ r.up \in {chunk, <<>>}
          /\ c = <<>> \/ (c = RandomReply /\ "recv" \notin p.status /\ Has(chunk, Heads))

LEMMA ServerTurns ==
    ASSUME ObfsTypes, NEW p \in Plugins, NEW chunk \in Seq(Cells), ServerReady(p),
           method # "random_head" => ~Has(chunk, Heads),
           method = "random_head" => p.status \in {{}, {"sent", "recv"}}, NEW suits \in BOOLEAN,
           NEW r, r = server_decode(p, chunk, suits), r.st # "raise",
           NEW e, e = server_encode(r.p, <<>>)
    PROVE  ServerTurn(p, chunk, r, IF r.back THEN e.cells ELSE <<>>, IF r.back THEN e.p ELSE r.p)
<1>1. ServerDecoding(p, chunk, r)
  BY ServerDecodes
<1>2. /\ r.p \in Plugins /\ r.up \in Seq(Cells) /\ r.back \in BOOLEAN
      /\ DataOf(r.up) \o DataOf(Held(r.p)) = DataOf(Held(p)) \o DataOf(chunk)
      /\ r.st \in {"junk", "pass"} => Unopened(p)
      /\ Unopened(r.p) => Unopened(p) /\ r.up = <<>>
      /\ ~Has(chunk, Heads) => ~Has(r.up, Heads)
      /\ method = "http" => ~r.back /\ ("sent" \in p.status => "sent" \in r.p.status)
      /\ method = "tls" /\ -1 \in r.p.status => r.p.status \cap {1, 4} = {}
  BY <1>1 DEF ServerDecoding
<1>3. <<>> \in Seq(Cells) /\ ~Has(<<>>, Heads) /\ <<>> \in Units /\ DataOf(<<>>) = <<>>
  BY NothingCarried DEF Carries, Units
<1>4. ServerReady(r.p)
  BY <1>1, <1>2, <1>3 DEF ServerReady, ServerDecoding
<1>5. ASSUME method = "random_head"
      PROVE  /\ r.up \in {chunk, <<>>}
             /\ ~r.back => r.p.status = {"sent", "recv"}
             /\ r.back => r.p.status = {"recv"} /\ "recv" \notin p.status /\ Has(chunk, Heads)
  <2>1. CASE "recv" \in p.status
    <3>1. r.p = p /\ r.up = chunk /\ ~r.back
      BY <1>1, <1>5, <2>1 DEF ServerDecoding
    <3>2. QED
      BY <1>5, <2>1, <3>1
  <2>2. CASE "recv" \notin p.status
    <3>1. p.status = {} /\ p.status \cup {"recv"} = {"recv"}
      BY <1>5, <2>2
    <3>2. \/ r.back /\ r.up = <<>> /\ r.p.status = p.status \cup {"recv"} /\ Has(chunk, Heads)
          \/ ~r.back /\ r.up = chunk /\ r.p.status = {"sent", "recv"}
      BY <1>1, <1>5, <2>2 DEF ServerDecoding
    <3>3. QED
      BY <2>2, <3>1, <3>2
  <2>3. QED
    BY <2>1, <2>2
<1>6. CASE ~r.back
  <2>1. ServerTurn(p, chunk, r, <<>>, r.p)
    BY <1>2, <1>3, <1>4, <1>5, <1>6 DEF ServerTurn
  <2>2. QED
    BY <1>6, <2>1
<1>7. CASE r.back
  <2>1. ServerEncoding(r.p, <<>>, e)
    BY <1>2, <1>3, ServerEncodes
  <2>2. method # "http"
    BY <1>2, <1>7
  <2>3. /\ e.p \in Plugins /\ e.p.recv_buffer = r.p.recv_buffer /\ e.cells \in Seq(Cells)
        /\ method = "tls" => \A i \in {-1, 1, 4} : i \in e.p.status <=> i \in r.p.status
        /\ method # "tls" => e.p.status = r.p.status \cup {"sent"}
    BY <2>1 DEF ServerEncoding
  <2>4. ServerReady(e.p)
    <3>1. method = "tls" /\ -1 \in e.p.status => e.p.status \cap {1, 4} = {}
      BY <1>2, <2>3
    <3>2. QED
      BY <1>4, <2>3, <3>1 DEF ServerReady
  <2>5. Held(e.p) = Held(r.p) /\ (Unopened(e.p) <=> Unopened(r.p))
    <3>1. Held(e.p) = Held(r.p)
      BY <2>3 DEF Held
    <3>2. Unopened(e.p) <=> Unopened(r.p)
      BY <2>3 DEF Unopened
    <3>3. QED
      BY <3>1, <3>2
  <2>6. DataOf(e.cells) = <<>> /\ (method # "random_head" => ~Has(e.cells, Heads))
    BY <2>1, RandomMessages DEF ServerEncoding
  <2>7. ASSUME method = "random_head"
        PROVE  /\ e.p.status = {"sent", "recv"} /\ e.cells = RandomReply
    <3>1. r.p.status = {"recv"} /\ "sent" \notin r.p.status
      BY <1>5, <1>7, <2>7
    <3>2. e = Encoded([r.p EXCEPT !.status = @ \cup {"sent"}], RandomReply)
      BY <2>7, <3>1 DEF server_encode, RandomServerEncode
    <3>3. e.cells = RandomReply
      BY <3>2 DEF Encoded
    <3>4. e.p.status = {"sent", "recv"}
      BY <2>3, <2>7, <3>1
    <3>5. QED
      BY <3>3, <3>4
  <2>8. ServerTurn(p, chunk, r, e.cells, e.p)
    BY <1>2, <1>5, <1>7, <2>2, <2>3, <2>4, <2>5, <2>6, <2>7 DEF ServerTurn
  <2>9. QED
    BY <1>7, <2>8
<1>8. QED
  BY <1>2, <1>6, <1>7

LEMMA ServerChunk ==
    ASSUME ObfsInv, ~dead, NEW n \in 1 .. Len(wire["server"])
    PROVE  /\ SubSeq(wire["server"], 1, n) \in Seq(Cells)
           /\ ServerReady(server) /\ server \in Plugins
           /\ method # "random_head" => ~Has(SubSeq(wire["server"], 1, n), Heads)
           /\ method = "random_head" => server.status \in {{}, {"sent", "recv"}}
           /\ method = "random_head" /\ ~plain => client.status \in {{"sent"}, {"sent", "recv", "open"}}
<1> DEFINE W == wire["server"]
           chunk == SubSeq(W, 1, n)
<1>1. ObfsTypes /\ EndsInv /\ HeadInv /\ RandomInv /\ "server" \in Ends
  BY DEF ObfsInv, Ends
<1>2. W \in Seq(Cells)
  BY <1>1, StreamTypes
<1>3. n \in 0 .. Len(W) /\ W # <<>>
  BY <1>2
<1> HIDE DEF W
<1>4. chunk \in Seq(Cells) /\ (Has(chunk, Heads) => Has(W, Heads))
  BY <1>2, <1>3, DataSplit, HasSplit
<1>5. ServerReady(server) /\ server \in Plugins
  BY <1>1 DEF EndsInv, ObfsTypes
<1>6. method # "random_head" => ~Has(chunk, Heads)
  BY <1>1, <1>4 DEF HeadInv, W
<1>7. method = "random_head" => server.status \in {{}, {"sent", "recv"}}
  BY <1>1 DEF RandomInv
<1>8. method = "random_head" /\ ~plain => client.status \in {{"sent"}, {"sent", "recv", "open"}}
  BY <1>1, <1>3 DEF RandomInv, W
<1>9. QED
  BY <1>4, <1>5, <1>6, <1>7, <1>8 DEF W

\* A chunk of n cells is received by the server and does not raise.
ServerTakes(n, r, c) ==
    /\ n \in 1 .. Len(wire["server"])
    /\ r.st # "raise"
    /\ ServerTurn(server, SubSeq(wire["server"], 1, n), r, c, server')
    /\ wire' \in [Ends -> Seq(Cells)]
    /\ wire'["server"] = Drop(wire["server"], n) /\ wire'["client"] = wire["client"] \o c
    /\ HandUp("server", r) /\ UNCHANGED dead

LEMMA ServerReceiveCases ==
    ASSUME ObfsInv, ServerReceive
    PROVE  /\ ~dead /\ UNCHANGED config /\ client' = client /\ sent' = sent
           /\ \/ /\ dead' = TRUE /\ UNCHANGED <<server, out, refused>>
                 /\ \E n \in 0 .. Len(wire["server"]) :
                       wire' = [wire EXCEPT !["server"] = Drop(wire["server"], n)]
              \/ \E n, r, c : ServerTakes(n, r, c)
<1>1. ~dead /\ UNCHANGED config /\ client' = client /\ sent' = sent
  BY DEF ServerReceive
<1> DEFINE R(n, suits) == server_decode(server, SubSeq(wire["server"], 1, n), suits)
           Left(n) == [wire EXCEPT !["server"] = Drop(wire["server"], n)]
           E(n, suits) == server_encode(R(n, suits).p, <<>>)
<1>2. PICK n \in 1 .. Len(wire["server"]), suits \in BOOLEAN :
          IF R(n, suits).st = "raise"
          THEN dead' = TRUE /\ wire' = Left(n) /\ UNCHANGED <<server, out, refused>>
          ELSE /\ server' = IF R(n, suits).back THEN E(n, suits).p ELSE R(n, suits).p
               /\ wire' = IF R(n, suits).back THEN [Left(n) EXCEPT !["client"] = @ \o E(n, suits).cells]
                          ELSE Left(n)
               /\ HandUp("server", R(n, suits))
               /\ UNCHANGED dead
  BY DEF ServerReceive
<1> DEFINE r == R(n, suits)
           e == E(n, suits)
           c == IF r.back THEN e.cells ELSE <<>>
           chunk == SubSeq(wire["server"], 1, n)
<1>3. ObfsTypes /\ "client" \in Ends /\ "server" \in Ends /\ wire \in [Ends -> Seq(Cells)]
  BY DEF ObfsInv, Ends, ObfsTypes
<1>4. n \in 0 .. Len(wire["server"])
  BY <1>2
<1>5. CASE r.st = "raise"
  BY <1>1, <1>2, <1>4, <1>5
<1>6. CASE r.st # "raise"
  <2>1. /\ chunk \in Seq(Cells) /\ ServerReady(server) /\ server \in Plugins
        /\ method # "random_head" => ~Has(chunk, Heads)
        /\ method = "random_head" => server.status \in {{}, {"sent", "recv"}}
    BY <1>1, ServerChunk
  <2>2. /\ r = server_decode(server, chunk, suits) /\ e = server_encode(r.p, <<>>)
        /\ server' = IF r.back THEN e.p ELSE r.p
        /\ Answering("server", "client", n, r.back, e.cells)
        /\ HandUp("server", r) /\ UNCHANGED dead
    BY <1>2, <1>6 DEF Answering
  <2> HIDE DEF r, e, chunk
  <2>3. ServerTurn(server, chunk, r, c, server')
    BY <1>3, <1>6, <2>1, <2>2, ServerTurns
  <2>4. r.back \in BOOLEAN
    BY <1>3, <1>6, <2>1, <2>2, ServerDecodes DEF ServerDecoding
  <2>5. c \in Seq(Cells)
    BY <2>3 DEF ServerTurn
  <2>6. Answered("server", "client", n, c)
    BY <1>3, <1>4, <2>2, <2>4, <2>5, TakenAndAnswered
  <2>7. ServerTakes(n, r, c)
    BY <1>2, <1>6, <2>2, <2>3, <2>6 DEF ServerTakes, Answered, chunk
  <2>8. QED
    BY <1>1, <2>7
<1>7. QED
  BY <1>5, <1>6

LEMMA ServerTakesStep ==
    ASSUME ObfsInv, ~dead, UNCHANGED config, client' = client, sent' = sent,
           NEW n, NEW r, NEW c, ServerTakes(n, r, c)
    PROVE  ObfsInv'
<1> DEFINE W == wire["server"]
           V == wire["client"]
           chunk == SubSeq(W, 1, n)
           D == Drop(W, n)
<1>1. /\ ObfsTypes /\ EndsInv /\ HeadInv /\ HttpInv /\ RandomInv /\ UpInv /\ DownInv
      /\ "server" \in Ends /\ "client" \in Ends /\ "client" # "server"
      /\ \A x \in Ends : x = "server" \/ x = "client"
  BY DEF ObfsInv, Ends
<1>2. /\ n \in 1 .. Len(W) /\ ServerTurn(server, chunk, r, c, server')
      /\ wire' \in [Ends -> Seq(Cells)]
      /\ wire'["server"] = D /\ wire'["client"] = V \o c
      /\ HandUp("server", r) /\ dead' = dead
  BY DEF ServerTakes
<1>3. /\ server \in Plugins
      /\ method = "random_head" => server.status \in {{}, {"sent", "recv"}}
      /\ method = "random_head" /\ ~plain => client.status \in {{"sent"}, {"sent", "recv", "open"}}
  BY <1>2, ServerChunk
<1>4. /\ server' \in Plugins /\ ServerReady(server') /\ c \in Seq(Cells) /\ r.up \in Seq(Cells)
      /\ DataOf(r.up) \o DataOf(Held(server')) = DataOf(Held(server)) \o DataOf(chunk)
      /\ DataOf(c) = <<>>
      /\ Unopened(server') => Unopened(server) /\ r.up = <<>>
      /\ method # "random_head" => ~Has(c, Heads)
      /\ method = "http" => c = <<>> /\ ("sent" \in server.status => "sent" \in server'.status)
      /\ method = "random_head" =>
            /\ server'.status = {"sent", "recv"} /\ r.up \in {chunk, <<>>}
            /\ c = <<>> \/ (c = RandomReply /\ "recv" \notin server.status /\ Has(chunk, Heads))
  BY <1>2 DEF ServerTurn
<1>5. /\ method' = method /\ plain' = plain /\ compatible' = compatible /\ Plugins' = Plugins
      /\ ClientReady(client') => ClientReady(client)'
      /\ ServerReady(server') => ServerReady(server)'
      /\ Unopened(server)' <=> Unopened(server')
      /\ Held(server)' = Held(server')
  BY ConfigKept
<1>6. W \in Seq(Cells) /\ V \in Seq(Cells) /\ n \in 0 .. Len(W) /\ n > 0
  <2>1. W \in Seq(Cells) /\ V \in Seq(Cells)
    BY <1>1, StreamTypes
  <2>2. QED
    BY <1>2, <2>1
<1>7. /\ chunk \in Seq(Cells) /\ D \in Seq(Cells) /\ DataOf(chunk) \o DataOf(D) = DataOf(W)
      /\ Has(W, Heads) <=> Has(chunk, Heads) \/ Has(D, Heads)
      /\ NoData(W) => NoData(chunk) /\ NoData(D)
  BY <1>6, DataSplit, HasSplit
<1>8. /\ out' \in [Ends -> Seq(Nat)] /\ refused' \in [Ends -> BOOLEAN]
      /\ out'["client"] = out["client"] /\ refused'["client"] = refused["client"]
      /\ Alien(r) => refused'["server"] /\ out'["server"] = out["server"]
      /\ ~Alien(r) => /\ refused'["server"] = refused["server"]
                      /\ out'["server"] = IF refused["server"] THEN out["server"]
                                          ELSE out["server"] \o DataOf(r.up)
  BY <1>1, <1>2, <1>4, HandsUp
<1>9. /\ r.up = <<>> => out'["server"] = out["server"]
      /\ DataOf(r.up) = <<>> => out'["server"] = out["server"]
  <2>1. out["server"] \in Seq(Nat) /\ DataOf(<<>>) = <<>>
    BY <1>1, StreamTypes, DataEmpty
  <2>2. out["server"] \o <<>> = out["server"]
    BY <2>1, NatConcat
  <2>3. QED
    BY <1>8, <2>1, <2>2
<1> HIDE DEF W, V, chunk, D
<1>10. ObfsTypes'
  BY <1>1, <1>2, <1>4, <1>5, <1>8 DEF ObfsTypes
<1>11. EndsInv'
  <2>1. ClientReady(client')
    BY <1>1 DEF EndsInv
  <2>2. Unopened(server') => out'["server"] = <<>>
    BY <1>1, <1>4, <1>9 DEF EndsInv
  <2>3. QED
    BY <1>4, <1>5, <2>1, <2>2 DEF EndsInv
<1>12. First(D, Heads) /\ (Has(D, Heads) => out'["server"] = <<>>)
  <2>1. First(W, Heads) /\ (Has(W, Heads) => out["server"] = <<>>)
    BY <1>1 DEF HeadInv, W
  <2>2. First(D, Heads) /\ (Has(D, Heads) => \A i \in 1 .. n : W[i].t \in Heads)
    BY <1>6, <2>1, FirstSplit DEF D
  <2>3. ASSUME Has(D, Heads) PROVE out'["server"] = <<>>
    <3>1. out["server"] = <<>> /\ method = "random_head"
      BY <1>1, <1>7, <2>1, <2>3 DEF HeadInv, W
    <3>2. Heads \cap Carriers = {}
      BY DEF Heads, Carriers
    <3>3. DataOf(chunk) = <<>>
      BY <1>6, <2>2, <2>3, <3>2, PartsNoData DEF chunk
    <3>4. QED
      BY <1>4, <1>9, <3>1, <3>3
  <2>4. QED
    BY <2>2, <2>3
<1>13. ASSUME method = "random_head", c # <<>>
       PROVE  c = RandomReply /\ V = <<>> /\ out["client"] = <<>> /\ V \o c = c
  <2>1. c = RandomReply /\ server.status = {}
    BY <1>3, <1>4, <1>13
  <2>2. V = <<>> /\ out["client"] = <<>>
    BY <1>1, <1>13, <2>1 DEF RandomInv, V
  <2>3. V \o c = c
    BY <1>4, <2>2
  <2>4. QED
    BY <2>1, <2>2, <2>3
<1>14. c = <<>> => V \o c = V
  BY <1>6
<1>15. First(V \o c, Heads) /\ (Has(V \o c, Heads) => out["client"] = <<>>)
  <2>1. First(V, Heads) /\ (Has(V, Heads) => out["client"] = <<>>)
    BY <1>1 DEF HeadInv, V
  <2>2. CASE method # "random_head"
    BY <1>4, <1>6, <2>1, <2>2, FirstConcat, HasConcat
  <2>3. CASE method = "random_head"
    BY <1>13, <1>14, <2>1, <2>3, RandomMessages
  <2>4. QED
    BY <2>2, <2>3
<1>16. HeadInv'
  <2>1. \A x \in Ends : First(wire'[x], Heads) /\ (Has(wire'[x], Heads) => out'[x] = <<>>)
    BY <1>1, <1>2, <1>8, <1>12, <1>15
  <2>2. ASSUME method # "random_head" \/ plain PROVE \A x \in Ends : ~Has(wire'[x], Heads)
    <3>1. ~Has(W, Heads) /\ ~Has(V, Heads)
      BY <1>1, <2>2 DEF HeadInv, W, V
    <3>2. ~Has(c, Heads)
      <4>1. CASE method # "random_head"
        BY <1>4, <4>1
      <4>2. CASE method = "random_head"
        <5>1. c = <<>>
          BY <1>4, <1>7, <3>1, <4>2
        <5>2. QED
          BY <5>1, NothingCarried DEF Carries
      <4>3. QED
        BY <4>1, <4>2
    <3>3. ~Has(V \o c, Heads)
      BY <1>4, <1>6, <3>1, <3>2, HasConcat
    <3>4. QED
      BY <1>1, <1>2, <1>7, <3>1, <3>3
  <2>3. QED
    BY <1>5, <2>1, <2>2 DEF HeadInv
<1>17. HttpInv'
  <2>1. SUFFICES ASSUME method = "http" PROVE HttpInv'
    BY <1>5 DEF HttpInv
  <2>2. wire'["client"] = V
    BY <1>2, <1>4, <1>14, <2>1
  <2>3. QED
    BY <1>1, <1>4, <1>5, <1>8, <2>1, <2>2 DEF HttpInv, V
<1>18. RandomInv'
  <2>1. SUFFICES ASSUME method = "random_head" PROVE RandomInv'
    BY <1>5 DEF RandomInv
  <2>2. server'.status = {"sent", "recv"} /\ server'.status # {}
    BY <1>4, <2>1
  <2>3. ASSUME ~plain
        PROVE  /\ client.status \in {{"sent"}, {"sent", "recv", "open"}}
               /\ "open" \notin client.status =>
                     /\ out'["server"] = <<>>
                     /\ \A x \in Ends : NoData(wire'[x])
    <3>1. client.status \in {{"sent"}, {"sent", "recv", "open"}}
      BY <1>3, <2>1, <2>3
    <3>2. ASSUME "open" \notin client.status
          PROVE  out'["server"] = <<>> /\ \A x \in Ends : NoData(wire'[x])
      <4>1. out["server"] = <<>> /\ NoData(W) /\ NoData(V)
        BY <1>1, <2>1, <2>3, <3>2 DEF RandomInv, W, V
      <4>2. DataOf(chunk) = <<>>
        BY <1>7, <4>1, DataNone
      <4>3. out'["server"] = <<>>
        BY <1>4, <1>9, <2>1, <4>1, <4>2
      <4>4. NoData(V \o c)
        BY <1>13, <1>14, <2>1, <4>1, RandomMessages
      <4>5. QED
        BY <1>1, <1>2, <1>7, <4>1, <4>3, <4>4
    <3>3. QED
      BY <3>1, <3>2
  <2>4. client.status \in {{"sent"}, {"sent", "recv", "open"}} => client.status # {}
    OBVIOUS
  <2>5. QED
    BY <1>5, <2>2, <2>3, <2>4 DEF RandomInv
<1>19. UpInv'
  <2>1. SUFFICES ASSUME ~refused'["server"]
                 PROVE  sent["server"] = out'["server"] \o DataOf(Held(server')) \o DataOf(wire'["server"])
                                            \o DataOf(client.send_buffer)
    BY <1>5 DEF UpInv
  <2>2. ~refused["server"] /\ out'["server"] = out["server"] \o DataOf(r.up)
    BY <1>8, <2>1
  <2> DEFINE o == out["server"]
             h == DataOf(Held(server))
             u == DataOf(chunk)
             d == DataOf(D)
             x == DataOf(r.up)
             k == DataOf(Held(server'))
             b == DataOf(client.send_buffer)
  <2>3. /\ o \in Streams /\ h \in Streams /\ u \in Streams /\ d \in Streams
        /\ x \in Streams /\ k \in Streams /\ b \in Streams
    <3>1. Held(server) \in Seq(Cells) /\ Held(server') \in Seq(Cells)
      BY <1>3, <1>4, PluginParts DEF Held
    <3>2. client \in Plugins
      BY <1>1 DEF ObfsTypes
    <3>3. QED
      BY <1>1, <1>4, <1>7, <3>1, <3>2, DataType, PluginParts, StreamTypes DEF Streams
  <2>4. sent["server"] = Cat(Cat(Cat(o, h), Cat(u, d)), b) /\ Cat(x, k) = Cat(h, u)
    BY <1>1, <1>4, <1>7, <2>2 DEF UpInv, Cat, W
  <2>5. out'["server"] = Cat(o, x) /\ DataOf(wire'["server"]) = d
    BY <1>2, <2>2 DEF Cat
  <2> HIDE DEF o, h, u, d, x, k, b
  <2>6. sent["server"] = Cat(Cat(Cat(Cat(o, x), k), d), b)
    <3>1. Cat(Cat(o, h), Cat(u, d)) = Cat(Cat(Cat(o, x), k), d)
      BY <2>3, <2>4, Delivers
    <3>2. QED
      BY <2>4, <3>1
  <2>7. QED
    BY <2>5, <2>6 DEF Cat, k, b
<1>20. DownInv'
  <2>1. SUFFICES ASSUME ~refused["client"], ~Lost'
                 PROVE  sent["client"] = out["client"] \o DataOf(client.recv_buffer) \o DataOf(wire'["client"])
    BY <1>8 DEF DownInv
  <2>2. ~Lost
    <3>1. method = "http" => wire'["client"] = V
      BY <1>2, <1>4, <1>14
    <3>2. QED
      BY <1>4, <1>5, <2>1, <3>1 DEF Lost, BlankAhead, V
  <2>3. DataOf(V \o c) = DataOf(V)
    <3>1. DataOf(V \o c) = DataOf(V) \o DataOf(c) /\ DataOf(V) \in Seq(Nat)
      BY <1>4, <1>6, DataConcat, DataType
    <3>2. QED
      BY <1>4, <3>1, NatConcat
  <2>4. QED
    BY <1>1, <1>2, <2>1, <2>2, <2>3 DEF DownInv, V
<1>21. QED
  BY <1>10, <1>11, <1>16, <1>17, <1>18, <1>19, <1>20 DEF ObfsInv

LEMMA ServerReceiveStep ==
    ASSUME ObfsInv, ServerReceive
    PROVE  ObfsInv'
<1>1. "server" \in Ends
  BY DEF Ends
<1>2. QED
  BY <1>1, ServerReceiveCases, Raised, ServerTakesStep

\* A damaged cell is of the same part, with the same data.
LEMMA DamagedSame ==
    ASSUME NEW a \in Seq(Cells), NEW b \in Seq(Cells), Len(a) = Len(b),
           \A i \in 1 .. Len(a) : a[i].t = b[i].t /\ a[i].d = b[i].d
    PROVE  /\ DataOf(b) = DataOf(a) /\ (BlankAhead(b) <=> BlankAhead(a))
           /\ NoData(b) <=> NoData(a)
           /\ \A P : (Has(b, P) <=> Has(a, P)) /\ (First(b, P) <=> First(a, P))
<1>1. DataOf(b) = DataOf(a)
  BY DataSame
<1>2. BlankAhead(b) <=> BlankAhead(a)
  <2>1. Len(a) \in Nat
    OBVIOUS
  <2>2. \A i \in 2 .. Len(a) : i - 1 \in 1 .. Len(a) /\ i \in 1 .. Len(a)
    BY <2>1
  <2>3. QED
    BY <2>2 DEF BlankAhead
<1>3. NoData(b) <=> NoData(a)
  BY DEF NoData
<1>4. ASSUME NEW P PROVE (Has(b, P) <=> Has(a, P)) /\ (First(b, P) <=> First(a, P))
  BY DEF Has, First
<1>5. QED
  BY <1>1, <1>2, <1>3, <1>4

LEMMA DamageStep ==
    ASSUME ObfsInv, NEW x \in Ends, Damage(x)
    PROVE  ObfsInv'
<1>1. /\ ~dead /\ UNCHANGED <<config, client, server, sent, out, refused, dead>>
      /\ \E i \in DOMAIN wire[x] : wire' = [wire EXCEPT ![x][i].ok = FALSE]
  BY DEF Damage
<1>2. ObfsTypes /\ EndsInv /\ HeadInv /\ HttpInv /\ RandomInv /\ UpInv /\ DownInv
  BY <1>1 DEF ObfsInv
<1>3. PICK i \in DOMAIN wire[x] : wire' = [wire EXCEPT ![x][i].ok = FALSE]
  BY <1>1
<1> DEFINE a == wire[x]
           m == [a[i] EXCEPT !.ok = FALSE]
           b == [a EXCEPT ![i] = m]
<1>4. a \in Seq(Cells) /\ i \in 1 .. Len(a)
  BY <1>2, <1>3 DEF ObfsTypes
<1>5. m \in Cells /\ m.t = a[i].t /\ m.d = a[i].d
  <2>1. a[i] \in Cells
    BY <1>4
  <2>2. QED
    BY <2>1 DEF Cells
<1> HIDE DEF m
<1>6. /\ b \in Seq(Cells) /\ Len(b) = Len(a)
      /\ \A j \in 1 .. Len(a) : b[j].t = a[j].t /\ b[j].d = a[j].d
  BY <1>4, <1>5
<1>7. wire \in [Ends -> Seq(Cells)] /\ wire' = [wire EXCEPT ![x] = b]
  BY <1>2, <1>3 DEF ObfsTypes, m
<1> HIDE DEF b
<1>8. wire' \in [Ends -> Seq(Cells)] /\ wire'[x] = b /\ \A y \in Ends : y # x => wire'[y] = wire[y]
  BY <1>6, <1>7, PutAt
<1>9. \A y \in Ends :
        /\ DataOf(wire'[y]) = DataOf(wire[y]) /\ (BlankAhead(wire'[y]) <=> BlankAhead(wire[y]))
        /\ NoData(wire'[y]) <=> NoData(wire[y])
        /\ \A P : (Has(wire'[y], P) <=> Has(wire[y], P)) /\ (First(wire'[y], P) <=> First(wire[y], P))
        /\ wire[y] = <<>> => wire'[y] = <<>>
  <2> TAKE y \in Ends
  <2>1. CASE y = x
    <3>1. /\ DataOf(b) = DataOf(a) /\ (BlankAhead(b) <=> BlankAhead(a))
          /\ NoData(b) <=> NoData(a)
          /\ \A P : (Has(b, P) <=> Has(a, P)) /\ (First(b, P) <=> First(a, P))
      BY <1>4, <1>6, DamagedSame
    <3>2. a # <<>>
      BY <1>4
    <3>3. QED
      BY <1>8, <2>1, <3>1, <3>2
  <2>2. CASE y # x
    BY <1>8, <2>2
  <2>3. QED
    BY <2>1, <2>2
<1>10. "server" \in Ends /\ "client" \in Ends
  BY DEF Ends
<1>11. /\ method' = method /\ plain' = plain /\ compatible' = compatible /\ Plugins' = Plugins
       /\ ClientReady(client') => ClientReady(client)'
       /\ ServerReady(server') => ServerReady(server)'
       /\ Unopened(server)' <=> Unopened(server')
       /\ Held(server)' = Held(server')
  BY <1>1, ConfigKept
<1>12. ObfsTypes'
  BY <1>1, <1>2, <1>8, <1>11 DEF ObfsTypes
<1>13. EndsInv'
  BY <1>1, <1>2, <1>11 DEF EndsInv
<1>14. HeadInv'
  BY <1>1, <1>2, <1>9, <1>11 DEF HeadInv
<1>15. HttpInv'
  BY <1>1, <1>2, <1>9, <1>10, <1>11 DEF HttpInv
<1>16. RandomInv'
  BY <1>1, <1>2, <1>9, <1>10, <1>11 DEF RandomInv
<1>17. UpInv'
  BY <1>1, <1>2, <1>9, <1>10, <1>11 DEF UpInv
<1>18. DownInv'
  <2>1. BlankAhead(wire["client"])' <=> BlankAhead(wire["client"])
    BY <1>9, <1>10 DEF BlankAhead
  <2>2. Lost' <=> Lost
    BY <1>1, <1>11, <2>1 DEF Lost
  <2>3. QED
    BY <1>1, <1>2, <1>9, <1>10, <2>2 DEF DownInv
<1>19. QED
  BY <1>12, <1>13, <1>14, <1>15, <1>16, <1>17, <1>18 DEF ObfsInv

LEMMA ObfsInitInv == Init => ObfsInv
<1> SUFFICES ASSUME Init PROVE ObfsInv
  OBVIOUS
<1>1. NewPlugin.status = {} /\ NewPlugin.send_buffer = <<>> /\ NewPlugin.recv_buffer = <<>>
  BY DEF NewPlugin
<1>2. NewPlugin \in Plugins
  BY DEF NewPlugin, Plugins
<1>3. client = NewPlugin /\ server = NewPlugin /\ "server" \in Ends /\ "client" \in Ends
  BY DEF Init, Ends
<1>4. /\ wire["server"] = <<>> /\ wire["client"] = <<>>
      /\ \A x \in Ends : wire[x] = <<>> /\ sent[x] = <<>> /\ out[x] = <<>> /\ ~refused[x]
  BY <1>3 DEF Init
<1>5. /\ \A P : ~Has(<<>>, P) /\ First(<<>>, P)
      /\ NoData(<<>>) /\ DataOf(<<>>) = <<>> /\ <<>> \o <<>> = <<>>
  <2>1. Len(<<>>) = 0 /\ 1 .. 0 = {}
    OBVIOUS
  <2>2. \A P : ~Has(<<>>, P) /\ First(<<>>, P)
    BY <2>1 DEF Has, First
  <2>3. NoData(<<>>)
    BY <2>1 DEF NoData
  <2>4. QED
    BY <2>2, <2>3, DataEmpty, NatConcat
<1>6. ObfsTypes
  <2>1. method \in {"tls", "http", "random_head"}
    BY MethodsAssumption DEF Init
  <2>2. wire \in [Ends -> Seq(Cells)] /\ sent \in [Ends -> Seq(Nat)] /\ out \in [Ends -> Seq(Nat)]
    BY DEF Init
  <2>3. QED
    BY <1>2, <2>1, <2>2 DEF Init, ObfsTypes
<1>7. EndsInv
  <2>1. ClientReady(client)
    BY <1>1, <1>3, <1>5 DEF ClientReady
  <2>2. ServerReady(server)
    BY <1>1, <1>3, <1>5 DEF ServerReady
  <2>3. QED
    BY <1>3, <1>4, <2>1, <2>2 DEF EndsInv
<1>8. HeadInv
  BY <1>4, <1>5 DEF HeadInv
<1>9. HttpInv
  BY <1>3, <1>4, <1>5 DEF HttpInv
<1>10. RandomInv
  BY <1>1, <1>3, <1>4, <1>5 DEF RandomInv
<1>11. UpInv /\ DownInv
  <2>1. Held(server) = <<>>
    BY <1>1, <1>3 DEF Held
  <2>2. QED
    BY <1>1, <1>3, <1>4, <1>5, <2>1 DEF UpInv, DownInv
<1>12. QED
  BY <1>6, <1>7, <1>8, <1>9, <1>10, <1>11 DEF ObfsInv

LEMMA ObfsStepInv == ObfsInv /\ [Next]_vars => ObfsInv'
<1> SUFFICES ASSUME ObfsInv, [Next]_vars PROVE ObfsInv'
  OBVIOUS
<1>1. CASE ClientWrite
  BY <1>1, ClientWriteStep
<1>2. CASE ServerWrite
  BY <1>2, ServerWriteStep
<1>3. CASE ClientReceive
  BY <1>3, ClientReceiveStep
<1>4. CASE ServerReceive
  BY <1>4, ServerReceiveStep
<1>5. CASE \E x \in Ends : Damage(x)
  BY <1>5, DamageStep
<1>6. CASE UNCHANGED vars
  <2>1. ObfsTypes'
    BY <1>6 DEF vars, config, ObfsInv, ObfsTypes, Plugins, Statuses
  <2>2. UNCHANGED config /\ UNCHANGED <<client, server, wire, sent, out, refused, dead>>
    BY <1>6 DEF vars
  <2>3. /\ method' = method /\ plain' = plain /\ compatible' = compatible
        /\ ClientReady(client') => ClientReady(client)'
        /\ ServerReady(server') => ServerReady(server)'
        /\ Unopened(server)' <=> Unopened(server')
        /\ Held(server)' = Held(server')
    BY <2>2, ConfigKept
  <2>4. ASSUME ~dead PROVE (EndsInv /\ HeadInv /\ HttpInv /\ RandomInv)'
    BY <2>2, <2>3, <2>4 DEF ObfsInv, EndsInv, HeadInv, HttpInv, RandomInv, First, Has, NoData
  <2>5. ASSUME ~dead PROVE (UpInv /\ DownInv)'
    BY <2>2, <2>3, <2>5 DEF ObfsInv, UpInv, DownInv, Lost, BlankAhead
  <2>6. QED
    BY <2>1, <2>2, <2>4, <2>5 DEF ObfsInv
<1>7. QED
  BY <1>1, <1>2, <1>3, <1>4, <1>5, <1>6 DEF Next

(* Nothing an end wrote is missing, doubled or out of place between what   *)
(* was handed up, what the other end holds back and what is on the wire:   *)
(* the conjuncts of ObfsInv, of the encode and decode methods of the       *)
(* plug-ins and the order in which the relay calls them.                   *)
THEOREM ObfsInvariant == Spec => []ObfsInv
BY ObfsInitInv, ObfsStepInv, PTL DEF Spec

-----------------------------------------------------------------------------
(* Each direction is a channel.                                            *)

\* What is at the front of a stream, in the words of SequencesExt.
LEMMA FrontOfStream ==
    ASSUME NEW s \in Seq(Nat), NEW t \in Seq(Nat)
    PROVE  ToServer!IsPrefix(s, s \o t) /\ ToClient!IsPrefix(s, s \o t)
<1>1. Len(s) <= Len(s \o t) /\ SubSeq(s, 1, Len(s)) = SubSeq(s \o t, 1, Len(s))
  OBVIOUS
<1>2. QED
  BY <1>1 DEF ToServer!IsPrefix, ToClient!IsPrefix

LEMMA StrictFrontOfStream ==
    ASSUME NEW s \in Seq(Nat), NEW t \in Seq(Nat), t # <<>>
    PROVE  ToServer!IsStrictPrefix(s, s \o t) /\ ToClient!IsStrictPrefix(s, s \o t)
<1>1. ToServer!IsPrefix(s, s \o t) /\ ToClient!IsPrefix(s, s \o t)
  BY FrontOfStream
<1>2. s # s \o t
  OBVIOUS
<1>3. QED
  BY <1>1, <1>2 DEF ToServer!IsStrictPrefix, ToClient!IsStrictPrefix

\* What is handed up is at the front of what was written.
LEMMA UpFront ==
    ASSUME ObfsInv, ~dead, ~refused["server"]
    PROVE  ToServer!IsPrefix(out["server"], sent["server"])
<1>1. ObfsTypes /\ UpInv /\ "server" \in Ends
  BY DEF ObfsInv, Ends
<1> DEFINE o == out["server"]
           h == DataOf(Held(server))
           u == DataOf(wire["server"])
           b == DataOf(client.send_buffer)
           t == Cat(h, Cat(u, b))
<1>2. o \in Streams /\ h \in Streams /\ u \in Streams /\ b \in Streams
  <2>1. client \in Plugins /\ server \in Plugins
    BY <1>1 DEF ObfsTypes
  <2>2. Held(server) \in Seq(Cells)
    BY <2>1, PluginParts DEF Held
  <2>3. QED
    BY <1>1, <2>1, <2>2, DataType, PluginParts, StreamTypes DEF Streams
<1>3. sent["server"] = Cat(Cat(Cat(o, h), u), b)
  BY <1>1 DEF UpInv, Cat
<1> HIDE DEF o, h, u, b
<1>4. t \in Streams /\ sent["server"] = Cat(o, t)
  BY <1>2, <1>3, CatLaws
<1> HIDE DEF t
<1>5. o \in Seq(Nat) /\ t \in Seq(Nat) /\ sent["server"] = o \o t
  BY <1>2, <1>4 DEF Streams, Cat
<1>6. QED
  BY <1>5, FrontOfStream DEF o

LEMMA DownFront ==
    ASSUME ObfsInv, ~dead, ~refused["client"], ~Lost
    PROVE  ToClient!IsPrefix(out["client"], sent["client"])
<1>1. ObfsTypes /\ DownInv /\ "client" \in Ends
  BY DEF ObfsInv, Ends
<1> DEFINE o == out["client"]
           h == DataOf(client.recv_buffer)
           u == DataOf(wire["client"])
           t == Cat(h, u)
<1>2. o \in Streams /\ h \in Streams /\ u \in Streams
  <2>1. client \in Plugins
    BY <1>1 DEF ObfsTypes
  <2>2. QED
    BY <1>1, <2>1, DataType, PluginParts, StreamTypes DEF Streams
<1>3. sent["client"] = Cat(Cat(o, h), u)
  BY <1>1 DEF DownInv, Cat
<1> HIDE DEF o, h, u
<1>4. t \in Streams /\ sent["client"] = Cat(o, t)
  BY <1>2, <1>3, CatLaws
<1> HIDE DEF t
<1>5. o \in Seq(Nat) /\ t \in Seq(Nat) /\ sent["client"] = o \o t
  BY <1>2, <1>4 DEF Streams, Cat
<1>6. QED
  BY <1>5, FrontOfStream DEF o

UpAhead == ~dead /\ ~refused["server"] => ToServer!IsPrefix(out["server"], sent["server"])
DownAhead == ~dead /\ ~refused["client"] /\ ~Lost => ToClient!IsPrefix(out["client"], sent["client"])

LEMMA StreamsAhead == ObfsInv => UpAhead /\ DownAhead
BY UpFront, DownFront DEF UpAhead, DownAhead

LEMMA ServerWriteChannel ==
    ASSUME ObfsInv, ClientWrite
    PROVE  ToServer!Write
<1>1. "server" \in Ends /\ ObfsTypes
  BY DEF ObfsInv, Ends
<1> DEFINE s == sent["server"]
           t == Fresh("server")
<1>2. s \in Seq(Nat) /\ t \in Seq(Nat)
  BY <1>1, StreamTypes
<1>3. t # <<>>
  BY DEF Fresh
<1>4. sent'["server"] = s \o t /\ out' = out /\ refused' = refused
  BY <1>1 DEF ClientWrite, ObfsTypes
<1> HIDE DEF s, t
<1>5. ToServer!IsStrictPrefix(s, s \o t)
  BY <1>2, <1>3, StrictFrontOfStream
<1>6. QED
  BY <1>4, <1>5 DEF ToServer!Write, ToServer!IsStrictPrefix, ToServer!IsPrefix, s

LEMMA ClientWriteChannel ==
    ASSUME ObfsInv, ServerWrite
    PROVE  ToClient!Write
<1>1. "client" \in Ends /\ ObfsTypes
  BY DEF ObfsInv, Ends
<1> DEFINE s == sent["client"]
           t == Fresh("client")
<1>2. s \in Seq(Nat) /\ t \in Seq(Nat)
  BY <1>1, StreamTypes
<1>3. t # <<>>
  BY DEF Fresh
<1>4. sent'["client"] = s \o t /\ out' = out /\ refused' = refused
  BY <1>1 DEF ServerWrite, ObfsTypes
<1> HIDE DEF s, t
<1>5. ToClient!IsStrictPrefix(s, s \o t)
  BY <1>2, <1>3, StrictFrontOfStream
<1>6. QED
  BY <1>4, <1>5 DEF ToClient!Write, ToClient!IsStrictPrefix, ToClient!IsPrefix, s

\* A chunk that the server takes is handed up, or refused before anything was.
LEMMA ServerTakesChannel ==
    ASSUME ObfsInv, UpAhead', ~dead, sent' = sent, NEW n, NEW r, NEW c, ServerTakes(n, r, c)
    PROVE  [ToServer!ChannelNext]_(ToServer!channelVars)
<1> DEFINE W == wire["server"]
           chunk == SubSeq(W, 1, n)
           o == out["server"]
           t == DataOf(r.up)
<1>1. ObfsTypes /\ EndsInv /\ HeadInv /\ "server" \in Ends
  BY DEF ObfsInv, Ends
<1>2. /\ n \in 1 .. Len(W) /\ ServerTurn(server, chunk, r, c, server')
      /\ HandUp("server", r) /\ dead' = dead
  BY DEF ServerTakes
<1>3. /\ r.up \in Seq(Cells) /\ (r.st \in {"junk", "pass"} => Unopened(server))
      /\ ~Has(chunk, Heads) => ~Has(r.up, Heads)
  BY <1>2 DEF ServerTurn
<1>4. /\ Alien(r) => refused'["server"] /\ out'["server"] = o
      /\ ~Alien(r) => /\ refused'["server"] = refused["server"]
                      /\ out'["server"] = IF refused["server"] THEN o ELSE o \o t
      /\ refused' \in [Ends -> BOOLEAN]
  BY <1>1, <1>2, <1>3, HandsUp
<1>5. o \in Seq(Nat) /\ t \in Seq(Nat) /\ refused["server"] \in BOOLEAN /\ W \in Seq(Cells)
  BY <1>1, <1>3, StreamTypes, DataType
<1>6. Alien(r) => o = <<>>
  <2>1. CASE r.st \in {"junk", "pass"}
    BY <1>1, <1>3, <2>1 DEF EndsInv
  <2>2. CASE Has(r.up, Heads)
    <3>1. n \in 0 .. Len(W)
      BY <1>2, <1>5
    <3>2. Has(chunk, Heads) => Has(W, Heads)
      BY <1>5, <3>1, HasSplit
    <3>3. QED
      BY <1>1, <1>3, <2>2, <3>2 DEF HeadInv
  <2>3. QED
    BY <2>1, <2>2 DEF Alien
<1>7. refused'["server"] \in BOOLEAN
  BY <1>1, <1>4
<1> HIDE DEF W, chunk
<1>8. CASE Alien(r) /\ ~refused["server"]
  <2>1. ToServer!Refuse
    BY <1>4, <1>6, <1>7, <1>8 DEF ToServer!Refuse
  <2>2. QED
    BY <2>1 DEF ToServer!ChannelNext
<1>9. CASE refused["server"]
  <2>1. refused'["server"] = refused["server"] /\ out'["server"] = o
    BY <1>4, <1>5, <1>7, <1>9
  <2>2. UNCHANGED ToServer!channelVars
    BY <2>1 DEF ToServer!channelVars
  <2>3. QED
    BY <2>2
<1>10. CASE ~Alien(r) /\ ~refused["server"] /\ t = <<>>
  <2>1. out'["server"] = o /\ refused'["server"] = refused["server"]
    <3>1. o \o t = o
      BY <1>5, <1>10
    <3>2. QED
      BY <1>4, <1>10, <3>1
  <2>2. UNCHANGED ToServer!channelVars
    BY <2>1 DEF ToServer!channelVars
  <2>3. QED
    BY <2>2
<1>11. CASE ~Alien(r) /\ ~refused["server"] /\ t # <<>>
  <2>1. out'["server"] = o \o t /\ refused'["server"] = refused["server"]
    BY <1>4, <1>11
  <2>2. ToServer!IsPrefix(out["server"], sent["server"])'
    BY <1>2, <1>11, <2>1 DEF UpAhead
  <2> HIDE DEF o, t
  <2>3. ToServer!IsStrictPrefix(o, o \o t)
    BY <1>5, <1>11, StrictFrontOfStream
  <2>4. ToServer!Deliver
    BY <1>11, <2>1, <2>2, <2>3 DEF ToServer!Deliver, ToServer!IsStrictPrefix, ToServer!IsPrefix, o
  <2>5. QED
    BY <2>4 DEF ToServer!ChannelNext
<1>12. QED
  BY <1>8, <1>9, <1>10, <1>11

\* A chunk that the client takes is handed up, or refused before anything was.
LEMMA ClientTakesChannel ==
    ASSUME ObfsInv, DownAhead', ~dead, UNCHANGED config, sent' = sent,
           NEW n, NEW r, NEW c, ClientTakes(n, r, c)
    PROVE  [ToClient!ChannelNext]_(ToClient!channelVars)
<1> DEFINE W == wire["client"]
           chunk == SubSeq(W, 1, n)
           o == out["client"]
           t == DataOf(r.up)
<1>1. ObfsTypes /\ HeadInv /\ "client" \in Ends
  BY DEF ObfsInv, Ends
<1>2. /\ n \in 1 .. Len(W) /\ ClientTurn(client, chunk, r, c, client')
      /\ r = client_decode(client, chunk) /\ r.st = "ok"
      /\ HandUp("client", r) /\ dead' = dead
  BY DEF ClientTakes
<1>3. ClientDecoding(client, chunk, r)
  BY <1>1, <1>2, ClientChunk, ClientDecodes
<1>4. r.up \in Seq(Cells) /\ (~Has(chunk, Heads) => ~Has(r.up, Heads)) /\ (Blind(client') => r.up = <<>>)
  BY <1>2, <1>3 DEF ClientTurn, ClientDecoding
<1>5. /\ Alien(r) => refused'["client"] /\ out'["client"] = o
      /\ ~Alien(r) => /\ refused'["client"] = refused["client"]
                      /\ out'["client"] = IF refused["client"] THEN o ELSE o \o t
      /\ refused' \in [Ends -> BOOLEAN]
  BY <1>1, <1>2, <1>4, HandsUp
<1>6. o \in Seq(Nat) /\ t \in Seq(Nat) /\ refused["client"] \in BOOLEAN /\ W \in Seq(Cells)
  BY <1>1, <1>4, StreamTypes, DataType
<1>7. Alien(r) => o = <<>>
  <2>1. SUFFICES ASSUME Has(r.up, Heads) PROVE o = <<>>
    BY <1>2 DEF Alien
  <2>2. n \in 0 .. Len(W)
    BY <1>2, <1>6
  <2>3. Has(chunk, Heads) => Has(W, Heads)
    BY <1>6, <2>2, HasSplit
  <2>4. QED
    BY <1>1, <1>4, <2>1, <2>3 DEF HeadInv
<1>8. refused'["client"] \in BOOLEAN
  BY <1>1, <1>5
<1>9. Lost' => t = <<>>
  <2>1. Lost' => Blind(client')
    BY DEF Lost, Blind, config
  <2>2. QED
    BY <1>4, <2>1, DataEmpty
<1> HIDE DEF W, chunk
<1>10. CASE Alien(r) /\ ~refused["client"]
  <2>1. ToClient!Refuse
    BY <1>5, <1>7, <1>8, <1>10 DEF ToClient!Refuse
  <2>2. QED
    BY <2>1 DEF ToClient!ChannelNext
<1>11. CASE refused["client"]
  <2>1. refused'["client"] = refused["client"] /\ out'["client"] = o
    BY <1>5, <1>6, <1>8, <1>11
  <2>2. UNCHANGED ToClient!channelVars
    BY <2>1 DEF ToClient!channelVars
  <2>3. QED
    BY <2>2
<1>12. CASE ~Alien(r) /\ ~refused["client"] /\ t = <<>>
  <2>1. out'["client"] = o /\ refused'["client"] = refused["client"]
    <3>1. o \o t = o
      BY <1>6, <1>12
    <3>2. QED
      BY <1>5, <1>12, <3>1
  <2>2. UNCHANGED ToClient!channelVars
    BY <2>1 DEF ToClient!channelVars
  <2>3. QED
    BY <2>2
<1>13. CASE ~Alien(r) /\ ~refused["client"] /\ t # <<>>
  <2>1. out'["client"] = o \o t /\ refused'["client"] = refused["client"]
    BY <1>5, <1>13
  <2>2. ToClient!IsPrefix(out["client"], sent["client"])'
    BY <1>2, <1>9, <1>13, <2>1 DEF DownAhead
  <2> HIDE DEF o, t
  <2>3. ToClient!IsStrictPrefix(o, o \o t)
    BY <1>6, <1>13, StrictFrontOfStream
  <2>4. ToClient!Deliver
    BY <1>13, <2>1, <2>2, <2>3 DEF ToClient!Deliver, ToClient!IsStrictPrefix, ToClient!IsPrefix, o
  <2>5. QED
    BY <2>4 DEF ToClient!ChannelNext
<1>14. QED
  BY <1>10, <1>11, <1>12, <1>13

LEMMA ServerChannelStep ==
    ObfsInv /\ UpAhead' /\ [Next]_vars => [ToServer!ChannelNext]_(ToServer!channelVars)
<1> SUFFICES ASSUME ObfsInv, UpAhead', [Next]_vars
             PROVE  [ToServer!ChannelNext]_(ToServer!channelVars)
  OBVIOUS
<1>1. ObfsTypes /\ "server" \in Ends /\ "client" \in Ends /\ "server" # "client"
  BY DEF ObfsInv, Ends
<1>2. ASSUME sent'["server"] = sent["server"], out'["server"] = out["server"],
             refused'["server"] = refused["server"]
      PROVE  [ToServer!ChannelNext]_(ToServer!channelVars)
  BY <1>2 DEF ToServer!channelVars
<1>3. CASE ClientWrite
  BY <1>3, ServerWriteChannel DEF ToServer!ChannelNext
<1>4. CASE ServerWrite
  <2>1. sent'["server"] = sent["server"] /\ out' = out /\ refused' = refused
    BY <1>1, <1>4 DEF ServerWrite, ObfsTypes
  <2>2. QED
    BY <1>2, <2>1
<1>5. CASE ClientReceive
  <2>1. /\ sent' = sent
        /\ UNCHANGED <<out, refused>> \/ \E n, r, c : ClientTakes(n, r, c)
    BY <1>5, ClientReceiveCases
  <2>2. ASSUME NEW n, NEW r, NEW c, ClientTakes(n, r, c)
        PROVE  out'["server"] = out["server"] /\ refused'["server"] = refused["server"]
    <3>1. r.up \in Seq(Cells) /\ HandUp("client", r)
      BY <2>2 DEF ClientTakes, ClientTurn
    <3>2. QED
      BY <1>1, <3>1, HandsUp
  <2>3. QED
    BY <1>2, <2>1, <2>2
<1>6. CASE ServerReceive
  <2>1. /\ sent' = sent /\ ~dead
        /\ UNCHANGED <<out, refused>> \/ \E n, r, c : ServerTakes(n, r, c)
    BY <1>6, ServerReceiveCases
  <2>2. CASE UNCHANGED <<out, refused>>
    BY <1>2, <2>1, <2>2
  <2>3. CASE \E n, r, c : ServerTakes(n, r, c)
    BY <2>1, <2>3, ServerTakesChannel
  <2>4. QED
    BY <2>1, <2>2, <2>3
<1>7. CASE \E x \in Ends : Damage(x)
  BY <1>2, <1>7 DEF Damage
<1>8. CASE UNCHANGED vars
  BY <1>2, <1>8 DEF vars
<1>9. QED
  BY <1>3, <1>4, <1>5, <1>6, <1>7, <1>8 DEF Next

LEMMA ClientChannelStep ==
    ObfsInv /\ DownAhead' /\ [Next]_vars => [ToClient!ChannelNext]_(ToClient!channelVars)
<1> SUFFICES ASSUME ObfsInv, DownAhead', [Next]_vars
             PROVE  [ToClient!ChannelNext]_(ToClient!channelVars)
  OBVIOUS
<1>1. ObfsTypes /\ "server" \in Ends /\ "client" \in Ends /\ "server" # "client"
  BY DEF ObfsInv, Ends
<1>2. ASSUME sent'["client"] = sent["client"], out'["client"] = out["client"],
             refused'["client"] = refused["client"]
      PROVE  [ToClient!ChannelNext]_(ToClient!channelVars)
  BY <1>2 DEF ToClient!channelVars
<1>3. CASE ServerWrite
  BY <1>3, ClientWriteChannel DEF ToClient!ChannelNext
<1>4. CASE ClientWrite
  <2>1. sent'["client"] = sent["client"] /\ out' = out /\ refused' = refused
    BY <1>1, <1>4 DEF ClientWrite, ObfsTypes
  <2>2. QED
    BY <1>2, <2>1
<1>5. CASE ServerReceive
  <2>1. /\ sent' = sent
        /\ UNCHANGED <<out, refused>> \/ \E n, r, c : ServerTakes(n, r, c)
    BY <1>5, ServerReceiveCases
  <2>2. ASSUME NEW n, NEW r, NEW c, ServerTakes(n, r, c)
        PROVE  out'["client"] = out["client"] /\ refused'["client"] = refused["client"]
    <3>1. r.up \in Seq(Cells) /\ HandUp("server", r)
      BY <2>2 DEF ServerTakes, ServerTurn
    <3>2. QED
      BY <1>1, <3>1, HandsUp
  <2>3. QED
    BY <1>2, <2>1, <2>2
<1>6. CASE ClientReceive
  <2>1. /\ sent' = sent /\ ~dead /\ UNCHANGED config
        /\ UNCHANGED <<out, refused>> \/ \E n, r, c : ClientTakes(n, r, c)
    BY <1>6, ClientReceiveCases
  <2>2. CASE UNCHANGED <<out, refused>>
    BY <1>2, <2>1, <2>2
  <2>3. CASE \E n, r, c : ClientTakes(n, r, c)
    BY <2>1, <2>3, ClientTakesChannel
  <2>4. QED
    BY <2>1, <2>2, <2>3
<1>7. CASE \E x \in Ends : Damage(x)
  BY <1>2, <1>7 DEF Damage
<1>8. CASE UNCHANGED vars
  BY <1>2, <1>8 DEF vars
<1>9. QED
  BY <1>3, <1>4, <1>5, <1>6, <1>7, <1>8 DEF Next

(* What server_decode hands up is what was given to client_encode, in      *)
(* order and from the start, or nothing at all and the client is refused:  *)
(* the plug-ins and the relay around them implement a channel to the       *)
(* server.                                                                 *)
THEOREM ObfsServerChannel == Spec => ObfsServerGets
<1>1. Init => ToServer!ChannelInit
  BY DEF Init, ToServer!ChannelInit, Ends
<1>2. QED
  BY <1>1, ObfsInvariant, StreamsAhead, ServerChannelStep, PTL
     DEF Spec, ObfsServerGets, ToServer!ChannelSpec

(* The same of server_encode and client_decode, whatever the server writes *)
(* before the client has seen the end of the handshake.                    *)
THEOREM ObfsClientChannel == Spec => ObfsClientGets
<1>1. Init => ToClient!ChannelInit
  BY DEF Init, ToClient!ChannelInit, Ends
<1>2. QED
  BY <1>1, ObfsInvariant, StreamsAhead, ClientChannelStep, PTL
     DEF Spec, ObfsClientGets, ToClient!ChannelSpec
=============================================================================
