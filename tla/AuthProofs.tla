----------------------------- MODULE AuthProofs ------------------------------
(***************************************************************************)
(* What holds of the auth protocols.                                       *)
(*                                                                         *)
(* The window of connection ids is right for every size of the window, the *)
(* lead and the jump, and for any number of ids.  It stays so inside the   *)
(* table of clients, where the client loses its place, comes back with a   *)
(* new queue, and has old connections closed on the new queue: every step  *)
(* of the table is an operation of the queue, creates it or drops it.      *)
(*                                                                         *)
(* A connection whose bytes arrive as they were sent is never ended by a   *)
(* check, and hands up all that has arrived: what is in the buffer of an   *)
(* end and on the wire to it are whole frames, which lead from the place   *)
(* where the end has read to the place where its peer has written          *)
(* (FrameFlows).                                                           *)
(***************************************************************************)
EXTENDS ClientTable, FrameFlows

-----------------------------------------------------------------------------
(* The queue of a client.                                                  *)

\* What makes AcceptedOnce inductive: an id that was accepted is still in the
\* table or is below the front, and is refused either way.
Remembered == \A id \in Ids : times[id] > 0 => id < front \/ id \in alloc

QueueInv == TypeOK /\ WindowBounded /\ Remembered /\ AcceptedOnce

LEMMA QueueInitInv == QueueInit => QueueInv
BY QueueAssumption
   DEF QueueInit, QueueInv, TypeOK, WindowBounded, Remembered, AcceptedOnce, Ids

\* An active queue accepts an id.
LEMMA AcceptInv ==
    ASSUME QueueInv, NEW id \in Ids, insertActive(id), Accepts(id, front, alloc)
    PROVE  QueueInv'
<1> DEFINE b == IF back <= id THEN id + 1 ELSE back
           a == alloc \cup {id}
<1>1. PICK g \in front .. b :
          /\ g \notin a /\ g + Window >= b
          /\ \A i \in front .. g - 1 : i \in a \/ i + Window < b
          /\ front' = g
          /\ alloc' = {i \in a : i > g}
  BY DEF insertActive, Slide
<1>2. /\ back' = b /\ age' = 0 /\ ref' = ref + 1
      /\ times' = [times EXCEPT ![id] = @ + 1]
  BY DEF insertActive
<1>3. /\ b \in Int /\ a \in SUBSET Ids /\ g \in Int
      /\ id \in Int /\ front \in Int /\ back \in Int
  BY DEF QueueInv, TypeOK, Ids
<1>4. TypeOK'
  <2>1. front' \in Int /\ back' \in Int /\ alloc' \in SUBSET Ids
    BY <1>1, <1>2, <1>3
  <2>2. age' \in 0 .. Timeout /\ ref' \in Nat
    BY <1>2, QueueAssumption DEF QueueInv, TypeOK
  <2>3. times' \in [Ids -> Nat]
    BY <1>2 DEF QueueInv, TypeOK
  <2>4. QED
    BY <2>1, <2>2, <2>3 DEF TypeOK
<1>5. WindowBounded'
  <2>1. \A i \in a : i < b
    BY <1>3 DEF QueueInv, WindowBounded, TypeOK, Ids
  <2>2. QED
    BY <1>1, <1>2, <1>3, <2>1, QueueAssumption DEF WindowBounded
<1>6. times[id] = 0
  BY <1>3 DEF QueueInv, Remembered, Accepts, TypeOK
<1>7. Remembered'
  <2> SUFFICES ASSUME NEW i \in Ids, times'[i] > 0
               PROVE  i < front' \/ i \in alloc'
    BY DEF Remembered
  <2>1. i < front \/ i \in a
    BY <1>2 DEF QueueInv, TypeOK, Remembered
  <2>2. QED
    BY <1>1, <1>3, <2>1 DEF Ids
<1>8. AcceptedOnce'
  BY <1>2, <1>6 DEF QueueInv, TypeOK, AcceptedOnce
<1>9. QED
  BY <1>4, <1>5, <1>7, <1>8 DEF QueueInv

\* Every operation of a queue preserves the invariant, whoever calls it.
LEMMA QueueStep ==
    ASSUME QueueInv,
           \/ \E id \in Ids : insertActive(id) \/ re_enable(id)
           \/ update \/ delref \/ Tick
           \/ UNCHANGED queueVars
    PROVE  QueueInv'
<1> USE QueueAssumption
<1>1. ASSUME NEW id \in Ids, insertActive(id)
      PROVE  QueueInv'
  <2>1. CASE Accepts(id, front, alloc)
    BY <1>1, <2>1, AcceptInv
  <2>2. CASE ~Accepts(id, front, alloc)
    BY <1>1, <2>2
    DEF insertActive, QueueInv, TypeOK, WindowBounded, Remembered, AcceptedOnce
  <2>3. QED
    BY <2>1, <2>2
<1>2. ASSUME NEW id \in Ids, re_enable(id)
      PROVE  QueueInv'
  BY <1>2 DEF re_enable, QueueInv, TypeOK, WindowBounded, Remembered, AcceptedOnce, Ids
<1>3. CASE update \/ delref \/ Tick
  BY <1>3 DEF update, delref, Tick, QueueInv, TypeOK, WindowBounded, Remembered, AcceptedOnce
<1>4. CASE UNCHANGED queueVars
  BY <1>4 DEF queueVars, QueueInv, TypeOK, WindowBounded, Remembered, AcceptedOnce
<1>5. QED
  BY <1>1, <1>2, <1>3, <1>4

LEMMA QueueNextInv == QueueInv /\ [QueueNext]_queueVars => QueueInv'
BY QueueStep DEF QueueNext

\* The inductive invariant of a queue on its own, which holds the types.
THEOREM QueueInvariant == QueueSpec => []QueueInv
BY QueueInitInv, QueueNextInv, PTL DEF QueueSpec

-----------------------------------------------------------------------------
(* The queue inside the table.                                             *)

LEMMA TableInitInv == TableInit => QueueInv
BY QueueAssumption
   DEF TableInit, QueueInv, TypeOK, WindowBounded, Remembered, AcceptedOnce, Ids

\* A queue that was just created, or dropped.
LEMMA FreshQueueInv ==
    ASSUME (\E id \in Ids : CreateQueue(id)) \/ DropQueue
    PROVE  QueueInv'
BY QueueAssumption
   DEF CreateQueue, DropQueue, QueueInv, TypeOK, WindowBounded, Remembered, AcceptedOnce, Ids

\* A new client gets its place, and another one may lose its own.
LEMMA EnterInv ==
    ASSUME QueueInv, NEW c \in Clients, NEW keys, NEW gone, Enter(c, keys, gone)
    PROVE  QueueInv'
BY FreshQueueInv, QueueStep DEF Enter

LEMMA TableNextInv == QueueInv /\ [TableNext]_tableVars => QueueInv'
<1> SUFFICES ASSUME QueueInv, [TableNext]_tableVars
             PROVE  QueueInv'
  OBVIOUS
<1>1. CASE UNCHANGED queueVars
  BY <1>1, QueueStep
<1>2. CASE insertKnown
  BY <1>2, QueueStep DEF insertKnown
<1>3. ASSUME NEW c \in Clients, insertRoom(c) \/ insertFull(c)
      PROVE  QueueInv'
  BY <1>1, <1>3, EnterInv DEF insertRoom, insertFull
<1>4. CASE updateTable
  BY <1>4, QueueStep DEF updateTable
<1>5. CASE remove
  BY <1>5, QueueStep DEF remove
<1>6. CASE Elapse
  BY <1>6, QueueStep DEF Elapse
<1>7. CASE UNCHANGED tableVars
  BY <1>1, <1>7 DEF tableVars, queueVars
<1>8. QED
  BY <1>2, <1>3, <1>4, <1>5, <1>6, <1>7 DEF TableNext

\* The invariant of a client's queue, inside the table of its user.
THEOREM TableQueueInvariant == TableSpec => []QueueInv
BY TableInitInv, TableNextInv, PTL DEF TableSpec

\* The type invariant of the queue, its counters included: a count of
\* connections never goes below zero.
THEOREM TableTypeOK == TableSpec => []TypeOK
<1>1. QueueInv => TypeOK
  BY DEF QueueInv
<1>2. QED
  BY <1>1, TableQueueInvariant, PTL

\* No id is accepted twice by one queue of a client, whatever places the table
\* gives and takes: eviction restarts the window and never leaves a mixture of
\* two of them.
THEOREM TableAcceptedOnce == TableSpec => []AcceptedOnce
<1>1. QueueInv => AcceptedOnce
  BY DEF QueueInv
<1>2. QED
  BY <1>1, TableQueueInvariant, PTL

\* The memory of every queue in the table is bounded by the window.
THEOREM TableWindowBounded == TableSpec => []WindowBounded
<1>1. QueueInv => WindowBounded
  BY DEF QueueInv
<1>2. QED
  BY <1>1, TableQueueInvariant, PTL

\* A client that counts up is never refused by its queue.
THEOREM TableNextIdAccepted == TableSpec => []NextIdAccepted
<1>1. QueueInv => NextIdAccepted
  BY QueueAssumption DEF QueueInv, WindowBounded, NextIdAccepted, Accepts, TypeOK, Ids
<1>2. QED
  BY <1>1, TableQueueInvariant, PTL
-----------------------------------------------------------------------------
(* The count of connections.                                               *)

\* What makes RefBelowOpen inductive: a client that has lost its place has no
\* count left, so that the connections it still closes are not missed.  This
\* needs that a client occurs once in the table: the one that is deleted is then
\* really out.
TableInv ==
    /\ QueueInv
    /\ Unique(order, Clients)
    /\ open \in Nat
    /\ Me \notin Table => ref = 0
    /\ RefBelowOpen

LEMMA TableInitCount == TableInit => TableInv
<1> SUFFICES ASSUME TableInit PROVE TableInv
  OBVIOUS
<1>1. QueueInv
  BY TableInitInv
<1>2. Unique(order, Clients)
  BY DEF TableInit, Unique, IsInjective
<1>3. QED
  BY <1>1, <1>2 DEF TableInit, TableInv, RefBelowOpen

\* Reading an entry changes nothing but the order.
LEMMA GetitemTable ==
    ASSUME TableInv, NEW c \in Table, order' = getitem(order, c)
    PROVE  Unique(order', Clients) /\ Table' = Table
BY MoveToEnd DEF TableInv, Table, getitem

\* The count of a step that leaves the set of clients alone.
LEMMA SameTable ==
    ASSUME TableInv, QueueInv', Unique(order', Clients), Table' = Table,
           \/ ref' = ref /\ open' = open
           \/ Me \in Table /\ ref' = ref + 1 /\ open' = open + 1
           \/ Me \in Table /\ open > 0 /\ open' = open - 1
              /\ ref' = IF ref > 0 THEN ref - 1 ELSE ref
           \/ Me \notin Table /\ open > 0 /\ open' = open - 1 /\ ref' = ref
    PROVE  TableInv'
<1>1. ref \in Nat /\ open \in Nat /\ ref <= open /\ (Me \notin Table => ref = 0)
  BY DEF TableInv, RefBelowOpen, QueueInv, TypeOK
<1>2. open' \in Nat /\ ref' <= open' /\ (Me \notin Table' => ref' = 0)
  BY <1>1
<1>3. QED
  BY <1>2 DEF TableInv, RefBelowOpen

LEMMA EnterCount ==
    ASSUME TableInv, NEW c \in Clients, c \notin Table, NEW keys, NEW gone,
           Unique(keys, Clients), ToSet(keys) \subseteq Table,
           Me \in Table => Me \in ToSet(keys) \/ Me \in gone,
           Enter(c, keys, gone)
    PROVE  TableInv'
<1>1. QueueInv'
  BY EnterInv DEF TableInv
<1>2. Unique(order', Clients) /\ Table' = ToSet(keys) \cup {c}
  BY AppendUnique DEF Enter, Table
<1>3. open \in Nat /\ ref <= open /\ (Me \notin Table => ref = 0)
  BY DEF TableInv, RefBelowOpen
<1>4. CASE c = Me
  BY <1>1, <1>2, <1>3, <1>4 DEF Enter, CreateQueue, TableInv, RefBelowOpen
<1>5. CASE c # Me /\ Me \in gone
  BY <1>1, <1>2, <1>3, <1>5 DEF Enter, DropQueue, TableInv, RefBelowOpen
<1>6. CASE c # Me /\ Me \notin gone
  BY <1>1, <1>2, <1>3, <1>6 DEF Enter, queueVars, TableInv, RefBelowOpen
<1>7. QED
  BY <1>4, <1>5, <1>6

LEMMA InsertFullCount ==
    ASSUME TableInv, NEW c \in Clients, insertFull(c)
    PROVE  TableInv'
<1> DEFINE keys == getitem(order, Head(order))
<1>1. order \in Seq(Clients) /\ order # <<>> /\ Head(order) \in Table
  BY TableAssumption DEF TableInv, Unique, insertFull, Table, ToSet
<1>2. Unique(keys, Clients) /\ ToSet(keys) = Table /\ keys # <<>>
  BY <1>1, MoveToEnd DEF TableInv, Table, getitem, Unique
<1>3. CASE Active(Head(order))
  <2>1. order' = keys /\ ref' = ref /\ open' = open /\ UNCHANGED queueVars
    BY <1>3 DEF insertFull, queueVars
  <2>2. QueueInv'
    BY <2>1, QueueStep DEF TableInv
  <2>3. QED
    BY <1>2, <2>1, <2>2, SameTable DEF Table
<1>4. CASE ~Active(Head(order))
  <2>1. Enter(c, Tail(keys), {Head(keys)}) /\ c \notin Table
    BY <1>4 DEF insertFull
  <2>2. Unique(Tail(keys), Clients) /\ ToSet(Tail(keys)) = Table \ {Head(keys)}
    BY <1>2, TailUnique
  <2> HIDE DEF keys
  <2>3. QED
    BY <2>1, <2>2, EnterCount
<1>5. QED
  BY <1>3, <1>4

LEMMA TableNextCount == TableInv /\ [TableNext]_tableVars => TableInv'
<1> SUFFICES ASSUME TableInv, [TableNext]_tableVars
             PROVE  TableInv'
  OBVIOUS
<1>0. QueueInv' /\ Unique(order, Clients) /\ ref \in Nat
  BY TableNextInv DEF TableInv, QueueInv, TypeOK
<1>1. CASE insertKnown
  <2>1. ASSUME Me \in Table, order' = getitem(order, Me), NEW id \in Ids,
               insertActive(id) \/ re_enable(id),
               open' = IF IsActive /\ ~Accepts(id, front, alloc) THEN open ELSE open + 1
        PROVE  TableInv'
    BY <1>0, <2>1, GetitemTable, SameTable DEF insertActive, re_enable
  <2>2. ASSUME NEW c \in Others \cap Table, order' = getitem(order, c),
               UNCHANGED <<queueVars, open>>
        PROVE  TableInv'
    BY <1>0, <2>2, GetitemTable, SameTable DEF queueVars
  <2>3. QED
    BY <1>1, <2>1, <2>2 DEF insertKnown
<1>2. ASSUME NEW c \in Clients, insertRoom(c) PROVE TableInv'
  <2>1. c \notin Table /\ Enter(c, order, {})
    BY <1>2 DEF insertRoom
  <2>2. QED
    BY <1>0, <2>1, EnterCount DEF Table
<1>3. ASSUME NEW c \in Clients, insertFull(c) PROVE TableInv'
  BY <1>3, InsertFullCount
<1>4. CASE updateTable
  <2>1. ASSUME Me \in Table, order' = getitem(order, Me), update, open' = open
        PROVE  TableInv'
    BY <1>0, <2>1, GetitemTable, SameTable DEF update
  <2>2. ASSUME NEW c \in Others \cap Table, order' = getitem(order, c),
               UNCHANGED <<queueVars, open>>
        PROVE  TableInv'
    BY <1>0, <2>2, GetitemTable, SameTable DEF queueVars
  <2>3. QED
    BY <1>4, <2>1, <2>2 DEF updateTable
<1>5. CASE remove
  <2>1. ASSUME Me \in Table, open > 0, open' = open - 1, delref,
               order' = getitem(order, Me)
        PROVE  TableInv'
    BY <1>0, <2>1, GetitemTable, SameTable DEF delref
  <2>2. ASSUME Me \notin Table, open > 0, open' = open - 1, UNCHANGED <<queueVars, order>>
        PROVE  TableInv'
    BY <1>0, <2>2, SameTable DEF queueVars, Table
  <2>3. ASSUME NEW c \in Others \cap Table, order' = getitem(order, c),
               UNCHANGED <<queueVars, open>>
        PROVE  TableInv'
    BY <1>0, <2>3, GetitemTable, SameTable DEF queueVars
  <2>4. QED
    BY <1>5, <2>1, <2>2, <2>3 DEF remove
<1>6. CASE Elapse
  BY <1>0, <1>6, SameTable DEF Elapse, Tick, queueVars, Table
<1>7. CASE UNCHANGED tableVars
  BY <1>0, <1>7, SameTable DEF tableVars, Table
<1>8. QED
  BY <1>1, <1>2, <1>3, <1>4, <1>5, <1>6, <1>7 DEF TableNext

\* The count of a queue is never above the connections of its client that are
\* open, whatever clients lose their place and come back: a client without
\* connections can always make room.
THEOREM TableRefBelowOpen == TableSpec => []RefBelowOpen
<1>1. TableInv => RefBelowOpen
  BY DEF TableInv
<1>2. QED
  BY <1>1, TableInitCount, TableNextCount, PTL DEF TableSpec

-----------------------------------------------------------------------------
(* The header.                                                             *)

\* The same cells, cut in two places.
LEMMA CutTwice ==
    ASSUME NEW b, NEW w, NEW h, NEW s,
           b \in Seq(CellSet), w \in Seq(CellSet), h \in Seq(CellSet), s \in Seq(CellSet), b \o w = h \o s
    PROVE  /\ \A i \in 1 .. Len(h) : i <= Len(b) => b[i] = h[i]
           /\ Len(b) >= Len(h) => /\ Drop(b, Len(h)) \in Seq(CellSet)
                                  /\ Drop(b, Len(h)) \o w = s
<1> DEFINE Joined(x, y, z) == /\ Len(z) = Len(x) + Len(y) /\ Len(x) \in Nat /\ Len(y) \in Nat
                              /\ \A i \in 1 .. Len(x) : z[i] = x[i]
                              /\ \A i \in 1 .. Len(y) : z[Len(x) + i] = y[i]
<1>0. ASSUME NEW x \in Seq(CellSet), NEW y \in Seq(CellSet) PROVE Joined(x, y, x \o y)
  BY ConcatIs, SMTT(30)
<1> DEFINE u == b \o w
           v == h \o s
<1> HIDE DEF Joined
<1>j. Joined(b, w, u) /\ Joined(h, s, v)
  BY <1>0, Zenon
<1>3. u = v
  OBVIOUS
<1> HIDE DEF u, v
<1>1. /\ Len(u) = Len(b) + Len(w) /\ Len(b) \in Nat /\ Len(w) \in Nat
      /\ \A i \in 1 .. Len(b) : u[i] = b[i]
      /\ \A i \in 1 .. Len(w) : u[Len(b) + i] = w[i]
  BY <1>j DEF Joined
<1>2. /\ Len(v) = Len(h) + Len(s) /\ Len(h) \in Nat /\ Len(s) \in Nat
      /\ \A i \in 1 .. Len(h) : v[i] = h[i]
      /\ \A i \in 1 .. Len(s) : v[Len(h) + i] = s[i]
  BY <1>j DEF Joined
<1>4. \A i \in 1 .. Len(h) : i <= Len(b) => b[i] = h[i]
  BY <1>1, <1>2, <1>3
<1>5. ASSUME Len(b) >= Len(h)
      PROVE  Drop(b, Len(h)) \in Seq(CellSet) /\ Drop(b, Len(h)) \o w = s
  <2> DEFINE n == Len(h)
             t == Drop(b, n)
             tw == t \o w
  <2>1. n \in 0 .. Len(b)
    BY <1>1, <1>2, <1>5
  <2>2. t \in Seq(CellSet) /\ Len(t) = Len(b) - n /\ \A i \in 1 .. Len(b) - n : t[i] = b[n + i]
    BY <2>1, DropIs
  <2> HIDE DEF t
  <2>3. /\ tw \in Seq(CellSet) /\ Len(tw) = Len(t) + Len(w)
        /\ Len(t) \in Nat /\ Len(w) \in Nat
        /\ \A i \in 1 .. Len(t) : tw[i] = t[i]
        /\ \A i \in 1 .. Len(w) : tw[Len(t) + i] = w[i]
    <3>1. t \in Seq(CellSet)
      BY <2>2
    <3>2. QED
      BY <3>1, ConcatIs
  <2>4. Len(tw) = Len(s)
    BY <1>1, <1>2, <1>3, <2>1, <2>2, <2>3
  <2> HIDE DEF tw
  <2>5. ASSUME NEW i \in 1 .. Len(s) PROVE tw[i] = s[i]
    <3>1. s[i] = u[n + i] /\ i \in Nat
      BY <1>2, <1>3
    <3>2. CASE i <= Len(t)
      <4>1. i \in 1 .. Len(t) /\ n + i \in 1 .. Len(b)
        BY <1>1, <1>2, <2>2, <3>2
      <4>2. QED
        BY <1>1, <2>2, <2>3, <3>1, <4>1
    <3>3. CASE i > Len(t)
      <4> DEFINE j == i - Len(t)
      <4>1. j \in 1 .. Len(w) /\ Len(t) + j = i /\ Len(b) + j = n + i
        BY <1>1, <1>2, <1>3, <2>2, <2>3, <2>4, <3>3
      <4> HIDE DEF j
      <4>2. tw[i] = w[j]
        BY <2>3, <4>1
      <4>3. u[n + i] = w[j]
        BY <1>1, <4>1
      <4>4. QED
        BY <3>1, <4>2, <4>3
    <3>4. Len(t) \in Nat
      BY <1>1, <2>1, <2>2
    <3>5. QED
      BY <3>1, <3>2, <3>3, <3>4
  <2>6. tw = s
    BY <2>3, <2>4, <2>5, SeqEqual
  <2>7. QED
    BY <2>2, <2>6 DEF n, t, tw
<1>6. QED
  BY <1>4, <1>5

HeadLen(pr) == IF Hashed(pr) THEN 2 ELSE 3

\* The cells hd of a header with the data d.
HeadCells(pr, d, hd) ==
    /\ hd \in Seq(CellSet) /\ d \in Seq(Nat) /\ Len(hd) = HeadLen(pr)
    /\ hd[1].t = "h1" /\ \A i \in 1 .. HeadLen(pr) : hd[i].ok
    /\ IF Hashed(pr) THEN d = <<>> ELSE hd[1].f.d = d
    /\ pr = "auth_akarin" => hd[1].f.mss = "drawn"

\* An end that has neither sent nor received a frame.
Idle(e) ==
    /\ ~e.raw_trans /\ ~e.dead /\ e.pack_id = 1 /\ e.recv_id = 1 /\ e.sent_hash = 0 /\ e.recv_hash = 0
    /\ ~e.send_back_cmd

\* A server that waits for the header.
Unheaded(e) == e \in EndSet /\ ~e.has_header /\ Idle(e)

\* What the server makes of a buffer b that starts with a header, h, with data d.
Greeted(pr, b, d, h) ==
    /\ h \in CallSet /\ h.st = "go" /\ h.ret = d /\ h.back
    /\ h.e \in EndSet /\ h.e.has_header /\ Idle(h.e) /\ h.e.recv_buf = Drop(b, HeadLen(pr))
    /\ pr = "auth_akarin" => h.e.recv_tcp_mss = "drawn" /\ h.e.send_tcp_mss = "drawn"

\* The buffer of the server is the first cells of a header and a stream.
Led(pr, b, hd) ==
    /\ b \in Seq(CellSet) /\ hd \in Seq(CellSet)
    /\ \A i \in 1 .. Len(hd) : i <= Len(b) => b[i] = hd[i]

Refusing(c, h, b, admit) ==
    /\ h = [c EXCEPT !.st = "nomatch"] /\ ~admit /\ b # <<>> /\ b[1].t = "h1"

\* The end has read the header, and pads with m if it is one of auth_akarin.
Opened(e, buf) == [e EXCEPT !.has_header = TRUE, !.recv_buf = buf]
Chained(e) == [e EXCEPT !.recv_hash = 0, !.sent_hash = 0]
Agreed(e, m) == [e EXCEPT !.recv_tcp_mss = m, !.send_tcp_mss = m]

LEMMA OpenedIs ==
    ASSUME NEW e, NEW buf, e \in EndSet, Idle(e), buf \in Seq(CellSet)
    PROVE  /\ Opened(e, buf) \in EndSet /\ Idle(Opened(e, buf))
           /\ Opened(e, buf).has_header /\ Opened(e, buf).recv_buf = buf
<1> DEFINE B == Seq(CellSet)
           E == [has_header : BOOLEAN, raw_trans : BOOLEAN, dead : BOOLEAN,
                 recv_buf : B, pack_id : Nat, recv_id : Nat,
                 sent_hash : Nat, recv_hash : Nat, decrypt_packet_num : Nat,
                 extra_wait : Nat, send_tcp_mss : Modes, recv_tcp_mss : Modes,
                 new_send_tcp_mss : Modes, send_back_cmd : BOOLEAN]
<1>1. e \in E /\ buf \in B
  BY DEF EndSet
<1> HIDE DEF B
<1>2. Opened(e, buf) \in E
  BY <1>1 DEF Opened
<1>3. Idle(Opened(e, buf)) /\ Opened(e, buf).has_header /\ Opened(e, buf).recv_buf = buf
  BY <1>1 DEF Opened, Idle
<1>4. QED
  BY <1>2, <1>3 DEF B, EndSet

LEMMA ChainedIs ==
    ASSUME NEW e, e \in EndSet, Idle(e)
    PROVE  /\ Chained(e) \in EndSet /\ Idle(Chained(e))
           /\ Chained(e).has_header = e.has_header /\ Chained(e).recv_buf = e.recv_buf
<1> DEFINE B == Seq(CellSet)
           E == [has_header : BOOLEAN, raw_trans : BOOLEAN, dead : BOOLEAN,
                 recv_buf : B, pack_id : Nat, recv_id : Nat,
                 sent_hash : Nat, recv_hash : Nat, decrypt_packet_num : Nat,
                 extra_wait : Nat, send_tcp_mss : Modes, recv_tcp_mss : Modes,
                 new_send_tcp_mss : Modes, send_back_cmd : BOOLEAN]
<1>1. e \in E
  BY DEF EndSet
<1> HIDE DEF B
<1>2. Chained(e) \in E
  BY <1>1 DEF Chained
<1>3. /\ Idle(Chained(e)) /\ Chained(e).has_header = e.has_header /\ Chained(e).recv_buf = e.recv_buf
  BY <1>1 DEF Chained, Idle
<1>4. QED
  BY <1>2, <1>3 DEF B, EndSet

LEMMA AgreedIs ==
    ASSUME NEW e, NEW m, e \in EndSet, Idle(e), m \in Modes
    PROVE  /\ Agreed(e, m) \in EndSet /\ Idle(Agreed(e, m))
           /\ Agreed(e, m).has_header = e.has_header /\ Agreed(e, m).recv_buf = e.recv_buf
           /\ Agreed(e, m).recv_tcp_mss = m /\ Agreed(e, m).send_tcp_mss = m
<1> DEFINE B == Seq(CellSet)
           E == [has_header : BOOLEAN, raw_trans : BOOLEAN, dead : BOOLEAN,
                 recv_buf : B, pack_id : Nat, recv_id : Nat,
                 sent_hash : Nat, recv_hash : Nat, decrypt_packet_num : Nat,
                 extra_wait : Nat, send_tcp_mss : Modes, recv_tcp_mss : Modes,
                 new_send_tcp_mss : Modes, send_back_cmd : BOOLEAN]
<1>1. e \in E
  BY DEF EndSet
<1> HIDE DEF B
<1>2. Agreed(e, m) \in E
  BY <1>1 DEF Agreed
<1>3. /\ Idle(Agreed(e, m)) /\ Agreed(e, m).has_header = e.has_header /\ Agreed(e, m).recv_buf = e.recv_buf
      /\ Agreed(e, m).recv_tcp_mss = m /\ Agreed(e, m).send_tcp_mss = m
  BY <1>1 DEF Agreed, Idle
<1>4. QED
  BY <1>2, <1>3 DEF B, EndSet

LEMMA GreetedIs ==
    ASSUME NEW pr, NEW c, NEW b, NEW d, NEW h, NEW e2, NEW yes,
           c \in CallSet, c.st = "go", d \in Seq(Nat), yes = TRUE,
           \/ h = [c EXCEPT !.e = e2, !.ret = d, !.back = yes]
           \/ h = [c EXCEPT !.e = e2, !.back = yes] /\ c.ret = d,
           e2 \in EndSet, e2.has_header, Idle(e2), e2.recv_buf = Drop(b, HeadLen(pr)),
           pr = "auth_akarin" => e2.recv_tcp_mss = "drawn" /\ e2.send_tcp_mss = "drawn"
    PROVE  Greeted(pr, b, d, h)
<1>1. h \in CallSet /\ h.e = e2 /\ h.ret = d /\ h.back = yes /\ h.st = c.st
  BY DEF CallSet
<1>2. QED
  BY <1>1 DEF Greeted

LEMMA V4Header ==
    ASSUME NEW e, NEW c, NEW b, NEW d, NEW hd, NEW iv, NEW admit,
           Unheaded(e), c \in CallSet, c.st = "go", c.e.recv_buf = b, Alike(c.e, e),
           HeadCells("auth_sha1_v4", d, hd), Led("auth_sha1_v4", b, hd), b # <<>>, iv \in BOOLEAN, admit \in BOOLEAN
    PROVE  LET h == V4!Header(c, iv, admit)
           IN  \/ Len(b) < 3 /\ h = [c EXCEPT !.st = "stop"]
               \/ Refusing(c, h, b, iv /\ admit)
               \/ Len(b) >= 3 /\ Greeted("auth_sha1_v4", b, d, h)
<1> DEFINE h == V4!Header(c, iv, admit)
<1>1. b \in Seq(CellSet) /\ Len(b) \in Nat /\ Len(b) > 0
  BY DEF Led
<1>2. /\ Len(hd) = 3 /\ hd[1].t = "h1" /\ hd[1].ok /\ hd[2].ok /\ hd[3].ok /\ hd[1].f.d = d /\ d \in Seq(Nat)
      /\ \A i \in 1 .. 3 : i <= Len(b) => b[i] = hd[i]
  BY DEF HeadCells, HeadLen, Hashed, Led
<1>3. b[1].t = "h1" /\ b[1].ok /\ b[1].f.d = d
  BY <1>1, <1>2
<1>4. V4!IsGood(b[1], "h1") /\ b[1].t # "data"
  BY <1>3 DEF V4!IsGood
<1>5. CASE Len(b) = 1
  <2>1. h = [c EXCEPT !.st = "stop"]
    BY <1>4, <1>5 DEF V4!Header, V4!Stop
  <2>2. QED
    BY <1>5, <2>1
<1>6. CASE Len(b) = 2
  <2>1. h = [c EXCEPT !.st = "stop"]
    BY <1>4, <1>6 DEF V4!Header, V4!Stop
  <2>2. QED
    BY <1>6, <2>1
<1>7. CASE Len(b) > 2
  <2>1. b[2].ok /\ b[3].ok
    BY <1>1, <1>2, <1>7
  <2>2. CASE ~(iv /\ admit)
    <3>1. h = [c EXCEPT !.st = "nomatch"]
      BY <1>4, <1>7, <2>2 DEF V4!Header, V4!Stop
    <3>2. QED
      BY <1>3, <2>2, <3>1 DEF Refusing
  <2>3. CASE iv /\ admit
    <3> DEFINE buf == Drop(b, 3)
               yes == TRUE
               e2 == Opened(c.e, buf)
    <3>1. h = [c EXCEPT !.e.has_header = TRUE, !.e.recv_buf = V4!Drop(@, 3), !.ret = b[1].f.d, !.back = TRUE]
      BY <1>4, <1>7, <2>1, <2>3 DEF V4!Header
    <3>2. h = [c EXCEPT !.e = e2, !.ret = d, !.back = yes]
      BY <1>3, <3>1 DEF CallSet, Opened, Drop, V4!Drop
    <3>3. 3 \in 0 .. Len(b)
      BY <1>1, <1>7
    <3>4. buf \in Seq(CellSet)
      BY <1>1, <3>3, DropIs
    <3>5. c.e \in EndSet /\ Idle(c.e)
      BY CallParts DEF Alike, Unheaded, Idle, Kept
    <3> HIDE DEF buf, e2, yes, h
    <3>6. e2 \in EndSet /\ Idle(e2) /\ e2.has_header /\ e2.recv_buf = buf
      BY <3>4, <3>5, OpenedIs DEF e2
    <3>7. buf = Drop(b, HeadLen("auth_sha1_v4"))
      BY DEF buf, HeadLen, Hashed
    <3>8. Greeted("auth_sha1_v4", b, d, h)
      BY <1>2, <3>2, <3>6, <3>7, GreetedIs, Zenon DEF yes
    <3>9. QED
      BY <1>1, <1>7, <3>8 DEF h
  <2>4. QED
    BY <2>2, <2>3
<1>8. Len(b) = 1 \/ Len(b) = 2 \/ Len(b) > 2
  <2> DEFINE n == Len(b)
  <2>1. n \in Nat /\ n > 0
    BY <1>1
  <2> HIDE DEF n
  <2>2. n = 1 \/ n = 2 \/ n > 2
    BY <2>1
  <2>3. QED
    BY <2>2 DEF n
<1>9. QED
  BY <1>5, <1>6, <1>7, <1>8
LEMMA AesHeader ==
    ASSUME NEW e, NEW c, NEW b, NEW d, NEW hd, NEW iv, NEW admit,
           Unheaded(e), c \in CallSet, c.st = "go", c.e.recv_buf = b, Alike(c.e, e),
           HeadCells("auth_aes128", d, hd), Led("auth_aes128", b, hd), b # <<>>, iv \in BOOLEAN, admit \in BOOLEAN
    PROVE  LET h == Aes!Header(c, iv, admit)
           IN  \/ Len(b) < 3 /\ h = [c EXCEPT !.st = "stop"]
               \/ Refusing(c, h, b, iv /\ admit)
               \/ Len(b) >= 3 /\ Greeted("auth_aes128", b, d, h)
<1> DEFINE h == Aes!Header(c, iv, admit)
<1>1. b \in Seq(CellSet) /\ Len(b) \in Nat /\ Len(b) > 0
  BY DEF Led
<1>2. /\ Len(hd) = 3 /\ hd[1].t = "h1" /\ hd[1].ok /\ hd[2].ok /\ hd[3].ok /\ hd[1].f.d = d /\ d \in Seq(Nat)
      /\ \A i \in 1 .. 3 : i <= Len(b) => b[i] = hd[i]
  BY DEF HeadCells, HeadLen, Hashed, Led
<1>3. b[1].t = "h1" /\ b[1].ok /\ b[1].f.d = d
  BY <1>1, <1>2
<1>4. Aes!IsGood(b[1], "h1")
  BY <1>3 DEF Aes!IsGood
<1>0. CASE ~iv
  <2>1. h = [c EXCEPT !.st = "nomatch"]
    BY <1>0, <1>1 DEF Aes!Header, Aes!Stop
  <2>2. QED
    BY <1>0, <1>3, <2>1 DEF Refusing
<1>5. CASE iv /\ Len(b) = 1
  <2>1. h = [c EXCEPT !.st = "stop"]
    BY <1>4, <1>5 DEF Aes!Header, Aes!Stop
  <2>2. Len(b) = 1
    BY <1>5
  <2>3. QED
    BY <2>1, <2>2
<1>6. CASE iv /\ Len(b) = 2
  <2>0. b[2].ok
    BY <1>1, <1>2, <1>6
  <2>1. h = [c EXCEPT !.st = "stop"]
    BY <1>4, <1>6, <2>0 DEF Aes!Header, Aes!Stop
  <2>2. Len(b) = 2
    BY <1>6
  <2>3. QED
    BY <2>1, <2>2
<1>7. CASE iv /\ Len(b) > 2
  <2>1. b[2].ok /\ b[3].ok
    BY <1>1, <1>2, <1>7
  <2>2. CASE ~admit
    <3>1. h = [c EXCEPT !.st = "nomatch"]
      BY <1>4, <1>7, <2>1, <2>2 DEF Aes!Header, Aes!Stop
    <3>2. QED
      BY <1>3, <2>2, <3>1 DEF Refusing
  <2>3. CASE admit
    <3> DEFINE buf == Drop(b, 3)
               yes == TRUE
               e2 == Opened(c.e, buf)
    <3>1. h = [c EXCEPT !.e.has_header = TRUE, !.e.recv_buf = Aes!Drop(@, 3), !.ret = b[1].f.d, !.back = TRUE]
      BY <1>4, <1>7, <2>1, <2>3 DEF Aes!Header
    <3>2. h = [c EXCEPT !.e = e2, !.ret = d, !.back = yes]
      BY <1>3, <3>1 DEF CallSet, Opened, Drop, Aes!Drop
    <3>3. 3 \in 0 .. Len(b)
      BY <1>1, <1>7
    <3>4. buf \in Seq(CellSet)
      BY <1>1, <3>3, DropIs
    <3>5. c.e \in EndSet /\ Idle(c.e)
      BY CallParts DEF Alike, Unheaded, Idle, Kept
    <3> HIDE DEF buf, e2, yes, h
    <3>6. e2 \in EndSet /\ Idle(e2) /\ e2.has_header /\ e2.recv_buf = buf
      BY <3>4, <3>5, OpenedIs DEF e2
    <3>7. buf = Drop(b, HeadLen("auth_aes128"))
      BY DEF buf, HeadLen, Hashed
    <3>8. Greeted("auth_aes128", b, d, h)
      BY <1>2, <3>2, <3>6, <3>7, GreetedIs, Zenon DEF yes
    <3>9. Len(b) > 2
      BY <1>7
    <3>10. QED
      BY <1>1, <3>8, <3>9 DEF h
  <2>4. QED
    BY <2>2, <2>3
<1>8. Len(b) = 1 \/ Len(b) = 2 \/ Len(b) > 2
  <2> DEFINE n == Len(b)
  <2>1. n \in Nat /\ n > 0
    BY <1>1
  <2> HIDE DEF n
  <2>2. n = 1 \/ n = 2 \/ n > 2
    BY <2>1
  <2>3. QED
    BY <2>2 DEF n
<1>9. QED
  BY <1>0, <1>5, <1>6, <1>7, <1>8
LEMMA ChainHeader ==
    ASSUME NEW e, NEW c, NEW b, NEW d, NEW hd, NEW iv, NEW admit,
           Unheaded(e), c \in CallSet, c.st = "go", c.ret = <<>>, c.e.recv_buf = b, Alike(c.e, e),
           HeadCells("auth_chain", d, hd), Led("auth_chain", b, hd), b # <<>>, iv \in BOOLEAN, admit \in BOOLEAN
    PROVE  LET h == Chain!Header(c, iv, admit)
           IN  \/ Len(b) < 2 /\ h = [c EXCEPT !.st = "stop"]
               \/ Refusing(c, h, b, iv /\ admit)
               \/ Len(b) >= 2 /\ Greeted("auth_chain", b, d, h)
<1> DEFINE h == Chain!Header(c, iv, admit)
<1>1. b \in Seq(CellSet) /\ Len(b) \in Nat /\ Len(b) > 0
  BY DEF Led
<1>2. /\ Len(hd) = 2 /\ hd[1].t = "h1" /\ hd[1].ok /\ hd[2].ok /\ d = <<>> /\ d \in Seq(Nat)
      /\ \A i \in 1 .. 2 : i <= Len(b) => b[i] = hd[i]
  BY DEF HeadCells, HeadLen, Hashed, Led
<1>3. b[1].t = "h1" /\ b[1].ok
  BY <1>1, <1>2
<1>4. Chain!IsGood(b[1], "h1")
  BY <1>3 DEF Chain!IsGood
<1>0. CASE ~iv
  <2>1. h = [c EXCEPT !.st = "nomatch"]
    BY <1>0, <1>1 DEF Chain!Header, Chain!Stop
  <2>2. QED
    BY <1>0, <1>3, <2>1 DEF Refusing
<1>5. CASE iv /\ Len(b) = 1
  <2>1. h = [c EXCEPT !.st = "stop"]
    BY <1>4, <1>5 DEF Chain!Header, Chain!Stop
  <2>2. Len(b) = 1
    BY <1>5
  <2>3. QED
    BY <2>1, <2>2
<1>7. CASE iv /\ Len(b) > 1
  <2>1. b[2].ok
    BY <1>1, <1>2, <1>7
  <2>2. CASE ~admit
    <3>1. h = [c EXCEPT !.st = "nomatch"]
      BY <1>4, <1>7, <2>2 DEF Chain!Header, Chain!Stop
    <3>2. QED
      BY <1>3, <2>2, <3>1 DEF Refusing
  <2>3. CASE admit
    <3> DEFINE buf == Drop(b, 2)
               yes == TRUE
               e1 == Opened(c.e, buf)
               e2 == Chained(e1)
    <3>1. h = [c EXCEPT !.e.has_header = TRUE, !.e.recv_buf = Chain!Drop(@, 2), !.e.recv_hash = 0, !.e.sent_hash = 0, !.back = TRUE]
      BY <1>4, <1>7, <2>1, <2>3 DEF Chain!Header
    <3>2. h = [c EXCEPT !.e = e2, !.back = yes]
      BY <3>1 DEF CallSet, Opened, Chained, Drop, Chain!Drop
    <3>3. 2 \in 0 .. Len(b)
      BY <1>1, <1>7
    <3>4. buf \in Seq(CellSet)
      BY <1>1, <3>3, DropIs
    <3>5. c.e \in EndSet /\ Idle(c.e)
      BY CallParts DEF Alike, Unheaded, Idle, Kept
    <3> HIDE DEF buf, e1, e2, yes, h
    <3>60. e1 \in EndSet /\ Idle(e1) /\ e1.has_header /\ e1.recv_buf = buf
      BY <3>4, <3>5, OpenedIs DEF e1
    <3>6. e2 \in EndSet /\ Idle(e2) /\ e2.has_header /\ e2.recv_buf = buf
      BY <3>60, ChainedIs DEF e2
    <3>7. buf = Drop(b, HeadLen("auth_chain"))
      BY DEF buf, HeadLen, Hashed
    <3>8. Greeted("auth_chain", b, d, h)
      BY <1>2, <3>2, <3>6, <3>7, GreetedIs, Zenon DEF yes
    <3>9. Len(b) > 1
      BY <1>7
    <3>10. QED
      BY <1>1, <3>8, <3>9 DEF h
  <2>4. QED
    BY <2>2, <2>3
<1>8. Len(b) = 1 \/ Len(b) > 1
  <2> DEFINE n == Len(b)
  <2>1. n \in Nat /\ n > 0
    BY <1>1
  <2> HIDE DEF n
  <2>2. n = 1 \/ n > 1
    BY <2>1
  <2>3. QED
    BY <2>2 DEF n
<1>9. QED
  BY <1>0, <1>5, <1>7, <1>8
LEMMA AkarinHeader ==
    ASSUME NEW e, NEW c, NEW b, NEW d, NEW hd, NEW iv, NEW admit,
           Unheaded(e), c \in CallSet, c.st = "go", c.ret = <<>>, c.e.recv_buf = b, Alike(c.e, e),
           HeadCells("auth_akarin", d, hd), Led("auth_akarin", b, hd), b # <<>>, iv \in BOOLEAN, admit \in BOOLEAN
    PROVE  LET h == Akarin!Header(c, iv, admit)
           IN  \/ Len(b) < 2 /\ h = [c EXCEPT !.st = "stop"]
               \/ Refusing(c, h, b, iv /\ admit)
               \/ Len(b) >= 2 /\ Greeted("auth_akarin", b, d, h)
<1> DEFINE h == Akarin!Header(c, iv, admit)
<1>1. b \in Seq(CellSet) /\ Len(b) \in Nat /\ Len(b) > 0
  BY DEF Led
<1>2. /\ Len(hd) = 2 /\ hd[1].t = "h1" /\ hd[1].ok /\ hd[2].ok /\ d = <<>> /\ hd[1].f.mss = "drawn" /\ d \in Seq(Nat)
      /\ \A i \in 1 .. 2 : i <= Len(b) => b[i] = hd[i]
  BY DEF HeadCells, HeadLen, Hashed, Led
<1>3. b[1].t = "h1" /\ b[1].ok /\ b[1].f.mss = "drawn"
  BY <1>1, <1>2
<1>4. Akarin!IsGood(b[1], "h1")
  BY <1>3 DEF Akarin!IsGood
<1>0. CASE ~iv
  <2>1. h = [c EXCEPT !.st = "nomatch"]
    BY <1>0, <1>1 DEF Akarin!Header, Akarin!Stop
  <2>2. QED
    BY <1>0, <1>3, <2>1 DEF Refusing
<1>5. CASE iv /\ Len(b) = 1
  <2>1. h = [c EXCEPT !.st = "stop"]
    BY <1>4, <1>5 DEF Akarin!Header, Akarin!Stop
  <2>2. Len(b) = 1
    BY <1>5
  <2>3. QED
    BY <2>1, <2>2
<1>7. CASE iv /\ Len(b) > 1
  <2>1. b[2].ok
    BY <1>1, <1>2, <1>7
  <2>2. CASE ~admit
    <3>1. h = [c EXCEPT !.st = "nomatch"]
      BY <1>4, <1>7, <2>2 DEF Akarin!Header, Akarin!Stop
    <3>2. QED
      BY <1>3, <2>2, <3>1 DEF Refusing
  <2>3. CASE admit
    <3> DEFINE buf == Drop(b, 2)
               yes == TRUE
               e1 == Opened(c.e, buf)
               e3 == Chained(e1)
               m == b[1].f.mss
               e2 == Agreed(e3, m)
    <3>1. h = [c EXCEPT !.e.has_header = TRUE, !.e.recv_buf = Akarin!Drop(@, 2), !.e.recv_hash = 0, !.e.sent_hash = 0,
                     !.e.recv_tcp_mss = b[1].f.mss, !.e.send_tcp_mss = b[1].f.mss, !.back = TRUE]
      BY <1>4, <1>7, <2>1, <2>3 DEF Akarin!Header
    <3>2. h = [c EXCEPT !.e = e2, !.back = yes]
      BY <3>1, ZenonT(40) DEF CallSet, Opened, Chained, Agreed, Drop, Akarin!Drop
    <3>3. 2 \in 0 .. Len(b)
      BY <1>1, <1>7
    <3>4. buf \in Seq(CellSet)
      BY <1>1, <3>3, DropIs
    <3>5. c.e \in EndSet /\ Idle(c.e)
      BY CallParts DEF Alike, Unheaded, Idle, Kept
    <3> HIDE DEF buf, e1, e2, e3, m, yes, h
    <3>60. e1 \in EndSet /\ Idle(e1) /\ e1.has_header /\ e1.recv_buf = buf
      BY <3>4, <3>5, OpenedIs DEF e1
    <3>61. e3 \in EndSet /\ Idle(e3) /\ e3.has_header /\ e3.recv_buf = buf
      BY <3>60, ChainedIs DEF e3
    <3>62. m = "drawn" /\ m \in Modes
      BY <1>3 DEF m, Modes
    <3>6. /\ e2 \in EndSet /\ Idle(e2) /\ e2.has_header /\ e2.recv_buf = buf
          /\ e2.recv_tcp_mss = "drawn" /\ e2.send_tcp_mss = "drawn"
      BY <3>61, <3>62, AgreedIs DEF e2
    <3>7. buf = Drop(b, HeadLen("auth_akarin"))
      BY DEF buf, HeadLen, Hashed
    <3>8. Greeted("auth_akarin", b, d, h)
      BY <1>2, <3>2, <3>6, <3>7, GreetedIs, ZenonT(40) DEF yes
    <3>9. Len(b) > 1
      BY <1>7
    <3>10. QED
      BY <1>1, <3>8, <3>9 DEF h
  <2>4. QED
    BY <2>2, <2>3
<1>8. Len(b) = 1 \/ Len(b) > 1
  <2> DEFINE n == Len(b)
  <2>1. n \in Nat /\ n > 0
    BY <1>1
  <2> HIDE DEF n
  <2>2. n = 1 \/ n > 1
    BY <2>1
  <2>3. QED
    BY <2>2 DEF n
<1>9. QED
  BY <1>0, <1>5, <1>7, <1>8

LEMMA HeaderIs ==
    ASSUME NEW e, NEW c, NEW b, NEW d, NEW hd, NEW iv, NEW admit,
           proto \in AllProtocols, Unheaded(e), c \in CallSet, c.st = "go", c.ret = <<>>,
           c.e.recv_buf = b, Alike(c.e, e),
           HeadCells(proto, d, hd), Led(proto, b, hd), b # <<>>, iv \in BOOLEAN, admit \in BOOLEAN
    PROVE  LET h == Header(c, iv, admit)
           IN  \/ Len(b) < HeadLen(proto) /\ h = [c EXCEPT !.st = "stop"]
               \/ Refusing(c, h, b, iv /\ admit)
               \/ Len(b) >= HeadLen(proto) /\ Greeted(proto, b, d, h)
<1>1. CASE proto = "auth_sha1_v4"
  <2>1. Header(c, iv, admit) = V4!Header(c, iv, admit) /\ HeadLen(proto) = 3
    BY <1>1 DEF Header, HeadLen, Hashed
  <2>2. QED
    BY <1>1, <2>1, V4Header
<1>2. CASE proto = "auth_aes128"
  <2>1. Header(c, iv, admit) = Aes!Header(c, iv, admit) /\ HeadLen(proto) = 3
    BY <1>2 DEF Header, HeadLen, Hashed
  <2>2. QED
    BY <1>2, <2>1, AesHeader
<1>3. CASE proto = "auth_chain"
  <2>1. Header(c, iv, admit) = Chain!Header(c, iv, admit) /\ HeadLen(proto) = 2
    BY <1>3 DEF Header, HeadLen, Hashed
  <2>2. QED
    BY <1>3, <2>1, ChainHeader
<1>4. CASE proto = "auth_akarin"
  <2>1. Header(c, iv, admit) = Akarin!Header(c, iv, admit) /\ HeadLen(proto) = 2
    BY <1>4 DEF Header, HeadLen, Hashed
  <2>2. QED
    BY <1>4, <2>1, AkarinHeader
<1>5. QED
  BY <1>1, <1>2, <1>3, <1>4 DEF AllProtocols

\* The stream after a header with data d.
Start(d) == [id |-> 1, hash |-> 0, got |-> d, cmd |-> FALSE]

\* The buffer b of the server and the wire w are a header and the stream s.
Heralds(pr, b, w, d, hd, s) ==
    /\ HeadCells(pr, d, hd) /\ b \in Seq(CellSet) /\ w \in Seq(CellSet) /\ s \in Seq(CellSet)
    /\ b \o w = hd \o s

LEMMA HeraldsLed ==
    ASSUME NEW pr, NEW b, NEW w, NEW d, NEW hd, NEW s, Heralds(pr, b, w, d, hd, s)
    PROVE  /\ Led(pr, b, hd)
           /\ Len(b) >= HeadLen(pr) => Drop(b, HeadLen(pr)) \in Seq(CellSet) /\ Drop(b, HeadLen(pr)) \o w = s
<1>1. /\ hd \in Seq(CellSet) /\ Len(hd) = HeadLen(pr)
      /\ b \in Seq(CellSet) /\ w \in Seq(CellSet) /\ s \in Seq(CellSet) /\ b \o w = hd \o s
  BY DEF Heralds, HeadCells
<1>2. /\ \A i \in 1 .. Len(hd) : i <= Len(b) => b[i] = hd[i]
      /\ Len(b) >= Len(hd) => Drop(b, Len(hd)) \in Seq(CellSet) /\ Drop(b, Len(hd)) \o w = s
  BY <1>1, CutTwice
<1>3. QED
  BY <1>1, <1>2 DEF Led

\* The server starts to read the frames after the header.
LEMMA GreetedReads ==
    ASSUME NEW pr, NEW b, NEW w, NEW d, NEW hd, NEW s, NEW z, NEW C, NEW h,
           Heralds(pr, b, w, d, hd, s), Len(b) >= HeadLen(pr), Greeted(pr, b, d, h),
           Flow(pr, "server", s, Start(d), z)
    PROVE  h \in Reading(pr, "server", w, z, C, <<>>, h.e)
<1> DEFINE no == FALSE
           e == h.e
<1>1. Drop(b, HeadLen(pr)) \o w = s /\ d \in Seq(Nat) /\ (Hashed(pr) => d = <<>>)
  BY HeraldsLed DEF Heralds, HeadCells
<1>2. h \in CallSet /\ h.st = "go" /\ h.ret = d /\ Idle(e) /\ e.recv_buf \o w = s
  BY <1>1 DEF Greeted
<1>3. e.recv_id = 1 /\ e.recv_hash = 0
  BY <1>2 DEF Idle
<1>4. Flow(pr, "server", e.recv_buf \o w, Here(e, d, no), z)
  BY <1>2, <1>3 DEF Here, Start
<1>5. C => d = <<>> \o h.ret
  BY <1>1, <1>2
<1>6. pr = "auth_akarin" => Tuned("server", e, e, no)
  BY DEF Greeted, Tuned
<1>7. Kept(e, e)
  BY DEF Kept
<1>8. IdOf(1, 0)
  BY IdModAssumption DEF IdOf
<1>9. Hashed(pr) => IdOf(e.recv_id, e.recv_hash) /\ (e.recv_hash = 0 => h.ret = <<>>)
  BY <1>1, <1>2, <1>3, <1>8
<1> HIDE DEF e, no
<1>10. /\ Flow(pr, "server", e.recv_buf \o w, Here(e, d, no), z) /\ (C => d = <<>> \o h.ret)
       /\ pr = "auth_akarin" => Tuned("server", e, e, no)
  BY <1>4, <1>5, <1>6
<1>11. \E g, c : /\ Flow(pr, "server", e.recv_buf \o w, Here(e, g, c), z) /\ (C => g = <<>> \o h.ret)
                 /\ pr = "auth_akarin" => Tuned("server", e, e, c)
  BY <1>10
<1>12. h \in Reading(pr, "server", w, z, C, <<>>, e)
  BY <1>2, <1>7, <1>9, <1>11 DEF Reading, e
<1>13. QED
  BY <1>12 DEF e

\* The outcomes of a call of the server before there is a header: it waits,
\* the header is refused, or frames are read by e1, the end with the header.
Paused(r, b) ==
    /\ r.st = "stop" /\ r.ret = <<>> /\ ~r.back
    /\ Unheaded(r.e) /\ r.e.recv_buf = b /\ Len(b) < HeadLen(proto)

Rejected(r, admit) ==
    /\ r.st = "nomatch" /\ ~admit /\ r.e \in EndSet /\ ~r.e.dead
    /\ r.e.recv_buf # <<>> /\ r.e.recv_buf[1].t = "h1"

Opens(r, w, z, C, e1) ==
    /\ e1 \in EndSet /\ e1.has_header /\ Idle(e1)
    /\ proto = "auth_akarin" => e1.send_tcp_mss = "drawn"
    /\ r \in Outcome(proto, "server", w, z, C, <<>>, e1) /\ r.st \in {"go", "stop"}

\* Without frames to read, the call returns what the header gave.
LEMMA NoFrames ==
    ASSUME NEW e, NEW chunk, NEW iv, NEW admit, NEW misread, NEW h,
           proto \in AllProtocols, h = Begun(e, chunk, iv, admit), h \in CallSet, h.st \in {"stop", "nomatch"},
           h.ret = <<>>
    PROVE  LET r == server_post_decrypt(e, chunk, iv, admit, misread)
           IN  r \in CallSet /\ r.st = h.st /\ r.ret = h.ret /\ r.back = h.back
               /\ r.e.recv_buf = h.e.recv_buf /\ Alike(r.e, h.e)
<1> DEFINE r == server_post_decrypt(e, chunk, iv, admit, misread)
<1>0. Alike(h.e, h.e)
  BY DEF Alike, Kept
<1>1. CASE proto = "auth_sha1_v4"
  <2> DEFINE H == IF e.has_header THEN V4!Call(e, chunk) ELSE V4!Header(V4!Call(e, chunk), iv, admit)
             Done(y) ==
               CASE y.st = "bad" -> V4!Stop(y, IF e.decrypt_packet_num = 0 THEN "junk" ELSE "raise")
                 [] y.st = "nomatch" -> y
                 [] y.st \in {"go", "stop"} ->
                      [y EXCEPT !.e.decrypt_packet_num = IF y.ret = <<>> THEN @ ELSE @ + 1]
  <2>1. h = H
    BY <1>1 DEF Begun, Header, V4!Call, Call
  <2>2. r = V4!server_post_decrypt(e, chunk, iv, admit)
    BY <1>1 DEF server_post_decrypt
  <2>3. V4!server_post_decrypt(e, chunk, iv, admit) = Done(IF H.st = "go" THEN V4!ReadFrames(H, V4!Turn) ELSE H)
    BY DEF V4!server_post_decrypt
  <2>4. r = Done(h)
    <3> HIDE DEF Done, H
    <3>1. QED
      BY <2>1, <2>2, <2>3
  <2> HIDE DEF r, H
  <2>5. CASE h.st = "nomatch"
    BY <1>0, <2>4, <2>5 DEF r
  <2>6. CASE h.st = "stop"
    <3> DEFINE k == h.e.decrypt_packet_num
    <3>1. r = [h EXCEPT !.e.decrypt_packet_num = k]
      BY <2>4, <2>6
    <3>2. h.e \in EndSet /\ k \in Nat
      BY CallParts, EndParts
    <3> HIDE DEF k
    <3> DEFINE e2 == [h.e EXCEPT !.decrypt_packet_num = k]
    <3>3. e2 \in EndSet /\ e2.recv_buf = h.e.recv_buf /\ Alike(e2, h.e)
      BY <3>2, PacketSet
    <3>4. r = [h EXCEPT !.e = e2]
      BY <3>1
    <3> HIDE DEF e2
    <3>5. r \in CallSet /\ r.e = e2 /\ r.st = h.st /\ r.ret = h.ret /\ r.back = h.back
      BY <3>3, <3>4 DEF CallSet
    <3>6. QED
      BY <3>3, <3>5 DEF r
  <2>7. QED
    BY <2>5, <2>6
<1>2. CASE proto # "auth_sha1_v4"
  <2>1. r = h
    <3>1. CASE proto = "auth_aes128"
      <4>1. h = IF e.has_header THEN Aes!Call(e, chunk) ELSE Aes!Header(Aes!Call(e, chunk), iv, admit)
        BY <3>1 DEF Begun, Header, Aes!Call, Call
      <4>2. QED
        BY <3>1, <4>1 DEF server_post_decrypt, Aes!server_post_decrypt
    <3>2. CASE proto = "auth_chain"
      <4>1. h = IF e.has_header THEN Chain!Call(e, chunk) ELSE Chain!Header(Chain!Call(e, chunk), iv, admit)
        BY <3>2 DEF Begun, Header, Chain!Call, Call
      <4>2. QED
        BY <3>2, <4>1 DEF server_post_decrypt, Chain!server_post_decrypt
    <3>3. CASE proto = "auth_akarin"
      <4>1. h = IF e.has_header THEN Akarin!Call(e, chunk) ELSE Akarin!Header(Akarin!Call(e, chunk), iv, admit)
        BY <3>3 DEF Begun, Header, Akarin!Call, Call
      <4>2. QED
        BY <3>3, <4>1 DEF server_post_decrypt, Akarin!server_post_decrypt
    <3>4. QED
      BY <1>2, <3>1, <3>2, <3>3 DEF AllProtocols
  <2>2. QED
    BY <1>0, <2>1
<1>3. QED
  BY <1>1, <1>2

LEMMA FirstReads ==
    ASSUME NEW e, NEW chunk, NEW iv, NEW admit, NEW misread, NEW w, NEW z, NEW C, NEW d, NEW hd, NEW s,
           proto \in AllProtocols, Unheaded(e), chunk \in Seq(CellSet), chunk # <<>>, w \in Seq(CellSet),
           iv \in BOOLEAN, admit \in BOOLEAN, C \in BOOLEAN,
           Heralds(proto, e.recv_buf \o chunk, w, d, hd, s), Flow(proto, "server", s, Start(d), z), ~z.cmd
    PROVE  LET r == server_post_decrypt(e, chunk, iv, admit, misread)
           IN  \/ Paused(r, e.recv_buf \o chunk)
               \/ Rejected(r, iv /\ admit)
               \/ \E e1 : Opens(r, w, z, C, e1)
<1> DEFINE b == e.recv_buf \o chunk
           c == Call(e, chunk)
           h == Header(c, iv, admit)
           r == server_post_decrypt(e, chunk, iv, admit, misread)
<1>1. e \in EndSet /\ ~e.has_header /\ e.recv_buf \in Seq(CellSet)
  BY EndParts DEF Unheaded
<1>2. /\ c \in CallSet /\ c.st = "go" /\ c.ret = <<>> /\ c.back = FALSE
      /\ c.e.recv_buf = b /\ Alike(c.e, e)
  BY <1>1, CallIs, ZenonT(40)
<1>3. b \in Seq(CellSet) /\ b # <<>>
  BY <1>1
<1>4. h = Begun(e, chunk, iv, admit)
  BY <1>1 DEF Begun
<1>5. Led(proto, b, hd) /\ HeadCells(proto, d, hd)
  BY HeraldsLed DEF Heralds
<1> HIDE DEF b, c, h
<1>6. \/ Len(b) < HeadLen(proto) /\ h = [c EXCEPT !.st = "stop"]
      \/ Refusing(c, h, b, iv /\ admit)
      \/ Len(b) >= HeadLen(proto) /\ Greeted(proto, b, d, h)
  BY <1>2, <1>3, <1>5, HeaderIs DEF h
<1>7. CASE Len(b) < HeadLen(proto) /\ h = [c EXCEPT !.st = "stop"]
  <2>1. h \in CallSet /\ h.st = "stop" /\ h.ret = <<>> /\ h.back = FALSE /\ h.e = c.e
    BY <1>2, <1>7 DEF CallSet
  <2>2. /\ r \in CallSet /\ r.st = "stop" /\ r.ret = <<>> /\ ~r.back /\ r.e.recv_buf = b /\ Alike(r.e, c.e)
    BY <1>2, <1>4, <2>1, NoFrames
  <2> HIDE DEF r
  <2>3. Unheaded(r.e)
    <3>1. r.e \in EndSet
      BY <2>2, CallParts
    <3>2. QED
      BY <1>2, <2>2, <3>1 DEF Unheaded, Idle, Alike, Kept
  <2>4. QED
    BY <1>7, <2>2, <2>3 DEF Paused, r, b
<1>8. CASE Refusing(c, h, b, iv /\ admit)
  <2>1. h = [c EXCEPT !.st = "nomatch"] /\ ~(iv /\ admit) /\ b # <<>> /\ b[1].t = "h1"
    BY <1>8 DEF Refusing
  <2>2. h \in CallSet /\ h.st = "nomatch" /\ h.ret = <<>> /\ h.e = c.e
    BY <1>2, <2>1 DEF CallSet
  <2>3. r \in CallSet /\ r.st = "nomatch" /\ r.e.recv_buf = b /\ Alike(r.e, h.e)
    BY <1>2, <1>4, <2>2, NoFrames
  <2> HIDE DEF r
  <2>4. ~r.e.dead
    BY <1>2, <2>2, <2>3 DEF Alike, Kept, Unheaded, Idle
  <2>5. QED
    BY <2>1, <2>3, <2>4, CallParts DEF Rejected, r
<1>9. CASE Len(b) >= HeadLen(proto) /\ Greeted(proto, b, d, h)
  <2> DEFINE e1 == h.e
             o == <<>>
  <2>1. Heralds(proto, b, w, d, hd, s)
    BY DEF b
  <2>2. h \in Reading(proto, "server", w, z, C, <<>>, h.e)
    BY <1>9, <2>1, GreetedReads
  <2>3. /\ h.st = "go" /\ e1 \in EndSet /\ e1.has_header /\ Idle(e1)
        /\ proto = "auth_akarin" => e1.recv_tcp_mss = "drawn" /\ e1.send_tcp_mss = "drawn"
    BY <1>9 DEF Greeted
  <2>4. o \in Seq(Nat) /\ h \in Reading(proto, "server", w, z, C, o, e1)
    BY <2>2
  <2>5. Obeyable(z, e1)
    BY DEF Obeyable
  <2> HIDE DEF o, e1, r
  <2>6. Ended(r, w, z, C, o, e1)
    BY <1>4, <2>3, <2>4, <2>5, ServerReads DEF r
  <2>7. r \in Outcome(proto, "server", w, z, C, o, e1) /\ r.st \in {"go", "stop"}
    BY <2>3, <2>6 DEF Ended, Apart
  <2>8. Opens(r, w, z, C, e1)
    BY <2>3, <2>7 DEF Opens, o
  <2>9. QED
    BY <2>8 DEF r
<1>10. QED
  BY <1>6, <1>7, <1>8, <1>9 DEF r

\* A call of the server that has its header.
LEMMA LaterReads ==
    ASSUME NEW e, NEW chunk, NEW iv, NEW admit, NEW misread, NEW w, NEW z, NEW C, NEW o,
           proto \in AllProtocols, e.has_header, chunk \in Seq(CellSet), w \in Seq(CellSet), o \in Seq(Nat),
           C \in BOOLEAN, Waiting(proto, "server", e, chunk \o w, z, C, o), Obeyable(z, e)
    PROVE  Ended(server_post_decrypt(e, chunk, iv, admit, misread), w, z, C, o, e)
<1> DEFINE h == Call(e, chunk)
<1>1. h \in Reading(proto, "server", w, z, C, o, e)
  BY CallReads
<1>2. h = Begun(e, chunk, iv, admit)
  BY DEF Begun
<1>3. h.st = "go"
  BY CallIs DEF Waiting
<1> HIDE DEF h
<1>4. QED
  BY <1>1, <1>2, <1>3, ServerReads

-----------------------------------------------------------------------------
(* The writes of the ends.                                                 *)

ClientAll(e, P, pad) ==
    CASE proto = "auth_sha1_v4" -> V4!PackAll(e, P, V4!pack_data)
      [] proto = "auth_aes128" -> Aes!PackAll(e, P, Aes!pack_data)
      [] proto = "auth_chain" -> ChainClientAll(e, P, pad)
      [] proto = "auth_akarin" -> AkarinClientAll(e, P, pad)

ServerAll(e, P, pad) ==
    CASE proto = "auth_sha1_v4" -> V4!PackAll(e, P, V4!pack_data)
      [] proto = "auth_aes128" -> Aes!PackAll(e, P, Aes!pack_data)
      [] proto = "auth_chain" -> ChainServerAll(e, P, pad)
      [] proto = "auth_akarin" -> AkarinServerAll(e, P, pad)

LEMMA ClientAllMade ==
    ASSUME NEW e, NEW P, NEW pad,
           proto \in AllProtocols, e \in EndSet, P \in Seq(Seq(Nat)), pad \in BOOLEAN
    PROVE  \E F : MadeAll(proto, "server", e, P, F) /\ ClientAll(e, P, pad) = F[Len(P)]
<1>1. CASE proto = "auth_sha1_v4"
  <2>1. PICK F : MadeAll("auth_sha1_v4", "server", e, P, F) /\ V4!PackAll(e, P, V4!pack_data) = F[Len(P)]
    BY V4Posts
  <2>2. QED
    BY <1>1, <2>1 DEF ClientAll
<1>2. CASE proto = "auth_aes128"
  <2>1. PICK F : MadeAll("auth_aes128", "server", e, P, F) /\ Aes!PackAll(e, P, Aes!pack_data) = F[Len(P)]
    BY AesPosts
  <2>2. QED
    BY <1>2, <2>1 DEF ClientAll
<1>3. CASE proto = "auth_chain"
  <2>1. PICK F : /\ MadeAll("auth_chain", "server", e, P, F)
                 /\ ChainClientAll(e, P, pad) = F[Len(P)]
    BY ChainClientPosts
  <2>2. QED
    BY <1>3, <2>1 DEF ClientAll
<1>4. CASE proto = "auth_akarin"
  <2>1. PICK F : /\ MadeAll("auth_akarin", "server", e, P, F)
                 /\ AkarinClientAll(e, P, pad) = F[Len(P)]
    BY AkarinClientPosts
  <2>2. QED
    BY <1>4, <2>1 DEF ClientAll
<1>5. QED
  BY <1>1, <1>2, <1>3, <1>4 DEF AllProtocols

LEMMA ServerAllMade ==
    ASSUME NEW e, NEW P, NEW pad,
           proto \in AllProtocols, e \in EndSet, P \in Seq(Seq(Nat)), pad \in BOOLEAN
    PROVE  \E F : MadeAll(proto, "client", e, P, F) /\ ServerAll(e, P, pad) = F[Len(P)]
<1>1. CASE proto = "auth_sha1_v4"
  <2>1. PICK F : MadeAll("auth_sha1_v4", "client", e, P, F) /\ V4!PackAll(e, P, V4!pack_data) = F[Len(P)]
    BY V4Posts
  <2>2. QED
    BY <1>1, <2>1 DEF ServerAll
<1>2. CASE proto = "auth_aes128"
  <2>1. PICK F : MadeAll("auth_aes128", "client", e, P, F) /\ Aes!PackAll(e, P, Aes!pack_data) = F[Len(P)]
    BY AesPosts
  <2>2. QED
    BY <1>2, <2>1 DEF ServerAll
<1>3. CASE proto = "auth_chain"
  <2>1. PICK F : /\ MadeAll("auth_chain", "client", e, P, F)
                 /\ ChainServerAll(e, P, pad) = F[Len(P)]
    BY ChainServerPosts
  <2>2. QED
    BY <1>3, <2>1 DEF ServerAll
<1>4. CASE proto = "auth_akarin"
  <2>1. PICK F : /\ MadeAll("auth_akarin", "client", e, P, F)
                 /\ AkarinServerAll(e, P, pad) = F[Len(P)]
    BY AkarinServerPosts
  <2>2. QED
    BY <1>4, <2>1 DEF ServerAll
<1>5. QED
  BY <1>1, <1>2, <1>3, <1>4 DEF AllProtocols

\* All the pieces of s are written to end x, with the server's tcp_mss where it belongs.
LEMMA ClientSends ==
    ASSUME NEW e, NEW s, NEW pad, NEW u, NEW a, NEW D,
           proto \in AllProtocols, e \in EndSet, s \in Seq(Nat), pad \in BOOLEAN,
           u \in Seq(CellSet), D \in Seq(Nat), Ready(proto, "server", e),
           Sends(proto, "server", u, a, e, D)
    PROVE  Wrote(proto, "server", u, a, e, D \o s, ClientAll(e, Pieces(s), pad))
<1> DEFINE x == "server"
           P == Posts(proto, x, e, s)
<1>1. x \in Ends /\ x # "client"
  BY DEF Ends
<1>2. P = Pieces(s)
  BY <1>1 DEF Posts, WithMss
<1>3. P \in Seq(Seq(Nat))
  BY <1>2, PiecesIs
<1>4. Ready(proto, x, e) /\ Sends(proto, x, u, a, e, D)
  OBVIOUS
<1>5. \E F : MadeAll(proto, x, e, P, F) /\ ClientAll(e, P, pad) = F[Len(P)]
  <2> HIDE DEF P
  <2>1. QED
    BY <1>3, ClientAllMade
<1>6. PICK F : MadeAll(proto, x, e, P, F) /\ ClientAll(e, P, pad) = F[Len(P)]
  BY <1>5
<1> HIDE DEF x
<1>7. Wrote(proto, x, u, a, e, D \o s, F[Len(P)])
  BY <1>1, <1>4, <1>6, WriteFlows
<1>8. Wrote(proto, x, u, a, e, D \o s, ClientAll(e, P, pad))
  BY <1>6, <1>7
<1>9. QED
  BY <1>2, <1>8 DEF x

LEMMA ServerSends ==
    ASSUME NEW e, NEW s, NEW pad, NEW u, NEW a, NEW D,
           proto \in AllProtocols, e \in EndSet, s \in Seq(Nat), pad \in BOOLEAN,
           u \in Seq(CellSet), D \in Seq(Nat), Ready(proto, "client", e),
           Sends(proto, "client", u, a, e, D)
    PROVE  Wrote(proto, "client", u, a, e, D \o s, ServerAll(e, Posts(proto, "client", e, s), pad))
<1> DEFINE x == "client"
           P == Posts(proto, x, e, s)
<1>1. x \in Ends
  BY DEF Ends
<1>2. Ready(proto, x, e) /\ Sends(proto, x, u, a, e, D)
  OBVIOUS
<1> HIDE DEF x
<1>3. P \in Seq(Seq(Nat))
  BY PostsIs
<1>4. \E F : MadeAll(proto, x, e, P, F) /\ ServerAll(e, P, pad) = F[Len(P)]
  <2> HIDE DEF P
  <2>1. QED
    BY <1>3, ServerAllMade DEF x
<1>5. PICK F : MadeAll(proto, x, e, P, F) /\ ServerAll(e, P, pad) = F[Len(P)]
  BY <1>4
<1>6. Wrote(proto, x, u, a, e, D \o s, F[Len(P)])
  BY <1>1, <1>2, <1>5, WriteFlows
<1>7. Wrote(proto, x, u, a, e, D \o s, ServerAll(e, P, pad))
  BY <1>5, <1>6
<1>8. QED
  BY <1>7 DEF x

\* An end as the constructor leaves it.
Newborn(e) ==
    /\ e \in EndSet /\ Idle(e) /\ ~e.has_header /\ e.recv_buf = <<>> /\ e.recv_tcp_mss = "default"

LEMMA NewEndIs ==
    ASSUME NEW k, k \in Nat
    PROVE  /\ Newborn(NewEnd) /\ NewEnd.send_tcp_mss = "default" /\ NewEnd.new_send_tcp_mss = "default"
           /\ Newborn([NewEnd EXCEPT !.extra_wait = k])
<1> DEFINE B == Seq(CellSet)
           nil == <<>>
           E == [has_header : BOOLEAN, raw_trans : BOOLEAN, dead : BOOLEAN,
                 recv_buf : B, pack_id : Nat, recv_id : Nat,
                 sent_hash : Nat, recv_hash : Nat, decrypt_packet_num : Nat,
                 extra_wait : Nat, send_tcp_mss : Modes, recv_tcp_mss : Modes,
                 new_send_tcp_mss : Modes, send_back_cmd : BOOLEAN]
           e == [has_header |-> FALSE, raw_trans |-> FALSE, dead |-> FALSE,
                 recv_buf |-> nil, pack_id |-> 1, recv_id |-> 1,
                 sent_hash |-> 0, recv_hash |-> 0, decrypt_packet_num |-> 0,
                 extra_wait |-> 0, send_tcp_mss |-> "default", recv_tcp_mss |-> "default",
                 new_send_tcp_mss |-> "default", send_back_cmd |-> FALSE]
           e2 == [e EXCEPT !.extra_wait = k]
<1>1. NewEnd = e
  BY DEF NewEnd
<1>2. nil \in B
  OBVIOUS
<1> HIDE DEF B, nil
<1>3. e \in E
  BY <1>2 DEF Modes
<1>4. /\ Idle(e) /\ ~e.has_header /\ e.recv_buf = nil /\ e.recv_tcp_mss = "default"
      /\ e.send_tcp_mss = "default" /\ e.new_send_tcp_mss = "default"
  BY DEF Idle
<1> HIDE DEF e
<1>5. e2 \in E
  BY <1>3
<1>6. Idle(e2) /\ ~e2.has_header /\ e2.recv_buf = nil /\ e2.recv_tcp_mss = "default"
  BY <1>3, <1>4 DEF Idle
<1> HIDE DEF e2
<1>7. Newborn(e) /\ Newborn(e2)
  BY <1>3, <1>4, <1>5, <1>6 DEF Newborn, EndSet, B, nil
<1>8. QED
  BY <1>1, <1>4, <1>7 DEF e2

\* The client makes its header.
Heading(e) == [e EXCEPT !.has_header = TRUE]
Unchained(e) == [e EXCEPT !.sent_hash = 0, !.recv_hash = 0]
Drawing(e) == [e EXCEPT !.send_tcp_mss = "drawn", !.sent_hash = 0, !.recv_hash = 0]

\* What the writes of the client, and the readings of the server, start from.
Headed(e) ==
    /\ e \in EndSet /\ Idle(e) /\ e.has_header /\ e.recv_buf = <<>> /\ e.recv_tcp_mss = "default"

LEMMA HeadingIs ==
    ASSUME NEW e, Newborn(e)
    PROVE  Headed(Heading(e))
<1> DEFINE B == Seq(CellSet)
           nil == <<>>
           E == [has_header : BOOLEAN, raw_trans : BOOLEAN, dead : BOOLEAN,
                 recv_buf : B, pack_id : Nat, recv_id : Nat,
                 sent_hash : Nat, recv_hash : Nat, decrypt_packet_num : Nat,
                 extra_wait : Nat, send_tcp_mss : Modes, recv_tcp_mss : Modes,
                 new_send_tcp_mss : Modes, send_back_cmd : BOOLEAN]
           e2 == Heading(e)
<1>1. e \in E /\ Idle(e) /\ e.recv_buf = nil /\ e.recv_tcp_mss = "default"
  BY DEF Newborn, EndSet
<1> HIDE DEF B, nil
<1>2. e2 \in E
  BY <1>1 DEF Heading
<1>3. Idle(e2) /\ e2.has_header /\ e2.recv_buf = nil /\ e2.recv_tcp_mss = "default"
  BY <1>1 DEF Idle, Heading
<1>4. QED
  BY <1>2, <1>3 DEF Headed, EndSet, B, nil

LEMMA UnchainedIs ==
    ASSUME NEW e, Headed(e)
    PROVE  Headed(Unchained(e)) /\ Headed(Drawing(e)) /\ Drawing(e).send_tcp_mss = "drawn"
<1> DEFINE B == Seq(CellSet)
           nil == <<>>
           E == [has_header : BOOLEAN, raw_trans : BOOLEAN, dead : BOOLEAN,
                 recv_buf : B, pack_id : Nat, recv_id : Nat,
                 sent_hash : Nat, recv_hash : Nat, decrypt_packet_num : Nat,
                 extra_wait : Nat, send_tcp_mss : Modes, recv_tcp_mss : Modes,
                 new_send_tcp_mss : Modes, send_back_cmd : BOOLEAN]
           e2 == Unchained(e)
           e3 == Drawing(e)
<1>1. e \in E /\ Idle(e) /\ e.has_header /\ e.recv_buf = nil /\ e.recv_tcp_mss = "default"
  BY DEF Headed, EndSet
<1> HIDE DEF B, nil
<1>2. e2 \in E
  BY <1>1 DEF Unchained
<1>3. Idle(e2) /\ e2.has_header /\ e2.recv_buf = nil /\ e2.recv_tcp_mss = "default"
  BY <1>1 DEF Idle, Unchained
<1>4. e3 \in E
  BY <1>1 DEF Drawing, Modes
<1>5. /\ Idle(e3) /\ e3.has_header /\ e3.recv_buf = nil /\ e3.recv_tcp_mss = "default"
      /\ e3.send_tcp_mss = "drawn"
  BY <1>1 DEF Idle, Drawing
<1>6. QED
  BY <1>2, <1>3, <1>4, <1>5 DEF Headed, EndSet, B, nil

LEMMA HeadedSends ==
    ASSUME NEW pr, NEW e, NEW d,
           Headed(e), d \in Seq(Nat), pr = "auth_akarin" => e.send_tcp_mss = "drawn"
    PROVE  Sends(pr, "server", <<>>, Start(d), e, d) /\ Ready(pr, "server", e)
<1> DEFINE no == FALSE
           a == Start(d)
           nil == <<>>
<1>1. e.pack_id = 1 /\ e.sent_hash = 0 /\ ~e.send_back_cmd
  BY DEF Headed, Idle
<1>2. a = There(e, d, no)
  BY <1>1 DEF There, Start
<1>3. a \in PlaceSet
  BY DEF PlaceSet, Start
<1>4. Flow(pr, "server", nil, a, a)
  <2> HIDE DEF a
  <2>1. QED
    BY <1>3, FlowNone
<1> HIDE DEF a, nil
<1>5. Flow(pr, "server", nil, a, There(e, d, no)) /\ (no => Orders(pr, "server", e))
  BY <1>2, <1>4
<1> HIDE DEF no
<1>6. Sends(pr, "server", nil, a, e, d)
  BY <1>5 DEF Sends
<1>7. IdOf(1, 0)
  BY IdModAssumption DEF IdOf
<1>8. Ready(pr, "server", e)
  BY <1>1, <1>7 DEF Ready
<1>9. QED
  BY <1>6, <1>8 DEF a, nil

LEMMA HeadCellsIs ==
    ASSUME NEW d, d \in Seq(Nat)
    PROVE  LET mine == [NewFrame(<<>>) EXCEPT !.mss = "drawn"]
           IN  /\ HeadCells("auth_sha1_v4", d, Cut(NewFrame(d), <<"h1", "h2", "h3">>))
               /\ HeadCells("auth_aes128", d, Cut(NewFrame(d), <<"h1", "h2", "h3">>))
               /\ HeadCells("auth_chain", <<>>, Cut(NewFrame(<<>>), <<"h1", "h2">>))
               /\ HeadCells("auth_akarin", <<>>, Cut(mine, <<"h1", "h2">>))
<1>1. ASSUME NEW f, f \in FrameSet
      PROVE  LET c == Cut(f, <<"h1", "h2", "h3">>)
             IN  c \in Seq(CellSet) /\ Len(c) = 3 /\ c[1].t = "h1" /\ c[1].f = f /\ \A i \in 1 .. 3 : c[i].ok
  <2> DEFINE T == <<"h1", "h2", "h3">>
             c == Cut(f, T)
  <2>1. DOMAIN T = 1 .. 3 /\ \A i \in 1 .. 3 : T[i] \in Parts
    BY DEF Parts
  <2>2. T[1] = "h1"
    OBVIOUS
  <2> HIDE DEF T
  <2>3. c = [i \in 1 .. 3 |-> [t |-> T[i], f |-> f, ok |-> TRUE]]
    BY <2>1 DEF Cut
  <2>4. \A i \in 1 .. 3 : [t |-> T[i], f |-> f, ok |-> TRUE] \in CellSet
    BY <1>1, <2>1 DEF CellSet
  <2>5. c \in [1 .. 3 -> CellSet]
    <3> HIDE DEF c
    <3>1. QED
      BY <2>3, <2>4
  <2>6. c \in Seq(CellSet) /\ Len(c) = 3
    BY <2>5, FunctionSeq
  <2>7. \A i \in 1 .. 3 : c[i].t = T[i] /\ c[i].f = f /\ c[i].ok
    BY <2>3
  <2>8. QED
    BY <2>2, <2>6, <2>7 DEF T
<1>2. ASSUME NEW f, f \in FrameSet
      PROVE  LET c == Cut(f, <<"h1", "h2">>)
             IN  c \in Seq(CellSet) /\ Len(c) = 2 /\ c[1].t = "h1" /\ c[1].f = f /\ \A i \in 1 .. 2 : c[i].ok
  <2> DEFINE T == <<"h1", "h2">>
             c == Cut(f, T)
  <2>1. DOMAIN T = 1 .. 2 /\ \A i \in 1 .. 2 : T[i] \in Parts
    BY DEF Parts
  <2>2. T[1] = "h1"
    OBVIOUS
  <2> HIDE DEF T
  <2>3. c = [i \in 1 .. 2 |-> [t |-> T[i], f |-> f, ok |-> TRUE]]
    BY <2>1 DEF Cut
  <2>4. \A i \in 1 .. 2 : [t |-> T[i], f |-> f, ok |-> TRUE] \in CellSet
    BY <1>2, <2>1 DEF CellSet
  <2>5. c \in [1 .. 2 -> CellSet]
    <3> HIDE DEF c
    <3>1. QED
      BY <2>3, <2>4
  <2>6. c \in Seq(CellSet) /\ Len(c) = 2
    BY <2>5, FunctionSeq
  <2>7. \A i \in 1 .. 2 : c[i].t = T[i] /\ c[i].f = f /\ c[i].ok
    BY <2>3
  <2>8. QED
    BY <2>2, <2>6, <2>7 DEF T
<1>3. ASSUME NEW g, g \in Seq(Nat)
      PROVE  /\ NewFrame(g) \in FrameSet /\ NewFrame(g).d = g
             /\ [NewFrame(g) EXCEPT !.mss = "drawn"] \in FrameSet
             /\ [NewFrame(g) EXCEPT !.mss = "drawn"].mss = "drawn"
  <2> DEFINE zero == 0
             mode == "default"
             drawn == "drawn"
             no == FALSE
             three == 3
             F(m) == [d |-> g, id |-> zero, prev |-> zero, mss |-> m, cmd |-> no, exact |-> no, size |-> three]
  <2>1. /\ zero \in Nat /\ mode \in Modes /\ drawn \in Modes /\ no \in BOOLEAN /\ three \in {2, 3}
        /\ three = 2 => g = <<>>
    BY DEF Modes
  <2>2. NewFrame(g) = F(mode)
    BY DEF NewFrame
  <2>3. F(mode).d = g /\ F(mode).size = three
    OBVIOUS
  <2> HIDE DEF zero, mode, drawn, no, three
  <2>4. F(mode) \in FrameSet
    BY <1>3, <2>1, NewFrameIs
  <2> DEFINE f == NewFrame(g)
             D == Seq(Nat)
             f2 == [f EXCEPT !.mss = drawn]
  <2>5. f \in FrameSet /\ f.d = g
    BY <2>2, <2>3, <2>4
  <2>6. f2 \in FrameSet /\ f2.mss = drawn
    <3>1. f \in [d : D, id : Nat, prev : Nat, mss : Modes, cmd : BOOLEAN, exact : BOOLEAN, size : {2, 3}]
          /\ (f.size = 2 => f.d = <<>>)
      BY <2>5 DEF FrameSet
    <3> HIDE DEF D, f
    <3>2. /\ f2 \in [d : D, id : Nat, prev : Nat, mss : Modes, cmd : BOOLEAN, exact : BOOLEAN, size : {2, 3}]
          /\ f2.mss = drawn /\ f2.size = f.size /\ f2.d = f.d
      BY <2>1, <3>1
    <3>3. QED
      BY <3>1, <3>2 DEF FrameSet, D
  <2>7. QED
    BY <2>5, <2>6 DEF drawn
<1> DEFINE nil == <<>>
           mine == [NewFrame(nil) EXCEPT !.mss = "drawn"]
<1>4. nil \in Seq(Nat)
  OBVIOUS
<1>5. /\ NewFrame(d) \in FrameSet /\ NewFrame(d).d = d /\ NewFrame(nil) \in FrameSet /\ mine \in FrameSet
      /\ mine.mss = "drawn"
  BY <1>3, <1>4
<1> HIDE DEF nil, mine
<1>6. /\ HeadCells("auth_sha1_v4", d, Cut(NewFrame(d), <<"h1", "h2", "h3">>))
      /\ HeadCells("auth_aes128", d, Cut(NewFrame(d), <<"h1", "h2", "h3">>))
  BY <1>1, <1>5 DEF HeadCells, HeadLen, Hashed
<1>7. /\ HeadCells("auth_chain", nil, Cut(NewFrame(nil), <<"h1", "h2">>))
      /\ HeadCells("auth_akarin", nil, Cut(mine, <<"h1", "h2">>))
  BY <1>2, <1>4, <1>5 DEF HeadCells, HeadLen, Hashed, nil
<1>8. QED
  BY <1>6, <1>7 DEF mine, nil

\* The side of an end that receives has done nothing yet.
Listening(e) ==
    /\ e \in EndSet /\ e.has_header /\ ~e.dead /\ ~e.raw_trans /\ ~e.send_back_cmd
    /\ e.recv_buf = <<>> /\ e.recv_id = 1 /\ e.recv_hash = 0 /\ e.recv_tcp_mss = "default"

\* The first write of the client, of the data D.
Hailed(D, p) ==
    /\ Listening(p.e) /\ Ready(proto, "server", p.e)
    /\ \E d, hd, s : /\ HeadCells(proto, d, hd) /\ s \in Seq(CellSet) /\ p.cells = hd \o s
                     /\ Sends(proto, "server", s, Start(d), p.e, D)

LEMMA ClientAllSet ==
    ASSUME NEW e, NEW P, NEW pad,
           proto \in AllProtocols, e \in EndSet, P \in Seq(Seq(Nat)), pad \in BOOLEAN
    PROVE  ClientAll(e, P, pad) \in PackSet
<1>1. PICK F : MadeAll(proto, "server", e, P, F) /\ ClientAll(e, P, pad) = F[Len(P)]
  BY ClientAllMade
<1>2. Len(P) \in 0 .. Len(P)
  OBVIOUS
<1>3. QED
  BY <1>1, <1>2 DEF MadeAll

LEMMA SparedListening ==
    ASSUME NEW e, NEW e2, Spared(e2, e), e2 \in EndSet, Listening(e)
    PROVE  Listening(e2)
BY DEF Spared, Listening

\* What is written after the header hd and the cells u.
LEMMA HailedIs ==
    ASSUME NEW e, NEW d, NEW hd, NEW u, NEW D, NEW s, NEW pad, NEW q, NEW p, NEW h,
           proto \in AllProtocols, Headed(e) \/ Listening(e), e \in EndSet, s \in Seq(Nat), pad \in BOOLEAN,
           u \in Seq(CellSet), D \in Seq(Nat),
           Ready(proto, "server", e), Sends(proto, "server", u, Start(d), e, D),
           HeadCells(proto, d, hd), q = ClientAll(e, Pieces(s), pad),
           h = hd \o u, p = [q EXCEPT !.cells = h \o @]
    PROVE  Hailed(D \o s, p)
<1>1. Wrote(proto, "server", u, Start(d), e, D \o s, q)
  BY ClientSends
<1>2. q \in PackSet
  <2>1. Pieces(s) \in Seq(Seq(Nat))
    BY PiecesIs
  <2> DEFINE P == Pieces(s)
  <2> HIDE DEF P
  <2>2. ClientAll(e, P, pad) \in PackSet
    BY <2>1, ClientAllSet DEF P
  <2>3. QED
    BY <2>2 DEF P
<1> DEFINE t == q.cells
           pc == h \o t
<1>3. p = [q EXCEPT !.cells = pc] /\ t \in Seq(CellSet)
  BY <1>2 DEF PackSet
<1>4. hd \in Seq(CellSet)
  BY DEF HeadCells
<1>5. (hd \o u) \o t = hd \o (u \o t) /\ u \o t \in Seq(CellSet)
  <2> HIDE DEF t
  <2>1. QED
    BY <1>3, <1>4, RegroupCells, SMTT(30)
<1> DEFINE v == u \o t
<1>6. pc = hd \o v /\ v \in Seq(CellSet)
  BY <1>5
<1> HIDE DEF pc, v
<1>7. p.e = q.e /\ p.cells = pc
  BY <1>2, <1>3 DEF PackSet
<1>8. Listening(e)
  BY DEF Headed, Listening, Idle
<1>9. Listening(p.e) /\ Ready(proto, "server", p.e) /\ Sends(proto, "server", v, Start(d), p.e, D \o s)
  <2>1. q.e \in EndSet /\ Spared(q.e, e) /\ Ready(proto, "server", q.e)
        /\ Sends(proto, "server", v, Start(d), q.e, D \o s)
    BY <1>1 DEF Wrote, v
  <2>2. Listening(q.e)
    BY <1>8, <2>1, SparedListening
  <2>3. QED
    BY <1>7, <2>1, <2>2
<1>10. QED
  BY <1>6, <1>7, <1>9 DEF Hailed

\* The client writes after its header.
LEMMA ClientAgain ==
    ASSUME NEW e, NEW head, NEW rest, NEW pad, proto \in AllProtocols, e.has_header
    PROVE  client_pre_encrypt(e, head, rest, pad) = ClientAll(e, Pieces(rest), pad)
<1>1. CASE proto = "auth_sha1_v4"
  BY <1>1 DEF client_pre_encrypt, V4!client_pre_encrypt, ClientAll, V4!Pieces, Pieces
<1>2. CASE proto = "auth_aes128"
  BY <1>2 DEF client_pre_encrypt, Aes!client_pre_encrypt, ClientAll, Aes!Pieces, Pieces
<1>3. CASE proto = "auth_chain"
  BY <1>3 DEF client_pre_encrypt, Chain!client_pre_encrypt, ClientAll, ChainClientAll, Chain!Pieces, Pieces
<1>4. CASE proto = "auth_akarin"
  BY <1>4 DEF client_pre_encrypt, Akarin!client_pre_encrypt, ClientAll, AkarinClientAll, Akarin!Pieces, Pieces
<1>5. QED
  BY <1>1, <1>2, <1>3, <1>4 DEF AllProtocols

\* The data of the header, for the protocols that put it there.
LEMMA PlainHail ==
    ASSUME NEW e, NEW head, NEW rest, NEW pad,
           proto \in {"auth_sha1_v4", "auth_aes128"}, Newborn(e),
           head \in Seq(Nat), rest \in Seq(Nat), pad \in BOOLEAN
    PROVE  Hailed(head \o rest, client_pre_encrypt(e, head, rest, pad))
<1> DEFINE y == Heading(e)
           q == ClientAll(y, Pieces(rest), pad)
           hd == Cut(NewFrame(head), <<"h1", "h2", "h3">>)
           p == client_pre_encrypt(e, head, rest, pad)
           nil == <<>>
<1>1. p = [q EXCEPT !.cells = hd \o @]
  <2>1. ~e.has_header
    BY DEF Newborn
  <2>2. CASE proto = "auth_sha1_v4"
    BY <2>1, <2>2 DEF client_pre_encrypt, V4!client_pre_encrypt, ClientAll, V4!Pieces, Pieces,
      V4!pack_auth_data, Heading, V4!Cut, Cut, V4!NewFrame, NewFrame
  <2>3. CASE proto = "auth_aes128"
    BY <2>1, <2>3 DEF client_pre_encrypt, Aes!client_pre_encrypt, ClientAll, Aes!Pieces, Pieces,
      Aes!pack_auth_data, Heading, Aes!Cut, Cut, Aes!NewFrame, NewFrame
  <2>4. QED
    BY <2>2, <2>3
<1>2. Headed(y) /\ proto \in AllProtocols /\ ~Hashed(proto) /\ proto # "auth_akarin"
  BY HeadingIs DEF AllProtocols, Hashed
<1>3. HeadCells(proto, head, hd)
  BY HeadCellsIs
<1> HIDE DEF y, hd, p
<1>4. Sends(proto, "server", nil, Start(head), y, head) /\ Ready(proto, "server", y)
  BY <1>2, HeadedSends
<1>5. nil \in Seq(CellSet) /\ hd \in Seq(CellSet) /\ y \in EndSet
  BY <1>2, <1>3 DEF HeadCells, Headed
<1>6. hd \o nil = hd
  BY <1>5
<1> HIDE DEF nil, q
<1>7. hd = hd \o nil /\ q = ClientAll(y, Pieces(rest), pad)
  BY <1>6 DEF q
<1>8. Hailed(head \o rest, p)
  BY <1>1, <1>2, <1>3, <1>4, <1>5, <1>7, HailedIs
<1>9. QED
  BY <1>8 DEF p

\* After the header of auth_chain and of auth_akarin comes a first frame, p0.
LEMMA FrameHails ==
    ASSUME NEW y, NEW head, NEW rest, NEW pad, NEW p0, NEW hd, NEW h, NEW q, NEW p,
           proto \in AllProtocols, Hashed(proto), Headed(y), proto = "auth_akarin" => y.send_tcp_mss = "drawn",
           head \in Seq(Nat), rest \in Seq(Nat), pad \in BOOLEAN, HeadCells(proto, <<>>, hd),
           Packs(proto, "server", y, head, p0),
           h = hd \o p0.cells, q = ClientAll(p0.e, Pieces(rest), pad),
           p = [q EXCEPT !.cells = h \o @]
    PROVE  Hailed(head \o rest, p)
<1> DEFINE nil == <<>>
           x == "server"
           e2 == p0.e
           u == p0.cells
<1>1. PICK f : Made(proto, x, y, head, f, e2) /\ u = Whole(f)
  BY DEF Packs
<1>2. y \in EndSet /\ nil \in Seq(Nat) /\ nil \in Seq(CellSet) /\ x \in Ends /\ x # "client"
  BY DEF Headed, Ends
<1>3. Sends(proto, "server", nil, Start(nil), y, nil) /\ Ready(proto, "server", y)
  <2> HIDE DEF nil
  <2>1. Sends(proto, "server", <<>>, Start(nil), y, nil) /\ Ready(proto, "server", y)
    BY <1>2, HeadedSends
  <2>2. QED
    BY <2>1 DEF nil
<1>4. Sends(proto, x, nil, Start(nil), y, nil) /\ Ready(proto, x, y)
  BY <1>3
<1>5. Filled(proto, x, y, head)
  BY <1>2 DEF Filled
<1>6. Followed(proto, x, e2) => Carried(proto, x, y, head) = head
  BY <1>2 DEF Carried
<1>7. e2 \in EndSet /\ Listening(e2) /\ Ready(proto, x, e2) /\ f \in FrameSet
  <2>1. e2 \in EndSet /\ Spared(e2, y) /\ f \in FrameSet
    BY <1>1 DEF Made
  <2>2. Listening(y)
    BY DEF Headed, Listening, Idle
  <2>3. Ready(proto, x, e2)
    <3> HIDE DEF x, e2
    <3>1. QED
      BY <1>1, <1>2, <1>4, MadeReady
  <2>4. Listening(e2)
    BY <2>1, <2>2, SparedListening
  <2>5. QED
    BY <2>1, <2>3, <2>4
<1> HIDE DEF nil, x, e2, u
<1>8. Sends(proto, x, nil \o Whole(f), Start(nil), e2, nil \o head)
  BY <1>1, <1>2, <1>4, <1>5, <1>6, SendsOne
<1>9. u \in Seq(CellSet) /\ nil \o Whole(f) = u /\ nil \o head = head
  <2>1. u \in Seq(CellSet)
    BY <1>1, <1>7, WholeIs
  <2>2. QED
    BY <1>1, <2>1 DEF nil
<1>10. Sends(proto, "server", u, Start(nil), e2, head) /\ Ready(proto, "server", e2)
  BY <1>7, <1>8, <1>9 DEF x
<1>11. HeadCells(proto, nil, hd) /\ h = hd \o u /\ q = ClientAll(e2, Pieces(rest), pad)
  BY DEF nil, u, e2
<1>12. QED
  BY <1>7, <1>9, <1>10, <1>11, HailedIs

LEMMA ChainHail ==
    ASSUME NEW e, NEW head, NEW rest, NEW pad,
           proto = "auth_chain", Newborn(e), head \in Seq(Nat), rest \in Seq(Nat), pad \in BOOLEAN
    PROVE  Hailed(head \o rest, client_pre_encrypt(e, head, rest, pad))
<1> DEFINE e1 == Heading(e)
           y == Unchained(e1)
           p0 == Chain!pack_client_data(y, head, pad)
           q == ClientAll(p0.e, Pieces(rest), pad)
           hd == Cut(NewFrame(<<>>), <<"h1", "h2">>)
           h == hd \o p0.cells
           p == client_pre_encrypt(e, head, rest, pad)
           a == Chain!pack_auth_data(e1, head, pad)
<1>1. Headed(y) /\ y \in EndSet /\ ~e.has_header
  BY HeadingIs, UnchainedIs DEF Headed, Newborn
<1>2. Packs("auth_chain", "server", y, head, p0)
  <2> HIDE DEF y
  <2>1. QED
    BY <1>1, ChainPacks
<1>3. a.e = p0.e /\ a.cells = h
  BY DEF Chain!pack_auth_data, Chain!pack_client_data, Unchained, Chain!Cut, Cut, Chain!NewFrame, NewFrame
<1>4. p = [ClientAll(a.e, Pieces(rest), pad) EXCEPT !.cells = a.cells \o @]
  BY <1>1 DEF client_pre_encrypt, Chain!client_pre_encrypt, ClientAll, ChainClientAll, Chain!Pieces, Pieces, Heading
<1>5. HeadCells(proto, <<>>, hd)
  BY HeadCellsIs
<1> HIDE DEF a, hd, y, p0, p
<1>6. p = [q EXCEPT !.cells = h \o @]
  BY <1>3, <1>4
<1>7. proto \in AllProtocols /\ Hashed(proto) /\ Packs(proto, "server", y, head, p0)
      /\ (proto = "auth_akarin" => y.send_tcp_mss = "drawn")
  BY <1>2 DEF AllProtocols, Hashed
<1>8. q = ClientAll(p0.e, Pieces(rest), pad) /\ h = hd \o p0.cells
  OBVIOUS
<1> HIDE DEF q, h
<1>9. Hailed(head \o rest, p)
  BY <1>1, <1>5, <1>6, <1>7, <1>8, FrameHails
<1>10. QED
  BY <1>9 DEF p

LEMMA AkarinHail ==
    ASSUME NEW e, NEW head, NEW rest, NEW pad,
           proto = "auth_akarin", Newborn(e), head \in Seq(Nat), rest \in Seq(Nat), pad \in BOOLEAN
    PROVE  Hailed(head \o rest, client_pre_encrypt(e, head, rest, pad))
<1> DEFINE e1 == Heading(e)
           y == Drawing(e1)
           p0 == Akarin!pack_client_data(y, head, pad)
           q == ClientAll(p0.e, Pieces(rest), pad)
           mine == [NewFrame(<<>>) EXCEPT !.mss = "drawn"]
           hd == Cut(mine, <<"h1", "h2">>)
           h == hd \o p0.cells
           p == client_pre_encrypt(e, head, rest, pad)
           a == Akarin!pack_auth_data(e1, head, pad)
<1>1. Headed(y) /\ y \in EndSet /\ ~e.has_header /\ y.send_tcp_mss = "drawn"
  BY HeadingIs, UnchainedIs DEF Headed, Newborn
<1>2. Packs("auth_akarin", "server", y, head, p0)
  <2> HIDE DEF y
  <2>1. QED
    BY <1>1, AkarinClientPacks
<1>3. a.e = p0.e /\ a.cells = h
  BY DEF Akarin!pack_auth_data, Akarin!pack_client_data, Drawing, Akarin!Cut, Cut, Akarin!NewFrame, NewFrame
<1>4. p = [ClientAll(a.e, Pieces(rest), pad) EXCEPT !.cells = a.cells \o @]
  BY <1>1 DEF client_pre_encrypt, Akarin!client_pre_encrypt, ClientAll, AkarinClientAll, Akarin!Pieces, Pieces, Heading
<1>5. HeadCells(proto, <<>>, hd)
  BY HeadCellsIs
<1> HIDE DEF a, hd, y, p0, p
<1>6. p = [q EXCEPT !.cells = h \o @]
  BY <1>3, <1>4
<1>7. proto \in AllProtocols /\ Hashed(proto) /\ Packs(proto, "server", y, head, p0)
      /\ (proto = "auth_akarin" => y.send_tcp_mss = "drawn")
  BY <1>1, <1>2 DEF AllProtocols, Hashed
<1>8. q = ClientAll(p0.e, Pieces(rest), pad) /\ h = hd \o p0.cells
  OBVIOUS
<1> HIDE DEF q, h
<1>9. Hailed(head \o rest, p)
  BY <1>1, <1>5, <1>6, <1>7, <1>8, FrameHails
<1>10. QED
  BY <1>9 DEF p

LEMMA ClientHails ==
    ASSUME NEW e, NEW head, NEW rest, NEW pad,
           proto \in AllProtocols, Newborn(e), head \in Seq(Nat), rest \in Seq(Nat), pad \in BOOLEAN
    PROVE  Hailed(head \o rest, client_pre_encrypt(e, head, rest, pad))
BY PlainHail, ChainHail, AkarinHail DEF AllProtocols

\* What an end keeps of its side that receives when it writes.
Same(e2, e) ==
    /\ e2.has_header = e.has_header /\ e2.raw_trans = e.raw_trans /\ e2.dead = e.dead
    /\ e2.recv_buf = e.recv_buf /\ e2.recv_id = e.recv_id /\ e2.recv_hash = e.recv_hash
    /\ e2.recv_tcp_mss = e.recv_tcp_mss /\ e2.send_back_cmd = e.send_back_cmd

\* The side of the server that sends.
Serving(pr, e) ==
    /\ e \in EndSet
    /\ Hashed(pr) => IdOf(e.pack_id, e.sent_hash)
    /\ pr = "auth_akarin" =>
          IF e.sent_hash = 0 THEN e.has_header => e.send_tcp_mss = "drawn"
          ELSE e.send_tcp_mss = "path" /\ e.new_send_tcp_mss = "path"

\* What the server's write of s leaves, of an end e that had sent D.
Answered(u, a, e, D, p) ==
    /\ Serving(proto, p.e) /\ Same(p.e, e) /\ p.cells \in Seq(CellSet)
    /\ Sends(proto, "client", u \o p.cells, a, p.e, D)
    /\ Hashed(proto) => p.e.sent_hash > e.sent_hash

\* The end as it packs.
Setting(e) ==
    IF proto = "auth_akarin" /\ e.pack_id = 1 THEN [e EXCEPT !.new_send_tcp_mss = "path"] ELSE e

LEMMA SettingIs ==
    ASSUME NEW e, Serving(proto, e)
    PROVE  /\ Setting(e) \in EndSet /\ Same(Setting(e), e) /\ Ready(proto, "client", Setting(e))
           /\ Setting(e).pack_id = e.pack_id /\ Setting(e).sent_hash = e.sent_hash
<1> DEFINE B == Seq(CellSet)
           E == [has_header : BOOLEAN, raw_trans : BOOLEAN, dead : BOOLEAN,
                 recv_buf : B, pack_id : Nat, recv_id : Nat,
                 sent_hash : Nat, recv_hash : Nat, decrypt_packet_num : Nat,
                 extra_wait : Nat, send_tcp_mss : Modes, recv_tcp_mss : Modes,
                 new_send_tcp_mss : Modes, send_back_cmd : BOOLEAN]
           y == [e EXCEPT !.new_send_tcp_mss = "path"]
<1>1. e \in E
  BY DEF Serving, EndSet
<1> HIDE DEF B
<1>2. y \in E
  BY <1>1 DEF Modes
<1>3. /\ Same(y, e) /\ y.pack_id = e.pack_id /\ y.sent_hash = e.sent_hash
      /\ y.new_send_tcp_mss = "path" /\ y.send_tcp_mss = e.send_tcp_mss
  BY <1>1 DEF Same
<1>4. y \in EndSet
  BY <1>2 DEF EndSet, B
<1> HIDE DEF y
<1>5. Same(e, e)
  BY DEF Same
<1>6. CASE proto = "auth_akarin" /\ e.pack_id = 1
  <2>1. Setting(e) = y
    BY <1>6 DEF Setting, y
  <2>2. Ready(proto, "client", y)
    BY <1>3, <1>6 DEF Ready, Serving, Hashed
  <2>3. QED
    BY <1>3, <1>4, <2>1, <2>2
<1>7. CASE ~(proto = "auth_akarin" /\ e.pack_id = 1)
  <2>1. Setting(e) = e
    BY <1>7 DEF Setting
  <2>2. Ready(proto, "client", e)
    <3>1. CASE proto = "auth_akarin"
      <4>1. IdOf(e.pack_id, e.sent_hash)
        BY <3>1 DEF Serving, Hashed
      <4>2. e.sent_hash # 0
        BY <1>7, <3>1, <4>1, IdOfFirst
      <4>3. QED
        BY <3>1, <4>1, <4>2 DEF Ready, Serving
    <3>2. CASE proto # "auth_akarin"
      BY <3>2 DEF Ready, Serving
    <3>3. QED
      BY <3>1, <3>2
  <2>3. QED
    BY <1>5, <2>1, <2>2 DEF Serving
<1>8. QED
  BY <1>6, <1>7

LEMMA ServerPosts ==
    ASSUME NEW e, NEW s, NEW pad, proto \in AllProtocols, Serving(proto, e)
    PROVE  server_pre_encrypt(e, s, pad) = ServerAll(Setting(e), Posts(proto, "client", Setting(e), s), pad)
<1>1. Setting(e).pack_id = e.pack_id
  BY SettingIs
<1>2. CASE proto = "auth_sha1_v4"
  BY <1>2 DEF server_pre_encrypt, V4!server_pre_encrypt, ServerAll, V4!Pieces, Pieces, Posts, WithMss, Hashed, Setting
<1>3. CASE proto = "auth_aes128"
  BY <1>3 DEF server_pre_encrypt, Aes!server_pre_encrypt, ServerAll, Aes!Pieces, Pieces, Posts, WithMss, Hashed, Setting
<1>4. CASE proto = "auth_chain"
  <2> DEFINE P == IF e.pack_id = 1 THEN [Pieces(s) EXCEPT ![1] = <<Mss>> \o @] ELSE Pieces(s)
  <2>1. Setting(e) = e
    BY <1>4 DEF Setting
  <2>2. Posts(proto, "client", Setting(e), s) = P
    BY <1>4, <2>1 DEF Posts, WithMss, Hashed
  <2>3. server_pre_encrypt(e, s, pad) = ChainServerAll(e, P, pad)
    BY <1>4 DEF server_pre_encrypt, Chain!server_pre_encrypt, Chain!Pieces, Pieces, Chain!Mss, Mss, ChainServerAll
  <2> HIDE DEF P
  <2>4. QED
    BY <1>4, <2>1, <2>2, <2>3 DEF ServerAll
<1>5. CASE proto = "auth_akarin"
  <2> DEFINE P == IF e.pack_id = 1 THEN [Pieces(s) EXCEPT ![1] = <<Mss>> \o @] ELSE Pieces(s)
             y == IF e.pack_id = 1 THEN [e EXCEPT !.new_send_tcp_mss = "path"] ELSE e
  <2>1. Setting(e) = y
    BY <1>5 DEF Setting
  <2>2. Posts(proto, "client", Setting(e), s) = P
    BY <1>1, <1>5 DEF Posts, WithMss, Hashed
  <2>3. server_pre_encrypt(e, s, pad) = AkarinServerAll(y, P, pad)
    BY <1>5 DEF server_pre_encrypt, Akarin!server_pre_encrypt, Akarin!Pieces, Pieces, Akarin!Mss, Mss, AkarinServerAll
  <2> HIDE DEF P, y
  <2>4. QED
    BY <1>5, <2>1, <2>2, <2>3 DEF ServerAll
<1>6. QED
  BY <1>2, <1>3, <1>4, <1>5 DEF AllProtocols

LEMMA ServerAnswers ==
    ASSUME NEW e, NEW s, NEW pad, NEW u, NEW a, NEW D,
           proto \in AllProtocols, Serving(proto, e), s \in Seq(Nat), pad \in BOOLEAN,
           u \in Seq(CellSet), D \in Seq(Nat), Sends(proto, "client", u, a, e, D)
    PROVE  Answered(u, a, e, D \o s, server_pre_encrypt(e, s, pad))
<1> DEFINE y == Setting(e)
           p == server_pre_encrypt(e, s, pad)
<1>1. /\ y \in EndSet /\ Same(y, e) /\ Ready(proto, "client", y)
      /\ y.pack_id = e.pack_id /\ y.sent_hash = e.sent_hash
  BY SettingIs
<1>2. p = ServerAll(y, Posts(proto, "client", y, s), pad)
  BY ServerPosts
<1> HIDE DEF y, p
<1>3. Sends(proto, "client", u, a, y, D)
  <2>1. PICK g, c : /\ Flow(proto, "client", u, a, There(e, g, c))
                    /\ c => Orders(proto, "client", e)
                    /\ Followed(proto, "client", e) => g = D
    BY DEF Sends
  <2>2. There(e, g, c) = There(y, g, c) /\ (Followed(proto, "client", y) => Followed(proto, "client", e))
    BY <1>1 DEF There, Followed
  <2>3. ~Orders(proto, "client", e)
    BY DEF Orders
  <2>4. QED
    BY <2>1, <2>2, <2>3 DEF Sends
<1>4. Wrote(proto, "client", u, a, y, D \o s, p)
  BY <1>1, <1>2, <1>3, ServerSends
<1>5. /\ p.e \in EndSet /\ p.cells \in Seq(CellSet) /\ Spared(p.e, y) /\ Ready(proto, "client", p.e)
      /\ Sends(proto, "client", u \o p.cells, a, p.e, D \o s)
      /\ Hashed(proto) => p.e.sent_hash > e.sent_hash
  BY <1>1, <1>4 DEF Wrote
<1>6. Same(p.e, e)
  BY <1>1, <1>5 DEF Same, Spared
<1>7. Serving(proto, p.e)
  <2>1. p.e.sent_hash \in Nat /\ e.sent_hash \in Nat
    BY <1>5, EndParts DEF Serving
  <2>2. Hashed(proto) => p.e.sent_hash # 0
    BY <1>5, <2>1
  <2>3. QED
    BY <1>5, <2>2 DEF Ready, Serving, Hashed
<1>8. QED
  BY <1>5, <1>6, <1>7 DEF Answered, p

-----------------------------------------------------------------------------
(* One direction of a connection, between two actions.                     *)

\* End y, which has sent the data D to end x, is at the place z.
Sender(pr, x, y, z, D) ==
    \E g, c : /\ z = There(y, g, c)
              /\ c => Orders(pr, x, y)
              /\ Followed(pr, x, y) => g = D

\* End e is end x, w is on the way to it, and it has handed up o.
Link(pr, x, e, y, w, D, o) ==
    \E z : Sender(pr, x, y, z, D) /\ Waiting(pr, x, e, w, z, Followed(pr, x, y), o)

\* What Waiting says of the end that receives alone, and of the data and orders so far.
Settled(pr, e) ==
    /\ e \in EndSet
    /\ Hashed(pr) => IdOf(e.recv_id, e.recv_hash)
    /\ pr # "auth_akarin" => Len(e.recv_buf) <= 2

Heard(pr, x, e, g, c, F, o) == (F => g = o) /\ TunedIf(pr, x, e, e, c)

LEMMA SendsSender ==
    ASSUME NEW pr, NEW x, NEW u, NEW a, NEW y, NEW D
    PROVE  Sends(pr, x, u, a, y, D) <=> \E z : Flow(pr, x, u, a, z) /\ Sender(pr, x, y, z, D)
BY DEF Sends, Sender

LEMMA LinkOpen ==
    ASSUME NEW pr, NEW x, NEW e, NEW y, NEW w, NEW D, NEW o, Link(pr, x, e, y, w, D, o)
    PROVE  /\ Settled(pr, e)
           /\ \E g, c : /\ Sends(pr, x, e.recv_buf \o w, Here(e, g, c), y, D)
                        /\ Heard(pr, x, e, g, c, Followed(pr, x, y), o)
<1>1. PICK z : Sender(pr, x, y, z, D) /\ Waiting(pr, x, e, w, z, Followed(pr, x, y), o)
  BY DEF Link
<1>2. PICK g, c : /\ Flow(pr, x, e.recv_buf \o w, Here(e, g, c), z)
                  /\ Followed(pr, x, y) => g = o
                  /\ TunedIf(pr, x, e, e, c)
  BY <1>1 DEF Waiting
<1>3. Sends(pr, x, e.recv_buf \o w, Here(e, g, c), y, D)
  BY <1>1, <1>2, SendsSender
<1>4. Settled(pr, e)
  BY <1>1 DEF Waiting, Settled
<1>5. QED
  BY <1>2, <1>3, <1>4 DEF Heard

LEMMA LinkClose ==
    ASSUME NEW pr, NEW x, NEW e, NEW y, NEW w, NEW D, NEW o, NEW g, NEW c, NEW u, NEW F,
           Settled(pr, e), u = e.recv_buf \o w, Sends(pr, x, u, Here(e, g, c), y, D),
           Heard(pr, x, e, g, c, F, o), Followed(pr, x, y) => F
    PROVE  Link(pr, x, e, y, w, D, o)
<1>1. PICK z : Flow(pr, x, u, Here(e, g, c), z) /\ Sender(pr, x, y, z, D)
  BY SendsSender
<1>2. Waiting(pr, x, e, w, z, Followed(pr, x, y), o)
  BY <1>1 DEF Waiting, Settled, Heard
<1>3. QED
  BY <1>1, <1>2 DEF Link

\* The end that receives has changed in what it sends only.
Hears(e2, e) ==
    /\ e2 \in EndSet
    /\ e2.recv_buf = e.recv_buf /\ e2.recv_id = e.recv_id /\ e2.recv_hash = e.recv_hash
    /\ e2.recv_tcp_mss = e.recv_tcp_mss /\ e2.send_back_cmd = e.send_back_cmd

LEMMA LinkReceiverWrites ==
    ASSUME NEW pr, NEW x, NEW e, NEW e2, NEW y, NEW w, NEW D, NEW o,
           Link(pr, x, e, y, w, D, o), Hears(e2, e)
    PROVE  Link(pr, x, e2, y, w, D, o)
<1> DEFINE F == Followed(pr, x, y)
<1>1. PICK g, c : /\ Sends(pr, x, e.recv_buf \o w, Here(e, g, c), y, D)
                  /\ Heard(pr, x, e, g, c, F, o)
  BY LinkOpen
<1>2. Settled(pr, e)
  BY LinkOpen
<1>3. Settled(pr, e2) /\ Here(e2, g, c) = Here(e, g, c) /\ e2.recv_buf \o w = e.recv_buf \o w
  BY <1>2 DEF Settled, Hears, Here
<1>4. Heard(pr, x, e2, g, c, F, o)
  BY <1>1 DEF Heard, Hears, TunedIf, Tuned
<1> HIDE DEF F
<1>5. Sends(pr, x, e2.recv_buf \o w, Here(e2, g, c), y, D)
  BY <1>1, <1>3
<1> DEFINE u == e2.recv_buf \o w
<1>6. u = e2.recv_buf \o w /\ Sends(pr, x, u, Here(e2, g, c), y, D)
  BY <1>5
<1> HIDE DEF u
<1>7. QED
  BY <1>3, <1>4, <1>6, LinkClose DEF F

\* The end that sends has changed in what it receives only.
Speaks(pr, x, y2, y) ==
    /\ y2.pack_id = y.pack_id /\ y2.sent_hash = y.sent_hash
    /\ Orders(pr, x, y) => Orders(pr, x, y2)

LEMMA LinkSenderReads ==
    ASSUME NEW pr, NEW x, NEW e, NEW y, NEW y2, NEW w, NEW D, NEW o,
           Link(pr, x, e, y, w, D, o), Speaks(pr, x, y2, y)
    PROVE  Link(pr, x, e, y2, w, D, o)
<1>1. PICK z : Sender(pr, x, y, z, D) /\ Waiting(pr, x, e, w, z, Followed(pr, x, y), o)
  BY DEF Link
<1>2. Followed(pr, x, y2) = Followed(pr, x, y)
  BY DEF Followed, Speaks
<1>3. Sender(pr, x, y2, z, D)
  <2>1. PICK g, c : /\ z = There(y, g, c)
                    /\ c => Orders(pr, x, y)
                    /\ Followed(pr, x, y) => g = D
    BY <1>1 DEF Sender
  <2>2. There(y2, g, c) = There(y, g, c)
    BY DEF There, Speaks
  <2>3. c => Orders(pr, x, y2)
    BY <2>1 DEF Speaks
  <2>4. QED
    BY <1>2, <2>1, <2>2, <2>3 DEF Sender
<1>4. QED
  BY <1>1, <1>2, <1>3 DEF Link

\* Nothing is left on the way.
LEMMA LinkDone ==
    ASSUME NEW pr, NEW x, NEW e, NEW y, NEW D, NEW o,
           Link(pr, x, e, y, <<>>, D, o), pr # "auth_akarin", Followed(pr, x, y)
    PROVE  D = o
<1>1. PICK z : Sender(pr, x, y, z, D) /\ Waiting(pr, x, e, <<>>, z, Followed(pr, x, y), o)
  BY DEF Link
<1>2. PICK g, c : Flow(pr, x, e.recv_buf \o <<>>, Here(e, g, c), z) /\ g = o
  BY <1>1 DEF Waiting
<1>3. e.recv_buf \in Seq(CellSet) /\ Len(e.recv_buf) <= 2
  BY <1>1, EndParts DEF Waiting
<1> DEFINE b == e.recv_buf
<1>4. Flow(pr, x, b, Here(e, g, c), z)
  <2>1. b \o <<>> = b
    BY <1>3
  <2>2. QED
    BY <1>2, <2>1
<1> HIDE DEF b
<1>5. z.got = Here(e, g, c).got
  BY <1>3, <1>4, FlowShort DEF b
<1>6. Here(e, g, c).got = g
  BY DEF Here
<1>7. z.got = D
  BY <1>1 DEF Sender, There
<1>8. QED
  BY <1>2, <1>5, <1>6, <1>7

\* After a call the direction goes on from where it has read.
LEMMA LinkReads ==
    ASSUME NEW pr, NEW x, NEW e0, NEW y, NEW z, NEW w, NEW D, NEW o, NEW r,
           Sender(pr, x, y, z, D), r \in Outcome(pr, x, w, z, Followed(pr, x, y), o, e0), r.st \in {"go", "stop"}
    PROVE  Link(pr, x, r.e, y, w, D, o \o r.ret)
BY ReadsWaiting DEF Link

-----------------------------------------------------------------------------
(* Both directions: the client cl and the server sv; what is on the way up *)
(* to the server and down, wu and wd; sent, su and sd; handed up, ou, od.  *)

Greeting(pr, b, w, cl, D) ==
    \E d, hd, s : Heralds(pr, b, w, d, hd, s) /\ Sends(pr, "server", s, Start(d), cl, D)

\* Up to the server, before it has the header.
Awaiting(pr, cl, sv, wu, su) ==
    /\ Unheaded(sv)
    /\ IF cl.has_header THEN Len(sv.recv_buf) < HeadLen(pr) /\ Greeting(pr, sv.recv_buf, wu, cl, su)
       ELSE sv.recv_buf = <<>> /\ wu = <<>> /\ su = <<>>

Lines(wu, wd, su, sd, ou, od) ==
    /\ wu \in Seq(CellSet) /\ wd \in Seq(CellSet)
    /\ su \in Seq(Nat) /\ sd \in Seq(Nat) /\ ou \in Seq(Nat) /\ od \in Seq(Nat)

Talk(pr, cl, sv, wu, wd, su, sd, ou, od) ==
    /\ Lines(wu, wd, su, sd, ou, od)
    /\ cl \in EndSet /\ ~cl.dead /\ (Newborn(cl) \/ (cl.has_header /\ Ready(pr, "server", cl)))
    /\ Serving(pr, sv) /\ ~sv.dead /\ ~sv.raw_trans
    /\ Link(pr, "client", cl, sv, wd, sd, od)
    /\ IF sv.has_header THEN cl.has_header /\ Link(pr, "server", sv, cl, wu, su, ou)
       ELSE Awaiting(pr, cl, sv, wu, su) /\ ou = <<>> /\ wd = <<>> /\ sd = <<>> /\ od = <<>>

LEMMA TalkStart ==
    ASSUME NEW pr, NEW cl, NEW sv, Newborn(cl), Newborn(sv)
    PROVE  Talk(pr, cl, sv, <<>>, <<>>, <<>>, <<>>, <<>>, <<>>)
<1> DEFINE nil == <<>>
           no == FALSE
           a == Here(cl, nil, no)
           u == cl.recv_buf \o nil
           F == Followed(pr, "client", sv)
<1>1. /\ cl \in EndSet /\ sv \in EndSet /\ Idle(cl) /\ Idle(sv) /\ ~cl.has_header /\ ~sv.has_header
      /\ cl.recv_buf = <<>> /\ sv.recv_buf = <<>> /\ cl.recv_tcp_mss = "default"
  BY DEF Newborn
<1>2. IdOf(1, 0)
  BY IdModAssumption DEF IdOf
<1>3. Settled(pr, cl)
  BY <1>1, <1>2 DEF Settled, Idle
<1>4. a = There(sv, nil, no) /\ a \in PlaceSet
  BY <1>1 DEF Here, There, Idle, PlaceSet
<1>5. u = nil
  BY <1>1
<1>6. Heard(pr, "client", cl, nil, no, F, nil)
  <2>1. cl.send_back_cmd = FALSE /\ cl.recv_hash = 0
    BY <1>1, EndParts DEF Idle
  <2>2. Tuned("client", cl, cl, no)
    BY <1>1, <2>1 DEF Tuned
  <2>3. QED
    BY <2>2, Zenon DEF Heard, TunedIf
<1>7. Sends(pr, "client", u, a, sv, nil)
  <2> HIDE DEF a, u, nil
  <2>1. Flow(pr, "client", nil, a, a)
    BY <1>4, FlowNone DEF nil
  <2>2. Flow(pr, "client", u, a, There(sv, nil, no)) /\ (no => Orders(pr, "client", sv))
    BY <1>4, <1>5, <2>1
  <2> HIDE DEF no
  <2>3. QED
    BY <2>2 DEF Sends
<1>8. Link(pr, "client", cl, sv, nil, nil, nil)
  <2> HIDE DEF a, F, no
  <2>1. u = cl.recv_buf \o nil /\ (Followed(pr, "client", sv) => F) /\ a = Here(cl, nil, no)
    BY DEF F, a
  <2> HIDE DEF u, nil
  <2>2. QED
    BY <1>3, <1>6, <1>7, <2>1, LinkClose
<1>9. Serving(pr, sv)
  BY <1>1, <1>2 DEF Serving, Idle
<1>10. Lines(nil, nil, nil, nil, nil, nil)
  BY DEF Lines
<1>11. Awaiting(pr, cl, sv, nil, nil)
  BY <1>1 DEF Awaiting, Unheaded
<1>12. QED
  BY <1>1, <1>8, <1>9, <1>10, <1>11 DEF Talk, Idle

\* The client goes on writing to a server without a header.
LEMMA GreetingGrows ==
    ASSUME NEW b, NEW w, NEW cl, NEW D, NEW s, NEW pad, NEW p,
           proto \in AllProtocols, cl \in EndSet, Ready(proto, "server", cl), s \in Seq(Nat), pad \in BOOLEAN,
           D \in Seq(Nat), Greeting(proto, b, w, cl, D), p = ClientAll(cl, Pieces(s), pad)
    PROVE  /\ Greeting(proto, b, w \o p.cells, p.e, D \o s)
           /\ p.e \in EndSet /\ Spared(p.e, cl) /\ Ready(proto, "server", p.e) /\ p.cells \in Seq(CellSet)
<1>1. PICK d, hd, t : Heralds(proto, b, w, d, hd, t) /\ Sends(proto, "server", t, Start(d), cl, D)
  BY DEF Greeting
<1>2. /\ HeadCells(proto, d, hd) /\ hd \in Seq(CellSet) /\ b \in Seq(CellSet) /\ w \in Seq(CellSet)
      /\ t \in Seq(CellSet) /\ b \o w = hd \o t
  BY <1>1 DEF Heralds, HeadCells
<1>3. Wrote(proto, "server", t, Start(d), cl, D \o s, p)
  BY <1>1, <1>2, ClientSends
<1> DEFINE more == p.cells
           w2 == w \o more
           t2 == t \o more
<1>4. more \in Seq(CellSet) /\ Sends(proto, "server", t2, Start(d), p.e, D \o s)
  BY <1>3 DEF Wrote
<1> HIDE DEF more
<1>5. (b \o w) \o more = b \o w2 /\ (hd \o t) \o more = hd \o t2 /\ w2 \in Seq(CellSet) /\ t2 \in Seq(CellSet)
  <2>1. b \in Seq(CellSet) /\ w \in Seq(CellSet) /\ more \in Seq(CellSet)
    BY <1>2, <1>4
  <2>2. hd \in Seq(CellSet) /\ t \in Seq(CellSet) /\ more \in Seq(CellSet)
    BY <1>2, <1>4
  <2>3. (b \o w) \o more = b \o w2 /\ w2 \in Seq(CellSet)
    BY <2>1, RegroupCells, SMTT(30)
  <2>4. (hd \o t) \o more = hd \o t2 /\ t2 \in Seq(CellSet)
    BY <2>2, RegroupCells, SMTT(30)
  <2>5. QED
    BY <2>3, <2>4
<1> HIDE DEF w2, t2
<1>6. b \o w2 = hd \o t2
  BY <1>2, <1>5
<1>7. Heralds(proto, b, w2, d, hd, t2)
  BY <1>2, <1>5, <1>6 DEF Heralds
<1>8. Greeting(proto, b, w2, p.e, D \o s)
  BY <1>4, <1>7 DEF Greeting
<1>9. QED
  BY <1>3, <1>8 DEF Wrote, w2, more

\* The sender of a direction writes.
LEMMA LinkGrows ==
    ASSUME NEW pr, NEW x, NEW e, NEW y, NEW y2, NEW w, NEW D, NEW D2, NEW o, NEW g, NEW c, NEW cells, NEW u,
           e \in EndSet, w \in Seq(CellSet), cells \in Seq(CellSet), u = e.recv_buf \o w,
           Settled(pr, e), Heard(pr, x, e, g, c, Followed(pr, x, y), o),
           Sends(pr, x, u \o cells, Here(e, g, c), y2, D2), Followed(pr, x, y2) => Followed(pr, x, y)
    PROVE  Link(pr, x, e, y2, w \o cells, D2, o)
<1> DEFINE b == e.recv_buf
           F == Followed(pr, x, y)
           w2 == w \o cells
           v == u \o cells
<1>1. b \in Seq(CellSet)
  BY EndParts
<1>2. v = b \o w2
  <2> HIDE DEF b
  <2>1. (b \o w) \o cells = b \o (w \o cells)
    BY <1>1, RegroupCells, SMTT(30)
  <2>2. u = b \o w
    BY DEF b
  <2>3. QED
    BY <2>1, <2>2
<1>3. v = e.recv_buf \o w2 /\ Heard(pr, x, e, g, c, F, o) /\ (Followed(pr, x, y2) => F)
      /\ Sends(pr, x, v, Here(e, g, c), y2, D2)
  BY <1>2
<1> HIDE DEF F, v, w2
<1>4. Link(pr, x, e, y2, w2, D2, o)
  BY <1>3, LinkClose
<1>5. QED
  BY <1>4 DEF w2

\* What there is to write: n units of s go into the header, if it is not there yet.
Writable(cl, s, n) ==
    /\ s \in Seq(Nat) /\ n \in 0 .. Len(s)
    /\ n \in IF cl.has_header THEN {0} ELSE 1 .. Len(s)

LEMMA SparedHears ==
    ASSUME NEW e, NEW e2, e2 \in EndSet, Spared(e2, e)
    PROVE  Hears(e2, e) /\ e2.has_header = e.has_header /\ e2.dead = e.dead /\ e2.raw_trans = e.raw_trans
BY DEF Spared, Hears

LEMMA ClientTalks ==
    ASSUME NEW cl, NEW sv, NEW wu, NEW wd, NEW su, NEW sd, NEW ou, NEW od, NEW s, NEW n, NEW pad, NEW p,
           proto \in AllProtocols, Talk(proto, cl, sv, wu, wd, su, sd, ou, od),
           Writable(cl, s, n), pad \in BOOLEAN,
           p = client_pre_encrypt(cl, SubSeq(s, 1, n), Drop(s, n), pad)
    PROVE  Talk(proto, p.e, sv, wu \o p.cells, wd, su \o s, sd, ou, od)
<1> DEFINE head == SubSeq(s, 1, n)
           rest == Drop(s, n)
           wu2 == wu \o p.cells
           su2 == su \o s
<1>1. /\ s \in Seq(Nat) /\ head \in Seq(Nat) /\ rest \in Seq(Nat) /\ head \o rest = s
  BY DropIs DEF Writable
<1>2. /\ wu \in Seq(CellSet) /\ wd \in Seq(CellSet)
      /\ su \in Seq(Nat) /\ sd \in Seq(Nat) /\ ou \in Seq(Nat) /\ od \in Seq(Nat)
      /\ cl \in EndSet /\ ~cl.dead /\ (Newborn(cl) \/ (cl.has_header /\ Ready(proto, "server", cl)))
      /\ Serving(proto, sv) /\ ~sv.dead /\ ~sv.raw_trans
      /\ Link(proto, "client", cl, sv, wd, sd, od)
  BY DEF Talk, Lines
<1>3. su2 \in Seq(Nat)
  BY <1>1, <1>2
<1>4. SUFFICES /\ p.e \in EndSet /\ ~p.e.dead /\ p.e.has_header /\ Ready(proto, "server", p.e) /\ Hears(p.e, cl)
               /\ p.cells \in Seq(CellSet)
               /\ IF sv.has_header THEN Link(proto, "server", sv, p.e, wu2, su2, ou)
                  ELSE Len(sv.recv_buf) < HeadLen(proto) /\ Greeting(proto, sv.recv_buf, wu2, p.e, su2)
  <2>1. Link(proto, "client", p.e, sv, wd, sd, od)
    BY <1>2, <1>4, LinkReceiverWrites
  <2>2. wu2 \in Seq(CellSet)
    BY <1>2, <1>4
  <2>3. Lines(wu2, wd, su2, sd, ou, od)
    BY <1>2, <1>3, <2>2 DEF Lines
  <2>4. ~sv.has_header => Unheaded(sv) /\ ou = <<>> /\ wd = <<>> /\ sd = <<>> /\ od = <<>>
    BY DEF Talk, Awaiting
  <2> HIDE DEF wu2, su2
  <2>5. Talk(proto, p.e, sv, wu2, wd, su2, sd, ou, od)
    BY <1>2, <1>4, <2>1, <2>3, <2>4 DEF Talk, Awaiting
  <2>6. QED
    BY <2>5 DEF wu2, su2
<1>5. CASE Newborn(cl)
  <2>1. ~cl.has_header /\ cl.recv_buf = <<>> /\ ~sv.has_header
        /\ sv.recv_buf = <<>> /\ wu = <<>> /\ su = <<>>
    BY <1>5 DEF Newborn, Talk, Awaiting
  <2>2. Hailed(head \o rest, p)
    <3> HIDE DEF head, rest
    <3>1. p = client_pre_encrypt(cl, head, rest, pad)
      BY DEF head, rest
    <3>2. Hailed(head \o rest, client_pre_encrypt(cl, head, rest, pad))
      BY <1>1, <1>5, ClientHails
    <3>3. QED
      BY <3>1, <3>2
  <2>3. Hailed(s, p)
    BY <1>1, <2>2
  <2>4. Listening(p.e) /\ Ready(proto, "server", p.e)
    BY <2>3 DEF Hailed
  <2>5. PICK d, hd, t : /\ HeadCells(proto, d, hd) /\ t \in Seq(CellSet) /\ p.cells = hd \o t
                        /\ Sends(proto, "server", t, Start(d), p.e, s)
    BY <2>3 DEF Hailed
  <2>6. Hears(p.e, cl)
    <3>1. cl.recv_id = 1 /\ cl.recv_hash = 0 /\ cl.recv_tcp_mss = "default" /\ cl.send_back_cmd = FALSE
      BY <1>2, <1>5, EndParts DEF Newborn, Idle
    <3>2. p.e.send_back_cmd = FALSE /\ p.e \in EndSet
      BY <2>4, EndParts DEF Listening
    <3>3. QED
      BY <2>1, <2>4, <3>1, <3>2 DEF Listening, Hears
  <2>7. p.cells \in Seq(CellSet) /\ hd \in Seq(CellSet)
    <3> HIDE DEF head, rest, wu2, su2
    <3>1. hd \in Seq(CellSet)
      BY <2>5 DEF HeadCells
    <3>2. hd \o t \in Seq(CellSet)
      BY <2>5, <3>1
    <3>3. QED
      BY <2>5, <3>1, <3>2
  <2>8. wu2 = p.cells /\ su2 = s
    BY <1>1, <2>1, <2>7
  <2>9. sv.recv_buf \o wu2 = hd \o t /\ sv.recv_buf \in Seq(CellSet)
    <3> DEFINE cells == p.cells
    <3> HIDE DEF cells, wu2
    <3>1. cells \in Seq(CellSet) /\ wu2 = cells /\ cells = hd \o t
      BY <2>5, <2>7, <2>8 DEF cells
    <3>2. <<>> \o cells = cells
      BY <3>1
    <3>3. QED
      BY <2>1, <3>1, <3>2
  <2>10. Greeting(proto, sv.recv_buf, wu2, p.e, su2)
    BY <2>5, <2>7, <2>8, <2>9 DEF Greeting, Heralds
  <2>11. Len(sv.recv_buf) < HeadLen(proto)
    BY <2>1 DEF HeadLen
  <2>12. QED
    BY <2>1, <2>4, <2>6, <2>7, <2>10, <2>11 DEF Listening
<1>6. CASE ~Newborn(cl)
  <2>1. cl.has_header /\ Ready(proto, "server", cl)
    BY <1>2, <1>6
  <2>2. rest = s /\ p = ClientAll(cl, Pieces(s), pad)
    <3>1. n = 0
      BY <2>1 DEF Writable
    <3>2. rest = s
      BY <1>1, <3>1 DEF Drop
    <3>3. p = client_pre_encrypt(cl, head, rest, pad)
      OBVIOUS
    <3> HIDE DEF head, rest
    <3>4. client_pre_encrypt(cl, head, rest, pad) = ClientAll(cl, Pieces(rest), pad)
      BY <2>1, ClientAgain
    <3>5. QED
      BY <3>2, <3>3, <3>4
  <2>3. CASE ~sv.has_header
    <3>1. Len(sv.recv_buf) < HeadLen(proto) /\ Greeting(proto, sv.recv_buf, wu, cl, su)
      BY <2>1, <2>3 DEF Talk, Awaiting
    <3>2. /\ Greeting(proto, sv.recv_buf, wu2, p.e, su2)
          /\ p.e \in EndSet /\ Spared(p.e, cl) /\ Ready(proto, "server", p.e) /\ p.cells \in Seq(CellSet)
      BY <1>1, <1>2, <2>1, <2>2, <3>1, GreetingGrows
    <3>3. QED
      BY <1>2, <2>1, <2>3, <3>1, <3>2, SparedHears
  <2>4. CASE sv.has_header
    <3> DEFINE x == "server"
               b == sv.recv_buf
    <3>1. Link(proto, x, sv, cl, wu, su, ou)
      BY <2>4 DEF Talk
    <3>2. PICK g, c : /\ Sends(proto, x, sv.recv_buf \o wu, Here(sv, g, c), cl, su)
                      /\ Heard(proto, x, sv, g, c, Followed(proto, x, cl), ou)
      BY <3>1, LinkOpen
    <3>3. Settled(proto, sv) /\ sv \in EndSet /\ b \in Seq(CellSet)
      BY <3>1, LinkOpen, EndParts DEF Settled
    <3> DEFINE u == b \o wu
               a == Here(sv, g, c)
    <3>4. u \in Seq(CellSet)
      BY <1>2, <3>3
    <3>5. Sends(proto, "server", u, a, cl, su)
      BY <3>2
    <3> HIDE DEF u, a, b
    <3>6. Wrote(proto, "server", u, a, cl, su \o s, p)
      BY <1>1, <1>2, <2>1, <2>2, <3>4, <3>5, ClientSends
    <3>7. /\ p.e \in EndSet /\ p.cells \in Seq(CellSet) /\ Spared(p.e, cl) /\ Ready(proto, "server", p.e)
          /\ Sends(proto, x, u \o p.cells, Here(sv, g, c), p.e, su2)
      BY <3>6 DEF Wrote, a
    <3>8. u = sv.recv_buf \o wu
      BY DEF u, b
    <3>9. Followed(proto, x, p.e) => Followed(proto, x, cl)
      BY DEF Followed
    <3> DEFINE cells == p.cells
    <3> HIDE DEF x, wu2, su2, cells
    <3>10. cells \in Seq(CellSet) /\ Sends(proto, x, u \o cells, Here(sv, g, c), p.e, su2)
      BY <3>7 DEF cells
    <3>11. Link(proto, x, sv, p.e, wu \o cells, su2, ou)
      BY <1>2, <3>2, <3>3, <3>8, <3>9, <3>10, LinkGrows
    <3>12. Link(proto, "server", sv, p.e, wu2, su2, ou)
      BY <3>11 DEF x, wu2, cells
    <3>13. QED
      BY <1>2, <2>1, <2>4, <3>7, <3>12, SparedHears
  <2>5. QED
    BY <2>3, <2>4
<1>7. QED
  BY <1>5, <1>6

LEMMA SameHears ==
    ASSUME NEW e, NEW e2, e2 \in EndSet, Same(e2, e)
    PROVE  Hears(e2, e)
BY DEF Same, Hears

\* The server answers.
LEMMA ServerTalks ==
    ASSUME NEW cl, NEW sv, NEW wu, NEW wd, NEW su, NEW sd, NEW ou, NEW od, NEW s, NEW pad, NEW p,
           proto \in AllProtocols, Talk(proto, cl, sv, wu, wd, su, sd, ou, od), sv.has_header,
           s \in Seq(Nat), pad \in BOOLEAN, p = server_pre_encrypt(sv, s, pad)
    PROVE  Talk(proto, cl, p.e, wu, wd \o p.cells, su, sd \o s, ou, od)
<1> DEFINE x == "client"
           b == cl.recv_buf
           u == b \o wd
           cells == p.cells
           wd2 == wd \o cells
           sd2 == sd \o s
           e2 == p.e
<1>1. /\ wu \in Seq(CellSet) /\ wd \in Seq(CellSet)
      /\ su \in Seq(Nat) /\ sd \in Seq(Nat) /\ ou \in Seq(Nat) /\ od \in Seq(Nat)
      /\ cl \in EndSet /\ ~cl.dead /\ (Newborn(cl) \/ (cl.has_header /\ Ready(proto, "server", cl)))
      /\ Serving(proto, sv) /\ ~sv.dead /\ ~sv.raw_trans /\ cl.has_header
      /\ Link(proto, x, cl, sv, wd, sd, od)
      /\ Link(proto, "server", sv, cl, wu, su, ou)
  BY DEF Talk, Lines
<1>2. sd2 \in Seq(Nat)
  BY <1>1
<1>3. PICK g, c : /\ Sends(proto, x, cl.recv_buf \o wd, Here(cl, g, c), sv, sd)
                  /\ Heard(proto, x, cl, g, c, Followed(proto, x, sv), od)
  BY <1>1, LinkOpen
<1>4. Settled(proto, cl)
  BY <1>1, LinkOpen
<1>5. b \in Seq(CellSet) /\ u \in Seq(CellSet)
  BY <1>1, EndParts
<1> DEFINE a == Here(cl, g, c)
<1>6. Sends(proto, "client", u, a, sv, sd)
  BY <1>3
<1>7. u = cl.recv_buf \o wd
  OBVIOUS
<1> HIDE DEF u, a, b
<1>8. Answered(u, a, sv, sd2, p)
  <2>1. Answered(u, a, sv, sd \o s, server_pre_encrypt(sv, s, pad))
    BY <1>1, <1>5, <1>6, ServerAnswers
  <2>2. QED
    BY <2>1
<1>9. /\ Serving(proto, e2) /\ Same(e2, sv) /\ cells \in Seq(CellSet)
      /\ Sends(proto, x, u \o cells, Here(cl, g, c), e2, sd2)
      /\ Hashed(proto) => e2.sent_hash > sv.sent_hash
  BY <1>8 DEF Answered, a
<1>10. e2 \in EndSet /\ sv \in EndSet
  BY <1>1, <1>9 DEF Serving
<1>11. Followed(proto, x, e2) => Followed(proto, x, sv)
  <2> DEFINE h == sv.sent_hash
             h2 == e2.sent_hash
  <2>1. h \in Nat /\ h2 \in Nat
    BY <1>10, EndParts
  <2>2. Hashed(proto) => h2 > h
    BY <1>9
  <2>3. IdMod \in Nat
    BY IdModAssumption
  <2> HIDE DEF h, h2
  <2>4. Hashed(proto) /\ h2 <= IdMod => h <= IdMod
    BY <2>1, <2>2, <2>3
  <2>5. QED
    BY <2>4 DEF Followed, h, h2
<1> HIDE DEF x, cells, sd2, e2
<1>12. Link(proto, x, cl, e2, wd \o cells, sd2, od)
  BY <1>1, <1>3, <1>4, <1>7, <1>9, <1>11, LinkGrows
<1>13. Hears(e2, sv) /\ e2.has_header /\ ~e2.dead /\ ~e2.raw_trans
  <2>1. e2.has_header = sv.has_header /\ e2.dead = sv.dead /\ e2.raw_trans = sv.raw_trans
    BY <1>9 DEF Same
  <2>2. QED
    BY <1>1, <1>9, <1>10, <2>1, SameHears
<1>14. Link(proto, "server", e2, cl, wu, su, ou)
  BY <1>1, <1>13, LinkReceiverWrites
<1>15. wd2 \in Seq(CellSet)
  BY <1>1, <1>9
<1>16. wd2 = wd \o cells
  BY DEF cells
<1> HIDE DEF wd2
<1>17. Link(proto, "client", cl, e2, wd2, sd2, od)
  BY <1>12, <1>16 DEF x
<1>18. Lines(wu, wd2, su, sd2, ou, od)
  BY <1>1, <1>2, <1>15 DEF Lines
<1>19. Talk(proto, cl, e2, wu, wd2, su, sd2, ou, od)
  BY <1>1, <1>9, <1>13, <1>14, <1>17, <1>18 DEF Talk
<1>20. QED
  BY <1>19 DEF wd2, sd2, e2, cells

LEMMA OutcomeKept ==
    ASSUME NEW pr, NEW x, NEW w, NEW z, NEW C, NEW o, NEW e0, NEW r,
           r \in Outcome(pr, x, w, z, C, o, e0)
    PROVE  /\ Kept(r.e, e0) /\ r.ret \in Seq(Nat)
           /\ \E c : TunedIf(pr, x, r.e, e0, c)
<1>1. r \in Reading(pr, x, w, z, C, o, e0)
  BY DEF Outcome
<1>2. r \in CallSet /\ Kept(r.e, e0) /\ \E c : TunedIf(pr, x, r.e, e0, c)
  BY <1>1 DEF Reading, TunedIf
<1>3. QED
  BY <1>2, CallParts

\* The client that has read can still send, and has as much to obey.
ClientKept(e2, e) ==
    /\ e2.has_header = e.has_header /\ e2.dead = e.dead
    /\ Ready(proto, "server", e2) /\ Speaks(proto, "server", e2, e)

LEMMA ClientStays ==
    ASSUME NEW e, NEW e2, NEW c, e \in EndSet, e2 \in EndSet,
           Kept(e2, e), TunedIf(proto, "client", e2, e, c), Ready(proto, "server", e)
    PROVE  ClientKept(e2, e)
<1>1. /\ e2.has_header = e.has_header /\ e2.dead = e.dead
      /\ e2.pack_id = e.pack_id /\ e2.sent_hash = e.sent_hash
  BY DEF Kept
<1>2. CASE proto = "auth_akarin"
  <2>1. /\ e2.send_tcp_mss = e.send_tcp_mss
        /\ e2.recv_tcp_mss = IF e2.recv_hash = 0 THEN "default" ELSE "path"
        /\ e2.send_back_cmd = (e2.recv_hash # 0)
        /\ e.recv_tcp_mss \in {"default", e2.recv_tcp_mss}
    BY <1>2 DEF TunedIf, Tuned
  <2>2. IF e.send_back_cmd THEN e.recv_tcp_mss = "path" ELSE e.send_tcp_mss = "drawn"
    BY <1>2 DEF Ready
  <2>3. e.send_back_cmd => e2.send_back_cmd
    <3>1. e.send_back_cmd => e2.recv_tcp_mss = "path"
      BY <2>1, <2>2
    <3>2. e2.recv_tcp_mss = "path" => e2.recv_hash # 0
      BY <2>1
    <3>3. QED
      BY <2>1, <3>1, <3>2
  <2>4. IF e2.send_back_cmd THEN e2.recv_tcp_mss = "path" ELSE e2.send_tcp_mss = "drawn"
    <3>1. e2.send_back_cmd => e2.recv_tcp_mss = "path"
      BY <2>1
    <3>2. ~e2.send_back_cmd => e2.send_tcp_mss = "drawn"
      BY <2>1, <2>2, <2>3
    <3>3. QED
      BY <3>1, <3>2
  <2>5. Ready(proto, "server", e2)
    BY <1>1, <1>2, <2>4 DEF Ready
  <2>6. Speaks(proto, "server", e2, e)
    BY <1>1, <2>3 DEF Speaks, Orders
  <2>7. QED
    BY <1>1, <2>5, <2>6 DEF ClientKept
<1>3. CASE proto # "auth_akarin"
  BY <1>1, <1>3 DEF Ready, ClientKept, Speaks, Orders
<1>4. QED
  BY <1>2, <1>3

\* The ends differ in the tcp_mss of one direction.
Adrift(cl, sv) ==
    /\ proto = "auth_akarin"
    /\ cl.recv_tcp_mss # sv.send_tcp_mss \/ cl.recv_tcp_mss # cl.send_tcp_mss

LEMMA ClientStray ==
    ASSUME NEW e, NEW e2, NEW sv, NEW c, proto = "auth_akarin", Tuned("client", e2, e, c), Astray(e2),
           Serving(proto, sv), sv.has_header
    PROVE  Adrift(e, sv)
<1>1. sv.send_tcp_mss # "default"
  BY DEF Serving
<1>2. e2.send_tcp_mss = e.send_tcp_mss /\ e.recv_tcp_mss \in {"default", e2.recv_tcp_mss}
  BY DEF Tuned
<1>3. CASE e.recv_tcp_mss = "default"
  BY <1>1, <1>3 DEF Adrift
<1>4. CASE e.recv_tcp_mss # "default"
  BY <1>2, <1>4 DEF Adrift, Astray
<1>5. QED
  BY <1>3, <1>4

LEMMA ClientHears ==
    ASSUME NEW cl, NEW sv, NEW wu, NEW wd, NEW su, NEW sd, NEW ou, NEW od,
           NEW chunk, NEW w, NEW misread, NEW r,
           proto \in AllProtocols, Talk(proto, cl, sv, wu, wd, su, sd, ou, od),
           chunk \in Seq(CellSet), chunk # <<>>, w \in Seq(CellSet), wd = chunk \o w,
           r = client_post_decrypt(cl, chunk, misread)
    PROVE  \/ r.st \in {"go", "stop"} /\ Talk(proto, r.e, sv, wu, w, su, sd, ou, od \o r.ret)
           \/ r.st \in {"bad", "raise"} /\ Adrift(cl, sv)
<1> DEFINE F == Followed(proto, "client", sv)
           e2 == r.e
           od2 == od \o r.ret
<1>1. /\ wu \in Seq(CellSet)
      /\ su \in Seq(Nat) /\ sd \in Seq(Nat) /\ ou \in Seq(Nat) /\ od \in Seq(Nat)
      /\ cl \in EndSet /\ ~cl.dead /\ (Newborn(cl) \/ (cl.has_header /\ Ready(proto, "server", cl)))
      /\ Serving(proto, sv) /\ ~sv.dead /\ ~sv.raw_trans
      /\ Link(proto, "client", cl, sv, wd, sd, od)
  BY DEF Talk, Lines
<1>2. sv.has_header
  <2>1. wd # <<>>
    OBVIOUS
  <2>2. QED
    BY <2>1 DEF Talk
<1>3. /\ cl.has_header /\ Link(proto, "server", sv, cl, wu, su, ou) /\ Ready(proto, "server", cl)
  BY <1>1, <1>2 DEF Talk, Newborn
<1>4. PICK z : Sender(proto, "client", sv, z, sd) /\ Waiting(proto, "client", cl, wd, z, F, od)
  BY <1>1 DEF Link
<1>5. F \in BOOLEAN
  BY DEF Followed
<1>6. Counts(F, proto, "client", z)
  BY <1>4 DEF Counts, Sender, There, Followed
<1> HIDE DEF F
<1>7. r \in Outcome(proto, "client", w, z, F, od, cl)
  <2>1. Waiting(proto, "client", cl, chunk \o w, z, F, od)
    BY <1>4
  <2>2. client_post_decrypt(cl, chunk, misread) \in Outcome(proto, "client", w, z, F, od, cl)
    BY <1>1, <1>5, <1>6, <2>1, ClientReads
  <2>3. QED
    BY <2>2
<1>8. PICK c : Kept(e2, cl) /\ r.ret \in Seq(Nat) /\ TunedIf(proto, "client", e2, cl, c)
  BY <1>7, OutcomeKept
<1>9. /\ e2 \in EndSet
      /\ \/ r.st \in {"go", "stop"}
         \/ r.st \in {"bad", "raise"} /\ proto = "auth_akarin" /\ Astray(e2)
  BY <1>7, OutcomeIs
<1>10. CASE r.st \in {"go", "stop"}
  <2>1. Link(proto, "client", e2, sv, w, sd, od2)
    BY <1>4, <1>7, <1>10, LinkReads DEF F
  <2>2. ClientKept(e2, cl)
    BY <1>1, <1>3, <1>8, <1>9, ClientStays
  <2>3. Link(proto, "server", sv, e2, wu, su, ou)
    BY <1>3, <2>2, LinkSenderReads DEF ClientKept
  <2>4. Lines(wu, w, su, sd, ou, od2)
    <3>1. od2 \in Seq(Nat)
      BY <1>1, <1>8
    <3>2. QED
      BY <1>1, <3>1 DEF Lines
  <2>5. e2.has_header /\ ~e2.dead /\ Ready(proto, "server", e2)
    BY <1>1, <1>3, <2>2 DEF ClientKept
  <2> HIDE DEF e2, od2
  <2>6. Talk(proto, e2, sv, wu, w, su, sd, ou, od2)
    BY <1>1, <1>2, <1>9, <2>1, <2>3, <2>4, <2>5 DEF Talk
  <2>7. QED
    BY <1>10, <2>6 DEF e2, od2
<1>11. CASE r.st \in {"bad", "raise"} /\ proto = "auth_akarin" /\ Astray(e2)
  <2>1. Tuned("client", e2, cl, c)
    BY <1>8, <1>11 DEF TunedIf
  <2> HIDE DEF e2
  <2>2. Adrift(cl, sv)
    BY <1>1, <1>2, <1>11, <2>1, ClientStray
  <2>3. QED
    BY <1>11, <2>2
<1>12. QED
  BY <1>9, <1>10, <1>11

\* A client that has an order to give has had a frame of the server.
LEMMA OrderHeard ==
    ASSUME NEW cl, NEW sv, NEW wd, NEW sd, NEW od, cl \in EndSet, sv \in EndSet, wd \in Seq(CellSet),
           Link(proto, "client", cl, sv, wd, sd, od), Orders(proto, "server", cl)
    PROVE  proto = "auth_akarin" /\ sv.sent_hash # 0
<1>1. PICK g, c : /\ Sends(proto, "client", cl.recv_buf \o wd, Here(cl, g, c), sv, sd)
                  /\ Heard(proto, "client", cl, g, c, Followed(proto, "client", sv), od)
  BY LinkOpen
<1>2. PICK g2, c2 : Flow(proto, "client", cl.recv_buf \o wd, Here(cl, g, c), There(sv, g2, c2))
  BY <1>1 DEF Sends
<1>3. proto = "auth_akarin" /\ cl.send_back_cmd
  BY DEF Orders
<1>4. cl.recv_hash # 0 /\ cl.recv_hash \in Nat /\ sv.sent_hash \in Nat
  <2>1. Tuned("client", cl, cl, c)
    BY <1>1, <1>3 DEF Heard, TunedIf
  <2>2. cl.send_back_cmd = (cl.recv_hash # 0)
    BY <2>1 DEF Tuned
  <2>3. QED
    BY <1>3, <2>2, EndParts
<1> DEFINE u == cl.recv_buf \o wd
           a == Here(cl, g, c)
           z == There(sv, g2, c2)
<1>5. u \in Seq(CellSet) /\ a.hash = cl.recv_hash /\ z.hash = sv.sent_hash
  <2>1. cl.recv_buf \in Seq(CellSet)
    BY EndParts
  <2>2. QED
    BY <2>1 DEF Here, There
<1>6. Flow(proto, "client", u, a, z)
  BY <1>2
<1> HIDE DEF u, a, z
<1>7. z.hash >= a.hash
  BY <1>3, <1>4, <1>5, <1>6, FlowHash DEF Hashed
<1>8. QED
  BY <1>3, <1>4, <1>5, <1>7

\* The server that has read can still send.
ServerKept(e2, e) ==
    /\ e2.has_header = e.has_header /\ e2.raw_trans = e.raw_trans /\ e2.dead = e.dead
    /\ Serving(proto, e2) /\ Speaks(proto, "client", e2, e)

LEMMA ServerStays ==
    ASSUME NEW e, NEW e2, NEW c, e2 \in EndSet,
           Kept(e2, e), TunedIf(proto, "server", e2, e, c), Serving(proto, e)
    PROVE  ServerKept(e2, e)
<1>1. /\ e2.has_header = e.has_header /\ e2.raw_trans = e.raw_trans /\ e2.dead = e.dead
      /\ e2.pack_id = e.pack_id /\ e2.sent_hash = e.sent_hash
  BY DEF Kept
<1>2. proto = "auth_akarin" =>
         e2.send_tcp_mss = e.send_tcp_mss /\ e2.new_send_tcp_mss = e.new_send_tcp_mss
  BY DEF TunedIf, Tuned
<1>3. Serving(proto, e2)
  BY <1>1, <1>2 DEF Serving
<1>4. Speaks(proto, "client", e2, e)
  BY <1>1 DEF Speaks, Orders
<1>5. QED
  BY <1>1, <1>3, <1>4 DEF ServerKept

\* The server, with the header, has read.
LEMMA ServerTold ==
    ASSUME NEW cl, NEW sv, NEW wu, NEW wd, NEW su, NEW sd, NEW ou, NEW od, NEW e2, NEW w, NEW o2,
           Talk(proto, cl, sv, wu, wd, su, sd, ou, od), cl.has_header,
           Serving(proto, e2), e2.has_header, ~e2.raw_trans, ~e2.dead, Speaks(proto, "client", e2, sv),
           w \in Seq(CellSet), o2 \in Seq(Nat), Link(proto, "server", e2, cl, w, su, o2)
    PROVE  Talk(proto, cl, e2, w, wd, su, sd, o2, od)
<1>1. /\ wd \in Seq(CellSet) /\ su \in Seq(Nat) /\ sd \in Seq(Nat) /\ od \in Seq(Nat)
      /\ cl \in EndSet /\ ~cl.dead /\ (Newborn(cl) \/ (cl.has_header /\ Ready(proto, "server", cl)))
      /\ Link(proto, "client", cl, sv, wd, sd, od)
  BY DEF Talk, Lines
<1>2. Link(proto, "client", cl, e2, wd, sd, od)
  BY <1>1, LinkSenderReads
<1>3. Lines(w, wd, su, sd, o2, od)
  BY <1>1 DEF Lines
<1>4. QED
  BY <1>1, <1>2, <1>3 DEF Talk

\* The outcomes of a call of the server of Talk.
Hearing(r, cl, sv, w, wd, su, sd, ou, od) ==
    /\ r.st \in {"go", "stop"} /\ (r.back => r.e.has_header)
    /\ Talk(proto, cl, r.e, w, wd, su, sd, ou \o r.ret, od)

Turning(r, cl, admit, wd, sd, ou, od) ==
    /\ Rejected(r, admit) /\ cl.has_header
    /\ ou = <<>> /\ wd = <<>> /\ sd = <<>> /\ od = <<>>

Losing(r, sv) ==
    /\ proto = "auth_akarin" /\ r.st \in {"junk", "raise"} /\ r.e \in EndSet /\ Apart(r.e) /\ Apart(sv)
    /\ r.e.has_header /\ sv.has_header

\* The server that has its header.
LEMMA ServerHearsOn ==
    ASSUME NEW cl, NEW sv, NEW wu, NEW wd, NEW su, NEW sd, NEW ou, NEW od,
           NEW chunk, NEW w, NEW iv, NEW admit, NEW misread, NEW r,
           proto \in AllProtocols, Talk(proto, cl, sv, wu, wd, su, sd, ou, od), sv.has_header,
           chunk \in Seq(CellSet), w \in Seq(CellSet), wu = chunk \o w,
           r = server_post_decrypt(sv, chunk, iv, admit, misread)
    PROVE  Hearing(r, cl, sv, w, wd, su, sd, ou, od) \/ Losing(r, sv)
<1> DEFINE F == Followed(proto, "server", cl)
           e2 == r.e
           o2 == ou \o r.ret
<1>1. /\ wd \in Seq(CellSet) /\ ou \in Seq(Nat) /\ cl \in EndSet /\ sv \in EndSet
      /\ Serving(proto, sv) /\ ~sv.dead /\ ~sv.raw_trans /\ cl.has_header
      /\ Link(proto, "client", cl, sv, wd, sd, od) /\ Link(proto, "server", sv, cl, wu, su, ou)
  BY DEF Talk, Lines, Serving
<1>2. PICK z : Sender(proto, "server", cl, z, su) /\ Waiting(proto, "server", sv, wu, z, F, ou)
  BY <1>1 DEF Link
<1>3. F \in BOOLEAN
  BY DEF Followed
<1>4. Obeyable(z, sv)
  <2>1. PICK g, c : z = There(cl, g, c) /\ (c => Orders(proto, "server", cl))
    BY <1>2 DEF Sender
  <2>2. z.cmd => proto = "auth_akarin" /\ sv.sent_hash # 0
    <3>1. z.cmd = c
      BY <2>1 DEF There
    <3>2. Orders(proto, "server", cl) => proto = "auth_akarin" /\ sv.sent_hash # 0
      BY <1>1, OrderHeard
    <3>3. QED
      BY <2>1, <3>1, <3>2
  <2>3. QED
    BY <1>1, <2>2 DEF Obeyable, Serving
<1> HIDE DEF F
<1>5. Ended(r, w, z, F, ou, sv)
  <2>1. Waiting(proto, "server", sv, chunk \o w, z, F, ou)
    BY <1>2
  <2>2. Ended(server_post_decrypt(sv, chunk, iv, admit, misread), w, z, F, ou, sv)
    BY <1>1, <1>3, <1>4, <2>1, LaterReads
  <2>3. QED
    BY <2>2
<1>6. CASE r \in Outcome(proto, "server", w, z, F, ou, sv) /\ r.st \in {"go", "stop"}
  <2>1. Link(proto, "server", e2, cl, w, su, o2)
    BY <1>2, <1>6, LinkReads DEF F
  <2>2. PICK c : Kept(e2, sv) /\ r.ret \in Seq(Nat) /\ TunedIf(proto, "server", e2, sv, c)
    BY <1>6, OutcomeKept
  <2>3. e2 \in EndSet
    BY <1>6, OutcomeIs
  <2>4. ServerKept(e2, sv)
    BY <1>1, <2>2, <2>3, ServerStays
  <2>5. o2 \in Seq(Nat)
    BY <1>1, <2>2
  <2> HIDE DEF e2, o2
  <2>6. Serving(proto, e2) /\ e2.has_header /\ ~e2.raw_trans /\ ~e2.dead /\ Speaks(proto, "client", e2, sv)
    BY <1>1, <2>4 DEF ServerKept
  <2>7. Talk(proto, cl, e2, w, wd, su, sd, o2, od)
    BY <1>1, <2>1, <2>5, <2>6, ServerTold
  <2>8. QED
    BY <1>6, <2>6, <2>7 DEF Hearing, e2, o2
<1>7. CASE ~(r \in Outcome(proto, "server", w, z, F, ou, sv) /\ r.st \in {"go", "stop"})
  BY <1>5, <1>7 DEF Ended, Losing
<1>8. QED
  BY <1>6, <1>7

\* The server that waits for its header.
LEMMA ServerHearsFirst ==
    ASSUME NEW cl, NEW sv, NEW wu, NEW wd, NEW su, NEW sd, NEW ou, NEW od,
           NEW chunk, NEW w, NEW iv, NEW admit, NEW misread, NEW r,
           proto \in AllProtocols, Talk(proto, cl, sv, wu, wd, su, sd, ou, od), ~sv.has_header,
           chunk \in Seq(CellSet), chunk # <<>>, w \in Seq(CellSet), wu = chunk \o w, iv \in BOOLEAN, admit \in BOOLEAN,
           r = server_post_decrypt(sv, chunk, iv, admit, misread)
    PROVE  Hearing(r, cl, sv, w, wd, su, sd, ou, od) \/ Turning(r, cl, iv /\ admit, wd, sd, ou, od)
<1> DEFINE F == Followed(proto, "server", cl)
           b == sv.recv_buf
           b2 == b \o chunk
           e2 == r.e
<1>1. /\ wd \in Seq(CellSet) /\ su \in Seq(Nat) /\ cl \in EndSet /\ sv \in EndSet
      /\ sd \in Seq(Nat) /\ od \in Seq(Nat)
      /\ ~cl.dead /\ (Newborn(cl) \/ (cl.has_header /\ Ready(proto, "server", cl)))
      /\ Link(proto, "client", cl, sv, wd, sd, od) /\ Awaiting(proto, cl, sv, wu, su)
      /\ ou = <<>> /\ wd = <<>> /\ sd = <<>> /\ od = <<>>
  BY DEF Talk, Lines, Serving
<1>2. Unheaded(sv) /\ b \in Seq(CellSet)
  BY <1>1, EndParts DEF Awaiting
<1>3. cl.has_header /\ Greeting(proto, b, wu, cl, su)
  <2>1. wu # <<>>
    OBVIOUS
  <2>2. QED
    BY <1>1, <2>1 DEF Awaiting
<1>4. PICK d, hd, s : Heralds(proto, b, wu, d, hd, s) /\ Sends(proto, "server", s, Start(d), cl, su)
  BY <1>3 DEF Greeting
<1>5. Heralds(proto, b2, w, d, hd, s) /\ b2 \in Seq(CellSet)
  <2>1. HeadCells(proto, d, hd) /\ s \in Seq(CellSet) /\ b \o wu = hd \o s
    BY <1>4 DEF Heralds
  <2> HIDE DEF b
  <2>2. (b \o chunk) \o w = b \o (chunk \o w) /\ b2 \in Seq(CellSet)
    BY <1>2, RegroupCells, SMTT(30)
  <2> HIDE DEF b2
  <2>3. b2 \o w = hd \o s
    BY <2>1, <2>2 DEF b2
  <2>4. QED
    BY <2>1, <2>2, <2>3 DEF Heralds
<1>6. PICK z : Flow(proto, "server", s, Start(d), z) /\ Sender(proto, "server", cl, z, su)
  BY <1>4, SendsSender
<1>7. ~z.cmd
  <2>1. PICK g, c : z = There(cl, g, c) /\ (c => Orders(proto, "server", cl))
    BY <1>6 DEF Sender
  <2>2. z.cmd = c
    BY <2>1 DEF There
  <2>3. Orders(proto, "server", cl) => sv.sent_hash # 0
    BY <1>1, OrderHeard
  <2>4. sv.sent_hash = 0
    BY <1>2 DEF Unheaded, Idle
  <2>5. QED
    BY <2>1, <2>2, <2>3, <2>4
<1>8. F \in BOOLEAN
  BY DEF Followed
<1> HIDE DEF F
<1>9. \/ Paused(r, b2) \/ Rejected(r, iv /\ admit) \/ \E e1 : Opens(r, w, z, F, e1)
  <2>1. Heralds(proto, sv.recv_buf \o chunk, w, d, hd, s)
    BY <1>5
  <2> HIDE DEF b, b2
  <2>2. LET q == server_post_decrypt(sv, chunk, iv, admit, misread)
        IN  \/ Paused(q, sv.recv_buf \o chunk) \/ Rejected(q, iv /\ admit) \/ \E e1 : Opens(q, w, z, F, e1)
    BY <1>2, <1>6, <1>7, <1>8, <2>1, FirstReads
  <2>3. QED
    BY <2>2 DEF b, b2
<1>10. CASE Rejected(r, iv /\ admit)
  BY <1>1, <1>3, <1>10 DEF Turning
<1>11. CASE Paused(r, b2)
  <2>1. /\ r.st = "stop" /\ r.ret = <<>> /\ ~r.back
        /\ Unheaded(e2) /\ e2.recv_buf = b2 /\ Len(b2) < HeadLen(proto)
    BY <1>11 DEF Paused
  <2>2. Serving(proto, e2) /\ ~e2.dead /\ ~e2.raw_trans /\ ~e2.has_header
    <3>1. IdOf(1, 0)
      BY IdModAssumption DEF IdOf
    <3>2. QED
      BY <2>1, <3>1 DEF Serving, Unheaded, Idle
  <2>3. Speaks(proto, "client", e2, sv)
    BY <1>2, <2>1 DEF Speaks, Unheaded, Idle, Orders
  <2>4. Link(proto, "client", cl, e2, wd, sd, od)
    BY <1>1, <2>3, LinkSenderReads
  <2>5. Greeting(proto, b2, w, cl, su)
    BY <1>4, <1>5 DEF Greeting
  <2>6. Awaiting(proto, cl, e2, w, su)
    BY <1>3, <2>1, <2>5 DEF Awaiting
  <2>7. Lines(w, wd, su, sd, ou, od)
    BY <1>1 DEF Lines
  <2> HIDE DEF e2, b2
  <2>8. Talk(proto, cl, e2, w, wd, su, sd, ou, od)
    BY <1>1, <2>2, <2>4, <2>6, <2>7 DEF Talk
  <2>9. ou \o r.ret = ou
    BY <1>1, <2>1
  <2>10. QED
    BY <2>1, <2>8, <2>9 DEF Hearing, e2
<1>12. CASE \E e1 : Opens(r, w, z, F, e1)
  <2>1. PICK e1 : Opens(r, w, z, F, e1)
    BY <1>12
  <2>2. /\ e1.has_header /\ Idle(e1) /\ (proto = "auth_akarin" => e1.send_tcp_mss = "drawn")
        /\ r \in Outcome(proto, "server", w, z, F, ou, e1) /\ r.st \in {"go", "stop"}
    BY <1>1, <2>1 DEF Opens
  <2>3. Link(proto, "server", e2, cl, w, su, ou \o r.ret)
    BY <1>6, <2>2, LinkReads DEF F
  <2>4. PICK c : Kept(e2, e1) /\ r.ret \in Seq(Nat) /\ TunedIf(proto, "server", e2, e1, c)
    BY <2>2, OutcomeKept
  <2>5. e2 \in EndSet
    BY <2>2, OutcomeIs
  <2>6. Serving(proto, e1)
    <3>1. IdOf(1, 0)
      BY IdModAssumption DEF IdOf
    <3>2. e1 \in EndSet
      BY <2>1 DEF Opens
    <3>3. QED
      BY <2>2, <3>1, <3>2 DEF Serving, Idle
  <2>7. ServerKept(e2, e1)
    BY <2>4, <2>5, <2>6, ServerStays
  <2> DEFINE o2 == ou \o r.ret
  <2>8. o2 \in Seq(Nat)
    BY <1>1, <2>4
  <2> HIDE DEF e2, o2
  <2>9. Serving(proto, e2) /\ e2.has_header /\ ~e2.raw_trans /\ ~e2.dead
    BY <2>2, <2>7 DEF ServerKept, Idle
  <2>10. Speaks(proto, "client", e2, sv)
    BY <1>2, <2>2, <2>7 DEF ServerKept, Speaks, Unheaded, Idle, Orders
  <2>11. Link(proto, "server", e2, cl, w, su, o2)
    BY <2>3 DEF o2
  <2>12. Talk(proto, cl, e2, w, wd, su, sd, o2, od)
    BY <1>3, <2>8, <2>9, <2>10, <2>11, ServerTold
  <2>13. QED
    BY <2>2, <2>9, <2>12 DEF Hearing, e2, o2
<1>13. QED
  BY <1>9, <1>10, <1>11, <1>12

-----------------------------------------------------------------------------
(* A plain client.                                                         *)

PlainCell(i) == [t |-> "data", f |-> NewFrame(<<i>>), ok |-> TRUE]

LEMMA PlainCellIs ==
    ASSUME NEW i, i \in Nat
    PROVE  /\ PlainCell(i) \in CellSet /\ PlainCell(i).t = "data" /\ PlainCell(i).f.d[1] = i
<1> DEFINE d == <<i>>
           no == FALSE
<1>1. d \in Seq(Nat) /\ d[1] = i
  OBVIOUS
<1>2. NewFrame(<<i>>) = [d |-> d, id |-> 0, prev |-> 0, mss |-> "default", cmd |-> no, exact |-> no, size |-> 3]
  BY DEF NewFrame
<1> HIDE DEF d
<1>3. [d |-> d, id |-> 0, prev |-> 0, mss |-> "default", cmd |-> no, exact |-> no, size |-> 3] \in FrameSet
  BY <1>1 DEF FrameSet, Modes
<1>4. NewFrame(<<i>>) \in FrameSet /\ NewFrame(<<i>>).d = d
  BY <1>2, <1>3
<1> DEFINE f == NewFrame(<<i>>)
<1>5. PlainCell(i) = [t |-> "data", f |-> f, ok |-> TRUE] /\ f \in FrameSet /\ f.d = d
  BY <1>4 DEF PlainCell
<1> HIDE DEF f
<1>6. QED
  BY <1>1, <1>5 DEF CellSet, Parts

LEMMA PlainlyIs ==
    ASSUME NEW s, s \in Seq(Nat)
    PROVE  /\ Plainly(s) \in Seq(CellSet) /\ Len(Plainly(s)) = Len(s)
           /\ \A i \in 1 .. Len(s) : Plainly(s)[i] = PlainCell(s[i])
           /\ IsData(Plainly(s)) /\ DataOf(Plainly(s)) = s
<1> DEFINE w == Plainly(s)
<1>1. DOMAIN s = 1 .. Len(s) /\ Len(s) \in Nat /\ \A i \in 1 .. Len(s) : s[i] \in Nat
  OBVIOUS
<1>2. w = [i \in 1 .. Len(s) |-> PlainCell(s[i])]
  BY <1>1 DEF Plainly, PlainCell
<1>3. \A i \in 1 .. Len(s) : /\ PlainCell(s[i]) \in CellSet /\ PlainCell(s[i]).t = "data"
                             /\ PlainCell(s[i]).f.d[1] = s[i]
  BY <1>1, PlainCellIs
<1> DEFINE n == Len(s)
<1>4. w \in [1 .. n -> CellSet] /\ n \in Nat
  BY <1>1, <1>2, <1>3
<1>5. w \in Seq(CellSet) /\ Len(w) = n /\ DOMAIN w = 1 .. n
  <2> HIDE DEF w, n
  <2>1. QED
    BY <1>4
<1>6. IsData(w)
  <2> HIDE DEF w, n
  <2>1. ASSUME NEW i \in DOMAIN w PROVE w[i].t = "data"
    BY <1>2, <1>3, <1>5 DEF n
  <2>2. QED
    BY <2>1 DEF IsData
<1>7. DataOf(w) = s
  <2> HIDE DEF w
  <2>1. DataOf(w) = [i \in 1 .. n |-> w[i].f.d[1]]
    BY <1>5 DEF DataOf
  <2>2. \A i \in 1 .. n : w[i].f.d[1] = s[i]
    BY <1>2, <1>3
  <2>3. DataOf(w) = [i \in 1 .. n |-> s[i]]
    BY <2>1, <2>2
  <2>4. QED
    BY <1>1, <2>3
<1>8. QED
  BY <1>2, <1>5, <1>6, <1>7

LEMMA PlainlyJoin ==
    ASSUME NEW s, NEW t, s \in Seq(Nat), t \in Seq(Nat)
    PROVE  Plainly(s) \o Plainly(t) = Plainly(s \o t)
<1> DEFINE a == Plainly(s)
           b == Plainly(t)
           v == s \o t
           c == Plainly(v)
<1>1. /\ v \in Seq(Nat) /\ Len(v) = Len(s) + Len(t) /\ Len(s) \in Nat /\ Len(t) \in Nat
      /\ \A i \in 1 .. Len(v) : v[i] = IF i <= Len(s) THEN s[i] ELSE t[i - Len(s)]
  OBVIOUS
<1>2. a \in Seq(CellSet) /\ Len(a) = Len(s) /\ \A i \in 1 .. Len(s) : a[i] = PlainCell(s[i])
  BY PlainlyIs
<1>3. b \in Seq(CellSet) /\ Len(b) = Len(t) /\ \A i \in 1 .. Len(t) : b[i] = PlainCell(t[i])
  BY PlainlyIs
<1>4. c \in Seq(CellSet) /\ Len(c) = Len(v) /\ \A i \in 1 .. Len(v) : c[i] = PlainCell(v[i])
  <2> HIDE DEF v
  <2>1. QED
    BY <1>1, PlainlyIs
<1> HIDE DEF a, b, c, v
<1>5. /\ a \o b \in Seq(CellSet) /\ Len(a \o b) = Len(a) + Len(b)
      /\ \A i \in 1 .. Len(a) + Len(b) : (a \o b)[i] = IF i <= Len(a) THEN a[i] ELSE b[i - Len(a)]
  <2>1. a \in Seq(CellSet) /\ b \in Seq(CellSet)
    BY <1>2, <1>3
  <2>2. QED
    BY <2>1
<1> DEFINE ab == a \o b
<1> HIDE DEF ab
<1>6. ASSUME NEW i \in 1 .. Len(v) PROVE ab[i] = c[i]
  <2> DEFINE n == Len(s)
             m == Len(t)
  <2>1. n \in Nat /\ m \in Nat /\ i \in 1 .. n + m /\ Len(a) = n /\ Len(b) = m
    BY <1>1, <1>2, <1>3
  <2>2. c[i] = PlainCell(v[i]) /\ v[i] = IF i <= n THEN s[i] ELSE t[i - n]
    BY <1>1, <1>4
  <2>3. ab[i] = IF i <= n THEN a[i] ELSE b[i - n]
    BY <1>5, <2>1 DEF ab
  <2> HIDE DEF n, m
  <2>4. CASE i <= n
    <3>1. i \in 1 .. n
      BY <2>1, <2>4
    <3>2. a[i] = PlainCell(s[i])
      BY <1>2, <3>1 DEF n
    <3>3. QED
      BY <2>2, <2>3, <2>4, <3>2
  <2>5. CASE ~(i <= n)
    <3> DEFINE j == i - n
    <3>1. j \in 1 .. m
      BY <2>1, <2>5
    <3> HIDE DEF j
    <3>2. b[j] = PlainCell(t[j])
      BY <1>3, <3>1 DEF m
    <3>3. QED
      BY <2>2, <2>3, <2>5, <3>2 DEF j
  <2>6. QED
    BY <2>4, <2>5
<1>7. ab \in Seq(CellSet) /\ Len(ab) = Len(v) /\ Len(c) = Len(v)
  BY <1>1, <1>2, <1>3, <1>4, <1>5 DEF ab
<1>8. ab = c
  BY <1>4, <1>6, <1>7, SeqEqual
<1>9. QED
  BY <1>8 DEF ab, a, b, c, v

\* In a direction without frames s has been sent, o handed up and w is between.
PlainLink(w, s, o) ==
    /\ w \in Seq(CellSet) /\ s \in Seq(Nat) /\ o \in Seq(Nat)
    /\ \E t : t \in Seq(Nat) /\ s = o \o t /\ w = Plainly(t)

LEMMA PlainStart == PlainLink(<<>>, <<>>, <<>>)
<1> DEFINE nil == <<>>
<1>1. nil \in Seq(Nat) /\ nil \in Seq(CellSet) /\ nil \o nil = nil /\ Len(nil) = 0
  OBVIOUS
<1>2. Plainly(nil) = nil
  <2>1. Plainly(nil) \in Seq(CellSet) /\ Len(Plainly(nil)) = Len(nil)
    BY <1>1, PlainlyIs
  <2> DEFINE w == Plainly(nil)
  <2> HIDE DEF w
  <2>2. w \in Seq(CellSet) /\ Len(w) = 0
    BY <1>1, <2>1 DEF w
  <2>3. QED
    BY <2>2 DEF w
<1> HIDE DEF nil
<1>3. PlainLink(nil, nil, nil)
  BY <1>1, <1>2 DEF PlainLink
<1>4. QED
  BY <1>3 DEF nil

LEMMA PlainGrows ==
    ASSUME NEW w, NEW s, NEW o, NEW v, PlainLink(w, s, o), v \in Seq(Nat)
    PROVE  PlainLink(w \o Plainly(v), s \o v, o)
<1> DEFINE p == Plainly(v)
<1>1. PICK t : t \in Seq(Nat) /\ s = o \o t /\ w = Plainly(t)
  BY DEF PlainLink
<1>2. w \in Seq(CellSet) /\ s \in Seq(Nat) /\ o \in Seq(Nat)
  BY DEF PlainLink
<1>3. p \in Seq(CellSet)
  BY PlainlyIs
<1> DEFINE t2 == t \o v
<1>4. t2 \in Seq(Nat) /\ s \o v = o \o t2 /\ s \o v \in Seq(Nat)
  <2>1. (o \o t) \o v = o \o (t \o v) /\ t \o v \in Seq(Nat)
    <3>1. o \in Seq(Nat) /\ t \in Seq(Nat) /\ v \in Seq(Nat)
      BY <1>1, <1>2
    <3>2. QED
      BY <3>1, Regroup, ZenonT(40)
  <2>2. s \o v \in Seq(Nat)
    BY <1>2
  <2>3. QED
    BY <1>1, <2>1, <2>2
<1>5. Plainly(t) \o p = Plainly(t2)
  BY <1>1, PlainlyJoin
<1> HIDE DEF p, t2
<1>6. w \o p \in Seq(CellSet)
  BY <1>2, <1>3
<1>7. PlainLink(w \o p, s \o v, o)
  BY <1>1, <1>2, <1>4, <1>5, <1>6 DEF PlainLink
<1>8. QED
  BY <1>7 DEF p

LEMMA PlainReads ==
    ASSUME NEW w, NEW s, NEW o, NEW n, PlainLink(w, s, o), n \in 1 .. Len(w)
    PROVE  LET chunk == SubSeq(w, 1, n)
           IN  /\ chunk \in Seq(CellSet) /\ chunk # <<>> /\ IsData(chunk) /\ DataOf(chunk) \in Seq(Nat)
               /\ PlainLink(Drop(w, n), s, o \o DataOf(chunk))
<1>1. PICK t : t \in Seq(Nat) /\ s = o \o t /\ w = Plainly(t)
  BY DEF PlainLink
<1>2. w \in Seq(CellSet) /\ s \in Seq(Nat) /\ o \in Seq(Nat)
  BY DEF PlainLink
<1>3. Len(w) = Len(t) /\ \A i \in 1 .. Len(t) : w[i] = PlainCell(t[i])
  BY <1>1, PlainlyIs
<1>4. n \in 1 .. Len(t) /\ n \in 0 .. Len(t) /\ n \in 0 .. Len(w) /\ Len(t) \in Nat /\ n \in Nat
  BY <1>1, <1>3
<1> DEFINE c == SubSeq(w, 1, n)
           l == Drop(w, n)
           a == SubSeq(t, 1, n)
           z == Drop(t, n)
<1>5. /\ a \in Seq(Nat) /\ Len(a) = n /\ (\A i \in 1 .. n : a[i] = t[i])
      /\ z \in Seq(Nat) /\ Len(z) = Len(t) - n /\ (\A i \in 1 .. Len(t) - n : z[i] = t[n + i])
      /\ a \o z = t
  BY <1>1, <1>4, CutSeq DEF Drop
<1>6. /\ c \in Seq(CellSet) /\ Len(c) = n /\ (\A i \in 1 .. n : c[i] = w[i])
      /\ l \in Seq(CellSet) /\ Len(l) = Len(w) - n /\ (\A i \in 1 .. Len(w) - n : l[i] = w[n + i])
  BY <1>2, <1>4, CutSeq DEF Drop
<1> HIDE DEF c, l, a, z
<1> DEFINE pa == Plainly(a)
           pz == Plainly(z)
<1>7. /\ pa \in Seq(CellSet) /\ Len(pa) = n /\ (\A i \in 1 .. n : pa[i] = PlainCell(a[i]))
      /\ IsData(pa) /\ DataOf(pa) = a
  BY <1>5, PlainlyIs
<1>8. /\ pz \in Seq(CellSet) /\ Len(pz) = Len(t) - n /\ \A i \in 1 .. Len(t) - n : pz[i] = PlainCell(z[i])
  <2>1. /\ pz \in Seq(CellSet) /\ Len(pz) = Len(z) /\ \A i \in 1 .. Len(z) : pz[i] = PlainCell(z[i])
    BY <1>5, PlainlyIs
  <2>2. QED
    BY <1>5, <2>1
<1> HIDE DEF pa, pz
<1>9. c = pa
  <2>1. \A i \in 1 .. n : c[i] = pa[i]
    <3>1. \A i \in 1 .. n : i \in 1 .. Len(t)
      BY <1>4
    <3>2. ASSUME NEW i \in 1 .. n PROVE c[i] = pa[i]
      <4>1. c[i] = w[i] /\ a[i] = t[i] /\ pa[i] = PlainCell(a[i])
        BY <1>5, <1>6, <1>7
      <4>2. w[i] = PlainCell(t[i])
        BY <1>3, <3>1
      <4>3. QED
        BY <4>1, <4>2
    <3>3. QED
      BY <3>2
  <2>2. Len(c) = n /\ Len(pa) = n /\ c \in Seq(CellSet) /\ pa \in Seq(CellSet)
    BY <1>6, <1>7
  <2>3. QED
    BY <2>1, <2>2, SeqEqual
<1>10. l = pz
  <2> DEFINE k == Len(t) - n
  <2>1. \A i \in 1 .. k : l[i] = pz[i]
    <3>1. \A i \in 1 .. k : n + i \in 1 .. Len(t)
      BY <1>4
    <3>2. ASSUME NEW i \in 1 .. k PROVE l[i] = pz[i]
      <4>1. n + i \in 1 .. Len(t) /\ i \in 1 .. Len(t) - n
        BY <3>1, <3>2
      <4>2. l[i] = w[n + i] /\ z[i] = t[n + i] /\ pz[i] = PlainCell(z[i])
        <5>1. i \in 1 .. Len(w) - n
          BY <1>3, <4>1
        <5>2. QED
          BY <1>5, <1>6, <1>8, <4>1, <5>1
      <4>3. w[n + i] = PlainCell(t[n + i])
        BY <1>3, <4>1
      <4>4. QED
        BY <4>2, <4>3
    <3>3. QED
      BY <3>2
  <2>2. Len(l) = k /\ Len(pz) = k /\ l \in Seq(CellSet) /\ pz \in Seq(CellSet)
    BY <1>3, <1>6, <1>8
  <2> HIDE DEF k
  <2>3. QED
    BY <2>1, <2>2, SeqEqual
<1>11. c # <<>>
  BY <1>4, <1>6
<1> DEFINE o2 == o \o a
<1>12. o2 \in Seq(Nat) /\ s = o2 \o z
  <2>1. (o \o a) \o z = o \o (a \o z) /\ o \o a \in Seq(Nat)
    <3>1. o \in Seq(Nat) /\ a \in Seq(Nat) /\ z \in Seq(Nat)
      BY <1>2, <1>5
    <3>2. QED
      BY <3>1, Regroup, SMTT(30)
  <2>2. QED
    BY <1>1, <1>5, <2>1
<1> HIDE DEF o2
<1>13. PlainLink(l, s, o2)
  BY <1>2, <1>5, <1>6, <1>10, <1>12 DEF PlainLink, pz
<1>14. QED
  BY <1>5, <1>6, <1>7, <1>9, <1>11, <1>13 DEF c, l, o2

LEMMA PlainDone ==
    ASSUME NEW s, NEW o, PlainLink(<<>>, s, o)
    PROVE  s = o
<1>1. PICK t : t \in Seq(Nat) /\ s = o \o t /\ <<>> = Plainly(t) /\ o \in Seq(Nat)
  BY DEF PlainLink
<1>2. Len(t) = 0
  BY <1>1, PlainlyIs
<1>3. t = <<>>
  BY <1>1, <1>2
<1>4. QED
  BY <1>1, <1>3

\* A server without a header makes nothing of plain data.
LEMMA PlainHeader ==
    ASSUME NEW c, NEW b, NEW iv, NEW admit,
           proto \in AllProtocols, c \in CallSet, c.e.recv_buf = b, b # <<>>, IsData(b)
    PROVE  Header(c, iv, admit) = [c EXCEPT !.st = "nomatch"]
<1>1. b \in Seq(CellSet) /\ Len(b) \in Nat /\ Len(b) >= 1
  BY CallParts
<1>2. b[1].t = "data"
  BY <1>1 DEF IsData
<1>3. CASE proto = "auth_sha1_v4"
  BY <1>1, <1>2, <1>3 DEF Header, V4!Header, V4!IsGood, V4!Stop
<1>4. CASE proto = "auth_aes128"
  BY <1>1, <1>2, <1>4 DEF Header, Aes!Header, Aes!IsGood, Aes!Stop
<1>5. CASE proto = "auth_chain"
  BY <1>1, <1>2, <1>5 DEF Header, Chain!Header, Chain!IsGood, Chain!Stop
<1>6. CASE proto = "auth_akarin"
  BY <1>1, <1>2, <1>6 DEF Header, Akarin!Header, Akarin!IsGood, Akarin!Stop
<1>7. QED
  BY <1>3, <1>4, <1>5, <1>6 DEF AllProtocols

LEMMA PlainRefused ==
    ASSUME NEW e, NEW chunk, NEW iv, NEW admit, NEW misread, NEW r,
           proto \in AllProtocols, e \in EndSet, ~e.has_header, e.recv_buf = <<>>,
           chunk \in Seq(CellSet), chunk # <<>>, IsData(chunk),
           r = server_post_decrypt(e, chunk, iv, admit, misread)
    PROVE  r.st = "nomatch" /\ r.e \in EndSet /\ r.e.recv_buf = chunk /\ r.e.dead = e.dead
<1> DEFINE c == Call(e, chunk)
           h == Header(c, iv, admit)
<1>1. /\ c \in CallSet /\ c.ret = <<>> /\ Alike(c.e, e) /\ c.e.recv_buf = e.recv_buf \o chunk
  BY CallIs
<1>2. c.e.recv_buf = chunk
  BY <1>1
<1>3. h = Begun(e, chunk, iv, admit)
  BY DEF Begun
<1> HIDE DEF c
<1>4. h = [c EXCEPT !.st = "nomatch"]
  BY <1>1, <1>2, PlainHeader
<1> HIDE DEF h
<1>5. h \in CallSet /\ h.st = "nomatch" /\ h.ret = <<>> /\ h.e = c.e
  BY <1>1, <1>4 DEF CallSet
<1>6. /\ r \in CallSet /\ r.st = h.st /\ r.e.recv_buf = h.e.recv_buf /\ Alike(r.e, h.e)
  BY <1>3, <1>5, NoFrames
<1>7. r.e.dead = e.dead
  BY <1>1, <1>5, <1>6 DEF Alike, Kept
<1>8. QED
  BY <1>2, <1>5, <1>6, <1>7, CallParts

-----------------------------------------------------------------------------
(* The states a connection without faults can be in.                       *)

\* The ends differ in tcp_mss: a check has failed, or the next one may.
Lost ==
    /\ proto = "auth_akarin" /\ end["server"].has_header
    /\ (~Alive /\ OutOfStep) \/ (end["server"].raw_trans /\ Apart(end["server"]))

\* The client is plain, and the server has read nothing or passes everything on.
PlainMode ==
    /\ plain /\ ~end["client"].dead /\ ~end["server"].dead
    /\ ~refused["client"] /\ (refused["server"] => ~compatible)
    /\ PlainLink(wire["client"], sent["client"], out["client"])
    /\ refused["server"] \/ PlainLink(wire["server"], sent["server"], out["server"])
    /\ wire["server"] \in Seq(CellSet) /\ sent["server"] \in Seq(Nat)
    /\ ~end["server"].raw_trans =>
          /\ end["server"] \in EndSet /\ ~end["server"].has_header /\ end["server"].recv_buf = <<>>
          /\ out["server"] = <<>> /\ ~refused["server"]

\* The client table has refused the header, or the keys were made of a part of
\* the IV.
TurnedAway ==
    /\ ~plain /\ ~end["client"].dead /\ ~end["server"].dead
    /\ end["server"].raw_trans /\ refused["server"] /\ ~refused["client"]
    /\ admitted = "no" \/ recv_iv = "part"
    /\ end["client"] \in EndSet /\ end["client"].has_header /\ Ready(proto, "server", end["client"])
    /\ sent["server"] \in Seq(Nat) /\ out["server"] = <<>>
    /\ sent["client"] = <<>> /\ out["client"] = <<>> /\ wire["client"] = <<>>

Speaking ==
    /\ ~plain /\ ~refused["client"] /\ ~refused["server"]
    /\ Talk(proto, end["client"], end["server"], wire["server"], wire["client"],
            sent["server"], sent["client"], out["server"], out["client"])

Mode == Lost \/ PlainMode \/ TurnedAway \/ Speaking

Pairs ==
    /\ DOMAIN end = Ends /\ DOMAIN wire = Ends /\ DOMAIN sent = Ends
    /\ DOMAIN out = Ends /\ DOMAIN refused = Ends

FramesInv ==
    /\ proto \in AllProtocols /\ compatible \in BOOLEAN /\ plain \in BOOLEAN /\ faults \in Nat
    /\ Pairs
    /\ faults = 0 => Mode

\* What no action changes, or only by a fault.
Quiet == faults = 0 /\ faults' = 0 /\ UNCHANGED config

LEMMA FramesInit == Init => FramesInv
<1> SUFFICES ASSUME Init PROVE FramesInv
  OBVIOUS
<1> DEFINE nil == <<>>
<1>1. /\ proto \in AllProtocols /\ compatible \in BOOLEAN /\ plain \in BOOLEAN /\ faults = 0
      /\ wire = [x \in Ends |-> <<>>] /\ sent = [x \in Ends |-> <<>>] /\ out = [x \in Ends |-> <<>>]
      /\ refused = [x \in Ends |-> FALSE]
  BY ProtocolsAssumption DEF Init
<1>2. PICK extra \in {0, 1} :
         end = [x \in Ends |-> IF x = "server" /\ proto = "auth_aes128"
                               THEN [NewEnd EXCEPT !.extra_wait = extra] ELSE NewEnd]
  BY DEF Init
<1>3. Newborn(NewEnd) /\ Newborn([NewEnd EXCEPT !.extra_wait = extra])
  <2>1. extra \in Nat
    BY <1>2
  <2>2. QED
    BY <2>1, NewEndIs
<1>4. Pairs
  BY <1>1, <1>2 DEF Pairs
<1>5. end["client"] = NewEnd /\ end["server"] \in {NewEnd, [NewEnd EXCEPT !.extra_wait = extra]}
  BY <1>2 DEF Ends
<1>6. Newborn(end["client"]) /\ Newborn(end["server"])
  BY <1>3, <1>5
<1>7. /\ wire["client"] = nil /\ wire["server"] = nil /\ sent["client"] = nil /\ sent["server"] = nil
      /\ out["client"] = nil /\ out["server"] = nil /\ ~refused["client"] /\ ~refused["server"]
  BY <1>1 DEF Ends
<1>8. CASE plain
  <2>1. PlainLink(nil, nil, nil)
    BY PlainStart
  <2>2. nil \in Seq(CellSet) /\ nil \in Seq(Nat)
    OBVIOUS
  <2>3. /\ ~end["client"].dead /\ ~end["server"].dead /\ end["server"] \in EndSet
        /\ ~end["server"].has_header /\ end["server"].recv_buf = <<>>
    BY <1>6 DEF Newborn, Idle
  <2>4. PlainMode
    BY <1>7, <1>8, <2>1, <2>2, <2>3 DEF PlainMode
  <2>5. QED
    BY <1>1, <1>4, <2>4 DEF FramesInv, Mode
<1>9. CASE ~plain
  <2>1. Talk(proto, end["client"], end["server"], nil, nil, nil, nil, nil, nil)
    BY <1>6, TalkStart
  <2>2. Speaking
    BY <1>7, <1>9, <2>1 DEF Speaking
  <2>3. QED
    BY <1>1, <1>4, <2>2 DEF FramesInv, Mode
<1>10. QED
  BY <1>8, <1>9

\* A connection that is lost stays so.
LEMMA LostStays ==
    ASSUME Pairs, Quiet, Lost, [Next]_vars
    PROVE  Lost'
<1>1. proto' = "auth_akarin"
  BY DEF Quiet, config, Lost
<1>2. CASE ~Alive /\ OutOfStep
  <2>1. UNCHANGED vars
    BY <1>2, Zenon DEF Next, ClientWrite, ServerWrite, ClientReceive, ServerReceiveIv, ServerReceive, ServerReceiveRaw,
                Damage, LoseFrame, RepeatFrame, Faulty
  <2>2. QED
    BY <1>1, <1>2, <2>1 DEF Lost, Alive, OutOfStep, vars
<1>3. CASE end["server"].raw_trans /\ Apart(end["server"])
  <2>1. end'["server"] = end["server"]
    <3>1. CASE UNCHANGED vars
      BY <3>1 DEF vars
    <3>2. CASE ClientWrite
      <4>1. end' = end \/ \E e : end' = [end EXCEPT !["client"] = e]
        BY <3>2 DEF ClientWrite
      <4>2. QED
        BY <4>1 DEF Pairs, Ends
    <3>3. CASE ServerWrite
      BY <1>3, <3>3 DEF ServerWrite
    <3>4. CASE ClientReceive
      <4>1. end' = end \/ \E e : end' = [end EXCEPT !["client"] = e]
        BY <3>4 DEF ClientReceive
      <4>2. QED
        BY <4>1 DEF Pairs, Ends
    <3>5. CASE ServerReceive
      BY <1>3, <3>5 DEF ServerReceive
    <3>6. CASE ServerReceiveRaw
      BY <3>6 DEF ServerReceiveRaw
    <3>7. CASE \E x \in Ends : Damage(x) \/ LoseFrame(x) \/ RepeatFrame(x)
      BY <3>7, Zenon DEF Damage, LoseFrame, RepeatFrame, Faulty
    <3>8. CASE ServerReceiveIv
      BY <3>8 DEF ServerReceiveIv
    <3>9. QED
      BY <3>1, <3>2, <3>3, <3>4, <3>5, <3>6, <3>7, <3>8 DEF Next
  <2>2. QED
    BY <1>1, <1>3, <2>1 DEF Lost, Apart
<1>4. QED
  BY <1>2, <1>3 DEF Lost

LEMMA PairsStay ==
    ASSUME Pairs, [Next]_vars
    PROVE  Pairs'
<1>1. CASE UNCHANGED vars
  BY <1>1 DEF Pairs, vars
<1>2. CASE ClientWrite
  BY <1>2 DEF Pairs, ClientWrite
<1>3. CASE ServerWrite
  BY <1>3 DEF Pairs, ServerWrite
<1>4. CASE ClientReceive
  BY <1>4 DEF Pairs, ClientReceive, HandUp
<1>5. CASE ServerReceiveRaw
  BY <1>5 DEF Pairs, ServerReceiveRaw, HandUp
<1>6. CASE ServerReceive
  <2>1. PICK n, iv, admit, misread :
           LET left == [wire EXCEPT !["server"] = Drop(@, n)]
               r == server_post_decrypt(end["server"], SubSeq(wire["server"], 1, n), iv, admit, misread)
           IN  not_match_return(r, left) \/ ReturnJunk(r, left) \/ Raise(r, left) \/ Return(r, left)
    BY <1>6 DEF ServerReceive
  <2> DEFINE left == [wire EXCEPT !["server"] = Drop(@, n)]
             r == server_post_decrypt(end["server"], SubSeq(wire["server"], 1, n), iv, admit, misread)
  <2>2. DOMAIN left = Ends
    BY DEF Pairs
  <2>3. sent' = sent
    BY <1>6 DEF ServerReceive
  <2>4. not_match_return(r, left) \/ ReturnJunk(r, left) \/ Raise(r, left) \/ Return(r, left)
    BY <2>1
  <2> HIDE DEF r, left
  <2>5. CASE not_match_return(r, left)
    BY <2>2, <2>3, <2>5 DEF Pairs, not_match_return, HandUp
  <2>6. CASE ReturnJunk(r, left)
    BY <2>2, <2>3, <2>6 DEF Pairs, ReturnJunk
  <2>7. CASE Raise(r, left)
    BY <2>2, <2>3, <2>7 DEF Pairs, Raise
  <2>8. CASE Return(r, left)
    BY <2>2, <2>3, <2>8, Zenon DEF Pairs, Return, HandUp
  <2>9. QED
    BY <2>4, <2>5, <2>6, <2>7, <2>8
<1>7. CASE \E x \in Ends : Damage(x) \/ LoseFrame(x) \/ RepeatFrame(x)
  BY <1>7, Zenon DEF Pairs, Damage, LoseFrame, RepeatFrame, Faulty
<1>8. CASE ServerReceiveIv
  BY <1>8 DEF Pairs, ServerReceiveIv
<1>9. QED
  BY <1>1, <1>2, <1>3, <1>4, <1>5, <1>6, <1>7, <1>8 DEF Next

LEMMA FreshIs ==
    ASSUME NEW x, NEW k, sent[x] \in Seq(Nat), k \in 1 .. MaxWrite
    PROVE  Fresh(x, k) \in Seq(Nat) /\ Len(Fresh(x, k)) = k /\ k \in Nat /\ k >= 1
<1> DEFINE N == Len(sent[x])
<1>1. N \in Nat /\ MaxWrite \in Nat
  BY BoundsAssumption
<1>2. k \in Nat /\ k >= 1
  BY <1>1
<1> HIDE DEF N
<1>3. [i \in 1 .. k |-> N + i] \in [1 .. k -> Nat]
  BY <1>1
<1>4. Fresh(x, k) = [i \in 1 .. k |-> N + i]
  BY DEF Fresh, N
<1>5. QED
  BY <1>2, <1>3, <1>4, FunctionSeq

LEMMA PaddingsIs == Paddings \subseteq BOOLEAN
BY DEF Paddings

\* A client that writes with nobody who listens.
LEMMA SpareWrite ==
    ASSUME NEW cl, NEW head, NEW rest, NEW pad, NEW p,
           proto \in AllProtocols, cl \in EndSet, cl.has_header, Ready(proto, "server", cl),
           rest \in Seq(Nat), pad \in BOOLEAN, p = client_pre_encrypt(cl, head, rest, pad)
    PROVE  /\ p.e \in EndSet /\ p.e.has_header /\ p.e.dead = cl.dead /\ Ready(proto, "server", p.e)
           /\ p.cells \in Seq(CellSet)
<1> DEFINE nil == <<>>
           no == FALSE
           a == There(cl, nil, no)
           q == ClientAll(cl, Pieces(rest), pad)
<1>1. p = q
  BY ClientAgain
<1>2. a \in PlaceSet /\ nil \in Seq(CellSet) /\ nil \in Seq(Nat)
  BY EndParts DEF There, PlaceSet
<1>3. Sends(proto, "server", nil, a, cl, nil)
  <2>1. Flow(proto, "server", nil, There(cl, nil, no), There(cl, nil, no))
    BY <1>2, FlowNone
  <2>2. a = There(cl, nil, no) /\ (no => Orders(proto, "server", cl))
    OBVIOUS
  <2> HIDE DEF nil, no, a
  <2>3. Flow(proto, "server", nil, a, There(cl, nil, no))
    BY <2>1, <2>2
  <2>4. QED
    BY <2>2, <2>3 DEF Sends
<1> HIDE DEF nil, a
<1>4. Wrote(proto, "server", nil, a, cl, nil \o rest, q)
  BY <1>2, <1>3, ClientSends
<1> HIDE DEF q
<1>5. q.e \in EndSet /\ q.cells \in Seq(CellSet) /\ Spared(q.e, cl) /\ Ready(proto, "server", q.e)
  BY <1>4 DEF Wrote
<1>6. q.e.has_header = cl.has_header /\ q.e.dead = cl.dead
  BY <1>5 DEF Spared
<1>7. QED
  BY <1>1, <1>5, <1>6

\* What a write of the client does, when it is not plain.
LEMMA ClientWriteIs ==
    ASSUME Pairs, Quiet, ~plain, ClientWrite, sent["server"] \in Seq(Nat)
    PROVE  \E s, n, pad :
              /\ Writable(end["client"], s, n) /\ pad \in BOOLEAN
              /\ LET p == client_pre_encrypt(end["client"], SubSeq(s, 1, n), Drop(s, n), pad)
                 IN  /\ end'["client"] = p.e /\ end'["server"] = end["server"]
                     /\ wire'["server"] = wire["server"] \o p.cells /\ wire'["client"] = wire["client"]
              /\ sent'["server"] = sent["server"] \o s /\ sent'["client"] = sent["client"]
              /\ out' = out /\ refused' = refused /\ admitted' = admitted /\ recv_iv' = recv_iv
<1>1. PICK k \in 1 .. MaxWrite, pad \in Paddings :
         LET s == Fresh("server", k) IN
         /\ sent' = [sent EXCEPT !["server"] = @ \o s]
         /\ \E n \in IF end["client"].has_header THEN {0} ELSE 1 .. k :
               LET p == client_pre_encrypt(end["client"], SubSeq(s, 1, n), Drop(s, n), pad) IN
               /\ wire' = [wire EXCEPT !["server"] = @ \o p.cells]
               /\ end' = [end EXCEPT !["client"] = p.e]
  BY DEF ClientWrite
<1> DEFINE s == Fresh("server", k)
<1>2. s \in Seq(Nat) /\ Len(s) = k /\ k \in Nat /\ k >= 1
  BY FreshIs
<1>3. sent' = [sent EXCEPT !["server"] = @ \o s]
  BY <1>1
<1>4. PICK n \in IF end["client"].has_header THEN {0} ELSE 1 .. k :
         LET p == client_pre_encrypt(end["client"], SubSeq(s, 1, n), Drop(s, n), pad) IN
         /\ wire' = [wire EXCEPT !["server"] = @ \o p.cells]
         /\ end' = [end EXCEPT !["client"] = p.e]
  BY <1>1
<1> DEFINE p == client_pre_encrypt(end["client"], SubSeq(s, 1, n), Drop(s, n), pad)
<1>5. wire' = [wire EXCEPT !["server"] = @ \o p.cells] /\ end' = [end EXCEPT !["client"] = p.e]
  BY <1>4
<1>6. out' = out /\ refused' = refused /\ admitted' = admitted /\ recv_iv' = recv_iv
  BY DEF ClientWrite
<1>7. Writable(end["client"], s, n)
  <2> HIDE DEF s
  <2>1. n \in 0 .. k
    BY <1>2, <1>4
  <2>2. QED
    BY <1>2, <1>4, <2>1 DEF Writable
<1>8. pad \in BOOLEAN
  BY PaddingsIs
<1> HIDE DEF s
<1>9. /\ end'["client"] = p.e /\ end'["server"] = end["server"]
      /\ wire'["server"] = wire["server"] \o p.cells /\ wire'["client"] = wire["client"]
      /\ sent'["server"] = sent["server"] \o s /\ sent'["client"] = sent["client"]
  <2> HIDE DEF p
  <2>1. QED
    BY <1>3, <1>5 DEF Pairs, Ends
<1>10. QED
  BY <1>6, <1>7, <1>8, <1>9

LEMMA TurnedAwayStays ==
    ASSUME FramesInv, Quiet, TurnedAway, [Next]_vars
    PROVE  TurnedAway'
<1>1. Pairs /\ proto \in AllProtocols
  BY DEF FramesInv
<1>2. ~plain /\ ~plain' /\ proto' = proto
  BY DEF TurnedAway, Quiet, config
<1>3. CASE UNCHANGED vars
  BY <1>2, <1>3 DEF TurnedAway, vars
<1>4. CASE ClientWrite
  <2>1. PICK s, n, pad :
           /\ Writable(end["client"], s, n) /\ pad \in BOOLEAN
           /\ LET p == client_pre_encrypt(end["client"], SubSeq(s, 1, n), Drop(s, n), pad)
              IN  /\ end'["client"] = p.e /\ end'["server"] = end["server"]
                  /\ wire'["server"] = wire["server"] \o p.cells /\ wire'["client"] = wire["client"]
           /\ sent'["server"] = sent["server"] \o s /\ sent'["client"] = sent["client"]
           /\ out' = out /\ refused' = refused /\ admitted' = admitted /\ recv_iv' = recv_iv
    BY <1>1, <1>2, <1>4, ClientWriteIs DEF TurnedAway
  <2> DEFINE cl == end["client"]
             head == SubSeq(s, 1, n)
             rest == Drop(s, n)
             p == client_pre_encrypt(cl, head, rest, pad)
  <2>2. s \in Seq(Nat) /\ rest \in Seq(Nat)
    BY <2>1, DropIs DEF Writable
  <2>3. end'["client"] = p.e
    BY <2>1
  <2>4. cl \in EndSet /\ cl.has_header /\ Ready(proto, "server", cl) /\ ~cl.dead
    BY DEF TurnedAway
  <2> HIDE DEF cl, head, rest
  <2>5. p.e \in EndSet /\ p.e.has_header /\ p.e.dead = cl.dead /\ Ready(proto, "server", p.e)
    BY <1>1, <2>1, <2>2, <2>4, SpareWrite
  <2> HIDE DEF p
  <2>6. sent'["server"] \in Seq(Nat)
    BY <2>1, <2>2 DEF TurnedAway
  <2>7. QED
    BY <1>2, <2>1, <2>3, <2>4, <2>5, <2>6 DEF TurnedAway
<1>5. CASE ServerWrite
  BY <1>5 DEF ServerWrite, TurnedAway
<1>6. CASE ClientReceive
  <2>1. Len(wire["client"]) = 0
    BY DEF TurnedAway
  <2>2. QED
    BY <1>6, <2>1 DEF ClientReceive
<1>7. CASE ServerReceive
  BY <1>7 DEF ServerReceive, TurnedAway
<1>8. CASE ServerReceiveRaw
  <2>1. end' = end /\ sent' = sent /\ out' = out /\ refused' = refused /\ admitted' = admitted /\ recv_iv' = recv_iv
    BY <1>8 DEF ServerReceiveRaw, TurnedAway
  <2>2. wire'["client"] = wire["client"]
    BY <1>1, <1>8 DEF ServerReceiveRaw, Pairs, Ends
  <2>3. QED
    BY <1>2, <2>1, <2>2 DEF TurnedAway
<1>9. CASE \E x \in Ends : Damage(x) \/ LoseFrame(x) \/ RepeatFrame(x)
  BY <1>9 DEF Damage, LoseFrame, RepeatFrame, Faulty, Quiet
<1>10. CASE ServerReceiveIv
  BY <1>2, <1>10 DEF ServerReceiveIv, TurnedAway
<1>11. QED
  BY <1>3, <1>4, <1>5, <1>6, <1>7, <1>8, <1>9, <1>10 DEF Next

LEMMA PlainModeStays ==
    ASSUME FramesInv, Quiet, PlainMode, [Next]_vars
    PROVE  PlainMode'
<1>1. Pairs /\ proto \in AllProtocols
  BY DEF FramesInv
<1>2. plain /\ plain' /\ compatible' = compatible
  BY DEF PlainMode, Quiet, config
<1> DEFINE Up(w, s, o, rf) ==
             (rf \/ PlainLink(w, s, o)) /\ w \in Seq(CellSet) /\ s \in Seq(Nat)
           Raw(e, o, rf) ==
             ~e.raw_trans => /\ e \in EndSet /\ ~e.has_header /\ e.recv_buf = <<>>
                             /\ o = <<>> /\ ~rf
<1>3. /\ ~end["client"].dead /\ ~end["server"].dead
      /\ ~refused["client"] /\ (refused["server"] => ~compatible)
      /\ PlainLink(wire["client"], sent["client"], out["client"])
      /\ Up(wire["server"], sent["server"], out["server"], refused["server"])
      /\ Raw(end["server"], out["server"], refused["server"])
  BY DEF PlainMode
<1>4. SUFFICES /\ ~end'["client"].dead /\ ~end'["server"].dead
               /\ ~refused'["client"] /\ (refused'["server"] => ~compatible)
               /\ PlainLink(wire'["client"], sent'["client"], out'["client"])
               /\ Up(wire'["server"], sent'["server"], out'["server"], refused'["server"])
               /\ Raw(end'["server"], out'["server"], refused'["server"])
  BY <1>2 DEF PlainMode
<1> HIDE DEF Raw, Up
<1>5. CASE UNCHANGED vars
  BY <1>3, <1>5 DEF vars
<1>6. CASE ClientWrite
  <2>1. PICK k \in 1 .. MaxWrite :
           /\ sent' = [sent EXCEPT !["server"] = @ \o Fresh("server", k)]
           /\ wire' = [wire EXCEPT !["server"] = @ \o Plainly(Fresh("server", k))]
           /\ end' = end
    BY <1>2, <1>6 DEF ClientWrite
  <2>2. out' = out /\ refused' = refused
    BY <1>6 DEF ClientWrite
  <2> DEFINE s == Fresh("server", k)
             w == wire["server"]
             o == out["server"]
             w2 == w \o Plainly(s)
             s2 == sent["server"] \o s
             rf == refused["server"]
  <2>3. s \in Seq(Nat)
    BY <1>3, FreshIs DEF Up
  <2>4. /\ sent'["server"] = s2 /\ sent'["client"] = sent["client"]
        /\ wire'["server"] = w2 /\ wire'["client"] = wire["client"]
    <3> HIDE DEF s
    <3>1. QED
      BY <1>1, <2>1 DEF Pairs, Ends, s
  <2> HIDE DEF s
  <2>5. w2 \in Seq(CellSet)
    <3>1. w \in Seq(CellSet)
      BY <1>3 DEF Up
    <3>2. Plainly(s) \in Seq(CellSet)
      BY <2>3, PlainlyIs
    <3>3. QED
      BY <3>1, <3>2
  <2>6. s2 \in Seq(Nat)
    BY <1>3, <2>3 DEF Up
  <2>7. PlainLink(w, sent["server"], o) => PlainLink(w2, s2, o)
    BY <2>3, PlainGrows
  <2>8. Up(w2, s2, o, rf)
    BY <1>3, <2>5, <2>6, <2>7 DEF Up
  <2> HIDE DEF w2, s2
  <2>9. QED
    BY <1>3, <2>1, <2>2, <2>4, <2>8
<1>7. CASE ServerWrite
  <2>1. end["server"].raw_trans
    BY <1>3, <1>7 DEF ServerWrite, Raw
  <2>2. PICK k \in 1 .. MaxWrite :
           /\ sent' = [sent EXCEPT !["client"] = @ \o Fresh("client", k)]
           /\ wire' = [wire EXCEPT !["client"] = @ \o Plainly(Fresh("client", k))]
           /\ end' = end
    BY <1>7, <2>1 DEF ServerWrite
  <2>3. out' = out /\ refused' = refused
    BY <1>7 DEF ServerWrite
  <2> DEFINE s == Fresh("client", k)
             w2 == wire["client"] \o Plainly(s)
             s2 == sent["client"] \o s
  <2>4. s \in Seq(Nat)
    BY <1>3, FreshIs DEF PlainLink
  <2>5. /\ sent'["client"] = s2 /\ sent'["server"] = sent["server"]
        /\ wire'["client"] = w2 /\ wire'["server"] = wire["server"]
    <3> HIDE DEF s
    <3>1. QED
      BY <1>1, <2>2 DEF Pairs, Ends, s
  <2>6. PlainLink(w2, s2, out["client"])
    BY <1>3, <2>4, PlainGrows
  <2> HIDE DEF w2, s2
  <2>7. QED
    BY <1>3, <2>2, <2>3, <2>5, <2>6
<1>8. CASE ClientReceive
  <2>1. PICK n \in 1 .. Len(wire["client"]) :
           /\ wire' = [wire EXCEPT !["client"] = Drop(@, n)]
           /\ HandUp("client", DataOf(SubSeq(wire["client"], 1, n)))
           /\ end' = end
    BY <1>2, <1>8 DEF ClientReceive
  <2>2. sent' = sent /\ refused' = refused
    BY <1>8 DEF ClientReceive
  <2> DEFINE w == wire["client"]
             w2 == Drop(w, n)
             o2 == out["client"] \o DataOf(SubSeq(w, 1, n))
  <2>3. PlainLink(w2, sent["client"], o2)
    BY <1>3, PlainReads
  <2>4. /\ wire'["client"] = w2 /\ wire'["server"] = wire["server"]
        /\ out'["client"] = o2 /\ out'["server"] = out["server"]
    BY <1>1, <2>1 DEF Pairs, Ends, HandUp
  <2> HIDE DEF w2, o2
  <2>5. QED
    BY <1>3, <2>1, <2>2, <2>3, <2>4
<1>9. CASE ServerReceiveRaw
  <2>1. PICK n \in 1 .. Len(wire["server"]) :
           /\ wire' = [wire EXCEPT !["server"] = Drop(@, n)]
           /\ IF refused["server"] THEN UNCHANGED out
              ELSE HandUp("server", DataOf(SubSeq(wire["server"], 1, n)))
    BY <1>9 DEF ServerReceiveRaw
  <2>2. end["server"].raw_trans /\ end' = end /\ sent' = sent /\ refused' = refused
    BY <1>9 DEF ServerReceiveRaw
  <2> DEFINE w == wire["server"]
             w2 == Drop(w, n)
             o == out["server"]
             o2 == o \o DataOf(SubSeq(w, 1, n))
             rf == refused["server"]
  <2>3. wire'["server"] = w2 /\ wire'["client"] = wire["client"]
    BY <1>1, <2>1 DEF Pairs, Ends
  <2>4. w2 \in Seq(CellSet)
    <3>1. w \in Seq(CellSet) /\ n \in 0 .. Len(w)
      BY <1>3 DEF Up
    <3>2. QED
      BY <3>1, DropIs
  <2>5. Raw(end'["server"], out'["server"], refused'["server"])
    BY <2>2 DEF Raw
  <2>6. out'["client"] = out["client"]
    BY <1>1, <2>1 DEF Pairs, Ends, HandUp
  <2>7. Up(w2, sent["server"], out'["server"], rf)
    <3>1. CASE rf
      BY <1>3, <2>4, <3>1 DEF Up
    <3>2. CASE ~rf
      <4>1. out'["server"] = o2
        BY <1>1, <2>1, <3>2 DEF Pairs, Ends, HandUp
      <4>2. PlainLink(w, sent["server"], o)
        BY <1>3, <3>2 DEF Up
      <4>3. PlainLink(w2, sent["server"], o2)
        BY <4>2, PlainReads
      <4> HIDE DEF w2, o2
      <4>4. QED
        BY <1>3, <2>4, <4>1, <4>3 DEF Up
    <3>3. QED
      BY <3>1, <3>2
  <2> HIDE DEF w2
  <2>8. QED
    BY <1>3, <2>2, <2>3, <2>5, <2>6, <2>7
<1>10. CASE ServerReceive
  <2> DEFINE iv == recv_iv # "part"
  <2>1. PICK n \in 1 .. Len(wire["server"]), admit \in Answers, misread \in Misreads :
           LET left == [wire EXCEPT !["server"] = Drop(@, n)]
               r == server_post_decrypt(end["server"], SubSeq(wire["server"], 1, n), iv, admit, misread)
           IN  not_match_return(r, left) \/ ReturnJunk(r, left) \/ Raise(r, left) \/ Return(r, left)
    BY <1>10 DEF ServerReceive
  <2> DEFINE w == wire["server"]
             w2 == Drop(w, n)
             chunk == SubSeq(w, 1, n)
             left == [wire EXCEPT !["server"] = w2]
             e == end["server"]
             r == server_post_decrypt(e, chunk, iv, admit, misread)
             o2 == out["server"] \o DataOf(chunk)
  <2>2. ~e.raw_trans /\ sent' = sent
    BY <1>10 DEF ServerReceive
  <2>3. e \in EndSet /\ ~e.has_header /\ e.recv_buf = <<>> /\ ~refused["server"]
    BY <1>3, <2>2 DEF Raw
  <2>4. PlainLink(w, sent["server"], out["server"])
    BY <1>3, <2>3 DEF Up
  <2>5. /\ chunk \in Seq(CellSet) /\ chunk # <<>> /\ IsData(chunk) /\ DataOf(chunk) \in Seq(Nat)
        /\ PlainLink(w2, sent["server"], o2)
    BY <2>4, PlainReads
  <2> HIDE DEF chunk, e
  <2>6. r.st = "nomatch" /\ r.e \in EndSet /\ r.e.recv_buf = chunk /\ r.e.dead = e.dead
    BY <1>1, <2>3, <2>5, PlainRefused
  <2>7. not_match_return(r, left) \/ ReturnJunk(r, left) \/ Raise(r, left) \/ Return(r, left)
    BY <2>1 DEF e, chunk
  <2> HIDE DEF r, left
  <2>8. not_match_return(r, left)
    BY <2>6, <2>7 DEF ReturnJunk, Raise, Return
  <2>9. /\ end'["client"] = end["client"] /\ end'["server"] = [r.e EXCEPT !.raw_trans = TRUE]
        /\ wire'["server"] = w2 /\ wire'["client"] = wire["client"]
    <3>1. end' = [end EXCEPT !["server"] = [r.e EXCEPT !.raw_trans = TRUE]] /\ wire' = left
      BY <2>8 DEF not_match_return
    <3>2. QED
      BY <1>1, <3>1 DEF Pairs, Ends, left
  <2>10. /\ out'["client"] = out["client"] /\ refused'["client"] = refused["client"]
         /\ IF compatible THEN out'["server"] = o2 /\ refused'["server"] = refused["server"]
            ELSE refused'["server"]
    <3>1. IF compatible THEN HandUp("server", DataOf(chunk)) /\ refused' = refused
          ELSE refused' = [refused EXCEPT !["server"] = TRUE] /\ out' = out
      BY <2>5, <2>6, <2>8 DEF not_match_return
    <3>2. CASE compatible
      BY <1>1, <3>1, <3>2 DEF Pairs, Ends, HandUp
    <3>3. CASE ~compatible
      BY <1>1, <3>1, <3>3 DEF Pairs, Ends
    <3>4. QED
      BY <3>2, <3>3
  <2>11. ~end'["server"].dead /\ end'["server"].raw_trans
    <3> DEFINE y == r.e
    <3>1. y \in EndSet /\ ~y.dead
      BY <1>3, <2>6 DEF e
    <3> HIDE DEF y
    <3>2. ~[y EXCEPT !.raw_trans = TRUE].dead /\ [y EXCEPT !.raw_trans = TRUE].raw_trans
      BY <3>1 DEF EndSet
    <3>3. QED
      BY <2>9, <3>2 DEF y
  <2>12. w2 \in Seq(CellSet) /\ sent["server"] \in Seq(Nat)
    BY <2>5 DEF PlainLink
  <2>13. Up(w2, sent["server"], out'["server"], refused'["server"])
    <3> HIDE DEF w2, o2
    <3>1. QED
      BY <2>5, <2>10, <2>12 DEF Up
  <2>14. refused'["server"] => ~compatible
    BY <2>3, <2>10
  <2> HIDE DEF w2, o2
  <2>15. Raw(end'["server"], out'["server"], refused'["server"])
    BY <2>11 DEF Raw
  <2>16. QED
    BY <1>3, <2>2, <2>9, <2>10, <2>11, <2>13, <2>14, <2>15
<1>11. CASE \E x \in Ends : Damage(x) \/ LoseFrame(x) \/ RepeatFrame(x)
  BY <1>11 DEF Damage, LoseFrame, RepeatFrame, Faulty, Quiet
<1>12. CASE ServerReceiveIv
  BY <1>3, <1>12 DEF ServerReceiveIv
<1>13. QED
  BY <1>5, <1>6, <1>7, <1>8, <1>9, <1>10, <1>11, <1>12 DEF Next

SpeakingNow(cl, sv, wu, wd, su, sd, ou, od) ==
    /\ ~plain' /\ ~refused'["client"] /\ ~refused'["server"]
    /\ Talk(proto, cl, sv, wu, wd, su, sd, ou, od)
    /\ end'["client"] = cl /\ end'["server"] = sv /\ wire'["server"] = wu /\ wire'["client"] = wd
    /\ sent'["server"] = su /\ sent'["client"] = sd /\ out'["server"] = ou /\ out'["client"] = od

LEMMA SpeakingNext ==
    ASSUME Quiet, NEW cl, NEW sv, NEW wu, NEW wd, NEW su, NEW sd, NEW ou, NEW od,
           SpeakingNow(cl, sv, wu, wd, su, sd, ou, od)
    PROVE  Speaking'
<1>1. proto' = proto
  BY DEF Quiet, config
<1>2. QED
  BY <1>1 DEF SpeakingNow, Speaking

LEMMA SpeakingClientWrite ==
    ASSUME FramesInv, Quiet, Speaking, ClientWrite
    PROVE  Speaking'
<1> DEFINE cl == end["client"]
           sv == end["server"]
           wu == wire["server"]
           wd == wire["client"]
           su == sent["server"]
           sd == sent["client"]
           ou == out["server"]
           od == out["client"]
<1>1. Pairs /\ proto \in AllProtocols
  BY DEF FramesInv
<1>2. ~plain /\ ~plain' /\ ~refused["client"] /\ ~refused["server"]
  BY DEF Speaking, Quiet, config
<1>3. Talk(proto, cl, sv, wu, wd, su, sd, ou, od)
  BY DEF Speaking
<1>4. su \in Seq(Nat)
  BY <1>3 DEF Talk, Lines
<1>5. PICK s, n, pad :
           /\ Writable(end["client"], s, n) /\ pad \in BOOLEAN
           /\ LET p == client_pre_encrypt(end["client"], SubSeq(s, 1, n), Drop(s, n), pad)
              IN  /\ end'["client"] = p.e /\ end'["server"] = end["server"]
                  /\ wire'["server"] = wire["server"] \o p.cells /\ wire'["client"] = wire["client"]
           /\ sent'["server"] = sent["server"] \o s /\ sent'["client"] = sent["client"]
           /\ out' = out /\ refused' = refused /\ admitted' = admitted /\ recv_iv' = recv_iv
  BY <1>1, <1>2, <1>4, ClientWriteIs
<1> DEFINE p == client_pre_encrypt(cl, SubSeq(s, 1, n), Drop(s, n), pad)
<1>6. /\ end'["client"] = p.e /\ end'["server"] = sv
      /\ wire'["server"] = wu \o p.cells /\ wire'["client"] = wd
      /\ sent'["server"] = su \o s /\ sent'["client"] = sd /\ out' = out /\ refused' = refused
      /\ Writable(cl, s, n) /\ pad \in BOOLEAN
  BY <1>5
<1> HIDE DEF cl, sv, wu, wd, su, sd
<1>7. Talk(proto, p.e, sv, wu \o p.cells, wd, su \o s, sd, ou, od)
  BY <1>1, <1>3, <1>6, ClientTalks
<1> DEFINE e2 == p.e
           wu2 == wu \o p.cells
           su2 == su \o s
<1>8. /\ Talk(proto, e2, sv, wu2, wd, su2, sd, ou, od)
      /\ end'["client"] = e2 /\ wire'["server"] = wu2 /\ sent'["server"] = su2
  BY <1>6, <1>7
<1>9. out'["server"] = ou /\ out'["client"] = od /\ ~refused'["client"] /\ ~refused'["server"]
  BY <1>2, <1>6
<1> HIDE DEF e2, wu2, su2, ou, od
<1>10. SpeakingNow(e2, sv, wu2, wd, su2, sd, ou, od)
  BY <1>2, <1>6, <1>8, <1>9 DEF SpeakingNow
<1>11. QED
  BY <1>10, SpeakingNext

LEMMA SpeakingServerWrite ==
    ASSUME FramesInv, Quiet, Speaking, ServerWrite
    PROVE  Speaking'
<1> DEFINE cl == end["client"]
           sv == end["server"]
           wu == wire["server"]
           wd == wire["client"]
           su == sent["server"]
           sd == sent["client"]
           ou == out["server"]
           od == out["client"]
<1>1. Pairs /\ proto \in AllProtocols
  BY DEF FramesInv
<1>2. ~plain /\ ~plain' /\ ~refused["client"] /\ ~refused["server"]
  BY DEF Speaking, Quiet, config
<1>3. Talk(proto, cl, sv, wu, wd, su, sd, ou, od)
  BY DEF Speaking
<1>4. sd \in Seq(Nat) /\ ~sv.raw_trans /\ sv.has_header
  <2>1. ou # <<>>
    BY DEF ServerWrite
  <2> HIDE DEF ou
  <2>2. QED
    BY <1>3, <2>1 DEF Talk, Lines
<1>5. PICK k \in 1 .. MaxWrite, pad \in Paddings :
         LET s == Fresh("client", k)
             p == server_pre_encrypt(end["server"], s, pad) IN
         /\ sent' = [sent EXCEPT !["client"] = @ \o s]
         /\ wire' = [wire EXCEPT !["client"] = @ \o p.cells]
         /\ end' = [end EXCEPT !["server"] = p.e]
  BY <1>4 DEF ServerWrite
<1>6. out' = out /\ refused' = refused
  BY DEF ServerWrite
<1> DEFINE s == Fresh("client", k)
           p == server_pre_encrypt(sv, s, pad)
           e2 == p.e
           wd2 == wd \o p.cells
           sd2 == sd \o s
<1>7. s \in Seq(Nat) /\ pad \in BOOLEAN
  BY <1>4, FreshIs, PaddingsIs
<1>8. /\ sent' = [sent EXCEPT !["client"] = @ \o s]
      /\ wire' = [wire EXCEPT !["client"] = @ \o p.cells]
      /\ end' = [end EXCEPT !["server"] = e2]
  BY <1>5
<1>9. /\ end'["server"] = e2 /\ end'["client"] = cl
      /\ wire'["client"] = wd2 /\ wire'["server"] = wu
      /\ sent'["client"] = sd2 /\ sent'["server"] = su
  <2> HIDE DEF s, p
  <2>1. QED
    BY <1>1, <1>8 DEF Pairs, Ends
<1>10. out'["server"] = ou /\ out'["client"] = od /\ ~refused'["client"] /\ ~refused'["server"]
  BY <1>2, <1>6
<1> HIDE DEF cl, sv, wu, wd, su, sd, ou, od, s
<1>11. Talk(proto, cl, p.e, wu, wd \o p.cells, su, sd \o s, ou, od)
  BY <1>1, <1>3, <1>4, <1>7, ServerTalks
<1>12. Talk(proto, cl, e2, wu, wd2, su, sd2, ou, od)
  BY <1>11
<1> HIDE DEF p, e2, wd2, sd2
<1>13. SpeakingNow(cl, e2, wu, wd2, su, sd2, ou, od)
  BY <1>2, <1>9, <1>10, <1>12 DEF SpeakingNow
<1>14. QED
  BY <1>13, SpeakingNext

LEMMA SpeakingClientReceive ==
    ASSUME FramesInv, Quiet, Speaking, ClientReceive
    PROVE  Speaking' \/ Lost'
<1> DEFINE cl == end["client"]
           sv == end["server"]
           wu == wire["server"]
           wd == wire["client"]
           su == sent["server"]
           sd == sent["client"]
           ou == out["server"]
           od == out["client"]
<1>1. Pairs /\ proto \in AllProtocols
  BY DEF FramesInv
<1>2. ~plain /\ ~plain' /\ ~refused["client"] /\ ~refused["server"] /\ proto' = proto
  BY DEF Speaking, Quiet, config
<1>3. Talk(proto, cl, sv, wu, wd, su, sd, ou, od)
  BY DEF Speaking
<1>4. PICK n \in 1 .. Len(wire["client"]), misread \in Misreads :
         LET chunk == SubSeq(wire["client"], 1, n)
             r == client_post_decrypt(end["client"], chunk, misread) IN
         /\ wire' = [wire EXCEPT !["client"] = Drop(@, n)]
         /\ IF r.st \in {"bad", "raise"}
            THEN end' = [end EXCEPT !["client"].dead = TRUE]
            ELSE end' = [end EXCEPT !["client"] = r.e] /\ HandUp("client", r.ret)
  BY <1>2 DEF ClientReceive
<1>5. sent' = sent /\ refused' = refused
  BY DEF ClientReceive
<1> DEFINE chunk == SubSeq(wd, 1, n)
           w == Drop(wd, n)
           r == client_post_decrypt(cl, chunk, misread)
           e2 == r.e
           od2 == od \o r.ret
<1>6. chunk \in Seq(CellSet) /\ chunk # <<>> /\ w \in Seq(CellSet) /\ wd = chunk \o w
  <2>1. wd \in Seq(CellSet)
    BY <1>3 DEF Talk, Lines
  <2> HIDE DEF wd
  <2>2. n \in 0 .. Len(wd) /\ n >= 1 /\ n \in Nat
    BY <1>4, <2>1 DEF wd
  <2>3. chunk \in Seq(CellSet) /\ w \in Seq(CellSet) /\ chunk \o w = wd /\ Len(chunk) = n
    BY <2>1, <2>2, DropIs
  <2> HIDE DEF chunk, w
  <2>4. chunk # <<>>
    BY <2>2, <2>3
  <2>5. QED
    BY <2>3, <2>4
<1>7. /\ wire'["client"] = w /\ wire'["server"] = wu
      /\ IF r.st \in {"bad", "raise"}
         THEN end' = [end EXCEPT !["client"].dead = TRUE]
         ELSE end' = [end EXCEPT !["client"] = e2] /\ HandUp("client", r.ret)
  <2>1. /\ wire' = [wire EXCEPT !["client"] = w]
        /\ IF r.st \in {"bad", "raise"}
           THEN end' = [end EXCEPT !["client"].dead = TRUE]
           ELSE end' = [end EXCEPT !["client"] = e2] /\ HandUp("client", r.ret)
    BY <1>4
  <2> HIDE DEF w, r
  <2>2. QED
    BY <1>1, <2>1 DEF Pairs, Ends
<1>8. sent'["server"] = su /\ sent'["client"] = sd /\ ~refused'["client"] /\ ~refused'["server"]
  BY <1>2, <1>5
<1> HIDE DEF cl, sv, wu, wd, su, sd, ou, od, chunk, w
<1>9. \/ r.st \in {"go", "stop"} /\ Talk(proto, r.e, sv, wu, w, su, sd, ou, od \o r.ret)
      \/ r.st \in {"bad", "raise"} /\ Adrift(cl, sv)
  BY <1>1, <1>3, <1>6, ClientHears
<1>10. CASE r.st \in {"go", "stop"} /\ Talk(proto, r.e, sv, wu, w, su, sd, ou, od \o r.ret)
  <2>1. Talk(proto, e2, sv, wu, w, su, sd, ou, od2)
    BY <1>10
  <2>2. end' = [end EXCEPT !["client"] = e2] /\ HandUp("client", r.ret)
    BY <1>7, <1>10
  <2>3. /\ end'["client"] = e2 /\ end'["server"] = sv
        /\ out'["client"] = od2 /\ out'["server"] = ou
    <3> HIDE DEF r
    <3>1. QED
      BY <1>1, <2>2, SMTT(30) DEF Pairs, Ends, HandUp, sv, od, ou
  <2> HIDE DEF r, e2, od2
  <2>4. SpeakingNow(e2, sv, wu, w, su, sd, ou, od2)
    BY <1>2, <1>7, <1>8, <2>1, <2>3 DEF SpeakingNow
  <2>5. QED
    BY <2>4, SpeakingNext
<1>11. CASE r.st \in {"bad", "raise"} /\ Adrift(cl, sv)
  <2>0. sv.has_header
    <3>1. wire["client"] # <<>>
      BY <1>4
    <3>2. QED
      BY <1>3, <3>1 DEF Talk, wd
  <2>1. end' = [end EXCEPT !["client"].dead = TRUE]
    BY <1>7, <1>11
  <2>2. cl \in EndSet
    BY <1>3 DEF Talk
  <2>3. end'["client"] = [cl EXCEPT !.dead = TRUE] /\ end'["server"] = sv
    BY <1>1, <2>1 DEF Pairs, Ends, cl, sv
  <2>4. /\ end'["client"].dead /\ end'["client"].recv_tcp_mss = cl.recv_tcp_mss
        /\ end'["client"].send_tcp_mss = cl.send_tcp_mss
    BY <2>2, <2>3 DEF EndSet
  <2>5. ~Alive'
    BY <2>4 DEF Alive, Ends
  <2>6. OutOfStep'
    <3>1. proto' = "auth_akarin"
      BY <1>2, <1>11 DEF Adrift
    <3>2. \/ end'["client"].recv_tcp_mss # end'["server"].send_tcp_mss
          \/ end'["client"].recv_tcp_mss # end'["client"].send_tcp_mss
      BY <1>11, <2>3, <2>4 DEF Adrift
    <3>3. QED
      BY <2>0, <2>3, <3>1, <3>2 DEF OutOfStep, Ends
  <2>7. Lost'
    BY <2>5, <2>6 DEF Lost, OutOfStep
  <2>8. QED
    BY <2>7
<1>12. QED
  BY <1>9, <1>10, <1>11

\* What a call of the server that has ended well leaves.
LEMMA SpeakingReturn ==
    ASSUME Quiet, Pairs, proto \in AllProtocols, ~plain, ~refused["client"], ~refused["server"],
           NEW r, NEW left, NEW w, left = [wire EXCEPT !["server"] = w],
           r.back => r.e.has_header, sent' = sent,
           Talk(proto, end["client"], r.e, w, wire["client"], sent["server"], sent["client"],
                out["server"] \o r.ret, out["client"]),
           Return(r, left)
    PROVE  Speaking'
<1> DEFINE cl == end["client"]
           wd == wire["client"]
           su == sent["server"]
           sd == sent["client"]
           ou == out["server"] \o r.ret
           od == out["client"]
           sv == r.e
<1>1. Talk(proto, cl, sv, w, wd, su, sd, ou, od)
  OBVIOUS
<1>2. /\ ~plain' /\ ~refused'["client"] /\ ~refused'["server"]
      /\ sent'["server"] = su /\ sent'["client"] = sd /\ out'["server"] = ou /\ out'["client"] = od
  BY DEF Return, HandUp, Pairs, Ends, Quiet, config
<1>3. CASE ~r.back
  <2>1. end' = [end EXCEPT !["server"] = sv] /\ wire' = left
    BY <1>3 DEF Return
  <2>2. end'["client"] = cl /\ end'["server"] = sv /\ wire'["server"] = w /\ wire'["client"] = wd
    BY <2>1 DEF Pairs, Ends
  <2> HIDE DEF cl, wd, su, sd, ou, od, sv
  <2>3. SpeakingNow(cl, sv, w, wd, su, sd, ou, od)
    BY <1>1, <1>2, <2>2 DEF SpeakingNow
  <2>4. QED
    BY <2>3, SpeakingNext
<1>4. CASE r.back
  <2> DEFINE nil == <<>>
  <2>1. PICK pad \in Paddings :
           LET p == server_pre_encrypt(r.e, <<>>, pad) IN
           /\ end' = [end EXCEPT !["server"] = p.e]
           /\ wire' = [left EXCEPT !["client"] = @ \o p.cells]
    BY <1>4 DEF Return
  <2> DEFINE p == server_pre_encrypt(sv, nil, pad)
             e2 == p.e
             wd2 == wd \o p.cells
  <2>2. /\ end' = [end EXCEPT !["server"] = e2] /\ wire' = [left EXCEPT !["client"] = @ \o p.cells]
    BY <2>1
  <2>3. pad \in BOOLEAN /\ nil \in Seq(Nat) /\ sv.has_header
    BY <1>4, PaddingsIs
  <2>4. end'["client"] = cl /\ end'["server"] = e2 /\ wire'["server"] = w /\ wire'["client"] = wd2
    <3> HIDE DEF p
    <3>1. QED
      BY <2>2 DEF Pairs, Ends
  <2>5. sd \in Seq(Nat)
    BY <1>1 DEF Talk, Lines
  <2> HIDE DEF cl, wd, su, sd, ou, od, sv, nil
  <2>6. Talk(proto, cl, p.e, w, wd \o p.cells, su, sd \o nil, ou, od)
    BY <1>1, <2>3, ServerTalks
  <2>7. sd \o nil = sd
    BY <2>5 DEF nil
  <2>8. Talk(proto, cl, e2, w, wd2, su, sd, ou, od)
    BY <2>6, <2>7
  <2> HIDE DEF p, e2, wd2
  <2>9. SpeakingNow(cl, e2, w, wd2, su, sd, ou, od)
    BY <1>2, <2>4, <2>8 DEF SpeakingNow
  <2>10. QED
    BY <2>9, SpeakingNext
<1>5. QED
  BY <1>3, <1>4

LEMMA SpeakingServerReceive ==
    ASSUME FramesInv, Quiet, Speaking, ServerReceive
    PROVE  Speaking' \/ TurnedAway' \/ Lost'
<1> DEFINE cl == end["client"]
           sv == end["server"]
           wu == wire["server"]
           wd == wire["client"]
           su == sent["server"]
           sd == sent["client"]
           ou == out["server"]
           od == out["client"]
<1>1. Pairs /\ proto \in AllProtocols
  BY DEF FramesInv
<1>2. ~plain /\ ~plain' /\ ~refused["client"] /\ ~refused["server"] /\ proto' = proto
  BY DEF Speaking, Quiet, config
<1>3. Talk(proto, cl, sv, wu, wd, su, sd, ou, od)
  BY DEF Speaking
<1> DEFINE iv == recv_iv # "part"
<1>4. PICK n \in 1 .. Len(wire["server"]), admit \in Answers, misread \in Misreads :
         LET left == [wire EXCEPT !["server"] = Drop(@, n)]
             r == server_post_decrypt(end["server"], SubSeq(wire["server"], 1, n), iv, admit, misread) IN
         /\ not_match_return(r, left) \/ ReturnJunk(r, left) \/ Raise(r, left) \/ Return(r, left)
         /\ admitted' = IF r.st = "nomatch" /\ iv /\ ~admit THEN "no" ELSE admitted
  BY DEF ServerReceive
<1>5. sent' = sent /\ (~iv => recv_iv' = "part")
  BY DEF ServerReceive
<1> DEFINE chunk == SubSeq(wu, 1, n)
           w == Drop(wu, n)
           left == [wire EXCEPT !["server"] = w]
           r == server_post_decrypt(sv, chunk, iv, admit, misread)
<1>6. chunk \in Seq(CellSet) /\ chunk # <<>> /\ w \in Seq(CellSet) /\ wu = chunk \o w
  <2>1. wu \in Seq(CellSet)
    BY <1>3 DEF Talk, Lines
  <2> HIDE DEF wu
  <2>2. n \in 0 .. Len(wu) /\ n >= 1 /\ n \in Nat
    BY <1>4, <2>1 DEF wu
  <2>3. chunk \in Seq(CellSet) /\ w \in Seq(CellSet) /\ chunk \o w = wu /\ Len(chunk) = n
    BY <2>1, <2>2, DropIs
  <2> HIDE DEF chunk, w
  <2>4. chunk # <<>>
    BY <2>2, <2>3
  <2>5. QED
    BY <2>3, <2>4
<1>7. iv \in BOOLEAN /\ admit \in BOOLEAN
  BY <1>4 DEF Answers
<1>8. /\ not_match_return(r, left) \/ ReturnJunk(r, left) \/ Raise(r, left) \/ Return(r, left)
      /\ admitted' = IF r.st = "nomatch" /\ iv /\ ~admit THEN "no" ELSE admitted
  BY <1>4
<1>9. cl \in EndSet /\ ~cl.dead /\ (cl.has_header => Newborn(cl) \/ Ready(proto, "server", cl)) /\ su \in Seq(Nat)
      /\ sv \in EndSet /\ ~sv.dead
  BY <1>3 DEF Talk, Lines, Serving
<1>10. left = [wire EXCEPT !["server"] = w]
  OBVIOUS
<1>11. Hearing(r, cl, sv, w, wd, su, sd, ou, od) \/ Turning(r, cl, iv /\ admit, wd, sd, ou, od) \/ Losing(r, sv)
  <2> HIDE DEF cl, sv, wu, wd, su, sd, ou, od, chunk, w
  <2>1. CASE sv.has_header
    BY <1>1, <1>3, <1>6, <2>1, ServerHearsOn
  <2>2. CASE ~sv.has_header
    BY <1>1, <1>3, <1>6, <1>7, <2>2, ServerHearsFirst
  <2>3. QED
    BY <2>1, <2>2
<1> HIDE DEF r, w, left, chunk, iv
<1>12. CASE Hearing(r, cl, sv, w, wd, su, sd, ou, od)
  <2>1. /\ r.st \in {"go", "stop"} /\ (r.back => r.e.has_header)
        /\ Talk(proto, end["client"], r.e, w, wire["client"], sent["server"], sent["client"],
                out["server"] \o r.ret, out["client"])
    BY <1>12 DEF Hearing
  <2>2. Return(r, left)
    BY <1>8, <2>1 DEF not_match_return, ReturnJunk, Raise
  <2>3. QED
    BY <1>1, <1>2, <1>5, <1>10, <2>1, <2>2, SpeakingReturn
<1>13. CASE Turning(r, cl, iv /\ admit, wd, sd, ou, od)
  <2>1. /\ r.st = "nomatch" /\ ~(iv /\ admit) /\ r.e \in EndSet
        /\ r.e.recv_buf # <<>> /\ r.e.recv_buf[1].t = "h1"
        /\ cl.has_header /\ ou = <<>> /\ wd = <<>> /\ sd = <<>> /\ od = <<>>
    BY <1>13 DEF Turning, Rejected
  <2>2. not_match_return(r, left)
    BY <1>8, <2>1 DEF ReturnJunk, Raise, Return
  <2>3. ~IsData(r.e.recv_buf)
    <3>1. r.e.recv_buf \in Seq(CellSet)
      BY <2>1, EndParts
    <3>2. 1 \in DOMAIN r.e.recv_buf
      BY <2>1, <3>1
    <3>3. QED
      BY <2>1, <3>2 DEF IsData
  <2>4. /\ end' = [end EXCEPT !["server"] = [r.e EXCEPT !.raw_trans = TRUE]] /\ wire' = left
        /\ refused' = [refused EXCEPT !["server"] = TRUE] /\ out' = out
    BY <2>2, <2>3 DEF not_match_return
  <2>5. /\ end'["client"] = cl /\ end'["server"] = [r.e EXCEPT !.raw_trans = TRUE]
        /\ wire'["client"] = wd /\ refused'["server"] /\ ~refused'["client"]
    BY <1>1, <1>2, <2>4 DEF Pairs, Ends, left
  <2>6. ~r.e.dead
    BY <1>13 DEF Turning, Rejected
  <2>7. ~end'["server"].dead /\ end'["server"].raw_trans
    <3> DEFINE y == r.e
    <3>1. y \in EndSet /\ ~y.dead
      BY <2>1, <2>6
    <3> HIDE DEF y
    <3>2. ~[y EXCEPT !.raw_trans = TRUE].dead /\ [y EXCEPT !.raw_trans = TRUE].raw_trans
      BY <3>1 DEF EndSet
    <3>3. QED
      BY <2>5, <3>2 DEF y
  <2>8. admitted' = "no" \/ recv_iv' = "part"
    BY <1>5, <1>8, <2>1
  <2>9. Ready(proto, "server", cl)
    BY <1>9, <2>1 DEF Newborn
  <2>10. TurnedAway'
    BY <1>2, <1>5, <1>9, <2>1, <2>4, <2>5, <2>7, <2>8, <2>9 DEF TurnedAway
  <2>11. QED
    BY <2>10
<1>14. CASE Losing(r, sv)
  <2>1. /\ proto = "auth_akarin" /\ r.st \in {"junk", "raise"} /\ r.e \in EndSet /\ Apart(r.e) /\ Apart(sv)
        /\ r.e.has_header /\ sv.has_header
    BY <1>14 DEF Losing
  <2>2. ReturnJunk(r, left) \/ Raise(r, left)
    BY <1>8, <2>1 DEF not_match_return, Return
  <2>3. CASE ReturnJunk(r, left)
    <3>1. end'["server"] = [r.e EXCEPT !.raw_trans = TRUE]
      BY <1>1, <2>3 DEF ReturnJunk, Pairs, Ends
    <3> DEFINE y == r.e
    <3>2. y \in EndSet /\ Apart(y) /\ y.has_header
      BY <2>1
    <3> HIDE DEF y
    <3>3. /\ [y EXCEPT !.raw_trans = TRUE].raw_trans /\ Apart([y EXCEPT !.raw_trans = TRUE])
          /\ [y EXCEPT !.raw_trans = TRUE].has_header
      BY <3>2 DEF EndSet, Apart
    <3>4. end'["server"].raw_trans /\ Apart(end'["server"]) /\ end'["server"].has_header
      BY <3>1, <3>3 DEF y
    <3>5. Lost'
      BY <1>2, <2>1, <3>4 DEF Lost, Apart
    <3>6. QED
      BY <3>5
  <2>4. CASE Raise(r, left)
    <3>1. end'["server"] = [sv EXCEPT !.dead = TRUE]
      BY <1>1, <2>4 DEF Raise, Pairs, Ends
    <3>2. end'["server"].dead /\ Apart(end'["server"]) /\ end'["server"].has_header
      <4> HIDE DEF sv
      <4>1. /\ [sv EXCEPT !.dead = TRUE].dead /\ Apart([sv EXCEPT !.dead = TRUE])
            /\ [sv EXCEPT !.dead = TRUE].has_header
        BY <1>9, <2>1 DEF EndSet, Apart
      <4>2. QED
        BY <3>1, <4>1
    <3>3. ~Alive' /\ OutOfStep'
      BY <1>2, <2>1, <3>2 DEF Alive, OutOfStep, Apart, Ends
    <3>4. Lost'
      BY <3>3 DEF Lost, OutOfStep
    <3>5. QED
      BY <3>4
  <2>5. QED
    BY <2>2, <2>3, <2>4
<1>15. QED
  BY <1>11, <1>12, <1>13, <1>14

LEMMA QuietStep ==
    ASSUME FramesInv, [Next]_vars
    PROVE  /\ proto' \in AllProtocols /\ compatible' \in BOOLEAN /\ plain' \in BOOLEAN /\ faults' \in Nat
           /\ faults' = 0 => Quiet
<1>1. UNCHANGED config /\ faults' \in {faults, faults + 1}
  <2>1. CASE UNCHANGED vars
    BY <2>1 DEF vars
  <2>2. CASE ClientWrite \/ ServerWrite \/ ClientReceive \/ ServerReceiveIv \/ ServerReceive \/ ServerReceiveRaw
    BY <2>2, Zenon DEF ClientWrite, ServerWrite, ClientReceive, ServerReceiveIv, ServerReceive, ServerReceiveRaw
  <2>3. CASE \E x \in Ends : Damage(x) \/ LoseFrame(x) \/ RepeatFrame(x)
    BY <2>3, Zenon DEF Damage, LoseFrame, RepeatFrame, Faulty
  <2>4. QED
    BY <2>1, <2>2, <2>3 DEF Next
<1>2. faults \in Nat
  BY DEF FramesInv
<1>3. faults' \in Nat /\ (faults' = 0 => faults = 0)
  BY <1>1, <1>2
<1>4. QED
  BY <1>1, <1>3 DEF FramesInv, config, Quiet

LEMMA ModeStays ==
    ASSUME FramesInv, Quiet, [Next]_vars
    PROVE  Mode'
<1>1. Mode /\ Pairs
  BY DEF FramesInv, Quiet
<1>2. CASE Lost
  BY <1>1, <1>2, LostStays DEF Mode
<1>3. CASE PlainMode
  BY <1>3, PlainModeStays DEF Mode
<1>4. CASE TurnedAway
  BY <1>4, TurnedAwayStays DEF Mode
<1>5. CASE Speaking
  <2>1. CASE UNCHANGED vars
    BY <1>5, <2>1 DEF Speaking, Mode, vars, config
  <2>2. CASE ClientWrite
    BY <1>5, <2>2, SpeakingClientWrite DEF Mode
  <2>3. CASE ServerWrite
    BY <1>5, <2>3, SpeakingServerWrite DEF Mode
  <2>4. CASE ClientReceive
    BY <1>5, <2>4, SpeakingClientReceive DEF Mode
  <2>5. CASE ServerReceive
    BY <1>5, <2>5, SpeakingServerReceive DEF Mode
  <2>6. CASE ServerReceiveRaw
    <3>1. ~end["server"].raw_trans
      BY <1>5 DEF Speaking, Talk
    <3>2. QED
      BY <2>6, <3>1 DEF ServerReceiveRaw
  <2>7. CASE \E x \in Ends : Damage(x) \/ LoseFrame(x) \/ RepeatFrame(x)
    BY <2>7 DEF Damage, LoseFrame, RepeatFrame, Faulty, Quiet
  <2>8. CASE ServerReceiveIv
    BY <1>5, <2>8 DEF Speaking, Mode, ServerReceiveIv, config
  <2>9. QED
    BY <2>1, <2>2, <2>3, <2>4, <2>5, <2>6, <2>7, <2>8 DEF Next
<1>6. QED
  BY <1>1, <1>2, <1>3, <1>4, <1>5 DEF Mode

(***************************************************************************)
(* What two ends of AuthFrames are to each other as long as no fault has   *)
(* happened, whatever the protocol, the writes, their padding and the way  *)
(* TCP cuts the streams: what is in the buffer of an end and on the wire   *)
(* to it are whole frames that lead from where the end has read to where   *)
(* its peer has written.                                                   *)
(***************************************************************************)
THEOREM FramesInvariant == Spec => []FramesInv
<1>1. Init => FramesInv
  BY FramesInit
<1>2. FramesInv /\ [Next]_vars => FramesInv'
  <2> SUFFICES ASSUME FramesInv, [Next]_vars PROVE FramesInv'
    OBVIOUS
  <2>1. Pairs'
    BY PairsStay DEF FramesInv
  <2>2. faults' = 0 => Mode'
    BY QuietStep, ModeStays
  <2>3. QED
    BY <2>1, <2>2, QuietStep DEF FramesInv
<1>3. QED
  BY <1>1, <1>2, PTL DEF Spec

(***************************************************************************)
(* UndamagedSurvives of AuthFrames: the checks of frames and headers never *)
(* end a connection whose bytes arrive as they were sent, unless the first *)
(* ones ended inside the IV.                                               *)
(***************************************************************************)
THEOREM FramesUndamagedSurvives == Spec => []UndamagedSurvives
<1>1. FramesInv => UndamagedSurvives
  <2> SUFFICES ASSUME FramesInv, faults = 0
               PROVE  OutOfStep \/ ((\A x \in Ends : ~end[x].dead)
                         /\ (refused["server"] => admitted = "no" \/ recv_iv = "part" \/ (plain /\ ~compatible)))
    BY DEF UndamagedSurvives, Survives
  <2>1. CASE Lost
    BY <2>1 DEF Lost, OutOfStep, Apart, Ends
  <2>2. CASE PlainMode
    BY <2>2 DEF PlainMode, Ends
  <2>3. CASE TurnedAway
    BY <2>3 DEF TurnedAway, Ends
  <2>4. CASE Speaking
    BY <2>4 DEF Speaking, Talk, Ends
  <2>5. QED
    BY <2>1, <2>2, <2>3, <2>4 DEF FramesInv, Mode
<1>2. QED
  BY <1>1, FramesInvariant, PTL

\* With nothing left on the way, all has been handed up.
LEMMA TalkDone ==
    ASSUME NEW pr, NEW cl, NEW sv, NEW wu, NEW wd, NEW su, NEW sd, NEW ou, NEW od,
           Talk(pr, cl, sv, wu, wd, su, sd, ou, od), pr # "auth_akarin"
    PROVE  /\ wu = <<>> => su = ou
           /\ wd = <<>> /\ Followed(pr, "client", sv) => sd = od
<1>1. Link(pr, "client", cl, sv, wd, sd, od)
  BY DEF Talk
<1>2. wd = <<>> /\ Followed(pr, "client", sv) => sd = od
  BY <1>1, LinkDone
<1>3. CASE sv.has_header
  <2>1. Link(pr, "server", sv, cl, wu, su, ou)
    BY <1>3 DEF Talk
  <2>2. Followed(pr, "server", cl)
    BY DEF Followed
  <2>3. QED
    BY <1>2, <2>1, <2>2, LinkDone
<1>4. CASE ~sv.has_header
  <2>1. Awaiting(pr, cl, sv, wu, su) /\ ou = <<>>
    BY <1>4 DEF Talk
  <2>2. CASE ~cl.has_header
    BY <1>2, <2>1, <2>2 DEF Awaiting
  <2>3. CASE cl.has_header
    <3> DEFINE b == sv.recv_buf
    <3>1. Len(b) < HeadLen(pr) /\ Greeting(pr, b, wu, cl, su)
      BY <2>1, <2>3 DEF Awaiting
    <3> HIDE DEF b
    <3>2. PICK d, hd, s : Heralds(pr, b, wu, d, hd, s)
      BY <3>1 DEF Greeting
    <3>3. /\ hd \in Seq(CellSet) /\ s \in Seq(CellSet) /\ Len(hd) = HeadLen(pr)
          /\ b \in Seq(CellSet) /\ b \o wu = hd \o s
      BY <3>2 DEF Heralds, HeadCells
    <3>4. wu # <<>>
      <4> SUFFICES ASSUME wu = <<>> PROVE FALSE
        OBVIOUS
      <4>1. b = hd \o s
        <5>1. b \in Seq(CellSet)
          BY <3>3
        <5>2. b \o <<>> = b
          BY <5>1
        <5>3. b \o wu = b \o <<>>
          OBVIOUS
        <5>4. QED
          BY <3>3, <5>2, <5>3
      <4>2. Len(hd \o s) = Len(hd) + Len(s) /\ Len(hd) \in Nat /\ Len(s) \in Nat
        <5>1. hd \in Seq(CellSet) /\ s \in Seq(CellSet)
          BY <3>3
        <5>2. QED
          BY <5>1
      <4>3. QED
        BY <3>1, <3>3, <4>1, <4>2
    <3>5. QED
      BY <1>2, <3>4
  <2>4. QED
    BY <2>2, <2>3
<1>5. QED
  BY <1>3, <1>4

(***************************************************************************)
(* AllHandedUp of AuthFrames, up to where the numbers of auth_chain come   *)
(* round: the client takes a tcp_mss off every frame with number 1.        *)
(***************************************************************************)
THEOREM FramesAllHandedUp ==
    Spec => []((proto = "auth_chain" => end["server"].sent_hash <= IdMod) => AllHandedUp)
<1>1. FramesInv => ((proto = "auth_chain" => end["server"].sent_hash <= IdMod) => AllHandedUp)
  <2> SUFFICES ASSUME FramesInv, proto = "auth_chain" => end["server"].sent_hash <= IdMod,
                      NEW x \in Ends, faults = 0, proto # "auth_akarin", wire[x] = <<>>, ~refused[x]
               PROVE  out[x] = sent[x]
    BY DEF AllHandedUp
  <2>1. CASE Lost
    BY <2>1 DEF Lost
  <2>2. CASE PlainMode
    <3>1. PlainLink(wire[x], sent[x], out[x])
      BY <2>2 DEF PlainMode, Ends
    <3> DEFINE s == sent[x]
               o == out[x]
    <3>2. PlainLink(<<>>, s, o)
      BY <3>1
    <3> HIDE DEF s, o
    <3>3. s = o
      BY <3>2, PlainDone
    <3>4. QED
      BY <3>3 DEF s, o
  <2>3. CASE TurnedAway
    BY <2>3 DEF TurnedAway, Ends
  <2>4. CASE Speaking
    <3>1. Talk(proto, end["client"], end["server"], wire["server"], wire["client"],
               sent["server"], sent["client"], out["server"], out["client"])
      BY <2>4 DEF Speaking
    <3>2. Followed(proto, "client", end["server"])
      BY DEF Followed, Hashed
    <3>3. /\ wire["server"] = <<>> => sent["server"] = out["server"]
          /\ wire["client"] = <<>> => sent["client"] = out["client"]
      BY <3>1, <3>2, TalkDone
    <3>4. QED
      BY <3>3 DEF Ends
  <2>5. QED
    BY <2>1, <2>2, <2>3, <2>4 DEF FramesInv, Mode
<1>2. QED
  BY <1>1, FramesInvariant, PTL
=============================================================================
