----------------------------- MODULE PoolProofs -----------------------------
(***************************************************************************)
(* Every listening socket is accounted for, and the relays of a port start *)
(* together unless something cut in: for any number of ports, relays,      *)
(* settings and pulls, whatever the interleaving of the two threads.       *)
(***************************************************************************)
EXTENDS Pool, SequenceLemmas

Relay == [kind : {"tcp", "udp"}, port : Ports, cfg : Int, closed : BOOLEAN, open : BOOLEAN]

\* The relays whose socket is open, those that were closed, and the UDP ones.
Opened == {r \in 1 .. Len(relay) : relay[r].open}
Closed == {r \in 1 .. Len(relay) : relay[r].closed}
Udp == {r \in 1 .. Len(relay) : relay[r].kind = "udp"}

-----------------------------------------------------------------------------
(* The inductive invariant.                                                *)

\* Where the accounting thread may be.
Phases == {"idle", "rows", "gone", "again", "stop", "ended"}
Thread == [phase : Phases, todo : SUBSET Ports, again : SUBSET Ports,
           call : {"none", "del_udp", "new_udp"}, p : Ports \cup {0}]

PoolTypes ==
    /\ relay \in Seq(Relay)
    /\ Unique(periodic, Nat) /\ ToSet(periodic) \subseteq 1 .. Len(relay)
    /\ round \in Nat
    /\ tcp_pool \in [Ports -> Nat] /\ udp_pool \in [Ports -> Nat]
    /\ rows \in [Ports -> Configs \cup {Off, Gone}]
    /\ db \in Thread
    /\ db.call # "none" => db.p \in Ports /\ front = "pool"
    /\ front = "manager" => crossed = {}

\* The pools hold the relays that were not closed, each under its port and kind,
\* and those have their socket.
Pooled ==
    /\ \A p \in Ports : tcp_pool[p] # 0 =>
          /\ tcp_pool[p] \in (1 .. Len(relay)) \ (Udp \cup Closed)
          /\ relay[tcp_pool[p]].port = p
    /\ \A p \in Ports : udp_pool[p] # 0 =>
          udp_pool[p] \in Udp \ Closed /\ relay[udp_pool[p]].port = p
    /\ \A r \in (1 .. Len(relay)) \ Closed :
          r \in Opened /\ (tcp_pool[relay[r].port] = r \/ udp_pool[relay[r].port] = r)

\* A relay that has its socket is called back.
Called == Opened \subseteq ToSet(periodic)

\* A UDP relay was made right after the TCP relay of its port, and its callback
\* comes right after that one's.
Paired ==
    \A u \in Udp :
        /\ u - 1 \in (1 .. Len(relay)) \ Udp
        /\ relay[u - 1].port = relay[u].port
        /\ Before(periodic, u - 1, u)

\* A UDP socket outlives its TCP socket only until the callback that is next,
\* unless the loop cut into the stop.
Late ==
    \A u \in Udp :
        u \in Opened /\ u - 1 \notin Opened =>
            \/ relay[u].port \in crossed
            \/ round \in 1 .. Len(periodic) /\ periodic[round] = u

\* A UDP relay in the pool has its TCP relay there, but in the middle of a stop.
Together ==
    \A p \in Ports :
        /\ udp_pool[p] # 0 => HalfWay(p) \/ tcp_pool[p] = udp_pool[p] - 1
        /\ HalfWay(p) => tcp_pool[p] = 0

\* In the middle of a start the TCP relay is the last one, and no old UDP socket
\* is in the way of the new one.
Starting ==
    db.call = "new_udp" =>
        /\ tcp_pool[db.p] = Len(relay) /\ Len(relay) > 0
        /\ Len(periodic) > 0 /\ periodic[Len(periodic)] = Len(relay)
        /\ \A u \in Udp \cap Opened : relay[u].port = db.p => db.p \in crossed

\* The TCP relay of a port is in the pool alone only during a start, or if the
\* loop or another process cut in.
HalfStarted ==
    \A p \in Ports :
        tcp_pool[p] # 0 /\ udp_pool[p] = 0 =>
            p \in crossed \/ (db.call = "new_udp" /\ db.p = p)

PoolInv ==
    /\ PoolTypes /\ Pooled /\ Called /\ Paired /\ Late
    /\ Together /\ Starting /\ HalfStarted

-----------------------------------------------------------------------------
(* What becomes of the relays.                                             *)

\* The relays have not become other ones.
Kept ==
    /\ relay' \in Seq(Relay) /\ Len(relay') = Len(relay) /\ Udp' = Udp
    /\ \A r \in 1 .. Len(relay) : relay'[r].port = relay[r].port

\* A callback.
LEMMA ReleaseEffect ==
    ASSUME relay \in Seq(Relay), NEW r \in 1 .. Len(relay),
           relay' = [relay EXCEPT ![r].open = @ /\ ~relay[r].closed]
    PROVE  /\ Kept /\ Closed' = Closed
           /\ Opened' = IF r \in Closed THEN Opened \ {r} ELSE Opened
<1> DEFINE v == [relay[r] EXCEPT !.open = @ /\ ~relay[r].closed]
<1>1. /\ v \in Relay /\ v.kind = relay[r].kind /\ v.port = relay[r].port
      /\ v.closed = relay[r].closed /\ v.open = (relay[r].open /\ ~relay[r].closed)
  <2> DEFINE w == relay[r]
  <2>1. w \in Relay
    BY ElementOfSeq
  <2> HIDE DEF w
  <2>2. (w.open /\ ~w.closed) \in BOOLEAN
    OBVIOUS
  <2>3. v = [w EXCEPT !.open = w.open /\ ~w.closed]
    BY <2>1 DEF w
  <2>4. QED
    BY <2>1, <2>2, <2>3 DEF Relay, w
<1>2. relay' = [relay EXCEPT ![r] = v]
  OBVIOUS
<1> HIDE DEF v
<1>3. /\ relay' \in Seq(Relay) /\ Len(relay') = Len(relay) /\ relay'[r] = v
      /\ \A q \in 1 .. Len(relay) : q # r => relay'[q] = relay[q]
  BY <1>1, <1>2, ExceptSeq
<1>4. QED
  BY <1>1, <1>3, ZenonT(30) DEF Kept, Closed, Opened, Udp

\* close(True).
LEMMA CloseEffect ==
    ASSUME relay \in Seq(Relay), NEW r \in 1 .. Len(relay), Close(r)
    PROVE  Kept /\ Closed' = Closed \cup {r} /\ Opened' = Opened
<1> DEFINE v == [relay[r] EXCEPT !.closed = TRUE]
<1>1. /\ v \in Relay /\ v.kind = relay[r].kind /\ v.port = relay[r].port
      /\ v.closed = TRUE /\ v.open = relay[r].open
  <2> DEFINE w == relay[r]
  <2>1. w \in Relay
    BY ElementOfSeq
  <2>2. v = [w EXCEPT !.closed = TRUE]
    OBVIOUS
  <2> HIDE DEF w
  <2>3. QED
    BY <2>1, <2>2 DEF Relay, w
<1>2. relay' = [relay EXCEPT ![r] = v]
  BY DEF Close
<1> HIDE DEF v
<1>3. /\ relay' \in Seq(Relay) /\ Len(relay') = Len(relay) /\ relay'[r] = v
      /\ \A q \in 1 .. Len(relay) : q # r => relay'[q] = relay[q]
  BY <1>1, <1>2, ExceptSeq
<1>4. QED
  BY <1>1, <1>3 DEF Kept, Closed, Opened, Udp

\* A relay is made.
LEMMA OpenEffect ==
    ASSUME relay \in Seq(Relay), NEW kind \in {"tcp", "udp"}, NEW p \in Ports, NEW c \in Int,
           relay' = Append(relay, New(kind, p, c))
    PROVE  /\ relay' \in Seq(Relay) /\ Len(relay') = Len(relay) + 1
           /\ \A r \in 1 .. Len(relay) : relay'[r].port = relay[r].port
           /\ relay'[Len(relay) + 1].port = p
           /\ Closed' = Closed /\ Opened' = Opened \cup {Len(relay) + 1}
           /\ Udp' = IF kind = "udp" THEN Udp \cup {Len(relay) + 1} ELSE Udp
<1> DEFINE v == New(kind, p, c)
<1>1. v \in Relay /\ v.kind = kind /\ v.port = p /\ v.closed = FALSE /\ v.open = TRUE
  BY DEF Relay, New
<1> HIDE DEF v
<1>2. /\ relay' \in Seq(Relay) /\ Len(relay) \in Nat /\ Len(relay') = Len(relay) + 1
      /\ \A j \in 1 .. Len(relay) : relay'[j] = relay[j]
      /\ relay'[Len(relay) + 1] = v
  BY <1>1, AppendIs DEF v
<1>3. QED
  BY <1>1, <1>2 DEF Closed, Opened, Udp

-----------------------------------------------------------------------------
(* Steps that leave relays and pools alone.                                *)

LEMMA Lengths ==
    ASSUME PoolTypes
    PROVE  /\ Len(relay) \in Nat /\ Len(periodic) \in Nat /\ DOMAIN relay = 1 .. Len(relay)
           /\ DOMAIN periodic = 1 .. Len(periodic) /\ periodic \in Seq(Nat)
           /\ \A i \in 1 .. Len(periodic) : periodic[i] \in 1 .. Len(relay)
           /\ \A r \in 1 .. Len(relay) : relay[r] \in Relay
BY ElementOfSeq DEF PoolTypes, Unique, ToSet

LEMMA QuietInv ==
    ASSUME PoolInv,
           relay' = relay, periodic' = periodic, tcp_pool' = tcp_pool, udp_pool' = udp_pool,
           crossed \subseteq crossed', front' = front, front = "manager" => crossed' = {},
           round' \in Nat, round' = round \/ round \notin 1 .. Len(periodic),
           rows' \in [Ports -> Configs \cup {Off, Gone}],
           db' \in Thread, db' = db \/ (db.call = "none" /\ db'.call = "none")
    PROVE  PoolInv'
<1>1. Opened' = Opened /\ Closed' = Closed /\ Udp' = Udp
  BY DEF Opened, Closed, Udp
<1>2. PoolTypes'
  BY DEF PoolInv, PoolTypes, Thread
<1>3. Pooled' /\ Called'
  BY <1>1 DEF PoolInv, Pooled, Called
<1>4. Paired'
  BY <1>1 DEF PoolInv, Paired
<1>5. Late'
  BY <1>1 DEF PoolInv, Late
<1>6. Together'
  BY DEF PoolInv, Together, HalfWay
<1>7. Starting'
  BY <1>1 DEF PoolInv, Starting
<1>8. HalfStarted'
  BY DEF PoolInv, HalfStarted
<1>9. QED
  BY <1>2, <1>3, <1>4, <1>5, <1>6, <1>7, <1>8 DEF PoolInv

LEMMA InitPool == Init => PoolInv
<1> SUFFICES ASSUME Init PROVE PoolInv
  OBVIOUS
<1>1. /\ relay = <<>> /\ periodic = <<>> /\ Len(<<>>) = 0 /\ 1 .. 0 = {}
      /\ \A p \in Ports : tcp_pool[p] = 0 /\ udp_pool[p] = 0
  BY DEF Init
<1>2. Opened = {} /\ Closed = {} /\ Udp = {}
  BY <1>1 DEF Opened, Closed, Udp
<1>3. db = At("idle", {}, {}) /\ db \in Thread /\ db.call = "none"
  <2>1. db = At("idle", {}, {})
    BY DEF Init
  <2>2. QED
    BY <2>1 DEF At, Thread, Phases
<1>4. rows \in [Ports -> Configs \cup {Off, Gone}]
  BY PoolAssumption DEF Init
<1>5. Unique(<<>>, Nat) /\ ToSet(<<>>) = {}
  BY DEF Unique, IsInjective, ToSet
<1>6. PoolTypes
  <2>1. relay \in Seq(Relay) /\ ToSet(periodic) \subseteq 1 .. Len(relay) /\ Unique(periodic, Nat)
    BY <1>1, <1>5
  <2>2. /\ round \in Nat /\ tcp_pool \in [Ports -> Nat] /\ udp_pool \in [Ports -> Nat]
        /\ crossed = {}
    BY DEF Init
  <2>3. QED
    BY <1>3, <1>4, <2>1, <2>2 DEF PoolTypes, Thread
<1>7. Pooled /\ Called /\ Paired /\ Late
  BY <1>1, <1>2 DEF Pooled, Called, Paired, Late
<1>8. Together /\ Starting /\ HalfStarted
  BY <1>1, <1>3 DEF Together, HalfWay, Starting, HalfStarted
<1>9. QED
  BY <1>6, <1>7, <1>8 DEF PoolInv

\* The rounds of the loop, and the accounting thread between the ports.
LEMMA BetweenInv ==
    ASSUME PoolInv, RoundBegins \/ RoundEnds \/ Pull \/ NextPart \/ Stop \/ StopLoop
                    \/ OutsideLeaves \/ UNCHANGED vars
    PROVE  PoolInv'
<1>0. /\ rows \in [Ports -> Configs \cup {Off, Gone}] /\ db \in Thread /\ round \in Nat
      /\ front = "manager" => crossed = {}
      /\ Len(periodic) \in Nat
  BY Lengths DEF PoolInv, PoolTypes, Thread
<1>1. CASE RoundBegins \/ RoundEnds \/ OutsideLeaves \/ UNCHANGED vars
  <2>1. /\ relay' = relay /\ periodic' = periodic /\ tcp_pool' = tcp_pool
        /\ udp_pool' = udp_pool /\ crossed' = crossed /\ front' = front
        /\ rows' = rows /\ db' = db
    BY <1>1 DEF RoundBegins, RoundEnds, OutsideLeaves, vars, loopVars, poolVars, dbVars
  <2>2. round' \in Nat /\ (round' = round \/ round \notin 1 .. Len(periodic))
    BY <1>0, <1>1 DEF RoundBegins, RoundEnds, OutsideLeaves, vars, loopVars, poolVars, dbVars
  <2>3. QED
    BY <1>0, <2>1, <2>2, QuietInv
<1>2. CASE Pull \/ NextPart \/ Stop \/ StopLoop
  <2>1. /\ relay' = relay /\ periodic' = periodic /\ tcp_pool' = tcp_pool
        /\ udp_pool' = udp_pool /\ crossed' = crossed /\ front' = front
        /\ round' = round /\ db.call = "none"
    BY <1>2 DEF Pull, NextPart, Stop, StopLoop, Calling, loopVars, poolVars
  <2>2. rows' \in [Ports -> Configs \cup {Off, Gone}]
    BY <1>0, <1>2 DEF Pull, NextPart, Stop, StopLoop
  <2>3. \E ph \in Phases, todo, again \in SUBSET Ports : db' = At(ph, todo, again)
    <3>1. CASE Pull
      BY <3>1 DEF Pull, Phases
    <3>2. CASE Stop \/ StopLoop
      BY <3>2 DEF Stop, StopLoop, Phases
    <3>3. CASE NextPart
      <4>1. db.phase \in {"rows", "gone", "again"} /\ db.again \in SUBSET Ports
        BY <1>0, <3>3 DEF NextPart, Following, Thread
      <4>2. CASE db.phase = "rows"
        <5> DEFINE out == {p \in Ports : last_rows[p] # Gone /\ rows[p] = Gone}
        <5>1. db' = At("gone", out, db.again)
          BY <3>3, <4>2 DEF NextPart, Following
        <5>2. out \in SUBSET Ports /\ "gone" \in Phases
          BY DEF Phases
        <5>3. QED
          BY <4>1, <5>1, <5>2
      <4>3. CASE db.phase = "gone"
        <5>1. db' = At("again", db.again, {})
          BY <3>3, <4>3 DEF NextPart, Following
        <5>2. QED
          BY <4>1, <5>1 DEF Phases
      <4>4. CASE db.phase = "again"
        <5>1. db' = At("idle", {}, {})
          BY <3>3, <4>4 DEF NextPart, Following
        <5>2. QED
          BY <5>1 DEF Phases
      <4>5. QED
        BY <4>1, <4>2, <4>3, <4>4
    <3>4. QED
      BY <1>2, <3>1, <3>2, <3>3
  <2>4. db' \in Thread /\ db'.call = "none"
    BY <2>3 DEF At, Thread
  <2>5. QED
    BY <1>0, <2>1, <2>2, <2>4, QuietInv
<1>3. QED
  BY <1>1, <1>2

\* The pools are right when only closed relays lose their socket.
LEMMA PooledKept ==
    ASSUME Pooled, Len(relay) \in Nat, Kept, Closed' = Closed,
           tcp_pool' = tcp_pool, udp_pool' = udp_pool,
           \A r \in (1 .. Len(relay)) \ Closed : r \in Opened => r \in Opened'
    PROVE  Pooled'
<1>1. \A p \in Ports : tcp_pool[p] # 0 =>
          /\ tcp_pool[p] \in (1 .. Len(relay)) \ (Udp \cup Closed)
          /\ relay'[tcp_pool[p]].port = p
  BY DEF Pooled, Kept
<1>2. \A p \in Ports : udp_pool[p] # 0 =>
          udp_pool[p] \in Udp \ Closed /\ relay'[udp_pool[p]].port = p
  BY DEF Pooled, Kept, Udp
<1>3. \A r \in (1 .. Len(relay)) \ Closed :
          r \in Opened' /\ (tcp_pool[relay'[r].port] = r \/ udp_pool[relay'[r].port] = r)
  BY DEF Pooled, Kept
<1>4. QED
  BY <1>1, <1>2, <1>3 DEF Pooled, Kept

\* Closing alone changes nothing about sockets and callbacks.
LEMMA SocketsKept ==
    ASSUME PoolInv, Kept, Opened' = Opened, periodic' = periodic, round' = round,
           crossed' = crossed
    PROVE  Called' /\ Paired' /\ Late'
<1>1. Called'
  BY DEF PoolInv, Called
<1>2. Paired'
  BY DEF PoolInv, Paired, Kept, Udp
<1>3. Late'
  BY DEF PoolInv, Late, Kept, Udp
<1>4. QED
  BY <1>1, <1>2, <1>3

-----------------------------------------------------------------------------
(* A callback.                                                             *)

LEMMA CallbackInv ==
    ASSUME PoolInv, Callback
    PROVE  PoolInv'
<1> DEFINE r == periodic[round]
<1>0. /\ Len(relay) \in Nat /\ Len(periodic) \in Nat /\ periodic \in Seq(Nat)
      /\ round \in 1 .. Len(periodic) /\ r \in 1 .. Len(relay) /\ relay \in Seq(Relay)
      /\ \A q \in 1 .. Len(relay) : relay[q] \in Relay
      /\ Unique(periodic, Nat) /\ ToSet(periodic) \subseteq 1 .. Len(relay)
  BY Lengths DEF PoolInv, PoolTypes, Callback
<1>1. /\ round' = round + 1 /\ front' = front /\ tcp_pool' = tcp_pool /\ udp_pool' = udp_pool
      /\ rows' = rows /\ db' = db
      /\ crossed' = crossed \cup {p \in Ports : HalfWay(p) /\ p = relay[r].port}
  BY DEF Callback, poolVars, dbVars
<1>2. relay' = [relay EXCEPT ![r].open = @ /\ ~relay[r].closed]
  BY DEF Callback, TcpPeriodic, UdpPeriodic
<1>3. \/ periodic' = periodic
      \/ periodic' = RemoveAt(periodic, round) /\ r \in Udp \cap Closed
  BY <1>0 DEF Callback, TcpPeriodic, UdpPeriodic, Udp, Closed
<1> HIDE DEF r
<1>4. /\ Kept /\ Closed' = Closed
      /\ Opened' = IF r \in Closed THEN Opened \ {r} ELSE Opened
  BY <1>0, <1>2, ReleaseEffect
<1>5. /\ Unique(periodic', Nat) /\ ToSet(periodic') \subseteq ToSet(periodic)
      /\ ToSet(periodic) \ (Udp \cap Closed \cap {r}) \subseteq ToSet(periodic')
  BY <1>0, <1>3, RemoveAtUnique DEF r
<1>6. PoolTypes'
  <2>1. /\ Unique(periodic', Nat) /\ ToSet(periodic') \subseteq 1 .. Len(relay')
        /\ relay' \in Seq(Relay) /\ round' \in Nat
    BY <1>0, <1>1, <1>4, <1>5 DEF Kept
  <2>2. front = "manager" => crossed' = {}
    BY <1>1 DEF PoolInv, PoolTypes, HalfWay
  <2>3. QED
    BY <1>1, <2>1, <2>2 DEF PoolInv, PoolTypes
<1>7. Pooled'
  <2>1. \A q \in (1 .. Len(relay)) \ Closed : (q \in Opened) => (q \in Opened')
    BY <1>4
  <2>2. QED
    BY <1>0, <1>1, <1>4, <2>1, PooledKept DEF PoolInv
<1>8. Called'
  BY <1>4, <1>5 DEF PoolInv, Called
<1>9. Paired'
  <2> SUFFICES ASSUME NEW u \in Udp
               PROVE  /\ u - 1 \in (1 .. Len(relay)) \ Udp
                      /\ relay'[u - 1].port = relay'[u].port
                      /\ Before(periodic', u - 1, u)
    BY <1>4 DEF Paired, Kept
  <2>1. u - 1 \in (1 .. Len(relay)) \ Udp /\ relay[u - 1].port = relay[u].port
        /\ Before(periodic, u - 1, u) /\ u \in 1 .. Len(relay)
    BY DEF PoolInv, Paired, Udp
  <2>2. Before(periodic', u - 1, u)
    BY <1>0, <1>3, <2>1, RemoveAtBefore DEF r
  <2>3. QED
    BY <1>4, <2>1, <2>2 DEF Kept
<1>10. Late'
  <2> SUFFICES ASSUME NEW u \in Udp, u \in Opened', u - 1 \notin Opened'
               PROVE  \/ relay'[u].port \in crossed'
                      \/ round' \in 1 .. Len(periodic') /\ periodic'[round'] = u
    BY <1>4 DEF Late, Kept
  <2>1. /\ u - 1 \in (1 .. Len(relay)) \ Udp /\ relay[u - 1].port = relay[u].port
        /\ Before(periodic, u - 1, u) /\ u \in 1 .. Len(relay) /\ u \in Opened
        /\ relay'[u].port = relay[u].port /\ relay[u].port \in Ports
    BY <1>0, <1>4 DEF PoolInv, Paired, Udp, Kept, Relay
  <2>2. CASE u - 1 \in Opened
    <3>1. r = u - 1
      BY <1>4, <2>2
    <3>2. periodic' = periodic
      BY <1>3, <2>1, <3>1
    <3>3. PICK j \in 1 .. Len(periodic) : periodic[j] = u
      <4>1. u \in ToSet(periodic) /\ DOMAIN periodic = 1 .. Len(periodic)
        BY <1>0, <2>1 DEF PoolInv, Called
      <4>2. QED
        BY <4>1 DEF ToSet
    <3>4. j > 1 /\ periodic[j - 1] = u - 1 /\ j - 1 \in 1 .. Len(periodic)
      BY <1>0, <2>1, <3>3 DEF Before
    <3>5. j - 1 = round
      BY <1>0, <3>1, <3>4 DEF Unique, IsInjective, r
    <3>6. round' = j
      BY <1>0, <1>1, <3>5
    <3>7. QED
      BY <3>2, <3>3, <3>6
  <2>3. CASE u - 1 \notin Opened
    <3>1. relay[u].port \in crossed \/ r = u
      BY <2>1, <2>3 DEF PoolInv, Late, r
    <3>2. CASE r = u
      <4>1. u \notin Closed
        BY <1>4, <3>2
      <4>2. udp_pool[relay[u].port] = u
        BY <2>1, <4>1 DEF PoolInv, Pooled
      <4>3. tcp_pool[relay[u].port] # u - 1
        BY <2>1, <2>3 DEF PoolInv, Pooled
      <4>4. HalfWay(relay[u].port)
        BY <2>1, <4>2, <4>3 DEF PoolInv, Together
      <4>5. QED
        BY <1>1, <2>1, <3>2, <4>4
    <3>3. QED
      BY <1>1, <2>1, <3>1, <3>2
  <2>4. QED
    BY <2>2, <2>3
<1>11. Together'
  BY <1>1 DEF PoolInv, Together, HalfWay
<1>12. Starting'
  <2> SUFFICES ASSUME db.call = "new_udp" PROVE Starting'
    BY <1>1 DEF Starting
  <2> DEFINE n == Len(periodic)
  <2>1. /\ tcp_pool[db.p] = Len(relay) /\ Len(relay) > 0 /\ n > 0 /\ periodic[n] = Len(relay)
        /\ \A u \in Udp \cap Opened : relay[u].port = db.p => db.p \in crossed
        /\ Len(relay) \notin Udp
    BY <1>0 DEF PoolInv, Starting, Pooled, PoolTypes
  <2>2. Len(periodic') > 0 /\ periodic'[Len(periodic')] = Len(relay)
    <3>1. CASE periodic' = periodic
      BY <2>1, <3>1
    <3>2. CASE periodic' = RemoveAt(periodic, round) /\ r \in Udp
      <4>1. round # n
        BY <2>1, <3>2 DEF r
      <4>2. /\ Len(periodic') = n - 1
            /\ \A j \in 1 .. n - 1 : periodic'[j] = IF j < round THEN periodic[j] ELSE periodic[j + 1]
        BY <1>0, <3>2, RemoveAtIs
      <4>3. n - 1 \in 1 .. n - 1 /\ ~(n - 1 < round) /\ (n - 1) + 1 = n
        BY <1>0, <4>1
      <4>4. QED
        BY <2>1, <4>2, <4>3
    <3>3. QED
      BY <1>3, <3>1, <3>2
  <2>3. Opened' \subseteq Opened /\ crossed \subseteq crossed'
    BY <1>1, <1>4
  <2>4. QED
    BY <1>1, <1>4, <2>1, <2>2, <2>3 DEF Starting, Kept, Udp
<1>13. HalfStarted'
  BY <1>1 DEF PoolInv, HalfStarted
<1>14. QED
  BY <1>6, <1>7, <1>8, <1>9, <1>10, <1>11, <1>12, <1>13 DEF PoolInv

-----------------------------------------------------------------------------
(* The accounting thread stops a port.                                     *)

LEMMA DelTcpInv ==
    ASSUME PoolInv, front = "pool", db.call = "none", NEW p \in Ports, server_is_run(p), DelTcp(p),
           UNCHANGED <<front, round, udp_pool, rows>>
    PROVE  PoolInv'
<1> DEFINE r == tcp_pool[p]
<1>0. /\ Len(relay) \in Nat /\ relay \in Seq(Relay) /\ db \in Thread
      /\ r \in (1 .. Len(relay)) \ (Udp \cup Closed) /\ relay[r].port = p
      /\ tcp_pool \in [Ports -> Nat] /\ udp_pool \in [Ports -> Nat]
  BY Lengths DEF PoolInv, PoolTypes, Pooled, server_is_run
<1>1. /\ tcp_pool' = [tcp_pool EXCEPT ![p] = 0] /\ udp_pool' = udp_pool
      /\ periodic' = periodic /\ crossed' = crossed /\ front' = front /\ round' = round
      /\ rows' = rows
  BY DEF DelTcp
<1>2. db' \in Thread /\ db'.call = "del_udp" /\ db'.p = p
  <2> DEFINE todo == db.todo \ {p}
             again == IF db.phase = "rows" /\ Allowed(p) THEN db.again \cup {p} ELSE db.again
  <2>1. todo \in SUBSET Ports /\ again \in SUBSET Ports
    BY <1>0 DEF Thread
  <2>2. db' = [db EXCEPT !.todo = todo, !.call = "del_udp", !.p = p, !.again = again]
    BY DEF DelTcp
  <2> HIDE DEF todo, again
  <2>3. QED
    BY <1>0, <2>1, <2>2 DEF Thread
<1>3. Kept /\ Closed' = Closed \cup {r} /\ Opened' = Opened
  BY <1>0, CloseEffect DEF DelTcp
<1>4. \A q \in Ports : tcp_pool'[q] = IF q = p THEN 0 ELSE tcp_pool[q]
  BY <1>0, <1>1
<1> HIDE DEF r
<1>5. PoolTypes'
  BY <1>0, <1>1, <1>2, <1>3 DEF PoolInv, PoolTypes, Kept
<1>6. Pooled'
  <2>1. \A q \in Ports : tcp_pool'[q] # 0 =>
          /\ tcp_pool'[q] \in (1 .. Len(relay)) \ (Udp \cup Closed \cup {r})
          /\ relay'[tcp_pool'[q]].port = q
    BY <1>0, <1>3, <1>4 DEF PoolInv, Pooled, Kept
  <2>2. \A q \in Ports : udp_pool[q] # 0 =>
          udp_pool[q] \in Udp \ (Closed \cup {r}) /\ relay'[udp_pool[q]].port = q
    BY <1>0, <1>3 DEF PoolInv, Pooled, Kept, Udp
  <2>3. ASSUME NEW q \in (1 .. Len(relay)) \ (Closed \cup {r})
        PROVE  q \in Opened /\ (tcp_pool'[relay'[q].port] = q \/ udp_pool[relay'[q].port] = q)
    <3>1. q \in Opened /\ (tcp_pool[relay[q].port] = q \/ udp_pool[relay[q].port] = q)
      BY DEF PoolInv, Pooled
    <3>2. relay[q].port \in Ports /\ relay'[q].port = relay[q].port
      BY <1>0, <1>3, Lengths DEF PoolInv, Kept, Relay
    <3>3. QED
      BY <1>4, <3>1, <3>2 DEF r
  <2>4. QED
    BY <1>1, <1>3, <2>1, <2>2, <2>3 DEF Pooled, Kept
<1>7. Called' /\ Paired' /\ Late'
  BY <1>1, <1>3, SocketsKept DEF PoolInv
<1>8. Together'
  BY <1>1, <1>2, <1>4 DEF PoolInv, Together, HalfWay
<1>9. Starting'
  BY <1>2 DEF Starting
<1>10. HalfStarted'
  BY <1>1, <1>4 DEF PoolInv, HalfStarted
<1>11. QED
  BY <1>5, <1>6, <1>7, <1>8, <1>9, <1>10 DEF PoolInv

LEMMA DelUdpInv ==
    ASSUME PoolInv, DelUdp
    PROVE  PoolInv'
<1> DEFINE p == db.p
           r == udp_pool[p]
<1>0. /\ Len(relay) \in Nat /\ relay \in Seq(Relay) /\ db \in Thread /\ p \in Ports
      /\ r # 0 => r \in Udp \ Closed /\ relay[r].port = p /\ r \in 1 .. Len(relay)
      /\ tcp_pool \in [Ports -> Nat] /\ udp_pool \in [Ports -> Nat]
      /\ HalfWay(p) /\ tcp_pool[p] = 0
  BY Lengths DEF PoolInv, PoolTypes, Pooled, DelUdp, Udp, Together, HalfWay
<1>1. /\ tcp_pool' = tcp_pool /\ periodic' = periodic /\ crossed' = crossed /\ front' = front
      /\ round' = round /\ rows' = rows
      /\ db' = [db EXCEPT !.call = "none", !.p = 0]
  BY DEF DelUdp, Done, loopVars
<1>2. db' \in Thread /\ db'.call = "none"
  BY <1>0, <1>1 DEF Thread
<1>3. /\ Kept /\ Opened' = Opened
      /\ Closed' = IF r = 0 THEN Closed ELSE Closed \cup {r}
      /\ udp_pool' = [udp_pool EXCEPT ![p] = 0]
  <2>1. CASE r # 0
    BY <1>0, <2>1, CloseEffect DEF DelUdp
  <2>2. CASE r = 0
    <3>1. relay' = relay /\ udp_pool' = udp_pool
      BY <2>2 DEF DelUdp
    <3>2. udp_pool = [udp_pool EXCEPT ![p] = 0]
      BY <1>0, <2>2
    <3>3. QED
      BY <1>0, <2>2, <3>1, <3>2 DEF Kept, Opened, Closed, Udp
  <2>3. QED
    BY <2>1, <2>2
<1>4. \A q \in Ports : udp_pool'[q] = IF q = p THEN 0 ELSE udp_pool[q]
  BY <1>0, <1>3
<1> HIDE DEF r, p
<1>5. PoolTypes'
  BY <1>0, <1>1, <1>2, <1>3 DEF PoolInv, PoolTypes, Kept
<1>6. Pooled'
  <2>1. \A q \in Ports : tcp_pool[q] # 0 =>
          /\ tcp_pool[q] \in (1 .. Len(relay)) \ (Udp \cup Closed')
          /\ relay'[tcp_pool[q]].port = q
    BY <1>0, <1>3 DEF PoolInv, Pooled, Kept
  <2>2. \A q \in Ports : udp_pool'[q] # 0 =>
          udp_pool'[q] \in Udp \ Closed' /\ relay'[udp_pool'[q]].port = q
    BY <1>0, <1>3, <1>4 DEF PoolInv, Pooled, Kept, Udp, r
  <2>3. ASSUME NEW q \in (1 .. Len(relay)) \ Closed'
        PROVE  q \in Opened /\ (tcp_pool[relay'[q].port] = q \/ udp_pool'[relay'[q].port] = q)
    <3>1. q \in Opened /\ (tcp_pool[relay[q].port] = q \/ udp_pool[relay[q].port] = q)
      BY <1>3 DEF PoolInv, Pooled
    <3>2. relay[q].port \in Ports /\ relay'[q].port = relay[q].port
      BY <1>0, <1>3, Lengths DEF PoolInv, Kept, Relay
    <3>3. QED
      BY <1>3, <1>4, <3>1, <3>2 DEF r
  <2>4. QED
    BY <1>1, <1>3, <2>1, <2>2, <2>3 DEF Pooled, Kept
<1>7. Called' /\ Paired' /\ Late'
  BY <1>1, <1>3, SocketsKept DEF PoolInv
<1>8. Together'
  <2>1. \A q \in Ports : q # p /\ udp_pool[q] # 0 => tcp_pool[q] = udp_pool[q] - 1
    BY DEF PoolInv, Together, HalfWay, p
  <2>2. QED
    BY <1>1, <1>2, <1>4, <2>1 DEF Together, HalfWay
<1>9. Starting'
  BY <1>2 DEF Starting
<1>10. HalfStarted'
  <2>1. \A q \in Ports : q # p /\ tcp_pool[q] # 0 /\ udp_pool[q] = 0 => q \in crossed
    BY <1>0 DEF PoolInv, HalfStarted, HalfWay
  <2>2. QED
    BY <1>0, <1>1, <1>4, <2>1 DEF HalfStarted
<1>11. QED
  BY <1>5, <1>6, <1>7, <1>8, <1>9, <1>10 DEF PoolInv

-----------------------------------------------------------------------------
(* The accounting thread starts a port.                                    *)

\* A port that a relay can be bound to has no such relay in the pool.
LEMMA BindableFree ==
    ASSUME PoolInv, NEW p \in Ports
    PROVE  /\ Bindable("tcp", p) => /\ tcp_pool[p] = 0
                                    /\ \A r \in Opened \ Udp : relay[r].port # p
           /\ Bindable("udp", p) => /\ udp_pool[p] = 0
                                    /\ \A r \in Opened \cap Udp : relay[r].port # p
<1>1. /\ Len(relay) \in Nat /\ DOMAIN relay = 1 .. Len(relay)
      /\ \A r \in 1 .. Len(relay) : relay[r].kind \in {"tcp", "udp"}
  BY Lengths DEF PoolInv, Relay
<1>2. ASSUME Bindable("tcp", p)
      PROVE  tcp_pool[p] = 0 /\ \A r \in Opened \ Udp : relay[r].port # p
  <2>1. \A r \in Opened \ Udp : relay[r].port # p
    BY <1>1, <1>2 DEF Bindable, Relays, Opened, Udp
  <2>2. QED
    BY <2>1 DEF PoolInv, Pooled
<1>3. ASSUME Bindable("udp", p)
      PROVE  udp_pool[p] = 0 /\ \A r \in Opened \cap Udp : relay[r].port # p
  <2>1. \A r \in Opened \cap Udp : relay[r].port # p
    BY <1>1, <1>3 DEF Bindable, Relays, Opened, Udp
  <2>2. \A r \in Udp \ Closed : r \in Opened
    BY DEF PoolInv, Pooled, Udp
  <2>3. QED
    BY <2>1, <2>2 DEF PoolInv, Pooled
<1>4. QED
  BY <1>2, <1>3

LEMMA TookType ==
    ASSUME db \in Thread, NEW p \in Ports, NEW call \in {"none", "new_udp"}, Took(p, call)
    PROVE  db' \in Thread /\ db'.call = call /\ (call # "none" => db'.p = p)
<1> DEFINE todo == db.todo \ {p}
           at == IF call = "none" THEN 0 ELSE p
<1>1. todo \in SUBSET Ports /\ at \in Ports \cup {0}
  BY DEF Thread
<1>2. db' = [db EXCEPT !.todo = todo, !.call = call, !.p = at]
  BY DEF Took
<1>3. call # "none" => at = p
  OBVIOUS
<1> HIDE DEF todo, at
<1>4. QED
  BY <1>1, <1>2, <1>3 DEF Thread

\* What a new relay, the last one, with its callback at the end of the list,
\* leaves as it was.
LEMMA AddedKept ==
    ASSUME PoolInv, NEW kind \in {"tcp", "udp"}, NEW p \in Ports, NEW c \in Int,
           relay' = Append(relay, New(kind, p, c)),
           periodic' = Append(periodic, Len(relay) + 1)
    PROVE  /\ relay' \in Seq(Relay) /\ Len(relay') = Len(relay) + 1
           /\ Unique(periodic', Nat) /\ ToSet(periodic') = ToSet(periodic) \cup {Len(relay) + 1}
           /\ ToSet(periodic') \subseteq 1 .. Len(relay')
           /\ Len(periodic') = Len(periodic) + 1 /\ periodic'[Len(periodic) + 1] = Len(relay) + 1
           /\ \A i \in 1 .. Len(periodic) : periodic'[i] = periodic[i]
           /\ Called'
<1>0. /\ Len(relay) \in Nat /\ Len(periodic) \in Nat /\ periodic \in Seq(Nat)
      /\ Unique(periodic, Nat) /\ ToSet(periodic) \subseteq 1 .. Len(relay)
      /\ relay \in Seq(Relay)
  BY Lengths DEF PoolInv, PoolTypes
<1>1. Len(relay) + 1 \in Nat /\ Len(relay) + 1 \notin ToSet(periodic)
  BY <1>0
<1>2. /\ relay' \in Seq(Relay) /\ Len(relay') = Len(relay) + 1
      /\ Opened' = Opened \cup {Len(relay) + 1}
  BY <1>0, OpenEffect
<1>3. /\ Unique(periodic', Nat) /\ ToSet(periodic') = ToSet(periodic) \cup {Len(relay) + 1}
  BY <1>0, <1>1, AppendUnique
<1>4. /\ Len(periodic') = Len(periodic) + 1 /\ periodic'[Len(periodic) + 1] = Len(relay) + 1
      /\ \A i \in 1 .. Len(periodic) : periodic'[i] = periodic[i]
  BY <1>0, <1>1, AppendIs
<1>5. ToSet(periodic') \subseteq 1 .. Len(relay')
  BY <1>0, <1>2, <1>3
<1>6. Called'
  BY <1>2, <1>3 DEF PoolInv, Called
<1>7. QED
  BY <1>2, <1>3, <1>4, <1>5, <1>6

LEMMA NewTcpInv ==
    ASSUME PoolInv, front = "pool", db.call = "none", NEW p \in Ports, NewTcp(p),
           UNCHANGED <<front, round, udp_pool, rows>>
    PROVE  PoolInv'
<1> DEFINE n == Len(relay) + 1
<1>0. /\ Len(relay) \in Nat /\ Len(periodic) \in Nat /\ periodic \in Seq(Nat)
      /\ relay \in Seq(Relay) /\ db \in Thread /\ round \in Nat
      /\ tcp_pool \in [Ports -> Nat] /\ udp_pool \in [Ports -> Nat]
      /\ rows \in [Ports -> Configs \cup {Off, Gone}] /\ rows[p] \in Int
      /\ front' = front /\ round' = round /\ udp_pool' = udp_pool /\ rows' = rows
      /\ \A r \in 1 .. Len(relay) : relay[r] \in Relay
  <2>1. Configs \cup {Off, Gone} \subseteq Int
    BY PoolAssumption DEF Off, Gone
  <2>2. rows \in [Ports -> Configs \cup {Off, Gone}]
    BY DEF PoolInv, PoolTypes
  <2>3. rows[p] \in Int
    BY <2>1, <2>2
  <2>4. QED
    BY <2>2, <2>3, Lengths DEF PoolInv, PoolTypes
<1>1. crossed' = IF round = 0 THEN crossed ELSE crossed \cup {p}
  BY DEF NewTcp
<1>2. CASE ~Bindable("tcp", p)
  <2>1. Took(p, "none") /\ relay' = relay /\ periodic' = periodic /\ tcp_pool' = tcp_pool
    BY <1>2 DEF NewTcp
  <2>2. db' \in Thread /\ db'.call = "none"
    BY <1>0, <2>1, TookType
  <2>3. QED
    BY <1>0, <1>1, <2>1, <2>2, QuietInv
<1>3. CASE Bindable("tcp", p)
  <2>1. /\ relay' = Append(relay, New("tcp", p, rows[p])) /\ periodic' = Append(periodic, n)
        /\ tcp_pool' = [tcp_pool EXCEPT ![p] = Len(relay')] /\ Took(p, "new_udp")
    BY <1>3 DEF NewTcp, Open
  <2>2. /\ relay' \in Seq(Relay) /\ Len(relay') = n
        /\ \A r \in 1 .. Len(relay) : relay'[r].port = relay[r].port
        /\ relay'[n].port = p
        /\ Closed' = Closed /\ Opened' = Opened \cup {n} /\ Udp' = Udp
    BY <1>0, <2>1, OpenEffect
  <2>3. /\ Unique(periodic', Nat)
        /\ ToSet(periodic') \subseteq 1 .. Len(relay')
        /\ Len(periodic') = Len(periodic) + 1 /\ periodic'[Len(periodic) + 1] = n
        /\ \A i \in 1 .. Len(periodic) : periodic'[i] = periodic[i]
        /\ Called'
    BY <1>0, <2>1, AddedKept
  <2>4. db' \in Thread /\ db'.call = "new_udp" /\ db'.p = p
    BY <1>0, <2>1, TookType
  <2>5. /\ \A q \in Ports : tcp_pool'[q] = IF q = p THEN n ELSE tcp_pool[q]
        /\ tcp_pool' \in [Ports -> Nat]
    BY <1>0, <2>1, <2>2
  <2>6. /\ tcp_pool[p] = 0 /\ \A r \in Opened \ Udp : relay[r].port # p
        /\ udp_pool[p] = 0
    <3>1. tcp_pool[p] = 0 /\ \A r \in Opened \ Udp : relay[r].port # p
      BY <1>3, BindableFree
    <3>2. udp_pool[p] # 0 => udp_pool[p] = 1
      BY <1>0, <3>1 DEF PoolInv, Together, HalfWay
    <3>3. udp_pool[p] # 0 => udp_pool[p] - 1 \in 1 .. Len(relay)
      BY DEF PoolInv, Pooled, Paired
    <3>4. QED
      BY <3>1, <3>2, <3>3
  <2>7. n \notin Closed /\ n \notin Udp /\ n \in Nat /\ n > 0 /\ Udp \subseteq 1 .. Len(relay)
    BY <1>0 DEF Closed, Udp
  <2>8. PoolTypes'
    BY <1>0, <2>2, <2>3, <2>4, <2>5 DEF PoolInv, PoolTypes
  <2> HIDE DEF n
  <2>9. Pooled'
    <3>1. \A q \in Ports : tcp_pool'[q] # 0 =>
            /\ tcp_pool'[q] \in (1 .. Len(relay')) \ (Udp \cup Closed)
            /\ relay'[tcp_pool'[q]].port = q
      <4> TAKE q \in Ports
      <4>1. CASE q = p
        BY <2>2, <2>5, <2>7, <4>1
      <4>2. CASE q # p
        <5>1. tcp_pool[q] # 0 => tcp_pool[q] \in (1 .. Len(relay)) \ (Udp \cup Closed)
                                 /\ relay[tcp_pool[q]].port = q
          BY DEF PoolInv, Pooled
        <5>2. 1 .. Len(relay) \subseteq 1 .. Len(relay')
          BY <1>0, <2>2 DEF n
        <5>3. QED
          BY <2>2, <2>5, <4>2, <5>1, <5>2
      <4>3. QED
        BY <4>1, <4>2
    <3>2. \A q \in Ports : udp_pool[q] # 0 =>
            udp_pool[q] \in Udp \ Closed /\ relay'[udp_pool[q]].port = q
      BY <2>2, <2>7 DEF PoolInv, Pooled
    <3>3. ASSUME NEW q \in (1 .. Len(relay')) \ Closed
          PROVE  q \in Opened' /\ (tcp_pool'[relay'[q].port] = q \/ udp_pool[relay'[q].port] = q)
      <4>1. CASE q = n
        BY <2>2, <2>5, <4>1
      <4>2. CASE q # n
        <5>1. q \in (1 .. Len(relay)) \ Closed
          BY <1>0, <2>2, <4>2 DEF n
        <5>2. q \in Opened /\ (tcp_pool[relay[q].port] = q \/ udp_pool[relay[q].port] = q)
          BY <5>1 DEF PoolInv, Pooled
        <5>3. relay[q].port \in Ports /\ relay'[q].port = relay[q].port
          BY <1>0, <2>2, <5>1 DEF Relay
        <5>4. q # 0
          BY <1>0, <5>1
        <5>5. QED
          BY <2>2, <2>5, <2>6, <5>2, <5>3, <5>4
      <4>3. QED
        BY <4>1, <4>2
    <3>4. QED
      BY <1>0, <2>2, <3>1, <3>2, <3>3 DEF Pooled
  <2>10. Paired'
    <3> SUFFICES ASSUME NEW u \in Udp
                 PROVE  /\ u - 1 \in (1 .. Len(relay')) \ Udp
                        /\ relay'[u - 1].port = relay'[u].port
                        /\ Before(periodic', u - 1, u)
      BY <2>2 DEF Paired
    <3>1. /\ u - 1 \in (1 .. Len(relay)) \ Udp /\ relay[u - 1].port = relay[u].port
          /\ Before(periodic, u - 1, u) /\ u \in 1 .. Len(relay)
      BY <2>7 DEF PoolInv, Paired
    <3>2. n # u
      BY <2>7
    <3>3. Before(periodic', u - 1, u)
      BY <1>0, <2>1, <2>7, <3>1, <3>2, AppendBefore DEF n
    <3>4. 1 .. Len(relay) \subseteq 1 .. Len(relay')
      BY <1>0, <2>2 DEF n
    <3>5. QED
      BY <2>2, <3>1, <3>3, <3>4
  <2>11. Late'
    <3> SUFFICES ASSUME NEW u \in Udp, u \in Opened', u - 1 \notin Opened'
                 PROVE  \/ relay'[u].port \in crossed'
                        \/ round \in 1 .. Len(periodic') /\ periodic'[round] = u
      BY <1>0, <2>2 DEF Late
    <3>1. u \in Opened /\ u - 1 \notin Opened /\ relay'[u].port = relay[u].port
      BY <2>2, <2>7
    <3>2. \/ relay[u].port \in crossed
          \/ round \in 1 .. Len(periodic) /\ periodic[round] = u
      BY <3>1 DEF PoolInv, Late
    <3>3. QED
      BY <1>0, <1>1, <2>3, <3>1, <3>2
  <2>12. Together'
    BY <1>0, <2>4, <2>5, <2>6 DEF PoolInv, Together, HalfWay
  <2>13. Starting'
    <3>1. ASSUME NEW u \in Udp \cap Opened', relay'[u].port = p PROVE p \in crossed'
      <4>1. u \in Opened /\ relay[u].port = p
        BY <2>2, <2>7, <3>1
      <4>2. u - 1 \notin Udp /\ relay[u - 1].port = p
        BY <4>1 DEF PoolInv, Paired
      <4>3. u - 1 \notin Opened
        BY <2>6, <4>2
      <4>4. p \in crossed \/ round \in 1 .. Len(periodic)
        BY <4>1, <4>3 DEF PoolInv, Late
      <4>5. QED
        BY <1>0, <1>1, <4>4
    <3>2. Len(periodic') > 0 /\ periodic'[Len(periodic')] = n
      BY <1>0, <2>3
    <3>3. tcp_pool'[p] = n /\ n > 0
      BY <2>5, <2>7
    <3>4. QED
      BY <2>2, <2>4, <3>1, <3>2, <3>3 DEF Starting
  <2>14. HalfStarted'
    <3>1. \A q \in Ports : tcp_pool[q] # 0 /\ udp_pool[q] = 0 => q \in crossed
      BY DEF PoolInv, HalfStarted
    <3>2. QED
      BY <1>0, <1>1, <2>4, <2>5, <3>1 DEF HalfStarted
  <2>15. QED
    BY <2>3, <2>8, <2>9, <2>10, <2>11, <2>12, <2>13, <2>14 DEF PoolInv
<1>4. QED
  BY <1>2, <1>3

LEMMA NewUdpInv ==
    ASSUME PoolInv, NewUdp
    PROVE  PoolInv'
<1> DEFINE n == Len(relay) + 1
           p == db.p
<1>0. /\ Len(relay) \in Nat /\ Len(periodic) \in Nat /\ periodic \in Seq(Nat)
      /\ relay \in Seq(Relay) /\ db \in Thread /\ round \in Nat
      /\ tcp_pool \in [Ports -> Nat] /\ udp_pool \in [Ports -> Nat]
      /\ rows \in [Ports -> Configs \cup {Off, Gone}]
      /\ p \in Ports /\ db.call = "new_udp" /\ front = "pool"
      /\ \A r \in 1 .. Len(relay) : relay[r] \in Relay
  BY Lengths DEF PoolInv, PoolTypes, NewUdp
<1>1. /\ front' = front /\ round' = round /\ tcp_pool' = tcp_pool /\ rows' = rows
      /\ crossed' = IF <<"udp", p>> \in outside THEN crossed \cup {p} ELSE crossed
      /\ db' = [db EXCEPT !.call = "none", !.p = 0]
  BY DEF NewUdp, Done
<1>2. db' \in Thread /\ db'.call = "none"
  BY <1>0, <1>1 DEF Thread
<1>3. /\ tcp_pool[p] = Len(relay) /\ Len(relay) > 0
      /\ Len(periodic) > 0 /\ periodic[Len(periodic)] = Len(relay)
      /\ \A u \in Udp \cap Opened : relay[u].port = p => p \in crossed
  BY <1>0 DEF PoolInv, Starting
<1>4. /\ \A q \in Ports : q # p /\ tcp_pool[q] # 0 /\ udp_pool[q] = 0 => q \in crossed
      /\ \A q \in Ports : udp_pool[q] # 0 => tcp_pool[q] = udp_pool[q] - 1
  BY <1>0 DEF PoolInv, HalfStarted, Together, HalfWay
<1>5. crossed \subseteq crossed'
  BY <1>1
<1>6. CASE ~Bindable("udp", p)
  <2>1. relay' = relay /\ periodic' = periodic /\ udp_pool' = udp_pool
    BY <1>6 DEF NewUdp
  <2>2. p \in crossed'
    <3>1. CASE <<"udp", p>> \in outside
      BY <1>1, <3>1
    <3>2. ASSUME NEW r \in 1 .. Len(relay), relay[r].kind = "udp", relay[r].port = p, relay[r].open
          PROVE  p \in crossed'
      BY <1>3, <1>5, <3>2 DEF Udp, Opened
    <3>3. QED
      BY <1>0, <1>6, <3>1, <3>2, Lengths DEF PoolInv, Bindable, Relays
  <2>3. Opened' = Opened /\ Closed' = Closed /\ Udp' = Udp
    BY <2>1 DEF Opened, Closed, Udp
  <2>4. PoolTypes'
    BY <1>0, <1>1, <1>2, <2>1 DEF PoolInv, PoolTypes
  <2>5. Pooled' /\ Called'
    BY <1>1, <2>1, <2>3 DEF PoolInv, Pooled, Called
  <2>6. Paired'
    BY <2>1, <2>3 DEF PoolInv, Paired
  <2>7. Late'
    BY <1>1, <1>5, <2>1, <2>3 DEF PoolInv, Late
  <2>8. Together' /\ Starting'
    BY <1>1, <1>2, <1>4, <2>1 DEF Together, HalfWay, Starting
  <2>9. HalfStarted'
    BY <1>1, <1>4, <1>5, <2>1, <2>2 DEF HalfStarted
  <2>10. QED
    BY <2>4, <2>5, <2>6, <2>7, <2>8, <2>9 DEF PoolInv
<1>7. CASE Bindable("udp", p)
  <2>1. /\ relay' = Append(relay, New("udp", p, rows[p])) /\ periodic' = Append(periodic, n)
        /\ udp_pool' = [udp_pool EXCEPT ![p] = Len(relay')]
    BY <1>7 DEF NewUdp, Open
  <2>2. rows[p] \in Int
    <3>1. Configs \cup {Off, Gone} \subseteq Int
      BY PoolAssumption DEF Off, Gone
    <3>2. QED
      BY <1>0, <3>1
  <2>3. /\ relay' \in Seq(Relay) /\ Len(relay') = n
        /\ \A r \in 1 .. Len(relay) : relay'[r].port = relay[r].port
        /\ relay'[n].port = p
        /\ Closed' = Closed /\ Opened' = Opened \cup {n} /\ Udp' = Udp \cup {n}
    BY <1>0, <2>1, <2>2, OpenEffect
  <2>4. /\ Unique(periodic', Nat)
        /\ ToSet(periodic') \subseteq 1 .. Len(relay')
        /\ Len(periodic') = Len(periodic) + 1
        /\ \A i \in 1 .. Len(periodic) : periodic'[i] = periodic[i]
        /\ Called'
    BY <1>0, <2>1, <2>2, AddedKept
  <2>5. /\ \A q \in Ports : udp_pool'[q] = IF q = p THEN n ELSE udp_pool[q]
        /\ udp_pool' \in [Ports -> Nat]
    BY <1>0, <2>1, <2>3
  <2>6. udp_pool[p] = 0
    BY <1>0, <1>7, BindableFree
  <2>7. /\ n \notin Closed /\ n \notin Udp /\ n \in Nat /\ n > 0 /\ Udp \subseteq 1 .. Len(relay)
        /\ n - 1 = Len(relay) /\ n \notin 1 .. Len(relay)
        /\ 1 .. Len(relay) \subseteq 1 .. n /\ n \in 1 .. n
    BY <1>0 DEF Closed, Udp
  <2>8. /\ Len(relay) \in (1 .. Len(relay)) \ (Udp \cup Closed) /\ relay[Len(relay)].port = p
        /\ Len(relay) \in Opened
    BY <1>0, <1>3 DEF PoolInv, Pooled
  <2>9. PoolTypes'
    BY <1>0, <1>1, <1>2, <2>3, <2>4, <2>5 DEF PoolInv, PoolTypes
  <2> HIDE DEF n, p
  <2>10. Pooled'
    <3>1. \A q \in Ports : tcp_pool[q] # 0 =>
            /\ tcp_pool[q] \in (1 .. Len(relay')) \ (Udp' \cup Closed)
            /\ relay'[tcp_pool[q]].port = q
      BY <2>3, <2>7 DEF PoolInv, Pooled
    <3>2. \A q \in Ports : udp_pool'[q] # 0 =>
            udp_pool'[q] \in Udp' \ Closed /\ relay'[udp_pool'[q]].port = q
      BY <2>3, <2>5, <2>7 DEF PoolInv, Pooled
    <3>3. ASSUME NEW q \in (1 .. Len(relay')) \ Closed
          PROVE  q \in Opened' /\ (tcp_pool[relay'[q].port] = q \/ udp_pool'[relay'[q].port] = q)
      <4>1. CASE q = n
        BY <1>0, <2>3, <2>5, <4>1
      <4>2. CASE q # n
        <5>1. q \in (1 .. Len(relay)) \ Closed
          BY <1>0, <2>3, <4>2 DEF n
        <5>2. q \in Opened /\ (tcp_pool[relay[q].port] = q \/ udp_pool[relay[q].port] = q)
          BY <5>1 DEF PoolInv, Pooled
        <5>3. relay[q].port \in Ports /\ relay'[q].port = relay[q].port
          BY <1>0, <2>3, <5>1 DEF Relay
        <5>4. q # 0
          BY <1>0, <5>1
        <5>5. QED
          BY <2>3, <2>5, <2>6, <5>2, <5>3, <5>4
      <4>3. QED
        BY <4>1, <4>2
    <3>4. QED
      BY <1>1, <2>3, <3>1, <3>2, <3>3 DEF Pooled
  <2>11. Paired'
    <3> SUFFICES ASSUME NEW u \in Udp \cup {n}
                 PROVE  /\ u - 1 \in (1 .. Len(relay')) \ (Udp \cup {n})
                        /\ relay'[u - 1].port = relay'[u].port
                        /\ Before(periodic', u - 1, u)
      BY <2>3 DEF Paired
    <3>1. CASE u = n
      <4>1. Before(periodic, u - 1, u)
        BY <1>0, <2>7, <3>1, Lengths DEF Before, PoolInv
      <4>2. Before(periodic', u - 1, u)
        BY <1>0, <1>3, <2>1, <2>7, <3>1, <4>1, AppendBefore DEF n
      <4>3. QED
        BY <2>3, <2>7, <2>8, <3>1, <4>2
    <3>2. CASE u # n
      <4>1. /\ u - 1 \in (1 .. Len(relay)) \ Udp /\ relay[u - 1].port = relay[u].port
            /\ Before(periodic, u - 1, u) /\ u \in 1 .. Len(relay)
        BY <2>7, <3>2 DEF PoolInv, Paired
      <4>2. Before(periodic', u - 1, u)
        BY <1>0, <2>1, <2>7, <3>2, <4>1, AppendBefore DEF n
      <4>3. QED
        BY <2>3, <2>7, <4>1, <4>2
    <3>3. QED
      BY <3>1, <3>2
  <2>12. Late'
    <3> SUFFICES ASSUME NEW u \in Udp \cup {n}, u \in Opened', u - 1 \notin Opened'
                 PROVE  \/ relay'[u].port \in crossed'
                        \/ round \in 1 .. Len(periodic') /\ periodic'[round] = u
      BY <1>1, <2>3 DEF Late
    <3>1. u # n
      BY <2>3, <2>7, <2>8
    <3>2. u \in Udp /\ u \in Opened /\ u - 1 \notin Opened /\ relay'[u].port = relay[u].port
      BY <2>3, <2>7, <3>1
    <3>3. \/ relay[u].port \in crossed
          \/ round \in 1 .. Len(periodic) /\ periodic[round] = u
      BY <3>2 DEF PoolInv, Late
    <3>4. QED
      BY <1>0, <1>5, <2>4, <3>2, <3>3
  <2>13. Together'
    BY <1>1, <1>2, <1>3, <1>4, <2>5, <2>7 DEF Together, HalfWay, p
  <2>14. Starting'
    BY <1>2 DEF Starting
  <2>15. HalfStarted'
    BY <1>1, <1>4, <1>5, <2>5, <2>7 DEF HalfStarted
  <2>16. QED
    BY <2>4, <2>9, <2>10, <2>11, <2>12, <2>13, <2>14, <2>15 DEF PoolInv
<1>8. QED
  BY <1>6, <1>7

-----------------------------------------------------------------------------
(* The manager.                                                            *)

\* Between rounds, with nothing that cuts in, a UDP socket is open only together
\* with its TCP socket, and the pools hold both relays of a port or none.
LEMMA Managed ==
    ASSUME PoolInv, Handling
    PROVE  /\ \A u \in Udp \cap Opened : u - 1 \in Opened
           /\ db.call = "none" /\ crossed = {} /\ round = 0 /\ front = "manager"
           /\ \A p \in Ports : udp_pool[p] # 0 => tcp_pool[p] = udp_pool[p] - 1
           /\ \A p \in Ports : tcp_pool[p] # 0 => udp_pool[p] # 0
<1>1. db.call = "none" /\ crossed = {} /\ round = 0 /\ front = "manager"
  BY DEF Handling, PoolInv, PoolTypes, Thread
<1>2. \A u \in Udp \cap Opened : u - 1 \in Opened
  BY <1>1, Lengths DEF PoolInv, Late
<1>3. QED
  BY <1>1, <1>2 DEF PoolInv, Together, HalfWay, HalfStarted

LEMMA AddPortInv ==
    ASSUME PoolInv, NEW p \in Ports, NEW c \in Configs, add_port(p, c)
    PROVE  PoolInv'
<1> DEFINE n == Len(relay) + 1
           m == Len(relay) + 2
<1>0. /\ Len(relay) \in Nat /\ Len(periodic) \in Nat /\ periodic \in Seq(Nat)
      /\ relay \in Seq(Relay) /\ db \in Thread /\ c \in Int
      /\ Unique(periodic, Nat) /\ ToSet(periodic) \subseteq 1 .. Len(relay)
      /\ tcp_pool \in [Ports -> Nat] /\ udp_pool \in [Ports -> Nat]
      /\ \A r \in 1 .. Len(relay) : relay[r] \in Relay
  BY Lengths, PoolAssumption DEF PoolInv, PoolTypes
<1>1. /\ front' = front /\ round' = round /\ rows' = rows /\ db' = db /\ crossed' = crossed
      /\ tcp_pool' = [tcp_pool EXCEPT ![p] = n] /\ udp_pool' = [udp_pool EXCEPT ![p] = m]
      /\ relay' = relay \o <<New("tcp", p, c), New("udp", p, c)>>
      /\ periodic' = periodic \o <<n, m>> /\ Handling
  BY DEF add_port, dbVars
<1>2. /\ tcp_pool[p] = 0 /\ udp_pool[p] = 0
  BY BindableFree DEF add_port
<1>3. /\ relay' \in Seq(Relay) /\ Len(relay') = m
      /\ \A r \in 1 .. Len(relay) : relay'[r].port = relay[r].port
      /\ relay'[n].port = p /\ relay'[m].port = p
      /\ Closed' = Closed /\ Opened' = Opened \cup {n, m} /\ Udp' = Udp \cup {m}
  <2> DEFINE a == New("tcp", p, c)
             b == New("udp", p, c)
             x == Append(relay, a)
  <2>1. /\ a \in Relay /\ a.kind = "tcp" /\ a.port = p /\ a.closed = FALSE /\ a.open = TRUE
        /\ b \in Relay /\ b.kind = "udp" /\ b.port = p /\ b.closed = FALSE /\ b.open = TRUE
    BY <1>0 DEF New, Relay
  <2> HIDE DEF a, b
  <2>2. relay' = Append(x, b)
    BY <1>0, <1>1, <2>1, AppendTwo DEF a, b
  <2>3. /\ x \in Seq(Relay) /\ Len(x) = n /\ x[n] = a
        /\ \A r \in 1 .. Len(relay) : x[r] = relay[r]
    BY <1>0, <2>1, AppendIs
  <2> HIDE DEF x
  <2>4. /\ relay' \in Seq(Relay) /\ Len(relay') = n + 1 /\ relay'[n + 1] = b
        /\ \A r \in 1 .. n : relay'[r] = x[r]
    BY <1>0, <2>1, <2>2, <2>3, AppendIs
  <2>5. /\ n + 1 = m /\ n \in 1 .. n /\ \A r \in 1 .. Len(relay) : r \in 1 .. n
        /\ 1 .. m = (1 .. Len(relay)) \cup {n, m}
    BY <1>0, SMTT(30)
  <2>6. /\ relay' \in Seq(Relay) /\ Len(relay') = m /\ relay'[m] = b /\ relay'[n] = a
        /\ \A r \in 1 .. Len(relay) : relay'[r] = relay[r]
    BY <2>3, <2>4, <2>5
  <2> HIDE DEF n, m
  <2>7. QED
    BY <2>1, <2>5, <2>6 DEF Closed, Opened, Udp
<1>4. /\ n \notin Udp /\ m \notin Udp /\ n \notin Closed /\ m \notin Closed
      /\ n \in Nat /\ m \in Nat /\ n > 0 /\ m > 0 /\ n # m /\ m - 1 = n
      /\ n \notin ToSet(periodic) /\ m \notin ToSet(periodic)
      /\ n \in 1 .. m /\ m \in 1 .. m /\ 1 .. Len(relay) \subseteq 1 .. m
      /\ n \notin 1 .. Len(relay) /\ m \notin 1 .. Len(relay)
      /\ \A r \in 1 .. m : r # n /\ r # m => r \in 1 .. Len(relay)
      /\ Udp \subseteq 1 .. Len(relay)
  <2>1. /\ n \in Nat /\ m \in Nat /\ n > 0 /\ m > 0 /\ n # m /\ m - 1 = n
        /\ n \notin 1 .. Len(relay) /\ m \notin 1 .. Len(relay)
        /\ n \in 1 .. m /\ m \in 1 .. m
    BY <1>0
  <2>2. /\ 1 .. Len(relay) \subseteq 1 .. m
        /\ \A r \in 1 .. m : r # n /\ r # m => r \in 1 .. Len(relay)
    BY <1>0, SMTT(30)
  <2>3. Udp \subseteq 1 .. Len(relay) /\ Closed \subseteq 1 .. Len(relay)
    BY DEF Udp, Closed
  <2> HIDE DEF n, m
  <2>4. QED
    BY <1>0, <2>1, <2>2, <2>3
<1>5. /\ \A q \in Ports : tcp_pool'[q] = IF q = p THEN n ELSE tcp_pool[q]
      /\ \A q \in Ports : udp_pool'[q] = IF q = p THEN m ELSE udp_pool[q]
      /\ tcp_pool' \in [Ports -> Nat] /\ udp_pool' \in [Ports -> Nat]
  BY <1>0, <1>1, <1>4
<1> HIDE DEF n, m
<1> DEFINE y == Append(periodic, n)
<1>6. /\ Unique(y, Nat) /\ ToSet(y) = ToSet(periodic) \cup {n} /\ y \in Seq(Nat)
      /\ Len(y) > 0 /\ y[Len(y)] = n
  <2>1. Unique(y, Nat) /\ ToSet(y) = ToSet(periodic) \cup {n}
    BY <1>0, <1>4, AppendUnique
  <2>2. y \in Seq(Nat) /\ Len(y) = Len(periodic) + 1 /\ y[Len(periodic) + 1] = n
    BY <1>0, <1>4, AppendIs
  <2> HIDE DEF y
  <2>3. QED
    BY <1>0, <2>1, <2>2
<1>7. periodic' = Append(y, m)
  BY <1>0, <1>1, <1>4, AppendTwo
<1>8. Unique(periodic', Nat) /\ ToSet(periodic') = ToSet(periodic) \cup {n, m}
  <2> HIDE DEF y
  <2>1. Unique(periodic', Nat) /\ ToSet(periodic') = ToSet(y) \cup {m}
    BY <1>4, <1>6, <1>7, AppendUnique
  <2>2. QED
    BY <1>6, <2>1
<1>9. ASSUME NEW u \in Nat, u = m \/ (Before(periodic, u - 1, u) /\ u \in Udp)
      PROVE  Before(periodic', u - 1, u)
  <2>1. Before(periodic, u - 1, u)
    BY <1>0, <1>4, <1>9, SMTT(30) DEF Before, ToSet
  <2>2. Before(y, u - 1, u)
    BY <1>0, <1>4, <1>9, <2>1, AppendBefore
  <2> HIDE DEF y
  <2>3. QED
    BY <1>4, <1>6, <1>7, <1>9, <2>2, AppendBefore
<1>10. PoolTypes'
  <2>1. ToSet(periodic') \subseteq 1 .. Len(relay')
    BY <1>0, <1>3, <1>4, <1>8
  <2>2. QED
    BY <1>1, <1>3, <1>5, <1>8, <2>1 DEF PoolInv, PoolTypes
<1>11. Pooled'
  <2>1. \A q \in Ports : tcp_pool'[q] # 0 =>
          /\ tcp_pool'[q] \in (1 .. Len(relay')) \ (Udp' \cup Closed)
          /\ relay'[tcp_pool'[q]].port = q
    BY <1>3, <1>4, <1>5 DEF PoolInv, Pooled
  <2>2. \A q \in Ports : udp_pool'[q] # 0 =>
          udp_pool'[q] \in Udp' \ Closed /\ relay'[udp_pool'[q]].port = q
    BY <1>3, <1>4, <1>5 DEF PoolInv, Pooled
  <2>3. ASSUME NEW q \in (1 .. Len(relay')) \ Closed
        PROVE  q \in Opened' /\ (tcp_pool'[relay'[q].port] = q \/ udp_pool'[relay'[q].port] = q)
    <3>1. CASE q \in {n, m}
      BY <1>3, <1>5, <3>1
    <3>2. CASE q \notin {n, m}
      <4>1. q \in (1 .. Len(relay)) \ Closed
        BY <1>3, <1>4, <3>2
      <4>2. q \in Opened /\ (tcp_pool[relay[q].port] = q \/ udp_pool[relay[q].port] = q)
        BY <4>1 DEF PoolInv, Pooled
      <4>3. relay[q].port \in Ports /\ relay'[q].port = relay[q].port
        BY <1>0, <1>3, <4>1 DEF Relay
      <4>4. q # 0
        BY <1>0, <4>1
      <4>5. QED
        BY <1>2, <1>3, <1>5, <4>2, <4>3, <4>4
    <3>3. QED
      BY <3>1, <3>2
  <2>4. QED
    BY <1>3, <2>1, <2>2, <2>3 DEF Pooled
<1>12. Called'
  BY <1>3, <1>8 DEF PoolInv, Called
<1>13. Paired'
  <2> SUFFICES ASSUME NEW u \in Udp \cup {m}
               PROVE  /\ u - 1 \in (1 .. Len(relay')) \ (Udp \cup {m})
                      /\ relay'[u - 1].port = relay'[u].port
                      /\ Before(periodic', u - 1, u)
    BY <1>3 DEF Paired
  <2>1. CASE u = m
    <3>1. Before(periodic', u - 1, u)
      BY <1>4, <1>9, <2>1
    <3>2. u - 1 = n
      BY <1>4, <2>1
    <3>3. QED
      BY <1>3, <1>4, <2>1, <3>1, <3>2
  <2>2. CASE u # m
    <3>1. /\ u - 1 \in (1 .. Len(relay)) \ Udp /\ relay[u - 1].port = relay[u].port
          /\ Before(periodic, u - 1, u) /\ u \in Udp
      BY <2>2 DEF PoolInv, Paired
    <3>2. Before(periodic', u - 1, u)
      <4>1. u \in Nat
        BY <1>0, <1>4, <3>1
      <4>2. QED
        BY <1>9, <3>1, <4>1
    <3>3. QED
      BY <1>3, <1>4, <3>1, <3>2
  <2>3. QED
    BY <2>1, <2>2
<1>14. Late'
  BY <1>1, <1>3, <1>4, Managed DEF Late
<1>15. Together' /\ Starting' /\ HalfStarted'
  <2>1. /\ db'.call = "none"
        /\ \A q \in Ports : udp_pool'[q] # 0 => tcp_pool'[q] = udp_pool'[q] - 1
        /\ \A q \in Ports : tcp_pool'[q] # 0 => udp_pool'[q] # 0
    BY <1>1, <1>4, <1>5, Managed
  <2>2. QED
    BY <2>1 DEF Together, HalfWay, Starting, HalfStarted
<1>16. QED
  BY <1>10, <1>11, <1>12, <1>13, <1>14, <1>15 DEF PoolInv

LEMMA RemovePortInv ==
    ASSUME PoolInv, NEW p \in Ports, remove_port(p)
    PROVE  PoolInv'
<1> DEFINE t == tcp_pool[p]
           u == udp_pool[p]
<1>0. /\ Len(relay) \in Nat /\ Len(periodic) \in Nat /\ periodic \in Seq(Nat)
      /\ relay \in Seq(Relay) /\ DOMAIN relay = 1 .. Len(relay)
      /\ Unique(periodic, Nat) /\ ToSet(periodic) \subseteq 1 .. Len(relay)
      /\ tcp_pool \in [Ports -> Nat] /\ udp_pool \in [Ports -> Nat]
      /\ \A r \in 1 .. Len(relay) : relay[r] \in Relay
  BY Lengths DEF PoolInv, PoolTypes
<1>1. /\ front' = front /\ round' = round /\ rows' = rows /\ db' = db /\ crossed' = crossed
      /\ tcp_pool' = [tcp_pool EXCEPT ![p] = 0] /\ udp_pool' = [udp_pool EXCEPT ![p] = 0]
      /\ relay' = [r \in 1 .. Len(relay) |->
                      IF r \in {t, u} THEN [relay[r] EXCEPT !.closed = TRUE, !.open = FALSE]
                                      ELSE relay[r]]
      /\ periodic' = RemoveFirst(RemoveFirst(periodic, t), u) /\ Handling
  BY <1>0 DEF remove_port, dbVars, Relays
<1>2. /\ t \in (1 .. Len(relay)) \ (Udp \cup Closed) /\ relay[t].port = p
      /\ u \in Udp \ Closed /\ relay[u].port = p /\ t = u - 1 /\ u \in 1 .. Len(relay)
  BY <1>1, Managed DEF PoolInv, Pooled, remove_port, Udp
<1>3. /\ \A q \in Ports : tcp_pool'[q] = IF q = p THEN 0 ELSE tcp_pool[q]
      /\ \A q \in Ports : udp_pool'[q] = IF q = p THEN 0 ELSE udp_pool[q]
      /\ tcp_pool' \in [Ports -> Nat] /\ udp_pool' \in [Ports -> Nat]
  BY <1>0, <1>1
<1> HIDE DEF t, u
<1>4. Kept /\ Closed' = Closed \cup {t, u} /\ Opened' = Opened \ {t, u}
  <2>1. ASSUME NEW r \in 1 .. Len(relay)
        PROVE  /\ relay'[r] \in Relay /\ relay'[r].kind = relay[r].kind
               /\ relay'[r].port = relay[r].port
               /\ r \notin {t, u} => relay'[r] = relay[r]
               /\ r \in {t, u} => relay'[r].closed = TRUE /\ relay'[r].open = FALSE
    <3> DEFINE w == relay[r]
    <3>1. w \in Relay
      BY <1>0
    <3>2. relay'[r] = IF r \in {t, u} THEN [w EXCEPT !.closed = TRUE, !.open = FALSE] ELSE w
      BY <1>1
    <3> HIDE DEF w
    <3>3. QED
      BY <3>1, <3>2 DEF Relay, w
  <2>2. relay' \in Seq(Relay) /\ Len(relay') = Len(relay)
    <3>1. relay' \in [1 .. Len(relay) -> Relay]
      BY <1>1, <2>1
    <3>2. QED
      BY <1>0, <3>1, FunctionSeq
  <2>3. Udp' = Udp
    BY <2>1, <2>2 DEF Udp
  <2>4. t \in 1 .. Len(relay) /\ u \in 1 .. Len(relay)
    BY <1>2
  <2>5. Closed' = Closed \cup {t, u}
    BY <2>1, <2>2, <2>4 DEF Closed
  <2>6. Opened' = Opened \ {t, u}
    BY <2>1, <2>2, <2>4 DEF Opened
  <2>7. QED
    BY <2>1, <2>2, <2>3, <2>5, <2>6 DEF Kept
<1> DEFINE y == RemoveFirst(periodic, t)
<1>5. Unique(y, Nat) /\ ToSet(y) = ToSet(periodic) \ {t}
  BY <1>0, RemoveFirstUnique
<1>6. Unique(periodic', Nat) /\ ToSet(periodic') = ToSet(periodic) \ {t, u}
  <2>1. periodic' = RemoveFirst(y, u)
    BY <1>1
  <2> HIDE DEF y
  <2>2. Unique(periodic', Nat) /\ ToSet(periodic') = ToSet(y) \ {u}
    BY <1>5, <2>1, RemoveFirstUnique
  <2>3. QED
    BY <1>5, <2>2
<1>7. ASSUME NEW x \in Udp PROVE Before(periodic', x - 1, x)
  <2>1. x - 1 \in (1 .. Len(relay)) \ Udp /\ Before(periodic, x - 1, x) /\ x \in Nat
    BY <1>0 DEF PoolInv, Paired, Udp
  <2>2. CASE x = u
    <3>1. DOMAIN periodic' = 1 .. Len(periodic') /\ u \notin ToSet(periodic')
      BY <1>6 DEF Unique
    <3>2. QED
      BY <2>2, <3>1 DEF Before, ToSet
  <2>3. CASE x # u
    <3>1. t # x - 1 /\ u # x - 1
      BY <1>0, <1>2, <2>1, <2>3
    <3>2. Before(y, x - 1, x)
      BY <1>0, <2>1, <3>1, RemoveFirstBefore
    <3>3. periodic' = RemoveFirst(y, u)
      BY <1>1
    <3> HIDE DEF y
    <3>4. QED
      BY <1>5, <3>1, <3>2, <3>3, RemoveFirstBefore
  <2>4. QED
    BY <2>2, <2>3
<1> HIDE DEF y
<1>8. PoolTypes'
  <2>1. ToSet(periodic') \subseteq 1 .. Len(relay') /\ relay' \in Seq(Relay)
    BY <1>0, <1>4, <1>6 DEF Kept
  <2>2. QED
    BY <1>1, <1>3, <1>6, <2>1 DEF PoolInv, PoolTypes
<1>9. Pooled'
  <2>1. \A q \in Ports : tcp_pool'[q] # 0 =>
          /\ tcp_pool'[q] \in (1 .. Len(relay)) \ (Udp \cup Closed')
          /\ relay'[tcp_pool'[q]].port = q
    BY <1>2, <1>3, <1>4 DEF PoolInv, Pooled, Kept
  <2>2. \A q \in Ports : udp_pool'[q] # 0 =>
          udp_pool'[q] \in Udp \ Closed' /\ relay'[udp_pool'[q]].port = q
    BY <1>2, <1>3, <1>4 DEF PoolInv, Pooled, Kept, Udp
  <2>3. ASSUME NEW q \in (1 .. Len(relay)) \ Closed'
        PROVE  q \in Opened' /\ (tcp_pool'[relay'[q].port] = q \/ udp_pool'[relay'[q].port] = q)
    <3>1. q \in Opened /\ (tcp_pool[relay[q].port] = q \/ udp_pool[relay[q].port] = q)
      BY <1>4 DEF PoolInv, Pooled
    <3>2. relay[q].port \in Ports /\ relay'[q].port = relay[q].port /\ q # t /\ q # u
      BY <1>0, <1>4 DEF Kept, Relay
    <3>3. QED
      BY <1>3, <1>4, <3>1, <3>2 DEF t, u
  <2>4. QED
    BY <1>4, <2>1, <2>2, <2>3 DEF Pooled, Kept
<1>10. Called'
  BY <1>4, <1>6 DEF PoolInv, Called
<1>11. Paired'
  <2>1. ASSUME NEW x \in Udp
        PROVE  /\ x - 1 \in (1 .. Len(relay)) \ Udp
               /\ relay'[x - 1].port = relay'[x].port
    BY <1>4 DEF PoolInv, Paired, Kept, Udp
  <2>2. QED
    BY <1>4, <1>7, <2>1 DEF Paired, Kept
<1>12. Late'
  <2>1. ASSUME NEW x \in Udp, x \in Opened' PROVE x - 1 \in Opened'
    <3>1. x \in Opened /\ x # u /\ x - 1 \in Opened
      BY <1>1, <1>4, <2>1, Managed
    <3>2. x - 1 # t /\ x - 1 # u
      <4>0. x - 1 \notin Udp
        BY DEF PoolInv, Paired
      <4>1. x \in Nat /\ u \in Nat
        BY <1>0, <1>2 DEF Udp
      <4>2. QED
        BY <1>2, <3>1, <4>0, <4>1
    <3>3. QED
      BY <1>4, <3>1, <3>2
  <2>2. QED
    BY <1>4, <2>1 DEF Late, Kept
<1>13. Together' /\ Starting' /\ HalfStarted'
  <2>1. /\ db'.call = "none"
        /\ \A q \in Ports : udp_pool'[q] # 0 => tcp_pool'[q] = udp_pool'[q] - 1
        /\ \A q \in Ports : tcp_pool'[q] # 0 => udp_pool'[q] # 0
    BY <1>1, <1>3, Managed
  <2>2. QED
    BY <2>1 DEF Together, HalfWay, Starting, HalfStarted
<1>14. QED
  BY <1>8, <1>9, <1>10, <1>11, <1>12, <1>13 DEF PoolInv

-----------------------------------------------------------------------------
(* The theorems.                                                           *)

LEMMA TakeUpInv ==
    ASSUME PoolInv, TakeUp
    PROVE  PoolInv'
<1>1. PICK p \in db.todo : Row(p) \/ OtherPart(p)
  BY DEF TakeUp
<1>2. /\ p \in Ports /\ db \in Thread /\ round \in Nat
      /\ rows \in [Ports -> Configs \cup {Off, Gone}]
      /\ front = "manager" => crossed = {}
  BY DEF PoolInv, PoolTypes, Thread
<1>3. /\ front = "pool" /\ db.call = "none"
      /\ front' = front /\ round' = round /\ udp_pool' = udp_pool /\ rows' = rows
  BY DEF TakeUp
<1>4. CASE server_is_run(p) /\ DelTcp(p)
  BY <1>2, <1>3, <1>4, DelTcpInv
<1>5. CASE NewTcp(p)
  BY <1>2, <1>3, <1>5, NewTcpInv
<1>6. CASE Nothing(p)
  <2>1. db' \in Thread /\ db'.call = "none"
    BY <1>2, <1>6, TookType DEF Nothing
  <2>2. relay' = relay /\ periodic' = periodic /\ tcp_pool' = tcp_pool /\ crossed' = crossed
    BY <1>6 DEF Nothing
  <2>3. QED
    BY <1>2, <1>3, <2>1, <2>2, QuietInv
<1>7. QED
  BY <1>1, <1>4, <1>5, <1>6 DEF Row, OtherPart

LEMMA NextPool == PoolInv /\ [Next]_vars => PoolInv'
<1> SUFFICES ASSUME PoolInv, [Next]_vars PROVE PoolInv'
  OBVIOUS
<1>1. CASE RoundBegins \/ RoundEnds \/ Pull \/ NextPart \/ Stop \/ StopLoop
           \/ OutsideLeaves \/ UNCHANGED vars
  BY <1>1, BetweenInv
<1>2. CASE Callback
  BY <1>2, CallbackInv
<1>3. CASE TakeUp \/ DelUdp \/ NewUdp
  BY <1>3, TakeUpInv, DelUdpInv, NewUdpInv
<1>4. CASE Managing
  BY <1>4, AddPortInv, RemovePortInv DEF Managing
<1>5. QED
  BY <1>1, <1>2, <1>3, <1>4 DEF Next, Loop, Accounting

\* The invariant of the pools, the relays and the callbacks.
THEOREM PoolInvariant == Spec => []PoolInv
BY InitPool, NextPool, PTL DEF Spec

\* No sequence of starts and stops, of whichever thread, leaves a listening
\* socket that is neither in a pool nor on its way to be released.
THEOREM PoolListenersAccountedFor == Spec => []ListenersAccountedFor
<1>1. PoolInv => ListenersAccountedFor
  <2> SUFFICES ASSUME PoolInv, NEW r \in 1 .. Len(relay), r \in Opened
               PROVE  /\ \E i \in DOMAIN periodic : periodic[i] = r
                      /\ r \notin Closed <=>
                            (tcp_pool[relay[r].port] = r \/ udp_pool[relay[r].port] = r)
    BY Lengths DEF ListenersAccountedFor, Relays, PoolInv, Opened, Closed
  <2>1. \E i \in DOMAIN periodic : periodic[i] = r
    BY DEF PoolInv, Called, ToSet
  <2>2. relay[r].port \in Ports /\ r # 0
    BY Lengths DEF PoolInv, Relay
  <2>3. QED
    BY <2>1, <2>2 DEF PoolInv, Pooled
<1>2. QED
  BY <1>1, PoolInvariant, PTL

\* new_server starts both relays of a port or none, unless the loop or another
\* process cut in: skipped callbacks never leave a UDP socket behind alone.
THEOREM PoolHalfStartedOnlyIfCrossed == Spec => []HalfStartedOnlyIfCrossed
<1>1. PoolInv => HalfStartedOnlyIfCrossed
  BY DEF PoolInv, HalfStarted, HalfStartedOnlyIfCrossed
<1>2. QED
  BY <1>1, PoolInvariant, PTL
=============================================================================
