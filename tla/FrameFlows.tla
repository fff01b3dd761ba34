------------------------------ MODULE FrameFlows ------------------------------
(***************************************************************************)
(* Streams of whole frames of the auth protocols: cells that lead from one *)
(* place, where an end has read, to another, where its peer has written.   *)
(*                                                                         *)
(* What the loop of each protocol makes of a stream that begins with what  *)
(* is in recv_buf, and what a write adds to the end of one, whatever the   *)
(* padding, the pieces of the data and the way TCP cuts the stream.        *)
(***************************************************************************)
EXTENDS AuthFrames, SequenceLemmas

Modes == {"default", "drawn", "path"}
Parts == {"len", "body", "mac", "h1", "h2", "h3", "data"}

FrameSet ==
    {f \in [d : Seq(Nat), id : Nat, prev : Nat, mss : Modes,
            cmd : BOOLEAN, exact : BOOLEAN, size : {2, 3}] : f.size = 2 => f.d = <<>>}

CellSet == [t : Parts, f : FrameSet, ok : BOOLEAN]

EndSet ==
    [has_header : BOOLEAN, raw_trans : BOOLEAN, dead : BOOLEAN,
     recv_buf : Seq(CellSet), pack_id : Nat, recv_id : Nat,
     sent_hash : Nat, recv_hash : Nat, decrypt_packet_num : Nat,
     extra_wait : Nat, send_tcp_mss : Modes, recv_tcp_mss : Modes,
     new_send_tcp_mss : Modes, send_back_cmd : BOOLEAN]

\* The cells of a frame, as they are sent.
Whole(f) == Cut(f, FrameParts(f))

(***************************************************************************)
(* A place in a stream, between two frames: the number and the hash of the *)
(* next frame, the data handed up before it, and whether a frame before it *)
(* ordered the use of a tcp_mss.                                           *)
(***************************************************************************)
PlaceSet == [id : Nat, hash : Nat, got : Seq(Nat), cmd : BOOLEAN]

Numbered(pr) == pr # "auth_sha1_v4"
Hashed(pr) == pr \in {"auth_chain", "auth_akarin"}

\* The frame that starts with the server's tcp_mss.
Announces(pr, x, q) == Hashed(pr) /\ x = "client" /\ q.hash = 0

\* The frame a sender of protocol pr puts at place q of the stream to end x.
Fits(pr, x, q, f) ==
    /\ f \in FrameSet
    /\ ~Hashed(pr) => f.size = 3
    /\ Numbered(pr) => f.id = q.id
    /\ Hashed(pr) => f.prev = q.hash
    /\ Hashed(pr) /\ x = "client" /\ (q.hash = 0 \/ q.id = 1) => f.d # <<>>
    /\ pr = "auth_akarin" /\ x = "server" => f.mss = IF f.cmd THEN "path" ELSE "drawn"
    /\ pr = "auth_akarin" /\ x = "client" /\ q.hash # 0 => f.mss = "path"
    /\ q.cmd => f.cmd

After(pr, x, q, f) ==
    [id |-> IF Numbered(pr) THEN NextId(q.id) ELSE q.id,
     hash |-> IF Hashed(pr) THEN q.hash + 1 ELSE q.hash,
     got |-> q.got \o (IF Announces(pr, x, q) THEN Tail(f.d) ELSE f.d),
     cmd |-> f.cmd]

Shows(s, at, f) == \A j \in 1 .. f.size : s[at + j] = Whole(f)[j]

\* The cells s are m whole frames: the i-th ends at cell p[i] and place q[i].
Run(pr, x, s, m, p, q) ==
    /\ p \in [0 .. m -> Nat] /\ q \in [0 .. m -> PlaceSet]
    /\ p[0] = 0 /\ p[m] = Len(s)
    /\ \A i \in 1 .. m :
          \E f : /\ Fits(pr, x, q[i - 1], f) /\ Shows(s, p[i - 1], f)
                 /\ p[i] = p[i - 1] + f.size /\ q[i] = After(pr, x, q[i - 1], f)

\* The cells s are whole frames that lead from place a to place b.
Flow(pr, x, s, a, b) ==
    /\ s \in Seq(CellSet)
    /\ \E m \in Nat : \E p, q : Run(pr, x, s, m, p, q) /\ q[0] = a /\ q[m] = b

-----------------------------------------------------------------------------
(* Frames and places.                                                      *)

LEMMA WholeIs ==
    ASSUME NEW f \in FrameSet
    PROVE  /\ Whole(f) \in Seq(CellSet) /\ Len(Whole(f)) = f.size /\ f.size \in {2, 3}
           /\ \A j \in 1 .. f.size : Whole(f)[j].f = f /\ Whole(f)[j].ok
           /\ Whole(f)[1].t = "len"
           /\ Whole(f)[2].t = IF f.size = 2 THEN "mac" ELSE "body"
<1>1. f.size \in {2, 3}
  BY DEF FrameSet
<1>2. CASE f.size = 2
  <2>1. Whole(f) = [i \in 1 .. 2 |-> [t |-> <<"len", "mac">>[i], f |-> f, ok |-> TRUE]]
    BY <1>2 DEF Whole, Cut, FrameParts
  <2>2. \A i \in 1 .. 2 : [t |-> <<"len", "mac">>[i], f |-> f, ok |-> TRUE] \in CellSet
    BY DEF CellSet, Parts
  <2>3. Whole(f) \in [1 .. 2 -> CellSet]
    BY <2>1, <2>2
  <2>4. QED
    BY <1>2, <2>1, <2>3, FunctionSeq
<1>3. CASE f.size = 3
  <2>1. Whole(f) = [i \in 1 .. 3 |-> [t |-> <<"len", "body", "mac">>[i], f |-> f, ok |-> TRUE]]
    BY <1>3 DEF Whole, Cut, FrameParts
  <2>2. \A i \in 1 .. 3 : [t |-> <<"len", "body", "mac">>[i], f |-> f, ok |-> TRUE] \in CellSet
    BY DEF CellSet, Parts
  <2>3. Whole(f) \in [1 .. 3 -> CellSet]
    BY <2>1, <2>2
  <2>4. QED
    BY <1>3, <2>1, <2>3, FunctionSeq
<1>4. QED
  BY <1>1, <1>2, <1>3

LEMMA NextIdIs ==
    ASSUME NEW k \in Nat
    PROVE  NextId(k) \in Nat /\ NextId(k) < IdMod
BY IdModAssumption DEF NextId

LEMMA AfterIs ==
    ASSUME NEW pr, NEW x, NEW q \in PlaceSet, NEW f, Fits(pr, x, q, f)
    PROVE  After(pr, x, q, f) \in PlaceSet
<1>1. f.d \in Seq(Nat) /\ q.got \in Seq(Nat) /\ q.id \in Nat /\ q.hash \in Nat /\ f.cmd \in BOOLEAN
  BY DEF Fits, FrameSet, PlaceSet
<1>2. NextId(q.id) \in Nat
  BY <1>1, NextIdIs
<1>3. Announces(pr, x, q) => Tail(f.d) \in Seq(Nat)
  BY <1>1 DEF Announces, Fits
<1> DEFINE d == IF Announces(pr, x, q) THEN Tail(f.d) ELSE f.d
<1>4. d \in Seq(Nat)
  BY <1>1, <1>3
<1> HIDE DEF d
<1>5. q.got \o d \in Seq(Nat)
  BY <1>1, <1>4
<1>6. QED
  BY <1>1, <1>2, <1>5 DEF After, PlaceSet, d

-----------------------------------------------------------------------------
(* Streams of whole frames.                                                *)

\* Steps that never go back.
LEMMA Rising ==
    ASSUME NEW m \in Nat, NEW p \in [0 .. m -> Nat],
           \A i \in 1 .. m : p[i - 1] <= p[i]
    PROVE  \A i, j \in 0 .. m : i <= j => p[i] <= p[j]
<1> DEFINE S == {k \in Nat : \A i \in 0 .. m : i + k <= m => p[i] <= p[i + k]}
<1>1. 0 \in S
  OBVIOUS
<1>2. ASSUME NEW k \in Nat, k \in S PROVE k + 1 \in S
  <2>1. SUFFICES ASSUME NEW i \in 0 .. m, i + (k + 1) <= m PROVE p[i] <= p[i + (k + 1)]
    OBVIOUS
  <2>2. p[i] <= p[i + k] /\ i + k \in 0 .. m
    BY <1>2, <2>1
  <2>3. i + (k + 1) \in 1 .. m /\ (i + (k + 1)) - 1 = i + k
    BY <2>1
  <2>4. p[i + k] <= p[i + (k + 1)]
    BY <2>3
  <2>5. p[i] \in Nat /\ p[i + k] \in Nat /\ p[i + (k + 1)] \in Nat
    BY <2>2, <2>3
  <2>6. QED
    BY <2>2, <2>4, <2>5
<1> HIDE DEF S
<1>3. Nat \subseteq S
  BY <1>1, <1>2, SetInduction
<1>4. SUFFICES ASSUME NEW i \in 0 .. m, NEW j \in 0 .. m, i <= j PROVE p[i] <= p[j]
  OBVIOUS
<1>5. j - i \in Nat /\ i + (j - i) = j
  BY <1>4
<1>6. j - i \in S
  BY <1>3, <1>5
<1>7. QED
  BY <1>5, <1>6 DEF S

LEMMA RunRises ==
    ASSUME NEW pr, NEW x, NEW s \in Seq(CellSet), NEW m \in Nat, NEW p, NEW q,
           Run(pr, x, s, m, p, q)
    PROVE  /\ \A i, j \in 0 .. m : i <= j => p[i] <= p[j]
           /\ \A i \in 1 .. m : p[i] >= p[i - 1] + 2
<1>1. p \in [0 .. m -> Nat]
  BY DEF Run
<1>2. ASSUME NEW i \in 1 .. m PROVE p[i] >= p[i - 1] + 2
  <2>1. PICK f : f \in FrameSet /\ p[i] = p[i - 1] + f.size
    BY DEF Run, Fits
  <2>2. f.size \in {2, 3} /\ i - 1 \in 0 .. m /\ p[i - 1] \in Nat
    BY <1>1, <2>1 DEF FrameSet
  <2>3. QED
    BY <2>1, <2>2
<1>3. \A i \in 1 .. m : p[i - 1] <= p[i]
  <2>1. \A i \in 1 .. m : p[i - 1] \in Nat /\ p[i] \in Nat
    BY <1>1
  <2>2. QED
    BY <1>2, <2>1
<1>4. QED
  BY <1>1, <1>2, <1>3, Rising

\* No frames.
LEMMA FlowNone ==
    ASSUME NEW pr, NEW x, NEW a \in PlaceSet
    PROVE  Flow(pr, x, <<>>, a, a)
<1> DEFINE p == [i \in 0 .. 0 |-> 0]
           q == [i \in 0 .. 0 |-> a]
<1>1. Run(pr, x, <<>>, 0, p, q) /\ q[0] = a
  BY DEF Run
<1>2. <<>> \in Seq(CellSet) /\ 0 \in Nat
  OBVIOUS
<1> HIDE DEF p, q
<1>3. QED
  BY <1>1, <1>2 DEF Flow

LEMMA FlowNil ==
    ASSUME NEW pr, NEW x, NEW a, NEW b, Flow(pr, x, <<>>, a, b)
    PROVE  a = b /\ a \in PlaceSet
<1>1. PICK m \in Nat : \E p, q : Run(pr, x, <<>>, m, p, q) /\ q[0] = a /\ q[m] = b
  BY DEF Flow
<1>2. PICK p, q : Run(pr, x, <<>>, m, p, q) /\ q[0] = a /\ q[m] = b
  BY <1>1
<1>3. <<>> \in Seq(CellSet) /\ Len(<<>>) = 0
  OBVIOUS
<1>4. /\ \A i, j \in 0 .. m : i <= j => p[i] <= p[j]
      /\ \A i \in 1 .. m : p[i] >= p[i - 1] + 2
  BY <1>2, <1>3, RunRises
<1>5. p \in [0 .. m -> Nat] /\ p[0] = 0 /\ p[m] = 0 /\ q \in [0 .. m -> PlaceSet]
  BY <1>2, <1>3 DEF Run
<1>6. m = 0
  <2>1. SUFFICES ASSUME m # 0 PROVE FALSE
    OBVIOUS
  <2>2. m \in 1 .. m /\ m - 1 \in 0 .. m
    BY <2>1
  <2>3. p[m] >= p[m - 1] + 2 /\ p[m - 1] \in Nat
    BY <1>4, <1>5, <2>2
  <2>4. QED
    BY <1>5, <2>3
<1>7. QED
  BY <1>2, <1>5, <1>6

LEMMA FlowPlaces ==
    ASSUME NEW pr, NEW x, NEW s, NEW a, NEW b, Flow(pr, x, s, a, b)
    PROVE  s \in Seq(CellSet) /\ a \in PlaceSet /\ b \in PlaceSet
<1>1. PICK m \in Nat : \E p, q : Run(pr, x, s, m, p, q) /\ q[0] = a /\ q[m] = b
  BY DEF Flow
<1>2. PICK p, q : Run(pr, x, s, m, p, q) /\ q[0] = a /\ q[m] = b
  BY <1>1
<1>3. q \in [0 .. m -> PlaceSet] /\ 0 \in 0 .. m /\ m \in 0 .. m
  BY <1>2 DEF Run
<1>4. QED
  BY <1>2, <1>3 DEF Flow

\* A frame is written behind the others.
LEMMA FlowOn ==
    ASSUME NEW pr, NEW x, NEW s, NEW a, NEW b, Flow(pr, x, s, a, b), NEW f, Fits(pr, x, b, f)
    PROVE  Flow(pr, x, s \o Whole(f), a, After(pr, x, b, f))
<1>1. PICK m \in Nat : \E p, q : Run(pr, x, s, m, p, q) /\ q[0] = a /\ q[m] = b
  BY DEF Flow
<1>2. PICK p, q : Run(pr, x, s, m, p, q) /\ q[0] = a /\ q[m] = b
  BY <1>1
<1>3. s \in Seq(CellSet) /\ a \in PlaceSet /\ b \in PlaceSet /\ f \in FrameSet
  BY FlowPlaces DEF Fits
<1> DEFINE z == After(pr, x, b, f)
           t == s \o Whole(f)
           p2 == [i \in 0 .. m + 1 |-> IF i = m + 1 THEN Len(t) ELSE p[i]]
           q2 == [i \in 0 .. m + 1 |-> IF i = m + 1 THEN z ELSE q[i]]
<1>4. Whole(f) \in Seq(CellSet) /\ Len(Whole(f)) = f.size /\ f.size \in Nat
  BY <1>3, WholeIs
<1>5. z \in PlaceSet
  BY <1>3, AfterIs
<1>6. /\ t \in Seq(CellSet) /\ Len(t) = Len(s) + f.size /\ Len(s) \in Nat
      /\ \A j \in 1 .. Len(s) : t[j] = s[j]
      /\ \A j \in 1 .. f.size : t[Len(s) + j] = Whole(f)[j]
  <2> HIDE DEF Whole
  <2>1. QED
    BY <1>3, <1>4
<1>7. /\ p \in [0 .. m -> Nat] /\ q \in [0 .. m -> PlaceSet]
      /\ p[0] = 0 /\ p[m] = Len(s)
  BY <1>2 DEF Run
<1>8. \A i, j \in 0 .. m : i <= j => p[i] <= p[j]
  BY <1>2, <1>3, RunRises
<1> HIDE DEF z, t
<1>9. p2 \in [0 .. m + 1 -> Nat] /\ q2 \in [0 .. m + 1 -> PlaceSet]
  BY <1>5, <1>6, <1>7
<1>10. p2[0] = 0 /\ p2[m + 1] = Len(t) /\ q2[0] = a /\ q2[m + 1] = z
  BY <1>2, <1>7
<1>11. ASSUME NEW i \in 1 .. m + 1
       PROVE  \E g : /\ Fits(pr, x, q2[i - 1], g) /\ Shows(t, p2[i - 1], g)
                     /\ p2[i] = p2[i - 1] + g.size /\ q2[i] = After(pr, x, q2[i - 1], g)
  <2>1. CASE i = m + 1
    <3>1. p2[i] = Len(t) /\ p2[i - 1] = Len(s) /\ q2[i] = z /\ q2[i - 1] = b
      BY <1>2, <1>7, <2>1
    <3>2. Shows(t, p2[i - 1], f)
      BY <1>6, <3>1 DEF Shows
    <3> HIDE DEF p2, q2
    <3>3. QED
      BY <1>6, <3>1, <3>2 DEF z
  <2>2. CASE i # m + 1
    <3>1. i \in 1 .. m /\ i - 1 \in 0 .. m /\ i \in 0 .. m
      BY <2>2
    <3>2. p2[i] = p[i] /\ p2[i - 1] = p[i - 1] /\ q2[i] = q[i] /\ q2[i - 1] = q[i - 1]
      BY <3>1
    <3>3. PICK g : /\ Fits(pr, x, q[i - 1], g) /\ Shows(s, p[i - 1], g)
                   /\ p[i] = p[i - 1] + g.size /\ q[i] = After(pr, x, q[i - 1], g)
      BY <1>2, <3>1 DEF Run
    <3>4. p[i] <= Len(s) /\ p[i - 1] \in Nat /\ g.size \in Nat
      <4>1. p[i] <= p[m] /\ m \in 0 .. m
        BY <1>8, <3>1
      <4>2. g.size \in {2, 3}
        BY <3>3 DEF Fits, FrameSet
      <4>3. QED
        BY <1>7, <3>1, <4>1, <4>2
    <3>5. Shows(t, p[i - 1], g)
      <4>1. ASSUME NEW j \in 1 .. g.size PROVE t[p[i - 1] + j] = Whole(g)[j]
        <5>1. p[i - 1] + j \in 1 .. Len(s)
          BY <1>6, <3>3, <3>4
        <5>2. QED
          BY <1>6, <3>3, <5>1 DEF Shows
      <4>2. QED
        BY <4>1 DEF Shows
    <3> HIDE DEF p2, q2
    <3>6. QED
      BY <3>2, <3>3, <3>5
  <2>3. QED
    BY <2>1, <2>2
<1> HIDE DEF p2, q2
<1>12. Run(pr, x, t, m + 1, p2, q2)
  BY <1>9, <1>10, <1>11 DEF Run
<1>13. m + 1 \in Nat
  OBVIOUS
<1>14. Flow(pr, x, t, a, z)
  BY <1>6, <1>10, <1>12, <1>13 DEF Flow
<1>15. QED
  BY <1>14 DEF t, z

\* What Drop leaves.
LEMMA DropIs ==
    ASSUME NEW S, NEW s \in Seq(S), NEW n \in 0 .. Len(s)
    PROVE  /\ Drop(s, n) \in Seq(S) /\ Len(Drop(s, n)) = Len(s) - n
           /\ \A i \in 1 .. Len(s) - n : Drop(s, n)[i] = s[n + i]
           /\ SubSeq(s, 1, n) \in Seq(S) /\ Len(SubSeq(s, 1, n)) = n
           /\ SubSeq(s, 1, n) \o Drop(s, n) = s
BY CutSeq DEF Drop

\* The first frame is taken off.
LEMMA FlowHead ==
    ASSUME NEW pr, NEW x, NEW s, NEW a, NEW b, Flow(pr, x, s, a, b), s # <<>>
    PROVE  \E f : /\ Fits(pr, x, a, f) /\ Shows(s, 0, f) /\ f.size <= Len(s)
                  /\ Flow(pr, x, Drop(s, f.size), After(pr, x, a, f), b)
<1>1. PICK m \in Nat : \E p, q : Run(pr, x, s, m, p, q) /\ q[0] = a /\ q[m] = b
  BY DEF Flow
<1>2. PICK p, q : Run(pr, x, s, m, p, q) /\ q[0] = a /\ q[m] = b
  BY <1>1
<1>3. s \in Seq(CellSet) /\ Len(s) \in Nat /\ Len(s) > 0
  BY DEF Flow
<1>4. /\ p \in [0 .. m -> Nat] /\ q \in [0 .. m -> PlaceSet]
      /\ p[0] = 0 /\ p[m] = Len(s)
  BY <1>2 DEF Run
<1>5. \A i, j \in 0 .. m : i <= j => p[i] <= p[j]
  BY <1>2, <1>3, RunRises
<1>6. m > 0 /\ 1 \in 0 .. m /\ 1 \in 1 .. m /\ 1 - 1 = 0 /\ m \in 0 .. m
  BY <1>3, <1>4
<1>7. PICK f : /\ Fits(pr, x, a, f) /\ Shows(s, 0, f)
               /\ p[1] = f.size /\ q[1] = After(pr, x, a, f)
  <2>1. PICK f : /\ Fits(pr, x, q[1 - 1], f) /\ Shows(s, p[1 - 1], f)
                 /\ p[1] = p[1 - 1] + f.size /\ q[1] = After(pr, x, q[1 - 1], f)
    BY <1>2, <1>6 DEF Run
  <2>2. f.size \in Nat
    BY <2>1 DEF Fits, FrameSet
  <2>3. QED
    BY <1>2, <1>4, <1>6, <2>1, <2>2
<1>8. f.size \in Nat /\ f.size <= Len(s)
  BY <1>4, <1>5, <1>6, <1>7
<1> DEFINE n == f.size
           t == Drop(s, n)
           p2 == [i \in 0 .. m - 1 |-> p[i + 1] - n]
           q2 == [i \in 0 .. m - 1 |-> q[i + 1]]
<1>9. t \in Seq(CellSet) /\ Len(t) = Len(s) - n /\ \A i \in 1 .. Len(s) - n : t[i] = s[n + i]
  BY <1>3, <1>8, DropIs, SMTT(30)
<1> HIDE DEF t, n
<1>10. \A i \in 0 .. m - 1 : p[i + 1] \in Nat /\ p[i + 1] - n \in Nat /\ p[i + 1] <= Len(s)
  <2> TAKE i \in 0 .. m - 1
  <2>1. i + 1 \in 0 .. m /\ 1 <= i + 1 /\ i + 1 <= m
    BY <1>6
  <2>2. p[1] <= p[i + 1] /\ p[i + 1] <= p[m] /\ p[i + 1] \in Nat
    BY <1>4, <1>5, <1>6, <2>1
  <2>3. QED
    BY <1>4, <1>7, <1>8, <2>2 DEF n
<1>11. p2 \in [0 .. m - 1 -> Nat] /\ q2 \in [0 .. m - 1 -> PlaceSet]
  <2>1. \A i \in 0 .. m - 1 : i + 1 \in 0 .. m
    BY <1>6
  <2>2. QED
    BY <1>4, <1>10, <2>1
<1>12. /\ p2[0] = 0 /\ p2[m - 1] = Len(t)
       /\ q2[0] = After(pr, x, a, f) /\ q2[m - 1] = b
  <2>1. 0 \in 0 .. m - 1 /\ m - 1 \in 0 .. m - 1 /\ 0 + 1 = 1 /\ (m - 1) + 1 = m
    BY <1>6
  <2>2. n \in Nat
    BY <1>8 DEF n
  <2>3. QED
    BY <1>2, <1>4, <1>7, <1>9, <2>1, <2>2 DEF n
<1>13. ASSUME NEW i \in 1 .. m - 1
       PROVE  \E g : /\ Fits(pr, x, q2[i - 1], g) /\ Shows(t, p2[i - 1], g)
                     /\ p2[i] = p2[i - 1] + g.size /\ q2[i] = After(pr, x, q2[i - 1], g)
  <2>1. /\ i \in 0 .. m - 1 /\ i - 1 \in 0 .. m - 1 /\ i + 1 \in 1 .. m
        /\ (i + 1) - 1 = i /\ (i - 1) + 1 = i
    BY <1>6
  <2>2. p2[i] = p[i + 1] - n /\ p2[i - 1] = p[i] - n /\ q2[i] = q[i + 1] /\ q2[i - 1] = q[i]
    BY <2>1
  <2>3. PICK g : /\ Fits(pr, x, q[i], g) /\ Shows(s, p[i], g)
                 /\ p[i + 1] = p[i] + g.size /\ q[i + 1] = After(pr, x, q[i], g)
    <3>1. PICK g : /\ Fits(pr, x, q[(i + 1) - 1], g) /\ Shows(s, p[(i + 1) - 1], g)
                   /\ p[i + 1] = p[(i + 1) - 1] + g.size
                   /\ q[i + 1] = After(pr, x, q[(i + 1) - 1], g)
      BY <1>2, <2>1 DEF Run
    <3>2. QED
      BY <2>1, <3>1
  <2>4. /\ g.size \in Nat /\ n \in Nat /\ p[i] \in Nat /\ p[i] - n \in Nat
        /\ p[i + 1] <= Len(s) /\ p[i + 1] \in Nat
    <3>1. g.size \in {2, 3}
      BY <2>3 DEF Fits, FrameSet
    <3>2. p[(i - 1) + 1] \in Nat /\ p[(i - 1) + 1] - n \in Nat
      BY <1>10, <2>1
    <3>3. p[i + 1] <= Len(s) /\ p[i + 1] \in Nat
      BY <1>10, <2>1
    <3>4. QED
      BY <1>8, <2>1, <3>1, <3>2, <3>3 DEF n
  <2>5. p2[i] = p2[i - 1] + g.size
    BY <2>2, <2>3, <2>4
  <2>6. Shows(t, p[i] - n, g)
    <3>1. ASSUME NEW j \in 1 .. g.size PROVE t[(p[i] - n) + j] = Whole(g)[j]
      <4>1. (p[i] - n) + j \in 1 .. Len(s) - n /\ n + ((p[i] - n) + j) = p[i] + j
        <5>1. j \in Nat /\ 1 <= j /\ j <= g.size /\ p[i] + g.size <= Len(s)
          BY <2>3, <2>4
        <5>2. p[i] \in Int /\ n \in Int /\ g.size \in Int /\ Len(s) \in Int /\ p[i] - n >= 0
          BY <1>3, <2>4
        <5>3. QED
          BY <5>1, <5>2, SMTT(30)
      <4>2. t[(p[i] - n) + j] = s[p[i] + j]
        BY <1>9, <4>1
      <4>3. QED
        BY <2>3, <4>2 DEF Shows
    <3>2. QED
      BY <3>1 DEF Shows
  <2> HIDE DEF p2, q2
  <2>7. QED
    BY <2>2, <2>3, <2>5, <2>6
<1> HIDE DEF p2, q2
<1>14. Run(pr, x, t, m - 1, p2, q2)
  BY <1>11, <1>12, <1>13 DEF Run
<1>15. m - 1 \in Nat
  BY <1>6
<1>16. Flow(pr, x, t, After(pr, x, a, f), b)
  BY <1>9, <1>12, <1>14, <1>15 DEF Flow
<1>17. QED
  BY <1>7, <1>8, <1>16 DEF t, n

\* An order that the next frame gives can be taken as given.
LEMMA FlowOrder ==
    ASSUME NEW pr, NEW x, NEW s, NEW a, NEW b, Flow(pr, x, s, a, b), s # <<>>, s[1].f.cmd
    PROVE  Flow(pr, x, s, [a EXCEPT !.cmd = TRUE], b)
<1>1. PICK m \in Nat : \E p, q : Run(pr, x, s, m, p, q) /\ q[0] = a /\ q[m] = b
  BY DEF Flow
<1>2. PICK p, q : Run(pr, x, s, m, p, q) /\ q[0] = a /\ q[m] = b
  BY <1>1
<1>3. s \in Seq(CellSet) /\ Len(s) \in Nat /\ Len(s) > 0
  BY DEF Flow
<1>4. /\ p \in [0 .. m -> Nat] /\ q \in [0 .. m -> PlaceSet]
      /\ p[0] = 0 /\ p[m] = Len(s)
  BY <1>2 DEF Run
<1>5. m > 0 /\ 0 \in 0 .. m /\ m \in 0 .. m
  BY <1>3, <1>4
<1> DEFINE c == [a EXCEPT !.cmd = TRUE]
           q2 == [q EXCEPT ![0] = c]
<1>6. /\ a \in PlaceSet /\ c \in PlaceSet /\ c.id = a.id /\ c.hash = a.hash
      /\ c.got = a.got /\ c.cmd = TRUE
  BY <1>2, <1>4, <1>5 DEF PlaceSet
<1> HIDE DEF c
<1>7. q2 \in [0 .. m -> PlaceSet] /\ q2[0] = c /\ q2[m] = b
  BY <1>2, <1>4, <1>5, <1>6
<1>8. ASSUME NEW i \in 1 .. m
      PROVE  \E g : /\ Fits(pr, x, q2[i - 1], g) /\ Shows(s, p[i - 1], g)
                    /\ p[i] = p[i - 1] + g.size /\ q2[i] = After(pr, x, q2[i - 1], g)
  <2>1. PICK g : /\ Fits(pr, x, q[i - 1], g) /\ Shows(s, p[i - 1], g)
                 /\ p[i] = p[i - 1] + g.size /\ q[i] = After(pr, x, q[i - 1], g)
    BY <1>2 DEF Run
  <2>2. i - 1 \in 0 .. m /\ i \in 0 .. m /\ q2[i] = q[i]
    BY <1>4
  <2>3. CASE i = 1
    <3>1. q[i - 1] = a /\ q2[i - 1] = c /\ p[i - 1] = 0
      BY <1>2, <1>4, <1>7, <2>3
    <3>2. g \in FrameSet /\ 1 \in 1 .. g.size
      BY <2>1 DEF Fits, FrameSet
    <3>3. s[0 + 1] = Whole(g)[1] /\ Whole(g)[1].f = g
      BY <2>1, <3>1, <3>2, WholeIs DEF Shows
    <3>4. g.cmd
      BY <3>3
    <3>5. Fits(pr, x, c, g) /\ After(pr, x, c, g) = After(pr, x, a, g)
      BY <1>6, <2>1, <3>1, <3>4 DEF Fits, After, Announces
    <3> HIDE DEF q2
    <3>6. QED
      BY <2>1, <2>2, <3>1, <3>5
  <2>4. CASE i # 1
    <3>1. q2[i - 1] = q[i - 1]
      BY <1>4, <2>2, <2>4
    <3> HIDE DEF q2
    <3>2. QED
      BY <2>1, <2>2, <3>1
  <2>5. QED
    BY <2>3, <2>4
<1> HIDE DEF q2
<1>9. Run(pr, x, s, m, p, q2)
  BY <1>4, <1>7, <1>8 DEF Run
<1>10. QED
  BY <1>3, <1>7, <1>9 DEF Flow, c

\* Every frame is one link of the chain of hashes.
LEMMA FlowHash ==
    ASSUME NEW pr, NEW x, NEW s, NEW a, NEW b, Flow(pr, x, s, a, b), Hashed(pr)
    PROVE  a.hash <= b.hash /\ (s # <<>> => a.hash < b.hash)
<1>1. PICK m \in Nat : \E p, q : Run(pr, x, s, m, p, q) /\ q[0] = a /\ q[m] = b
  BY DEF Flow
<1>2. PICK p, q : Run(pr, x, s, m, p, q) /\ q[0] = a /\ q[m] = b
  BY <1>1
<1>3. p[0] = 0 /\ p[m] = Len(s) /\ q \in [0 .. m -> PlaceSet] /\ s \in Seq(CellSet)
  BY <1>2 DEF Run, Flow
<1>4. a.hash \in Nat
  BY <1>2, <1>3 DEF PlaceSet
<1> DEFINE S == {i \in Nat : q[i].hash = a.hash + i}
<1>5. 0 \in S
  BY <1>2, <1>4
<1>6. ASSUME NEW i \in 0 .. m - 1, i \in S PROVE i + 1 \in S
  <2>1. i + 1 \in 1 .. m /\ (i + 1) - 1 = i /\ i \in Nat /\ i + 1 \in Nat
    BY <1>6
  <2>2. PICK f : q[i + 1] = After(pr, x, q[(i + 1) - 1], f)
    BY <1>2, <2>1 DEF Run
  <2>3. q[i + 1].hash = q[i].hash + 1
    BY <2>1, <2>2 DEF After
  <2>4. QED
    BY <1>4, <1>6, <2>1, <2>3
<1> HIDE DEF S
<1>7. 0 .. m \subseteq S
  BY <1>5, <1>6, RangeInduction
<1>8. m \in S
  BY <1>7
<1>9. b.hash = a.hash + m
  BY <1>2, <1>8 DEF S
<1>10. s # <<>> => m # 0
  BY <1>3
<1>11. QED
  BY <1>4, <1>9, <1>10

\* Less than a frame with data is without data.
LEMMA FlowShort ==
    ASSUME NEW pr, NEW x, NEW s, NEW a, NEW b, Flow(pr, x, s, a, b), Len(s) <= 2
    PROVE  b.got = a.got
<1>1. s \in Seq(CellSet) /\ Len(s) \in Nat /\ a \in PlaceSet
  BY FlowPlaces
<1>2. CASE s = <<>>
  BY <1>2, FlowNil
<1>3. CASE s # <<>>
  <2>1. PICK f : /\ Fits(pr, x, a, f) /\ f.size <= Len(s)
                 /\ Flow(pr, x, Drop(s, f.size), After(pr, x, a, f), b)
    BY <1>3, FlowHead
  <2>2. f \in FrameSet /\ f.size \in {2, 3}
    BY <2>1 DEF Fits, FrameSet
  <2>3. f.size = 2 /\ f.size = Len(s)
    BY <1>1, <2>1, <2>2
  <2>4. f.d = <<>>
    BY <2>2, <2>3 DEF FrameSet
  <2>5. Drop(s, f.size) = <<>>
    BY <1>1, <2>3, DropIs
  <2>6. b = After(pr, x, a, f)
    BY <2>1, <2>5, FlowNil
  <2>7. ~Announces(pr, x, a)
    BY <2>1, <2>4 DEF Announces, Fits
  <2>8. b.got = a.got \o <<>>
    BY <2>4, <2>6, <2>7 DEF After
  <2>9. a.got \in Seq(Nat)
    BY <1>1 DEF PlaceSet
  <2>10. QED
    BY <2>8, <2>9
<1>4. QED
  BY <1>2, <1>3

\* What a receiver sees at the head of its buffer b, when r is on its way.
LEMMA BufferHead ==
    ASSUME NEW pr, NEW x, NEW b \in Seq(CellSet), NEW r \in Seq(CellSet), NEW a, NEW z,
           Flow(pr, x, b \o r, a, z), b # <<>>
    PROVE  LET f == b[1].f
           IN  /\ Fits(pr, x, a, f) /\ b[1].t = "len" /\ f.size \in {2, 3} /\ Len(b) \in Nat
               /\ \A j \in 1 .. f.size : j <= Len(b) => b[j].ok
               /\ Len(b) > 1 => b[2].t = IF f.size = 2 THEN "mac" ELSE "body"
               /\ Len(b) >= f.size =>
                     /\ Drop(b, f.size) \in Seq(CellSet) /\ Len(Drop(b, f.size)) = Len(b) - f.size
                     /\ Flow(pr, x, Drop(b, f.size) \o r, After(pr, x, a, f), z)
<1> DEFINE s == b \o r
<1>1. /\ s \in Seq(CellSet) /\ Len(s) = Len(b) + Len(r) /\ Len(b) \in Nat /\ Len(r) \in Nat
      /\ Len(b) > 0 /\ \A j \in 1 .. Len(b) : s[j] = b[j]
      /\ \A j \in 1 .. Len(r) : s[Len(b) + j] = r[j]
  OBVIOUS
<1>2. s # <<>>
  BY <1>1
<1> HIDE DEF s
<1>3. PICK f : /\ Fits(pr, x, a, f) /\ Shows(s, 0, f) /\ f.size <= Len(s)
               /\ Flow(pr, x, Drop(s, f.size), After(pr, x, a, f), z)
  BY <1>2, FlowHead DEF s
<1>4. f \in FrameSet /\ f.size \in {2, 3}
  BY <1>3 DEF Fits, FrameSet
<1>5. /\ \A j \in 1 .. f.size : Whole(f)[j].f = f /\ Whole(f)[j].ok
      /\ Whole(f)[1].t = "len"
      /\ Whole(f)[2].t = IF f.size = 2 THEN "mac" ELSE "body"
  BY <1>4, WholeIs
<1>6. \A j \in 1 .. f.size : j <= Len(b) => b[j] = Whole(f)[j]
  <2> TAKE j \in 1 .. f.size
  <2>1. s[0 + j] = Whole(f)[j] /\ 0 + j = j
    BY <1>3 DEF Shows
  <2>2. QED
    BY <1>1, <2>1
<1>7. b[1] = Whole(f)[1] /\ (Len(b) > 1 => b[2] = Whole(f)[2])
  BY <1>1, <1>4, <1>6
<1>8. b[1].f = f /\ b[1].t = "len" /\ (Len(b) > 1 => b[2].t = IF f.size = 2 THEN "mac" ELSE "body")
  BY <1>4, <1>5, <1>7
<1>9. \A j \in 1 .. f.size : j <= Len(b) => b[j].ok
  BY <1>5, <1>6
<1>10. ASSUME Len(b) >= f.size
       PROVE  /\ Drop(b, f.size) \in Seq(CellSet) /\ Len(Drop(b, f.size)) = Len(b) - f.size
              /\ Drop(s, f.size) = Drop(b, f.size) \o r
  <2> DEFINE n == f.size
             t == Drop(b, n)
             u == Drop(s, n)
  <2>1. n \in Nat /\ n \in 0 .. Len(b) /\ n \in 0 .. Len(s)
    BY <1>1, <1>4, <1>10
  <2> HIDE DEF n
  <2>2. t \in Seq(CellSet) /\ Len(t) = Len(b) - n /\ \A i \in 1 .. Len(b) - n : t[i] = b[n + i]
    BY <2>1, DropIs
  <2>3. u \in Seq(CellSet) /\ Len(u) = Len(s) - n /\ \A i \in 1 .. Len(s) - n : u[i] = s[n + i]
    BY <1>1, <2>1, DropIs, ZenonT(40)
  <2> HIDE DEF t, u
  <2>4. /\ t \o r \in Seq(CellSet) /\ Len(t \o r) = Len(s) - n
        /\ \A i \in 1 .. Len(t) : (t \o r)[i] = t[i]
        /\ \A i \in 1 .. Len(r) : (t \o r)[Len(t) + i] = r[i]
    <3>1. /\ t \o r \in Seq(CellSet) /\ Len(t \o r) = Len(t) + Len(r)
          /\ \A i \in 1 .. Len(t) : (t \o r)[i] = t[i]
          /\ \A i \in 1 .. Len(r) : (t \o r)[Len(t) + i] = r[i]
      BY <2>2, SMTT(30)
    <3>2. Len(t) + Len(r) = Len(s) - n
      BY <1>1, <2>1, <2>2
    <3>3. QED
      BY <3>1, <3>2
  <2>5. ASSUME NEW i \in 1 .. Len(s) - n PROVE u[i] = (t \o r)[i]
    <3>1. CASE i <= Len(b) - n
      <4>1. i \in 1 .. Len(b) - n /\ i \in 1 .. Len(t) /\ n + i \in 1 .. Len(b)
        BY <1>1, <2>1, <2>2, <3>1
      <4>2. QED
        BY <1>1, <2>2, <2>3, <2>4, <4>1
    <3>2. CASE i > Len(b) - n
      <4> DEFINE k == i - (Len(b) - n)
      <4>1. k \in 1 .. Len(r) /\ n + i = Len(b) + k /\ Len(t) + k = i
        BY <1>1, <2>1, <2>2, <3>2
      <4> HIDE DEF k
      <4>2. u[i] = r[k] /\ (t \o r)[i] = r[k]
        <5>1. u[i] = s[Len(b) + k]
          BY <2>3, <4>1
        <5>2. QED
          BY <1>1, <2>4, <4>1, <5>1
      <4>3. QED
        BY <4>2
    <3>3. i \in Int /\ Len(b) - n \in Int
      BY <1>1, <2>1
    <3>4. i <= Len(b) - n \/ i > Len(b) - n
      BY <3>3
    <3>5. QED
      BY <3>1, <3>2, <3>4
  <2>6. u = t \o r
    <3>1. u \in Seq(CellSet) /\ t \o r \in Seq(CellSet) /\ Len(u) = Len(t \o r)
      BY <2>3, <2>4
    <3>2. \A i \in 1 .. Len(u) : u[i] = (t \o r)[i]
      BY <2>3, <2>5
    <3>3. QED
      BY <3>1, <3>2, SeqEqual
  <2>7. QED
    BY <2>2, <2>6 DEF n, t, u
<1>11. QED
  BY <1>1, <1>3, <1>4, <1>8, <1>9, <1>10

-----------------------------------------------------------------------------
(* Receiving.                                                              *)

CallSet ==
    [e : EndSet, ret : Seq(Nat), back : BOOLEAN,
     st : {"go", "stop", "nomatch", "bad", "raise", "junk"}]

\* The place an end has read up to, and the one it has written up to.
Here(e, g, c) == [id |-> e.recv_id, hash |-> e.recv_hash, got |-> g, cmd |-> c]
There(e, g, c) == [id |-> e.pack_id, hash |-> e.sent_hash, got |-> g, cmd |-> c]

\* Frame h + 1 has number k, as long as the numbers have not come round.
IdOf(k, h) ==
    h <= IdMod => k = IF h = IdMod THEN 1 ELSE IF h + 1 = IdMod THEN 0 ELSE h + 1

\* What reading leaves alone.
Kept(e, e0) ==
    /\ e.has_header = e0.has_header /\ e.raw_trans = e0.raw_trans /\ e.dead = e0.dead
    /\ e.pack_id = e0.pack_id /\ e.sent_hash = e0.sent_hash

\* What reading does to the tcp_mss of auth_akarin.
Tuned(x, e, e0, c) ==
    /\ e.send_tcp_mss = e0.send_tcp_mss /\ e.new_send_tcp_mss = e0.new_send_tcp_mss
    /\ x = "server" => /\ e.recv_tcp_mss = IF c THEN "path" ELSE "drawn"
                       /\ e.recv_tcp_mss \in {e0.recv_tcp_mss, e.send_tcp_mss}
    /\ x = "client" => /\ e.recv_tcp_mss = IF e.recv_hash = 0 THEN "default" ELSE "path"
                       /\ e.send_back_cmd = (e.recv_hash # 0)
                       /\ e0.recv_tcp_mss \in {"default", e.recv_tcp_mss}

\* An end of auth_akarin that cannot tell the length of every frame.
Astray(e) == e.recv_tcp_mss # e.send_tcp_mss \/ e.recv_tcp_mss = "default"

(***************************************************************************)
(* The calls in progress at end x that read whole frames, with w still on  *)
(* the wire up to the sender's place z.  The data is followed, from o on,  *)
(* if C is true.                                                           *)
(***************************************************************************)
Reading(pr, x, w, z, C, o, e0) ==
    {r \in CallSet :
        /\ Kept(r.e, e0)
        /\ \E g, c : /\ Flow(pr, x, r.e.recv_buf \o w, Here(r.e, g, c), z)
                     /\ C => g = o \o r.ret
                     /\ pr = "auth_akarin" => Tuned(x, r.e, e0, c)
        /\ \/ r.st = "go"
           \/ r.st = "stop" /\ (pr # "auth_akarin" => Len(r.e.recv_buf) <= 2)
           \/ r.st \in {"bad", "raise"} /\ pr = "auth_akarin" /\ Astray(r.e)
        /\ Hashed(pr) => /\ IdOf(r.e.recv_id, r.e.recv_hash)
                         /\ r.e.recv_hash = 0 => r.ret = <<>>}

LEMMA IdOfNext ==
    ASSUME NEW k \in Nat, NEW h \in Nat, IdOf(k, h)
    PROVE  IdOf(NextId(k), h + 1)
<1>1. IdMod \in Nat /\ IdMod > 1
  BY IdModAssumption
<1>2. 1 % IdMod = 1 /\ IdMod % IdMod = 0 /\ \A n \in 0 .. IdMod - 1 : n % IdMod = n
  BY <1>1
<1>3. CASE h + 1 = IdMod
  <2>1. k = 0
    BY <1>1, <1>3 DEF IdOf
  <2>2. NextId(k) = 1
    BY <1>2, <2>1 DEF NextId
  <2>3. QED
    BY <1>3, <2>2 DEF IdOf
<1>4. CASE h + 1 < IdMod
  <2>1. k = h + 1
    BY <1>1, <1>4 DEF IdOf
  <2>2. NextId(k) = (h + 2) % IdMod
    BY <2>1 DEF NextId
  <2>3. QED
    BY <1>1, <1>2, <1>4, <2>2 DEF IdOf
<1>5. CASE h + 1 > IdMod
  BY <1>1, <1>5 DEF IdOf
<1>6. QED
  BY <1>1, <1>3, <1>4, <1>5

\* Only the first frame has number 1.
LEMMA IdOfOne ==
    ASSUME NEW k \in Nat, NEW h \in Nat, IdOf(k, h), h < IdMod
    PROVE  k = 1 <=> h = 0
BY IdModAssumption DEF IdOf

LEMMA Regroup ==
    ASSUME NEW a \in Seq(Nat), NEW b \in Seq(Nat), NEW c \in Seq(Nat)
    PROVE  (a \o b) \o c = a \o (b \o c) /\ a \o b \in Seq(Nat) /\ b \o c \in Seq(Nat)
<1>1. (a \o b) \o c = a \o (b \o c)
  BY ConcatAssociative, SMTT(30)
<1>2. QED
  BY <1>1

LEMMA EndParts ==
    ASSUME NEW e \in EndSet
    PROVE  /\ e.has_header \in BOOLEAN /\ e.raw_trans \in BOOLEAN /\ e.dead \in BOOLEAN
           /\ e.recv_buf \in Seq(CellSet) /\ e.pack_id \in Nat /\ e.recv_id \in Nat
           /\ e.sent_hash \in Nat /\ e.recv_hash \in Nat /\ e.decrypt_packet_num \in Nat
           /\ e.extra_wait \in Nat /\ e.send_tcp_mss \in Modes /\ e.recv_tcp_mss \in Modes
           /\ e.new_send_tcp_mss \in Modes /\ e.send_back_cmd \in BOOLEAN
BY DEF EndSet

LEMMA CallParts ==
    ASSUME NEW r \in CallSet
    PROVE  /\ r.e \in EndSet /\ r.ret \in Seq(Nat) /\ r.back \in BOOLEAN
           /\ r.e.recv_buf \in Seq(CellSet) /\ r.e.recv_id \in Nat /\ r.e.recv_hash \in Nat
BY EndParts DEF CallSet

\* What a call returns after frame number k, with data d.  The tcp_mss in front
\* of frame number 1 is taken off again.
Returned(pr, x, k, ret, d) ==
    IF Hashed(pr) /\ x = "client" /\ k = 1 THEN Tail(ret \o d) ELSE ret \o d

LEMMA TakenData ==
    ASSUME NEW pr, NEW x, NEW a, NEW f, NEW o, NEW ret,
           a \in PlaceSet, Fits(pr, x, a, f), o \in Seq(Nat), ret \in Seq(Nat), a.got = o \o ret,
           Hashed(pr) => IdOf(a.id, a.hash) /\ (a.hash = 0 => ret = <<>>),
           Hashed(pr) /\ x = "client" => a.hash < IdMod
    PROVE  After(pr, x, a, f).got = o \o Returned(pr, x, a.id, ret, f.d)
<1>1. a.id \in Nat /\ a.hash \in Nat /\ f.d \in Seq(Nat)
  BY DEF PlaceSet, Fits, FrameSet
<1>2. CASE Announces(pr, x, a)
  <2>1. a.hash = 0 /\ a.id = 1 /\ ret = <<>> /\ f.d # <<>>
    BY <1>1, <1>2, IdOfOne DEF Announces, Fits
  <2>2. After(pr, x, a, f).got = (o \o <<>>) \o Tail(f.d)
    BY <1>2, <2>1 DEF After
  <2>3. o \o <<>> = o /\ <<>> \o f.d = f.d
    BY <1>1
  <2>4. QED
    BY <1>2, <2>1, <2>2, <2>3 DEF Announces, Returned
<1>3. CASE ~Announces(pr, x, a)
  <2>1. ~(Hashed(pr) /\ x = "client" /\ a.id = 1)
    BY <1>1, <1>3, IdOfOne DEF Announces
  <2>2. After(pr, x, a, f).got = (o \o ret) \o f.d
    BY <1>3 DEF After
  <2>3. QED
    BY <1>1, <2>1, <2>2, Regroup DEF Returned
<1>4. QED
  BY <1>2, <1>3

\* The number and the hash that follow.
Onward(pr, e2, e) ==
    /\ e2.recv_id = IF Numbered(pr) THEN NextId(e.recv_id) ELSE e.recv_id
    /\ e2.recv_hash = IF Hashed(pr) THEN e.recv_hash + 1 ELSE e.recv_hash

\* What a turn returns that takes the frame f at the head of the buffer of r.
Taken(pr, x, r, f, t) ==
    /\ t \in CallSet /\ t.st = "go" /\ Kept(t.e, r.e) /\ Onward(pr, t.e, r.e)
    /\ t.e.recv_buf = Drop(r.e.recv_buf, f.size)
    /\ t.ret = Returned(pr, x, r.e.recv_id, r.ret, f.d)

\* f is the frame at the head of the buffer b, and it is all there.
Arrived(b, f) == b # <<>> /\ f = b[1].f /\ Len(b) >= f.size

\* The data g read so far is followed.
Follows(C, g, o, ret) == C => g = o \o ret

\* While the tcp_mss of the server can be told from its number.
Counts(C, pr, x, z) == C /\ Hashed(pr) /\ x = "client" => z.hash <= IdMod

TunedIf(pr, x, e, e0, c) == pr = "auth_akarin" => Tuned(x, e, e0, c)

\* A frame is taken.
LEMMA TakeReads ==
    ASSUME NEW pr, NEW x, NEW w, NEW z, NEW C, NEW o, NEW e0, NEW r, NEW g, NEW c, NEW f, NEW t,
           w \in Seq(CellSet), C \in BOOLEAN, o \in Seq(Nat), r \in Reading(pr, x, w, z, C, o, e0),
           Flow(pr, x, r.e.recv_buf \o w, Here(r.e, g, c), z), Follows(C, g, o, r.ret),
           Arrived(r.e.recv_buf, f), Taken(pr, x, r, f, t),
           TunedIf(pr, x, t.e, e0, f.cmd), Counts(C, pr, x, z)
    PROVE  /\ t \in Reading(pr, x, w, z, C, o, e0)
           /\ Len(t.e.recv_buf) < Len(r.e.recv_buf)
<1> DEFINE a == Here(r.e, g, c)
           b == r.e.recv_buf
           a2 == After(pr, x, a, f)
<1>1. r \in CallSet /\ Kept(r.e, e0) /\ (Hashed(pr) => IdOf(r.e.recv_id, r.e.recv_hash) /\ (r.e.recv_hash = 0 => r.ret = <<>>))
  BY DEF Reading
<1>2. b \in Seq(CellSet) /\ r.ret \in Seq(Nat) /\ r.e.recv_id \in Nat /\ r.e.recv_hash \in Nat
  BY <1>1, CallParts
<1>3. a \in PlaceSet /\ z \in PlaceSet /\ b \o w \in Seq(CellSet)
  BY FlowPlaces
<1>4. a.id = r.e.recv_id /\ a.hash = r.e.recv_hash /\ a.got = g /\ a.cmd = c
  BY DEF Here
<1>5. /\ Fits(pr, x, a, f) /\ f.size \in {2, 3} /\ Len(b) \in Nat
      /\ Len(Drop(b, f.size)) = Len(b) - f.size
      /\ Flow(pr, x, Drop(b, f.size) \o w, a2, z)
  BY <1>2, BufferHead DEF Arrived
<1>6. C /\ Hashed(pr) /\ x = "client" => a.hash < IdMod
  <2>1. SUFFICES ASSUME C, Hashed(pr), x = "client" PROVE a.hash < IdMod
    OBVIOUS
  <2>2. b \o w # <<>>
    BY <1>2 DEF Arrived
  <2>3. a.hash < z.hash /\ z.hash <= IdMod
    <3>1. z.hash <= IdMod
      BY <2>1 DEF Counts
    <3> DEFINE s == b \o w
    <3>2. Flow(pr, x, s, a, z) /\ s # <<>>
      BY <2>2
    <3> HIDE DEF s, a
    <3>3. a.hash < z.hash
      BY <2>1, <3>2, FlowHash
    <3>4. QED
      BY <3>1, <3>3
  <2>4. a.hash \in Nat /\ z.hash \in Nat /\ IdMod \in Nat
    BY <1>3, IdModAssumption DEF PlaceSet
  <2>5. QED
    BY <2>3, <2>4
<1> HIDE DEF a
<1>7. C => a2.got = o \o t.ret
  <2>1. SUFFICES ASSUME C PROVE a2.got = o \o t.ret
    OBVIOUS
  <2>2. a.got = o \o r.ret
    BY <1>4, <2>1 DEF Follows
  <2>3. /\ Hashed(pr) => IdOf(a.id, a.hash) /\ (a.hash = 0 => r.ret = <<>>)
        /\ Hashed(pr) /\ x = "client" => a.hash < IdMod
    BY <1>1, <1>4, <1>6, <2>1
  <2>4. a2.got = o \o Returned(pr, x, a.id, r.ret, f.d)
    BY <1>2, <1>3, <1>5, <2>2, <2>3, TakenData
  <2>5. QED
    BY <1>4, <2>4 DEF Taken
<1>8. a2 = Here(t.e, a2.got, f.cmd)
  BY <1>4 DEF After, Here, Taken, Onward
<1> HIDE DEF a2
<1>9. Flow(pr, x, t.e.recv_buf \o w, Here(t.e, a2.got, f.cmd), z)
  BY <1>5, <1>8 DEF Taken
<1>10. Hashed(pr) => IdOf(t.e.recv_id, t.e.recv_hash) /\ t.e.recv_hash # 0
  <2>1. SUFFICES ASSUME Hashed(pr) PROVE IdOf(t.e.recv_id, t.e.recv_hash) /\ t.e.recv_hash # 0
    OBVIOUS
  <2>2. t.e.recv_id = NextId(r.e.recv_id) /\ t.e.recv_hash = r.e.recv_hash + 1
    BY <2>1 DEF Taken, Onward, Numbered, Hashed
  <2>3. IdOf(NextId(r.e.recv_id), r.e.recv_hash + 1)
    BY <1>1, <1>2, <2>1, IdOfNext
  <2>4. QED
    BY <1>2, <2>2, <2>3
<1>11. t \in CallSet /\ t.st = "go" /\ Kept(t.e, e0)
  BY <1>1 DEF Taken, Kept
<1>12. t \in Reading(pr, x, w, z, C, o, e0)
  BY <1>7, <1>9, <1>10, <1>11 DEF Reading, TunedIf
<1>13. Len(t.e.recv_buf) < Len(b)
  BY <1>5 DEF Taken
<1>14. QED
  BY <1>12, <1>13

\* The call stops there, for more bytes or for good.
LEMMA StopReads ==
    ASSUME NEW pr, NEW x, NEW w, NEW z, NEW C, NEW o, NEW e0,
           NEW r \in Reading(pr, x, w, z, C, o, e0), NEW v,
           \/ v = "stop" /\ (pr # "auth_akarin" => Len(r.e.recv_buf) <= 2)
           \/ v \in {"bad", "raise"} /\ pr = "auth_akarin" /\ Astray(r.e)
    PROVE  [r EXCEPT !.st = v] \in Reading(pr, x, w, z, C, o, e0)
<1> DEFINE t == [r EXCEPT !.st = v]
<1>1. r \in CallSet /\ v \in {"go", "stop", "nomatch", "bad", "raise", "junk"}
  BY DEF Reading
<1>2. t \in CallSet /\ t.e = r.e /\ t.ret = r.ret /\ t.st = v
  BY <1>1 DEF CallSet
<1> HIDE DEF t
<1>3. /\ Kept(r.e, e0)
      /\ \E g, c : /\ Flow(pr, x, r.e.recv_buf \o w, Here(r.e, g, c), z)
                   /\ C => g = o \o r.ret
                   /\ pr = "auth_akarin" => Tuned(x, r.e, e0, c)
      /\ Hashed(pr) => /\ IdOf(r.e.recv_id, r.e.recv_hash)
                       /\ r.e.recv_hash = 0 => r.ret = <<>>
  BY DEF Reading
<1>4. t \in Reading(pr, x, w, z, C, o, e0)
  BY <1>2, <1>3 DEF Reading
<1>5. QED
  BY <1>4 DEF t

(***************************************************************************)
(* while len(self.recv_buf) > 4: a loop that stays among the calls G and   *)
(* makes the buffer shorter with every turn it goes on after.              *)
(***************************************************************************)
Steps(f, G, K, r, T) ==
    f \in [0 .. K -> G] /\ f[0] = r /\ \A n \in 1 .. K : f[n] = T[f[n - 1]]

LEMMA LoopFunction ==
    ASSUME NEW G, NEW K, NEW r, NEW T, K \in Nat, r \in G, T \in [G -> G]
    PROVE  \E f : Steps(f, G, K, r, T)
<1> DEFINE h == [n \in 1 .. K |-> T]
<1>1. h \in [1 .. K -> [G -> G]]
  OBVIOUS
<1>2. PICK f : Iterates(f, G, K, r, h)
  <2> HIDE DEF h
  <2>1. QED
    BY <1>1, RecursiveFunction
<1>3. Steps(f, G, K, r, T)
  BY <1>2 DEF Iterates, Steps
<1>4. QED
  BY <1>3

\* Turns shorten what is left, or the loop is over.
Shortens(G, T, size) ==
    \A y \in G : IF y.st = "go" THEN T[y].st = "go" => size[T[y]] < size[y] ELSE T[y] = y

\* F makes one turn after the other, while it is among the calls.
Loops(F, G, K, r, T) ==
    F[0] = r /\ \A n \in 1 .. K : F[n - 1] \in G => F[n] = T[F[n - 1]]

LEMMA LoopStays ==
    ASSUME NEW G, NEW K, NEW r, NEW T, NEW size, NEW F,
           K \in Nat, r \in G, T \in [G -> G], size \in [G -> Nat],
           size[r] <= K, Shortens(G, T, size), Loops(F, G, K, r, T)
    PROVE  F[K] \in G /\ (F[K].st = "go" => size[F[K]] = 0)
<1>0. /\ \A y \in G : IF y.st = "go" THEN T[y].st = "go" => size[T[y]] < size[y] ELSE T[y] = y
      /\ F[0] = r /\ \A n \in 1 .. K : F[n - 1] \in G => F[n] = T[F[n - 1]]
  BY DEF Shortens, Loops
<1> DEFINE S == {n \in Nat : F[n] \in G /\ (F[n].st = "go" => size[F[n]] + n <= K)}
<1>1. 0 \in S
  BY <1>0
<1>2. ASSUME NEW n \in 0 .. K - 1, n \in S PROVE n + 1 \in S
  <2>1. n + 1 \in 1 .. K /\ (n + 1) - 1 = n /\ n \in Nat /\ n + 1 \in Nat
    BY <1>2
  <2>2. F[n] \in G /\ (F[n].st = "go" => size[F[n]] + n <= K)
    BY <1>2
  <2>3. F[n + 1] = T[F[n]] /\ F[n + 1] \in G
    BY <1>0, <2>1, <2>2
  <2>4. F[n + 1].st = "go" => size[F[n + 1]] + (n + 1) <= K
    <3>1. SUFFICES ASSUME F[n + 1].st = "go" PROVE size[F[n + 1]] + (n + 1) <= K
      OBVIOUS
    <3>2. F[n].st = "go"
      BY <1>0, <2>2, <2>3, <3>1
    <3>3. size[F[n + 1]] < size[F[n]] /\ size[F[n]] + n <= K
      BY <1>0, <2>2, <2>3, <3>1, <3>2
    <3>4. size[F[n + 1]] \in Nat /\ size[F[n]] \in Nat
      BY <2>2, <2>3
    <3>5. QED
      BY <2>1, <3>3, <3>4
  <2>5. QED
    BY <2>1, <2>3, <2>4
<1> HIDE DEF S
<1>3. 0 .. K \subseteq S
  BY <1>1, <1>2, RangeInduction
<1>4. K \in S
  BY <1>3
<1>5. F[K] \in G /\ (F[K].st = "go" => size[F[K]] + K <= K)
  BY <1>4 DEF S
<1>6. size[F[K]] \in Nat
  BY <1>5
<1>7. QED
  BY <1>5, <1>6

-----------------------------------------------------------------------------
(* The turns of the loops.                                                 *)

\* The ends differ in the buffer only.
Alike(e, e2) ==
    /\ Kept(e, e2) /\ e.recv_id = e2.recv_id /\ e.recv_hash = e2.recv_hash
    /\ e.send_tcp_mss = e2.send_tcp_mss /\ e.recv_tcp_mss = e2.recv_tcp_mss
    /\ e.new_send_tcp_mss = e2.new_send_tcp_mss /\ e.send_back_cmd = e2.send_back_cmd

LEMMA BufferSet ==
    ASSUME NEW e, NEW buf, e \in EndSet, buf \in Seq(CellSet)
    PROVE  /\ [e EXCEPT !.recv_buf = buf] \in EndSet
           /\ [e EXCEPT !.recv_buf = buf].recv_buf = buf
           /\ Alike([e EXCEPT !.recv_buf = buf], e)
<1> DEFINE B == Seq(CellSet)
<1>1. buf \in B /\ e \in [has_header : BOOLEAN, raw_trans : BOOLEAN, dead : BOOLEAN,
     recv_buf : B, pack_id : Nat, recv_id : Nat,
     sent_hash : Nat, recv_hash : Nat, decrypt_packet_num : Nat,
     extra_wait : Nat, send_tcp_mss : Modes, recv_tcp_mss : Modes,
     new_send_tcp_mss : Modes, send_back_cmd : BOOLEAN]
  BY DEF EndSet
<1> HIDE DEF B
<1>2. [e EXCEPT !.recv_buf = buf] \in [has_header : BOOLEAN, raw_trans : BOOLEAN, dead : BOOLEAN,
     recv_buf : B, pack_id : Nat, recv_id : Nat,
     sent_hash : Nat, recv_hash : Nat, decrypt_packet_num : Nat,
     extra_wait : Nat, send_tcp_mss : Modes, recv_tcp_mss : Modes,
     new_send_tcp_mss : Modes, send_back_cmd : BOOLEAN]
  BY <1>1
<1>3. [e EXCEPT !.recv_buf = buf].recv_buf = buf /\ Alike([e EXCEPT !.recv_buf = buf], e)
  BY <1>1 DEF Alike, Kept
<1>4. QED
  BY <1>2, <1>3 DEF B, EndSet

\* The result of Take.
TakeTo(r, e2, buf, ret, bk) ==
    [r EXCEPT !.e = [e2 EXCEPT !.recv_buf = buf], !.ret = ret, !.back = bk]

LEMMA TakeIs ==
    ASSUME NEW r, NEW e2, NEW buf, NEW ret, NEW bk, NEW t,
           r \in CallSet, e2 \in EndSet, buf \in Seq(CellSet), ret \in Seq(Nat), bk \in BOOLEAN,
           t = TakeTo(r, e2, buf, ret, bk)
    PROVE  /\ t \in CallSet /\ t.st = r.st /\ t.ret = ret /\ t.back = bk
           /\ t.e.recv_buf = buf /\ Alike(t.e, e2)
<1> DEFINE e3 == [e2 EXCEPT !.recv_buf = buf]
<1>1. e3 \in EndSet /\ e3.recv_buf = buf /\ Alike(e3, e2)
  BY BufferSet
<1> HIDE DEF e3
<1>2. t = [r EXCEPT !.e = e3, !.ret = ret, !.back = bk]
  BY DEF e3, TakeTo
<1>3. t \in CallSet /\ t.st = r.st /\ t.ret = ret /\ t.back = bk /\ t.e = e3
  BY <1>1, <1>2 DEF CallSet
<1>4. QED
  BY <1>1, <1>3

\* What there is to a call that goes on reading.
LEMMA ReadingIs ==
    ASSUME NEW pr, NEW x, NEW w, NEW z, NEW C, NEW o, NEW e0, NEW r,
           r \in Reading(pr, x, w, z, C, o, e0)
    PROVE  /\ r \in CallSet /\ Kept(r.e, e0)
           /\ \E g, c : /\ Flow(pr, x, r.e.recv_buf \o w, Here(r.e, g, c), z)
                        /\ C => g = o \o r.ret
                        /\ pr = "auth_akarin" => Tuned(x, r.e, e0, c)
BY DEF Reading

\* The frame at the head is taken, with the counters as e2 has them.
LEMMA TakeGoes ==
    ASSUME NEW pr, NEW x, NEW w, NEW z, NEW C, NEW o, NEW e0, NEW r, NEW g, NEW c,
           NEW f, NEW e2, NEW bk, NEW t,
           w \in Seq(CellSet), o \in Seq(Nat), C \in BOOLEAN,
           r \in Reading(pr, x, w, z, C, o, e0), r.st = "go",
           Flow(pr, x, r.e.recv_buf \o w, Here(r.e, g, c), z), Follows(C, g, o, r.ret),
           Arrived(r.e.recv_buf, f), e2 \in EndSet, bk \in BOOLEAN,
           Kept(e2, r.e), Onward(pr, e2, r.e),
           t = TakeTo(r, e2, Drop(r.e.recv_buf, f.size), Returned(pr, x, r.e.recv_id, r.ret, f.d), bk),
           TunedIf(pr, x, e2, e0, f.cmd), Counts(C, pr, x, z)
    PROVE  /\ t \in Reading(pr, x, w, z, C, o, e0)
           /\ Len(t.e.recv_buf) < Len(r.e.recv_buf)
<1> DEFINE b == r.e.recv_buf
           buf == Drop(b, f.size)
           ret == Returned(pr, x, r.e.recv_id, r.ret, f.d)
<1>1. r \in CallSet /\ b \in Seq(CellSet) /\ r.ret \in Seq(Nat)
  BY ReadingIs, CallParts
<1>2. Fits(pr, x, Here(r.e, g, c), f) /\ buf \in Seq(CellSet)
  BY <1>1, BufferHead DEF Arrived
<1>3. f.d \in Seq(Nat) /\ (Hashed(pr) /\ x = "client" /\ r.e.recv_id = 1 => f.d # <<>>)
  BY <1>2 DEF Fits, FrameSet, Here
<1>4. ret \in Seq(Nat)
  <2> DEFINE u == r.ret \o f.d
  <2>1. u \in Seq(Nat)
    BY <1>1, <1>3
  <2>2. f.d # <<>> => u # <<>>
    BY <1>1, <1>3
  <2> HIDE DEF u
  <2>3. u # <<>> => Tail(u) \in Seq(Nat)
    BY <2>1
  <2>4. QED
    BY <1>3, <2>1, <2>2, <2>3 DEF Returned, u
<1> HIDE DEF b, buf, ret
<1>5. t = TakeTo(r, e2, buf, ret, bk)
  BY DEF b, buf, ret
<1>6. /\ t \in CallSet /\ t.st = r.st /\ t.ret = ret /\ t.e.recv_buf = buf /\ Alike(t.e, e2)
  BY <1>1, <1>2, <1>4, <1>5, TakeIs
<1>7. Taken(pr, x, r, f, t)
  BY <1>6 DEF Taken, Alike, Kept, Onward, ret, buf, b
<1>8. TunedIf(pr, x, t.e, e0, f.cmd)
  BY <1>6 DEF TunedIf, Tuned, Alike
<1>9. ASSUME NEW u, Taken(pr, x, r, f, u), TunedIf(pr, x, u.e, e0, f.cmd)
      PROVE  /\ u \in Reading(pr, x, w, z, C, o, e0)
             /\ Len(u.e.recv_buf) < Len(r.e.recv_buf)
  BY <1>9, TakeReads
<1>10. QED
  BY <1>7, <1>8, <1>9

\* The verdict v on the buffer of end e: a frame is there, or not yet.
Judged(pr, x, w, z, e, v) ==
    \A a : Flow(pr, x, e.recv_buf \o w, a, z) /\ a.id = e.recv_id /\ a.hash = e.recv_hash =>
             \/ v = "stop" /\ Len(e.recv_buf) <= 2
             \/ v = "go" /\ Arrived(e.recv_buf, e.recv_buf[1].f)

\* What a turn makes of the verdict, with the counters of e2 and the answer bk.
Turned(pr, x, r, e2, bk, v, t) ==
    /\ v = "stop" => t = [r EXCEPT !.st = v]
    /\ v = "go" => /\ e2 \in EndSet /\ bk \in BOOLEAN /\ Kept(e2, r.e) /\ Onward(pr, e2, r.e)
                   /\ t = TakeTo(r, e2, Drop(r.e.recv_buf, r.e.recv_buf[1].f.size),
                                 Returned(pr, x, r.e.recv_id, r.ret, r.e.recv_buf[1].f.d), bk)

\* Every protocol but auth_akarin: the frame is taken, or there is none yet.
LEMMA PlainTurn ==
    ASSUME NEW pr, NEW x, NEW w, NEW z, NEW C, NEW o, NEW e0, NEW r, NEW e2, NEW bk, NEW t, NEW v,
           w \in Seq(CellSet), o \in Seq(Nat), C \in BOOLEAN, pr # "auth_akarin",
           r \in Reading(pr, x, w, z, C, o, e0), r.st = "go",
           Counts(C, pr, x, z),
           Judged(pr, x, w, z, r.e, v), Turned(pr, x, r, e2, bk, v, t)
    PROVE  /\ t \in Reading(pr, x, w, z, C, o, e0)
           /\ t.st = "go" => Len(t.e.recv_buf) < Len(r.e.recv_buf)
<1> DEFINE f == r.e.recv_buf[1].f
<1>1. r \in CallSet
  BY ReadingIs
<1>2. PICK g, c : Flow(pr, x, r.e.recv_buf \o w, Here(r.e, g, c), z) /\ Follows(C, g, o, r.ret)
  BY ReadingIs DEF Follows
<1>3. Here(r.e, g, c).id = r.e.recv_id /\ Here(r.e, g, c).hash = r.e.recv_hash
  BY DEF Here
<1>4. \/ v = "stop" /\ Len(r.e.recv_buf) <= 2
      \/ v = "go" /\ Arrived(r.e.recv_buf, f)
  BY <1>2, <1>3 DEF Judged
<1>5. CASE v = "stop" /\ Len(r.e.recv_buf) <= 2
  <2>1. t = [r EXCEPT !.st = v]
    BY <1>5 DEF Turned
  <2>2. [r EXCEPT !.st = v] \in Reading(pr, x, w, z, C, o, e0)
    BY <1>5, StopReads
  <2>3. t.st # "go"
    BY <1>1, <1>5, <2>1 DEF CallSet
  <2>4. QED
    BY <2>1, <2>2, <2>3
<1>6. CASE v = "go" /\ Arrived(r.e.recv_buf, f)
  <2>1. t = TakeTo(r, e2, Drop(r.e.recv_buf, f.size), Returned(pr, x, r.e.recv_id, r.ret, f.d), bk)
    BY <1>6 DEF Turned
  <2>2. TunedIf(pr, x, e2, e0, f.cmd) /\ e2 \in EndSet /\ bk \in BOOLEAN /\ Kept(e2, r.e) /\ Onward(pr, e2, r.e)
    BY <1>6 DEF TunedIf, Turned
  <2> HIDE DEF f
  <2>3. QED
    BY <1>2, <1>6, <2>1, <2>2, TakeGoes
<1>7. QED
  BY <1>4, <1>5, <1>6

\* The length of the buffer decides, among the lengths the loops tell apart.
LEMMA Lengths ==
    ASSUME NEW n \in Nat
    PROVE  \/ n < 2 /\ n <= 2 /\ ~(n >= 2) /\ n # 2 /\ ~(n > 2)
           \/ n = 2 /\ n <= 2 /\ n >= 2 /\ ~(n < 2) /\ ~(n > 2)
           \/ n > 2 /\ n >= 2 /\ ~(n < 2) /\ n # 2 /\ n >= 3 /\ ~(n < 3)
OBVIOUS

\* A frame of three cells at the head of the buffer.
LEMMA ThreeCells ==
    ASSUME NEW pr, NEW x, NEW b, NEW w, NEW a, NEW z,
           b \in Seq(CellSet), w \in Seq(CellSet), Flow(pr, x, b \o w, a, z), ~Hashed(pr), Len(b) >= 2
    PROVE  /\ b[1].ok /\ b[1].t = "len" /\ b[1].f.size = 3 /\ (Numbered(pr) => b[1].f.id = a.id)
           /\ Len(b) > 2 => b[2].ok /\ b[3].ok /\ Arrived(b, b[1].f)
<1> DEFINE f == b[1].f
<1>1. b # <<>> /\ Len(b) \in Nat
  <2>1. Len(b) \in Nat
    OBVIOUS
  <2>2. QED
    BY <2>1
<1>2. /\ Fits(pr, x, a, f) /\ b[1].t = "len" /\ f.size \in {2, 3}
      /\ \A j \in 1 .. f.size : j <= Len(b) => b[j].ok
  BY <1>1, BufferHead
<1>3. f.size = 3 /\ (Numbered(pr) => f.id = a.id)
  BY <1>2 DEF Fits
<1>4. b[1].ok /\ (Len(b) > 2 => b[2].ok /\ b[3].ok /\ Len(b) >= 3)
  <2>1. 1 \in 1 .. f.size /\ 2 \in 1 .. f.size /\ 3 \in 1 .. f.size
    BY <1>3
  <2> HIDE DEF f
  <2>2. QED
    BY <1>1, <1>2, <2>1
<1>5. QED
  BY <1>1, <1>2, <1>3, <1>4 DEF Arrived

LEMMA V4Verdict ==
    ASSUME NEW x, NEW b, NEW w, NEW a, NEW z,
           b \in Seq(CellSet), w \in Seq(CellSet), Flow("auth_sha1_v4", x, b \o w, a, z)
    PROVE  \/ V4!FrameVerdict(b) = "stop" /\ Len(b) <= 2
           \/ V4!FrameVerdict(b) = "go" /\ Arrived(b, b[1].f)
<1>1. Len(b) \in Nat
  OBVIOUS
<1>2. ~Hashed("auth_sha1_v4")
  BY DEF Hashed
<1>3. Len(b) >= 2 => V4!IsGood(b[1], "len") /\ (Len(b) > 2 => b[2].ok /\ b[3].ok /\ Arrived(b, b[1].f))
  BY <1>2, ThreeCells DEF V4!IsGood
<1>4. \/ Len(b) < 2 /\ Len(b) <= 2 /\ ~(Len(b) >= 2) /\ Len(b) # 2 /\ ~(Len(b) > 2)
      \/ Len(b) = 2 /\ Len(b) <= 2 /\ Len(b) >= 2 /\ ~(Len(b) < 2) /\ ~(Len(b) > 2)
      \/ Len(b) > 2 /\ Len(b) >= 2 /\ ~(Len(b) < 2) /\ Len(b) # 2
  BY <1>1, Lengths
<1>5. QED
  BY <1>3, <1>4, Zenon DEF V4!FrameVerdict

LEMMA V4Turns ==
    ASSUME NEW x, NEW w, NEW z, NEW C, NEW o, NEW e0, NEW r, w \in Seq(CellSet), o \in Seq(Nat), C \in BOOLEAN,
           r \in Reading("auth_sha1_v4", x, w, z, C, o, e0), r.st = "go"
    PROVE  /\ V4!Turn(r) \in Reading("auth_sha1_v4", x, w, z, C, o, e0)
           /\ V4!Turn(r).st = "go" => Len(V4!Turn(r).e.recv_buf) < Len(r.e.recv_buf)
<1> DEFINE pr == "auth_sha1_v4"
           b == r.e.recv_buf
           v == V4!FrameVerdict(b)
           bk == r.back \/ b[1].f.d = <<>>
           t == V4!Turn(r)
<1>1. r \in CallSet /\ b \in Seq(CellSet) /\ r.e \in EndSet /\ r.back \in BOOLEAN
  BY ReadingIs, CallParts
<1>2. Judged(pr, x, w, z, r.e, v)
  BY <1>1, V4Verdict DEF Judged
<1>3. v = "stop" => t = [r EXCEPT !.st = v]
  BY DEF V4!Turn, V4!Stop
<1>4. v = "go" => t = TakeTo(r, r.e, Drop(b, b[1].f.size), Returned(pr, x, r.e.recv_id, r.ret, b[1].f.d), bk)
  BY <1>1 DEF V4!Turn, V4!Take, V4!Drop, Drop, CallSet, TakeTo, Returned, Hashed
<1>5. Kept(r.e, r.e) /\ Onward(pr, r.e, r.e) /\ Counts(C, pr, x, z) /\ pr # "auth_akarin"
  BY DEF Kept, Onward, Counts, Numbered, Hashed
<1>6. bk \in BOOLEAN
  BY <1>1
<1> HIDE DEF pr, v, bk, t
<1>7. Turned(pr, x, r, r.e, bk, v, t)
  BY <1>1, <1>3, <1>4, <1>5, <1>6 DEF Turned
<1> HIDE DEF b
<1>8. /\ t \in Reading(pr, x, w, z, C, o, e0)
      /\ t.st = "go" => Len(t.e.recv_buf) < Len(r.e.recv_buf)
  BY <1>2, <1>5, <1>7, PlainTurn DEF pr
<1>9. QED
  BY <1>8 DEF pr, t

\* The end with its counters set.
Recounted(e, k, h) == [e EXCEPT !.recv_id = k, !.recv_hash = h]

LEMMA RecountedIs ==
    ASSUME NEW e, NEW k, NEW h, e \in EndSet, k \in Nat, h \in Nat
    PROVE  /\ Recounted(e, k, h) \in EndSet /\ Recounted(e, k, h).recv_buf = e.recv_buf
           /\ Recounted(e, k, h).recv_id = k /\ Recounted(e, k, h).recv_hash = h
           /\ Kept(Recounted(e, k, h), e)
           /\ Recounted(e, k, h).send_tcp_mss = e.send_tcp_mss
           /\ Recounted(e, k, h).recv_tcp_mss = e.recv_tcp_mss
           /\ Recounted(e, k, h).new_send_tcp_mss = e.new_send_tcp_mss
           /\ Recounted(e, k, h).send_back_cmd = e.send_back_cmd
<1> DEFINE B == Seq(CellSet)
<1>1. e \in [has_header : BOOLEAN, raw_trans : BOOLEAN, dead : BOOLEAN,
     recv_buf : B, pack_id : Nat, recv_id : Nat,
     sent_hash : Nat, recv_hash : Nat, decrypt_packet_num : Nat,
     extra_wait : Nat, send_tcp_mss : Modes, recv_tcp_mss : Modes,
     new_send_tcp_mss : Modes, send_back_cmd : BOOLEAN]
  BY DEF EndSet
<1> HIDE DEF B
<1>2. Recounted(e, k, h) \in [has_header : BOOLEAN, raw_trans : BOOLEAN, dead : BOOLEAN,
     recv_buf : B, pack_id : Nat, recv_id : Nat,
     sent_hash : Nat, recv_hash : Nat, decrypt_packet_num : Nat,
     extra_wait : Nat, send_tcp_mss : Modes, recv_tcp_mss : Modes,
     new_send_tcp_mss : Modes, send_back_cmd : BOOLEAN]
  BY <1>1 DEF Recounted
<1>3. /\ Recounted(e, k, h).recv_buf = e.recv_buf
      /\ Recounted(e, k, h).recv_id = k /\ Recounted(e, k, h).recv_hash = h
      /\ Kept(Recounted(e, k, h), e)
      /\ Recounted(e, k, h).send_tcp_mss = e.send_tcp_mss
      /\ Recounted(e, k, h).recv_tcp_mss = e.recv_tcp_mss
      /\ Recounted(e, k, h).new_send_tcp_mss = e.new_send_tcp_mss
      /\ Recounted(e, k, h).send_back_cmd = e.send_back_cmd
  BY <1>1 DEF Recounted, Kept
<1>4. QED
  BY <1>2, <1>3 DEF B, EndSet

LEMMA RecountedOnly ==
    ASSUME NEW e, NEW k, e \in EndSet
    PROVE  Recounted(e, k, e.recv_hash) = [e EXCEPT !.recv_id = k]
<1> DEFINE B == Seq(CellSet)
<1>1. e \in [has_header : BOOLEAN, raw_trans : BOOLEAN, dead : BOOLEAN,
     recv_buf : B, pack_id : Nat, recv_id : Nat,
     sent_hash : Nat, recv_hash : Nat, decrypt_packet_num : Nat,
     extra_wait : Nat, send_tcp_mss : Modes, recv_tcp_mss : Modes,
     new_send_tcp_mss : Modes, send_back_cmd : BOOLEAN]
  BY DEF EndSet
<1> HIDE DEF B
<1>2. QED
  BY <1>1 DEF Recounted

LEMMA AesVerdict ==
    ASSUME NEW x, NEW e, NEW w, NEW a, NEW z,
           e.recv_buf \in Seq(CellSet), w \in Seq(CellSet), Flow("auth_aes128", x, e.recv_buf \o w, a, z),
           a.id = e.recv_id
    PROVE  \/ Aes!FrameVerdict(e) = "stop" /\ Len(e.recv_buf) <= 2
           \/ Aes!FrameVerdict(e) = "go" /\ Arrived(e.recv_buf, e.recv_buf[1].f)
<1> DEFINE b == e.recv_buf
<1>1. Len(b) \in Nat /\ b \in Seq(CellSet)
  OBVIOUS
<1>2. ~Hashed("auth_aes128") /\ Numbered("auth_aes128")
  BY DEF Hashed, Numbered
<1> HIDE DEF b
<1>3. Len(b) >= 2 => Aes!IsGood(b[1], "len") /\ b[1].f.id = e.recv_id /\ (Len(b) > 2 => b[2].ok /\ b[3].ok /\ Arrived(b, b[1].f))
  BY <1>1, <1>2, ThreeCells DEF Aes!IsGood, b
<1>4. \/ Len(b) < 2 /\ Len(b) <= 2 /\ ~(Len(b) >= 2) /\ Len(b) # 2 /\ ~(Len(b) > 2)
      \/ Len(b) = 2 /\ Len(b) <= 2 /\ Len(b) >= 2 /\ ~(Len(b) < 2) /\ ~(Len(b) > 2)
      \/ Len(b) > 2 /\ Len(b) >= 2 /\ ~(Len(b) < 2) /\ Len(b) # 2
  BY <1>1, Lengths
<1>5. QED
  BY <1>3, <1>4, Zenon DEF Aes!FrameVerdict, b

LEMMA AesTurns ==
    ASSUME NEW x, NEW w, NEW z, NEW C, NEW o, NEW e0, NEW r, w \in Seq(CellSet), o \in Seq(Nat), C \in BOOLEAN,
           r \in Reading("auth_aes128", x, w, z, C, o, e0), r.st = "go"
    PROVE  /\ Aes!Turn(r) \in Reading("auth_aes128", x, w, z, C, o, e0)
           /\ Aes!Turn(r).st = "go" => Len(Aes!Turn(r).e.recv_buf) < Len(r.e.recv_buf)
<1> DEFINE pr == "auth_aes128"
           b == r.e.recv_buf
           v == Aes!FrameVerdict(r.e)
           bk == r.back \/ b[1].f.d = <<>>
           t == Aes!Turn(r)
           e2 == Recounted(r.e, NextId(r.e.recv_id), r.e.recv_hash)
<1>1. r \in CallSet /\ b \in Seq(CellSet) /\ r.e \in EndSet /\ r.back \in BOOLEAN /\ r.e.recv_hash \in Nat /\ NextId(r.e.recv_id) \in Nat
  BY ReadingIs, CallParts, NextIdIs
<1>2. Judged(pr, x, w, z, r.e, v)
  BY <1>1, AesVerdict DEF Judged
<1>3. v = "stop" => t = [r EXCEPT !.st = v]
  BY DEF Aes!Turn, Aes!Stop
<1>4. /\ e2 \in EndSet /\ e2.recv_buf = b /\ Kept(e2, r.e) /\ Onward(pr, e2, r.e)
      /\ e2 = [r.e EXCEPT !.recv_id = NextId(r.e.recv_id)]
  <2> DEFINE k == NextId(r.e.recv_id)
             h == r.e.recv_hash
             e == r.e
  <2>1. e \in EndSet /\ k \in Nat /\ h \in Nat /\ h = e.recv_hash
    BY <1>1
  <2> HIDE DEF k, h, e
  <2>2. /\ Recounted(e, k, h) \in EndSet /\ Recounted(e, k, h).recv_buf = e.recv_buf
        /\ Recounted(e, k, h).recv_id = k /\ Recounted(e, k, h).recv_hash = h
        /\ Kept(Recounted(e, k, h), e)
    BY <2>1, RecountedIs, SMTT(30)
  <2>3. Recounted(e, k, e.recv_hash) = [e EXCEPT !.recv_id = k]
    BY <2>1, RecountedOnly
  <2>4. QED
    BY <2>2, <2>3 DEF e, k, h, Onward, Numbered, Hashed
<1> HIDE DEF e2
<1>5. Aes!Accept(r.e, b[1].f) = e2
  BY <1>4 DEF Aes!Accept, Aes!NextId, NextId
<1>6. v = "go" => t = TakeTo(r, e2, Drop(b, b[1].f.size), Returned(pr, x, r.e.recv_id, r.ret, b[1].f.d), bk)
  BY <1>1, <1>4, <1>5 DEF Aes!Turn, Aes!Take, Aes!Drop, Drop, CallSet, TakeTo, Returned, Hashed
<1>7. bk \in BOOLEAN /\ Counts(C, pr, x, z) /\ pr # "auth_akarin"
  BY <1>1 DEF Counts, Hashed
<1> HIDE DEF pr, v, bk, t
<1>8. Turned(pr, x, r, e2, bk, v, t)
  BY <1>1, <1>3, <1>4, <1>6, <1>7 DEF Turned
<1> HIDE DEF b
<1>9. /\ t \in Reading(pr, x, w, z, C, o, e0)
      /\ t.st = "go" => Len(t.e.recv_buf) < Len(r.e.recv_buf)
  BY <1>2, <1>7, <1>8, PlainTurn DEF pr
<1>10. QED
  BY <1>9 DEF pr, t

\* A frame of a chain at the head of the buffer.
LEMMA ChainCells ==
    ASSUME NEW pr, NEW x, NEW b, NEW w, NEW a, NEW z,
           b \in Seq(CellSet), w \in Seq(CellSet), Flow(pr, x, b \o w, a, z), Hashed(pr), Len(b) >= 2
    PROVE  /\ b[1].ok /\ b[1].t = "len" /\ b[1].f.id = a.id /\ b[1].f.prev = a.hash
           /\ (b[1].f.size = 2 /\ b[2].t = "mac") \/ (b[1].f.size = 3 /\ b[2].t = "body")
           /\ Len(b) >= b[1].f.size => /\ Arrived(b, b[1].f)
                                       /\ \A i \in 1 .. b[1].f.size : b[i].ok
<1> DEFINE f == b[1].f
<1>1. b # <<>> /\ Len(b) \in Nat /\ Len(b) > 1
  <2>1. Len(b) \in Nat
    OBVIOUS
  <2>2. QED
    BY <2>1
<1>2. /\ Fits(pr, x, a, f) /\ b[1].t = "len" /\ f.size \in {2, 3}
      /\ \A j \in 1 .. f.size : j <= Len(b) => b[j].ok
      /\ b[2].t = IF f.size = 2 THEN "mac" ELSE "body"
  BY <1>1, BufferHead
<1>3. f.id = a.id /\ f.prev = a.hash
  BY <1>2 DEF Fits, Numbered, Hashed
<1>4. b[1].ok /\ (Len(b) >= f.size => \A i \in 1 .. f.size : b[i].ok)
  <2>1. 1 \in 1 .. f.size /\ 1 <= Len(b)
    BY <1>1, <1>2
  <2> HIDE DEF f
  <2>2. b[1].ok
    BY <1>2, <2>1
  <2>3. ASSUME Len(b) >= f.size, NEW i \in 1 .. f.size PROVE b[i].ok
    <3>1. i <= Len(b)
      BY <1>1, <1>2, <2>3
    <3>2. QED
      BY <1>2, <3>1
  <2>4. QED
    BY <2>2, <2>3
<1>5. (f.size = 2 /\ b[2].t = "mac") \/ (f.size = 3 /\ b[2].t = "body")
  <2> HIDE DEF f
  <2>1. QED
    BY <1>2
<1>6. Len(b) >= f.size => Arrived(b, f)
  BY <1>1 DEF Arrived
<1>7. QED
  BY <1>2, <1>3, <1>4, <1>5, <1>6

LEMMA ChainVerdict ==
    ASSUME NEW x, NEW e, NEW w, NEW a, NEW z, NEW misread,
           e.recv_buf \in Seq(CellSet), w \in Seq(CellSet), Flow("auth_chain", x, e.recv_buf \o w, a, z),
           a.id = e.recv_id, a.hash = e.recv_hash
    PROVE  \/ Chain!FrameVerdict(e, misread) = "stop" /\ Len(e.recv_buf) <= 2
           \/ Chain!FrameVerdict(e, misread) = "go" /\ Arrived(e.recv_buf, e.recv_buf[1].f)
<1> DEFINE b == e.recv_buf
<1>1. Len(b) \in Nat /\ b \in Seq(CellSet)
  OBVIOUS
<1>2. Hashed("auth_chain")
  BY DEF Hashed
<1> HIDE DEF b
<1>3. Len(b) >= 2 =>
        /\ Chain!IsGood(b[1], "len") /\ b[1].f.id = e.recv_id /\ b[1].f.prev = e.recv_hash
        /\ (b[1].f.size = 2 /\ b[2].t = "mac") \/ (b[1].f.size = 3 /\ b[2].t = "body")
        /\ Len(b) >= b[1].f.size => Arrived(b, b[1].f) /\ \A i \in 1 .. b[1].f.size : b[i].ok
  BY <1>1, <1>2, ChainCells DEF Chain!IsGood, b
<1>4. \/ Len(b) < 2 /\ Len(b) <= 2 /\ ~(Len(b) >= 2) /\ Len(b) # 2 /\ ~(Len(b) > 2)
      \/ Len(b) = 2 /\ Len(b) <= 2 /\ Len(b) >= 2 /\ ~(Len(b) < 2) /\ ~(Len(b) > 2)
      \/ Len(b) > 2 /\ Len(b) >= 2 /\ ~(Len(b) < 2) /\ Len(b) # 2
  BY <1>1, Lengths
<1>5. Len(b) > 2 => Len(b) >= b[1].f.size /\ ~(Len(b) < b[1].f.size)
  BY <1>1, <1>3
<1>6. Len(b) = 2 /\ b[2].t = "body" => Len(b) < b[1].f.size /\ ~(Len(b) >= b[1].f.size)
  BY <1>1, <1>3
<1>7. QED
  BY <1>3, <1>4, <1>5, <1>6, ZenonT(30) DEF Chain!FrameVerdict, b

\* What Accept does, in auth_chain and auth_akarin.
LEMMA ChainAccept ==
    ASSUME NEW pr, NEW x, NEW w, NEW z, NEW C, NEW o, NEW e0, NEW r, NEW f,
           w \in Seq(CellSet), Hashed(pr),
           r \in Reading(pr, x, w, z, C, o, e0), Arrived(r.e.recv_buf, f)
    PROVE  LET e2 == Recounted(r.e, NextId(r.e.recv_id), f.prev + 1)
           IN  /\ f.prev = r.e.recv_hash
               /\ e2 \in EndSet /\ e2.recv_buf = r.e.recv_buf /\ Kept(e2, r.e) /\ Onward(pr, e2, r.e)
               /\ Chain!Accept(r.e, f) = e2 /\ Akarin!Accept(r.e, f) = e2
<1> DEFINE k == NextId(r.e.recv_id)
           h == f.prev + 1
           e == r.e
           b == r.e.recv_buf
<1>1. r \in CallSet /\ e \in EndSet /\ b \in Seq(CellSet) /\ r.e.recv_hash \in Nat /\ k \in Nat
  BY ReadingIs, CallParts, NextIdIs
<1>2. PICK g, c : Flow(pr, x, b \o w, Here(r.e, g, c), z)
  BY ReadingIs
<1>3. Fits(pr, x, Here(r.e, g, c), f)
  BY <1>1, <1>2, BufferHead DEF Arrived
<1>4. f.prev = r.e.recv_hash
  BY <1>3 DEF Fits, Here
<1>5. h \in Nat /\ h = r.e.recv_hash + 1
  BY <1>1, <1>4
<1>6. Chain!Accept(r.e, f) = Recounted(e, k, h) /\ Akarin!Accept(r.e, f) = Recounted(e, k, h)
  BY DEF Chain!Accept, Akarin!Accept, Recounted, NextId, Chain!NextId, Akarin!NextId
<1> HIDE DEF k, h, e
<1>7. /\ Recounted(e, k, h) \in EndSet /\ Recounted(e, k, h).recv_buf = e.recv_buf
      /\ Recounted(e, k, h).recv_id = k /\ Recounted(e, k, h).recv_hash = h
      /\ Kept(Recounted(e, k, h), e)
  BY <1>1, <1>5, RecountedIs
<1>8. Onward(pr, Recounted(e, k, h), e)
  BY <1>5, <1>7 DEF Onward, Numbered, Hashed, e, k
<1>9. QED
  BY <1>4, <1>6, <1>7, <1>8 DEF k, h, e

LEMMA ChainTurns ==
    ASSUME NEW x, NEW w, NEW z, NEW C, NEW o, NEW e0, NEW r, NEW misread, NEW t,
           w \in Seq(CellSet), o \in Seq(Nat), C \in BOOLEAN,
           r \in Reading("auth_chain", x, w, z, C, o, e0), r.st = "go", Counts(C, "auth_chain", x, z),
           \/ x = "server" /\ t = Chain!Turn(r, misread)
           \/ x = "client" /\ t = Chain!ClientTurn(r, misread)
    PROVE  /\ t \in Reading("auth_chain", x, w, z, C, o, e0)
           /\ t.st = "go" => Len(t.e.recv_buf) < Len(r.e.recv_buf)
<1> DEFINE pr == "auth_chain"
           b == r.e.recv_buf
           f == b[1].f
           v == Chain!FrameVerdict(r.e, misread)
           bk == r.back \/ f.d = <<>>
           e2 == Recounted(r.e, NextId(r.e.recv_id), f.prev + 1)
           ret == Returned(pr, x, r.e.recv_id, r.ret, f.d)
           u == Chain!Turn(r, misread)
<1>1. r \in CallSet /\ b \in Seq(CellSet) /\ r.e \in EndSet /\ r.back \in BOOLEAN
  BY ReadingIs, CallParts
<1>2. Judged(pr, x, w, z, r.e, v)
  <2> DEFINE e == r.e
  <2>1. ASSUME NEW a, Flow("auth_chain", x, e.recv_buf \o w, a, z), a.id = e.recv_id, a.hash = e.recv_hash
        PROVE  \/ Chain!FrameVerdict(e, misread) = "stop" /\ Len(e.recv_buf) <= 2
               \/ Chain!FrameVerdict(e, misread) = "go" /\ Arrived(e.recv_buf, e.recv_buf[1].f)
    <3>1. e.recv_buf \in Seq(CellSet)
      BY <1>1
    <3> HIDE DEF e
    <3>2. QED
      BY <2>1, <3>1, ChainVerdict, ZenonT(40)
  <2>2. QED
    BY <2>1 DEF Judged
<1>3. v = "go" => Arrived(b, f)
  <2>1. PICK g, c : Flow(pr, x, b \o w, Here(r.e, g, c), z)
    BY ReadingIs
  <2>2. Here(r.e, g, c).id = r.e.recv_id /\ Here(r.e, g, c).hash = r.e.recv_hash
    BY DEF Here
  <2>3. QED
    BY <1>2, <2>1, <2>2 DEF Judged
<1>4. ASSUME v = "stop" PROVE u = [r EXCEPT !.st = v] /\ t = u
  <2>1. u = [r EXCEPT !.st = v]
    BY <1>4 DEF Chain!Turn, Chain!Stop
  <2>2. u.st = v
    BY <1>1, <2>1 DEF CallSet
  <2>3. t = u
    BY <1>4, <2>2 DEF Chain!ClientTurn
  <2>4. QED
    BY <2>1, <2>3
<1>5. Hashed(pr) /\ pr # "auth_akarin" /\ bk \in BOOLEAN
  BY <1>1 DEF Hashed
<1>6. ASSUME v = "go"
      PROVE  /\ e2 \in EndSet /\ Kept(e2, r.e) /\ Onward(pr, e2, r.e)
             /\ t = TakeTo(r, e2, Drop(b, f.size), ret, bk)
  <2>1. /\ e2 \in EndSet /\ e2.recv_buf = b /\ Kept(e2, r.e) /\ Onward(pr, e2, r.e)
        /\ Chain!Accept(r.e, f) = e2
    <3> HIDE DEF f, pr
    <3>1. QED
      BY <1>3, <1>5, <1>6, ChainAccept DEF pr
  <2> HIDE DEF e2
  <2>2. u = TakeTo(r, e2, Drop(b, f.size), r.ret \o f.d, bk)
    BY <1>1, <1>6, <2>1 DEF Chain!Turn, Chain!Take, Chain!Drop, Drop, CallSet, TakeTo
  <2> DEFINE buf == Drop(b, f.size)
             y == r.ret \o f.d
             u2 == TakeTo(r, e2, buf, y, bk)
  <2>3. u2.st = "go" /\ u2.ret = y /\ [u2 EXCEPT !.ret = Tail(y)] = TakeTo(r, e2, buf, Tail(y), bk)
    <3> HIDE DEF buf, y, bk
    <3>1. QED
      BY <1>1, Zenon DEF TakeTo, CallSet
  <2>4. CASE x = "client" /\ r.e.recv_id = 1
    <3>1. t = [u2 EXCEPT !.ret = Tail(u2.ret)]
      BY <2>2, <2>3, <2>4, Zenon DEF Chain!ClientTurn
    <3>2. ret = Tail(y)
      BY <1>5, <2>4, Zenon DEF Returned
    <3>3. QED
      BY <2>1, <2>3, <3>1, <3>2, Zenon
  <2>5. CASE ~(x = "client" /\ r.e.recv_id = 1)
    <3>1. t = u2
      BY <2>2, <2>5, Zenon DEF Chain!ClientTurn
    <3>2. ret = y
      BY <2>5 DEF Returned
    <3>3. QED
      BY <2>1, <3>1, <3>2, Zenon
  <2>6. QED
    BY <2>4, <2>5
<1> HIDE DEF v, u, e2, bk, ret, f, pr
<1>7. Turned(pr, x, r, e2, bk, v, t)
  <2>1. v = "stop" => t = [r EXCEPT !.st = v]
    BY <1>4
  <2>2. QED
    BY <1>5, <1>6, <2>1 DEF Turned, ret, f
<1> HIDE DEF b
<1>8. /\ t \in Reading(pr, x, w, z, C, o, e0)
      /\ t.st = "go" => Len(t.e.recv_buf) < Len(r.e.recv_buf)
  <2>1. ASSUME NEW t2, Turned(pr, x, r, e2, bk, v, t2)
        PROVE  /\ t2 \in Reading(pr, x, w, z, C, o, e0)
               /\ t2.st = "go" => Len(t2.e.recv_buf) < Len(r.e.recv_buf)
    BY <1>2, <1>5, <2>1, PlainTurn DEF pr
  <2>2. QED
    BY <1>7, <2>1
<1>9. QED
  BY <1>8 DEF pr

\* An order is not taken back.
LEMMA FlowCmd ==
    ASSUME NEW pr, NEW x, NEW s, NEW a, NEW b, Flow(pr, x, s, a, b), a.cmd
    PROVE  b.cmd
<1>1. PICK m \in Nat : \E p, q : Run(pr, x, s, m, p, q) /\ q[0] = a /\ q[m] = b
  BY DEF Flow
<1>2. PICK p, q : Run(pr, x, s, m, p, q) /\ q[0] = a /\ q[m] = b
  BY <1>1
<1> DEFINE S == {i \in Nat : q[i].cmd}
<1>3. 0 \in S
  BY <1>2
<1>4. ASSUME NEW i \in 0 .. m - 1, i \in S PROVE i + 1 \in S
  <2>1. i + 1 \in 1 .. m /\ (i + 1) - 1 = i /\ i \in Nat /\ i + 1 \in Nat
    BY <1>4
  <2>2. PICK f : Fits(pr, x, q[(i + 1) - 1], f) /\ q[i + 1] = After(pr, x, q[(i + 1) - 1], f)
    BY <1>2, <2>1 DEF Run
  <2>3. q[i].cmd
    BY <1>4
  <2>4. f.cmd
    BY <2>1, <2>2, <2>3 DEF Fits
  <2>5. q[i + 1].cmd
    BY <2>2, <2>4 DEF After
  <2>6. QED
    BY <2>1, <2>5
<1> HIDE DEF S
<1>5. 0 .. m \subseteq S
  BY <1>3, <1>4, RangeInduction
<1>6. m \in S
  BY <1>5
<1>7. QED
  BY <1>2, <1>6 DEF S

LEMMA AkarinVerdict ==
    ASSUME NEW x, NEW e, NEW w, NEW a, NEW z, NEW misread,
           e.recv_buf \in Seq(CellSet), w \in Seq(CellSet), Flow("auth_akarin", x, e.recv_buf \o w, a, z),
           a.id = e.recv_id, a.hash = e.recv_hash,
           Len(e.recv_buf) >= 2 => Akarin!recv_rnd_data_len(e, e.recv_buf[1].f) \/ Astray(e)
    PROVE  \/ Akarin!FrameVerdict(e, misread) = "stop"
           \/ Akarin!FrameVerdict(e, misread) = "go" /\ Arrived(e.recv_buf, e.recv_buf[1].f)
           \/ Akarin!FrameVerdict(e, misread) \in {"bad", "raise"} /\ Astray(e)
<1> DEFINE b == e.recv_buf
<1>1. Len(b) \in Nat /\ b \in Seq(CellSet)
  OBVIOUS
<1>2. Hashed("auth_akarin")
  BY DEF Hashed
<1> HIDE DEF b
<1>3. Len(b) >= 2 =>
        /\ Akarin!IsGood(b[1], "len") /\ b[1].f.id = e.recv_id /\ b[1].f.prev = e.recv_hash
        /\ (b[1].f.size = 2 /\ b[2].t = "mac") \/ (b[1].f.size = 3 /\ b[2].t = "body")
        /\ Len(b) >= b[1].f.size => Arrived(b, b[1].f) /\ \A i \in 1 .. b[1].f.size : b[i].ok
  BY <1>1, <1>2, ChainCells DEF Akarin!IsGood, b
<1>4. \/ Len(b) < 2 /\ Len(b) <= 2 /\ ~(Len(b) >= 2) /\ Len(b) # 2 /\ ~(Len(b) > 2)
      \/ Len(b) = 2 /\ Len(b) <= 2 /\ Len(b) >= 2 /\ ~(Len(b) < 2) /\ ~(Len(b) > 2)
      \/ Len(b) > 2 /\ Len(b) >= 2 /\ ~(Len(b) < 2) /\ Len(b) # 2
  BY <1>1, Lengths
<1>5. Len(b) > 2 => Len(b) >= b[1].f.size /\ ~(Len(b) < b[1].f.size)
  BY <1>1, <1>3
<1>6. Len(b) = 2 /\ b[2].t = "body" => Len(b) < b[1].f.size /\ ~(Len(b) >= b[1].f.size)
  BY <1>1, <1>3
<1>7. Len(b) >= 2 => Akarin!recv_rnd_data_len(e, b[1].f) \/ Astray(e)
  BY DEF b
<1>8. QED
  BY <1>3, <1>4, <1>5, <1>6, <1>7, ZenonT(60) DEF Akarin!FrameVerdict, b

\* The end with its tcp_mss set.
Set(e, m, s) == [e EXCEPT !.recv_tcp_mss = m, !.send_back_cmd = s]

LEMMA SetIs ==
    ASSUME NEW e, NEW m, NEW s, e \in EndSet, m \in Modes, s \in BOOLEAN
    PROVE  /\ Set(e, m, s) \in EndSet /\ Set(e, m, s).recv_buf = e.recv_buf
           /\ Set(e, m, s).recv_id = e.recv_id /\ Set(e, m, s).recv_hash = e.recv_hash
           /\ Kept(Set(e, m, s), e)
           /\ Set(e, m, s).send_tcp_mss = e.send_tcp_mss
           /\ Set(e, m, s).recv_tcp_mss = m
           /\ Set(e, m, s).new_send_tcp_mss = e.new_send_tcp_mss
           /\ Set(e, m, s).send_back_cmd = s
<1> DEFINE B == Seq(CellSet)
<1>1. e \in [has_header : BOOLEAN, raw_trans : BOOLEAN, dead : BOOLEAN,
     recv_buf : B, pack_id : Nat, recv_id : Nat,
     sent_hash : Nat, recv_hash : Nat, decrypt_packet_num : Nat,
     extra_wait : Nat, send_tcp_mss : Modes, recv_tcp_mss : Modes,
     new_send_tcp_mss : Modes, send_back_cmd : BOOLEAN]
  BY DEF EndSet
<1> HIDE DEF B
<1>2. Set(e, m, s) \in [has_header : BOOLEAN, raw_trans : BOOLEAN, dead : BOOLEAN,
     recv_buf : B, pack_id : Nat, recv_id : Nat,
     sent_hash : Nat, recv_hash : Nat, decrypt_packet_num : Nat,
     extra_wait : Nat, send_tcp_mss : Modes, recv_tcp_mss : Modes,
     new_send_tcp_mss : Modes, send_back_cmd : BOOLEAN]
  BY <1>1 DEF Set
<1>3. /\ Set(e, m, s).recv_buf = e.recv_buf
      /\ Set(e, m, s).recv_id = e.recv_id /\ Set(e, m, s).recv_hash = e.recv_hash
      /\ Kept(Set(e, m, s), e)
      /\ Set(e, m, s).send_tcp_mss = e.send_tcp_mss
      /\ Set(e, m, s).recv_tcp_mss = m
      /\ Set(e, m, s).new_send_tcp_mss = e.new_send_tcp_mss
      /\ Set(e, m, s).send_back_cmd = s
  BY <1>1 DEF Set, Kept
<1>4. QED
  BY <1>2, <1>3 DEF B, EndSet

Obeying(r) == [r EXCEPT !.e.recv_tcp_mss = r.e.send_tcp_mss]

\* ServerTurn obeys an order at the head of the buffer.
LEMMA OrderReads ==
    ASSUME NEW w, NEW z, NEW C, NEW o, NEW e0, NEW r, NEW r1,
           w \in Seq(CellSet), r \in Reading("auth_akarin", "server", w, z, C, o, e0), r.st = "go",
           z.cmd => e0.send_tcp_mss = "path",
           Len(r.e.recv_buf) > 1, r.e.recv_buf[1].f.cmd,
           r1 = Obeying(r)
    PROVE  /\ r1 \in Reading("auth_akarin", "server", w, z, C, o, e0)
           /\ r1.e.recv_buf = r.e.recv_buf /\ r1.st = "go" /\ r1.ret = r.ret /\ r1.back = r.back
           /\ r1.e.recv_tcp_mss = "path" /\ r1.e.send_tcp_mss = "path" /\ r1.e.recv_hash = r.e.recv_hash
<1> DEFINE b == r.e.recv_buf
           e == r.e
           m == r.e.send_tcp_mss
           s == r.e.send_back_cmd
           pr == "auth_akarin"
           x == "server"
<1>1. r \in CallSet /\ e \in EndSet /\ b \in Seq(CellSet) /\ Kept(e, e0) /\ r.ret \in Seq(Nat)
  BY ReadingIs, CallParts
<1>2. m \in Modes /\ s \in BOOLEAN
  BY <1>1, EndParts
<1>3. r1.e = Set(e, m, s) /\ r1 \in CallSet /\ r1.st = "go" /\ r1.ret = r.ret /\ r1.back = r.back
  <2>1. r1 = [r EXCEPT !.e = [e EXCEPT !.recv_tcp_mss = m]]
    BY <1>1 DEF CallSet, Obeying
  <2>2. [e EXCEPT !.recv_tcp_mss = m] = Set(e, m, s)
    <3> DEFINE B == Seq(CellSet)
    <3>1. e \in [has_header : BOOLEAN, raw_trans : BOOLEAN, dead : BOOLEAN,
         recv_buf : B, pack_id : Nat, recv_id : Nat,
         sent_hash : Nat, recv_hash : Nat, decrypt_packet_num : Nat,
         extra_wait : Nat, send_tcp_mss : Modes, recv_tcp_mss : Modes,
         new_send_tcp_mss : Modes, send_back_cmd : BOOLEAN]
      BY <1>1 DEF EndSet
    <3> HIDE DEF B
    <3>2. QED
      BY <3>1 DEF Set
  <2> DEFINE e1 == Set(e, m, s)
  <2>3. e1 \in EndSet
    BY <1>1, <1>2, SetIs
  <2> HIDE DEF e1
  <2>4. r1 = [r EXCEPT !.e = e1]
    BY <2>1, <2>2 DEF e1
  <2>5. QED
    BY <1>1, <2>3, <2>4 DEF CallSet, e1
<1> HIDE DEF m, s
<1>4. /\ r1.e.recv_buf = b /\ r1.e.recv_id = e.recv_id /\ r1.e.recv_hash = e.recv_hash
      /\ Kept(r1.e, e) /\ r1.e.send_tcp_mss = e.send_tcp_mss /\ r1.e.recv_tcp_mss = m
      /\ r1.e.new_send_tcp_mss = e.new_send_tcp_mss
  <2> HIDE DEF e
  <2>1. QED
    BY <1>1, <1>2, <1>3, SetIs DEF e
<1>5. PICK g, c : /\ Flow(pr, x, b \o w, Here(e, g, c), z) /\ (C => g = o \o r.ret)
                  /\ Tuned(x, e, e0, c)
  BY ReadingIs
<1>6. b \o w # <<>> /\ (b \o w)[1] = b[1]
  BY <1>1
<1> DEFINE a == Here(e, g, c)
           s2 == b \o w
<1>7. Flow(pr, x, s2, [a EXCEPT !.cmd = TRUE], z)
  <2>1. Flow(pr, x, s2, a, z) /\ s2 # <<>> /\ s2[1].f.cmd
    BY <1>5, <1>6
  <2> HIDE DEF s2, a, pr, x
  <2>2. QED
    BY <2>1, FlowOrder
<1> DEFINE t == TRUE
<1>8. [a EXCEPT !.cmd = t] = Here(r1.e, g, t)
  <2> HIDE DEF t, e
  <2>1. QED
    BY <1>4 DEF Here
<1>9. z.cmd
  <2> DEFINE a2 == [a EXCEPT !.cmd = TRUE]
  <2>1. a2.cmd
    BY DEF Here
  <2> HIDE DEF a2, s2, pr, x
  <2>2. Flow(pr, x, s2, a2, z)
    BY <1>7 DEF a2
  <2>3. QED
    BY <2>1, <2>2, FlowCmd
<1>10. m = "path" /\ e.send_tcp_mss = "path"
  BY <1>5, <1>9 DEF Tuned, m
<1>11. Tuned(x, r1.e, e0, t)
  BY <1>4, <1>5, <1>10 DEF Tuned
<1>12. Kept(r1.e, e0)
  BY <1>1, <1>4 DEF Kept
<1>13. Flow(pr, x, r1.e.recv_buf \o w, Here(r1.e, g, t), z)
  BY <1>4, <1>7, <1>8
<1>14. C => g = o \o r1.ret
  BY <1>3, <1>5
<1>15. Hashed(pr) => IdOf(r1.e.recv_id, r1.e.recv_hash) /\ (r1.e.recv_hash = 0 => r1.ret = <<>>)
  BY <1>3, <1>4 DEF Reading
<1> HIDE DEF t
<1>16. r1 \in Reading(pr, x, w, z, C, o, e0)
  <2> HIDE DEF pr, x
  <2>1. QED
    BY <1>3, <1>11, <1>12, <1>13, <1>14, <1>15 DEF Reading
<1>17. QED
  BY <1>3, <1>4, <1>10, <1>16

\* What a turn of auth_akarin makes of the verdict.
Bound(x, r, e0, e2, bk, v, t) ==
    /\ v # "go" => t = [r EXCEPT !.st = v]
    /\ v = "go" => /\ e2 \in EndSet /\ bk \in BOOLEAN /\ Kept(e2, r.e) /\ Onward("auth_akarin", e2, r.e)
                   /\ Tuned(x, e2, e0, r.e.recv_buf[1].f.cmd)
                   /\ t = TakeTo(r, e2, Drop(r.e.recv_buf, r.e.recv_buf[1].f.size),
                                 Returned("auth_akarin", x, r.e.recv_id, r.ret, r.e.recv_buf[1].f.d), bk)

\* The length of the frame at the head can be told.
Legible(e) == Len(e.recv_buf) >= 2 => Akarin!recv_rnd_data_len(e, e.recv_buf[1].f) \/ Astray(e)

LEMMA AkarinJudged ==
    ASSUME NEW x, NEW w, NEW z, NEW C, NEW o, NEW e0, NEW r, NEW misread,
           w \in Seq(CellSet), r \in Reading("auth_akarin", x, w, z, C, o, e0), Legible(r.e)
    PROVE  \/ Akarin!FrameVerdict(r.e, misread) = "stop"
           \/ Akarin!FrameVerdict(r.e, misread) = "go" /\ Arrived(r.e.recv_buf, r.e.recv_buf[1].f)
           \/ Akarin!FrameVerdict(r.e, misread) \in {"bad", "raise"} /\ Astray(r.e)
<1> DEFINE e == r.e
<1>1. e.recv_buf \in Seq(CellSet)
  BY ReadingIs, CallParts
<1>2. PICK g, c : Flow("auth_akarin", x, e.recv_buf \o w, Here(e, g, c), z)
  BY ReadingIs
<1>3. Here(e, g, c).id = e.recv_id /\ Here(e, g, c).hash = e.recv_hash
  BY DEF Here
<1>4. Len(e.recv_buf) >= 2 => Akarin!recv_rnd_data_len(e, e.recv_buf[1].f) \/ Astray(e)
  BY DEF Legible
<1> HIDE DEF e
<1>5. \/ Akarin!FrameVerdict(e, misread) = "stop"
      \/ Akarin!FrameVerdict(e, misread) = "go" /\ Arrived(e.recv_buf, e.recv_buf[1].f)
      \/ Akarin!FrameVerdict(e, misread) \in {"bad", "raise"} /\ Astray(e)
  BY <1>1, <1>2, <1>3, <1>4, AkarinVerdict
<1>6. QED
  BY <1>5 DEF e

LEMMA AkarinTurn ==
    ASSUME NEW x, NEW w, NEW z, NEW C, NEW o, NEW e0, NEW r, NEW e2, NEW bk, NEW t, NEW v,
           w \in Seq(CellSet), o \in Seq(Nat), C \in BOOLEAN,
           r \in Reading("auth_akarin", x, w, z, C, o, e0), r.st = "go",
           Counts(C, "auth_akarin", x, z),
           \/ v = "stop"
           \/ v = "go" /\ Arrived(r.e.recv_buf, r.e.recv_buf[1].f)
           \/ v \in {"bad", "raise"} /\ Astray(r.e),
           Bound(x, r, e0, e2, bk, v, t)
    PROVE  /\ t \in Reading("auth_akarin", x, w, z, C, o, e0)
           /\ t.st = "go" => Len(t.e.recv_buf) < Len(r.e.recv_buf)
<1> DEFINE f == r.e.recv_buf[1].f
           pr == "auth_akarin"
<1>1. r \in CallSet
  BY ReadingIs
<1>2. PICK g, c : Flow(pr, x, r.e.recv_buf \o w, Here(r.e, g, c), z) /\ Follows(C, g, o, r.ret)
  BY ReadingIs, ZenonT(40) DEF Follows
<1>3. CASE v # "go"
  <2>1. t = [r EXCEPT !.st = v] /\ (v = "stop" \/ (v \in {"bad", "raise"} /\ Astray(r.e)))
    BY <1>3 DEF Bound
  <2>2. [r EXCEPT !.st = v] \in Reading(pr, x, w, z, C, o, e0)
    BY <2>1, StopReads
  <2>3. t.st # "go"
    BY <1>1, <1>3, <2>1 DEF CallSet
  <2>4. QED
    BY <2>1, <2>2, <2>3
<1>4. CASE v = "go"
  <2>1. t = TakeTo(r, e2, Drop(r.e.recv_buf, f.size), Returned(pr, x, r.e.recv_id, r.ret, f.d), bk)
    BY <1>4 DEF Bound
  <2>2. /\ TunedIf(pr, x, e2, e0, f.cmd) /\ e2 \in EndSet /\ bk \in BOOLEAN /\ Kept(e2, r.e)
        /\ Onward(pr, e2, r.e) /\ Arrived(r.e.recv_buf, f)
    BY <1>4 DEF TunedIf, Bound
  <2> HIDE DEF f, pr
  <2>3. QED
    BY <1>2, <2>1, <2>2, TakeGoes DEF pr
<1>5. QED
  BY <1>3, <1>4

\* What the frame at the head says of the tcp_mss, at the server.
LEMMA ServerLegible ==
    ASSUME NEW w, NEW z, NEW C, NEW o, NEW e0, NEW r,
           w \in Seq(CellSet), r \in Reading("auth_akarin", "server", w, z, C, o, e0), r.st = "go",
           Len(r.e.recv_buf) >= 2,
           r.e.recv_buf[1].f.cmd => r.e.recv_tcp_mss = "path"
    PROVE  /\ Akarin!recv_rnd_data_len(r.e, r.e.recv_buf[1].f) \/ Astray(r.e)
           /\ Tuned("server", r.e, e0, r.e.recv_buf[1].f.cmd)
<1> DEFINE b == r.e.recv_buf
           f == b[1].f
           pr == "auth_akarin"
           x == "server"
<1>1. r \in CallSet /\ b \in Seq(CellSet) /\ r.e \in EndSet /\ Len(b) \in Nat
  BY ReadingIs, CallParts
<1>2. PICK g, c : Flow(pr, x, b \o w, Here(r.e, g, c), z) /\ Tuned(x, r.e, e0, c)
  BY ReadingIs
<1>3. b # <<>>
  BY <1>1
<1>4. Fits(pr, x, Here(r.e, g, c), f)
  BY <1>1, <1>2, <1>3, BufferHead
<1>5. f \in FrameSet /\ f.mss = (IF f.cmd THEN "path" ELSE "drawn") /\ (c => f.cmd)
  BY <1>4 DEF Fits, Here
<1>6. f.cmd \in BOOLEAN /\ f.exact \in BOOLEAN
  BY <1>5 DEF FrameSet
<1> HIDE DEF f, b
<1>7. r.e.recv_tcp_mss = IF f.cmd THEN "path" ELSE "drawn"
  BY <1>2, <1>5, <1>6 DEF Tuned, f, b
<1>8. Akarin!recv_rnd_data_len(r.e, f) \/ Astray(r.e)
  BY <1>5, <1>6, <1>7 DEF Astray, Akarin!recv_rnd_data_len
<1>9. Tuned(x, r.e, e0, f.cmd)
  BY <1>2, <1>7 DEF Tuned
<1>10. QED
  BY <1>8, <1>9 DEF f, b

LEMMA AkarinServerTurns ==
    ASSUME NEW w, NEW z, NEW C, NEW o, NEW e0, NEW r, NEW misread,
           w \in Seq(CellSet), o \in Seq(Nat), C \in BOOLEAN,
           r \in Reading("auth_akarin", "server", w, z, C, o, e0), r.st = "go",
           z.cmd => e0.send_tcp_mss = "path"
    PROVE  LET t == Akarin!ServerTurn(r, misread)
           IN  /\ t \in Reading("auth_akarin", "server", w, z, C, o, e0)
               /\ t.st = "go" => Len(t.e.recv_buf) < Len(r.e.recv_buf)
<1> DEFINE b == r.e.recv_buf
           ordered == /\ Len(b) > 1
                      /\ Akarin!IsGood(b[1], "len") /\ b[1].f.prev = r.e.recv_hash /\ b[1].f.cmd
           r1 == IF ordered THEN [r EXCEPT !.e.recv_tcp_mss = r.e.send_tcp_mss] ELSE r
           v == Akarin!FrameVerdict(r1.e, misread)
           t == Akarin!Turn(r1, misread)
           pr == "auth_akarin"
           x == "server"
<1>1. Akarin!ServerTurn(r, misread) = t
  BY DEF Akarin!ServerTurn
<1>2. r \in CallSet /\ b \in Seq(CellSet) /\ Len(b) \in Nat
  BY ReadingIs, CallParts
<1>3. Len(b) >= 2 => Len(b) > 1
  BY <1>2
<1>4. Len(b) >= 2 /\ b[1].f.cmd => ordered
  <2>1. PICK g, c : Flow(pr, x, b \o w, Here(r.e, g, c), z)
    BY ReadingIs
  <2>2. Hashed(pr) /\ Here(r.e, g, c).hash = r.e.recv_hash
    BY DEF Hashed, Here
  <2>3. ASSUME Len(b) >= 2 PROVE b[1].ok /\ b[1].t = "len" /\ b[1].f.prev = r.e.recv_hash
    BY <1>2, <2>1, <2>2, <2>3, ChainCells
  <2>4. QED
    BY <1>3, <2>3 DEF Akarin!IsGood
<1>5. /\ r1 \in Reading(pr, x, w, z, C, o, e0) /\ r1.st = "go" /\ r1.e.recv_buf = b
      /\ ordered => r1.e.recv_tcp_mss = "path"
  <2>1. CASE ordered
    <3> DEFINE r2 == Obeying(r)
    <3>1. /\ r2 \in Reading(pr, x, w, z, C, o, e0)
          /\ r2.e.recv_buf = r.e.recv_buf /\ r2.st = "go" /\ r2.e.recv_tcp_mss = "path"
      BY <2>1, OrderReads
    <3>2. r1 = r2
      BY <2>1 DEF Obeying
    <3> HIDE DEF r1, r2
    <3>3. QED
      BY <3>1, <3>2
  <2>2. CASE ~ordered
    BY <2>2
  <2>3. QED
    BY <2>1, <2>2
<1> HIDE DEF r1, ordered
<1> DEFINE f == r1.e.recv_buf[1].f
           bk == r1.back \/ f.d = <<>>
           e2 == Recounted(r1.e, NextId(r1.e.recv_id), f.prev + 1)
           ret == Returned(pr, x, r1.e.recv_id, r1.ret, f.d)
<1>6. Len(b) >= 2 =>
        /\ Akarin!recv_rnd_data_len(r1.e, f) \/ Astray(r1.e)
        /\ Tuned(x, r1.e, e0, f.cmd)
  <2>1. SUFFICES ASSUME Len(b) >= 2
                 PROVE  /\ Akarin!recv_rnd_data_len(r1.e, f) \/ Astray(r1.e)
                        /\ Tuned(x, r1.e, e0, f.cmd)
    OBVIOUS
  <2>2. r1.e.recv_buf[1].f.cmd => r1.e.recv_tcp_mss = "path"
    BY <1>4, <1>5, <2>1
  <2>3. QED
    BY <1>5, <2>1, <2>2, ServerLegible
<1>7. Legible(r1.e)
  BY <1>5, <1>6 DEF Legible
<1>8. \/ v = "stop"
      \/ v = "go" /\ Arrived(r1.e.recv_buf, f)
      \/ v \in {"bad", "raise"} /\ Astray(r1.e)
  BY <1>5, <1>7, AkarinJudged
<1>9. r1 \in CallSet /\ r1.back \in BOOLEAN /\ r1.e \in EndSet
  BY <1>5, ReadingIs, CallParts
<1>10. ASSUME v = "go"
       PROVE  /\ e2 \in EndSet /\ bk \in BOOLEAN /\ Kept(e2, r1.e) /\ Onward(pr, e2, r1.e)
              /\ Tuned(x, e2, e0, f.cmd)
              /\ t = TakeTo(r1, e2, Drop(r1.e.recv_buf, f.size), ret, bk)
  <2>1. Hashed(pr) /\ Arrived(r1.e.recv_buf, f)
    BY <1>8, <1>10 DEF Hashed
  <2>2. /\ f.prev = r1.e.recv_hash
        /\ e2 \in EndSet /\ e2.recv_buf = r1.e.recv_buf /\ Kept(e2, r1.e) /\ Onward(pr, e2, r1.e)
        /\ Akarin!Accept(r1.e, f) = e2
    <3> HIDE DEF f, pr
    <3>1. QED
      BY <1>5, <2>1, ChainAccept DEF pr
  <2>3. Len(b) >= 2
    <3>1. PICK g, c : Flow(pr, x, r1.e.recv_buf \o w, Here(r1.e, g, c), z)
      BY <1>5, ReadingIs
    <3>2. f.size \in {2, 3}
      BY <1>2, <1>5, <2>1, <3>1, BufferHead, SMTT(30) DEF Arrived
    <3>3. QED
      BY <1>2, <1>5, <2>1, <3>2 DEF Arrived
  <2>4. Tuned(x, e2, e0, f.cmd)
    <3> DEFINE e == r1.e
               k == NextId(r1.e.recv_id)
               h == f.prev + 1
    <3>1. e \in EndSet /\ k \in Nat /\ h \in Nat
      <4>1. r1.e.recv_hash \in Nat /\ r1.e.recv_id \in Nat
        BY <1>9, EndParts
      <4>2. k \in Nat
        BY <4>1, NextIdIs
      <4>3. QED
        BY <1>9, <2>2, <4>1, <4>2
    <3> HIDE DEF e, k, h
    <3>2. /\ Recounted(e, k, h).send_tcp_mss = e.send_tcp_mss
          /\ Recounted(e, k, h).recv_tcp_mss = e.recv_tcp_mss
          /\ Recounted(e, k, h).new_send_tcp_mss = e.new_send_tcp_mss
      BY <3>1, RecountedIs, SMTT(30)
    <3>3. QED
      BY <1>6, <2>3, <3>2 DEF Tuned, e, k, h
  <2>5. bk \in BOOLEAN
    BY <1>9
  <2> HIDE DEF e2
  <2>6. t = TakeTo(r1, e2, Drop(r1.e.recv_buf, f.size), ret, bk)
    BY <1>9, <1>10, <2>2 DEF Akarin!Turn, Akarin!Take, Akarin!Drop, Drop, CallSet, TakeTo, Returned
  <2>7. QED
    BY <2>2, <2>4, <2>5, <2>6
<1>11. v # "go" => t = [r1 EXCEPT !.st = v]
  BY DEF Akarin!Turn, Akarin!Stop
<1> HIDE DEF v, t, e2, bk, ret
<1>12. Bound(x, r1, e0, e2, bk, v, t)
  BY <1>10, <1>11 DEF Bound, ret
<1>13. Counts(C, pr, x, z)
  BY DEF Counts
<1> HIDE DEF x, b
<1>14. /\ t \in Reading(pr, x, w, z, C, o, e0)
       /\ t.st = "go" => Len(t.e.recv_buf) < Len(r1.e.recv_buf)
  BY <1>5, <1>8, <1>12, <1>13, AkarinTurn
<1>15. QED
  BY <1>1, <1>5, <1>14 DEF x, b

\* What the frame at the head says of the tcp_mss, at the client.
LEMMA ClientLegible ==
    ASSUME NEW w, NEW z, NEW C, NEW o, NEW e0, NEW r,
           w \in Seq(CellSet), r \in Reading("auth_akarin", "client", w, z, C, o, e0),
           Len(r.e.recv_buf) >= 2
    PROVE  Akarin!recv_rnd_data_len(r.e, r.e.recv_buf[1].f) \/ Astray(r.e)
<1> DEFINE b == r.e.recv_buf
           f == b[1].f
           pr == "auth_akarin"
           x == "client"
<1>1. r \in CallSet /\ b \in Seq(CellSet) /\ r.e \in EndSet /\ Len(b) \in Nat
  BY ReadingIs, CallParts
<1>2. PICK g, c : Flow(pr, x, b \o w, Here(r.e, g, c), z) /\ Tuned(x, r.e, e0, c)
  BY ReadingIs
<1>3. b # <<>>
  BY <1>1
<1>4. Fits(pr, x, Here(r.e, g, c), f)
  BY <1>1, <1>2, <1>3, BufferHead
<1>5. f \in FrameSet /\ (r.e.recv_hash # 0 => f.mss = "path")
  BY <1>4 DEF Fits, Here
<1>6. f.exact \in BOOLEAN
  BY <1>5 DEF FrameSet
<1> HIDE DEF f, b
<1>7. r.e.recv_tcp_mss = IF r.e.recv_hash = 0 THEN "default" ELSE "path"
  BY <1>2 DEF Tuned
<1>8. Akarin!recv_rnd_data_len(r.e, f) \/ Astray(r.e)
  BY <1>5, <1>6, <1>7 DEF Astray, Akarin!recv_rnd_data_len
<1>9. QED
  BY <1>8 DEF f, b

\* The client after a frame: the first one of the server tells its tcp_mss.
Told(e, k, h) ==
    IF e.recv_id = 1 THEN Set(Recounted(e, k, h), "path", TRUE) ELSE Recounted(e, k, h)

Later(e) == Told(e, NextId(e.recv_id), e.recv_hash + 1)

LEMMA ClientTuned ==
    ASSUME NEW w, NEW z, NEW C, NEW o, NEW e0, NEW r, NEW f,
           r \in Reading("auth_akarin", "client", w, z, C, o, e0)
    PROVE  /\ Tuned("client", Later(r.e), e0, f.cmd)
           /\ Later(r.e) \in EndSet /\ Kept(Later(r.e), r.e)
           /\ Onward("auth_akarin", Later(r.e), r.e)
           /\ Later(r.e).recv_buf = r.e.recv_buf
<1> DEFINE e == r.e
           k == NextId(e.recv_id)
           h == e.recv_hash + 1
           e2 == Told(e, k, h)
           e1 == Recounted(e, k, h)
<1>1. r \in CallSet /\ e \in EndSet /\ e.recv_hash \in Nat /\ e.recv_id \in Nat
  BY ReadingIs, CallParts
<1>2. PICK c : Tuned("client", e, e0, c)
  BY ReadingIs
<1>3. IdOf(e.recv_id, e.recv_hash)
  BY DEF Reading, Hashed
<1>4. h \in Nat /\ h # 0 /\ k \in Nat /\ Later(e) = e2
  BY <1>1, NextIdIs DEF Later
<1>5. e.recv_hash = 0 => e.recv_id = 1
  <2>1. 0 < IdMod
    BY IdModAssumption
  <2>2. QED
    BY <1>1, <1>3, <2>1, IdOfOne
<1> HIDE DEF e, h, e2, k
<1>6. /\ e1 \in EndSet /\ e1.recv_buf = e.recv_buf
      /\ e1.recv_id = k /\ e1.recv_hash = h /\ Kept(e1, e)
      /\ e1.send_tcp_mss = e.send_tcp_mss
      /\ e1.recv_tcp_mss = e.recv_tcp_mss
      /\ e1.new_send_tcp_mss = e.new_send_tcp_mss
      /\ e1.send_back_cmd = e.send_back_cmd
  BY <1>1, <1>4, RecountedIs
<1> HIDE DEF e1
<1>7. CASE e.recv_id = 1
  <2> DEFINE m == "path"
             s == TRUE
  <2>1. m \in Modes /\ s \in BOOLEAN
    BY DEF Modes
  <2>2. e2 = Set(e1, m, s)
    BY <1>7 DEF e1, Told, e2
  <2> HIDE DEF m, s
  <2>3. /\ Set(e1, m, s) \in EndSet /\ Set(e1, m, s).recv_buf = e1.recv_buf
        /\ Set(e1, m, s).recv_id = e1.recv_id /\ Set(e1, m, s).recv_hash = e1.recv_hash
        /\ Kept(Set(e1, m, s), e1)
        /\ Set(e1, m, s).send_tcp_mss = e1.send_tcp_mss
        /\ Set(e1, m, s).recv_tcp_mss = m
        /\ Set(e1, m, s).new_send_tcp_mss = e1.new_send_tcp_mss
        /\ Set(e1, m, s).send_back_cmd = s
    BY <1>6, <2>1, SetIs
  <2>4. Tuned("client", e2, e0, f.cmd)
    BY <1>2, <1>4, <1>6, <2>2, <2>3 DEF Tuned, m, s
  <2>5. Kept(e2, e)
    BY <1>6, <2>2, <2>3 DEF Kept
  <2>6. Onward("auth_akarin", e2, e)
    BY <1>6, <2>2, <2>3 DEF Onward, Numbered, Hashed, k, h
  <2>7. QED
    BY <1>4, <1>6, <2>2, <2>3, <2>4, <2>5, <2>6 DEF e
<1>8. CASE e.recv_id # 1
  <2>1. e2 = e1 /\ e.recv_hash # 0
    BY <1>5, <1>8 DEF e1, Told, e2
  <2>2. Tuned("client", e2, e0, f.cmd)
    BY <1>2, <1>4, <1>6, <2>1 DEF Tuned
  <2>3. Onward("auth_akarin", e2, e)
    BY <1>6, <2>1 DEF Onward, Numbered, Hashed, k, h
  <2>4. QED
    BY <1>4, <1>6, <2>1, <2>2, <2>3 DEF e
<1>9. QED
  BY <1>7, <1>8

LEMMA AkarinClientTurns ==
    ASSUME NEW w, NEW z, NEW C, NEW o, NEW e0, NEW r, NEW misread,
           w \in Seq(CellSet), o \in Seq(Nat), C \in BOOLEAN,
           r \in Reading("auth_akarin", "client", w, z, C, o, e0), r.st = "go",
           Counts(C, "auth_akarin", "client", z)
    PROVE  LET t == Akarin!ClientTurn(r, misread)
           IN  /\ t \in Reading("auth_akarin", "client", w, z, C, o, e0)
               /\ t.st = "go" => Len(t.e.recv_buf) < Len(r.e.recv_buf)
<1> DEFINE b == r.e.recv_buf
           f == b[1].f
           v == Akarin!FrameVerdict(r.e, misread)
           u == Akarin!Turn(r, misread)
           t == Akarin!ClientTurn(r, misread)
           pr == "auth_akarin"
           x == "client"
           k == NextId(r.e.recv_id)
           h == f.prev + 1
           e1 == Recounted(r.e, k, h)
           e2 == Told(r.e, k, h)
           bk == r.back \/ f.d = <<>>
           ret == Returned(pr, x, r.e.recv_id, r.ret, f.d)
<1>1. r \in CallSet /\ b \in Seq(CellSet) /\ r.e \in EndSet /\ r.back \in BOOLEAN /\ r.e.recv_id \in Nat
  BY ReadingIs, CallParts
<1>2. Legible(r.e)
  BY ClientLegible DEF Legible
<1>3. \/ v = "stop"
      \/ v = "go" /\ Arrived(b, f)
      \/ v \in {"bad", "raise"} /\ Astray(r.e)
  BY <1>2, AkarinJudged
<1>4. ASSUME v # "go" PROVE t = [r EXCEPT !.st = v]
  <2>1. u = [r EXCEPT !.st = v]
    BY <1>4 DEF Akarin!Turn, Akarin!Stop
  <2>2. u.st = v
    BY <1>1, <2>1 DEF CallSet
  <2>3. QED
    BY <1>4, <2>1, <2>2 DEF Akarin!ClientTurn
<1>5. ASSUME v = "go"
      PROVE  /\ e2 \in EndSet /\ bk \in BOOLEAN /\ Kept(e2, r.e) /\ Onward(pr, e2, r.e)
             /\ Tuned(x, e2, e0, f.cmd)
             /\ t = TakeTo(r, e2, Drop(b, f.size), ret, bk)
  <2>1. Hashed(pr) /\ Arrived(b, f)
    BY <1>3, <1>5 DEF Hashed
  <2>2. /\ f.prev = r.e.recv_hash
        /\ e1 \in EndSet /\ e1.recv_buf = b /\ Akarin!Accept(r.e, f) = e1
    <3> HIDE DEF f, pr
    <3>1. QED
      BY <2>1, ChainAccept DEF pr
  <2>4. e2 = Later(r.e)
    BY <2>2 DEF Later
  <2>5. /\ Tuned(x, e2, e0, f.cmd) /\ e2 \in EndSet /\ Kept(e2, r.e)
        /\ Onward(pr, e2, r.e) /\ e2.recv_buf = b
    <3> HIDE DEF f, e2
    <3>1. QED
      BY <2>4, ClientTuned
  <2>6. bk \in BOOLEAN
    BY <1>1
  <2> HIDE DEF k, h, e1
  <2> DEFINE buf == Drop(b, f.size)
             y == r.ret \o f.d
             u2 == TakeTo(r, e1, buf, y, bk)
  <2>7. u = u2
    BY <1>1, <1>5, <2>2 DEF Akarin!Turn, Akarin!Take, Akarin!Drop, Drop, CallSet, TakeTo
  <2>8. /\ u2.st = "go" /\ u2.ret = y
        /\ [u2 EXCEPT !.ret = Tail(y), !.e.recv_tcp_mss = "path", !.e.send_back_cmd = TRUE]
             = TakeTo(r, Set(e1, "path", TRUE), buf, Tail(y), bk)
    <3> HIDE DEF buf, y, bk
    <3>1. u2.st = "go" /\ u2.ret = y
      BY <1>1 DEF TakeTo, CallSet
    <3> DEFINE B == Seq(CellSet)
               e3 == [e1 EXCEPT !.recv_buf = buf]
    <3>2. e1 \in [has_header : BOOLEAN, raw_trans : BOOLEAN, dead : BOOLEAN,
         recv_buf : B, pack_id : Nat, recv_id : Nat,
         sent_hash : Nat, recv_hash : Nat, decrypt_packet_num : Nat,
         extra_wait : Nat, send_tcp_mss : Modes, recv_tcp_mss : Modes,
         new_send_tcp_mss : Modes, send_back_cmd : BOOLEAN]
      BY <2>2 DEF EndSet
    <3> HIDE DEF B
    <3>3. [e3 EXCEPT !.recv_tcp_mss = "path", !.send_back_cmd = TRUE]
            = [Set(e1, "path", TRUE) EXCEPT !.recv_buf = buf]
      BY <3>2 DEF Set
    <3> HIDE DEF e3
    <3>4. u2 = [r EXCEPT !.e = e3, !.ret = y, !.back = bk]
      BY DEF TakeTo, e3
    <3>5. [u2 EXCEPT !.ret = Tail(y), !.e.recv_tcp_mss = "path", !.e.send_back_cmd = TRUE]
            = [r EXCEPT !.e = [e3 EXCEPT !.recv_tcp_mss = "path", !.send_back_cmd = TRUE], !.ret = Tail(y), !.back = bk]
      BY <1>1, <3>4, Zenon DEF CallSet
    <3>6. QED
      BY <3>1, <3>3, <3>5 DEF TakeTo
  <2>9. CASE r.e.recv_id = 1
    <3>1. t = [u2 EXCEPT !.ret = Tail(u2.ret), !.e.recv_tcp_mss = "path", !.e.send_back_cmd = TRUE]
      BY <2>7, <2>8, <2>9, Zenon DEF Akarin!ClientTurn
    <3>2. ret = Tail(y) /\ e2 = Set(e1, "path", TRUE)
      BY <2>1, <2>9, Zenon DEF Returned, Told, e1
    <3>3. QED
      BY <2>4, <2>5, <2>6, <2>8, <3>1, <3>2, Zenon
  <2>10. CASE r.e.recv_id # 1
    <3>1. t = u2
      BY <2>7, <2>10 DEF Akarin!ClientTurn
    <3>2. ret = y /\ e2 = e1
      BY <2>10 DEF Returned, Told, e1
    <3>3. QED
      BY <2>4, <2>5, <2>6, <3>1, <3>2, Zenon
  <2>11. QED
    BY <2>9, <2>10
<1> HIDE DEF v, u, t, e2, bk, ret, f, pr, x
<1>6. Bound(x, r, e0, e2, bk, v, t)
  BY <1>4, <1>5 DEF Bound, ret, f, pr
<1> HIDE DEF b
<1>7. /\ t \in Reading(pr, x, w, z, C, o, e0)
      /\ t.st = "go" => Len(t.e.recv_buf) < Len(r.e.recv_buf)
  BY <1>3, <1>6, AkarinTurn DEF pr, x, b, f
<1>8. QED
  BY <1>7 DEF pr, x, t

-----------------------------------------------------------------------------
(* The loops.                                                              *)

LEMMA V4Reads ==
    ASSUME NEW x, NEW w, NEW z, NEW C, NEW o, NEW e0, NEW r,
           w \in Seq(CellSet), o \in Seq(Nat), C \in BOOLEAN,
           r \in Reading("auth_sha1_v4", x, w, z, C, o, e0)
    PROVE  /\ V4!ReadFrames(r, V4!Turn) \in Reading("auth_sha1_v4", x, w, z, C, o, e0)
           /\ V4!ReadFrames(r, V4!Turn).st = "go" => Len(V4!ReadFrames(r, V4!Turn).e.recv_buf) = 0
<1> DEFINE G == Reading("auth_sha1_v4", x, w, z, C, o, e0)
           K == Len(r.e.recv_buf)
           T == [y \in G |-> IF y.st = "go" THEN V4!Turn(y) ELSE y]
           size == [y \in G |-> Len(y.e.recv_buf)]
           F == CHOOSE g : g = [n \in 0 .. Len(r.e.recv_buf) |->
                                  IF n = 0 THEN r
                                  ELSE IF g[n - 1].st = "go" THEN V4!Turn(g[n - 1]) ELSE g[n - 1]]
<1>1. V4!ReadFrames(r, V4!Turn) = F[K]
  BY DEF V4!ReadFrames
<1>2. r \in G /\ K \in Nat
  BY ReadingIs, CallParts
<1>3. T \in [G -> G] /\ \A y \in G : IF y.st = "go" THEN T[y].st = "go" => Len(T[y].e.recv_buf) < Len(y.e.recv_buf)
                                                 ELSE T[y] = y
  <2>1. ASSUME NEW y \in G, y.st = "go"
        PROVE  /\ V4!Turn(y) \in G
               /\ V4!Turn(y).st = "go" => Len(V4!Turn(y).e.recv_buf) < Len(y.e.recv_buf)
    BY <2>1, V4Turns
  <2> HIDE DEF G
  <2>2. QED
    BY <2>1
<1>4. size \in [G -> Nat] /\ \A y \in G : size[y] = Len(y.e.recv_buf)
  <2>1. \A y \in G : Len(y.e.recv_buf) \in Nat
    BY ReadingIs, CallParts
  <2> HIDE DEF G
  <2>2. QED
    BY <2>1
<1>5. \A y \in G : T[y] = IF y.st = "go" THEN V4!Turn(y) ELSE y
  OBVIOUS
<1> HIDE DEF G, K, T, size
<1>6. PICK f : Steps(f, G, K, r, T)
  BY <1>2, <1>3, LoopFunction
<1>7. f = [n \in 0 .. K |-> IF n = 0 THEN r ELSE IF f[n - 1].st = "go" THEN V4!Turn(f[n - 1]) ELSE f[n - 1]]
  <2>1. ASSUME NEW n \in 0 .. K
        PROVE  f[n] = IF n = 0 THEN r ELSE IF f[n - 1].st = "go" THEN V4!Turn(f[n - 1]) ELSE f[n - 1]
    <3>1. CASE n = 0
      BY <1>6, <3>1 DEF Steps
    <3>2. CASE n # 0
      <4>1. n \in 1 .. K /\ n - 1 \in 0 .. K
        BY <1>2, <3>2
      <4>2. f[n] = T[f[n - 1]] /\ f[n - 1] \in G
        BY <1>6, <4>1, Zenon DEF Steps
      <4>3. QED
        BY <1>5, <3>2, <4>2
    <3>3. QED
      BY <3>1, <3>2
  <2>2. QED
    BY <1>6, <2>1 DEF Steps
<1>8. F = [n \in 0 .. K |-> IF n = 0 THEN r ELSE IF F[n - 1].st = "go" THEN V4!Turn(F[n - 1]) ELSE F[n - 1]]
  BY <1>7, Zenon DEF K
<1> HIDE DEF F
<1>9. Loops(F, G, K, r, T)
  <2>1. 0 \in 0 .. K /\ \A n \in 1 .. K : n \in 0 .. K /\ n # 0
    BY <1>2
  <2>2. F[0] = r
    BY <1>8, <2>1
  <2>3. ASSUME NEW n \in 1 .. K, F[n - 1] \in G PROVE F[n] = T[F[n - 1]]
    <3>1. F[n] = IF F[n - 1].st = "go" THEN V4!Turn(F[n - 1]) ELSE F[n - 1]
      BY <1>8, <2>1
    <3>2. QED
      BY <1>5, <2>3, <3>1
  <2>4. QED
    BY <2>2, <2>3 DEF Loops
<1>10. size[r] <= K
  BY <1>2, <1>4 DEF K
<1>11. Shortens(G, T, size) /\ T \in [G -> G] /\ size \in [G -> Nat]
  BY <1>3, <1>4 DEF Shortens
<1>12. F[K] \in G /\ (F[K].st = "go" => size[F[K]] = 0)
  BY <1>2, <1>9, <1>10, <1>11, LoopStays
<1>13. QED
  BY <1>1, <1>4, <1>12 DEF G

LEMMA AesReads ==
    ASSUME NEW x, NEW w, NEW z, NEW C, NEW o, NEW e0, NEW r,
           w \in Seq(CellSet), o \in Seq(Nat), C \in BOOLEAN,
           r \in Reading("auth_aes128", x, w, z, C, o, e0)
    PROVE  /\ Aes!ReadFrames(r, Aes!Turn) \in Reading("auth_aes128", x, w, z, C, o, e0)
           /\ Aes!ReadFrames(r, Aes!Turn).st = "go" => Len(Aes!ReadFrames(r, Aes!Turn).e.recv_buf) = 0
<1> DEFINE G == Reading("auth_aes128", x, w, z, C, o, e0)
           K == Len(r.e.recv_buf)
           T == [y \in G |-> IF y.st = "go" THEN Aes!Turn(y) ELSE y]
           size == [y \in G |-> Len(y.e.recv_buf)]
           F == CHOOSE g : g = [n \in 0 .. Len(r.e.recv_buf) |->
                                  IF n = 0 THEN r
                                  ELSE IF g[n - 1].st = "go" THEN Aes!Turn(g[n - 1]) ELSE g[n - 1]]
<1>1. Aes!ReadFrames(r, Aes!Turn) = F[K]
  BY DEF Aes!ReadFrames
<1>2. r \in G /\ K \in Nat
  BY ReadingIs, CallParts
<1>3. T \in [G -> G] /\ \A y \in G : IF y.st = "go" THEN T[y].st = "go" => Len(T[y].e.recv_buf) < Len(y.e.recv_buf)
                                                 ELSE T[y] = y
  <2>1. ASSUME NEW y \in G, y.st = "go"
        PROVE  /\ Aes!Turn(y) \in G
               /\ Aes!Turn(y).st = "go" => Len(Aes!Turn(y).e.recv_buf) < Len(y.e.recv_buf)
    BY <2>1, AesTurns
  <2> HIDE DEF G
  <2>2. QED
    BY <2>1
<1>4. size \in [G -> Nat] /\ \A y \in G : size[y] = Len(y.e.recv_buf)
  <2>1. \A y \in G : Len(y.e.recv_buf) \in Nat
    BY ReadingIs, CallParts
  <2> HIDE DEF G
  <2>2. QED
    BY <2>1
<1>5. \A y \in G : T[y] = IF y.st = "go" THEN Aes!Turn(y) ELSE y
  OBVIOUS
<1> HIDE DEF G, K, T, size
<1>6. PICK f : Steps(f, G, K, r, T)
  BY <1>2, <1>3, LoopFunction
<1>7. f = [n \in 0 .. K |-> IF n = 0 THEN r ELSE IF f[n - 1].st = "go" THEN Aes!Turn(f[n - 1]) ELSE f[n - 1]]
  <2>1. ASSUME NEW n \in 0 .. K
        PROVE  f[n] = IF n = 0 THEN r ELSE IF f[n - 1].st = "go" THEN Aes!Turn(f[n - 1]) ELSE f[n - 1]
    <3>1. CASE n = 0
      BY <1>6, <3>1 DEF Steps
    <3>2. CASE n # 0
      <4>1. n \in 1 .. K /\ n - 1 \in 0 .. K
        BY <1>2, <3>2
      <4>2. f[n] = T[f[n - 1]] /\ f[n - 1] \in G
        BY <1>6, <4>1, Zenon DEF Steps
      <4>3. QED
        BY <1>5, <3>2, <4>2
    <3>3. QED
      BY <3>1, <3>2
  <2>2. QED
    BY <1>6, <2>1 DEF Steps
<1>8. F = [n \in 0 .. K |-> IF n = 0 THEN r ELSE IF F[n - 1].st = "go" THEN Aes!Turn(F[n - 1]) ELSE F[n - 1]]
  BY <1>7, Zenon DEF K
<1> HIDE DEF F
<1>9. Loops(F, G, K, r, T)
  <2>1. 0 \in 0 .. K /\ \A n \in 1 .. K : n \in 0 .. K /\ n # 0
    BY <1>2
  <2>2. F[0] = r
    BY <1>8, <2>1
  <2>3. ASSUME NEW n \in 1 .. K, F[n - 1] \in G PROVE F[n] = T[F[n - 1]]
    <3>1. F[n] = IF F[n - 1].st = "go" THEN Aes!Turn(F[n - 1]) ELSE F[n - 1]
      BY <1>8, <2>1
    <3>2. QED
      BY <1>5, <2>3, <3>1
  <2>4. QED
    BY <2>2, <2>3 DEF Loops
<1>10. size[r] <= K
  BY <1>2, <1>4 DEF K
<1>11. Shortens(G, T, size) /\ T \in [G -> G] /\ size \in [G -> Nat]
  BY <1>3, <1>4 DEF Shortens
<1>12. F[K] \in G /\ (F[K].st = "go" => size[F[K]] = 0)
  BY <1>2, <1>9, <1>10, <1>11, LoopStays
<1>13. QED
  BY <1>1, <1>4, <1>12 DEF G

ChainServerLoop(r, misread) == Chain!ReadFrames(r, LAMBDA y : Chain!Turn(y, misread))

LEMMA ChainServerReads ==
    ASSUME NEW w, NEW z, NEW C, NEW o, NEW e0, NEW r, NEW misread,
           w \in Seq(CellSet), o \in Seq(Nat), C \in BOOLEAN,
           r \in Reading("auth_chain", "server", w, z, C, o, e0)
    PROVE  /\ ChainServerLoop(r, misread) \in Reading("auth_chain", "server", w, z, C, o, e0)
           /\ ChainServerLoop(r, misread).st = "go" => Len(ChainServerLoop(r, misread).e.recv_buf) = 0
<1> DEFINE G == Reading("auth_chain", "server", w, z, C, o, e0)
           K == Len(r.e.recv_buf)
           T == [y \in G |-> IF y.st = "go" THEN Chain!Turn(y, misread) ELSE y]
           size == [y \in G |-> Len(y.e.recv_buf)]
           F == CHOOSE g : g = [n \in 0 .. Len(r.e.recv_buf) |->
                                  IF n = 0 THEN r
                                  ELSE IF g[n - 1].st = "go" THEN Chain!Turn(g[n - 1], misread) ELSE g[n - 1]]
<1>1. ChainServerLoop(r, misread) = F[K]
  BY DEF Chain!ReadFrames, ChainServerLoop
<1>2. r \in G /\ K \in Nat
  BY ReadingIs, CallParts
<1>3. T \in [G -> G] /\ \A y \in G : IF y.st = "go" THEN T[y].st = "go" => Len(T[y].e.recv_buf) < Len(y.e.recv_buf)
                                                 ELSE T[y] = y
  <2>1. ASSUME NEW y \in G, y.st = "go"
        PROVE  /\ Chain!Turn(y, misread) \in G
               /\ Chain!Turn(y, misread).st = "go" => Len(Chain!Turn(y, misread).e.recv_buf) < Len(y.e.recv_buf)
    BY <2>1, ChainTurns DEF Counts
  <2> HIDE DEF G
  <2>2. QED
    BY <2>1
<1>4. size \in [G -> Nat] /\ \A y \in G : size[y] = Len(y.e.recv_buf)
  <2>1. \A y \in G : Len(y.e.recv_buf) \in Nat
    BY ReadingIs, CallParts
  <2> HIDE DEF G
  <2>2. QED
    BY <2>1
<1>5. \A y \in G : T[y] = IF y.st = "go" THEN Chain!Turn(y, misread) ELSE y
  OBVIOUS
<1> HIDE DEF G, K, T, size
<1>6. PICK f : Steps(f, G, K, r, T)
  BY <1>2, <1>3, LoopFunction
<1>7. f = [n \in 0 .. K |-> IF n = 0 THEN r ELSE IF f[n - 1].st = "go" THEN Chain!Turn(f[n - 1], misread) ELSE f[n - 1]]
  <2>1. ASSUME NEW n \in 0 .. K
        PROVE  f[n] = IF n = 0 THEN r ELSE IF f[n - 1].st = "go" THEN Chain!Turn(f[n - 1], misread) ELSE f[n - 1]
    <3>1. CASE n = 0
      BY <1>6, <3>1 DEF Steps
    <3>2. CASE n # 0
      <4>1. n \in 1 .. K /\ n - 1 \in 0 .. K
        BY <1>2, <3>2
      <4>2. f[n] = T[f[n - 1]] /\ f[n - 1] \in G
        BY <1>6, <4>1 DEF Steps
      <4>3. QED
        BY <1>5, <3>2, <4>2
    <3>3. QED
      BY <3>1, <3>2
  <2>2. QED
    BY <1>6, <2>1 DEF Steps
<1>8. F = [n \in 0 .. K |-> IF n = 0 THEN r ELSE IF F[n - 1].st = "go" THEN Chain!Turn(F[n - 1], misread) ELSE F[n - 1]]
  BY <1>7, Zenon DEF K
<1> HIDE DEF F
<1>9. Loops(F, G, K, r, T)
  <2>1. 0 \in 0 .. K /\ \A n \in 1 .. K : n \in 0 .. K /\ n # 0
    BY <1>2
  <2>2. F[0] = r
    BY <1>8, <2>1
  <2>3. ASSUME NEW n \in 1 .. K, F[n - 1] \in G PROVE F[n] = T[F[n - 1]]
    <3>1. F[n] = IF F[n - 1].st = "go" THEN Chain!Turn(F[n - 1], misread) ELSE F[n - 1]
      BY <1>8, <2>1
    <3>2. QED
      BY <1>5, <2>3, <3>1
  <2>4. QED
    BY <2>2, <2>3 DEF Loops
<1>10. size[r] <= K
  BY <1>2, <1>4 DEF K
<1>11. Shortens(G, T, size) /\ T \in [G -> G] /\ size \in [G -> Nat]
  BY <1>3, <1>4 DEF Shortens
<1>12. F[K] \in G /\ (F[K].st = "go" => size[F[K]] = 0)
  BY <1>2, <1>9, <1>10, <1>11, LoopStays
<1>13. QED
  BY <1>1, <1>4, <1>12 DEF G

ChainClientLoop(r, misread) == Chain!ReadFrames(r, LAMBDA y : Chain!ClientTurn(y, misread))

LEMMA ChainClientReads ==
    ASSUME NEW w, NEW z, NEW C, NEW o, NEW e0, NEW r, NEW misread,
           w \in Seq(CellSet), o \in Seq(Nat), C \in BOOLEAN,
           r \in Reading("auth_chain", "client", w, z, C, o, e0),
           Counts(C, "auth_chain", "client", z)
    PROVE  /\ ChainClientLoop(r, misread) \in Reading("auth_chain", "client", w, z, C, o, e0)
           /\ ChainClientLoop(r, misread).st = "go" => Len(ChainClientLoop(r, misread).e.recv_buf) = 0
<1> DEFINE G == Reading("auth_chain", "client", w, z, C, o, e0)
           K == Len(r.e.recv_buf)
           T == [y \in G |-> IF y.st = "go" THEN Chain!ClientTurn(y, misread) ELSE y]
           size == [y \in G |-> Len(y.e.recv_buf)]
           F == CHOOSE g : g = [n \in 0 .. Len(r.e.recv_buf) |->
                                  IF n = 0 THEN r
                                  ELSE IF g[n - 1].st = "go" THEN Chain!ClientTurn(g[n - 1], misread) ELSE g[n - 1]]
<1>1. ChainClientLoop(r, misread) = F[K]
  BY DEF Chain!ReadFrames, ChainClientLoop
<1>2. r \in G /\ K \in Nat
  BY ReadingIs, CallParts
<1>3. T \in [G -> G] /\ \A y \in G : IF y.st = "go" THEN T[y].st = "go" => Len(T[y].e.recv_buf) < Len(y.e.recv_buf)
                                                 ELSE T[y] = y
  <2>1. ASSUME NEW y \in G, y.st = "go"
        PROVE  /\ Chain!ClientTurn(y, misread) \in G
               /\ Chain!ClientTurn(y, misread).st = "go" => Len(Chain!ClientTurn(y, misread).e.recv_buf) < Len(y.e.recv_buf)
    BY <2>1, ChainTurns
  <2> HIDE DEF G
  <2>2. QED
    BY <2>1
<1>4. size \in [G -> Nat] /\ \A y \in G : size[y] = Len(y.e.recv_buf)
  <2>1. \A y \in G : Len(y.e.recv_buf) \in Nat
    BY ReadingIs, CallParts
  <2> HIDE DEF G
  <2>2. QED
    BY <2>1
<1>5. \A y \in G : T[y] = IF y.st = "go" THEN Chain!ClientTurn(y, misread) ELSE y
  OBVIOUS
<1> HIDE DEF G, K, T, size
<1>6. PICK f : Steps(f, G, K, r, T)
  BY <1>2, <1>3, LoopFunction
<1>7. f = [n \in 0 .. K |-> IF n = 0 THEN r ELSE IF f[n - 1].st = "go" THEN Chain!ClientTurn(f[n - 1], misread) ELSE f[n - 1]]
  <2>1. ASSUME NEW n \in 0 .. K
        PROVE  f[n] = IF n = 0 THEN r ELSE IF f[n - 1].st = "go" THEN Chain!ClientTurn(f[n - 1], misread) ELSE f[n - 1]
    <3>1. CASE n = 0
      BY <1>6, <3>1 DEF Steps
    <3>2. CASE n # 0
      <4>1. n \in 1 .. K /\ n - 1 \in 0 .. K
        BY <1>2, <3>2
      <4>2. f[n] = T[f[n - 1]] /\ f[n - 1] \in G
        BY <1>6, <4>1 DEF Steps
      <4>3. QED
        BY <1>5, <3>2, <4>2
    <3>3. QED
      BY <3>1, <3>2
  <2>2. QED
    BY <1>6, <2>1 DEF Steps
<1>8. F = [n \in 0 .. K |-> IF n = 0 THEN r ELSE IF F[n - 1].st = "go" THEN Chain!ClientTurn(F[n - 1], misread) ELSE F[n - 1]]
  BY <1>7, Zenon DEF K
<1> HIDE DEF F
<1>9. Loops(F, G, K, r, T)
  <2>1. 0 \in 0 .. K /\ \A n \in 1 .. K : n \in 0 .. K /\ n # 0
    BY <1>2
  <2>2. F[0] = r
    BY <1>8, <2>1
  <2>3. ASSUME NEW n \in 1 .. K, F[n - 1] \in G PROVE F[n] = T[F[n - 1]]
    <3>1. F[n] = IF F[n - 1].st = "go" THEN Chain!ClientTurn(F[n - 1], misread) ELSE F[n - 1]
      BY <1>8, <2>1
    <3>2. QED
      BY <1>5, <2>3, <3>1
  <2>4. QED
    BY <2>2, <2>3 DEF Loops
<1>10. size[r] <= K
  BY <1>2, <1>4 DEF K
<1>11. Shortens(G, T, size) /\ T \in [G -> G] /\ size \in [G -> Nat]
  BY <1>3, <1>4 DEF Shortens
<1>12. F[K] \in G /\ (F[K].st = "go" => size[F[K]] = 0)
  BY <1>2, <1>9, <1>10, <1>11, LoopStays
<1>13. QED
  BY <1>1, <1>4, <1>12 DEF G

AkarinServerLoop(r, misread) == Akarin!ReadFrames(r, LAMBDA y : Akarin!ServerTurn(y, misread))

LEMMA AkarinServerReads ==
    ASSUME NEW w, NEW z, NEW C, NEW o, NEW e0, NEW r, NEW misread,
           w \in Seq(CellSet), o \in Seq(Nat), C \in BOOLEAN,
           r \in Reading("auth_akarin", "server", w, z, C, o, e0),
           z.cmd => e0.send_tcp_mss = "path"
    PROVE  /\ AkarinServerLoop(r, misread) \in Reading("auth_akarin", "server", w, z, C, o, e0)
           /\ AkarinServerLoop(r, misread).st = "go" => Len(AkarinServerLoop(r, misread).e.recv_buf) = 0
<1> DEFINE G == Reading("auth_akarin", "server", w, z, C, o, e0)
           K == Len(r.e.recv_buf)
           T == [y \in G |-> IF y.st = "go" THEN Akarin!ServerTurn(y, misread) ELSE y]
           size == [y \in G |-> Len(y.e.recv_buf)]
           F == CHOOSE g : g = [n \in 0 .. Len(r.e.recv_buf) |->
                                  IF n = 0 THEN r
                                  ELSE IF g[n - 1].st = "go" THEN Akarin!ServerTurn(g[n - 1], misread) ELSE g[n - 1]]
<1>1. AkarinServerLoop(r, misread) = F[K]
  BY DEF Akarin!ReadFrames, AkarinServerLoop
<1>2. r \in G /\ K \in Nat
  BY ReadingIs, CallParts
<1>3. T \in [G -> G] /\ \A y \in G : IF y.st = "go" THEN T[y].st = "go" => Len(T[y].e.recv_buf) < Len(y.e.recv_buf)
                                                 ELSE T[y] = y
  <2>1. ASSUME NEW y \in G, y.st = "go"
        PROVE  /\ Akarin!ServerTurn(y, misread) \in G
               /\ Akarin!ServerTurn(y, misread).st = "go" => Len(Akarin!ServerTurn(y, misread).e.recv_buf) < Len(y.e.recv_buf)
    BY <2>1, AkarinServerTurns
  <2> HIDE DEF G
  <2>2. QED
    BY <2>1
<1>4. size \in [G -> Nat] /\ \A y \in G : size[y] = Len(y.e.recv_buf)
  <2>1. \A y \in G : Len(y.e.recv_buf) \in Nat
    BY ReadingIs, CallParts
  <2> HIDE DEF G
  <2>2. QED
    BY <2>1
<1>5. \A y \in G : T[y] = IF y.st = "go" THEN Akarin!ServerTurn(y, misread) ELSE y
  OBVIOUS
<1> HIDE DEF G, K, T, size
<1>6. PICK f : Steps(f, G, K, r, T)
  BY <1>2, <1>3, LoopFunction
<1>7. f = [n \in 0 .. K |-> IF n = 0 THEN r ELSE IF f[n - 1].st = "go" THEN Akarin!ServerTurn(f[n - 1], misread) ELSE f[n - 1]]
  <2>1. ASSUME NEW n \in 0 .. K
        PROVE  f[n] = IF n = 0 THEN r ELSE IF f[n - 1].st = "go" THEN Akarin!ServerTurn(f[n - 1], misread) ELSE f[n - 1]
    <3>1. CASE n = 0
      BY <1>6, <3>1 DEF Steps
    <3>2. CASE n # 0
      <4>1. n \in 1 .. K /\ n - 1 \in 0 .. K
        BY <1>2, <3>2
      <4>2. f[n] = T[f[n - 1]] /\ f[n - 1] \in G
        BY <1>6, <4>1 DEF Steps
      <4>3. QED
        BY <1>5, <3>2, <4>2
    <3>3. QED
      BY <3>1, <3>2
  <2>2. QED
    BY <1>6, <2>1 DEF Steps
<1>8. F = [n \in 0 .. K |-> IF n = 0 THEN r ELSE IF F[n - 1].st = "go" THEN Akarin!ServerTurn(F[n - 1], misread) ELSE F[n - 1]]
  BY <1>7, Zenon DEF K
<1> HIDE DEF F
<1>9. Loops(F, G, K, r, T)
  <2>1. 0 \in 0 .. K /\ \A n \in 1 .. K : n \in 0 .. K /\ n # 0
    BY <1>2
  <2>2. F[0] = r
    BY <1>8, <2>1
  <2>3. ASSUME NEW n \in 1 .. K, F[n - 1] \in G PROVE F[n] = T[F[n - 1]]
    <3>1. F[n] = IF F[n - 1].st = "go" THEN Akarin!ServerTurn(F[n - 1], misread) ELSE F[n - 1]
      BY <1>8, <2>1
    <3>2. QED
      BY <1>5, <2>3, <3>1
  <2>4. QED
    BY <2>2, <2>3 DEF Loops
<1>10. size[r] <= K
  BY <1>2, <1>4 DEF K
<1>11. Shortens(G, T, size) /\ T \in [G -> G] /\ size \in [G -> Nat]
  BY <1>3, <1>4 DEF Shortens
<1>12. F[K] \in G /\ (F[K].st = "go" => size[F[K]] = 0)
  BY <1>2, <1>9, <1>10, <1>11, LoopStays
<1>13. QED
  BY <1>1, <1>4, <1>12 DEF G

AkarinClientLoop(r, misread) == Akarin!ReadFrames(r, LAMBDA y : Akarin!ClientTurn(y, misread))

LEMMA AkarinClientReads ==
    ASSUME NEW w, NEW z, NEW C, NEW o, NEW e0, NEW r, NEW misread,
           w \in Seq(CellSet), o \in Seq(Nat), C \in BOOLEAN,
           r \in Reading("auth_akarin", "client", w, z, C, o, e0),
           Counts(C, "auth_akarin", "client", z)
    PROVE  /\ AkarinClientLoop(r, misread) \in Reading("auth_akarin", "client", w, z, C, o, e0)
           /\ AkarinClientLoop(r, misread).st = "go" => Len(AkarinClientLoop(r, misread).e.recv_buf) = 0
<1> DEFINE G == Reading("auth_akarin", "client", w, z, C, o, e0)
           K == Len(r.e.recv_buf)
           T == [y \in G |-> IF y.st = "go" THEN Akarin!ClientTurn(y, misread) ELSE y]
           size == [y \in G |-> Len(y.e.recv_buf)]
           F == CHOOSE g : g = [n \in 0 .. Len(r.e.recv_buf) |->
                                  IF n = 0 THEN r
                                  ELSE IF g[n - 1].st = "go" THEN Akarin!ClientTurn(g[n - 1], misread) ELSE g[n - 1]]
<1>1. AkarinClientLoop(r, misread) = F[K]
  BY DEF Akarin!ReadFrames, AkarinClientLoop
<1>2. r \in G /\ K \in Nat
  BY ReadingIs, CallParts
<1>3. T \in [G -> G] /\ \A y \in G : IF y.st = "go" THEN T[y].st = "go" => Len(T[y].e.recv_buf) < Len(y.e.recv_buf)
                                                 ELSE T[y] = y
  <2>1. ASSUME NEW y \in G, y.st = "go"
        PROVE  /\ Akarin!ClientTurn(y, misread) \in G
               /\ Akarin!ClientTurn(y, misread).st = "go" => Len(Akarin!ClientTurn(y, misread).e.recv_buf) < Len(y.e.recv_buf)
    BY <2>1, AkarinClientTurns
  <2> HIDE DEF G
  <2>2. QED
    BY <2>1
<1>4. size \in [G -> Nat] /\ \A y \in G : size[y] = Len(y.e.recv_buf)
  <2>1. \A y \in G : Len(y.e.recv_buf) \in Nat
    BY ReadingIs, CallParts
  <2> HIDE DEF G
  <2>2. QED
    BY <2>1
<1>5. \A y \in G : T[y] = IF y.st = "go" THEN Akarin!ClientTurn(y, misread) ELSE y
  OBVIOUS
<1> HIDE DEF G, K, T, size
<1>6. PICK f : Steps(f, G, K, r, T)
  BY <1>2, <1>3, LoopFunction
<1>7. f = [n \in 0 .. K |-> IF n = 0 THEN r ELSE IF f[n - 1].st = "go" THEN Akarin!ClientTurn(f[n - 1], misread) ELSE f[n - 1]]
  <2>1. ASSUME NEW n \in 0 .. K
        PROVE  f[n] = IF n = 0 THEN r ELSE IF f[n - 1].st = "go" THEN Akarin!ClientTurn(f[n - 1], misread) ELSE f[n - 1]
    <3>1. CASE n = 0
      BY <1>6, <3>1 DEF Steps
    <3>2. CASE n # 0
      <4>1. n \in 1 .. K /\ n - 1 \in 0 .. K
        BY <1>2, <3>2
      <4>2. f[n] = T[f[n - 1]] /\ f[n - 1] \in G
        BY <1>6, <4>1 DEF Steps
      <4>3. QED
        BY <1>5, <3>2, <4>2
    <3>3. QED
      BY <3>1, <3>2
  <2>2. QED
    BY <1>6, <2>1 DEF Steps
<1>8. F = [n \in 0 .. K |-> IF n = 0 THEN r ELSE IF F[n - 1].st = "go" THEN Akarin!ClientTurn(F[n - 1], misread) ELSE F[n - 1]]
  BY <1>7, Zenon DEF K
<1> HIDE DEF F
<1>9. Loops(F, G, K, r, T)
  <2>1. 0 \in 0 .. K /\ \A n \in 1 .. K : n \in 0 .. K /\ n # 0
    BY <1>2
  <2>2. F[0] = r
    BY <1>8, <2>1
  <2>3. ASSUME NEW n \in 1 .. K, F[n - 1] \in G PROVE F[n] = T[F[n - 1]]
    <3>1. F[n] = IF F[n - 1].st = "go" THEN Akarin!ClientTurn(F[n - 1], misread) ELSE F[n - 1]
      BY <1>8, <2>1
    <3>2. QED
      BY <1>5, <2>3, <3>1
  <2>4. QED
    BY <2>2, <2>3 DEF Loops
<1>10. size[r] <= K
  BY <1>2, <1>4 DEF K
<1>11. Shortens(G, T, size) /\ T \in [G -> G] /\ size \in [G -> Nat]
  BY <1>3, <1>4 DEF Shortens
<1>12. F[K] \in G /\ (F[K].st = "go" => size[F[K]] = 0)
  BY <1>2, <1>9, <1>10, <1>11, LoopStays
<1>13. QED
  BY <1>1, <1>4, <1>12 DEF G

-----------------------------------------------------------------------------
(* Sending.                                                                *)

\* What sending leaves alone.
Spared(e2, e) ==
    /\ e2.has_header = e.has_header /\ e2.raw_trans = e.raw_trans /\ e2.dead = e.dead
    /\ e2.recv_buf = e.recv_buf /\ e2.recv_id = e.recv_id /\ e2.recv_hash = e.recv_hash
    /\ e2.recv_tcp_mss = e.recv_tcp_mss /\ e2.send_back_cmd = e.send_back_cmd
    /\ e2.new_send_tcp_mss = e.new_send_tcp_mss

\* The tcp_mss of auth_akarin in the frame f, and the one sent with after it.
Padded(x, e, f, e2) ==
    /\ x = "server" => /\ f.cmd = e.send_back_cmd /\ f.mss = e2.send_tcp_mss
                       /\ e2.send_tcp_mss = IF e.send_back_cmd THEN e.recv_tcp_mss ELSE e.send_tcp_mss
    /\ x = "client" => /\ ~f.cmd /\ f.mss = e.send_tcp_mss
                       /\ e2.send_tcp_mss = IF e.pack_id = 1 THEN e.new_send_tcp_mss ELSE e.send_tcp_mss

\* The end e packs the data d for end x into the frame f, which leaves it e2.
Made(pr, x, e, d, f, e2) ==
    /\ f \in FrameSet /\ f.d = d /\ e2 \in EndSet /\ Spared(e2, e)
    /\ ~Hashed(pr) => f.size = 3
    /\ Numbered(pr) => f.id = e.pack_id
    /\ Hashed(pr) => f.prev = e.sent_hash
    /\ pr # "auth_akarin" => ~f.cmd
    /\ pr = "auth_akarin" => Padded(x, e, f, e2)
    /\ e2.pack_id = IF Numbered(pr) THEN NextId(e.pack_id) ELSE e.pack_id
    /\ e2.sent_hash = IF Hashed(pr) THEN e.sent_hash + 1 ELSE e.sent_hash

\* p is the result of packing.
Packs(pr, x, e, d, p) ==
    \E f : Made(pr, x, e, d, f, p.e) /\ p.cells = Whole(f)

LEMMA NewFrameIs ==
    ASSUME NEW d, NEW id, NEW prev, NEW mss, NEW cmd, NEW exact, NEW size,
           d \in Seq(Nat), id \in Nat, prev \in Nat, mss \in Modes, cmd \in BOOLEAN, exact \in BOOLEAN,
           size \in {2, 3}, size = 2 => d = <<>>
    PROVE  [d |-> d, id |-> id, prev |-> prev, mss |-> mss, cmd |-> cmd, exact |-> exact, size |-> size] \in FrameSet
<1> DEFINE D == Seq(Nat)
<1>1. d \in D
  OBVIOUS
<1> HIDE DEF D
<1>2. [d |-> d, id |-> id, prev |-> prev, mss |-> mss, cmd |-> cmd, exact |-> exact, size |-> size]
        \in [d : D, id : Nat, prev : Nat, mss : Modes, cmd : BOOLEAN, exact : BOOLEAN, size : {2, 3}]
  BY <1>1
<1>3. QED
  BY <1>2 DEF FrameSet, D

\* The end with its sending side set.
Posted(e, k, h, m) == [e EXCEPT !.pack_id = k, !.sent_hash = h, !.send_tcp_mss = m]

LEMMA PostedIs ==
    ASSUME NEW e, NEW k, NEW h, NEW m, e \in EndSet, k \in Nat, h \in Nat, m \in Modes
    PROVE  /\ Posted(e, k, h, m) \in EndSet /\ Spared(Posted(e, k, h, m), e)
           /\ Posted(e, k, h, m).pack_id = k /\ Posted(e, k, h, m).sent_hash = h
           /\ Posted(e, k, h, m).send_tcp_mss = m
<1> DEFINE B == Seq(CellSet)
<1>1. e \in [has_header : BOOLEAN, raw_trans : BOOLEAN, dead : BOOLEAN,
     recv_buf : B, pack_id : Nat, recv_id : Nat,
     sent_hash : Nat, recv_hash : Nat, decrypt_packet_num : Nat,
     extra_wait : Nat, send_tcp_mss : Modes, recv_tcp_mss : Modes,
     new_send_tcp_mss : Modes, send_back_cmd : BOOLEAN]
  BY DEF EndSet
<1> HIDE DEF B
<1>2. Posted(e, k, h, m) \in [has_header : BOOLEAN, raw_trans : BOOLEAN, dead : BOOLEAN,
     recv_buf : B, pack_id : Nat, recv_id : Nat,
     sent_hash : Nat, recv_hash : Nat, decrypt_packet_num : Nat,
     extra_wait : Nat, send_tcp_mss : Modes, recv_tcp_mss : Modes,
     new_send_tcp_mss : Modes, send_back_cmd : BOOLEAN]
  BY <1>1 DEF Posted
<1>3. /\ Spared(Posted(e, k, h, m), e)
      /\ Posted(e, k, h, m).pack_id = k /\ Posted(e, k, h, m).sent_hash = h
      /\ Posted(e, k, h, m).send_tcp_mss = m
  BY <1>1 DEF Posted, Spared
<1>4. QED
  BY <1>2, <1>3 DEF B, EndSet

\* The fields that an assignment of the code leaves alone.
LEMMA PostedSame ==
    ASSUME NEW e, NEW k, NEW h, NEW m, e \in EndSet
    PROVE  /\ Posted(e, e.pack_id, e.sent_hash, e.send_tcp_mss) = e
           /\ [e EXCEPT !.pack_id = k] = Posted(e, k, e.sent_hash, e.send_tcp_mss)
           /\ [e EXCEPT !.pack_id = k, !.sent_hash = h] = Posted(e, k, h, e.send_tcp_mss)
           /\ [[e EXCEPT !.send_tcp_mss = m] EXCEPT !.pack_id = k, !.sent_hash = h] = Posted(e, k, h, m)
<1> DEFINE B == Seq(CellSet)
<1>1. e \in [has_header : BOOLEAN, raw_trans : BOOLEAN, dead : BOOLEAN,
     recv_buf : B, pack_id : Nat, recv_id : Nat,
     sent_hash : Nat, recv_hash : Nat, decrypt_packet_num : Nat,
     extra_wait : Nat, send_tcp_mss : Modes, recv_tcp_mss : Modes,
     new_send_tcp_mss : Modes, send_back_cmd : BOOLEAN]
  BY DEF EndSet
<1> HIDE DEF B
<1>2. QED
  BY <1>1 DEF Posted

LEMMA V4Packs ==
    ASSUME NEW x, NEW e, NEW d, e \in EndSet, d \in Seq(Nat)
    PROVE  Packs("auth_sha1_v4", x, e, d, V4!pack_data(e, d))
<1> DEFINE f == NewFrame(d)
<1>1. f \in FrameSet
  <2> DEFINE zero == 0
             mode == "default"
             no == FALSE
             three == 3
  <2>1. zero \in Nat /\ mode \in Modes /\ no \in BOOLEAN /\ three \in {2, 3} /\ (three = 2 => d = <<>>)
    BY DEF Modes
  <2>2. f = [d |-> d, id |-> zero, prev |-> zero, mss |-> mode, cmd |-> no, exact |-> no, size |-> three]
    BY DEF NewFrame
  <2> HIDE DEF zero, mode, no, three, f
  <2>3. QED
    BY <2>1, <2>2, NewFrameIs
<1>2. f.d = d /\ f.size = 3 /\ ~f.cmd
  BY DEF NewFrame
<1>3. V4!pack_data(e, d).e = e /\ V4!pack_data(e, d).cells = Whole(f)
  BY DEF V4!pack_data, V4!Cut, V4!FrameParts, V4!NewFrame, NewFrame, Whole, Cut, FrameParts
<1>4. Spared(e, e)
  BY DEF Spared
<1> HIDE DEF f
<1>5. Made("auth_sha1_v4", x, e, d, f, e)
  BY <1>1, <1>2, <1>4 DEF Made, Hashed, Numbered
<1>6. QED
  BY <1>3, <1>5 DEF Packs

LEMMA AesPacks ==
    ASSUME NEW x, NEW e, NEW d, e \in EndSet, d \in Seq(Nat)
    PROVE  Packs("auth_aes128", x, e, d, Aes!pack_data(e, d))
<1> DEFINE f == [NewFrame(d) EXCEPT !.id = e.pack_id]
           k == NextId(e.pack_id)
           h == e.sent_hash
           m == e.send_tcp_mss
           e2 == Posted(e, k, h, m)
<1>0. e.pack_id \in Nat /\ h \in Nat /\ m \in Modes /\ k \in Nat
  BY EndParts, NextIdIs
<1>1. f \in FrameSet
  <2> DEFINE zero == 0
             mode == "default"
             no == FALSE
             three == 3
             id == e.pack_id
  <2>1. zero \in Nat /\ mode \in Modes /\ no \in BOOLEAN /\ three \in {2, 3} /\ (three = 2 => d = <<>>) /\ id \in Nat
    BY <1>0 DEF Modes
  <2>2. NewFrame(d) = [d |-> d, id |-> zero, prev |-> zero, mss |-> mode, cmd |-> no, exact |-> no, size |-> three]
    BY DEF NewFrame
  <2> HIDE DEF zero, mode, no, three
  <2>3. f = [d |-> d, id |-> id, prev |-> zero, mss |-> mode, cmd |-> no, exact |-> no, size |-> three]
    BY <2>2
  <2> HIDE DEF f, id
  <2>4. QED
    BY <2>1, <2>3, NewFrameIs
<1>2. f.d = d /\ f.size = 3 /\ ~f.cmd /\ f.id = e.pack_id
  BY DEF NewFrame
<1>3. Aes!pack_data(e, d).e = [e EXCEPT !.pack_id = k] /\ Aes!pack_data(e, d).cells = Whole(f)
  BY DEF Aes!pack_data, Aes!Cut, Aes!FrameParts, Aes!NewFrame, NewFrame, Whole, Cut, FrameParts, Aes!NextId, NextId
<1> HIDE DEF f, k
<1>4. [e EXCEPT !.pack_id = k] = e2
  BY PostedSame, Zenon
<1> HIDE DEF h, m
<1>5. e2 \in EndSet /\ Spared(e2, e) /\ e2.pack_id = k /\ e2.sent_hash = h
  BY <1>0, PostedIs
<1> HIDE DEF e2
<1>6. Made("auth_aes128", x, e, d, f, e2)
  BY <1>1, <1>2, <1>5 DEF Made, Hashed, Numbered, k, h
<1>7. QED
  BY <1>3, <1>4, <1>6 DEF Packs

\* The fields of a frame, before its length is known.
LEMMA NewFrameFields ==
    ASSUME NEW d, d \in Seq(Nat)
    PROVE  /\ NewFrame(d) \in [d : Seq(Nat), id : Nat, prev : Nat, mss : Modes,
                               cmd : BOOLEAN, exact : BOOLEAN, size : {2, 3}]
           /\ NewFrame(d).d = d /\ ~NewFrame(d).cmd
<1>1. "default" \in Modes
  BY DEF Modes
<1>2. QED
  BY <1>1 DEF NewFrame

\* A frame of auth_chain.
ChainFrame(e, d, pad) ==
    [NewFrame(d) EXCEPT !.id = e.pack_id, !.prev = e.sent_hash, !.size = Chain!rnd_data(d, pad)]

LEMMA ChainFrameIs ==
    ASSUME NEW e, NEW d, NEW pad, e.pack_id \in Nat, e.sent_hash \in Nat, d \in Seq(Nat)
    PROVE  LET f == ChainFrame(e, d, pad)
           IN  f \in FrameSet /\ f.d = d /\ ~f.cmd /\ f.id = e.pack_id /\ f.prev = e.sent_hash
<1> DEFINE D == Seq(Nat)
           f0 == NewFrame(d)
           R == [d : D, id : Nat, prev : Nat, mss : Modes, cmd : BOOLEAN, exact : BOOLEAN, size : {2, 3}]
           f == ChainFrame(e, d, pad)
           id == e.pack_id
           prev == e.sent_hash
           size == Chain!rnd_data(d, pad)
<1>1. f0 \in R /\ f0.d = d /\ ~f0.cmd
  BY NewFrameFields
<1>2. id \in Nat /\ prev \in Nat /\ size \in {2, 3} /\ (size = 2 => d = <<>>)
  BY DEF Chain!rnd_data
<1>3. f = [f0 EXCEPT !.id = id, !.prev = prev, !.size = size]
  BY DEF ChainFrame
<1> HIDE DEF D, f0, f, id, prev, size
<1>4. f \in R /\ f.d = f0.d /\ f.cmd = f0.cmd /\ f.id = id /\ f.prev = prev /\ f.size = size
  BY <1>1, <1>2, <1>3
<1>5. f \in FrameSet
  BY <1>1, <1>2, <1>4 DEF FrameSet, D
<1>6. QED
  BY <1>1, <1>4, <1>5 DEF f, id, prev

LEMMA ChainPacks ==
    ASSUME NEW x, NEW e, NEW d, NEW pad, e \in EndSet, d \in Seq(Nat)
    PROVE  /\ Packs("auth_chain", x, e, d, Chain!pack_client_data(e, d, pad))
           /\ Packs("auth_chain", x, e, d, Chain!pack_server_data(e, d, pad))
<1> DEFINE f == ChainFrame(e, d, pad)
           k == NextId(e.pack_id)
           h == e.sent_hash + 1
           m == e.send_tcp_mss
           e2 == Posted(e, k, h, m)
<1>0. e.pack_id \in Nat /\ e.sent_hash \in Nat /\ h \in Nat /\ m \in Modes /\ k \in Nat
  <2>1. e.pack_id \in Nat /\ e.sent_hash \in Nat /\ m \in Modes
    BY EndParts
  <2>2. k \in Nat
    BY <2>1, NextIdIs
  <2>3. QED
    BY <2>1, <2>2
<1>1. f \in FrameSet /\ f.d = d /\ ~f.cmd /\ f.id = e.pack_id /\ f.prev = e.sent_hash
  BY <1>0, ChainFrameIs
<1>2. /\ Chain!pack_client_data(e, d, pad).e = [e EXCEPT !.pack_id = k, !.sent_hash = h]
      /\ Chain!pack_client_data(e, d, pad).cells = Whole(f)
      /\ Chain!pack_server_data(e, d, pad).e = [e EXCEPT !.pack_id = k, !.sent_hash = h]
      /\ Chain!pack_server_data(e, d, pad).cells = Whole(f)
  BY DEF Chain!pack_client_data, Chain!pack_server_data, Chain!Cut, Chain!FrameParts, Chain!NewFrame, NewFrame,
         Whole, Cut, FrameParts, Chain!NextId, NextId, ChainFrame
<1> HIDE DEF f, k, h
<1>3. [e EXCEPT !.pack_id = k, !.sent_hash = h] = e2
  BY PostedSame, Zenon
<1> HIDE DEF m
<1>4. e2 \in EndSet /\ Spared(e2, e) /\ e2.pack_id = k /\ e2.sent_hash = h
  BY <1>0, PostedIs
<1> HIDE DEF e2
<1>5. Made("auth_chain", x, e, d, f, e2)
  BY <1>1, <1>4 DEF Made, Hashed, Numbered, k, h
<1>6. QED
  BY <1>2, <1>3, <1>5 DEF Packs

LEMMA RoomIs ==
    ASSUME NEW e, NEW d, NEW pad,
           e.pack_id \in Nat, e.sent_hash \in Nat, e.send_tcp_mss \in Modes, d \in Seq(Nat), pad \in BOOLEAN
    PROVE  LET f == Akarin!send_rnd_data_len(e, d, pad)
           IN  /\ f \in FrameSet /\ f.d = d /\ ~f.cmd /\ f.id = e.pack_id /\ f.prev = e.sent_hash
               /\ f.mss = e.send_tcp_mss
<1> DEFINE D == Seq(Nat)
           f0 == NewFrame(d)
           R == [d : D, id : Nat, prev : Nat, mss : Modes, cmd : BOOLEAN, exact : BOOLEAN, size : {2, 3}]
           f == Akarin!send_rnd_data_len(e, d, pad)
           id == e.pack_id
           prev == e.sent_hash
           mss == e.send_tcp_mss
           exact == ~pad /\ d # <<>>
           size == IF d = <<>> /\ ~pad THEN 2 ELSE 3
<1>1. f0 \in R /\ f0.d = d /\ ~f0.cmd
  BY NewFrameFields
<1>2. id \in Nat /\ prev \in Nat /\ mss \in Modes /\ exact \in BOOLEAN /\ size \in {2, 3} /\ (size = 2 => d = <<>>)
  OBVIOUS
<1>3. f = [f0 EXCEPT !.id = id, !.prev = prev, !.mss = mss, !.exact = exact, !.size = size]
  BY DEF Akarin!send_rnd_data_len, Akarin!NewFrame, NewFrame
<1> HIDE DEF D, f0, f, id, prev, size, mss, exact
<1>4. /\ f \in R /\ f.d = f0.d /\ f.cmd = f0.cmd /\ f.id = id /\ f.prev = prev /\ f.mss = mss
      /\ f.size = size
  BY <1>1, <1>2, <1>3
<1>5. f \in FrameSet
  BY <1>1, <1>2, <1>4 DEF FrameSet, D
<1>6. QED
  BY <1>1, <1>4, <1>5 DEF f, id, prev, mss

\* A frame that says whether the server's tcp_mss is to be used.
Ordering(f, cmd) == [f EXCEPT !.cmd = cmd, !.size = IF cmd THEN 3 ELSE @]

LEMMA OrderingIs ==
    ASSUME NEW f0, NEW cmd, f0 \in FrameSet, cmd \in BOOLEAN
    PROVE  LET f == Ordering(f0, cmd)
           IN  /\ f \in FrameSet /\ f.d = f0.d /\ f.id = f0.id /\ f.prev = f0.prev /\ f.mss = f0.mss
               /\ f.cmd = cmd
<1> DEFINE D == Seq(Nat)
           R == [d : D, id : Nat, prev : Nat, mss : Modes, cmd : BOOLEAN, exact : BOOLEAN, size : {2, 3}]
           size == IF cmd THEN 3 ELSE f0.size
           f == Ordering(f0, cmd)
<1>1. f0 \in R /\ (f0.size = 2 => f0.d = <<>>)
  BY DEF FrameSet
<1>2. size \in {2, 3} /\ (size = 2 => f0.d = <<>>)
  BY <1>1
<1>3. f = [f0 EXCEPT !.cmd = cmd, !.size = size]
  BY DEF Ordering
<1> HIDE DEF D, size, f
<1>4. /\ f \in R /\ f.d = f0.d /\ f.id = f0.id /\ f.prev = f0.prev /\ f.mss = f0.mss
      /\ f.cmd = cmd /\ f.size = size
  BY <1>1, <1>2, <1>3
<1>5. f \in FrameSet
  BY <1>2, <1>4 DEF FrameSet, D
<1>6. QED
  BY <1>4, <1>5 DEF f

LEMMA AkarinServerPacks ==
    ASSUME NEW e, NEW d, NEW pad, e \in EndSet, d \in Seq(Nat), pad \in BOOLEAN
    PROVE  Packs("auth_akarin", "client", e, d, Akarin!pack_server_data(e, d, pad))
<1> DEFINE f == Akarin!send_rnd_data_len(e, d, pad)
           k == NextId(e.pack_id)
           h == e.sent_hash + 1
           m == IF e.pack_id = 1 THEN e.new_send_tcp_mss ELSE e.send_tcp_mss
           e2 == Posted(e, k, h, m)
           p == Akarin!pack_server_data(e, d, pad)
<1>1. /\ e.pack_id \in Nat /\ e.sent_hash \in Nat /\ e.send_tcp_mss \in Modes
      /\ e.new_send_tcp_mss \in Modes
  BY EndParts
<1>2. k \in Nat
  BY <1>1, NextIdIs
<1>3. h \in Nat /\ m \in Modes
  BY <1>1
<1>4. f \in FrameSet /\ f.d = d /\ ~f.cmd /\ f.id = e.pack_id /\ f.prev = e.sent_hash /\ f.mss = e.send_tcp_mss
  BY <1>1, RoomIs
<1>5. p.e = e2 /\ p.cells = Whole(f)
  BY DEF Akarin!pack_server_data, Akarin!Cut, Akarin!FrameParts, Whole, Cut, FrameParts, Akarin!NextId, NextId, Posted
<1> HIDE DEF f, k, h, m, p
<1>6. e2 \in EndSet /\ Spared(e2, e) /\ e2.pack_id = k /\ e2.sent_hash = h /\ e2.send_tcp_mss = m
  BY <1>1, <1>2, <1>3, PostedIs
<1> HIDE DEF e2
<1>7. Padded("client", e, f, e2)
  BY <1>4, <1>6 DEF Padded, m
<1>8. Made("auth_akarin", "client", e, d, f, e2)
  BY <1>4, <1>6, <1>7 DEF Made, Hashed, Numbered, k, h
<1>9. QED
  BY <1>5, <1>8 DEF Packs, p

LEMMA PostedBoth ==
    ASSUME NEW e, NEW k, NEW h, NEW m
    PROVE  [[e EXCEPT !.send_tcp_mss = m] EXCEPT !.pack_id = k, !.sent_hash = h] = Posted(e, k, h, m)
BY Zenon DEF Posted

LEMMA AkarinClientPacks ==
    ASSUME NEW e, NEW d, NEW pad, e \in EndSet, d \in Seq(Nat), pad \in BOOLEAN
    PROVE  Packs("auth_akarin", "server", e, d, Akarin!pack_client_data(e, d, pad))
<1> DEFINE y == IF e.send_back_cmd THEN [e EXCEPT !.send_tcp_mss = e.recv_tcp_mss] ELSE e
           f0 == Akarin!send_rnd_data_len(y, d, pad)
           cmd == e.send_back_cmd
           f == Ordering(f0, cmd)
           k == NextId(e.pack_id)
           h == e.sent_hash + 1
           m == IF e.send_back_cmd THEN e.recv_tcp_mss ELSE e.send_tcp_mss
           e2 == Posted(e, k, h, m)
           p == Akarin!pack_client_data(e, d, pad)
<1>1. /\ e.pack_id \in Nat /\ e.sent_hash \in Nat /\ e.send_tcp_mss \in Modes
      /\ e.recv_tcp_mss \in Modes /\ cmd \in BOOLEAN
  BY EndParts
<1>2. k \in Nat
  BY <1>1, NextIdIs
<1>3. h \in Nat /\ m \in Modes
  BY <1>1
<1>4. y.pack_id = e.pack_id /\ y.sent_hash = e.sent_hash /\ y.send_tcp_mss = m
  <2> DEFINE B == Seq(CellSet)
  <2>1. e \in [has_header : BOOLEAN, raw_trans : BOOLEAN, dead : BOOLEAN,
       recv_buf : B, pack_id : Nat, recv_id : Nat,
       sent_hash : Nat, recv_hash : Nat, decrypt_packet_num : Nat,
       extra_wait : Nat, send_tcp_mss : Modes, recv_tcp_mss : Modes,
       new_send_tcp_mss : Modes, send_back_cmd : BOOLEAN]
    BY DEF EndSet
  <2> HIDE DEF B
  <2>2. QED
    BY <2>1
<1>5. [y EXCEPT !.pack_id = k, !.sent_hash = h] = e2
  <2>1. CASE e.send_back_cmd
    <3> HIDE DEF k, h
    <3> DEFINE m2 == e.recv_tcp_mss
    <3>1. m = m2 /\ y = [e EXCEPT !.send_tcp_mss = m2]
      BY <2>1
    <3> HIDE DEF m2, m, y
    <3>2. [[e EXCEPT !.send_tcp_mss = m2] EXCEPT !.pack_id = k, !.sent_hash = h] = Posted(e, k, h, m2)
      BY PostedBoth, Zenon
    <3>3. QED
      BY <3>1, <3>2
  <2>2. CASE ~e.send_back_cmd
    <3> HIDE DEF k, h
    <3>1. [e EXCEPT !.pack_id = k, !.sent_hash = h] = Posted(e, k, h, e.send_tcp_mss)
      BY PostedSame, Zenon
    <3>2. QED
      BY <2>2, <3>1
  <2>3. QED
    BY <2>1, <2>2
<1>6. /\ p.e = [y EXCEPT !.pack_id = NextId(y.pack_id), !.sent_hash = y.sent_hash + 1]
      /\ p.cells = Whole(f)
  BY DEF Akarin!pack_client_data, Akarin!Cut, Akarin!FrameParts, Whole, Cut, FrameParts, Akarin!NextId, NextId, Ordering
<1>7. p.e = e2
  BY <1>4, <1>5, <1>6
<1> HIDE DEF y, k, h, m, p
<1>8. f0 \in FrameSet /\ f0.d = d /\ f0.id = e.pack_id /\ f0.prev = e.sent_hash /\ f0.mss = m
  BY <1>1, <1>3, <1>4, RoomIs
<1> HIDE DEF f0, cmd
<1>9. f \in FrameSet /\ f.d = d /\ f.id = e.pack_id /\ f.prev = e.sent_hash /\ f.mss = m /\ f.cmd = cmd
  BY <1>1, <1>8, OrderingIs
<1> HIDE DEF f
<1>10. e2 \in EndSet /\ Spared(e2, e) /\ e2.pack_id = k /\ e2.sent_hash = h /\ e2.send_tcp_mss = m
  BY <1>1, <1>2, <1>3, PostedIs
<1> HIDE DEF e2
<1>11. Padded("server", e, f, e2)
  BY <1>9, <1>10 DEF Padded, m, cmd
<1>12. Made("auth_akarin", "server", e, d, f, e2)
  BY <1>9, <1>10, <1>11 DEF Made, Hashed, Numbered, k, h
<1>13. QED
  BY <1>6, <1>7, <1>12 DEF Packs, p

(***************************************************************************)
(* PackAll, with F[n] what the first n of the pieces P make.               *)
(***************************************************************************)
PackSet == [e : EndSet, cells : Seq(CellSet)]

Nothing(e) == [e |-> e, cells |-> <<>>]

MadeAll(pr, x, e, P, F) ==
    /\ F \in [0 .. Len(P) -> PackSet] /\ F[0] = Nothing(e)
    /\ \A n \in 1 .. Len(P) :
          \E f : /\ Made(pr, x, F[n - 1].e, P[n], f, F[n].e)
                 /\ F[n].cells = F[n - 1].cells \o Whole(f)

\* F[n] is what the packing Q[n] of the n-th piece adds.
Posting(F, K, e, Q) ==
    /\ F \in [0 .. K -> PackSet] /\ F[0] = Nothing(e)
    /\ \A n \in 1 .. K : /\ F[n].e = Q[n][F[n - 1].e].e
                         /\ F[n].cells = F[n - 1].cells \o Q[n][F[n - 1].e].cells

LEMMA PostingFunction ==
    ASSUME NEW K, NEW e, NEW Q, K \in Nat, e \in EndSet, Q \in [1 .. K -> [EndSet -> PackSet]]
    PROVE  \E F : Posting(F, K, e, Q)
<1> DEFINE G == PackSet
           x == Nothing(e)
           Add(y, p) == [e |-> p.e, cells |-> y.cells \o p.cells]
           h == [n \in 1 .. K |-> [y \in G |-> Add(y, Q[n][y.e])]]
<1>1. ASSUME NEW y \in G, NEW p \in G PROVE Add(y, p) \in G
  BY <1>1 DEF PackSet
<1>2. x \in G /\ \A y \in G : y.e \in EndSet
  BY DEF Nothing, PackSet
<1>3. h \in [1 .. K -> [G -> G]]
  <2>1. ASSUME NEW n \in 1 .. K, NEW y \in G PROVE Add(y, Q[n][y.e]) \in G
    <3>1. Q[n][y.e] \in G
      BY <1>2
    <3> HIDE DEF Add, G
    <3>2. QED
      BY <1>1, <2>1, <3>1
  <2> HIDE DEF Add, G
  <2>2. QED
    BY <2>1
<1>4. \A n \in 1 .. K, y \in G : h[n][y].e = Q[n][y.e].e /\ h[n][y].cells = y.cells \o Q[n][y.e].cells
  OBVIOUS
<1> HIDE DEF h, G, x
<1>5. PICK F : Iterates(F, G, K, x, h)
  BY <1>2, <1>3, RecursiveFunction
<1>6. Posting(F, K, e, Q)
  <2>1. F \in [0 .. K -> G] /\ F[0] = x /\ \A n \in 1 .. K : F[n] = h[n][F[n - 1]]
    BY <1>5 DEF Iterates
  <2>2. \A n \in 1 .. K : n - 1 \in 0 .. K
    BY SMTT(30)
  <2>3. ASSUME NEW n \in 1 .. K
        PROVE  F[n].e = Q[n][F[n - 1].e].e /\ F[n].cells = F[n - 1].cells \o Q[n][F[n - 1].e].cells
    <3> DEFINE y == F[n - 1]
    <3>1. y \in G /\ F[n] = h[n][y]
      BY <2>1, <2>2
    <3> HIDE DEF y
    <3>2. F[n].e = Q[n][y.e].e /\ F[n].cells = y.cells \o Q[n][y.e].cells
      BY <1>4, <3>1
    <3>3. QED
      BY <3>2 DEF y
  <2>4. QED
    BY <2>1, <2>3 DEF Posting, G, x
<1>7. QED
  BY <1>6

\* A packing of each piece that does what it should.
PacksEach(pr, x, K, P, Q) ==
    \A n \in 1 .. K, y \in EndSet : Packs(pr, x, y, P[n], Q[n][y])

LEMMA PostingMade ==
    ASSUME NEW pr, NEW x, NEW e, NEW P, NEW F, NEW Q,
           Posting(F, Len(P), e, Q), PacksEach(pr, x, Len(P), P, Q)
    PROVE  MadeAll(pr, x, e, P, F)
<1>1. F \in [0 .. Len(P) -> PackSet] /\ F[0] = Nothing(e)
  BY SMTT(30) DEF Posting
<1>2. ASSUME NEW n \in 1 .. Len(P)
      PROVE  \E f : /\ Made(pr, x, F[n - 1].e, P[n], f, F[n].e)
                    /\ F[n].cells = F[n - 1].cells \o Whole(f)
  <2>1. F[n - 1].e \in EndSet
    <3>1. n - 1 \in 0 .. Len(P)
      OBVIOUS
    <3>2. QED
      BY <1>1, <3>1, SMTT(30) DEF PackSet
  <2>2. /\ F[n].e = Q[n][F[n - 1].e].e
        /\ F[n].cells = F[n - 1].cells \o Q[n][F[n - 1].e].cells
    BY <1>2 DEF Posting
  <2>3. Packs(pr, x, F[n - 1].e, P[n], Q[n][F[n - 1].e])
    BY <1>2, <2>1 DEF PacksEach
  <2>4. PICK f : /\ Made(pr, x, F[n - 1].e, P[n], f, Q[n][F[n - 1].e].e)
                 /\ Q[n][F[n - 1].e].cells = Whole(f)
    BY <2>3 DEF Packs
  <2>5. QED
    BY <2>2, <2>4
<1>3. QED
  BY <1>1, <1>2 DEF MadeAll

\* What packs gives as a record.
LEMMA PacksRecord ==
    ASSUME NEW pr, NEW x, NEW e, NEW d, NEW p, Packs(pr, x, e, d, p)
    PROVE  [e |-> p.e, cells |-> p.cells] \in PackSet
<1>1. PICK f : Made(pr, x, e, d, f, p.e) /\ p.cells = Whole(f)
  BY DEF Packs
<1>2. p.e \in EndSet /\ f \in FrameSet
  BY <1>1 DEF Made
<1>3. Whole(f) \in Seq(CellSet)
  BY <1>2, WholeIs
<1>4. QED
  BY <1>1, <1>2, <1>3 DEF PackSet

\* F is filled piece by piece.
Added(y, p) == [e |-> p.e, cells |-> y.cells \o p.cells]

Unrolled(F, K, e, Q) ==
    /\ F = [n \in 0 .. K |-> F[n]] /\ F[0] = Nothing(e)
    /\ \A n \in 1 .. K : F[n - 1] \in PackSet => F[n] = Added(F[n - 1], Q[n][F[n - 1].e])

LEMMA AddedIs ==
    ASSUME NEW y, NEW p, y \in PackSet, p \in PackSet
    PROVE  /\ Added(y, p) \in PackSet /\ Added(y, p).e = p.e
           /\ Added(y, p).cells = y.cells \o p.cells
<1> DEFINE cells == y.cells \o p.cells
<1>1. p.e \in EndSet /\ cells \in Seq(CellSet)
  BY DEF PackSet
<1>2. Added(y, p) = [e |-> p.e, cells |-> cells]
  BY DEF Added
<1> HIDE DEF cells
<1>3. Added(y, p) \in PackSet /\ Added(y, p).e = p.e /\ Added(y, p).cells = cells
  BY <1>1, <1>2 DEF PackSet
<1>4. QED
  BY <1>3 DEF cells

LEMMA Unrolling ==
    ASSUME NEW F, NEW K, NEW e, NEW Q,
           K \in Nat, e \in EndSet, Q \in [1 .. K -> [EndSet -> PackSet]], Unrolled(F, K, e, Q)
    PROVE  Posting(F, K, e, Q)
<1> DEFINE Good(n) == F[n] \in PackSet /\ (n > 0 => /\ F[n].e = Q[n][F[n - 1].e].e
                                                    /\ F[n].cells = F[n - 1].cells \o Q[n][F[n - 1].e].cells)
           S == {n \in 0 .. K : Good(n)}
<1>1. F[0] = Nothing(e) /\ F[0] \in PackSet
  <2>1. F[0] = Nothing(e)
    BY DEF Unrolled
  <2>2. <<>> \in Seq(CellSet)
    OBVIOUS
  <2>3. Nothing(e) \in PackSet
    BY <2>2 DEF Nothing, PackSet
  <2>4. QED
    BY <2>1, <2>3
<1>2. 0 \in S
  BY <1>1, SMTT(30)
<1>3. ASSUME NEW n \in 0 .. K - 1, n \in S PROVE n + 1 \in S
  <2> DEFINE m == n + 1
             y == F[n]
             p == Q[m][y.e]
  <2>1. m \in 0 .. K /\ m \in 1 .. K /\ m - 1 = n /\ m > 0
    BY <1>3
  <2>2. y \in PackSet /\ y.e \in EndSet
    BY <1>3 DEF PackSet
  <2> HIDE DEF m
  <2>3. p \in PackSet
    BY <2>1, <2>2
  <2>4. F[m] = Added(y, p)
    BY <2>1, <2>2 DEF Unrolled
  <2> HIDE DEF y, p
  <2>5. F[m] \in PackSet /\ F[m].e = p.e /\ F[m].cells = y.cells \o p.cells
    <3> DEFINE g == F[m]
               a == Added(y, p)
               cells == y.cells \o p.cells
    <3>1. a \in PackSet /\ a.e = p.e /\ a.cells = cells
      BY <2>2, <2>3, AddedIs
    <3>2. g = a
      BY <2>4
    <3> HIDE DEF a, cells, g
    <3>3. g \in PackSet /\ g.e = p.e /\ g.cells = cells
      BY <3>1, <3>2, SMTT(30)
    <3>4. QED
      BY <3>3 DEF cells, g
  <2>6. m \in S
    BY <2>1, <2>5 DEF y, p
  <2>7. QED
    BY <2>6 DEF m
<1> HIDE DEF S
<1>4. 0 .. K \subseteq S
  BY <1>2, <1>3, RangeInduction
<1>5. \A n \in 0 .. K : Good(n)
  BY <1>4, Zenon DEF S
<1>6. F = [n \in 0 .. K |-> F[n]]
  BY DEF Unrolled
<1>7. F \in [0 .. K -> PackSet]
  BY <1>5, <1>6, Zenon
<1>8. QED
  <2>1. \A n \in 1 .. K : n \in 0 .. K /\ n > 0
    OBVIOUS
  <2>2. ASSUME NEW n \in 1 .. K
        PROVE  F[n].e = Q[n][F[n - 1].e].e /\ F[n].cells = F[n - 1].cells \o Q[n][F[n - 1].e].cells
    BY <1>5, <2>1
  <2>3. QED
    BY <1>1, <1>7, <2>2 DEF Posting

LEMMA V4Posts ==
    ASSUME NEW x, NEW e, NEW P, e \in EndSet, P \in Seq(Seq(Nat))
    PROVE  \E F : MadeAll("auth_sha1_v4", x, e, P, F) /\ V4!PackAll(e, P, V4!pack_data) = F[Len(P)]
<1> DEFINE K == Len(P)
           Pack(y, d) == V4!pack_data(y, d)
           Q == [n \in 1 .. K |-> [y \in EndSet |-> [e |-> Pack(y, P[n]).e, cells |-> Pack(y, P[n]).cells]]]
           F == CHOOSE g : g = [n \in 0 .. Len(P) |->
                                  IF n = 0 THEN [e |-> e, cells |-> <<>>]
                                  ELSE [e |-> Pack(g[n - 1].e, P[n]).e,
                                        cells |-> g[n - 1].cells \o Pack(g[n - 1].e, P[n]).cells]]
<1>1. V4!PackAll(e, P, V4!pack_data) = F[K]
  BY DEF V4!PackAll
<1>2. K \in Nat /\ \A n \in 1 .. K : P[n] \in Seq(Nat)
  OBVIOUS
<1>3. ASSUME NEW y \in EndSet, NEW n \in 1 .. K
      PROVE  Packs("auth_sha1_v4", x, y, P[n], Pack(y, P[n]))
  BY <1>2, V4Packs
<1>4. ASSUME NEW y \in EndSet, NEW n \in 1 .. K
      PROVE  [e |-> Pack(y, P[n]).e, cells |-> Pack(y, P[n]).cells] \in PackSet
  <2> HIDE DEF Pack
  <2>1. QED
    BY <1>3, PacksRecord
<1> HIDE DEF Pack
<1>5. Q \in [1 .. K -> [EndSet -> PackSet]]
  BY <1>4
<1>6. \A n \in 1 .. K, y \in EndSet : Q[n][y].e = Pack(y, P[n]).e /\ Q[n][y].cells = Pack(y, P[n]).cells
  OBVIOUS
<1>7. PacksEach("auth_sha1_v4", x, K, P, Q)
  BY <1>3, <1>6 DEF PacksEach, Packs
<1> HIDE DEF Q
<1>8. PICK f : Posting(f, K, e, Q)
  BY <1>2, <1>5, PostingFunction
<1>9. f = [n \in 0 .. K |-> IF n = 0 THEN [e |-> e, cells |-> <<>>]
                            ELSE [e |-> Pack(f[n - 1].e, P[n]).e,
                                  cells |-> f[n - 1].cells \o Pack(f[n - 1].e, P[n]).cells]]
  <2>1. ASSUME NEW n \in 0 .. K
        PROVE  f[n] = IF n = 0 THEN [e |-> e, cells |-> <<>>]
                      ELSE [e |-> Pack(f[n - 1].e, P[n]).e,
                            cells |-> f[n - 1].cells \o Pack(f[n - 1].e, P[n]).cells]
    <3>1. CASE n = 0
      BY <1>8, <3>1, SMTT(30) DEF Posting, Nothing
    <3>2. CASE n # 0
      <4>1. n \in 1 .. K /\ n - 1 \in 0 .. K
        BY <1>2, <3>2
      <4>2. f[n - 1].e \in EndSet /\ f[n] \in PackSet
        BY <1>8, <4>1 DEF Posting, PackSet
      <4>3. f[n].e = Pack(f[n - 1].e, P[n]).e /\ f[n].cells = f[n - 1].cells \o Pack(f[n - 1].e, P[n]).cells
        BY <1>6, <1>8, <4>1, <4>2, Zenon DEF Posting
      <4>4. f[n] = [e |-> f[n].e, cells |-> f[n].cells]
        BY <4>2 DEF PackSet
      <4>5. QED
        BY <3>2, <4>3, <4>4
    <3>3. QED
      BY <3>1, <3>2
  <2>2. QED
    BY <1>8, <2>1 DEF Posting
<1>10. F = [n \in 0 .. K |-> IF n = 0 THEN [e |-> e, cells |-> <<>>]
                             ELSE [e |-> Pack(F[n - 1].e, P[n]).e,
                                   cells |-> F[n - 1].cells \o Pack(F[n - 1].e, P[n]).cells]]
  BY <1>9, Zenon DEF K
<1> HIDE DEF F
<1>11. Unrolled(F, K, e, Q)
  <2>1. F[0] = [e |-> e, cells |-> <<>>]
    BY <1>2, <1>10
  <2>2. ASSUME NEW n \in 1 .. K, F[n - 1] \in PackSet PROVE F[n] = Added(F[n - 1], Q[n][F[n - 1].e])
    <3> DEFINE y == F[n - 1]
    <3>1. n \in 0 .. K /\ n # 0 /\ y.e \in EndSet
      BY <1>2, <2>2 DEF PackSet
    <3>2. F[n] = [e |-> Pack(y.e, P[n]).e, cells |-> y.cells \o Pack(y.e, P[n]).cells]
      BY <1>10, <3>1, Zenon
    <3> HIDE DEF y
    <3>3. F[n] = Added(y, Q[n][y.e])
      BY <1>6, <3>1, <3>2 DEF Added
    <3>4. QED
      BY <3>3 DEF y
  <2>3. F = [n \in 0 .. K |-> F[n]]
    BY <1>10
  <2>4. QED
    BY <2>1, <2>2, <2>3 DEF Unrolled, Nothing
<1>12. MadeAll("auth_sha1_v4", x, e, P, F)
  BY <1>2, <1>5, <1>7, <1>11, Unrolling, PostingMade DEF K
<1>13. QED
  BY <1>1, <1>12 DEF K

LEMMA AesPosts ==
    ASSUME NEW x, NEW e, NEW P, e \in EndSet, P \in Seq(Seq(Nat))
    PROVE  \E F : MadeAll("auth_aes128", x, e, P, F) /\ Aes!PackAll(e, P, Aes!pack_data) = F[Len(P)]
<1> DEFINE K == Len(P)
           Pack(y, d) == Aes!pack_data(y, d)
           Q == [n \in 1 .. K |-> [y \in EndSet |-> [e |-> Pack(y, P[n]).e, cells |-> Pack(y, P[n]).cells]]]
           F == CHOOSE g : g = [n \in 0 .. Len(P) |->
                                  IF n = 0 THEN [e |-> e, cells |-> <<>>]
                                  ELSE [e |-> Pack(g[n - 1].e, P[n]).e,
                                        cells |-> g[n - 1].cells \o Pack(g[n - 1].e, P[n]).cells]]
<1>1. Aes!PackAll(e, P, Aes!pack_data) = F[K]
  BY DEF Aes!PackAll
<1>2. K \in Nat /\ \A n \in 1 .. K : P[n] \in Seq(Nat)
  OBVIOUS
<1>3. ASSUME NEW y \in EndSet, NEW n \in 1 .. K
      PROVE  Packs("auth_aes128", x, y, P[n], Pack(y, P[n]))
  BY <1>2, AesPacks
<1>4. ASSUME NEW y \in EndSet, NEW n \in 1 .. K
      PROVE  [e |-> Pack(y, P[n]).e, cells |-> Pack(y, P[n]).cells] \in PackSet
  <2> HIDE DEF Pack
  <2>1. QED
    BY <1>3, PacksRecord
<1> HIDE DEF Pack
<1>5. Q \in [1 .. K -> [EndSet -> PackSet]]
  BY <1>4
<1>6. \A n \in 1 .. K, y \in EndSet : Q[n][y].e = Pack(y, P[n]).e /\ Q[n][y].cells = Pack(y, P[n]).cells
  OBVIOUS
<1>7. PacksEach("auth_aes128", x, K, P, Q)
  BY <1>3, <1>6 DEF PacksEach, Packs
<1> HIDE DEF Q
<1>8. PICK f : Posting(f, K, e, Q)
  BY <1>2, <1>5, PostingFunction
<1>9. f = [n \in 0 .. K |-> IF n = 0 THEN [e |-> e, cells |-> <<>>]
                            ELSE [e |-> Pack(f[n - 1].e, P[n]).e,
                                  cells |-> f[n - 1].cells \o Pack(f[n - 1].e, P[n]).cells]]
  <2>1. ASSUME NEW n \in 0 .. K
        PROVE  f[n] = IF n = 0 THEN [e |-> e, cells |-> <<>>]
                      ELSE [e |-> Pack(f[n - 1].e, P[n]).e,
                            cells |-> f[n - 1].cells \o Pack(f[n - 1].e, P[n]).cells]
    <3>1. CASE n = 0
      BY <1>8, <3>1 DEF Posting, Nothing
    <3>2. CASE n # 0
      <4>1. n \in 1 .. K /\ n - 1 \in 0 .. K
        BY <1>2, <3>2
      <4>2. f[n - 1].e \in EndSet /\ f[n] \in PackSet
        BY <1>8, <4>1 DEF Posting, PackSet
      <4>3. f[n].e = Pack(f[n - 1].e, P[n]).e /\ f[n].cells = f[n - 1].cells \o Pack(f[n - 1].e, P[n]).cells
        BY <1>6, <1>8, <4>1, <4>2, Zenon DEF Posting
      <4>4. f[n] = [e |-> f[n].e, cells |-> f[n].cells]
        BY <4>2 DEF PackSet
      <4>5. QED
        BY <3>2, <4>3, <4>4
    <3>3. QED
      BY <3>1, <3>2
  <2>2. QED
    BY <1>8, <2>1 DEF Posting
<1>10. F = [n \in 0 .. K |-> IF n = 0 THEN [e |-> e, cells |-> <<>>]
                             ELSE [e |-> Pack(F[n - 1].e, P[n]).e,
                                   cells |-> F[n - 1].cells \o Pack(F[n - 1].e, P[n]).cells]]
  BY <1>9 DEF K
<1> HIDE DEF F
<1>11. Unrolled(F, K, e, Q)
  <2>1. F[0] = [e |-> e, cells |-> <<>>]
    BY <1>2, <1>10
  <2>2. ASSUME NEW n \in 1 .. K, F[n - 1] \in PackSet PROVE F[n] = Added(F[n - 1], Q[n][F[n - 1].e])
    <3> DEFINE y == F[n - 1]
    <3>1. n \in 0 .. K /\ n # 0 /\ y.e \in EndSet
      BY <1>2, <2>2 DEF PackSet
    <3>2. F[n] = [e |-> Pack(y.e, P[n]).e, cells |-> y.cells \o Pack(y.e, P[n]).cells]
      BY <1>10, <3>1
    <3> HIDE DEF y
    <3>3. F[n] = Added(y, Q[n][y.e])
      BY <1>6, <3>1, <3>2 DEF Added
    <3>4. QED
      BY <3>3 DEF y
  <2>3. F = [n \in 0 .. K |-> F[n]]
    BY <1>10
  <2>4. QED
    BY <2>1, <2>2, <2>3 DEF Unrolled, Nothing
<1>12. MadeAll("auth_aes128", x, e, P, F)
  BY <1>2, <1>5, <1>7, <1>11, Unrolling, PostingMade DEF K
<1>13. QED
  BY <1>1, <1>12 DEF K

ChainClientAll(e, P, pad) ==
    Chain!PackAll(e, P, LAMBDA y, d : Chain!pack_client_data(y, d, pad))

LEMMA ChainClientPosts ==
    ASSUME NEW e, NEW P, NEW pad, e \in EndSet, P \in Seq(Seq(Nat)), pad \in BOOLEAN
    PROVE  \E F : MadeAll("auth_chain", "server", e, P, F) /\ ChainClientAll(e, P, pad) = F[Len(P)]
<1> DEFINE K == Len(P)
           Pack(y, d) == Chain!pack_client_data(y, d, pad)
           Q == [n \in 1 .. K |-> [y \in EndSet |-> [e |-> Pack(y, P[n]).e, cells |-> Pack(y, P[n]).cells]]]
           F == CHOOSE g : g = [n \in 0 .. Len(P) |->
                                  IF n = 0 THEN [e |-> e, cells |-> <<>>]
                                  ELSE [e |-> Pack(g[n - 1].e, P[n]).e,
                                        cells |-> g[n - 1].cells \o Pack(g[n - 1].e, P[n]).cells]]
<1>1. ChainClientAll(e, P, pad) = F[K]
  BY DEF Chain!PackAll, ChainClientAll
<1>2. K \in Nat /\ \A n \in 1 .. K : P[n] \in Seq(Nat)
  OBVIOUS
<1>3. ASSUME NEW y \in EndSet, NEW n \in 1 .. K
      PROVE  Packs("auth_chain", "server", y, P[n], Pack(y, P[n]))
  BY <1>2, ChainPacks
<1>4. ASSUME NEW y \in EndSet, NEW n \in 1 .. K
      PROVE  [e |-> Pack(y, P[n]).e, cells |-> Pack(y, P[n]).cells] \in PackSet
  <2> HIDE DEF Pack
  <2>1. QED
    BY <1>3, PacksRecord
<1> HIDE DEF Pack
<1>5. Q \in [1 .. K -> [EndSet -> PackSet]]
  BY <1>4
<1>6. \A n \in 1 .. K, y \in EndSet : Q[n][y].e = Pack(y, P[n]).e /\ Q[n][y].cells = Pack(y, P[n]).cells
  OBVIOUS
<1>7. PacksEach("auth_chain", "server", K, P, Q)
  BY <1>3, <1>6 DEF PacksEach, Packs
<1> HIDE DEF Q
<1>8. PICK f : Posting(f, K, e, Q)
  BY <1>2, <1>5, PostingFunction
<1>9. f = [n \in 0 .. K |-> IF n = 0 THEN [e |-> e, cells |-> <<>>]
                            ELSE [e |-> Pack(f[n - 1].e, P[n]).e,
                                  cells |-> f[n - 1].cells \o Pack(f[n - 1].e, P[n]).cells]]
  <2>1. ASSUME NEW n \in 0 .. K
        PROVE  f[n] = IF n = 0 THEN [e |-> e, cells |-> <<>>]
                      ELSE [e |-> Pack(f[n - 1].e, P[n]).e,
                            cells |-> f[n - 1].cells \o Pack(f[n - 1].e, P[n]).cells]
    <3>1. CASE n = 0
      BY <1>8, <3>1, SMTT(30) DEF Posting, Nothing
    <3>2. CASE n # 0
      <4>1. n \in 1 .. K /\ n - 1 \in 0 .. K
        BY <1>2, <3>2
      <4>2. f[n - 1].e \in EndSet /\ f[n] \in PackSet
        BY <1>8, <4>1 DEF Posting, PackSet
      <4>3. f[n].e = Pack(f[n - 1].e, P[n]).e /\ f[n].cells = f[n - 1].cells \o Pack(f[n - 1].e, P[n]).cells
        BY <1>6, <1>8, <4>1, <4>2, Zenon DEF Posting
      <4>4. f[n] = [e |-> f[n].e, cells |-> f[n].cells]
        BY <4>2 DEF PackSet
      <4>5. QED
        BY <3>2, <4>3, <4>4
    <3>3. QED
      BY <3>1, <3>2
  <2>2. QED
    BY <1>8, <2>1 DEF Posting
<1>10. F = [n \in 0 .. K |-> IF n = 0 THEN [e |-> e, cells |-> <<>>]
                             ELSE [e |-> Pack(F[n - 1].e, P[n]).e,
                                   cells |-> F[n - 1].cells \o Pack(F[n - 1].e, P[n]).cells]]
  BY <1>9, Zenon DEF K
<1> HIDE DEF F
<1>11. Unrolled(F, K, e, Q)
  <2>1. F[0] = [e |-> e, cells |-> <<>>]
    BY <1>2, <1>10
  <2>2. ASSUME NEW n \in 1 .. K, F[n - 1] \in PackSet PROVE F[n] = Added(F[n - 1], Q[n][F[n - 1].e])
    <3> DEFINE y == F[n - 1]
    <3>1. n \in 0 .. K /\ n # 0 /\ y.e \in EndSet
      BY <1>2, <2>2 DEF PackSet
    <3>2. F[n] = [e |-> Pack(y.e, P[n]).e, cells |-> y.cells \o Pack(y.e, P[n]).cells]
      BY <1>10, <3>1, Zenon
    <3> HIDE DEF y
    <3>3. F[n] = Added(y, Q[n][y.e])
      BY <1>6, <3>1, <3>2 DEF Added
    <3>4. QED
      BY <3>3 DEF y
  <2>3. F = [n \in 0 .. K |-> F[n]]
    BY <1>10
  <2>4. QED
    BY <2>1, <2>2, <2>3 DEF Unrolled, Nothing
<1>12. MadeAll("auth_chain", "server", e, P, F)
  BY <1>2, <1>5, <1>7, <1>11, Unrolling, PostingMade DEF K
<1>13. QED
  BY <1>1, <1>12 DEF K

ChainServerAll(e, P, pad) ==
    Chain!PackAll(e, P, LAMBDA y, d : Chain!pack_server_data(y, d, pad))

LEMMA ChainServerPosts ==
    ASSUME NEW e, NEW P, NEW pad, e \in EndSet, P \in Seq(Seq(Nat)), pad \in BOOLEAN
    PROVE  \E F : MadeAll("auth_chain", "client", e, P, F) /\ ChainServerAll(e, P, pad) = F[Len(P)]
<1> DEFINE K == Len(P)
           Pack(y, d) == Chain!pack_server_data(y, d, pad)
           Q == [n \in 1 .. K |-> [y \in EndSet |-> [e |-> Pack(y, P[n]).e, cells |-> Pack(y, P[n]).cells]]]
           F == CHOOSE g : g = [n \in 0 .. Len(P) |->
                                  IF n = 0 THEN [e |-> e, cells |-> <<>>]
                                  ELSE [e |-> Pack(g[n - 1].e, P[n]).e,
                                        cells |-> g[n - 1].cells \o Pack(g[n - 1].e, P[n]).cells]]
<1>1. ChainServerAll(e, P, pad) = F[K]
  BY DEF Chain!PackAll, ChainServerAll
<1>2. K \in Nat /\ \A n \in 1 .. K : P[n] \in Seq(Nat)
  OBVIOUS
<1>3. ASSUME NEW y \in EndSet, NEW n \in 1 .. K
      PROVE  Packs("auth_chain", "client", y, P[n], Pack(y, P[n]))
  BY <1>2, ChainPacks
<1>4. ASSUME NEW y \in EndSet, NEW n \in 1 .. K
      PROVE  [e |-> Pack(y, P[n]).e, cells |-> Pack(y, P[n]).cells] \in PackSet
  <2> HIDE DEF Pack
  <2>1. QED
    BY <1>3, PacksRecord
<1> HIDE DEF Pack
<1>5. Q \in [1 .. K -> [EndSet -> PackSet]]
  BY <1>4
<1>6. \A n \in 1 .. K, y \in EndSet : Q[n][y].e = Pack(y, P[n]).e /\ Q[n][y].cells = Pack(y, P[n]).cells
  OBVIOUS
<1>7. PacksEach("auth_chain", "client", K, P, Q)
  BY <1>3, <1>6 DEF PacksEach, Packs
<1> HIDE DEF Q
<1>8. PICK f : Posting(f, K, e, Q)
  BY <1>2, <1>5, PostingFunction
<1>9. f = [n \in 0 .. K |-> IF n = 0 THEN [e |-> e, cells |-> <<>>]
                            ELSE [e |-> Pack(f[n - 1].e, P[n]).e,
                                  cells |-> f[n - 1].cells \o Pack(f[n - 1].e, P[n]).cells]]
  <2>1. ASSUME NEW n \in 0 .. K
        PROVE  f[n] = IF n = 0 THEN [e |-> e, cells |-> <<>>]
                      ELSE [e |-> Pack(f[n - 1].e, P[n]).e,
                            cells |-> f[n - 1].cells \o Pack(f[n - 1].e, P[n]).cells]
    <3>1. CASE n = 0
      BY <1>8, <3>1 DEF Posting, Nothing
    <3>2. CASE n # 0
      <4>1. n \in 1 .. K /\ n - 1 \in 0 .. K
        BY <1>2, <3>2
      <4>2. f[n - 1].e \in EndSet /\ f[n] \in PackSet
        BY <1>8, <4>1 DEF Posting, PackSet
      <4>3. f[n].e = Pack(f[n - 1].e, P[n]).e /\ f[n].cells = f[n - 1].cells \o Pack(f[n - 1].e, P[n]).cells
        BY <1>6, <1>8, <4>1, <4>2, Zenon DEF Posting
      <4>4. f[n] = [e |-> f[n].e, cells |-> f[n].cells]
        BY <4>2 DEF PackSet
      <4>5. QED
        BY <3>2, <4>3, <4>4
    <3>3. QED
      BY <3>1, <3>2
  <2>2. QED
    BY <1>8, <2>1 DEF Posting
<1>10. F = [n \in 0 .. K |-> IF n = 0 THEN [e |-> e, cells |-> <<>>]
                             ELSE [e |-> Pack(F[n - 1].e, P[n]).e,
                                   cells |-> F[n - 1].cells \o Pack(F[n - 1].e, P[n]).cells]]
  BY <1>9 DEF K
<1> HIDE DEF F
<1>11. Unrolled(F, K, e, Q)
  <2>1. F[0] = [e |-> e, cells |-> <<>>]
    BY <1>2, <1>10
  <2>2. ASSUME NEW n \in 1 .. K, F[n - 1] \in PackSet PROVE F[n] = Added(F[n - 1], Q[n][F[n - 1].e])
    <3> DEFINE y == F[n - 1]
    <3>1. n \in 0 .. K /\ n # 0 /\ y.e \in EndSet
      BY <1>2, <2>2 DEF PackSet
    <3>2. F[n] = [e |-> Pack(y.e, P[n]).e, cells |-> y.cells \o Pack(y.e, P[n]).cells]
      BY <1>10, <3>1
    <3> HIDE DEF y
    <3>3. F[n] = Added(y, Q[n][y.e])
      BY <1>6, <3>1, <3>2 DEF Added
    <3>4. QED
      BY <3>3 DEF y
  <2>3. F = [n \in 0 .. K |-> F[n]]
    BY <1>10
  <2>4. QED
    BY <2>1, <2>2, <2>3 DEF Unrolled, Nothing
<1>12. MadeAll("auth_chain", "client", e, P, F)
  BY <1>2, <1>5, <1>7, <1>11, Unrolling, PostingMade DEF K
<1>13. QED
  BY <1>1, <1>12 DEF K

AkarinClientAll(e, P, pad) ==
    Akarin!PackAll(e, P, LAMBDA y, d : Akarin!pack_client_data(y, d, pad))

LEMMA AkarinClientPosts ==
    ASSUME NEW e, NEW P, NEW pad, e \in EndSet, P \in Seq(Seq(Nat)), pad \in BOOLEAN
    PROVE  \E F : MadeAll("auth_akarin", "server", e, P, F) /\ AkarinClientAll(e, P, pad) = F[Len(P)]
<1> DEFINE K == Len(P)
           Pack(y, d) == Akarin!pack_client_data(y, d, pad)
           Q == [n \in 1 .. K |-> [y \in EndSet |-> [e |-> Pack(y, P[n]).e, cells |-> Pack(y, P[n]).cells]]]
           F == CHOOSE g : g = [n \in 0 .. Len(P) |->
                                  IF n = 0 THEN [e |-> e, cells |-> <<>>]
                                  ELSE [e |-> Pack(g[n - 1].e, P[n]).e,
                                        cells |-> g[n - 1].cells \o Pack(g[n - 1].e, P[n]).cells]]
<1>1. AkarinClientAll(e, P, pad) = F[K]
  BY DEF Akarin!PackAll, AkarinClientAll
<1>2. K \in Nat /\ \A n \in 1 .. K : P[n] \in Seq(Nat)
  OBVIOUS
<1>3. ASSUME NEW y \in EndSet, NEW n \in 1 .. K
      PROVE  Packs("auth_akarin", "server", y, P[n], Pack(y, P[n]))
  BY <1>2, AkarinClientPacks
<1>4. ASSUME NEW y \in EndSet, NEW n \in 1 .. K
      PROVE  [e |-> Pack(y, P[n]).e, cells |-> Pack(y, P[n]).cells] \in PackSet
  <2> HIDE DEF Pack
  <2>1. QED
    BY <1>3, PacksRecord
<1> HIDE DEF Pack
<1>5. Q \in [1 .. K -> [EndSet -> PackSet]]
  BY <1>4
<1>6. \A n \in 1 .. K, y \in EndSet : Q[n][y].e = Pack(y, P[n]).e /\ Q[n][y].cells = Pack(y, P[n]).cells
  OBVIOUS
<1>7. PacksEach("auth_akarin", "server", K, P, Q)
  BY <1>3, <1>6 DEF PacksEach, Packs
<1> HIDE DEF Q
<1>8. PICK f : Posting(f, K, e, Q)
  BY <1>2, <1>5, PostingFunction
<1>9. f = [n \in 0 .. K |-> IF n = 0 THEN [e |-> e, cells |-> <<>>]
                            ELSE [e |-> Pack(f[n - 1].e, P[n]).e,
                                  cells |-> f[n - 1].cells \o Pack(f[n - 1].e, P[n]).cells]]
  <2>1. ASSUME NEW n \in 0 .. K
        PROVE  f[n] = IF n = 0 THEN [e |-> e, cells |-> <<>>]
                      ELSE [e |-> Pack(f[n - 1].e, P[n]).e,
                            cells |-> f[n - 1].cells \o Pack(f[n - 1].e, P[n]).cells]
    <3>1. CASE n = 0
      BY <1>8, <3>1 DEF Posting, Nothing
    <3>2. CASE n # 0
      <4>1. n \in 1 .. K /\ n - 1 \in 0 .. K
        BY <1>2, <3>2
      <4>2. f[n - 1].e \in EndSet /\ f[n] \in PackSet
        BY <1>8, <4>1 DEF Posting, PackSet
      <4>3. f[n].e = Pack(f[n - 1].e, P[n]).e /\ f[n].cells = f[n - 1].cells \o Pack(f[n - 1].e, P[n]).cells
        BY <1>6, <1>8, <4>1, <4>2, Zenon DEF Posting
      <4>4. f[n] = [e |-> f[n].e, cells |-> f[n].cells]
        BY <4>2 DEF PackSet
      <4>5. QED
        BY <3>2, <4>3, <4>4
    <3>3. QED
      BY <3>1, <3>2
  <2>2. QED
    BY <1>8, <2>1 DEF Posting
<1>10. F = [n \in 0 .. K |-> IF n = 0 THEN [e |-> e, cells |-> <<>>]
                             ELSE [e |-> Pack(F[n - 1].e, P[n]).e,
                                   cells |-> F[n - 1].cells \o Pack(F[n - 1].e, P[n]).cells]]
  BY <1>9 DEF K
<1> HIDE DEF F
<1>11. Unrolled(F, K, e, Q)
  <2>1. F[0] = [e |-> e, cells |-> <<>>]
    BY <1>2, <1>10
  <2>2. ASSUME NEW n \in 1 .. K, F[n - 1] \in PackSet PROVE F[n] = Added(F[n - 1], Q[n][F[n - 1].e])
    <3> DEFINE y == F[n - 1]
    <3>1. n \in 0 .. K /\ n # 0 /\ y.e \in EndSet
      BY <1>2, <2>2 DEF PackSet
    <3>2. F[n] = [e |-> Pack(y.e, P[n]).e, cells |-> y.cells \o Pack(y.e, P[n]).cells]
      BY <1>10, <3>1
    <3> HIDE DEF y
    <3>3. F[n] = Added(y, Q[n][y.e])
      BY <1>6, <3>1, <3>2 DEF Added
    <3>4. QED
      BY <3>3 DEF y
  <2>3. F = [n \in 0 .. K |-> F[n]]
    BY <1>10
  <2>4. QED
    BY <2>1, <2>2, <2>3 DEF Unrolled, Nothing
<1>12. MadeAll("auth_akarin", "server", e, P, F)
  BY <1>2, <1>5, <1>7, <1>11, Unrolling, PostingMade DEF K
<1>13. QED
  BY <1>1, <1>12 DEF K

AkarinServerAll(e, P, pad) ==
    Akarin!PackAll(e, P, LAMBDA y, d : Akarin!pack_server_data(y, d, pad))

LEMMA AkarinServerPosts ==
    ASSUME NEW e, NEW P, NEW pad, e \in EndSet, P \in Seq(Seq(Nat)), pad \in BOOLEAN
    PROVE  \E F : MadeAll("auth_akarin", "client", e, P, F) /\ AkarinServerAll(e, P, pad) = F[Len(P)]
<1> DEFINE K == Len(P)
           Pack(y, d) == Akarin!pack_server_data(y, d, pad)
           Q == [n \in 1 .. K |-> [y \in EndSet |-> [e |-> Pack(y, P[n]).e, cells |-> Pack(y, P[n]).cells]]]
           F == CHOOSE g : g = [n \in 0 .. Len(P) |->
                                  IF n = 0 THEN [e |-> e, cells |-> <<>>]
                                  ELSE [e |-> Pack(g[n - 1].e, P[n]).e,
                                        cells |-> g[n - 1].cells \o Pack(g[n - 1].e, P[n]).cells]]
<1>1. AkarinServerAll(e, P, pad) = F[K]
  BY DEF Akarin!PackAll, AkarinServerAll
<1>2. K \in Nat /\ \A n \in 1 .. K : P[n] \in Seq(Nat)
  OBVIOUS
<1>3. ASSUME NEW y \in EndSet, NEW n \in 1 .. K
      PROVE  Packs("auth_akarin", "client", y, P[n], Pack(y, P[n]))
  BY <1>2, AkarinServerPacks
<1>4. ASSUME NEW y \in EndSet, NEW n \in 1 .. K
      PROVE  [e |-> Pack(y, P[n]).e, cells |-> Pack(y, P[n]).cells] \in PackSet
  <2> HIDE DEF Pack
  <2>1. QED
    BY <1>3, PacksRecord
<1> HIDE DEF Pack
<1>5. Q \in [1 .. K -> [EndSet -> PackSet]]
  BY <1>4
<1>6. \A n \in 1 .. K, y \in EndSet : Q[n][y].e = Pack(y, P[n]).e /\ Q[n][y].cells = Pack(y, P[n]).cells
  OBVIOUS
<1>7. PacksEach("auth_akarin", "client", K, P, Q)
  BY <1>3, <1>6 DEF PacksEach, Packs
<1> HIDE DEF Q
<1>8. PICK f : Posting(f, K, e, Q)
  BY <1>2, <1>5, PostingFunction
<1>9. f = [n \in 0 .. K |-> IF n = 0 THEN [e |-> e, cells |-> <<>>]
                            ELSE [e |-> Pack(f[n - 1].e, P[n]).e,
                                  cells |-> f[n - 1].cells \o Pack(f[n - 1].e, P[n]).cells]]
  <2>1. ASSUME NEW n \in 0 .. K
        PROVE  f[n] = IF n = 0 THEN [e |-> e, cells |-> <<>>]
                      ELSE [e |-> Pack(f[n - 1].e, P[n]).e,
                            cells |-> f[n - 1].cells \o Pack(f[n - 1].e, P[n]).cells]
    <3>1. CASE n = 0
      BY <1>8, <3>1 DEF Posting, Nothing
    <3>2. CASE n # 0
      <4>1. n \in 1 .. K /\ n - 1 \in 0 .. K
        BY <1>2, <3>2
      <4>2. f[n - 1].e \in EndSet /\ f[n] \in PackSet
        BY <1>8, <4>1 DEF Posting, PackSet
      <4>3. f[n].e = Pack(f[n - 1].e, P[n]).e /\ f[n].cells = f[n - 1].cells \o Pack(f[n - 1].e, P[n]).cells
        BY <1>6, <1>8, <4>1, <4>2, Zenon DEF Posting
      <4>4. f[n] = [e |-> f[n].e, cells |-> f[n].cells]
        BY <4>2 DEF PackSet
      <4>5. QED
        BY <3>2, <4>3, <4>4
    <3>3. QED
      BY <3>1, <3>2
  <2>2. QED
    BY <1>8, <2>1 DEF Posting
<1>10. F = [n \in 0 .. K |-> IF n = 0 THEN [e |-> e, cells |-> <<>>]
                             ELSE [e |-> Pack(F[n - 1].e, P[n]).e,
                                   cells |-> F[n - 1].cells \o Pack(F[n - 1].e, P[n]).cells]]
  BY <1>9 DEF K
<1> HIDE DEF F
<1>11. Unrolled(F, K, e, Q)
  <2>1. F[0] = [e |-> e, cells |-> <<>>]
    BY <1>2, <1>10
  <2>2. ASSUME NEW n \in 1 .. K, F[n - 1] \in PackSet PROVE F[n] = Added(F[n - 1], Q[n][F[n - 1].e])
    <3> DEFINE y == F[n - 1]
    <3>1. n \in 0 .. K /\ n # 0 /\ y.e \in EndSet
      BY <1>2, <2>2 DEF PackSet
    <3>2. F[n] = [e |-> Pack(y.e, P[n]).e, cells |-> y.cells \o Pack(y.e, P[n]).cells]
      BY <1>10, <3>1
    <3> HIDE DEF y
    <3>3. F[n] = Added(y, Q[n][y.e])
      BY <1>6, <3>1, <3>2 DEF Added
    <3>4. QED
      BY <3>3 DEF y
  <2>3. F = [n \in 0 .. K |-> F[n]]
    BY <1>10
  <2>4. QED
    BY <2>1, <2>2, <2>3 DEF Unrolled, Nothing
<1>12. MadeAll("auth_akarin", "client", e, P, F)
  BY <1>2, <1>5, <1>7, <1>11, Unrolling, PostingMade DEF K
<1>13. QED
  BY <1>1, <1>12 DEF K

-----------------------------------------------------------------------------
(* What a write puts on the wire.                                          *)

\* The frames end e sends for end x order the use of a tcp_mss.
Orders(pr, x, e) == pr = "auth_akarin" /\ x = "server" /\ e.send_back_cmd

\* The end can go on sending to end x.
Ready(pr, x, e) ==
    /\ Hashed(pr) => IdOf(e.pack_id, e.sent_hash)
    /\ pr = "auth_akarin" /\ x = "server" =>
          IF e.send_back_cmd THEN e.recv_tcp_mss = "path" ELSE e.send_tcp_mss = "drawn"
    /\ pr = "auth_akarin" /\ x = "client" =>
          e.new_send_tcp_mss = "path" /\ (e.sent_hash # 0 => e.send_tcp_mss = "path")

\* Only the frame that brings a tcp_mss may have to be one with data.
Filled(pr, x, e, d) == Hashed(pr) /\ x = "client" /\ e.pack_id = 1 => d # <<>>

\* The data of the frame, without the tcp_mss.
Carried(pr, x, e, d) == IF Hashed(pr) /\ x = "client" /\ e.sent_hash = 0 THEN Tail(d) ELSE d

LEMMA IdOfFirst ==
    ASSUME NEW k, NEW h, IdOf(k, h), h = 0
    PROVE  k = 1
BY IdModAssumption DEF IdOf

LEMMA MadeReady ==
    ASSUME NEW pr, NEW x, NEW e, NEW d, NEW f, NEW e2,
           x \in Ends, e \in EndSet, Made(pr, x, e, d, f, e2), Ready(pr, x, e)
    PROVE  /\ Ready(pr, x, e2) /\ f.cmd = Orders(pr, x, e) /\ Orders(pr, x, e2) = Orders(pr, x, e)
<1>1. e.pack_id \in Nat /\ e.sent_hash \in Nat /\ e.send_back_cmd \in BOOLEAN
  BY EndParts
<1>2. /\ e2.recv_tcp_mss = e.recv_tcp_mss /\ e2.send_back_cmd = e.send_back_cmd
      /\ e2.new_send_tcp_mss = e.new_send_tcp_mss
  BY DEF Made, Spared
<1>3. Orders(pr, x, e2) = Orders(pr, x, e)
  BY <1>2 DEF Orders
<1>4. f.cmd \in BOOLEAN
  BY DEF Made, FrameSet
<1>5. f.cmd = Orders(pr, x, e)
  <2>1. CASE pr = "auth_akarin"
    <3>1. Padded(x, e, f, e2)
      BY <2>1 DEF Made
    <3>2. CASE x = "server"
      BY <1>1, <1>4, <2>1, <3>1, <3>2 DEF Padded, Orders
    <3>3. CASE x = "client"
      BY <1>1, <1>4, <2>1, <3>1, <3>3 DEF Padded, Orders
    <3>4. QED
      BY <3>2, <3>3 DEF Ends
  <2>2. CASE pr # "auth_akarin"
    BY <1>4, <2>2 DEF Made, Orders
  <2>3. QED
    BY <2>1, <2>2
<1>6. Hashed(pr) => IdOf(e2.pack_id, e2.sent_hash)
  <2>1. SUFFICES ASSUME Hashed(pr) PROVE IdOf(e2.pack_id, e2.sent_hash)
    OBVIOUS
  <2>2. e2.pack_id = NextId(e.pack_id) /\ e2.sent_hash = e.sent_hash + 1
    BY <2>1 DEF Made, Hashed, Numbered
  <2>3. IdOf(NextId(e.pack_id), e.sent_hash + 1)
    BY <1>1, <2>1, IdOfNext DEF Ready
  <2>4. QED
    BY <2>2, <2>3
<1>7. pr = "auth_akarin" /\ x = "server" =>
          IF e2.send_back_cmd THEN e2.recv_tcp_mss = "path" ELSE e2.send_tcp_mss = "drawn"
  BY <1>1, <1>2 DEF Ready, Made, Padded
<1>8. pr = "auth_akarin" /\ x = "client" =>
          e2.new_send_tcp_mss = "path" /\ (e2.sent_hash # 0 => e2.send_tcp_mss = "path")
  <2>1. SUFFICES ASSUME pr = "auth_akarin", x = "client"
                 PROVE  e2.new_send_tcp_mss = "path" /\ e2.send_tcp_mss = "path"
    OBVIOUS
  <2>2. /\ e.new_send_tcp_mss = "path" /\ (e.sent_hash # 0 => e.send_tcp_mss = "path")
        /\ IdOf(e.pack_id, e.sent_hash)
    BY <2>1 DEF Ready, Hashed
  <2>3. e2.send_tcp_mss = IF e.pack_id = 1 THEN e.new_send_tcp_mss ELSE e.send_tcp_mss
    BY <2>1 DEF Made, Padded
  <2>4. e.sent_hash = 0 => e.pack_id = 1
    BY <2>2, IdOfFirst
  <2>5. QED
    BY <1>2, <2>2, <2>3, <2>4
<1>9. QED
  BY <1>3, <1>5, <1>6, <1>7, <1>8 DEF Ready

LEMMA MadeFits ==
    ASSUME NEW pr, NEW x, NEW e, NEW d, NEW f, NEW e2, NEW g, NEW c,
           x \in Ends, e \in EndSet, Made(pr, x, e, d, f, e2), Ready(pr, x, e), Filled(pr, x, e, d),
           c => Orders(pr, x, e)
    PROVE  /\ Fits(pr, x, There(e, g, c), f)
           /\ After(pr, x, There(e, g, c), f) = There(e2, g \o Carried(pr, x, e, d), f.cmd)
<1> DEFINE q == There(e, g, c)
<1>1. q.id = e.pack_id /\ q.hash = e.sent_hash /\ q.got = g /\ q.cmd = c
  BY DEF There
<1>2. f.cmd = Orders(pr, x, e)
  BY MadeReady
<1> HIDE DEF q
<1>3. f \in FrameSet /\ f.d = d
  BY DEF Made
<1>4. /\ ~Hashed(pr) => f.size = 3
      /\ Numbered(pr) => f.id = q.id
      /\ Hashed(pr) => f.prev = q.hash
  BY <1>1 DEF Made
<1>5. Hashed(pr) /\ x = "client" /\ (q.hash = 0 \/ q.id = 1) => f.d # <<>>
  <2>1. SUFFICES ASSUME Hashed(pr), x = "client", q.hash = 0 \/ q.id = 1 PROVE d # <<>>
    BY <1>3
  <2>2. IdOf(e.pack_id, e.sent_hash)
    BY <2>1 DEF Ready
  <2>3. e.pack_id = 1
    BY <1>1, <2>1, <2>2, IdOfFirst
  <2>4. QED
    BY <2>1, <2>3 DEF Filled
<1>6. pr = "auth_akarin" /\ x = "server" => f.mss = IF f.cmd THEN "path" ELSE "drawn"
  BY <1>2 DEF Made, Padded, Ready, Orders
<1>7. pr = "auth_akarin" /\ x = "client" /\ q.hash # 0 => f.mss = "path"
  BY <1>1 DEF Made, Padded, Ready
<1>8. q.cmd => f.cmd
  BY <1>1, <1>2
<1>9. Fits(pr, x, q, f)
  BY <1>3, <1>4, <1>5, <1>6, <1>7, <1>8 DEF Fits
<1>10. After(pr, x, q, f) = There(e2, g \o Carried(pr, x, e, d), f.cmd)
  <2>1. /\ e2.pack_id = IF Numbered(pr) THEN NextId(q.id) ELSE q.id
        /\ e2.sent_hash = IF Hashed(pr) THEN q.hash + 1 ELSE q.hash
    BY <1>1 DEF Made
  <2>2. (IF Announces(pr, x, q) THEN Tail(f.d) ELSE f.d) = Carried(pr, x, e, d)
    BY <1>1, <1>3 DEF Announces, Carried
  <2>3. QED
    BY <1>1, <2>1, <2>2 DEF After, There
<1>11. QED
  BY <1>9, <1>10 DEF q

LEMMA RegroupCells ==
    ASSUME NEW a, NEW b, NEW c, a \in Seq(CellSet), b \in Seq(CellSet), c \in Seq(CellSet)
    PROVE  /\ (a \o b) \o c = a \o (b \o c) /\ a \o b \in Seq(CellSet) /\ b \o c \in Seq(CellSet)
           /\ a \o <<>> = a /\ <<>> \o a = a
<1>1. a \o b \in Seq(CellSet) /\ b \o c \in Seq(CellSet) /\ a \o <<>> = a /\ <<>> \o a = a
  OBVIOUS
<1>2. (a \o b) \o c = a \o (b \o c)
  OBVIOUS
<1>3. QED
  BY <1>1, <1>2

\* A write with the server's tcp_mss in front of it.
WithMss(pr, x, e) == Hashed(pr) /\ x = "client" /\ e.pack_id = 1

Posts(pr, x, e, s) ==
    IF WithMss(pr, x, e) THEN [Pieces(s) EXCEPT ![1] = <<Mss>> \o @] ELSE Pieces(s)

\* The n-th piece of s, and the first n of them together.
Piece(s, n) == IF s = <<>> THEN <<>> ELSE <<s[n]>>
Net(s, n) == IF s = <<>> THEN <<>> ELSE SubSeq(s, 1, n)
Count(s) == IF s = <<>> THEN 1 ELSE Len(s)

LEMMA PiecesIs ==
    ASSUME NEW s \in Seq(Nat)
    PROVE  /\ Pieces(s) \in Seq(Seq(Nat)) /\ Len(Pieces(s)) = Count(s) /\ Count(s) \in Nat /\ Count(s) >= 1
           /\ \A n \in 1 .. Count(s) : Pieces(s)[n] = Piece(s, n) /\ Piece(s, n) \in Seq(Nat)
           /\ s # <<>> => \A n \in 1 .. Count(s) : Piece(s, n) # <<>>
<1>1. CASE s = <<>>
  <2>1. Pieces(s) = << <<>> >> /\ <<>> \in Seq(Nat) /\ Count(s) = 1
    BY <1>1 DEF Pieces, Count
  <2>2. \A n \in 1 .. 1 : n = 1
    OBVIOUS
  <2>3. \A n : Piece(s, n) = <<>>
    BY <1>1 DEF Piece
  <2>4. << <<>> >> \in Seq(Seq(Nat)) /\ Len(<< <<>> >>) = 1 /\ << <<>> >>[1] = <<>>
    BY <2>1
  <2>5. QED
    <3> DEFINE one == << <<>> >>
    <3>1. Pieces(s) = one /\ one \in Seq(Seq(Nat)) /\ Len(one) = 1 /\ one[1] = <<>>
      BY <2>1, <2>4
    <3> HIDE DEF one
    <3>2. \A n \in 1 .. Count(s) : Pieces(s)[n] = Piece(s, n) /\ Piece(s, n) \in Seq(Nat)
      BY <2>1, <2>2, <2>3, <3>1
    <3>3. Pieces(s) \in Seq(Seq(Nat)) /\ Len(Pieces(s)) = Count(s) /\ Count(s) \in Nat /\ Count(s) >= 1
      BY <2>1, <3>1
    <3>4. s # <<>> => \A n \in 1 .. Count(s) : Piece(s, n) # <<>>
      BY <1>1
    <3>5. QED
      BY <3>2, <3>3, <3>4
<1>2. CASE s # <<>>
  <2> DEFINE N == Len(s)
             F == [i \in 1 .. N |-> <<s[i]>>]
  <2>1. N \in Nat /\ N >= 1 /\ DOMAIN s = 1 .. N /\ \A i \in 1 .. N : s[i] \in Nat
    BY <1>2
  <2>2. Pieces(s) = F /\ Count(s) = N
    BY <1>2, <2>1 DEF Pieces, Count
  <2>3. \A i \in 1 .. N : <<s[i]>> \in Seq(Nat) /\ <<s[i]>> # <<>>
    BY <2>1
  <2>4. F \in [1 .. N -> Seq(Nat)] /\ \A i \in 1 .. N : F[i] = <<s[i]>>
    BY <2>3
  <2> HIDE DEF F, N
  <2>5. F \in Seq(Seq(Nat)) /\ Len(F) = N
    BY <2>1, <2>4, FunctionSeq
  <2>6. \A n : Piece(s, n) = <<s[n]>>
    BY <1>2 DEF Piece
  <2>7. QED
    BY <1>2, <2>1, <2>2, <2>3, <2>4, <2>5, <2>6
<1>3. QED
  BY <1>1, <1>2

LEMMA NetIs ==
    ASSUME NEW s \in Seq(Nat)
    PROVE  /\ Net(s, 0) = <<>> /\ Net(s, Count(s)) = s
           /\ \A n \in 1 .. Count(s) : Net(s, n - 1) \in Seq(Nat) /\ Net(s, n) = Net(s, n - 1) \o Piece(s, n)
<1>1. CASE s = <<>>
  BY <1>1 DEF Net, Piece
<1>2. CASE s # <<>>
  <2>1. Count(s) = Len(s) /\ Len(s) \in Nat /\ Len(s) >= 1
    BY <1>2 DEF Count
  <2>2. SubSeq(s, 1, 0) = <<>> /\ SubSeq(s, 1, Len(s)) = s
    <3>1. 0 \in 0 .. Len(s) /\ Len(s) \in 0 .. Len(s)
      BY <2>1
    <3>2. SubSeq(s, 1, 0) \in Seq(Nat) /\ Len(SubSeq(s, 1, 0)) = 0
      BY <3>1, CutSeq
    <3>3. /\ SubSeq(s, 1, Len(s)) \in Seq(Nat) /\ Len(SubSeq(s, 1, Len(s))) = Len(s)
          /\ \A i \in 1 .. Len(s) : SubSeq(s, 1, Len(s))[i] = s[i]
      BY <3>1, CutSeq
    <3>4. QED
      BY <3>2, <3>3, SeqEqual
  <2>3. ASSUME NEW n \in 1 .. Len(s)
        PROVE  SubSeq(s, 1, n - 1) \in Seq(Nat) /\ SubSeq(s, 1, n) = SubSeq(s, 1, n - 1) \o <<s[n]>>
    <3> DEFINE a == SubSeq(s, 1, n - 1)
               b == SubSeq(s, 1, n)
    <3>1. n - 1 \in 0 .. Len(s) /\ n \in 0 .. Len(s) /\ s[n] \in Nat
      BY <2>1
    <3>2. a \in Seq(Nat) /\ Len(a) = n - 1 /\ \A i \in 1 .. n - 1 : a[i] = s[i]
      BY <3>1, CutSeq
    <3>3. b \in Seq(Nat) /\ Len(b) = n /\ \A i \in 1 .. n : b[i] = s[i]
      BY <3>1, CutSeq
    <3> HIDE DEF a, b
    <3>4. /\ a \o <<s[n]>> \in Seq(Nat) /\ Len(a \o <<s[n]>>) = n
          /\ \A i \in 1 .. n - 1 : (a \o <<s[n]>>)[i] = a[i] /\ (a \o <<s[n]>>)[n] = s[n]
          /\ (a \o <<s[n]>>)[n] = s[n]
      BY <3>1, <3>2
    <3>5. \A i \in 1 .. n : i = n \/ i \in 1 .. n - 1
      OBVIOUS
    <3>6. \A i \in 1 .. n : b[i] = (a \o <<s[n]>>)[i]
      BY <3>2, <3>3, <3>4, <3>5
    <3>7. b = a \o <<s[n]>>
      BY <3>3, <3>4, <3>6, SeqEqual
    <3>8. QED
      BY <3>2, <3>7 DEF a, b
  <2>4. \A n : Net(s, n) = SubSeq(s, 1, n) /\ Piece(s, n) = <<s[n]>>
    BY <1>2 DEF Net, Piece
  <2>5. QED
    BY <2>1, <2>2, <2>3, <2>4
<1>3. QED
  BY <1>1, <1>2

LEMMA PostsIs ==
    ASSUME NEW pr, NEW x, NEW e, NEW s \in Seq(Nat)
    PROVE  LET P == Posts(pr, x, e, s)
           IN  /\ P \in Seq(Seq(Nat)) /\ Len(P) = Count(s)
               /\ \A n \in 1 .. Count(s) :
                     IF WithMss(pr, x, e) /\ n = 1 THEN P[n] # <<>> /\ Tail(P[n]) = Piece(s, n)
                     ELSE P[n] = Piece(s, n)
<1> DEFINE Q == Pieces(s)
           N == Count(s)
           P == Posts(pr, x, e, s)
<1>1. /\ Q \in Seq(Seq(Nat)) /\ Len(Q) = N /\ N \in Nat /\ N >= 1
      /\ \A n \in 1 .. N : Q[n] = Piece(s, n) /\ Piece(s, n) \in Seq(Nat)
  BY PiecesIs
<1>2. CASE WithMss(pr, x, e)
  <2> DEFINE d == <<Mss>> \o Q[1]
  <2>1. Q[1] \in Seq(Nat) /\ 1 \in 1 .. N
    BY <1>1
  <2>2. P = [Q EXCEPT ![1] = d]
    BY <1>2 DEF Posts
  <2>3. d \in Seq(Nat) /\ d # <<>> /\ Tail(d) = Q[1]
    <3>1. Mss \in Nat
      BY DEF Mss
    <3>2. d \in Seq(Nat) /\ Len(d) = 1 + Len(Q[1]) /\ Len(Q[1]) \in Nat
          /\ \A i \in 1 .. Len(Q[1]) : d[i + 1] = Q[1][i]
      BY <2>1, <3>1
    <3> HIDE DEF d, Q
    <3>3. d # <<>>
      BY <3>2
    <3>4. Tail(d) \in Seq(Nat) /\ Len(Tail(d)) = Len(Q[1]) /\ \A i \in 1 .. Len(Q[1]) : Tail(d)[i] = d[i + 1]
      BY <3>2, <3>3
    <3>5. Tail(d) = Q[1]
      <4> DEFINE t == Tail(d)
                 q == Q[1]
      <4>1. t \in Seq(Nat) /\ q \in Seq(Nat) /\ Len(t) = Len(q)
        BY <2>1, <3>4
      <4>2. \A i \in 1 .. Len(q) : t[i] = q[i]
        BY <3>2, <3>4
      <4> HIDE DEF t, q
      <4>3. t = q
        BY <4>1, <4>2, SeqEqual
      <4>4. QED
        BY <4>3 DEF t, q
    <3>6. QED
      BY <3>2, <3>3, <3>5
  <2> HIDE DEF d, Q, N, P
  <2>4. P \in Seq(Seq(Nat)) /\ Len(P) = N
    BY <1>1, <2>1, <2>2, <2>3
  <2>5. ASSUME NEW n \in 1 .. N PROVE P[n] = IF n = 1 THEN d ELSE Q[n]
    BY <1>1, <2>2
  <2>6. QED
    BY <1>1, <1>2, <2>1, <2>3, <2>4, <2>5 DEF P, N
<1>3. CASE ~WithMss(pr, x, e)
  <2>1. P = Q
    BY <1>3 DEF Posts
  <2>2. QED
    BY <1>1, <1>3, <2>1
<1>4. QED
  BY <1>2, <1>3

\* The data sent for end x is followed, as far as the count of frames goes.
Followed(pr, x, e) == Hashed(pr) /\ x = "client" => e.sent_hash <= IdMod

\* The stream u, up to a place with data g after it, is continued by end e.
Sends(pr, x, u, a, e, D) ==
    \E g, c : /\ Flow(pr, x, u, a, There(e, g, c))
              /\ c => Orders(pr, x, e)
              /\ Followed(pr, x, e) => g = D

\* One frame of a write: the n-th piece of s.
LEMMA SendsOne ==
    ASSUME NEW pr, NEW x, NEW e, NEW d, NEW f, NEW e2, NEW u, NEW a, NEW D, NEW t,
           x \in Ends, e \in EndSet, D \in Seq(Nat), t \in Seq(Nat),
           Made(pr, x, e, d, f, e2), Ready(pr, x, e), Filled(pr, x, e, d),
           Sends(pr, x, u, a, e, D),
           Followed(pr, x, e2) => Carried(pr, x, e, d) = t
    PROVE  Sends(pr, x, u \o Whole(f), a, e2, D \o t)
<1>1. PICK g, c : /\ Flow(pr, x, u, a, There(e, g, c))
                  /\ c => Orders(pr, x, e)
                  /\ Followed(pr, x, e) => g = D
  BY DEF Sends
<1> DEFINE g2 == g \o Carried(pr, x, e, d)
           c2 == f.cmd
<1>2. /\ Fits(pr, x, There(e, g, c), f)
      /\ After(pr, x, There(e, g, c), f) = There(e2, g2, c2)
  BY <1>1, MadeFits
<1>3. Flow(pr, x, u \o Whole(f), a, There(e2, g2, c2))
  <2> HIDE DEF g2, c2
  <2>1. Flow(pr, x, u \o Whole(f), a, After(pr, x, There(e, g, c), f))
    BY <1>1, <1>2, FlowOn
  <2>2. QED
    BY <1>2, <2>1
<1>4. c2 = Orders(pr, x, e2)
  BY MadeReady
<1>5. Followed(pr, x, e2) => g2 = D \o t
  <2>1. SUFFICES ASSUME Followed(pr, x, e2) PROVE g2 = D \o t
    OBVIOUS
  <2>2. Followed(pr, x, e)
    <3>1. e.sent_hash \in Nat
      BY EndParts
    <3>2. Hashed(pr) => e2.sent_hash = e.sent_hash + 1
      BY DEF Made
    <3>3. QED
      BY <2>1, <3>1, <3>2, IdModAssumption DEF Followed
  <2>3. g = D /\ Carried(pr, x, e, d) = t
    BY <1>1, <2>1, <2>2
  <2> HIDE DEF Carried
  <2>4. QED
    BY <2>3
<1> HIDE DEF g2, c2
<1>6. QED
  BY <1>3, <1>4, <1>5 DEF Sends

\* The end y sends the n-th piece d of a write of s by e, which leaves it y2.
Nth(pr, x, e, s, n, d, y, y2) ==
    /\ n \in 1 .. Count(s) /\ d = Posts(pr, x, e, s)[n]
    /\ n = 1 => y = e
    /\ Hashed(pr) => y.sent_hash >= n - 1 /\ y2.sent_hash = y.sent_hash + 1

\* Whether the n-th piece starts with the tcp_mss, and is the whole frame's data.
LEMMA PieceCarried ==
    ASSUME NEW pr, NEW x, NEW e, NEW s, NEW n, NEW y, NEW y2, NEW d, s \in Seq(Nat),
           e \in EndSet, y \in EndSet, Ready(pr, x, y), Nth(pr, x, e, s, n, d, y, y2)
    PROVE  /\ Filled(pr, x, y, d)
           /\ Followed(pr, x, y2) => Carried(pr, x, y, d) = Piece(s, n)
<1>0. n \in 1 .. Count(s) /\ d = Posts(pr, x, e, s)[n]
  BY DEF Nth
<1>1. IF WithMss(pr, x, e) /\ n = 1 THEN d # <<>> /\ Tail(d) = Piece(s, n) ELSE d = Piece(s, n)
  <2>1. \A k \in 1 .. Count(s) :
           IF WithMss(pr, x, e) /\ k = 1
           THEN Posts(pr, x, e, s)[k] # <<>> /\ Tail(Posts(pr, x, e, s)[k]) = Piece(s, k)
           ELSE Posts(pr, x, e, s)[k] = Piece(s, k)
    BY PostsIs
  <2>2. QED
    BY <1>0, <2>1
<1>2. n >= 2 => Piece(s, n) # <<>>
  <2>1. SUFFICES ASSUME n >= 2 PROVE Piece(s, n) # <<>>
    OBVIOUS
  <2>2. s # <<>>
    BY <1>0, <2>1 DEF Count
  <2>3. QED
    BY <1>0, <2>2, PiecesIs
<1>3. y.sent_hash \in Nat /\ y.pack_id \in Nat /\ Count(s) \in Nat /\ n \in Nat /\ (n = 1 \/ n >= 2)
  BY <1>0, EndParts, PiecesIs
<1>4. CASE Hashed(pr) /\ x = "client"
  <2>1. IdOf(y.pack_id, y.sent_hash)
    BY <1>4 DEF Ready
  <2>2. y.sent_hash < IdMod => (y.pack_id = 1 <=> y.sent_hash = 0)
    BY <1>3, <2>1, IdOfOne
  <2>3. Followed(pr, x, y2) => y.sent_hash < IdMod
    BY <1>3, <1>4, IdModAssumption DEF Followed, Nth
  <2>4. CASE n = 1
    <3>1. y = e
      BY <2>4 DEF Nth
    <3>2. Filled(pr, x, y, d)
      BY <1>1, <1>4, <2>4, <3>1 DEF Filled, WithMss
    <3>3. ASSUME Followed(pr, x, y2) PROVE Carried(pr, x, y, d) = Piece(s, n)
      <4>1. WithMss(pr, x, e) <=> y.sent_hash = 0
        BY <1>4, <2>2, <2>3, <3>1, <3>3 DEF WithMss
      <4>2. QED
        BY <1>1, <1>4, <2>4, <4>1 DEF Carried
    <3>4. QED
      BY <3>2, <3>3
  <2>5. CASE n >= 2
    <3>1. d = Piece(s, n) /\ d # <<>>
      BY <1>1, <1>2, <1>3, <2>5
    <3>2. y.sent_hash # 0
      <4>1. y.sent_hash >= n - 1
        BY <1>4 DEF Nth
      <4>2. QED
        BY <1>3, <2>5, <4>1
    <3>3. QED
      BY <3>1, <3>2 DEF Filled, Carried
  <2>6. QED
    BY <1>3, <2>4, <2>5
<1>5. CASE ~(Hashed(pr) /\ x = "client")
  BY <1>1, <1>5 DEF Filled, Carried, WithMss
<1>6. QED
  BY <1>4, <1>5

\* What a write leaves: the end p, and the cells put on the wire.
Wrote(pr, x, u, a, e, D, p) ==
    /\ p.e \in EndSet /\ p.cells \in Seq(CellSet) /\ Spared(p.e, e) /\ Ready(pr, x, p.e)
    /\ Sends(pr, x, u \o p.cells, a, p.e, D)
    /\ Hashed(pr) => p.e.sent_hash > e.sent_hash

LEMMA SparedTrans ==
    ASSUME NEW e, NEW e1, NEW e2, Spared(e1, e), Spared(e2, e1)
    PROVE  Spared(e2, e)
BY DEF Spared

LEMMA WriteFlows ==
    ASSUME NEW pr, NEW x, NEW e, NEW s, NEW u, NEW a, NEW D, NEW F,
           x \in Ends, e \in EndSet, s \in Seq(Nat), u \in Seq(CellSet), D \in Seq(Nat),
           MadeAll(pr, x, e, Posts(pr, x, e, s), F), Ready(pr, x, e), Sends(pr, x, u, a, e, D)
    PROVE  Wrote(pr, x, u, a, e, D \o s, F[Len(Posts(pr, x, e, s))])
<1> DEFINE P == Posts(pr, x, e, s)
           K == Count(s)
           Good(n) == /\ F[n] \in PackSet /\ Spared(F[n].e, e) /\ Ready(pr, x, F[n].e)
                      /\ Sends(pr, x, u \o F[n].cells, a, F[n].e, D \o Net(s, n))
                      /\ Hashed(pr) => F[n].e.sent_hash = e.sent_hash + n
                      /\ n = 0 => F[n].e = e
           S == {n \in 0 .. K : Good(n)}
<1>1. Len(P) = K /\ K \in Nat /\ K >= 1
  BY PostsIs, PiecesIs
<1>2. /\ F \in [0 .. K -> PackSet] /\ F[0] = Nothing(e)
      /\ \A n \in 1 .. K : \E f : /\ Made(pr, x, F[n - 1].e, P[n], f, F[n].e)
                                  /\ F[n].cells = F[n - 1].cells \o Whole(f)
  BY <1>1 DEF MadeAll
<1>3. e.sent_hash \in Nat
  BY EndParts
<1> HIDE DEF P, K
<1>4. 0 \in S
  <2>1. F[0].e = e /\ F[0].cells = <<>> /\ F[0] \in PackSet
    <3>1. 0 \in 0 .. K /\ F[0] \in PackSet
      BY <1>1, <1>2
    <3>2. QED
      BY <1>2, <3>1 DEF Nothing
  <2>2. u \o <<>> = u
    BY RegroupCells
  <2>3. Net(s, 0) = <<>> /\ D \o <<>> = D
    BY NetIs DEF K
  <2>4. Spared(e, e)
    BY DEF Spared
  <2>5. Sends(pr, x, u \o F[0].cells, a, F[0].e, D \o Net(s, 0))
    BY <2>1, <2>2, <2>3
  <2>6. Good(0)
    BY <1>3, <2>1, <2>4, <2>5
  <2> HIDE DEF Good
  <2>7. QED
    BY <1>1, <2>6
<1>5. ASSUME NEW m \in 0 .. K - 1, m \in S PROVE m + 1 \in S
  <2> DEFINE n == m + 1
             y == F[m].e
             y2 == F[n].e
             t == Piece(s, n)
             D1 == D \o Net(s, m)
  <2>1. n \in 1 .. K /\ n \in 0 .. K /\ n - 1 = m /\ n # 0 /\ m \in Nat
    BY <1>1
  <2>2. Good(m)
    BY <1>5
  <2> HIDE DEF n
  <2>3. PICK f : Made(pr, x, y, P[n], f, y2) /\ F[n].cells = F[m].cells \o Whole(f)
    BY <1>2, <2>1
  <2>4. y \in EndSet /\ F[m].cells \in Seq(CellSet) /\ Ready(pr, x, y) /\ Spared(y, e) /\ F[n] \in PackSet
    BY <1>2, <2>1, <2>2 DEF PackSet
  <2>5. Hashed(pr) => y.sent_hash >= n - 1 /\ y2.sent_hash = y.sent_hash + 1
    <3>1. SUFFICES ASSUME Hashed(pr) PROVE y.sent_hash >= n - 1 /\ y2.sent_hash = y.sent_hash + 1
      OBVIOUS
    <3>2. y2.sent_hash = y.sent_hash + 1
      BY <2>3, <3>1 DEF Made
    <3>3. y.sent_hash = e.sent_hash + m
      BY <2>2, <3>1
    <3>4. QED
      BY <1>3, <2>1, <3>2, <3>3
  <2>6. n = 1 => y = e
    BY <2>1, <2>2
  <2>7. /\ Filled(pr, x, y, P[n])
        /\ Followed(pr, x, y2) => Carried(pr, x, y, P[n]) = t
    <3> DEFINE d == P[n]
    <3>1. Nth(pr, x, e, s, n, d, y, y2)
      BY <2>1, <2>5, <2>6 DEF Nth, P, K
    <3> HIDE DEF y, y2, t, d
    <3>2. Filled(pr, x, y, d) /\ (Followed(pr, x, y2) => Carried(pr, x, y, d) = Piece(s, n))
      BY <2>4, <3>1, PieceCarried
    <3>3. QED
      BY <3>2 DEF t, d
  <2>8. D1 \in Seq(Nat) /\ t \in Seq(Nat) /\ Net(s, m) \in Seq(Nat) /\ Net(s, n) = Net(s, m) \o t
    <3>1. Net(s, n - 1) \in Seq(Nat) /\ Net(s, n) = Net(s, n - 1) \o Piece(s, n) /\ Piece(s, n) \in Seq(Nat)
      BY <2>1, NetIs, PiecesIs DEF K
    <3>2. QED
      BY <2>1, <3>1, SMTT(30)
  <2>9. Sends(pr, x, u \o F[m].cells, a, y, D1)
    BY <2>2
  <2>10. Ready(pr, x, y2) /\ Spared(y2, y)
    BY <2>3, <2>4, MadeReady DEF Made
  <2>11. f \in FrameSet
    BY <2>3 DEF Made
  <2> HIDE DEF Good, S, y, y2, t, D1
  <2>12. Sends(pr, x, (u \o F[m].cells) \o Whole(f), a, y2, D1 \o t)
    BY <2>3, <2>4, <2>7, <2>8, <2>9, SendsOne
  <2>13. (u \o F[m].cells) \o Whole(f) = u \o F[n].cells
    <3>1. Whole(f) \in Seq(CellSet)
      BY <2>11, WholeIs
    <3> DEFINE b == F[m].cells
               w == Whole(f)
    <3>2. (u \o b) \o w = u \o (b \o w)
      <4>1. b \in Seq(CellSet) /\ w \in Seq(CellSet)
        BY <2>4, <3>1
      <4> HIDE DEF b, w
      <4>2. QED
        BY <4>1, RegroupCells, SMTT(30)
    <3>3. QED
      BY <2>3, <3>2
  <2>14. D1 \o t = D \o Net(s, n)
    BY <2>8, Regroup, SMTT(30) DEF D1
  <2>15. Spared(y2, e)
    BY <2>4, <2>10, SparedTrans
  <2>16. Hashed(pr) => y2.sent_hash = e.sent_hash + n
    <3>1. Hashed(pr) => y.sent_hash = e.sent_hash + m
      BY <2>2 DEF Good, y
    <3>2. SUFFICES ASSUME Hashed(pr) PROVE y2.sent_hash = e.sent_hash + n
      OBVIOUS
    <3> DEFINE h == e.sent_hash
               h2 == y2.sent_hash
    <3>3. h2 = (h + m) + 1 /\ n = m + 1 /\ h \in Nat /\ m \in Nat
      BY <1>3, <2>1, <2>5, <3>1, <3>2 DEF n
    <3> HIDE DEF h, h2
    <3>4. h2 = h + n
      BY <3>3
    <3>5. QED
      BY <3>4 DEF h, h2
  <2>17. Good(n)
    BY <2>1, <2>4, <2>10, <2>12, <2>13, <2>14, <2>15, <2>16 DEF Good, y2
  <2>18. n \in S
    BY <2>1, <2>17 DEF S
  <2>19. QED
    BY <2>18 DEF n
<1> HIDE DEF S
<1>6. 0 .. K \subseteq S
  BY <1>1, <1>4, <1>5, RangeInduction
<1>7. K \in S
  BY <1>1, <1>6
<1>8. Good(K)
  BY <1>7 DEF S
<1>9. Net(s, K) = s
  BY NetIs DEF K
<1>10. F[K].e \in EndSet /\ F[K].cells \in Seq(CellSet)
  BY <1>8 DEF PackSet
<1>11. Hashed(pr) => F[K].e.sent_hash > e.sent_hash
  BY <1>1, <1>3, <1>8
<1>12. Wrote(pr, x, u, a, e, D \o s, F[K])
  BY <1>8, <1>9, <1>10, <1>11 DEF Wrote
<1>13. QED
  BY <1>1, <1>12 DEF P

-----------------------------------------------------------------------------
(* What a call makes of the bytes that have arrived.                       *)

\* Between two calls, with w on the way to end e and o handed up so far.
Waiting(pr, x, e, w, z, C, o) ==
    /\ e \in EndSet
    /\ \E g, c : /\ Flow(pr, x, e.recv_buf \o w, Here(e, g, c), z)
                 /\ C => g = o
                 /\ TunedIf(pr, x, e, e, c)
    /\ Hashed(pr) => IdOf(e.recv_id, e.recv_hash)
    /\ pr # "auth_akarin" => Len(e.recv_buf) <= 2

\* After the loop.
Outcome(pr, x, w, z, C, o, e0) ==
    {r \in Reading(pr, x, w, z, C, o, e0) : r.st = "go" => Len(r.e.recv_buf) = 0}

LEMMA CallIs ==
    ASSUME NEW e, NEW chunk, e \in EndSet, chunk \in Seq(CellSet)
    PROVE  /\ Call(e, chunk) \in CallSet /\ Call(e, chunk).st = "go" /\ Call(e, chunk).ret = <<>>
           /\ Call(e, chunk).back = FALSE
           /\ Call(e, chunk).e.recv_buf = e.recv_buf \o chunk /\ Alike(Call(e, chunk).e, e)
           /\ Call(e, chunk).e = [e EXCEPT !.recv_buf = e.recv_buf \o chunk]
<1> DEFINE buf == e.recv_buf \o chunk
           e2 == [e EXCEPT !.recv_buf = buf]
           nil == <<>>
           no == FALSE
           go == "go"
           r == Call(e, chunk)
<1>1. buf \in Seq(CellSet)
  BY EndParts
<1>2. r = [e |-> e2, ret |-> nil, back |-> no, st |-> go]
  BY DEF Call
<1>3. nil \in Seq(Nat) /\ no \in BOOLEAN /\ go \in {"go", "stop", "nomatch", "bad", "raise", "junk"}
  OBVIOUS
<1> HIDE DEF buf
<1>4. e2 \in EndSet /\ e2.recv_buf = buf /\ Alike(e2, e)
  BY <1>1, BufferSet
<1> HIDE DEF e2, nil, no, go, r
<1>5. r.e = e2 /\ r.ret = nil /\ r.back = no /\ r.st = go
  BY <1>2
<1>6. r \in CallSet
  BY <1>2, <1>3, <1>4 DEF CallSet
<1>7. r.e.recv_buf = buf /\ Alike(r.e, e)
  BY <1>4, <1>5
<1>8. QED
  BY <1>5, <1>6, <1>7 DEF e2, buf, nil, no, go, r

LEMMA AlikeTuned ==
    ASSUME NEW x, NEW e, NEW e2, NEW e0, NEW c, Alike(e2, e), Tuned(x, e, e0, c)
    PROVE  Tuned(x, e2, e0, c)
BY DEF Alike, Tuned

LEMMA CallReads ==
    ASSUME NEW pr, NEW x, NEW e, NEW chunk, NEW w, NEW z, NEW C, NEW o,
           chunk \in Seq(CellSet), w \in Seq(CellSet), o \in Seq(Nat),
           Waiting(pr, x, e, chunk \o w, z, C, o)
    PROVE  Call(e, chunk) \in Reading(pr, x, w, z, C, o, e)
<1> DEFINE r == Call(e, chunk)
<1>1. e \in EndSet
  BY DEF Waiting
<1>2. PICK g, c : /\ Flow(pr, x, e.recv_buf \o (chunk \o w), Here(e, g, c), z)
                  /\ C => g = o
                  /\ TunedIf(pr, x, e, e, c)
  BY DEF Waiting
<1>3. /\ r \in CallSet /\ r.st = "go" /\ r.ret = <<>>
      /\ r.e.recv_buf = e.recv_buf \o chunk /\ Alike(r.e, e)
  BY <1>1, CallIs
<1> HIDE DEF r
<1>4. r.e.recv_buf \o w = e.recv_buf \o (chunk \o w)
  <2> DEFINE b == e.recv_buf
  <2>1. b \in Seq(CellSet)
    BY <1>1, EndParts
  <2> HIDE DEF b
  <2>2. (b \o chunk) \o w = b \o (chunk \o w)
    BY <2>1, RegroupCells
  <2>3. QED
    BY <1>3, <2>2 DEF b
<1>5. Here(r.e, g, c) = Here(e, g, c) /\ Kept(r.e, e) /\ r.e.recv_id = e.recv_id /\ r.e.recv_hash = e.recv_hash
  BY <1>3 DEF Alike, Here
<1>6. Flow(pr, x, r.e.recv_buf \o w, Here(r.e, g, c), z)
  BY <1>2, <1>4, <1>5
<1>7. o \o <<>> = o
  OBVIOUS
<1>8. C => g = o \o r.ret
  BY <1>2, <1>3, <1>7
<1>9. pr = "auth_akarin" => Tuned(x, r.e, e, c)
  BY <1>2, <1>3, AlikeTuned DEF TunedIf
<1>10. Hashed(pr) => IdOf(r.e.recv_id, r.e.recv_hash)
  BY <1>5 DEF Waiting
<1>11. r \in Reading(pr, x, w, z, C, o, e)
  BY <1>3, <1>5, <1>6, <1>8, <1>9, <1>10 DEF Reading
<1>12. QED
  BY <1>11 DEF r

LEMMA TunedAgain ==
    ASSUME NEW x, NEW e, NEW e0, NEW c, Tuned(x, e, e0, c)
    PROVE  Tuned(x, e, e, c)
BY DEF Tuned

\* The call has ended without an exception.
LEMMA ReadsWaiting ==
    ASSUME NEW pr, NEW x, NEW w, NEW z, NEW C, NEW o, NEW e0, NEW r,
           r \in Outcome(pr, x, w, z, C, o, e0), r.st \in {"go", "stop"}
    PROVE  Waiting(pr, x, r.e, w, z, C, o \o r.ret)
<1>1. r \in Reading(pr, x, w, z, C, o, e0) /\ (r.st = "go" => Len(r.e.recv_buf) = 0)
  BY DEF Outcome
<1>2. r.e \in EndSet
  BY <1>1, ReadingIs, CallParts
<1>3. PICK g, c : /\ Flow(pr, x, r.e.recv_buf \o w, Here(r.e, g, c), z)
                  /\ C => g = o \o r.ret
                  /\ pr = "auth_akarin" => Tuned(x, r.e, e0, c)
  BY <1>1, ReadingIs
<1>4. TunedIf(pr, x, r.e, r.e, c)
  BY <1>3, TunedAgain DEF TunedIf
<1>5. Hashed(pr) => IdOf(r.e.recv_id, r.e.recv_hash)
  BY <1>1 DEF Reading
<1>6. pr # "auth_akarin" => Len(r.e.recv_buf) <= 2
  <2>1. CASE r.st = "go"
    BY <1>1, <2>1
  <2>2. CASE r.st = "stop"
    BY <1>1, <2>2 DEF Reading
  <2>3. QED
    BY <2>1, <2>2
<1>7. QED
  BY <1>2, <1>3, <1>4, <1>5, <1>6 DEF Waiting

\* The count of the packets with data is of no importance.
LEMMA PacketSet ==
    ASSUME NEW e, NEW k, e \in EndSet, k \in Nat
    PROVE  LET e2 == [e EXCEPT !.decrypt_packet_num = k]
           IN  e2 \in EndSet /\ e2.recv_buf = e.recv_buf /\ Alike(e2, e)
<1> DEFINE B == Seq(CellSet)
           e2 == [e EXCEPT !.decrypt_packet_num = k]
<1>1. e \in [has_header : BOOLEAN, raw_trans : BOOLEAN, dead : BOOLEAN,
     recv_buf : B, pack_id : Nat, recv_id : Nat,
     sent_hash : Nat, recv_hash : Nat, decrypt_packet_num : Nat,
     extra_wait : Nat, send_tcp_mss : Modes, recv_tcp_mss : Modes,
     new_send_tcp_mss : Modes, send_back_cmd : BOOLEAN]
  BY DEF EndSet
<1> HIDE DEF B
<1>2. e2 \in [has_header : BOOLEAN, raw_trans : BOOLEAN, dead : BOOLEAN,
     recv_buf : B, pack_id : Nat, recv_id : Nat,
     sent_hash : Nat, recv_hash : Nat, decrypt_packet_num : Nat,
     extra_wait : Nat, send_tcp_mss : Modes, recv_tcp_mss : Modes,
     new_send_tcp_mss : Modes, send_back_cmd : BOOLEAN]
  BY <1>1
<1>3. Alike(e2, e) /\ e2.recv_buf = e.recv_buf
  BY <1>1 DEF Alike, Kept
<1>4. QED
  BY <1>2, <1>3 DEF EndSet, B

LEMMA CountPacket ==
    ASSUME NEW pr, NEW x, NEW w, NEW z, NEW C, NEW o, NEW e0, NEW r, NEW k,
           r \in Outcome(pr, x, w, z, C, o, e0), k \in Nat
    PROVE  LET t == [r EXCEPT !.e.decrypt_packet_num = k]
           IN  /\ t \in Outcome(pr, x, w, z, C, o, e0)
               /\ t.st = r.st /\ t.ret = r.ret /\ t.back = r.back
<1> DEFINE e == r.e
           e2 == [e EXCEPT !.decrypt_packet_num = k]
           t == [r EXCEPT !.e = e2]
<1>1. r \in Reading(pr, x, w, z, C, o, e0) /\ (r.st = "go" => Len(r.e.recv_buf) = 0)
  BY DEF Outcome
<1>2. r \in CallSet /\ e \in EndSet
  BY <1>1, ReadingIs, CallParts
<1>3. t = [r EXCEPT !.e.decrypt_packet_num = k]
  OBVIOUS
<1> HIDE DEF e
<1>4. e2 \in EndSet /\ e2.recv_buf = e.recv_buf /\ Alike(e2, e)
  BY <1>2, PacketSet
<1> HIDE DEF e2
<1>5. t \in CallSet /\ t.e = e2 /\ t.st = r.st /\ t.ret = r.ret /\ t.back = r.back
  BY <1>2, <1>4 DEF CallSet
<1> HIDE DEF t
<1>6. PICK g, c : /\ Flow(pr, x, e.recv_buf \o w, Here(e, g, c), z)
                  /\ C => g = o \o r.ret
                  /\ pr = "auth_akarin" => Tuned(x, e, e0, c)
  BY <1>1, ReadingIs DEF e
<1>7. Here(e2, g, c) = Here(e, g, c) /\ e2.recv_id = e.recv_id /\ e2.recv_hash = e.recv_hash
  BY <1>4 DEF Alike, Here
<1>8. Kept(e, e0)
  BY <1>1 DEF Reading, e
<1>9. Kept(e2, e0) /\ (Astray(e) => Astray(e2))
  BY <1>4, <1>8 DEF Alike, Kept, Astray
<1>10. pr = "auth_akarin" => Tuned(x, e2, e0, c)
  BY <1>4, <1>6, AlikeTuned
<1>11. /\ \/ t.st = "go"
          \/ t.st = "stop" /\ (pr # "auth_akarin" => Len(e2.recv_buf) <= 2)
          \/ t.st \in {"bad", "raise"} /\ pr = "auth_akarin" /\ Astray(e2)
       /\ Hashed(pr) => /\ IdOf(e2.recv_id, e2.recv_hash)
                        /\ e2.recv_hash = 0 => t.ret = <<>>
  BY <1>1, <1>4, <1>5, <1>7, <1>9 DEF Reading, e
<1>12. Flow(pr, x, e2.recv_buf \o w, Here(e2, g, c), z) /\ (C => g = o \o t.ret)
  BY <1>4, <1>5, <1>6, <1>7
<1>13. t \in Reading(pr, x, w, z, C, o, e0)
  BY <1>5, <1>9, <1>10, <1>11, <1>12 DEF Reading
<1>14. t \in Outcome(pr, x, w, z, C, o, e0)
  BY <1>1, <1>4, <1>5, <1>13 DEF Outcome, e
<1>15. QED
  BY <1>3, <1>5, <1>14

LEMMA ClientReads ==
    ASSUME NEW e, NEW chunk, NEW w, NEW z, NEW C, NEW o, NEW misread,
           proto \in AllProtocols, chunk \in Seq(CellSet), w \in Seq(CellSet), o \in Seq(Nat), C \in BOOLEAN,
           Waiting(proto, "client", e, chunk \o w, z, C, o), Counts(C, proto, "client", z)
    PROVE  client_post_decrypt(e, chunk, misread) \in Outcome(proto, "client", w, z, C, o, e)
<1> DEFINE R == Reading(proto, "client", w, z, C, o, e)
           k0 == Call(e, chunk)
           r == client_post_decrypt(e, chunk, misread)
<1>1. k0 \in R
  BY CallReads
<1>2. CASE proto = "auth_sha1_v4"
  <2> DEFINE t == V4!ReadFrames(k0, V4!Turn)
  <2>1. t \in Outcome(proto, "client", w, z, C, o, e)
    BY <1>1, <1>2, V4Reads DEF Outcome
  <2>2. V4!Call(e, chunk) = k0
    BY DEF V4!Call, Call
  <2>3. r = V4!client_post_decrypt(e, chunk)
    BY <1>2 DEF client_post_decrypt
  <2>4. r = [t EXCEPT !.e.decrypt_packet_num = IF t.ret = <<>> THEN @ ELSE @ + 1]
    BY <2>2, <2>3 DEF V4!client_post_decrypt
  <2> DEFINE k == IF t.ret = <<>> THEN t.e.decrypt_packet_num ELSE t.e.decrypt_packet_num + 1
  <2> HIDE DEF t
  <2>5. t.e.decrypt_packet_num \in Nat
    BY <2>1, ReadingIs, CallParts, EndParts DEF Outcome
  <2>6. k \in Nat
    BY <2>5
  <2>7. r = [t EXCEPT !.e.decrypt_packet_num = k]
    BY <2>4
  <2> HIDE DEF k
  <2>8. QED
    BY <2>1, <2>6, <2>7, CountPacket
<1>3. CASE proto = "auth_aes128"
  <2>1. Aes!Call(e, chunk) = k0
    BY DEF Aes!Call, Call
  <2>2. r = Aes!ReadFrames(k0, Aes!Turn)
    BY <1>3, <2>1 DEF client_post_decrypt, Aes!client_post_decrypt
  <2>3. QED
    BY <1>1, <1>3, <2>2, AesReads DEF Outcome
<1>4. CASE proto = "auth_chain"
  <2>1. Chain!Call(e, chunk) = k0
    BY DEF Chain!Call, Call
  <2>2. r = ChainClientLoop(k0, misread)
    BY <1>4, <2>1 DEF client_post_decrypt, Chain!client_post_decrypt, ChainClientLoop
  <2>3. QED
    BY <1>1, <1>4, <2>2, ChainClientReads DEF Outcome
<1>5. CASE proto = "auth_akarin"
  <2>1. Akarin!Call(e, chunk) = k0
    BY DEF Akarin!Call, Call
  <2>2. r = AkarinClientLoop(k0, misread)
    BY <1>5, <2>1 DEF client_post_decrypt, Akarin!client_post_decrypt, AkarinClientLoop
  <2>3. QED
    BY <1>1, <1>5, <2>2, AkarinClientReads DEF Outcome
<1>6. QED
  BY <1>2, <1>3, <1>4, <1>5 DEF AllProtocols

\* The header, if there is none yet.
Header(r, iv, admit) ==
    CASE proto = "auth_sha1_v4" -> V4!Header(r, iv, admit)
      [] proto = "auth_aes128" -> Aes!Header(r, iv, admit)
      [] proto = "auth_chain" -> Chain!Header(r, iv, admit)
      [] proto = "auth_akarin" -> Akarin!Header(r, iv, admit)

Begun(e, chunk, iv, admit) ==
    IF e.has_header THEN Call(e, chunk) ELSE Header(Call(e, chunk), iv, admit)

\* An end of auth_akarin that pads by another tcp_mss than it expects.
Apart(e) == e.recv_tcp_mss # e.send_tcp_mss

\* A call of the server that has read frames: it ends well, or of auth_akarin
\* only, as an end that was apart before.
Ended(r, w, z, C, o, e0) ==
    \/ r \in Outcome(proto, "server", w, z, C, o, e0) /\ r.st \in {"go", "stop"}
    \/ /\ proto = "auth_akarin" /\ r.st \in {"junk", "raise"}
       /\ r.e \in EndSet /\ Apart(r.e) /\ Apart(e0) /\ r.e.has_header = e0.has_header

LEMMA ServerStray ==
    ASSUME NEW w, NEW z, NEW C, NEW o, NEW e0, NEW r,
           r \in Reading("auth_akarin", "server", w, z, C, o, e0), Astray(r.e)
    PROVE  r.e \in EndSet /\ Apart(r.e) /\ Apart(e0) /\ r.e.has_header = e0.has_header
<1>1. r.e \in EndSet
  BY ReadingIs, CallParts
<1>2. PICK g, c : Tuned("server", r.e, e0, c)
  BY ReadingIs
<1>3. r.e.has_header = e0.has_header
  BY DEF Reading, Kept
<1>4. QED
  BY <1>1, <1>2, <1>3 DEF Tuned, Astray, Apart

\* An order can be obeyed.
Obeyable(z, e0) == proto = "auth_akarin" /\ z.cmd => e0.send_tcp_mss = "path"

\* The statuses of what the loop returns.
LEMMA OutcomeIs ==
    ASSUME NEW pr, NEW x, NEW w, NEW z, NEW C, NEW o, NEW e0, NEW r,
           r \in Outcome(pr, x, w, z, C, o, e0)
    PROVE  /\ r \in CallSet /\ r.e \in EndSet
           /\ \/ r.st \in {"go", "stop"}
              \/ r.st \in {"bad", "raise"} /\ pr = "auth_akarin" /\ Astray(r.e)
<1>1. r \in Reading(pr, x, w, z, C, o, e0)
  BY DEF Outcome
<1>2. QED
  BY <1>1, CallParts DEF Reading

LEMMA ServerReads ==
    ASSUME NEW e, NEW chunk, NEW iv, NEW admit, NEW misread, NEW w, NEW z, NEW C, NEW o, NEW e0, NEW h,
           proto \in AllProtocols, w \in Seq(CellSet), o \in Seq(Nat), C \in BOOLEAN,
           h = Begun(e, chunk, iv, admit), h.st = "go",
           h \in Reading(proto, "server", w, z, C, o, e0), Obeyable(z, e0)
    PROVE  Ended(server_post_decrypt(e, chunk, iv, admit, misread), w, z, C, o, e0)
<1> DEFINE G == Outcome(proto, "server", w, z, C, o, e0)
           r == server_post_decrypt(e, chunk, iv, admit, misread)
<1>1. CASE proto = "auth_sha1_v4"
  <2> DEFINE t == V4!ReadFrames(h, V4!Turn)
             k == IF t.ret = <<>> THEN t.e.decrypt_packet_num ELSE t.e.decrypt_packet_num + 1
  <2>1. t \in G
    BY <1>1, V4Reads DEF Outcome
  <2>2. h = IF e.has_header THEN V4!Call(e, chunk) ELSE V4!Header(V4!Call(e, chunk), iv, admit)
    BY <1>1 DEF Begun, Header, V4!Call, Call
  <2>3. r = V4!server_post_decrypt(e, chunk, iv, admit)
    BY <1>1 DEF server_post_decrypt
  <2> DEFINE Done(y) ==
               CASE y.st = "bad" -> V4!Stop(y, IF e.decrypt_packet_num = 0 THEN "junk" ELSE "raise")
                 [] y.st = "nomatch" -> y
                 [] y.st \in {"go", "stop"} ->
                      [y EXCEPT !.e.decrypt_packet_num = IF y.ret = <<>> THEN @ ELSE @ + 1]
             H == IF e.has_header THEN V4!Call(e, chunk) ELSE V4!Header(V4!Call(e, chunk), iv, admit)
  <2>4. V4!server_post_decrypt(e, chunk, iv, admit) = Done(IF H.st = "go" THEN V4!ReadFrames(H, V4!Turn) ELSE H)
    BY DEF V4!server_post_decrypt
  <2>40. r = Done(t)
    <3> HIDE DEF Done
    <3>1. H = h
      BY <2>2
    <3> HIDE DEF H
    <3>2. QED
      BY <2>3, <2>4, <3>1
  <2> HIDE DEF t, r, G
  <2>5. t \in CallSet /\ t.e \in EndSet /\ t.st \in {"go", "stop"}
    BY <1>1, <2>1, OutcomeIs DEF G
  <2>6. t.e.decrypt_packet_num \in Nat
    BY <2>5, EndParts
  <2>7. k \in Nat
    BY <2>6
  <2>8. r = [t EXCEPT !.e.decrypt_packet_num = k]
    BY <2>40, <2>5
  <2> HIDE DEF k
  <2>9. r \in G /\ r.st = t.st
    BY <2>1, <2>7, <2>8, CountPacket DEF G
  <2>10. QED
    BY <2>5, <2>9 DEF Ended, G, r
<1>2. CASE proto = "auth_aes128"
  <2> DEFINE t == Aes!ReadFrames(h, Aes!Turn)
  <2>1. t \in G
    BY <1>2, AesReads DEF Outcome
  <2>2. h = IF e.has_header THEN Aes!Call(e, chunk) ELSE Aes!Header(Aes!Call(e, chunk), iv, admit)
    BY <1>2 DEF Begun, Header, Aes!Call, Call
  <2>3. r = IF t.st = "bad" THEN Aes!Stop(t, IF t.e.recv_id = 0 THEN "junk" ELSE "raise") ELSE t
    BY <1>2, <2>2 DEF server_post_decrypt, Aes!server_post_decrypt
  <2> HIDE DEF t, r, G
  <2>4. t.st \in {"go", "stop"}
    BY <1>2, <2>1, OutcomeIs DEF G
  <2>5. QED
    BY <2>1, <2>3, <2>4 DEF Ended, G, r
<1>3. CASE proto = "auth_chain"
  <2> DEFINE t == ChainServerLoop(h, misread)
  <2>1. t \in G
    BY <1>3, ChainServerReads DEF Outcome
  <2>2. h = IF e.has_header THEN Chain!Call(e, chunk) ELSE Chain!Header(Chain!Call(e, chunk), iv, admit)
    BY <1>3 DEF Begun, Header, Chain!Call, Call
  <2>3. r = IF t.st = "bad" THEN Chain!Stop(t, IF t.e.recv_id = 1 THEN "junk" ELSE "raise") ELSE t
    BY <1>3, <2>2 DEF server_post_decrypt, Chain!server_post_decrypt, ChainServerLoop
  <2> HIDE DEF t, r, G
  <2>4. t.st \in {"go", "stop"}
    BY <1>3, <2>1, OutcomeIs DEF G
  <2>5. QED
    BY <2>1, <2>3, <2>4 DEF Ended, G, r
<1>4. CASE proto = "auth_akarin"
  <2> DEFINE t == AkarinServerLoop(h, misread)
             v == IF t.e.recv_id = 1 THEN "junk" ELSE "raise"
  <2>1. t \in G
    BY <1>4, AkarinServerReads DEF Outcome, Obeyable
  <2>2. h = IF e.has_header THEN Akarin!Call(e, chunk) ELSE Akarin!Header(Akarin!Call(e, chunk), iv, admit)
    BY <1>4 DEF Begun, Header, Akarin!Call, Call
  <2>3. r = IF t.st = "bad" THEN [t EXCEPT !.st = v] ELSE t
    BY <1>4, <2>2 DEF server_post_decrypt, Akarin!server_post_decrypt, AkarinServerLoop, Akarin!Stop
  <2> HIDE DEF t, r, G
  <2>4. /\ t \in CallSet /\ t.e \in EndSet
        /\ t.st \in {"go", "stop"} \/ (t.st \in {"bad", "raise"} /\ Astray(t.e))
    BY <2>1, OutcomeIs DEF G
  <2>5. CASE t.st \in {"go", "stop"}
    BY <2>1, <2>3, <2>5 DEF Ended, G, r
  <2>6. CASE t.st \in {"bad", "raise"}
    <3>1. t.e \in EndSet /\ Apart(t.e) /\ Apart(e0) /\ t.e.has_header = e0.has_header
      BY <1>4, <2>1, <2>4, <2>6, ServerStray DEF G, Outcome
    <3>2. r.e = t.e /\ r.st \in {"junk", "raise"}
      BY <2>3, <2>4, <2>6 DEF CallSet
    <3>3. QED
      BY <1>4, <3>1, <3>2 DEF Ended, r
  <2>7. QED
    BY <2>4, <2>5, <2>6
<1>5. QED
  BY <1>1, <1>2, <1>3, <1>4 DEF AllProtocols
=============================================================================
