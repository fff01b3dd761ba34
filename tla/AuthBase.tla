----------------------------- MODULE AuthBase ------------------------------
(***************************************************************************)
(* What the auth protocols share: the state one end of a connection keeps, *)
(* the cells a frame is cut into, and the loop that takes frames off the   *)
(* receive buffer.                                                         *)
(*                                                                         *)
(* A cell is the smallest piece whose arrival the code can tell: its part  *)
(* of the frame, the frame it was cut from, and whether it arrived as it   *)
(* was sent.  Checksums and message codes are ideal: they accept a cell    *)
(* exactly when it is undamaged and was made with the receiver's key, id   *)
(* and hash.  A hash is the number of frames hashed into the chain.        *)
(***************************************************************************)
EXTENDS Integers, Sequences

CONSTANT IdMod   \* pack_id and recv_id count modulo 2^32

ASSUME IdModAssumption == IdMod \in Nat \ {0, 1}

\* The tcp_mss the server announces in front of its first bytes, as data.
Mss == 0

NewEnd ==
    [has_header |-> FALSE, raw_trans |-> FALSE, dead |-> FALSE,
     recv_buf |-> <<>>, pack_id |-> 1, recv_id |-> 1,
     sent_hash |-> 0, recv_hash |-> 0, decrypt_packet_num |-> 0,
     extra_wait |-> 0, send_tcp_mss |-> "default", recv_tcp_mss |-> "default",
     new_send_tcp_mss |-> "default", send_back_cmd |-> FALSE]

NewFrame(d) ==
    [d |-> d, id |-> 0, prev |-> 0, mss |-> "default",
     cmd |-> FALSE, exact |-> FALSE, size |-> 3]

Cut(f, parts) ==
    [i \in DOMAIN parts |-> [t |-> parts[i], f |-> f, ok |-> TRUE]]

FrameParts(f) == IF f.size = 2 THEN <<"len", "mac">> ELSE <<"len", "body", "mac">>

IsGood(c, part) == c.ok /\ c.t = part

Drop(s, n) == SubSeq(s, n + 1, Len(s))

NextId(id) == (id + 1) % IdMod

\* At most one unit of data goes into a frame; no data makes an empty frame.
Pieces(s) == IF s = <<>> THEN << <<>> >> ELSE [i \in DOMAIN s |-> <<s[i]>>]

\* Pack every piece in turn: [e, cells], the end afterwards and what it sends.
PackAll(e, pieces, Pack(_, _)) ==
    LET packed[n \in 0 .. Len(pieces)] ==
          IF n = 0 THEN [e |-> e, cells |-> <<>>]
          ELSE LET before == packed[n - 1]
                   p == Pack(before.e, pieces[n])
               IN  [e |-> p.e, cells |-> before.cells \o p.cells]
    IN  packed[Len(pieces)]

(***************************************************************************)
(* A post_decrypt call in progress: the end, what it returns, whether an   *)
(* answer is to be sent back, and how it goes on.  st is "go" while frames *)
(* are read, "stop" when more bytes are needed, "nomatch" after            *)
(* not_match_return, "bad" when a check of a frame fails and "raise" when  *)
(* an exception leaves the call.                                           *)
(***************************************************************************)
Call(e, chunk) ==
    [e |-> [e EXCEPT !.recv_buf = @ \o chunk], ret |-> <<>>, back |-> FALSE, st |-> "go"]

Stop(r, st) == [r EXCEPT !.st = st]

\* The frame at the head of recv_buf is taken: Accept updates the counters.
Take(r, Accept(_, _)) ==
    LET f == r.e.recv_buf[1].f
    IN  [r EXCEPT !.e = [Accept(r.e, f) EXCEPT !.recv_buf = Drop(@, f.size)],
                  !.ret = @ \o f.d,
                  !.back = @ \/ f.d = <<>>]

\* while len(self.recv_buf) > 4: one turn takes one frame or leaves the loop.
ReadFrames(r, Turn(_)) ==
    LET loop[n \in 0 .. Len(r.e.recv_buf)] ==
          IF n = 0 THEN r
          ELSE LET before == loop[n - 1]
               IN  IF before.st = "go" THEN Turn(before) ELSE before
    IN  loop[Len(r.e.recv_buf)]
=============================================================================
