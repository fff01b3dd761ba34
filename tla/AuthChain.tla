----------------------------- MODULE AuthChain -----------------------------
(* The frames of auth_chain_a to auth_chain_f: the length is masked with   *)
(* the hash of the frame before, and the padding is drawn from it, so that *)
(* a frame out of the chain shows the receiver some other length.          *)
(*                                                                         *)
(* misread says what such a length does: "over" is refused at once, "more" *)
(* asks for bytes that are not there.  A length that happens to fit fails  *)
(* the frame's code, which ends as "over" does.                            *)
EXTENDS AuthBase

\* An empty frame that drew no padding is two cells, four bytes, long.
rnd_data(d, pad) == IF d = <<>> /\ ~pad THEN 2 ELSE 3

pack_client_data(e, d, pad) ==
    LET f == [NewFrame(d) EXCEPT !.id = e.pack_id, !.prev = e.sent_hash,
                                 !.size = rnd_data(d, pad)]
    IN  [e |-> [e EXCEPT !.pack_id = NextId(@), !.sent_hash = @ + 1],
         cells |-> Cut(f, FrameParts(f))]

pack_server_data(e, d, pad) ==
    LET f == [NewFrame(d) EXCEPT !.id = e.pack_id, !.prev = e.sent_hash,
                                 !.size = rnd_data(d, pad)]
    IN  [e |-> [e EXCEPT !.pack_id = NextId(@), !.sent_hash = @ + 1],
         cells |-> Cut(f, FrameParts(f))]

\* The header starts both hashes and is followed by the first frame.
pack_auth_data(e, d, pad) ==
    LET p == pack_client_data([e EXCEPT !.sent_hash = 0, !.recv_hash = 0], d, pad)
    IN  [p EXCEPT !.cells = Cut(NewFrame(<<>>), <<"h1", "h2">>) \o @]

client_pre_encrypt(e, head, rest, pad) ==
    LET h == pack_auth_data([e EXCEPT !.has_header = TRUE], head, pad)
        p == PackAll(IF e.has_header THEN e ELSE h.e, Pieces(rest),
                     LAMBDA x, d : pack_client_data(x, d, pad))
    IN  IF e.has_header THEN p ELSE [p EXCEPT !.cells = h.cells \o @]

\* The first frame starts with the server's tcp_mss.
server_pre_encrypt(e, s, pad) ==
    LET pieces == IF e.pack_id = 1 THEN [Pieces(s) EXCEPT ![1] = <<Mss>> \o @] ELSE Pieces(s)
    IN  PackAll(e, pieces, LAMBDA x, d : pack_server_data(x, d, pad))

FrameVerdict(e, misread) ==
    LET b == e.recv_buf
        f == b[1].f
        enter == Len(b) > 2 \/ (Len(b) = 2 /\ b[2].t = "body")
        inChain == IsGood(b[1], "len") /\ f.prev = e.recv_hash
        intact == f.id = e.recv_id /\ \A i \in 1 .. f.size : b[i].ok
    IN  CASE ~enter -> "stop"
          [] enter /\ ~inChain -> IF misread = "more" THEN "stop" ELSE "bad"
          [] enter /\ inChain /\ Len(b) < f.size -> "stop"
          [] enter /\ inChain /\ Len(b) >= f.size -> IF intact THEN "go" ELSE "bad"

Accept(e, f) == [e EXCEPT !.recv_id = NextId(@), !.recv_hash = f.prev + 1]

Turn(r, misread) ==
    LET v == FrameVerdict(r.e, misread)
    IN  IF v = "go" THEN Take(r, Accept) ELSE Stop(r, v)

\* Mutant: the announced tcp_mss is left in the stream.
ClientTurnKeepsMss(r, misread) == Turn(r, misread)

\* Frame number 1 loses its first two bytes, the server's tcp_mss.
ClientTurn(r, misread) ==
    LET t == Turn(r, misread)
    IN  IF t.st = "go" /\ r.e.recv_id = 1 THEN [t EXCEPT !.ret = Tail(@)] ELSE t

client_post_decrypt(e, chunk, misread) ==
    ReadFrames(Call(e, chunk), LAMBDA r : ClientTurn(r, misread))

\* The first code has the IV in its key.
Header(r, iv, admit) ==
    LET b == r.e.recv_buf
        known == iv /\ IsGood(b[1], "h1")
    IN  CASE b = <<>> -> Stop(r, "stop")
          [] Len(b) >= 1 /\ ~known -> Stop(r, "nomatch")
          [] Len(b) = 1 /\ known -> Stop(r, "stop")
          [] Len(b) > 1 /\ known ->
                IF b[2].ok /\ admit
                THEN [r EXCEPT !.e.has_header = TRUE, !.e.recv_buf = Drop(@, 2),
                               !.e.recv_hash = 0, !.e.sent_hash = 0, !.back = TRUE]
                ELSE Stop(r, "nomatch")

server_post_decrypt(e, chunk, iv, admit, misread) ==
    LET c == Call(e, chunk)
        h == IF e.has_header THEN c ELSE Header(c, iv, admit)
        r == IF h.st = "go" THEN ReadFrames(h, LAMBDA x : Turn(x, misread)) ELSE h
    IN  IF r.st = "bad" THEN Stop(r, IF r.e.recv_id = 1 THEN "junk" ELSE "raise") ELSE r
=============================================================================
