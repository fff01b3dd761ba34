----------------------------- MODULE AuthAkarin ----------------------------
(* The frames of auth_akarin_rand and auth_akarin_spec_a: those of         *)
(* auth_chain, with padding bounded by a tcp_mss the two ends must agree   *)
(* on.  Its values: "default" is the 2000 of the constructor, "drawn" what *)
(* the client draws for its header, "path" what the server announces.      *)
(*                                                                         *)
(* misread says what a length read against the wrong hash or the wrong     *)
(* tcp_mss does: as in AuthChain, and with the right hash also "luck", the *)
(* same padding all the same, and "zero", a division by the room of zero   *)
(* bytes that is left.                                                     *)
EXTENDS AuthBase

\* A frame without padding: an empty one that drew none, or data that fills
\* the tcp_mss exactly.
send_rnd_data_len(e, d, pad) ==
    [NewFrame(d) EXCEPT !.id = e.pack_id, !.prev = e.sent_hash, !.mss = e.send_tcp_mss,
                        !.exact = ~pad /\ d # <<>>,
                        !.size = IF d = <<>> /\ ~pad THEN 2 ELSE 3]

\* A padded frame of the receiver has the sender's length if they use one
\* tcp_mss.  When the data fills it exactly the receiver looks for that case
\* under its own send_tcp_mss.
recv_rnd_data_len(e, f) ==
    /\ f.mss = e.recv_tcp_mss
    /\ f.exact => e.recv_tcp_mss = e.send_tcp_mss

\* Once the client knows the server's tcp_mss, every frame orders its use.
pack_client_data(e, d, pad) ==
    LET x == IF e.send_back_cmd THEN [e EXCEPT !.send_tcp_mss = e.recv_tcp_mss] ELSE e
        f == [send_rnd_data_len(x, d, pad) EXCEPT !.cmd = e.send_back_cmd,
                                                   !.size = IF e.send_back_cmd THEN 3 ELSE @]
    IN  [e |-> [x EXCEPT !.pack_id = NextId(@), !.sent_hash = @ + 1],
         cells |-> Cut(f, FrameParts(f))]

pack_server_data(e, d, pad) ==
    LET f == send_rnd_data_len(e, d, pad)
    IN  [e |-> [e EXCEPT !.pack_id = NextId(@), !.sent_hash = @ + 1,
                         !.send_tcp_mss = IF e.pack_id = 1 THEN e.new_send_tcp_mss ELSE @],
         cells |-> Cut(f, FrameParts(f))]

pack_auth_data(e, d, pad) ==
    LET x == [e EXCEPT !.send_tcp_mss = "drawn", !.sent_hash = 0, !.recv_hash = 0]
        p == pack_client_data(x, d, pad)
        head == [NewFrame(<<>>) EXCEPT !.mss = "drawn"]
    IN  [p EXCEPT !.cells = Cut(head, <<"h1", "h2">>) \o @]

client_pre_encrypt(e, head, rest, pad) ==
    LET h == pack_auth_data([e EXCEPT !.has_header = TRUE], head, pad)
        p == PackAll(IF e.has_header THEN e ELSE h.e, Pieces(rest),
                     LAMBDA x, d : pack_client_data(x, d, pad))
    IN  IF e.has_header THEN p ELSE [p EXCEPT !.cells = h.cells \o @]

server_pre_encrypt(e, s, pad) ==
    LET first == e.pack_id = 1
        x == IF first THEN [e EXCEPT !.new_send_tcp_mss = "path"] ELSE e
        pieces == IF first THEN [Pieces(s) EXCEPT ![1] = <<Mss>> \o @] ELSE Pieces(s)
    IN  PackAll(x, pieces, LAMBDA y, d : pack_server_data(y, d, pad))

FrameVerdict(e, misread) ==
    LET b == e.recv_buf
        f == b[1].f
        enter == Len(b) > 2 \/ (Len(b) = 2 /\ b[2].t = "body")
        inChain == IsGood(b[1], "len") /\ f.prev = e.recv_hash
        legible == inChain /\ (recv_rnd_data_len(e, f) \/ misread = "luck")
        intact == f.id = e.recv_id /\ \A i \in 1 .. f.size : b[i].ok
    IN  CASE ~enter -> "stop"
          [] enter /\ inChain /\ ~legible /\ misread = "zero" -> "raise"
          [] enter /\ ~legible /\ ~(inChain /\ misread = "zero") ->
                IF misread = "more" THEN "stop" ELSE "bad"
          [] enter /\ legible /\ Len(b) < f.size -> "stop"
          [] enter /\ legible /\ Len(b) >= f.size -> IF intact THEN "go" ELSE "bad"

Accept(e, f) == [e EXCEPT !.recv_id = NextId(@), !.recv_hash = f.prev + 1]

Turn(r, misread) ==
    LET v == FrameVerdict(r.e, misread)
    IN  IF v = "go" THEN Take(r, Accept) ELSE Stop(r, v)

\* Frame number 1 brings the server's tcp_mss, to be confirmed from now on.
ClientTurn(r, misread) ==
    LET t == Turn(r, misread)
    IN  IF t.st = "go" /\ r.e.recv_id = 1
        THEN [t EXCEPT !.ret = Tail(@), !.e.recv_tcp_mss = "path", !.e.send_back_cmd = TRUE]
        ELSE t

client_post_decrypt(e, chunk, misread) ==
    ReadFrames(Call(e, chunk), LAMBDA r : ClientTurn(r, misread))

\* The first code has the IV in its key.
Header(r, iv, admit) ==
    LET b == r.e.recv_buf
        known == iv /\ IsGood(b[1], "h1")
    IN  CASE b = <<>> -> Stop(r, "stop")
          [] Len(b) >= 1 /\ ~known -> Stop(r, "nomatch")
          [] Len(b) = 1 /\ known -> Stop(r, "stop")
          [] Len(b) > 1 /\ known ->
                IF b[2].ok /\ admit
                THEN [r EXCEPT !.e.has_header = TRUE, !.e.recv_buf = Drop(@, 2),
                               !.e.recv_hash = 0, !.e.sent_hash = 0,
                               !.e.recv_tcp_mss = b[1].f.mss, !.e.send_tcp_mss = b[1].f.mss,
                               !.back = TRUE]
                ELSE Stop(r, "nomatch")

\* An order is obeyed as soon as it is read, before the rest of its frame.
ServerTurn(r, misread) ==
    LET b == r.e.recv_buf
        ordered == /\ Len(b) > 1
                   /\ IsGood(b[1], "len") /\ b[1].f.prev = r.e.recv_hash /\ b[1].f.cmd
    IN  Turn(IF ordered THEN [r EXCEPT !.e.recv_tcp_mss = r.e.send_tcp_mss] ELSE r, misread)

server_post_decrypt(e, chunk, iv, admit, misread) ==
    LET c == Call(e, chunk)
        h == IF e.has_header THEN c ELSE Header(c, iv, admit)
        r == IF h.st = "go" THEN ReadFrames(h, LAMBDA x : ServerTurn(x, misread)) ELSE h
    IN  IF r.st = "bad" THEN Stop(r, IF r.e.recv_id = 1 THEN "junk" ELSE "raise") ELSE r
=============================================================================
