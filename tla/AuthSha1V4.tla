---------------------------- MODULE AuthSha1V4 -----------------------------
(* The frames of auth_sha1_v4: a checksum of the length, one of the frame, *)
(* and no frame numbers.                                                   *)
EXTENDS AuthBase

pack_data(e, d) ==
    LET f == NewFrame(d) IN [e |-> e, cells |-> Cut(f, FrameParts(f))]

\* The header carries auth_data and the first bytes of the stream.
pack_auth_data(e, d) ==
    [e |-> e, cells |-> Cut(NewFrame(d), <<"h1", "h2", "h3">>)]

client_pre_encrypt(e, head, rest) ==
    LET h == pack_auth_data([e EXCEPT !.has_header = TRUE], head)
        p == PackAll(IF e.has_header THEN e ELSE h.e, Pieces(rest), pack_data)
    IN  IF e.has_header THEN p ELSE [p EXCEPT !.cells = h.cells \o @]

server_pre_encrypt(e, s) == PackAll(e, Pieces(s), pack_data)

\* What the checks say of the head of the buffer: the length's checksum once
\* more than the length is there, then the whole frame's.
FrameVerdict(b) ==
    CASE Len(b) < 2 -> "stop"
      [] Len(b) >= 2 /\ ~IsGood(b[1], "len") -> "bad"
      [] Len(b) = 2 /\ IsGood(b[1], "len") -> "stop"
      [] Len(b) > 2 /\ IsGood(b[1], "len") -> IF b[2].ok /\ b[3].ok THEN "go" ELSE "bad"

Turn(r) ==
    LET v == FrameVerdict(r.e.recv_buf)
    IN  IF v = "go" THEN Take(r, LAMBDA e, f : e) ELSE Stop(r, v)

client_post_decrypt(e, chunk) ==
    LET r == ReadFrames(Call(e, chunk), Turn)
    IN  [r EXCEPT !.e.decrypt_packet_num = IF r.ret = <<>> THEN @ ELSE @ + 1]

\* The first bytes at the server.  Plain data is longer than the six bytes
\* the first check waits for.  The whole frame's code has the IV in its key.
Header(r, iv, admit) ==
    LET b == r.e.recv_buf
        enough == Len(b) > 1 \/ (b # <<>> /\ b[1].t = "data")
    IN  CASE ~enough -> Stop(r, "stop")
          [] enough /\ ~IsGood(b[1], "h1") -> Stop(r, "nomatch")
          [] Len(b) = 2 /\ IsGood(b[1], "h1") -> Stop(r, "stop")
          [] Len(b) > 2 /\ IsGood(b[1], "h1") ->
                IF b[2].ok /\ b[3].ok /\ iv /\ admit
                THEN [r EXCEPT !.e.has_header = TRUE, !.e.recv_buf = Drop(@, 3),
                               !.ret = b[1].f.d, !.back = TRUE]
                ELSE Stop(r, "nomatch")

\* A bad frame before any data was returned is answered with letters E, and
\* whatever this call had decoded is dropped.
server_post_decrypt(e, chunk, iv, admit) ==
    LET c == Call(e, chunk)
        h == IF e.has_header THEN c ELSE Header(c, iv, admit)
        r == IF h.st = "go" THEN ReadFrames(h, Turn) ELSE h
    IN  CASE r.st = "bad" -> Stop(r, IF e.decrypt_packet_num = 0 THEN "junk" ELSE "raise")
          [] r.st = "nomatch" -> r
          [] r.st \in {"go", "stop"} ->
                [r EXCEPT !.e.decrypt_packet_num = IF r.ret = <<>> THEN @ ELSE @ + 1]
=============================================================================
