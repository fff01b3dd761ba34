---------------------------- MODULE AuthAes128 -----------------------------
(* The frames of auth_aes128_md5 and auth_aes128_sha1: both codes of a     *)
(* frame are keyed with its number, counted from 1 by each end.            *)
EXTENDS AuthBase

pack_data(e, d) ==
    LET f == [NewFrame(d) EXCEPT !.id = e.pack_id]
    IN  [e |-> [e EXCEPT !.pack_id = NextId(@)], cells |-> Cut(f, FrameParts(f))]

pack_auth_data(e, d) ==
    [e |-> e, cells |-> Cut(NewFrame(d), <<"h1", "h2", "h3">>)]

client_pre_encrypt(e, head, rest) ==
    LET h == pack_auth_data([e EXCEPT !.has_header = TRUE], head)
        p == PackAll(IF e.has_header THEN e ELSE h.e, Pieces(rest), pack_data)
    IN  IF e.has_header THEN p ELSE [p EXCEPT !.cells = h.cells \o @]

server_pre_encrypt(e, s) == PackAll(e, Pieces(s), pack_data)

\* Mutant: the codes are not keyed with the frame's number.
FrameVerdictUnnumbered(e) ==
    LET b == e.recv_buf
    IN  IF Len(b) < 3 THEN "stop" ELSE IF \A i \in 1 .. 3 : b[i].ok THEN "go" ELSE "bad"

FrameVerdict(e) ==
    LET b == e.recv_buf
        known == IsGood(b[1], "len") /\ b[1].f.id = e.recv_id
    IN  CASE Len(b) < 2 -> "stop"
          [] Len(b) >= 2 /\ ~known -> "bad"
          [] Len(b) = 2 /\ known -> "stop"
          [] Len(b) > 2 /\ known -> IF b[2].ok /\ b[3].ok THEN "go" ELSE "bad"

\* Mutant: recv_id is not counted on.
AcceptUncounted(e, f) == e

Accept(e, f) == [e EXCEPT !.recv_id = NextId(@)]

Turn(r) ==
    LET v == FrameVerdict(r.e)
    IN  IF v = "go" THEN Take(r, Accept) ELSE Stop(r, v)

\* Mutant: one frame for each call.
client_post_decryptOnce(e, chunk) == Turn(Call(e, chunk))

client_post_decrypt(e, chunk) == ReadFrames(Call(e, chunk), Turn)

\* The first code has the IV in its key.  The head's own code fails late on
\* purpose: after extra_wait_size more.
Header(r, iv, admit) ==
    LET b == r.e.recv_buf
        known == iv /\ IsGood(b[1], "h1")
    IN  CASE b = <<>> -> Stop(r, "stop")
          [] Len(b) >= 1 /\ ~known -> Stop(r, "nomatch")
          [] Len(b) = 1 /\ known -> Stop(r, "stop")
          [] Len(b) >= 2 /\ known /\ ~b[2].ok ->
                Stop(r, IF Len(b) < 2 + r.e.extra_wait THEN "stop" ELSE "nomatch")
          [] Len(b) = 2 /\ known /\ b[2].ok -> Stop(r, "stop")
          [] Len(b) > 2 /\ known /\ b[2].ok ->
                IF b[3].ok /\ admit
                THEN [r EXCEPT !.e.has_header = TRUE, !.e.recv_buf = Drop(@, 3),
                               !.ret = b[1].f.d, !.back = TRUE]
                ELSE Stop(r, "nomatch")

\* The letters E are returned at number 0, which the count reaches only when
\* it wraps: a bad frame raises.
server_post_decrypt(e, chunk, iv, admit) ==
    LET c == Call(e, chunk)
        h == IF e.has_header THEN c ELSE Header(c, iv, admit)
        r == IF h.st = "go" THEN ReadFrames(h, Turn) ELSE h
    IN  IF r.st = "bad" THEN Stop(r, IF r.e.recv_id = 0 THEN "junk" ELSE "raise") ELSE r
=============================================================================
