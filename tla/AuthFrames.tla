---------------------------- MODULE AuthFrames -----------------------------
(***************************************************************************)
(* One connection through an auth protocol: two ends, a byte stream in     *)
(* each direction that TCP cuts anywhere, and faults that damage, lose or  *)
(* repeat what is on the way.  Directions are named after the end that     *)
(* receives.  The k-th unit of data written in a direction is the number   *)
(* k.  A plain client speaks no auth protocol, which a server with a       *)
(* _compatible method puts up with.                                        *)
(***************************************************************************)
EXTENDS AuthBase

CONSTANTS
    Protocols,   \* the protocols looked at
    MaxUp,       \* units of data written by the client
    MaxDown,     \* units of data written by the server
    MaxWrite,    \* units of data in one write
    MaxFaults    \* cells damaged, frames lost or repeated

VARIABLES
    proto, compatible, plain,   \* the configuration
    end,                        \* the two ends
    wire,                       \* cells on their way to an end
    sent, out,                  \* data written for, and handed up at, an end
    refused,                    \* an end handed up something else
    recv_iv,                    \* what the server took for the client's IV
    admitted,                   \* what the client table said of the header
    faults

config == <<proto, compatible, plain>>
vars == <<config, end, wire, sent, out, refused, recv_iv, admitted, faults>>

V4 == INSTANCE AuthSha1V4
Aes == INSTANCE AuthAes128
Chain == INSTANCE AuthChain
Akarin == INSTANCE AuthAkarin

Ends == {"client", "server"}
AllProtocols == {"auth_sha1_v4", "auth_aes128", "auth_chain", "auth_akarin"}

ASSUME ProtocolsAssumption == Protocols \subseteq AllProtocols
ASSUME BoundsAssumption == {MaxUp, MaxDown, MaxWrite, MaxFaults} \subseteq Nat

Init ==
    /\ proto \in Protocols
    /\ compatible \in BOOLEAN /\ (compatible => proto = "auth_sha1_v4")
    /\ plain \in BOOLEAN
    /\ \E extra \in {0, 1} :
          end = [x \in Ends |-> IF x = "server" /\ proto = "auth_aes128"
                                THEN [NewEnd EXCEPT !.extra_wait = extra] ELSE NewEnd]
    /\ wire = [x \in Ends |-> <<>>]
    /\ sent = [x \in Ends |-> <<>>]
    /\ out = [x \in Ends |-> <<>>]
    /\ refused = [x \in Ends |-> FALSE]
    /\ recv_iv = "none"
    /\ admitted = "unasked"
    /\ faults = 0

\* Whether the frames of a write are padded, where that can be told.
Paddings == IF proto \in {"auth_chain", "auth_akarin"} THEN BOOLEAN ELSE {TRUE}

Misreads ==
    CASE proto = "auth_chain" -> {"over", "more"}
      [] proto = "auth_akarin" -> {"over", "more", "luck", "zero"}
      [] OTHER -> {"over"}

client_pre_encrypt(e, head, rest, pad) ==
    CASE proto = "auth_sha1_v4" -> V4!client_pre_encrypt(e, head, rest)
      [] proto = "auth_aes128" -> Aes!client_pre_encrypt(e, head, rest)
      [] proto = "auth_chain" -> Chain!client_pre_encrypt(e, head, rest, pad)
      [] proto = "auth_akarin" -> Akarin!client_pre_encrypt(e, head, rest, pad)

server_pre_encrypt(e, s, pad) ==
    CASE proto = "auth_sha1_v4" -> V4!server_pre_encrypt(e, s)
      [] proto = "auth_aes128" -> Aes!server_pre_encrypt(e, s)
      [] proto = "auth_chain" -> Chain!server_pre_encrypt(e, s, pad)
      [] proto = "auth_akarin" -> Akarin!server_pre_encrypt(e, s, pad)

client_post_decrypt(e, chunk, misread) ==
    CASE proto = "auth_sha1_v4" -> V4!client_post_decrypt(e, chunk)
      [] proto = "auth_aes128" -> Aes!client_post_decrypt(e, chunk)
      [] proto = "auth_chain" -> Chain!client_post_decrypt(e, chunk, misread)
      [] proto = "auth_akarin" -> Akarin!client_post_decrypt(e, chunk, misread)

server_post_decrypt(e, chunk, iv, admit, misread) ==
    CASE proto = "auth_sha1_v4" -> V4!server_post_decrypt(e, chunk, iv, admit)
      [] proto = "auth_aes128" -> Aes!server_post_decrypt(e, chunk, iv, admit)
      [] proto = "auth_chain" -> Chain!server_post_decrypt(e, chunk, iv, admit, misread)
      [] proto = "auth_akarin" -> Akarin!server_post_decrypt(e, chunk, iv, admit, misread)

---------------------------------------------------------------------------
Plainly(s) == [i \in DOMAIN s |-> [t |-> "data", f |-> NewFrame(<<s[i]>>), ok |-> TRUE]]

\* The data of undecoded cells, if data is what they are.
DataOf(cells) == [i \in DOMAIN cells |-> cells[i].f.d[1]]
IsData(cells) == \A i \in DOMAIN cells : cells[i].t = "data"

\* What an end still does after its peer has raised, it could have done
\* before: the connection is followed up to the first exception.
Alive == \A x \in Ends : ~end[x].dead

\* The next k units for an end.
Fresh(x, k) == [i \in 1 .. k |-> Len(sent[x]) + i]

\* The first write puts some of its data, never none, into the header.
ClientWrite ==
    /\ Alive
    /\ \E k \in 1 .. MaxWrite, pad \in Paddings :
          LET s == Fresh("server", k) IN
          /\ Len(sent["server"]) + k <= MaxUp
          /\ sent' = [sent EXCEPT !["server"] = @ \o s]
          /\ IF plain
             THEN /\ wire' = [wire EXCEPT !["server"] = @ \o Plainly(s)]
                  /\ UNCHANGED end
             ELSE \E n \in IF end["client"].has_header THEN {0} ELSE 1 .. k :
                  LET p == client_pre_encrypt(end["client"], SubSeq(s, 1, n), Drop(s, n), pad) IN
                  /\ wire' = [wire EXCEPT !["server"] = @ \o p.cells]
                  /\ end' = [end EXCEPT !["client"] = p.e]
    /\ UNCHANGED <<config, out, refused, recv_iv, admitted, faults>>

\* The target answers once the client's address has been read.
ServerWrite ==
    /\ Alive
    /\ out["server"] # <<>>
    /\ \E k \in 1 .. MaxWrite, pad \in Paddings :
          LET s == Fresh("client", k)
              p == server_pre_encrypt(end["server"], s, pad) IN
          /\ Len(sent["client"]) + k <= MaxDown
          /\ sent' = [sent EXCEPT !["client"] = @ \o s]
          /\ IF end["server"].raw_trans
             THEN /\ wire' = [wire EXCEPT !["client"] = @ \o Plainly(s)]
                  /\ UNCHANGED end
             ELSE /\ wire' = [wire EXCEPT !["client"] = @ \o p.cells]
                  /\ end' = [end EXCEPT !["server"] = p.e]
    /\ UNCHANGED <<config, out, refused, recv_iv, admitted, faults>>

HandUp(x, data) == out' = [out EXCEPT ![x] = @ \o data]

ClientReceive ==
    /\ Alive
    /\ \E n \in 1 .. Len(wire["client"]), misread \in Misreads :
          LET chunk == SubSeq(wire["client"], 1, n)
              r == client_post_decrypt(end["client"], chunk, misread) IN
          /\ wire' = [wire EXCEPT !["client"] = Drop(@, n)]
          /\ IF plain
             THEN /\ HandUp("client", DataOf(chunk))
                  /\ UNCHANGED end
             ELSE IF r.st \in {"bad", "raise"}
             THEN /\ end' = [end EXCEPT !["client"].dead = TRUE]
                  /\ UNCHANGED out
             ELSE /\ end' = [end EXCEPT !["client"] = r.e]
                  /\ HandUp("client", r.ret)
    /\ UNCHANGED <<config, sent, refused, recv_iv, admitted, faults>>

\* After raw_trans is set every byte is passed on as it comes.
ServerReceiveRaw ==
    /\ Alive
    /\ end["server"].raw_trans
    /\ \E n \in 1 .. Len(wire["server"]) :
          /\ wire' = [wire EXCEPT !["server"] = Drop(@, n)]
          /\ IF refused["server"] THEN UNCHANGED out
             ELSE HandUp("server", DataOf(SubSeq(wire["server"], 1, n)))
    /\ UNCHANGED <<config, end, sent, refused, recv_iv, admitted, faults>>

\* The outcomes of server_post_decrypt; left is the wire without the chunk.
\* not_match_return: letters E, or with a _compatible method all of recv_buf.
not_match_return(r, left) ==
    /\ r.st = "nomatch"
    /\ end' = [end EXCEPT !["server"] = [r.e EXCEPT !.raw_trans = TRUE]]
    /\ wire' = left
    /\ IF compatible /\ IsData(r.e.recv_buf)
       THEN HandUp("server", DataOf(r.e.recv_buf)) /\ UNCHANGED refused
       ELSE refused' = [refused EXCEPT !["server"] = TRUE] /\ UNCHANGED out

ReturnJunk(r, left) ==
    /\ r.st = "junk"
    /\ end' = [end EXCEPT !["server"] = [r.e EXCEPT !.raw_trans = TRUE]]
    /\ wire' = left
    /\ refused' = [refused EXCEPT !["server"] = TRUE]
    /\ UNCHANGED out

\* The relay destroys the connection on any exception.
Raise(r, left) ==
    /\ r.st = "raise"
    /\ end' = [end EXCEPT !["server"].dead = TRUE]
    /\ wire' = left
    /\ UNCHANGED <<out, refused>>

\* An answer to be sent back is an empty write, before any of the target's.
Return(r, left) ==
    /\ r.st \in {"go", "stop"}
    /\ HandUp("server", r.ret)
    /\ \/ /\ r.back
          /\ \E pad \in Paddings :
                LET p == server_pre_encrypt(r.e, <<>>, pad) IN
                /\ end' = [end EXCEPT !["server"] = p.e]
                /\ wire' = [left EXCEPT !["client"] = @ \o p.cells]
       \/ /\ ~r.back
          /\ end' = [end EXCEPT !["server"] = r.e]
          /\ wire' = left
    /\ UNCHANGED refused

Answers == IF end["server"].has_header THEN {TRUE} ELSE BOOLEAN

\* The stream starts with the client's IV.  The relay takes recv_iv off the first
\* bytes that come, even when they end inside the IV; the encryptor waits for all
\* of it.
ServerReceiveIv ==
    /\ Alive
    /\ recv_iv = "none" /\ wire["server"] # <<>>
    /\ recv_iv' = "part"
    /\ UNCHANGED <<config, end, wire, sent, out, refused, admitted, faults>>

\* iv: do the server's keys hold the client's IV?  admit stands for the timestamp
\* and the client table, which a header that checks out is asked about.
ServerReceive ==
    /\ Alive
    /\ ~end["server"].raw_trans
    /\ \E n \in 1 .. Len(wire["server"]), admit \in Answers, misread \in Misreads :
          LET left == [wire EXCEPT !["server"] = Drop(@, n)]
              iv == recv_iv # "part"
              r == server_post_decrypt(end["server"], SubSeq(wire["server"], 1, n), iv, admit, misread) IN
          /\ \/ not_match_return(r, left)
             \/ ReturnJunk(r, left)
             \/ Raise(r, left)
             \/ Return(r, left)
          /\ admitted' = IF r.st = "nomatch" /\ iv /\ ~admit THEN "no" ELSE admitted
    /\ recv_iv' = IF recv_iv = "none" THEN "whole" ELSE recv_iv
    /\ UNCHANGED <<config, sent, faults>>

---------------------------------------------------------------------------
(* Faults of the stream below.  Frames of auth_sha1_v4 have no numbers: it *)
(* is left to TCP that none is lost or repeated.                           *)
Faulty(x) ==
    /\ Alive
    /\ faults < MaxFaults
    /\ ~plain
    /\ faults' = faults + 1
    /\ UNCHANGED <<config, end, sent, out, refused, recv_iv, admitted>>

Damage(x) ==
    /\ Faulty(x)
    /\ \E i \in DOMAIN wire[x] : wire' = [wire EXCEPT ![x][i].ok = FALSE]

IsFrame(x, i) == wire[x][i].t = "len" /\ proto # "auth_sha1_v4"
UpTo(x, i) == SubSeq(wire[x], 1, i - 1)
From(x, i) == Drop(wire[x], i - 1)

LoseFrame(x) ==
    /\ Faulty(x)
    /\ \E i \in DOMAIN wire[x] :
          /\ IsFrame(x, i)
          /\ wire' = [wire EXCEPT ![x] = UpTo(x, i) \o Drop(From(x, i), @[i].f.size)]

RepeatFrame(x) ==
    /\ Faulty(x)
    /\ \E i \in DOMAIN wire[x] :
          /\ IsFrame(x, i)
          /\ wire' = [wire EXCEPT ![x] = UpTo(x, i) \o SubSeq(From(x, i), 1, @[i].f.size) \o From(x, i)]

Next ==
    \/ ClientWrite \/ ServerWrite
    \/ ClientReceive \/ ServerReceiveIv \/ ServerReceive \/ ServerReceiveRaw
    \/ \E x \in Ends : Damage(x) \/ LoseFrame(x) \/ RepeatFrame(x)

Spec == Init /\ [][Next]_vars

---------------------------------------------------------------------------
ToServer == INSTANCE Channel WITH
    sent <- sent["server"], got <- out["server"], refused <- refused["server"]
ToClient == INSTANCE Channel WITH
    sent <- sent["client"], got <- out["client"], refused <- refused["client"]

(* What server_post_decrypt hands up, however TCP cuts the stream and      *)
(* whatever happens to a frame on the way, is what the client wrote, from  *)
(* the start and in order; other bytes come out only of a connection that  *)
(* gave nothing before.                                                    *)
ServerGets == ToServer!ChannelSpec

(* The same of client_post_decrypt, which also has to take the server's    *)
(* tcp_mss off the first frame, and only there.                            *)
ClientGets == ToClient!ChannelSpec

Survives ==
    faults = 0 =>
        /\ \A x \in Ends : ~end[x].dead
        /\ refused["server"] => admitted = "no" \/ recv_iv = "part" \/ (plain /\ ~compatible)

\* Once its header is read, auth_akarin pads a frame by its sender's tcp_mss,
\* which the receiver must have as well, and reads the one a receiver sends
\* with when the data fills it (auth_akarin.py:314).
OutOfStep ==
    /\ proto = "auth_akarin" /\ end["server"].has_header
    /\ \/ end["client"].recv_tcp_mss # end["server"].send_tcp_mss
       \/ \E x \in Ends : end[x].recv_tcp_mss # end[x].send_tcp_mss

(* A connection whose bytes arrive as they were sent, in whatever pieces   *)
(* but for a first one that ends inside the IV, is never ended by a check, *)
(* and refused only by the client table, or when its client is plain and   *)
(* the method is not a _compatible one.  Of auth_akarin this can be said   *)
(* up to the header, and then while the ends agree on tcp_mss.             *)
UndamagedSurvives == Survives \/ OutOfStep

(* When all that was written has arrived, all of it was handed up: no call *)
(* leaves the data of a complete frame in recv_buf, where it would wait    *)
(* for bytes that need not come.                                           *)
AllHandedUp ==
    \A x \in Ends :
        /\ faults = 0
        /\ proto # "auth_akarin"
        /\ wire[x] = <<>>
        /\ ~refused[x]
        => out[x] = sent[x]
=============================================================================
