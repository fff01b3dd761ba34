------------------------------- MODULE Obfs --------------------------------
(***************************************************************************)
(* One connection through an obfuscation plug-in: tls1.2_ticket_auth,      *)
(* http_simple and http_post, or random_head.  Each starts with a          *)
(* handshake; then TLS keeps cutting the data into records and the others  *)
(* pass it on.  The parts of a handshake message are cut where the code    *)
(* looks: a boundary between two chunks of the TCP stream inside it may or *)
(* may not matter.                                                         *)
(*                                                                         *)
(* Directions are named after the end that receives; the k-th unit of data *)
(* of a direction is the number k.  A plain client uses no plug-in, which  *)
(* a _compatible method puts up with.                                      *)
(***************************************************************************)
EXTENDS Integers, Sequences

CONSTANTS
    Methods,      \* a subset of {"tls", "http", "random_head"}
    MaxUp,        \* units of data the client writes
    MaxDown,      \* units of data the server writes
    MaxFaults     \* handshake cells damaged on the way

VARIABLES
    method, compatible, plain,   \* the configuration
    client, server,              \* the plug-in objects
    wire,                        \* cells on their way to an end
    sent, out,                   \* data written for, and handed up at, an end
    refused,                     \* an end handed up something else
    dead,                        \* an exception ended the connection
    cut,                         \* a chunk ended where the code cannot go on
    turnedDown,                  \* timestamp, ticket or host did not suit the server
    faults

config == <<method, compatible, plain>>
vars == <<config, client, server, wire, sent, out, refused, dead, cut, turnedDown, faults>>

Ends == {"client", "server"}

ASSUME MethodsAssumption == Methods \subseteq {"tls", "http", "random_head"}

\* status is handshake_status as the set of its bits, or {-1}; the flags of
\* the other plug-ins are named by what they let pass: "sent" for
\* has_sent_header, "recv" for has_recv_header or raw_trans_recv, "open" for
\* raw_trans_sent.
NewPlugin == [status |-> {}, send_buffer |-> <<>>, recv_buffer |-> <<>>]

Init ==
    /\ method \in Methods
    /\ compatible \in BOOLEAN
    /\ plain \in BOOLEAN
    /\ client = NewPlugin
    /\ server = NewPlugin
    /\ wire = [x \in Ends |-> <<>>]
    /\ sent = [x \in Ends |-> <<>>]
    /\ out = [x \in Ends |-> <<>>]
    /\ refused = [x \in Ends |-> FALSE]
    /\ dead = FALSE
    /\ cut = FALSE
    /\ turnedDown = FALSE
    /\ faults = 0

---------------------------------------------------------------------------
Cell(t, d) == [t |-> t, d |-> d, ok |-> TRUE]
Message(parts) == [i \in DOMAIN parts |-> Cell(parts[i], <<>>)]
Plainly(s) == [i \in DOMAIN s |-> Cell("data", <<s[i]>>)]
Record(s) == IF s = <<>> THEN <<>> ELSE <<Cell("rec", <<>>), Cell("body", s)>>
Records(s) == [i \in 1 .. 2 * Len(s) |-> IF i % 2 = 1 THEN Cell("rec", <<>>) ELSE Cell("body", <<s[i \div 2]>>)]

ClientHello == Message(<<"hello", "rest">>)
ServerHello == Message(<<"shello", "srest">>)
Finished == Message(<<"fin", "fin11", "finmac">>)
HttpRequest(s) == <<Cell("get", <<>>), Cell("blank", s)>>
HttpResponse == Message(<<"200", "crlf", "crlf2">>)
RandomHead == Message(<<"rand", "crc">>)
RandomReply == Message(<<"rand", "more">>)

Drop(s, n) == SubSeq(s, n + 1, Len(s))
Begins(b, t) == b # <<>> /\ b[1].t = t /\ b[1].ok
Matches(b, m) == Len(b) >= Len(m) /\ \A i \in DOMAIN m : b[i].t = m[i].t /\ b[i].ok
IsData(b) == \A i \in DOMAIN b : b[i].t = "data"

\* The data of the first cells, in order.
DataOf(b) ==
    LET data[n \in 0 .. Len(b)] == IF n = 0 THEN <<>> ELSE data[n - 1] \o b[n].d
    IN  data[Len(b)]

\* An encode call: the plug-in afterwards and the cells it sends.
Encoded(p, cells) == [p |-> p, cells |-> cells]

\* A decode call: the plug-in afterwards, the cells handed up, whether an
\* empty encode is to follow, and how it ended: "ok", "junk" for letters E,
\* "pass" for cells handed up undecoded, "raise".
Decoded(p, up, back, st) == [p |-> p, up |-> up, back |-> back, st |-> st]

---------------------------------------------------------------------------
(* tls1.2_ticket_auth                                                      *)

\* Mutant: send_buffer is not emptied when it goes out.
TlsClientEncodeKeeps(p, s) ==
    LET q == [p EXCEPT !.send_buffer = @ \o Record(s)]
    IN  CASE 8 \in p.status -> Encoded(p, p.send_buffer \o Records(s))
          [] p.status = {} -> Encoded([q EXCEPT !.status = {1}], ClientHello)
          [] p.status = {1} ->
                IF s = <<>> THEN Encoded([p EXCEPT !.status = {8}], Finished \o p.send_buffer)
                ELSE Encoded(q, <<>>)

\* Data written before the server has answered waits in send_buffer.
TlsClientEncode(p, s) ==
    LET q == [p EXCEPT !.send_buffer = @ \o Record(s)]
    IN  CASE 8 \in p.status -> Encoded(p, Records(s))
          [] p.status = {} -> Encoded([q EXCEPT !.status = {1}], ClientHello)
          [] p.status = {1} ->
                IF s = <<>>
                THEN Encoded([p EXCEPT !.status = {8}, !.send_buffer = <<>>],
                             Finished \o p.send_buffer)
                ELSE Encoded(q, <<>>)

TlsServerEncode(p, s) ==
    IF -1 \in p.status THEN Encoded(p, Plainly(s))
    ELSE IF 8 \in p.status THEN Encoded(p, Records(s))
    ELSE Encoded([p EXCEPT !.status = @ \cup {8}], ServerHello \o Records(s))

\* Complete records leave recv_buffer; anything else in their place raises.
TakeRecords(p) ==
    LET b == p.recv_buffer
        whole == {n \in 0 .. Len(b) \div 2 :
                    \A i \in 1 .. n : Begins(Drop(b, 2 * i - 2), "rec") /\ b[2 * i].t = "body"}
        n == CHOOSE n \in whole : \A m \in whole : m <= n
        left == Drop(b, 2 * n)
    IN  IF left # <<>> /\ ~Begins(left, "rec")
        THEN Decoded(p, <<>>, FALSE, "raise")
        ELSE Decoded([p EXCEPT !.recv_buffer = left], SubSeq(b, 1, 2 * n), FALSE, "ok")

\* The server's hello is expected whole and alone in one chunk.
TlsClientDecode(p, chunk) ==
    IF 8 \in p.status THEN TakeRecords([p EXCEPT !.recv_buffer = @ \o chunk])
    ELSE IF Len(chunk) = Len(ServerHello) /\ Matches(chunk, ServerHello)
         THEN Decoded(p, <<>>, TRUE, "ok")
         ELSE Decoded(p, <<>>, FALSE, "raise")

\* Mutant: a Finished that has not arrived whole ends the connection.
TlsServerFinishedAtOnce(p) ==
    IF Matches(p.recv_buffer, Finished)
    THEN TakeRecords([p EXCEPT !.recv_buffer = Drop(@, 3), !.status = @ \cup {4}])
    ELSE Decoded(p, <<>>, FALSE, "raise")

\* handshake_status 1: ChangeCipherSpec and Finished, their first eleven
\* bytes in one go.
TlsServerFinished(p) ==
    LET b == p.recv_buffer
    IN  CASE ~(Len(b) >= 2 /\ Begins(b, "fin")) -> Decoded(p, <<>>, FALSE, "raise")
          [] Begins(b, "fin") /\ Len(b) = 2 -> Decoded(p, <<>>, FALSE, "ok")
          [] Begins(b, "fin") /\ Len(b) > 2 ->
                IF Matches(b, Finished)
                THEN TakeRecords([p EXCEPT !.recv_buffer = Drop(b, 3), !.status = @ \cup {4}])
                ELSE Decoded(p, <<>>, FALSE, "raise")

decode_error_return(p, b) ==
    Decoded([p EXCEPT !.status = {-1}], b, FALSE, IF compatible THEN "pass" ELSE "junk")

\* suits: the timestamp is near enough and the ticket was not seen before.
TlsServerHello(p, suits) ==
    LET b == p.recv_buffer
        q == [p EXCEPT !.recv_buffer = Drop(b, 2), !.status = {1}]
    IN  CASE ~Begins(b, "hello") -> decode_error_return(p, b)
          [] Begins(b, "hello") /\ Len(b) = 1 -> Decoded(p, <<>>, FALSE, "ok")
          [] Begins(b, "hello") /\ Len(b) > 1 ->
                IF ~(Matches(b, ClientHello) /\ suits) THEN decode_error_return(p, b)
                ELSE IF Len(b) >= 4 THEN [TlsServerFinished(q) EXCEPT !.back = TRUE]
                ELSE Decoded(q, <<>>, TRUE, "ok")

TlsServerDecode(p, chunk, suits) ==
    LET q == [p EXCEPT !.recv_buffer = @ \o chunk]
    IN  CASE -1 \in p.status -> Decoded(p, chunk, FALSE, "ok")
          [] 4 \in p.status -> TakeRecords(q)
          [] 1 \in p.status /\ 4 \notin p.status -> TlsServerFinished(q)
          [] p.status \cap {-1, 1, 4} = {} -> TlsServerHello(q, suits)

---------------------------------------------------------------------------
(* http_simple, http_post                                                  *)

\* Mutant: the header is taken to be the whole first chunk.
HttpClientDecodeFirst(p, chunk) ==
    IF "recv" \in p.status THEN Decoded(p, chunk, FALSE, "ok")
    ELSE Decoded([p EXCEPT !.status = @ \cup {"recv"}], <<>>, FALSE, "ok")

\* The first write goes out as the path of a request, with what is over.
HttpClientEncode(p, s) ==
    IF "sent" \in p.status THEN Encoded(p, Plainly(s))
    ELSE Encoded([p EXCEPT !.status = @ \cup {"sent"}], HttpRequest(s))

HttpServerEncode(p, s) ==
    IF "sent" \in p.status THEN Encoded(p, Plainly(s))
    ELSE Encoded([p EXCEPT !.status = @ \cup {"sent"}], HttpResponse \o Plainly(s))

\* Where the blank line is whole inside the chunk, or 0.  What comes before
\* it is not kept for the next chunk.
BlankLine(chunk) ==
    LET ends == {i \in 2 .. Len(chunk) : chunk[i - 1].t = "crlf" /\ chunk[i].t = "crlf2"}
    IN  IF ends = {} THEN 0 ELSE CHOOSE i \in ends : TRUE

HttpClientDecode(p, chunk) ==
    IF "recv" \in p.status THEN Decoded(p, chunk, FALSE, "ok")
    ELSE IF BlankLine(chunk) = 0 THEN Decoded(p, <<>>, FALSE, "ok")
    ELSE Decoded([p EXCEPT !.status = @ \cup {"recv"}], Drop(chunk, BlankLine(chunk)), FALSE, "ok")

HttpNotMatch(p, b) ==
    Decoded([p EXCEPT !.status = {"sent", "recv"}], b, FALSE, IF compatible THEN "pass" ELSE "junk")

\* suits: the host is one of obfs_param and the data is not too short.
HttpServerDecode(p, chunk, suits) ==
    LET b == p.recv_buffer \o chunk
    IN  CASE "recv" \in p.status -> Decoded(p, chunk, FALSE, "ok")
          [] "recv" \notin p.status /\ ~Begins(b, "get") -> HttpNotMatch(p, b)
          [] "recv" \notin p.status /\ Begins(b, "get") /\ Len(b) = 1 ->
                Decoded([p EXCEPT !.recv_buffer = b], <<>>, FALSE, "ok")
          [] "recv" \notin p.status /\ Begins(b, "get") /\ Len(b) > 1 ->
                IF suits THEN Decoded([p EXCEPT !.status = @ \cup {"recv"}], b, FALSE, "ok")
                ELSE HttpNotMatch(p, b)

---------------------------------------------------------------------------
(* random_head                                                             *)

\* Data waits in send_buffer until anything has come back.
RandomClientEncode(p, s) ==
    LET q == [p EXCEPT !.send_buffer = @ \o Plainly(s)]
    IN  CASE "open" \in p.status -> Encoded(p, Plainly(s))
          [] "sent" \notin p.status -> Encoded([q EXCEPT !.status = @ \cup {"sent"}], RandomHead)
          [] p.status = {"sent"} -> Encoded(q, <<>>)
          [] p.status = {"sent", "recv"} ->
                Encoded([p EXCEPT !.send_buffer = <<>>, !.status = @ \cup {"open"}], q.send_buffer)

\* The first chunk is dropped, whatever it is.
RandomClientDecode(p, chunk) ==
    IF "recv" \in p.status THEN Decoded(p, chunk, FALSE, "ok")
    ELSE Decoded([p EXCEPT !.status = @ \cup {"recv"}], <<>>, TRUE, "ok")

\* The first call sends a head of its own and not the data.
RandomServerEncode(p, s) ==
    IF "sent" \in p.status THEN Encoded(p, Plainly(s))
    ELSE Encoded([p EXCEPT !.status = @ \cup {"sent"}], RandomReply)

\* The first chunk must be the client's head, whole and alone.
RandomServerDecode(p, chunk) ==
    CASE "recv" \in p.status -> Decoded(p, chunk, FALSE, "ok")
      [] "recv" \notin p.status /\ Len(chunk) = Len(RandomHead) /\ Matches(chunk, RandomHead) ->
            Decoded([p EXCEPT !.status = @ \cup {"recv"}], <<>>, TRUE, "ok")
      [] "recv" \notin p.status /\ ~(Len(chunk) = Len(RandomHead) /\ Matches(chunk, RandomHead)) ->
            Decoded([p EXCEPT !.status = {"sent", "recv"}], chunk, FALSE,
                    IF compatible THEN "pass" ELSE "junk")

---------------------------------------------------------------------------
(* The relay around the plug-in.                                           *)

client_encode(p, s) ==
    CASE plain -> Encoded(p, Plainly(s))
      [] ~plain /\ method = "tls" -> TlsClientEncode(p, s)
      [] ~plain /\ method = "http" -> HttpClientEncode(p, s)
      [] ~plain /\ method = "random_head" -> RandomClientEncode(p, s)

client_decode(p, chunk) ==
    CASE plain -> Decoded(p, chunk, FALSE, "ok")
      [] ~plain /\ method = "tls" -> TlsClientDecode(p, chunk)
      [] ~plain /\ method = "http" -> HttpClientDecode(p, chunk)
      [] ~plain /\ method = "random_head" -> RandomClientDecode(p, chunk)

server_encode(p, s) ==
    CASE method = "tls" -> TlsServerEncode(p, s)
      [] method = "http" -> HttpServerEncode(p, s)
      [] method = "random_head" -> RandomServerEncode(p, s)

server_decode(p, chunk, suits) ==
    CASE method = "tls" -> TlsServerDecode(p, chunk, suits)
      [] method = "http" -> HttpServerDecode(p, chunk, suits)
      [] method = "random_head" -> RandomServerDecode(p, chunk)

\* Boundaries the code cannot cope with.
Indivisible == {<<"shello", "srest">>, <<"fin", "fin11">>, <<"crlf", "crlf2">>,
                <<"rand", "crc">>, <<"rand", "more">>}

CutAt(x, n) == cut' = (cut \/ (n < Len(wire[x]) /\ <<wire[x][n].t, wire[x][n + 1].t>> \in Indivisible))

\* Cells that are not the peer's data, or come after such, are not counted.
HandUp(x, r) ==
    IF r.st = "junk" \/ (r.st = "pass" /\ ~IsData(r.up))
       \/ (\E i \in DOMAIN r.up : r.up[i].t \in {"rand", "crc", "more"})
    THEN refused' = [refused EXCEPT ![x] = TRUE] /\ UNCHANGED out
    ELSE /\ out' = IF refused[x] THEN out ELSE [out EXCEPT ![x] = @ \o DataOf(r.up)]
         /\ UNCHANGED refused

Fresh(x) == <<Len(sent[x]) + 1>>

ClientWrite ==
    /\ ~dead
    /\ Len(sent["server"]) < MaxUp
    /\ LET e == client_encode(client, Fresh("server")) IN
       /\ client' = e.p
       /\ wire' = [wire EXCEPT !["server"] = @ \o e.cells]
    /\ sent' = [sent EXCEPT !["server"] = @ \o Fresh("server")]
    /\ UNCHANGED <<config, server, out, refused, dead, cut, turnedDown, faults>>

\* The target answers once it has been sent something.
ServerWrite ==
    /\ ~dead
    /\ out["server"] # <<>>
    /\ Len(sent["client"]) < MaxDown
    /\ LET e == server_encode(server, Fresh("client")) IN
       /\ server' = e.p
       /\ wire' = [wire EXCEPT !["client"] = @ \o e.cells]
    /\ sent' = [sent EXCEPT !["client"] = @ \o Fresh("client")]
    /\ UNCHANGED <<config, client, out, refused, dead, cut, turnedDown, faults>>

\* An exception destroys the connection; otherwise the answer the plug-in
\* asks for, an empty write, goes out before the data is handed up.
ClientReceive ==
    /\ ~dead
    /\ \E n \in 1 .. Len(wire["client"]) :
          LET r == client_decode(client, SubSeq(wire["client"], 1, n))
              left == [wire EXCEPT !["client"] = Drop(@, n)]
              e == client_encode(r.p, <<>>) IN
          /\ CutAt("client", n)
          /\ IF r.st = "raise"
             THEN /\ dead' = TRUE
                  /\ wire' = left
                  /\ UNCHANGED <<client, out, refused>>
             ELSE /\ client' = IF r.back THEN e.p ELSE r.p
                  /\ wire' = IF r.back THEN [left EXCEPT !["server"] = @ \o e.cells] ELSE left
                  /\ HandUp("client", r)
                  /\ UNCHANGED dead
    /\ UNCHANGED <<config, server, sent, turnedDown, faults>>

ServerReceive ==
    /\ ~dead
    /\ \E n \in 1 .. Len(wire["server"]), suits \in BOOLEAN :
          LET r == server_decode(server, SubSeq(wire["server"], 1, n), suits)
              left == [wire EXCEPT !["server"] = Drop(@, n)]
              e == server_encode(r.p, <<>>) IN
          /\ CutAt("server", n)
          /\ turnedDown' = (turnedDown \/ (~suits /\ method # "random_head" /\ r.st \in {"junk", "pass"}))
          /\ IF r.st = "raise"
             THEN /\ dead' = TRUE
                  /\ wire' = left
                  /\ UNCHANGED <<server, out, refused>>
             ELSE /\ server' = IF r.back THEN e.p ELSE r.p
                  /\ wire' = IF r.back THEN [left EXCEPT !["client"] = @ \o e.cells] ELSE left
                  /\ HandUp("server", r)
                  /\ UNCHANGED dead
    /\ UNCHANGED <<config, client, sent, faults>>

\* A damaged byte in a part of the handshake, or a record's head, that the
\* receiver checks.  Damage elsewhere is for the layers above.
Damage(x) ==
    /\ ~dead
    /\ faults < MaxFaults
    /\ faults' = faults + 1
    /\ \E i \in DOMAIN wire[x] :
          /\ wire[x][i].t \in {"hello", "rest", "shello", "srest", "fin", "fin11", "finmac",
                              "get", "rand", "crc", "rec"}
          /\ wire' = [wire EXCEPT ![x][i].ok = FALSE]
    /\ UNCHANGED <<config, client, server, sent, out, refused, dead, cut, turnedDown>>

Next ==
    \/ ClientWrite \/ ServerWrite \/ ClientReceive \/ ServerReceive
    \/ \E x \in Ends : Damage(x)

Spec == Init /\ [][Next]_vars

\* The loop polls both sockets and hands over what is readable.
FairSpec == Spec /\ WF_vars(ClientReceive) /\ WF_vars(ServerReceive)

---------------------------------------------------------------------------
ToServer == INSTANCE Channel WITH
    sent <- sent["server"], got <- out["server"], refused <- refused["server"]
ToClient == INSTANCE Channel WITH
    sent <- sent["client"], got <- out["client"], refused <- refused["client"]

(* What server_decode hands up is what the client gave to client_encode,   *)
(* in order and from the start: data kept back during the handshake goes   *)
(* out behind it, ahead of later writes, and once.                         *)
ObfsServerGets == ToServer!ChannelSpec

(* The same of server_encode and client_decode.                            *)
ObfsClientGets == ToClient!ChannelSpec

\* What may keep a connection from carrying data: a part of the handshake cut
\* in two or damaged, a timestamp, ticket or host that did not suit, or a plain
\* client of a method that is not a _compatible one.
Spoilt == cut \/ faults > 0 \/ turnedDown \/ (plain /\ ~compatible)

(* Otherwise the handshake ends, with no exception and no refusal, and all *)
(* data written before, during or after it is handed up: neither end waits *)
(* for an answer the other does not owe.                                   *)
HandshakeEnds == \A x \in Ends : []<>(Spoilt \/ out[x] = sent[x])
=============================================================================
