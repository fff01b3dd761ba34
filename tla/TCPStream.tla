------------------------------ MODULE TCPStream ------------------------------
(***************************************************************************)
(* The data of one connection: the two streams of a TCPRelayHandler        *)
(* (shadowsocks/tcprelay.py), their waiting statuses, the data that a      *)
(* socket would not take yet, and the events the loop polls for.           *)
(*                                                                         *)
(* A piece of data is a number: the position at which its stream produced  *)
(* it (after decoding upstream, after encoding downstream).  A send takes  *)
(* any prefix of what it is given, nothing included.  UDP over TCP and the *)
(* UDP ASSOCIATE command are left out.                                     *)
(***************************************************************************)
EXTENDS Naturals, Sequences, FiniteSets

CONSTANTS MaxUp,      \* bound: pieces of upstream data
          MaxDown     \* bound: pieces of downstream data

ASSUME StreamAssumption == MaxUp \in Nat /\ MaxDown \in Nat

VARIABLES conf,       \* the configuration, which never changes
          stage,
          up, down,   \* the streams: how much was produced, what was sent, what
                      \* waits in _data_to_write_to_*, and the waiting status
          remote,     \* is there a remote socket in the loop?
          greeted,    \* has the obfs of sslocal answered the server's hello?
          batch       \* polled events not dispatched yet

vars == <<conf, stage, up, down, remote, greeted, batch>>

IsLocal == conf.is_local     \* sslocal or ssserver
FastOpen == conf.fast_open   \* config['fast_open'], for sslocal
SendBack == conf.send_back   \* do obfs or protocol of ssserver write to the client themselves?
Handshakes == conf.handshake \* does the obfs of sslocal start with a handshake?
Serial == conf.serial        \* does the loop never get two events at once?

Configurations ==
    {c \in [is_local : BOOLEAN, fast_open : BOOLEAN, send_back : BOOLEAN,
            handshake : BOOLEAN, serial : BOOLEAN] :
        (c.fast_open \/ c.handshake => c.is_local) /\ (c.send_back => ~c.is_local)}

Stages == {"INIT", "ADDR", "DNS", "CONNECTING", "STREAM", "DESTROYED"}
Status == {"INIT", "READING", "WRITING", "READWRITING"}
Reading == {"READING", "READWRITING"}
Writing == {"WRITING", "READWRITING"}

Streams == [next : Nat, sent : Seq(Nat), buf : Seq(Nat), status : Status]

TypeOK ==
    /\ conf \in Configurations
    /\ stage \in Stages
    /\ up \in Streams /\ down \in Streams
    /\ remote \in BOOLEAN
    /\ greeted \in {"no", "yes", "early"}
    /\ batch \in SUBSET ({"local", "remote"} \X {"IN", "OUT"})

Init ==
    /\ conf \in Configurations
    /\ stage = "INIT"
    /\ up = [next |-> 0, sent |-> <<>>, buf |-> <<>>, status |-> "READING"]
    /\ down = [next |-> 0, sent |-> <<>>, buf |-> <<>>, status |-> "INIT"]
    /\ remote = FALSE
    /\ greeted = "no"
    /\ batch = {}

-----------------------------------------------------------------------------
(* Streams.                                                                *)

\* The next n pieces of stream s, and s once it has produced them.
Pieces(s, n) == [i \in 1 .. n |-> s.next + i]
Produce(s, n) == [s EXCEPT !.next = @ + n]

\* Mutant: what the socket did not take is forgotten.
WriteToSockDrops(s, d, k) ==
    IF d = <<>> THEN s
    ELSE [s EXCEPT !.sent = @ \o SubSeq(d, 1, k),
                   !.status = IF k < Len(d) THEN "WRITING" ELSE "READING"]

\* Mutant: the status does not change when some data is left.
WriteToSockUnwatched(s, d, k) ==
    [s EXCEPT !.sent = @ \o SubSeq(d, 1, k), !.buf = @ \o SubSeq(d, k + 1, Len(d))]

\* _write_to_sock of d to the socket at the end of stream s, which takes k
\* pieces: the rest joins the buffer and the stream waits for writing.
WriteToSock(s, d, k) ==
    IF d = <<>> THEN s
    ELSE IF k < Len(d)
    THEN [s EXCEPT !.sent = @ \o SubSeq(d, 1, k),
                   !.buf = @ \o SubSeq(d, k + 1, Len(d)),
                   !.status = "WRITING"]
    ELSE [s EXCEPT !.sent = @ \o d, !.status = "READING"]

\* The buffer is sent, as far as it goes.
Flush(s, k) ==
    IF s.buf = <<>> THEN [s EXCEPT !.status = "READING"]
                    ELSE WriteToSock([s EXCEPT !.buf = <<>>], s.buf, k)

\* Stream t is what stream s becomes by producing n pieces and writing them.
Sends(s, n, t) == \E k \in 0 .. n : t = WriteToSock(Produce(s, n), Pieces(s, n), k)

-----------------------------------------------------------------------------
(* Handlers of events.                                                     *)

\* Errors, the end of the input, undecodable data and failed writes.
Destroy ==
    /\ stage' = "DESTROYED"
    /\ UNCHANGED <<up, down, remote, greeted>>

\* _handle_stage_init (sslocal): the answer to the method selection.
HandleStageInit ==
    /\ IsLocal /\ stage = "INIT"
    /\ Sends(down, 1, down')
    /\ stage' = "ADDR"
    /\ UNCHANGED <<up, remote, greeted>>

\* What ssserver writes on its own account before it looks at the data it has
\* read: up to two pieces, one for the obfs, which answers the client's hello,
\* and one for the protocol, which answers the first frame and every frame
\* without data.
MayAnswer(s) ==
    {s} \cup IF ~IsLocal /\ SendBack /\ s.next < MaxDown
             THEN {WriteToSock(Produce(s, 1), Pieces(s, 1), k) : k \in 0 .. 1} ELSE {}

Answer == \E s \in MayAnswer(down) : down' \in MayAnswer(s)

\* Before its handshake is over, an obfs of sslocal keeps what it is given, but
\* for the hello that goes out in place of the first data.
HoldsBack == Handshakes /\ greeted = "no"

\* _handle_stage_addr: reading pauses.  sslocal answers the client and queues
\* the address; ssserver queues what came behind it.
HandleStageAddr ==
    /\ stage = IF IsLocal THEN "ADDR" ELSE "INIT"
    /\ stage' = "DNS"
    /\ \E n \in 0 .. 1 :
          /\ IsLocal => n = 1
          /\ up.next + n <= MaxUp
          /\ up' = [Produce(up, n) EXCEPT !.buf = @ \o Pieces(up, n), !.status = "WRITING"]
    /\ IF IsLocal THEN Sends(down, 1, down') ELSE Answer
    /\ UNCHANGED <<remote, greeted>>

\* _handle_stage_connecting: the data waits for the connection.  With fast open
\* the first call connects, and gives the socket all the data it may take.
HandleStageConnecting ==
    /\ stage = "CONNECTING"
    /\ LET n == IF HoldsBack THEN 0 ELSE 1
           queued == [Produce(up, n) EXCEPT !.buf = @ \o Pieces(up, n)]
       IN  /\ up.next + n <= MaxUp
           /\ IF IsLocal /\ FastOpen /\ ~remote
              THEN /\ remote' = TRUE
                   /\ \E k \in 0 .. Len(queued.buf) :
                         up' = [Flush(queued, k) EXCEPT !.status = "READWRITING"]
              ELSE up' = queued /\ UNCHANGED remote
    /\ Answer
    /\ UNCHANGED <<stage, greeted>>

\* STAGE_STREAM: the data is written at once.
HandleStream ==
    /\ stage = "STREAM"
    /\ IF HoldsBack THEN UNCHANGED up ELSE up.next < MaxUp /\ Sends(up, 1, up')
    /\ Answer
    /\ UNCHANGED <<stage, remote, greeted>>

\* A frame of the client without data, or a part of a frame (ssserver).
HandleNoData == ~IsLocal /\ Answer /\ UNCHANGED <<stage, up, remote, greeted>>

\* _on_local_read.  It has no branch for STAGE_DNS: what is read there is lost.
OnLocalRead ==
    \/ HandleStageInit
    \/ HandleStageAddr
    \/ HandleStageConnecting
    \/ HandleStream
    \/ HandleNoData
    \/ Destroy

\* client_decode wants an answer to the server's hello, which has no data in it:
\* sslocal writes what client_encode(b'') returns, the end of the handshake and
\* all that was held back.  Nothing makes sure that the client's hello is out of
\* the buffer by then, or that the handler has come to STAGE_STREAM.
AnswerHello ==
    /\ HoldsBack
    /\ up.next < MaxUp
    /\ Sends(up, 1, up')
    /\ greeted' = IF stage = "STREAM" /\ up.buf = <<>> THEN "yes" ELSE "early"
    /\ UNCHANGED <<stage, down, remote>>

\* What was read goes to the client; sslocal may have read a part of a frame.
PassDown ==
    /\ ~HoldsBack
    /\ \/ down.next < MaxDown /\ Sends(down, 1, down')
       \/ IsLocal /\ UNCHANGED down
    /\ UNCHANGED <<stage, up, remote, greeted>>

OnRemoteRead ==
    \/ AnswerHello
    \/ PassDown
    \/ Destroy

\* A socket that is writable takes something.
Writable(s, t) ==
    \E k \in 0 .. Len(s.buf) : (s.buf # <<>> => k > 0) /\ t = Flush(s, k)

OnRemoteWrite ==
    \/ stage' = "STREAM" /\ Writable(up, up') /\ UNCHANGED <<down, remote, greeted>>
    \/ Destroy

OnLocalWrite ==
    \/ Writable(down, down') /\ UNCHANGED <<stage, up, remote, greeted>>
    \/ Destroy

\* _handle_dns_resolved: connect, or wait for data to send with the connection.
HandleDnsResolved ==
    /\ stage = "DNS"
    /\ \/ /\ IsLocal /\ FastOpen
          /\ stage' = "CONNECTING"
          /\ up' = [up EXCEPT !.status = "READING"]
          /\ UNCHANGED <<down, remote, greeted>>
       \/ /\ ~(IsLocal /\ FastOpen)
          /\ stage' = "CONNECTING"
          /\ remote' = TRUE
          /\ up' = [up EXCEPT !.status = "READWRITING"]
          /\ down' = [down EXCEPT !.status = "READING"]
          /\ UNCHANGED greeted
       \/ Destroy
    /\ UNCHANGED <<conf, batch>>

-----------------------------------------------------------------------------
(* The loop.                                                               *)

Live == stage # "DESTROYED"

\* Mutant: a socket is read whatever waits at the other end.
PolledAlwaysReads ==
    {e \in {"local", "remote"} \X {"IN", "OUT"} :
        /\ e[1] = "remote" => remote
        /\ e[2] = "OUT" =>
              (IF e[1] = "remote" THEN up.status ELSE down.status) \in Writing}

\* The events _update_stream has asked the loop for.
Polled ==
    {e \in {"local", "remote"} \X {"IN", "OUT"} :
        /\ e[1] = "remote" => remote
        /\ LET s == IF e \in {<<"local", "IN">>, <<"remote", "OUT">>} THEN up ELSE down
           IN  s.status \in (IF e[2] = "IN" THEN Reading ELSE Writing)}

\* One event of a socket or of both.  (handle_event looks at POLL_OUT only
\* when there is nothing to read.)
Poll ==
    /\ Live /\ batch = {}
    /\ batch' \in SUBSET Polled
    /\ batch' # {} /\ (Serial => Cardinality(batch') = 1)
    /\ \A e, f \in batch' : e[1] = f[1] => e = f
    /\ UNCHANGED <<conf, stage, up, down, remote, greeted>>

\* handle_event.
Dispatch(e) ==
    /\ Live /\ e \in batch
    /\ batch' = batch \ {e}
    /\ UNCHANGED conf
    /\ CASE e = <<"local", "IN">>   -> OnLocalRead
         [] e = <<"local", "OUT">>  -> OnLocalWrite
         [] e = <<"remote", "IN">>  -> OnRemoteRead
         [] e = <<"remote", "OUT">> -> OnRemoteWrite

Next ==
    \/ Poll
    \/ \E e \in batch : Dispatch(e)
    \/ HandleDnsResolved

Spec == Init /\ [][Next]_vars

\* The loop keeps polling and dispatching, a name is resolved or given up (the
\* timeout sweep sees to it), and a peer that has data to take becomes writable.
\* Since handle_event never writes to a socket that has something to read, the
\* last one also says that no peer keeps its socket readable for ever.
Fairness ==
    /\ WF_vars(\E e \in batch : Dispatch(e))
    /\ WF_vars(HandleDnsResolved)
    /\ \A e \in {"local", "remote"} \X {"OUT"} : SF_vars(Poll /\ e \in batch')

FairSpec == Spec /\ Fairness
-----------------------------------------------------------------------------
(* Properties.                                                             *)

Complete(s) ==
    /\ Len(s.sent) + Len(s.buf) = s.next
    /\ \A i \in 1 .. s.next : \E j \in 1 .. Len(s.sent \o s.buf) : (s.sent \o s.buf)[j] = i

Ordered(s) == s.sent \o s.buf = [i \in 1 .. s.next |-> i]

\* Whatever the order of events, partial writes, answers and connection set-up,
\* every piece of data a stream has produced was sent once or waits once in the
\* buffer: nothing is lost and nothing is sent twice.
Conserved == Complete(up) /\ Complete(down)

\* Does the handler write to the client on its own account?  sslocal answers its
\* SOCKS requests, ssserver may answer frames.
Answers == IsLocal \/ SendBack

\* Has sslocal answered the server's hello before its own was sent to the end,
\* or in the stage before the first writable event?
Early == greeted = "early"

\* The destination gets the upstream data in the order the client sent it, when
\* the events come one at a time and no answer to the server's hello was early,
\* and the client gets the downstream data in the order it was encoded in,
\* whatever the events of the batch, when the handler adds no answers of its own.
InOrder == (Serial /\ ~Early => Ordered(up)) /\ (~Answers => Ordered(down))

\* Data in the buffer of a stream waits for a writable event.
Watched(s) == s.buf # <<>> => s.status \in Writing

\* Data in a buffer of a connected handler has a writable event coming, when
\* the events come one at a time (and, upstream, the server's hello was not
\* answered early, downstream, the handler adds no answers).
PendingIsPolled ==
    Serial /\ Live /\ remote =>
        (~Early => Watched(up)) /\ (~Answers => Watched(down))

Pending(s) == {s.buf[j] : j \in 1 .. Len(s.buf)}

\* What waits in a buffer is sent in the end, or the connection is destroyed,
\* under the same conditions: the answer to the server's hello may come early
\* while a piece waits.  (Upstream data of a fast-open handler first waits for
\* the client to send more.)
Delivered ==
    /\ \A i \in 1 .. MaxUp :
          (Serial /\ (FastOpen => remote) /\ i \in Pending(up))
              ~> (i \notin Pending(up) \/ ~Live \/ Early)
    /\ \A i \in 1 .. MaxDown :
          (Serial /\ ~Answers /\ i \in Pending(down))
              ~> (i \notin Pending(down) \/ ~Live)
=============================================================================
