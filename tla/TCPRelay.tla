------------------------------- MODULE TCPRelay -------------------------------
(***************************************************************************)
(* The life of the connections of one listening port: TCPRelay and         *)
(* TCPRelayHandler of shadowsocks/tcprelay.py, driven by the event loop of *)
(* shadowsocks/eventloop.py and sharing the resolver (module DNSResolver). *)
(*                                                                         *)
(* A handler is identified with its DNS callback: Handlers is the set      *)
(* Callbacks of the resolver.  The bytes of a connection are left out (see *)
(* module TCPStream): a read or a write either works, fails, or has no     *)
(* effect on the state kept here.                                          *)
(*                                                                         *)
(* The loop is one thread.  It polls a batch of events, dispatches them    *)
(* one by one by descriptor number, and then may run the periodic calls.   *)
(* An event of the batch may thus be dispatched after its socket has been  *)
(* closed, or after its number has been given to another socket.           *)
(***************************************************************************)
EXTENDS DNSResolver, Integers

CONSTANTS Fds,           \* descriptor numbers the process may use
          Listener,      \* the listening socket
          DnsSock,       \* the resolver's socket
          IsLocal,       \* sslocal (TRUE) or ssserver (FALSE)
          FastOpen,      \* config['fast_open']
          NamesShared,   \* may two connections resolve one name at a time?
          MaxBatch       \* bound: events in one batch

ASSUME RelayAssumption ==
    /\ None \notin Fds /\ Listener \notin Fds /\ DnsSock \notin Fds
    /\ Listener # DnsSock
    /\ None \notin Callbacks
    /\ IsLocal \in BOOLEAN /\ FastOpen \in BOOLEAN /\ NamesShared \in BOOLEAN
    /\ MaxBatch \in Nat

VARIABLES stage,               \* [Handlers -> Stages]
          local_sock,          \* [Handlers -> Fds \cup {None}]
          remote_socks,        \* [Handlers -> SUBSET Fds], two for UDP over TCP
          fdmap,               \* descriptors registered in the event loop
          fd_to_handlers,      \* [Fds -> Handlers \cup {None}]
          timeout_cache,       \* handlers the timeout sweep looks at
          server_connections,  \* the relay's connection count
          listening,           \* is the listening socket open?
          closed,              \* TCPRelay._closed
          periodic,            \* is handle_periodic still registered?
          batch,               \* polled events not dispatched yet
          calling, result,     \* callbacks _call_callback has still to run
          running,             \* the loop has not died of an exception
          ended                \* history: complete destroy() runs per handler

sockVars == <<stage, local_sock, remote_socks, fdmap, fd_to_handlers, timeout_cache,
              server_connections, ended>>
loopVars == <<listening, closed, periodic, running>>
vars == <<dnsVars, sockVars, loopVars, batch, calling, result>>

Handlers == Callbacks

Stages == {"NEW", "INIT", "ADDR", "UDP_ASSOC", "DNS", "CONNECTING", "STREAM", "DESTROYED"}

\* POLL_IN stands for POLL_HUP too: handle_event treats them alike.
Events == {"ERR", "IN", "OUT"}

\* The stage in which the destination address is read.
AddrStage == IF IsLocal THEN "ADDR" ELSE "INIT"

FdsOf(c) == remote_socks[c] \cup ({local_sock[c]} \ {None})

FreeFds == Fds \ UNION {FdsOf(c) : c \in Handlers}

TypeOK ==
    /\ DNSTypeOK
    /\ stage \in [Handlers -> Stages]
    /\ local_sock \in [Handlers -> Fds \cup {None}]
    /\ remote_socks \in [Handlers -> SUBSET Fds]
    /\ fdmap \in SUBSET Fds
    /\ fd_to_handlers \in [Fds -> Handlers \cup {None}]
    /\ timeout_cache \in SUBSET Handlers
    /\ server_connections \in Int
    /\ <<listening, closed, periodic, running>> \in BOOLEAN \X BOOLEAN \X BOOLEAN \X BOOLEAN
    /\ batch \in SUBSET ((Fds \cup {Listener, DnsSock}) \X Events)
    /\ calling \in SUBSET Handlers
    /\ result \in {"ip", "error"}
    /\ ended \in [Handlers -> Nat]

Init ==
    /\ DNSInit
    /\ stage = [c \in Handlers |-> "NEW"]
    /\ local_sock = [c \in Handlers |-> None]
    /\ remote_socks = [c \in Handlers |-> {}]
    /\ fdmap = {}
    /\ fd_to_handlers = [fd \in Fds |-> None]
    /\ timeout_cache = {}
    /\ server_connections = 0
    /\ listening = TRUE /\ closed = FALSE /\ periodic = TRUE /\ running = TRUE
    /\ batch = {}
    /\ calling = {} /\ result = "error"
    /\ ended = [c \in Handlers |-> 0]

-----------------------------------------------------------------------------
(* What the handlers do to their sockets.                                  *)

\* Mutant: only new connections are counted.
add_connectionUp(n) ==
    server_connections' = IF n > 0 THEN server_connections + n ELSE server_connections

add_connection(n) == server_connections' = server_connections + n

\* Mutant: the handler is not entered.
update_activityLost(c) == UNCHANGED timeout_cache

\* Whatever a connection writes or reads renews its place in the sweep.
update_activity(c) == timeout_cache' = timeout_cache \cup {c}

\* Mutant: a handler stays in the sweep.
remove_handlerKept(S) == UNCHANGED timeout_cache

remove_handler(S) == timeout_cache' = timeout_cache \ S

\* destroy() of the handlers S, all but its call of remove_callback; st is the
\* stage of every handler once the caller of destroy() is done.
ReleaseSockets(S, st) ==
    LET freed == UNION {FdsOf(c) : c \in S}
    IN  /\ stage' = st
        /\ local_sock' = [c \in Handlers |-> IF c \in S THEN None ELSE local_sock[c]]
        /\ remote_socks' = [c \in Handlers |-> IF c \in S THEN {} ELSE remote_socks[c]]
        /\ fdmap' = fdmap \ freed
        /\ fd_to_handlers' = [fd \in Fds |-> IF fd \in freed THEN None
                                                             ELSE fd_to_handlers[fd]]
        /\ remove_handler(S)
        /\ add_connection(-Cardinality(S))
        /\ ended' = [c \in Handlers |-> IF c \in S THEN ended[c] + 1 ELSE ended[c]]

\* Mutant: the callback is left with the resolver.
ReleaseForgetsCallback(S, st) == ReleaseSockets(S, st) /\ UNCHANGED dnsVars

\* destroy() in full.
Release(S, st) == ReleaseSockets(S, st) /\ RemoveCallbacks(S)

Stage(S, s) == [c \in Handlers |-> IF c \in S THEN s ELSE stage[c]]

\* destroy() of one handler, once or more: a second call is only logged.
Destroy(c) ==
    IF stage[c] = "DESTROYED"
    THEN UNCHANGED <<sockVars, dnsVars>>
    ELSE Release({c}, Stage({c}, "DESTROYED"))

\* A write fails and destroys the handler; the code after it moves on to stage
\* s all the same.
DestroyThenStage(c, s) == Release({c}, Stage({c}, s))

\* The handler goes to stage s, and _update_activity enters it in the timeout
\* cache when data was written.
Advance(c, s, written) ==
    /\ stage' = Stage({c}, s)
    /\ IF written THEN update_activity(c) ELSE UNCHANGED timeout_cache
    /\ UNCHANGED <<local_sock, remote_socks, fdmap, fd_to_handlers, server_connections,
                   ended, dnsVars>>

\* Mutant: the relay is not told whose the new descriptors are.
OpenRemoteUnmapped(c) ==
    \E new \in SUBSET FreeFds :
        /\ Cardinality(new) \in {1, 2}
        /\ stage' = Stage({c}, "CONNECTING")
        /\ remote_socks' = [remote_socks EXCEPT ![c] = new]
        /\ fdmap' = fdmap \cup new
        /\ UNCHANGED <<fd_to_handlers, local_sock, timeout_cache, server_connections, ended>>

\* _create_remote_socket and the registration in the loop: one socket, or two
\* for UDP over TCP, whose descriptors are among the free ones.
OpenRemote(c) ==
    \E new \in SUBSET FreeFds :
        /\ Cardinality(new) \in {1, 2}
        /\ stage' = Stage({c}, "CONNECTING")
        /\ remote_socks' = [remote_socks EXCEPT ![c] = new]
        /\ fdmap' = fdmap \cup new
        /\ fd_to_handlers' = [fd \in Fds |-> IF fd \in new THEN c ELSE fd_to_handlers[fd]]
        /\ UNCHANGED <<local_sock, timeout_cache, server_connections, ended>>

\* _handle_dns_resolved with an address.  The stage is set to CONNECTING before
\* anything else, so the destroy() of the error path always takes effect, also
\* on a handler that was destroyed before.
Connect(c) ==
    \/ /\ ~(IsLocal /\ FastOpen)
       /\ OpenRemote(c) /\ UNCHANGED dnsVars
    \/ /\ IsLocal /\ FastOpen
       /\ stage' = Stage({c}, "CONNECTING")
       /\ UNCHANGED <<local_sock, remote_socks, fdmap, fd_to_handlers, timeout_cache,
                      server_connections, ended, dnsVars>>
    \/ /\ ~(IsLocal /\ FastOpen)
       /\ Release({c}, Stage({c}, "DESTROYED"))

-----------------------------------------------------------------------------
(* Events of a connection.                                                 *)

\* Nothing that is modelled changes: the socket has nothing to give or take,
\* a frame is incomplete, the speed limit is exceeded, or the data is queued.
NoEffect == UNCHANGED <<sockVars, dnsVars>>

\* _handle_stage_init (sslocal): the method selection is answered.
HandleStageInit(c) ==
    \/ Advance(c, "ADDR", TRUE)
    \/ DestroyThenStage(c, "ADDR")

\* _handle_stage_addr, UDP ASSOCIATE (sslocal).
HandleUdpAssociate(c) ==
    \/ Advance(c, "UDP_ASSOC", TRUE)
    \/ DestroyThenStage(c, "UDP_ASSOC")

\* _handle_stage_addr with a destination that resolve() answers at once.
HandleAddrNow(c) == Connect(c)

\* _handle_stage_addr with a name to resolve: the handler waits in STAGE_DNS;
\* a request that cannot be sent raises, and the handler is destroyed.
HandleAddrResolve(c, h) ==
    /\ NamesShared \/ hostname_to_cb[h] = {}
    /\ \/ /\ resolve(h, c, TRUE)
          /\ stage' = Stage({c}, "DNS")
          /\ IF IsLocal THEN update_activity(c) ELSE UNCHANGED timeout_cache
          /\ UNCHANGED <<local_sock, remote_socks, fdmap, fd_to_handlers,
                         server_connections, ended>>
       \/ /\ resolve(h, c, FALSE)
          /\ ReleaseSockets({c}, Stage({c}, "DESTROYED"))

\* _handle_stage_addr.
HandleStageAddr(c) ==
    \/ IsLocal /\ HandleUdpAssociate(c)
    \/ HandleAddrNow(c)
    \/ \E h \in Hostnames :
          \/ HandleAddrResolve(c, h)
          \/ h \in cache /\ Connect(c)

\* _handle_stage_connecting: with fast open, sslocal connects with the first
\* data.
HandleStageConnecting(c) ==
    \/ NoEffect
    \/ /\ IsLocal /\ FastOpen /\ remote_socks[c] = {}
       /\ OpenRemote(c) /\ UNCHANGED dnsVars

\* _on_local_read, with data.  In ssserver the obfs layer may answer the client
\* first.  (When that write fails the handler is destroyed, its protocol object
\* is gone, and the exception this raises calls destroy() once more.)
OnLocalRead(c) ==
    \/ NoEffect
    \/ ~IsLocal /\ Advance(c, stage[c], TRUE)
    \/ stage[c] = "STREAM" /\ Advance(c, "STREAM", TRUE)
    \/ IsLocal /\ stage[c] = "INIT" /\ HandleStageInit(c)
    \/ stage[c] = AddrStage /\ HandleStageAddr(c)
    \/ stage[c] = "CONNECTING" /\ HandleStageConnecting(c)

\* _on_remote_read, with data.  A handler without an encryptor (destroyed
\* before) drops it.
OnRemoteRead(c) ==
    \/ NoEffect
    \/ local_sock[c] # None /\ Advance(c, stage[c], TRUE)

\* _on_remote_write: the connection is up.
OnRemoteWrite(c) == \E written \in BOOLEAN : Advance(c, "STREAM", written)

\* _on_local_write.
OnLocalWrite(c) == \E written \in BOOLEAN : Advance(c, stage[c], written)

\* TCPRelayHandler.handle_event.  Besides what the data does, a handler is
\* destroyed by a socket error, the end of its input, undecodable data, a
\* failed write, and the removal of its user.
HandleEvent(c, fd, ev) ==
    IF stage[c] = "DESTROYED"
    THEN NoEffect
    ELSE \/ Destroy(c)
         \/ fd \in remote_socks[c] /\ ev = "IN" /\ OnRemoteRead(c)
         \/ fd \in remote_socks[c] /\ ev = "OUT" /\ OnRemoteWrite(c)
         \/ fd = local_sock[c] /\ ev = "IN" /\ OnLocalRead(c)
         \/ fd = local_sock[c] /\ ev = "OUT" /\ OnLocalWrite(c)

-----------------------------------------------------------------------------
(* The event loop.                                                         *)

Idle == running /\ calling = {}

\* EventLoop.poll: a batch of events of registered sockets, one per socket.
Poll ==
    /\ Idle /\ batch = {}
    /\ LET sources == fdmap \cup {DnsSock} \cup (IF listening THEN {Listener} ELSE {})
       IN  \E S \in SUBSET sources :
              /\ Cardinality(S) \in 1 .. MaxBatch
              /\ \E ev \in [S -> Events] :
                    /\ Listener \in S => ev[Listener] = "IN"
                    /\ DnsSock \in S => ev[DnsSock] # "OUT"
                    /\ batch' = {<<fd, ev[fd]>> : fd \in S}
    /\ UNCHANGED <<dnsVars, sockVars, loopVars, calling, result>>

Take(e) == Idle /\ e \in batch /\ batch' = batch \ {e}

\* An event whose descriptor is no longer registered is dropped.
DropEvent(e) ==
    /\ Take(e)
    /\ \/ e[1] \in Fds \ fdmap
       \/ e[1] = Listener /\ ~listening
    /\ UNCHANGED <<dnsVars, sockVars, loopVars, calling, result>>

\* An event goes to the handler that has its descriptor now.
DispatchEvent(e) ==
    /\ e[1] \in fdmap
    /\ fd_to_handlers[e[1]] # None
    /\ Take(e)
    /\ HandleEvent(fd_to_handlers[e[1]], e[1], e[2])
    /\ UNCHANGED <<loopVars, calling, result>>

\* _on_remote_read (sslocal): the obfs layer answers the server, that write
\* fails and destroys the handler, and the next line uses its protocol object
\* outside of any try: the exception leaves EventLoop.run.
RemoteReadKillsLoop(e) ==
    /\ e[1] \in fdmap /\ e[2] = "IN"
    /\ LET c == fd_to_handlers[e[1]]
       IN  /\ c # None
           /\ IsLocal /\ stage[c] # "DESTROYED" /\ local_sock[c] # None
           /\ e[1] \in remote_socks[c]
           /\ Take(e)
           /\ Destroy(c)
    /\ running' = FALSE
    /\ UNCHANGED <<listening, closed, periodic, calling, result>>

\* The listening socket is readable: TCPRelayHandler.__init__.  Nothing is kept
\* of a connection that is gone or of one whose encryptor cannot be made.
Accept(e) ==
    /\ e[1] = Listener /\ listening
    /\ Take(e)
    /\ \/ \E c \in Handlers, fd \in FreeFds :
             /\ stage[c] = "NEW"
             /\ stage' = [stage EXCEPT ![c] = "INIT"]
             /\ local_sock' = [local_sock EXCEPT ![c] = fd]
             /\ fdmap' = fdmap \cup {fd}
             /\ fd_to_handlers' = [fd_to_handlers EXCEPT ![fd] = c]
             /\ update_activity(c)
             /\ add_connection(1)
             /\ UNCHANGED <<remote_socks, ended>>
       \/ UNCHANGED sockVars
    /\ UNCHANGED <<dnsVars, loopVars, calling, result>>

\* The resolver's socket is readable.  _call_callback takes the callbacks of
\* the name out of the tables and runs them one after the other.
DnsEvent(e) ==
    /\ e = <<DnsSock, "IN">>
    /\ Take(e)
    /\ \E h \in Hostnames, type \in QTypes, more \in BOOLEAN :
          \/ HandleAnswer(h, type, more) /\ calling' = hostname_to_cb[h] /\ result' = "ip"
          \/ HandleFailure(h, type, more) /\ calling' = hostname_to_cb[h] /\ result' = "error"
          \/ /\ \/ HandleIgnored(h, type, more)
                \/ \E sent \in BOOLEAN : HandleFallback(h, type, more, sent)
             /\ UNCHANGED <<calling, result>>
    /\ UNCHANGED <<sockVars, loopVars>>

\* The resolver's socket reports an error, or a datagram that is not a reply.
DnsNoise(e) ==
    /\ e[1] = DnsSock
    /\ Take(e)
    /\ \/ e[2] = "ERR" /\ SocketError
       \/ UNCHANGED dnsVars
    /\ UNCHANGED <<sockVars, loopVars, calling, result>>

\* Mutant: an error is logged and the handler left alone.
RunCallbackNoDestroy(c) ==
    /\ running /\ c \in calling
    /\ calling' = calling \ {c}
    /\ IF result = "ip" THEN Connect(c) ELSE NoEffect
    /\ UNCHANGED <<loopVars, batch, result>>

\* _handle_dns_resolved of the next callback.
RunCallback(c) ==
    /\ running /\ c \in calling
    /\ calling' = calling \ {c}
    /\ IF result = "ip" THEN Connect(c) ELSE Destroy(c)
    /\ UNCHANGED <<loopVars, batch, result>>

-----------------------------------------------------------------------------
(* Periodic calls and closing.                                             *)

\* The handlers in _fd_to_handlers.
Owners == {c \in Handlers : \E fd \in Fds : fd_to_handlers[fd] = c}

\* Mutant: the sweep forgets the handlers and destroys none.
DestroyAllForgets(S) ==
    /\ remove_handler(S)
    /\ UNCHANGED <<stage, local_sock, remote_socks, fdmap, fd_to_handlers,
                   server_connections, ended, dnsVars>>

\* destroy() of the handlers S, one call each.
DestroyAll(S) == Release({c \in S : stage[c] # "DESTROYED"}, Stage(S, "DESTROYED"))

\* handle_periodic: a relay that was closed with next_tick gives up the
\* listening socket and its handlers; then the sweep of the timeout cache
\* destroys the handlers `idle' that were inactive for too long.
HandlePeriodic(idle) ==
    /\ Idle /\ batch = {} /\ periodic
    /\ idle \subseteq timeout_cache
    /\ listening' = (listening /\ ~closed)
    /\ IF closed
       THEN DestroyAll(Owners \cup idle)
       ELSE DestroyAll(idle)
    /\ UNCHANGED <<closed, periodic, running, batch, calling, result>>

\* close(next_tick=True): a flag, set by whichever thread.
CloseNextTick ==
    /\ ~closed
    /\ closed' = TRUE
    /\ UNCHANGED <<dnsVars, sockVars, listening, periodic, running, batch, calling, result>>

\* close(next_tick=False), called from the loop's own thread.
CloseNow ==
    /\ Idle /\ ~closed
    /\ closed' = TRUE /\ periodic' = FALSE /\ listening' = FALSE
    /\ DestroyAll(Owners)
    /\ UNCHANGED <<running, batch, calling, result>>

\* The resolver's cache sweep, and the network losing a reply.
Resolver ==
    /\ \/ Idle /\ batch = {} /\ \E h \in Hostnames : SweepCache(h)
       \/ \E h \in Hostnames, type \in QTypes : LoseReply(h, type)
    /\ UNCHANGED <<sockVars, loopVars, batch, calling, result>>

Dispatch ==
    \E e \in batch :
        \/ DropEvent(e)
        \/ DispatchEvent(e)
        \/ RemoteReadKillsLoop(e)
        \/ Accept(e)
        \/ DnsEvent(e)
        \/ DnsNoise(e)

Next ==
    \/ Poll
    \/ Dispatch
    \/ \E c \in Handlers : RunCallback(c)
    \/ \E idle \in SUBSET Handlers : HandlePeriodic(idle)
    \/ CloseNextTick
    \/ CloseNow
    \/ Resolver

Spec == Init /\ [][Next]_vars

\* The loop's thread keeps running: it finishes a callback list and a batch,
\* and between batches, every TIMEOUT_PRECISION, it makes the periodic calls.
\* A handler in STAGE_DNS writes nothing, so nothing renews its timeout entry
\* and the sweep gets to it.
Fairness ==
    /\ WF_vars(Dispatch)
    /\ WF_vars(\E c \in Handlers : RunCallback(c))
    /\ SF_vars(closed /\ \E idle \in SUBSET Handlers : HandlePeriodic(idle))
    /\ \A c \in Handlers :
          SF_vars(stage[c] = "DNS" /\ \E idle \in SUBSET Handlers :
                                          c \in idle /\ HandlePeriodic(idle))

FairSpec == Spec /\ Fairness

-----------------------------------------------------------------------------
(* Properties.                                                             *)

\* The event loop's table, the relay's descriptor table and the sockets the
\* handlers hold are the same set of open descriptors, each with one owner, at
\* every point between two events, however numbers are reused.
FdTables ==
    /\ \A c \in Handlers, fd \in Fds : fd \in FdsOf(c) <=> fd_to_handlers[fd] = c
    /\ fdmap = UNION {FdsOf(c) : c \in Handlers}
    /\ \A c \in Handlers : local_sock[c] \notin remote_socks[c]

\* destroy() releases everything ("destroy releases resources so it prevents
\* future call to destroy"): a destroyed handler holds no descriptor and the
\* timeout sweep does not know it.
DestroyedHoldsNothing ==
    \A c \in Handlers : stage[c] = "DESTROYED" => FdsOf(c) = {} /\ c \notin timeout_cache

\* The connection count is the number of connections with an open client
\* socket.
ConnectionCount ==
    server_connections = Cardinality({c \in Handlers : local_sock[c] # None})

\* Whatever holds a socket can be timed out: no connection escapes the sweep.
OpenIsTimed == \A c \in Handlers : FdsOf(c) # {} => c \in timeout_cache

\* A handler is in STAGE_DNS exactly while the resolver owes it a call.
DnsStageIsWaiting ==
    /\ \A c \in Handlers : stage[c] = "DNS" => c \in waiting \cup calling
    /\ \A c \in waiting : stage[c] = "DNS"

\* A destroyed handler stays destroyed, whatever answer, event or sweep comes
\* later (names not shared).
DestroyedIsFinal ==
    [][\A c \in Handlers : stage[c] = "DESTROYED" => stage'[c] = "DESTROYED"]_vars

\* "destroy releases resources so it prevents future call to destroy": the
\* resources of a handler are released, and its connection is counted down,
\* at most once.
DestroyedOnce == \A c \in Handlers : ended[c] <= 1

\* A closed port gives up all its descriptors, whatever was in flight, and never
\* opens one again (names not shared).
CloseReleases == closed ~> [](fdmap = {} /\ ~listening)

\* No handler stays in STAGE_DNS for ever, though replies may be lost and the
\* resolver never retries.
DnsStageEnds == \A c \in Handlers : (stage[c] = "DNS") ~> (stage[c] # "DNS")
=============================================================================
