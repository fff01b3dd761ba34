------------------------------ MODULE UDPRelay ------------------------------
(***************************************************************************)
(* The UDP relay of one port (shadowsocks/udprelay.py): the client sockets *)
(* it opens, the two LRU caches that own them, the tables that find them,  *)
(* and its closing.  A key stands for a client's address and the address   *)
(* family of its destination (client_key).                                 *)
(*                                                                         *)
(* The events of a batch are dispatched one by one.  An event whose socket *)
(* was closed since it was polled reaches recvfrom() of a closed socket or *)
(* no handler at all and has no effect, so the events need no batch here.  *)
(* Datagrams and counters of traffic are left out, the resolver is what    *)
(* the relay sees of it: a name is resolved, fails, or never comes back.   *)
(***************************************************************************)
EXTENDS Naturals, Sequences, SequencesExt

CONSTANTS Keys,          \* client_key() of the clients
          Fds,           \* descriptors
          None,
          UdpCacheSize,  \* config['udp_cache']
          DnsCacheSize   \* clients of DNS queries that are kept (16)

ASSUME UdpAssumption ==
    None \notin Keys \cup Fds /\ {UdpCacheSize, DnsCacheSize} \subseteq Nat \ {0}

VARIABLES cache, cache_dns,  \* the keys of _cache and _cache_dns_client, oldest first
          sock,      \* the socket in the entry of a key, in either cache
          fd_addr,   \* _client_fd_to_server_addr: the key of a descriptor
          sockets,   \* _sockets
          fdmap,     \* the client descriptors that the event loop polls
          server,    \* the listening socket: "open", "closed", or "None"
          closed,    \* _closed
          periodic,  \* does the loop call handle_periodic?
          running,   \* is the loop's thread alive?
          pending,   \* datagrams whose destination is being resolved
          late       \* history: the keys pending when the relay was dismantled

clientVars == <<cache, cache_dns, sock, fd_addr, sockets, fdmap>>
udpVars == <<clientVars, server, closed, periodic, running, pending, late>>

\* A datagram: who sent it, and is it a DNS query (to port 53)?
Datagrams == [key : Keys, dns : BOOLEAN]

UdpTypeOK ==
    /\ {cache, cache_dns} \subseteq Seq(Keys)
    /\ sock \in [Keys -> Fds \cup {None}] /\ fd_addr \in [Fds -> Keys \cup {None}]
    /\ sockets \subseteq Fds /\ fdmap \subseteq Fds
    /\ server \in {"open", "closed", "None"}
    /\ {closed, periodic, running} \subseteq BOOLEAN
    /\ pending \subseteq Datagrams /\ late \subseteq Keys

UdpInit ==
    /\ cache = <<>> /\ cache_dns = <<>>
    /\ sock = [k \in Keys |-> None] /\ fd_addr = [fd \in Fds |-> None]
    /\ sockets = {} /\ fdmap = {}
    /\ server = "open" /\ closed = FALSE /\ periodic = TRUE /\ running = TRUE
    /\ pending = {} /\ late = {}

-----------------------------------------------------------------------------
(* The LRU caches.                                                         *)

\* get(): reading an entry makes it the youngest.
get(keys, k) ==
    IF k \in ToSet(keys) THEN Append(RemoveFirst(keys, k), k) ELSE keys

\* Mutant: the youngest entries go first.
clearYoungest(keys, keep) == IF Len(keys) > keep THEN SubSeq(keys, 1, keep) ELSE keys

\* clear(keep): the oldest entries go until `keep` are left.
clear(keys, keep) ==
    IF Len(keys) > keep THEN SubSeq(keys, Len(keys) - keep + 1, Len(keys)) ELSE keys

\* The n oldest entries of a cache have not been read for its timeout.
sweep(keys, n) == SubSeq(keys, n + 1, Len(keys))

-----------------------------------------------------------------------------
(* Client sockets.                                                         *)

\* _close_client for the sockets F, after the sockets G were opened: s and addr
\* are the tables with G in them.
CloseSockets(s, addr, F, G) ==
    /\ fd_addr' = [fd \in Fds |-> IF fd \in F THEN None ELSE addr[fd]]
    /\ sockets' = (sockets \cup G) \ F
    /\ fdmap' = (fdmap \cup G) \ F
    /\ sock' = [k \in Keys |-> IF s[k] \in F THEN None ELSE s[k]]

\* The caches c and q are cut down to c2 and q2: what falls out is closed.
Cut(c, q, c2, q2, s, addr, G) ==
    /\ cache' = c2 /\ cache_dns' = q2
    /\ LET out == (ToSet(c) \cup ToSet(q)) \ (ToSet(c2) \cup ToSet(q2))
       IN  CloseSockets(s, addr, {s[k] : k \in out}, G)

\* Both caches are cut down to their size.
Shrink(c, q, s, addr, G) ==
    Cut(c, q, clear(c, UdpCacheSize), clear(q, DnsCacheSize), s, addr, G)

Known(k) == k \in ToSet(cache) \cup ToSet(cache_dns)

\* _handle_server_dns_resolved for a client that has a socket.
ForwardKnown(d) ==
    /\ Known(d.key)
    /\ Shrink(get(cache, d.key),
              IF d.key \in ToSet(cache) THEN cache_dns ELSE get(cache_dns, d.key),
              sock, fd_addr, {})

\* The same for a client that has none: it gets one.
ForwardNew(d) ==
    /\ ~Known(d.key)
    /\ \E fd \in Fds \ fdmap :
          Shrink(IF d.dns THEN cache ELSE Append(cache, d.key),
                 IF d.dns THEN Append(cache_dns, d.key) ELSE cache_dns,
                 [sock EXCEPT ![d.key] = fd], [fd_addr EXCEPT ![fd] = d.key], {fd})

Forward(d) == ForwardKnown(d) \/ ForwardNew(d)

-----------------------------------------------------------------------------
(* Events.                                                                 *)

\* _handle_server for a destination that is an address or in a cache of names.
\* If no socket can be opened the datagram is lost, as it is when it is
\* malformed or forbidden.
HandleServerNow ==
    /\ running /\ server = "open"
    /\ \E d \in Datagrams : Forward(d)
    /\ UNCHANGED <<server, closed, periodic, running, pending, late>>

\* _handle_server for a destination whose name has to be resolved.
HandleServerResolve ==
    /\ running /\ server = "open"
    /\ \E d \in Datagrams : pending' = pending \cup {d}
    /\ UNCHANGED <<clientVars, server, closed, periodic, running, late>>

\* The resolver calls back, also when the relay has been closed: nothing withdraws
\* the callback.  A datagram without an address, or to a forbidden one, is lost.
DnsResolved ==
    /\ running
    /\ \E d \in pending :
          /\ pending' = pending \ {d}
          /\ Forward(d) \/ UNCHANGED clientVars
    /\ UNCHANGED <<server, closed, periodic, running, late>>

\* socket() fails (no descriptor left): the exception is caught, and the code goes
\* on to a variable that was never set.  That exception leaves the resolver and
\* ends the loop.
DnsResolvedKillsLoop ==
    /\ running
    /\ \E d \in pending : ~Known(d.key) /\ pending' = pending \ {d}
    /\ running' = FALSE
    /\ UNCHANGED <<clientVars, server, closed, periodic, late>>

\* Mutant: the socket of an answered DNS query stays open.
HandleClientForgets ==
    /\ running
    /\ \E fd \in fdmap \cap sockets :
          LET k == fd_addr[fd]
          IN  /\ cache' = get(cache, k)
              /\ cache_dns' = RemoveFirst(cache_dns, k)
              /\ UNCHANGED <<sock, fd_addr, sockets, fdmap>>
    /\ UNCHANGED <<server, closed, periodic, running, pending, late>>

\* _handle_client: the entry of the client is read.  If the reply can be sent
\* on, that is the end of a DNS client; without a listening socket an exception
\* comes before that.
HandleClient ==
    /\ running
    /\ \E fd \in fdmap \cap sockets :
          LET k == fd_addr[fd]
              c == get(cache, k)
              q == get(cache_dns, k)
          IN  \/ /\ cache' = c /\ cache_dns' = q
                 /\ UNCHANGED <<sock, fd_addr, sockets, fdmap>>
              \/ /\ server # "None" /\ k \in ToSet(cache_dns)
                 /\ Cut(c, q, c, RemoveFirst(q, k), sock, fd_addr, {})
    /\ UNCHANGED <<server, closed, periodic, running, pending, late>>

\* handle_periodic of an open relay: sweep() of both caches.
Sweep ==
    /\ running /\ periodic /\ ~closed
    /\ \E n \in 0 .. Len(cache), m \in 0 .. Len(cache_dns) :
          Cut(cache, cache_dns, sweep(cache, n), sweep(cache_dns, m), sock, fd_addr, {})
    /\ UNCHANGED <<server, closed, periodic, running, pending, late>>

\* Mutant: the DNS clients are forgotten.
ClearAllButDns == Cut(cache, cache_dns, <<>>, cache_dns, sock, fd_addr, {})

\* clear(0) of both caches.
ClearAll == Cut(cache, cache_dns, <<>>, <<>>, sock, fd_addr, {})

\* Mutant: the listening socket is left open.
DismantleKeepsPort ==
    /\ running /\ periodic /\ closed
    /\ ClearAll
    /\ periodic' = FALSE
    /\ late' = {d.key : d \in pending}
    /\ UNCHANGED <<server, closed, running, pending>>

\* handle_periodic of a closed relay.
Dismantle ==
    /\ running /\ periodic /\ closed
    /\ ClearAll
    /\ periodic' = FALSE /\ server' = "None"
    /\ late' = {d.key : d \in pending}
    /\ UNCHANGED <<closed, running, pending>>

\* close(next_tick=True).
CloseNextTick ==
    /\ ~closed /\ closed' = TRUE
    /\ UNCHANGED <<clientVars, server, periodic, running, pending, late>>

\* close(next_tick=False).
CloseNow ==
    /\ running /\ ~closed /\ closed' = TRUE
    /\ periodic' = FALSE /\ server' = "closed"
    /\ ClearAll
    /\ late' = {d.key : d \in pending}
    /\ UNCHANGED <<running, pending>>

UdpNext ==
    \/ HandleServerNow
    \/ HandleServerResolve
    \/ DnsResolved
    \/ DnsResolvedKillsLoop
    \/ HandleClient
    \/ Sweep
    \/ Dismantle
    \/ CloseNextTick
    \/ CloseNow

UdpSpec == UdpInit /\ [][UdpNext]_udpVars

\* The loop's thread makes its periodic calls.
UdpFairSpec == UdpSpec /\ WF_udpVars(Dismantle)
-----------------------------------------------------------------------------
(* Properties.                                                             *)

Open == {k \in Keys : sock[k] # None}

\* The caches, the relay's tables and the event loop know the same client
\* sockets, a socket leads back to the key that owns it, and no client is in both
\* caches: otherwise closing an entry raises, or a reply goes to another client.
ClientTables ==
    /\ Open = ToSet(cache) \cup ToSet(cache_dns)
    /\ ToSet(cache) \cap ToSet(cache_dns) = {}
    /\ IsInjective(cache) /\ IsInjective(cache_dns)
    /\ sockets = {sock[k] : k \in Open} /\ fdmap = sockets
    /\ \A fd \in Fds, k \in Keys : fd_addr[fd] = k <=> sock[k] = fd

\* Making room never closes the socket that the datagram at hand goes out on.
UsedIsKept == [][\A d \in Datagrams : Forward(d) => sock'[d.key] # None]_udpVars

\* Once the relay is dismantled it holds no client socket, except those that were
\* opened by names that came back after that (nobody will ever close these).
OnlyLateLeft == ~periodic => Open \subseteq late

\* A closed relay gives up its port, unless the loop has died.
PortReleased == closed ~> (server # "open" \/ ~running)
=============================================================================
