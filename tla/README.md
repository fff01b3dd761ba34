# A verification project for shadowsocksr

TLA+ models of the parts of shadowsocksr that carry its own logic, TLC runs that
check them on small instances, and TLAPS proofs of the invariants that matter
most for every value of the constants. `PROJECT.json` lists, for every definition
that models code, the lines it stands for; the runs; the findings; the hazards.

## The system

shadowsocksr relays TCP and UDP traffic of clients through a server. `sslocal`
speaks SOCKS5 to applications and the shadowsocks protocol to the server,
`ssserver` the shadowsocks protocol to clients and plain TCP/UDP to
destinations. Both are one thread around an event loop. The multi-user server
(`server.py` at the top of the repository) runs that loop in one thread and an accounting
thread next to it.

| Part | State | Operations | Interacts with |
|---|---|---|---|
| Event loop (`eventloop.py`) | descriptor table, periodic callbacks | add, remove, modify, poll, run | calls `handle_event` and periodic callbacks of all others |
| DNS resolver (`asyncdns.py`) | `_hostname_status`, `_hostname_to_cb`, `_cb_to_hostname`, cache, its socket | resolve, remove_callback, replies, socket error, sweep | is called by relays, calls their callbacks from the loop |
| TCP relay (`tcprelay.py`) | listening socket, `_fd_to_handlers`, timeout cache, counters; per handler: stage, sockets, two streams with buffers and statuses | accept, events of both sockets, DNS callback, sweep, close | loop, resolver, obfs and protocol plugins |
| UDP relay (`udprelay.py`) | client sockets by key, caches | datagrams, DNS callback, sweep, close | loop, resolver |
| LRU cache (`lru_cache.py`) | store, order of last use | get, set, sweep, clear | timeout caches, DNS cache, tables of clients |
| Protocol plugins (`obfsplugin/auth*.py`) | per user a table of clients, per client a window of connection ids | insert, update, frames | TCP and UDP relay |
| Obfuscation plugins (`obfs_tls.py`, `http_simple.py`, ...) | handshake status, receive buffers | encode, decode | TCP relay |
| Server pool (`server_pool.py`) | relays by port | new_server, cb_del_server, transfer counters | accounting thread, relays |
| Accounting (`db_transfer.py`) | last readings, what was pushed, forced users, last rows | push, pull, pass over the users | database or JSON file, server pool |
| User tool (`mujson_mgr.py`) | the JSON file | add, edit, delete, clear | the same file as the accounting thread |
| Manager (`manager.py`) | relays by port | commands by datagram | relays |
| Start-up, daemon, ciphers, parsing | - | - | - |

What is hard in it, and what would make each part correct:

* **Resolver.** Replies are lost, late, duplicated, of either record type, and
  come from several servers; `sendto` can raise between two assignments. The
  tables must agree, a name with callers must have a status, no caller may be
  forgotten, and while the network loses nothing everyone is called back.
* **TCP relay.** Events of one batch are dispatched one after the other by
  descriptor number, so an event can meet another connection than the one it
  was polled for; `destroy()` is reached from everywhere, sometimes twice for
  one failure, sometimes before code that goes on; a DNS callback can come
  after it. All tables of descriptors must agree, a destroyed handler must hold
  nothing, whatever is open must be in the timeout sweep, the count of
  connections must be exact, and a closed port must give everything up.
* **UDP relay.** Sockets leave two caches and three tables by four ways, a DNS
  callback can come after close(): all tables must agree, the number of sockets
  must be bounded, the one in use must stay, a closed relay must give up its own.
* **Streams.** Partial writes, events of both sockets in one batch, fast open,
  handshakes and answers of obfs and protocol: no data lost or repeated, order kept, a buffer that
  is not empty always waited for.
* **Client windows.** Ids arrive in any order and the window slides and is
  restarted: none is accepted twice, an honest client is not refused, memory is
  bounded, the table of clients evicts the right one.
* **Frames.** TCP cuts the stream anywhere; a frame may be damaged, lost or
  repeated below; both ends keep counters, hashes and a `tcp_mss` that must stay in
  step: what is handed up is what was written, in order and from the start; an
  undamaged connection is not ended; nothing complete waits in a buffer.
* **Obfuscation.** A handshake over the same stream, in which either end may hold
  data back until the other has spoken: it must end, and the data arrive once.
* **Server pool, manager and periodic calls.** One thread closes relays, another
  releases their sockets from a list that changes while it is walked along, and
  the port may be wanted again before that: no listener may be forgotten, closed
  ones must be released, a user whose row stays must be served.
* **Accounting.** Two threads; every database step can fail; relays are stopped
  and restarted between two readings: nobody is billed for more than he used,
  traffic is billed in the end, removed ports are stopped.

## Modules

**DNSResolver** (`asyncdns.py`, class `DNSResolver`). The variables are the
class's dictionaries (a callback list is a set), the cache, the requests on the
wire, `waiting`, the callers' side of the contract, and the history `faulty`: the
names of which a request could not be sent or a reply was lost. `resolve` is split into
the cached, the first and the later caller; `_handle_data` into answer,
fallback, failure and ignored reply. Every request goes to all servers, so a
reply may be followed by more (`Receive`). Literal addresses and the hosts file
never reach the tables.

**TCPRelay** extends DNSResolver: handlers are the callers of the resolver. It
models one listening port: stages, sockets, the loop's `fdmap`, the relay's
`_fd_to_handlers`, the timeout cache, the connection count, and the loop itself
as a polled `batch` of events that are dispatched one by one. A DNS callback
list is run one callback at a time (`calling`). What the data of a socket leads
to is a choice of the outcomes the code has: nothing visible, a new stage,
`destroy()`, `destroy()` followed by a new stage, or an exception that leaves
the loop (`RemoteReadKillsLoop`). `ended` is history: how often a handler's
resources were released. The constant `NamesShared` says whether two
connections may resolve one name at the same time.

**TCPStream** models the data of one connection: both streams with production,
sent sequence, buffer and waiting status, and the events polled for. A piece of
data is its position in its stream, a send takes any prefix. `conf` is chosen
once: sslocal or ssserver, fast open, an obfs with a handshake (tls1.2_ticket_auth
and random_head: all but the hello is held back until the server's hello is
answered), a server that writes to the client on its own account (those two obfs,
and the protocols from auth_aes128 on), and whether the loop ever gets two events
of the connection at once. `OnRemoteRead` is either `AnswerHello`, where sslocal
writes `client_encode(b'')` to the remote socket, or `PassDown`. `greeted` says
whether that answer was sent, and whether it was early: past a rest in the buffer,
or before STAGE_STREAM.

**UDPRelay** (`udprelay.py`, and `UDPAsyncDNSHandler` of `common.py`) has the
client sockets of one port, the two LRU caches that own them, the tables that
find them, and both ways of closing. An event of a socket that was closed since
it was polled has no effect here, so events need no batch. The resolver is
abstract: a name comes back with an address or without one, or never, also after
the relay was closed. `late` is history.

**ClientQueue** (`client_queue` in `auth.py`, `auth_chain.py`,
`auth_akarin.py`) is the window of connection ids of one client, with time as
the number of periods since the last update; `Counted` tells the variants apart.
`times` is history. **ClientTable** extends it with the table of such queues that
a user has: one client has its queue in full, the others are active or not. A
client that loses its place comes back with a new queue while connections of the
old one are still open (`open`).

**TransferPush** (`db_transfer.py`, `server_pool.py`): the cycle of the
accounting thread, one action per step between which the loop's thread may
count traffic, for the three back ends (`Mode`). Upload and download are one
number. `used` and `billed` are history. The database's users change when
they are pulled (`Churn`), a pass over them may raise at a bad row
(`BadRows`), and `UseMu` adds a shared (multi-user) port on which users have
counters besides those of their own port.

**Channel** is the abstract specification of one direction of a connection: what
was written, what was handed up, and whether the receiver handed up something
else instead. **AuthFrames** and **Obfs** are shown to implement it, once in each
direction (`INSTANCE Channel WITH`, as a property of the runs).

**AuthFrames** composes the two ends of a connection of an auth protocol with the
stream between them. A cell is the smallest piece whose arrival the code can
tell: the length, the body and the checksum of a frame, the parts of a header.
A receive takes any number of cells. The IV in front of the client's first bytes
has no cells: `recv_iv` says what the relay took for it, and `ServerReceiveIv` is a
first chunk that ends inside it. **AuthBase** has what the protocols share (the
state of an end, the loop that takes frames off `recv_buf`), **AuthSha1V4**,
**AuthAes128**, **AuthChain** and **AuthAkarin** the functions of one family each,
under the source's names: `pack_data`, `pack_auth_data`, `client_pre_encrypt`,
`client_post_decrypt`, `server_pre_encrypt`, `server_post_decrypt`. Checksums are
ideal; a length read against the wrong hash (`misread`) is any of what the code
may make of it. `admit` is the answer of the timestamp check and of the client
table, which ClientTable models.

**Obfs** does the same for tls1.2_ticket_auth, http_simple, http_post and
random_head; the relay's part, an exception that destroys the connection and the
empty write a plug-in may ask for, is in `ClientReceive` and `ServerReceive`.
`cut`, `turnedDown` and `faults` are history: why a handshake need not succeed.

**Pool** has the relays of a process, the loop's `_periodic_callbacks` and the
position of its walk along them, and either the pool with the accounting thread
(`db` says where in its cycle it is) or the manager. `cb_del_server` and
`new_server` are two steps each, TCP and UDP, and the loop may go on between them.
`crossed` is history: the ports whose stop the loop cut into, that were started
during a round, or whose UDP port another process had.

MCDNSResolver, MCTCPRelay and MCPool add symmetry sets and constants; the other
modules are run as they are.

## Runs

| Run | Shows |
|---|---|
| DNS | tables agree, nobody is forgotten; for names of which nothing was lost, the request that matters is on the wire and every caller is called back |
| RelayClient | sslocal with fast open and batches of three events, up to the death of its loop: the descriptor tables agree, destroyed handlers hold nothing and stay destroyed, the DNS stage matches the resolver, the connection count is exact, everything open can time out |
| RelayClose | a closed port gives up its descriptors for good; the DNS stage ends though replies are lost |
| Stream | in all configurations no data is lost or repeated; order, watched buffers and delivery where they hold |
| Udp | caches, tables and loop know the same sockets; a full cache keeps the socket in use; a closed relay gives up its port and all sockets but those opened by late names |
| Clients | no id is accepted twice by one queue, the next id is acceptable, no connection is counted that is not open; an inactive client makes room |
| TransferDb | no overbilling, readings in order, traffic counts as pushed only when it was, `clear_cache` does not raise; restarts and a failing database |
| TransferLive | small amounts of both ports are billed in the end; failing database and bad rows |
| Frames | all four families of auth protocols: each direction is a Channel under damage, loss and repetition; an undamaged connection is neither ended nor refused, unless its first chunk ended inside the IV; all that arrived is handed up |
| Obfs | TLS, HTTP and random-head obfuscation: each direction is a Channel; the handshake ends and everything arrives, unless it was cut or damaged where the code cannot take it |
| Pool | no listening socket is forgotten, closed ones are released, a port is half-started only for the reasons in `crossed`, rows that stay are served |

RelayRevived is expected to find a violation, with a finding in `PROJECT.json`
that quotes what the repository says: a destroyed handler is called back, opens a
socket and is destroyed again.

This is why some properties have conditions. `DestroyedIsFinal`, `CloseReleases`
and the count of connections are claimed for names that are not shared. Further
behaviour met while modelling that the properties step around:

* When the remote socket is writable and the client readable in one batch,
  `_on_remote_write` leaves a rest in the buffer, `_on_local_read` writes past it,
  and a complete write sets the stream back to reading: the rest is out of order
  and nobody waits to write it (`tcprelay.py:1134`, against the comment at `:342`).
  Upstream, `InOrder` and `PendingIsPolled` are claimed for one event per batch.
* sslocal answers the server's hello with whatever its obfs held back, through
  `_write_to_sock` (`tcprelay.py:1199`), and nothing there looks at the upstream
  buffer or the stage. With a rest in the buffer the answer goes past it and, when
  it is taken whole, sets the upstream status to reading. With fast open
  it can also come while the handler is still connecting, since `handle_event`
  looks at POLL_OUT only when there is nothing to read (`:1309`): the
  status then turns to reading, no writable event brings STAGE_STREAM, and later data
  of the client collects in the buffer unsent, even with one event at a time.
  Upstream, `InOrder`, `PendingIsPolled` and `Delivered` are claimed as long as
  the answer was not early; `Conserved` always.
* `recv_iv` is taken once, from the first bytes that come from the client
  (`tcprelay.py:1086`), although the encryptor waits until it has the whole IV
  (`encrypt.py:142`). If TCP cuts inside the IV, the keys of the header's
  checksums (`auth.py:365`, `:739`, `auth_chain.py:544`, `auth_akarin.py:510`) hold
  too short an IV for good, and a connection whose bytes all arrive is refused.
  `UndamagedSurvives` excepts that cut, and only that one.
* A shared port that is restarted for a new configuration forces only its own
  number: its users' counters start from zero below their entries in
  `last_update_transfer` (`db_transfer.py:164`, against the comment at `:24`).
  `NotOverbilled` and `UpdateBelowActual` are claimed without a shared port.
* The ends of an auth_akarin connection do not agree on `tcp_mss`: the client sends
  with the one it drew and reads with the 2000 of its constructor
  (`auth_akarin.py:267`, `:377`), the server takes the drawn one for both
  directions (`:547`). A server frame padded by it is misread by the client,
  unless the padding happens to be the same; `recv_rnd_data_len` also compares
  with `send_tcp_mss` (`:314`), and may divide by zero. `UndamagedSurvives` holds of
  auth_akarin up to its header, and then only while the ends agree.
* Frames of auth_sha1_v4 carry no number: that none is lost or repeated is left to
  TCP. The faults of the model do not lose or repeat its frames.
* The two bytes of `tcp_mss` are stripped whenever `recv_id` is 1
  (`auth_chain.py:509`), so also after 2^32 frames.
* In auth_chain_f only the server's `on_recv_auth_data` fills `data_size_list0`
  (`auth_chain.py:988`): its client fails with an IndexError at its first write
  (`:958`). The sizes of padding are not in the model, so neither is this.
* Chunk boundaries an obfuscation does not survive (`Indivisible` in Obfs): inside
  the server's TLS hello or the first eleven bytes of the client's Finished
  (`obfs_tls.py:167`, `:239`), inside the blank line of the HTTP response
  (`http_simple.py:128`), inside either random head (`:300`, `:312`).
* `server_is_run` asks for the TCP relay only: a port whose UDP relay could not
  bind stays without it (`server_pool.py:161`). That happens when the loop's round
  releases the TCP socket and not yet the UDP socket.
* A closed TCP relay never takes its periodic callback off the list
  (`tcprelay.py:1747`), a UDP relay does, during the walk (`udprelay.py:704`); the
  callback skipped for it is never one whose socket is needed, which
  `HalfStartedOnlyIfCrossed` says, and the skipped one is reached a round later.
* A failed query of Dbv3 is an empty list of users (`db_transfer.py:601`): every port
  is stopped until the next cycle that succeeds.
* A second caller re-sends the request for the first record type, also when
  the name has moved on to the second (`asyncdns.py:499`). Hence
  `EveryCallerAnswered` speaks of names of which nothing was lost.
* `destroy()` is called on destroyed handlers, though its comment says "this
  couldn't happen" (`tcprelay.py:1366`); it then returns at once.
* Statuses are set when the connection starts, whatever an answer of obfs or protocol
  left to write (`tcprelay.py:949`): downstream, `PendingIsPolled`, `Delivered`
  and `InOrder` exclude handlers that answer.
* A full table of clients asks whether its oldest client is active, which makes
  that the youngest, and then drops the oldest, another one (`auth.py:505`). A
  client dropped while it is active starts a new window: `AcceptedOnce` is a
  statement about one queue. `delref` of its old connections counts the new queue
  down, so `ref` may be below the number of open connections, never above.
* A user who was stopped before his first push has no entry in
  `last_update_transfer` and is not billed (`db_transfer.py:43`); Dbv3 returns a
  failed UPDATE as done (`:523`); stopping a user's own port makes the shared
  port's counter be billed again (`:79`); a port started in a pass that raised is
  not stopped when its user goes (`:186`). `TransferDb` therefore has neither
  shared port nor bad rows.
* A UDP datagram whose name is resolved after close() opens a socket nobody closes
  (`udprelay.py:438`), and one for which no descriptor is left ends the loop
  (`udprelay.py:523`).

### Bounds

* Resolver: three callers are the smallest number with a first, a later and a
  withdrawing one; two names let a callback sit in the wrong list.
* Relay: two connections and three or four descriptors, so that a number is
  reused within a batch while another connection is open; `MaxBatch` up to 3.
* Streams: four pieces each way: one in the buffer, one partly sent, one or two
  arriving; upstream also one that answers the server's hello, downstream one for
  the obfs and one for the protocol (40306 states).
* UDP: three clients with caches of two and one, so that both overflow while a
  client is in the other one; four descriptors, one more than clients.
* Clients: `Lead`, `Window` and `Jump` keep the order they have in the code
  (64 < 0x1000 <= 0x4000) at sizes where eight ids reach all edges and the window
  slides past its first position; three clients for two places are the least for
  which the client looked at and the one dropped differ; `MaxRef = 3` connections
  let old ones outlive a queue.
* Accounting: `Threshold = 2`, `Step = 1`: one unit is skipped, then billed; two
  users with two units of traffic each.
  `MaxBilled` bounds the shared port, which may be billed again and again.
* Frames: two units up and one down, up to two in a write, make a header, a data
  frame and an empty frame in one direction and the announcement, an answer and a
  data frame in the other; one fault. `IdMod = 16` is above the number of frames. The first
  chunk ends inside the IV or behind it (487289 states).
* Obfs: four units up and three down: data before, during and after the
  handshake; one damaged cell.
* Pool: two ports and two configurations, one change of the rows, a UDP port that
  another process may have, and eight relays: each port can be started, stopped
  and started again, both halves.

Deadlock is checked except where the model runs out of callers, of data (the
streams, Frames, Obfs) or of its bound, in RelayClient and Udp, where the loop may
die, and in Pool, which may be stopped.

### Fairness

* DNS: a request on the wire is answered, unless the reply is lost.
* RelayClose: the loop finishes batches and callback lists and makes its
  periodic calls (strong: a periodic call is possible between batches only); a
  connection in STAGE_DNS writes nothing, so its timeout entry gets old and the
  sweep takes it.
* Stream: the loop polls and dispatches, a name is resolved or given up,
  a peer becomes writable again and again. `handle_event` prefers reading to
  writing, so the last also says that no peer keeps its socket readable
  for ever.
* Udp: the loop makes its periodic calls.
* Clients: a client that is refused tries again; connections come to an end.
* Obfs: the loop polls both ends and hands over what is readable; nobody has to
  write.
* Pool: both threads run on, and another process gives its port up some day.
  Nobody has to stop the program, and no pull has to find new rows.
* TransferLive: the accounting thread cycles, and of the UPDATEs that name a
  user some succeed.

## Proofs

For every value of the constants, under the assumptions named in the modules
(absent is not a value, descriptors are not the listener, `Lead < Window <=
Jump`, ...):

* **TCPRelayProofs.** First the resolver: `DNSInv` = type, tables, status, waiters,
  outstanding request. The tables need each other: that no callback is in two lists
  rests on resolve() being called by callers of whom the resolver has no trace.
  The relay reuses these lemmas. `RelayInv` adds to `DNSInv`
  the types, `FdTables`, `DestroyedHoldsNothing`, that handlers before
  CONNECTING have no remote socket (else opening one would drop one), that
  unused handlers hold nothing, and `CallbackStage`, which says in which stages
  the resolver's lists can still contain a handler; with it `DnsStageIsWaiting`
  is inductive, though destroyed handlers are called back. It holds with shared
  names and without.
  On top of it comes `AloneInv`, for names that are not shared (`NamesShared =
  FALSE`, a hypothesis of the theorems that use it): a name then has one caller,
  `remove_callback` finds it, and so no destroyed handler is called back
  (`CallbackAlive`). This is what makes the rest inductive: the timeout cache is
  the set of connections with a client socket, that set is what is counted, and
  what was destroyed stays so: `ConnectionCount`, `OpenIsTimed`,
  `DestroyedIsFinal`, and `DestroyedOnce`, which RelayRevived refutes for shared
  names.
* **TransportProofs**, the streams: for all configurations at once and any amount of
  data. Every step of a stream is one of two: it produces pieces, of which a part is
  sent and the rest joins the buffer, or it sends a part of its buffer (`Produced`,
  `Flushed`); both keep `Conserved`. Order needs the statuses. `UpSerial` (for a
  `Steady` connection: one event at a time, and no early answer to the server's
  hello) says which status goes with which stage, and that a stream that is read
  while relaying has nothing left to send; `DownPlain` (no answers of obfs or protocol)
  that the remote is neither read, nor has a read at hand, while data waits for the
  client.
* **TransportProofs**, the UDP relay: the tables as one relation between caches,
  entries, descriptors and sockets (`Tables`), which entering, reading, shrinking
  and sweeping keep, also half-way through forwarding a datagram; `UsedIsKept` rests
  on the entry that was just used being the last of its cache. `LateInv`: a relay
  without periodic calls has given up its port and has only late names pending.
* **SequenceLemmas**: sequences without repetition, as the LRU order and the list
  of periodic callbacks are: what Append, RemoveFirst, moving to the end and a
  suffix do to the members and to who is right behind whom (`Before`); how a sequence
  is cut and joined. The prover cannot use an induction theorem that takes an
  operator. `LeastElement` of a set of numbers stands in for it: it gives
  `RangeInduction`, an induction in which the claim is the set of numbers it holds
  for, and `RecursiveFunction`, that a recursive function obeys its equation. The
  proofs about frames and cells rest on these two.
* **AuthProofs**, the table of clients. `AcceptedOnce` needs `Remembered`: an
  accepted id is below the front or still in the window. `QueueStep` says so for
  each operation of a queue, whoever calls it; every step of the table is an
  operation of the queue, or creates it, or drops it. `RefBelowOpen` needs that a
  client is in the table once and that one without a place has no count
  (`TableInv`).
* **FrameFlows and AuthProofs**, the frames. `FramesInv` is about a connection of
  any of the four families whose bytes arrive as they were sent, for writes, cuts
  and buffers of any size. The central notion is a `Flow`: cells that are whole
  frames and lead from one *place* (the counters and hashes a frame depends on, the
  data and the orders so far) to another. What is in the buffer of an end and on the
  wire to it is a `Flow` from the place where the end has read to the place where
  its peer has written (`Link`): a write makes it longer at one end (`Sends`), a
  call of `post_decrypt` shorter at the other (`Reading`, the invariant of the loop;
  `Outcome`, what it leaves), and where the stream is cut does not matter. So no
  check can fail, no complete frame stays behind (outside auth_akarin at most two cells of an
  incomplete one), and the data is all there in order. `Talk` is this for both directions, with
  the header still to come or read; `Speaking` is the talk of a connection. The
  other modes it may be in are `PlainMode` (a client without the protocol),
  `TurnedAway` (by the table of clients, or for an IV cut short: a header that no key
  fits is refused, whatever else arrives) and, for auth_akarin, `Lost`, when the ends
  disagree on `tcp_mss`. `BoundsAssumption` only says that the bounds of the model
  are numbers. Behind the wrap of the frame numbers an auth_chain client takes
  `tcp_mss` off a data frame, so `AllHandedUp` is proved of auth_chain up to the
  server's frame number `IdMod`; in the run there are fewer. TLC checks the two
  properties, not `FramesInv`, whose flows are quantified over all numbers of
  frames.
* **ObfsProofs**: each direction implements Channel, with damage and without. `ObfsInv`
  says, while no exception has ended the connection, what the buffers and statuses of
  the two ends and the wire hold at each stage of a handshake (`EndsInv`,
  `HeadInv`, `HttpInv`, `RandomInv`), and accounts for the data: up (`UpInv`) what is
  written is what was handed up, then what the server holds, what is on the wire and
  what the client keeps for later; down (`DownInv`) the same, except for the http
  client that waits for ever for a blank line it got in two chunks. For each plug-in
  there is a lemma on what encoding and decoding do to the data of the cells.
* **PoolProofs**, for any number of ports, relays and changes of the rows. The
  difficulty is the list of callbacks that changes while it is walked along.
  `Paired`: a UDP relay is made right after the TCP relay of its port and its
  callback is right behind that one's; a TCP relay never leaves the list. So a UDP
  relay that takes itself off the list makes the walk skip a callback that is not
  its partner's, and a UDP socket outlives its TCP socket only until the very next
  callback (`Late`), unless the loop cut into the stop. With `Together` and
  `Starting` (where the accounting thread is between the halves of a call) no old
  UDP socket is in the way of a new one except for the reasons in `crossed`.
* **TransferPushProofs** (any of the three back ends). `Books(p)`
  is the ledger of one user, without a shared port: in the normal case what is not
  pushed is on his counter; once his relay has been stopped, the difference of the
  last two readings is owed and the counter belongs to a new relay. It needs
  `ForceConsumed`: when relays are stopped, the users forced before have been
  dealt with. `UpdatedIsBilled` needs the types only and holds with a shared port,
  but not for Dbv3, which returns a failed UPDATE as done.

The hypotheses are those under which the runs check the same properties
(`NamesShared = FALSE`, `UseMu = FALSE`, `Mode = "db"`), or weaker.

Only model-checked:

* everything that needs fairness (`EveryCallerAnswered`, `CloseReleases`,
  `DnsStageEnds`, `Delivered`, `PortReleased`, `InactiveMakesRoom`,
  `EventuallyBilled`, `HandshakeEnds`, `ClosedReleased`, `RowsAreServed`), which the
  prover does not reason about;
* `ServerGets` and `ClientGets`, that the two directions of AuthFrames implement
  Channel under faults too. The proof of `FramesInv` follows frames that are all
  there; with one damaged, lost or repeated, the buffer of an end is any rest of
  frames, and the argument is another one (which checksum does not fit), not made here.

## Not modelled

* Ciphers, the bytes of frames and headers, configuration, logging, speed limits and
  statistics (they change how much is read, not what happens to it), the polling
  back ends, start-up and daemon code: no state of their own that a property could
  be about.
* The distribution of padding in auth_chain_b to f and auth_akarin_spec_a (they
  change lengths, as `pad` already does), the UDP packets of the protocols (each is
  on its own; no state survives it), verify_deflate and the like.
* The UDP relay's counters and its remains of TCP over UDP, which nothing fills;
  UDP over TCP names in the TCP relay; `update_mu_users`; the IPv6 pools.
* `mujson_mgr.py`: one read, change and write of a file that MuJsonTransfer reads,
  changes and writes too, with no lock and no check: either may lose the other's
  changes, so there is nothing to claim. It is listed as a hazard.
* An exception half-way through `TCPRelayHandler.__init__` and a commit whose
  acknowledgement is lost (both listed as hazards), and an error of the
  listening socket.

## Plan

In this order, most important behaviour first:

1. Done: DNSResolver, TCPRelay, TCPStream, ClientQueue and ClientTable,
   TransferPush and their proofs; UDPRelay; the frames of the auth protocols and
   the obfuscation handshakes against Channel; Pool with both threads, the
   periodic callbacks and the manager.
2. LRUCache with a clock; an abstract timeout map that it implements.
3. UDPRelay: users and counters of traffic; the resolver in place of `pending`.
4. The address-set operators and the header parser of `common.py`.
5. Proofs: every safety invariant and action property of the runs is proved except
   the Channels of AuthFrames under faults. Left are those, and the safety halves of
   liveness properties (a dismantled port stays released).
