-------------------------------- MODULE Pool -------------------------------
(***************************************************************************)
(* Ports and the loop: who starts and stops the relays of a port, and what *)
(* the loop's periodic callbacks make of it.                               *)
(*                                                                         *)
(* Of a pool (server_pool.py) the accounting thread opens and closes ports *)
(* following the rows of the database, and close(True) leaves the release  *)
(* of the sockets to the callbacks on the loop's thread; the wait before a *)
(* changed port is opened again is shorter than the time between two       *)
(* rounds of callbacks can be, so nothing is assumed of it.  A manager     *)
(* (manager.py) opens and closes ports on the loop's thread.               *)
(*                                                                         *)
(* One address family; the IPv6 pools are handled by a copy of the code.   *)
(***************************************************************************)
EXTENDS Integers, Sequences, SequencesExt

CONSTANTS
    Ports,       \* integers, as the dictionaries are keyed
    Configs,     \* numbers: what a user's settings may be
    Fronts,      \* a subset of {"pool", "manager"}
    MaxRelays,   \* bound: relays made, of both kinds
    MaxPulls,    \* bound: pulls that find the rows changed
    Outside      \* sockets that other processes may have when this one starts

VARIABLES
    front,         \* what runs here
    relay,         \* the relays made, by id; 0 stands for none
    periodic,      \* _periodic_callbacks, by relay
    round,         \* the callback that is next; 0 between rounds
    stopping,
    tcp_pool,      \* tcp_servers_pool, or the first half of _relays
    udp_pool,
    rows,          \* the settings of a port, Off (not allowed) or Gone
    last_rows,
    db,            \* where the accounting thread is
    outside,       \* those that they still have
    pulls,
    crossed        \* history: ports whose start or stop the loop or another
                   \* process cut into

poolVars == <<tcp_pool, udp_pool>>
loopVars == <<periodic, round, stopping>>
dbVars == <<rows, last_rows, db, pulls>>
vars == <<front, relay, loopVars, poolVars, dbVars, outside, crossed>>

Off == 0
Gone == -1

ASSUME PoolAssumption ==
    /\ Ports \subseteq Nat \ {0}
    /\ Configs \subseteq Nat \ {0} /\ Configs # {}
    /\ Fronts \subseteq {"pool", "manager"}
    /\ Outside \subseteq {"tcp", "udp"} \X Ports

\* The part of the cycle, the ports it has still to see to, those to be
\* started again, and the half of cb_del_server or new_server it is in.
At(phase, todo, again) ==
    [phase |-> phase, todo |-> todo, again |-> again, call |-> "none", p |-> 0]

Init ==
    /\ front \in Fronts
    /\ relay = <<>>
    /\ periodic = <<>>
    /\ round = 0
    /\ stopping = FALSE
    /\ tcp_pool = [p \in Ports |-> 0]
    /\ udp_pool = [p \in Ports |-> 0]
    /\ rows \in [Ports -> {CHOOSE c \in Configs : TRUE, Off, Gone}]
    /\ front = "manager" => rows = [p \in Ports |-> Gone]
    /\ last_rows = [p \in Ports |-> Gone]
    /\ db = At("idle", {}, {})
    /\ outside \in SUBSET Outside
    /\ pulls = 0
    /\ crossed = {}

---------------------------------------------------------------------------
(* The relays.                                                             *)

Relays == DOMAIN relay

\* bind fails while a listener of the port is open.
Bindable(kind, p) ==
    /\ <<kind, p>> \notin outside
    /\ \A r \in Relays : ~(relay[r].kind = kind /\ relay[r].port = p /\ relay[r].open)

New(kind, p, c) == [kind |-> kind, port |-> p, cfg |-> c, closed |-> FALSE, open |-> TRUE]

---------------------------------------------------------------------------
(* The loop's thread.                                                      *)

RoundBegins ==
    /\ round = 0
    /\ periodic # <<>>
    /\ ~stopping
    /\ round' = 1
    /\ UNCHANGED <<front, relay, periodic, stopping, poolVars, dbVars, outside, crossed>>

\* The accounting thread is between the two halves of stopping p.
HalfWay(p) == db.call = "del_udp" /\ db.p = p

\* Mutant: a closed TCP relay takes its callback off the list, as a UDP relay
\* does.
TcpPeriodicLeaves(r) ==
    /\ relay[r].kind = "tcp"
    /\ relay' = [relay EXCEPT ![r].open = @ /\ ~relay[r].closed]
    /\ periodic' = IF relay[r].closed THEN RemoveAt(periodic, round) ELSE periodic

\* Mutant: the socket is left to whoever called close.
TcpPeriodicKeepsSocket(r) ==
    /\ relay[r].kind = "tcp"
    /\ UNCHANGED <<relay, periodic>>

\* A TCP relay releases its socket and keeps its callback.
TcpPeriodic(r) ==
    /\ relay[r].kind = "tcp"
    /\ relay' = [relay EXCEPT ![r].open = @ /\ ~relay[r].closed]
    /\ UNCHANGED periodic

\* A UDP relay takes its callback off the list the loop is walking along.
UdpPeriodic(r) ==
    /\ relay[r].kind = "udp"
    /\ relay' = [relay EXCEPT ![r].open = @ /\ ~relay[r].closed]
    /\ periodic' = IF relay[r].closed THEN RemoveAt(periodic, round) ELSE periodic

\* Either way the loop goes on with the next position.
Callback ==
    /\ round \in DOMAIN periodic
    /\ LET r == periodic[round] IN
       /\ TcpPeriodic(r) \/ UdpPeriodic(r)
       /\ crossed' = crossed \cup {p \in Ports : HalfWay(p) /\ p = relay[r].port}
    /\ round' = round + 1
    /\ UNCHANGED <<front, stopping, poolVars, dbVars, outside>>

RoundEnds ==
    /\ round > Len(periodic)
    /\ round' = 0
    /\ UNCHANGED <<front, relay, periodic, stopping, poolVars, dbVars, outside, crossed>>

---------------------------------------------------------------------------
(* The accounting thread: thread_db, del_server_out_of_bound_safe.         *)

Calling(phase) == front = "pool" /\ db.phase = phase /\ db.call = "none"

\* A query that fails yields no rows, as an empty table does.
Pull ==
    /\ Calling("idle")
    /\ \/ UNCHANGED <<rows, pulls>>
       \/ /\ pulls < MaxPulls
          /\ pulls' = pulls + 1
          /\ rows' \in [Ports -> Configs \cup {Off, Gone}]
          /\ rows' # rows
    /\ last_rows' = rows
    /\ db' = At("rows", {p \in Ports : rows'[p] # Gone}, {})
    /\ UNCHANGED <<front, relay, loopVars, poolVars, outside, crossed>>

server_is_run(p) == tcp_pool[p] # 0
Changed(p) == relay[tcp_pool[p]].cfg # rows[p]
Allowed(p) == rows[p] \in Configs

---------------------------------------------------------------------------
(* cb_del_server and new_server, in two halves each: the loop runs on.     *)

\* The thread has taken p up, and call is what is left to do for it.
Took(p, call) ==
    db' = [db EXCEPT !.todo = @ \ {p}, !.call = call, !.p = IF call = "none" THEN 0 ELSE p]
Done == db' = [db EXCEPT !.call = "none", !.p = 0]

Close(r) == relay' = [relay EXCEPT ![r].closed = TRUE]

\* A port that is stopped for other settings is started again later.
DelTcp(p) ==
    /\ Close(tcp_pool[p])
    /\ tcp_pool' = [tcp_pool EXCEPT ![p] = 0]
    /\ db' = [db EXCEPT !.todo = @ \ {p}, !.call = "del_udp", !.p = p,
                        !.again = IF db.phase = "rows" /\ Allowed(p) THEN @ \cup {p} ELSE @]
    /\ UNCHANGED <<periodic, crossed>>

\* Mutant: the UDP relay leaves the pool without having been closed.
DelUdpUnclosed ==
    /\ db.call = "del_udp"
    /\ udp_pool' = [udp_pool EXCEPT ![db.p] = 0]
    /\ Done
    /\ UNCHANGED <<front, relay, loopVars, tcp_pool, rows, last_rows, pulls, outside, crossed>>

\* A port that has no UDP relay raises KeyError, which is logged.
DelUdp ==
    /\ db.call = "del_udp"
    /\ IF udp_pool[db.p] # 0
       THEN /\ Close(udp_pool[db.p])
            /\ udp_pool' = [udp_pool EXCEPT ![db.p] = 0]
       ELSE UNCHANGED <<relay, udp_pool>>
    /\ Done
    /\ UNCHANGED <<front, loopVars, tcp_pool, rows, last_rows, pulls, outside, crossed>>

\* A relay is bound, added to the loop, and put into the pool.
Open(kind, p, c) ==
    /\ Len(relay) < MaxRelays
    /\ relay' = Append(relay, New(kind, p, c))
    /\ periodic' = Append(periodic, Len(relay) + 1)

\* An exception leaves things as they are; it ends new_server.
NewTcp(p) ==
    /\ IF Bindable("tcp", p)
       THEN /\ Open("tcp", p, rows[p])
            /\ tcp_pool' = [tcp_pool EXCEPT ![p] = Len(relay')]
            /\ Took(p, "new_udp")
       ELSE /\ Took(p, "none")
            /\ UNCHANGED <<relay, periodic, tcp_pool>>
    /\ crossed' = IF round = 0 THEN crossed ELSE crossed \cup {p}

NewUdp ==
    /\ db.call = "new_udp"
    /\ IF Bindable("udp", db.p)
       THEN /\ Open("udp", db.p, rows[db.p])
            /\ udp_pool' = [udp_pool EXCEPT ![db.p] = Len(relay')]
       ELSE UNCHANGED <<relay, periodic, udp_pool>>
    /\ Done
    /\ crossed' = IF <<"udp", db.p>> \in outside THEN crossed \cup {db.p} ELSE crossed
    /\ UNCHANGED <<front, round, stopping, tcp_pool, rows, last_rows, pulls, outside>>

---------------------------------------------------------------------------
(* The parts of a cycle.  Rows come in the order of their ports.           *)

Nothing(p) ==
    /\ Took(p, "none")
    /\ UNCHANGED <<relay, periodic, tcp_pool, crossed>>

\* Mutant: only a row that was not there before starts its port.
RowOnce(p) ==
    /\ db.phase = "rows"
    /\ \/ server_is_run(p) /\ (~Allowed(p) \/ Changed(p)) /\ DelTcp(p)
       \/ ~server_is_run(p) /\ Allowed(p) /\ last_rows[p] # rows[p] /\ NewTcp(p)
       \/ ~server_is_run(p) /\ (~Allowed(p) \/ last_rows[p] = rows[p]) /\ Nothing(p)
       \/ server_is_run(p) /\ Allowed(p) /\ ~Changed(p) /\ Nothing(p)

\* A port in the pool is stopped when it may not run, or to be started
\* again with other settings; one that is not in it is started.
Row(p) ==
    /\ db.phase = "rows"
    /\ \/ server_is_run(p) /\ (~Allowed(p) \/ Changed(p)) /\ DelTcp(p)
       \/ ~server_is_run(p) /\ Allowed(p) /\ NewTcp(p)
       \/ ~server_is_run(p) /\ ~Allowed(p) /\ Nothing(p)
       \/ server_is_run(p) /\ Allowed(p) /\ ~Changed(p) /\ Nothing(p)

\* Rows that are gone; ports to start again after the wait; the end.
OtherPart(p) ==
    \/ db.phase \in {"gone", "stop"} /\ server_is_run(p) /\ DelTcp(p)
    \/ db.phase = "gone" /\ ~server_is_run(p) /\ Nothing(p)
    \/ db.phase = "again" /\ NewTcp(p)

TakeUp ==
    /\ front = "pool" /\ db.call = "none" /\ db.todo # {}
    /\ \E p \in db.todo : (\A q \in db.todo : p <= q) /\ (Row(p) \/ OtherPart(p))
    /\ UNCHANGED <<front, round, stopping, udp_pool, rows, last_rows, pulls, outside>>

Following == [rows |-> "gone", gone |-> "again", again |-> "idle"]

NextPart ==
    /\ front = "pool" /\ db.call = "none" /\ db.todo = {}
    /\ db.phase \in DOMAIN Following
    /\ db' = At(Following[db.phase],
                CASE db.phase = "rows" -> {p \in Ports : last_rows[p] # Gone /\ rows[p] = Gone}
                  [] db.phase = "gone" -> db.again
                  [] db.phase = "again" -> {},
                IF db.phase = "rows" THEN db.again ELSE {})
    /\ UNCHANGED <<front, relay, loopVars, poolVars, rows, last_rows, pulls, outside, crossed>>

\* thread_db_stop: the wait between two cycles ends.
Stop ==
    /\ Calling("idle")
    /\ db' = At("stop", {p \in Ports : server_is_run(p)}, {})
    /\ UNCHANGED <<front, relay, loopVars, poolVars, rows, last_rows, pulls, outside, crossed>>

StopLoop ==
    /\ Calling("stop") /\ db.todo = {}
    /\ stopping' = TRUE
    /\ db' = At("ended", {}, {})
    /\ UNCHANGED <<front, relay, periodic, round, poolVars, rows, last_rows, pulls, outside, crossed>>

---------------------------------------------------------------------------
(* The manager: handlers of the loop's own thread, so never in a round.    *)

Handling == front = "manager" /\ round = 0

\* Both relays are bound before either is added to the loop; when the
\* second bind fails, nothing refers to the first relay any more.
add_port(p, c) ==
    /\ Handling
    /\ tcp_pool[p] = 0
    /\ Bindable("tcp", p) /\ Bindable("udp", p)
    /\ Len(relay) + 2 <= MaxRelays
    /\ relay' = relay \o <<New("tcp", p, c), New("udp", p, c)>>
    /\ periodic' = periodic \o <<Len(relay) + 1, Len(relay) + 2>>
    /\ tcp_pool' = [tcp_pool EXCEPT ![p] = Len(relay) + 1]
    /\ udp_pool' = [udp_pool EXCEPT ![p] = Len(relay) + 2]
    /\ UNCHANGED <<front, round, stopping, dbVars, outside, crossed>>

\* close(next_tick=False) of both.
remove_port(p) ==
    /\ Handling
    /\ tcp_pool[p] # 0
    /\ LET both == {tcp_pool[p], udp_pool[p]} IN
       relay' = [r \in Relays |-> IF r \in both THEN [relay[r] EXCEPT !.closed = TRUE, !.open = FALSE]
                                   ELSE relay[r]]
    /\ periodic' = RemoveFirst(RemoveFirst(periodic, tcp_pool[p]), udp_pool[p])
    /\ tcp_pool' = [tcp_pool EXCEPT ![p] = 0]
    /\ udp_pool' = [udp_pool EXCEPT ![p] = 0]
    /\ UNCHANGED <<front, round, stopping, dbVars, outside, crossed>>

---------------------------------------------------------------------------
\* Another process lets go of its socket.
OutsideLeaves ==
    /\ outside # {}
    /\ outside' = {}
    /\ UNCHANGED <<front, relay, loopVars, poolVars, dbVars, crossed>>

Loop == RoundBegins \/ Callback \/ RoundEnds
Accounting == Pull \/ TakeUp \/ DelUdp \/ NewUdp \/ NextPart \/ StopLoop
Managing == \E p \in Ports : remove_port(p) \/ \E c \in Configs : add_port(p, c)

Next ==
    \/ Loop \/ Accounting \/ Stop \/ Managing
    \/ OutsideLeaves

Spec == Init /\ [][Next]_vars

\* Both threads run on, and other processes do not keep a port for ever.
FairSpec ==
    /\ Spec
    /\ WF_vars(Loop) /\ WF_vars(Accounting) /\ WF_vars(OutsideLeaves)

---------------------------------------------------------------------------
(* Every listening socket is accounted for: its relay is in a pool and not *)
(* closed, or closed, out of the pool, and still called back, so that the  *)
(* socket will be released.  No sequence of starts and stops, however the  *)
(* loop cuts into it, leaves a port bound by a relay nobody knows.         *)
ListenersAccountedFor ==
    \A r \in Relays :
        relay[r].open =>
            /\ \E i \in DOMAIN periodic : periodic[i] = r
            /\ ~relay[r].closed <=> (tcp_pool[relay[r].port] = r \/ udp_pool[relay[r].port] = r)

(* new_server starts both relays of a port or none, unless the loop ran    *)
(* this port's callbacks between the halves of a stop, was in a round at   *)
(* the start, or another process has the port: a closed UDP socket is      *)
(* never left for a later round than the TCP socket it belongs to, though  *)
(* callbacks that leave the list make the loop skip others.                *)
HalfStartedOnlyIfCrossed ==
    \A p \in Ports : tcp_pool[p] # 0 /\ udp_pool[p] = 0 /\ db.call # "new_udp" => p \in crossed

(* close(True) releases the sockets in the end, skipped callbacks or not,  *)
(* unless the loop is stopped.                                             *)
ClosedReleased ==
    \A r \in 1 .. MaxRelays :
        (r \in Relays /\ relay[r].closed) ~> (stopping \/ (r \in Relays /\ ~relay[r].open))

(* A user whose row stays as it is gets a TCP relay with its settings: a   *)
(* start that fails because the old socket is still open is tried again by *)
(* a later cycle.                                                          *)
RowsAreServed ==
    \A p \in Ports, c \in Configs :
        <>[](front = "pool" /\ rows[p] = c)
            => <>[](server_is_run(p) /\ ~Changed(p)) \/ <>(db.phase \in {"stop", "ended"})
=============================================================================
