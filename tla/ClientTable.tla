----------------------------- MODULE ClientTable -----------------------------
(***************************************************************************)
(* The clients of one user: obfs_auth_mu_data and its copies in            *)
(* auth_chain.py and auth_akarin.py (shadowsocks/obfsplugin).  They keep   *)
(* one client_queue per client in an LRUCache, at most max_client of them, *)
(* and make room by dropping a client that has been inactive for too long. *)
(*                                                                         *)
(* One client, Me, has its queue in full: the variables of ClientQueue,    *)
(* which mean nothing while Me is not in the table.  Of the others it only *)
(* matters whether their queue is active.  Of the cache only the order of  *)
(* the keys matters, oldest first: every read of an entry, __getitem__,    *)
(* moves its key to the end.                                               *)
(***************************************************************************)
EXTENDS ClientQueue, Sequences, SequencesExt

CONSTANTS Me,         \* the client whose queue is modelled
          Others,     \* the other client ids
          MaxClient   \* max_client

ASSUME TableAssumption == MaxClient \in Nat \ {0} /\ Me \notin Others

VARIABLES order,    \* the keys of the LRUCache
          active,   \* the other clients whose queue is_active()
          open      \* open connections of Me, of its present and of earlier queues

tableVars == <<front, back, alloc, age, ref, times, order, active, open>>

Clients == Others \cup {Me}
Table == ToSet(order)
Active(c) == IF c = Me THEN IsActive ELSE c \in active

\* The queue of Me as it is created for id and accepts it.
CreateQueue(id) ==
    /\ front' = id - Lead /\ back' = id + 1 /\ alloc' = {id}
    /\ age' = 0 /\ ref' = 1
    /\ times' = [i \in Ids |-> IF i = id THEN 1 ELSE 0]

\* The entry of Me is deleted, and its queue with it.
DropQueue ==
    /\ front' = 0 /\ back' = 0 /\ alloc' = {} /\ age' = Timeout /\ ref' = 0
    /\ times' = [i \in Ids |-> 0]

TableInit ==
    /\ front = 0 /\ back = 0 /\ alloc = {} /\ age = Timeout /\ ref = 0
    /\ times = [i \in Ids |-> 0]
    /\ order = <<>> /\ active = {} /\ open = 0

-----------------------------------------------------------------------------

\* LRUCache.__getitem__ of a key that is there.
getitem(keys, c) == Append(RemoveFirst(keys, c), c)

\* insert() for a client that is in the table: the queue accepts the id or not.
insertKnown ==
    \/ /\ Me \in Table /\ open < MaxRef
       /\ order' = getitem(order, Me)
       /\ \E id \in Ids :
             /\ insertActive(id) \/ re_enable(id)
             /\ open' = IF IsActive /\ ~Accepts(id, front, alloc) THEN open ELSE open + 1
       /\ UNCHANGED active
    \/ \E c \in Others \cap Table :
          /\ order' = getitem(order, c)
          /\ active' = active \cup {c}
          /\ UNCHANGED <<queueVars, open>>

\* A new client c takes the last place after keys; the queue of the client
\* `out`, if any, is gone.
Enter(c, keys, out) ==
    /\ order' = Append(keys, c)
    /\ IF c = Me
       THEN /\ \E id \in Ids : CreateQueue(id)
            /\ open' = open + 1
            /\ active' = active \ out
       ELSE /\ IF Me \in out THEN DropQueue ELSE UNCHANGED queueVars
            /\ active' = (active \ out) \cup {c}
            /\ UNCHANGED open

\* insert() for a new client while there is room.
insertRoom(c) ==
    /\ c \notin Table /\ (c = Me => open < MaxRef)
    /\ Len(order) < MaxClient
    /\ Enter(c, order, {})

\* Mutant: a client that is refused does not look at the oldest one.
insertFullRefuses(c) ==
    /\ c \notin Table /\ (c = Me => open < MaxRef)
    /\ Len(order) >= MaxClient
    /\ UNCHANGED tableVars

\* insert() for a new client while there is none.  Asking whether the first
\* client is active reads its entry and so makes it the last; the client that is
\* deleted is the one that is first after that.
insertFull(c) ==
    /\ c \notin Table /\ (c = Me => open < MaxRef)
    /\ Len(order) >= MaxClient
    /\ LET keys == getitem(order, Head(order))
       IN  IF Active(Head(order))
           THEN order' = keys /\ UNCHANGED <<queueVars, active, open>>
           ELSE Enter(c, Tail(keys), {Head(keys)})

\* Data of an open connection (update): it revives a queue that is counted as in
\* use, and does nothing for a client that has lost its place.
updateTable ==
    \/ /\ open > 0 /\ Me \in Table
       /\ order' = getitem(order, Me)
       /\ update
       /\ UNCHANGED <<active, open>>
    \/ \E c \in Others \cap Table :
          /\ order' = getitem(order, c)
          /\ active' \in {active, active \cup {c}}
          /\ UNCHANGED <<queueVars, open>>

\* A connection is disposed of (remove): whichever queue its client has now is
\* counted down, also when the connection belonged to an earlier one.
remove ==
    \/ /\ open > 0
       /\ open' = open - 1
       /\ IF Me \in Table THEN delref /\ order' = getitem(order, Me)
                          ELSE UNCHANGED <<queueVars, order>>
       /\ UNCHANGED active
    \/ \E c \in Others \cap Table :
          /\ order' = getitem(order, c)
          /\ active' \in {active, active \ {c}}
          /\ UNCHANGED <<queueVars, open>>

\* Time passes: queues become inactive.
Elapse ==
    \/ Me \in Table /\ Tick /\ UNCHANGED <<order, active, open>>
    \/ \E c \in active : active' = active \ {c} /\ UNCHANGED <<queueVars, order, open>>

TableNext ==
    \/ insertKnown
    \/ \E c \in Clients : insertRoom(c) \/ insertFull(c)
    \/ updateTable
    \/ remove
    \/ Elapse

TableSpec == TableInit /\ [][TableNext]_tableVars

\* A client that is refused tries again, and connections come to an end.
TableFairSpec ==
    /\ TableSpec
    /\ \A c \in Clients : WF_tableVars(insertRoom(c) \/ insertFull(c))
    /\ WF_tableVars(open = MaxRef /\ remove /\ open' < open)
-----------------------------------------------------------------------------
(* Properties.                                                             *)

\* A queue counts no connection that is not open, though clients lose their
\* place and come back with a new queue while old connections go on: a client
\* without connections is inactive and can make room.
RefBelowOpen == ref <= open

\* A newcomer is not kept out for ever by a client that stays inactive and whose
\* entry nobody reads: it gets in, or that client loses its place, wakes up or
\* becomes the most recently read one (old connections of a queue that counts
\* none may still have data).
InactiveMakesRoom ==
    \A c, d \in Clients :
        (c \notin Table /\ d \in Table /\ ~Active(d))
            ~> (c \in Table \/ d \notin Table \/ Active(d) \/ Last(order) = d)
=============================================================================
