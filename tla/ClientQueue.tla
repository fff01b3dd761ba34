----------------------------- MODULE ClientQueue -----------------------------
(***************************************************************************)
(* The window of connection ids that the server keeps for one client:      *)
(* class client_queue of shadowsocks/obfsplugin/auth.py, auth_chain.py and *)
(* auth_akarin.py.  A client numbers its connections upwards from a random *)
(* id; every id is to be accepted once, in about that order.               *)
(*                                                                         *)
(* Time is the number of periods since the last update; after Timeout of   *)
(* them (three or ten minutes) the client is inactive.  auth_chain and     *)
(* auth_akarin also count the client's open connections (Counted).         *)
(***************************************************************************)
EXTENDS Integers, FiniteSets

CONSTANTS MaxId,    \* connection ids are 0 .. MaxId (32 bits in the code)
          Lead,     \* ids below the first one that are accepted (64)
          Window,   \* ids that are remembered (0x1000)
          Jump,     \* how far an id may be ahead of the window (0x4000)
          Timeout,  \* periods until a client is inactive
          Counted,  \* does is_active look at the open connections?
          MaxRef    \* bound: open connections of the client

ASSUME QueueAssumption ==
    /\ MaxId \in Nat /\ Timeout \in Nat \ {0} /\ MaxRef \in Nat
    /\ Lead \in Nat \ {0} /\ Window \in Nat /\ Jump \in Nat
    /\ Lead < Window /\ Window <= Jump
    /\ Counted \in BOOLEAN

VARIABLES front,   \* ids below it are refused
          back,    \* one above the highest id accepted
          alloc,   \* the ids accepted from front on
          age,     \* periods since last_update, up to Timeout
          ref,     \* open connections
          times    \* history: how often each id was accepted since the queue
                   \* was created or re-enabled

queueVars == <<front, back, alloc, age, ref, times>>

Ids == 0 .. MaxId

TypeOK ==
    /\ front \in Int /\ back \in Int
    /\ alloc \in SUBSET Ids
    /\ age \in 0 .. Timeout
    /\ ref \in Nat
    /\ times \in [Ids -> Nat]

IsActive == age < Timeout /\ (Counted => ref > 0)

\* __init__ with the client's first id, and the insert() of that id.
QueueInit ==
    \E id \in Ids :
        /\ front = id - Lead
        /\ back = id + 1
        /\ alloc = {id}
        /\ age = 0
        /\ ref = 1
        /\ times = [i \in Ids |-> IF i = id THEN 1 ELSE 0]

\* Mutant: the front waits for every id it has not seen.
SlideOnlyFull(f, b, a) ==
    \E g \in f .. b : /\ g \notin a
                      /\ \A i \in f .. g - 1 : i \in a
                      /\ front' = g
                      /\ alloc' = {i \in a : i > g}

\* The loop at the end of insert(): the front passes the ids accepted, and the
\* ones that the window is too small for.
Slide(f, b, a) ==
    \E g \in f .. b : /\ g \notin a /\ g + Window >= b
                      /\ \A i \in f .. g - 1 : i \in a \/ i + Window < b
                      /\ front' = g
                      /\ alloc' = {i \in a : i > g}

\* Is id accepted by a window that starts at f and holds a?
Accepts(id, f, a) == id >= f /\ id <= f + Jump /\ id \notin a

\* Mutant: a refused id counts as accepted.
insertUnchecked(id) ==
    /\ ref < MaxRef
    /\ Slide(front, IF back <= id THEN id + 1 ELSE back, alloc \cup {id})
    /\ back' = IF back <= id THEN id + 1 ELSE back
    /\ times' = [times EXCEPT ![id] = @ + 1]
    /\ ref' = ref + 1 /\ age' = 0

\* Mutant: addref() comes before the checks.
insertCounted(id) ==
    /\ IsActive /\ ref < MaxRef
    /\ age' = 0 /\ ref' = ref + 1
    /\ IF Accepts(id, front, alloc)
       THEN /\ back' = IF back <= id THEN id + 1 ELSE back
            /\ Slide(front, IF back <= id THEN id + 1 ELSE back, alloc \cup {id})
            /\ times' = [times EXCEPT ![id] = @ + 1]
       ELSE UNCHANGED <<front, back, alloc, times>>

\* insert(), for a queue that is active.
insertActive(id) ==
    /\ IsActive /\ ref < MaxRef
    /\ age' = 0
    /\ IF Accepts(id, front, alloc)
       THEN /\ back' = IF back <= id THEN id + 1 ELSE back
            /\ Slide(front, IF back <= id THEN id + 1 ELSE back, alloc \cup {id})
            /\ ref' = ref + 1
            /\ times' = [times EXCEPT ![id] = @ + 1]
       ELSE UNCHANGED <<front, back, alloc, ref, times>>

\* insert(), for a queue that is not: re_enable() starts it afresh around id,
\* which is then accepted.
re_enable(id) ==
    /\ ~IsActive /\ ref < MaxRef
    /\ front' = id - Lead /\ back' = id + 1 /\ alloc' = {id}
    /\ age' = 0 /\ ref' = ref + 1
    /\ times' = [i \in Ids |-> IF i = id THEN 1 ELSE 0]

\* update(): data of an open connection.  It revives a queue that has not been
\* re-enabled.
update ==
    /\ age' = 0
    /\ UNCHANGED <<front, back, alloc, ref, times>>

\* A connection is closed (dispose, delref).
delref ==
    /\ ref' = IF ref > 0 THEN ref - 1 ELSE ref
    /\ UNCHANGED <<front, back, alloc, age, times>>

Tick ==
    /\ age < Timeout
    /\ age' = age + 1
    /\ UNCHANGED <<front, back, alloc, ref, times>>

QueueNext ==
    \/ \E id \in Ids : insertActive(id) \/ re_enable(id)
    \/ ref > 0 /\ (update \/ delref)
    \/ Tick

QueueSpec == QueueInit /\ [][QueueNext]_queueVars
-----------------------------------------------------------------------------
(* Properties.                                                             *)

\* No id is accepted twice while the queue is not started afresh, though ids
\* arrive in any order, the window slides and drops entries, and the queue
\* goes idle and comes back by update().
AcceptedOnce == \A id \in Ids : times[id] <= 1

\* What the queue keeps is bounded: the entries lie strictly inside a window
\* of at most Window ids.
WindowBounded ==
    /\ front <= back /\ back <= front + Window
    /\ \A id \in alloc : front < id /\ id < back

\* A client that counts up is never refused: the id after the highest one so
\* far is acceptable in every state, however many ids before it are missing.
NextIdAccepted == Accepts(back, front, alloc)
=============================================================================
