----------------------------- MODULE DNSResolver -----------------------------
(***************************************************************************)
(* The asynchronous resolver of shadowsocks/asyncdns.py: its three tables  *)
(* (_hostname_status, _hostname_to_cb, _cb_to_hostname), the answer cache, *)
(* and the requests it has on the wire.                                    *)
(*                                                                         *)
(* A callback list is a set: the callbacks of a hostname are independent   *)
(* of each other, so the order in which they run tells nothing apart.  The *)
(* status of a hostname is the record type being asked for, "AAAA" for     *)
(* STATUS_IPV6 and "A" for STATUS_IPV4.                                    *)
(*                                                                         *)
(* `waiting' is the callers' side of the contract: the callbacks given to  *)
(* resolve() that have neither been called nor withdrawn.                  *)
(***************************************************************************)
EXTENDS Naturals, FiniteSets

CONSTANTS Hostnames,                \* names that are not literals nor in hosts
          Callbacks,                \* one per caller of resolve()
          None,                     \* "absent" in a dictionary
          IPV6_CONNECTION_SUPPORT   \* asyncdns.IPV6_CONNECTION_SUPPORT

ASSUME ConstantsAssumption ==
    /\ None \notin Hostnames
    /\ None \notin {"A", "AAAA"}
    /\ IPV6_CONNECTION_SUPPORT \in BOOLEAN

VARIABLES hostname_status,   \* [Hostnames -> QTypes \cup {None}]
          hostname_to_cb,    \* [Hostnames -> SUBSET Callbacks]
          cb_to_hostname,    \* [Callbacks -> Hostnames \cup {None}]
          cache,             \* hostnames with a cached answer
          queries,           \* <<hostname, type>> requests a reply may come for
          waiting,           \* callers that still expect their callback
          faulty             \* history: names with a failed send or a lost reply

dnsTables == <<hostname_status, hostname_to_cb, cb_to_hostname>>
dnsVars == <<hostname_status, hostname_to_cb, cb_to_hostname, cache, queries, waiting,
             faulty>>

QTypes == {"A", "AAAA"}

\* The record type asked for first, and the one a first empty answer falls
\* back to.
FirstType == IF IPV6_CONNECTION_SUPPORT THEN "AAAA" ELSE "A"
SecondType == IF IPV6_CONNECTION_SUPPORT THEN "A" ELSE "AAAA"

DNSTypeOK ==
    /\ hostname_status \in [Hostnames -> QTypes \cup {None}]
    /\ hostname_to_cb \in [Hostnames -> SUBSET Callbacks]
    /\ cb_to_hostname \in [Callbacks -> Hostnames \cup {None}]
    /\ cache \in SUBSET Hostnames
    /\ queries \in SUBSET (Hostnames \X QTypes)
    /\ waiting \in SUBSET Callbacks
    /\ faulty \in SUBSET Hostnames

DNSInit ==
    /\ hostname_status = [h \in Hostnames |-> None]
    /\ hostname_to_cb = [h \in Hostnames |-> {}]
    /\ cb_to_hostname = [cb \in Callbacks |-> None]
    /\ cache = {}
    /\ queries = {}
    /\ waiting = {}
    /\ faulty = {}

-----------------------------------------------------------------------------
(* Requests.                                                               *)

\* _send_req: the same request goes to every configured server, so once it is
\* out any number of replies may come.  sendto() may raise; `sent' says
\* whether it did not.
SendReq(h, type, sent) ==
    /\ queries' = IF sent THEN queries \cup {<<h, type>>} ELSE queries
    /\ faulty' = IF sent THEN faulty ELSE faulty \cup {h}

\* resolve() of a cached name: the callback runs before resolve() returns.
ResolveCached(h) ==
    /\ h \in cache
    /\ UNCHANGED dnsVars

\* resolve() of a name nobody waits for.  The status is set before the request
\* is sent and the callback is recorded after it, so a sendto() that raises
\* leaves a status behind and no callback.
ResolveFirst(h, cb, sent) ==
    /\ h \notin cache
    /\ hostname_to_cb[h] = {}
    /\ hostname_status' = [hostname_status EXCEPT ![h] = FirstType]
    /\ SendReq(h, FirstType, sent)
    /\ IF sent
       THEN /\ hostname_to_cb' = [hostname_to_cb EXCEPT ![h] = {cb}]
            /\ cb_to_hostname' = [cb_to_hostname EXCEPT ![cb] = h]
            /\ waiting' = waiting \cup {cb}
       ELSE UNCHANGED <<hostname_to_cb, cb_to_hostname, waiting>>
    /\ UNCHANGED cache

\* Mutant: the second caller's list replaces the first's.
ResolveNextOverwrites(h, cb, sent) ==
    /\ h \notin cache
    /\ hostname_to_cb[h] # {}
    /\ hostname_to_cb' = [hostname_to_cb EXCEPT ![h] = {cb}]
    /\ SendReq(h, FirstType, sent)
    /\ waiting' = IF sent THEN waiting \cup {cb} ELSE waiting
    /\ UNCHANGED <<hostname_status, cb_to_hostname, cache>>

\* resolve() of a name somebody waits for already: the callback joins the list
\* but is not entered in _cb_to_hostname, and it joins before the request is
\* sent again.
ResolveNext(h, cb, sent) ==
    /\ h \notin cache
    /\ hostname_to_cb[h] # {}
    /\ hostname_to_cb' = [hostname_to_cb EXCEPT ![h] = @ \cup {cb}]
    /\ SendReq(h, FirstType, sent)
    /\ waiting' = IF sent THEN waiting \cup {cb} ELSE waiting
    /\ UNCHANGED <<hostname_status, cb_to_hostname, cache>>

resolve(h, cb, sent) == ResolveFirst(h, cb, sent) \/ ResolveNext(h, cb, sent)

\* remove_callback, for the callbacks cbs: a callback that _cb_to_hostname
\* does not know is left where it is.
RemoveCallbacks(cbs) ==
    LET known == {cb \in cbs : cb_to_hostname[cb] # None}
        left(h) == hostname_to_cb[h] \ {cb \in known : cb_to_hostname[cb] = h}
        emptied == {h \in Hostnames : hostname_to_cb[h] # {} /\ left(h) = {}}
    IN  /\ cb_to_hostname' = [cb \in Callbacks |->
                                IF cb \in known THEN None ELSE cb_to_hostname[cb]]
        /\ hostname_to_cb' = [h \in Hostnames |-> left(h)]
        /\ hostname_status' = [h \in Hostnames |->
                                IF h \in emptied THEN None ELSE hostname_status[h]]
        /\ waiting' = waiting \ cbs
        /\ UNCHANGED <<cache, queries, faulty>>

-----------------------------------------------------------------------------
(* Replies.                                                                *)

\* A reply to <<h, type>> is read from the socket; more copies of it (another
\* server, a duplicated datagram) may or may not follow.
Receive(h, type, more) ==
    IF more THEN queries ELSE queries \ {<<h, type>>}

\* Mutant: the reverse entries outlive the list.
CallCallbackKeepsReverse(h) ==
    /\ hostname_to_cb' = [hostname_to_cb EXCEPT ![h] = {}]
    /\ hostname_status' = [hostname_status EXCEPT ![h] = None]
    /\ waiting' = waiting \ hostname_to_cb[h]
    /\ UNCHANGED cb_to_hostname

\* _call_callback: every callback of h runs, and h is forgotten.
CallCallback(h) ==
    /\ cb_to_hostname' = [cb \in Callbacks |->
                            IF cb \in hostname_to_cb[h] THEN None ELSE cb_to_hostname[cb]]
    /\ hostname_to_cb' = [hostname_to_cb EXCEPT ![h] = {}]
    /\ hostname_status' = [hostname_status EXCEPT ![h] = None]
    /\ waiting' = waiting \ hostname_to_cb[h]

\* _handle_data of a reply that holds an address, whatever its type.
HandleAnswer(h, type, more) ==
    /\ <<h, type>> \in queries
    /\ cache' = cache \cup {h}
    /\ CallCallback(h)
    /\ queries' = Receive(h, type, more)
    /\ UNCHANGED faulty

\* Mutant: the fallback changes the status and asks for nothing.
HandleFallbackSilent(h, type, more, sent) ==
    /\ <<h, type>> \in queries
    /\ hostname_status[h] = FirstType
    /\ sent
    /\ hostname_status' = [hostname_status EXCEPT ![h] = SecondType]
    /\ queries' = Receive(h, type, more)
    /\ UNCHANGED <<hostname_to_cb, cb_to_hostname, cache, waiting, faulty>>

\* _handle_data of an empty reply while the first type is being asked for:
\* the resolver turns to the second type, without looking at the type of the
\* question that the reply answers.
HandleFallback(h, type, more, sent) ==
    /\ <<h, type>> \in queries
    /\ hostname_status[h] = FirstType
    /\ hostname_status' = [hostname_status EXCEPT ![h] = SecondType]
    /\ faulty' = IF sent THEN faulty ELSE faulty \cup {h}
    /\ queries' = IF sent THEN Receive(h, type, more) \cup {<<h, SecondType>>}
                          ELSE Receive(h, type, more)
    /\ UNCHANGED <<hostname_to_cb, cb_to_hostname, cache, waiting>>

\* Mutant: an empty reply to the second type is dropped.
HandleFailureDropped(h, type, more) ==
    /\ <<h, type>> \in queries
    /\ hostname_status[h] = SecondType
    /\ type = SecondType
    /\ queries' = Receive(h, type, more)
    /\ UNCHANGED <<dnsTables, cache, waiting, faulty>>

\* _handle_data of an empty reply to the second type: the callers are told.
HandleFailure(h, type, more) ==
    /\ <<h, type>> \in queries
    /\ hostname_status[h] = SecondType
    /\ type = SecondType
    /\ CallCallback(h)
    /\ queries' = Receive(h, type, more)
    /\ UNCHANGED <<cache, faulty>>

\* _handle_data of any other empty reply: nobody asks, or a late reply to the
\* first type after the fallback.
HandleIgnored(h, type, more) ==
    /\ <<h, type>> \in queries
    /\ \/ hostname_status[h] = None
       \/ hostname_status[h] = SecondType /\ type = FirstType
    /\ queries' = Receive(h, type, more)
    /\ UNCHANGED <<dnsTables, cache, waiting, faulty>>

\* A reply is lost (or refused by parse_response, which is the same thing).
LoseReply(h, type) ==
    /\ <<h, type>> \in queries
    /\ queries' = queries \ {<<h, type>>}
    /\ faulty' = faulty \cup {h}
    /\ UNCHANGED <<dnsTables, cache, waiting>>

\* handle_event with POLL_ERR: a new socket on a new port replaces the old one,
\* so no reply to an earlier request can arrive; nothing is sent again.
SocketError ==
    /\ queries # {}
    /\ queries' = {}
    /\ faulty' = faulty \cup {q[1] : q \in queries}
    /\ UNCHANGED <<dnsTables, cache, waiting>>

\* handle_periodic: the cache drops names that were not used for 300 s.
SweepCache(h) ==
    /\ h \in cache
    /\ cache' = cache \ {h}
    /\ UNCHANGED <<dnsTables, queries, waiting, faulty>>

-----------------------------------------------------------------------------
(* The resolver with callers that may resolve, wait and withdraw.          *)

\* A caller is an object with one outstanding request at most: it asks while
\* the resolver has no trace of its callback.
Resolve(h, cb) ==
    /\ cb \notin waiting
    /\ \A g \in Hostnames : cb \notin hostname_to_cb[g]
    /\ \/ ResolveCached(h)
       \/ \E sent \in BOOLEAN : resolve(h, cb, sent)

Withdraw(cb) == cb \in waiting /\ RemoveCallbacks({cb})

Reply(h, type) ==
    \E more \in BOOLEAN :
        \/ HandleAnswer(h, type, more)
        \/ \E sent \in BOOLEAN : HandleFallback(h, type, more, sent)
        \/ HandleFailure(h, type, more)
        \/ HandleIgnored(h, type, more)

DNSNext ==
    \/ \E h \in Hostnames, cb \in Callbacks : Resolve(h, cb)
    \/ \E cb \in Callbacks : Withdraw(cb)
    \/ \E h \in Hostnames, type \in QTypes : Reply(h, type) \/ LoseReply(h, type)
    \/ SocketError
    \/ \E h \in Hostnames : SweepCache(h)

\* Every request that stays on the wire is answered in the end:
\* the loop polls the socket and serves every readable datagram.
DNSFairness == \A h \in Hostnames, type \in QTypes : WF_dnsVars(Reply(h, type))

DNSSpec == DNSInit /\ [][DNSNext]_dnsVars
DNSFairSpec == DNSSpec /\ DNSFairness
-----------------------------------------------------------------------------
(* Properties.                                                             *)

\* The two callback tables agree (remove_callback relies on it: arr.remove
\* raises when the callback is not in the list): a callback that
\* _cb_to_hostname files under a name is in that name's list, and no callback
\* is in two lists, whatever calls, replies, losses and failed sends came
\* before.
TablesAgree ==
    /\ \A cb \in Callbacks :
          cb_to_hostname[cb] # None => cb \in hostname_to_cb[cb_to_hostname[cb]]
    /\ \A h, g \in Hostnames : h # g => hostname_to_cb[h] \cap hostname_to_cb[g] = {}

\* A name with callbacks has a status.  _handle_data ignores an empty reply for
\* a name without one, so a caller of such a name would never hear of a failure.
StatusWhileWaiting ==
    \A h \in Hostnames : hostname_to_cb[h] # {} => hostname_status[h] # None

\* Nobody is forgotten: a caller whose resolve() returned without calling it
\* stays in some list until _call_callback runs it or it withdraws.
WaitersRegistered ==
    \A cb \in waiting : \E h \in Hostnames : cb \in hostname_to_cb[h]

\* A name of which no send has failed and no reply was lost has on the wire,
\* while it has callers, the request whose reply _handle_data acts on: the
\* status never names a type that was not asked for, across fallbacks, late
\* replies of an earlier resolution, withdrawals and second callers.
QueryOutstanding ==
    \A h \in Hostnames \ faulty :
        hostname_to_cb[h] # {} => <<h, hostname_status[h]>> \in queries

\* Every caller of such a name that does not withdraw is called back in the end,
\* by an answer or by an error, whatever happens to other names.  (The resolver
\* has no timeout and no retry of its own.)
EveryCallerAnswered ==
    \A cb \in Callbacks, h \in Hostnames :
        (cb \in waiting /\ cb \in hostname_to_cb[h]) ~> (cb \notin waiting \/ h \in faulty)
=============================================================================
