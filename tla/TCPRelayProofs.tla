---------------------------- MODULE TCPRelayProofs ----------------------------
(***************************************************************************)
(* The descriptor tables of a relay stay consistent and a destroyed        *)
(* handler holds nothing, for any number of connections, descriptors and   *)
(* names, in sslocal and in ssserver, with and without fast open, and also *)
(* when a late DNS answer revives a destroyed handler.  When no two        *)
(* connections wait for one name at a time, the connection count is right, *)
(* every open connection is timed, and a destroyed handler stays so.       *)
(*                                                                         *)
(* First the resolver alone: its tables stay consistent for any number of  *)
(* names and callers, and a name of which no send has failed and no reply  *)
(* was lost has the deciding request on the wire while it has callers.     *)
(***************************************************************************)
EXTENDS TCPRelay, FiniteSetTheorems, TLAPS

-----------------------------------------------------------------------------
(* The resolver.                                                           *)

\* The inductive invariant.  QueryOutstanding needs StatusWhileWaiting (a reply
\* that is ignored for want of a status must not have been anybody's), and
\* TablesAgree needs the types of the tables.
DNSInv ==
    /\ DNSTypeOK
    /\ TablesAgree
    /\ StatusWhileWaiting
    /\ WaitersRegistered
    /\ QueryOutstanding

\* Neither record type is the absent value and the two differ.
LEMMA TypesDiffer ==
    /\ FirstType \in QTypes /\ SecondType \in QTypes
    /\ FirstType # SecondType
    /\ FirstType # None /\ SecondType # None
BY ConstantsAssumption DEF FirstType, SecondType, QTypes

LEMMA InitInv == DNSInit => DNSInv
BY ConstantsAssumption DEF DNSInit, DNSInv, DNSTypeOK, TablesAgree, StatusWhileWaiting,
   WaitersRegistered, QueryOutstanding

\* The first caller of a name.
LEMMA ResolveFirstInv ==
    ASSUME DNSInv, NEW h \in Hostnames, NEW cb \in Callbacks, NEW sent \in BOOLEAN,
           \A g \in Hostnames : cb \notin hostname_to_cb[g],
           ResolveFirst(h, cb, sent)
    PROVE  DNSInv'
<1> USE TypesDiffer, ConstantsAssumption DEF DNSInv, ResolveFirst, SendReq
<1>1. DNSTypeOK'
  BY DEF DNSTypeOK
<1>2. TablesAgree'
  BY DEF DNSTypeOK, TablesAgree
<1>3. StatusWhileWaiting'
  BY DEF DNSTypeOK, StatusWhileWaiting
<1>4. WaitersRegistered'
  BY DEF DNSTypeOK, WaitersRegistered
<1>5. QueryOutstanding'
  BY DEF DNSTypeOK, QueryOutstanding
<1>6. QED
  BY <1>1, <1>2, <1>3, <1>4, <1>5

\* A later caller of a name.
LEMMA ResolveNextInv ==
    ASSUME DNSInv, NEW h \in Hostnames, NEW cb \in Callbacks, NEW sent \in BOOLEAN,
           \A g \in Hostnames : cb \notin hostname_to_cb[g],
           ResolveNext(h, cb, sent)
    PROVE  DNSInv'
<1> USE TypesDiffer, ConstantsAssumption DEF DNSInv, ResolveNext, SendReq
<1>1. DNSTypeOK'
  BY DEF DNSTypeOK
<1>2. TablesAgree'
  BY DEF DNSTypeOK, TablesAgree
<1>3. StatusWhileWaiting'
  BY DEF DNSTypeOK, StatusWhileWaiting
<1>4. WaitersRegistered'
  BY DEF DNSTypeOK, WaitersRegistered
<1>5. QueryOutstanding'
  BY DEF DNSTypeOK, QueryOutstanding
<1>6. QED
  BY <1>1, <1>2, <1>3, <1>4, <1>5

\* remove_callback, for any set of callers that withdraw.
LEMMA RemoveCallbacksInv ==
    ASSUME DNSInv, NEW cbs \in SUBSET Callbacks, RemoveCallbacks(cbs)
    PROVE  DNSInv'
<1> DEFINE known == {cb \in cbs : cb_to_hostname[cb] # None}
           left(h) == hostname_to_cb[h] \ {cb \in known : cb_to_hostname[cb] = h}
           emptied == {h \in Hostnames : hostname_to_cb[h] # {} /\ left(h) = {}}
<1> USE ConstantsAssumption DEF DNSInv, RemoveCallbacks
<1>1. DNSTypeOK'
  BY DEF DNSTypeOK
<1>2. TablesAgree'
  BY DEF DNSTypeOK, TablesAgree
<1>3. StatusWhileWaiting'
  BY DEF DNSTypeOK, StatusWhileWaiting
<1>4. WaitersRegistered'
  BY DEF DNSTypeOK, WaitersRegistered
<1>5. QueryOutstanding'
  BY DEF DNSTypeOK, QueryOutstanding
<1>6. QED
  BY <1>1, <1>2, <1>3, <1>4, <1>5

\* A reply with an address.
LEMMA HandleAnswerInv ==
    ASSUME DNSInv, NEW h \in Hostnames, NEW type \in QTypes, NEW more \in BOOLEAN,
           HandleAnswer(h, type, more)
    PROVE  DNSInv'
<1> USE ConstantsAssumption DEF DNSInv, HandleAnswer, CallCallback, Receive
<1>1. DNSTypeOK'
  BY DEF DNSTypeOK
<1>2. TablesAgree'
  BY DEF DNSTypeOK, TablesAgree
<1>3. StatusWhileWaiting'
  BY DEF DNSTypeOK, StatusWhileWaiting
<1>4. WaitersRegistered'
  BY DEF DNSTypeOK, WaitersRegistered
<1>5. QueryOutstanding'
  BY DEF DNSTypeOK, QueryOutstanding
<1>6. QED
  BY <1>1, <1>2, <1>3, <1>4, <1>5

\* An empty reply that turns to the second type.
LEMMA HandleFallbackInv ==
    ASSUME DNSInv, NEW h \in Hostnames, NEW type \in QTypes, NEW more \in BOOLEAN,
           NEW sent \in BOOLEAN, HandleFallback(h, type, more, sent)
    PROVE  DNSInv'
<1> USE TypesDiffer, ConstantsAssumption DEF DNSInv, HandleFallback, Receive
<1>1. DNSTypeOK'
  BY DEF DNSTypeOK
<1>2. TablesAgree' /\ WaitersRegistered'
  BY DEF TablesAgree, WaitersRegistered
<1>3. StatusWhileWaiting'
  BY DEF DNSTypeOK, StatusWhileWaiting
<1>4. QueryOutstanding'
  BY DEF DNSTypeOK, QueryOutstanding
<1>5. QED
  BY <1>1, <1>2, <1>3, <1>4

\* An empty reply to the second type.
LEMMA HandleFailureInv ==
    ASSUME DNSInv, NEW h \in Hostnames, NEW type \in QTypes, NEW more \in BOOLEAN,
           HandleFailure(h, type, more)
    PROVE  DNSInv'
<1> USE ConstantsAssumption DEF DNSInv, HandleFailure, CallCallback, Receive
<1>1. DNSTypeOK'
  BY DEF DNSTypeOK
<1>2. TablesAgree'
  BY DEF DNSTypeOK, TablesAgree
<1>3. StatusWhileWaiting'
  BY DEF DNSTypeOK, StatusWhileWaiting
<1>4. WaitersRegistered'
  BY DEF DNSTypeOK, WaitersRegistered
<1>5. QueryOutstanding'
  BY DEF DNSTypeOK, QueryOutstanding
<1>6. QED
  BY <1>1, <1>2, <1>3, <1>4, <1>5

\* A reply that is ignored takes nobody's request off the wire.
LEMMA HandleIgnoredInv ==
    ASSUME DNSInv, NEW h \in Hostnames, NEW type \in QTypes, NEW more \in BOOLEAN,
           HandleIgnored(h, type, more)
    PROVE  DNSInv'
<1> USE TypesDiffer, ConstantsAssumption DEF DNSInv, HandleIgnored, Receive, dnsTables
<1>1. DNSTypeOK'
  BY DEF DNSTypeOK
<1>2. TablesAgree' /\ WaitersRegistered' /\ StatusWhileWaiting'
  BY DEF TablesAgree, WaitersRegistered, StatusWhileWaiting
<1>3. QueryOutstanding'
  BY DEF DNSTypeOK, QueryOutstanding, StatusWhileWaiting
<1>4. QED
  BY <1>1, <1>2, <1>3

\* Steps that only take requests off a lossy wire or touch the cache.
LEMMA WireInv ==
    ASSUME DNSInv, UNCHANGED <<dnsTables, waiting>>,
           cache' \subseteq cache, queries' \subseteq queries, faulty \subseteq faulty',
           faulty' \subseteq Hostnames, \A q \in queries \ queries' : q[1] \in faulty'
    PROVE  DNSInv'
BY DEF DNSInv, dnsTables, DNSTypeOK, TablesAgree, StatusWhileWaiting, WaitersRegistered,
       QueryOutstanding

LEMMA DNSQuietInv ==
    ASSUME DNSInv, UNCHANGED dnsVars
    PROVE  DNSInv'
BY WireInv DEF dnsVars, dnsTables, DNSInv, DNSTypeOK

LEMMA NextInv == DNSInv /\ [DNSNext]_dnsVars => DNSInv'
<1> SUFFICES ASSUME DNSInv, [DNSNext]_dnsVars
             PROVE  DNSInv'
  OBVIOUS
<1>1. ASSUME NEW h \in Hostnames, NEW cb \in Callbacks, Resolve(h, cb)
      PROVE  DNSInv'
  <2>1. CASE ResolveCached(h)
    BY <2>1, DNSQuietInv DEF ResolveCached
  <2>2. CASE \E sent \in BOOLEAN : resolve(h, cb, sent)
    BY <1>1, <2>2, ResolveFirstInv, ResolveNextInv DEF Resolve, resolve
  <2>3. QED
    BY <1>1, <2>1, <2>2 DEF Resolve
<1>2. ASSUME NEW cb \in Callbacks, Withdraw(cb)
      PROVE  DNSInv'
  BY <1>2, RemoveCallbacksInv DEF Withdraw
<1>3. ASSUME NEW h \in Hostnames, NEW type \in QTypes, Reply(h, type)
      PROVE  DNSInv'
  BY <1>3, HandleAnswerInv, HandleFallbackInv, HandleFailureInv, HandleIgnoredInv DEF Reply
<1>4. ASSUME NEW h \in Hostnames, NEW type \in QTypes, LoseReply(h, type)
      PROVE  DNSInv'
  BY <1>4, WireInv DEF LoseReply, dnsTables, DNSInv, DNSTypeOK
<1>5. CASE SocketError
  BY <1>5, WireInv DEF SocketError, dnsTables, DNSInv, DNSTypeOK
<1>6. ASSUME NEW h \in Hostnames, SweepCache(h)
      PROVE  DNSInv'
  BY <1>6, WireInv DEF SweepCache, dnsTables, DNSInv, DNSTypeOK
<1>7. CASE UNCHANGED dnsVars
  BY <1>7, DNSQuietInv
<1>8. QED
  BY <1>1, <1>2, <1>3, <1>4, <1>5, <1>6, <1>7 DEF DNSNext

\* Everything the resolver keeps is consistent in every reachable state.
THEOREM DNSInvariant == DNSSpec => []DNSInv
BY InitInv, NextInv, PTL DEF DNSSpec

\* The two callback tables agree in every reachable state, so remove_callback
\* never looks for a callback in a list that does not hold it.
THEOREM DNSTablesAgree == DNSSpec => []TablesAgree
<1>1. DNSInv => TablesAgree
  BY DEF DNSInv
<1>2. QED
  BY <1>1, DNSInvariant, PTL

\* No name with callers is without a status, so an empty reply always reaches
\* the callers or leads to the second request.
THEOREM DNSStatusWhileWaiting == DNSSpec => []StatusWhileWaiting
<1>1. DNSInv => StatusWhileWaiting
  BY DEF DNSInv
<1>2. QED
  BY <1>1, DNSInvariant, PTL

\* No caller is forgotten.
THEOREM DNSWaitersRegistered == DNSSpec => []WaitersRegistered
<1>1. DNSInv => WaitersRegistered
  BY DEF DNSInv
<1>2. QED
  BY <1>1, DNSInvariant, PTL

\* Without losses a name with callers has the deciding request outstanding:
\* the safety half of "every caller is answered".
THEOREM DNSQueryOutstanding == DNSSpec => []QueryOutstanding
<1>1. DNSInv => QueryOutstanding
  BY DEF DNSInv
<1>2. QED
  BY <1>1, DNSInvariant, PTL

-----------------------------------------------------------------------------
(* The relay.                                                              *)

\* The types of what a proof looks at.
SockTypes ==
    /\ stage \in [Handlers -> Stages]
    /\ local_sock \in [Handlers -> Fds \cup {None}]
    /\ remote_socks \in [Handlers -> SUBSET Fds]
    /\ fdmap \in SUBSET Fds
    /\ fd_to_handlers \in [Fds -> Handlers \cup {None}]
    /\ timeout_cache \in SUBSET Handlers

\* The stages before the remote socket exists, and after it is closed.
Unconnected == {"NEW", "INIT", "ADDR", "UDP_ASSOC", "DNS", "DESTROYED"}

\* A handler connects at most once per callback: in these stages it has no
\* remote socket that a second one could overwrite.
NoRemoteYet == \A c \in Handlers : stage[c] \in Unconnected => remote_socks[c] = {}

\* A handler object that is not in use has no client socket either.
NewHoldsNothing == \A c \in Handlers : stage[c] = "NEW" => local_sock[c] = None

SockInv ==
    /\ SockTypes
    /\ FdTables
    /\ DestroyedHoldsNothing
    /\ NoRemoteYet
    /\ NewHoldsNothing

\* A callback the resolver can still run belongs to a handler that waits for it
\* or was destroyed, never to one that is connected; and the ones being run
\* are in no list any more.
CallbackStage ==
    /\ calling \in SUBSET Handlers
    /\ \A c \in Handlers, h \in Hostnames :
          c \in hostname_to_cb[h] => stage[c] \in {"DNS", "DESTROYED"} /\ c \notin calling
    /\ \A c \in calling : stage[c] \in {"DNS", "DESTROYED"}

\* The inductive invariant.
RelayInv == DNSInv /\ SockInv /\ CallbackStage /\ DnsStageIsWaiting

-----------------------------------------------------------------------------
(* What the building blocks preserve.                                      *)

\* destroy() of any set of handlers, whatever stage its caller leaves them in.
LEMMA ReleaseSocketsInv ==
    ASSUME SockInv, NEW S \in SUBSET Handlers, NEW st \in [Handlers -> Stages],
           ReleaseSockets(S, st),
           \A c \in Handlers : c \in S \/ st[c] = stage[c]
    PROVE  SockInv'
<1> USE RelayAssumption DEF SockInv, ReleaseSockets, remove_handler, FdsOf
<1>1. SockTypes'
  BY DEF SockTypes
<1>2. FdTables'
  BY DEF SockTypes, FdTables, Handlers
<1>3. DestroyedHoldsNothing'
  BY DEF SockTypes, DestroyedHoldsNothing
<1>4. NoRemoteYet' /\ NewHoldsNothing'
  BY DEF SockTypes, NoRemoteYet, NewHoldsNothing
<1>5. QED
  BY <1>1, <1>2, <1>3, <1>4

\* A change of stage that keeps the sockets.
LEMMA StageInv ==
    ASSUME SockInv, NEW c \in Handlers, NEW s \in Stages \ {"NEW", "DESTROYED"},
           s \in Unconnected => remote_socks[c] = {},
           stage' = Stage({c}, s),
           timeout_cache' \in {timeout_cache, timeout_cache \cup {c}},
           UNCHANGED <<local_sock, remote_socks, fdmap, fd_to_handlers>>
    PROVE  SockInv'
<1> USE DEF SockInv, Stage, FdsOf
<1>1. SockTypes'
  BY DEF SockTypes
<1>2. FdTables'
  BY DEF FdTables
<1>3. DestroyedHoldsNothing'
  BY DEF SockTypes, DestroyedHoldsNothing
<1>4. NoRemoteYet' /\ NewHoldsNothing'
  BY DEF SockTypes, NoRemoteYet, NewHoldsNothing
<1>5. QED
  BY <1>1, <1>2, <1>3, <1>4

\* New remote sockets of a handler without any.
LEMMA OpenRemoteInv ==
    ASSUME SockInv, NEW c \in Handlers, stage[c] \in Unconnected \/ remote_socks[c] = {},
           OpenRemote(c)
    PROVE  SockInv'
<1> PICK new \in SUBSET FreeFds :
        /\ stage' = Stage({c}, "CONNECTING")
        /\ remote_socks' = [remote_socks EXCEPT ![c] = new]
        /\ fdmap' = fdmap \cup new
        /\ fd_to_handlers' = [fd \in Fds |-> IF fd \in new THEN c ELSE fd_to_handlers[fd]]
        /\ UNCHANGED <<local_sock, timeout_cache>>
  BY DEF OpenRemote
<1>0. remote_socks[c] = {}
  BY DEF SockInv, NoRemoteYet
<1> USE <1>0, RelayAssumption DEF SockInv, Stage, FdsOf
<1>1. SockTypes'
  BY DEF SockTypes, Stages, FreeFds
<1>2. FdTables'
  BY DEF SockTypes, FdTables, FreeFds, Handlers
<1>3. DestroyedHoldsNothing'
  BY DEF SockTypes, DestroyedHoldsNothing
<1>4. NoRemoteYet' /\ NewHoldsNothing'
  BY DEF SockTypes, NoRemoteYet, NewHoldsNothing, Unconnected
<1>5. QED
  BY <1>1, <1>2, <1>3, <1>4

\* destroy() in full; `calling' may lose handlers of S only.
LEMMA ReleaseInv ==
    ASSUME RelayInv, NEW S \in SUBSET Handlers, NEW st \in [Handlers -> Stages],
           Release(S, st),
           \A c \in Handlers : c \in S \/ st[c] = stage[c],
           \A c \in S : \/ st[c] = "DESTROYED"
                        \/ stage[c] \notin {"DNS", "DESTROYED"} /\ st[c] # "DNS",
           calling' \subseteq calling, calling \ calling' \subseteq S
    PROVE  RelayInv'
<1>1. DNSInv'
  BY RemoveCallbacksInv DEF RelayInv, Release, Handlers
<1>2. SockInv'
  BY ReleaseSocketsInv DEF RelayInv, Release
<1> USE DEF RelayInv, Release, ReleaseSockets, RemoveCallbacks, Handlers, SockInv, SockTypes,
            DNSInv, DNSTypeOK, CallbackStage
<1>3. CallbackStage'
  OBVIOUS
<1>4. DnsStageIsWaiting'
  BY DEF DnsStageIsWaiting
<1>5. QED
  BY <1>1, <1>2, <1>3, <1>4

\* A handler that no callback list knows changes its stage or opens its remote
\* socket.
LEMMA LocalStepInv ==
    ASSUME RelayInv, SockInv', NEW c \in Handlers, NEW s \in Stages,
           stage' = Stage({c}, s), UNCHANGED dnsVars,
           \/ s = stage[c] /\ UNCHANGED calling
           \/ s # "DNS" /\ stage[c] \notin {"DNS", "DESTROYED"} /\ UNCHANGED calling
           \/ s # "DNS" /\ c \in calling /\ calling' = calling \ {c}
    PROVE  RelayInv'
<1>1. DNSInv'
  BY DNSQuietInv DEF RelayInv
<1> USE DEF RelayInv, Stage, Handlers, SockInv, SockTypes, DNSInv, DNSTypeOK, CallbackStage,
            dnsVars
<1>2. CallbackStage'
  OBVIOUS
<1>3. DnsStageIsWaiting'
  BY DEF DnsStageIsWaiting, WaitersRegistered
<1>4. QED
  BY <1>1, <1>2, <1>3

\* A handler that leaves destroy() in stage s.
LEMMA ReleaseOneInv ==
    ASSUME RelayInv, NEW c \in Handlers, NEW s \in Stages \ {"DNS"},
           Release({c}, Stage({c}, s)),
           s = "DESTROYED" \/ stage[c] \notin {"DNS", "DESTROYED"},
           \/ UNCHANGED calling
           \/ calling' = calling \ {c}
    PROVE  RelayInv'
<1>1. Stage({c}, s) \in [Handlers -> Stages]
  BY DEF Stage, RelayInv, SockInv, SockTypes
<1>2. \A d \in Handlers : d \in {c} \/ Stage({c}, s)[d] = stage[d]
  BY DEF Stage
<1>3. \A d \in {c} : Stage({c}, s)[d] = s
  BY DEF Stage
<1>4. calling' \subseteq calling /\ calling \ calling' \subseteq {c}
  OBVIOUS
<1>5. QED
  BY <1>1, <1>2, <1>3, <1>4, ReleaseInv

\* _handle_dns_resolved with an address, called by resolve() or by the resolver.
LEMMA ConnectInv ==
    ASSUME RelayInv, NEW c \in Handlers, Connect(c),
           \/ stage[c] \in {"INIT", "ADDR"} /\ UNCHANGED calling
           \/ c \in calling /\ calling' = calling \ {c}
    PROVE  RelayInv'
<1>0. /\ stage[c] \in Unconnected
      /\ "CONNECTING" \in Stages \ {"DNS", "NEW", "DESTROYED"}
      /\ "CONNECTING" \notin Unconnected
      /\ "DESTROYED" \in Stages \ {"DNS"}
  BY DEF RelayInv, CallbackStage, Unconnected, Stages
<1>1. CASE OpenRemote(c) /\ UNCHANGED dnsVars
  <2>1. SockInv'
    BY <1>0, <1>1, OpenRemoteInv DEF RelayInv
  <2>2. stage' = Stage({c}, "CONNECTING")
    BY <1>1 DEF OpenRemote
  <2>3. QED
    BY <1>0, <1>1, <2>1, <2>2, LocalStepInv
<1>2. CASE /\ stage' = Stage({c}, "CONNECTING")
           /\ UNCHANGED <<local_sock, remote_socks, fdmap, fd_to_handlers, timeout_cache,
                          server_connections, ended, dnsVars>>
  <2>1. SockInv'
    BY <1>0, <1>2, StageInv DEF RelayInv
  <2>2. QED
    BY <1>0, <1>2, <2>1, LocalStepInv
<1>3. CASE Release({c}, Stage({c}, "DESTROYED"))
  BY <1>0, <1>3, ReleaseOneInv
<1>4. QED
  BY <1>1, <1>2, <1>3 DEF Connect

\* Steps that leave the tables, the sockets and the callbacks alone.
LEMMA QuietInv ==
    ASSUME RelayInv, UNCHANGED <<dnsVars, sockVars, calling>>
    PROVE  RelayInv'
<1>1. DNSInv'
  BY DNSQuietInv DEF RelayInv
<1>2. SockInv'
  BY DEF RelayInv, SockInv, SockTypes, FdTables, DestroyedHoldsNothing, NoRemoteYet,
         NewHoldsNothing, FdsOf, sockVars
<1>3. CallbackStage' /\ DnsStageIsWaiting'
  BY DEF RelayInv, CallbackStage, DnsStageIsWaiting, sockVars, dnsVars
<1>4. QED
  BY <1>1, <1>2, <1>3 DEF RelayInv

\* A step of a handler that keeps its sockets, in a stage that is its own or
\* that no callback is waited for in.
LEMMA AdvanceInv ==
    ASSUME RelayInv, NEW c \in Handlers, NEW s \in Stages \ {"NEW", "DESTROYED"},
           NEW written \in BOOLEAN, Advance(c, s, written), UNCHANGED calling,
           \/ s = stage[c]
           \/ s # "DNS" /\ stage[c] \notin {"DNS", "DESTROYED"},
           s \in Unconnected => stage[c] \in Unconnected
    PROVE  RelayInv'
<1>1. s \in Unconnected => remote_socks[c] = {}
  BY DEF RelayInv, SockInv, NoRemoteYet
<1>2. SockInv'
  BY <1>1, StageInv DEF RelayInv, Advance, update_activity
<1>3. QED
  BY <1>2, LocalStepInv DEF Advance

-----------------------------------------------------------------------------
(* The events.                                                             *)

\* destroy() of a handler.
LEMMA DestroyInv ==
    ASSUME RelayInv, NEW c \in Handlers, UNCHANGED calling, Destroy(c)
    PROVE  RelayInv'
<1> "DESTROYED" \in Stages \ {"DNS"}
  BY DEF Stages
<1>1. CASE UNCHANGED <<sockVars, dnsVars>>
  BY <1>1, QuietInv
<1>2. CASE Release({c}, Stage({c}, "DESTROYED"))
  BY <1>2, ReleaseOneInv
<1>3. QED
  BY <1>1, <1>2 DEF Destroy

\* The destination's name has to be resolved.
LEMMA HandleAddrResolveInv ==
    ASSUME RelayInv, NEW c \in Handlers, NEW h \in Hostnames, stage[c] \in {"INIT", "ADDR"},
           HandleAddrResolve(c, h), UNCHANGED calling
    PROVE  RelayInv'
<1>0. /\ \A g \in Hostnames : c \notin hostname_to_cb[g]
      /\ c \notin calling
      /\ c \in Callbacks
  BY DEF RelayInv, CallbackStage, Handlers
<1>1. ASSUME NEW sent \in BOOLEAN, resolve(h, c, sent)
      PROVE  DNSInv'
  BY <1>0, <1>1, ResolveFirstInv, ResolveNextInv DEF RelayInv, resolve
<1>2. CASE /\ resolve(h, c, TRUE)
           /\ stage' = Stage({c}, "DNS")
           /\ IF IsLocal THEN update_activity(c) ELSE UNCHANGED timeout_cache
           /\ UNCHANGED <<local_sock, remote_socks, fdmap, fd_to_handlers,
                          server_connections, ended>>
  <2>1. SockInv'
    BY <1>2, StageInv
    DEF RelayInv, SockInv, NoRemoteYet, Unconnected, Stages, update_activity
  <2>2. /\ stage' = Stage({c}, "DNS")
        /\ hostname_to_cb' = [hostname_to_cb EXCEPT ![h] = @ \cup {c}]
        /\ waiting' = waiting \cup {c}
    BY <1>2 DEF resolve, ResolveFirst, ResolveNext, RelayInv, DNSInv, DNSTypeOK
  <2>3. CallbackStage'
    BY <1>0, <2>2 DEF RelayInv, CallbackStage, Stage, DNSInv, DNSTypeOK, Handlers
  <2>4. DnsStageIsWaiting'
    BY <1>0, <2>2 DEF RelayInv, DnsStageIsWaiting, Stage, DNSInv, DNSTypeOK, Handlers
  <2>5. QED
    BY <1>1, <1>2, <2>1, <2>3, <2>4 DEF RelayInv
<1>3. CASE resolve(h, c, FALSE) /\ ReleaseSockets({c}, Stage({c}, "DESTROYED"))
  <2>1. SockInv'
    <3>1. Stage({c}, "DESTROYED") \in [Handlers -> Stages]
      BY DEF Stage, RelayInv, SockInv, SockTypes, Stages
    <3>2. \A d \in Handlers : d \in {c} \/ Stage({c}, "DESTROYED")[d] = stage[d]
      BY DEF Stage
    <3>3. QED
      BY <1>3, <3>1, <3>2, ReleaseSocketsInv DEF RelayInv
  <2>2. /\ stage' = Stage({c}, "DESTROYED")
        /\ hostname_to_cb' \in {hostname_to_cb, [hostname_to_cb EXCEPT ![h] = @ \cup {c}]}
        /\ waiting' = waiting
    BY <1>3 DEF resolve, ResolveFirst, ResolveNext, ReleaseSockets
  <2>3. CallbackStage'
    BY <1>0, <2>2 DEF RelayInv, CallbackStage, Stage, DNSInv, DNSTypeOK, Handlers
  <2>4. DnsStageIsWaiting'
    BY <1>0, <2>2 DEF RelayInv, DnsStageIsWaiting, Stage, DNSInv, DNSTypeOK, Handlers
  <2>5. QED
    BY <1>1, <1>3, <2>1, <2>3, <2>4 DEF RelayInv
<1>4. QED
  BY <1>2, <1>3 DEF HandleAddrResolve

\* The client's data.
LEMMA OnLocalReadInv ==
    ASSUME RelayInv, NEW c \in Handlers, stage[c] \notin {"NEW", "DESTROYED"},
           OnLocalRead(c), UNCHANGED calling
    PROVE  RelayInv'
<1>0. /\ {"ADDR", "UDP_ASSOC", "STREAM"} \subseteq Stages \ {"NEW", "DESTROYED", "DNS"}
      /\ stage[c] \in Stages
      /\ {"INIT", "ADDR"} \subseteq Unconnected
  BY DEF RelayInv, SockInv, SockTypes, Stages, Unconnected
<1>1. CASE NoEffect
  BY <1>1, QuietInv DEF NoEffect
<1>2. CASE Advance(c, stage[c], TRUE)
  BY <1>0, <1>2, AdvanceInv
<1>3. CASE stage[c] = "STREAM" /\ Advance(c, "STREAM", TRUE)
  BY <1>0, <1>3, AdvanceInv
<1>4. CASE stage[c] = "INIT" /\ HandleStageInit(c)
  BY <1>0, <1>4, AdvanceInv, ReleaseOneInv DEF HandleStageInit, DestroyThenStage
<1>5. CASE stage[c] = AddrStage /\ HandleStageAddr(c)
  <2>1. stage[c] \in {"INIT", "ADDR"}
    BY <1>5 DEF AddrStage
  <2>2. CASE HandleUdpAssociate(c)
    BY <1>0, <2>1, <2>2, AdvanceInv, ReleaseOneInv DEF HandleUdpAssociate, DestroyThenStage
  <2>3. CASE Connect(c)
    BY <2>1, <2>3, ConnectInv
  <2>4. CASE \E h \in Hostnames : HandleAddrResolve(c, h)
    BY <2>1, <2>4, HandleAddrResolveInv
  <2>5. QED
    BY <1>5, <2>2, <2>3, <2>4 DEF HandleStageAddr, HandleAddrNow
<1>6. CASE stage[c] = "CONNECTING" /\ HandleStageConnecting(c)
  <2>1. CASE NoEffect
    BY <2>1, QuietInv DEF NoEffect
  <2>2. CASE remote_socks[c] = {} /\ OpenRemote(c) /\ UNCHANGED dnsVars
    <3>1. SockInv'
      BY <2>2, OpenRemoteInv DEF RelayInv
    <3>2. stage' = Stage({c}, "CONNECTING")
      BY <2>2 DEF OpenRemote
    <3>3. QED
      BY <1>6, <2>2, <3>1, <3>2, LocalStepInv DEF Stages
  <2>3. QED
    BY <1>6, <2>1, <2>2 DEF HandleStageConnecting
<1>7. QED
  BY <1>1, <1>2, <1>3, <1>4, <1>5, <1>6 DEF OnLocalRead

\* handle_event of the handler that has the descriptor.
LEMMA HandleEventInv ==
    ASSUME RelayInv, NEW c \in Handlers, NEW fd \in Fds, NEW ev, HandleEvent(c, fd, ev),
           UNCHANGED calling
    PROVE  RelayInv'
<1>1. CASE stage[c] = "DESTROYED"
  BY <1>1, QuietInv DEF HandleEvent, NoEffect
<1>2. CASE stage[c] # "DESTROYED"
  <2>0. /\ stage[c] \in Stages
        /\ "STREAM" \in Stages \ {"NEW", "DESTROYED", "DNS"} /\ "STREAM" \notin Unconnected
        /\ local_sock[c] # None => stage[c] # "NEW"
        /\ remote_socks[c] # {} => stage[c] \notin {"NEW", "DNS"}
        /\ fd # None
    BY RelayAssumption
    DEF RelayInv, SockInv, SockTypes, NewHoldsNothing, NoRemoteYet, Unconnected, Stages
  <2>1. CASE Destroy(c)
    BY <2>1, DestroyInv
  <2>2. CASE OnRemoteRead(c)
    BY <1>2, <2>0, <2>2, AdvanceInv, QuietInv DEF OnRemoteRead, NoEffect
  <2>3. CASE fd \in remote_socks[c] /\ OnRemoteWrite(c)
    BY <1>2, <2>0, <2>3, AdvanceInv DEF OnRemoteWrite
  <2>4. CASE fd = local_sock[c] /\ OnLocalRead(c)
    BY <1>2, <2>0, <2>4, OnLocalReadInv
  <2>5. CASE fd = local_sock[c] /\ OnLocalWrite(c)
    BY <1>2, <2>0, <2>5, AdvanceInv DEF OnLocalWrite
  <2>6. QED
    BY <1>2, <2>1, <2>2, <2>3, <2>4, <2>5 DEF HandleEvent
<1>3. QED
  BY <1>1, <1>2

-----------------------------------------------------------------------------
(* The event loop.                                                         *)

\* A new connection.
LEMMA AcceptInv ==
    ASSUME RelayInv, NEW e, Accept(e)
    PROVE  RelayInv'
<1>1. CASE UNCHANGED sockVars
  BY <1>1, QuietInv DEF Accept
<1>2. ASSUME NEW c \in Handlers, NEW fd \in FreeFds,
             stage[c] = "NEW",
             stage' = [stage EXCEPT ![c] = "INIT"],
             local_sock' = [local_sock EXCEPT ![c] = fd],
             fdmap' = fdmap \cup {fd},
             fd_to_handlers' = [fd_to_handlers EXCEPT ![fd] = c],
             timeout_cache' = timeout_cache \cup {c},
             remote_socks' = remote_socks, UNCHANGED <<dnsVars, calling>>
      PROVE  RelayInv'
  <2>1. stage' = Stage({c}, "INIT") /\ "INIT" \in Stages
    BY <1>2 DEF RelayInv, SockInv, SockTypes, Stage, Stages
  <2>2. SockInv'
    <3> USE <1>2, RelayAssumption DEF RelayInv, SockInv, FdsOf, FreeFds
    <3>1. SockTypes'
      BY DEF SockTypes, Stages
    <3>2. FdTables'
      BY DEF SockTypes, FdTables, Handlers, NewHoldsNothing
    <3>3. DestroyedHoldsNothing'
      BY DEF SockTypes, DestroyedHoldsNothing
    <3>4. NoRemoteYet' /\ NewHoldsNothing'
      BY DEF SockTypes, NoRemoteYet, NewHoldsNothing, Unconnected
    <3>5. QED
      BY <3>1, <3>2, <3>3, <3>4
  <2>3. QED
    BY <1>2, <2>1, <2>2, LocalStepInv
<1>3. QED
  BY <1>1, <1>2 DEF Accept, update_activity

\* A datagram of the resolver: the callbacks of a name leave their list.
LEMMA DnsEventInv ==
    ASSUME RelayInv, NEW e, DnsEvent(e)
    PROVE  RelayInv'
<1> PICK h \in Hostnames, type \in QTypes, more \in BOOLEAN :
        \/ HandleAnswer(h, type, more) /\ calling' = hostname_to_cb[h]
        \/ HandleFailure(h, type, more) /\ calling' = hostname_to_cb[h]
        \/ /\ \/ HandleIgnored(h, type, more)
              \/ \E sent \in BOOLEAN : HandleFallback(h, type, more, sent)
           /\ UNCHANGED calling
  BY DEF DnsEvent
<1>0. calling = {} /\ UNCHANGED sockVars
  BY DEF DnsEvent, Take, Idle
<1>1. DNSInv'
  BY HandleAnswerInv, HandleFailureInv, HandleIgnoredInv, HandleFallbackInv DEF RelayInv
<1>2. SockInv'
  BY <1>0 DEF RelayInv, SockInv, SockTypes, FdTables, DestroyedHoldsNothing, NoRemoteYet,
         NewHoldsNothing, FdsOf, sockVars
<1>3. CASE calling' = hostname_to_cb[h] /\ CallCallback(h)
  <2>1. CallbackStage'
    BY <1>0, <1>3 DEF RelayInv, CallbackStage, CallCallback, DNSInv, DNSTypeOK, TablesAgree,
         Handlers, sockVars
  <2>2. DnsStageIsWaiting'
    BY <1>0, <1>3 DEF RelayInv, DnsStageIsWaiting, CallCallback, Handlers, sockVars
  <2>3. QED
    BY <1>1, <1>2, <2>1, <2>2 DEF RelayInv
<1>4. CASE UNCHANGED <<hostname_to_cb, waiting, calling>>
  BY <1>0, <1>1, <1>2, <1>4 DEF RelayInv, CallbackStage, DnsStageIsWaiting, sockVars
<1>5. QED
  BY <1>3, <1>4 DEF HandleAnswer, HandleFailure, HandleIgnored, HandleFallback, dnsTables

\* The sweep, and the closing of the port.
LEMMA DestroyAllInv ==
    ASSUME RelayInv, NEW S \in SUBSET Handlers, DestroyAll(S), UNCHANGED calling
    PROVE  RelayInv'
<1> DEFINE live == {c \in S : stage[c] # "DESTROYED"}
           st == Stage(S, "DESTROYED")
<1>1. st \in [Handlers -> Stages] /\ live \in SUBSET Handlers
  BY DEF Stage, RelayInv, SockInv, SockTypes, Stages
<1>2. \A c \in Handlers : c \in live \/ st[c] = stage[c]
  BY DEF Stage
<1>3. \A c \in live : st[c] = "DESTROYED"
  BY DEF Stage
<1>4. Release(live, st)
  BY DEF DestroyAll
<1> HIDE DEF live, st
<1>5. QED
  BY <1>1, <1>2, <1>3, <1>4, ReleaseInv

\* Steps of the wire and the cache.
LEMMA ResolverInv ==
    ASSUME RelayInv, UNCHANGED <<sockVars, calling, dnsTables, waiting>>,
           cache' \subseteq cache, queries' \subseteq queries, faulty \subseteq faulty',
           faulty' \subseteq Hostnames, \A q \in queries \ queries' : q[1] \in faulty'
    PROVE  RelayInv'
<1>1. DNSInv'
  BY WireInv DEF RelayInv
<1>2. SockInv'
  BY DEF RelayInv, SockInv, SockTypes, FdTables, DestroyedHoldsNothing, NoRemoteYet,
         NewHoldsNothing, FdsOf, sockVars
<1>3. CallbackStage' /\ DnsStageIsWaiting'
  BY DEF RelayInv, CallbackStage, DnsStageIsWaiting, sockVars, dnsTables
<1>4. QED
  BY <1>1, <1>2, <1>3 DEF RelayInv

LEMMA RelayInitInv == Init => RelayInv
<1> SUFFICES ASSUME Init PROVE RelayInv
  OBVIOUS
<1>1. DNSInv
  BY InitInv DEF Init
<1>2. SockInv
  BY RelayAssumption DEF Init, SockInv, SockTypes, FdTables, DestroyedHoldsNothing, NoRemoteYet,
         NewHoldsNothing, FdsOf, Stages, Handlers
<1>3. CallbackStage /\ DnsStageIsWaiting
  BY DEF Init, DNSInit, CallbackStage, DnsStageIsWaiting
<1>4. QED
  BY <1>1, <1>2, <1>3 DEF RelayInv

LEMMA RelayNextInv == RelayInv /\ [Next]_vars => RelayInv'
<1> SUFFICES ASSUME RelayInv, [Next]_vars
             PROVE  RelayInv'
  OBVIOUS
<1>1. CASE Poll
  BY <1>1, QuietInv DEF Poll
<1>2. ASSUME NEW e \in batch, DropEvent(e)
      PROVE  RelayInv'
  BY <1>2, QuietInv DEF DropEvent
<1>3. ASSUME NEW e \in batch, DispatchEvent(e)
      PROVE  RelayInv'
  <2>1. e[1] \in Fds /\ fd_to_handlers[e[1]] \in Handlers
    BY <1>3 DEF DispatchEvent, RelayInv, SockInv, SockTypes
  <2>2. QED
    BY <1>3, <2>1, HandleEventInv DEF DispatchEvent
<1>4. ASSUME NEW e \in batch, RemoteReadKillsLoop(e)
      PROVE  RelayInv'
  <2>1. fd_to_handlers[e[1]] \in Handlers
    BY <1>4 DEF RemoteReadKillsLoop, RelayInv, SockInv, SockTypes
  <2>2. QED
    BY <1>4, <2>1, DestroyInv DEF RemoteReadKillsLoop
<1>5. ASSUME NEW e \in batch, Accept(e) \/ DnsEvent(e)
      PROVE  RelayInv'
  BY <1>5, AcceptInv, DnsEventInv
<1>6. ASSUME NEW e \in batch, DnsNoise(e)
      PROVE  RelayInv'
  BY <1>6, ResolverInv, QuietInv
     DEF DnsNoise, SocketError, dnsTables, RelayInv, DNSInv, DNSTypeOK
<1>7. ASSUME NEW c \in Handlers, RunCallback(c)
      PROVE  RelayInv'
  <2>1. CASE Connect(c)
    BY <1>7, <2>1, ConnectInv DEF RunCallback
  <2>2. CASE Destroy(c)
    <3>1. CASE stage[c] = "DESTROYED"
      <4>1. UNCHANGED <<sockVars, dnsVars>> /\ calling' = calling \ {c}
        BY <1>7, <2>2, <3>1 DEF RunCallback, Destroy
      <4>2. SockInv'
        BY <4>1 DEF RelayInv, SockInv, SockTypes, FdTables, DestroyedHoldsNothing,
               NoRemoteYet, NewHoldsNothing, FdsOf, sockVars
      <4>3. DNSInv'
        BY <4>1, DNSQuietInv DEF RelayInv
      <4>4. CallbackStage' /\ DnsStageIsWaiting'
        BY <3>1, <4>1 DEF RelayInv, CallbackStage, DnsStageIsWaiting, sockVars, dnsVars
      <4>5. QED
        BY <4>2, <4>3, <4>4 DEF RelayInv
    <3>2. CASE Release({c}, Stage({c}, "DESTROYED"))
      BY <1>7, <3>2, ReleaseOneInv DEF RunCallback, Stages
    <3>3. QED
      BY <2>2, <3>1, <3>2 DEF Destroy
  <2>3. QED
    BY <1>7, <2>1, <2>2 DEF RunCallback
<1>8. ASSUME NEW idle \in SUBSET Handlers, HandlePeriodic(idle)
      PROVE  RelayInv'
  BY <1>8, DestroyAllInv DEF HandlePeriodic, Owners
<1>9. CASE CloseNextTick
  BY <1>9, QuietInv DEF CloseNextTick
<1>10. CASE CloseNow
  BY <1>10, DestroyAllInv DEF CloseNow, Owners
<1>11. CASE Resolver
  <2>1. faulty \subseteq Hostnames /\ UNCHANGED <<sockVars, calling>>
    BY <1>11 DEF Resolver, RelayInv, DNSInv, DNSTypeOK
  <2>2. ASSUME NEW h \in Hostnames, SweepCache(h)
        PROVE  RelayInv'
    BY <2>1, <2>2, ResolverInv DEF SweepCache, dnsTables
  <2>3. ASSUME NEW h \in Hostnames, NEW type \in QTypes, LoseReply(h, type)
        PROVE  RelayInv'
    BY <2>1, <2>3, ResolverInv DEF LoseReply, dnsTables
  <2>4. QED
    BY <1>11, <2>2, <2>3 DEF Resolver
<1>12. CASE UNCHANGED vars
  BY <1>12, QuietInv DEF vars
<1>13. QED
  BY <1>1, <1>2, <1>3, <1>4, <1>5, <1>6, <1>7, <1>8, <1>9, <1>10, <1>11, <1>12
  DEF Next, Dispatch

-----------------------------------------------------------------------------

\* The relay composed with the resolver keeps its inductive invariant, for any
\* number of connections, descriptors and names.
THEOREM RelayInvariant == Spec => []RelayInv
BY RelayInitInv, RelayNextInv, PTL DEF Spec

\* The event loop, the relay and the handlers agree on the open descriptors and
\* on their owners, through every reuse of a number and every revival of a
\* destroyed handler by a late DNS answer.
THEOREM RelayFdTables == Spec => []FdTables
<1>1. RelayInv => FdTables
  BY DEF RelayInv, SockInv
<1>2. QED
  BY <1>1, RelayInvariant, PTL

\* A destroyed handler holds no descriptor and is not in the timeout cache.
THEOREM RelayDestroyedHoldsNothing == Spec => []DestroyedHoldsNothing
<1>1. RelayInv => DestroyedHoldsNothing
  BY DEF RelayInv, SockInv
<1>2. QED
  BY <1>1, RelayInvariant, PTL

\* A handler is in STAGE_DNS exactly while the resolver owes it a call, so no
\* handler is left behind in that stage and none is called in another one it
\* did not reach by destroy().
THEOREM RelayDnsStageIsWaiting == Spec => []DnsStageIsWaiting
<1>1. RelayInv => DnsStageIsWaiting
  BY DEF RelayInv
<1>2. QED
  BY <1>1, RelayInvariant, PTL
-----------------------------------------------------------------------------
(* Names that are not shared.  A name then has one caller at most, the     *)
(* caller has a reverse entry, and destroy() always withdraws its callback: *)
(* no destroyed handler is called back.                                    *)

\* The connections with an open client socket.
Live == {c \in Handlers : local_sock[c] # None}

\* Every callback the resolver can still run is that of a waiting handler, and
\* remove_callback can find it.
CallbackAlive ==
    /\ \A h \in Hostnames : \A c \in hostname_to_cb[h] :
          stage[c] = "DNS" /\ cb_to_hostname[c] = h
    /\ \A c \in calling : stage[c] = "DNS"

\* The timeout cache knows exactly the connections that have a client socket;
\* whoever has a remote socket or waits for the resolver has one.
LiveTimed ==
    /\ timeout_cache = Live
    /\ \A c \in Handlers : remote_socks[c] # {} => c \in Live
    /\ \A c \in Handlers : stage[c] = "DNS" => c \in Live

\* What destroy() has been run on is not live, nor will it be.
EndedOnce ==
    \A c \in Handlers : /\ ended[c] \in {0, 1}
                        /\ c \in Live \/ stage[c] = "NEW" => ended[c] = 0

LiveCounted == IsFiniteSet(Live) /\ server_connections = Cardinality(Live)

\* The inductive invariant, on top of RelayInv.
AloneInv == CallbackAlive /\ LiveTimed /\ EndedOnce /\ LiveCounted

\* What a step never does to a destroyed handler.
StaysDestroyed == \A c \in Handlers : stage[c] = "DESTROYED" => stage'[c] = "DESTROYED"

\* destroy() of live handlers, none of which is about to be called back.
LEMMA ReleaseAlone ==
    ASSUME RelayInv, AloneInv, NEW S \in SUBSET Live, NEW st \in [Handlers -> Stages],
           ReleaseSockets(S, st),
           \A c \in Handlers : c \in S \/ st[c] = stage[c],
           \A c \in S : st[c] \notin {"DNS", "NEW"},
           \/ RemoveCallbacks(S)
           \/ /\ UNCHANGED <<hostname_to_cb, cb_to_hostname>>
              /\ \A c \in S, h \in Hostnames : c \notin hostname_to_cb[h],
           calling' \subseteq calling, calling' \cap S = {}
    PROVE  AloneInv' /\ StaysDestroyed
<1> USE DEF RelayInv, AloneInv, SockInv, SockTypes, ReleaseSockets, Live
<1>1. CallbackAlive'
  <2>1. \A h \in Hostnames : \A c \in hostname_to_cb'[h] :
           c \in hostname_to_cb[h] /\ c \notin S /\ cb_to_hostname'[c] = cb_to_hostname[c]
    <3>1. CASE RemoveCallbacks(S)
      BY <3>1, ConstantsAssumption
         DEF CallbackAlive, RemoveCallbacks, DNSInv, DNSTypeOK, Handlers
    <3>2. QED
      BY <3>1
  <2>2. \A c \in calling' : c \in calling /\ c \notin S
    OBVIOUS
  <2>3. QED
    BY <2>1, <2>2 DEF CallbackAlive, CallbackStage, DNSInv, DNSTypeOK, Handlers
<1>2. Live' = Live \ S
  OBVIOUS
<1>3. LiveTimed'
  BY <1>2 DEF LiveTimed, remove_handler
<1>4. EndedOnce'
  BY <1>2 DEF EndedOnce
<1>5. LiveCounted'
  <2> HIDE DEF Live
  <2>1. IsFiniteSet(Live) /\ IsFiniteSet(S) /\ Live \cap S = S
    BY FS_Subset DEF LiveCounted
  <2>2. /\ IsFiniteSet(Live \ S)
        /\ Cardinality(Live \ S) = Cardinality(Live) - Cardinality(S)
    BY <2>1, FS_Difference
  <2>3. Cardinality(Live) \in Nat /\ Cardinality(S) \in Nat
    BY <2>1, FS_CardinalityType
  <2>4. server_connections' = server_connections + (-Cardinality(S))
    BY DEF add_connection
  <2>5. QED
    BY <1>2, <2>2, <2>3, <2>4 DEF LiveCounted
<1>6. StaysDestroyed
  BY RelayAssumption DEF StaysDestroyed, DestroyedHoldsNothing, FdsOf
<1>7. QED
  BY <1>1, <1>3, <1>4, <1>5, <1>6

\* A live handler changes its stage, its remote sockets or its place in the
\* timeout cache; `calling' may lose it.
LEMMA KeepAlone ==
    ASSUME RelayInv, AloneInv, NEW c \in Live, NEW s \in Stages \ {"NEW"},
           stage' = Stage({c}, s),
           \/ s = stage[c] /\ UNCHANGED calling
           \/ stage[c] # "DNS" /\ s # "DNS" /\ UNCHANGED calling
           \/ c \in calling /\ s # "DNS" /\ calling' = calling \ {c},
           timeout_cache' \in {timeout_cache, timeout_cache \cup {c}},
           \A d \in Handlers : d = c \/ remote_socks'[d] = remote_socks[d],
           UNCHANGED <<local_sock, server_connections, ended, hostname_to_cb, cb_to_hostname>>
    PROVE  AloneInv' /\ StaysDestroyed
<1> USE DEF RelayInv, AloneInv, SockInv, SockTypes, Live, Stage
<1>1. CallbackAlive'
  BY DEF CallbackAlive, CallbackStage, DNSInv, DNSTypeOK, Handlers
<1>2. Live' = Live
  OBVIOUS
<1>3. LiveTimed'
  BY <1>2 DEF LiveTimed
<1>4. EndedOnce'
  BY <1>2 DEF EndedOnce
<1>5. LiveCounted'
  BY <1>2 DEF LiveCounted
<1>6. StaysDestroyed
  BY RelayAssumption DEF StaysDestroyed, DestroyedHoldsNothing, FdsOf
<1>7. QED
  BY <1>1, <1>3, <1>4, <1>5, <1>6

\* Steps that leave the sockets and the callback tables alone.
LEMMA QuietAlone ==
    ASSUME RelayInv, AloneInv,
           UNCHANGED <<sockVars, hostname_to_cb, cb_to_hostname, calling>>
    PROVE  AloneInv' /\ StaysDestroyed
<1> USE DEF RelayInv, AloneInv, Live, sockVars
<1>1. CallbackAlive' /\ StaysDestroyed
  BY DEF CallbackAlive, StaysDestroyed
<1>2. LiveTimed' /\ EndedOnce' /\ LiveCounted'
  BY DEF LiveTimed, EndedOnce, LiveCounted
<1>3. QED
  BY <1>1, <1>2

\* destroy() of one live handler.
LEMMA ReleaseOneAlone ==
    ASSUME RelayInv, AloneInv, NEW c \in Live, NEW s \in Stages \ {"DNS", "NEW"},
           Release({c}, Stage({c}, s)),
           calling' \subseteq calling, c \notin calling'
    PROVE  AloneInv' /\ StaysDestroyed
<1>1. Stage({c}, s) \in [Handlers -> Stages] /\ {c} \in SUBSET Live
  BY DEF Stage, RelayInv, SockInv, SockTypes
<1>2. \A d \in Handlers : d \in {c} \/ Stage({c}, s)[d] = stage[d]
  BY DEF Stage
<1>3. \A d \in {c} : Stage({c}, s)[d] \notin {"DNS", "NEW"}
  BY DEF Stage, Live
<1>4. calling' \cap {c} = {}
  OBVIOUS
<1>5. ReleaseSockets({c}, Stage({c}, s)) /\ RemoveCallbacks({c})
  BY DEF Release
<1>6. QED
  BY <1>1, <1>2, <1>3, <1>4, <1>5, ReleaseAlone

\* New remote sockets of a live handler.
LEMMA OpenRemoteAlone ==
    ASSUME RelayInv, AloneInv, NEW c \in Live, OpenRemote(c), UNCHANGED dnsVars,
           \/ stage[c] # "DNS" /\ UNCHANGED calling
           \/ c \in calling /\ calling' = calling \ {c}
    PROVE  AloneInv' /\ StaysDestroyed
<1> PICK new \in SUBSET FreeFds :
        /\ stage' = Stage({c}, "CONNECTING")
        /\ remote_socks' = [remote_socks EXCEPT ![c] = new]
        /\ UNCHANGED <<local_sock, timeout_cache, server_connections, ended>>
  BY DEF OpenRemote
<1>1. "CONNECTING" \in Stages \ {"NEW"} /\ "CONNECTING" # "DNS"
  BY DEF Stages
<1>2. UNCHANGED <<hostname_to_cb, cb_to_hostname>>
  BY DEF dnsVars
<1>3. /\ \A d \in Handlers : d = c \/ remote_socks'[d] = remote_socks[d]
      /\ timeout_cache' \in {timeout_cache, timeout_cache \cup {c}}
  BY DEF RelayInv, SockInv, SockTypes
<1>4. \/ stage[c] # "DNS" /\ "CONNECTING" # "DNS" /\ UNCHANGED calling
      \/ c \in calling /\ "CONNECTING" # "DNS" /\ calling' = calling \ {c}
  BY <1>1
<1>5. QED
  BY <1>1, <1>2, <1>3, <1>4, KeepAlone

\* _handle_dns_resolved with an address.
LEMMA ConnectAlone ==
    ASSUME RelayInv, AloneInv, NEW c \in Live, Connect(c),
           \/ stage[c] # "DNS" /\ c \notin calling /\ UNCHANGED calling
           \/ c \in calling /\ calling' = calling \ {c}
    PROVE  AloneInv' /\ StaysDestroyed
<1>0. "CONNECTING" \in Stages \ {"NEW"} /\ "DESTROYED" \in Stages \ {"DNS", "NEW"}
  BY DEF Stages
<1>1. CASE OpenRemote(c) /\ UNCHANGED dnsVars
  BY <1>1, OpenRemoteAlone
<1>2. CASE /\ stage' = Stage({c}, "CONNECTING")
           /\ UNCHANGED <<local_sock, remote_socks, fdmap, fd_to_handlers, timeout_cache,
                          server_connections, ended, dnsVars>>
  BY <1>0, <1>2, KeepAlone DEF dnsVars
<1>3. CASE Release({c}, Stage({c}, "DESTROYED"))
  BY <1>0, <1>3, ReleaseOneAlone
<1>4. QED
  BY <1>1, <1>2, <1>3 DEF Connect

\* A live handler goes on with the sockets it has.
LEMMA AdvanceAlone ==
    ASSUME RelayInv, AloneInv, NEW c \in Live, NEW s \in Stages \ {"NEW"},
           NEW written \in BOOLEAN, Advance(c, s, written), UNCHANGED calling,
           s = stage[c] \/ (stage[c] # "DNS" /\ s # "DNS")
    PROVE  AloneInv' /\ StaysDestroyed
<1>1. timeout_cache' \in {timeout_cache, timeout_cache \cup {c}}
  BY DEF Advance, update_activity
<1>2. QED
  BY <1>1, KeepAlone DEF Advance, dnsVars

\* The destination's name has to be resolved, and nobody else asks for it.
LEMMA HandleAddrResolveAlone ==
    ASSUME RelayInv, AloneInv, NamesShared = FALSE, NEW c \in Live, NEW h \in Hostnames,
           stage[c] # "DNS", HandleAddrResolve(c, h), calling = {}, UNCHANGED calling
    PROVE  AloneInv' /\ StaysDestroyed
<1>0. \A g \in Hostnames : c \notin hostname_to_cb[g]
  BY DEF AloneInv, CallbackAlive
<1>1. hostname_to_cb[h] = {}
  BY DEF HandleAddrResolve
<1>2. CASE /\ resolve(h, c, TRUE)
           /\ stage' = Stage({c}, "DNS")
           /\ IF IsLocal THEN update_activity(c) ELSE UNCHANGED timeout_cache
           /\ UNCHANGED <<local_sock, remote_socks, fdmap, fd_to_handlers,
                          server_connections, ended>>
  <2> USE <1>2 DEF RelayInv, AloneInv, SockInv, SockTypes, Live, Stage
  <2>1. CallbackAlive'
    BY <1>0, <1>1 DEF CallbackAlive, resolve, ResolveFirst, ResolveNext, DNSInv, DNSTypeOK,
       Handlers
  <2>2. Live' = Live
    OBVIOUS
  <2>3. LiveTimed'
    BY <2>2 DEF LiveTimed, update_activity
  <2>4. EndedOnce' /\ LiveCounted'
    BY <2>2 DEF EndedOnce, LiveCounted
  <2>5. StaysDestroyed
    BY RelayAssumption DEF StaysDestroyed, DestroyedHoldsNothing, FdsOf
  <2>6. QED
    BY <2>1, <2>3, <2>4, <2>5
<1>3. CASE resolve(h, c, FALSE) /\ ReleaseSockets({c}, Stage({c}, "DESTROYED"))
  <2>1. Stage({c}, "DESTROYED") \in [Handlers -> Stages] /\ {c} \in SUBSET Live
    BY DEF Stage, RelayInv, SockInv, SockTypes, Stages
  <2>2. \A d \in Handlers : d \in {c} \/ Stage({c}, "DESTROYED")[d] = stage[d]
    BY DEF Stage
  <2>3. \A d \in {c} : Stage({c}, "DESTROYED")[d] \notin {"DNS", "NEW"}
    BY DEF Stage, Live
  <2>4. UNCHANGED <<hostname_to_cb, cb_to_hostname>>
    BY <1>1, <1>3 DEF resolve, ResolveFirst, ResolveNext
  <2>5. calling' \subseteq calling /\ calling' \cap {c} = {}
    OBVIOUS
  <2>6. QED
    <3>1. \A d \in {c}, g \in Hostnames : d \notin hostname_to_cb[g]
      BY <1>0
    <3>2. ReleaseSockets({c}, Stage({c}, "DESTROYED"))
      BY <1>3
    <3>3. QED
      BY <2>1, <2>2, <2>3, <2>4, <2>5, <3>1, <3>2, ReleaseAlone
<1>4. QED
  BY <1>2, <1>3 DEF HandleAddrResolve

\* handle_event of the handler that has the descriptor.
LEMMA HandleEventAlone ==
    ASSUME RelayInv, AloneInv, NamesShared = FALSE, NEW c \in Live, NEW fd \in Fds, NEW ev,
           HandleEvent(c, fd, ev), calling = {}, UNCHANGED calling
    PROVE  AloneInv' /\ StaysDestroyed
<1>0. /\ stage[c] \in Stages \ {"NEW", "DESTROYED"}
      /\ {"ADDR", "UDP_ASSOC", "STREAM", "CONNECTING", "DESTROYED"} \subseteq
             Stages \ {"NEW", "DNS"}
      /\ c \notin calling
  BY RelayAssumption
  DEF RelayInv, SockInv, SockTypes, NewHoldsNothing, DestroyedHoldsNothing, FdsOf, Live, Stages
<1>1. CASE Destroy(c)
  BY <1>0, <1>1, ReleaseOneAlone DEF Destroy
<1>2. CASE OnRemoteRead(c) \/ OnLocalWrite(c)
  <2>1. CASE NoEffect
    BY <2>1, QuietAlone DEF NoEffect, dnsVars
  <2>2. CASE \E written \in BOOLEAN : Advance(c, stage[c], written)
    <3>1. stage[c] \in Stages \ {"NEW"}
      BY <1>0
    <3>2. QED
      BY <2>2, <3>1, AdvanceAlone
  <2>3. QED
    BY <1>2, <2>1, <2>2 DEF OnRemoteRead, OnLocalWrite
<1>3. CASE fd \in remote_socks[c] /\ OnRemoteWrite(c)
  <2>1. stage[c] # "DNS"
    BY <1>3 DEF RelayInv, SockInv, NoRemoteYet, Unconnected, Live
  <2>2. QED
    BY <1>0, <1>3, <2>1, AdvanceAlone DEF OnRemoteWrite
<1>4. CASE OnLocalRead(c)
  <2>0. CASE NoEffect
    BY <2>0, QuietAlone DEF NoEffect, dnsVars
  <2>1. CASE Advance(c, stage[c], TRUE)
    <3>1. stage[c] \in Stages \ {"NEW"} /\ TRUE \in BOOLEAN
      BY <1>0
    <3>2. QED
      BY <2>1, <3>1, AdvanceAlone
  <2>2. CASE stage[c] = "INIT" /\ HandleStageInit(c)
    BY <1>0, <2>2, AdvanceAlone, ReleaseOneAlone DEF HandleStageInit, DestroyThenStage
  <2>3. CASE stage[c] = AddrStage /\ HandleStageAddr(c)
    <3>1. stage[c] # "DNS"
      BY <2>3 DEF AddrStage
    <3>2. CASE HandleUdpAssociate(c)
      BY <1>0, <3>1, <3>2, AdvanceAlone, ReleaseOneAlone
         DEF HandleUdpAssociate, DestroyThenStage
    <3>3. CASE Connect(c)
      BY <1>0, <3>1, <3>3, ConnectAlone
    <3>4. CASE \E h \in Hostnames : HandleAddrResolve(c, h)
      BY <3>1, <3>4, HandleAddrResolveAlone
    <3>5. QED
      BY <2>3, <3>2, <3>3, <3>4 DEF HandleStageAddr, HandleAddrNow
  <2>4. CASE stage[c] = "CONNECTING" /\ HandleStageConnecting(c)
    <3>1. CASE NoEffect
      BY <3>1, QuietAlone DEF NoEffect, dnsVars
    <3>2. CASE OpenRemote(c) /\ UNCHANGED dnsVars
      BY <2>4, <3>2, OpenRemoteAlone
    <3>3. QED
      BY <2>4, <3>1, <3>2 DEF HandleStageConnecting
  <2>5. QED
    BY <1>4, <2>0, <2>1, <2>2, <2>3, <2>4 DEF OnLocalRead
<1>5. QED
  BY <1>0, <1>1, <1>2, <1>3, <1>4 DEF HandleEvent

\* A new connection.
LEMMA AcceptAlone ==
    ASSUME RelayInv, AloneInv, NEW e, Accept(e)
    PROVE  AloneInv' /\ StaysDestroyed
<1>1. CASE UNCHANGED sockVars
  BY <1>1, QuietAlone DEF Accept, dnsVars
<1>2. ASSUME NEW c \in Handlers, NEW fd \in FreeFds,
             stage[c] = "NEW",
             stage' = [stage EXCEPT ![c] = "INIT"],
             local_sock' = [local_sock EXCEPT ![c] = fd],
             timeout_cache' = timeout_cache \cup {c},
             server_connections' = server_connections + 1,
             UNCHANGED <<remote_socks, ended, dnsVars, calling>>
      PROVE  AloneInv' /\ StaysDestroyed
  <2> USE <1>2, RelayAssumption DEF RelayInv, AloneInv, SockInv, SockTypes, Live
  <2>1. c \notin Live /\ Live' = Live \cup {c}
    BY DEF FreeFds, NewHoldsNothing
  <2>2. CallbackAlive'
    BY DEF CallbackAlive, CallbackStage, DNSInv, DNSTypeOK, Handlers, dnsVars
  <2>3. LiveTimed' /\ EndedOnce' /\ StaysDestroyed
    BY <2>1 DEF LiveTimed, EndedOnce, StaysDestroyed
  <2>4. LiveCounted'
    <3> HIDE DEF Live
    <3>1. /\ IsFiniteSet(Live \cup {c})
          /\ Cardinality(Live \cup {c}) = Cardinality(Live) + 1
      BY <2>1, FS_AddElement DEF LiveCounted
    <3>2. QED
      BY <2>1, <3>1 DEF LiveCounted
  <2>5. QED
    BY <2>2, <2>3, <2>4
<1>3. QED
  BY <1>1, <1>2 DEF Accept, update_activity, add_connection

\* A datagram of the resolver: whom it calls is waiting.
LEMMA DnsEventAlone ==
    ASSUME RelayInv, AloneInv, NEW e, DnsEvent(e)
    PROVE  AloneInv' /\ StaysDestroyed
<1> PICK h \in Hostnames, type \in QTypes, more \in BOOLEAN :
        \/ HandleAnswer(h, type, more) /\ calling' = hostname_to_cb[h]
        \/ HandleFailure(h, type, more) /\ calling' = hostname_to_cb[h]
        \/ /\ \/ HandleIgnored(h, type, more)
              \/ \E sent \in BOOLEAN : HandleFallback(h, type, more, sent)
           /\ UNCHANGED calling
  BY DEF DnsEvent
<1>0. UNCHANGED sockVars
  BY DEF DnsEvent
<1>1. CASE calling' = hostname_to_cb[h] /\ CallCallback(h)
  <2>1. CallbackAlive'
    BY <1>0, <1>1 DEF RelayInv, AloneInv, CallbackAlive, CallCallback, DNSInv, DNSTypeOK,
       TablesAgree, sockVars
  <2>2. LiveTimed' /\ EndedOnce' /\ LiveCounted' /\ StaysDestroyed
    BY <1>0 DEF AloneInv, LiveTimed, EndedOnce, LiveCounted, StaysDestroyed, Live, sockVars
  <2>3. QED
    BY <2>1, <2>2 DEF AloneInv
<1>2. CASE UNCHANGED <<hostname_to_cb, cb_to_hostname, calling>>
  BY <1>0, <1>2, QuietAlone
<1>3. QED
  BY <1>1, <1>2 DEF HandleAnswer, HandleFailure, HandleIgnored, HandleFallback, dnsTables

\* The sweep, and the closing of the port, between two batches.
LEMMA DestroyAllAlone ==
    ASSUME RelayInv, AloneInv, NEW S \in SUBSET Live, DestroyAll(S), calling = {},
           UNCHANGED calling
    PROVE  AloneInv' /\ StaysDestroyed
<1> DEFINE live == {c \in S : stage[c] # "DESTROYED"}
           st == Stage(S, "DESTROYED")
<1>1. st \in [Handlers -> Stages] /\ live \in SUBSET Live
  BY DEF Stage, RelayInv, SockInv, SockTypes, Stages
<1>2. \A c \in Handlers : c \in live \/ st[c] = stage[c]
  BY DEF Stage
<1>3. \A c \in live : st[c] \notin {"DNS", "NEW"}
  BY DEF Stage, Live
<1>4. ReleaseSockets(live, st) /\ RemoveCallbacks(live)
  BY DEF DestroyAll, Release
<1> HIDE DEF live, st
<1>5. calling' \subseteq calling /\ calling' \cap live = {}
  OBVIOUS
<1>6. QED
  BY <1>1, <1>2, <1>3, <1>4, <1>5, ReleaseAlone

\* A handler with a descriptor is live, and so is a timed one.
LEMMA OwnersLive ==
    ASSUME RelayInv, AloneInv
    PROVE  /\ \A fd \in Fds : fd_to_handlers[fd] \in Handlers => fd_to_handlers[fd] \in Live
           /\ Owners \subseteq Live
           /\ timeout_cache \subseteq Live
<1>1. \A c \in Handlers : FdsOf(c) # {} => c \in Live
  BY DEF AloneInv, LiveTimed, Live, FdsOf
<1>2. QED
  BY <1>1 DEF RelayInv, AloneInv, SockInv, FdTables, LiveTimed, Owners

LEMMA AloneInit == Init => AloneInv
<1> SUFFICES ASSUME Init PROVE AloneInv
  OBVIOUS
<1>1. Live = {}
  BY DEF Init, Live
<1>2. QED
  BY <1>1, FS_EmptySet
  DEF Init, DNSInit, AloneInv, CallbackAlive, LiveTimed, EndedOnce, LiveCounted

\* Every step of a relay whose names are not shared.
LEMMA AloneNext ==
    ASSUME RelayInv, AloneInv, NamesShared = FALSE, [Next]_vars
    PROVE  AloneInv' /\ StaysDestroyed
<1>1. CASE Poll \/ CloseNextTick \/ UNCHANGED vars
  BY <1>1, QuietAlone DEF Poll, CloseNextTick, vars, dnsVars
<1>2. ASSUME NEW e \in batch, DropEvent(e) \/ DnsNoise(e)
      PROVE  AloneInv' /\ StaysDestroyed
  BY <1>2, QuietAlone DEF DropEvent, DnsNoise, SocketError, dnsVars, dnsTables
<1>3. ASSUME NEW e \in batch, DispatchEvent(e)
      PROVE  AloneInv' /\ StaysDestroyed
  <2>1. e[1] \in Fds /\ fd_to_handlers[e[1]] \in Live
    BY <1>3, OwnersLive DEF DispatchEvent, RelayInv, SockInv, SockTypes
  <2>2. calling = {} /\ UNCHANGED calling
    BY <1>3 DEF DispatchEvent, Take, Idle
  <2>3. QED
    BY <1>3, <2>1, <2>2, HandleEventAlone DEF DispatchEvent
<1>4. ASSUME NEW e \in batch, RemoteReadKillsLoop(e)
      PROVE  AloneInv' /\ StaysDestroyed
  <2>1. e[1] \in Fds /\ fd_to_handlers[e[1]] \in Live
    BY <1>4, OwnersLive DEF RemoteReadKillsLoop, RelayInv, SockInv, SockTypes
  <2>2. calling = {} /\ UNCHANGED calling
    BY <1>4 DEF RemoteReadKillsLoop, Take, Idle
  <2>3. Release({fd_to_handlers[e[1]]}, Stage({fd_to_handlers[e[1]]}, "DESTROYED"))
    BY <1>4 DEF RemoteReadKillsLoop, Destroy
  <2>4. "DESTROYED" \in Stages \ {"DNS", "NEW"}
    BY DEF Stages
  <2>5. QED
    BY <2>1, <2>2, <2>3, <2>4, ReleaseOneAlone
<1>5. ASSUME NEW e \in batch, Accept(e) \/ DnsEvent(e)
      PROVE  AloneInv' /\ StaysDestroyed
  BY <1>5, AcceptAlone, DnsEventAlone
<1>6. ASSUME NEW c \in Handlers, RunCallback(c)
      PROVE  AloneInv' /\ StaysDestroyed
  <2>1. stage[c] = "DNS" /\ c \in Live /\ c \in calling /\ calling' = calling \ {c}
    BY <1>6 DEF RunCallback, AloneInv, CallbackAlive, LiveTimed
  <2>2. CASE Connect(c)
    BY <2>1, <2>2, ConnectAlone
  <2>3. CASE Destroy(c)
    BY <2>1, <2>3, ReleaseOneAlone DEF Destroy, Stages
  <2>4. QED
    BY <1>6, <2>2, <2>3 DEF RunCallback
<1>7. ASSUME NEW idle \in SUBSET Handlers, HandlePeriodic(idle)
      PROVE  AloneInv' /\ StaysDestroyed
  <2>1. Owners \cup idle \in SUBSET Live /\ idle \in SUBSET Live
    BY <1>7, OwnersLive DEF HandlePeriodic
  <2>2. QED
    BY <1>7, <2>1, DestroyAllAlone DEF HandlePeriodic, Idle
<1>8. CASE CloseNow
  BY <1>8, OwnersLive, DestroyAllAlone DEF CloseNow, Idle
<1>9. CASE Resolver
  BY <1>9, QuietAlone DEF Resolver, SweepCache, LoseReply, dnsTables
<1>10. QED
  BY <1>1, <1>2, <1>3, <1>4, <1>5, <1>6, <1>7, <1>8, <1>9 DEF Next, Dispatch

\* A relay whose connections never wait for the same name at the same time
\* keeps the second invariant too.
THEOREM RelayAlone == NamesShared = FALSE /\ Spec => [](RelayInv /\ AloneInv)
<1> DEFINE Inv == NamesShared = FALSE /\ RelayInv /\ AloneInv
<1>1. NamesShared = FALSE /\ Init => Inv
  BY RelayInitInv, AloneInit
<1>2. Inv /\ [Next]_vars => Inv'
  BY RelayNextInv, AloneNext
<1>3. QED
  BY <1>1, <1>2, PTL DEF Spec

\* The connection count is the number of open client sockets: whatever closes a
\* connection, and in whatever order, it is counted down once.
THEOREM RelayConnectionCount == NamesShared = FALSE /\ Spec => []ConnectionCount
<1>1. AloneInv => ConnectionCount
  BY DEF AloneInv, LiveCounted, ConnectionCount, Live
<1>2. QED
  BY <1>1, RelayAlone, PTL

\* No connection with an open socket escapes the timeout sweep.
THEOREM RelayOpenIsTimed == NamesShared = FALSE /\ Spec => []OpenIsTimed
<1>1. AloneInv => OpenIsTimed
  BY DEF AloneInv, LiveTimed, OpenIsTimed, Live, FdsOf
<1>2. QED
  BY <1>1, RelayAlone, PTL

\* destroy() releases a handler's resources at most once.  With shared names it
\* does not: run RelayRevived.
THEOREM RelayDestroyedOnce == NamesShared = FALSE /\ Spec => []DestroyedOnce
<1>1. AloneInv => DestroyedOnce
  BY DEF AloneInv, EndedOnce, DestroyedOnce
<1>2. QED
  BY <1>1, RelayAlone, PTL

\* No callback, event or sweep brings a destroyed handler back.
THEOREM RelayDestroyedIsFinal == NamesShared = FALSE /\ Spec => DestroyedIsFinal
<1> DEFINE Inv == NamesShared = FALSE /\ RelayInv /\ AloneInv
<1>1. NamesShared = FALSE /\ Spec => []Inv
  <2>1. NamesShared = FALSE => (NamesShared = FALSE)'
    OBVIOUS
  <2>2. QED
    BY <2>1, RelayAlone, PTL
<1>2. Inv /\ [Next]_vars =>
          [\A c \in Handlers : stage[c] = "DESTROYED" => stage'[c] = "DESTROYED"]_vars
  BY AloneNext DEF StaysDestroyed
<1>3. QED
  BY <1>1, <1>2, PTL DEF Spec, DestroyedIsFinal

=============================================================================
