-------------------------- MODULE TransferPushProofs --------------------------
(***************************************************************************)
(* Proofs about TransferPush: without a shared port nobody is billed for   *)
(* more than he used, for any number of users and any thresholds.          *)
(***************************************************************************)
EXTENDS TransferPush, TLAPS

\* The books of one user.  While he is not to be pushed by force, his three
\* readings are in order and what is not pushed yet is still on his counter.
\* Once his relay has been stopped, the difference of the two last readings is
\* owed, and the counter is that of a new relay.
Books(p) ==
    /\ shared[p] = 0
    /\ p \notin running => own[p] = 0
    /\ p \in force_update_transfer =>
          IF last_get_transfer[p] = None
          THEN billed[p] + own[p] <= used[p]
          ELSE /\ At(last_update_transfer, p) <= last_get_transfer[p]
               /\ billed[p] + (last_get_transfer[p] - At(last_update_transfer, p)) + own[p]
                     <= used[p]
    /\ p \notin force_update_transfer =>
          /\ At(last_update_transfer, p) <= own[p]
          /\ last_get_transfer[p] # None =>
                /\ At(last_update_transfer, p) <= last_get_transfer[p]
                /\ last_get_transfer[p] <= own[p]
          /\ phase = "send" /\ curr_transfer[p] # None =>
                /\ At(last_update_transfer, p) <= curr_transfer[p]
                /\ curr_transfer[p] <= own[p]
          /\ billed[p] + (own[p] - At(last_update_transfer, p)) <= used[p]

\* When relays are stopped, the users forced before have been dealt with.
ForceConsumed ==
    /\ phase \in {"pull", "apply"} => force_update_transfer = {}
    /\ ~pull_ok => force_update_transfer = {} /\ rows = {}

TransferInv == TypeOK /\ ForceConsumed /\ \A p \in Ports : Books(p)

-----------------------------------------------------------------------------

LEMMA AtNat ==
    ASSUME NEW f \in Counts, NEW p \in Ports
    PROVE  At(f, p) \in Nat
BY TransferAssumption DEF At, Counts

LEMMA TransferInitInv == Init => TransferInv
<1> SUFFICES ASSUME Init
             PROVE  TransferInv
  OBVIOUS
<1>1. TypeOK
  <2>1. /\ curr_transfer \in Counts
        /\ last_get_transfer \in Counts
        /\ last_update_transfer \in Counts
    BY DEF Init, Counts
  <2>2. /\ own \in [Ports -> Nat] /\ shared \in [Ports -> Nat] /\ user_pass \in [Ports -> Nat]
        /\ used \in [Ports -> Nat] /\ billed \in [Ports -> Int]
    BY DEF Init
  <2> QED
    BY <2>1, <2>2 DEF Init, TypeOK
<1>2. ForceConsumed
  BY DEF Init, ForceConsumed
<1>3. ASSUME NEW p \in Ports
      PROVE  Books(p)
  BY <1>3, TransferAssumption DEF Init, Books, At
<1> QED
  BY <1>1, <1>2, <1>3 DEF TransferInv

\* Traffic.
LEMMA TransferTraffic ==
    ASSUME ~UseMu, TransferInv, NEW q \in Ports, add_transfer(q)
    PROVE  TransferInv'
<1>1. TypeOK'
  BY DEF TransferInv, TypeOK, add_transfer, pushVars, pullVars, Counts
<1>2. ForceConsumed'
  BY DEF TransferInv, ForceConsumed, add_transfer, pushVars, pullVars
<1>3. ASSUME NEW p \in Ports
      PROVE  Books(p)'
  <2>1. At(last_update_transfer, p) \in Nat
    BY AtNat DEF TransferInv, TypeOK
  <2>2. At(last_update_transfer, p)' = At(last_update_transfer, p)
    BY DEF add_transfer, pushVars, At
  <2>3. Books(p)
    BY DEF TransferInv
  <2> QED
    BY <2>1, <2>2, <2>3, TransferAssumption
       DEF TransferInv, TypeOK, Books, add_transfer, pushVars, pullVars, Counts
<1> QED
  BY <1>1, <1>2, <1>3 DEF TransferInv

-----------------------------------------------------------------------------
(* The push.                                                               *)

LEMMA TransferSkipPush ==
    ASSUME TransferInv, SkipPush
    PROVE  TransferInv'
BY DEF TransferInv, TypeOK, ForceConsumed, Books, At, SkipPush, relayVars, pushVars, pullVars

LEMMA TransferRead ==
    ASSUME TransferInv, ReadCounters
    PROVE  TransferInv'
<1>1. TypeOK'
  BY DEF TransferInv, TypeOK, ReadCounters, get_servers_transfer, relayVars, pullVars, Counts
<1>2. ForceConsumed'
  BY DEF TransferInv, ForceConsumed, ReadCounters, pullVars
<1>3. ASSUME NEW p \in Ports
      PROVE  Books(p)'
  <2>1. Books(p) /\ At(last_update_transfer, p)' = At(last_update_transfer, p)
    BY DEF TransferInv, ReadCounters, At
  <2>2. curr_transfer'[p] # None => curr_transfer'[p] = own[p]
    BY <2>1 DEF TransferInv, TypeOK, Books, ReadCounters, get_servers_transfer
  <2> QED
    BY <2>1, <2>2 DEF TransferInv, TypeOK, Books, ReadCounters, relayVars, pullVars
<1> QED
  BY <1>1, <1>2, <1>3 DEF TransferInv

LEMMA TransferRaises ==
    ASSUME TransferInv, SendRaises \/ PullRaises
    PROVE  TransferInv'
<1>1. user_pass' \in [Ports -> Nat]
  BY DEF TransferInv, TypeOK, SendRaises, PullRaises, CountSkips, pushVars
<1> QED
  BY <1>1 DEF TransferInv, TypeOK, ForceConsumed, Books, At, SendRaises, PullRaises,
              relayVars, pushVars, pullVars

LEMMA TransferSend ==
    ASSUME TransferInv, NEW done \in BOOLEAN, SendUpdate(done)
    PROVE  TransferInv'
<1> DEFINE S == Returned(done)
<1>1. S \subseteq ForcedIds \cup OtherIds /\ Sent \subseteq ForcedIds \cup OtherIds
      /\ (done => S = Sent)
  BY DEF Returned, Sent
<1>2. ASSUME NEW p \in Ports
      PROVE  /\ last_update_transfer'[p] \in Nat \cup {None}
             /\ last_get_transfer'[p] \in Nat \cup {None}
             /\ billed'[p] \in Int
             /\ Books(p)'
  <2>0. /\ Books(p) /\ phase = "send" /\ force_update_transfer' = {}
        /\ At(last_update_transfer, p) \in Nat
        /\ own' = own /\ shared' = shared /\ running' = running /\ used' = used
        /\ own[p] \in Nat /\ used[p] \in Nat /\ billed[p] \in Int
        /\ curr_transfer[p] \in Nat \cup {None}
        /\ last_get_transfer[p] \in Nat \cup {None}
        /\ last_update_transfer[p] \in Nat \cup {None}
        /\ phase' = "pull"
    BY AtNat DEF TransferInv, TypeOK, Counts, SendUpdate, Record, relayVars
  <2>1. CASE p \in force_update_transfer
    <3>1. /\ last_update_transfer'[p] = None /\ last_get_transfer'[p] = None
          /\ At(last_update_transfer, p)' = 0
      BY <2>1 DEF SendUpdate, Record, At
    <3>2. billed'[p] = billed[p] \/ (p \in ForcedIds /\ billed'[p] = billed[p] + dt_transfer(p))
      BY <1>1, <2>1 DEF SendUpdate, OtherIds
    <3>3. p \in ForcedIds => /\ last_get_transfer[p] # None
                             /\ dt_transfer(p) = last_get_transfer[p] - At(last_update_transfer, p)
      BY <2>1 DEF ForcedIds, dt_transfer, At
    <3>4. billed'[p] \in Int /\ billed'[p] + own[p] <= used[p]
      BY <2>0, <2>1, <3>2, <3>3, TransferAssumption DEF Books
    <3> QED
      BY <2>0, <2>1, <3>1, <3>4, TransferAssumption DEF Books
  <2>2. CASE p \notin force_update_transfer
    <3>1. p \in OtherIds => /\ curr_transfer[p] # None
                            /\ dt_transfer(p) = curr_transfer[p] - At(last_update_transfer, p)
      BY <2>2 DEF OtherIds, dt_transfer
    <3>2. last_get_transfer'[p] = curr_transfer[p]
      BY <2>2 DEF SendUpdate, Record
    <3>3. CASE p \in S
      <4>1. p \in OtherIds
        BY <1>1, <2>2, <3>3 DEF ForcedIds
      <4>2. last_update_transfer'[p] = At(last_update_transfer, p) + dt_transfer(p)
        BY <2>2, <3>3 DEF SendUpdate, Record
      <4>3. last_update_transfer'[p] = curr_transfer[p] /\ curr_transfer[p] \in Nat
        BY <2>0, <3>1, <4>1, <4>2, TransferAssumption
      <4>4. At(last_update_transfer, p)' = curr_transfer[p]
        BY <4>3, TransferAssumption DEF At
      <4>5. billed'[p] = billed[p] \/ billed'[p] = billed[p] + dt_transfer(p)
        BY DEF SendUpdate
      <4> QED
        BY <2>0, <2>2, <3>1, <3>2, <4>1, <4>3, <4>4, <4>5, TransferAssumption DEF Books
    <3>4. CASE p \notin S
      <4>1. last_update_transfer'[p] = last_update_transfer[p]
        BY <2>2, <3>4 DEF SendUpdate, Record
      <4>2. At(last_update_transfer, p)' = At(last_update_transfer, p)
        BY <4>1 DEF At
      <4>3. billed'[p] = billed[p]
        BY <1>1, <3>4 DEF SendUpdate
      <4> QED
        BY <2>0, <2>2, <3>2, <4>1, <4>2, <4>3, TransferAssumption DEF Books
    <3> QED
      BY <3>3, <3>4
  <2> QED
    BY <2>1, <2>2
<1>3. user_pass' \in [Ports -> Nat]
  BY DEF TransferInv, TypeOK, SendUpdate, CountSkips
<1>4. /\ last_update_transfer' = [p \in Ports |-> last_update_transfer'[p]]
      /\ last_get_transfer' = [p \in Ports |-> last_get_transfer'[p]]
      /\ billed' = [p \in Ports |-> billed'[p]]
  BY DEF SendUpdate, Record
<1>5. last_update_transfer' \in Counts /\ last_get_transfer' \in Counts /\ billed' \in [Ports -> Int]
  BY <1>2, <1>4 DEF Counts
<1>6. TypeOK'
  BY <1>3, <1>5 DEF TransferInv, TypeOK, SendUpdate, Record, relayVars, pullVars
<1>7. ForceConsumed'
  BY DEF TransferInv, ForceConsumed, SendUpdate, Record, pullVars
<1> QED
  BY <1>2, <1>6, <1>7 DEF TransferInv

-----------------------------------------------------------------------------
(* The pull and the pass over the users.                                   *)

LEMMA TransferPull ==
    ASSUME TransferInv, Pull
    PROVE  TransferInv'
<1>1. TypeOK'
  BY DEF TransferInv, TypeOK, Pull, relayVars, pushVars
<1>2. ForceConsumed'
  BY DEF TransferInv, TypeOK, ForceConsumed, Pull, pushVars
<1>3. \A p \in Ports : Books(p)'
  BY DEF TransferInv, Books, At, Pull, relayVars, pushVars
<1> QED
  BY <1>1, <1>2, <1>3 DEF TransferInv

\* Stopping and starting relays of the rows R, and stopping those of `gone'.
LEMMA TransferStop ==
    ASSUME TransferInv, phase = "apply", phase' # "send",
           NEW R \in SUBSET rows, NEW gone \in SUBSET Ports, NEW ok,
           StopAndStart(R, gone, ok), gone \cap R = {},
           last_get_transfer' =
              [p \in Ports |-> IF p \in gone THEN None ELSE last_get_transfer[p]],
           last_update_transfer' =
              [p \in Ports |-> IF p \in gone THEN None ELSE last_update_transfer[p]],
           shared' = shared, used' = used, billed' = billed
    PROVE  /\ running' \subseteq Ports /\ own' \in [Ports -> Nat]
           /\ force_update_transfer' \subseteq R
           /\ last_get_transfer' \in Counts /\ last_update_transfer' \in Counts
           /\ \A p \in Ports : Books(p)'
<1>1. /\ running' \subseteq Ports /\ own' \in [Ports -> Nat]
      /\ force_update_transfer' \subseteq R
      /\ last_get_transfer' \in Counts /\ last_update_transfer' \in Counts
  BY DEF TransferInv, TypeOK, ForceConsumed, StopAndStart, Stopping, Starting, Counts
<1>2. ASSUME NEW p \in Ports
      PROVE  Books(p)'
  <2>0. /\ p \notin force_update_transfer /\ Books(p)
        /\ own[p] \in Nat /\ used[p] \in Nat /\ billed[p] \in Int
        /\ last_get_transfer[p] \in Nat \cup {None}
        /\ At(last_update_transfer, p) \in Nat
    BY AtNat DEF TransferInv, TypeOK, ForceConsumed, Counts
  <2>1. CASE p \in Stopping(R)
    <3>1. /\ p \notin gone /\ p \in force_update_transfer'
          /\ own'[p] = 0
      BY <2>1 DEF StopAndStart, Stopping
    <3>2. /\ last_get_transfer'[p] = last_get_transfer[p]
          /\ At(last_update_transfer, p)' = At(last_update_transfer, p)
      BY <3>1 DEF At
    <3> QED
      BY <2>0, <3>1, <3>2, TransferAssumption DEF Books
  <2>2. CASE p \in gone
    <3>1. /\ p \notin force_update_transfer'
          /\ own'[p] = 0
          /\ last_get_transfer'[p] = None
          /\ At(last_update_transfer, p)' = 0
      BY <2>0, <2>2 DEF StopAndStart, Stopping, At
    <3> QED
      BY <2>0, <3>1, TransferAssumption DEF Books
  <2>3. CASE p \notin Stopping(R) \cup gone
    <3>1. /\ p \notin force_update_transfer'
          /\ own'[p] = own[p]
          /\ last_get_transfer'[p] = last_get_transfer[p]
          /\ At(last_update_transfer, p)' = At(last_update_transfer, p)
          /\ p \in running => p \in running'
      BY <2>0, <2>3 DEF StopAndStart, At
    <3> QED
      BY <2>0, <3>1, TransferAssumption DEF Books
  <2> QED
    BY <2>1, <2>2, <2>3
<1> QED
  BY <1>1, <1>2

LEMMA TransferApply ==
    ASSUME ~UseMu, TransferInv, Apply
    PROVE  TransferInv'
<1>1. PICK ok \in SUBSET Starting(rows) : StopAndStart(rows, Gone, ok)
  BY DEF Apply
<1>2. /\ Gone \in SUBSET Ports /\ Gone \cap rows = {} /\ rows \in SUBSET rows
      /\ phase = "apply" /\ phase' = "restart" /\ shared' = shared
      /\ used' = used /\ billed' = billed
  BY DEF TransferInv, TypeOK, Gone, Apply
<1>3. /\ running' \subseteq Ports /\ own' \in [Ports -> Nat]
      /\ force_update_transfer' \subseteq rows
      /\ last_get_transfer' \in Counts /\ last_update_transfer' \in Counts
      /\ \A p \in Ports : Books(p)'
  BY <1>1, <1>2, TransferStop DEF Apply
<1>4. TypeOK'
  BY <1>3 DEF TransferInv, TypeOK, Apply, Stopping
<1>5. ForceConsumed'
  BY <1>3 DEF TransferInv, ForceConsumed, Apply
<1> QED
  BY <1>3, <1>4, <1>5 DEF TransferInv

LEMMA TransferApplyRaises ==
    ASSUME TransferInv, ApplyRaises
    PROVE  TransferInv'
<1>1. PICK R \in SUBSET rows : \E ok \in SUBSET Starting(R) : StopAndStart(R, {}, ok)
  BY DEF ApplyRaises
<1>2. PICK ok \in SUBSET Starting(R) : StopAndStart(R, {}, ok)
  BY <1>1
<1>3. /\ phase = "apply" /\ phase' = "push" /\ shared' = shared
      /\ used' = used /\ billed' = billed
      /\ last_get_transfer' = [p \in Ports |-> IF p \in {} THEN None ELSE last_get_transfer[p]]
      /\ last_update_transfer' =
            [p \in Ports |-> IF p \in {} THEN None ELSE last_update_transfer[p]]
  BY DEF TransferInv, TypeOK, Counts, ApplyRaises
<1>4. /\ running' \subseteq Ports /\ own' \in [Ports -> Nat]
      /\ force_update_transfer' \subseteq R
      /\ last_get_transfer' \in Counts /\ last_update_transfer' \in Counts
      /\ \A p \in Ports : Books(p)'
  BY <1>2, <1>3, TransferStop
<1>5. TypeOK'
  BY <1>4 DEF TransferInv, TypeOK, ApplyRaises, pullVars
<1>6. ForceConsumed'
  BY <1>1, <1>4 DEF TransferInv, ForceConsumed, ApplyRaises, pullVars
<1> QED
  BY <1>4, <1>5, <1>6 DEF TransferInv

LEMMA TransferRestart ==
    ASSUME TransferInv, Restart
    PROVE  TransferInv'
<1>1. TypeOK'
  BY DEF TransferInv, TypeOK, Restart, pushVars
<1>2. ForceConsumed'
  BY DEF TransferInv, ForceConsumed, Restart, pushVars
<1>3. \A p \in Ports : Books(p)'
  BY DEF TransferInv, Books, At, Restart, pushVars
<1> QED
  BY <1>1, <1>2, <1>3 DEF TransferInv

-----------------------------------------------------------------------------

LEMMA TransferNextInv ==
    ASSUME ~UseMu, TransferInv, [Next]_vars
    PROVE  TransferInv'
<1>1. CASE UNCHANGED vars
  BY <1>1 DEF TransferInv, TypeOK, ForceConsumed, Books, At, vars, relayVars, pushVars, pullVars
<1>2. CASE \E p \in Ports : add_transfer(p)
  BY <1>2, TransferTraffic
<1>3. CASE Cycle
  BY <1>3, TransferSkipPush, TransferRead, TransferSend, TransferRaises, TransferPull,
     TransferApply, TransferApplyRaises, TransferRestart DEF Cycle
<1> QED
  BY <1>1, <1>2, <1>3 DEF Next

\* The inductive invariant of the accounting thread, when no port is shared.
THEOREM TransferInvariant == ASSUME ~UseMu PROVE Spec => []TransferInv
<1>1. Init => TransferInv
  BY TransferInitInv
<1>2. TransferInv /\ [Next]_vars => TransferInv'
  BY TransferNextInv
<1> QED
  BY <1>1, <1>2, PTL DEF Spec

\* Nobody is billed more than he used, for any set of ports, any threshold and
\* any of the three back ends: push_db_all_user neither counts traffic twice
\* nor takes the counter of a new relay for that of the old one.
THEOREM TransferNotOverbilled == ASSUME ~UseMu PROVE Spec => []NotOverbilled
<1>1. TransferInv => NotOverbilled
  <2> SUFFICES ASSUME TransferInv, NEW p \in Ports
               PROVE  billed[p] <= used[p]
    BY DEF NotOverbilled
  <2>1. /\ own[p] \in Nat /\ used[p] \in Nat /\ billed[p] \in Int
        /\ last_get_transfer[p] \in Nat \cup {None}
        /\ At(last_update_transfer, p) \in Nat
    BY AtNat DEF TransferInv, TypeOK, Counts
  <2> QED
    BY <2>1, TransferAssumption DEF TransferInv, Books
<1> QED
  BY <1>1, TransferInvariant, PTL

\* The comment on last_update_transfer (db_transfer.py:24) holds when no port is
\* shared: what was pushed is at most what was read, and that at most what the
\* relay has counted.
THEOREM TransferUpdateBelowActual == ASSUME ~UseMu PROVE Spec => []UpdateBelowActual
<1>1. TransferInv => UpdateBelowActual
  BY DEF TransferInv, TypeOK, Books, UpdateBelowActual
<1> QED
  BY <1>1, TransferInvariant, PTL

\* The deletion from a set that clear_cache writes as one from a dictionary is
\* never reached.
THEOREM TransferGoneIsNotForced == ASSUME ~UseMu PROVE Spec => []GoneIsNotForced
<1>1. TransferInv => GoneIsNotForced
  BY DEF TransferInv, ForceConsumed, GoneIsNotForced
<1> QED
  BY <1>1, TransferInvariant, PTL

-----------------------------------------------------------------------------
(* What the database was told.  This needs the types only, so it holds with  *)
(* a shared port, too.                                                       *)

LEMMA SendTypes ==
    ASSUME TypeOK, NEW done \in BOOLEAN, SendUpdate(done)
    PROVE  /\ TypeOK'
           /\ \A p \in Ports \ force_update_transfer :
                 p \in Returned(done) =>
                    last_update_transfer'[p] = At(last_update_transfer, p) + dt_transfer(p)
<1>1. Returned(done) \subseteq Sent /\ Sent \subseteq ForcedIds \cup OtherIds
  BY DEF Returned, Sent
<1>2. ASSUME NEW p \in Ports
      PROVE  /\ last_update_transfer'[p] \in Nat \cup {None}
             /\ last_get_transfer'[p] \in Nat \cup {None}
             /\ billed'[p] \in Int
             /\ p \in Returned(done) \ force_update_transfer =>
                   last_update_transfer'[p] = At(last_update_transfer, p) + dt_transfer(p)
  <2>0. /\ At(last_update_transfer, p) \in Nat
        /\ billed[p] \in Int
        /\ curr_transfer[p] \in Nat \cup {None}
        /\ last_get_transfer[p] \in Nat \cup {None}
        /\ last_update_transfer[p] \in Nat \cup {None}
    BY AtNat DEF TypeOK, Counts
  <2>1. p \in Sent => /\ dt_transfer(p) \in Int
                      /\ p \notin force_update_transfer =>
                            /\ curr_transfer[p] \in Nat
                            /\ dt_transfer(p) = curr_transfer[p] - At(last_update_transfer, p)
    BY <1>1, <2>0, TransferAssumption DEF ForcedIds, OtherIds, dt_transfer
  <2>2. billed'[p] \in Int
    BY <2>0, <2>1 DEF SendUpdate
  <2>3. last_get_transfer'[p] \in Nat \cup {None}
    BY <2>0 DEF SendUpdate, Record
  <2>4. CASE p \in Returned(done) \ force_update_transfer
    <3>1. last_update_transfer'[p] = At(last_update_transfer, p) + dt_transfer(p)
      BY <2>4 DEF SendUpdate, Record
    <3>2. last_update_transfer'[p] \in Nat
      BY <1>1, <2>0, <2>1, <2>4, <3>1
    <3> QED
      BY <2>2, <2>3, <3>1, <3>2
  <2>5. CASE p \notin Returned(done) \ force_update_transfer
    <3>1. last_update_transfer'[p] \in {None, last_update_transfer[p]}
      BY <2>5 DEF SendUpdate, Record
    <3> QED
      BY <2>0, <2>2, <2>3, <2>5, <3>1
  <2> QED
    BY <2>4, <2>5
<1>3. user_pass' \in [Ports -> Nat]
  BY DEF TypeOK, SendUpdate, CountSkips
<1>4. /\ last_update_transfer' = [p \in Ports |-> last_update_transfer'[p]]
      /\ last_get_transfer' = [p \in Ports |-> last_get_transfer'[p]]
      /\ billed' = [p \in Ports |-> billed'[p]]
  BY DEF SendUpdate, Record
<1>5. last_update_transfer' \in Counts /\ last_get_transfer' \in Counts /\ billed' \in [Ports -> Int]
  BY <1>2, <1>4 DEF Counts
<1>6. TypeOK'
  BY <1>3, <1>5 DEF TypeOK, SendUpdate, Record, relayVars, pullVars
<1> QED
  BY <1>2, <1>6

LEMMA ApplyTypes ==
    ASSUME TypeOK, Apply \/ ApplyRaises
    PROVE  TypeOK'
<1>1. ASSUME NEW R \in SUBSET rows, NEW gone, NEW ok \in SUBSET Starting(R),
             StopAndStart(R, gone, ok)
      PROVE  /\ running' \subseteq Ports /\ own' \in [Ports -> Nat]
             /\ force_update_transfer' \subseteq Ports
  BY <1>1 DEF TypeOK, StopAndStart, Stopping, Starting
<1>2. CASE Apply
  <2>1. PICK ok \in SUBSET Starting(rows) : StopAndStart(rows, Gone, ok)
    BY <1>2 DEF Apply
  <2>2. /\ running' \subseteq Ports /\ own' \in [Ports -> Nat]
        /\ force_update_transfer' \subseteq Ports
    BY <1>1, <2>1
  <2>3. last_get_transfer' \in Counts /\ last_update_transfer' \in Counts
    BY <1>2 DEF TypeOK, Counts, Apply
  <2>4. shared' \in [Ports -> Nat] /\ mu_users' \subseteq Ports
    BY <1>2 DEF TypeOK, Apply
  <2> QED
    BY <1>2, <2>2, <2>3, <2>4 DEF TypeOK, Apply, Stopping
<1>3. CASE ApplyRaises
  <2>1. PICK R \in SUBSET rows : \E ok \in SUBSET Starting(R) : StopAndStart(R, {}, ok)
    BY <1>3 DEF ApplyRaises
  <2>2. /\ running' \subseteq Ports /\ own' \in [Ports -> Nat]
        /\ force_update_transfer' \subseteq Ports
    BY <1>1, <2>1
  <2> QED
    BY <1>3, <2>2 DEF TypeOK, ApplyRaises, pullVars
<1> QED
  BY <1>2, <1>3

\* Of the steps but the push, only clear_cache touches what was pushed.
LEMMA OtherTypes ==
    ASSUME TypeOK, [Next]_vars, ~ \E done \in BOOLEAN : SendUpdate(done)
    PROVE  /\ TypeOK'
           /\ \A p \in Ports : last_update_transfer'[p] \in {None, last_update_transfer[p]}
<1>1. CASE UNCHANGED vars
  BY <1>1 DEF TypeOK, vars, relayVars, pushVars, pullVars
<1>2. ASSUME NEW q \in Ports, add_transfer(q)
      PROVE  TypeOK' /\ last_update_transfer' = last_update_transfer
  BY <1>2 DEF TypeOK, add_transfer, pushVars, pullVars, Counts
<1>3. CASE SkipPush \/ PullRaises
  BY <1>3 DEF TypeOK, SkipPush, PullRaises, relayVars, pushVars, pullVars
<1>4. CASE ReadCounters
  <2>1. curr_transfer' \in Counts
    BY <1>4 DEF TypeOK, ReadCounters, get_servers_transfer, Counts
  <2> QED
    BY <1>4, <2>1 DEF TypeOK, ReadCounters, relayVars, pullVars
<1>5. CASE SendRaises
  <2>1. user_pass' \in [Ports -> Nat]
    BY <1>5 DEF TypeOK, SendRaises, CountSkips
  <2> QED
    BY <1>5, <2>1 DEF TypeOK, SendRaises, relayVars, pullVars
<1>6. CASE Pull
  BY <1>6 DEF TypeOK, Pull, relayVars, pushVars
<1>7. CASE Apply \/ ApplyRaises
  <2>1. \A p \in Ports : last_update_transfer'[p] \in {None, last_update_transfer[p]}
    BY <1>7 DEF Apply, ApplyRaises
  <2> QED
    BY <1>7, <2>1, ApplyTypes
<1>8. CASE Restart
  BY <1>8 DEF TypeOK, Restart, pushVars
<1> QED
  BY <1>1, <1>2, <1>3, <1>4, <1>5, <1>6, <1>7, <1>8 DEF Next, Cycle

\* The counts, readings and debts have their types with any back end and with a
\* shared port: a reading is never negative, though counters start again.
THEOREM TransferTypeOK == Spec => []TypeOK
<1>1. Init => TypeOK
  BY TransferInitInv DEF TransferInv
<1>2. TypeOK /\ [Next]_vars => TypeOK'
  BY SendTypes, OtherTypes
<1> QED
  BY <1>1, <1>2, PTL DEF Spec

\* An entry of last_update_transfer grows by what the database was told, no more
\* and no less, whatever UPDATE fails, for the back ends that report a failed one
\* (Dbv3 does not).
THEOREM TransferUpdatedIsBilled == ASSUME Mode # "v3" PROVE Spec => UpdatedIsBilled
<1> DEFINE Told ==
      \A p \in rows :
          At(last_update_transfer', p) > At(last_update_transfer, p) =>
             billed'[p] - billed[p] =
                At(last_update_transfer', p) - At(last_update_transfer, p)
<1>1. TypeOK /\ [Next]_vars => Told
  <2> SUFFICES ASSUME TypeOK, [Next]_vars, NEW p \in rows,
                      At(last_update_transfer', p) > At(last_update_transfer, p)
               PROVE  billed'[p] - billed[p] =
                         At(last_update_transfer', p) - At(last_update_transfer, p)
    OBVIOUS
  <2>1. p \in Ports /\ At(last_update_transfer, p) \in Nat /\ billed[p] \in Int
    BY AtNat DEF TypeOK
  <2>2. last_update_transfer'[p] \notin {None, last_update_transfer[p]}
    BY <2>1 DEF At
  <2>3. PICK done \in BOOLEAN : SendUpdate(done)
    BY <2>1, <2>2, OtherTypes
  <2>4. p \in Returned(done) /\ p \notin force_update_transfer
    BY <2>1, <2>2, <2>3 DEF SendUpdate, Record
  <2>5. last_update_transfer'[p] = At(last_update_transfer, p) + dt_transfer(p)
    BY <2>1, <2>3, <2>4, SendTypes
  <2>6. done /\ p \in Sent
    BY <2>4 DEF Returned
  <2>7. billed'[p] = billed[p] + dt_transfer(p)
    BY <2>1, <2>3, <2>6 DEF SendUpdate
  <2>8. At(last_update_transfer', p) = At(last_update_transfer, p) + dt_transfer(p)
    BY <2>2, <2>5 DEF At
  <2>9. dt_transfer(p) \in Int
    <3>1. p \in OtherIds
      BY <2>4, <2>6 DEF Sent, ForcedIds
    <3> QED
      BY <2>1, <2>4, <3>1, TransferAssumption DEF OtherIds, dt_transfer, TypeOK, Counts
  <2> QED
    BY <2>1, <2>7, <2>8, <2>9
<1>2. TypeOK /\ [Next]_vars => [Told]_vars
  BY <1>1
<1> QED
  BY <1>2, TransferTypeOK, PTL DEF Spec, UpdatedIsBilled
=============================================================================
