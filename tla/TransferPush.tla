----------------------------- MODULE TransferPush -----------------------------
(***************************************************************************)
(* The accounting thread, TransferBase.thread_db of db_transfer.py, and    *)
(* the relays whose counters it reads (server_pool.py): a cycle pushes the *)
(* traffic since the last push to the database, pulls the users, and stops *)
(* and starts ports, while the loop's thread keeps counting.               *)
(*                                                                         *)
(* A port's upload and download are one number, and transfer_mul is 1.     *)
(* Users of a shared (multi-user) port have counters there besides those   *)
(* of their own port; the shared port itself is never accounted for.       *)
(***************************************************************************)
EXTENDS Integers, FiniteSets

CONSTANTS Ports,       \* ports of the users, which are also their ids
          None,        \* "absent" in a dictionary
          Mode,        \* "db": DbTransfer, "v3": Dbv3, "mujson": MuJsonTransfer
          Threshold,   \* update_trs before any skip (2048 in the code)
          Step,        \* what a skip takes off it (64)
          UseMu,       \* is there a shared port?
          Churn,       \* what changes in the database: "none", "config" (of the
                       \* users there are), or "users" (they come and go, too)
          SqlFails,    \* may the UPDATE fail?
          BadRows,     \* may a row make a pass over the users raise?
          MaxTraffic,  \* bound: traffic of a user
          MaxBilled    \* bound: no push when a user was billed more than this

ASSUME TransferAssumption ==
    /\ None \notin Int
    /\ Mode \in {"db", "v3", "mujson"}
    /\ Churn \in {"none", "config", "users"}
    /\ Threshold \in Nat /\ Step \in Nat \ {0}
    /\ MaxTraffic \in Nat /\ MaxBilled \in Nat
    /\ {UseMu, SqlFails, BadRows} \subseteq BOOLEAN

VARIABLES phase,                 \* where the accounting thread is
          running,               \* ports with a relay in the pool
          own, shared,           \* counters of the own and of the shared port
          mu_users,              \* users the shared port admits
          curr_transfer,         \* counters read by this push
          last_get_transfer, last_update_transfer, force_update_transfer,
          user_pass,             \* how often a user's push was skipped
          pull_ok,
          rows, allow, changed,  \* the pull: users, those admitted, those whose
                                 \* configuration differs from the relay's
          last_rows,
          starting,              \* ports to start again after the wait
          used, billed           \* history: traffic relayed, traffic in the database

relayVars == <<running, own, shared, mu_users>>
pushVars == <<curr_transfer, last_get_transfer, last_update_transfer,
              force_update_transfer, user_pass, billed>>
pullVars == <<pull_ok, rows, allow, changed, last_rows, starting>>
vars == <<phase, relayVars, pushVars, pullVars, used>>

Counts == [Ports -> Nat \cup {None}]

TypeOK ==
    /\ phase \in {"push", "send", "pull", "apply", "restart"}
    /\ running \subseteq Ports /\ mu_users \subseteq Ports
    /\ own \in [Ports -> Nat] /\ shared \in [Ports -> Nat]
    /\ curr_transfer \in Counts
    /\ last_get_transfer \in Counts /\ last_update_transfer \in Counts
    /\ force_update_transfer \subseteq Ports
    /\ user_pass \in [Ports -> Nat]
    /\ pull_ok \in BOOLEAN
    /\ rows \subseteq Ports /\ allow \subseteq rows /\ changed \subseteq allow
    /\ last_rows \subseteq Ports /\ starting \subseteq Ports
    /\ used \in [Ports -> Nat] /\ billed \in [Ports -> Int]

Init ==
    /\ phase = "push"
    /\ running = {} /\ mu_users = {}
    /\ own = [p \in Ports |-> 0] /\ shared = [p \in Ports |-> 0]
    /\ curr_transfer = [p \in Ports |-> None]
    /\ last_get_transfer = [p \in Ports |-> None]
    /\ last_update_transfer = [p \in Ports |-> None]
    /\ force_update_transfer = {}
    /\ user_pass = [p \in Ports |-> 0]
    /\ pull_ok = FALSE
    /\ rows = {} /\ allow = {} /\ changed = {} /\ last_rows = {} /\ starting = {}
    /\ used = [p \in Ports |-> 0] /\ billed = [p \in Ports |-> 0]

\* An entry of a dictionary of counts, zero when absent.
At(f, p) == IF f[p] = None THEN 0 ELSE f[p]

-----------------------------------------------------------------------------
(* The loop's thread.                                                      *)

\* add_transfer_u, add_transfer_d: traffic on the own port, or on the shared.
add_transfer(p) ==
    /\ used[p] < MaxTraffic
    /\ used' = [used EXCEPT ![p] = @ + 1]
    /\ \/ /\ p \in running
          /\ own' = [own EXCEPT ![p] = @ + 1]
          /\ UNCHANGED shared
       \/ /\ UseMu /\ p \in mu_users
          /\ shared' = [shared EXCEPT ![p] = @ + 1]
          /\ UNCHANGED own
    /\ UNCHANGED <<phase, running, mu_users, pushVars, pullVars>>

-----------------------------------------------------------------------------
(* push_db_all_user.                                                       *)

\* get_servers_transfer: the counters of every relay in the pool, with the
\* users' counters of the shared port added.
get_servers_transfer ==
    [p \in Ports |-> IF p \in running \/ shared[p] > 0 THEN own[p] + shared[p] ELSE None]

\* Nothing is pushed before something was pulled.
SkipPush ==
    /\ phase = "push" /\ ~pull_ok
    /\ phase' = "pull"
    /\ UNCHANGED <<relayVars, pushVars, pullVars, used>>

ReadCounters ==
    /\ phase = "push" /\ pull_ok
    /\ \A p \in Ports : billed[p] <= MaxBilled
    /\ phase' = "send"
    /\ curr_transfer' = get_servers_transfer
    /\ UNCHANGED <<relayVars, last_get_transfer, last_update_transfer, force_update_transfer,
                   user_pass, billed, pullVars, used>>

\* The users a forced push counts: what was read the last time and not pushed.
ForcedIds ==
    {p \in force_update_transfer : last_get_transfer[p] # None /\ last_update_transfer[p] # None}

OtherIds ==
    {p \in Ports \ force_update_transfer :
        curr_transfer[p] # None /\ At(curr_transfer, p) > At(last_update_transfer, p)}

dt_transfer(p) ==
    IF p \in force_update_transfer THEN last_get_transfer[p] - last_update_transfer[p]
                                   ELSE curr_transfer[p] - At(last_update_transfer, p)

\* update_all_user leaves out small amounts, and asks for less every time it
\* does.  DbTransfer never leaves out a forced user.
Skipped(p) ==
    /\ Mode # "mujson"
    /\ dt_transfer(p) < Threshold - Step * user_pass[p]
    /\ Mode = "db" => p \notin force_update_transfer

\* The users that update_all_user puts in its UPDATE.
Sent == {p \in ForcedIds \cup OtherIds : ~Skipped(p)}

\* Mutant: skips are not counted.
CountSkipsNone == UNCHANGED user_pass

\* A skip lowers the user's threshold for the next time.
CountSkips ==
    user_pass' = [p \in Ports |->
                    CASE p \in Sent -> 0
                      [] p \in (ForcedIds \cup OtherIds) \ Sent -> user_pass[p] + 1
                      [] OTHER -> user_pass[p]]

\* Mutant: what was pushed is not remembered.
RecordForgets(S) ==
    /\ last_update_transfer' =
          [p \in Ports |-> IF p \in force_update_transfer THEN None ELSE last_update_transfer[p]]
    /\ last_get_transfer' =
          [p \in Ports |-> IF p \in force_update_transfer THEN None ELSE curr_transfer[p]]
    /\ force_update_transfer' = {}

\* Mutant: the forced users stay forced.
RecordKeepsForce(S) ==
    /\ last_update_transfer' =
          [p \in Ports |-> CASE p \in force_update_transfer -> None
                             [] p \in S \ force_update_transfer ->
                                   At(last_update_transfer, p) + dt_transfer(p)
                             [] OTHER -> last_update_transfer[p]]
    /\ last_get_transfer' =
          [p \in Ports |-> IF p \in force_update_transfer THEN None ELSE curr_transfer[p]]
    /\ UNCHANGED force_update_transfer

\* The rest of push_db_all_user, when update_all_user has returned the users S:
\* a forced user starts from nothing.
Record(S) ==
    /\ last_update_transfer' =
          [p \in Ports |-> CASE p \in force_update_transfer -> None
                             [] p \in S \ force_update_transfer ->
                                   At(last_update_transfer, p) + dt_transfer(p)
                             [] OTHER -> last_update_transfer[p]]
    /\ last_get_transfer' =
          [p \in Ports |-> IF p \in force_update_transfer THEN None ELSE curr_transfer[p]]
    /\ force_update_transfer' = {}

\* Mutant: a failed UPDATE is taken for done.
ReturnedAll(done) == Sent

\* What update_all_user returns: Dbv3 only logs that its UPDATE has failed.
Returned(done) == IF done \/ Mode = "v3" THEN Sent ELSE {}

\* update_all_user, and the rest of the push.  The UPDATE changes the users that
\* the database has, which are those of the last pull.
SendUpdate(done) ==
    /\ phase = "send"
    /\ done \/ (SqlFails /\ Mode # "mujson" /\ Sent # {})
    /\ phase' = "pull"
    /\ billed' = [p \in Ports |-> IF done /\ p \in Sent \cap rows
                                  THEN billed[p] + dt_transfer(p) ELSE billed[p]]
    /\ CountSkips
    /\ Record(Returned(done))
    /\ UNCHANGED <<relayVars, curr_transfer, pullVars, used>>

\* The database cannot be reached (the file cannot be read): the exception ends
\* the cycle.  DbTransfer has counted its skips by then, Dbv3 connects first.
SendRaises ==
    /\ phase = "send" /\ SqlFails
    /\ Mode = "db" => Sent # {}
    /\ phase' = "push"
    /\ IF Mode = "db" THEN CountSkips ELSE UNCHANGED user_pass
    /\ UNCHANGED <<relayVars, curr_transfer, last_get_transfer, last_update_transfer,
                   force_update_transfer, billed, pullVars, used>>

-----------------------------------------------------------------------------
(* pull_db_all_user and del_server_out_of_bound_safe.                      *)

Pull ==
    /\ phase = "pull"
    /\ phase' = "apply"
    /\ rows' \in SUBSET Ports /\ allow' \in SUBSET rows' /\ changed' \in SUBSET allow'
    /\ Churn # "users" => rows' = Ports
    /\ Churn = "none" => allow' = Ports /\ changed' = {}
    /\ pull_ok' = (pull_ok \/ rows' # {})
    /\ UNCHANGED <<relayVars, pushVars, last_rows, starting, used>>

PullRaises ==
    /\ phase = "pull" /\ SqlFails
    /\ phase' = "push"
    /\ UNCHANGED <<relayVars, pushVars, pullVars, used>>

\* The ports whose relay is stopped when the rows R are looked at, and those
\* that are started.
Stopping(R) == {p \in R \cap running : p \notin allow \/ p \in changed}
Starting(R) == (R \cap allow) \ running

\* Mutant: what the stopped relays had counted is forgotten.
StopAndStartUnforced(R, gone, ok) ==
    /\ running' = (running \ (Stopping(R) \cup gone)) \cup (Starting(R) \cap ok)
    /\ own' = [p \in Ports |-> IF p \in Stopping(R) \cup gone THEN 0 ELSE own[p]]
    /\ UNCHANGED force_update_transfer

\* cb_del_server and new_server; a relay that cannot bind is not started.
StopAndStart(R, gone, ok) ==
    /\ running' = (running \ (Stopping(R) \cup gone)) \cup (Starting(R) \cap ok)
    /\ own' = [p \in Ports |-> IF p \in Stopping(R) \cup gone THEN 0 ELSE own[p]]
    /\ force_update_transfer' = force_update_transfer \cup Stopping(R)

\* The users of the last pass that this pull does not know.
Gone == last_rows \ rows

\* A pass that gets to its end: clear_cache forgets the users that are gone.
\* The shared port is restarted with the others when its configuration changes.
Apply ==
    /\ phase = "apply"
    /\ phase' = "restart"
    /\ \E ok \in SUBSET Starting(rows) : StopAndStart(rows, Gone, ok)
    /\ starting' = Stopping(rows) \cap changed
    /\ last_get_transfer' = [p \in Ports |-> IF p \in Gone THEN None ELSE last_get_transfer[p]]
    /\ last_update_transfer' =
          [p \in Ports |-> IF p \in Gone THEN None ELSE last_update_transfer[p]]
    /\ \/ UNCHANGED <<shared, mu_users>>
       \/ UseMu /\ Churn # "none" /\ shared' = [p \in Ports |-> 0] /\ mu_users' = {}
    /\ UNCHANGED <<curr_transfer, user_pass, billed, pull_ok, rows, allow, changed,
                   last_rows, used>>

\* A pass that raises at a row (one without a port, say), when it has looked at
\* the rows R: nothing after it happens, and last_rows stays what it was.
ApplyRaises ==
    /\ phase = "apply" /\ BadRows
    /\ phase' = "push"
    /\ \E R \in SUBSET rows : \E ok \in SUBSET Starting(R) : StopAndStart(R, {}, ok)
    /\ UNCHANGED <<shared, mu_users, curr_transfer, last_get_transfer, last_update_transfer,
                   user_pass, billed, pullVars, used>>

\* After the wait, the ports whose configuration changed start again, and the
\* shared port is told its users.
Restart ==
    /\ phase = "restart"
    /\ phase' = "push"
    /\ \E ok \in SUBSET starting : running' = running \cup ok
    /\ starting' = {}
    /\ mu_users' = IF UseMu THEN allow ELSE {}
    /\ last_rows' = rows
    /\ UNCHANGED <<own, shared, pushVars, pull_ok, rows, allow, changed, used>>

Cycle ==
    \/ SkipPush
    \/ ReadCounters
    \/ \E done \in BOOLEAN : SendUpdate(done)
    \/ SendRaises
    \/ Pull
    \/ PullRaises
    \/ Apply
    \/ ApplyRaises
    \/ Restart

Next == Cycle \/ \E p \in Ports : add_transfer(p)

Spec == Init /\ [][Next]_vars

\* The accounting thread keeps cycling, and of the UPDATEs that name a user some
\* are done in the end.
FairSpec ==
    /\ Spec
    /\ WF_vars(Cycle)
    /\ \A p \in Ports : SF_vars(p \in Sent /\ SendUpdate(TRUE))
-----------------------------------------------------------------------------
(* Properties.                                                             *)

\* No user is billed for traffic he did not have, whatever stops, restarts and
\* failures come between two pushes (no shared port).
NotOverbilled == \A p \in Ports : billed[p] <= used[p]

\* "last_update_transfer: the traffic of the last update, less than or equal to
\* the actual traffic" (db_transfer.py:24), and between them what was read the
\* last time; else the difference of two pushes would not be traffic.  A user
\* that is to be pushed by force is excepted: his relay has been stopped.
UpdateBelowActual ==
    \A p \in Ports \ force_update_transfer :
        /\ last_get_transfer[p] # None =>
              At(last_update_transfer, p) <= last_get_transfer[p]
        /\ At(last_update_transfer, p) <= own[p] + shared[p]

\* "update_transfer = self.update_all_user(dt_transfer)  # returns the table of
\* those that were updated" (db_transfer.py:71): traffic counts as pushed only
\* when the database has it (if it has the user).
UpdatedIsBilled ==
    [][\A p \in rows :
          At(last_update_transfer', p) > At(last_update_transfer, p) =>
             billed'[p] - billed[p] =
                At(last_update_transfer', p) - At(last_update_transfer, p)]_vars

\* clear_cache deletes from force_update_transfer, a set, as if it were a
\* dictionary, which raises: no user that is gone may be in it.
GoneIsNotForced == phase = "apply" => Gone \cap force_update_transfer = {}

\* Traffic of a port that keeps running is billed in the end, however small it
\* is, though the database fails again and again.
EventuallyBilled ==
    \A p \in Ports, n \in 1 .. MaxTraffic : (used[p] >= n) ~> (billed[p] >= n)
=============================================================================
