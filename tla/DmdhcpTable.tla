----------------------------- MODULE DmdhcpTable -----------------------------
(***************************************************************************)
(* The lease table of dmdhcp with everybody who takes its mutex or the     *)
(* lock of one of its leases:                                              *)
(*   an application thread  in dmdhcp_start(), _release() and _stop();     *)
(*   an interface           its rx pump, which delivers DHCP datagrams and *)
(*                          ARP replies in the order they arrived;         *)
(*   a lease                the worker of its two timers, which runs the   *)
(*                          conflict probe with the lock held;             *)
(*   a visitor              dmdns or dmntp asking for servers;             *)
(*   the unloader           dmod_init() and dmod_deinit().                 *)
(* Each of them is one thread, and the thread of a pump or of a worker is  *)
(* named by its interface or its lease.  The state machine of a lease is   *)
(* reduced to what decides who holds which lock; DmdhcpLease has all of    *)
(* it.  A section nobody can wait inside is one action.                    *)
(***************************************************************************)
EXTENDS Naturals, Sequences, Functions

CONSTANTS
  Ifaces, Leases, Apps, Visitors, Unloader,   \* disjoint sets of threads
  Nobody, NoLease, NoIface,
  CallbackStops,   \* threads whose callbacks may call dmdhcp_stop()
  Served,          \* interfaces on which a DHCP server answers
  QuietUnload,     \* TRUE: no visit and no handler is running during dmod_deinit()
  MaxFrames        \* bound: frames waiting at an interface

Threads == Ifaces \cup Leases \cup Apps \cup Visitors \cup {Unloader}

ASSUME TableAssumption ==
  /\ Unloader \notin Ifaces \cup Leases \cup Apps \cup Visitors
  /\ Ifaces \cap Leases = {} /\ Ifaces \cap Apps = {} /\ Ifaces \cap Visitors = {}
  /\ Leases \cap Apps = {} /\ Leases \cap Visitors = {} /\ Apps \cap Visitors = {}
  /\ Nobody \notin Threads
  /\ NoLease \notin Leases
  /\ NoIface \notin Ifaces
  /\ CallbackStops \subseteq Ifaces \cup Leases
  /\ Served \subseteq Ifaces
  /\ QuietUnload \in BOOLEAN
  /\ MaxFrames \in Nat

VARIABLES
  module,     \* unloaded, loaded, unloading
  g_leases,   \* the table: leases in the order they were inserted
  g_mutex,    \* g_leases_mutex: its holder
  iface,      \* interface of a lease; NoIface: the memory is free
  magic,      \* leases whose magic is set
  state,      \* of a lease: init, waiting (for a reply), checking, held, failed
  armed,      \* leases one of whose timers is running
  lock,       \* lease->lock: its holder
  handles,    \* leases the application may use: started, and not stopped
  pc,
  at,         \* the lease a thread is working on
  index, count,  \* of the walk of a visitor
  frames,     \* frames at an interface, not yet taken by its pump
  reply       \* answer to the probe of a lease: none, arrived, noted by dmarp

table == <<module, g_leases, g_mutex>>
leaseVars == <<iface, magic, state, armed, handles>>
walk == <<index, count>>
arp == <<frames, reply>>
vars == <<table, leaseVars, lock, pc, at, walk, arp>>
-----------------------------------------------------------------------------
Goto(t, label) == pc' = [pc EXCEPT ![t] = label]
GotoAt(t, label, l) == Goto(t, label) /\ at' = [at EXCEPT ![t] = l]

Allocated(l) == iface[l] # NoIface
Tabled == Range(g_leases)

\* The list without its k-th element.
RemoveAt(s, k) == SubSeq(s, 1, k - 1) \o SubSeq(s, k + 1, Len(s))

\* Where a thread waits for the mutex of the table, and where for a lease.
TableLabels == {"insert", "remove", "find", "visit"}
LeaseLabels == {"begin", "unapply", "lock", "lost", "restart", "relock"}

\* Who has to move before t can: a holder, or a worker that is to be joined.
WaitsFor(t) ==
  {u \in Threads :
     \/ pc[t] \in TableLabels /\ g_mutex = u
     \/ pc[t] \in LeaseLabels /\ at[t] # NoLease /\ lock[at[t]] = u
     \/ pc[t] = "join" /\ at[t] = u /\ pc[u] # "idle"}

\* t gets the mutex of the table, or the lock of its lease.
TableFree(t, label) == pc[t] = label /\ g_mutex = Nobody
LeaseFree(t, label) == pc[t] = label /\ Allocated(at[t]) /\ lock[at[t]] = Nobody

-----------------------------------------------------------------------------
\* What a thread goes back to when dmdhcp_stop() or a step of the deinit is done:
\* the pump and the application leave, the worker is still inside its callback.
AfterStop(t) == IF t = Unloader THEN "pop" ELSE IF t \in Leases THEN "relock" ELSE "idle"

\* destroy_with_context(), context normal: the magic is cleared and the timers are
\* stopped; then their worker is joined.
destroy_begin(t) ==
  /\ magic' = magic \ {at[t]}
  /\ armed' = armed \ {at[t]}
  /\ Goto(t, "join")

\* No thread remembers the block: the allocator hands it out only then.
Forgotten(l) == \A t \in Threads : at[t] # l

(* dmdhcp_start() *)
start_create(a, l, i) ==
  /\ pc[a] = "idle" /\ module = "loaded"
  /\ ~Allocated(l) /\ pc[l] = "idle" /\ Forgotten(l)
  /\ iface' = [iface EXCEPT ![l] = i]
  /\ magic' = magic \cup {l}
  /\ state' = [state EXCEPT ![l] = "init"]
  /\ GotoAt(a, "insert", l)
  /\ UNCHANGED <<table, armed, handles, lock, walk, arp>>

\* Mutant: the caller has looked for a lease of the interface; the insertion does not.
start_insert_unchecked(a) ==
  /\ TableFree(a, "insert")
  /\ \/ /\ g_leases' = Append(g_leases, at[a])
        /\ Goto(a, "begin")
        /\ UNCHANGED <<magic, armed>>
     \/ destroy_begin(a) /\ UNCHANGED g_leases
  /\ UNCHANGED <<module, g_mutex, iface, state, handles, lock, at, walk, arp>>

\* -EEXIST when the interface has a lease, -ENOMEM when the list cannot grow:
\* the new lease, which nobody else has seen, is destroyed.
start_insert(a) ==
  /\ TableFree(a, "insert")
  /\ \/ /\ \A l \in Tabled : iface[l] # iface[at[a]]
        /\ g_leases' = Append(g_leases, at[a])
        /\ Goto(a, "begin")
        /\ UNCHANGED <<magic, armed>>
     \/ destroy_begin(a) /\ UNCHANGED g_leases
  /\ UNCHANGED <<module, g_mutex, iface, state, handles, lock, at, walk, arp>>

\* start_reboot or start_discovery, and the handle is returned.
start_begin(a) ==
  /\ LeaseFree(a, "begin")
  /\ state' = [state EXCEPT ![at[a]] = "waiting"]
  /\ armed' = armed \cup {at[a]}
  /\ handles' = handles \cup {at[a]}
  /\ GotoAt(a, "idle", NoLease)
  /\ UNCHANGED <<table, iface, magic, lock, walk, arp>>

(* dmdhcp_stop() and dmdhcp_release(), by the application or by its callback. *)
stop_begin(t, l) ==
  /\ l \in handles /\ l \in magic
  /\ \/ t \in Apps /\ pc[t] = "idle" /\ module = "loaded"
     \/ t \in CallbackStops /\ pc[t] = "callback" /\ at[t] = l
  /\ handles' = handles \ {l}
  /\ GotoAt(t, "remove", l)
  /\ UNCHANGED <<table, iface, magic, state, armed, lock, walk, arp>>

\* Mutant: the lease is taken out without the mutex.
table_remove_unlocked(t) ==
  /\ pc[t] = "remove"
  /\ IF at[t] \in Tabled
       THEN \E k \in DOMAIN g_leases : g_leases[k] = at[t] /\ g_leases' = RemoveAt(g_leases, k)
       ELSE UNCHANGED g_leases
  /\ Goto(t, "unapply")
  /\ UNCHANGED <<module, g_mutex, leaseVars, lock, at, walk, arp>>

table_remove(t) ==
  /\ TableFree(t, "remove")
  /\ IF at[t] \in Tabled
       THEN \E k \in DOMAIN g_leases : g_leases[k] = at[t] /\ g_leases' = RemoveAt(g_leases, k)
       ELSE UNCHANGED g_leases
  /\ Goto(t, "unapply")
  /\ UNCHANGED <<module, g_mutex, leaseVars, lock, at, walk, arp>>

\* DHCPRELEASE and the unapply, under the lock; neither touches what is kept here.
teardown_unapply(t) ==
  /\ LeaseFree(t, "unapply")
  /\ destroy_begin(t)
  /\ UNCHANGED <<table, iface, state, handles, lock, at, walk, arp>>

destroy_join(t) ==
  /\ pc[t] = "join" /\ pc[at[t]] = "idle"
  /\ iface' = [iface EXCEPT ![at[t]] = NoIface]
  /\ state' = [state EXCEPT ![at[t]] = "init"]
  /\ armed' = armed \ {at[t]}
  /\ lock' = [lock EXCEPT ![at[t]] = Nobody]
  /\ GotoAt(t, AfterStop(t), NoLease)
  /\ UNCHANGED <<table, magic, handles, walk, arp>>
-----------------------------------------------------------------------------
(* The rx pump of interface i *)
\* A server's datagram for the lease of i arrives.
dhcp_arrives(i) ==
  /\ i \in Served
  /\ Len(frames[i]) < MaxFrames
  /\ frames' = [frames EXCEPT ![i] = Append(@, "dhcp")]
  /\ UNCHANGED <<table, leaseVars, lock, pc, at, walk, reply>>

\* The host that uses the probed address answers, in time.
arp_arrives(l) ==
  /\ pc[l] = "probe" /\ Allocated(l) /\ reply[l] = "none"
  /\ Len(frames[iface[l]]) < MaxFrames
  /\ frames' = [frames EXCEPT ![iface[l]] = Append(@, "arp")]
  /\ reply' = [reply EXCEPT ![l] = "arrived"]
  /\ UNCHANGED <<table, leaseVars, lock, pc, at, walk>>

pump_take(i) ==
  /\ pc[i] = "idle" /\ frames[i] # <<>>
  /\ frames' = [frames EXCEPT ![i] = Tail(@)]
  /\ \/ /\ Head(frames[i]) = "arp"
        /\ reply' = [l \in Leases |->
                       IF iface[l] = i /\ reply[l] = "arrived" THEN "noted" ELSE reply[l]]
        /\ UNCHANGED pc
     \/ /\ Head(frames[i]) = "dhcp"
        /\ Goto(i, IF module = "loaded" THEN "find" ELSE "idle")
        /\ UNCHANGED reply
  /\ UNCHANGED <<table, leaseVars, lock, at, walk>>

\* Mutant: the return that finds a lease leaves the mutex locked.
find_by_xid_keeps_mutex(i) ==
  /\ TableFree(i, "find")
  /\ \/ \E l \in Tabled : iface[l] = i /\ GotoAt(i, "lock", l) /\ g_mutex' = i
     \/ (\A l \in Tabled : iface[l] # i) /\ GotoAt(i, "idle", NoLease) /\ UNCHANGED g_mutex
  /\ UNCHANGED <<module, g_leases, leaseVars, lock, walk, arp>>

\* dmdhcp_lease_table_find_by_xid(): the mutex is released before the lock is taken.
find_by_xid(i) ==
  /\ TableFree(i, "find")
  /\ \/ \E l \in Tabled : iface[l] = i /\ GotoAt(i, "lock", l)
     \/ (\A l \in Tabled : iface[l] # i) /\ GotoAt(i, "idle", NoLease)
  /\ UNCHANGED <<table, leaseVars, lock, walk, arp>>

\* dmdhcp_handle_datagram() with the lock: an OFFER or a first ACK hands over to the
\* timer, a first NAK starts again; an ACK renews, a NAK ends the lease; anything
\* else is ignored.
handle_locked(i) ==
  /\ i \in Ifaces /\ LeaseFree(i, "lock")
  /\ LET l == at[i] IN
     \/ /\ state[l] = "waiting"
        /\ \E s \in {"checking", "waiting"} : state' = [state EXCEPT ![l] = s]
        /\ armed' = armed \cup {l}
        /\ GotoAt(i, "idle", NoLease)
     \/ /\ state[l] = "held"
        /\ armed' = armed \cup {l}
        /\ Goto(i, "callback")
        /\ UNCHANGED <<state, at>>
     \/ /\ state[l] = "held"
        /\ Goto(i, "lost")
        /\ UNCHANGED <<state, armed, at>>
     \/ /\ GotoAt(i, "idle", NoLease)
        /\ UNCHANGED <<state, armed>>
  /\ UNCHANGED <<table, iface, magic, handles, lock, walk, arp>>

\* on_bound has returned; the handler does not touch the lease again.
pump_return(i) ==
  /\ i \in Ifaces /\ pc[i] = "callback"
  /\ GotoAt(i, "idle", NoLease)
  /\ UNCHANGED <<table, leaseVars, lock, walk, arp>>

\* The lease was freed while the pump was on its way to its lock.
pump_abandon(i) ==
  /\ i \in Ifaces /\ pc[i] \in {"lock", "lost", "restart"} /\ ~Allocated(at[i])
  /\ GotoAt(i, "idle", NoLease)
  /\ UNCHANGED <<table, leaseVars, lock, walk, arp>>

(* dmdhcp_lifecycle_handle_lost(), by the pump or the worker: the lock is taken for  *)
(* the unapply, dropped for on_expired_or_lost, and taken for the new discovery.     *)
lost_unapply(t) ==
  /\ LeaseFree(t, "lost")
  /\ Goto(t, "restart")
  /\ UNCHANGED <<table, leaseVars, lock, at, walk, arp>>

lost_restart(t) ==
  /\ LeaseFree(t, "restart")
  /\ state' = [state EXCEPT ![at[t]] = "waiting"]
  /\ armed' = armed \cup {at[t]}
  /\ GotoAt(t, "idle", NoLease)
  /\ UNCHANGED <<table, iface, magic, handles, lock, walk, arp>>
-----------------------------------------------------------------------------
(* The worker of the timers of l *)
timer_fire(l) ==
  /\ l \in armed /\ pc[l] = "idle"
  /\ armed' = armed \ {l}
  /\ IF l \in magic THEN GotoAt(l, "lock", l) ELSE UNCHANGED <<pc, at>>
  /\ UNCHANGED <<table, iface, magic, state, handles, lock, walk, arp>>

\* The probe is run with the lock held; a resend, or a stale fire, is over at once.
retransmit_timer_callback(l) ==
  /\ l \in Leases /\ LeaseFree(l, "lock")
  /\ \/ /\ state[l] = "checking"
        /\ lock' = [lock EXCEPT ![l] = l]
        /\ reply' = [reply EXCEPT ![l] = "none"]
        /\ Goto(l, "probe")
        /\ UNCHANGED <<armed, at>>
     \/ /\ state[l] # "checking"
        /\ armed' = IF state[l] = "waiting" THEN armed \cup {l} ELSE armed
        /\ GotoAt(l, "idle", NoLease)
        /\ UNCHANGED <<lock, reply>>
  /\ UNCHANGED <<table, iface, magic, state, handles, walk, frames>>

\* T1 and T2 send a request and arm the next deadline; the last one ends the lease.
lease_timer_callback(l) ==
  /\ l \in Leases /\ LeaseFree(l, "lock") /\ state[l] = "held"
  /\ \/ armed' = armed \cup {l} /\ GotoAt(l, "idle", NoLease)
     \/ Goto(l, "lost") /\ UNCHANGED <<armed, at>>
  /\ UNCHANGED <<table, iface, magic, state, handles, lock, walk, arp>>

\* The pump of i cannot go on before the probe of l is over.
HeldUp(i, l) == l \in WaitsFor(i) \/ \E t \in WaitsFor(i) : l \in WaitsFor(t)

\* Mutant: the callback is called with the lock held.
probe_end_locked(l, s) ==
  /\ pc[l] = "probe"
  /\ state' = [state EXCEPT ![l] = s]
  /\ lock' = [lock EXCEPT ![l] = IF s = "waiting" THEN Nobody ELSE l]
  /\ reply' = [reply EXCEPT ![l] = "none"]
  /\ armed' = IF s = "failed" THEN armed ELSE armed \cup {l}
  /\ IF s = "waiting" THEN GotoAt(l, "idle", NoLease) ELSE Goto(l, "callback") /\ UNCHANGED at
  /\ UNCHANGED <<table, iface, magic, handles, walk, frames>>

\* The lock is dropped around the callback; a retry or a next request keeps it to the end.
probe_end(l, s) ==
  /\ pc[l] = "probe"
  /\ state' = [state EXCEPT ![l] = s]
  /\ lock' = [lock EXCEPT ![l] = Nobody]
  /\ reply' = [reply EXCEPT ![l] = "none"]
  /\ armed' = IF s = "failed" THEN armed ELSE armed \cup {l}
  /\ IF s = "waiting" THEN GotoAt(l, "idle", NoLease) ELSE Goto(l, "callback") /\ UNCHANGED at
  /\ UNCHANGED <<table, iface, magic, handles, walk, frames>>

handle_conflict(l) ==
  /\ reply[l] = "noted"
  /\ \E s \in {"waiting", "failed"} : probe_end(l, s)

\* dmarp_resolve() timed out.  A second is long beside the handling of a frame, so
\* an answer that has arrived is left behind only by a pump that is held up.
probe_clean(l) ==
  /\ reply[l] = "none" \/ (reply[l] = "arrived" /\ HeldUp(iface[l], l))
  /\ \E s \in {"waiting", "held"} : probe_end(l, s)

worker_relock(l) ==
  /\ l \in Leases /\ pc[l] = "callback"
  /\ Goto(l, "relock")
  /\ UNCHANGED <<table, leaseVars, lock, at, walk, arp>>

worker_return(l) ==
  /\ LeaseFree(l, "relock")
  /\ GotoAt(l, "idle", NoLease)
  /\ UNCHANGED <<table, leaseVars, lock, walk, arp>>
-----------------------------------------------------------------------------
(* A visit: dmdhcp_get_ntp_servers(), and the DNS and NTP walks of the table *)
visit_begin(v) ==
  /\ pc[v] = "idle"
  /\ module = "loaded" \/ (module = "unloading" /\ ~QuietUnload)
  /\ Goto(v, "visit")
  /\ UNCHANGED <<table, leaseVars, lock, at, walk, arp>>

visit_lock(v) ==
  /\ TableFree(v, "visit")
  /\ g_mutex' = v
  /\ count' = [count EXCEPT ![v] = Len(g_leases)]
  /\ Goto(v, "walk")
  /\ UNCHANGED <<module, g_leases, leaseVars, lock, at, index, arp>>

\* dmlist_get() is NULL behind the end of the list, and a dead lease is passed over.
visit_next(v) ==
  /\ pc[v] = "walk" /\ index[v] < count[v]
  /\ IF index[v] < Len(g_leases) /\ g_leases[index[v] + 1] \in magic
       THEN GotoAt(v, "lock", g_leases[index[v] + 1]) /\ UNCHANGED index
       ELSE index' = [index EXCEPT ![v] = @ + 1] /\ UNCHANGED <<pc, at>>
  /\ UNCHANGED <<table, leaseVars, lock, count, arp>>

visit_lease(v) ==
  /\ v \in Visitors /\ LeaseFree(v, "lock")
  /\ lock' = [lock EXCEPT ![at[v]] = v]
  /\ Goto(v, "visiting")
  /\ UNCHANGED <<table, leaseVars, at, walk, arp>>

visit_leave(v) ==
  /\ pc[v] = "visiting"
  /\ lock' = [lock EXCEPT ![at[v]] = Nobody]
  /\ index' = [index EXCEPT ![v] = @ + 1]
  /\ GotoAt(v, "walk", NoLease)
  /\ UNCHANGED <<table, leaseVars, count, arp>>

visit_end(v) ==
  /\ pc[v] = "walk" /\ index[v] >= count[v]
  /\ g_mutex' = Nobody
  /\ index' = [index EXCEPT ![v] = 0]
  /\ count' = [count EXCEPT ![v] = 0]
  /\ Goto(v, "idle")
  /\ UNCHANGED <<module, g_leases, leaseVars, lock, at, arp>>
-----------------------------------------------------------------------------
(* dmod_init() and dmod_deinit(); a module in use by an application is not unloaded. *)
dmod_init ==
  /\ module = "unloaded" /\ pc[Unloader] = "idle"
  /\ module' = "loaded"
  /\ UNCHANGED <<g_leases, g_mutex, leaseVars, lock, pc, at, walk, arp>>

dmod_deinit ==
  /\ module = "loaded"
  /\ \A a \in Apps : pc[a] = "idle"
  /\ QuietUnload => \A t \in Visitors \cup Ifaces : pc[t] = "idle"
  /\ module' = "unloading"
  /\ Goto(Unloader, "pop")
  /\ UNCHANGED <<g_leases, g_mutex, leaseVars, lock, at, walk, arp>>

\* dmdhcp_lease_table_deinit(): the list is emptied without its mutex.
deinit_pop ==
  /\ pc[Unloader] = "pop" /\ g_leases # <<>>
  /\ g_leases' = Tail(g_leases)
  /\ handles' = handles \ {Head(g_leases)}
  /\ GotoAt(Unloader, "unapply", Head(g_leases))
  /\ UNCHANGED <<module, g_mutex, iface, magic, state, armed, lock, walk, arp>>

deinit_end ==
  /\ pc[Unloader] = "pop" /\ g_leases = <<>>
  /\ module' = "unloaded"
  /\ g_mutex' = Nobody
  /\ Goto(Unloader, "idle")
  /\ UNCHANGED <<g_leases, leaseVars, lock, at, walk, arp>>
-----------------------------------------------------------------------------
Init ==
  /\ module = "unloaded" /\ g_leases = <<>> /\ g_mutex = Nobody
  /\ iface = [l \in Leases |-> NoIface] /\ magic = {} /\ armed = {} /\ handles = {}
  /\ state = [l \in Leases |-> "init"]
  /\ lock = [l \in Leases |-> Nobody]
  /\ pc = [t \in Threads |-> "idle"] /\ at = [t \in Threads |-> NoLease]
  /\ index = [v \in Visitors |-> 0] /\ count = [v \in Visitors |-> 0]
  /\ frames = [i \in Ifaces |-> <<>>] /\ reply = [l \in Leases |-> "none"]

teardown(t) == table_remove(t) \/ teardown_unapply(t) \/ destroy_join(t)
app(a) == start_insert(a) \/ start_begin(a)
lost(t) == lost_unapply(t) \/ lost_restart(t)
pump(i) == pump_take(i) \/ find_by_xid(i) \/ handle_locked(i) \/ pump_return(i)
             \/ pump_abandon(i) \/ lost(i)
worker(l) == timer_fire(l) \/ retransmit_timer_callback(l) \/ lease_timer_callback(l)
               \/ handle_conflict(l) \/ probe_clean(l) \/ worker_relock(l) \/ worker_return(l)
               \/ lost(l)
visitor(v) == visit_lock(v) \/ visit_next(v) \/ visit_lease(v) \/ visit_leave(v) \/ visit_end(v)
unloader == deinit_pop \/ deinit_end

Next ==
  \/ \E a \in Apps, l \in Leases, i \in Ifaces : start_create(a, l, i)
  \/ \E t \in Threads, l \in Leases : stop_begin(t, l)
  \/ \E t \in Threads : teardown(t)
  \/ \E a \in Apps : app(a)
  \/ \E i \in Ifaces : pump(i) \/ dhcp_arrives(i)
  \/ \E l \in Leases : worker(l) \/ arp_arrives(l)
  \/ \E v \in Visitors : visitor(v) \/ visit_begin(v)
  \/ dmod_init \/ dmod_deinit \/ unloader

Spec == Init /\ [][Next]_vars
-----------------------------------------------------------------------------
\* The labels of the code.
Label == TableLabels \cup LeaseLabels \cup
           {"idle", "join", "callback", "probe", "walk", "visiting", "pop"}

TableTypes ==
  /\ module \in {"unloaded", "loaded", "unloading"}
  /\ g_leases \in Seq(Leases)
  /\ g_mutex \in Visitors \cup {Nobody}
LeaseTypes ==
  /\ iface \in [Leases -> Ifaces \cup {NoIface}]
  /\ magic \subseteq Leases /\ armed \subseteq Leases /\ handles \subseteq Leases
  /\ state \in [Leases -> {"init", "waiting", "checking", "held", "failed"}]
LockTypes == lock \in [Leases -> Leases \cup Visitors \cup {Nobody}]
ThreadTypes == pc \in [Threads -> Label] /\ at \in [Threads -> Leases \cup {NoLease}]
WalkTypes == index \in [Visitors -> Nat] /\ count \in [Visitors -> Nat]
ArpTypes ==
  /\ frames \in [Ifaces -> Seq({"dhcp", "arp"})]
  /\ reply \in [Leases -> {"none", "arrived", "noted"}]

\* Types: the holder of a lock is a thread that may hold it across a step, and every
\* thread is at a label of the code.
TypeOK == TableTypes /\ LeaseTypes /\ LockTypes /\ ThreadTypes /\ WalkTypes /\ ArpTypes

\* However dmdhcp_start(), _stop() and the deinit interleave, no interface has two
\* leases in the table, and a lease in the table is neither freed nor dead: the check
\* and the insertion are one section of the mutex, and the lease leaves the table
\* before it is destroyed.
OneLeasePerIface ==
  /\ \A j, k \in DOMAIN g_leases : iface[g_leases[j]] = iface[g_leases[k]] => j = k
  /\ \A j \in DOMAIN g_leases : Allocated(g_leases[j]) /\ g_leases[j] \in magic

\* dmdhcp.md: "the table lock is never taken while a lease lock is held.  So a lease
\* cannot be torn down while it is being visited."  During a visit the table exists and
\* does not change, and the lease the visitor waits for or is looking at is the one at
\* its index, allocated and alive.
VisitSafe ==
  \A v \in Visitors : pc[v] \in {"walk", "lock", "visiting"} =>
    /\ module = "loaded"
    /\ count[v] = Len(g_leases)
    /\ pc[v] # "walk" =>
         /\ index[v] < count[v]
         /\ at[v] = g_leases[index[v] + 1]
         /\ Allocated(at[v]) /\ at[v] \in magic

\* No thread waits for itself, directly or through others: for the mutex of the table,
\* the lock of a lease, or the end of the worker a teardown joins.  dmdhcp.md: "A timer
\* callback must never destroy its own timer".
NoCircularWait ==
  \A S \in SUBSET {t \in Threads : WaitsFor(t) # {}} :
    (\A t \in S : WaitsFor(t) \cap S # {}) => S = {}

\* dmdhcp.md moves the probe to the timer thread so that the rx pump stays free to
\* deliver the answer: a probe never ends with an answer that has arrived unseen.
ConflictNoticed ==
  [][\A l \in Leases : pc[l] = "probe" /\ pc'[l] # "probe" => reply[l] # "arrived"]_vars
=============================================================================
