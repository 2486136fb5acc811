-------------------------- MODULE DmdhcpTableProofs --------------------------
(***************************************************************************)
(* The lease table has one lease per interface and visits of it are safe,  *)
(* for any number of interfaces, leases, application threads and visitors, *)
(* and whatever the callbacks stop, as long as nothing but the timers is   *)
(* under way when the module is unloaded.                                  *)
(***************************************************************************)
EXTENDS DmdhcpTableLocks

\* The threads that start or tear down a lease: each has one the application cannot name
\* any more, and which is in the table only in between.
Owning(t) == pc[t] \in {"insert", "begin", "remove", "unapply", "join"}

OwnsLease(t) == Owning(t) =>
  /\ at[t] \in Leases /\ at[t] \notin handles
  /\ Allocated(at[t])
  /\ pc[t] \in {"insert", "unapply", "join"} => at[t] \notin Tabled
  /\ pc[t] = "insert" => at[t] \in magic
  /\ pc[t] = "begin" => at[t] \in Tabled

\* A worker whose callback stops its own lease waits for itself; the deinit can pop the
\* lease meanwhile, and then waits for that worker.
Shares(t, u) == t \in Leases /\ u = Unloader
OneOwner ==
  \A t, u \in Threads : Owning(t) /\ Owning(u) /\ at[t] = at[u] =>
    t = u \/ Shares(t, u) \/ Shares(u, t)

Owners ==
  /\ \A t \in Threads : OwnsLease(t)
  /\ OneOwner
  /\ handles \subseteq Tabled

Unloading ==
  /\ module # "loaded" => \A t \in Apps \cup Ifaces \cup Visitors : pc[t] = "idle"
  /\ module # "unloading" => pc[Unloader] = "idle"

WalkerHolds == \A v \in Visitors : Walking(v) => g_mutex = v

TableRest == OneLeasePerIface /\ Owners /\ Unloading /\ WalkerHolds /\ VisitSafe
TableInv == LockInv /\ TableRest
-----------------------------------------------------------------------------
(* What a step leaves as it is *)

USE Zenon

Moved(t, label, l) == Others(t) /\ pc'[t] = label /\ at'[t] = l

\* Goto() moves one thread, which keeps its lease.
LEMMA GotoMoves ==
  ASSUME LockInv, NEW t \in Threads, NEW label, Goto(t, label), UNCHANGED at
  PROVE  Moved(t, label, at[t])
  BY DEF LockInv, TypeOK, ThreadTypes, Goto, Moved, Others

\* GotoAt() moves one thread to a lease.
LEMMA GotoAtMoves ==
  ASSUME LockInv, NEW t \in Threads, NEW label, NEW l, GotoAt(t, label, l)
  PROVE  Moved(t, label, l)
  BY DEF LockInv, TypeOK, ThreadTypes, Goto, GotoAt, Moved, Others

\* A thread of the table is of one kind, and is where its kind can be.
LEMMA KindOf ==
  ASSUME LockInv, NEW t \in Threads
  PROVE  /\ MayBeAt(t, pc[t]) /\ at[t] \in Leases \cup {NoLease}
         /\ t \in Leases /\ pc[t] # "idle" => at[t] = t
  BY LockParts DEF Places, Placed, HasLease

\* What is in the table is a lease, and has a place in it.
LEMMA InTable ==
  ASSUME LockInv
  PROVE  /\ \A j \in DOMAIN g_leases : g_leases[j] \in Tabled
         /\ \A l \in Tabled : l \in Leases /\ \E j \in DOMAIN g_leases : g_leases[j] = l
<1>1. \A j \in DOMAIN g_leases : g_leases[j] \in Leases
  BY LockParts, SMT DEF DataTypes, TableTypes
<1> QED  BY <1>1, SMT DEF Tabled, Range

\* The leases in the table are allocated and alive; so are those the application has.
LEMMA TabledAlive ==
  ASSUME TableInv
  PROVE  /\ \A l \in Tabled : l \in Leases /\ Allocated(l) /\ l \in magic
         /\ handles \subseteq Tabled
<1>1. LockInv /\ OneLeasePerIface /\ handles \subseteq Tabled
  BY DEF TableInv, TableRest, Owners
<1>2. \A j \in DOMAIN g_leases : Allocated(g_leases[j]) /\ g_leases[j] \in magic
  BY <1>1 DEF OneLeasePerIface
<1>3. ASSUME NEW l \in Tabled
      PROVE  l \in Leases /\ Allocated(l) /\ l \in magic
  <2>1. PICK j \in DOMAIN g_leases : g_leases[j] = l
    BY <1>1, InTable
  <2> QED  BY <1>1, <1>2, <2>1, InTable
<1> QED  BY <1>1, <1>3

\* The leases in the table stay what they are.
Alive == \A l \in Tabled : iface'[l] = iface[l] /\ l \in magic'

\* A step that leaves the list and its leases alone leaves one lease per interface.
LEMMA OneLeaseKept ==
  ASSUME TableInv, UNCHANGED g_leases, Alive
  PROVE  OneLeasePerIface'
<1>1. \A j \in DOMAIN g_leases : g_leases[j] \in Tabled
  BY InTable DEF TableInv
<1>2. OneLeasePerIface
  BY DEF TableInv, TableRest
<1>3. \A j \in DOMAIN g_leases : iface'[g_leases[j]] = iface[g_leases[j]] /\ g_leases[j] \in magic'
  BY <1>1 DEF Alive
<1>4. ASSUME NEW j \in DOMAIN g_leases, NEW k \in DOMAIN g_leases,
             iface'[g_leases[j]] = iface'[g_leases[k]]
      PROVE  j = k
  <2>1. iface[g_leases[j]] = iface[g_leases[k]]
    BY <1>3, <1>4
  <2> QED  BY <1>2, <2>1 DEF OneLeasePerIface
<1>5. ASSUME NEW j \in DOMAIN g_leases
      PROVE  Allocated(g_leases[j])' /\ g_leases[j] \in magic'
  <2>1. Allocated(g_leases[j])
    BY <1>2 DEF OneLeasePerIface
  <2> QED  BY <1>3, <2>1 DEF Allocated
<1> QED  BY <1>4, <1>5 DEF OneLeasePerIface

\* Nobody is walking: nothing to say about visits.
LEMMA NoWalk ==
  ASSUME NEW t \in Threads, Others(t), t \in Visitors => ~Walking(t)',
         \A v \in Visitors : ~Walking(v)
  PROVE  WalkerHolds' /\ VisitSafe'
<1>1. \A v \in Visitors : v \in Threads
  BY DEF Threads
<1>2. \A v \in Visitors : ~Walking(v)'
  BY <1>1 DEF Others, Walking
<1> QED  BY <1>2 DEF WalkerHolds, VisitSafe, Walking

\* Where a visitor is: its lease is in the table.
LEMMA VisitedTabled ==
  ASSUME TableInv, NEW v \in Visitors, pc[v] \in {"lock", "visiting"}
  PROVE  at[v] \in Tabled
<1>1. index[v] < Len(g_leases) /\ at[v] = g_leases[index[v] + 1]
  BY DEF TableInv, TableRest, VisitSafe
<1>2. index[v] \in Nat /\ g_leases \in Seq(Leases) /\ LockInv
  BY LockParts DEF TableInv, DataTypes, WalkTypes, TableTypes
<1>3. index[v] + 1 \in DOMAIN g_leases
  BY <1>1, <1>2, SMT
<1> QED  BY <1>1, <1>2, <1>3, InTable

\* A step of somebody else during a walk, when it leaves the table and its leases alone.
LEMMA VisitsKept ==
  ASSUME TableInv, NEW t \in Threads, t \notin Visitors, Others(t),
         UNCHANGED <<module, g_leases, g_mutex, index, count>>, Alive
  PROVE  WalkerHolds' /\ VisitSafe'
<1>1. \A v \in Visitors : pc'[v] = pc[v] /\ at'[v] = at[v]
  BY DEF Threads, Others
<1>2. WalkerHolds'
  BY <1>1 DEF TableInv, TableRest, WalkerHolds, Walking
<1>3. ASSUME NEW v \in Visitors, pc'[v] \in {"walk", "lock", "visiting"}
      PROVE  /\ module' = "loaded"
             /\ count'[v] = Len(g_leases')
             /\ pc'[v] # "walk" =>
                  /\ index'[v] < count'[v]
                  /\ at'[v] = g_leases'[index'[v] + 1]
                  /\ Allocated(at[v])' /\ at'[v] \in magic'
  <2>1. /\ module = "loaded" /\ count[v] = Len(g_leases)
        /\ pc[v] # "walk" => index[v] < count[v] /\ at[v] = g_leases[index[v] + 1]
    BY <1>1, <1>3 DEF TableInv, TableRest, VisitSafe
  <2>2. pc[v] # "walk" => at[v] \in Tabled
    BY <1>1, <1>3, VisitedTabled
  <2>3. pc[v] # "walk" => Allocated(at[v])' /\ at'[v] \in magic'
    BY <1>1, <2>2, TabledAlive DEF Alive, Allocated
  <2> QED  BY <1>1, <2>1, <2>3
<1>4. VisitSafe'
  BY <1>3 DEF VisitSafe
<1> QED  BY <1>2, <1>4

\* The module is loaded or not as before, and who must be idle meanwhile is.
LEMMA UnloadingKept ==
  ASSUME TableInv, NEW t \in Threads, Others(t), UNCHANGED module,
         t \in Apps \cup Ifaces \cup Visitors => module = "loaded" \/ pc'[t] = "idle",
         t = Unloader => module = "unloading" \/ pc'[t] = "idle"
  PROVE  Unloading'
<1>1. \A u \in Apps \cup Ifaces \cup Visitors \cup {Unloader} : u \in Threads
  BY DEF Threads
<1> QED  BY <1>1 DEF TableInv, TableRest, Unloading, Others

\* All leases but x stay what they are to their owners.
SameBut(x) ==
  \A l \in Leases : l # x =>
    /\ iface'[l] = iface[l]
    /\ l \in handles' => l \in handles
    /\ l \in Tabled' <=> l \in Tabled
    /\ l \in magic => l \in magic'

\* The threads that stand still go on owning what they own, when only x changes hands.
LEMMA OthersOwn ==
  ASSUME TableInv, NEW t \in Threads, Others(t), NEW x, SameBut(x),
         \A u \in Threads : u # t /\ Owning(u) /\ at[u] = x => OwnsLease(u)'
  PROVE  \A u \in Threads : u # t => OwnsLease(u)'
<1> SUFFICES ASSUME NEW u \in Threads, u # t, Owning(u), at[u] # x
             PROVE  OwnsLease(u)'
  BY DEF Others, OwnsLease, Owning
<1>1. pc'[u] = pc[u] /\ at'[u] = at[u]
  BY DEF Others
<1>2. OwnsLease(u)
  BY DEF TableInv, TableRest, Owners
<1>3. /\ at[u] \in Leases /\ at[u] \notin handles' /\ Allocated(at[u])'
      /\ at[u] \in Tabled' <=> at[u] \in Tabled
      /\ at[u] \in magic => at[u] \in magic'
  BY <1>1, <1>2 DEF SameBut, OwnsLease, Allocated
<1> QED  BY <1>1, <1>2, <1>3 DEF OwnsLease, Owning

\* Nobody gets a lease that somebody else owns.
LEMMA OneOwnerKept ==
  ASSUME TableInv, NEW t \in Threads, Others(t),
         \/ ~Owning(t)'
         \/ Owning(t) /\ at'[t] = at[t]
         \/ \A u \in Threads : u # t /\ Owning(u) /\ at[u] = at'[t] => Shares(u, t)
  PROVE  OneOwner'
<1>1. OneOwner
  BY DEF TableInv, TableRest, Owners
<1>2. \A u \in Threads : u # t => (Owning(u)' <=> Owning(u)) /\ at'[u] = at[u]
  BY DEF Others, Owning
<1>3. ASSUME NEW u \in Threads, NEW w \in Threads, Owning(u)', Owning(w)', at'[u] = at'[w], u # w
      PROVE  Shares(u, w) \/ Shares(w, u)
  BY <1>1, <1>2, <1>3 DEF OneOwner
<1> QED  BY <1>3 DEF OneOwner, Shares

\* A step that neither starts nor tears down a lease leaves the owners as they are.
LEMMA OwnersKept ==
  ASSUME TableInv, NEW t \in Threads, Others(t), ~Owning(t)',
         UNCHANGED <<g_leases, iface, magic, handles>>
  PROVE  Owners'
<1>1. SameBut(NoLease)
  BY DEF SameBut, Tabled
<1>2. \A u \in Threads : Owning(u) => at[u] # NoLease
  BY TableAssumption DEF TableInv, TableRest, Owners, OwnsLease
<1>3. \A u \in Threads : u # t => OwnsLease(u)'
  BY <1>1, <1>2, OthersOwn
<1>4. OwnsLease(t)'
  BY DEF OwnsLease
<1>5. OneOwner'
  BY OneOwnerKept
<1>6. handles' \subseteq Tabled'
  BY DEF TableInv, TableRest, Owners, Tabled
<1> QED  BY <1>3, <1>4, <1>5, <1>6 DEF Owners

\* Such a step of anybody but a visitor.
LEMMA PlainMove ==
  ASSUME TableInv, NEW t \in Threads, t \notin Visitors, Others(t), ~Owning(t)',
         t \in Apps \cup Ifaces => module = "loaded" \/ pc'[t] = "idle",
         t = Unloader => module = "unloading" \/ pc'[t] = "idle",
         UNCHANGED <<module, g_leases, g_mutex, iface, magic, handles, index, count>>
  PROVE  TableRest'
<1>1. Alive
  BY TabledAlive DEF Alive
<1>2. OneLeasePerIface'
  BY <1>1, OneLeaseKept
<1>3. WalkerHolds' /\ VisitSafe'
  BY <1>1, VisitsKept
<1>4. Unloading'
  BY UnloadingKept
<1> QED  BY <1>2, <1>3, <1>4, OwnersKept DEF TableRest
-----------------------------------------------------------------------------
(* The steps of each kind of thread *)

\* What is running when the module is not loaded is the unloader, or a timer.
LEMMA LoadedWhile ==
  ASSUME TableInv, NEW t \in Apps \cup Ifaces \cup Visitors, pc[t] # "idle"
  PROVE  module = "loaded"
  BY DEF TableInv, TableRest, Unloading

\* The rx pump.
LEMMA PumpStep ==
  ASSUME TableInv, NEW i \in Ifaces, pump(i)
  PROVE  TableRest'
<1>0. i \in Threads /\ i \notin Visitors /\ i # Unloader /\ LockInv
  BY TableAssumption DEF Threads, TableInv
<1>1. UNCHANGED <<module, g_leases, g_mutex, iface, magic, handles, index, count>>
  BY DEF pump, lost, pump_take, find_by_xid, handle_locked, pump_return, pump_abandon, lost_unapply,
     lost_restart, table, leaseVars, walk
<1>2. PICK label \in {"idle", "find", "lock", "callback", "lost", "restart"},
           l \in Leases \cup {NoLease} :
        Moved(i, label, l) /\ (module = "loaded" \/ label = "idle")
  <2>1. pc[i] # "idle" => module = "loaded"
    BY LoadedWhile
  <2>2. at[i] \in Leases \cup {NoLease}
    BY <1>0, KindOf
  <2>3. CASE pump_take(i)
    <3>1. CASE UNCHANGED pc
      BY <1>0, <2>2, <2>3, <3>1 DEF pump_take, Moved, Others
    <3>2. CASE Goto(i, IF module = "loaded" THEN "find" ELSE "idle")
      BY <1>0, <2>2, <2>3, <3>2, GotoMoves DEF pump_take
    <3> QED  BY <2>3, <3>1, <3>2 DEF pump_take
  <2>4. CASE find_by_xid(i)
    <3>1. \A l \in Tabled : l \in Leases
      BY <1>0, InTable
    <3> QED  BY <1>0, <2>1, <2>4, <3>1, GotoAtMoves DEF find_by_xid, TableFree
  <2>5. CASE handle_locked(i)
    BY <1>0, <2>1, <2>2, <2>5, GotoMoves, GotoAtMoves DEF handle_locked, LeaseFree
  <2>6. CASE pump_return(i) \/ pump_abandon(i)
    BY <1>0, <2>6, GotoAtMoves DEF pump_return, pump_abandon
  <2>7. CASE lost(i)
    BY <1>0, <2>1, <2>2, <2>7, GotoMoves, GotoAtMoves DEF lost, lost_unapply, lost_restart, LeaseFree
  <2> QED  BY <2>3, <2>4, <2>5, <2>6, <2>7 DEF pump
<1>3. ~Owning(i)'
  BY <1>2 DEF Moved, Owning
<1> QED  BY <1>0, <1>1, <1>2, <1>3, PlainMove DEF Moved

\* The worker of the timers.
LEMMA WorkerStep ==
  ASSUME TableInv, NEW l \in Leases, worker(l)
  PROVE  TableRest'
<1>0. /\ l \in Threads /\ l \notin Visitors /\ l \notin Apps \cup Ifaces /\ l # Unloader
      /\ LockInv
  BY TableAssumption DEF Threads, TableInv
<1>1. UNCHANGED <<module, g_leases, g_mutex, iface, magic, handles, index, count>>
  <2>1. CASE handle_conflict(l) \/ probe_clean(l)
    BY <2>1 DEF handle_conflict, probe_clean, probe_end, table, walk
  <2>2. CASE lost(l)
    BY <2>2 DEF lost, lost_unapply, lost_restart, table, leaseVars, walk
  <2> QED
    BY <2>1, <2>2 DEF worker, timer_fire, retransmit_timer_callback, lease_timer_callback,
       worker_relock, worker_return, table, leaseVars, walk
<1>2. PICK label \in {"idle", "lock", "probe", "callback", "relock", "lost", "restart"},
           k \in Leases \cup {NoLease} : Moved(l, label, k)
  <2>1. at[l] \in Leases \cup {NoLease}
    BY <1>0, KindOf
  <2>2. CASE timer_fire(l)
    <3>1. CASE UNCHANGED <<pc, at>>
      BY <2>1, <2>2, <3>1 DEF timer_fire, Moved, Others
    <3>2. CASE GotoAt(l, "lock", l)
      BY <1>0, <3>2, GotoAtMoves
    <3> QED  BY <2>2, <3>1, <3>2 DEF timer_fire
  <2>3. CASE retransmit_timer_callback(l)
    BY <1>0, <2>1, <2>3, GotoMoves, GotoAtMoves DEF retransmit_timer_callback
  <2>4. CASE lease_timer_callback(l)
    BY <1>0, <2>1, <2>4, GotoMoves, GotoAtMoves DEF lease_timer_callback
  <2>5. CASE handle_conflict(l) \/ probe_clean(l)
    BY <1>0, <2>1, <2>5, GotoMoves, GotoAtMoves DEF handle_conflict, probe_clean, probe_end
  <2>6. CASE worker_relock(l) \/ worker_return(l)
    BY <1>0, <2>1, <2>6, GotoMoves, GotoAtMoves DEF worker_relock, worker_return
  <2>7. CASE lost(l)
    BY <1>0, <2>1, <2>7, GotoMoves, GotoAtMoves DEF lost, lost_unapply, lost_restart
  <2> QED  BY <2>2, <2>3, <2>4, <2>5, <2>6, <2>7 DEF worker
<1>3. ~Owning(l)'
  BY <1>2 DEF Moved, Owning
<1> QED  BY <1>0, <1>1, <1>2, <1>3, PlainMove DEF Moved

\* The leases in the table after dmlist_push_back().
LEMMA RangeAppend ==
  ASSUME NEW S, NEW s \in Seq(S), NEW e \in S
  PROVE  Range(Append(s, e)) = Range(s) \cup {e}
<1>1. /\ DOMAIN Append(s, e) = 1..Len(s) + 1 /\ DOMAIN s = 1..Len(s)
      /\ \A j \in 1..Len(s) : Append(s, e)[j] = s[j]
      /\ Append(s, e)[Len(s) + 1] = e
  BY SMT
<1>2. ASSUME NEW x \in Range(Append(s, e)) PROVE x \in Range(s) \cup {e}
  BY <1>1, SMT DEF Range
<1>3. ASSUME NEW x \in Range(s) PROVE x \in Range(Append(s, e))
  <2>1. PICK j \in 1..Len(s) : x = s[j]
    BY <1>1 DEF Range
  <2> QED  BY <1>1, <2>1, SMT DEF Range
<1>4. e \in Range(Append(s, e))
  <2>1. Len(s) + 1 \in DOMAIN Append(s, e)
    BY <1>1, SMT
  <2> QED  BY <1>1, <2>1 DEF Range
<1> QED  BY <1>2, <1>3, <1>4

\* A lease of an interface without one is put in the table.
LEMMA OneLeaseMore ==
  ASSUME TableInv, NEW e \in Leases, g_leases' = Append(g_leases, e), Allocated(e), e \in magic,
         \A l \in Tabled : iface[l] # iface[e], UNCHANGED <<iface, magic>>
  PROVE  OneLeasePerIface'
<1>1. g_leases \in Seq(Leases) /\ LockInv /\ OneLeasePerIface
  BY LockParts DEF TableInv, TableRest, DataTypes, TableTypes
<1>2. \A j \in DOMAIN g_leases : iface[g_leases[j]] # iface[e]
  BY <1>1, InTable
<1>3. /\ DOMAIN g_leases' = 1..Len(g_leases) + 1 /\ DOMAIN g_leases = 1..Len(g_leases)
      /\ \A j \in 1..Len(g_leases) : g_leases'[j] = g_leases[j]
      /\ g_leases'[Len(g_leases) + 1] = e /\ Len(g_leases) \in Nat
  BY <1>1, SMT
<1>4. \A j \in DOMAIN g_leases' : j \in DOMAIN g_leases \/ j = Len(g_leases) + 1
  BY <1>3, SMT
<1>5. ASSUME NEW j \in DOMAIN g_leases', NEW k \in DOMAIN g_leases',
             iface[g_leases'[j]] = iface[g_leases'[k]]
      PROVE  j = k
  <2>1. CASE j \in DOMAIN g_leases /\ k \in DOMAIN g_leases
    <3>1. iface[g_leases[j]] = iface[g_leases[k]]
      BY <1>3, <1>5, <2>1
    <3> QED  BY <1>1, <2>1, <3>1 DEF OneLeasePerIface
  <2>2. CASE j \in DOMAIN g_leases /\ k = Len(g_leases) + 1
    BY <1>2, <1>3, <1>5, <2>2
  <2>3. CASE j = Len(g_leases) + 1 /\ k \in DOMAIN g_leases
    BY <1>2, <1>3, <1>5, <2>3
  <2> QED  BY <1>4, <2>1, <2>2, <2>3
<1>6. ASSUME NEW j \in DOMAIN g_leases'
      PROVE  Allocated(g_leases'[j]) /\ g_leases'[j] \in magic
  BY <1>1, <1>3, <1>4, <1>6 DEF OneLeasePerIface
<1> QED  BY <1>5, <1>6 DEF OneLeasePerIface, Allocated

\* Who waits for the mutex of the table and gets it: nobody is walking.
LEMMA TableFreeNoWalk ==
  ASSUME TableInv, g_mutex = Nobody
  PROVE  \A v \in Visitors : ~Walking(v)
  BY TableAssumption DEF TableInv, TableRest, WalkerHolds, Threads

\* What an owner knows of its lease.
LEMMA OwnerKnows ==
  ASSUME TableInv, NEW t \in Threads, Owning(t)
  PROVE  /\ OwnsLease(t) /\ t \notin Visitors
         /\ \A u \in Threads : u # t /\ Owning(u) /\ at[u] = at[t] => Shares(t, u) \/ Shares(u, t)
<1>1. t \notin Visitors
  BY KindOf, OneKind DEF TableInv, Owning
<1> QED  BY <1>1 DEF TableInv, TableRest, Owners, OneOwner

\* dmdhcp_start().
LEMMA StartStep ==
  ASSUME TableInv, NEW a \in Apps,
         \/ \E l \in Leases, i \in Ifaces : start_create(a, l, i)
         \/ app(a)
  PROVE  TableRest'
<1>0. a \in Threads /\ a \notin Visitors /\ a \notin Leases /\ a # Unloader /\ LockInv
  BY TableAssumption DEF Threads, TableInv
<1>1. ASSUME NEW l \in Leases, NEW i \in Ifaces, start_create(a, l, i)
      PROVE  TableRest'
  <2>1. Moved(a, "insert", l) /\ module = "loaded" /\ Others(a)
    BY <1>0, <1>1, GotoAtMoves DEF start_create, Moved
  <2>2. UNCHANGED <<module, g_leases, g_mutex, handles, index, count>>
    BY <1>1 DEF start_create, table, walk
  <2>3. l \notin Tabled /\ l \notin handles /\ \A t \in Threads : at[t] # l
    BY <1>1, TabledAlive DEF start_create, Forgotten
  <2>4. /\ \A k \in Leases : k # l => iface'[k] = iface[k]
        /\ iface'[l] = i /\ magic' = magic \cup {l}
    BY <1>0, <1>1, LockParts DEF start_create, DataTypes, LeaseTypes
  <2>5. Alive
    BY <2>3, <2>4, TabledAlive DEF Alive
  <2>6. SameBut(l)
    BY <2>2, <2>4 DEF SameBut, Tabled
  <2>7. \A u \in Threads : u # a => OwnsLease(u)'
    BY <1>0, <2>1, <2>3, <2>6, OthersOwn
  <2>8. OwnsLease(a)'
    BY <2>1, <2>2, <2>3, <2>4, TableAssumption DEF Moved, OwnsLease, Owning, Allocated, Tabled
  <2>9. OneOwner'
    BY <1>0, <2>1, <2>3, OneOwnerKept DEF Moved
  <2>10. Owners'
    BY <2>2, <2>7, <2>8, <2>9, TabledAlive DEF Owners, Tabled
  <2>11. OneLeasePerIface' /\ WalkerHolds' /\ VisitSafe' /\ Unloading'
    BY <1>0, <2>1, <2>2, <2>5, OneLeaseKept, VisitsKept, UnloadingKept
  <2> QED  BY <2>10, <2>11 DEF TableRest
<1>2. ASSUME start_insert(a)
      PROVE  TableRest'
  <2>1. /\ pc[a] = "insert" /\ g_mutex = Nobody /\ Owning(a)
        /\ UNCHANGED <<module, g_mutex, iface, handles, at>>
    BY <1>2 DEF start_insert, TableFree, Owning
  <2>2. module = "loaded"
    BY <2>1, LoadedWhile
  <2>3. /\ at[a] \in Leases /\ at[a] \notin handles /\ at[a] \notin Tabled /\ Allocated(at[a])
        /\ at[a] \in magic
        /\ \A u \in Threads : u # a => ~(Owning(u) /\ at[u] = at[a])
    BY <1>0, <2>1, OwnerKnows DEF OwnsLease, Shares
  <2>4. ASSUME NEW label \in {"begin", "join"}, Goto(a, label), SameBut(at[a]), OwnsLease(a)',
               handles \subseteq Tabled', OneLeasePerIface'
        PROVE  TableRest'
    <3>1. Moved(a, label, at[a]) /\ Others(a)
      BY <1>0, <2>1, <2>4, GotoMoves DEF Moved
    <3>2. \A u \in Threads : u # a => OwnsLease(u)'
      BY <1>0, <2>3, <2>4, <3>1, OthersOwn
    <3>3. OneOwner'
      BY <1>0, <2>1, <3>1, OneOwnerKept DEF Moved
    <3>4. Owners'
      BY <2>1, <2>4, <3>2, <3>3 DEF Owners
    <3>5. WalkerHolds' /\ VisitSafe'
      BY <1>0, <2>1, <3>1, TableFreeNoWalk, NoWalk
    <3>6. Unloading'
      BY <1>0, <2>1, <2>2, <3>1, UnloadingKept
    <3> QED  BY <2>4, <3>4, <3>5, <3>6 DEF TableRest
  <2>5. CASE g_leases' = Append(g_leases, at[a]) /\ Goto(a, "begin") /\ UNCHANGED <<magic, armed>>
               /\ \A l \in Tabled : iface[l] # iface[at[a]]
    <3>1. Tabled' = Tabled \cup {at[a]}
      <4>1. g_leases \in Seq(Leases)
        BY <1>0, LockParts DEF DataTypes, TableTypes
      <4>2. Range(Append(g_leases, at[a])) = Range(g_leases) \cup {at[a]}
        BY <2>3, <4>1, RangeAppend, SMT
      <4> QED  BY <2>5, <4>2 DEF Tabled
    <3>2. OneLeasePerIface'
      BY <2>1, <2>3, <2>5, OneLeaseMore
    <3>3. SameBut(at[a])
      BY <2>1, <2>5, <3>1 DEF SameBut
    <3>4. pc'[a] = "begin"
      BY <1>0, <2>1, <2>5, GotoMoves DEF Moved
    <3>5. OwnsLease(a)'
      BY <2>1, <2>3, <3>1, <3>4 DEF OwnsLease, Allocated
    <3> QED  BY <2>4, <2>5, <3>1, <3>2, <3>3, <3>5, TabledAlive
  <2>6. CASE destroy_begin(a) /\ UNCHANGED g_leases
    <3>1. magic' = magic \ {at[a]} /\ Goto(a, "join") /\ Tabled' = Tabled
      BY <2>6 DEF destroy_begin, Tabled
    <3>2. SameBut(at[a])
      BY <2>1, <3>1 DEF SameBut
    <3>3. Alive
      BY <2>1, <2>3, <3>1, TabledAlive DEF Alive
    <3>4. OneLeasePerIface'
      BY <2>6, <3>3, OneLeaseKept
    <3>5. pc'[a] = "join"
      BY <1>0, <2>1, <3>1, GotoMoves DEF Moved
    <3>6. OwnsLease(a)'
      BY <2>1, <2>3, <3>1, <3>5 DEF OwnsLease, Allocated
    <3> QED  BY <2>4, <3>1, <3>2, <3>4, <3>6, TabledAlive
  <2> QED  BY <1>2, <2>5, <2>6 DEF start_insert
<1>3. ASSUME start_begin(a)
      PROVE  TableRest'
  <2>0. Moved(a, "idle", NoLease)
    BY <1>0, <1>3, GotoAtMoves DEF start_begin
  <2>1. Others(a) /\ pc'[a] = "idle" /\ ~Owning(a)'
    BY <2>0 DEF Moved, Owning
  <2>2. /\ pc[a] = "begin" /\ Owning(a) /\ handles' = handles \cup {at[a]}
        /\ UNCHANGED <<module, g_leases, g_mutex, iface, magic, index, count>>
    BY <1>3 DEF start_begin, LeaseFree, Owning, table, walk
  <2>3. at[a] \in Tabled /\ \A u \in Threads : u # a => ~(Owning(u) /\ at[u] = at[a])
    BY <1>0, <2>2, OwnerKnows DEF OwnsLease, Shares
  <2>4. SameBut(at[a]) /\ Alive
    BY <2>2, TabledAlive DEF SameBut, Tabled, Alive
  <2>5. \A u \in Threads : OwnsLease(u)'
    BY <1>0, <2>1, <2>3, <2>4, OthersOwn DEF OwnsLease
  <2>6. OneOwner'
    BY <1>0, <2>1, OneOwnerKept
  <2>7. Owners'
    BY <2>2, <2>3, <2>5, <2>6, TabledAlive DEF Owners, Tabled
  <2>8. OneLeasePerIface' /\ WalkerHolds' /\ VisitSafe' /\ Unloading'
    BY <1>0, <2>1, <2>2, <2>4, OneLeaseKept, VisitsKept, UnloadingKept
  <2> QED  BY <2>7, <2>8 DEF TableRest
<1> QED  BY <1>1, <1>2, <1>3 DEF app

\* The table after dmlist_remove(): a lease less, and the others are still one to an
\* interface.
LEMMA OneLeaseLess ==
  ASSUME TableInv, NEW m \in DOMAIN g_leases, g_leases' = RemoveAt(g_leases, m),
         UNCHANGED <<iface, magic>>
  PROVE  OneLeasePerIface' /\ Tabled' = Tabled \ {g_leases[m]}
<1> DEFINE n == Len(g_leases)
           old(j) == IF j < m THEN j ELSE j + 1
<1>0. LockInv /\ OneLeasePerIface /\ g_leases \in Seq(Leases)
  BY LockParts DEF TableInv, TableRest, DataTypes, TableTypes
<1>1. n \in Nat /\ DOMAIN g_leases = 1..n /\ m \in 1..n
  BY <1>0, SMT
<1>2. /\ DOMAIN g_leases' = 1..n - 1
      /\ \A j \in 1..n - 1 : g_leases'[j] = g_leases[old(j)]
  <2>1. /\ RemoveAt(g_leases, m) \in Seq(Leases) /\ Len(RemoveAt(g_leases, m)) = n - 1
        /\ \A j \in 1..n - 1 :
             RemoveAt(g_leases, m)[j] = IF j < m THEN g_leases[j] ELSE g_leases[j + 1]
    BY <1>0, <1>1, RemoveAtSeq
  <2>2. DOMAIN RemoveAt(g_leases, m) = 1..n - 1
    BY <2>1, SMT
  <2> QED  BY <2>1, <2>2, SMT
<1> HIDE DEF n
<1>3. /\ \A j \in 1..n - 1 : old(j) \in 1..n /\ old(j) # m
      /\ \A j, k \in 1..n - 1 : old(j) = old(k) => j = k
      /\ \A k \in 1..n : k # m => \E j \in 1..n - 1 : old(j) = k
  <2>1. ASSUME NEW k \in 1..n, k # m
        PROVE  \E j \in 1..n - 1 : old(j) = k
    <3>1. CASE k < m
      BY <1>1, <3>1, SMT
    <3>2. CASE k > m
      <4>1. k - 1 \in 1..n - 1 /\ old(k - 1) = k
        BY <1>1, <3>2, SMT
      <4> QED  BY <4>1
    <3> QED  BY <1>1, <2>1, <3>1, <3>2, SMT
  <2> QED  BY <1>1, <2>1, SMT
<1> HIDE DEF old
<1>4. ASSUME NEW j \in DOMAIN g_leases', NEW k \in DOMAIN g_leases',
             iface'[g_leases'[j]] = iface'[g_leases'[k]]
      PROVE  j = k
  <2>1. iface[g_leases[old(j)]] = iface[g_leases[old(k)]]
    BY <1>2, <1>4
  <2>2. old(j) \in DOMAIN g_leases /\ old(k) \in DOMAIN g_leases
    BY <1>1, <1>2, <1>3
  <2>3. old(j) = old(k)
    BY <1>0, <2>1, <2>2 DEF OneLeasePerIface
  <2> QED  BY <1>2, <1>3, <2>3
<1>5. ASSUME NEW j \in DOMAIN g_leases'
      PROVE  iface'[g_leases'[j]] # NoIface /\ g_leases'[j] \in magic'
  <2>1. old(j) \in DOMAIN g_leases /\ g_leases'[j] = g_leases[old(j)]
    BY <1>1, <1>2, <1>3
  <2>2. iface[g_leases[old(j)]] # NoIface /\ g_leases[old(j)] \in magic
    BY <1>0, <2>1 DEF OneLeasePerIface, Allocated
  <2> QED  BY <2>1, <2>2
<1>6. ASSUME NEW x \in Tabled'
      PROVE  x \in Tabled /\ x # g_leases[m]
  <2>1. PICK j \in DOMAIN g_leases' : x = g_leases'[j]
    BY <1>6 DEF Tabled, Range
  <2>2. old(j) \in DOMAIN g_leases /\ old(j) # m /\ x = g_leases[old(j)]
    BY <1>1, <1>2, <1>3, <2>1
  <2>3. g_leases[old(j)] # g_leases[m]
    BY <1>0, <2>2 DEF OneLeasePerIface
  <2> QED  BY <1>0, <2>2, <2>3, InTable
<1>7. ASSUME NEW x \in Tabled, x # g_leases[m]
      PROVE  x \in Tabled'
  <2>1. PICK k \in DOMAIN g_leases : g_leases[k] = x
    BY <1>0, InTable
  <2>2. PICK j \in 1..n - 1 : old(j) = k
    BY <1>1, <1>3, <1>7, <2>1
  <2>3. j \in DOMAIN g_leases' /\ g_leases'[j] = x
    BY <1>2, <2>1, <2>2
  <2> QED  BY <2>3 DEF Tabled, Range
<1>8. OneLeasePerIface'
  BY <1>4, <1>5 DEF OneLeasePerIface, Allocated
<1> QED  BY <1>6, <1>7, <1>8

\* dmdhcp_stop() and dmdhcp_release() take the handle and leave the table to its mutex.
LEMMA StopStep ==
  ASSUME TableInv, NEW t \in Threads, NEW l \in Leases, stop_begin(t, l)
  PROVE  TableRest'
<1>0. LockInv /\ t \notin Visitors /\ t # Unloader
  BY TableAssumption DEF TableInv, stop_begin
<1>1. Moved(t, "remove", l)
  BY <1>0, GotoAtMoves DEF stop_begin
<1>2. Others(t) /\ pc'[t] = "remove" /\ at'[t] = l
  BY <1>1 DEF Moved
<1>3. /\ l \in handles /\ handles' = handles \ {l}
      /\ UNCHANGED <<module, g_leases, g_mutex, iface, magic, index, count>>
  BY DEF stop_begin, table, walk
<1>4. l \in Tabled /\ Allocated(l) /\ \A u \in Threads : ~(Owning(u) /\ at[u] = l)
  <2>1. \A u \in Threads : OwnsLease(u)
    BY DEF TableInv, TableRest, Owners
  <2> QED  BY <1>3, <2>1, TabledAlive DEF OwnsLease
<1>5. SameBut(l) /\ Alive
  BY <1>3, TabledAlive DEF SameBut, Tabled, Alive
<1>6. \A u \in Threads : u # t => OwnsLease(u)'
  BY <1>2, <1>4, <1>5, OthersOwn
<1>7. OwnsLease(t)'
  BY <1>2, <1>3, <1>4 DEF OwnsLease, Allocated
<1>8. OneOwner'
  BY <1>2, <1>4, OneOwnerKept
<1>9. Owners'
  BY <1>3, <1>6, <1>7, <1>8, TabledAlive DEF Owners, Tabled
<1>10. t \in Apps \cup Ifaces \cup Visitors => module = "loaded"
  <2>1. CASE pc[t] = "callback"
    BY <2>1, LoadedWhile
  <2> QED  BY <2>1 DEF stop_begin
<1>11. OneLeasePerIface' /\ WalkerHolds' /\ VisitSafe' /\ Unloading'
  BY <1>0, <1>2, <1>3, <1>5, <1>10, OneLeaseKept, VisitsKept, UnloadingKept
<1> QED  BY <1>9, <1>11 DEF TableRest

\* Where the owner of a lease goes to says nothing new of the module.
LEMMA OwnerUnloading ==
  ASSUME TableInv, NEW t \in Threads, Owning(t), Others(t), UNCHANGED module
  PROVE  Unloading'
<1>1. pc[t] # "idle"
  BY DEF Owning
<1>2. t \in Apps \cup Ifaces \cup Visitors => module = "loaded"
  BY <1>1, LoadedWhile
<1>3. t = Unloader => module = "unloading"
  BY <1>1 DEF TableInv, TableRest, Unloading
<1> QED  BY <1>2, <1>3, UnloadingKept

\* The destruction of a lease, from the table to the allocator.
LEMMA TeardownStep ==
  ASSUME TableInv, NEW t \in Threads, teardown(t)
  PROVE  TableRest'
<1>0. LockInv /\ Owning(t)
  BY DEF TableInv, teardown, table_remove, teardown_unapply, destroy_join, TableFree, LeaseFree,
     Owning
<1>1. /\ OwnsLease(t) /\ t \notin Visitors
      /\ at[t] \in Leases /\ at[t] \notin handles /\ Allocated(at[t])
      /\ \A u \in Threads : u # t /\ Owning(u) /\ at[u] = at[t] => Shares(t, u) \/ Shares(u, t)
  BY <1>0, OwnerKnows DEF OwnsLease
<1>2. ASSUME NEW u \in Threads, u # t, Owning(u), at[u] = at[t]
      PROVE  OwnsLease(u) /\ pc[u] \in {"remove", "unapply", "join"}
  <2>1. OwnsLease(u)
    BY <1>2, OwnerKnows
  <2>2. u \in Leases \/ u = Unloader
    BY <1>1, <1>2 DEF Shares
  <2>3. pc[u] \notin {"insert", "begin"}
    BY <1>0, <2>2, KindOf, OneKind DEF StopLabels
  <2> QED  BY <1>2, <2>1, <2>3 DEF Owning
<1>3. CASE table_remove(t)
  <2>1. Moved(t, "unapply", at[t])
    BY <1>0, <1>3, GotoMoves DEF table_remove
  <2>2. Others(t) /\ pc'[t] = "unapply" /\ at'[t] = at[t]
    BY <2>1 DEF Moved
  <2>3. g_mutex = Nobody /\ UNCHANGED <<module, iface, magic, handles>>
    BY <1>3 DEF table_remove, TableFree, leaseVars
  <2>4. OneLeasePerIface' /\ Tabled' = Tabled \ {at[t]}
    <3>1. CASE at[t] \in Tabled
      <4>1. PICK m \in DOMAIN g_leases : g_leases[m] = at[t] /\ g_leases' = RemoveAt(g_leases, m)
        BY <1>3, <3>1 DEF table_remove
      <4> QED  BY <2>3, <4>1, OneLeaseLess
    <3>2. CASE at[t] \notin Tabled
      <4>1. UNCHANGED g_leases
        BY <1>3, <3>2 DEF table_remove
      <4>2. Alive
        BY <2>3, TabledAlive DEF Alive
      <4>3. Tabled' = Tabled
        BY <4>1 DEF Tabled
      <4> QED  BY <3>2, <4>1, <4>2, <4>3, OneLeaseKept
    <3> QED  BY <3>1, <3>2
  <2>5. SameBut(at[t])
    BY <2>3, <2>4 DEF SameBut
  <2>6. ASSUME NEW u \in Threads, u # t, Owning(u), at[u] = at[t]
        PROVE  OwnsLease(u)'
    <3>1. pc'[u] = pc[u] /\ at'[u] = at[u]
      BY <2>2, <2>6 DEF Others
    <3> QED  BY <1>1, <1>2, <2>3, <2>4, <2>6, <3>1 DEF OwnsLease, Allocated
  <2>7. \A u \in Threads : u # t => OwnsLease(u)'
    BY <2>2, <2>5, <2>6, OthersOwn
  <2>8. OwnsLease(t)'
    BY <1>1, <2>2, <2>3, <2>4 DEF OwnsLease, Allocated
  <2>9. OneOwner'
    BY <1>0, <2>2, OneOwnerKept
  <2>10. Owners'
    BY <1>1, <2>3, <2>4, <2>7, <2>8, <2>9, TabledAlive DEF Owners
  <2>11. WalkerHolds' /\ VisitSafe'
    BY <1>1, <2>2, <2>3, TableFreeNoWalk, NoWalk
  <2>12. Unloading'
    BY <1>0, <2>2, <2>3, OwnerUnloading
  <2> QED  BY <2>4, <2>10, <2>11, <2>12 DEF TableRest
<1>4. CASE teardown_unapply(t)
  <2>1. Moved(t, "join", at[t])
    BY <1>0, <1>4, GotoMoves DEF teardown_unapply, destroy_begin
  <2>2. Others(t) /\ pc'[t] = "join" /\ at'[t] = at[t]
    BY <2>1 DEF Moved
  <2>3. /\ pc[t] = "unapply" /\ magic' = magic \ {at[t]}
        /\ UNCHANGED <<module, g_leases, g_mutex, iface, handles, index, count>>
    BY <1>4 DEF teardown_unapply, destroy_begin, LeaseFree, table, walk
  <2>4. at[t] \notin Tabled /\ Tabled' = Tabled
    BY <1>0, <1>1, <2>3 DEF OwnsLease, Tabled
  <2>5. SameBut(at[t]) /\ Alive
    BY <2>3, <2>4, TabledAlive DEF SameBut, Alive
  <2>6. ASSUME NEW u \in Threads, u # t, Owning(u), at[u] = at[t]
        PROVE  OwnsLease(u)'
    <3>1. pc'[u] = pc[u] /\ at'[u] = at[u]
      BY <2>2, <2>6 DEF Others
    <3> QED  BY <1>1, <1>2, <2>3, <2>4, <2>6, <3>1 DEF OwnsLease, Allocated
  <2>7. \A u \in Threads : u # t => OwnsLease(u)'
    BY <2>2, <2>5, <2>6, OthersOwn
  <2>8. OwnsLease(t)'
    BY <1>1, <2>2, <2>3, <2>4 DEF OwnsLease, Allocated
  <2>9. OneOwner'
    BY <1>0, <2>2, OneOwnerKept
  <2>10. Owners'
    BY <2>3, <2>4, <2>7, <2>8, <2>9, TabledAlive DEF Owners
  <2>11. OneLeasePerIface' /\ WalkerHolds' /\ VisitSafe'
    BY <1>1, <2>2, <2>3, <2>5, OneLeaseKept, VisitsKept
  <2>12. Unloading'
    BY <1>0, <2>2, <2>3, OwnerUnloading
  <2> QED  BY <2>10, <2>11, <2>12 DEF TableRest
<1>5. CASE destroy_join(t)
  <2>1. Moved(t, AfterStop(t), NoLease)
    BY <1>0, <1>5, GotoAtMoves DEF destroy_join
  <2>2. Others(t) /\ ~Owning(t)'
    BY <2>1 DEF Moved, AfterStop, Owning
  <2>3. /\ pc[t] = "join" /\ pc[at[t]] = "idle"
        /\ UNCHANGED <<module, g_leases, g_mutex, magic, handles, index, count>>
    BY <1>5 DEF destroy_join, table, walk
  <2>4. at[t] \notin Tabled /\ Tabled' = Tabled
    BY <1>0, <1>1, <2>3 DEF OwnsLease, Tabled
  <2>5. \A l \in Leases : l # at[t] => iface'[l] = iface[l]
    BY <1>0, <1>5, LockParts DEF destroy_join, DataTypes, LeaseTypes
  <2>6. SameBut(at[t]) /\ Alive
    BY <2>3, <2>4, <2>5, TabledAlive DEF SameBut, Alive
  \* Only the worker of the lease could own it too, and that has ended.
  <2>7. \A u \in Threads : u # t => ~(Owning(u) /\ at[u] = at[t])
    <3>1. ASSUME NEW u \in Threads, u \in Leases, u # at[t]
          PROVE  ~(Owning(u) /\ at[u] = at[t])
      BY <1>0, <3>1, KindOf DEF Owning
    <3>2. ~Owning(at[t])
      BY <2>3 DEF Owning
    <3>3. t \notin Leases
      BY <1>0, <2>3, KindOf
    <3> QED  BY <1>1, <3>1, <3>2, <3>3 DEF Shares
  <2>8. \A u \in Threads : OwnsLease(u)'
    BY <2>2, <2>6, <2>7, OthersOwn DEF OwnsLease
  <2>9. OneOwner'
    BY <2>2, OneOwnerKept
  <2>10. Owners'
    BY <2>3, <2>4, <2>8, <2>9, TabledAlive DEF Owners
  <2>11. OneLeasePerIface' /\ WalkerHolds' /\ VisitSafe'
    BY <1>1, <2>2, <2>3, <2>6, OneLeaseKept, VisitsKept
  <2>12. Unloading'
    BY <1>0, <2>2, <2>3, OwnerUnloading
  <2> QED  BY <2>10, <2>11, <2>12 DEF TableRest
<1> QED  BY <1>3, <1>4, <1>5 DEF teardown

\* A visit: its walk, and the lock of each lease in turn.
LEMMA VisitStep ==
  ASSUME TableInv, QuietUnload, NEW v \in Visitors, visitor(v) \/ visit_begin(v)
  PROVE  TableRest'
<1>0. v \in Threads /\ v \notin Leases /\ v # Unloader /\ v # Nobody /\ LockInv
  BY TableAssumption DEF Threads, TableInv
<1>1. UNCHANGED <<module, g_leases, iface, magic, handles>>
  BY DEF visitor, visit_begin, visit_lock, visit_next, visit_lease, visit_leave, visit_end, table,
     leaseVars
<1>2. module = "loaded"
  <2>1. CASE pc[v] # "idle"
    BY <2>1, LoadedWhile
  <2> QED
    BY <2>1 DEF visitor, visit_begin, visit_lock, visit_next, visit_lease, visit_leave, visit_end,
       TableFree, LeaseFree
<1>3. /\ index[v] \in Nat /\ count[v] \in Nat /\ g_leases \in Seq(Leases)
      /\ index \in [Visitors -> Nat] /\ count \in [Visitors -> Nat]
      /\ at[v] \in Leases \cup {NoLease}
  BY <1>0, LockParts, KindOf DEF DataTypes, WalkTypes, TableTypes
<1>4. Walking(v) => g_mutex = v /\ count[v] = Len(g_leases)
  BY DEF TableInv, TableRest, WalkerHolds, VisitSafe, Walking
<1>5. \A u \in Visitors : u # v /\ Walking(u) => g_mutex = u
  BY DEF TableInv, TableRest, WalkerHolds
\* What is left to show of each action: where the visitor goes, and what is true there.
<1>6. ASSUME NEW label \in {"idle", "visit", "walk", "lock", "visiting"},
             NEW l \in Leases \cup {NoLease}, Moved(v, label, l),
             \A u \in Visitors : u # v => index'[u] = index[u] /\ count'[u] = count[u],
             label \in {"walk", "lock", "visiting"} => g_mutex' = v /\ count'[v] = Len(g_leases),
             label \in {"lock", "visiting"} =>
               index'[v] < count'[v] /\ l = g_leases[index'[v] + 1] /\ l \in Tabled,
             UNCHANGED g_mutex \/ (g_mutex = Nobody) \/ (g_mutex = v)
      PROVE  TableRest'
  <2>1. Others(v) /\ pc'[v] = label /\ at'[v] = l
    BY <1>6 DEF Moved
  <2>2. ~Owning(v)'
    BY <1>6, <2>1 DEF Owning
  <2>3. Owners'
    BY <1>0, <1>1, <2>1, <2>2, OwnersKept
  <2>4. Alive
    BY <1>1, TabledAlive DEF Alive
  <2>5. OneLeasePerIface'
    BY <1>1, <2>4, OneLeaseKept
  <2>6. Unloading'
    BY <1>0, <1>1, <1>2, <2>1, UnloadingKept
  <2>7. \A u \in Visitors : u # v => u \in Threads /\ pc'[u] = pc[u] /\ at'[u] = at[u] /\ u # Nobody
    BY <2>1, TableAssumption DEF Others, Threads
  <2>8. WalkerHolds'
    <3>1. ASSUME NEW u \in Visitors, u # v, Walking(u)' PROVE g_mutex' = u
      <4>1. Walking(u)
        BY <2>7, <3>1 DEF Walking
      <4> QED  BY <1>5, <1>6, <2>7, <3>1, <4>1
    <3>2. Walking(v)' => g_mutex' = v
      BY <1>6, <2>1 DEF Walking
    <3> QED  BY <3>1, <3>2 DEF WalkerHolds
  <2>9. ASSUME NEW u \in Visitors, pc'[u] \in {"walk", "lock", "visiting"}
        PROVE  /\ module' = "loaded" /\ count'[u] = Len(g_leases')
               /\ pc'[u] # "walk" =>
                    /\ index'[u] < count'[u] /\ at'[u] = g_leases'[index'[u] + 1]
                    /\ iface'[at'[u]] # NoIface /\ at'[u] \in magic'
    <3>1. CASE u = v
      BY <1>1, <1>2, <1>6, <2>1, <2>9, <3>1, TabledAlive DEF Allocated
    <3>2. CASE u # v
      <4>1. /\ module = "loaded" /\ count[u] = Len(g_leases)
            /\ pc[u] # "walk" =>
                 /\ index[u] < count[u] /\ at[u] = g_leases[index[u] + 1]
                 /\ iface[at[u]] # NoIface /\ at[u] \in magic
        BY <2>7, <2>9, <3>2 DEF TableInv, TableRest, VisitSafe, Allocated
      <4> QED  BY <1>1, <1>6, <2>7, <3>2, <4>1
    <3> QED  BY <3>1, <3>2
  <2>10. VisitSafe'
    BY <2>9 DEF VisitSafe, Allocated
  <2> QED  BY <2>3, <2>5, <2>6, <2>8, <2>10 DEF TableRest
<1>7. CASE visit_begin(v)
  <2>1. Moved(v, "visit", at[v]) /\ UNCHANGED <<g_mutex, index, count>>
    BY <1>0, <1>7, GotoMoves DEF visit_begin, table, walk
  <2> QED  BY <1>3, <1>6, <2>1
<1>8. CASE visit_lock(v)
  <2>1. /\ Moved(v, "walk", at[v]) /\ g_mutex = Nobody /\ g_mutex' = v /\ UNCHANGED index
        /\ count' = [count EXCEPT ![v] = Len(g_leases)]
    BY <1>0, <1>8, GotoMoves DEF visit_lock, TableFree
  <2>2. count'[v] = Len(g_leases) /\ \A u \in Visitors : u # v => count'[u] = count[u]
    BY <1>3, <2>1
  <2> QED  BY <1>3, <1>6, <2>1, <2>2
<1>9. CASE visit_next(v)
  <2>1. /\ pc[v] = "walk" /\ UNCHANGED <<g_mutex, count>> /\ index[v] < count[v]
        /\ g_mutex = v /\ count[v] = Len(g_leases)
    BY <1>4, <1>9 DEF visit_next, table, Walking
  <2>2. CASE GotoAt(v, "lock", g_leases[index[v] + 1]) /\ UNCHANGED index
    <3>1. index[v] + 1 \in DOMAIN g_leases
      BY <1>3, <2>1, SMT
    <3>2. g_leases[index[v] + 1] \in Tabled /\ g_leases[index[v] + 1] \in Leases
      BY <1>0, <3>1, InTable
    <3>3. Moved(v, "lock", g_leases[index[v] + 1])
      BY <1>0, <2>2, GotoAtMoves
    <3> QED  BY <1>6, <2>1, <2>2, <3>2, <3>3
  <2>3. CASE index' = [index EXCEPT ![v] = @ + 1] /\ UNCHANGED <<pc, at>>
    <3>1. Moved(v, "walk", at[v])
      BY <2>1, <2>3 DEF Moved, Others
    <3>2. \A u \in Visitors : u # v => index'[u] = index[u]
      BY <1>3, <2>3
    <3> QED  BY <1>3, <1>6, <2>1, <3>1, <3>2
  <2> QED  BY <1>9, <2>2, <2>3 DEF visit_next
<1>10. CASE visit_lease(v)
  <2>1. Moved(v, "visiting", at[v]) /\ pc[v] = "lock" /\ UNCHANGED <<g_mutex, index, count>>
    BY <1>0, <1>10, GotoMoves DEF visit_lease, LeaseFree, table, walk
  <2>2. /\ g_mutex = v /\ count[v] = Len(g_leases) /\ index[v] < count[v]
        /\ at[v] = g_leases[index[v] + 1]
    BY <1>4, <2>1 DEF TableInv, TableRest, VisitSafe, Walking
  <2>3. at[v] \in Tabled
    BY <2>1, VisitedTabled
  <2> QED  BY <1>3, <1>6, <2>1, <2>2, <2>3
<1>11. CASE visit_leave(v)
  <2>1. /\ Moved(v, "walk", NoLease) /\ pc[v] = "visiting" /\ UNCHANGED <<g_mutex, count>>
        /\ index' = [index EXCEPT ![v] = @ + 1]
    BY <1>0, <1>11, GotoAtMoves DEF visit_leave, table
  <2>2. g_mutex = v /\ count[v] = Len(g_leases)
    BY <1>4, <2>1 DEF Walking
  <2>3. \A u \in Visitors : u # v => index'[u] = index[u]
    BY <1>3, <2>1
  <2> QED  BY <1>6, <2>1, <2>2, <2>3
<1>12. CASE visit_end(v)
  <2>1. /\ Moved(v, "idle", at[v]) /\ pc[v] = "walk"
        /\ index' = [index EXCEPT ![v] = 0] /\ count' = [count EXCEPT ![v] = 0]
    BY <1>0, <1>12, GotoMoves DEF visit_end
  <2>2. g_mutex = v
    BY <1>4, <2>1 DEF Walking
  <2>3. \A u \in Visitors : u # v => index'[u] = index[u] /\ count'[u] = count[u]
    BY <1>3, <2>1
  <2> QED  BY <1>3, <1>6, <2>1, <2>2, <2>3
<1> QED  BY <1>7, <1>8, <1>9, <1>10, <1>11, <1>12 DEF visitor

\* dmdhcp_lease_table_deinit() takes the first lease out.
LEMMA TailRemoves ==
  ASSUME NEW S, NEW s \in Seq(S), s # <<>>
  PROVE  1 \in DOMAIN s /\ Head(s) = s[1] /\ Tail(s) = RemoveAt(s, 1)
<1>1. /\ Len(s) \in Nat /\ 1 \in 1..Len(s) /\ DOMAIN s = 1..Len(s) /\ Head(s) = s[1]
      /\ Tail(s) \in Seq(S) /\ Len(Tail(s)) = Len(s) - 1
      /\ \A j \in 1..Len(s) - 1 : Tail(s)[j] = s[j + 1]
  BY SMT
<1>2. /\ RemoveAt(s, 1) \in Seq(S) /\ Len(RemoveAt(s, 1)) = Len(s) - 1
      /\ \A j \in 1..Len(s) - 1 : RemoveAt(s, 1)[j] = IF j < 1 THEN s[j] ELSE s[j + 1]
  BY <1>1, RemoveAtSeq
<1>3. \A j \in 1..Len(s) - 1 : RemoveAt(s, 1)[j] = Tail(s)[j]
  BY <1>1, <1>2, SMT
<1>4. Tail(s) = RemoveAt(s, 1)
  BY <1>1, <1>2, <1>3, SeqEqual, SMT
<1> QED  BY <1>1, <1>4

\* dmod_init() and dmod_deinit().
LEMMA UnloadStep ==
  ASSUME TableInv, QuietUnload, dmod_init \/ dmod_deinit \/ unloader
  PROVE  TableRest'
<1>0. /\ Unloader \in Threads /\ Unloader \notin Visitors /\ Unloader \notin Leases
      /\ Unloader \notin Apps \cup Ifaces
      /\ LockInv /\ Unloading
  BY TableAssumption DEF Threads, TableInv, TableRest
<1>1. \A u \in Apps \cup Ifaces \cup Visitors : u \in Threads /\ u # Unloader
  BY TableAssumption DEF Threads
<1>2. pc[Unloader] # "idle" => module = "unloading"
  BY <1>0 DEF Unloading
<1>3. \A u \in Apps \cup Ifaces \cup Visitors : pc[u] = "idle"
  <2>1. CASE dmod_deinit
    BY <2>1 DEF dmod_deinit
  <2>2. CASE module # "loaded"
    BY <1>0, <2>2 DEF Unloading
  <2> QED  BY <1>2, <2>1, <2>2 DEF dmod_init, unloader, deinit_pop, deinit_end
<1>4. \A w \in Visitors : ~Walking(w)
  BY <1>3 DEF Walking
<1>5. Alive /\ UNCHANGED <<iface, magic>>
  BY TabledAlive DEF Alive, dmod_init, dmod_deinit, unloader, deinit_pop, deinit_end, leaseVars
\* The table is left alone, and who must be idle is.
<1>6. ASSUME NEW label \in {"idle", "pop"}, Moved(Unloader, label, at[Unloader]),
             UNCHANGED <<g_leases, handles>>,
             label = "pop" => module' = "unloading",
             label = "idle" => module' # "unloading"
      PROVE  TableRest'
  <2>1. Others(Unloader) /\ pc'[Unloader] = label /\ ~Owning(Unloader)'
    BY <1>6 DEF Moved, Owning
  <2>2. Owners'
    BY <1>0, <1>5, <1>6, <2>1, OwnersKept
  <2>3. OneLeasePerIface'
    BY <1>5, <1>6, OneLeaseKept
  <2>4. WalkerHolds' /\ VisitSafe'
    BY <1>0, <1>4, <2>1, NoWalk
  <2>5. \A u \in Apps \cup Ifaces \cup Visitors : pc'[u] = "idle"
    BY <1>1, <1>3, <2>1 DEF Others
  <2>6. Unloading'
    BY <1>6, <2>1, <2>5 DEF Unloading
  <2> QED  BY <2>2, <2>3, <2>4, <2>6 DEF TableRest
<1>7. CASE dmod_init
  <2>1. Moved(Unloader, "idle", at[Unloader])
    BY <1>7 DEF dmod_init, Moved, Others
  <2> QED  BY <1>6, <1>7, <2>1 DEF dmod_init, leaseVars
<1>8. CASE dmod_deinit
  <2>1. Moved(Unloader, "pop", at[Unloader])
    BY <1>0, <1>8, GotoMoves DEF dmod_deinit
  <2> QED  BY <1>6, <1>8, <2>1 DEF dmod_deinit, leaseVars
<1>9. CASE deinit_end
  <2>1. Moved(Unloader, "idle", at[Unloader])
    BY <1>0, <1>9, GotoMoves DEF deinit_end
  <2> QED  BY <1>6, <1>9, <2>1 DEF deinit_end, leaseVars
<1>10. CASE deinit_pop
  <2> DEFINE l == Head(g_leases)
  <2>1. Moved(Unloader, "unapply", l)
    BY <1>0, <1>10, GotoAtMoves DEF deinit_pop
  <2>2. Others(Unloader) /\ pc'[Unloader] = "unapply" /\ at'[Unloader] = l
    BY <2>1 DEF Moved
  <2>3. /\ pc[Unloader] = "pop" /\ g_leases # <<>> /\ g_leases' = Tail(g_leases)
        /\ handles' = handles \ {l} /\ UNCHANGED <<module, g_mutex>>
    BY <1>10 DEF deinit_pop
  <2>4. 1 \in DOMAIN g_leases /\ l = g_leases[1] /\ g_leases' = RemoveAt(g_leases, 1)
    <3>1. g_leases \in Seq(Leases)
      BY <1>0, LockParts DEF DataTypes, TableTypes
    <3> QED  BY <2>3, <3>1, TailRemoves
  <2> HIDE DEF l
  <2>5. l \in Tabled /\ l \in Leases /\ Allocated(l)
    BY <1>0, <2>4, InTable, TabledAlive
  <2>6. OneLeasePerIface' /\ Tabled' = Tabled \ {l}
    BY <1>5, <2>4, OneLeaseLess
  <2>7. SameBut(l)
    BY <1>5, <2>3, <2>6 DEF SameBut
  \* Who owns the lease is its worker, whose callback is about to take it out.
  <2>8. ASSUME NEW u \in Threads, u # Unloader, Owning(u), at[u] = l
        PROVE  u \in Leases /\ OwnsLease(u)'
    <3>1. OwnsLease(u)
      BY <2>8, OwnerKnows
    <3>2. u \in Leases
      BY <1>3, <2>8 DEF Threads, Owning
    <3>3. pc[u] = "remove"
      BY <1>0, <2>5, <2>8, <3>1, <3>2, KindOf, OneKind DEF OwnsLease, Owning, StopLabels
    <3>4. pc'[u] = pc[u] /\ at'[u] = at[u]
      BY <2>2, <2>8 DEF Others
    <3> QED  BY <1>5, <2>3, <2>5, <2>8, <3>2, <3>3, <3>4 DEF OwnsLease, Allocated
  <2>9. \A u \in Threads : u # Unloader => OwnsLease(u)'
    BY <1>0, <2>2, <2>7, <2>8, OthersOwn
  <2>10. OwnsLease(Unloader)'
    BY <1>5, <2>2, <2>3, <2>5, <2>6 DEF OwnsLease, Allocated
  <2>11. OneOwner'
    BY <1>0, <2>2, <2>8, OneOwnerKept DEF Shares
  <2>12. Owners'
    BY <2>3, <2>6, <2>9, <2>10, <2>11, TabledAlive DEF Owners
  <2>13. WalkerHolds' /\ VisitSafe'
    BY <1>0, <1>4, <2>2, NoWalk
  <2>14. Unloading'
    BY <1>0, <1>2, <2>2, <2>3, UnloadingKept
  <2> QED  BY <2>6, <2>12, <2>13, <2>14 DEF TableRest
<1> QED  BY <1>7, <1>8, <1>9, <1>10 DEF unloader

\* A step that moves nobody leaves the table as it is.
LEMMA NothingMoves ==
  ASSUME TableInv, UNCHANGED <<table, iface, magic, handles, pc, at, walk>>
  PROVE  TableRest'
<1>1. UNCHANGED <<module, g_leases, g_mutex, index, count>>
  BY DEF table, walk
<1>2. Others(Unloader) /\ Unloader \in Threads /\ Unloader \notin Visitors
  BY TableAssumption DEF Others, Threads
<1>3. Alive
  BY TabledAlive DEF Alive
<1>4. OneLeasePerIface' /\ WalkerHolds' /\ VisitSafe'
  BY <1>1, <1>2, <1>3, OneLeaseKept, VisitsKept
<1>5. Unloading'
  BY <1>1 DEF TableInv, TableRest, Unloading
<1>6. Owners'
  BY <1>1 DEF TableInv, TableRest, Owners, OwnsLease, OneOwner, Owning, Allocated, Tabled
<1> QED  BY <1>4, <1>5, <1>6 DEF TableRest

\* The table keeps its invariant.
LEMMA TableStep ==
  ASSUME QuietUnload, TableInv, [Next]_vars
  PROVE  TableInv'
<1>1. LockInv'
  BY LockStep DEF TableInv
<1>2. CASE UNCHANGED vars
  <2>1. UNCHANGED <<table, iface, magic, handles, pc, at, walk>>
    BY <1>2 DEF vars, leaseVars
  <2> QED  BY <1>1, <2>1, NothingMoves DEF TableInv
<1>3. ASSUME NEW i \in Ifaces, dhcp_arrives(i)
      PROVE  TableRest'
  BY <1>3, NothingMoves DEF dhcp_arrives, leaseVars
<1>4. ASSUME NEW l \in Leases, arp_arrives(l)
      PROVE  TableRest'
  BY <1>4, NothingMoves DEF arp_arrives, leaseVars
<1>5. CASE Next
  <2>1. TableRest'
    BY <1>3, <1>4, <1>5, PumpStep, WorkerStep, StartStep, StopStep, TeardownStep, VisitStep,
       UnloadStep DEF Next
  <2> QED  BY <1>1, <2>1 DEF TableInv
<1> QED  BY <1>2, <1>5

\* An empty table is in order.
LEMMA TableInit ==
  ASSUME Init
  PROVE  TableInv
<1>1. LockInv
  BY LockInit
<1>2. DOMAIN g_leases = {}
  BY SMT DEF Init
<1>3. OneLeasePerIface
  BY <1>2 DEF OneLeasePerIface
<1>4. \A t \in Threads : pc[t] = "idle"
  BY DEF Init
<1>5. Owners
  BY <1>4 DEF Init, Owners, OwnsLease, OneOwner, Owning
<1>6. Unloading
  BY <1>4 DEF Unloading, Threads
<1>7. \A v \in Visitors : ~Walking(v)
  BY <1>4 DEF Walking, Threads
<1> QED  BY <1>1, <1>3, <1>5, <1>6, <1>7 DEF TableInv, TableRest, WalkerHolds, VisitSafe, Walking

\* For any number of interfaces, leases and threads, and whatever the callbacks stop: when
\* the module is unloaded with no visit and no handler running, no interface ever has two
\* leases, and nothing in the table is dead or freed.
THEOREM TableHasOneLeasePerIface ==
  ASSUME QuietUnload
  PROVE  Spec => []OneLeasePerIface
<1>1. Init => TableInv
  BY TableInit
<1>2. TableInv /\ [Next]_vars => TableInv'
  BY TableStep
<1>3. TableInv => OneLeasePerIface
  BY DEF TableInv, TableRest
<1>4. QED
  BY <1>1, <1>2, <1>3, PTL DEF Spec

\* Under the same assumption no lease is torn down, and the table does not change, while
\* a visitor is walking over it.
THEOREM VisitsAreSafe ==
  ASSUME QuietUnload
  PROVE  Spec => []VisitSafe
<1>1. Init => TableInv
  BY TableInit
<1>2. TableInv /\ [Next]_vars => TableInv'
  BY TableStep
<1>3. TableInv => VisitSafe
  BY DEF TableInv, TableRest
<1>4. QED
  BY <1>1, <1>2, <1>3, PTL DEF Spec
=============================================================================
