--------------------------- MODULE DmdhcpTableLocks ---------------------------
(***************************************************************************)
(* Where the threads of the lease table can be, who can hold its mutex and *)
(* the locks of the leases there, and why nobody waits in a circle, for    *)
(* any number of interfaces, leases, application threads and visitors.     *)
(***************************************************************************)
EXTENDS DmdhcpTable, SequenceTheorems, TLAPS

StopLabels == {"remove", "unapply", "join"}

\* Where each kind of thread can be.
MayBeAt(t, label) ==
  \/ t \in Apps /\ label \in {"idle", "insert", "begin"} \cup StopLabels
  \/ t \in Ifaces /\ label \in {"idle", "find", "lock", "callback", "lost", "restart"} \cup StopLabels
  \/ t \in Leases /\ label \in {"idle", "lock", "probe", "callback", "relock", "lost", "restart"}
  \/ t \in Leases \cap CallbackStops /\ label \in StopLabels
  \/ t \in Visitors /\ label \in {"idle", "visit", "walk", "lock", "visiting"}
  \/ t = Unloader /\ label \in {"idle", "pop", "unapply", "join"}

\* A thread has a lease where it waits for one, or works on one; a worker has its own.
HasLease(t, label, l) ==
  /\ l \in Leases \cup {NoLease}
  /\ label \notin {"idle", "find", "visit", "walk", "pop"} => l \in Leases
  /\ t \in Leases /\ label # "idle" => l = t

Placed(t, label, l) == MayBeAt(t, label) /\ HasLease(t, label, l)
Places == \A t \in Threads : Placed(t, pc[t], at[t])

Walking(v) == pc[v] \in {"walk", "lock", "visiting"}

\* A mutex is held across a step by a visitor during its walk, the lock of a lease by its
\* own worker during the probe or by the visitor that is looking at it.
Holders ==
  /\ g_mutex # Nobody => g_mutex \in Visitors /\ Walking(g_mutex)
  /\ \A l \in Leases : lock[l] # Nobody =>
       \/ lock[l] = l /\ pc[l] = "probe"
       \/ lock[l] \in Visitors /\ pc[lock[l]] = "visiting" /\ at[lock[l]] = l

LockInv == TypeOK /\ Places /\ Holders

\* The threads other than t stay where they are.
Others(t) == \A u \in Threads : u # t => pc'[u] = pc[u] /\ at'[u] = at[u]
-----------------------------------------------------------------------------
\* Most leaves are first-order; those about numbers or sequences name SMT.
USE Zenon

\* dmlist_remove() on the list of leases: what is left keeps its order.
LEMMA RemoveAtSeq ==
  ASSUME NEW S, NEW s \in Seq(S), NEW k \in 1..Len(s)
  PROVE  /\ RemoveAt(s, k) \in Seq(S)
         /\ Len(RemoveAt(s, k)) = Len(s) - 1
         /\ \A j \in 1..Len(s) - 1 : RemoveAt(s, k)[j] = IF j < k THEN s[j] ELSE s[j + 1]
<1> DEFINE before == SubSeq(s, 1, k - 1)
           after == SubSeq(s, k + 1, Len(s))
<1>1. /\ before \in Seq(S) /\ Len(before) = k - 1
      /\ \A j \in 1..k - 1 : before[j] = s[j]
  BY SubSeqProperties, SMT
<1>2. /\ after \in Seq(S) /\ Len(after) = Len(s) - k
      /\ \A j \in 1..Len(s) - k : after[j] = s[k + j]
  BY SubSeqProperties, SMT
<1>3. RemoveAt(s, k) = before \o after
  BY DEF RemoveAt
<1> HIDE DEF before, after
<1>4. /\ before \o after \in Seq(S)
      /\ Len(before \o after) = Len(before) + Len(after)
      /\ \A j \in 1..Len(before) + Len(after) :
           (before \o after)[j] = IF j <= Len(before) THEN before[j] ELSE after[j - Len(before)]
  BY <1>1, <1>2, ConcatProperties
<1>5. ASSUME NEW j \in 1..Len(s) - 1
      PROVE  RemoveAt(s, k)[j] = IF j < k THEN s[j] ELSE s[j + 1]
  <2>1. CASE j < k
    BY <2>1, <1>1, <1>2, <1>3, <1>4, SMT
  <2>2. CASE j >= k
    <3>1. j - (k - 1) \in 1..Len(s) - k /\ k + (j - (k - 1)) = j + 1
      BY <2>2, SMT
    <3>2. (before \o after)[j] = after[j - (k - 1)]
      BY <2>2, <1>1, <1>2, <1>4, SMT
    <3>3. after[j - (k - 1)] = s[j + 1]
      BY <3>1, <1>2
    <3>4. ~(j < k)
      BY <2>2, SMT
    <3> QED  BY <3>2, <3>3, <3>4, <1>3 DEF RemoveAt
  <2> QED  BY <2>1, <2>2, SMT
<1>6. QED
  BY <1>1, <1>2, <1>3, <1>4, <1>5, SMT

-----------------------------------------------------------------------------
(* What a step does to the threads, the types and the locks *)

\* Only these labels are in the code.
LEMMA KnownLabel ==
  ASSUME NEW t, NEW label, MayBeAt(t, label)
  PROVE  label \in Label
  BY DEF MayBeAt, Label, TableLabels, LeaseLabels, StopLabels

\* A thread has one kind.
LEMMA OneKind ==
  ASSUME NEW t, NEW label, MayBeAt(t, label)
  PROVE  /\ t \in Apps => label \in {"idle", "insert", "begin"} \cup StopLabels
         /\ t \in Ifaces => label \in {"idle", "find", "lock", "callback", "lost", "restart"}
                                        \cup StopLabels
         /\ t \in Leases /\ label \notin StopLabels =>
              label \in {"idle", "lock", "probe", "callback", "relock", "lost", "restart"}
         /\ t \in Leases /\ label \in StopLabels => t \in CallbackStops
         /\ t \in Visitors => label \in {"idle", "visit", "walk", "lock", "visiting"}
         /\ t = Unloader => label \in {"idle", "pop", "unapply", "join"}
<1>1. CASE t \in Apps  BY <1>1, TableAssumption DEF MayBeAt
<1>2. CASE t \in Ifaces  BY <1>2, TableAssumption DEF MayBeAt
<1>3. CASE t \in Leases  BY <1>3, TableAssumption DEF MayBeAt, StopLabels
<1>4. CASE t \in Visitors  BY <1>4, TableAssumption DEF MayBeAt
<1>5. CASE t = Unloader  BY <1>5, TableAssumption DEF MayBeAt
<1> QED  BY <1>1, <1>2, <1>3, <1>4, <1>5

\* Any thread may be idle, without a lease.
LEMMA MayBeIdle ==
  ASSUME NEW t \in Threads
  PROVE  Placed(t, "idle", NoLease)
  BY DEF Threads, Placed, MayBeAt, HasLease

\* What a thread has done that went to a label it may be at, with a lease it may have.
Arrived(t, label, l) ==
  /\ ThreadTypes' /\ Places' /\ Others(t)
  /\ pc'[t] = label /\ at'[t] = l

\* A step that moves one thread, and only there, keeps every thread where it may be.
LEMMA Arrives ==
  ASSUME LockInv, NEW t \in Threads, NEW label, NEW l, Placed(t, label, l),
         pc' = [pc EXCEPT ![t] = label], at' = [at EXCEPT ![t] = l]
  PROVE  Arrived(t, label, l)
<1>1. pc \in [Threads -> Label] /\ at \in [Threads -> Leases \cup {NoLease}]
  BY DEF LockInv, TypeOK, ThreadTypes
<1>2. label \in Label /\ l \in Leases \cup {NoLease}
  BY KnownLabel DEF Placed, HasLease
<1>3. ThreadTypes' /\ Others(t) /\ pc'[t] = label /\ at'[t] = l
  BY <1>1, <1>2 DEF ThreadTypes, Others
<1>4. Places'
  BY <1>3 DEF LockInv, Places, Others
<1> QED  BY <1>3, <1>4 DEF Arrived

\* Goto() keeps the lease of the thread.
LEMMA GotoArrives ==
  ASSUME LockInv, NEW t \in Threads, NEW label, Goto(t, label), UNCHANGED at,
         Placed(t, label, at[t])
  PROVE  Arrived(t, label, at[t])
<1>1. at' = [at EXCEPT ![t] = at[t]]
  BY DEF LockInv, TypeOK, ThreadTypes
<1> QED  BY <1>1, Arrives DEF Goto

\* GotoAt() replaces it.
LEMMA GotoAtArrives ==
  ASSUME LockInv, NEW t \in Threads, NEW label, NEW l, GotoAt(t, label, l), Placed(t, label, l)
  PROVE  Arrived(t, label, l)
  BY Arrives DEF GotoAt, Goto

\* A thread that does not move stays where it may be.
LEMMA StaysPut ==
  ASSUME LockInv, UNCHANGED <<pc, at>>
  PROVE  /\ ThreadTypes' /\ Places'
         /\ \A t \in Threads : Arrived(t, pc[t], at[t])
  BY DEF LockInv, TypeOK, ThreadTypes, Places, Arrived, Others

\* The types of everything but the threads.
DataTypes == TableTypes /\ LeaseTypes /\ LockTypes /\ WalkTypes /\ ArpTypes

\* What a step does not assign keeps its type.
LEMMA Untouched ==
  /\ UNCHANGED table /\ TableTypes => TableTypes'
  /\ UNCHANGED leaseVars /\ LeaseTypes => LeaseTypes'
  /\ UNCHANGED lock /\ LockTypes => LockTypes'
  /\ UNCHANGED walk /\ WalkTypes => WalkTypes'
  /\ UNCHANGED arp /\ ArpTypes => ArpTypes'
<1>1. UNCHANGED table /\ TableTypes => TableTypes'  BY DEF table, TableTypes
<1>2. UNCHANGED leaseVars /\ LeaseTypes => LeaseTypes'  BY DEF leaseVars, LeaseTypes
<1>3. UNCHANGED lock /\ LockTypes => LockTypes'  BY DEF LockTypes
<1>4. UNCHANGED walk /\ WalkTypes => WalkTypes'  BY DEF walk, WalkTypes
<1>5. UNCHANGED arp /\ ArpTypes => ArpTypes'  BY DEF arp, ArpTypes
<1> QED  BY <1>1, <1>2, <1>3, <1>4, <1>5

\* A step of a thread that holds nothing leaves the holders as they are.
LEMMA HoldersStay ==
  ASSUME LockInv, NEW t \in Threads, Others(t), UNCHANGED <<g_mutex, lock>>,
         pc[t] \notin {"probe", "walk", "visiting"},
         t \in Visitors => pc[t] # "lock"
  PROVE  Holders'
<1>1. \A u \in Visitors \cup Leases : u \in Threads
  BY DEF Threads
<1>2. \A v \in Visitors : Walking(v) => Walking(v)'
  BY <1>1 DEF Walking, Others
<1>3. g_mutex' # Nobody => g_mutex' \in Visitors /\ Walking(g_mutex)'
  BY <1>2 DEF LockInv, Holders, Walking
<1>4. ASSUME NEW l \in Leases, lock'[l] # Nobody
      PROVE  \/ lock'[l] = l /\ pc'[l] = "probe"
             \/ lock'[l] \in Visitors /\ pc'[lock'[l]] = "visiting" /\ at'[lock'[l]] = l
  BY <1>1, <1>4 DEF LockInv, Holders, Others
<1> QED  BY <1>3, <1>4 DEF Holders

\* The lock of a lease stays with its holder when another thread moves.
LEMMA HolderKept ==
  ASSUME LockInv, NEW t \in Threads, Others(t),
         NEW m \in Leases, lock'[m] = lock[m], lock[m] # Nobody, lock[m] # t
  PROVE  \/ lock'[m] = m /\ pc'[m] = "probe"
         \/ lock'[m] \in Visitors /\ pc'[lock'[m]] = "visiting" /\ at'[lock'[m]] = m
<1>1. CASE lock[m] = m /\ pc[m] = "probe"
  <2>1. m \in Threads /\ m # t
    BY <1>1 DEF Threads
  <2> QED  BY <1>1, <2>1 DEF Others
<1>2. CASE lock[m] \in Visitors /\ pc[lock[m]] = "visiting" /\ at[lock[m]] = m
  <2>1. lock[m] \in Threads
    BY <1>2 DEF Threads
  <2> QED  BY <1>2, <2>1 DEF Others
<1> QED  BY <1>1, <1>2 DEF LockInv, Holders

\* The invariant from its parts.
LEMMA LockParts ==
  /\ LockInv => DataTypes /\ ThreadTypes /\ Places /\ Holders
  /\ DataTypes' /\ ThreadTypes' /\ Places' /\ Holders' => LockInv'
  BY DEF LockInv, TypeOK, DataTypes

\* A step of a thread that holds nothing and takes no lock.
LEMMA PlainStep ==
  ASSUME LockInv, NEW t \in Threads, NEW label, NEW l, Arrived(t, label, l), DataTypes',
         UNCHANGED <<g_mutex, lock>>,
         pc[t] \notin {"probe", "walk", "visiting"},
         t \in Visitors => pc[t] # "lock"
  PROVE  LockInv'
<1>1. Holders'
  BY HoldersStay DEF Arrived
<1> QED  BY <1>1, LockParts DEF Arrived
-----------------------------------------------------------------------------
(* The steps of each kind of thread *)

\* dmdhcp_start().
LEMMA StartLocks ==
  ASSUME LockInv, NEW a \in Apps,
         \/ \E l \in Leases, i \in Ifaces : start_create(a, l, i)
         \/ app(a)
  PROVE  LockInv'
<1>0. a \in Threads /\ a \notin Leases /\ a \notin Visitors
  BY TableAssumption DEF Threads
<1>1. ASSUME NEW l \in Leases, NEW i \in Ifaces, start_create(a, l, i)
      PROVE  LockInv'
  <2>1. Placed(a, "insert", l)
    BY <1>0 DEF Placed, MayBeAt, HasLease
  <2>2. Arrived(a, "insert", l)
    BY <1>0, <1>1, <2>1, GotoAtArrives DEF start_create
  <2>3. DataTypes'
    BY <1>1, LockParts, Untouched DEF start_create, DataTypes, LeaseTypes
  <2> QED  BY <1>0, <1>1, <2>2, <2>3, PlainStep DEF start_create, table
<1>2. ASSUME start_insert(a)
      PROVE  LockInv'
  <2>1. pc[a] = "insert" /\ at[a] \in Leases /\ g_leases \in Seq(Leases)
    BY <1>0, <1>2, LockParts DEF start_insert, TableFree, Places, Placed, HasLease, DataTypes,
       TableTypes
  <2>2. LockTypes' /\ WalkTypes' /\ ArpTypes' /\ UNCHANGED <<g_mutex, lock>>
    BY <1>2, LockParts, Untouched DEF start_insert, DataTypes
  <2>3. CASE g_leases' = Append(g_leases, at[a]) /\ Goto(a, "begin") /\ UNCHANGED <<magic, armed>>
    <3>1. Arrived(a, "begin", at[a])
      <4>1. Placed(a, "begin", at[a])
        BY <1>0, <2>1 DEF Placed, MayBeAt, HasLease
      <4> QED  BY <1>0, <1>2, <2>3, <4>1, GotoArrives DEF start_insert
    <3>2. LeaseTypes'
      BY <1>2, <2>3, LockParts DEF start_insert, DataTypes, LeaseTypes
    <3>3. g_leases' \in Seq(Leases)
      BY <2>1, <2>3, SMT
    <3>4. TableTypes'
      BY <1>2, <3>3, LockParts DEF start_insert, DataTypes, TableTypes
    <3>5. DataTypes'
      BY <2>2, <3>2, <3>4 DEF DataTypes
    <3> QED  BY <1>0, <2>1, <2>2, <3>1, <3>5, PlainStep
  <2>4. CASE destroy_begin(a) /\ UNCHANGED g_leases
    <3>1. Arrived(a, "join", at[a])
      <4>1. Placed(a, "join", at[a])
        BY <1>0, <2>1 DEF Placed, MayBeAt, HasLease, StopLabels
      <4> QED  BY <1>0, <1>2, <2>4, <4>1, GotoArrives DEF start_insert, destroy_begin
    <3>2. LeaseTypes'
      BY <1>2, <2>4, LockParts DEF start_insert, destroy_begin, DataTypes, LeaseTypes
    <3>3. TableTypes'
      BY <1>2, <2>4, LockParts DEF start_insert, DataTypes, TableTypes
    <3>4. DataTypes'
      BY <2>2, <3>2, <3>3 DEF DataTypes
    <3> QED  BY <1>0, <2>1, <2>2, <3>1, <3>4, PlainStep
  <2> QED  BY <1>2, <2>3, <2>4 DEF start_insert
<1>3. ASSUME start_begin(a)
      PROVE  LockInv'
  <2>1. pc[a] = "begin" /\ at[a] \in Leases
    BY <1>0, <1>3, LockParts DEF start_begin, LeaseFree, Places, Placed, HasLease
  <2>2. Arrived(a, "idle", NoLease)
    BY <1>0, <1>3, MayBeIdle, GotoAtArrives DEF start_begin
  <2>3. DataTypes'
    BY <1>3, <2>1, LockParts, Untouched DEF start_begin, DataTypes, LeaseTypes
  <2> QED  BY <1>0, <1>3, <2>1, <2>2, <2>3, PlainStep DEF start_begin, table
<1> QED  BY <1>1, <1>2, <1>3 DEF app

\* dmdhcp_stop(), dmdhcp_release() and the destruction of a lease.
LEMMA StopLocks ==
  ASSUME LockInv, NEW t \in Threads, (\E l \in Leases : stop_begin(t, l)) \/ teardown(t)
  PROVE  LockInv'
<1>1. ASSUME NEW l \in Leases, stop_begin(t, l)
      PROVE  LockInv'
  <2>1. Placed(t, "remove", l) /\ pc[t] \in {"idle", "callback"}
    <3>1. CASE t \in Apps /\ pc[t] = "idle"
      BY <3>1, TableAssumption DEF Placed, MayBeAt, HasLease, StopLabels
    <3>2. CASE t \in CallbackStops /\ pc[t] = "callback" /\ at[t] = l
      <4>1. t \in Ifaces \cup Leases /\ (t \in Leases => l = t)
        BY <3>2, LockParts, TableAssumption DEF Places, Placed, HasLease
      <4> QED  BY <3>2, <4>1 DEF Placed, MayBeAt, HasLease, StopLabels
    <3> QED  BY <1>1, <3>1, <3>2 DEF stop_begin
  <2>2. Arrived(t, "remove", l)
    BY <1>1, <2>1, GotoAtArrives DEF stop_begin
  <2>3. DataTypes'
    BY <1>1, LockParts, Untouched DEF stop_begin, DataTypes, LeaseTypes
  <2> QED  BY <1>1, <2>1, <2>2, <2>3, PlainStep DEF stop_begin, table
<1>2. ASSUME table_remove(t)
      PROVE  LockInv'
  <2>1. pc[t] = "remove" /\ Placed(t, "remove", at[t])
    BY <1>2, LockParts DEF table_remove, TableFree, Places
  <2>2. Placed(t, "unapply", at[t])
    BY <2>1 DEF Placed, MayBeAt, HasLease, StopLabels
  <2>3. Arrived(t, "unapply", at[t])
    BY <1>2, <2>2, GotoArrives DEF table_remove
  <2>4. g_leases' \in Seq(Leases)
    <3>1. g_leases \in Seq(Leases) /\ DOMAIN g_leases = 1..Len(g_leases)
      BY LockParts, SMT DEF DataTypes, TableTypes
    <3>2. \A k \in DOMAIN g_leases : RemoveAt(g_leases, k) \in Seq(Leases)
      BY <3>1, RemoveAtSeq
    <3> QED  BY <1>2, <3>1, <3>2 DEF table_remove
  <2>5. DataTypes'
    BY <1>2, <2>4, LockParts, Untouched DEF table_remove, DataTypes, TableTypes
  <2> QED  BY <1>2, <2>1, <2>3, <2>5, PlainStep DEF table_remove
<1>3. ASSUME teardown_unapply(t)
      PROVE  LockInv'
  <2>1. pc[t] = "unapply" /\ Placed(t, "unapply", at[t])
    BY <1>3, LockParts DEF teardown_unapply, LeaseFree, Places
  <2>2. Placed(t, "join", at[t])
    BY <2>1 DEF Placed, MayBeAt, HasLease, StopLabels
  <2>3. Arrived(t, "join", at[t])
    BY <1>3, <2>2, GotoArrives DEF teardown_unapply, destroy_begin
  <2>4. DataTypes'
    BY <1>3, LockParts, Untouched DEF teardown_unapply, destroy_begin, DataTypes, LeaseTypes
  <2> QED  BY <1>3, <2>1, <2>3, <2>4, PlainStep DEF teardown_unapply, table
<1>4. ASSUME destroy_join(t)
      PROVE  LockInv'
  <2>1. pc[t] = "join" /\ Placed(t, "join", at[t]) /\ at[t] \in Leases /\ pc[at[t]] = "idle"
    BY <1>4, LockParts DEF destroy_join, Places, Placed, HasLease
  <2>2. t \notin Leases
    BY <2>1 DEF Placed, HasLease
  <2>3. Placed(t, AfterStop(t), NoLease)
    BY <2>1, <2>2, MayBeIdle DEF AfterStop, Placed, MayBeAt, HasLease
  <2>4. Arrived(t, AfterStop(t), NoLease)
    BY <1>4, <2>3, GotoAtArrives DEF destroy_join
  <2>5. LeaseTypes' /\ LockTypes'
    BY <1>4, <2>1, LockParts DEF destroy_join, DataTypes, LeaseTypes, LockTypes
  <2>6. DataTypes'
    BY <1>4, <2>5, LockParts, Untouched DEF destroy_join, DataTypes
  <2>7. Holders'
    <3>1. t \notin Visitors
      BY <2>1, OneKind DEF Placed
    <3>2. UNCHANGED g_mutex /\ (g_mutex # Nobody => Walking(g_mutex)')
      BY <1>4, <2>4, <3>1, LockParts DEF destroy_join, table, Holders, Walking, Arrived, Others, Threads
    <3>3. ASSUME NEW l \in Leases, lock'[l] # Nobody
          PROVE  lock[l] = lock'[l] /\ lock[l] # Nobody
      BY <1>4, <2>1, <3>3, LockParts DEF destroy_join, DataTypes, LockTypes
    <3>4. ASSUME NEW l \in Leases, lock'[l] # Nobody
          PROVE  \/ lock'[l] = l /\ pc'[l] = "probe"
                 \/ lock'[l] \in Visitors /\ pc'[lock'[l]] = "visiting" /\ at'[lock'[l]] = l
      <4>1. lock[l] # t
        BY <2>2, <3>1, <3>3, <3>4, LockParts DEF Holders
      <4> QED  BY <2>4, <3>3, <3>4, <4>1, HolderKept DEF Arrived
    <3> QED  BY <3>2, <3>4, LockParts DEF Holders
  <2> QED  BY <2>4, <2>6, <2>7, LockParts DEF Arrived
<1> QED  BY <1>1, <1>2, <1>3, <1>4 DEF teardown

\* dmdhcp_lifecycle_handle_lost(), by the pump or the worker.
LEMMA LostLocks ==
  ASSUME LockInv, NEW t \in Ifaces \cup Leases, lost(t)
  PROVE  LockInv'
<1>0. t \in Threads /\ t \notin Visitors
  BY TableAssumption DEF Threads
<1>1. CASE lost_unapply(t)
  <2>1. pc[t] = "lost" /\ Placed(t, "lost", at[t])
    BY <1>0, <1>1, LockParts DEF lost_unapply, LeaseFree, Places
  <2>2. Placed(t, "restart", at[t])
    BY <2>1 DEF Placed, MayBeAt, HasLease
  <2>3. Arrived(t, "restart", at[t])
    BY <1>0, <1>1, <2>2, GotoArrives DEF lost_unapply
  <2>4. DataTypes'
    BY <1>1, LockParts, Untouched DEF lost_unapply, DataTypes
  <2> QED  BY <1>0, <1>1, <2>1, <2>3, <2>4, PlainStep DEF lost_unapply, table
<1>2. CASE lost_restart(t)
  <2>1. pc[t] = "restart" /\ at[t] \in Leases
    BY <1>0, <1>2, LockParts DEF lost_restart, LeaseFree, Places, Placed, HasLease
  <2>2. Arrived(t, "idle", NoLease)
    BY <1>0, <1>2, MayBeIdle, GotoAtArrives DEF lost_restart
  <2>3. DataTypes'
    BY <1>2, <2>1, LockParts, Untouched DEF lost_restart, DataTypes, LeaseTypes
  <2> QED  BY <1>0, <1>2, <2>1, <2>2, <2>3, PlainStep DEF lost_restart, table
<1> QED  BY <1>1, <1>2 DEF lost

\* The rx pump.
LEMMA PumpLocks ==
  ASSUME LockInv, NEW i \in Ifaces, pump(i) \/ dhcp_arrives(i)
  PROVE  LockInv'
<1>0. i \in Threads /\ i \notin Leases /\ i \notin Visitors
  BY TableAssumption DEF Threads
<1>1. CASE dhcp_arrives(i)
  <2>1. frames' \in [Ifaces -> Seq({"dhcp", "arp"})]
    BY <1>1, LockParts, SMT DEF dhcp_arrives, DataTypes, ArpTypes
  <2>2. DataTypes'
    BY <1>1, <2>1, LockParts, Untouched DEF dhcp_arrives, DataTypes, ArpTypes
  <2>3. Arrived(i, pc[i], at[i])
    BY <1>0, <1>1, StaysPut DEF dhcp_arrives
  <2>4. Holders'
    BY <1>1, LockParts DEF dhcp_arrives, table, Holders, Walking
  <2> QED  BY <2>2, <2>3, <2>4, LockParts DEF Arrived
<1>2. CASE pump_take(i)
  <2>1. pc[i] = "idle" /\ UNCHANGED <<g_mutex, lock>>
    BY <1>2 DEF pump_take, table
  <2>2. frames' \in [Ifaces -> Seq({"dhcp", "arp"})]
    BY <1>2, LockParts, SMT DEF pump_take, DataTypes, ArpTypes
  <2>3. reply' \in [Leases -> {"none", "arrived", "noted"}]
    BY <1>2, LockParts, SMT DEF pump_take, DataTypes, ArpTypes
  <2>4. DataTypes'
    BY <1>2, <2>2, <2>3, LockParts, Untouched DEF pump_take, DataTypes, ArpTypes
  <2>5. CASE UNCHANGED pc
    <3>1. Arrived(i, pc[i], at[i])
      BY <1>0, <1>2, <2>5, StaysPut DEF pump_take
    <3> QED  BY <1>0, <2>1, <2>4, <3>1, PlainStep
  <2>6. ASSUME NEW label \in {"find", "idle"}, Goto(i, label)
        PROVE  LockInv'
    <3>1. Placed(i, label, at[i])
      <4>1. at[i] \in Leases \cup {NoLease}
        BY <1>0, LockParts DEF Places, Placed, HasLease
      <4> QED  BY <1>0, <4>1 DEF Placed, MayBeAt, HasLease
    <3>2. Arrived(i, label, at[i])
      BY <1>0, <1>2, <2>6, <3>1, GotoArrives DEF pump_take
    <3> QED  BY <1>0, <2>1, <2>4, <3>2, PlainStep
  <2> QED  BY <1>2, <2>5, <2>6 DEF pump_take
<1>3. CASE find_by_xid(i)
  <2>1. pc[i] = "find" /\ UNCHANGED <<g_mutex, lock>>
    BY <1>3 DEF find_by_xid, TableFree, table
  <2>2. DataTypes'
    BY <1>3, LockParts, Untouched DEF find_by_xid, DataTypes
  <2>3. ASSUME NEW l \in Tabled, GotoAt(i, "lock", l)
        PROVE  LockInv'
    <3>1. l \in Leases
      BY LockParts, SMT DEF DataTypes, TableTypes, Tabled, Range
    <3>2. Placed(i, "lock", l)
      BY <1>0, <3>1 DEF Placed, MayBeAt, HasLease
    <3>3. Arrived(i, "lock", l)
      BY <1>0, <2>3, <3>2, GotoAtArrives
    <3> QED  BY <1>0, <2>1, <2>2, <3>3, PlainStep
  <2>4. CASE GotoAt(i, "idle", NoLease)
    <3>1. Arrived(i, "idle", NoLease)
      BY <1>0, <2>4, MayBeIdle, GotoAtArrives
    <3> QED  BY <1>0, <2>1, <2>2, <3>1, PlainStep
  <2> QED  BY <1>3, <2>3, <2>4 DEF find_by_xid
<1>4. CASE handle_locked(i)
  <2>1. pc[i] = "lock" /\ at[i] \in Leases /\ UNCHANGED <<g_mutex, lock>>
    BY <1>0, <1>4, LockParts DEF handle_locked, LeaseFree, Places, Placed, HasLease, table
  <2>2. LeaseTypes'
    BY <1>4, <2>1, LockParts, SMT DEF handle_locked, DataTypes, LeaseTypes
  <2>3. DataTypes'
    BY <1>4, <2>2, LockParts, Untouched DEF handle_locked, DataTypes
  <2>4. CASE GotoAt(i, "idle", NoLease)
    <3>1. Arrived(i, "idle", NoLease)
      BY <1>0, <2>4, MayBeIdle, GotoAtArrives
    <3> QED  BY <1>0, <2>1, <2>3, <3>1, PlainStep
  <2>5. ASSUME NEW label \in {"callback", "lost"}, Goto(i, label), UNCHANGED at
        PROVE  LockInv'
    <3>1. Placed(i, label, at[i])
      BY <1>0, <2>1 DEF Placed, MayBeAt, HasLease
    <3>2. Arrived(i, label, at[i])
      BY <1>0, <2>5, <3>1, GotoArrives
    <3> QED  BY <1>0, <2>1, <2>3, <3>2, PlainStep
  <2> QED  BY <1>4, <2>4, <2>5 DEF handle_locked
<1>5. CASE pump_return(i) \/ pump_abandon(i)
  <2>1. pc[i] \in {"callback", "lock", "lost", "restart"} /\ UNCHANGED <<g_mutex, lock>>
    BY <1>5 DEF pump_return, pump_abandon, table
  <2>2. DataTypes'
    BY <1>5, LockParts, Untouched DEF pump_return, pump_abandon, DataTypes
  <2>3. Arrived(i, "idle", NoLease)
    BY <1>0, <1>5, MayBeIdle, GotoAtArrives DEF pump_return, pump_abandon
  <2> QED  BY <1>0, <2>1, <2>2, <2>3, PlainStep
<1> QED  BY <1>1, <1>2, <1>3, <1>4, <1>5, LostLocks DEF pump

\* The end of a probe: the worker gives its lock back.
LEMMA ProbeEndLocks ==
  ASSUME LockInv, NEW l \in Leases, NEW s \in {"waiting", "held", "failed"}, probe_end(l, s)
  PROVE  LockInv'
<1>0. l \in Threads /\ l \notin Visitors
  BY TableAssumption DEF Threads
<1>1. pc[l] = "probe" /\ at[l] = l /\ UNCHANGED g_mutex
  BY <1>0, LockParts DEF probe_end, Places, Placed, HasLease, table
<1>2. PICK label \in {"idle", "callback"}, k \in {l, NoLease} : Arrived(l, label, k)
  <2>1. CASE s = "waiting"
    <3>1. Arrived(l, "idle", NoLease)
      BY <1>0, <2>1, MayBeIdle, GotoAtArrives DEF probe_end
    <3> QED  BY <3>1
  <2>2. CASE s # "waiting"
    <3>1. Placed(l, "callback", at[l])
      BY <1>1 DEF Placed, MayBeAt, HasLease
    <3>2. Arrived(l, "callback", at[l])
      BY <1>0, <2>2, <3>1, GotoArrives DEF probe_end
    <3> QED  BY <1>1, <3>2
  <2> QED  BY <2>1, <2>2
<1>3. lock' = [lock EXCEPT ![l] = Nobody] /\ lock \in [Leases -> Leases \cup Visitors \cup {Nobody}]
  BY LockParts DEF probe_end, DataTypes, LockTypes
<1>4. LeaseTypes'
  BY LockParts, SMT DEF probe_end, DataTypes, LeaseTypes
<1>5. ArpTypes'
  BY LockParts DEF probe_end, DataTypes, ArpTypes
<1>6. DataTypes'
  BY <1>3, <1>4, <1>5, LockParts, Untouched DEF probe_end, DataTypes, LockTypes
<1>7. Holders'
  <2>1. \A v \in Visitors : v # l /\ v \in Threads
    BY <1>0 DEF Threads
  <2>2. g_mutex' # Nobody => g_mutex' \in Visitors /\ Walking(g_mutex)'
    BY <1>1, <1>2, <2>1, LockParts DEF Holders, Walking, Arrived, Others
  <2>3. ASSUME NEW m \in Leases, lock'[m] # Nobody
        PROVE  \/ lock'[m] = m /\ pc'[m] = "probe"
               \/ lock'[m] \in Visitors /\ pc'[lock'[m]] = "visiting" /\ at'[lock'[m]] = m
    <3>1. m # l /\ lock'[m] = lock[m] /\ m \in Threads
      BY <1>3, <2>3 DEF Threads
    <3>2. lock[m] # l
      BY <1>0, <2>3, <3>1, LockParts DEF Holders
    <3> QED  BY <1>0, <1>2, <2>3, <3>1, <3>2, HolderKept DEF Arrived
  <2> QED  BY <2>2, <2>3 DEF Holders
<1> QED  BY <1>2, <1>6, <1>7, LockParts DEF Arrived

\* The worker of the timers.
LEMMA WorkerLocks ==
  ASSUME LockInv, NEW l \in Leases, worker(l) \/ arp_arrives(l)
  PROVE  LockInv'
<1>0. l \in Threads /\ l \notin Visitors /\ l \notin Ifaces
  BY TableAssumption DEF Threads
<1>1. CASE arp_arrives(l)
  <2>1. frames' \in [Ifaces -> Seq({"dhcp", "arp"})]
    BY <1>1, LockParts, SMT DEF arp_arrives, DataTypes, ArpTypes, LeaseTypes, Allocated
  <2>2. DataTypes'
    BY <1>1, <2>1, LockParts, Untouched DEF arp_arrives, DataTypes, ArpTypes
  <2>3. Arrived(l, pc[l], at[l])
    BY <1>0, <1>1, StaysPut DEF arp_arrives
  <2>4. Holders'
    BY <1>1, LockParts DEF arp_arrives, table, Holders, Walking
  <2> QED  BY <2>2, <2>3, <2>4, LockParts DEF Arrived
<1>2. CASE timer_fire(l)
  <2>1. pc[l] = "idle" /\ UNCHANGED <<g_mutex, lock>>
    BY <1>2 DEF timer_fire, table
  <2>2. DataTypes'
    BY <1>2, LockParts, Untouched DEF timer_fire, DataTypes, LeaseTypes
  <2>3. CASE GotoAt(l, "lock", l)
    <3>1. Placed(l, "lock", l)
      BY DEF Placed, MayBeAt, HasLease
    <3>2. Arrived(l, "lock", l)
      BY <1>0, <2>3, <3>1, GotoAtArrives
    <3> QED  BY <1>0, <2>1, <2>2, <3>2, PlainStep
  <2>4. CASE UNCHANGED <<pc, at>>
    <3>1. Arrived(l, pc[l], at[l])
      BY <1>0, <2>4, StaysPut
    <3> QED  BY <1>0, <2>1, <2>2, <3>1, PlainStep
  <2> QED  BY <1>2, <2>3, <2>4 DEF timer_fire
<1>3. CASE retransmit_timer_callback(l)
  <2>1. pc[l] = "lock" /\ at[l] = l /\ UNCHANGED g_mutex
    BY <1>0, <1>3, LockParts DEF retransmit_timer_callback, LeaseFree, Places, Placed, HasLease, table
  <2>2. CASE state[l] = "checking"
    <3>1. lock' = [lock EXCEPT ![l] = l] /\ Goto(l, "probe") /\ UNCHANGED at
      BY <1>3, <2>2 DEF retransmit_timer_callback
    <3>2. Placed(l, "probe", at[l])
      BY <2>1 DEF Placed, MayBeAt, HasLease
    <3>3. Arrived(l, "probe", at[l])
      BY <1>0, <3>1, <3>2, GotoArrives
    <3>4. lock \in [Leases -> Leases \cup Visitors \cup {Nobody}]
      BY LockParts DEF DataTypes, LockTypes
    <3>5. DataTypes'
      BY <1>3, <2>2, <3>1, <3>4, LockParts, Untouched
      DEF retransmit_timer_callback, DataTypes, LeaseTypes, LockTypes, ArpTypes
    <3>6. Holders'
      <4>1. \A v \in Visitors : v # l /\ v \in Threads
        BY <1>0 DEF Threads
      <4>2. g_mutex' # Nobody => g_mutex' \in Visitors /\ Walking(g_mutex)'
        BY <2>1, <3>3, <4>1, LockParts DEF Holders, Walking, Arrived, Others
      <4>3. ASSUME NEW m \in Leases, lock'[m] # Nobody
            PROVE  \/ lock'[m] = m /\ pc'[m] = "probe"
                   \/ lock'[m] \in Visitors /\ pc'[lock'[m]] = "visiting" /\ at'[lock'[m]] = m
        <5>1. CASE m = l
          BY <3>1, <3>3, <3>4, <5>1 DEF Arrived
        <5>2. CASE m # l
          <6>1. lock'[m] = lock[m] /\ m \in Threads
            BY <3>1, <3>4, <5>2 DEF Threads
          <6>2. lock[m] # l
            BY <1>0, <4>3, <5>2, <6>1, LockParts DEF Holders
          <6> QED  BY <1>0, <3>3, <4>3, <6>1, <6>2, HolderKept DEF Arrived
        <5> QED  BY <5>1, <5>2
      <4> QED  BY <4>2, <4>3 DEF Holders
    <3> QED  BY <3>3, <3>5, <3>6, LockParts DEF Arrived
  <2>3. CASE state[l] # "checking"
    <3>1. Arrived(l, "idle", NoLease)
      BY <1>0, <1>3, <2>3, MayBeIdle, GotoAtArrives DEF retransmit_timer_callback
    <3>2. LeaseTypes'
      BY <1>3, <2>3, LockParts DEF retransmit_timer_callback, DataTypes, LeaseTypes
    <3>3. DataTypes' /\ UNCHANGED lock
      BY <1>3, <2>3, <3>2, LockParts, Untouched DEF retransmit_timer_callback, DataTypes, arp
    <3> QED  BY <1>0, <2>1, <3>1, <3>3, PlainStep
  <2> QED  BY <2>2, <2>3
<1>4. CASE lease_timer_callback(l)
  <2>1. pc[l] = "lock" /\ at[l] = l /\ UNCHANGED <<g_mutex, lock>>
    BY <1>0, <1>4, LockParts DEF lease_timer_callback, LeaseFree, Places, Placed, HasLease, table
  <2>2. DataTypes'
    BY <1>4, LockParts, Untouched DEF lease_timer_callback, DataTypes, LeaseTypes
  <2>3. CASE GotoAt(l, "idle", NoLease)
    <3>1. Arrived(l, "idle", NoLease)
      BY <1>0, <2>3, MayBeIdle, GotoAtArrives
    <3> QED  BY <1>0, <2>1, <2>2, <3>1, PlainStep
  <2>4. CASE Goto(l, "lost") /\ UNCHANGED at
    <3>1. Placed(l, "lost", at[l])
      BY <2>1 DEF Placed, MayBeAt, HasLease
    <3>2. Arrived(l, "lost", at[l])
      BY <1>0, <2>4, <3>1, GotoArrives
    <3> QED  BY <1>0, <2>1, <2>2, <3>2, PlainStep
  <2> QED  BY <1>4, <2>3, <2>4 DEF lease_timer_callback
<1>5. CASE handle_conflict(l) \/ probe_clean(l)
  BY <1>5, ProbeEndLocks DEF handle_conflict, probe_clean
<1>6. CASE worker_relock(l)
  <2>1. pc[l] = "callback" /\ at[l] = l /\ UNCHANGED <<g_mutex, lock>>
    BY <1>0, <1>6, LockParts DEF worker_relock, Places, Placed, HasLease, table
  <2>2. Placed(l, "relock", at[l])
    BY <2>1 DEF Placed, MayBeAt, HasLease
  <2>3. Arrived(l, "relock", at[l])
    BY <1>0, <1>6, <2>2, GotoArrives DEF worker_relock
  <2>4. DataTypes'
    BY <1>6, LockParts, Untouched DEF worker_relock, DataTypes
  <2> QED  BY <1>0, <2>1, <2>3, <2>4, PlainStep
<1>7. CASE worker_return(l)
  <2>1. pc[l] = "relock" /\ UNCHANGED <<g_mutex, lock>>
    BY <1>7 DEF worker_return, LeaseFree, table
  <2>2. Arrived(l, "idle", NoLease)
    BY <1>0, <1>7, MayBeIdle, GotoAtArrives DEF worker_return
  <2>3. DataTypes'
    BY <1>7, LockParts, Untouched DEF worker_return, DataTypes
  <2> QED  BY <1>0, <2>1, <2>2, <2>3, PlainStep
<1> QED  BY <1>1, <1>2, <1>3, <1>4, <1>5, <1>6, <1>7, LostLocks DEF worker

\* The lock of a lease stays with its holder when a visitor moves that does not hold it.
LEMMA VisitorMoves ==
  ASSUME LockInv, NEW v \in Visitors, NEW label, NEW l, Arrived(v, label, l),
         NEW m \in Leases, lock'[m] = lock[m], lock[m] # Nobody, lock[m] # v
  PROVE  \/ lock'[m] = m /\ pc'[m] = "probe"
         \/ lock'[m] \in Visitors /\ pc'[lock'[m]] = "visiting" /\ at'[lock'[m]] = m
  BY HolderKept DEF Arrived, Threads

\* The walk of a visitor.
LEMMA VisitLocks ==
  ASSUME LockInv, NEW v \in Visitors, visitor(v) \/ visit_begin(v)
  PROVE  LockInv'
<1>0. v \in Threads /\ v \notin Leases /\ v # Nobody
  BY TableAssumption DEF Threads
<1>1. \A u \in Visitors : u \in Threads
  BY DEF Threads
<1>2. at[v] \in Leases \cup {NoLease} /\ lock \in [Leases -> Leases \cup Visitors \cup {Nobody}]
  BY <1>0, LockParts DEF Places, Placed, HasLease, DataTypes, LockTypes
<1>3. CASE visit_begin(v)
  <2>1. pc[v] = "idle" /\ UNCHANGED <<g_mutex, lock>>
    BY <1>3 DEF visit_begin, table
  <2>2. Placed(v, "visit", at[v])
    BY <1>0, <1>2 DEF Placed, MayBeAt, HasLease
  <2>3. Arrived(v, "visit", at[v])
    BY <1>0, <1>3, <2>2, GotoArrives DEF visit_begin
  <2>4. DataTypes'
    BY <1>3, LockParts, Untouched DEF visit_begin, DataTypes
  <2> QED  BY <1>0, <2>1, <2>3, <2>4, PlainStep
<1>4. CASE visit_lock(v)
  <2>1. pc[v] = "visit" /\ g_mutex' = v /\ UNCHANGED lock
    BY <1>4 DEF visit_lock, TableFree
  <2>2. Placed(v, "walk", at[v])
    BY <1>0, <1>2 DEF Placed, MayBeAt, HasLease
  <2>3. Arrived(v, "walk", at[v])
    BY <1>0, <1>4, <2>2, GotoArrives DEF visit_lock
  <2>4. TableTypes'
    BY <1>4, LockParts DEF visit_lock, DataTypes, TableTypes
  <2>5. Len(g_leases) \in Nat
    BY LockParts, SMT DEF DataTypes, TableTypes
  <2>6. WalkTypes'
    BY <1>4, <2>5, LockParts DEF visit_lock, DataTypes, WalkTypes
  <2>7. DataTypes'
    BY <1>4, <2>4, <2>6, LockParts, Untouched DEF visit_lock, DataTypes
  <2>8. \A m \in Leases : lock[m] # v
    BY <1>0, <2>1, LockParts DEF Holders
  <2>9. Holders'
    <3>1. Walking(v)'
      BY <2>3 DEF Arrived, Walking
    <3> QED  BY <2>1, <2>3, <2>8, <3>1, VisitorMoves DEF Holders
  <2> QED  BY <2>3, <2>7, <2>9, LockParts DEF Arrived
<1>5. CASE visit_next(v)
  <2>1. pc[v] = "walk" /\ UNCHANGED <<g_mutex, lock>>
    BY <1>5 DEF visit_next, table
  <2>2. \A m \in Leases : lock[m] # v
    BY <1>0, <2>1, LockParts DEF Holders
  <2>3. PICK label \in {"walk", "lock"}, l \in Leases \cup {NoLease} : Arrived(v, label, l)
    <3>1. CASE UNCHANGED <<pc, at>>
      BY <1>0, <1>2, <2>1, <3>1, StaysPut
    <3>2. CASE index[v] < Len(g_leases) /\ GotoAt(v, "lock", g_leases[index[v] + 1])
      <4>1. index[v] \in Nat /\ g_leases \in Seq(Leases)
        BY LockParts DEF DataTypes, TableTypes, WalkTypes
      <4>2. g_leases[index[v] + 1] \in Leases
        BY <3>2, <4>1, SMT
      <4>3. Placed(v, "lock", g_leases[index[v] + 1])
        BY <1>0, <4>2 DEF Placed, MayBeAt, HasLease
      <4>4. Arrived(v, "lock", g_leases[index[v] + 1])
        BY <1>0, <3>2, <4>3, GotoAtArrives
      <4> QED  BY <4>2, <4>4
    <3> QED  BY <1>5, <3>1, <3>2 DEF visit_next
  <2>4. WalkTypes'
    BY <1>5, LockParts, SMT DEF visit_next, DataTypes, WalkTypes
  <2>5. DataTypes'
    BY <1>5, <2>4, LockParts, Untouched DEF visit_next, DataTypes
  <2>6. Holders'
    <3>1. \A u \in Visitors : Walking(u) => Walking(u)'
      BY <1>1, <2>3 DEF Walking, Arrived, Others
    <3>2. g_mutex' # Nobody => g_mutex' \in Visitors /\ Walking(g_mutex)'
      BY <2>1, <3>1, LockParts DEF Holders, Walking
    <3> QED  BY <2>1, <2>2, <2>3, <3>2, VisitorMoves DEF Holders
  <2> QED  BY <2>3, <2>5, <2>6, LockParts DEF Arrived
<1>6. CASE visit_lease(v)
  <2>1. pc[v] = "lock" /\ UNCHANGED g_mutex /\ lock' = [lock EXCEPT ![at[v]] = v]
    BY <1>6 DEF visit_lease, LeaseFree, table
  <2>2. at[v] \in Leases
    BY <1>0, <2>1, LockParts DEF Places, Placed, HasLease
  <2>3. Placed(v, "visiting", at[v])
    BY <1>0, <2>2 DEF Placed, MayBeAt, HasLease
  <2>4. Arrived(v, "visiting", at[v])
    BY <1>0, <1>6, <2>3, GotoArrives DEF visit_lease
  <2>5. DataTypes'
    BY <1>2, <1>6, <2>2, LockParts, Untouched DEF visit_lease, DataTypes, LockTypes
  <2>6. Holders'
    <3>1. \A u \in Visitors : Walking(u) => Walking(u)'
      BY <1>1, <2>4 DEF Walking, Arrived, Others
    <3>2. g_mutex' # Nobody => g_mutex' \in Visitors /\ Walking(g_mutex)'
      BY <2>1, <3>1, LockParts DEF Holders, Walking
    <3>3. ASSUME NEW m \in Leases, lock'[m] # Nobody
          PROVE  \/ lock'[m] = m /\ pc'[m] = "probe"
                 \/ lock'[m] \in Visitors /\ pc'[lock'[m]] = "visiting" /\ at'[lock'[m]] = m
      <4>1. CASE m = at[v]
        BY <1>2, <2>1, <2>4, <4>1 DEF Arrived
      <4>2. CASE m # at[v]
        <5>1. lock'[m] = lock[m]
          BY <1>2, <2>1, <4>2
        <5>2. lock[m] # v
          BY <1>0, <2>1, <4>2, LockParts DEF Holders
        <5> QED  BY <2>4, <3>3, <5>1, <5>2, VisitorMoves
      <4> QED  BY <4>1, <4>2
    <3> QED  BY <3>2, <3>3 DEF Holders
  <2> QED  BY <2>4, <2>5, <2>6, LockParts DEF Arrived
<1>7. CASE visit_leave(v)
  <2>1. pc[v] = "visiting" /\ UNCHANGED g_mutex /\ lock' = [lock EXCEPT ![at[v]] = Nobody]
    BY <1>7 DEF visit_leave, table
  <2>2. at[v] \in Leases
    BY <1>0, <2>1, LockParts DEF Places, Placed, HasLease
  <2>3. Placed(v, "walk", NoLease)
    BY <1>0 DEF Placed, MayBeAt, HasLease
  <2>4. Arrived(v, "walk", NoLease)
    BY <1>0, <1>7, <2>3, GotoAtArrives DEF visit_leave
  <2>5. WalkTypes'
    BY <1>7, LockParts, SMT DEF visit_leave, DataTypes, WalkTypes
  <2>6. DataTypes'
    BY <1>2, <1>7, <2>2, <2>5, LockParts, Untouched DEF visit_leave, DataTypes, LockTypes
  <2>7. Holders'
    <3>1. \A u \in Visitors : Walking(u) => Walking(u)'
      BY <1>1, <2>4 DEF Walking, Arrived, Others
    <3>2. g_mutex' # Nobody => g_mutex' \in Visitors /\ Walking(g_mutex)'
      BY <2>1, <3>1, LockParts DEF Holders, Walking
    <3>3. ASSUME NEW m \in Leases, lock'[m] # Nobody
          PROVE  \/ lock'[m] = m /\ pc'[m] = "probe"
                 \/ lock'[m] \in Visitors /\ pc'[lock'[m]] = "visiting" /\ at'[lock'[m]] = m
      <4>1. m # at[v] /\ lock'[m] = lock[m]
        BY <1>2, <2>1, <3>3
      <4>2. lock[m] # v
        BY <1>0, <4>1, LockParts DEF Holders
      <4> QED  BY <2>4, <3>3, <4>1, <4>2, VisitorMoves
    <3> QED  BY <3>2, <3>3 DEF Holders
  <2> QED  BY <2>4, <2>6, <2>7, LockParts DEF Arrived
<1>8. CASE visit_end(v)
  <2>1. pc[v] = "walk" /\ g_mutex' = Nobody /\ UNCHANGED lock
    BY <1>8 DEF visit_end
  <2>2. Placed(v, "idle", at[v])
    BY <1>0, <1>2 DEF Placed, MayBeAt, HasLease
  <2>3. Arrived(v, "idle", at[v])
    BY <1>0, <1>8, <2>2, GotoArrives DEF visit_end
  <2>4. TableTypes'
    BY <1>8, LockParts DEF visit_end, DataTypes, TableTypes
  <2>5. WalkTypes'
    BY <1>8, LockParts, SMT DEF visit_end, DataTypes, WalkTypes
  <2>6. DataTypes'
    BY <1>8, <2>4, <2>5, LockParts, Untouched DEF visit_end, DataTypes
  <2>7. \A m \in Leases : lock[m] # v
    BY <1>0, <2>1, LockParts DEF Holders
  <2>8. Holders'
    BY <2>1, <2>3, <2>7, VisitorMoves DEF Holders
  <2> QED  BY <2>3, <2>6, <2>8, LockParts DEF Arrived
<1> QED  BY <1>3, <1>4, <1>5, <1>6, <1>7, <1>8 DEF visitor

\* dmod_init() and dmod_deinit().
LEMMA UnloadLocks ==
  ASSUME LockInv, dmod_init \/ dmod_deinit \/ unloader
  PROVE  LockInv'
<1>0. Unloader \in Threads /\ Unloader \notin Visitors /\ Unloader \notin Leases
  BY TableAssumption DEF Threads
<1>1. at[Unloader] \in Leases \cup {NoLease}
      /\ pc[Unloader] \in {"idle", "pop", "unapply", "join"}
  BY <1>0, LockParts, OneKind DEF Places, Placed, HasLease
<1>2. CASE dmod_init
  <2>1. DataTypes'
    BY <1>2, LockParts, Untouched DEF dmod_init, DataTypes, TableTypes
  <2>2. Arrived(Unloader, pc[Unloader], at[Unloader])
    BY <1>0, <1>2, StaysPut DEF dmod_init
  <2> QED  BY <1>0, <1>1, <1>2, <2>1, <2>2, PlainStep DEF dmod_init
<1>3. CASE dmod_deinit
  <2>1. Placed(Unloader, "pop", at[Unloader])
    BY <1>0, <1>1 DEF Placed, MayBeAt, HasLease
  <2>2. Arrived(Unloader, "pop", at[Unloader])
    BY <1>0, <1>3, <2>1, GotoArrives DEF dmod_deinit
  <2>3. DataTypes'
    BY <1>3, LockParts, Untouched DEF dmod_deinit, DataTypes, TableTypes
  <2> QED  BY <1>0, <1>1, <1>3, <2>2, <2>3, PlainStep DEF dmod_deinit
<1>4. CASE deinit_pop
  <2>1. g_leases \in Seq(Leases) /\ g_leases # <<>>
    BY <1>4, LockParts DEF deinit_pop, DataTypes, TableTypes
  <2>2. Head(g_leases) \in Leases /\ Tail(g_leases) \in Seq(Leases)
    BY <2>1, SMT
  <2>3. Placed(Unloader, "unapply", Head(g_leases))
    BY <1>0, <2>2 DEF Placed, MayBeAt, HasLease
  <2>4. Arrived(Unloader, "unapply", Head(g_leases))
    BY <1>0, <1>4, <2>3, GotoAtArrives DEF deinit_pop
  <2>5. TableTypes'
    BY <1>4, <2>2, LockParts DEF deinit_pop, DataTypes, TableTypes
  <2>6. LeaseTypes'
    BY <1>4, LockParts DEF deinit_pop, DataTypes, LeaseTypes
  <2>7. DataTypes'
    BY <1>4, <2>5, <2>6, LockParts, Untouched DEF deinit_pop, DataTypes
  <2> QED  BY <1>0, <1>1, <1>4, <2>4, <2>7, PlainStep DEF deinit_pop
<1>5. CASE deinit_end
  <2>1. Placed(Unloader, "idle", at[Unloader])
    BY <1>0, <1>1 DEF Placed, MayBeAt, HasLease
  <2>2. Arrived(Unloader, "idle", at[Unloader])
    BY <1>0, <1>5, <2>1, GotoArrives DEF deinit_end
  <2>3. TableTypes'
    BY <1>5, LockParts DEF deinit_end, DataTypes, TableTypes
  <2>4. DataTypes'
    BY <1>5, <2>3, LockParts, Untouched DEF deinit_end, DataTypes
  <2>5. \A m \in Leases : lock'[m] = lock[m] /\ lock[m] # Unloader
    BY <1>0, <1>5, LockParts, TableAssumption DEF deinit_end, Holders, Threads
  <2>6. Holders'
    BY <1>0, <1>5, <2>2, <2>5, HolderKept DEF deinit_end, Holders, Arrived
  <2> QED  BY <2>2, <2>4, <2>6, LockParts DEF Arrived
<1> QED  BY <1>2, <1>3, <1>4, <1>5 DEF unloader

\* Every step keeps the types, the places of the threads and the holders of the locks.
LEMMA LockStep ==
  ASSUME LockInv, [Next]_vars
  PROVE  LockInv'
<1>1. CASE UNCHANGED vars
  <2>1. DataTypes' /\ UNCHANGED <<pc, at, lock, g_mutex>>
    BY <1>1, LockParts, Untouched DEF vars, DataTypes, table
  <2>2. Holders'
    BY <2>1, LockParts DEF Holders, Walking
  <2> QED  BY <2>1, <2>2, StaysPut, LockParts
<1>2. CASE Next
  BY <1>2, StartLocks, StopLocks, PumpLocks, WorkerLocks, VisitLocks, UnloadLocks DEF Next
<1> QED  BY <1>1, <1>2

\* They hold initially.
LEMMA LockInit ==
  ASSUME Init
  PROVE  LockInv
<1>1. ThreadTypes /\ Places
  <2>1. \A t \in Threads : pc[t] = "idle" /\ at[t] = NoLease
    BY DEF Init
  <2> QED  BY <2>1, MayBeIdle DEF Init, ThreadTypes, Places, Label
<1>2. Holders
  BY DEF Init, Holders
<1>3. g_leases \in Seq(Leases) /\ frames \in [Ifaces -> Seq({"dhcp", "arp"})]
  BY SMT DEF Init
<1>4. WalkTypes
  BY SMT DEF Init, WalkTypes
<1>5. DataTypes
  BY <1>3, <1>4 DEF Init, DataTypes, TableTypes, LeaseTypes, LockTypes, ArpTypes
<1> QED  BY <1>1, <1>2, <1>5 DEF LockInv, TypeOK, DataTypes
-----------------------------------------------------------------------------
\* No thread waits for itself, in any state with the lock facts: who holds the lock of a
\* lease does not wait, so a worker only waits for somebody who does not, so neither
\* does a teardown that joins it nor the visitor that holds the mutex of the table.
LEMMA LockInvNoCircularWait ==
  ASSUME LockInv, CallbackStops \subseteq Ifaces
  PROVE  NoCircularWait
<1> SUFFICES ASSUME NEW S \in SUBSET {t \in Threads : WaitsFor(t) # {}},
                    \A t \in S : WaitsFor(t) \cap S # {},
                    NEW x \in S
             PROVE  FALSE
  BY DEF NoCircularWait
<1>0. \A t \in S : t \in Threads /\ Placed(t, pc[t], at[t]) /\ \E u \in S : u \in WaitsFor(t)
  BY LockParts DEF Places
<1>1. ASSUME NEW t \in S, NEW u \in WaitsFor(t)
      PROVE  /\ u \in Threads
             /\ \/ pc[t] \in TableLabels /\ g_mutex = u
                \/ pc[t] \in LeaseLabels /\ at[t] # NoLease /\ lock[at[t]] = u
                \/ pc[t] = "join" /\ at[t] = u
  BY DEF WaitsFor
<1>2. \A t \in S : pc[t] \in TableLabels \cup LeaseLabels \cup {"join"}
  BY <1>0, <1>1
<1>3. ASSUME NEW t \in S, pc[t] \in LeaseLabels PROVE FALSE
  <2>1. PICK u \in S : u \in WaitsFor(t)
    BY <1>0
  <2>2. at[t] # NoLease /\ lock[at[t]] = u /\ u \in Threads
    BY <1>1, <1>3, <2>1 DEF TableLabels, LeaseLabels
  <2>3. at[t] \in Leases /\ u # Nobody
    BY <1>0, <2>2, TableAssumption DEF Placed, HasLease
  <2>4. pc[u] \in {"probe", "visiting"}
    BY <2>2, <2>3, LockParts DEF Holders
  <2> QED  BY <1>2, <2>1, <2>4 DEF TableLabels, LeaseLabels
<1>4. ASSUME NEW t \in S, t \in Leases PROVE FALSE
  <2>1. t \notin CallbackStops
    BY <1>4, TableAssumption
  <2>2. pc[t] \in {"idle", "lock", "probe", "callback", "relock", "lost", "restart"}
    BY <1>0, <1>4, <2>1, OneKind DEF Placed
  <2> QED  BY <1>2, <1>3, <1>4, <2>2 DEF TableLabels, LeaseLabels
<1>5. ASSUME NEW t \in S, pc[t] = "join" PROVE FALSE
  <2>1. PICK u \in S : u \in WaitsFor(t)
    BY <1>0
  <2>2. at[t] = u
    BY <1>1, <1>5, <2>1 DEF TableLabels, LeaseLabels
  <2>3. u \in Leases
    BY <1>0, <1>5, <2>2 DEF Placed, HasLease
  <2> QED  BY <1>4, <2>1, <2>3
<1>6. pc[x] \in TableLabels
  BY <1>2, <1>3, <1>5
<1>7. PICK u \in S : u \in WaitsFor(x)
  BY <1>0
<1>8. g_mutex = u /\ u # Nobody
  BY <1>1, <1>6, <1>7, TableAssumption DEF TableLabels, LeaseLabels
<1>9. pc[u] \in {"walk", "lock", "visiting"}
  BY <1>8, LockParts DEF Holders, Walking
<1> QED  BY <1>2, <1>3, <1>7, <1>9 DEF TableLabels, LeaseLabels

\* The types are kept, whatever the callbacks stop and whenever the module is unloaded:
\* among others, only a visitor ever holds the mutex of the table across a step, only a
\* visitor or a worker the lock of a lease, and a thread is only at labels of the code.
THEOREM TableTypeCorrect == Spec => []TypeOK
<1>1. Init => LockInv
  BY LockInit
<1>2. LockInv /\ [Next]_vars => LockInv'
  BY LockStep
<1>3. LockInv => TypeOK
  BY DEF LockInv
<1>4. QED
  BY <1>1, <1>2, <1>3, PTL DEF Spec

\* No thread waits for itself, for any number of interfaces, leases and threads, with a
\* deinit at any time and callbacks of the rx pump that stop the lease they are for: the
\* self-join of dmdhcp_stop() needs a callback of a timer.
THEOREM WaitsAreAcyclic ==
  ASSUME CallbackStops \subseteq Ifaces
  PROVE  Spec => []NoCircularWait
<1>1. Init => LockInv
  BY LockInit
<1>2. LockInv /\ [Next]_vars => LockInv'
  BY LockStep
<1>3. LockInv => NoCircularWait
  BY LockInvNoCircularWait
<1>4. QED
  BY <1>1, <1>2, <1>3, PTL DEF Spec
=============================================================================
