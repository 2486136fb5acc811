------------------------ MODULE DmdhcpLeaseInductive ------------------------
(***************************************************************************)
(* The inductive invariant of DmdhcpLease, lemmas about the fragments its  *)
(* handlers are made of, and one lemma for the steps of each thread.       *)
(***************************************************************************)
EXTENDS DmdhcpLease, SequenceTheorems, TLAPS

(***************************************************************************)
(* What TypeOK needs besides types.  The probe holds the lock and thereby  *)
(* pins the state it was started for, which has an address to bind.        *)
(***************************************************************************)
ProbeInv ==
  /\ (pc["rt"] = "probe") <=> (lock = "rt")
  /\ pc["rt"] = "probe" => state \in {"checking_offer", "checking_ack"}
  /\ state \in {"checking_offer", "checking_ack"} => offered_ip \in Addrs

\* Servers only answer in a transaction, and every state but init has one.
XidInv ==
  asked # {} \/ state # "init" => xid \in Xids

(***************************************************************************)
(* Where the application's thread is says how much of the lease is left: a *)
(* lease in the table has both its timers, one that is gone has neither    *)
(* and no callback is running.                                             *)
(***************************************************************************)
LifeInv ==
  /\ pc["api"] = "start" => life = "tabled"
  /\ pc["api"] \in {"unapply", "destroy"} => life = "removed"
  /\ pc["api"] \in {"join_rt", "join_lt"} => life = "dead"
  /\ pc["api"] = "join_lt" => retransmit_timer = "destroyed" /\ pc["rt"] = "idle"
  /\ life = "tabled" => retransmit_timer # "destroyed" /\ lease_timer # "destroyed"
  /\ life = "none" => /\ retransmit_timer = "destroyed" /\ lease_timer = "destroyed"
                      /\ pc["rt"] = "idle" /\ pc["lt"] = "idle"

IndInv == TypeOK /\ ProbeInv /\ XidInv /\ LifeInv
-----------------------------------------------------------------------------
\* Most leaves are first-order; the others name SMT.
USE Zenon

\* A prefix of a list of name servers is a list of name servers.
LEMMA PrefixTyped ==
  ASSUME NEW list \in Seq(NameServers), NEW p \in Prefixes(list)
  PROVE  p \in Seq(NameServers)
<1>1. PICK n \in 0 .. Len(list) : p = SubSeq(list, 1, n)
  BY DEF Prefixes
<1> QED
  BY <1>1, SubSeqProperties, SMT

\* OFFERs and ACKs carry an address and options.
LEMMA ReplyTyped ==
  ASSUME NEW m \in Replies, m.type \in {"offer", "ack"}
  PROVE  /\ m.yiaddr \in Addrs
         /\ m.options.netmask \in Masks \cup {NoAddr}
         /\ m.options.router \in Gateways \cup {NoAddr}
         /\ m.options.server_id \in Servers \cup {NoAddr}
         /\ m.options.dns \in Seq(NameServers)
         /\ m.options.ntp \in Seq(NameServers)
<1>1. m \in Offers \cup Acks
  BY DEF Replies, Naks
<1>2. m.yiaddr \in Addrs /\ m.options \in OptionSets
  BY <1>1 DEF Offers, Acks
<1>3. m.options \in ReplyOptions
  BY <1>2, LeaseAssumption
<1> QED
  BY <1>2, <1>3 DEF ReplyOptions

\* populate_lease_from_options() stores what the reply carries.
LEMMA PopulateTyped ==
  ASSUME FieldsTypeOK, NEW m \in Replies, m.type \in {"offer", "ack"},
         populate_lease_from_options(m)
  PROVE  FieldsTypeOK' /\ offered_ip' \in Addrs
<1>1. dns_servers' \in Seq(NameServers) /\ ntp_servers' \in Seq(NameServers)
  BY ReplyTyped, PrefixTyped DEF populate_lease_from_options
<1> QED
  BY <1>1, ReplyTyped DEF populate_lease_from_options, FieldsTypeOK, Kept

\* dmdhcp_lifecycle_apply() leaves an interface and its record, however far it
\* got.
LEMMA ApplyTyped ==
  ASSUME LifecycleTypeOK, NEW ip \in Addrs, NEW mask \in Masks \cup {NoAddr},
         NEW gw \in Gateways \cup {NoAddr}, dmdhcp_lifecycle_apply(ip, mask, gw)
  PROVE  LifecycleTypeOK'
<1>1. PICK outcome \in ApplyOutcomes :
        \/ /\ outcome = "netmask_fails"
           /\ UNCHANGED ifaceVars
        \/ /\ outcome = "address_fails"
           /\ ifcfg' = [ifcfg EXCEPT !.netmask = mask]
           /\ UNCHANGED <<routes, default_route, iface_configured>>
        \/ /\ outcome \in {"ok", "route_fails"}
           /\ ifcfg' = Applied(ip, mask)
           /\ default_route' = NewRoute(gw, outcome)
           /\ routes' = routes \cup ({default_route'} \ {NoAddr})
           /\ iface_configured' = TRUE
  BY DEF dmdhcp_lifecycle_apply
<1>2. CASE outcome = "netmask_fails"
  BY <1>1, <1>2 DEF LifecycleTypeOK, ifaceVars
<1>3. CASE outcome = "address_fails"
  BY <1>1, <1>3 DEF LifecycleTypeOK, IfaceConfigs
<1>4. CASE outcome \in {"ok", "route_fails"}
  <2>1. ifcfg' \in IfaceConfigs
    BY <1>1, <1>4, SMT DEF LifecycleTypeOK, IfaceConfigs, Applied, BroadcastOf
  <2>2. default_route' \in Gateways \cup {NoAddr}
    BY <1>1, <1>4 DEF NewRoute
  <2> QED
    BY <1>1, <1>4, <2>1, <2>2, Zenon DEF LifecycleTypeOK
<1> QED
  BY <1>1, <1>2, <1>3, <1>4

\* dmdhcp_lifecycle_unapply() leaves an interface and its record, whatever was
\* configured.
LEMMA UnapplyTyped ==
  ASSUME LifecycleTypeOK, dmdhcp_lifecycle_unapply
  PROVE  LifecycleTypeOK'
<1>1. CASE iface_configured
  <2>1. ifcfg' \in IfaceConfigs
    BY <1>1, SMT DEF dmdhcp_lifecycle_unapply, IfaceConfigs, Unconfigured
  <2> QED
    BY <1>1, <2>1, Zenon DEF dmdhcp_lifecycle_unapply, LifecycleTypeOK
<1>2. CASE ~iface_configured
  BY <1>2 DEF dmdhcp_lifecycle_unapply, LifecycleTypeOK, ifaceVars
<1> QED
  BY <1>1, <1>2

\* No retransmission is a count of retransmissions.
LEMMA ZeroCount == 0 \in 0 .. MaxRequestRetransmits
  BY LeaseAssumption, SMT

\* Starting a timer keeps it a timer, and does not bring a destroyed one back.
LEMMA StartTyped ==
  ASSUME NEW timer \in TimerStates
  PROVE  /\ dmosi_timer_start(timer) \in TimerStates
         /\ timer # "destroyed" => dmosi_timer_start(timer) = "armed"
         /\ timer = "destroyed" => dmosi_timer_start(timer) = "destroyed"
  BY DEF dmosi_timer_start, TimerStates

\* dmdhcp_output_start_discovery() begins a transaction with a new xid.
LEMMA DiscoveryTyped ==
  ASSUME LeaseTypeOK, lease_timer' \in TimerStates,
         \E x \in FreshXids : dmdhcp_output_start_discovery(x)
  PROVE  LeaseTypeOK' /\ state' = "selecting" /\ xid' \in Xids
<1>1. FieldsTypeOK'
  BY SMT DEF dmdhcp_output_start_discovery, FieldsTypeOK
<1>2. PICK x \in Xids : dmdhcp_output_start_discovery(x)
  BY DEF FreshXids
<1> QED
  BY <1>1, <1>2, ZeroCount, StartTyped DEF dmdhcp_output_start_discovery, begin_transaction,
    start_retransmit_timer, LeaseTypeOK, States

\* dmdhcp_output_start_reboot(), _renew() and _rebind() set the same fields.
LEMMA RequestTyped ==
  ASSUME LeaseTypeOK, lease_timer' \in TimerStates, FieldsTypeOK',
         UNCHANGED <<decline_retry_count, cleared>>,
         NEW s \in States, \E x \in FreshXids : begin_transaction(x, "request", s)
  PROVE  LeaseTypeOK' /\ state' = s /\ xid' \in Xids
<1>1. PICK x \in Xids : begin_transaction(x, "request", s)
  BY DEF FreshXids
<1> QED
  BY <1>1, ZeroCount, StartTyped DEF begin_transaction, start_retransmit_timer, LeaseTypeOK

\* What a step leaves alone keeps its type.
LEMMA FieldsStable == FieldsTypeOK /\ UNCHANGED fields => FieldsTypeOK'
  BY DEF FieldsTypeOK, fields

\* The lease as a whole keeps its type when a step leaves it alone.
LEMMA LeaseStable == LeaseTypeOK /\ UNCHANGED leaseVars => LeaseTypeOK'
  BY FieldsStable DEF LeaseTypeOK, leaseVars, transaction, counters, timers

\* So does the interface.
LEMMA IfaceStable == LifecycleTypeOK /\ UNCHANGED ifaceVars => LifecycleTypeOK'
  BY DEF LifecycleTypeOK, ifaceVars

\* Thread t moves to one of the labels and the others stay where they are.
Moves(t, labels) ==
  /\ ThreadsTypeOK'
  /\ pc'[t] \in labels
  /\ \A u \in Threads : u # t => pc'[u] = pc[u]

\* A thread that goes to one of its labels moves to that label and no other
\* thread moves.
LEMMA GotoMoves ==
  ASSUME ThreadsTypeOK, NEW t \in Threads, NEW label \in Labels[t],
         Goto(t, label)
  PROVE  /\ ThreadsTypeOK'
         /\ pc'[t] = label
         /\ \A u \in Threads : u # t => pc'[u] = pc[u]
  BY DEF ThreadsTypeOK, Goto

\* The rx thread, in the section of a datagram.
LEMMA RxPreserves ==
  ASSUME IndInv, RxHandle
  PROVE  IndInv'
<1> USE DEF IndInv
<1>1. CASE rx_offer
  <2>1. Moves("rx", {"idle"})
    BY <1>1, GotoMoves DEF rx_offer, RxLeave, Moves, TypeOK, Threads, Labels
  <2>2. LeaseTypeOK' /\ offered_ip' \in Addrs
    <3>1. rx_msg \in Replies /\ rx_msg.type \in {"offer", "ack"}
      BY <1>1 DEF rx_offer, RxSection, TypeOK
    <3>2. FieldsTypeOK' /\ offered_ip' \in Addrs
      BY <1>1, <3>1, PopulateTyped DEF rx_offer, hand_off_probe, TypeOK, LeaseTypeOK
    <3> QED
      BY <1>1, <3>2, StartTyped DEF rx_offer, hand_off_probe, start_retransmit_timer,
        TypeOK, LeaseTypeOK, States, counters, transaction
  <2>3. LifecycleTypeOK'
    BY <1>1, IfaceStable DEF rx_offer, hand_off_probe, TypeOK
  <2>4. TypeOK'
    BY <1>1, <2>1, <2>2, <2>3 DEF rx_offer, RxLeave, TypeOK, Moves, Threads
  <2>5. ProbeInv' /\ XidInv' /\ LifeInv'
    BY <1>1, <2>1, <2>2, StartTyped DEF rx_offer, RxSection, RxLeave, hand_off_probe,
      start_retransmit_timer, transaction, TypeOK, LeaseTypeOK, ProbeInv, XidInv,
      LifeInv, Moves, Threads
  <2> QED
    BY <2>4, <2>5
<1>2. CASE rx_ack_first
  <2>1. Moves("rx", {"idle"})
    BY <1>2, GotoMoves DEF rx_ack_first, RxLeave, Moves, TypeOK, Threads, Labels
  <2>2. LeaseTypeOK' /\ offered_ip' \in Addrs
    <3>1. rx_msg \in Replies /\ rx_msg.type \in {"offer", "ack"}
      BY <1>2 DEF rx_ack_first, RxSection, TypeOK
    <3>2. FieldsTypeOK' /\ offered_ip' \in Addrs
      BY <1>2, <3>1, PopulateTyped DEF rx_ack_first, hand_off_probe, TypeOK,
        LeaseTypeOK
    <3> QED
      BY <1>2, <3>2, StartTyped DEF rx_ack_first, hand_off_probe,
        start_retransmit_timer, TypeOK, LeaseTypeOK, States, counters, transaction
  <2>3. LifecycleTypeOK'
    BY <1>2, IfaceStable DEF rx_ack_first, hand_off_probe, TypeOK
  <2>4. TypeOK'
    BY <1>2, <2>1, <2>2, <2>3 DEF rx_ack_first, RxLeave, TypeOK, Moves, Threads
  <2>5. ProbeInv' /\ XidInv' /\ LifeInv'
    BY <1>2, <2>1, <2>2, StartTyped DEF rx_ack_first, RxSection, RxLeave,
      hand_off_probe, start_retransmit_timer, transaction, TypeOK, LeaseTypeOK,
      ProbeInv, XidInv, LifeInv, Moves, Threads
  <2> QED
    BY <2>4, <2>5
<1>3. CASE rx_nak_first
  <2>1. Moves("rx", {"idle"})
    BY <1>3, GotoMoves DEF rx_nak_first, RxLeave, Moves, TypeOK, Threads, Labels
  <2>2. LeaseTypeOK' /\ state' = "selecting" /\ xid' \in Xids
    BY <1>3, DiscoveryTyped DEF rx_nak_first, TypeOK, LeaseTypeOK
  <2>3. LifecycleTypeOK'
    BY <1>3, IfaceStable DEF rx_nak_first, TypeOK
  <2>4. TypeOK'
    BY <1>3, <2>1, <2>2, <2>3 DEF rx_nak_first, RxLeave, TypeOK, Moves, Threads
  <2>5. ProbeInv' /\ XidInv' /\ LifeInv'
    BY <1>3, <2>1, <2>2, StartTyped DEF rx_nak_first, RxLeave, RxSection,
      dmdhcp_output_start_discovery, begin_transaction, start_retransmit_timer,
      TypeOK, LeaseTypeOK, ProbeInv, XidInv, LifeInv, Moves, Threads
  <2> QED
    BY <2>4, <2>5
<1>4. CASE rx_ack_renewal
  <2>1. Moves("rx", {"on_bound"})
    BY <1>4, GotoMoves DEF rx_ack_renewal, RxLeave, Moves, TypeOK, Threads, Labels
  <2>2. LeaseTypeOK' /\ FieldsTypeOK' /\ offered_ip' \in Addrs
    <3>1. rx_msg \in Replies /\ rx_msg.type \in {"offer", "ack"}
      BY <1>4 DEF rx_ack_renewal, RxSection, TypeOK
    <3>2. FieldsTypeOK' /\ offered_ip' \in Addrs
      BY <1>4, <3>1, PopulateTyped DEF rx_ack_renewal, TypeOK, LeaseTypeOK
    <3> QED
      BY <1>4, <3>2, StartTyped DEF rx_ack_renewal, enter_bound, start_lease_timer, TypeOK,
        LeaseTypeOK, States, transaction
  <2>3. LifecycleTypeOK'
    BY <1>4, <2>2, ApplyTyped, Zenon DEF rx_ack_renewal, enter_bound, TypeOK,
      FieldsTypeOK
  <2>4. TypeOK'
    BY <1>4, <2>1, <2>2, <2>3 DEF rx_ack_renewal, RxLeave, TypeOK, Moves, Threads
  <2>5. ProbeInv' /\ XidInv' /\ LifeInv'
    BY <1>4, <2>1, <2>2, StartTyped DEF rx_ack_renewal, RxSection, RxLeave,
      enter_bound, start_lease_timer, transaction, TypeOK, LeaseTypeOK, ProbeInv,
      XidInv, LifeInv, Moves, Threads
  <2> QED
    BY <2>4, <2>5
<1>5. CASE rx_nak_renewal
  <2>1. Moves("rx", {"lost_unapply"})
    BY <1>5, GotoMoves DEF rx_nak_renewal, RxLeave, Moves, TypeOK, Threads, Labels
  <2>2. LeaseTypeOK'
    BY <1>5, LeaseStable DEF rx_nak_renewal, TypeOK
  <2>3. LifecycleTypeOK'
    BY <1>5, IfaceStable DEF rx_nak_renewal, TypeOK
  <2>4. TypeOK'
    BY <1>5, <2>1, <2>2, <2>3 DEF rx_nak_renewal, RxLeave, TypeOK, Moves, Threads
  <2>5. ProbeInv' /\ XidInv' /\ LifeInv'
    BY <1>5, <2>1 DEF rx_nak_renewal, RxLeave, leaseVars, fields, counters,
      transaction, timers, ProbeInv, XidInv, LifeInv, Moves, Threads
  <2> QED
    BY <2>4, <2>5
<1>6. CASE rx_ignore
  <2>1. Moves("rx", {"idle"})
    BY <1>6, GotoMoves DEF rx_ignore, RxLeave, Moves, TypeOK, Threads, Labels
  <2>2. LeaseTypeOK'
    BY <1>6, LeaseStable DEF rx_ignore, TypeOK
  <2>3. LifecycleTypeOK'
    BY <1>6, IfaceStable DEF rx_ignore, TypeOK
  <2>4. TypeOK'
    BY <1>6, <2>1, <2>2, <2>3 DEF rx_ignore, RxLeave, TypeOK, Moves, Threads
  <2>5. ProbeInv' /\ XidInv' /\ LifeInv'
    BY <1>6, <2>1 DEF rx_ignore, RxLeave, leaseVars, fields, counters, transaction,
      timers, ProbeInv, XidInv, LifeInv, Moves, Threads
  <2> QED
    BY <2>4, <2>5
<1>7. CASE rx_abandon
  <2>1. Moves("rx", {"idle"})
    BY <1>7, GotoMoves DEF rx_abandon, RxLeave, Moves, TypeOK, Threads, Labels
  <2>2. LeaseTypeOK'
    BY <1>7, LeaseStable DEF rx_abandon, TypeOK
  <2>3. LifecycleTypeOK'
    BY <1>7, IfaceStable DEF rx_abandon, TypeOK
  <2>4. TypeOK'
    BY <1>7, <2>1, <2>2, <2>3 DEF rx_abandon, RxLeave, TypeOK, Moves, Threads
  <2>5. ProbeInv' /\ XidInv' /\ LifeInv'
    BY <1>7, <2>1 DEF rx_abandon, RxLeave, leaseVars, fields, counters, transaction,
      timers, ProbeInv, XidInv, LifeInv, Moves, Threads
  <2> QED
    BY <2>4, <2>5
<1> QED
  BY <1>1, <1>2, <1>3, <1>4, <1>5, <1>6, <1>7 DEF RxHandle

\* dmdhcp_lifecycle_handle_lost(), on either thread that runs it.
LEMMA LostPreserves ==
  ASSUME IndInv, NEW t \in {"rx", "lt"}, Lost(t)
  PROVE  IndInv'
<1> USE DEF IndInv
<1>0. t \in Threads /\ "idle" \in Labels[t] /\ "lost_notify" \in Labels[t]
  BY SMT DEF Threads, Labels
<1>1. CASE lost_unapply(t)
  <2>1. Moves(t, {"lost_notify"})
    BY <1>0, <1>1, GotoMoves DEF lost_unapply, Moves, TypeOK
  <2>2. LeaseTypeOK'
    BY <1>1, SMT DEF lost_unapply, TypeOK, LeaseTypeOK, FieldsTypeOK, counters, transaction,
      timers
  <2>3. LifecycleTypeOK'
    BY <1>1, UnapplyTyped DEF lost_unapply, TypeOK
  <2>4. TypeOK'
    BY <1>1, <2>1, <2>2, <2>3 DEF lost_unapply, TypeOK, Moves, Threads
  <2>5. ProbeInv' /\ XidInv' /\ LifeInv'
    BY <1>1, <2>1 DEF lost_unapply, Allocated, transaction, timers, ProbeInv, XidInv,
      LifeInv, Moves, Threads
  <2> QED
    BY <2>4, <2>5
<1>2. CASE lost_restart(t)
  <2>1. Moves(t, {"idle"})
    BY <1>0, <1>2, GotoMoves DEF lost_restart, Moves, TypeOK
  <2>2. LeaseTypeOK' /\ state' = "selecting" /\ xid' \in Xids
    BY <1>2, DiscoveryTyped DEF lost_restart, TypeOK, LeaseTypeOK
  <2>3. LifecycleTypeOK'
    BY <1>2, IfaceStable DEF lost_restart, TypeOK
  <2>4. TypeOK'
    BY <1>2, <2>1, <2>2, <2>3 DEF lost_restart, TypeOK, Moves, Threads
  <2>5. ProbeInv' /\ XidInv' /\ LifeInv'
    BY <1>2, <2>1, <2>2, StartTyped DEF lost_restart, Allocated,
      dmdhcp_output_start_discovery, begin_transaction, start_retransmit_timer, TypeOK,
      LeaseTypeOK, ProbeInv, XidInv, LifeInv, Moves, Threads
  <2> QED
    BY <2>4, <2>5
<1> QED
  BY <1>1, <1>2 DEF Lost
-----------------------------------------------------------------------------
\* The worker of retransmit_timer.
LEMMA RtPreserves ==
  ASSUME IndInv, RtHandle
  PROVE  IndInv'
<1> USE DEF IndInv
<1>1. CASE rt_resend
  <2>1. Moves("rt", {"idle"})
    BY <1>1, GotoMoves DEF rt_resend, Moves, TypeOK, Threads, Labels
  <2>2. LeaseTypeOK'
    BY <1>1, FieldsStable, StartTyped DEF rt_resend, Resent, start_retransmit_timer, counters,
      TypeOK, LeaseTypeOK
  <2>3. LifecycleTypeOK'
    BY <1>1, IfaceStable DEF rt_resend, TypeOK
  <2>4. TypeOK'
    BY <1>1, <2>1, <2>2, <2>3 DEF rt_resend, TypeOK, Moves, Threads
  <2>5. ProbeInv' /\ XidInv' /\ LifeInv'
    BY <1>1, <2>1, <2>2, StartTyped DEF rt_resend, RtSection, start_retransmit_timer,
      fields, TypeOK, LeaseTypeOK, ProbeInv, XidInv, LifeInv, Moves, Threads
  <2> QED
    BY <2>4, <2>5
<1>2. CASE rt_resend_counted
  <2>1. Moves("rt", {"idle"})
    BY <1>2, GotoMoves DEF rt_resend_counted, Moves, TypeOK, Threads, Labels
  <2>2. LeaseTypeOK'
    BY <1>2, FieldsStable, StartTyped, LeaseAssumption, SMT DEF rt_resend_counted,
      start_retransmit_timer, TypeOK, LeaseTypeOK
  <2>3. LifecycleTypeOK'
    BY <1>2, IfaceStable DEF rt_resend_counted, TypeOK
  <2>4. TypeOK'
    BY <1>2, <2>1, <2>2, <2>3 DEF rt_resend_counted, TypeOK, Moves, Threads
  <2>5. ProbeInv' /\ XidInv' /\ LifeInv'
    BY <1>2, <2>1, <2>2, StartTyped DEF rt_resend_counted, RtSection,
      start_retransmit_timer, fields, TypeOK, LeaseTypeOK, ProbeInv, XidInv, LifeInv,
      Moves, Threads
  <2> QED
    BY <2>4, <2>5
<1>3. CASE rt_rediscover
  <2>1. Moves("rt", {"idle"})
    BY <1>3, GotoMoves DEF rt_rediscover, Moves, TypeOK, Threads, Labels
  <2>2. LeaseTypeOK' /\ state' = "selecting" /\ xid' \in Xids
    BY <1>3, DiscoveryTyped DEF rt_rediscover, TypeOK, LeaseTypeOK
  <2>3. LifecycleTypeOK'
    BY <1>3, IfaceStable DEF rt_rediscover, TypeOK
  <2>4. TypeOK'
    BY <1>3, <2>1, <2>2, <2>3 DEF rt_rediscover, TypeOK, Moves, Threads
  <2>5. ProbeInv' /\ XidInv' /\ LifeInv'
    BY <1>3, <2>1, <2>2, StartTyped DEF rt_rediscover, RtSection,
      dmdhcp_output_start_discovery, begin_transaction, start_retransmit_timer,
      TypeOK, LeaseTypeOK, ProbeInv, XidInv, LifeInv, Moves, Threads
  <2> QED
    BY <2>4, <2>5
<1>4. CASE rt_stale
  <2>1. Moves("rt", {"idle"})
    BY <1>4, GotoMoves DEF rt_stale, RtSection, Moves, TypeOK, Threads, Labels
  <2>2. LeaseTypeOK'
    BY <1>4, LeaseStable DEF rt_stale, TypeOK
  <2>3. LifecycleTypeOK'
    BY <1>4, IfaceStable DEF rt_stale, TypeOK
  <2>4. TypeOK'
    BY <1>4, <2>1, <2>2, <2>3 DEF rt_stale, RtSection, TypeOK, Moves, Threads
  <2>5. ProbeInv' /\ XidInv' /\ LifeInv'
    BY <1>4, <2>1 DEF rt_stale, RtSection, leaseVars, fields, counters, transaction,
      timers, ProbeInv, XidInv, LifeInv, Moves, Threads
  <2> QED
    BY <2>4, <2>5
<1>5. CASE rt_probe
  <2>1. Moves("rt", {"probe"})
    BY <1>5, GotoMoves DEF rt_probe, RtSection, Moves, TypeOK, Threads, Labels
  <2>2. LeaseTypeOK'
    BY <1>5, LeaseStable DEF rt_probe, TypeOK
  <2>3. LifecycleTypeOK'
    BY <1>5, IfaceStable DEF rt_probe, TypeOK
  <2>4. TypeOK'
    BY <1>5, <2>1, <2>2, <2>3 DEF rt_probe, RtSection, TypeOK, Moves, Threads
  <2>5. ProbeInv' /\ XidInv' /\ LifeInv'
    BY <1>5, <2>1 DEF rt_probe, RtSection, leaseVars, fields, counters, transaction,
      timers, ProbeInv, XidInv, LifeInv, Moves, Threads
  <2> QED
    BY <2>4, <2>5
<1>6. CASE handle_conflict
  <2>1. Moves("rt", {"idle", "on_error"})
    BY <1>6, GotoMoves DEF handle_conflict, Moves, TypeOK, Threads, Labels
  <2>2. LeaseTypeOK'
    BY <1>6, FieldsStable, StartTyped, SMT DEF handle_conflict, start_retransmit_timer,
      transaction, States, TypeOK, LeaseTypeOK
  <2>3. LifecycleTypeOK'
    BY <1>6, IfaceStable DEF handle_conflict, TypeOK
  <2>4. TypeOK'
    BY <1>6, <2>1, <2>2, <2>3 DEF handle_conflict, TypeOK, Moves, Threads
  <2>5. ProbeInv' /\ XidInv' /\ LifeInv'
    BY <1>6, <2>1, <2>2, StartTyped DEF handle_conflict, start_retransmit_timer,
      transaction, fields, TypeOK, LeaseTypeOK, ProbeInv, XidInv, LifeInv, Moves,
      Threads
  <2> QED
    BY <2>4, <2>5
<1>7. CASE probe_clean_offer
  <2>1. Moves("rt", {"idle"})
    BY <1>7, GotoMoves DEF probe_clean_offer, Moves, TypeOK, Threads, Labels
  <2>2. LeaseTypeOK'
    BY <1>7, FieldsStable, StartTyped, ZeroCount DEF probe_clean_offer,
      start_retransmit_timer, FieldsTypeOK, States, TypeOK, LeaseTypeOK
  <2>3. LifecycleTypeOK'
    BY <1>7, IfaceStable DEF probe_clean_offer, TypeOK
  <2>4. TypeOK'
    BY <1>7, <2>1, <2>2, <2>3 DEF probe_clean_offer, TypeOK, Moves, Threads
  <2>5. ProbeInv' /\ XidInv' /\ LifeInv'
    BY <1>7, <2>1, <2>2, StartTyped DEF probe_clean_offer, start_retransmit_timer,
      fields, TypeOK, LeaseTypeOK, ProbeInv, XidInv, LifeInv, Moves, Threads
  <2> QED
    BY <2>4, <2>5
<1>8. CASE probe_clean_ack
  <2>1. Moves("rt", {"on_bound"})
    BY <1>8, GotoMoves DEF probe_clean_ack, Moves, TypeOK, Threads, Labels
  <2>2. LeaseTypeOK' /\ FieldsTypeOK' /\ offered_ip' \in Addrs
    <3>1. FieldsTypeOK' /\ offered_ip' \in Addrs
      BY <1>8, FieldsStable DEF probe_clean_ack, fields, ProbeInv, TypeOK, LeaseTypeOK
    <3> QED
      BY <1>8, <3>1, StartTyped DEF probe_clean_ack, enter_bound, start_lease_timer,
        transaction, fields, TypeOK, LeaseTypeOK, States
  <2>3. LifecycleTypeOK'
    BY <1>8, <2>2, ApplyTyped, Zenon DEF probe_clean_ack, enter_bound, TypeOK, FieldsTypeOK
  <2>4. TypeOK'
    BY <1>8, <2>1, <2>2, <2>3 DEF probe_clean_ack, TypeOK, Moves, Threads
  <2>5. ProbeInv' /\ XidInv' /\ LifeInv'
    BY <1>8, <2>1, <2>2, StartTyped DEF probe_clean_ack, enter_bound,
      start_lease_timer, transaction, TypeOK, LeaseTypeOK, ProbeInv, XidInv, LifeInv,
      Moves, Threads
  <2> QED
    BY <2>4, <2>5
<1>9. CASE rt_return
  <2>1. Moves("rt", {"idle"})
    BY <1>9, GotoMoves DEF rt_return, Moves, TypeOK, Threads, Labels
  <2>2. LeaseTypeOK'
    BY <1>9, LeaseStable DEF rt_return, TypeOK
  <2>3. LifecycleTypeOK'
    BY <1>9, IfaceStable DEF rt_return, TypeOK
  <2>4. TypeOK'
    BY <1>9, <2>1, <2>2, <2>3 DEF rt_return, TypeOK, Moves, Threads
  <2>5. ProbeInv' /\ XidInv' /\ LifeInv'
    BY <1>9, <2>1 DEF rt_return, leaseVars, fields, counters, transaction, timers,
      ProbeInv, XidInv, LifeInv, Moves, Threads
  <2> QED
    BY <2>4, <2>5
<1> QED
  BY <1>1, <1>2, <1>3, <1>4, <1>5, <1>6, <1>7, <1>8, <1>9 DEF RtHandle

\* The worker of lease_timer.
LEMMA LtPreserves ==
  ASSUME IndInv, LtHandle
  PROVE  IndInv'
<1> USE DEF IndInv
<1>1. CASE lt_t1
  <2>1. Moves("lt", {"idle"})
    BY <1>1, GotoMoves DEF lt_t1, Moves, TypeOK, Threads, Labels
  <2>2. LeaseTypeOK' /\ state' = "renewing" /\ xid' \in Xids
    <3>1. lease_timer' \in TimerStates /\ FieldsTypeOK' /\ "renewing" \in States
      BY <1>1, StartTyped, FieldsStable DEF lt_t1, dmdhcp_output_start_renew,
        start_lease_timer, TypeOK, LeaseTypeOK, States
    <3> QED
      BY <1>1, <3>1, RequestTyped DEF lt_t1, dmdhcp_output_start_renew, TypeOK
  <2>3. LifecycleTypeOK'
    BY <1>1, IfaceStable DEF lt_t1, TypeOK
  <2>4. TypeOK'
    BY <1>1, <2>1, <2>2, <2>3 DEF lt_t1, TypeOK, Moves, Threads
  <2>5. ProbeInv' /\ XidInv' /\ LifeInv'
    BY <1>1, <2>1, <2>2, StartTyped DEF lt_t1, LtSection, dmdhcp_output_start_renew,
      begin_transaction, start_retransmit_timer, start_lease_timer, fields, TypeOK,
      LeaseTypeOK, ProbeInv, XidInv, LifeInv, Moves, Threads
  <2> QED
    BY <2>4, <2>5
<1>2. CASE lt_t2
  <2>1. Moves("lt", {"idle"})
    BY <1>2, GotoMoves DEF lt_t2, Moves, TypeOK, Threads, Labels
  <2>2. LeaseTypeOK' /\ state' = "rebinding" /\ xid' \in Xids
    <3>1. lease_timer' \in TimerStates /\ FieldsTypeOK' /\ "rebinding" \in States
      BY <1>2, StartTyped, FieldsStable DEF lt_t2, dmdhcp_output_start_rebind,
        start_lease_timer, TypeOK, LeaseTypeOK, States
    <3> QED
      BY <1>2, <3>1, RequestTyped DEF lt_t2, dmdhcp_output_start_rebind, TypeOK
  <2>3. LifecycleTypeOK'
    BY <1>2, IfaceStable DEF lt_t2, TypeOK
  <2>4. TypeOK'
    BY <1>2, <2>1, <2>2, <2>3 DEF lt_t2, TypeOK, Moves, Threads
  <2>5. ProbeInv' /\ XidInv' /\ LifeInv'
    BY <1>2, <2>1, <2>2, StartTyped DEF lt_t2, LtSection, dmdhcp_output_start_rebind,
      begin_transaction, start_retransmit_timer, start_lease_timer, fields, TypeOK,
      LeaseTypeOK, ProbeInv, XidInv, LifeInv, Moves, Threads
  <2> QED
    BY <2>4, <2>5
<1>3. CASE lt_expiry
  <2>1. Moves("lt", {"lost_unapply"})
    BY <1>3, GotoMoves DEF lt_expiry, LtSection, Moves, TypeOK, Threads, Labels
  <2>2. LeaseTypeOK'
    BY <1>3, LeaseStable DEF lt_expiry, TypeOK
  <2>3. LifecycleTypeOK'
    BY <1>3, IfaceStable DEF lt_expiry, TypeOK
  <2>4. TypeOK'
    BY <1>3, <2>1, <2>2, <2>3 DEF lt_expiry, LtSection, TypeOK, Moves, Threads
  <2>5. ProbeInv' /\ XidInv' /\ LifeInv'
    BY <1>3, <2>1 DEF lt_expiry, LtSection, leaseVars, fields, counters, transaction,
      timers, ProbeInv, XidInv, LifeInv, Moves, Threads
  <2> QED
    BY <2>4, <2>5
<1>4. CASE lt_stale
  <2>1. Moves("lt", {"idle"})
    BY <1>4, GotoMoves DEF lt_stale, LtSection, Moves, TypeOK, Threads, Labels
  <2>2. LeaseTypeOK'
    BY <1>4, LeaseStable DEF lt_stale, TypeOK
  <2>3. LifecycleTypeOK'
    BY <1>4, IfaceStable DEF lt_stale, TypeOK
  <2>4. TypeOK'
    BY <1>4, <2>1, <2>2, <2>3 DEF lt_stale, LtSection, TypeOK, Moves, Threads
  <2>5. ProbeInv' /\ XidInv' /\ LifeInv'
    BY <1>4, <2>1 DEF lt_stale, LtSection, leaseVars, fields, counters, transaction,
      timers, ProbeInv, XidInv, LifeInv, Moves, Threads
  <2> QED
    BY <2>4, <2>5
<1> QED
  BY <1>1, <1>2, <1>3, <1>4 DEF LtHandle

\* A timer fires, or on_bound() returns on the rx thread.
LEMMA FirePreserves ==
  ASSUME IndInv, rt_fire \/ lt_fire \/ rx_return
  PROVE  IndInv'
<1> USE DEF IndInv
<1>1. CASE rt_fire
  <2>1. Moves("rt", {"idle", "lock"})
    BY <1>1, GotoMoves DEF rt_fire, Moves, TypeOK, Threads, Labels
  <2>2. LeaseTypeOK'
    BY <1>1, FieldsStable DEF rt_fire, counters, transaction, TimerStates, TypeOK,
      LeaseTypeOK
  <2>3. LifecycleTypeOK'
    BY <1>1, IfaceStable DEF rt_fire, TypeOK
  <2>4. TypeOK'
    BY <1>1, <2>1, <2>2, <2>3 DEF rt_fire, TypeOK, Moves, Threads
  <2>5. ProbeInv' /\ XidInv' /\ LifeInv'
    BY <1>1, <2>1, <2>2 DEF rt_fire, WorkerFree, Magic, fields, transaction, TypeOK,
      LeaseTypeOK, ProbeInv, XidInv, LifeInv, Moves, Threads
  <2> QED
    BY <2>4, <2>5
<1>2. CASE lt_fire
  <2>1. Moves("lt", {"idle", "lock"})
    BY <1>2, GotoMoves DEF lt_fire, Moves, TypeOK, Threads, Labels
  <2>2. LeaseTypeOK'
    BY <1>2, FieldsStable DEF lt_fire, counters, transaction, TimerStates, TypeOK,
      LeaseTypeOK
  <2>3. LifecycleTypeOK'
    BY <1>2, IfaceStable DEF lt_fire, TypeOK
  <2>4. TypeOK'
    BY <1>2, <2>1, <2>2, <2>3 DEF lt_fire, TypeOK, Moves, Threads
  <2>5. ProbeInv' /\ XidInv' /\ LifeInv'
    BY <1>2, <2>1, <2>2 DEF lt_fire, WorkerFree, Magic, fields, transaction, TypeOK,
      LeaseTypeOK, ProbeInv, XidInv, LifeInv, Moves, Threads
  <2> QED
    BY <2>4, <2>5
<1>3. CASE rx_return
  <2>1. Moves("rx", {"idle"})
    BY <1>3, GotoMoves DEF rx_return, Moves, TypeOK, Threads, Labels
  <2>2. LeaseTypeOK'
    BY <1>3, LeaseStable DEF rx_return, TypeOK
  <2>3. LifecycleTypeOK'
    BY <1>3, IfaceStable DEF rx_return, TypeOK
  <2>4. TypeOK'
    BY <1>3, <2>1, <2>2, <2>3 DEF rx_return, TypeOK, Moves, Threads
  <2>5. ProbeInv' /\ XidInv' /\ LifeInv'
    BY <1>3, <2>1 DEF rx_return, leaseVars, fields, counters, transaction, timers,
      ProbeInv, XidInv, LifeInv, Moves, Threads
  <2> QED
    BY <2>4, <2>5
<1> QED
  BY <1>1, <1>2, <1>3

\* The application's thread, up to the removal from the table.
LEMMA ApiPreserves ==
  ASSUME IndInv, Start \/ dmdhcp_renew \/ dmdhcp_release \/ dmdhcp_stop
  PROVE  IndInv'
<1> USE DEF IndInv
<1>1. CASE start_insert
  <2>1. Moves("api", {"start"})
    BY <1>1, GotoMoves DEF start_insert, Moves, TypeOK, Threads, Labels
  <2>2. LeaseTypeOK'
    <3>1. FieldsTypeOK'
      BY <1>1, SMT DEF start_insert, zero_lease, FieldsTypeOK
    <3> QED
      BY <1>1, <3>1, ZeroCount DEF start_insert, zero_lease, TypeOK, LeaseTypeOK,
        States, TimerStates
  <2>3. LifecycleTypeOK'
    <3>1. iface_configured' \in BOOLEAN
      BY <1>1, Zenon DEF start_insert, zero_lease
    <3> QED
      BY <1>1, <3>1 DEF start_insert, zero_lease, TypeOK, LifecycleTypeOK
  <2>4. TypeOK'
    BY <1>1, <2>1, <2>2, <2>3 DEF start_insert, TypeOK, Moves, Threads
  <2>5. ProbeInv' /\ XidInv' /\ LifeInv'
    BY <1>1, <2>1, <2>2 DEF start_insert, zero_lease, TypeOK, LeaseTypeOK, ProbeInv,
      XidInv, LifeInv, Moves, Threads
  <2> QED
    BY <2>4, <2>5
<1>2. CASE start_reboot
  <2>1. Moves("api", {"idle"})
    BY <1>2, GotoMoves DEF start_reboot, Moves, TypeOK, Threads, Labels
  <2>2. LeaseTypeOK' /\ state' = "rebooting" /\ xid' \in Xids
    <3>1. FieldsTypeOK' /\ "rebooting" \in States
      BY <1>2, LeaseAssumption DEF start_reboot, TypeOK, LeaseTypeOK, FieldsTypeOK, States
    <3> QED
      BY <1>2, <3>1, RequestTyped DEF start_reboot, dmdhcp_output_start_reboot, TypeOK,
        LeaseTypeOK
  <2>3. LifecycleTypeOK'
    BY <1>2, IfaceStable DEF start_reboot, TypeOK
  <2>4. TypeOK'
    BY <1>2, <2>1, <2>2, <2>3 DEF start_reboot, TypeOK, Moves, Threads
  <2>5. ProbeInv' /\ XidInv' /\ LifeInv'
    BY <1>2, <2>1, <2>2, StartTyped DEF start_reboot, dmdhcp_output_start_reboot,
      begin_transaction, start_retransmit_timer, TypeOK, LeaseTypeOK, ProbeInv,
      XidInv, LifeInv, Moves, Threads
  <2> QED
    BY <2>4, <2>5
<1>3. CASE start_discovery
  <2>1. Moves("api", {"idle"})
    BY <1>3, GotoMoves DEF start_discovery, Moves, TypeOK, Threads, Labels
  <2>2. LeaseTypeOK' /\ state' = "selecting" /\ xid' \in Xids
    BY <1>3, DiscoveryTyped DEF start_discovery, TypeOK, LeaseTypeOK
  <2>3. LifecycleTypeOK'
    BY <1>3, IfaceStable DEF start_discovery, TypeOK
  <2>4. TypeOK'
    BY <1>3, <2>1, <2>2, <2>3 DEF start_discovery, TypeOK, Moves, Threads
  <2>5. ProbeInv' /\ XidInv' /\ LifeInv'
    BY <1>3, <2>1, <2>2, StartTyped DEF start_discovery,
      dmdhcp_output_start_discovery, begin_transaction, start_retransmit_timer,
      TypeOK, LeaseTypeOK, ProbeInv, XidInv, LifeInv, Moves, Threads
  <2> QED
    BY <2>4, <2>5
<1>4. CASE dmdhcp_renew
  <2>1. ThreadsTypeOK' /\ pc' = pc
    BY <1>4 DEF dmdhcp_renew, TypeOK, ThreadsTypeOK
  <2>2. LeaseTypeOK' /\ state' = "renewing" /\ xid' \in Xids
    <3>1. FieldsTypeOK' /\ "renewing" \in States
      BY <1>4, FieldsStable DEF dmdhcp_renew, dmdhcp_output_start_renew, TypeOK,
        LeaseTypeOK, States
    <3> QED
      BY <1>4, <3>1, RequestTyped DEF dmdhcp_renew, dmdhcp_output_start_renew, TypeOK,
        LeaseTypeOK
  <2>3. LifecycleTypeOK'
    BY <1>4, IfaceStable DEF dmdhcp_renew, TypeOK
  <2>4. TypeOK'
    BY <1>4, <2>1, <2>2, <2>3 DEF dmdhcp_renew, TypeOK
  <2>5. ProbeInv' /\ XidInv' /\ LifeInv'
    BY <1>4, <2>1, <2>2, StartTyped DEF dmdhcp_renew, Magic,
      dmdhcp_output_start_renew, begin_transaction, start_retransmit_timer, fields,
      TypeOK, LeaseTypeOK, ProbeInv, XidInv, LifeInv
  <2> QED
    BY <2>4, <2>5
<1>5. CASE table_remove
  <2>1. Moves("api", {"unapply"})
    BY <1>5, GotoMoves DEF table_remove, Moves, TypeOK, Threads, Labels
  <2>2. LeaseTypeOK'
    BY <1>5, LeaseStable DEF table_remove, TypeOK
  <2>3. LifecycleTypeOK'
    BY <1>5, IfaceStable DEF table_remove, TypeOK
  <2>4. TypeOK'
    BY <1>5, <2>1, <2>2, <2>3 DEF table_remove, TypeOK, Moves, Threads
  <2>5. ProbeInv' /\ XidInv' /\ LifeInv'
    BY <1>5, <2>1 DEF table_remove, leaseVars, fields, counters, transaction, timers,
      ProbeInv, XidInv, LifeInv, Moves, Threads
  <2> QED
    BY <2>4, <2>5
<1> QED
  BY <1>1, <1>2, <1>3, <1>4, <1>5 DEF Start, dmdhcp_release, dmdhcp_stop

\* The application's thread, taking the lease down.
LEMMA TeardownPreserves ==
  ASSUME IndInv, Teardown
  PROVE  IndInv'
<1> USE DEF IndInv
<1>1. CASE teardown_unapply
  <2>1. Moves("api", {"destroy"})
    BY <1>1, GotoMoves DEF teardown_unapply, Moves, TypeOK, Threads, Labels
  <2>2. LeaseTypeOK'
    BY <1>1, LeaseStable DEF teardown_unapply, TypeOK
  <2>3. LifecycleTypeOK'
    BY <1>1, UnapplyTyped DEF teardown_unapply, TypeOK
  <2>4. TypeOK'
    BY <1>1, <2>1, <2>2, <2>3 DEF teardown_unapply, TypeOK, Moves, Threads
  <2>5. ProbeInv' /\ XidInv' /\ LifeInv'
    BY <1>1, <2>1 DEF teardown_unapply, leaseVars, fields, counters, transaction,
      timers, ProbeInv, XidInv, LifeInv, Moves, Threads
  <2> QED
    BY <2>4, <2>5
<1>2. CASE destroy_begin
  <2>1. Moves("api", {"join_rt"})
    BY <1>2, GotoMoves DEF destroy_begin, Moves, TypeOK, Threads, Labels
  <2>2. LeaseTypeOK'
    BY <1>2, FieldsStable DEF destroy_begin, counters, transaction, TimerStates,
      TypeOK, LeaseTypeOK
  <2>3. LifecycleTypeOK'
    BY <1>2, IfaceStable DEF destroy_begin, TypeOK
  <2>4. TypeOK'
    BY <1>2, <2>1, <2>2, <2>3 DEF destroy_begin, TypeOK, Moves, Threads
  <2>5. ProbeInv' /\ XidInv' /\ LifeInv'
    BY <1>2, <2>1, <2>2 DEF destroy_begin, fields, transaction, TypeOK, LeaseTypeOK,
      ProbeInv, XidInv, LifeInv, Moves, Threads
  <2> QED
    BY <2>4, <2>5
<1>3. CASE destroy_retransmit_timer
  <2>1. Moves("api", {"join_lt"})
    BY <1>3, GotoMoves DEF destroy_retransmit_timer, Moves, TypeOK, Threads, Labels
  <2>2. LeaseTypeOK'
    BY <1>3, FieldsStable DEF destroy_retransmit_timer, counters, transaction,
      TimerStates, TypeOK, LeaseTypeOK
  <2>3. LifecycleTypeOK'
    BY <1>3, IfaceStable DEF destroy_retransmit_timer, TypeOK
  <2>4. TypeOK'
    BY <1>3, <2>1, <2>2, <2>3 DEF destroy_retransmit_timer, TypeOK, Moves, Threads
  <2>5. ProbeInv' /\ XidInv' /\ LifeInv'
    BY <1>3, <2>1, <2>2 DEF destroy_retransmit_timer, fields, transaction, TypeOK,
      LeaseTypeOK, ProbeInv, XidInv, LifeInv, Moves, Threads
  <2> QED
    BY <2>4, <2>5
<1>4. CASE destroy_lease_timer
  <2>1. Moves("api", {"idle"})
    BY <1>4, GotoMoves DEF destroy_lease_timer, Moves, TypeOK, Threads, Labels
  <2>2. LeaseTypeOK'
    <3>1. FieldsTypeOK'
      BY <1>4, SMT DEF destroy_lease_timer, zero_lease, FieldsTypeOK
    <3> QED
      BY <1>4, <3>1, ZeroCount DEF destroy_lease_timer, zero_lease, TypeOK,
        LeaseTypeOK, States, TimerStates
  <2>3. LifecycleTypeOK'
    <3>1. iface_configured' \in BOOLEAN
      BY <1>4, Zenon DEF destroy_lease_timer, zero_lease
    <3> QED
      BY <1>4, <3>1 DEF destroy_lease_timer, zero_lease, TypeOK, LifecycleTypeOK
  <2>4. TypeOK'
    BY <1>4, <2>1, <2>2, <2>3 DEF destroy_lease_timer, TypeOK, Moves, Threads
  <2>5. ProbeInv' /\ XidInv' /\ LifeInv'
    BY <1>4, <2>1, <2>2 DEF destroy_lease_timer, zero_lease, TypeOK, LeaseTypeOK,
      ProbeInv, XidInv, LifeInv, Moves, Threads
  <2> QED
    BY <2>4, <2>5
<1> QED
  BY <1>1, <1>2, <1>3, <1>4 DEF Teardown

\* The replies servers make are replies.
LEMMA ReplyBuilt ==
  ASSUME NEW x \in Xids
  PROVE  /\ \A a \in Addrs, o \in OptionSets :
              /\ [type |-> "offer", xid |-> x, yiaddr |-> a, options |-> o] \in Replies
              /\ [type |-> "ack", xid |-> x, yiaddr |-> a, options |-> o] \in Replies
         /\ [type |-> "nak", xid |-> x] \in Replies
  BY DEF Replies, Offers, Acks, Naks

\* The network, and the lookup of the lease a datagram is for.
LEMMA NetPreserves ==
  ASSUME IndInv, (\E m \in net : rx_find_by_xid(m) \/ lose(m)) \/ server_reply
  PROVE  IndInv'
<1> USE DEF IndInv
<1>1. ASSUME NEW m \in net, rx_find_by_xid(m)
      PROVE  IndInv'
  <2>1. Moves("rx", {"lock"})
    BY <1>1, GotoMoves DEF rx_find_by_xid, Moves, TypeOK, Threads, Labels
  <2>2. LeaseTypeOK' /\ LifecycleTypeOK'
    BY <1>1, LeaseStable, IfaceStable DEF rx_find_by_xid, TypeOK
  <2>3. m \in Replies /\ m # NoReply
    BY SMT DEF TypeOK, Replies, Offers, Acks, Naks, NoReply
  <2>4. TypeOK'
    BY <1>1, <2>1, <2>2, <2>3 DEF rx_find_by_xid, TypeOK, Moves, Threads
  <2>5. ProbeInv' /\ XidInv' /\ LifeInv'
    BY <1>1, <2>1 DEF rx_find_by_xid, leaseVars, fields, counters, transaction, timers,
      ProbeInv, XidInv, LifeInv, Moves, Threads
  <2> QED
    BY <2>4, <2>5
<1>2. ASSUME net' \subseteq Replies,
             UNCHANGED <<ifaceVars, leaseVars, life, pc, lock, rx_msg>>
      PROVE  IndInv'
  <2>1. LeaseTypeOK' /\ LifecycleTypeOK' /\ ThreadsTypeOK'
    BY <1>2, LeaseStable, IfaceStable DEF TypeOK, ThreadsTypeOK
  <2>2. TypeOK'
    BY <1>2, <2>1 DEF TypeOK
  <2>3. ProbeInv' /\ XidInv' /\ LifeInv'
    BY <1>2 DEF leaseVars, fields, counters, transaction, timers, ProbeInv, XidInv, LifeInv
  <2> QED
    BY <2>2, <2>3
<1>3. ASSUME NEW m \in net, lose(m)
      PROVE  IndInv'
  <2>1. net' \subseteq Replies
    BY <1>3 DEF lose, TypeOK
  <2>2. UNCHANGED <<ifaceVars, leaseVars, life, pc, lock, rx_msg>>
    BY <1>3 DEF lose
  <2> QED
    BY <1>2, <2>1, <2>2
<1>4. CASE server_reply
  <2>1. /\ asked # {}
        /\ \E o \in OptionSets :
             \/ \E a \in Addrs : net' = net \cup
                  {[type |-> "offer", xid |-> xid, yiaddr |-> a, options |-> o]}
             \/ \E a \in Addrs : net' = net \cup
                  {[type |-> "ack", xid |-> xid, yiaddr |-> a, options |-> o]}
             \/ net' = net \cup {[type |-> "nak", xid |-> xid]}
    BY <1>4 DEF server_reply, AckAddrs
  <2>2. xid \in Xids
    BY <2>1 DEF XidInv
  <2>3. \E m \in Replies : net' = net \cup {m}
    BY <2>1, <2>2, ReplyBuilt, Zenon
  <2>4. net' \subseteq Replies
    BY <2>3 DEF TypeOK
  <2>5. UNCHANGED <<ifaceVars, leaseVars, life, pc, lock, rx_msg>>
    BY <1>4 DEF server_reply
  <2> QED
    BY <1>2, <2>4, <2>5
<1> QED
  BY <1>1, <1>3, <1>4
-----------------------------------------------------------------------------
\* Every step of every thread, of the servers and of the network preserves the
\* invariant.
LEMMA IndInvInductive == IndInv /\ [Next]_vars => IndInv'
<1> SUFFICES ASSUME IndInv, [Next]_vars PROVE IndInv'
  OBVIOUS
<1>1. CASE UNCHANGED vars
  <2>1. LeaseTypeOK' /\ LifecycleTypeOK' /\ ThreadsTypeOK'
    BY <1>1, LeaseStable, IfaceStable DEF vars, IndInv, TypeOK, ThreadsTypeOK
  <2>2. TypeOK'
    BY <1>1, <2>1 DEF vars, IndInv, TypeOK
  <2>3. ProbeInv' /\ XidInv' /\ LifeInv'
    BY <1>1 DEF IndInv, vars, leaseVars, fields, counters, transaction, timers, ProbeInv,
      XidInv, LifeInv
  <2> QED
    BY <2>2, <2>3 DEF IndInv
<1>2. CASE Next
  BY <1>2, RxPreserves, LostPreserves, RtPreserves, LtPreserves, FirePreserves,
    ApiPreserves, TeardownPreserves, NetPreserves DEF Next
<1> QED
  BY <1>1, <1>2

\* The invariant holds before dmdhcp_start() is called.
LEMMA IndInvInitially == Init => IndInv
<1> SUFFICES ASSUME Init PROVE IndInv
  OBVIOUS
<1>1. pc = [t \in Threads |-> "idle"] /\ \A t \in Threads : "idle" \in Labels[t]
  BY SMT DEF Init, Threads, Labels
<1>2. LifecycleTypeOK
  <2>1. ifcfg \in IfaceConfigs
    BY DEF Init, IfaceConfigs, Unconfigured
  <2> QED
    BY <2>1, Zenon DEF Init, LifecycleTypeOK
<1>3. pc \in [Threads -> UNION {Labels[t] : t \in Threads}]
      /\ \A t \in Threads : pc[t] = "idle" /\ pc[t] \in Labels[t]
  BY <1>1
<1>4. TypeOK
  BY <1>2, <1>3, ZeroCount, SMT DEF Init, TypeOK, LeaseTypeOK, FieldsTypeOK, ThreadsTypeOK, States,
    TimerStates, Threads
<1>5. ProbeInv /\ XidInv /\ LifeInv
  BY <1>3 DEF Init, ProbeInv, XidInv, LifeInv, Threads
<1> QED
  BY <1>4, <1>5 DEF IndInv

\* The invariant holds in every state the lease and its threads can reach.
LEMMA IndInvHolds == Spec => []IndInv
  BY IndInvInitially, IndInvInductive, PTL DEF Spec
=============================================================================
