----------------------------- MODULE DmdhcpLease -----------------------------
(***************************************************************************)
(* One lease of dmdhcp on one interface, at the granularity of the         *)
(* critical sections of lease->lock.  Four threads touch the lease:        *)
(*   rx   the rx pump of the interface, in dmdhcp_handle_datagram();       *)
(*   rt   the worker of retransmit_timer;                                  *)
(*   lt   the worker of lease_timer;                                       *)
(*   api  an application thread calling dmdhcp_start() ... dmdhcp_stop().  *)
(* What a thread does between taking and releasing the lock is one action; *)
(* where the code releases the lock and takes it again, the pc of the      *)
(* thread records that it is between two sections.  The lock is held       *)
(* across a step in one place only, while the conflict probe waits.        *)
(* Time is abstracted: an armed timer may fire at any moment.              *)
(***************************************************************************)
EXTENDS DmdhcpLifecycle, FiniteSets, Sequences

CONSTANTS
  Xids, NoXid,             \* transaction identifiers, and the zeroed field
  Servers,                 \* server identifiers (option 54)
  OptionSets,              \* what a reply may carry, a subset of ReplyOptions
  NameServers,             \* members of the DNS and NTP lists
  RequestedIps,            \* options.requested_ip of dmdhcp_start(), NoAddr if none
  ApiCalls,                \* calls the application makes besides dmdhcp_start()
  SharedWorker,            \* TRUE: both timers run on one timer-service thread
  ConformingServers,       \* TRUE: an ACK repeats the address that was requested
  MaxRequestRetransmits,   \* DMDHCP_MAX_REQUEST_RETRANSMITS
  MaxDeclineRetries,       \* DMDHCP_MAX_DECLINE_RETRIES
  MaxNet                   \* bound: replies in flight

\* An option a reply does not carry is NoAddr or an empty list.
ReplyOptions ==
  [netmask   : Masks \cup {NoAddr},
   router    : Gateways \cup {NoAddr},
   server_id : Servers \cup {NoAddr},
   dns       : Seq(NameServers),
   ntp       : Seq(NameServers)]

ASSUME LeaseAssumption ==
  /\ NoXid \notin Xids
  /\ NoAddr \notin Servers
  /\ OptionSets \subseteq ReplyOptions
  /\ RequestedIps \subseteq Addrs \cup {NoAddr}
  /\ ApiCalls \subseteq {"renew", "release", "stop"}
  /\ SharedWorker \in BOOLEAN
  /\ ConformingServers \in BOOLEAN
  /\ MaxRequestRetransmits \in Nat
  /\ MaxDeclineRetries \in Nat
  /\ MaxNet \in Nat

VARIABLES
  (* struct dmdhcp_lease *)
  state, xid,
  offered_ip, netmask, gateway, server_id, dns_servers, ntp_servers,
  retransmit_count, decline_retry_count,
  retransmit_timer, lease_timer,
  life,      \* none, tabled (in g_leases), removed, dead (magic cleared)
  (* threads *)
  pc, lock, rx_msg,
  (* environment *)
  net,       \* replies in flight: may be lost, duplicated and reordered
  asked,     \* messages of the current transaction that servers may answer
  (* history *)
  cleared    \* address the last clean probe of this acquisition was about

fields == <<offered_ip, netmask, gateway, server_id, dns_servers, ntp_servers>>
counters == <<retransmit_count, decline_retry_count>>
transaction == <<xid, asked>>
timers == <<retransmit_timer, lease_timer>>
leaseVars == <<state, transaction, fields, counters, timers, cleared>>
vars == <<ifaceVars, leaseVars, life, pc, lock, rx_msg, net>>
-----------------------------------------------------------------------------
States == {"init", "selecting", "checking_offer", "requesting", "checking_ack",
           "bound", "renewing", "rebinding", "declining", "rebooting", "failed"}

Offers == [type : {"offer"}, xid : Xids, yiaddr : Addrs, options : OptionSets]
Acks   == [type : {"ack"}, xid : Xids, yiaddr : Addrs, options : OptionSets]
Naks   == [type : {"nak"}, xid : Xids]
Replies == Offers \cup Acks \cup Naks
NoReply == [type |-> "none", xid |-> NoXid]

Threads == {"rx", "rt", "lt", "api"}
Labels == [rx  |-> {"idle", "lock", "lost_unapply", "lost_notify", "on_bound"},
           rt  |-> {"idle", "lock", "probe", "on_bound", "on_error"},
           lt  |-> {"idle", "lock", "lost_unapply", "lost_notify"},
           api |-> {"idle", "start", "unapply", "destroy", "join_rt", "join_lt"}]

TimerStates == {"stopped", "armed", "destroyed"}

Goto(t, label) == pc' = [pc EXCEPT ![t] = label]

Allocated == life # "none"
Magic == life \in {"tabled", "removed"}

\* holds_valid_lease(): the states in which the lease is reported.
holds_valid_lease == state \in {"bound", "renewing", "rebinding"}

\* dmosi_rand32(): never a value a reply in flight or in processing carries.
FreshXids == Xids \ ({xid, rx_msg.xid} \cup {m.xid : m \in net})
-----------------------------------------------------------------------------
(* Fragments: what the handlers do to the fields they touch.               *)

\* dmosi_timer_start(): arms a one-shot timer, or rearms it.  What it does with
\* a timer that was destroyed is undefined; here, nothing.
dmosi_timer_start(timer) == IF timer = "destroyed" THEN timer ELSE "armed"

start_retransmit_timer == retransmit_timer' = dmosi_timer_start(retransmit_timer)

\* dmdhcp_lifecycle_arm_t1(), _arm_t2() and _arm_expiry(): one timer, and the
\* state says which of the three deadlines it carries.
start_lease_timer == lease_timer' = dmosi_timer_start(lease_timer)

\* A list ends where an entry could not be allocated.
Prefixes(list) == {SubSeq(list, 1, n) : n \in 0 .. Len(list)}

Kept(option, old) == IF option # NoAddr THEN option ELSE old

populate_lease_from_options(m) ==
  /\ offered_ip' = m.yiaddr
  /\ netmask' = Kept(m.options.netmask, netmask)
  /\ gateway' = m.options.router
  /\ server_id' = Kept(m.options.server_id, server_id)
  /\ dns_servers' \in Prefixes(m.options.dns)
  /\ ntp_servers' \in Prefixes(m.options.ntp)

\* What the four dmdhcp_output_start_*() have in common: a fresh xid, a first
\* message, the new state and the retransmission timer.
begin_transaction(x, message, s) ==
  /\ xid' = x
  /\ asked' = {message}
  /\ retransmit_count' = 0
  /\ state' = s
  /\ start_retransmit_timer

dmdhcp_output_start_discovery(x) ==
  /\ begin_transaction(x, "discover", "selecting")
  /\ offered_ip' = NoAddr
  /\ netmask' = NoAddr
  /\ gateway' = NoAddr
  /\ server_id' = NoAddr
  /\ dns_servers' = <<>>
  /\ ntp_servers' = <<>>
  /\ cleared' = NoAddr
  /\ UNCHANGED decline_retry_count

dmdhcp_output_start_reboot(x) == begin_transaction(x, "request", "rebooting")

dmdhcp_output_start_renew(x) ==
  /\ begin_transaction(x, "request", "renewing")
  /\ UNCHANGED <<fields, decline_retry_count, cleared>>

dmdhcp_output_start_rebind(x) ==
  /\ begin_transaction(x, "request", "rebinding")
  /\ UNCHANGED <<fields, decline_retry_count, cleared>>

\* Mutant: an interface that is configured is not configured again.
enter_bound_once ==
  /\ IF iface_configured
     THEN UNCHANGED ifaceVars
     ELSE dmdhcp_lifecycle_apply(offered_ip', netmask', gateway')
  /\ state' = "bound"
  /\ decline_retry_count' = 0
  /\ start_lease_timer
  /\ UNCHANGED <<retransmit_timer, retransmit_count, transaction>>

\* Entering BOUND, from a clean probe and from a renewal: apply, count no
\* conflicts, arm T1.  The result of apply() is not looked at.
enter_bound ==
  /\ dmdhcp_lifecycle_apply(offered_ip', netmask', gateway')
  /\ state' = "bound"
  /\ decline_retry_count' = 0
  /\ start_lease_timer
  /\ UNCHANGED <<retransmit_timer, retransmit_count, transaction>>
-----------------------------------------------------------------------------
(* The rx thread: dmdhcp_handle_datagram().                                *)

\* The lookup, under the mutex of the table but not under lease->lock.  The
\* network may deliver the same datagram again.
rx_find_by_xid(m) ==
  /\ pc["rx"] = "idle"
  /\ life = "tabled"
  /\ m.xid = xid
  /\ rx_msg' = m
  /\ net' \in {net, net \ {m}}
  /\ Goto("rx", "lock")
  /\ UNCHANGED <<ifaceVars, leaseVars, life, lock>>

\* The section under lease->lock starts; the xid is not compared again.
RxSection ==
  /\ pc["rx"] = "lock"
  /\ lock = "free"
  /\ Allocated

\* The thread leaves the section of the datagram for the given label.
RxLeave(label) ==
  /\ Goto("rx", label)
  /\ rx_msg' = NoReply
  /\ UNCHANGED <<life, lock, net>>

\* The probe must not run here: hand it to the retransmission timer.
hand_off_probe(s) ==
  /\ populate_lease_from_options(rx_msg)
  /\ state' = s
  /\ start_retransmit_timer
  /\ UNCHANGED <<transaction, counters, lease_timer, cleared, ifaceVars>>

rx_offer ==
  /\ RxSection
  /\ rx_msg.type = "offer" /\ state = "selecting"
  /\ hand_off_probe("checking_offer")
  /\ RxLeave("idle")

\* Mutant: a remembered address is bound without a probe.
rx_ack_unprobed ==
  /\ RxSection
  /\ rx_msg.type = "ack" /\ state \in {"requesting", "rebooting"}
  /\ IF state = "rebooting"
     THEN /\ populate_lease_from_options(rx_msg)
          /\ enter_bound
          /\ UNCHANGED cleared
     ELSE hand_off_probe("checking_ack")
  /\ RxLeave("idle")

rx_ack_first ==
  /\ RxSection
  /\ rx_msg.type = "ack" /\ state \in {"requesting", "rebooting"}
  /\ hand_off_probe("checking_ack")
  /\ RxLeave("idle")

rx_nak_first ==
  /\ RxSection
  /\ rx_msg.type = "nak" /\ state \in {"requesting", "rebooting"}
  /\ \E x \in FreshXids : dmdhcp_output_start_discovery(x)
  /\ RxLeave("idle")
  /\ UNCHANGED <<lease_timer, ifaceVars>>

rx_ack_renewal ==
  /\ RxSection
  /\ rx_msg.type = "ack" /\ state \in {"renewing", "rebinding"}
  /\ populate_lease_from_options(rx_msg)
  /\ enter_bound
  /\ RxLeave("on_bound")
  /\ UNCHANGED cleared

\* The lock is released before handle_lost() takes it again.
rx_nak_renewal ==
  /\ RxSection
  /\ rx_msg.type = "nak" /\ state \in {"renewing", "rebinding"}
  /\ RxLeave("lost_unapply")
  /\ UNCHANGED <<leaseVars, ifaceVars>>

\* Which message is expected in which state.
Expected(type) ==
  CASE type = "offer" -> {"selecting"}
    [] type = "ack"   -> {"requesting", "rebooting", "renewing", "rebinding"}
    [] type = "nak"   -> {"requesting", "rebooting", "renewing", "rebinding"}

\* Mutant: the fields are filled before the state is looked at.
rx_ignore_populated ==
  /\ RxSection
  /\ state \notin Expected(rx_msg.type)
  /\ IF rx_msg.type = "nak" THEN UNCHANGED fields ELSE populate_lease_from_options(rx_msg)
  /\ RxLeave("idle")
  /\ UNCHANGED <<state, transaction, counters, timers, cleared, ifaceVars>>

rx_ignore ==
  /\ RxSection
  /\ state \notin Expected(rx_msg.type)
  /\ RxLeave("idle")
  /\ UNCHANGED <<leaseVars, ifaceVars>>

\* on_bound() returns; the lease is not touched afterwards.
rx_return ==
  /\ pc["rx"] = "on_bound"
  /\ Goto("rx", "idle")
  /\ UNCHANGED <<ifaceVars, leaseVars, life, lock, rx_msg, net>>

\* The lease found before dmdhcp_stop() removed it is touched after it was
\* freed.  What the program does then is undefined; here the thread gives up.
rx_abandon ==
  /\ pc["rx"] \in {"lock", "lost_unapply", "lost_notify"}
  /\ ~Allocated
  /\ RxLeave("idle")
  /\ UNCHANGED <<ifaceVars, leaseVars>>
-----------------------------------------------------------------------------
(* dmdhcp_lifecycle_handle_lost(), on the rx thread after a NAK and on the *)
(* lease timer's worker at expiry: two sections with the callback between. *)

lost_unapply(t) ==
  /\ pc[t] = "lost_unapply"
  /\ lock = "free"
  /\ Allocated
  /\ dmdhcp_lifecycle_unapply
  /\ ntp_servers' = <<>>
  /\ Goto(t, "lost_notify")
  /\ UNCHANGED <<state, transaction, offered_ip, netmask, gateway, server_id, dns_servers,
                 counters, timers, cleared, life, lock, rx_msg, net>>

\* on_expired_or_lost() has returned; the state is not looked at again.
lost_restart(t) ==
  /\ pc[t] = "lost_notify"
  /\ lock = "free"
  /\ Allocated
  /\ \E x \in FreshXids : dmdhcp_output_start_discovery(x)
  /\ Goto(t, "idle")
  /\ UNCHANGED <<ifaceVars, lease_timer, life, lock, rx_msg, net>>
-----------------------------------------------------------------------------
(* The worker of retransmit_timer: retransmit_timer_callback().            *)

\* A worker runs one callback at a time; the two timers may share one.
WorkerFree(t) ==
  /\ pc[t] = "idle"
  /\ SharedWorker => pc["rt"] = "idle" /\ pc["lt"] = "idle"

\* The one-shot timer expires; the callback returns at once if magic is gone.
rt_fire ==
  /\ retransmit_timer = "armed"
  /\ WorkerFree("rt")
  /\ retransmit_timer' = "stopped"
  /\ Goto("rt", IF Magic THEN "lock" ELSE "idle")
  /\ UNCHANGED <<ifaceVars, state, transaction, fields, counters, lease_timer,
                 cleared, life, lock, rx_msg, net>>

RtSection ==
  /\ pc["rt"] = "lock"
  /\ lock = "free"

\* What the senders and send_message() put on the wire again, as far as servers
\* tell it apart: a DISCOVER, or one of the forms of REQUEST.
Resent == IF state = "selecting" THEN "discover" ELSE "request"

\* SELECTING, RENEWING and REBINDING send again without limit.
rt_resend ==
  /\ RtSection
  /\ state \in {"selecting", "renewing", "rebinding"}
  /\ asked' = asked \cup {Resent}
  /\ start_retransmit_timer
  /\ Goto("rt", "idle")
  /\ UNCHANGED <<ifaceVars, state, xid, fields, counters, lease_timer, cleared, life,
                 lock, rx_msg, net>>

\* Mutants: the limit is compared before the increment; nothing is counted.
rt_resend_once_more ==
  /\ RtSection
  /\ state \in {"requesting", "rebooting"}
  /\ retransmit_count <= MaxRequestRetransmits
  /\ retransmit_count' = retransmit_count + 1
  /\ asked' = asked \cup {"request"}
  /\ start_retransmit_timer
  /\ Goto("rt", "idle")
  /\ UNCHANGED <<ifaceVars, state, xid, fields, decline_retry_count, lease_timer, cleared,
                 life, lock, rx_msg, net>>

rt_resend_uncounted ==
  /\ RtSection
  /\ state \in {"requesting", "rebooting"}
  /\ retransmit_count + 1 <= MaxRequestRetransmits
  /\ asked' = asked \cup {"request"}
  /\ start_retransmit_timer
  /\ Goto("rt", "idle")
  /\ UNCHANGED <<ifaceVars, state, xid, fields, counters, lease_timer, cleared,
                 life, lock, rx_msg, net>>

\* REQUESTING and REBOOTING count, and send again up to the limit ...
rt_resend_counted ==
  /\ RtSection
  /\ state \in {"requesting", "rebooting"}
  /\ retransmit_count + 1 <= MaxRequestRetransmits
  /\ retransmit_count' = retransmit_count + 1
  /\ asked' = asked \cup {"request"}
  /\ start_retransmit_timer
  /\ Goto("rt", "idle")
  /\ UNCHANGED <<ifaceVars, state, xid, fields, decline_retry_count, lease_timer, cleared,
                 life, lock, rx_msg, net>>

\* ... and start over beyond it, as DECLINING does after its pause.
rt_rediscover ==
  /\ RtSection
  /\ \/ state \in {"requesting", "rebooting"} /\ retransmit_count + 1 > MaxRequestRetransmits
     \/ state = "declining"
  /\ \E x \in FreshXids : dmdhcp_output_start_discovery(x)
  /\ Goto("rt", "idle")
  /\ UNCHANGED <<ifaceVars, lease_timer, life, lock, rx_msg, net>>

\* init, bound, failed: a stale fire.
rt_stale ==
  /\ RtSection
  /\ state \in {"init", "bound", "failed"}
  /\ Goto("rt", "idle")
  /\ UNCHANGED <<ifaceVars, leaseVars, life, lock, rx_msg, net>>

\* run_conflict_probe(): dmarp_resolve() waits with the lock held.
rt_probe ==
  /\ RtSection
  /\ state \in {"checking_offer", "checking_ack"}
  /\ lock' = "rt"
  /\ Goto("rt", "probe")
  /\ UNCHANGED <<ifaceVars, leaseVars, life, rx_msg, net>>

\* handle_conflict(): decline, then pause or give up.
handle_conflict ==
  /\ pc["rt"] = "probe"
  /\ decline_retry_count' = decline_retry_count + 1
  /\ lock' = "free"
  /\ \/ /\ decline_retry_count + 1 > MaxDeclineRetries
        /\ state' = "failed"
        /\ Goto("rt", "on_error")
        /\ UNCHANGED retransmit_timer
     \/ /\ decline_retry_count + 1 <= MaxDeclineRetries
        /\ state' = "declining"
        /\ start_retransmit_timer
        /\ Goto("rt", "idle")
  /\ UNCHANGED <<ifaceVars, transaction, fields, retransmit_count, lease_timer, cleared,
                 life, rx_msg, net>>

\* Mutant: the REQUEST is sent and no timer is started for its retransmission.
probe_clean_offer_unarmed ==
  /\ pc["rt"] = "probe"
  /\ state = "checking_offer"
  /\ state' = "requesting"
  /\ asked' = asked \cup {"request"}
  /\ retransmit_count' = 0
  /\ cleared' = offered_ip
  /\ lock' = "free"
  /\ Goto("rt", "idle")
  /\ UNCHANGED <<ifaceVars, xid, fields, decline_retry_count, timers, life, rx_msg, net>>

probe_clean_offer ==
  /\ pc["rt"] = "probe"
  /\ state = "checking_offer"
  /\ state' = "requesting"
  /\ asked' = asked \cup {"request"}
  /\ retransmit_count' = 0
  /\ start_retransmit_timer
  /\ cleared' = offered_ip
  /\ lock' = "free"
  /\ Goto("rt", "idle")
  /\ UNCHANGED <<ifaceVars, xid, fields, decline_retry_count, lease_timer, life, rx_msg,
                 net>>

probe_clean_ack ==
  /\ pc["rt"] = "probe"
  /\ state # "checking_offer"
  /\ UNCHANGED fields
  /\ enter_bound
  /\ cleared' = offered_ip
  /\ lock' = "free"
  /\ Goto("rt", "on_bound")
  /\ UNCHANGED <<life, rx_msg, net>>

\* on_bound() or on_error() returns; the lock is taken once more and released.
rt_return ==
  /\ pc["rt"] \in {"on_bound", "on_error"}
  /\ lock = "free"
  /\ Goto("rt", "idle")
  /\ UNCHANGED <<ifaceVars, leaseVars, life, lock, rx_msg, net>>
-----------------------------------------------------------------------------
(* The worker of lease_timer: lease_timer_callback().                      *)

lt_fire ==
  /\ lease_timer = "armed"
  /\ WorkerFree("lt")
  /\ lease_timer' = "stopped"
  /\ Goto("lt", IF Magic THEN "lock" ELSE "idle")
  /\ UNCHANGED <<ifaceVars, state, transaction, fields, counters, retransmit_timer,
                 cleared, life, lock, rx_msg, net>>

LtSection ==
  /\ pc["lt"] = "lock"
  /\ lock = "free"

\* Mutant: T2 is not armed.
lt_t1_unarmed ==
  /\ LtSection
  /\ state = "bound"
  /\ \E x \in FreshXids : dmdhcp_output_start_renew(x)
  /\ Goto("lt", "idle")
  /\ UNCHANGED <<ifaceVars, lease_timer, life, lock, rx_msg, net>>

lt_t1 ==
  /\ LtSection
  /\ state = "bound"
  /\ \E x \in FreshXids : dmdhcp_output_start_renew(x)
  /\ start_lease_timer
  /\ Goto("lt", "idle")
  /\ UNCHANGED <<ifaceVars, life, lock, rx_msg, net>>

lt_t2 ==
  /\ LtSection
  /\ state = "renewing"
  /\ \E x \in FreshXids : dmdhcp_output_start_rebind(x)
  /\ start_lease_timer
  /\ Goto("lt", "idle")
  /\ UNCHANGED <<ifaceVars, life, lock, rx_msg, net>>

\* Mutant: expiry is what is left when neither T1 nor T2 is.
lt_expiry_by_default ==
  /\ LtSection
  /\ state \notin {"bound", "renewing"}
  /\ Goto("lt", "lost_unapply")
  /\ UNCHANGED <<ifaceVars, leaseVars, life, lock, rx_msg, net>>

\* The lock is released before handle_lost() takes it again.
lt_expiry ==
  /\ LtSection
  /\ state = "rebinding"
  /\ Goto("lt", "lost_unapply")
  /\ UNCHANGED <<ifaceVars, leaseVars, life, lock, rx_msg, net>>

lt_stale ==
  /\ LtSection
  /\ ~holds_valid_lease
  /\ Goto("lt", "idle")
  /\ UNCHANGED <<ifaceVars, leaseVars, life, lock, rx_msg, net>>
-----------------------------------------------------------------------------
(* The application's thread.                                               *)

\* The fields of a lease that dmdhcp_lease_table_create() has just zeroed.
zero_lease ==
  /\ state' = "init"
  /\ xid' = NoXid /\ asked' = {}
  /\ offered_ip' = NoAddr /\ netmask' = NoAddr /\ gateway' = NoAddr /\ server_id' = NoAddr
  /\ dns_servers' = <<>> /\ ntp_servers' = <<>>
  /\ retransmit_count' = 0 /\ decline_retry_count' = 0
  /\ default_route' = NoAddr /\ iface_configured' = FALSE
  /\ cleared' = NoAddr

\* dmdhcp_start() as far as the insertion in the table.  A second lease is only
\* modelled once the rx thread has let go of the first.
start_insert ==
  /\ pc["api"] = "idle"
  /\ life = "none"
  /\ pc["rx"] = "idle"
  /\ life' = "tabled"
  /\ zero_lease
  /\ retransmit_timer' = "stopped" /\ lease_timer' = "stopped"
  /\ Goto("api", "start")
  /\ UNCHANGED <<ifcfg, routes, lock, rx_msg, net>>

\* Its section under the lock: INIT-REBOOT with a remembered address, or
\* discovery.
start_reboot ==
  /\ pc["api"] = "start"
  /\ lock = "free"
  /\ offered_ip' \in RequestedIps \ {NoAddr}
  /\ \E x \in FreshXids : dmdhcp_output_start_reboot(x)
  /\ Goto("api", "idle")
  /\ UNCHANGED <<ifaceVars, netmask, gateway, server_id, dns_servers, ntp_servers,
                 decline_retry_count, lease_timer, cleared, life, lock, rx_msg, net>>

start_discovery ==
  /\ pc["api"] = "start"
  /\ lock = "free"
  /\ NoAddr \in RequestedIps
  /\ \E x \in FreshXids : dmdhcp_output_start_discovery(x)
  /\ Goto("api", "idle")
  /\ UNCHANGED <<ifaceVars, lease_timer, life, lock, rx_msg, net>>

\* dmdhcp_renew(): lease_timer keeps the deadline it has.
dmdhcp_renew ==
  /\ "renew" \in ApiCalls
  /\ pc["api"] = "idle"
  /\ Magic
  /\ lock = "free"
  /\ state = "bound"
  /\ \E x \in FreshXids : dmdhcp_output_start_renew(x)
  /\ UNCHANGED <<ifaceVars, lease_timer, life, pc, lock, rx_msg, net>>

\* dmdhcp_lease_table_remove().
table_remove ==
  /\ pc["api"] = "idle"
  /\ life = "tabled"
  /\ life' = "removed"
  /\ Goto("api", "unapply")
  /\ UNCHANGED <<ifaceVars, leaseVars, lock, rx_msg, net>>

dmdhcp_release == "release" \in ApiCalls /\ table_remove

dmdhcp_stop == "stop" \in ApiCalls /\ table_remove

\* The section under the lock.  dmdhcp_release() also sends a RELEASE here,
\* which solicits no reply and changes nothing of the lease.
teardown_unapply ==
  /\ pc["api"] = "unapply"
  /\ lock = "free"
  /\ dmdhcp_lifecycle_unapply
  /\ Goto("api", "destroy")
  /\ UNCHANGED <<leaseVars, life, lock, rx_msg, net>>

\* Mutant: magic is left as it is.
destroy_begin_magic ==
  /\ pc["api"] = "destroy"
  /\ retransmit_timer' = "stopped"
  /\ Goto("api", "join_rt")
  /\ UNCHANGED <<ifaceVars, state, transaction, fields, counters, lease_timer,
                 cleared, life, lock, rx_msg, net>>

\* destroy_with_context(), context normal: magic goes, retransmit_timer stops,
destroy_begin ==
  /\ pc["api"] = "destroy"
  /\ life' = "dead"
  /\ retransmit_timer' = "stopped"
  /\ Goto("api", "join_rt")
  /\ UNCHANGED <<ifaceVars, state, transaction, fields, counters, lease_timer,
                 cleared, lock, rx_msg, net>>

\* its destruction waits for its worker, then lease_timer stops,
destroy_retransmit_timer ==
  /\ pc["api"] = "join_rt"
  /\ pc["rt"] = "idle"
  /\ retransmit_timer' = "destroyed"
  /\ lease_timer' = "stopped"
  /\ Goto("api", "join_lt")
  /\ UNCHANGED <<ifaceVars, state, transaction, fields, counters, cleared, life,
                 lock, rx_msg, net>>

\* Mutant: lease_timer is only stopped, and a callback may still be running.
destroy_without_join ==
  /\ pc["api"] = "join_lt"
  /\ lease_timer' = "destroyed"
  /\ life' = "none"
  /\ zero_lease
  /\ Goto("api", "idle")
  /\ UNCHANGED <<ifcfg, routes, retransmit_timer, lock, rx_msg, net>>

\* its destruction waits for its worker, and the lease is freed.
destroy_lease_timer ==
  /\ pc["api"] = "join_lt"
  /\ pc["lt"] = "idle"
  /\ lease_timer' = "destroyed"
  /\ life' = "none"
  /\ zero_lease
  /\ Goto("api", "idle")
  /\ UNCHANGED <<ifcfg, routes, retransmit_timer, lock, rx_msg, net>>
-----------------------------------------------------------------------------
(* Servers and the network, external.                                      *)

\* The addresses an ACK may carry.
AckAddrs == IF ConformingServers THEN {offered_ip} \cap Addrs ELSE Addrs

\* A server answers a message of the current transaction.  Answers to an
\* earlier transaction are the ones still in flight when it ended.
server_reply ==
  /\ Cardinality(net) < MaxNet
  /\ \E o \in OptionSets :
       \/ /\ "discover" \in asked
          /\ \E a \in Addrs :
               net' = net \cup {[type |-> "offer", xid |-> xid, yiaddr |-> a, options |-> o]}
       \/ /\ "request" \in asked
          /\ \E a \in AckAddrs :
               net' = net \cup {[type |-> "ack", xid |-> xid, yiaddr |-> a, options |-> o]}
       \/ /\ "request" \in asked
          /\ net' = net \cup {[type |-> "nak", xid |-> xid]}
  /\ UNCHANGED <<ifaceVars, leaseVars, life, pc, lock, rx_msg>>

\* A datagram is lost, or dropped by dmdhcp_handle_datagram() before it looks
\* at a lease: it does not parse, or no lease has its xid.
lose(m) ==
  /\ net' = net \ {m}
  /\ UNCHANGED <<ifaceVars, leaseVars, life, pc, lock, rx_msg>>
-----------------------------------------------------------------------------
Init ==
  /\ ifcfg = Unconfigured
  /\ routes = {}
  /\ state = "init"
  /\ xid = NoXid /\ asked = {}
  /\ offered_ip = NoAddr /\ netmask = NoAddr /\ gateway = NoAddr /\ server_id = NoAddr
  /\ dns_servers = <<>> /\ ntp_servers = <<>>
  /\ retransmit_count = 0 /\ decline_retry_count = 0
  /\ default_route = NoAddr /\ iface_configured = FALSE
  /\ cleared = NoAddr
  /\ retransmit_timer = "destroyed" /\ lease_timer = "destroyed"
  /\ life = "none"
  /\ pc = [t \in Threads |-> "idle"]
  /\ lock = "free"
  /\ rx_msg = NoReply
  /\ net = {}

RxHandle == rx_offer \/ rx_ack_first \/ rx_nak_first \/ rx_ack_renewal \/ rx_nak_renewal
            \/ rx_ignore \/ rx_abandon

RtHandle == rt_resend \/ rt_resend_counted \/ rt_rediscover \/ rt_stale \/ rt_probe
            \/ handle_conflict \/ probe_clean_offer \/ probe_clean_ack \/ rt_return

LtHandle == lt_t1 \/ lt_t2 \/ lt_expiry \/ lt_stale

Lost(t) == lost_unapply(t) \/ lost_restart(t)

Teardown == teardown_unapply \/ destroy_begin \/ destroy_retransmit_timer
            \/ destroy_lease_timer

Start == start_insert \/ start_reboot \/ start_discovery

Next ==
  \/ \E m \in net : rx_find_by_xid(m) \/ lose(m)
  \/ RxHandle \/ rx_return
  \/ rt_fire \/ RtHandle
  \/ lt_fire \/ LtHandle
  \/ \E t \in {"rx", "lt"} : Lost(t)
  \/ Start \/ dmdhcp_renew \/ dmdhcp_release \/ dmdhcp_stop \/ Teardown
  \/ server_reply

Spec == Init /\ [][Next]_vars

(***************************************************************************)
(* Armed timers fire, the threads run, the callbacks return and the probe  *)
(* ends (its wait is bounded by DMDHCP_ARP_PROBE_TIMEOUT_MS).  Nothing is  *)
(* assumed of the network, the servers or the application.                 *)
(***************************************************************************)
Fairness ==
  /\ WF_vars(RxHandle \/ rx_return \/ Lost("rx"))
  /\ WF_vars(rt_fire \/ RtHandle)
  /\ WF_vars(lt_fire \/ LtHandle \/ Lost("lt"))
  /\ WF_vars(Teardown \/ start_reboot \/ start_discovery)

FairSpec == Spec /\ Fairness
-----------------------------------------------------------------------------
(* Types.  A reply is in processing exactly while the rx thread waits for  *)
(* the lock of the lease it found.                                         *)
FieldsTypeOK ==
  /\ offered_ip \in Addrs \cup {NoAddr}
  /\ netmask \in Masks \cup {NoAddr}
  /\ gateway \in Gateways \cup {NoAddr}
  /\ server_id \in Servers \cup {NoAddr}
  /\ dns_servers \in Seq(NameServers)
  /\ ntp_servers \in Seq(NameServers)

LeaseTypeOK ==
  /\ FieldsTypeOK
  /\ state \in States
  /\ xid \in Xids \cup {NoXid}
  /\ asked \subseteq {"discover", "request"}
  /\ retransmit_count \in 0 .. MaxRequestRetransmits
  /\ decline_retry_count \in Nat
  /\ retransmit_timer \in TimerStates
  /\ lease_timer \in TimerStates
  /\ cleared \in Addrs \cup {NoAddr}

ThreadsTypeOK ==
  /\ pc \in [Threads -> UNION {Labels[t] : t \in Threads}]
  /\ \A t \in Threads : pc[t] \in Labels[t]

TypeOK ==
  /\ LifecycleTypeOK
  /\ LeaseTypeOK
  /\ ThreadsTypeOK
  /\ life \in {"none", "tabled", "removed", "dead"}
  /\ lock \in {"free", "rt"}
  /\ rx_msg \in Replies \cup {NoReply}
  /\ (pc["rx"] = "lock") <=> (rx_msg # NoReply)
  /\ net \subseteq Replies
-----------------------------------------------------------------------------
(* Safety.                                                                 *)

\* dmdhcp_release()/dmdhcp_stop() has been called and has not returned.
TearingDown == life \in {"removed", "dead"}

(***************************************************************************)
(* No state waits for a timer that is not coming: whenever the code relies *)
(* on retransmit_timer to leave a state (retransmission, probe hand-off,   *)
(* decline pause), the timer is armed or its callback is on its way to the *)
(* section that will act on the state; and while a lease is held, the      *)
(* lease timer is armed or its callback is running.  This must survive     *)
(* every interleaving of the rx thread, the two workers and                *)
(* dmdhcp_renew(), including fires that are stale when they get the lock.  *)
(***************************************************************************)
WaitingStates == {"selecting", "checking_offer", "requesting", "checking_ack",
                  "renewing", "rebinding", "declining", "rebooting"}

NeverStranded ==
  life = "tabled" =>
    /\ state \in WaitingStates =>
         retransmit_timer = "armed" \/ pc["rt"] \in {"lock", "probe"}
    /\ holds_valid_lease => lease_timer = "armed" \/ pc["lt"] # "idle"

(***************************************************************************)
(* A lease that is reported as valid is applied: in BOUND, RENEWING and    *)
(* REBINDING the interface has exactly the leased address, unless a        *)
(* handle_lost() has just unapplied it and is calling on_expired_or_lost() *)
(* or a teardown is in progress.  Assumes that apply() does not fail.      *)
(***************************************************************************)
ValidLeaseApplied ==
  /\ life = "tabled"
  /\ holds_valid_lease
  /\ \A t \in {"rx", "lt"} : pc[t] # "lost_notify"
  => iface_configured /\ ifcfg.ip = offered_ip

(***************************************************************************)
(* RFC 2131 4.4.1 as run_conflict_probe() implements it: the address of a  *)
(* lease that is held passed a conflict probe of its own acquisition, even *)
(* though a renewal applies the address of the ACK without probing it.     *)
(***************************************************************************)
ValidLeaseProbed == holds_valid_lease => cleared = offered_ip

(***************************************************************************)
(* destroy_with_context() never frees a lease under a timer callback:      *)
(* destroying a timer waits for its worker, so a callback that passed the  *)
(* magic check is over before the lease is gone.                           *)
(***************************************************************************)
CallbacksFinishBeforeFree ==
  pc["rt"] # "idle" \/ pc["lt"] # "idle" => Allocated
-----------------------------------------------------------------------------
(* Liveness.                                                               *)

(***************************************************************************)
(* Without any help from a server, the client does not stay in an          *)
(* intermediate state: retransmission limits, probe results, the decline   *)
(* pause and the lease timer bring it back to SELECTING (where it goes on  *)
(* asking), to BOUND or to FAILED.                                         *)
(***************************************************************************)
Settled == state \in {"init", "selecting", "bound", "failed"}
Settles == (~Settled) ~> Settled

(***************************************************************************)
(* dmdhcp_release() and dmdhcp_stop() return: the sections they wait for   *)
(* end and the workers they join finish, whatever those were doing.        *)
(***************************************************************************)
TeardownReturns == TearingDown ~> ~Allocated
-----------------------------------------------------------------------------
(* What the documentation says, and the interleavings that break it.       *)

(***************************************************************************)
(* dmdhcp_internal.h: unapply() undoes apply(), "remove the default route  *)
(* (if any)": once the interface is unconfigured, no default route of the  *)
(* lease is left in the routing table.                                     *)
(***************************************************************************)
NoOrphanRoute == ~iface_configured => routes = {}

(***************************************************************************)
(* dmdhcp.h: dmdhcp_release() is to "de-configure the interface, and free  *)
(* `lease`": when it has returned, the interface has no address of the     *)
(* lease.                                                                  *)
(***************************************************************************)
ReleasedMeansUnconfigured == ~Allocated => ifcfg.ip = NoAddr

(***************************************************************************)
(* dmdhcp.h: the lease "stays in dmdhcp_state_failed until dmdhcp_stop()   *)
(* is called".                                                             *)
(***************************************************************************)
FailedIsFinal ==
  [][state = "failed" /\ life = "tabled" => state' = "failed"]_vars

(***************************************************************************)
(* dmdhcp.c: the lease leaves the table first "so no new inbound datagram  *)
(* can find (and start concurrently touching) this lease while it's being  *)
(* torn down": when the lease is freed, the rx thread is not between the   *)
(* lookup that found it and its last section on it.                        *)
(***************************************************************************)
FreedAfterLastUse == ~Allocated => pc["rx"] \in {"idle", "on_bound"}
-----------------------------------------------------------------------------
(* What the lease is to the application: DmdhcpClient.                     *)

Phase ==
  IF life # "tabled" THEN "off"
  ELSE IF holds_valid_lease THEN "held"
  ELSE IF state = "failed" THEN "failed" ELSE "acquiring"

HeldAddress == IF Phase = "held" THEN offered_ip ELSE NoAddr

Client == INSTANCE DmdhcpClient WITH phase <- Phase, address <- HeldAddress

(***************************************************************************)
(* The four threads together keep the promise of dmdhcp.h: no interleaving *)
(* takes the client from one phase to another that the application could   *)
(* not expect, or changes the address under a lease that is held.  With    *)
(* both timers on one worker and servers that confirm what was requested.  *)
(***************************************************************************)
ImplementsClient == Client!Spec
=============================================================================
