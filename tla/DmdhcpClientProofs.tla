------------------------- MODULE DmdhcpClientProofs -------------------------
(***************************************************************************)
(* DmdhcpLease implements DmdhcpClient, for every set of addresses and     *)
(* transaction identifiers and every limit, when servers acknowledge the   *)
(* address that was asked for and the two timers share one worker; and a   *)
(* lease is only ever held on an address that passed a conflict probe.     *)
(***************************************************************************)
EXTENDS DmdhcpLeaseInductive

(***************************************************************************)
(* Where replies come from.  An ACK of the current transaction answers a   *)
(* REQUEST for the offered address.  A REQUEST is out only once an address *)
(* was chosen.  An ACK that waits for lease->lock is still about the       *)
(* offered address, or discovery has started over meanwhile and will       *)
(* ignore it; it cannot get further, since its next OFFER needs the same   *)
(* thread.                                                                 *)
(***************************************************************************)
AckInv ==
  /\ \A m \in net : m.type = "ack" /\ m.xid = xid => "request" \in asked /\ m.yiaddr = offered_ip
  /\ "request" \in asked => state \notin {"init", "selecting", "checking_offer"}
  /\ rx_msg.type = "ack" => rx_msg.yiaddr = offered_ip \/ state \in {"selecting", "init"}

\* dmdhcp_start() between its two sections: nothing else can be running on the
\* new lease yet, since it has no xid and its timers were never armed.
StartInv ==
  pc["api"] = "start" =>
    /\ xid = NoXid /\ state = "init"
    /\ retransmit_timer = "stopped" /\ lease_timer = "stopped"
    /\ pc["rx"] = "idle" /\ pc["rt"] = "idle" /\ pc["lt"] = "idle"

\* In dmdhcp_lifecycle_handle_lost(), which will start discovery.
Losing == {"lost_unapply", "lost_notify"}

(***************************************************************************)
(* With one worker for both timers, no thread is in handle_lost() when the *)
(* probe gives up: the probe's worker is the lease timer's, and the rx     *)
(* thread is only there while the probe has nothing to check.              *)
(***************************************************************************)
FinalInv ==
  /\ pc["rt"] = "idle" \/ pc["lt"] = "idle"
  /\ pc["rx"] \in Losing => state \in {"renewing", "rebinding", "selecting", "init"}
  /\ state = "failed" => pc["rx"] \notin Losing /\ pc["lt"] \notin Losing

ThreadInv == StartInv /\ (SharedWorker => FinalInv)
-----------------------------------------------------------------------------
(* The steps, as far as AckInv and DmdhcpClient tell them apart.           *)

\* The step leaves the transaction, the address and the state alone.
Quiet ==
  /\ UNCHANGED <<state, xid, asked, offered_ip, cleared, life, net>>
  /\ rx_msg' \in {rx_msg, NoReply}

\* Discovery starts, over or for the first time.
Restarts ==
  /\ state = "failed" => pc["rx"] \in Losing \/ pc["lt"] \in Losing
  /\ \E x \in FreshXids : xid' = x
  /\ asked' = {"discover"} /\ state' = "selecting"
  /\ offered_ip' = NoAddr /\ cleared' = NoAddr
  /\ UNCHANGED <<life, net>>
  /\ rx_msg' \in {rx_msg, NoReply}

\* A renewal starts, or rebinding after it.
Extends ==
  /\ \E x \in FreshXids : xid' = x
  /\ asked' = {"request"}
  /\ state \in {"bound", "renewing"} /\ state' \in {"renewing", "rebinding"}
  /\ UNCHANGED <<offered_ip, cleared, life, net, rx_msg>>

\* A message of the transaction is sent again.
Resends ==
  /\ \/ state = "selecting" /\ asked' = asked \cup {"discover"}
     \/ state \in {"renewing", "rebinding", "requesting", "rebooting"}
        /\ asked' = asked \cup {"request"}
  /\ UNCHANGED <<state, xid, offered_ip, cleared, life, net, rx_msg>>

\* The lease leaves the table, and then its magic goes.
Leaves ==
  /\ life' \in {"removed", "dead"}
  /\ UNCHANGED <<state, xid, asked, offered_ip, cleared, net, rx_msg>>

\* Every other step has an effect of its own.
OtherSteps ==
  \/ rx_offer \/ rx_ack_first \/ rx_ack_renewal
  \/ handle_conflict \/ probe_clean_offer \/ probe_clean_ack
  \/ start_insert \/ start_reboot \/ destroy_lease_timer
  \/ \E m \in net : rx_find_by_xid(m) \/ lose(m)
  \/ server_reply

\* Most leaves are first-order; the others name SMT.
USE Zenon

\* These are all the steps there are.
LEMMA StepKinds ==
  ASSUME StartInv, [Next]_vars
  PROVE  Quiet \/ Restarts \/ Extends \/ Resends \/ Leaves \/ OtherSteps
<1>1. CASE rx_nak_renewal \/ rx_ignore \/ rx_abandon \/ rx_return
  BY <1>1 DEF Quiet, rx_nak_renewal, rx_ignore, rx_abandon, rx_return, RxLeave, leaseVars,
    transaction, fields
<1>2. CASE rt_fire \/ rt_stale \/ rt_probe \/ rt_return
  BY <1>2 DEF Quiet, rt_fire, rt_stale, rt_probe, rt_return, leaseVars, transaction,
    fields
<1>3. CASE lt_fire \/ lt_expiry \/ lt_stale
  BY <1>3 DEF Quiet, lt_fire, lt_expiry, lt_stale, leaseVars, transaction, fields
<1>4. CASE teardown_unapply \/ destroy_retransmit_timer \/ UNCHANGED vars
  BY <1>4 DEF Quiet, teardown_unapply, destroy_retransmit_timer, vars, leaseVars,
    transaction, fields
<1>5. CASE \E t \in {"rx", "lt"} : lost_unapply(t)
  BY <1>5 DEF Quiet, lost_unapply, transaction
<1>6. CASE rx_nak_first
  BY <1>6 DEF Restarts, rx_nak_first, RxLeave, dmdhcp_output_start_discovery,
    begin_transaction
<1>7. CASE rt_rediscover
  BY <1>7 DEF Restarts, rt_rediscover, dmdhcp_output_start_discovery, begin_transaction
<1>8. CASE \E t \in {"rx", "lt"} : lost_restart(t)
  BY <1>8 DEF Restarts, Losing, lost_restart, dmdhcp_output_start_discovery,
    begin_transaction
<1>9. CASE start_discovery
  BY <1>9 DEF StartInv, Restarts, start_discovery, dmdhcp_output_start_discovery,
    begin_transaction
<1>10. CASE lt_t1 \/ dmdhcp_renew
  BY <1>10 DEF Extends, lt_t1, dmdhcp_renew, dmdhcp_output_start_renew, begin_transaction,
    fields
<1>11. CASE lt_t2
  BY <1>11 DEF Extends, lt_t2, dmdhcp_output_start_rebind, begin_transaction, fields
<1>12. CASE rt_resend \/ rt_resend_counted
  BY <1>12 DEF Resends, rt_resend, rt_resend_counted, Resent, fields
<1>13. CASE table_remove \/ destroy_begin
  BY <1>13 DEF Leaves, table_remove, destroy_begin, leaseVars, transaction, fields
<1> QED
  BY <1>1, <1>2, <1>3, <1>4, <1>5, <1>6, <1>7, <1>8, <1>9, <1>10, <1>11, <1>12, <1>13 DEF
    Next, RxHandle, RtHandle, LtHandle, Lost, Start, Teardown, dmdhcp_release,
    dmdhcp_stop, OtherSteps
-----------------------------------------------------------------------------
\* No thread interferes with dmdhcp_start(), and none is in handle_lost() when
\* the probe gives up.
LEMMA ThreadStep == IndInv /\ ThreadInv /\ [Next]_vars => ThreadInv'
<1> SUFFICES ASSUME IndInv, ThreadInv, [Next]_vars PROVE ThreadInv'
  OBVIOUS
<1> USE DEF IndInv, TypeOK, ThreadsTypeOK, ProbeInv, LifeInv, Threads, Goto, ThreadInv,
      StartInv, FinalInv, Losing
<1>1. CASE rx_offer
  BY <1>1 DEF rx_offer, RxSection, RxLeave, hand_off_probe
<1>2. CASE rx_ack_first
  BY <1>2 DEF rx_ack_first, RxSection, RxLeave, hand_off_probe
<1>3. CASE rx_nak_first
  BY <1>3 DEF rx_nak_first, RxSection, RxLeave, dmdhcp_output_start_discovery,
    begin_transaction, start_retransmit_timer, dmosi_timer_start
<1>4. CASE rx_ack_renewal
  BY <1>4 DEF rx_ack_renewal, RxSection, RxLeave, enter_bound
<1>5. CASE rx_nak_renewal
  BY <1>5 DEF rx_nak_renewal, RxSection, RxLeave, leaseVars, transaction, timers
<1>6. CASE rx_ignore
  BY <1>6 DEF rx_ignore, RxSection, RxLeave, leaseVars, transaction, timers
<1>7. CASE rx_abandon
  BY <1>7 DEF rx_abandon, RxLeave, leaseVars, transaction, timers
<1>8. CASE rx_return
  BY <1>8 DEF rx_return, leaseVars, transaction, timers
<1>9. CASE rt_fire
  BY <1>9 DEF rt_fire, WorkerFree, transaction
<1>10. CASE rt_resend
  BY <1>10 DEF rt_resend, RtSection
<1>11. CASE rt_resend_counted
  BY <1>11 DEF rt_resend_counted, RtSection
<1>12. CASE rt_rediscover
  BY <1>12 DEF rt_rediscover, RtSection, dmdhcp_output_start_discovery, begin_transaction,
    start_retransmit_timer, dmosi_timer_start
<1>13. CASE rt_stale
  BY <1>13 DEF rt_stale, RtSection, leaseVars, transaction, timers
<1>14. CASE rt_probe
  BY <1>14 DEF rt_probe, RtSection, leaseVars, transaction, timers
<1>15. CASE handle_conflict
  BY <1>15 DEF handle_conflict, transaction
<1>16. CASE probe_clean_offer
  BY <1>16 DEF probe_clean_offer
<1>17. CASE probe_clean_ack
  BY <1>17 DEF probe_clean_ack, enter_bound, transaction
<1>18. CASE rt_return
  BY <1>18 DEF rt_return, leaseVars, transaction, timers
<1>19. CASE lt_fire
  BY <1>19 DEF lt_fire, WorkerFree, transaction
<1>20. CASE lt_t1
  BY <1>20 DEF lt_t1, LtSection, dmdhcp_output_start_renew, begin_transaction,
    start_retransmit_timer, dmosi_timer_start
<1>21. CASE lt_t2
  BY <1>21 DEF lt_t2, LtSection, dmdhcp_output_start_rebind, begin_transaction,
    start_retransmit_timer, dmosi_timer_start
<1>22. CASE lt_expiry
  BY <1>22 DEF lt_expiry, LtSection, leaseVars, transaction, timers
<1>23. CASE lt_stale
  BY <1>23 DEF lt_stale, LtSection, leaseVars, transaction, timers
<1>24. CASE \E t \in {"rx", "lt"} : lost_unapply(t)
  BY <1>24 DEF lost_unapply, transaction, timers
<1>25. CASE \E t \in {"rx", "lt"} : lost_restart(t)
  BY <1>25 DEF lost_restart, dmdhcp_output_start_discovery, begin_transaction,
    start_retransmit_timer, dmosi_timer_start
<1>26. CASE start_insert
  BY <1>26 DEF start_insert, zero_lease
<1>27. CASE start_reboot
  BY <1>27 DEF start_reboot, dmdhcp_output_start_reboot, begin_transaction,
    start_retransmit_timer, dmosi_timer_start
<1>28. CASE start_discovery
  BY <1>28 DEF start_discovery, dmdhcp_output_start_discovery, begin_transaction,
    start_retransmit_timer, dmosi_timer_start
<1>29. CASE dmdhcp_renew
  BY <1>29 DEF dmdhcp_renew, dmdhcp_output_start_renew, begin_transaction,
    start_retransmit_timer, dmosi_timer_start
<1>30. CASE table_remove
  BY <1>30 DEF table_remove, leaseVars, transaction, timers
<1>31. CASE teardown_unapply
  BY <1>31 DEF teardown_unapply, leaseVars, transaction, timers
<1>32. CASE destroy_begin
  BY <1>32 DEF destroy_begin, transaction
<1>33. CASE destroy_retransmit_timer
  BY <1>33 DEF destroy_retransmit_timer, transaction
<1>34. CASE destroy_lease_timer
  BY <1>34 DEF destroy_lease_timer, zero_lease
<1>35. ASSUME NEW m \in net, rx_find_by_xid(m) PROVE ThreadInv'
  <2>1. m.xid # NoXid
    BY LeaseAssumption DEF Replies, Offers, Acks, Naks
  <2> QED
    BY <1>35, <2>1 DEF rx_find_by_xid, leaseVars, transaction, timers
<1>36. CASE (\E m \in net : lose(m)) \/ server_reply \/ UNCHANGED vars
  BY <1>36 DEF lose, server_reply, vars, leaseVars, transaction, timers
<1> QED
  BY <1>1, <1>2, <1>3, <1>4, <1>5, <1>6, <1>7, <1>8, <1>9, <1>10, <1>11, <1>12, <1>13,
    <1>14, <1>15, <1>16, <1>17, <1>18, <1>19, <1>20, <1>21, <1>22, <1>23, <1>24, <1>25,
    <1>26, <1>27, <1>28, <1>29, <1>30, <1>31, <1>32, <1>33, <1>34, <1>35, <1>36 DEF Next, RxHandle, RtHandle, LtHandle, Lost,
    Start, Teardown, dmdhcp_release, dmdhcp_stop

\* ThreadInv holds in every behaviour.
LEMMA ThreadInvHolds == Spec => []ThreadInv
<1>1. Init => ThreadInv
  BY DEF Init, ThreadInv, StartInv, FinalInv, Losing, Threads
<1> QED
  BY <1>1, ThreadStep, IndInvHolds, PTL DEF Spec
-----------------------------------------------------------------------------
\* A fresh xid is no xid of a reply in flight.
LEMMA FreshIsNew ==
  ASSUME NEW x \in FreshXids
  PROVE  x \in Xids /\ \A m \in net : m.xid # x
  BY DEF FreshXids

\* Replies in flight have an xid.
LEMMA RepliesHaveXid ==
  ASSUME TypeOK
  PROVE  \A m \in net : m.xid \in Xids /\ m.xid # NoXid
  BY LeaseAssumption DEF TypeOK, Replies, Offers, Acks, Naks

\* With servers that acknowledge what was asked for, ACKs are about the offered
\* address, and a held address has passed its probe.
LEMMA AckStep ==
  ASSUME ConformingServers
  PROVE  IndInv /\ StartInv /\ AckInv /\ ValidLeaseProbed /\ [Next]_vars
           => AckInv' /\ ValidLeaseProbed'
<1> SUFFICES ASSUME IndInv, StartInv, AckInv, ValidLeaseProbed, [Next]_vars
             PROVE  AckInv' /\ ValidLeaseProbed'
  OBVIOUS
<1> USE DEF AckInv, ValidLeaseProbed, holds_valid_lease, NoReply
<1>1. CASE Quiet
  BY <1>1, SMT DEF Quiet
<1>2. CASE Restarts
  BY <1>2, FreshIsNew DEF Restarts
<1>3. CASE Extends
  BY <1>3, FreshIsNew DEF Extends
<1>4. CASE Resends
  BY <1>4 DEF Resends
<1>5. CASE Leaves
  BY <1>5 DEF Leaves
<1>6. CASE rx_offer
  BY <1>6 DEF rx_offer, RxLeave, hand_off_probe, transaction
<1>7. CASE rx_ack_first
  BY <1>7 DEF rx_ack_first, RxLeave, hand_off_probe, populate_lease_from_options, transaction
<1>8. CASE rx_ack_renewal
  BY <1>8 DEF rx_ack_renewal, RxLeave, enter_bound, populate_lease_from_options, transaction
<1>9. CASE handle_conflict
  BY <1>9 DEF handle_conflict, transaction, fields, IndInv, ProbeInv
<1>10. CASE probe_clean_offer
  BY <1>10 DEF probe_clean_offer, fields
<1>11. CASE probe_clean_ack
  BY <1>11 DEF probe_clean_ack, enter_bound, transaction, fields, IndInv, ProbeInv
<1>12. CASE start_insert \/ destroy_lease_timer
  BY <1>12, RepliesHaveXid DEF start_insert, destroy_lease_timer, zero_lease, IndInv
<1>13. CASE start_reboot
  <2>1. rx_msg = NoReply
    BY <1>13 DEF start_reboot, StartInv, IndInv, TypeOK
  <2> QED
    BY <1>13, <2>1, FreshIsNew DEF start_reboot, dmdhcp_output_start_reboot, begin_transaction
<1>14. ASSUME NEW m \in net, rx_find_by_xid(m) \/ lose(m)
       PROVE  AckInv' /\ ValidLeaseProbed'
  BY <1>14 DEF rx_find_by_xid, lose, leaseVars, transaction, fields
<1>15. CASE server_reply
  <2>1. \A m \in net' : m \in net \/ m.type # "ack"
                        \/ ("request" \in asked /\ m.yiaddr = offered_ip)
    BY <1>15, SMT DEF server_reply, AckAddrs
  <2> QED
    BY <1>15, <2>1 DEF server_reply, leaseVars, transaction, fields
<1> QED
  BY <1>1, <1>2, <1>3, <1>4, <1>5, <1>6, <1>7, <1>8, <1>9, <1>10, <1>11, <1>12, <1>13,
    <1>14, <1>15, StepKinds DEF OtherSteps

\* So they are in every behaviour.
LEMMA AckInvHolds ==
  ASSUME ConformingServers
  PROVE  Spec => [](AckInv /\ ValidLeaseProbed)
<1>1. Init => AckInv /\ ValidLeaseProbed
  BY DEF Init, AckInv, ValidLeaseProbed, holds_valid_lease, NoReply
<1>2. ThreadInv => StartInv
  BY DEF ThreadInv
<1> QED
  BY <1>1, <1>2, AckStep, ThreadInvHolds, IndInvHolds, PTL DEF Spec

(***************************************************************************)
(* run_conflict_probe() clears every address that is held: also after      *)
(* renewals, which apply the address of the ACK unprobed, after late and   *)
(* duplicated ACKs and after INIT-REBOOT; if servers acknowledge the       *)
(* address that was asked for.                                             *)
(***************************************************************************)
THEOREM HeldAddressIsProbed ==
  ASSUME ConformingServers
  PROVE  Spec => []ValidLeaseProbed
  BY AckInvHolds, PTL

(***************************************************************************)
(* A lease in FAILED stays there until it is torn down, when the timers    *)
(* share one worker: no handle_lost() that began before the probe gave up  *)
(* restarts it.                                                            *)
(***************************************************************************)
THEOREM FailedStaysFailed ==
  ASSUME SharedWorker
  PROVE  Spec => FailedIsFinal
<1>1. IndInv /\ ThreadInv /\ [Next]_vars
        => [state = "failed" /\ life = "tabled" => state' = "failed"]_vars
  <2> SUFFICES ASSUME IndInv, ThreadInv, [Next]_vars, state = "failed", life = "tabled"
               PROVE  state' = "failed"
    OBVIOUS
  <2>1. CASE Quiet \/ Restarts \/ Extends \/ Resends \/ Leaves
    BY <2>1 DEF Quiet, Restarts, Extends, Resends, Leaves, ThreadInv, FinalInv
  <2>2. CASE rx_offer \/ rx_ack_first \/ rx_ack_renewal
    BY <2>2 DEF rx_offer, rx_ack_first, rx_ack_renewal
  <2>3. CASE handle_conflict \/ probe_clean_offer \/ probe_clean_ack
    BY <2>3 DEF handle_conflict, probe_clean_offer, probe_clean_ack, IndInv, ProbeInv
  <2>4. CASE start_insert \/ start_reboot \/ destroy_lease_timer
    BY <2>4 DEF start_insert, start_reboot, destroy_lease_timer, ThreadInv, StartInv, IndInv,
      LifeInv
  <2>5. CASE (\E m \in net : rx_find_by_xid(m) \/ lose(m)) \/ server_reply
    BY <2>5 DEF rx_find_by_xid, lose, server_reply, leaseVars
  <2> QED
    BY <2>1, <2>2, <2>3, <2>4, <2>5, StepKinds DEF OtherSteps, ThreadInv
<1> QED
  BY <1>1, ThreadInvHolds, IndInvHolds, PTL DEF Spec, FailedIsFinal

(***************************************************************************)
(* DmdhcpLease implements DmdhcpClient: an address that is held stays the  *)
(* same through every renewal, a lease is only lost from being held, only  *)
(* an acquisition fails, and only a teardown ends a failed client.         *)
(***************************************************************************)
THEOREM LeaseImplementsClient ==
  ASSUME ConformingServers, SharedWorker
  PROVE  Spec => ImplementsClient
<1> USE DEF Phase, HeldAddress, holds_valid_lease
<1>1. Init => Client!Init
  BY DEF Init, Client!Init
<1>2. IndInv /\ ThreadInv /\ AckInv /\ [Next]_vars => [Client!Next]_(Client!clientVars)
  <2> SUFFICES ASSUME IndInv, ThreadInv, AckInv, [Next]_vars
               PROVE  Client!Next \/ UNCHANGED Client!clientVars
    OBVIOUS
  <2> USE DEF Client!clientVars, Client!Next
  <2>1. CASE Quiet \/ Extends \/ Resends
    BY <2>1 DEF Quiet, Extends, Resends
  <2>2. CASE Restarts
    BY <2>2 DEF Restarts, ThreadInv, FinalInv, Client!Lose
  <2>3. CASE Leaves
    BY <2>3 DEF Leaves, Client!Stop
  <2>4. CASE rx_offer \/ rx_ack_first
    BY <2>4 DEF rx_offer, rx_ack_first, RxLeave, hand_off_probe
  <2>5. CASE rx_ack_renewal
    BY <2>5 DEF rx_ack_renewal, RxLeave, enter_bound, populate_lease_from_options, AckInv
  <2>6. CASE handle_conflict
    BY <2>6 DEF handle_conflict, fields, IndInv, ProbeInv, Client!GiveUp
  <2>7. CASE probe_clean_offer
    BY <2>7 DEF probe_clean_offer, fields
  <2>8. CASE probe_clean_ack
    BY <2>8 DEF probe_clean_ack, enter_bound, fields, IndInv, ProbeInv, Client!Bind
  <2>9. CASE start_insert
    BY <2>9 DEF start_insert, zero_lease, Client!Start
  <2>10. CASE start_reboot
    BY <2>10 DEF start_reboot, dmdhcp_output_start_reboot, begin_transaction, ThreadInv,
      StartInv
  <2>11. CASE destroy_lease_timer
    BY <2>11 DEF destroy_lease_timer, IndInv, LifeInv
  <2>12. CASE (\E m \in net : rx_find_by_xid(m) \/ lose(m)) \/ server_reply
    BY <2>12 DEF rx_find_by_xid, lose, server_reply, leaseVars, fields
  <2> QED
    BY <2>1, <2>2, <2>3, <2>4, <2>5, <2>6, <2>7, <2>8, <2>9, <2>10, <2>11, <2>12,
      StepKinds DEF OtherSteps, ThreadInv
<1>3. Spec => []AckInv
  BY AckInvHolds, PTL
<1> QED
  BY <1>1, <1>2, <1>3, ThreadInvHolds, IndInvHolds, PTL
    DEF Spec, ImplementsClient, Client!Spec
=============================================================================
