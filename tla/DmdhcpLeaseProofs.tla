------------------------- MODULE DmdhcpLeaseProofs --------------------------
(***************************************************************************)
(* Theorems about DmdhcpLease, for every set of addresses, transaction     *)
(* identifiers, servers and options, every retransmission and decline      *)
(* limit, shared or separate timer workers, and every interleaving of the  *)
(* threads.                                                                *)
(***************************************************************************)
EXTENDS DmdhcpLeaseInductive

\* Most leaves are first-order; the others name SMT.
USE Zenon

(***************************************************************************)
(* Every variable keeps its type; in particular a retransmission count     *)
(* stays within the limit, and the rx thread holds a reply exactly while   *)
(* it waits for the lock of the lease it found.                            *)
(***************************************************************************)
THEOREM LeaseTypeCorrect == Spec => []TypeOK
  BY IndInvHolds, PTL DEF IndInv

(***************************************************************************)
(* dmdhcp_lease_table_destroy_with_context() frees a lease only when no    *)
(* timer callback is running on it, wherever the callbacks were when the   *)
(* teardown began.                                                         *)
(***************************************************************************)
THEOREM FreeAfterCallbacks == Spec => []CallbacksFinishBeforeFree
<1>1. IndInv => CallbacksFinishBeforeFree
  BY DEF IndInv, LifeInv, CallbacksFinishBeforeFree, Allocated
<1> QED
  BY <1>1, IndInvHolds, PTL

(***************************************************************************)
(* No state is left waiting for a timer that is not coming, under every    *)
(* interleaving of the rx thread, the two workers and the application.     *)
(***************************************************************************)
THEOREM NoTimerIsMissed == Spec => []NeverStranded
<1>1. Init => NeverStranded
  BY DEF Init, NeverStranded
<1>2. IndInv /\ NeverStranded /\ [Next]_vars => NeverStranded'
  <2> SUFFICES ASSUME IndInv, NeverStranded, [Next]_vars PROVE NeverStranded'
    OBVIOUS
  <2> USE DEF IndInv, TypeOK, ThreadsTypeOK, LifeInv, Threads, Goto
  <2>1. CASE rx_offer
    BY <2>1 DEF rx_offer, RxLeave, hand_off_probe, start_retransmit_timer,
      dmosi_timer_start, NeverStranded, WaitingStates, holds_valid_lease
  <2>2. CASE rx_ack_first
    BY <2>2 DEF rx_ack_first, RxLeave, hand_off_probe, start_retransmit_timer,
      dmosi_timer_start, NeverStranded, WaitingStates, holds_valid_lease
  <2>3. CASE rx_nak_first
    BY <2>3 DEF rx_nak_first, RxLeave, dmdhcp_output_start_discovery,
      begin_transaction, start_retransmit_timer, dmosi_timer_start, NeverStranded,
      WaitingStates, holds_valid_lease
  <2>4. CASE rx_ack_renewal
    BY <2>4 DEF rx_ack_renewal, RxLeave, enter_bound, start_lease_timer,
      dmosi_timer_start, NeverStranded, WaitingStates, holds_valid_lease
  <2>5. CASE rx_nak_renewal
    BY <2>5 DEF rx_nak_renewal, RxSection, RxLeave, leaseVars, timers, NeverStranded,
      WaitingStates, holds_valid_lease
  <2>6. CASE rx_ignore
    BY <2>6 DEF rx_ignore, RxSection, RxLeave, leaseVars, timers, NeverStranded,
      WaitingStates, holds_valid_lease
  <2>7. CASE rx_abandon
    BY <2>7 DEF rx_abandon, RxLeave, Allocated, leaseVars, timers, NeverStranded,
      WaitingStates, holds_valid_lease
  <2>8. CASE rx_return
    BY <2>8 DEF rx_return, leaseVars, timers, NeverStranded, WaitingStates,
      holds_valid_lease
  <2>9. CASE rt_fire
    BY <2>9 DEF rt_fire, Magic, NeverStranded, WaitingStates, holds_valid_lease
  <2>10. CASE rt_resend
    BY <2>10 DEF rt_resend, RtSection, start_retransmit_timer, dmosi_timer_start,
      NeverStranded, WaitingStates, holds_valid_lease
  <2>11. CASE rt_resend_counted
    BY <2>11 DEF rt_resend_counted, RtSection, start_retransmit_timer,
      dmosi_timer_start, NeverStranded, WaitingStates, holds_valid_lease
  <2>12. CASE rt_rediscover
    BY <2>12 DEF rt_rediscover, dmdhcp_output_start_discovery, begin_transaction,
      start_retransmit_timer, dmosi_timer_start, NeverStranded, WaitingStates,
      holds_valid_lease
  <2>13. CASE rt_stale
    BY <2>13 DEF rt_stale, RtSection, leaseVars, timers, NeverStranded, WaitingStates,
      holds_valid_lease
  <2>14. CASE rt_probe
    BY <2>14 DEF rt_probe, RtSection, leaseVars, timers, NeverStranded, WaitingStates,
      holds_valid_lease
  <2>15. CASE handle_conflict
    BY <2>15 DEF handle_conflict, start_retransmit_timer, dmosi_timer_start,
      NeverStranded, WaitingStates, holds_valid_lease
  <2>16. CASE probe_clean_offer
    BY <2>16 DEF probe_clean_offer, start_retransmit_timer, dmosi_timer_start,
      NeverStranded, WaitingStates, holds_valid_lease
  <2>17. CASE probe_clean_ack
    BY <2>17 DEF probe_clean_ack, enter_bound, start_lease_timer, dmosi_timer_start,
      NeverStranded, WaitingStates, holds_valid_lease
  <2>18. CASE rt_return
    BY <2>18 DEF rt_return, leaseVars, timers, NeverStranded, WaitingStates,
      holds_valid_lease
  <2>19. CASE lt_fire
    BY <2>19 DEF lt_fire, WorkerFree, Magic, NeverStranded, WaitingStates,
      holds_valid_lease
  <2>20. CASE lt_t1
    BY <2>20 DEF lt_t1, LtSection, dmdhcp_output_start_renew, begin_transaction,
      start_retransmit_timer, dmosi_timer_start, start_lease_timer, NeverStranded,
      WaitingStates, holds_valid_lease
  <2>21. CASE lt_t2
    BY <2>21 DEF lt_t2, LtSection, dmdhcp_output_start_rebind, begin_transaction,
      start_retransmit_timer, dmosi_timer_start, start_lease_timer, NeverStranded,
      WaitingStates, holds_valid_lease
  <2>22. CASE lt_expiry
    BY <2>22 DEF lt_expiry, LtSection, leaseVars, timers, NeverStranded,
      WaitingStates, holds_valid_lease
  <2>23. CASE lt_stale
    BY <2>23 DEF lt_stale, LtSection, leaseVars, timers, NeverStranded, WaitingStates,
      holds_valid_lease
  <2>24. CASE \E t \in {"rx", "lt"} : lost_unapply(t)
    BY <2>24 DEF lost_unapply, timers, NeverStranded, WaitingStates, holds_valid_lease
  <2>25. CASE \E t \in {"rx", "lt"} : lost_restart(t)
    BY <2>25 DEF lost_restart, dmdhcp_output_start_discovery, begin_transaction,
      start_retransmit_timer, dmosi_timer_start, NeverStranded, WaitingStates,
      holds_valid_lease
  <2>26. CASE start_insert
    BY <2>26 DEF start_insert, zero_lease, NeverStranded, WaitingStates,
      holds_valid_lease
  <2>27. CASE start_reboot
    BY <2>27 DEF start_reboot, dmdhcp_output_start_reboot, begin_transaction,
      start_retransmit_timer, dmosi_timer_start, NeverStranded, WaitingStates,
      holds_valid_lease
  <2>28. CASE start_discovery
    BY <2>28 DEF start_discovery, dmdhcp_output_start_discovery, begin_transaction,
      start_retransmit_timer, dmosi_timer_start, NeverStranded, WaitingStates,
      holds_valid_lease
  <2>29. CASE dmdhcp_renew
    BY <2>29 DEF dmdhcp_renew, dmdhcp_output_start_renew, begin_transaction,
      start_retransmit_timer, dmosi_timer_start, NeverStranded, WaitingStates,
      holds_valid_lease
  <2>30. CASE table_remove
    BY <2>30 DEF table_remove, leaseVars, timers, NeverStranded, WaitingStates,
      holds_valid_lease
  <2>31. CASE teardown_unapply
    BY <2>31 DEF teardown_unapply, leaseVars, timers, NeverStranded, WaitingStates,
      holds_valid_lease
  <2>32. CASE destroy_begin
    BY <2>32 DEF destroy_begin, NeverStranded, WaitingStates, holds_valid_lease
  <2>33. CASE destroy_retransmit_timer
    BY <2>33 DEF destroy_retransmit_timer, NeverStranded, WaitingStates,
      holds_valid_lease
  <2>34. CASE destroy_lease_timer
    BY <2>34 DEF destroy_lease_timer, zero_lease, NeverStranded, WaitingStates,
      holds_valid_lease
  <2>35. CASE \/ \E m \in net : rx_find_by_xid(m) \/ lose(m)
          \/ server_reply
          \/ UNCHANGED vars
    <3>1. /\ UNCHANGED <<ifaceVars, leaseVars, life>>
          /\ \A t \in {"rt", "lt", "api"} : pc'[t] = pc[t]
          /\ pc'["rx"] = pc["rx"] \/ (pc["rx"] = "idle" /\ pc'["rx"] = "lock")
      BY <2>35 DEF rx_find_by_xid, lose, server_reply, vars
    <3> QED
      BY <3>1 DEF leaseVars, timers, NeverStranded, WaitingStates, holds_valid_lease
  <2> QED
    BY <2>1, <2>2, <2>3, <2>4, <2>5, <2>6, <2>7, <2>8, <2>9, <2>10, <2>11, <2>12,
      <2>13, <2>14, <2>15, <2>16, <2>17, <2>18, <2>19, <2>20, <2>21, <2>22, <2>23,
      <2>24, <2>25, <2>26, <2>27, <2>28, <2>29, <2>30, <2>31, <2>32, <2>33, <2>34,
      <2>35 DEF Next, RxHandle, RtHandle, LtHandle, Lost, Start, Teardown,
      dmdhcp_release, dmdhcp_stop
<1> QED
  BY <1>1, <1>2, IndInvHolds, PTL DEF Spec

\* Without failing calls, apply() puts the leased address on the interface.
LEMMA ApplyConfigures ==
  ASSUME ApplyOutcomes \subseteq {"ok", "route_fails"}, NEW ip, NEW mask, NEW gw,
         dmdhcp_lifecycle_apply(ip, mask, gw)
  PROVE  iface_configured' /\ ifcfg'.ip = ip
  BY SMT DEF dmdhcp_lifecycle_apply, Applied

(***************************************************************************)
(* A lease that is reported as valid is on the interface, if setting an    *)
(* address and a netmask does not fail.  (A default route that cannot be   *)
(* added does no harm to it.)                                              *)
(***************************************************************************)
THEOREM LeaseIsApplied ==
  ASSUME ApplyOutcomes \subseteq {"ok", "route_fails"}
  PROVE  Spec => []ValidLeaseApplied
<1>1. Init => ValidLeaseApplied
  BY DEF Init, ValidLeaseApplied
<1>2. IndInv /\ ValidLeaseApplied /\ [Next]_vars => ValidLeaseApplied'
  <2> SUFFICES ASSUME IndInv, ValidLeaseApplied, [Next]_vars PROVE ValidLeaseApplied'
    OBVIOUS
  <2> USE DEF IndInv, TypeOK, ThreadsTypeOK, LifeInv, Threads, Goto, ifaceVars
  <2>1. CASE rx_offer
    BY <2>1 DEF rx_offer, RxLeave, hand_off_probe, ValidLeaseApplied,
      holds_valid_lease
  <2>2. CASE rx_ack_first
    BY <2>2 DEF rx_ack_first, RxLeave, hand_off_probe, ValidLeaseApplied,
      holds_valid_lease
  <2>3. CASE rx_nak_first
    BY <2>3 DEF rx_nak_first, RxLeave, dmdhcp_output_start_discovery,
      begin_transaction, ValidLeaseApplied, holds_valid_lease
  <2>4. CASE rx_ack_renewal
    BY <2>4, ApplyConfigures DEF rx_ack_renewal, RxLeave, enter_bound,
      ValidLeaseApplied, holds_valid_lease
  <2>5. CASE rx_nak_renewal
    BY <2>5 DEF rx_nak_renewal, RxSection, RxLeave, leaseVars, fields,
      ValidLeaseApplied, holds_valid_lease
  <2>6. CASE rx_ignore
    BY <2>6 DEF rx_ignore, RxSection, RxLeave, leaseVars, fields, ValidLeaseApplied,
      holds_valid_lease
  <2>7. CASE rx_abandon
    BY <2>7 DEF rx_abandon, RxLeave, Allocated, leaseVars, fields, ValidLeaseApplied,
      holds_valid_lease
  <2>8. CASE rx_return
    BY <2>8 DEF rx_return, leaseVars, fields, ValidLeaseApplied, holds_valid_lease
  <2>9. CASE rt_fire
    BY <2>9 DEF rt_fire, Magic, fields, ValidLeaseApplied, holds_valid_lease
  <2>10. CASE rt_resend
    BY <2>10 DEF rt_resend, RtSection, fields, ValidLeaseApplied, holds_valid_lease
  <2>11. CASE rt_resend_counted
    BY <2>11 DEF rt_resend_counted, RtSection, fields, ValidLeaseApplied,
      holds_valid_lease
  <2>12. CASE rt_rediscover
    BY <2>12 DEF rt_rediscover, dmdhcp_output_start_discovery, begin_transaction,
      ValidLeaseApplied, holds_valid_lease
  <2>13. CASE rt_stale
    BY <2>13 DEF rt_stale, RtSection, leaseVars, fields, ValidLeaseApplied,
      holds_valid_lease
  <2>14. CASE rt_probe
    BY <2>14 DEF rt_probe, RtSection, leaseVars, fields, ValidLeaseApplied,
      holds_valid_lease
  <2>15. CASE handle_conflict
    BY <2>15 DEF handle_conflict, fields, ValidLeaseApplied, holds_valid_lease
  <2>16. CASE probe_clean_offer
    BY <2>16 DEF probe_clean_offer, fields, ValidLeaseApplied, holds_valid_lease
  <2>17. CASE probe_clean_ack
    BY <2>17, ApplyConfigures DEF probe_clean_ack, enter_bound, fields,
      ValidLeaseApplied, holds_valid_lease
  <2>18. CASE rt_return
    BY <2>18 DEF rt_return, leaseVars, fields, ValidLeaseApplied, holds_valid_lease
  <2>19. CASE lt_fire
    BY <2>19 DEF lt_fire, WorkerFree, Magic, fields, ValidLeaseApplied,
      holds_valid_lease
  <2>20. CASE lt_t1
    BY <2>20 DEF lt_t1, LtSection, dmdhcp_output_start_renew, begin_transaction,
      fields, ValidLeaseApplied, holds_valid_lease
  <2>21. CASE lt_t2
    BY <2>21 DEF lt_t2, LtSection, dmdhcp_output_start_rebind, begin_transaction,
      fields, ValidLeaseApplied, holds_valid_lease
  <2>22. CASE lt_expiry
    BY <2>22 DEF lt_expiry, LtSection, leaseVars, fields, ValidLeaseApplied,
      holds_valid_lease
  <2>23. CASE lt_stale
    BY <2>23 DEF lt_stale, LtSection, leaseVars, fields, ValidLeaseApplied,
      holds_valid_lease
  <2>24. CASE \E t \in {"rx", "lt"} : lost_unapply(t)
    BY <2>24 DEF lost_unapply, timers, ValidLeaseApplied, holds_valid_lease
  <2>25. CASE \E t \in {"rx", "lt"} : lost_restart(t)
    BY <2>25 DEF lost_restart, dmdhcp_output_start_discovery, begin_transaction,
      ValidLeaseApplied, holds_valid_lease
  <2>26. CASE start_insert
    BY <2>26 DEF start_insert, zero_lease, ValidLeaseApplied, holds_valid_lease
  <2>27. CASE start_reboot
    BY <2>27 DEF start_reboot, dmdhcp_output_start_reboot, begin_transaction,
      ValidLeaseApplied, holds_valid_lease
  <2>28. CASE start_discovery
    BY <2>28 DEF start_discovery, dmdhcp_output_start_discovery, begin_transaction,
      ValidLeaseApplied, holds_valid_lease
  <2>29. CASE dmdhcp_renew
    BY <2>29 DEF dmdhcp_renew, dmdhcp_output_start_renew, begin_transaction, fields,
      ValidLeaseApplied, holds_valid_lease
  <2>30. CASE table_remove
    BY <2>30 DEF table_remove, leaseVars, fields, ValidLeaseApplied, holds_valid_lease
  <2>31. CASE teardown_unapply
    BY <2>31 DEF teardown_unapply, leaseVars, fields, ValidLeaseApplied,
      holds_valid_lease
  <2>32. CASE destroy_begin
    BY <2>32 DEF destroy_begin, fields, ValidLeaseApplied, holds_valid_lease
  <2>33. CASE destroy_retransmit_timer
    BY <2>33 DEF destroy_retransmit_timer, fields, ValidLeaseApplied,
      holds_valid_lease
  <2>34. CASE destroy_lease_timer
    BY <2>34 DEF destroy_lease_timer, zero_lease, ValidLeaseApplied, holds_valid_lease
  <2>35. CASE \/ \E m \in net : rx_find_by_xid(m) \/ lose(m)
          \/ server_reply
          \/ UNCHANGED vars
    <3>1. /\ UNCHANGED <<ifaceVars, leaseVars, life>>
          /\ \A t \in {"rt", "lt", "api"} : pc'[t] = pc[t]
          /\ pc'["rx"] = pc["rx"] \/ (pc["rx"] = "idle" /\ pc'["rx"] = "lock")
      BY <2>35 DEF rx_find_by_xid, lose, server_reply, vars
    <3> QED
      BY <3>1 DEF leaseVars, fields, ValidLeaseApplied, holds_valid_lease
  <2> QED
    BY <2>1, <2>2, <2>3, <2>4, <2>5, <2>6, <2>7, <2>8, <2>9, <2>10, <2>11, <2>12,
      <2>13, <2>14, <2>15, <2>16, <2>17, <2>18, <2>19, <2>20, <2>21, <2>22, <2>23,
      <2>24, <2>25, <2>26, <2>27, <2>28, <2>29, <2>30, <2>31, <2>32, <2>33, <2>34,
      <2>35 DEF Next, RxHandle, RtHandle, LtHandle, Lost, Start, Teardown,
      dmdhcp_release, dmdhcp_stop
<1> QED
  BY <1>1, <1>2, IndInvHolds, PTL DEF Spec

(***************************************************************************)
(* While the application does not tear it down, the lease stays in the     *)
(* table, and before it is inserted nothing of it is configured.           *)
(***************************************************************************)
UndoInv ==
  /\ life \in {"none", "tabled"} /\ pc["api"] \in {"idle", "start"}
  /\ life = "none" => ifcfg.ip = NoAddr
  /\ AppliedCanBeUndone

\* apply() and unapply() keep the record of what is configured, whichever of
\* the calls of apply() fails.
LEMMA ApplyRecorded ==
  ASSUME LifecycleTypeOK, AppliedCanBeUndone,
         \/ dmdhcp_lifecycle_unapply
         \/ \E ip, mask, gw : dmdhcp_lifecycle_apply(ip, mask, gw)
  PROVE  AppliedCanBeUndone'
<1>1. CASE dmdhcp_lifecycle_unapply
  BY <1>1, SMT DEF dmdhcp_lifecycle_unapply, Unconfigured, AppliedCanBeUndone, ifaceVars
<1>2. ASSUME NEW ip, NEW mask, NEW gw, dmdhcp_lifecycle_apply(ip, mask, gw)
      PROVE  AppliedCanBeUndone'
  <2>1. PICK outcome \in ApplyOutcomes :
          \/ /\ outcome = "netmask_fails"
             /\ UNCHANGED ifaceVars
          \/ /\ outcome = "address_fails"
             /\ ifcfg' = [ifcfg EXCEPT !.netmask = mask]
             /\ UNCHANGED <<routes, default_route, iface_configured>>
          \/ /\ outcome \in {"ok", "route_fails"}
             /\ ifcfg' = Applied(ip, mask)
             /\ default_route' = NewRoute(gw, outcome)
             /\ routes' = routes \cup ({default_route'} \ {NoAddr})
             /\ iface_configured' = TRUE
    BY <1>2 DEF dmdhcp_lifecycle_apply
  <2>2. CASE UNCHANGED ifaceVars
    BY <2>2 DEF ifaceVars, AppliedCanBeUndone
  <2>3. CASE /\ ifcfg' = [ifcfg EXCEPT !.netmask = mask]
             /\ UNCHANGED <<routes, default_route, iface_configured>>
    BY <2>3 DEF LifecycleTypeOK, IfaceConfigs, AppliedCanBeUndone
  <2>4. CASE /\ routes' = routes \cup ({default_route'} \ {NoAddr})
             /\ iface_configured' = TRUE
    BY <2>4 DEF AppliedCanBeUndone
  <2> QED
    BY <2>1, <2>2, <2>3, <2>4
<1> QED
  BY <1>1, <1>2

(***************************************************************************)
(* Whichever calls of dmdhcp_lifecycle_apply() fail, and however often a   *)
(* lease is renewed, lost and acquired again, unapply() can undo what is   *)
(* configured.  Stated for a lease that is not torn down: a teardown may   *)
(* free the record of a renewal that arrives after its own unapply().      *)
(***************************************************************************)
THEOREM ApplyIsUndoable ==
  ASSUME ApiCalls \subseteq {"renew"}
  PROVE  Spec => []AppliedCanBeUndone
<1>1. Init => UndoInv
  BY SMT DEF Init, UndoInv, AppliedCanBeUndone, Unconfigured, Threads
<1>2. IndInv /\ UndoInv /\ [Next]_vars => UndoInv'
  <2> SUFFICES ASSUME IndInv, UndoInv, [Next]_vars PROVE UndoInv'
    OBVIOUS
  <2> USE DEF UndoInv, IndInv, TypeOK, ThreadsTypeOK, Threads, Goto
  <2>1. CASE \/ rx_ack_renewal \/ probe_clean_ack
             \/ \E t \in {"rx", "lt"} : lost_unapply(t)
    <3>1. /\ life' = life /\ pc'["api"] = pc["api"] /\ life # "none"
          /\ \/ dmdhcp_lifecycle_unapply
             \/ \E ip, mask, gw : dmdhcp_lifecycle_apply(ip, mask, gw)
      BY <2>1 DEF rx_ack_renewal, probe_clean_ack, lost_unapply, enter_bound, RxSection,
        RxLeave, Allocated, LifeInv
    <3> QED
      BY <3>1, ApplyRecorded
  <2>2. CASE start_insert
    BY <2>2 DEF start_insert, zero_lease, AppliedCanBeUndone
  <2>3. CASE start_reboot \/ start_discovery
    BY <2>3 DEF start_reboot, start_discovery, ifaceVars, AppliedCanBeUndone
  <2>4. CASE dmdhcp_renew \/ dmdhcp_release \/ dmdhcp_stop \/ Teardown
    BY <2>4 DEF dmdhcp_renew, dmdhcp_release, dmdhcp_stop, Teardown, teardown_unapply,
      destroy_begin, destroy_retransmit_timer, destroy_lease_timer, ifaceVars,
      AppliedCanBeUndone
  <2>5. CASE \/ rx_offer \/ rx_ack_first \/ rx_nak_first \/ rx_nak_renewal \/ rx_ignore
             \/ rx_abandon \/ rx_return \/ \E t \in {"rx", "lt"} : lost_restart(t)
    BY <2>5 DEF rx_offer, rx_ack_first, rx_nak_first, rx_nak_renewal, rx_ignore,
      rx_abandon, rx_return, lost_restart, hand_off_probe, RxLeave, ifaceVars,
      AppliedCanBeUndone
  <2>6. CASE \/ rt_fire \/ rt_resend \/ rt_resend_counted \/ rt_rediscover \/ rt_stale
             \/ rt_probe \/ handle_conflict \/ probe_clean_offer \/ rt_return
    BY <2>6 DEF rt_fire, rt_resend, rt_resend_counted, rt_rediscover, rt_stale, rt_probe,
      handle_conflict, probe_clean_offer, rt_return, ifaceVars, AppliedCanBeUndone
  <2>7. CASE lt_fire \/ lt_t1 \/ lt_t2 \/ lt_expiry \/ lt_stale
    BY <2>7 DEF lt_fire, lt_t1, lt_t2, lt_expiry, lt_stale, ifaceVars, AppliedCanBeUndone
  <2>8. CASE \/ \E m \in net : rx_find_by_xid(m) \/ lose(m)
             \/ server_reply \/ UNCHANGED vars
    BY <2>8 DEF rx_find_by_xid, lose, server_reply, vars, ifaceVars, AppliedCanBeUndone
  <2> QED
    BY <2>1, <2>2, <2>3, <2>4, <2>5, <2>6, <2>7, <2>8 DEF Next, RxHandle, RtHandle,
      LtHandle, Lost, Start
<1>3. UndoInv => AppliedCanBeUndone
  BY DEF UndoInv
<1> QED
  BY <1>1, <1>2, <1>3, IndInvHolds, PTL DEF Spec
=============================================================================
