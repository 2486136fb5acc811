----------------------------- MODULE DmdhcpClient -----------------------------
(***************************************************************************)
(* What dmdhcp promises the application about one interface, with no       *)
(* threads, timers or messages: the client is off, acquiring a lease,      *)
(* holding one, or has failed for good.  An address stays the same for as  *)
(* long as the lease is held, however often it is renewed.                 *)
(***************************************************************************)
CONSTANTS Addrs, NoAddr

VARIABLES phase, address

clientVars == <<phase, address>>

Init == phase = "off" /\ address = NoAddr

\* dmdhcp_start()
Start == phase = "off" /\ phase' = "acquiring" /\ UNCHANGED address

\* A probed address is confirmed: on_bound().
Bind == phase = "acquiring" /\ phase' = "held" /\ address' \in Addrs

\* The lease expired or was refused; the client starts over: on_expired_or_lost().
Lose == phase = "held" /\ phase' = "acquiring" /\ address' = NoAddr

\* Too many conflicts: on_error().
GiveUp == phase = "acquiring" /\ phase' = "failed" /\ UNCHANGED address

\* dmdhcp_stop() or dmdhcp_release() takes the lease out of the table.
Stop == phase # "off" /\ phase' = "off" /\ address' = NoAddr

Next == Start \/ Bind \/ Lose \/ GiveUp \/ Stop

Spec == Init /\ [][Next]_clientVars
=============================================================================
