----------------------------- MODULE DmdhcpTimes -----------------------------
(***************************************************************************)
(* The clock of a lease: what populate_lease_from_options() makes of the   *)
(* lease time, T1 and T2, the periods the three dmdhcp_lifecycle_arm_*()   *)
(* compute in uint32_t arithmetic, and the real time that has passed since *)
(* the ACK when lease_timer fires.  DmdhcpLease has the threads and leaves *)
(* time out; this module has time and lets every handler run alone.        *)
(***************************************************************************)
EXTENDS Integers

CONSTANTS
  Word,          \* 2^32: uint32_t wraps there
  MsPerSec,      \* 1000
  ServerTimes,   \* what an ACK may carry, a subset of LeaseOptions
  NoTime,        \* the option is absent
  RenewDelays    \* how long after a step the application may call dmdhcp_renew()

\* Options 51, 58 and 59.  An absent or malformed option 51, and a malformed
\* option 58 or 59, read as 0.
LeaseOptions ==
  [lease : 0 .. Word - 1, t1 : (0 .. Word - 1) \cup {NoTime},
   t2 : (0 .. Word - 1) \cup {NoTime}]

ASSUME TimesAssumption ==
  /\ Word \in Nat \ {0, 1}
  /\ MsPerSec \in Nat /\ MsPerSec >= 21    \* see Defaulted
  /\ NoTime \notin Nat
  /\ ServerTimes \subseteq LeaseOptions
  /\ RenewDelays \subseteq Nat

VARIABLES
  state,                   \* bound, renewing, rebinding, or selecting once lost
  lease_time, t1, t2,      \* seconds, as stored in the lease
  period,                  \* milliseconds until lease_timer fires
  elapsed                  \* milliseconds of real time since the last ACK

vars == <<state, lease_time, t1, t2, period, elapsed>>
-----------------------------------------------------------------------------
\* uint32_t multiplication.
Times(a, b) == (a * b) % Word

DefaultT1(lease) == lease \div 2
DefaultT2(lease) == Times(lease, 7) \div 8

\* T1 and T2 as populate_lease_from_options() stores them.
T1Of(o) == IF o.t1 # NoTime THEN o.t1 ELSE DefaultT1(o.lease)
T2Of(o) == IF o.t2 # NoTime THEN o.t2 ELSE DefaultT2(o.lease)

\* Mutants: the product is not reduced; the end of the lease is counted from
\* the moment it is armed.
PeriodT1Wide(a) == IF a * MsPerSec = 0 THEN 1 ELSE a * MsPerSec
PeriodExpiryFromNow(b, lease) == Times(IF lease > b THEN lease ELSE 1, MsPerSec)

\* The periods of dmdhcp_lifecycle_arm_t1(), _arm_t2() and _arm_expiry().
PeriodT1(a) == IF Times(a, MsPerSec) = 0 THEN 1 ELSE Times(a, MsPerSec)
PeriodT2(a, b) == Times(IF b > a THEN b - a ELSE 1, MsPerSec)
PeriodExpiry(b, lease) == Times(IF lease > b THEN lease - b ELSE 1, MsPerSec)
-----------------------------------------------------------------------------
\* An ACK is accepted at time 0 of a new lease.
ack(o) ==
  /\ state' = "bound"
  /\ lease_time' = o.lease
  /\ t1' = T1Of(o)
  /\ t2' = T2Of(o)
  /\ period' = PeriodT1(T1Of(o))
  /\ elapsed' = 0

Init ==
  \E o \in ServerTimes :
    /\ state = "bound"
    /\ lease_time = o.lease
    /\ t1 = T1Of(o)
    /\ t2 = T2Of(o)
    /\ period = PeriodT1(T1Of(o))
    /\ elapsed = 0

\* lease_timer_callback() in the three states that hold a lease.
lease_timer_t1 ==
  /\ state = "bound"
  /\ state' = "renewing"
  /\ elapsed' = elapsed + period
  /\ period' = PeriodT2(t1, t2)
  /\ UNCHANGED <<lease_time, t1, t2>>

lease_timer_t2 ==
  /\ state = "renewing"
  /\ state' = "rebinding"
  /\ elapsed' = elapsed + period
  /\ period' = PeriodExpiry(t2, lease_time)
  /\ UNCHANGED <<lease_time, t1, t2>>

lease_timer_expiry ==
  /\ state = "rebinding"
  /\ state' = "selecting"
  /\ elapsed' = elapsed + period
  /\ UNCHANGED <<lease_time, t1, t2, period>>

\* dmdhcp_renew() d milliseconds into BOUND: lease_timer is left running.
dmdhcp_renew ==
  /\ state = "bound"
  /\ \E d \in RenewDelays :
       /\ d < period
       /\ elapsed' = elapsed + d
       /\ period' = period - d
  /\ state' = "renewing"
  /\ UNCHANGED <<lease_time, t1, t2>>

\* An ACK in RENEWING or REBINDING, or of the next acquisition.
acked ==
  /\ state # "bound"
  /\ \E o \in ServerTimes : ack(o)

Next == lease_timer_t1 \/ lease_timer_t2 \/ lease_timer_expiry \/ dmdhcp_renew \/ acked

Spec == Init /\ [][Next]_vars
-----------------------------------------------------------------------------
\* Types: seconds are uint32_t, and the timer is never armed for 2^32 ms.
TypeOK ==
  /\ state \in {"bound", "renewing", "rebinding", "selecting"}
  /\ lease_time \in 0 .. Word - 1
  /\ t1 \in 0 .. Word - 1
  /\ t2 \in 0 .. Word - 1
  /\ period \in 0 .. Word - 1
  /\ elapsed \in Nat
-----------------------------------------------------------------------------
\* The times of the lease are in the order RFC 2131 asks for.
InOrder == 0 < t1 /\ t1 < t2 /\ t2 < lease_time

\* The server left T1 and T2 to the client.  For a long lease the product with 7
\* wraps, T2 comes out before T1, and the periods no longer add up to the lease;
\* they end in time because each of them wraps as well, and a lease that long
\* lasts for more than three words of milliseconds.
Defaulted == t1 = DefaultT1(lease_time) /\ t2 = DefaultT2(lease_time) /\ lease_time >= 3

(***************************************************************************)
(* The client never keeps an address longer than the server gave it: what  *)
(* is left on lease_timer never reaches beyond the end of the lease, in    *)
(* any state, wherever dmdhcp_renew() cut in and whichever products of     *)
(* dmdhcp_lifecycle_arm_*() wrap.  T1, T2 and expiry are armed as          *)
(* differences, one after the other, so the claim is about the sum of      *)
(* three periods.                                                          *)
(***************************************************************************)
ExpiresInTime ==
  InOrder \/ Defaulted =>
    IF state = "selecting"
    THEN elapsed <= lease_time * MsPerSec
    ELSE elapsed + period <= lease_time * MsPerSec

(***************************************************************************)
(* dmdhcp_internal.h: T2 and the expiry are counted "from the original     *)
(* BOUND entry": with times in order and nothing wrapping, RENEWING ends   *)
(* at T2 and REBINDING at the end of the lease, to the millisecond.        *)
(***************************************************************************)
CountedFromBound ==
  InOrder /\ lease_time * MsPerSec < Word =>
    /\ state = "renewing" => elapsed + period = t2 * MsPerSec
    /\ state = "rebinding" => elapsed + period = lease_time * MsPerSec
=============================================================================
