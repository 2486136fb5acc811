-------------------------- MODULE DmdhcpTimesProofs --------------------------
(* Theorems about DmdhcpTimes, for every width of the word, every number   *)
(* of milliseconds in a second and everything a server may send.           *)
EXTENDS DmdhcpTimes, TLAPS

\* Most leaves are first-order; the others name SMT.
USE Zenon

\* uint32_t arithmetic is arithmetic as long as nothing wraps.
LEMMA NoWrap == \A a \in Nat : a < Word => a % Word = a
  BY TimesAssumption, SMT

\* A product is in the range of a word, whatever the factors.
LEMMA TimesInWord == \A a, b \in Nat : Times(a, b) \in 0 .. Word - 1
<1> TAKE a, b \in Nat
<1>1. a * b \in Nat
  BY SMT
<1> QED
  BY <1>1, TimesAssumption, SMT DEF Times

\* Multiplication by the same factor is monotone and distributes.
LEMMA Scale ==
  ASSUME NEW a \in Nat, NEW b \in Nat, NEW c \in Nat, a <= b
  PROVE  /\ a * c <= b * c
         /\ (b - a) * c = b * c - a * c
  BY SMT

\* A product of naturals is a natural.
LEMMA Product ==
  \A a, b \in Nat : a * b \in Nat
  BY SMT

\* The fallback of populate_lease_from_options() is in order for every lease of
\* at least three seconds whose product with 7 fits in the word.
THEOREM DefaultsInOrder ==
  ASSUME NEW lease \in Nat, lease >= 3, lease * 7 < Word
  PROVE  /\ 0 < DefaultT1(lease)
         /\ DefaultT1(lease) < DefaultT2(lease)
         /\ DefaultT2(lease) < lease
<1>1. DefaultT2(lease) = (lease * 7) \div 8
  BY NoWrap, SMT DEF DefaultT2, Times
<1> QED
  BY <1>1, SMT DEF DefaultT1
-----------------------------------------------------------------------------
(***************************************************************************)
(* The inductive invariant behind ExpiresInTime.  With times in order,     *)
(* each state has a deadline of its own (T1, T2, the end of the lease)     *)
(* that the timer does not pass.  RENEWING may be entered before T1, by    *)
(* dmdhcp_renew(), so its deadline is a bound and not an equality.  In any *)
(* case no period is longer than a word.                                   *)
(***************************************************************************)
DeadlineInv ==
  InOrder =>
    /\ state = "bound" => elapsed + period <= t1 * MsPerSec
    /\ state = "renewing" => elapsed + period <= t2 * MsPerSec
    /\ state = "rebinding" => elapsed + period <= lease_time * MsPerSec
    /\ state = "selecting" => elapsed <= lease_time * MsPerSec

WordsInv ==
  /\ state = "bound" => elapsed + period <= Word
  /\ state = "renewing" => elapsed + period <= 2 * Word
  /\ state = "rebinding" => elapsed + period <= 3 * Word
  /\ state = "selecting" => elapsed <= 3 * Word

\* A product in 32 bits is at most the product.
LEMMA TimesBelow == \A a, b \in Nat : Times(a, b) <= a * b
<1> TAKE a, b \in Nat
<1>1. a * b \in Nat
  BY Product
<1>2. \A c \in Nat : c % Word <= c
  <2> TAKE c \in Nat
  <2>1. CASE c < Word
    BY <2>1, NoWrap, SMT
  <2>2. CASE c >= Word
    BY <2>2, TimesAssumption, SMT
  <2> QED
    BY <2>1, <2>2, TimesAssumption, SMT
<1> QED
  BY <1>1, <1>2 DEF Times

\* What an ACK stores is of the right type, and so is the period of T1.
LEMMA AckTimes ==
  ASSUME NEW o \in ServerTimes
  PROVE  /\ o.lease \in 0 .. Word - 1
         /\ T1Of(o) \in 0 .. Word - 1
         /\ T2Of(o) \in 0 .. Word - 1
         /\ PeriodT1(T1Of(o)) \in 0 .. Word - 1
<1>1. /\ o.lease \in 0 .. Word - 1
      /\ o.t1 # NoTime => o.t1 \in 0 .. Word - 1
      /\ o.t2 # NoTime => o.t2 \in 0 .. Word - 1
  BY TimesAssumption DEF LeaseOptions
<1>2. T1Of(o) \in 0 .. Word - 1
  BY <1>1, TimesAssumption, SMT DEF T1Of, DefaultT1
<1>3. T2Of(o) \in 0 .. Word - 1
  <2>1. o.lease \in Nat
    BY <1>1, TimesAssumption, SMT
  <2>2. Times(o.lease, 7) \in 0 .. Word - 1
    BY <2>1, TimesInWord, 7 \in Nat
  <2> QED
    BY <1>1, <2>2, TimesAssumption, SMT DEF T2Of, DefaultT2
<1>4. PeriodT1(T1Of(o)) \in 0 .. Word - 1
  <2>1. T1Of(o) \in Nat /\ MsPerSec \in Nat
    BY <1>2, TimesAssumption, SMT
  <2>2. Times(T1Of(o), MsPerSec) \in 0 .. Word - 1
    BY <2>1, TimesInWord
  <2> QED
    BY <2>2, TimesAssumption, SMT DEF PeriodT1
<1> QED
  BY <1>1, <1>2, <1>3, <1>4

\* Every stored time is a uint32_t and every period fits the timer
\* (populate_lease_from_options() and the three arm functions).
THEOREM TimesTypeCorrect == Spec => []TypeOK
<1>1. Init => TypeOK
  BY AckTimes, SMT DEF Init, TypeOK
<1>2. TypeOK /\ [Next]_vars => TypeOK'
  <2> SUFFICES ASSUME TypeOK, [Next]_vars
               PROVE  TypeOK'
    OBVIOUS
  <2>1. CASE lease_timer_t1
    <3>1. PeriodT2(t1, t2) \in 0 .. Word - 1
      <4> DEFINE d == IF t2 > t1 THEN t2 - t1 ELSE 1
      <4>1. d \in Nat /\ MsPerSec \in Nat
        BY TimesAssumption, SMT DEF TypeOK
      <4> QED
        BY <4>1, TimesInWord DEF PeriodT2
    <3> QED
      BY <2>1, <3>1, SMT DEF lease_timer_t1, TypeOK
  <2>2. CASE lease_timer_t2
    <3>1. PeriodExpiry(t2, lease_time) \in 0 .. Word - 1
      <4> DEFINE d == IF lease_time > t2 THEN lease_time - t2 ELSE 1
      <4>1. d \in Nat /\ MsPerSec \in Nat
        BY TimesAssumption, SMT DEF TypeOK
      <4> QED
        BY <4>1, TimesInWord DEF PeriodExpiry
    <3> QED
      BY <2>2, <3>1, SMT DEF lease_timer_t2, TypeOK
  <2>3. CASE lease_timer_expiry
    BY <2>3, SMT DEF lease_timer_expiry, TypeOK
  <2>4. CASE dmdhcp_renew
    BY <2>4, TimesAssumption, SMT DEF dmdhcp_renew, TypeOK
  <2>5. CASE acked
    BY <2>5, AckTimes, SMT DEF acked, ack, TypeOK
  <2>6. CASE UNCHANGED vars
    BY <2>6 DEF vars, TypeOK
  <2> QED
    BY <2>1, <2>2, <2>3, <2>4, <2>5, <2>6 DEF Next
<1> QED
  BY <1>1, <1>2, PTL DEF Spec

\* With times in order, no arm function waits for longer than it is meant to.
LEMMA PeriodsBounded ==
  ASSUME TypeOK, InOrder
  PROVE  /\ PeriodT1(t1) <= t1 * MsPerSec
         /\ PeriodT2(t1, t2) <= t2 * MsPerSec - t1 * MsPerSec
         /\ PeriodExpiry(t2, lease_time) <= lease_time * MsPerSec - t2 * MsPerSec
<1>1. /\ t1 \in Nat /\ t2 \in Nat /\ lease_time \in Nat /\ MsPerSec \in Nat
      /\ 0 < t1 /\ t1 < t2 /\ t2 < lease_time /\ MsPerSec > 0
  BY TimesAssumption, SMT DEF TypeOK, InOrder
<1>2. (t2 - t1) * MsPerSec = t2 * MsPerSec - t1 * MsPerSec
  BY <1>1, Scale, SMT
<1>3. (lease_time - t2) * MsPerSec = lease_time * MsPerSec - t2 * MsPerSec
  BY <1>1, Scale, SMT
<1>4. t1 * MsPerSec >= 1
  <2>1. 1 * MsPerSec <= t1 * MsPerSec
    BY <1>1, Scale, SMT
  <2>2. t1 * MsPerSec \in Nat
    BY <1>1, SMT
  <2> QED
    BY <1>1, <2>1, <2>2, SMT
<1>5. Times(t1, MsPerSec) <= t1 * MsPerSec
  BY <1>1, TimesBelow
<1>6. Times(t2 - t1, MsPerSec) <= (t2 - t1) * MsPerSec
  <2>1. t2 - t1 \in Nat
    BY <1>1, SMT
  <2> QED
    BY <1>1, <2>1, TimesBelow
<1>7. Times(lease_time - t2, MsPerSec) <= (lease_time - t2) * MsPerSec
  <2>1. lease_time - t2 \in Nat
    BY <1>1, SMT
  <2> QED
    BY <1>1, <2>1, TimesBelow
<1> QED
  BY <1>1, <1>2, <1>3, <1>4, <1>5, <1>6, <1>7 DEF PeriodT1, PeriodT2, PeriodExpiry

\* A lease whose default T2 is not after T1 lasts longer than three words.
LEMMA LongOrInOrder ==
  ASSUME TypeOK, Defaulted
  PROVE  InOrder \/ 3 * Word <= lease_time * MsPerSec
<1>1. lease_time \in Nat /\ lease_time >= 3 /\ MsPerSec \in Nat /\ MsPerSec >= 21 /\ Word \in Nat
  BY TimesAssumption, SMT DEF TypeOK, Defaulted
<1>2. CASE lease_time * 7 < Word
  BY <1>1, <1>2, DefaultsInOrder DEF Defaulted, InOrder
<1>3. CASE ~(lease_time * 7 < Word)
  <2>1. lease_time * 21 <= lease_time * MsPerSec
    BY <1>1, SMT
  <2>2. lease_time * MsPerSec \in Nat
    BY <1>1, SMT
  <2> QED
    BY <1>1, <1>3, <2>1, <2>2, SMT
<1> QED
  BY <1>2, <1>3

\* dmdhcp never holds an address beyond the lease the server granted, for every
\* lease whose times are in order or left to the client, whichever products wrap
\* and whatever the application renews.
THEOREM LeaseExpiresInTime == Spec => []ExpiresInTime
<1>1. Init => DeadlineInv
  <2> SUFFICES ASSUME Init, InOrder
               PROVE  state = "bound" /\ elapsed + period <= t1 * MsPerSec
    BY DEF DeadlineInv, Init
  <2>1. TypeOK
    BY AckTimes, SMT DEF Init, TypeOK
  <2>2. period <= t1 * MsPerSec /\ period \in Nat
    BY <2>1, PeriodsBounded, TimesAssumption, SMT DEF Init, TypeOK
  <2>3. t1 * MsPerSec \in Nat
    BY <2>1, TimesAssumption, SMT DEF TypeOK
  <2> QED
    BY <2>2, <2>3, SMT DEF Init
<1>2. TypeOK /\ TypeOK' /\ DeadlineInv /\ [Next]_vars => DeadlineInv'
  <2> SUFFICES ASSUME TypeOK, TypeOK', DeadlineInv, [Next]_vars, InOrder'
               PROVE  DeadlineInv'
    BY DEF DeadlineInv
  <2>0. /\ t1 * MsPerSec \in Nat /\ t2 * MsPerSec \in Nat /\ lease_time * MsPerSec \in Nat
        /\ elapsed \in Nat /\ period \in Nat
    BY TimesAssumption, SMT DEF TypeOK
  <2>1. CASE lease_timer_t1
    <3>1. InOrder
      BY <2>1 DEF lease_timer_t1, InOrder
    <3>2. period' <= t2 * MsPerSec - t1 * MsPerSec /\ period' \in Nat
      BY <2>1, <3>1, PeriodsBounded, TimesAssumption, SMT DEF lease_timer_t1, TypeOK
    <3>3. elapsed' + period' <= t2 * MsPerSec
      BY <2>0, <2>1, <3>1, <3>2, SMT DEF lease_timer_t1, DeadlineInv
    <3> QED
      BY <2>1, <3>3 DEF lease_timer_t1, DeadlineInv
  <2>2. CASE lease_timer_t2
    <3>1. InOrder
      BY <2>2 DEF lease_timer_t2, InOrder
    <3>2. period' <= lease_time * MsPerSec - t2 * MsPerSec /\ period' \in Nat
      BY <2>2, <3>1, PeriodsBounded, TimesAssumption, SMT DEF lease_timer_t2, TypeOK
    <3>3. elapsed' + period' <= lease_time * MsPerSec
      BY <2>0, <2>2, <3>1, <3>2, SMT DEF lease_timer_t2, DeadlineInv
    <3> QED
      BY <2>2, <3>3 DEF lease_timer_t2, DeadlineInv
  <2>3. CASE lease_timer_expiry
    BY <2>3 DEF lease_timer_expiry, DeadlineInv, InOrder
  <2>4. CASE dmdhcp_renew
    <3>1. InOrder /\ t1 * MsPerSec <= t2 * MsPerSec
      BY <2>4, Scale, TimesAssumption, SMT DEF dmdhcp_renew, InOrder, TypeOK
    <3>2. elapsed' + period' = elapsed + period
      BY <2>0, <2>4, TimesAssumption, SMT DEF dmdhcp_renew
    <3>3. elapsed' + period' <= t2 * MsPerSec
      BY <2>0, <2>4, <3>1, <3>2, SMT DEF dmdhcp_renew, DeadlineInv
    <3> QED
      BY <2>4, <3>3 DEF dmdhcp_renew, DeadlineInv
  <2>5. CASE acked
    <3>1. /\ state' = "bound" /\ elapsed' = 0
          /\ period' = PeriodT1(t1')
      BY <2>5 DEF acked, ack
    <3>2. (PeriodT1(t1) <= t1 * MsPerSec)'
      BY PeriodsBounded, PTL
    <3>3. t1' * MsPerSec \in Nat
      <4>1. t1' \in Nat /\ MsPerSec \in Nat
        BY TimesAssumption, SMT DEF TypeOK
      <4> QED
        BY <4>1, Product
    <3>4. period' \in Nat /\ period' <= t1' * MsPerSec
      BY <3>1, <3>2, TimesAssumption, SMT DEF TypeOK
    <3> QED
      BY <3>1, <3>3, <3>4, SMT DEF DeadlineInv
  <2>6. CASE UNCHANGED vars
    BY <2>6 DEF vars, DeadlineInv, InOrder
  <2> QED
    BY <2>1, <2>2, <2>3, <2>4, <2>5, <2>6 DEF Next
<1>3. Init => WordsInv
  <2> SUFFICES ASSUME Init
               PROVE  WordsInv
    OBVIOUS
  <2>1. state = "bound" /\ elapsed = 0 /\ period \in 0 .. Word - 1
    BY AckTimes DEF Init
  <2> QED
    BY <2>1, TimesAssumption, SMT DEF WordsInv
<1>4. TypeOK /\ TypeOK' /\ WordsInv /\ [Next]_vars => WordsInv'
  <2> SUFFICES ASSUME TypeOK, TypeOK', WordsInv, [Next]_vars
               PROVE  WordsInv'
    OBVIOUS
  <2>1. /\ elapsed \in Nat /\ period \in Nat /\ Word \in Nat
        /\ period' \in Nat /\ period' <= Word /\ elapsed' \in Nat
    BY TimesAssumption, SMT DEF TypeOK
  <2>2. CASE lease_timer_t1 \/ lease_timer_t2 \/ lease_timer_expiry
    <3>1. CASE lease_timer_t1
      BY <2>1, <3>1, SMT DEF lease_timer_t1, WordsInv
    <3>2. CASE lease_timer_t2
      BY <2>1, <3>2, SMT DEF lease_timer_t2, WordsInv
    <3>3. CASE lease_timer_expiry
      BY <2>1, <3>3 DEF lease_timer_expiry, WordsInv
    <3> QED
      BY <2>2, <3>1, <3>2, <3>3
  <2>3. CASE dmdhcp_renew
    <3>1. elapsed' + period' = elapsed + period
      BY <2>1, <2>3, TimesAssumption, SMT DEF dmdhcp_renew
    <3> QED
      BY <2>1, <2>3, <3>1, SMT DEF dmdhcp_renew, WordsInv
  <2>4. CASE acked
    BY <2>1, <2>4, SMT DEF acked, ack, WordsInv
  <2>5. CASE UNCHANGED vars
    BY <2>5 DEF vars, WordsInv
  <2> QED
    BY <2>2, <2>3, <2>4, <2>5 DEF Next
<1>5. TypeOK /\ DeadlineInv /\ WordsInv => ExpiresInTime
  <2> SUFFICES ASSUME TypeOK, DeadlineInv, WordsInv, InOrder \/ Defaulted
               PROVE  ExpiresInTime
    BY DEF ExpiresInTime
  <2>1. /\ t1 * MsPerSec \in Nat /\ t2 * MsPerSec \in Nat /\ lease_time * MsPerSec \in Nat
        /\ elapsed \in Nat /\ period \in Nat /\ Word \in Nat
    BY TimesAssumption, SMT DEF TypeOK
  <2>2. CASE InOrder
    <3>1. /\ t1 * MsPerSec <= t2 * MsPerSec
          /\ t2 * MsPerSec <= lease_time * MsPerSec
      BY <2>2, Scale, TimesAssumption, SMT DEF InOrder, TypeOK
    <3> QED
      BY <2>1, <2>2, <3>1, SMT DEF DeadlineInv, ExpiresInTime, TypeOK
  <2>3. CASE 3 * Word <= lease_time * MsPerSec
    BY <2>1, <2>3, SMT DEF WordsInv, ExpiresInTime, TypeOK
  <2> QED
    BY <2>2, <2>3, LongOrInOrder
<1> QED
  BY <1>1, <1>2, <1>3, <1>4, <1>5, TimesTypeCorrect, PTL DEF Spec
=============================================================================
