---------------------------- MODULE MCDmdhcpTimes ----------------------------
(* Small instances of DmdhcpTimes: a word of 512 stands for 2^32 and 21 ms *)
(* for a second, so the products with 7 (from 74 seconds) and with the     *)
(* milliseconds (from 25 seconds) wrap within the values enumerated.       *)
EXTENDS DmdhcpTimes

\* In order, equal, reversed, zero, absent, and too large for the word.
MCServerTimes ==
  [lease : {0, 1, 2, 3, 4, 8, 12, 24, 25, 31, 50, 73, 74, 100, 147, 255, 400, 511},
   t1 : {NoTime, 0, 1, 4, 9, 33, 49, 300},
   t2 : {NoTime, 0, 2, 7, 9, 40, 98, 510}]

\* A server that leaves T1 and T2 to the client, for leases whose products fit.
MCShortLeases == [lease : 1 .. 24, t1 : {NoTime}, t2 : {NoTime}]
=============================================================================
