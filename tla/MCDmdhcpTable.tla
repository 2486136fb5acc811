---------------------------- MODULE MCDmdhcpTable ----------------------------
(***************************************************************************)
(* Leases are interchangeable, and so are the threads of the application.  *)
(***************************************************************************)
EXTENDS DmdhcpTable, TLC

Symmetry == Permutations(Leases) \cup Permutations(Apps)
=============================================================================
