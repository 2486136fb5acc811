---------------------------- MODULE MCDmdhcpLease ----------------------------
(* Small instances of DmdhcpLease.                                         *)
EXTENDS DmdhcpLease, TLC

CONSTANTS a1, a2, m1, g1, s1, d1, x1, x2, x3, x4

\* A reply that carries every option, and one that carries none of them.
FullReply == [netmask |-> m1, router |-> g1, server_id |-> s1,
              dns |-> <<d1>>, ntp |-> <<d1>>]
BareReply == [netmask |-> NoAddr, router |-> NoAddr, server_id |-> NoAddr,
              dns |-> <<>>, ntp |-> <<>>]

\* One that carries no lists.
RouterReply == [FullReply EXCEPT !.dns = <<>>, !.ntp = <<>>]

MCOneAddr == {a1}
MCTwoAddrs == {a1, a2}
MCMasks == {m1}
MCGateways == {g1}
MCServers == {s1}
MCNameServers == {d1}
MCXids == {x1, x2, x3, x4}
MCFullReplies == {FullReply}
MCBareReplies == {BareReply}
MCBothReplies == {FullReply, BareReply}
MCRouterOrBare == {RouterReply, BareReply}
MCNewLease == {NoAddr}
MCNewOrReboot == {NoAddr, a1}

\* A fresh xid exists whatever the lease, the rx thread and the network hold.
ASSUME FreshXidExists == Cardinality(Xids) >= MaxNet + 3

\* Transaction identifiers are only ever compared.
XidSymmetry == Permutations(Xids)
=============================================================================
