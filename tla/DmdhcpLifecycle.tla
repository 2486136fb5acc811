--------------------------- MODULE DmdhcpLifecycle ---------------------------
(***************************************************************************)
(* What a lease does to the interface and to the routing table:            *)
(* dmdhcp_lifecycle_apply() and dmdhcp_lifecycle_unapply().  The two       *)
(* operators are fragments of the handlers of DmdhcpLease, which run them  *)
(* under lease->lock.  dmnetif and dmroute are external: dmnetif is a      *)
(* record of settings that a failing call leaves alone, dmroute is the set *)
(* of gateways with a default route through this interface.  Adding a      *)
(* route that is already there adds nothing, which is the most favourable  *)
(* reading of dmroute_add() for a caller that adds it again.               *)
(***************************************************************************)
EXTENDS Naturals

CONSTANTS
  Addrs,          \* addresses a server may hand out
  Masks,          \* subnet masks
  Gateways,       \* default gateways
  NoAddr,         \* dmroute_family_none, and a NULL dmroute_t
  ApplyOutcomes   \* how the calls apply() makes may end, a subset of Outcomes

Outcomes == {"ok", "netmask_fails", "address_fails", "route_fails"}

ASSUME LifecycleAssumption ==
  /\ NoAddr \notin Addrs \cup Masks \cup Gateways
  /\ ApplyOutcomes \subseteq Outcomes

VARIABLES
  ifcfg,             \* dmnetif: address, netmask and broadcast of the interface
  routes,            \* dmroute: gateways of the default routes on the interface
  default_route,     \* lease->default_route, named by its gateway
  iface_configured   \* lease->iface_configured

ifaceVars == <<ifcfg, routes, default_route, iface_configured>>

\* dmnetif with nothing configured.
Unconfigured == [ip |-> NoAddr, netmask |-> NoAddr, broadcast |-> NoAddr]

\* ip | ~mask, octet by octet: the pair stands for the directed broadcast.
BroadcastOf(ip, mask) == <<ip, mask>>

IfaceConfigs ==
  [ip        : Addrs \cup {NoAddr},
   netmask   : Masks \cup {NoAddr},
   broadcast : (Addrs \X Masks) \cup {NoAddr}]

LifecycleTypeOK ==
  /\ ifcfg \in IfaceConfigs
  /\ routes \subseteq Gateways
  /\ default_route \in Gateways \cup {NoAddr}
  /\ iface_configured \in BOOLEAN

\* dmnetif after both settings went through: a broadcast address is only
\* written when the lease has a netmask.
Applied(ip, mask) ==
  [ip        |-> ip,
   netmask   |-> mask,
   broadcast |-> IF mask # NoAddr THEN BroadcastOf(ip, mask) ELSE ifcfg.broadcast]

\* The default route the lease remembers after apply().
NewRoute(gw, outcome) == IF outcome = "route_fails" THEN NoAddr ELSE gw

\* Mutant: the address is set before the netmask.
address_before_netmask(ip, mask, gw) ==
  \E outcome \in ApplyOutcomes :
    \/ /\ outcome = "address_fails"
       /\ UNCHANGED ifaceVars
    \/ /\ outcome = "netmask_fails"
       /\ ifcfg' = [ifcfg EXCEPT !.ip = ip]
       /\ UNCHANGED <<routes, default_route, iface_configured>>
    \/ /\ outcome \in {"ok", "route_fails"}
       /\ ifcfg' = Applied(ip, mask)
       /\ default_route' = NewRoute(gw, outcome)
       /\ routes' = routes \cup ({default_route'} \ {NoAddr})
       /\ iface_configured' = TRUE

(***************************************************************************)
(* dmdhcp_lifecycle_apply(): netmask, address, broadcast, default route.   *)
(* An early return leaves the steps before it done and iface_configured as *)
(* it was.  A route remembered from an earlier apply() is overwritten.     *)
(***************************************************************************)
dmdhcp_lifecycle_apply(ip, mask, gw) ==
  \E outcome \in ApplyOutcomes :
    \/ /\ outcome = "netmask_fails"
       /\ UNCHANGED ifaceVars
    \/ /\ outcome = "address_fails"
       /\ ifcfg' = [ifcfg EXCEPT !.netmask = mask]
       /\ UNCHANGED <<routes, default_route, iface_configured>>
    \/ /\ outcome \in {"ok", "route_fails"}
       /\ ifcfg' = Applied(ip, mask)
       /\ default_route' = NewRoute(gw, outcome)
       /\ routes' = routes \cup ({default_route'} \ {NoAddr})
       /\ iface_configured' = TRUE

\* dmdhcp_lifecycle_unapply(): nothing unless apply() went through.
dmdhcp_lifecycle_unapply ==
  IF iface_configured
  THEN /\ routes' = routes \ {default_route}
       /\ default_route' = NoAddr
       /\ ifcfg' = Unconfigured
       /\ iface_configured' = FALSE
  ELSE UNCHANGED ifaceVars
-----------------------------------------------------------------------------
(***************************************************************************)
(* Whatever dmdhcp_lifecycle_apply() could not do, dmdhcp_lifecycle_       *)
(* unapply() can undo what it did: an address is on the interface only     *)
(* while iface_configured says so, and the route the lease remembers is    *)
(* one that exists.  (The netmask is set first, so a failure to set the    *)
(* address leaves a netmask behind and nothing else.)                      *)
(***************************************************************************)
AppliedCanBeUndone ==
  /\ ifcfg.ip # NoAddr => iface_configured
  /\ default_route # NoAddr => iface_configured /\ default_route \in routes
=============================================================================
