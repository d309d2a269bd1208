---------------------------- MODULE TunnelNetwork ----------------------------
(***************************************************************************)
(* The host's network as the daemon changes it: TUN interface, routes, DNS *)
(* and IPv6 (fortivpn: lib.rs, routing.rs; the privileged helper).         *)
(*                                                                         *)
(* The daemon works on it in one task at a time, under the manager's       *)
(* mutex.  Beside it the helper process may crash, and the kernel removes  *)
(* an interface, with every route bound to it, when the last descriptor of *)
(* it is closed.  Descriptors are held by the helper, by the bridge and by *)
(* the TunKeeper of the session or of the PreservedNetwork.                *)
(*                                                                         *)
(* A run of helper commands is one action; it breaks off where the helper  *)
(* crashes.  The networks a gateway pushes are all of Nets: the two halves *)
(* of a full tunnel, or the list of a split one.  Unprivileged route and   *)
(* DNS commands of the daemon have no effect.                              *)
(***************************************************************************)
EXTENDS Naturals, FiniteSets

CONSTANTS
  Gateways,  \* host:port of the profiles
  Addrs,     \* local addresses a gateway assigns
  Ifaces,    \* TUN interface names
  Nets,      \* destinations routed into the tunnel
  Faults,    \* what may go wrong, a subset of FaultKinds
  None

FaultKinds == {"helper_crash", "helper_down", "create_tun", "add_route",
               "dup", "reopen", "ppp_ip"}

ASSUME NetworkConstants ==
  /\ None \notin Gateways \cup Addrs \cup Ifaces
  /\ Faults \subseteq FaultKinds

VARIABLES
  pc,         \* where the daemon is
  client,     \* VpnManager.helper: none, live, or stale after a crash
  fd,         \* which interface each holder has open
  leaked,     \* interfaces the daemon has open and knows nothing of
  addr,       \* local address of each interface
  routes,     \* routes into the tunnel: destination, interface or None
  hostRoutes, \* gateways with a host route past the tunnel
  dns,        \* the VPN's DNS servers are configured
  ipv6off,    \* IPv6 is switched off
  rm,         \* the RouteManager of the session or of the preserved network
  cur,        \* what the last handshake negotiated
  spoilt      \* history: something broke off on the way up or down

settings == <<hostRoutes, dns, ipv6off>>
vars == <<pc, client, fd, leaked, addr, routes, settings, rm, cur, spoilt>>

Holders == {"helper", "bridge", "keeper"}

PC == {"down", "decide", "create", "routes", "up", "held"}

\* RouteManager with the addressing a PreservedNetwork remembers.
RouteManager ==
  [gw : Gateways, ip : Addrs, host : BOOLEAN, nets : SUBSET Nets, ipv6 : BOOLEAN]

NoRM == [gw |-> None, ip |-> None, host |-> FALSE, nets |-> {}, ipv6 |-> FALSE]

Negotiated == [gw : Gateways, ip : Addrs, via : Addrs]

TypeOK ==
  /\ pc \in PC
  /\ client \in {"none", "live", "stale"}
  /\ fd \in [Holders -> Ifaces \cup {None}]
  /\ leaked \subseteq Ifaces
  /\ addr \in [Ifaces -> Addrs]
  /\ routes \subseteq Nets \X (Ifaces \cup {None})
  /\ hostRoutes \subseteq Gateways
  /\ dns \in BOOLEAN
  /\ ipv6off \in BOOLEAN
  /\ rm \in IF pc \in {"up", "held", "decide"} THEN RouteManager ELSE {NoRM}
  /\ cur \in Negotiated \cup {None}
  /\ spoilt \in BOOLEAN

Init ==
  /\ pc = "down"
  /\ client = "none"
  /\ fd = [h \in Holders |-> None]
  /\ leaked = {}
  /\ addr \in [Ifaces -> Addrs]
  /\ routes = {}
  /\ hostRoutes = {}
  /\ dns = FALSE
  /\ ipv6off = FALSE
  /\ rm = NoRM
  /\ cur = None
  /\ spoilt = FALSE

-----------------------------------------------------------------------------
(* The kernel *)

\* The interfaces somebody works with, for descriptors f.
Open(f) == {f[h] : h \in Holders} \ {None}

\* All that exist.
Existing(f) == Open(f) \cup leaked

\* The routes of rs that survive when descriptors f are the open ones.
Surviving(rs, f) == {r \in rs : r[2] \in Existing(f) \cup {None}}

-----------------------------------------------------------------------------
(* The helper and the daemon's connection to it *)

\* Its descriptors close with it; the connection stays, and is stale.
HelperCrash ==
  /\ "helper_crash" \in Faults
  /\ client = "live"
  /\ client' = "stale"
  /\ fd' = [fd EXCEPT !["helper"] = None]
  /\ routes' = Surviving(routes, fd')
  /\ UNCHANGED <<pc, leaked, addr, settings, rm, cur, spoilt>>

\* ensure_helper: a failed ping drops the connection and opens a new one.
EnsureHelper ==
  /\ pc \in {"down", "held"}
  /\ client # "live"
  /\ \/ client' = "live"
     \/ "helper_down" \in Faults /\ client' = "none"
  /\ UNCHANGED <<pc, fd, leaked, addr, routes, settings, rm, cur, spoilt>>

(* How far a run of n commands gets: all of it on a live connection unless *)
(* the helper crashes during one, nothing on a stale or missing one.       *)
Progress(n) ==
  IF client # "live" THEN {0}
  ELSE IF "helper_crash" \in Faults THEN 0 .. n
  ELSE {n}

\* The connection after a run of n commands got as far as k.
ClientAfter(k, n) == IF client = "live" /\ k < n THEN "stale" ELSE client

-----------------------------------------------------------------------------
(* Taking the network down *)

\* Mutant: the host route to the gateway is not deleted.
TeardownKeepsHostRoute(k) ==
  /\ k \in Progress(4)
  /\ client' = ClientAfter(k, 4)
  /\ fd' = [h \in Holders |-> None]
  /\ routes' = Surviving({r \in routes : k >= 1 => r[1] \notin rm.nets}, fd')
  /\ hostRoutes' = hostRoutes
  /\ dns' = IF k >= 3 THEN FALSE ELSE dns
  /\ ipv6off' = IF rm.ipv6 THEN FALSE ELSE ipv6off
  /\ spoilt' = IF k < 4 THEN TRUE ELSE spoilt

(* restore_via_helper, then the descriptors: IPv6 needs no helper; routes, *)
(* host route, DNS and the helper's descriptor go in this order with the   *)
(* k commands that reach it.                                               *)
Teardown(k) ==
  /\ k \in Progress(4)
  /\ client' = ClientAfter(k, 4)
  /\ fd' = [h \in Holders |-> None]
  /\ routes' = Surviving({r \in routes : k >= 1 => r[1] \notin rm.nets}, fd')
  /\ hostRoutes' = IF k >= 2 /\ rm.host THEN hostRoutes \ {rm.gw} ELSE hostRoutes
  /\ dns' = IF k >= 3 THEN FALSE ELSE dns
  /\ ipv6off' = IF rm.ipv6 THEN FALSE ELSE ipv6off
  /\ spoilt' = IF k < 4 THEN TRUE ELSE spoilt

\* VpnSession::disconnect, or the release of a preserved network.
Disconnect ==
  /\ pc \in {"up", "held"}
  /\ \E k \in 0 .. 4 : Teardown(k)
  /\ pc' = "down"
  /\ rm' = NoRM
  /\ UNCHANGED <<leaked, addr, cur>>

\* Mutant: the keeper's descriptor is not carried over.
SessionDiesWithoutKeeper ==
  /\ pc = "up"
  /\ \/ /\ fd["keeper"] # None
        /\ fd' = [fd EXCEPT !["bridge"] = None, !["keeper"] = None]
        /\ routes' = Surviving(routes, fd')
        /\ pc' = "held"
        /\ UNCHANGED <<client, settings, rm, spoilt>>
     \/ /\ fd["keeper"] = None
        /\ \E k \in 0 .. 4 : Teardown(k)
        /\ pc' = "down"
        /\ rm' = NoRM
  /\ UNCHANGED <<leaked, addr, cur>>

(* The bridge died.  disconnect_preserving_network closes the bridge's     *)
(* descriptor and keeps the rest; without a keeper it is a disconnect.     *)
SessionDies ==
  /\ pc = "up"
  /\ \/ /\ fd["keeper"] # None
        /\ fd' = [fd EXCEPT !["bridge"] = None]
        /\ pc' = "held"
        /\ UNCHANGED <<client, routes, settings, rm, spoilt>>
     \/ /\ fd["keeper"] = None
        /\ \E k \in 0 .. 4 : Teardown(k)
        /\ pc' = "down"
        /\ rm' = NoRM
  /\ UNCHANGED <<leaked, addr, cur>>

-----------------------------------------------------------------------------
(* connect_reusing, from the end of the handshake on *)

(* Authentication, TLS and PPP changed nothing here.  The address is the   *)
(* one PPP negotiated; via is the one of the gateway's configuration.      *)
Handshake(g, ip, via) ==
  /\ pc \in {"down", "held"}
  /\ client = "live"
  /\ via = ip \/ "ppp_ip" \in Faults
  /\ cur' = [gw |-> g, ip |-> ip, via |-> via]
  /\ pc' = IF pc = "held" THEN "decide" ELSE "create"
  /\ UNCHANGED <<client, fd, leaked, addr, routes, settings, rm, spoilt>>

\* Mutant: only the gateway is compared, not the addresses.
MatchesGateway == rm.gw = cur.gw

\* PreservedNetwork::matches.
Matches == rm.gw = cur.gw /\ rm.ip = cur.ip

\* The preserved interface is opened again and its routes stay.
Adopt ==
  /\ pc = "decide"
  /\ Matches
  /\ fd' = [fd EXCEPT !["bridge"] = fd["keeper"]]
  /\ pc' = "up"
  /\ UNCHANGED <<client, leaked, addr, routes, settings, rm, cur, spoilt>>

(* Opening it fails after take(): the preserved network is dropped, and    *)
(* its RouteManager skips the restore.                                     *)
AdoptFails ==
  /\ pc = "decide"
  /\ Matches
  /\ "reopen" \in Faults
  /\ fd' = [fd EXCEPT !["keeper"] = None]
  /\ routes' = Surviving(routes, fd')
  /\ pc' = "down"
  /\ rm' = NoRM
  /\ spoilt' = TRUE
  /\ UNCHANGED <<client, leaked, addr, settings, cur>>

\* Addressing changed: release before anything new is installed.
ReleaseOld ==
  /\ pc = "decide"
  /\ ~Matches
  /\ \E k \in 0 .. 4 : Teardown(k)
  /\ pc' = "create"
  /\ rm' = NoRM
  /\ UNCHANGED <<leaked, addr, cur>>

\* Mutant: the helper does not close the device it still holds.
CreateTunOverOld ==
  /\ pc = "create"
  /\ client = "live"
  /\ \E i \in Ifaces \ Existing(fd) :
       /\ \E keeper \in {i} \cup (IF "dup" \in Faults THEN {None} ELSE {}) :
            fd' = [fd EXCEPT !["bridge"] = i, !["keeper"] = keeper,
                             !["helper"] = IF @ = None THEN i ELSE @]
       /\ addr' = [addr EXCEPT ![i] = cur.ip]
  /\ routes' = Surviving(routes, fd')
  /\ pc' = "routes"
  /\ UNCHANGED <<client, leaked, settings, rm, cur, spoilt>>

(* The helper closes what it had, creates the device and sends its         *)
(* descriptor; the daemon duplicates it for the keeper, if it can, and     *)
(* registers it with the runtime, or else drops both of its descriptors.   *)
CreateTun ==
  /\ pc = "create"
  /\ client = "live"
  /\ \E i \in Ifaces \ leaked :
       /\ \/ /\ \E keeper \in {i} \cup (IF "dup" \in Faults THEN {None} ELSE {}) :
                  fd' = [helper |-> i, bridge |-> i, keeper |-> keeper]
             /\ pc' = "routes"
             /\ UNCHANGED spoilt
          \/ /\ "reopen" \in Faults
             /\ fd' = [helper |-> i, bridge |-> None, keeper |-> None]
             /\ pc' = "down"
             /\ spoilt' = TRUE
       /\ addr' = [addr EXCEPT ![i] = cur.ip]
       /\ routes' = Surviving(routes, [fd EXCEPT !["helper"] = None])
  /\ UNCHANGED <<client, leaked, settings, rm, cur>>

\* No device: the helper is gone, or closed the old one and then failed.
CreateTunFails ==
  /\ pc = "create"
  /\ \/ client # "live"
     \/ "create_tun" \in Faults
  /\ fd' = [fd EXCEPT !["helper"] = None]
  /\ routes' = Surviving(routes, fd')
  /\ pc' = "down"
  /\ UNCHANGED <<client, leaked, addr, settings, rm, cur, spoilt>>

(* The helper crashes between the descriptor and the line that follows it: *)
(* create_tun returns an error and drops a bare number, so nobody closes   *)
(* the daemon's descriptor, and the interface stays with its address.      *)
CreateTunLosesLine ==
  /\ pc = "create"
  /\ client = "live"
  /\ "helper_crash" \in Faults
  /\ \E i \in Ifaces \ leaked :
       /\ leaked' = leaked \cup {i}
       /\ addr' = [addr EXCEPT ![i] = cur.ip]
  /\ client' = "stale"
  /\ fd' = [fd EXCEPT !["helper"] = None]
  /\ routes' = Surviving(routes, fd')
  /\ pc' = "down"
  /\ spoilt' = TRUE
  /\ UNCHANGED <<settings, rm, cur>>

(* Where the kernel may bind a route to local address via: to an interface *)
(* that has it, to any of them if a leaked one has it too.                 *)
BoundTo(via) ==
  LET owners == {i \in Existing(fd) : addr[i] = via}
  IN  IF owners = {} THEN {None} ELSE owners

(* configure_via_helper: host route, when there is a default gateway to    *)
(* route it to, networks, DNS, then IPv6 on the interfaces that have it.   *)
(* The helper refuses to add a route that is there.                        *)
Configure(host) ==
  /\ pc = "routes"
  /\ client = "live"
  /\ host => cur.gw \notin hostRoutes
  /\ routes = {}
  /\ hostRoutes' = IF host THEN hostRoutes \cup {cur.gw} ELSE hostRoutes
  /\ \E i \in BoundTo(cur.via) : routes' = Nets \X {i}
  /\ dns' = TRUE
  /\ ipv6off' = TRUE
  /\ rm' = [gw |-> cur.gw, ip |-> cur.ip, host |-> host, nets |-> Nets,
            ipv6 |-> ~ipv6off]
  /\ pc' = "up"
  /\ UNCHANGED <<client, fd, leaked, addr, cur, spoilt>>

(* One of its commands fails: the route is there already, the helper       *)
(* answers with an error, or it crashes; host and added tell what had been *)
(* carried out.  The RouteManager restores without privileges and the      *)
(* daemon's descriptors close; the helper's stays open if the helper does. *)
(* A command whose answer is lost may have been carried out.               *)
ConfigureFails(host, added) ==
  /\ pc = "routes"
  /\ client # "live" => added = {} /\ ~host
  /\ host => cur.gw \notin hostRoutes
  /\ \A r \in routes : r[1] \notin added
  /\ \/ cur.gw \in hostRoutes /\ added = {} /\ UNCHANGED client
     \/ routes # {} /\ UNCHANGED client
     \/ "add_route" \in Faults /\ UNCHANGED client
     \/ "helper_crash" \in Faults /\ client' = "stale"
  /\ fd' = [helper |-> IF client' = "live" THEN fd["helper"] ELSE None,
            bridge |-> None, keeper |-> None]
  /\ hostRoutes' = IF host THEN hostRoutes \cup {cur.gw} ELSE hostRoutes
  /\ \E i \in BoundTo(cur.via) : routes' = Surviving(routes \cup (added \X {i}), fd')
  /\ dns' \in IF client = "live" /\ added = Nets THEN {dns, TRUE} ELSE {dns}
  /\ pc' = "down"
  /\ spoilt' = TRUE
  /\ UNCHANGED <<leaked, addr, ipv6off, rm, cur>>

-----------------------------------------------------------------------------
Next ==
  \/ HelperCrash \/ EnsureHelper
  \/ Disconnect \/ SessionDies
  \/ \E g \in Gateways, ip, via \in Addrs : Handshake(g, ip, via)
  \/ Adopt \/ AdoptFails \/ ReleaseOld
  \/ CreateTun \/ CreateTunFails \/ CreateTunLosesLine
  \/ \E host \in BOOLEAN :
       Configure(host) \/ \E added \in SUBSET Nets : ConfigureFails(host, added)

Spec == Init /\ [][Next]_vars
=============================================================================
