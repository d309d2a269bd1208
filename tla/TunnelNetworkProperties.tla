----------------------- MODULE TunnelNetworkProperties -----------------------
(* What the host's network must satisfy, and what the comments of the code  *)
(* claim of it.                                                             *)
EXTENDS TunnelNetwork

\* The interface of the session, or of the network held for its successor.
Device == IF pc = "up" THEN fd["bridge"] ELSE fd["keeper"]

(* No leaked interface has the address; one that has may take the routes.   *)
Unambiguous(ip) == \A i \in leaked : addr[i] # ip

(* As long as a session is up, or its network is held for a reconnect, the  *)
(* interface exists, every destination is routed to it and nowhere else,    *)
(* unless a leaked interface has its address too, and DNS and IPv6 are as   *)
(* the VPN wants them, whatever becomes of the helper (lib.rs:91-100,       *)
(* linux.rs:325-331).                                                       *)
TunnelRoutes ==
  pc \in {"up", "held", "decide"} =>
    /\ Device \in Ifaces
    /\ Unambiguous(rm.ip) => routes = Nets \X {Device}
    /\ rm.host => rm.gw \in hostRoutes
    /\ dns /\ ipv6off

(* The interface a session sends through has the address its gateway just   *)
(* assigned, and its routes spare that gateway: what connect_reusing adopts *)
(* is what it would have installed (lib.rs:113-126, 263-268).               *)
SessionFitsGateway ==
  pc = "up" => /\ addr[fd["bridge"]] = cur.ip
               /\ rm.gw = cur.gw

(* Of two interfaces at the same time one was leaked, by a helper that      *)
(* crashed between a descriptor and its line; nothing else, no change of    *)
(* address, failed connect, adoption or crash, leaves an interface beside   *)
(* the next one: "leaked TUN devices keep their IPs, causing routing        *)
(* conflicts on reconnect" (helper macos.rs:107-108).                       *)
OneDevice ==
  \A i, j \in Existing(fd) : i # j => i \in leaked \/ j \in leaked

(* When routes are about to be installed, none of an earlier session is in  *)
(* their way: route add would refuse it and the connect would fail.  No     *)
(* route into the tunnel is left whatever went wrong, unless a descriptor   *)
(* was lost; no host route is left unless an installation or a teardown     *)
(* broke off (lib.rs:280-287, routing.rs:85-115).                           *)
NoRouteInTheWay ==
  pc = "routes" => /\ leaked = {} => routes = {}
                   /\ ~spoilt => hostRoutes = {}

\* Nothing the VPN installed is there.
HostRestored ==
  Existing(fd) = {} /\ routes = {} /\ hostRoutes = {} /\ ~dns /\ ~ipv6off

(* Unless an installation or a teardown broke off, the host is as it was    *)
(* before once there is neither a session nor a network held for one, also  *)
(* after failed connects, and half way through a change of address          *)
(* (routing.rs:124-153, lib.rs:131-136, 279-287, 371-389).                  *)
CleanWhenDown == pc \in {"down", "create"} /\ ~spoilt => HostRestored

-----------------------------------------------------------------------------
(* Claims of the comments the code does not keep *)

(* "The installed routes point at that exact local IP", that of the session *)
(* (lib.rs:264-265).                                                        *)
RoutesPointAtLocalAddress ==
  pc = "up" => \A r \in routes : r[2] = fd["bridge"]
=============================================================================
