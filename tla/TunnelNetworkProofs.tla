------------------------- MODULE TunnelNetworkProofs -------------------------
(***************************************************************************)
(* The host's network for any gateways, addresses, interfaces and          *)
(* destinations, and any faults.                                           *)
(***************************************************************************)
EXTENDS TunnelNetworkProperties, TLAPS

-----------------------------------------------------------------------------
(* The inductive invariant *)

\* Who has the interface open: only the helper once the daemon is down.
FdInv ==
  /\ pc \in {"down", "create"} => fd["bridge"] = None /\ fd["keeper"] = None
  /\ pc \in {"routes", "up"} =>
       /\ fd["bridge"] # None
       /\ fd["keeper"] \in {fd["bridge"], None}
       /\ fd["helper"] \in {fd["bridge"], None}
  /\ pc \in {"held", "decide"} =>
       /\ fd["bridge"] = None
       /\ fd["keeper"] # None
       /\ fd["helper"] \in {fd["keeper"], None}

\* Where the addresses of interface, RouteManager and handshake agree.
AddrInv ==
  /\ pc \in {"create", "decide", "routes", "up"} => cur \in Negotiated
  /\ pc = "routes" => addr[fd["bridge"]] = cur.ip
  /\ pc = "up" => addr[fd["bridge"]] = cur.ip /\ rm.ip = cur.ip /\ rm.gw = cur.gw
  /\ pc \in {"held", "decide"} => addr[fd["keeper"]] = rm.ip

\* What is installed while something holds the network.
HostInv ==
  pc \in {"up", "held", "decide"} =>
    /\ rm.host => rm.gw \in hostRoutes
    /\ rm.nets = Nets
    /\ dns = TRUE
    /\ ipv6off = TRUE

\* What RouteManager does not know of is not there, unless a step broke off.
CleanInv ==
  spoilt = FALSE =>
    /\ leaked = {}
    /\ pc \in {"down", "create"} => fd["helper"] = None
    /\ pc \in {"down", "create", "routes"} =>
         routes = {} /\ hostRoutes = {} /\ dns = FALSE /\ ipv6off = FALSE
    /\ pc \in {"up", "held", "decide"} =>
         /\ hostRoutes \subseteq (IF rm.host THEN {rm.gw} ELSE {})
         /\ rm.ipv6 = TRUE

IInv == TypeOK /\ FdInv /\ AddrInv /\ HostInv /\ CleanInv

\* PPP has assigned the address of the gateway's configuration.
ViaInv == pc \in {"create", "decide", "routes", "up"} => cur.via = cur.ip

\* Routes lead into the interface of the session unless a leaked one has its address.
DeviceInv ==
  Unambiguous(rm.ip) =>
    /\ pc = "up" => routes = Nets \X {fd["bridge"]}
    /\ pc \in {"held", "decide"} => routes = Nets \X {fd["keeper"]}

(* Without a leak, what is left of routes when there is no session leads   *)
(* into the interface the helper will close.                               *)
LeftInv ==
  leaked = {} =>
    /\ pc \in {"down", "create"} => routes \subseteq Nets \X ({fd["helper"]} \ {None})
    /\ pc = "routes" => routes = {}

-----------------------------------------------------------------------------
(* Lemmas about the operators *)

\* The interfaces that exist are those of the three holders.
LEMMA OpenHolders ==
  ASSUME NEW f \in [Holders -> Ifaces \cup {None}]
  PROVE  Open(f) = {f["helper"], f["bridge"], f["keeper"]} \ {None}
  BY DEF Open, Holders

\* Without a descriptor no route into an interface that was not leaked survives.
LEMMA NothingOpen ==
  ASSUME NEW rs
  PROVE  Surviving(rs, [h \in Holders |-> None]) = {r \in rs : r[2] \in leaked \cup {None}}
<1>1. Open([h \in Holders |-> None]) = {}
  BY DEF Open, Holders
<1> QED
  BY <1>1 DEF Surviving, Existing

\* A teardown leaves types, and closes whatever is open.
LEMMA TeardownStep ==
  ASSUME TypeOK, FdInv, HostInv, CleanInv, pc \in {"up", "held", "decide"},
         NEW k \in 0 .. 4, Teardown(k)
  PROVE  /\ client' \in {"none", "live", "stale"}
         /\ fd' = [h \in Holders |-> None]
         /\ routes' \subseteq {r \in routes : r[2] \in leaked \cup {None}}
         /\ hostRoutes' \subseteq hostRoutes
         /\ dns' \in BOOLEAN /\ ipv6off' \in BOOLEAN /\ spoilt' \in BOOLEAN
         /\ spoilt' = FALSE =>
              /\ spoilt = FALSE
              /\ routes' = {} /\ hostRoutes' = {} /\ dns' = FALSE /\ ipv6off' = FALSE
<1>1. fd' = [h \in Holders |-> None]
  BY DEF Teardown
<1>2. routes' = {r \in routes : (k >= 1 => r[1] \notin rm.nets) /\ r[2] \in leaked \cup {None}}
  BY <1>1, NothingOpen DEF Teardown
<1>3. client' \in {"none", "live", "stale"}
  BY DEF Teardown, ClientAfter, TypeOK
<1>4. hostRoutes' \subseteq hostRoutes
  BY DEF Teardown
<1>5. dns' \in BOOLEAN /\ ipv6off' \in BOOLEAN /\ spoilt' \in BOOLEAN
  BY DEF Teardown, TypeOK
<1>6. ASSUME spoilt' = FALSE
      PROVE  /\ spoilt = FALSE
             /\ routes' = {} /\ hostRoutes' = {} /\ dns' = FALSE /\ ipv6off' = FALSE
  <2>1. spoilt = FALSE /\ k = 4
    BY <1>6 DEF Teardown, TypeOK
  <2>2. routes' = {}
    BY <1>2, <2>1 DEF HostInv, TypeOK
  <2>3. hostRoutes' = {}
    BY <2>1 DEF CleanInv, Teardown
  <2>4. dns' = FALSE
    BY <2>1 DEF Teardown
  <2>5. ipv6off' = FALSE
    BY <2>1 DEF CleanInv, Teardown
  <2> QED
    BY <2>1, <2>2, <2>3, <2>4, <2>5
<1> QED
  BY <1>1, <1>2, <1>3, <1>4, <1>5, <1>6

-----------------------------------------------------------------------------
(* One step preserves IInv *)

LEMMA InitIInv == Init => IInv
<1> SUFFICES ASSUME Init PROVE IInv
  OBVIOUS
<1>1. TypeOK
  BY NetworkConstants DEF Init, TypeOK, PC, Holders
<1>2. FdInv /\ AddrInv /\ HostInv /\ CleanInv
  BY DEF Init, FdInv, AddrInv, HostInv, CleanInv, Holders
<1> QED
  BY <1>1, <1>2 DEF IInv

\* A teardown that ends without a RouteManager preserves the invariant.
LEMMA TeardownIInv ==
  ASSUME IInv, pc \in {"up", "held", "decide"}, NEW k \in 0 .. 4, Teardown(k),
         pc' \in {"down", "create"}, pc' = "create" => cur \in Negotiated,
         rm' = NoRM, UNCHANGED <<leaked, addr, cur>>
  PROVE  IInv'
<1> USE DEF IInv
<1>1. /\ client' \in {"none", "live", "stale"}
      /\ fd' = [h \in Holders |-> None]
      /\ routes' \subseteq routes
      /\ hostRoutes' \subseteq hostRoutes
      /\ dns' \in BOOLEAN /\ ipv6off' \in BOOLEAN /\ spoilt' \in BOOLEAN
  BY TeardownStep
<1>2. TypeOK'
  BY <1>1 DEF TypeOK, PC
<1>3. FdInv'
  BY <1>1 DEF FdInv, Holders
<1>4. AddrInv' /\ HostInv'
  BY <1>1 DEF AddrInv, HostInv
<1>5. CleanInv'
  <2> SUFFICES ASSUME spoilt' = FALSE
               PROVE  /\ leaked' = {} /\ fd'["helper"] = None
                      /\ routes' = {} /\ hostRoutes' = {} /\ dns' = FALSE /\ ipv6off' = FALSE
    BY DEF CleanInv
  <2>1. /\ spoilt = FALSE
        /\ routes' = {} /\ hostRoutes' = {} /\ dns' = FALSE /\ ipv6off' = FALSE
    BY TeardownStep
  <2>2. leaked' = {}
    BY <2>1 DEF CleanInv
  <2>3. fd'["helper"] = None
    BY <1>1 DEF Holders
  <2> QED
    BY <2>1, <2>2, <2>3
<1> QED
  BY <1>2, <1>3, <1>4, <1>5

LEMMA StepIInv == IInv /\ [Next]_vars => IInv'
<1> SUFFICES ASSUME IInv, [Next]_vars PROVE IInv'
  OBVIOUS
<1> USE NetworkConstants DEF IInv
<1>1. CASE HelperCrash
  <2>1. TypeOK'
    BY <1>1 DEF HelperCrash, TypeOK, settings, Surviving, Holders
  <2>2. FdInv'
    BY <1>1 DEF HelperCrash, TypeOK, FdInv, Holders
  <2>3. AddrInv' /\ HostInv'
    BY <1>1 DEF HelperCrash, TypeOK, AddrInv, HostInv, settings, Holders
  <2>4. CleanInv'
    BY <1>1 DEF HelperCrash, TypeOK, CleanInv, settings, Holders, Surviving
  <2> QED
    BY <2>1, <2>2, <2>3, <2>4
<1>2. CASE EnsureHelper
  BY <1>2 DEF EnsureHelper, TypeOK, FdInv, AddrInv, HostInv, CleanInv, settings
<1>3. CASE Disconnect
  <2>1. PICK k \in 0 .. 4 : Teardown(k)
    BY <1>3 DEF Disconnect
  <2>2. pc \in {"up", "held"} /\ pc' = "down" /\ rm' = NoRM /\ UNCHANGED <<leaked, addr, cur>>
    BY <1>3 DEF Disconnect
  <2> QED
    BY <2>1, <2>2, TeardownIInv
<1>4. CASE SessionDies
  <2>1. CASE /\ pc = "up" /\ fd["keeper"] # None
             /\ fd' = [fd EXCEPT !["bridge"] = None]
             /\ pc' = "held"
             /\ UNCHANGED <<client, routes, settings, rm, spoilt>>
             /\ UNCHANGED <<leaked, addr, cur>>
    BY <2>1 DEF TypeOK, FdInv, AddrInv, HostInv, CleanInv, PC, Holders, settings
  <2>2. CASE /\ pc = "up" /\ \E k \in 0 .. 4 : Teardown(k)
             /\ pc' = "down" /\ rm' = NoRM /\ UNCHANGED <<leaked, addr, cur>>
    <3>1. PICK k \in 0 .. 4 : Teardown(k)
      BY <2>2
    <3> QED
      BY <2>2, <3>1, TeardownIInv
  <2> QED
    BY <1>4, <2>1, <2>2 DEF SessionDies
<1>5. ASSUME NEW g \in Gateways, NEW ip \in Addrs, NEW via \in Addrs, Handshake(g, ip, via)
      PROVE  IInv'
  BY <1>5 DEF Handshake, TypeOK, FdInv, AddrInv, HostInv, CleanInv, PC, settings, Negotiated
<1>6. CASE Adopt
  BY <1>6 DEF Adopt, Matches, TypeOK, FdInv, AddrInv, HostInv, CleanInv, PC, Holders, settings
<1>7. CASE AdoptFails
  <2>1. TypeOK'
    BY <1>7 DEF AdoptFails, TypeOK, PC, Holders, settings, Surviving
  <2>2. FdInv' /\ AddrInv' /\ HostInv' /\ CleanInv'
    BY <1>7 DEF AdoptFails, TypeOK, FdInv, AddrInv, HostInv, CleanInv, Holders, settings
  <2> QED
    BY <2>1, <2>2
<1>8. CASE ReleaseOld
  <2>1. PICK k \in 0 .. 4 : Teardown(k)
    BY <1>8 DEF ReleaseOld
  <2>2. pc = "decide" /\ pc' = "create" /\ rm' = NoRM /\ UNCHANGED <<leaked, addr, cur>>
    BY <1>8 DEF ReleaseOld
  <2> QED
    BY <2>1, <2>2, TeardownIInv DEF AddrInv
<1>9. CASE CreateTun
  <2>1. PICK i \in Ifaces, keeper \in Ifaces \cup {None} :
          /\ \/ /\ keeper \in {i, None}
                /\ fd' = [helper |-> i, bridge |-> i, keeper |-> keeper]
                /\ pc' = "routes" /\ UNCHANGED spoilt
             \/ /\ fd' = [helper |-> i, bridge |-> None, keeper |-> None]
                /\ pc' = "down" /\ spoilt' = TRUE
          /\ addr' = [addr EXCEPT ![i] = cur.ip]
          /\ routes' \subseteq routes
    <3>1. routes' \subseteq routes
      BY <1>9 DEF CreateTun, Surviving
    <3> QED
      BY <1>9, <3>1 DEF CreateTun
  <2>2. pc = "create" /\ UNCHANGED <<client, leaked, settings, rm, cur>>
    BY <1>9 DEF CreateTun
  <2>3. cur.ip \in Addrs
    BY <2>2 DEF AddrInv, Negotiated
  <2>4. TypeOK'
    <3>1. fd' \in [Holders -> Ifaces \cup {None}]
      BY <2>1 DEF Holders
    <3>2. addr' \in [Ifaces -> Addrs] /\ spoilt' \in BOOLEAN
      BY <2>1, <2>3 DEF TypeOK
    <3>3. pc' \in {"routes", "down"}
      BY <2>1
    <3> QED
      BY <2>1, <2>2, <3>1, <3>2, <3>3 DEF TypeOK, PC, settings
  <2>5. FdInv'
    BY <2>1 DEF FdInv
  <2>6. AddrInv'
    BY <2>1, <2>2, <2>3 DEF TypeOK, AddrInv, settings
  <2>7. HostInv'
    BY <2>1 DEF HostInv
  <2>8. CleanInv'
    BY <2>1, <2>2 DEF CleanInv, settings
  <2> QED
    BY <2>4, <2>5, <2>6, <2>7, <2>8
<1>10. CASE CreateTunFails
  <2>1. TypeOK'
    BY <1>10 DEF CreateTunFails, TypeOK, PC, Holders, settings, Surviving
  <2>2. FdInv' /\ AddrInv' /\ HostInv'
    BY <1>10 DEF CreateTunFails, TypeOK, FdInv, AddrInv, HostInv, Holders, settings
  <2>3. CleanInv'
    BY <1>10 DEF CreateTunFails, TypeOK, CleanInv, Holders, settings, Surviving
  <2> QED
    BY <2>1, <2>2, <2>3
<1>14. CASE CreateTunLosesLine
  <2>1. PICK i \in Ifaces :
          leaked' = leaked \cup {i} /\ addr' = [addr EXCEPT ![i] = cur.ip]
    BY <1>14 DEF CreateTunLosesLine
  <2>2. /\ pc = "create" /\ pc' = "down" /\ client' = "stale" /\ spoilt' = TRUE
        /\ fd' = [fd EXCEPT !["helper"] = None]
        /\ routes' = Surviving(routes, fd')
        /\ UNCHANGED <<settings, rm, cur>>
    BY <1>14 DEF CreateTunLosesLine
  <2>3. cur.ip \in Addrs
    BY <2>2 DEF AddrInv, Negotiated
  <2>4. TypeOK'
    BY <2>1, <2>2, <2>3 DEF TypeOK, PC, Holders, settings, Surviving
  <2>5. FdInv' /\ AddrInv' /\ HostInv' /\ CleanInv'
    BY <2>2 DEF TypeOK, FdInv, AddrInv, HostInv, CleanInv, Holders, settings
  <2> QED
    BY <2>4, <2>5
<1>11. ASSUME NEW host \in BOOLEAN, Configure(host)
       PROVE  IInv'
  <2>1. cur \in Negotiated /\ pc = "routes"
    BY <1>11 DEF Configure, AddrInv
  <2>2. BoundTo(cur.via) \subseteq Ifaces \cup {None}
    BY DEF BoundTo, Existing, Open, TypeOK, Holders
  <2>3. TypeOK'
    BY <1>11, <2>1, <2>2 DEF Configure, TypeOK, PC, Negotiated, RouteManager
  <2>4. FdInv'
    BY <1>11 DEF Configure, FdInv
  <2>5. AddrInv' /\ HostInv'
    BY <1>11, <2>1 DEF Configure, AddrInv, HostInv
  <2>6. CleanInv'
    BY <1>11, <2>1 DEF Configure, CleanInv
  <2> QED
    BY <2>3, <2>4, <2>5, <2>6
<1>12. ASSUME NEW host \in BOOLEAN, NEW added \in SUBSET Nets, ConfigureFails(host, added)
       PROVE  IInv'
  <2>1. cur \in Negotiated /\ pc = "routes"
    BY <1>12 DEF ConfigureFails, AddrInv
  <2>2. BoundTo(cur.via) \subseteq Ifaces \cup {None}
    BY DEF BoundTo, Existing, Open, TypeOK, Holders
  <2>3. client' \in {"none", "live", "stale"} /\ fd' \in [Holders -> Ifaces \cup {None}]
    BY <1>12 DEF ConfigureFails, TypeOK, Holders
  <2>4. routes' \subseteq Nets \X (Ifaces \cup {None})
    BY <1>12, <2>2 DEF ConfigureFails, TypeOK, Surviving
  <2>5. TypeOK'
    BY <1>12, <2>1, <2>3, <2>4 DEF ConfigureFails, TypeOK, PC, Negotiated
  <2>6. FdInv' /\ AddrInv' /\ HostInv' /\ CleanInv'
    BY <1>12 DEF ConfigureFails, FdInv, AddrInv, HostInv, CleanInv
  <2> QED
    BY <2>5, <2>6
<1>13. CASE UNCHANGED vars
  BY <1>13 DEF vars, settings, TypeOK, FdInv, AddrInv, HostInv, CleanInv
<1> QED
  BY <1>1, <1>2, <1>3, <1>4, <1>5, <1>6, <1>7, <1>8, <1>9, <1>10, <1>11, <1>12,
     <1>13, <1>14 DEF Next

LEMMA Invariance == Spec => []IInv
<1>1. Init => IInv
  BY InitIInv
<1>2. IInv /\ [Next]_vars => IInv'
  BY StepIInv
<1> QED
  BY <1>1, <1>2, PTL DEF Spec

-----------------------------------------------------------------------------
(* One step preserves where the routes lead: first with a session *)

\* The interface that is open with a session or a held network keeps its routes.
LEMMA KeepsRoutes ==
  ASSUME NEW f \in [Holders -> Ifaces \cup {None}], NEW h \in Holders, f[h] # None
  PROVE  Surviving(Nets \X {f[h]}, f) = Nets \X {f[h]}
<1>1. f[h] \in Existing(f)
  BY DEF Existing, Open
<1> QED
  BY <1>1 DEF Surviving

LEMMA ViaStep ==
  ASSUME "ppp_ip" \notin Faults
  PROVE  IInv /\ ViaInv /\ [Next]_vars => ViaInv'
<1> SUFFICES ASSUME IInv, ViaInv, [Next]_vars PROVE ViaInv'
  OBVIOUS
<1>1. ASSUME NEW g \in Gateways, NEW ip \in Addrs, NEW via \in Addrs, Handshake(g, ip, via)
      PROVE  ViaInv'
  BY <1>1 DEF Handshake, ViaInv
<1>2. CASE UNCHANGED vars
  BY <1>2 DEF vars, ViaInv
<1>3. CASE HelperCrash \/ EnsureHelper \/ Disconnect \/ SessionDies \/ Adopt \/ AdoptFails
  BY <1>3 DEF HelperCrash, EnsureHelper, Disconnect, SessionDies, Adopt, AdoptFails, ViaInv
<1>4. CASE ReleaseOld \/ CreateTun \/ CreateTunFails \/ CreateTunLosesLine
  BY <1>4 DEF ReleaseOld, CreateTun, CreateTunFails, CreateTunLosesLine, ViaInv
<1>5. ASSUME NEW host \in BOOLEAN,
             Configure(host) \/ \E added \in SUBSET Nets : ConfigureFails(host, added)
      PROVE  ViaInv'
  BY <1>5 DEF Configure, ConfigureFails, ViaInv
<1> QED
  BY <1>1, <1>2, <1>3, <1>4, <1>5 DEF Next

\* With one owner of the address there is one interface to bind a route to.
LEMMA OneOwner ==
  ASSUME IInv, ViaInv, pc = "routes", Unambiguous(cur.ip)
  PROVE  BoundTo(cur.via) = {fd["bridge"]}
<1>1. cur.via = cur.ip
  BY DEF ViaInv
<1>2. Open(fd) = {fd["bridge"]}
  BY OpenHolders DEF IInv, TypeOK, FdInv
<1>3. addr[fd["bridge"]] = cur.ip
  BY DEF IInv, AddrInv
<1>4. {i \in Existing(fd) : addr[i] = cur.ip} = {fd["bridge"]}
  BY <1>2, <1>3 DEF Existing, Unambiguous
<1> QED
  BY <1>1, <1>4 DEF BoundTo

LEMMA DeviceStep == IInv /\ ViaInv /\ DeviceInv /\ [Next]_vars => DeviceInv'
<1> SUFFICES ASSUME IInv, ViaInv, DeviceInv, [Next]_vars PROVE DeviceInv'
  OBVIOUS
<1> DEFINE Away == pc' \notin {"up", "held", "decide"}
<1>0. ASSUME Away PROVE DeviceInv'
  BY <1>0 DEF DeviceInv
<1>1. CASE HelperCrash
  <2>1. /\ fd' = [fd EXCEPT !["helper"] = None]
        /\ routes' = Surviving(routes, fd')
        /\ UNCHANGED <<pc, leaked, addr, rm>>
    BY <1>1 DEF HelperCrash
  <2>2. fd' \in [Holders -> Ifaces \cup {None}]
    BY <2>1 DEF IInv, TypeOK, Holders
  <2>3. fd'["bridge"] = fd["bridge"] /\ fd'["keeper"] = fd["keeper"]
    BY <2>1 DEF IInv, TypeOK, Holders
  <2>4. Unambiguous(rm.ip)' => Unambiguous(rm.ip)
    BY <2>1 DEF Unambiguous
  <2>5. ASSUME pc = "up", Unambiguous(rm.ip) PROVE routes' = Nets \X {fd'["bridge"]}
    <3>1. routes = Nets \X {fd'["bridge"]} /\ fd'["bridge"] # None
      BY <2>3, <2>5 DEF DeviceInv, IInv, FdInv
    <3>2. "bridge" \in Holders
      BY DEF Holders
    <3> QED
      BY <2>1, <2>2, <3>1, <3>2, KeepsRoutes
  <2>6. ASSUME pc \in {"held", "decide"}, Unambiguous(rm.ip)
        PROVE  routes' = Nets \X {fd'["keeper"]}
    <3>1. routes = Nets \X {fd'["keeper"]} /\ fd'["keeper"] # None
      BY <2>3, <2>6 DEF DeviceInv, IInv, FdInv
    <3>2. "keeper" \in Holders
      BY DEF Holders
    <3> QED
      BY <2>1, <2>2, <3>1, <3>2, KeepsRoutes
  <2> QED
    BY <2>1, <2>4, <2>5, <2>6 DEF DeviceInv
<1>2. CASE EnsureHelper
  BY <1>2 DEF EnsureHelper, DeviceInv, Unambiguous
<1>3. CASE Disconnect
  BY <1>0, <1>3 DEF Disconnect
<1>4. CASE SessionDies
  <2>1. CASE pc' = "down"
    BY <1>0, <2>1
  <2>2. CASE /\ pc = "up" /\ fd["keeper"] # None
             /\ fd' = [fd EXCEPT !["bridge"] = None]
             /\ pc' = "held"
             /\ UNCHANGED <<routes, leaked, addr, rm>>
    <3>1. Unambiguous(rm.ip)' => Unambiguous(rm.ip)
      BY <2>2 DEF Unambiguous
    <3>2. fd'["keeper"] = fd["bridge"]
      BY <2>2 DEF IInv, TypeOK, FdInv, Holders
    <3> QED
      BY <2>2, <3>1, <3>2 DEF DeviceInv
  <2> QED
    BY <1>4, <2>1, <2>2 DEF SessionDies
<1>5. ASSUME NEW g \in Gateways, NEW ip \in Addrs, NEW via \in Addrs, Handshake(g, ip, via)
      PROVE  DeviceInv'
  BY <1>5 DEF Handshake, DeviceInv, Unambiguous
<1>6. CASE Adopt
  <2>1. Unambiguous(rm.ip)' => Unambiguous(rm.ip)
    BY <1>6 DEF Adopt, Unambiguous
  <2>2. fd'["bridge"] = fd["keeper"]
    BY <1>6 DEF Adopt, IInv, TypeOK, Holders
  <2> QED
    BY <1>6, <2>1, <2>2 DEF Adopt, DeviceInv
<1>7. CASE AdoptFails \/ ReleaseOld \/ CreateTun \/ CreateTunFails \/ CreateTunLosesLine
  BY <1>0, <1>7 DEF AdoptFails, ReleaseOld, CreateTun, CreateTunFails, CreateTunLosesLine
<1>8. ASSUME NEW host \in BOOLEAN, Configure(host)
      PROVE  DeviceInv'
  <2>1. /\ pc = "routes" /\ pc' = "up" /\ rm'.ip = cur.ip
        /\ UNCHANGED <<leaked, addr, fd>>
    BY <1>8 DEF Configure
  <2>2. Unambiguous(rm.ip)' => Unambiguous(cur.ip)
    BY <2>1 DEF Unambiguous
  <2>3. Unambiguous(cur.ip) => routes' = Nets \X {fd["bridge"]}
    BY <1>8, <2>1, OneOwner DEF Configure
  <2> QED
    BY <2>1, <2>2, <2>3 DEF DeviceInv
<1>9. ASSUME NEW host \in BOOLEAN, NEW added \in SUBSET Nets, ConfigureFails(host, added)
      PROVE  DeviceInv'
  BY <1>0, <1>9 DEF ConfigureFails
<1>10. CASE UNCHANGED vars
  BY <1>10 DEF vars, DeviceInv, Unambiguous
<1> QED
  BY <1>1, <1>2, <1>3, <1>4, <1>5, <1>6, <1>7, <1>8, <1>9, <1>10 DEF Next

-----------------------------------------------------------------------------
(* Then what is left without a session *)

\* Without a leak a teardown leaves no route: all of them lead into the interface.
LEMMA TeardownRoutes ==
  ASSUME IInv, DeviceInv, pc \in {"up", "held", "decide"},
         NEW k \in 0 .. 4, Teardown(k), leaked = {}
  PROVE  routes' = {}
<1>0. Unambiguous(rm.ip)
  BY DEF Unambiguous
<1>1. routes' \subseteq {r \in routes : r[2] = None}
  BY TeardownStep DEF IInv
<1>2. pc = "up" => routes = Nets \X {fd["bridge"]} /\ fd["bridge"] # None
  BY <1>0 DEF IInv, DeviceInv, FdInv
<1>3. pc # "up" => routes = Nets \X {fd["keeper"]} /\ fd["keeper"] # None
  BY <1>0 DEF IInv, DeviceInv, FdInv
<1> QED
  BY <1>1, <1>2, <1>3

LEMMA LeftStep ==
  IInv /\ ViaInv /\ DeviceInv /\ LeftInv /\ [Next]_vars => LeftInv'
<1> SUFFICES ASSUME IInv, ViaInv, DeviceInv, LeftInv, [Next]_vars, leaked' = {}
             PROVE  LeftInv'
  BY DEF LeftInv
<1> DEFINE Clear == routes' = {}
<1>0. ASSUME Clear PROVE LeftInv'
  BY <1>0 DEF LeftInv
<1>a. leaked = {}
  <2>1. CASE CreateTunLosesLine
    BY <2>1 DEF CreateTunLosesLine
  <2>2. CASE UNCHANGED leaked
    BY <2>2
  <2>3. UNCHANGED leaked \/ CreateTunLosesLine
    BY DEF Next, vars, HelperCrash, EnsureHelper, Disconnect, SessionDies, Handshake, Adopt,
           AdoptFails, ReleaseOld, CreateTun, CreateTunFails, Configure, ConfigureFails
  <2> QED
    BY <2>1, <2>2, <2>3
<1>b. Unambiguous(rm.ip) /\ Unambiguous(cur.ip)
  BY <1>a DEF Unambiguous
<1>1. CASE HelperCrash
  <2>1. /\ fd' = [fd EXCEPT !["helper"] = None]
        /\ routes' = Surviving(routes, fd')
        /\ UNCHANGED pc
    BY <1>1 DEF HelperCrash
  <2>2. fd' \in [Holders -> Ifaces \cup {None}]
    BY <2>1 DEF IInv, TypeOK, Holders
  <2>3. Open(fd') = {fd["bridge"], fd["keeper"]} \ {None}
    BY <2>1, <2>2, OpenHolders DEF IInv, TypeOK, Holders
  <2>4. routes' = {r \in routes : r[2] \in {fd["bridge"], fd["keeper"], None}}
    BY <1>a, <2>1, <2>3 DEF Surviving, Existing
  <2>5. ASSUME pc \in {"down", "create"} PROVE routes' = {}
    BY <1>a, <2>4, <2>5 DEF LeftInv, IInv, FdInv
  <2>6. ASSUME pc = "routes" PROVE routes' = {}
    BY <1>a, <2>4, <2>6 DEF LeftInv
  <2> QED
    BY <2>1, <2>5, <2>6 DEF LeftInv
<1>2. CASE EnsureHelper
  BY <1>a, <1>2 DEF EnsureHelper, LeftInv
<1>3. CASE Disconnect
  <2>1. PICK k \in 0 .. 4 : Teardown(k)
    BY <1>3 DEF Disconnect
  <2>2. pc \in {"up", "held", "decide"}
    BY <1>3 DEF Disconnect
  <2> QED
    BY <1>0, <1>a, <2>1, <2>2, TeardownRoutes
<1>4. CASE SessionDies
  <2>1. CASE pc' = "held"
    BY <2>1 DEF LeftInv
  <2>2. CASE \E k \in 0 .. 4 : Teardown(k)
    <3>1. PICK k \in 0 .. 4 : Teardown(k)
      BY <2>2
    <3>2. pc \in {"up", "held", "decide"}
      BY <1>4 DEF SessionDies
    <3> QED
      BY <1>0, <1>a, <3>1, <3>2, TeardownRoutes
  <2> QED
    BY <1>4, <2>1, <2>2 DEF SessionDies
<1>5. ASSUME NEW g \in Gateways, NEW ip \in Addrs, NEW via \in Addrs, Handshake(g, ip, via)
      PROVE  LeftInv'
  BY <1>a, <1>5 DEF Handshake, LeftInv
<1>6. CASE Adopt
  BY <1>6 DEF Adopt, LeftInv
<1>7. CASE AdoptFails
  <2>1. /\ pc = "decide" /\ pc' = "down"
        /\ fd' = [fd EXCEPT !["keeper"] = None]
        /\ routes' = Surviving(routes, fd')
    BY <1>7 DEF AdoptFails
  <2>2. fd' \in [Holders -> Ifaces \cup {None}]
    BY <2>1 DEF IInv, TypeOK, Holders
  <2>3. Open(fd') = {fd["helper"]} \ {None} /\ fd'["helper"] = fd["helper"]
    BY <2>1, <2>2, OpenHolders DEF IInv, FdInv, TypeOK, Holders
  <2>4. routes' = {r \in routes : r[2] \in {fd["helper"], None}}
    BY <1>a, <2>1, <2>3 DEF Surviving, Existing
  <2>5. routes = Nets \X {fd["keeper"]} /\ fd["keeper"] # None
    BY <1>b, <2>1 DEF DeviceInv, IInv, FdInv
  <2> QED
    BY <2>1, <2>3, <2>4, <2>5 DEF LeftInv
<1>8. CASE ReleaseOld
  <2>1. PICK k \in 0 .. 4 : Teardown(k)
    BY <1>8 DEF ReleaseOld
  <2>2. pc \in {"up", "held", "decide"}
    BY <1>8 DEF ReleaseOld
  <2> QED
    BY <1>0, <1>a, <2>1, <2>2, TeardownRoutes
<1>9. ASSUME NEW f, f = [fd EXCEPT !["helper"] = None],
             pc = "create", routes' = Surviving(routes, f)
      PROVE  routes' = {}
  <2>1. f \in [Holders -> Ifaces \cup {None}]
    BY <1>9 DEF IInv, TypeOK, Holders
  <2>2. Open(f) = {}
    BY <1>9, <2>1, OpenHolders DEF IInv, FdInv, TypeOK, Holders
  <2> QED
    BY <1>9, <1>a, <2>2 DEF Surviving, Existing, LeftInv
<1>10. CASE CreateTun
  BY <1>0, <1>9, <1>10 DEF CreateTun
<1>11. CASE CreateTunFails
  BY <1>0, <1>9, <1>11 DEF CreateTunFails
<1>12. CASE CreateTunLosesLine
  BY <1>12 DEF CreateTunLosesLine
<1>13. ASSUME NEW host \in BOOLEAN, Configure(host)
       PROVE  LeftInv'
  BY <1>13 DEF Configure, LeftInv
<1>14. ASSUME NEW host \in BOOLEAN, NEW added \in SUBSET Nets, ConfigureFails(host, added)
       PROVE  LeftInv'
  <2>1. pc = "routes" /\ pc' = "down" /\ routes = {}
    BY <1>a, <1>14 DEF ConfigureFails, LeftInv
  <2>2. BoundTo(cur.via) = {fd["bridge"]}
    BY <1>b, <2>1, OneOwner
  <2>3. /\ fd'["bridge"] = None /\ fd'["keeper"] = None
        /\ fd'["helper"] \in {fd["helper"], None}
        /\ fd' \in [Holders -> Ifaces \cup {None}]
    BY <1>14 DEF ConfigureFails, IInv, TypeOK, Holders
  <2>4. Open(fd') = {fd'["helper"]} \ {None}
    BY <2>3, OpenHolders
  <2>5. routes' = Surviving(added \X {fd["bridge"]}, fd')
    BY <1>14, <2>1, <2>2 DEF ConfigureFails
  <2>6. routes' = {r \in added \X {fd["bridge"]} : r[2] \in {fd'["helper"], None}}
    BY <1>a, <2>4, <2>5 DEF Surviving, Existing
  <2>7. fd["bridge"] # None
    BY <2>1 DEF IInv, FdInv
  <2> QED
    BY <2>1, <2>6, <2>7 DEF LeftInv
<1>15. CASE UNCHANGED vars
  BY <1>15 DEF vars, LeftInv
<1> QED
  BY <1>1, <1>2, <1>3, <1>4, <1>5, <1>6, <1>7, <1>8, <1>10, <1>11, <1>12, <1>13, <1>14,
     <1>15 DEF Next

LEMMA RouteInvariance ==
  ASSUME "ppp_ip" \notin Faults
  PROVE  Spec => [](ViaInv /\ DeviceInv /\ LeftInv)
<1>1. Init => ViaInv /\ DeviceInv /\ LeftInv
  BY DEF Init, ViaInv, DeviceInv, LeftInv
<1>2. IInv /\ ViaInv /\ DeviceInv /\ LeftInv /\ [Next]_vars
        => ViaInv' /\ DeviceInv' /\ LeftInv'
  BY ViaStep, DeviceStep, LeftStep
<1> QED
  BY <1>1, <1>2, Invariance, PTL DEF Spec

-----------------------------------------------------------------------------
(* Type correctness: in particular the daemon has a RouteManager exactly    *)
(* while it has a session or a held network.                                *)
THEOREM TypeCorrect == Spec => []TypeOK
<1>1. IInv => TypeOK
  BY DEF IInv
<1> QED
  BY <1>1, Invariance, PTL

(* Whatever connects, deaths, crashes and failures occur, the only way to  *)
(* a second interface is the descriptor lost in create_tun when the helper *)
(* crashes before the line (lib.rs; macos.rs:71-77; helper macos.rs).      *)
THEOREM SecondDeviceWasLeaked == Spec => []OneDevice
<1>1. IInv => OneDevice
  <2> SUFFICES ASSUME IInv PROVE OneDevice
    OBVIOUS
  <2>1. Open(fd) = {fd["helper"], fd["bridge"], fd["keeper"]} \ {None}
    BY OpenHolders DEF IInv, TypeOK
  <2>2. pc \in PC
    BY DEF IInv, TypeOK
  <2>3. \A i, j \in Open(fd) : i = j
    BY <2>1, <2>2 DEF IInv, FdInv, PC
  <2> QED
    BY <2>3 DEF OneDevice, Existing
<1> QED
  BY <1>1, Invariance, PTL

(* A session sends through an interface with the address its gateway has    *)
(* just assigned, whether it was created or adopted (lib.rs, matches).      *)
THEOREM SessionsFitTheirGateway == Spec => []SessionFitsGateway
<1>1. IInv => SessionFitsGateway
  BY DEF IInv, AddrInv, SessionFitsGateway
<1> QED
  BY <1>1, Invariance, PTL

(* Without a step that broke off the host is restored whenever neither a    *)
(* session nor a held network is left (routing.rs, restore_via_helper).     *)
THEOREM HostIsRestored == Spec => []CleanWhenDown
<1>1. IInv => CleanWhenDown
  <2> SUFFICES ASSUME IInv, pc \in {"down", "create"}, ~spoilt PROVE HostRestored
    BY DEF CleanWhenDown
  <2>1. spoilt = FALSE
    BY DEF IInv, TypeOK
  <2>2. Open(fd) = {}
    BY <2>1, OpenHolders DEF IInv, TypeOK, FdInv, CleanInv
  <2> QED
    BY <2>1, <2>2 DEF IInv, CleanInv, HostRestored, Existing
<1> QED
  BY <1>1, Invariance, PTL

(* As long as PPP assigns the address of the gateway's configuration, the   *)
(* routes of a session or of a held network lead into its interface and     *)
(* survive every crash of the helper, unless a leaked interface has the     *)
(* same address (lib.rs, PreservedNetwork).                                 *)
THEOREM RoutesSurvive ==
  ASSUME "ppp_ip" \notin Faults
  PROVE  Spec => []TunnelRoutes
<1>1. IInv /\ DeviceInv => TunnelRoutes
  <2> SUFFICES ASSUME IInv, DeviceInv, pc \in {"up", "held", "decide"}
               PROVE  TunnelRoutes
    BY DEF TunnelRoutes
  <2>1. Device \in Ifaces
    BY DEF IInv, TypeOK, FdInv, Device, Holders
  <2>2. Unambiguous(rm.ip) => routes = Nets \X {Device}
    BY DEF DeviceInv, Device
  <2> QED
    BY <2>1, <2>2 DEF IInv, HostInv, TunnelRoutes
<1> QED
  BY <1>1, Invariance, RouteInvariance, PTL

(* Under the same assumption, when routes are installed there is neither a  *)
(* route into the tunnel, unless a descriptor was lost, nor a host route,   *)
(* unless an installation or a teardown broke off: the first add_route of   *)
(* the connect is not refused (routing.rs:92-94; helper macos.rs).          *)
THEOREM InstalledOnCleanTable ==
  ASSUME "ppp_ip" \notin Faults
  PROVE  Spec => []NoRouteInTheWay
<1>1. IInv /\ LeftInv => NoRouteInTheWay
  BY DEF IInv, TypeOK, CleanInv, LeftInv, NoRouteInTheWay
<1> QED
  BY <1>1, Invariance, RouteInvariance, PTL
=============================================================================
