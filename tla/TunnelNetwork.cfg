SPECIFICATION Spec
CONSTANTS
  Gateways = {g1, g2}
  Addrs = {a1, a2}
  Ifaces = {tun0, tun1, tun2}
  Nets = {n1, n2}
  Faults = {"helper_crash", "helper_down", "create_tun", "add_route", "dup", "reopen"}
  None = None
SYMMETRY Symmetry
INVARIANTS
  TunnelRoutes
  SessionFitsGateway
  OneDevice
  NoRouteInTheWay
  CleanWhenDown
