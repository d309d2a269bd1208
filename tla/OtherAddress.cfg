SPECIFICATION Spec
CONSTANTS
  Gateways = {g1, g2}
  Addrs = {a1, a2}
  Ifaces = {tun0, tun1}
  Nets = {n1, n2}
  Faults = {"ppp_ip"}
  None = None
SYMMETRY Symmetry
INVARIANT RoutesPointAtLocalAddress
