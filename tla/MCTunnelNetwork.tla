--------------------------- MODULE MCTunnelNetwork ---------------------------
\* Instances of TunnelNetwork for TLC.
EXTENDS TunnelNetworkProperties, TLC

Symmetry == Permutations(Gateways) \cup Permutations(Addrs)
              \cup Permutations(Ifaces) \cup Permutations(Nets)
=============================================================================
