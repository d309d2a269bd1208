--------------------------- MODULE MCPppNegotiation ---------------------------
\* PppNegotiation with sizes below and above the default.
EXTENDS PppNegotiationProperties

MCMrus == {1, 2, 3}
=============================================================================
