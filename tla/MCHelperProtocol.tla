--------------------------- MODULE MCHelperProtocol ---------------------------
\* HelperProtocol for TLC, with answers that come any number of commands late.
EXTENDS HelperProtocolProperties

\* No more devices than a session, a helper and a descriptor on its way have.
MCDevices == 1 .. 3
=============================================================================
