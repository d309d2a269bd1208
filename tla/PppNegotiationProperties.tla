----------------------- MODULE PppNegotiationProperties -----------------------
\* What the negotiation must satisfy.
EXTENDS PppNegotiation

(* The client ends with what the gateway has acked, option by option, and   *)
(* has no request of its own left over, although it compares neither the    *)
(* identifier nor the options of an ack (bridge.rs:314-317, 351-363;        *)
(* ppp.rs:258-274, 362-381).                                                *)
EndsWithTheAgreed ==
  phase = "done" =>
    /\ agreed = [lcp |-> mru, ipcp |-> ip]
    /\ \A i \in DOMAIN toGateway : toGateway[i].code # "request"

(* The MTU exceeds neither what the gateway asked for nor what it agreed to *)
(* (ppp.rs:276-286).                                                        *)
MtuFitsBoth ==
  phase = "done" => Mtu <= agreed.lcp /\ (asks # None => Mtu <= asks)

(* No IPCP request reaches the gateway before LCP is open on its side too:  *)
(* it would be dropped, and the client repeats none (bridge.rs:369-377).    *)
IpcpAfterLcp ==
  \A p \in {toGateway[i] : i \in DOMAIN toGateway} :
    p = Head(toGateway) /\ p.proto = "ipcp" => GatewayLcpOpen

\* What a gateway has not done yet, that can do it.
GatewayOwes ==
  \/ toGateway # <<>>
  \/ phase # "opening" /\ "lcp" \notin asked
  \/ GatewayLcpOpen /\ "ipcp" \notin asked

(* Client and gateway never wait for each other: in whatever order they     *)
(* ask, ack, nak and repeat, the negotiation ends well if the gateway goes  *)
(* on and neither deadline nor connection ends it (bridge.rs:286-378).  An  *)
(* IPCP reject would not be answered, and a torn frame not be understood.   *)
NegotiationEnds ==
  [](phase # "failed" /\ ~torn /\ "ipcp" \notin refused) /\ []<>~GatewayOwes
    => <>(phase = "done")
=============================================================================
