---------------------------- MODULE PppNegotiation ----------------------------
(***************************************************************************)
(* Opening the tunnel and negotiating PPP over it (fortivpn: bridge.rs,    *)
(* ppp.rs), against a gateway that keeps to RFC 1661.                      *)
(*                                                                         *)
(* A frame read is handled, answered and, when LCP has just opened,        *)
(* followed by the first IPCP request before the next one is read: one     *)
(* action.  What is written fits into the socket's buffer.  Identifiers    *)
(* are left out: the client looks at none.  The magic number is agreed to  *)
(* as it is.                                                               *)
(***************************************************************************)
EXTENDS Naturals, Sequences

CONSTANTS
  Mrus,         \* values of the MRU option
  DefaultMru,   \* DEFAULT_MRU
  Options,      \* options of IPCP: address and DNS servers
  Values,       \* what a gateway may give for one
  Unspecified,  \* 0.0.0.0, what the client asks for at first
  None,
  MaxRefusals,  \* bound: requests the gateway naks or rejects
  MaxExtras     \* bound: requests it repeats, echo requests and packets nobody knows

ASSUME PppConstants ==
  /\ Mrus \subseteq Nat /\ DefaultMru \in Mrus
  /\ None \notin Mrus /\ None \notin [Options -> Values \cup {Unspecified}]
  /\ MaxRefusals \in Nat /\ MaxExtras \in Nat

VARIABLES
  phase,     \* "opening", "negotiating", "done" or "failed"
  torn,      \* open_tunnel has eaten the head of the first frame
  mru,       \* LcpState: what the client asks for
  peerMru,   \* LcpState: what the gateway asked for
  ip,        \* IpcpState: address and DNS servers
  acked,     \* which of the four acks the client has seen or sent
  started,   \* ipcp_started
  toGateway, toClient,  \* packets on their way
  opens,     \* how the gateway answers the tunnel request
  asks,      \* MRU the gateway asks for
  asked,     \* protocols it has asked in
  confirmed, \* protocols in which the client has acked that
  agreed,    \* what it has acked of the client's
  refusals, refused, extras

client == <<phase, torn, mru, peerMru, ip, acked, started>>
gateway == <<opens, asks, asked, confirmed, agreed, refusals, refused, extras>>
vars == <<client, toGateway, toClient, gateway>>

Protocol == {"lcp", "ipcp"}
Acks == {"our", "peer"} \X Protocol
IpOptions == [Options -> Values \cup {Unspecified}]
PartOfIp == UNION {[S -> Values] : S \in SUBSET Options \ {{}}}

Packet ==
  [proto : {"lcp"}, code : {"request", "ack"}, data : Mrus \cup {None}]
    \cup [proto : {"lcp"}, code : {"nak"}, data : Mrus]
    \cup [proto : {"ipcp"}, code : {"request", "ack"}, data : IpOptions \cup {None}]
    \cup [proto : {"ipcp"}, code : {"nak"}, data : PartOfIp]
    \cup [proto : Protocol, code : {"reject", "echo", "reply", "other"}, data : {None}]

TypeOK ==
  /\ phase \in {"opening", "negotiating", "done", "failed"}
  /\ torn \in BOOLEAN /\ started \in BOOLEAN
  /\ mru \in Mrus /\ peerMru \in Mrus \cup {None}
  /\ ip \in IpOptions
  /\ acked \subseteq Acks
  /\ toGateway \in Seq(Packet) /\ toClient \in Seq(Packet)
  /\ opens \in {"silent", "http", "binary"}
  /\ asks \in Mrus \cup {None}
  /\ asked \subseteq Protocol /\ confirmed \subseteq asked /\ refused \subseteq Protocol
  /\ agreed \in [lcp : Mrus \cup {None}, ipcp : IpOptions \cup {None}]
  /\ refusals \in 0 .. MaxRefusals /\ extras \in 0 .. MaxExtras

Init ==
  /\ phase = "opening"
  /\ torn = FALSE
  /\ mru = DefaultMru
  /\ peerMru = None
  /\ ip = [o \in Options |-> Unspecified]
  /\ acked = {}
  /\ started = FALSE
  /\ toGateway = <<>>
  /\ toClient = <<>>
  /\ opens \in {"silent", "http", "binary"}
  /\ asks \in Mrus \cup {None}
  /\ asked = {}
  /\ confirmed = {}
  /\ agreed = [lcp |-> None, ipcp |-> None]
  /\ refusals = 0
  /\ refused = {}
  /\ extras = 0

Pkt(proto, code, data) == [proto |-> proto, code |-> code, data |-> data]

-----------------------------------------------------------------------------
(* open_tunnel *)

(* Of what is not HTTP the first six bytes are read to see that, and lost; *)
(* what comes after the two seconds is not looked at.  An HTTP answer may  *)
(* be a refusal.                                                           *)
OpenTunnel ==
  /\ phase = "opening"
  /\ phase' \in IF opens = "http" THEN {"negotiating", "failed"} ELSE {"negotiating"}
  /\ torn' = (opens # "http" /\ toClient # <<>>)
  /\ toGateway' = IF phase' = "negotiating"
                  THEN Append(toGateway, Pkt("lcp", "request", mru))
                  ELSE toGateway
  /\ UNCHANGED <<mru, peerMru, ip, acked, started, toClient, gateway>>

-----------------------------------------------------------------------------
(* negotiate_ppp *)

\* Mutant: IPCP starts with the gateway's ack.
OpenedByAck(acks) == <<"our", "lcp">> \in acks

LcpOpened(acks) == {<<"our", "lcp">>, <<"peer", "lcp">>} \subseteq acks

\* Mutant: ipcp_started is not looked at.
FinishUnguarded(sent, acks) ==
  /\ acked' = acks
  /\ started' = LcpOpened(acks)
  /\ toGateway' = toGateway \o sent \o
       IF started' THEN <<Pkt("ipcp", "request", ip')>> ELSE <<>>

\* Mutant: the first IPCP request is left to the gateway.
FinishWithoutStart(sent, acks) ==
  /\ acked' = acks
  /\ started' = LcpOpened(acks)
  /\ toGateway' = toGateway \o sent

(* How every frame ends: the answer goes out, and IPCP starts once LCP is  *)
(* opened.                                                                 *)
Finish(sent, acks) ==
  /\ acked' = acks
  /\ started' = (started \/ LcpOpened(acks))
  /\ toGateway' = toGateway \o sent \o
       IF started' /\ ~started THEN <<Pkt("ipcp", "request", ip')>> ELSE <<>>

\* The next frame is p.
Read(p) ==
  /\ phase = "negotiating" /\ ~torn
  /\ acked # Acks
  /\ toClient # <<>>
  /\ p = Head(toClient)
  /\ toClient' = Tail(toClient)
  /\ UNCHANGED <<phase, torn, gateway>>

ReadRequest(p) ==
  /\ Read(p)
  /\ p.code = "request"
  /\ peerMru' = IF p.proto = "lcp" /\ p.data # None THEN p.data ELSE peerMru
  /\ UNCHANGED <<mru, ip>>
  /\ Finish(<<Pkt(p.proto, "ack", p.data)>>, acked \cup {<<"peer", p.proto>>})

ReadAck(p) ==
  /\ Read(p)
  /\ p.code = "ack"
  /\ UNCHANGED <<mru, peerMru, ip>>
  /\ Finish(<<>>, acked \cup {<<"our", p.proto>>})

ReadNak(p) ==
  /\ Read(p)
  /\ p.code = "nak"
  /\ mru' = IF p.proto = "lcp" THEN p.data ELSE mru
  /\ ip' = IF p.proto = "ipcp"
           THEN [o \in Options |-> IF o \in DOMAIN p.data THEN p.data[o] ELSE ip[o]]
           ELSE ip
  /\ UNCHANGED peerMru
  /\ Finish(<<Pkt(p.proto, "request", IF p.proto = "lcp" THEN mru' ELSE ip')>>, acked)

\* LCP asks again for the same; IPCP knows no reject.
ReadReject(p) ==
  /\ Read(p)
  /\ p.code = "reject"
  /\ UNCHANGED <<mru, peerMru, ip>>
  /\ Finish(IF p.proto = "lcp" THEN <<Pkt("lcp", "request", mru)>> ELSE <<>>, acked)

\* Echo requests are answered, anything else is skipped.
ReadOther(p) ==
  /\ Read(p)
  /\ p.code \in {"echo", "other"}
  /\ UNCHANGED <<mru, peerMru, ip>>
  /\ Finish(IF p.code = "echo" THEN <<Pkt("lcp", "reply", None)>> ELSE <<>>, acked)

Settled ==
  /\ phase = "negotiating"
  /\ acked = Acks
  /\ phase' = "done"
  /\ UNCHANGED <<torn, mru, peerMru, ip, acked, started, toGateway, toClient, gateway>>

\* The deadline, the end of the connection, or a frame without its head.
Fails ==
  /\ phase \in {"opening", "negotiating"}
  /\ acked # Acks
  /\ phase' = "failed"
  /\ UNCHANGED <<torn, mru, peerMru, ip, acked, started, toGateway, toClient, gateway>>

\* Mutant: our own MRU, whatever the gateway asked for.
OurMtu == mru

\* negotiated_mtu.
Mtu == IF peerMru # None /\ peerMru < mru THEN peerMru ELSE mru

-----------------------------------------------------------------------------
(* The gateway *)

\* Only a gateway that is past HTTP, or has none, speaks PPP.
Sends(p) ==
  /\ phase # "opening" \/ opens # "silent"
  /\ toClient' = Append(toClient, p)

GatewayLcpOpen == agreed.lcp # None /\ "lcp" \in confirmed

Asks(proto) ==
  /\ proto = "ipcp" => GatewayLcpOpen
  /\ proto \notin confirmed
  /\ IF proto \in asked THEN extras < MaxExtras /\ extras' = extras + 1
     ELSE UNCHANGED extras
  /\ asked' = asked \cup {proto}
  /\ Sends(Pkt(proto, "request", IF proto = "lcp" THEN asks ELSE None))
  /\ UNCHANGED <<client, toGateway, opens, asks, confirmed, agreed, refusals, refused>>

SendsOther(proto, code) ==
  /\ extras < MaxExtras
  /\ extras' = extras + 1
  /\ Sends(Pkt(proto, code, None))
  /\ UNCHANGED <<client, toGateway, opens, asks, asked, confirmed, agreed, refusals, refused>>

Takes(p) ==
  /\ toGateway # <<>>
  /\ p = Head(toGateway)
  /\ toGateway' = Tail(toGateway)
  /\ UNCHANGED <<client, opens, asks, asked>>

TakesAck(p) ==
  /\ Takes(p)
  /\ p.code = "ack"
  /\ confirmed' = confirmed \cup {p.proto}
  /\ UNCHANGED <<toClient, agreed, refusals, refused, extras>>

\* Before LCP is open the rest is dropped.
Drops(p) ==
  /\ Takes(p)
  /\ p.code = "reply" \/ (p.proto = "ipcp" /\ ~GatewayLcpOpen)
  /\ UNCHANGED <<toClient, confirmed, agreed, refusals, refused, extras>>

Agrees(p) ==
  /\ Takes(p)
  /\ p.code = "request" /\ (p.proto = "ipcp" => GatewayLcpOpen)
  /\ agreed' = [agreed EXCEPT ![p.proto] = p.data]
  /\ Sends(Pkt(p.proto, "ack", p.data))
  /\ UNCHANGED <<confirmed, refusals, refused, extras>>

Refuses(p, code, data) ==
  /\ Takes(p)
  /\ p.code = "request" /\ (p.proto = "ipcp" => GatewayLcpOpen)
  /\ refusals < MaxRefusals
  /\ refusals' = refusals + 1
  /\ refused' = IF code = "reject" THEN refused \cup {p.proto} ELSE refused
  /\ Sends(Pkt(p.proto, code, data))
  /\ UNCHANGED <<confirmed, agreed, extras>>

-----------------------------------------------------------------------------
Reads ==
  \E p \in {toClient[i] : i \in DOMAIN toClient} :
    ReadRequest(p) \/ ReadAck(p) \/ ReadNak(p) \/ ReadReject(p) \/ ReadOther(p)

Gateway ==
  \/ \E proto \in Protocol : Asks(proto)
  \/ \E proto \in Protocol, code \in {"echo", "other"} : SendsOther(proto, code)
  \/ \E p \in {toGateway[i] : i \in DOMAIN toGateway} :
       \/ TakesAck(p) \/ Drops(p) \/ Agrees(p) \/ Refuses(p, "reject", None)
       \/ \E data \in IF p.proto = "lcp" THEN Mrus ELSE PartOfIp : Refuses(p, "nak", data)

Next == OpenTunnel \/ Reads \/ Settled \/ Fails \/ Gateway

\* Nothing is assumed of the gateway, nor that the deadline passes.
Fairness == WF_vars(OpenTunnel \/ Reads \/ Settled)

Spec == Init /\ [][Next]_vars /\ Fairness
=============================================================================
