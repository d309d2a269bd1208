------------------------- MODULE PppNegotiationProofs -------------------------
(***************************************************************************)
(* The negotiation for any options, sizes and budgets of the gateway.      *)
(***************************************************************************)
EXTENDS PppNegotiationProperties, TLAPS

-----------------------------------------------------------------------------
(* Packets of a kind in a queue *)

\* q has no packet of M.
Free(q, M) == \A i \in DOMAIN q : q[i] \notin M

\* q has at most one.
Only(q, M) == \A i, j \in DOMAIN q : q[i] \in M /\ q[j] \in M => i = j

\* Every packet of M comes behind one of L.
Behind(q, M, L) == \A i \in DOMAIN q : q[i] \in M => \E j \in 1 .. i - 1 : q[j] \in L

LEMMA TailKeeps ==
  ASSUME NEW S, NEW q \in Seq(S), q # <<>>, NEW M, NEW L
  PROVE  /\ Tail(q) \in Seq(S) /\ Head(q) \in S
         /\ Free(q, M) => Free(Tail(q), M) /\ Head(q) \notin M
         /\ Only(q, M) => Only(Tail(q), M)
         /\ Only(q, M) /\ Head(q) \in M => Free(Tail(q), M)
         /\ Behind(q, M, L) /\ Head(q) \notin L => Behind(Tail(q), M, L)
         /\ Behind(q, M, L) => Head(q) \notin M
         /\ ~Free(q, M) /\ Head(q) \notin M => ~Free(Tail(q), M)
<1>1. /\ Tail(q) \in Seq(S) /\ Head(q) \in S /\ Head(q) = q[1]
      /\ Len(q) \in Nat /\ Len(q) > 0
      /\ DOMAIN q = 1 .. Len(q) /\ DOMAIN Tail(q) = 1 .. Len(q) - 1
      /\ \A i \in 1 .. Len(q) - 1 : Tail(q)[i] = q[i + 1]
  OBVIOUS
<1> DEFINE t == Tail(q)
<1> HIDE DEF t
<1>2. /\ DOMAIN t = 1 .. Len(q) - 1 /\ \A i \in DOMAIN t : t[i] = q[i + 1] /\ i + 1 \in DOMAIN q
  BY <1>1 DEF t
<1>3. 1 \in DOMAIN q
  BY <1>1
<1>4. Free(q, M) => Free(t, M) /\ Head(q) \notin M
  BY <1>1, <1>2, <1>3 DEF Free
<1>5. Only(q, M) => Only(t, M)
  BY <1>1, <1>2 DEF Only
<1>6. Only(q, M) /\ Head(q) \in M => Free(t, M)
  BY <1>1, <1>2, <1>3 DEF Only, Free
<1>7. ASSUME Behind(q, M, L), Head(q) \notin L PROVE Behind(t, M, L)
  <2> SUFFICES ASSUME NEW i \in DOMAIN t, t[i] \in M
               PROVE  \E j \in 1 .. i - 1 : t[j] \in L
    BY DEF Behind
  <2>1. PICK j \in 1 .. i : q[j] \in L
    BY <1>1, <1>2, <1>7 DEF Behind
  <2>2. j # 1
    BY <1>1, <1>7, <2>1
  <2>3. j - 1 \in 1 .. i - 1 /\ j - 1 \in DOMAIN t /\ t[j - 1] = q[j]
    BY <1>1, <1>2, <2>1, <2>2
  <2> QED
    BY <2>1, <2>3
<1>8. Behind(q, M, L) => Head(q) \notin M
  BY <1>1, <1>3 DEF Behind
<1>9. ASSUME ~Free(q, M), Head(q) \notin M PROVE ~Free(t, M)
  <2>1. PICK i \in DOMAIN q : q[i] \in M
    BY <1>9 DEF Free
  <2>2. i # 1
    BY <1>1, <1>9, <2>1
  <2>3. i - 1 \in DOMAIN t /\ t[i - 1] = q[i]
    BY <1>1, <1>2, <2>2
  <2> QED
    BY <2>1, <2>3 DEF Free
<1> QED
  BY <1>1, <1>4, <1>5, <1>6, <1>7, <1>8, <1>9 DEF t

LEMMA AppendKeeps ==
  ASSUME NEW S, NEW q \in Seq(S), NEW e \in S, NEW M, NEW L
  PROVE  /\ Append(q, e) \in Seq(S)
         /\ Free(Append(q, e), M) <=> Free(q, M) /\ e \notin M
         /\ Only(q, M) /\ (Free(q, M) \/ e \notin M) => Only(Append(q, e), M)
         /\ Behind(q, M, L) /\ (~Free(q, L) \/ e \notin M) => Behind(Append(q, e), M, L)
<1> DEFINE a == Append(q, e)
<1>1. /\ a \in Seq(S) /\ Len(q) \in Nat
      /\ DOMAIN q = 1 .. Len(q) /\ DOMAIN a = 1 .. Len(q) + 1
      /\ \A i \in 1 .. Len(q) : a[i] = q[i]
      /\ a[Len(q) + 1] = e
  OBVIOUS
<1> HIDE DEF a
<1>2. /\ \A i \in DOMAIN q : i \in DOMAIN a /\ a[i] = q[i]
      /\ \A i \in DOMAIN a : i \in DOMAIN q \/ i = Len(q) + 1
      /\ Len(q) + 1 \in DOMAIN a
  BY <1>1
<1>3. Free(a, M) <=> Free(q, M) /\ e \notin M
  BY <1>1, <1>2 DEF Free
<1>4. Only(q, M) /\ (Free(q, M) \/ e \notin M) => Only(a, M)
  BY <1>1, <1>2 DEF Only, Free
<1>5. ASSUME Behind(q, M, L), ~Free(q, L) \/ e \notin M PROVE Behind(a, M, L)
  <2> SUFFICES ASSUME NEW i \in DOMAIN a, a[i] \in M
               PROVE  \E j \in 1 .. i - 1 : a[j] \in L
    BY DEF Behind
  <2>1. CASE i \in DOMAIN q
    <3>1. PICK j \in 1 .. i - 1 : q[j] \in L
      BY <1>2, <1>5, <2>1 DEF Behind
    <3>2. j \in DOMAIN q
      BY <1>1, <2>1
    <3> QED
      BY <1>2, <3>1, <3>2
  <2>2. CASE i = Len(q) + 1
    <3>1. PICK j \in DOMAIN q : q[j] \in L
      BY <1>1, <1>5, <2>2 DEF Free
    <3>2. j \in 1 .. i - 1
      BY <1>1, <2>2
    <3> QED
      BY <1>2, <3>1, <3>2
  <2> QED
    BY <1>2, <2>1, <2>2
<1> QED
  BY <1>1, <1>3, <1>4, <1>5 DEF a

LEMMA ConcatOne ==
  ASSUME NEW S, NEW q \in Seq(S), NEW e \in S
  PROVE  q \o <<e>> = Append(q, e) /\ q \o <<>> = q
  OBVIOUS

LEMMA FreeOfLess ==
  ASSUME NEW q, NEW M, NEW L, Free(q, M), L \subseteq M
  PROVE  Free(q, L)
  BY DEF Free

-----------------------------------------------------------------------------
(* Kinds of packets *)

Requests(proto) == {p \in Packet : p.proto = proto /\ p.code = "request"}
AcksOf(proto) == {p \in Packet : p.proto = proto /\ p.code = "ack"}
Replies(proto) == {p \in Packet : p.proto = proto /\ p.code \in {"ack", "nak", "reject"}}
Ipcp == {p \in Packet : p.proto = "ipcp"}
IpcpTalk == Requests("ipcp") \cup Replies("ipcp")
RequestsBut(proto, data) == {p \in Requests(proto) : p.data # data}

LEMMA PacketFields ==
  ASSUME NEW p \in Packet
  PROVE  /\ p = Pkt(p.proto, p.code, p.data)
         /\ p.proto \in Protocol
         /\ p.code \in {"request", "ack", "nak", "reject", "echo", "reply", "other"}
         /\ p.proto = "lcp" /\ p.code \in {"request", "ack"} => p.data \in Mrus \cup {None}
         /\ p.proto = "ipcp" /\ p.code \in {"request", "ack"} => p.data \in IpOptions \cup {None}
         /\ p.proto = "lcp" /\ p.code = "nak" => p.data \in Mrus
         /\ p.proto = "ipcp" /\ p.code = "nak" => p.data \in PartOfIp
  BY DEF Packet, Protocol, Pkt

LEMMA PacketsMade ==
  /\ \A d \in Mrus \cup {None} : Pkt("lcp", "request", d) \in Packet /\ Pkt("lcp", "ack", d) \in Packet
  /\ \A d \in IpOptions \cup {None} :
       Pkt("ipcp", "request", d) \in Packet /\ Pkt("ipcp", "ack", d) \in Packet
  /\ \A d \in Mrus : Pkt("lcp", "nak", d) \in Packet
  /\ \A d \in PartOfIp : Pkt("ipcp", "nak", d) \in Packet
  /\ \A proto \in Protocol, code \in {"reject", "echo", "reply", "other"} :
       Pkt(proto, code, None) \in Packet
  BY DEF Packet, Pkt, Protocol

\* To which kinds a packet belongs.
LEMMA Kinds ==
  ASSUME NEW p \in Packet, NEW proto \in Protocol, NEW data
  PROVE  /\ p \in Requests(proto) <=> p.proto = proto /\ p.code = "request"
         /\ p \in AcksOf(proto) <=> p.proto = proto /\ p.code = "ack"
         /\ p \in Replies(proto) <=> p.proto = proto /\ p.code \in {"ack", "nak", "reject"}
         /\ p \in Ipcp <=> p.proto = "ipcp"
         /\ p \in IpcpTalk <=> p.proto = "ipcp" /\ p.code \in {"request", "ack", "nak", "reject"}
         /\ p \in RequestsBut(proto, data) <=>
              p.proto = proto /\ p.code = "request" /\ p.data # data
  BY DEF Requests, AcksOf, Replies, Ipcp, IpcpTalk, RequestsBut

LEMMA PktFields ==
  ASSUME NEW proto, NEW code, NEW data
  PROVE  /\ Pkt(proto, code, data).proto = proto
         /\ Pkt(proto, code, data).code = code
         /\ Pkt(proto, code, data).data = data
  BY DEF Pkt

-----------------------------------------------------------------------------
(* The inductive invariant *)

\* What the client wants to be agreed.
Value(proto) == IF proto = "lcp" THEN mru ELSE ip

\* It has asked for it.
Begun(proto) == IF proto = "lcp" THEN phase # "opening" ELSE started

\* The client has one request under way, or one answer to it, and none when acked.
OneUnderWay(proto) ==
  /\ Only(toGateway, Requests(proto)) /\ Only(toClient, Replies(proto))
  /\ Free(toGateway, Requests(proto)) \/ Free(toClient, Replies(proto))
  /\ <<"our", proto>> \in acked \/ ~Begun(proto) =>
       Free(toGateway, Requests(proto)) /\ Free(toClient, Replies(proto))
  /\ <<"our", proto>> \in acked => Begun(proto)

\* What is asked for is what the client has; what is acked, too.
Current(proto) ==
  /\ Free(toGateway, RequestsBut(proto, Value(proto)))
  /\ \/ agreed[proto] = Value(proto)
     \/ Free(toClient, AcksOf(proto)) /\ <<"our", proto>> \notin acked

\* The client acks only what it was asked for.
OnlyAsked(proto) ==
  proto \in asked \/ (Free(toClient, Requests(proto)) /\ Free(toGateway, AcksOf(proto)))

\* What the gateway asks for is what the client has acked.
Heeded ==
  /\ Free(toClient, RequestsBut("lcp", asks))
  /\ <<"peer", "lcp">> \in acked /\ asks # None => peerMru = asks

(* The gateway speaks of IPCP when LCP is open on its side; what the client *)
(* says of it comes to the gateway behind the ack that opens LCP there.     *)
LcpFirst ==
  /\ GatewayLcpOpen \/ Free(toClient, IpcpTalk)
  /\ <<"peer", "lcp">> \in acked =>
       "lcp" \in confirmed \/ ~Free(toGateway, AcksOf("lcp"))
  /\ \/ Free(toGateway, Ipcp)
     \/ /\ agreed.lcp # None
        /\ "lcp" \in confirmed \/ Behind(toGateway, Ipcp, AcksOf("lcp"))

DoneIsSettled == phase = "done" => acked = Acks

IInv ==
  /\ TypeOK
  /\ \A proto \in Protocol : OneUnderWay(proto) /\ Current(proto) /\ OnlyAsked(proto)
  /\ Heeded /\ LcpFirst /\ DoneIsSettled

LEMMA NoneIsApart == None \notin Mrus /\ None \notin IpOptions
  BY PppConstants DEF IpOptions

LEMMA EmptyQueue ==
  /\ <<>> \in Seq(Packet)
  /\ \A M : Free(<<>>, M) /\ Only(<<>>, M)
<1>1. <<>> \in Seq(Packet) /\ DOMAIN <<>> = {}
  OBVIOUS
<1> QED
  BY <1>1 DEF Free, Only

LEMMA InitIInv == Init => IInv
<1> SUFFICES ASSUME Init PROVE IInv
  OBVIOUS
<1>1. TypeOK
  <2>1. ip \in IpOptions
    BY DEF Init, IpOptions
  <2>2. refusals \in 0 .. MaxRefusals /\ extras \in 0 .. MaxExtras /\ mru \in Mrus
    BY PppConstants DEF Init
  <2>3. toGateway \in Seq(Packet) /\ toClient \in Seq(Packet)
    BY EmptyQueue DEF Init
  <2> QED
    BY <2>1, <2>2, <2>3 DEF Init, TypeOK
<1>2. ASSUME NEW proto \in Protocol PROVE OneUnderWay(proto) /\ Current(proto) /\ OnlyAsked(proto)
  BY EmptyQueue DEF Init, OneUnderWay, Current, OnlyAsked
<1>3. Heeded /\ LcpFirst /\ DoneIsSettled
  BY EmptyQueue DEF Init, Heeded, LcpFirst, DoneIsSettled
<1> QED
  BY <1>1, <1>2, <1>3 DEF IInv

-----------------------------------------------------------------------------
(* The gateway's steps *)

LEMMA QueueTypes ==
  ASSUME IInv
  PROVE  /\ toGateway \in Seq(Packet) /\ toClient \in Seq(Packet)
         /\ \A i \in DOMAIN toGateway : toGateway[i] \in Packet
         /\ \A i \in DOMAIN toClient : toClient[i] \in Packet
  BY DEF IInv, TypeOK

\* The client is sent a packet that answers nothing.
LEMMA SaidStep ==
  ASSUME IInv, NEW e \in Packet, toClient' = Append(toClient, e),
         UNCHANGED <<client, toGateway, opens, asks, confirmed, agreed, refusals, refused>>,
         e.code \in {"request", "echo", "other"},
         e.code = "request" => IF e.proto = "lcp" THEN e.data = asks ELSE GatewayLcpOpen,
         e.code = "request" => e.proto \in asked',
         asked' \subseteq Protocol, asked \subseteq asked', extras' \in 0 .. MaxExtras
  PROVE  IInv'
<1> USE QueueTypes, AppendKeeps, Kinds DEF client
<1>1. TypeOK'
  BY DEF IInv, TypeOK
<1>2. ASSUME NEW proto \in Protocol PROVE (OneUnderWay(proto) /\ Current(proto) /\ OnlyAsked(proto))'
  <2>1. /\ e \notin Replies(proto) /\ e \notin AcksOf(proto)
        /\ e \in Requests(proto) => proto \in asked'
    OBVIOUS
  <2>2. OneUnderWay(proto) /\ Current(proto) /\ OnlyAsked(proto)
    BY DEF IInv
  <2>3. Value(proto)' = Value(proto) /\ Begun(proto)' = Begun(proto)
    BY DEF Value, Begun
  <2>4. OnlyAsked(proto)'
    BY <2>1, <2>2 DEF OnlyAsked
  <2> QED
    BY <2>1, <2>2, <2>3, <2>4 DEF OneUnderWay, Current
<1>3. Heeded'
  <2>1. e \notin RequestsBut("lcp", asks)
    BY DEF Protocol
  <2>2. Free(toClient, RequestsBut("lcp", asks))
    BY DEF IInv, Heeded
  <2>3. Free(toClient', RequestsBut("lcp", asks))
    BY <2>1, <2>2
  <2>4. UNCHANGED <<acked, asks, peerMru>>
    OBVIOUS
  <2> QED
    BY <2>3, <2>4 DEF IInv, Heeded
<1>4. LcpFirst'
  <2>1. GatewayLcpOpen \/ e \notin IpcpTalk
    BY DEF Protocol
  <2>2. GatewayLcpOpen' = GatewayLcpOpen
    BY DEF GatewayLcpOpen
  <2> QED
    BY <2>1, <2>2 DEF IInv, LcpFirst
<1>5. DoneIsSettled'
  BY DEF IInv, DoneIsSettled
<1> QED
  BY <1>1, <1>2, <1>3, <1>4, <1>5 DEF IInv

LEMMA AsksStep ==
  ASSUME IInv, NEW proto \in Protocol, Asks(proto)
  PROVE  IInv'
<1> DEFINE e == Pkt(proto, "request", IF proto = "lcp" THEN asks ELSE None)
<1>1. e \in Packet
  BY PacketsMade DEF IInv, TypeOK, Protocol
<1>2. /\ e.code = "request" /\ e.proto = proto
      /\ proto = "lcp" => e.data = asks
  BY PktFields
<1>3. toClient' = Append(toClient, e)
  BY DEF Asks, Sends
<1>4. extras' \in 0 .. MaxExtras
  <2>1. extras \in 0 .. MaxExtras /\ MaxExtras \in Nat
    BY PppConstants DEF IInv, TypeOK
  <2>2. extras' = extras \/ (extras < MaxExtras /\ extras' = extras + 1)
    BY DEF Asks
  <2> QED
    BY <2>1, <2>2
<1>5. asked' \subseteq Protocol /\ asked \subseteq asked'
  BY DEF Asks, IInv, TypeOK
<1> HIDE DEF e
<1>6. /\ IF e.proto = "lcp" THEN e.data = asks ELSE GatewayLcpOpen
      /\ e.proto \in asked'
  BY <1>2 DEF Asks, Protocol
<1>7. UNCHANGED <<client, toGateway, opens, asks, confirmed, agreed, refusals, refused>>
  BY DEF Asks
<1> QED
  BY <1>1, <1>2, <1>3, <1>4, <1>5, <1>6, <1>7, SaidStep

LEMMA SendsOtherStep ==
  ASSUME IInv, NEW proto \in Protocol, NEW code \in {"echo", "other"}, SendsOther(proto, code)
  PROVE  IInv'
<1> DEFINE e == Pkt(proto, code, None)
<1>1. e \in Packet
  BY PacketsMade
<1>2. e.code = code
  BY PktFields
<1>3. toClient' = Append(toClient, e)
  BY DEF SendsOther, Sends
<1>4. extras' \in 0 .. MaxExtras
  BY PppConstants DEF SendsOther, IInv, TypeOK
<1> HIDE DEF e
<1> QED
  BY <1>1, <1>2, <1>3, <1>4, SaidStep DEF SendsOther, IInv, TypeOK

\* What the gateway takes is a packet.
LEMMA TakesFacts ==
  ASSUME IInv, NEW p, Takes(p)
  PROVE  /\ p \in Packet /\ toGateway # <<>> /\ p = Head(toGateway) /\ toGateway' = Tail(toGateway)
         /\ toGateway' \in Seq(Packet)
         /\ UNCHANGED <<phase, torn, mru, peerMru, ip, acked, started, opens, asks, asked>>
         /\ \A M : Free(toGateway, M) => Free(toGateway', M) /\ p \notin M
         /\ \A M : Only(toGateway, M) =>
                    Only(toGateway', M) /\ (p \in M => Free(toGateway', M))
         /\ \A M : ~Free(toGateway, M) /\ p \notin M => ~Free(toGateway', M)
         /\ \A M, L : Behind(toGateway, M, L) =>
                       p \notin M /\ (p \notin L => Behind(toGateway', M, L))
<1>1. /\ toGateway # <<>> /\ p = Head(toGateway) /\ toGateway' = Tail(toGateway)
      /\ UNCHANGED <<phase, torn, mru, peerMru, ip, acked, started, opens, asks, asked>>
  BY DEF Takes, client
<1> QED
  BY <1>1, QueueTypes, TailKeeps

\* Value and Begun are the client's.
LEMMA ClientKeepsValue ==
  ASSUME UNCHANGED <<phase, mru, ip, started>>, NEW proto \in Protocol
  PROVE  Value(proto)' = Value(proto) /\ Begun(proto)' = Begun(proto)
  BY DEF Value, Begun

\* A packet is taken without an answer.
LEMMA TakenStep ==
  ASSUME IInv, NEW p, Takes(p),
         UNCHANGED <<toClient, agreed, refusals, refused, extras>>,
         confirmed \subseteq confirmed', confirmed' \subseteq asked,
         p \in AcksOf("lcp") => "lcp" \in confirmed'
  PROVE  IInv'
<1> USE QueueTypes, TakesFacts
<1>1. TypeOK'
  BY DEF IInv, TypeOK
<1>2. ASSUME NEW proto \in Protocol PROVE (OneUnderWay(proto) /\ Current(proto) /\ OnlyAsked(proto))'
  <2>1. OneUnderWay(proto) /\ Current(proto) /\ OnlyAsked(proto)
    BY DEF IInv
  <2>2. Value(proto)' = Value(proto) /\ Begun(proto)' = Begun(proto)
    BY ClientKeepsValue
  <2>3. OneUnderWay(proto)'
    BY <2>1, <2>2 DEF OneUnderWay
  <2>4. Current(proto)'
    BY <2>1, <2>2 DEF Current
  <2>5. OnlyAsked(proto)'
    BY <2>1 DEF OnlyAsked
  <2> QED
    BY <2>3, <2>4, <2>5
<1>3. Heeded'
  BY DEF IInv, Heeded
<1>4. LcpFirst'
  <2>1. GatewayLcpOpen => GatewayLcpOpen'
    BY DEF GatewayLcpOpen
  <2>2. LcpFirst
    BY DEF IInv
  <2>3. "lcp" \in confirmed' \/ p \notin AcksOf("lcp")
    OBVIOUS
  <2>4. "lcp" \in confirmed => "lcp" \in confirmed'
    OBVIOUS
  <2>5. <<"peer", "lcp">> \in acked' =>
          "lcp" \in confirmed' \/ ~Free(toGateway', AcksOf("lcp"))
    BY <2>2, <2>3, <2>4 DEF LcpFirst
  <2>6. \/ Free(toGateway', Ipcp)
        \/ agreed'.lcp # None /\ ("lcp" \in confirmed' \/ Behind(toGateway', Ipcp, AcksOf("lcp")))
    BY <2>2, <2>3, <2>4 DEF LcpFirst
  <2> QED
    BY <2>1, <2>2, <2>5, <2>6 DEF LcpFirst
<1>5. DoneIsSettled'
  BY DEF IInv, DoneIsSettled
<1> QED
  BY <1>1, <1>2, <1>3, <1>4, <1>5 DEF IInv

\* A request of the client is taken and answered with e.
LEMMA AnsweredStep ==
  ASSUME IInv, NEW p, Takes(p), p.code = "request",
         NEW e \in Packet, toClient' = Append(toClient, e), e \in Replies(p.proto),
         UNCHANGED <<confirmed, extras>>,
         p.proto = "ipcp" => GatewayLcpOpen,
         IF e.code = "ack" THEN agreed' = [agreed EXCEPT ![p.proto] = p.data] ELSE UNCHANGED agreed,
         refused' \subseteq Protocol, refusals' \in 0 .. MaxRefusals
  PROVE  IInv'
<1> USE QueueTypes, TakesFacts
<1>1. p \in Packet /\ p.proto \in Protocol
  BY PacketFields
<1>2. p \in Requests(p.proto) /\ p \notin AcksOf("lcp")
  BY <1>1, Kinds DEF Protocol
<1>3. /\ OneUnderWay(p.proto) /\ Current(p.proto)
      /\ Value(p.proto)' = Value(p.proto) /\ Begun(p.proto)' = Begun(p.proto)
  BY <1>1, ClientKeepsValue DEF IInv
<1>4. p.data = Value(p.proto)
  <2>1. p \notin RequestsBut(p.proto, Value(p.proto))
    BY <1>3 DEF Current
  <2> QED
    BY <1>1, <1>2, <2>1, Kinds
<1>5. e.proto = p.proto /\ e.code \in {"ack", "nak", "reject"}
  BY <1>1, Kinds
<1>6. agreed \in [lcp : Mrus \cup {None}, ipcp : IpOptions \cup {None}]
  BY DEF IInv, TypeOK
<1>7. agreed' \in [lcp : Mrus \cup {None}, ipcp : IpOptions \cup {None}]
  BY <1>1, <1>2, <1>6, PacketFields DEF Protocol
<1>8. /\ \A x \in Protocol : x # p.proto => agreed'[x] = agreed[x]
      /\ e.code = "ack" => agreed'[p.proto] = p.data
      /\ e.code # "ack" => agreed' = agreed
  BY <1>1, <1>6 DEF Protocol
<1>9. /\ toClient' \in Seq(Packet)
      /\ \A M : Free(toClient', M) <=> Free(toClient, M) /\ e \notin M
      /\ \A M : Only(toClient, M) /\ (Free(toClient, M) \/ e \notin M) => Only(toClient', M)
  BY AppendKeeps
<1>10. TypeOK'
  BY <1>7, <1>9 DEF IInv, TypeOK
<1>11. ASSUME NEW proto \in Protocol PROVE OnlyAsked(proto)'
  <2>1. e \notin Requests(proto)
    BY <1>5, Kinds
  <2> QED
    BY <1>9, <2>1 DEF IInv, OnlyAsked
<1>12. ASSUME NEW proto \in Protocol PROVE (OneUnderWay(proto) /\ Current(proto) /\ OnlyAsked(proto))'
  <2>1. CASE proto = p.proto
    <3>1. Free(toGateway', Requests(proto)) /\ Free(toClient, Replies(proto))
      BY <1>2, <1>3, <2>1 DEF OneUnderWay
    <3>2. ~(<<"our", proto>> \in acked \/ ~Begun(proto))
      BY <1>2, <1>3, <2>1 DEF OneUnderWay
    <3>3. OneUnderWay(proto)'
      BY <1>3, <1>9, <2>1, <3>1, <3>2 DEF OneUnderWay
    <3>4. e.code # "ack" => e \notin AcksOf(proto)
      BY Kinds
    <3>5. Current(proto)'
      BY <1>3, <1>4, <1>8, <1>9, <2>1, <3>4 DEF Current
    <3> QED
      BY <1>11, <3>3, <3>5
  <2>2. CASE proto # p.proto
    <3>1. e \notin Replies(proto) /\ e \notin AcksOf(proto)
      BY <1>5, <2>2, Kinds
    <3>2. OneUnderWay(proto) /\ Current(proto)
      BY DEF IInv
    <3>3. Value(proto)' = Value(proto) /\ Begun(proto)' = Begun(proto)
      BY ClientKeepsValue
    <3>4. OneUnderWay(proto)'
      BY <1>9, <3>1, <3>2, <3>3 DEF OneUnderWay
    <3>5. agreed'[proto] = agreed[proto]
      BY <1>8, <2>2
    <3>6. Current(proto)'
      BY <1>9, <3>1, <3>2, <3>3, <3>5 DEF Current
    <3> QED
      BY <1>11, <3>4, <3>6
  <2> QED
    BY <2>1, <2>2
<1>13. Heeded'
  <2>1. e \notin RequestsBut("lcp", asks)
    BY <1>5, Kinds DEF Protocol
  <2> QED
    BY <1>9, <2>1 DEF IInv, Heeded
<1>14. agreed.lcp # None => agreed'.lcp # None
  <2>1. p.proto = "lcp" => p.data # None
    BY <1>4, NoneIsApart DEF Value, IInv, TypeOK
  <2> QED
    BY <1>8, <1>1, <2>1 DEF Protocol
<1>15. LcpFirst'
  <2>1. GatewayLcpOpen => GatewayLcpOpen'
    BY <1>14 DEF GatewayLcpOpen
  <2>2. LcpFirst
    BY DEF IInv
  <2>3. GatewayLcpOpen \/ e \notin IpcpTalk
    BY <1>1, <1>5, Kinds DEF Protocol
  <2>4. GatewayLcpOpen' \/ Free(toClient', IpcpTalk)
    BY <1>9, <2>1, <2>2, <2>3 DEF LcpFirst
  <2>5. <<"peer", "lcp">> \in acked' =>
          "lcp" \in confirmed' \/ ~Free(toGateway', AcksOf("lcp"))
    BY <1>2, <2>2 DEF LcpFirst
  <2>6. \/ Free(toGateway', Ipcp)
        \/ agreed'.lcp # None /\ ("lcp" \in confirmed' \/ Behind(toGateway', Ipcp, AcksOf("lcp")))
    BY <1>2, <1>14, <2>2 DEF LcpFirst
  <2> QED
    BY <2>4, <2>5, <2>6 DEF LcpFirst
<1>16. DoneIsSettled'
  BY DEF IInv, DoneIsSettled
<1> QED
  BY <1>10, <1>12, <1>13, <1>15, <1>16 DEF IInv

LEMMA GatewayStep ==
  ASSUME IInv, Gateway
  PROVE  IInv'
<1>1. ASSUME NEW proto \in Protocol, Asks(proto) PROVE IInv'
  BY <1>1, AsksStep
<1>2. ASSUME NEW proto \in Protocol, NEW code \in {"echo", "other"}, SendsOther(proto, code)
      PROVE  IInv'
  BY <1>2, SendsOtherStep
<1>3. ASSUME NEW p, TakesAck(p) PROVE IInv'
  <2>1. Takes(p) /\ confirmed' = confirmed \cup {p.proto} /\ p.code = "ack"
    BY <1>3 DEF TakesAck
  <2>2. p \in Packet /\ p.proto \in Protocol /\ p \in AcksOf(p.proto)
    BY <2>1, TakesFacts, PacketFields, Kinds
  <2>3. p.proto \in asked
    BY <2>1, <2>2, TakesFacts DEF IInv, OnlyAsked
  <2>4. confirmed' \subseteq asked /\ confirmed \subseteq confirmed'
    BY <2>1, <2>3 DEF IInv, TypeOK
  <2>5. p \in AcksOf("lcp") => "lcp" \in confirmed'
    BY <2>1, <2>2, Kinds DEF Protocol
  <2> QED
    BY <1>3, <2>1, <2>4, <2>5, TakenStep DEF TakesAck
<1>4. ASSUME NEW p, Drops(p) PROVE IInv'
  <2>1. Takes(p) /\ UNCHANGED <<toClient, confirmed, agreed, refusals, refused, extras>>
    BY <1>4 DEF Drops
  <2>2. p \in Packet
    BY <2>1, TakesFacts
  <2>3. p \notin AcksOf("lcp")
    BY <1>4, <2>2, Kinds DEF Drops, Protocol
  <2>4. confirmed' \subseteq asked
    BY <2>1 DEF IInv, TypeOK
  <2> QED
    BY <2>1, <2>3, <2>4, TakenStep
<1>5. ASSUME NEW p, Agrees(p) PROVE IInv'
  <2>1. Takes(p) /\ p.code = "request" /\ (p.proto = "ipcp" => GatewayLcpOpen)
    BY <1>5 DEF Agrees
  <2> DEFINE e == Pkt(p.proto, "ack", p.data)
  <2>2. p \in Packet /\ p.proto \in Protocol
    BY <2>1, TakesFacts, PacketFields
  <2>3. e \in Packet
    BY <2>1, <2>2, PacketFields, PacketsMade DEF Protocol
  <2>4. e.proto = p.proto /\ e.code = "ack"
    BY PktFields
  <2>5. e \in Replies(p.proto)
    BY <2>2, <2>3, <2>4, Kinds
  <2>6. /\ toClient' = Append(toClient, e) /\ agreed' = [agreed EXCEPT ![p.proto] = p.data]
        /\ UNCHANGED <<confirmed, refusals, refused, extras>>
    BY <1>5 DEF Agrees, Sends
  <2>7. refused' \subseteq Protocol /\ refusals' \in 0 .. MaxRefusals
    BY <2>6 DEF IInv, TypeOK
  <2> HIDE DEF e
  <2> QED
    BY <2>1, <2>3, <2>4, <2>5, <2>6, <2>7, AnsweredStep
<1>6. ASSUME NEW p, NEW code \in {"nak", "reject"}, NEW data, Refuses(p, code, data),
             IF code = "reject" THEN data = None
             ELSE data \in IF p.proto = "lcp" THEN Mrus ELSE PartOfIp
      PROVE  IInv'
  <2>1. Takes(p) /\ p.code = "request" /\ (p.proto = "ipcp" => GatewayLcpOpen)
    BY <1>6 DEF Refuses
  <2> DEFINE e == Pkt(p.proto, code, data)
  <2>2. p \in Packet /\ p.proto \in Protocol
    BY <2>1, TakesFacts, PacketFields
  <2>3. e \in Packet
    BY <1>6, <2>2, PacketsMade DEF Protocol
  <2>4. e.proto = p.proto /\ e.code = code
    BY PktFields
  <2>5. e \in Replies(p.proto) /\ e.code # "ack"
    BY <2>2, <2>3, <2>4, Kinds
  <2>6. /\ toClient' = Append(toClient, e)
        /\ UNCHANGED <<confirmed, agreed, extras>>
        /\ refusals < MaxRefusals /\ refusals' = refusals + 1
    BY <1>6 DEF Refuses, Sends
  <2>7. refusals' \in 0 .. MaxRefusals
    BY <2>6, PppConstants DEF IInv, TypeOK
  <2>8. refused' \subseteq Protocol
    BY <1>6, <2>2 DEF Refuses, IInv, TypeOK
  <2> HIDE DEF e
  <2> QED
    BY <2>1, <2>3, <2>5, <2>6, <2>7, <2>8, AnsweredStep
<1> QED
  BY <1>1, <1>2, <1>3, <1>4, <1>5, <1>6, Zenon DEF Gateway

-----------------------------------------------------------------------------
(* The client's steps *)

\* What the client reads is a packet.
LEMMA ReadFacts ==
  ASSUME IInv, NEW p, Read(p)
  PROVE  /\ p \in Packet /\ p.proto \in Protocol /\ toClient' \in Seq(Packet)
         /\ phase = "negotiating"
         /\ UNCHANGED <<phase, torn, opens, asks, asked, confirmed, agreed, refusals, refused, extras>>
         /\ \A M : Free(toClient, M) => Free(toClient', M) /\ p \notin M
         /\ \A M : Only(toClient, M) =>
                    Only(toClient', M) /\ (p \in M => Free(toClient', M))
<1>1. /\ toClient # <<>> /\ p = Head(toClient) /\ toClient' = Tail(toClient)
      /\ phase = "negotiating"
      /\ UNCHANGED <<phase, torn, opens, asks, asked, confirmed, agreed, refusals, refused, extras>>
  BY DEF Read, gateway
<1>2. p \in Packet
  BY <1>1, QueueTypes, TailKeeps
<1> QED
  BY <1>1, <1>2, QueueTypes, TailKeeps, PacketFields

\* IPCP starts when LCP has just opened.
Starts == ~started /\ LcpOpened(acked')
First == Pkt("ipcp", "request", ip')

(* What is written when a frame ends: s, if some packet answers, and then  *)
(* the first request of IPCP.                                              *)
LEMMA FinishFacts ==
  ASSUME IInv, ip' \in IpOptions, NEW some \in BOOLEAN, NEW s \in Packet, NEW acks,
         Finish(IF some THEN <<s>> ELSE <<>>, acks)
  PROVE  /\ acked' = acks /\ started' = (started \/ LcpOpened(acked')) /\ started' \in BOOLEAN
         /\ First \in Packet /\ toGateway' \in Seq(Packet)
         /\ \A M : Free(toGateway', M) <=>
                /\ Free(toGateway, M)
                /\ some => s \notin M
                /\ Starts => First \notin M
         /\ \A M : /\ Only(toGateway, M)
                   /\ (some => s \notin M) \/ (Starts => First \notin M)
                   /\ Free(toGateway, M) \/ ((some => s \notin M) /\ (Starts => First \notin M))
                   => Only(toGateway', M)
         /\ \A M, L : /\ Behind(toGateway, M, L)
                      /\ some => s \notin M
                      /\ Starts => First \notin M \/ ~Free(toGateway, L) \/ (some /\ s \in L)
                      => Behind(toGateway', M, L)
<1> DEFINE sent == IF some THEN <<s>> ELSE <<>>
           g1 == IF some THEN Append(toGateway, s) ELSE toGateway
<1>1. toGateway \in Seq(Packet) /\ First \in Packet
  BY QueueTypes, PacketsMade DEF First
<1>2. g1 = toGateway \o sent
  BY <1>1, ConcatOne
<1>3. /\ g1 \in Seq(Packet)
      /\ \A M : Free(g1, M) <=> Free(toGateway, M) /\ (some => s \notin M)
      /\ \A M : Only(toGateway, M) /\ (Free(toGateway, M) \/ (some => s \notin M)) => Only(g1, M)
      /\ \A M, L : Behind(toGateway, M, L) /\ (some => s \notin M) => Behind(g1, M, L)
  BY <1>1, AppendKeeps
<1>4. acked' = acks /\ started' = (started \/ LcpOpened(acked')) /\ started' \in BOOLEAN
  BY DEF Finish, IInv, TypeOK
<1>5. toGateway' = (toGateway \o sent) \o (IF Starts THEN <<First>> ELSE <<>>)
  <2>1. (started' /\ ~started) <=> Starts
    BY <1>4 DEF Starts, IInv, TypeOK
  <2>2. toGateway' = toGateway \o sent \o (IF started' /\ ~started THEN <<First>> ELSE <<>>)
    BY DEF Finish, First
  <2> QED
    BY <2>1, <2>2
<1> HIDE DEF g1
<1>6. toGateway' = IF Starts THEN Append(g1, First) ELSE g1
  BY <1>1, <1>2, <1>3, <1>5, ConcatOne
<1>7. /\ toGateway' \in Seq(Packet)
      /\ \A M : Free(toGateway', M) <=> Free(g1, M) /\ (Starts => First \notin M)
      /\ \A M : Only(g1, M) /\ (Free(g1, M) \/ (Starts => First \notin M)) => Only(toGateway', M)
      /\ \A M, L : Behind(g1, M, L) /\ (Starts => First \notin M \/ ~Free(g1, L))
                  => Behind(toGateway', M, L)
  BY <1>1, <1>3, <1>6, AppendKeeps
<1>8. \A M : Free(toGateway', M) <=>
                /\ Free(toGateway, M)
                /\ some => s \notin M
                /\ Starts => First \notin M
  BY <1>3, <1>7
<1>9. \A M : /\ Only(toGateway, M)
             /\ (some => s \notin M) \/ (Starts => First \notin M)
             /\ Free(toGateway, M) \/ ((some => s \notin M) /\ (Starts => First \notin M))
             => Only(toGateway', M)
  BY <1>3, <1>7
<1>10. \A M, L : /\ Behind(toGateway, M, L)
                 /\ some => s \notin M
                 /\ Starts => First \notin M \/ ~Free(toGateway, L) \/ (some /\ s \in L)
                 => Behind(toGateway', M, L)
  <2> SUFFICES ASSUME NEW M, NEW L, Behind(toGateway, M, L), some => s \notin M,
                      Starts => First \notin M \/ ~Free(toGateway, L) \/ (some /\ s \in L)
               PROVE  Behind(toGateway', M, L)
    OBVIOUS
  <2>1. Behind(g1, M, L)
    BY <1>3
  <2>2. ~Free(toGateway, L) \/ (some /\ s \in L) => ~Free(g1, L)
    BY <1>3
  <2> QED
    BY <1>7, <2>1, <2>2
<1> QED
  BY <1>1, <1>4, <1>7, <1>8, <1>9, <1>10, Zenon

(* A frame p is read and handled: s answers it, if some packet does.  What *)
(* the client has changes with a nak only, and what is acked with the ack. *)
LEMMA HandledStep ==
  ASSUME IInv, NEW p, Read(p), NEW some \in BOOLEAN, NEW s \in Packet, NEW acks,
         Finish(IF some THEN <<s>> ELSE <<>>, acks),
         mru' \in Mrus, ip' \in IpOptions, peerMru' \in Mrus \cup {None}, acks \subseteq Acks,
         acked \subseteq acks,
         some => /\ s.code \in {"request", "ack"} \/ (s.code = "reply" /\ s.proto = "lcp")
                 /\ s.code = "request" => /\ p \in Replies(s.proto) /\ p.code # "ack"
                                          /\ s.data = Value(s.proto)'
                 /\ s.code = "ack" => p \in Requests(s.proto),
         p.code = "request" => some /\ s \in AcksOf(p.proto),
         \A x \in Protocol : /\ Value(x)' # Value(x) => p \in Replies(x) /\ p.code # "ack"
                             /\ <<"our", x>> \in acks => <<"our", x>> \in acked \/ p \in AcksOf(x)
                             /\ <<"peer", x>> \in acks => <<"peer", x>> \in acked \/ p \in Requests(x),
         IF p \in Requests("lcp") /\ asks # None THEN p.data = asks => peerMru' = asks
                                               ELSE peerMru' = peerMru \/ asks = None
  PROVE  IInv'
<1> USE ReadFacts
<1>1. /\ acked' = acks /\ started' = (started \/ LcpOpened(acked')) /\ started' \in BOOLEAN
      /\ First \in Packet /\ toGateway' \in Seq(Packet)
  BY FinishFacts
<1>2. \A M : Free(toGateway', M) <=>
               /\ Free(toGateway, M)
               /\ some => s \notin M
               /\ Starts => First \notin M
  BY FinishFacts
<1>3. \A M : /\ Only(toGateway, M)
             /\ (some => s \notin M) \/ (Starts => First \notin M)
             /\ Free(toGateway, M) \/ ((some => s \notin M) /\ (Starts => First \notin M))
             => Only(toGateway', M)
  BY FinishFacts
<1>4. \A M, L : /\ Behind(toGateway, M, L)
                /\ some => s \notin M
                /\ Starts => First \notin M \/ ~Free(toGateway, L) \/ (some /\ s \in L)
                => Behind(toGateway', M, L)
  BY FinishFacts
<1>5. TypeOK'
  BY <1>1 DEF IInv, TypeOK
<1>6. First.proto = "ipcp" /\ First.code = "request" /\ First.data = ip'
  BY PktFields DEF First
<1>7. ASSUME NEW x \in Protocol PROVE Begun(x) => Begun(x)'
  BY <1>1 DEF Begun
<1>8. Starts => ~Begun("ipcp") /\ started'
  BY <1>1 DEF Starts, Begun
<1>9. \A x \in Protocol : /\ First \in Requests(x) <=> x = "ipcp"
                          /\ First \notin AcksOf(x)
                          /\ First \notin RequestsBut(x, Value(x)')
  BY <1>1, <1>6, Kinds DEF Value, Protocol
<1>10. \A x \in Protocol : some => /\ s \in Requests(x) => p \in Replies(x) /\ p.code # "ack"
                                   /\ s \in AcksOf(x) => p \in Requests(x)
                                   /\ s \notin RequestsBut(x, Value(x)')
  BY Kinds
<1>11. ASSUME NEW x \in Protocol PROVE OneUnderWay(x)'
  <2>1. OneUnderWay(x)
    BY DEF IInv
  <2>2. CASE p \in Replies(x)
    <3>1. /\ Free(toClient', Replies(x)) /\ Free(toGateway, Requests(x))
          /\ Begun(x) /\ <<"our", x>> \notin acked /\ Only(toClient', Replies(x))
      BY <2>1, <2>2 DEF OneUnderWay
    <3>2. Starts => x # "ipcp"
      BY <1>8, <3>1
    <3>3. Starts => First \notin Requests(x)
      BY <1>9, <3>2
    <3>4. Only(toGateway', Requests(x))
      <4>1. Only(toGateway, Requests(x))
        BY <2>1 DEF OneUnderWay
      <4> QED
        BY <1>3, <3>1, <3>3, <4>1
    <3>5. <<"our", x>> \in acked' => Free(toGateway', Requests(x))
      <4>1. <<"our", x>> \in acked' => p \in AcksOf(x)
        BY <1>1, <3>1
      <4>2. p \in AcksOf(x) => (some => s \notin Requests(x))
        BY <1>10, Kinds
      <4> QED
        BY <1>2, <3>1, <3>3, <4>1, <4>2
    <3>6. Begun(x)'
      BY <1>7, <3>1
    <3> QED
      BY <3>1, <3>4, <3>5, <3>6 DEF OneUnderWay
  <2>3. CASE p \notin Replies(x)
    <3>1. some => s \notin Requests(x)
      BY <1>10, <2>3
    <3>2. p \notin AcksOf(x)
      BY <2>3, Kinds
    <3>3. <<"our", x>> \in acked' => <<"our", x>> \in acked
      BY <1>1, <3>2
    <3>4. Starts /\ First \in Requests(x) =>
            /\ Free(toGateway, Requests(x)) /\ Free(toClient, Replies(x))
            /\ Begun(x)' /\ <<"our", x>> \notin acked
      BY <1>8, <1>9, <2>1 DEF OneUnderWay, Begun
    <3>5. Only(toGateway', Requests(x)) /\ Only(toClient', Replies(x))
      BY <1>3, <2>1, <3>1, <3>4 DEF OneUnderWay
    <3>6. Free(toGateway', Requests(x)) \/ Free(toClient', Replies(x))
      BY <1>2, <2>1, <3>1, <3>4 DEF OneUnderWay
    <3>7. <<"our", x>> \in acked' \/ ~Begun(x)' =>
            Free(toGateway', Requests(x)) /\ Free(toClient', Replies(x))
      BY <1>2, <1>7, <2>1, <3>1, <3>3, <3>4 DEF OneUnderWay
    <3>8. <<"our", x>> \in acked' => Begun(x)'
      BY <1>7, <2>1, <3>3 DEF OneUnderWay
    <3> QED
      BY <3>5, <3>6, <3>7, <3>8 DEF OneUnderWay
  <2> QED
    BY <2>2, <2>3
<1>12. ASSUME NEW x \in Protocol PROVE Current(x)'
  <2>1. OneUnderWay(x) /\ Current(x)
    BY DEF IInv
  <2>2. Value(x)' # Value(x) =>
          Free(toGateway, Requests(x)) /\ Free(toClient', Replies(x)) /\ <<"our", x>> \notin acked
    BY <2>1 DEF OneUnderWay
  <2>3. RequestsBut(x, Value(x)') \subseteq Requests(x) /\ AcksOf(x) \subseteq Replies(x)
    BY DEF RequestsBut, AcksOf, Replies
  <2>4. Free(toGateway, RequestsBut(x, Value(x)'))
    <3>1. CASE Value(x)' = Value(x)
      BY <2>1, <3>1 DEF Current
    <3>2. CASE Value(x)' # Value(x)
      BY <2>2, <2>3, <3>2, FreeOfLess
    <3> QED
      BY <3>1, <3>2
  <2>5. Free(toGateway', RequestsBut(x, Value(x)'))
    BY <1>2, <1>9, <1>10, <2>4
  <2>6. agreed'[x] = Value(x)' \/ (Free(toClient', AcksOf(x)) /\ <<"our", x>> \notin acked')
    <3>1. CASE p \in AcksOf(x)
      <4>1. Value(x)' = Value(x)
        BY <3>1, Kinds
      <4>2. agreed[x] = Value(x)
        BY <2>1, <3>1 DEF Current
      <4> QED
        BY <4>1, <4>2
    <3>2. CASE p \notin AcksOf(x) /\ Value(x)' = Value(x)
      BY <1>1, <2>1, <3>2 DEF Current
    <3>3. CASE p \notin AcksOf(x) /\ Value(x)' # Value(x)
      BY <1>1, <2>2, <2>3, <3>3, FreeOfLess
    <3> QED
      BY <3>1, <3>2, <3>3
  <2> QED
    BY <2>5, <2>6 DEF Current
<1>13. ASSUME NEW x \in Protocol PROVE OnlyAsked(x)'
  BY <1>2, <1>9, <1>10 DEF IInv, OnlyAsked
<1>14. Heeded'
  <2>1. p \in Requests("lcp") => p.data = asks
    BY Kinds DEF IInv, Heeded, Protocol
  <2>2. <<"peer", "lcp">> \in acked' => <<"peer", "lcp">> \in acked \/ p \in Requests("lcp")
    BY <1>1 DEF Protocol
  <2>3. <<"peer", "lcp">> \in acked' /\ asks # None => peerMru' = asks
    BY <2>1, <2>2 DEF IInv, Heeded
  <2> QED
    BY <2>3 DEF IInv, Heeded
<1>15. LcpFirst'
  <2>1. LcpFirst /\ GatewayLcpOpen' = GatewayLcpOpen
    BY DEF IInv, GatewayLcpOpen
  <2>2. GatewayLcpOpen' \/ Free(toClient', IpcpTalk)
    BY <2>1 DEF LcpFirst
  <2>3. "lcp" \in Protocol /\ "ipcp" \in Protocol
    BY DEF Protocol
  <2>4. <<"peer", "lcp">> \in acked' => "lcp" \in confirmed \/ ~Free(toGateway', AcksOf("lcp"))
    <3>1. p \in Requests("lcp") => some /\ s \in AcksOf("lcp")
      BY <2>3, Kinds
    <3> QED
      BY <1>1, <1>2, <2>1, <2>3, <3>1 DEF LcpFirst
  <2>5. \/ Free(toGateway', Ipcp)
        \/ agreed.lcp # None /\ ("lcp" \in confirmed \/ Behind(toGateway', Ipcp, AcksOf("lcp")))
    <3>1. CASE some /\ s \in Ipcp
      <4>1. p \in IpcpTalk
        BY <2>3, <3>1, Kinds
      <4>2. GatewayLcpOpen
        BY <2>1, <4>1 DEF LcpFirst
      <4> QED
        BY <4>2 DEF GatewayLcpOpen
    <3>2. CASE (some => s \notin Ipcp) /\ Starts
      <4>1. <<"our", "lcp">> \in acked' /\ <<"peer", "lcp">> \in acked'
        BY <3>2 DEF Starts, LcpOpened
      <4>2. agreed.lcp # None
        <5>1. agreed'["lcp"] = Value("lcp")'
          BY <1>12, <2>3, <4>1 DEF Current
        <5>2. Value("lcp")' = mru' /\ mru' # None
          BY NoneIsApart DEF Value
        <5> QED
          BY <5>1, <5>2
      <4>3. "lcp" \in confirmed \/ Behind(toGateway, Ipcp, AcksOf("lcp"))
        BY <2>1 DEF LcpFirst, Free, Behind
      <4>4. "lcp" \in confirmed \/ ~Free(toGateway, AcksOf("lcp")) \/ (some /\ s \in AcksOf("lcp"))
        BY <1>2, <1>9, <2>3, <2>4, <4>1
      <4> QED
        BY <1>4, <3>2, <4>2, <4>3, <4>4
    <3>3. CASE (some => s \notin Ipcp) /\ ~Starts
      BY <1>2, <1>4, <2>1, <3>3 DEF LcpFirst
    <3> QED
      BY <3>1, <3>2, <3>3
  <2> QED
    BY <2>2, <2>4, <2>5 DEF LcpFirst
<1>16. DoneIsSettled'
  BY DEF DoneIsSettled
<1> QED
  BY <1>5, <1>11, <1>12, <1>13, <1>14, <1>15, <1>16 DEF IInv

\* Any packet, where none is sent.
LEMMA SomePacket == Pkt("lcp", "other", None) \in Packet
  BY PacketsMade DEF Protocol

\* What a request of the gateway asks for is acked, and the MRU is kept.
LEMMA ReadRequestStep ==
  ASSUME IInv, NEW p, ReadRequest(p)
  PROVE  IInv'
<1> DEFINE s == Pkt(p.proto, "ack", p.data)
           acks == acked \cup {<<"peer", p.proto>>}
<1>1. Read(p) /\ p.code = "request" /\ UNCHANGED <<mru, ip>>
  BY DEF ReadRequest
<1>2. p \in Packet /\ p.proto \in Protocol /\ phase' = phase
  BY <1>1, ReadFacts
<1>3. s \in Packet
  BY <1>1, <1>2, PacketFields, PacketsMade DEF Protocol
<1>4. s.proto = p.proto /\ s.code = "ack"
  BY PktFields
<1>5. Finish(IF TRUE THEN <<s>> ELSE <<>>, acks)
  BY DEF ReadRequest
<1>6. mru' \in Mrus /\ ip' \in IpOptions /\ acks \subseteq Acks /\ acked \subseteq acks
  BY <1>1, <1>2 DEF IInv, TypeOK, Acks
<1>7. peerMru' = IF p.proto = "lcp" /\ p.data # None THEN p.data ELSE peerMru
  BY DEF ReadRequest
<1>8. peerMru' \in Mrus \cup {None}
  BY <1>1, <1>2, <1>7, PacketFields DEF IInv, TypeOK
<1>9. p \in Requests(s.proto) /\ s \in AcksOf(p.proto)
  BY <1>1, <1>2, <1>3, <1>4, Kinds
<1>10. \A x \in Protocol : /\ Value(x)' = Value(x)
                           /\ <<"our", x>> \in acks => <<"our", x>> \in acked
                           /\ <<"peer", x>> \in acks => <<"peer", x>> \in acked \/ p \in Requests(x)
  BY <1>1, <1>4, <1>9 DEF Value
<1>11. IF p \in Requests("lcp") /\ asks # None THEN p.data = asks => peerMru' = asks
                                               ELSE peerMru' = peerMru \/ asks = None
  BY <1>1, <1>2, <1>7, Kinds DEF Protocol
<1> HIDE DEF s, acks
<1>12. /\ s.code \in {"request", "ack"}
       /\ s.code # "request"
       /\ s.code = "ack" => p \in Requests(s.proto)
  BY <1>4, <1>9
<1>13. \A x \in Protocol : /\ Value(x)' # Value(x) => p \in Replies(x) /\ p.code # "ack"
                           /\ <<"our", x>> \in acks => <<"our", x>> \in acked \/ p \in AcksOf(x)
                           /\ <<"peer", x>> \in acks => <<"peer", x>> \in acked \/ p \in Requests(x)
  BY <1>10
<1> QED
  BY <1>1, <1>3, <1>5, <1>6, <1>8, <1>9, <1>11, <1>12, <1>13, HandledStep

LEMMA ReadAckStep ==
  ASSUME IInv, NEW p, ReadAck(p)
  PROVE  IInv'
<1> DEFINE s == Pkt("lcp", "other", None)
           acks == acked \cup {<<"our", p.proto>>}
<1>1. Read(p) /\ p.code = "ack" /\ UNCHANGED <<mru, peerMru, ip>>
  BY DEF ReadAck
<1>2. p \in Packet /\ p.proto \in Protocol
  BY <1>1, ReadFacts
<1>3. Finish(IF FALSE THEN <<s>> ELSE <<>>, acks)
  BY DEF ReadAck
<1>4. mru' \in Mrus /\ ip' \in IpOptions /\ peerMru' \in Mrus \cup {None}
      /\ acks \subseteq Acks /\ acked \subseteq acks
  BY <1>1, <1>2 DEF IInv, TypeOK, Acks
<1>5. p \in AcksOf(p.proto) /\ p \notin Requests("lcp")
  BY <1>1, <1>2, Kinds DEF Protocol
<1>6. \A x \in Protocol : /\ Value(x)' = Value(x)
                          /\ <<"our", x>> \in acks => <<"our", x>> \in acked \/ p \in AcksOf(x)
                          /\ <<"peer", x>> \in acks => <<"peer", x>> \in acked
  BY <1>1, <1>5 DEF Value
<1>7. s \in Packet
  BY SomePacket
<1> HIDE DEF s, acks
<1> QED
  BY <1>1, <1>3, <1>4, <1>5, <1>6, <1>7, HandledStep

\* What a nak names is taken over, the rest is kept.
LEMMA ReadNakStep ==
  ASSUME IInv, NEW p, ReadNak(p)
  PROVE  IInv'
<1> SUFFICES ASSUME NEW s, s = Pkt(p.proto, "request", IF p.proto = "lcp" THEN mru' ELSE ip')
             PROVE  IInv'
  OBVIOUS
<1>1. /\ Read(p) /\ p.code = "nak" /\ UNCHANGED peerMru
      /\ mru' = IF p.proto = "lcp" THEN p.data ELSE mru
      /\ ip' = IF p.proto = "ipcp"
               THEN [o \in Options |-> IF o \in DOMAIN p.data THEN p.data[o] ELSE ip[o]]
               ELSE ip
      /\ Finish(<<s>>, acked)
  BY DEF ReadNak
<1>2. p \in Packet /\ p.proto \in Protocol
  BY <1>1, ReadFacts
<1>3. mru' \in Mrus
  BY <1>1, <1>2, PacketFields DEF IInv, TypeOK
<1>4. ip' \in IpOptions
  <2>1. CASE p.proto = "ipcp"
    <3>1. p.data \in PartOfIp
      BY <1>1, <1>2, <2>1, PacketFields
    <3>2. PICK S \in SUBSET Options : p.data \in [S -> Values]
      BY <3>1 DEF PartOfIp
    <3>3. \A o \in Options : (IF o \in DOMAIN p.data THEN p.data[o] ELSE ip[o])
                               \in Values \cup {Unspecified}
      BY <3>2 DEF IInv, TypeOK, IpOptions
    <3> QED
      BY <1>1, <2>1, <3>3 DEF IpOptions
  <2>2. CASE p.proto # "ipcp"
    BY <1>1, <2>2 DEF IInv, TypeOK
  <2> QED
    BY <2>1, <2>2
<1>5. s \in Packet
  BY <1>2, <1>3, <1>4, PacketsMade DEF Protocol
<1>6. s.proto = p.proto /\ s.code = "request" /\ s.data = Value(s.proto)'
  BY PktFields DEF Value
<1>7. p \in Replies(s.proto) /\ p \notin Requests("lcp")
  BY <1>1, <1>2, <1>6, Kinds DEF Protocol
<1>8. \A x \in Protocol : Value(x)' # Value(x) => p \in Replies(x)
  BY <1>1, <1>2, Kinds DEF Value, Protocol
<1>9. peerMru' \in Mrus \cup {None} /\ acked \subseteq Acks
  BY <1>1 DEF IInv, TypeOK
<1>10. Finish(IF TRUE THEN <<s>> ELSE <<>>, acked)
  BY <1>1
<1>11. /\ s.code \in {"request", "ack"} /\ s.code # "ack"
       /\ s.code = "request" => /\ p \in Replies(s.proto) /\ p.code # "ack"
                                /\ s.data = Value(s.proto)'
  BY <1>1, <1>6, <1>7
<1>12. \A x \in Protocol : /\ Value(x)' # Value(x) => p \in Replies(x) /\ p.code # "ack"
                           /\ <<"our", x>> \in acked => <<"our", x>> \in acked \/ p \in AcksOf(x)
                           /\ <<"peer", x>> \in acked => <<"peer", x>> \in acked \/ p \in Requests(x)
  BY <1>1, <1>8
<1>13. /\ p.code # "request"
       /\ IF p \in Requests("lcp") /\ asks # None THEN p.data = asks => peerMru' = asks
                                                ELSE peerMru' = peerMru \/ asks = None
       /\ acked \subseteq acked /\ TRUE \in BOOLEAN
  BY <1>1, <1>7
<1> QED
  BY <1>1, <1>3, <1>4, <1>5, <1>7, <1>9, <1>10, <1>11, <1>12, <1>13, HandledStep

LEMMA ReadRejectStep ==
  ASSUME IInv, NEW p, ReadReject(p)
  PROVE  IInv'
<1> SUFFICES ASSUME NEW s, s = Pkt("lcp", "request", mru)
             PROVE  IInv'
  OBVIOUS
<1> DEFINE some == p.proto = "lcp"
<1>1. Read(p) /\ p.code = "reject" /\ UNCHANGED <<mru, peerMru, ip>>
  BY DEF ReadReject
<1>2. p \in Packet /\ p.proto \in Protocol
  BY <1>1, ReadFacts
<1>3. Finish(IF some THEN <<s>> ELSE <<>>, acked)
  BY DEF ReadReject
<1>4. mru' \in Mrus /\ ip' \in IpOptions /\ peerMru' \in Mrus \cup {None} /\ acked \subseteq Acks
  BY <1>1 DEF IInv, TypeOK
<1>5. s \in Packet
  BY PacketsMade DEF IInv, TypeOK
<1>6. s.proto = "lcp" /\ s.code = "request" /\ s.data = Value(s.proto)'
  BY <1>1, PktFields DEF Value
<1>7. (some => p \in Replies(s.proto)) /\ p \notin Requests("lcp")
  BY <1>1, <1>2, <1>6, Kinds DEF Protocol
<1>8. \A x \in Protocol : Value(x)' = Value(x)
  BY <1>1 DEF Value
<1>9. some \in BOOLEAN
  OBVIOUS
<1> HIDE DEF some
<1>10. some => /\ s.code \in {"request", "ack"} /\ s.code # "ack"
               /\ s.code = "request" => /\ p \in Replies(s.proto) /\ p.code # "ack"
                                        /\ s.data = Value(s.proto)'
  BY <1>1, <1>6, <1>7
<1>11. /\ p.code # "request"
       /\ IF p \in Requests("lcp") /\ asks # None THEN p.data = asks => peerMru' = asks
                                                ELSE peerMru' = peerMru \/ asks = None
       /\ acked \subseteq acked
  BY <1>1, <1>7
<1>12. \A x \in Protocol : /\ Value(x)' # Value(x) => p \in Replies(x) /\ p.code # "ack"
                           /\ <<"our", x>> \in acked => <<"our", x>> \in acked \/ p \in AcksOf(x)
                           /\ <<"peer", x>> \in acked => <<"peer", x>> \in acked \/ p \in Requests(x)
  BY <1>8
<1> QED
  BY <1>1, <1>3, <1>4, <1>5, <1>9, <1>10, <1>11, <1>12, HandledStep

LEMMA ReadOtherStep ==
  ASSUME IInv, NEW p, ReadOther(p)
  PROVE  IInv'
<1> DEFINE s == Pkt("lcp", "reply", None)
           some == p.code = "echo"
<1>1. Read(p) /\ p.code \in {"echo", "other"} /\ UNCHANGED <<mru, peerMru, ip>>
  BY DEF ReadOther
<1>2. p \in Packet /\ p.proto \in Protocol
  BY <1>1, ReadFacts
<1>3. Finish(IF some THEN <<s>> ELSE <<>>, acked)
  BY DEF ReadOther
<1>4. mru' \in Mrus /\ ip' \in IpOptions /\ peerMru' \in Mrus \cup {None} /\ acked \subseteq Acks
  BY <1>1 DEF IInv, TypeOK
<1>5. s \in Packet
  BY PacketsMade DEF Protocol
<1>6. s.proto = "lcp" /\ s.code = "reply"
  BY PktFields
<1>7. p \notin Requests("lcp")
  BY <1>1, <1>2, Kinds DEF Protocol
<1>8. \A x \in Protocol : Value(x)' = Value(x)
  BY <1>1 DEF Value
<1>9. some \in BOOLEAN
  OBVIOUS
<1> HIDE DEF s, some
<1> QED
  BY <1>1, <1>3, <1>4, <1>5, <1>6, <1>7, <1>8, <1>9, HandledStep

LEMMA ReadsStep ==
  ASSUME IInv, Reads
  PROVE  IInv'
  BY ReadRequestStep, ReadAckStep, ReadNakStep, ReadRejectStep, ReadOtherStep DEF Reads

\* The first request of LCP is the only one under way.
LEMMA OpenTunnelStep ==
  ASSUME IInv, OpenTunnel
  PROVE  IInv'
<1> DEFINE e == Pkt("lcp", "request", mru)
<1>1. /\ phase = "opening" /\ phase' \in {"negotiating", "failed"}
      /\ torn' \in BOOLEAN
      /\ UNCHANGED <<mru, peerMru, ip, acked, started, toClient, gateway>>
  BY DEF OpenTunnel
<1>2. e \in Packet
  BY PacketsMade DEF IInv, TypeOK
<1>3. e.proto = "lcp" /\ e.code = "request" /\ e.data = mru
  BY PktFields
<1>4. toGateway' = IF phase' = "negotiating" THEN Append(toGateway, e) ELSE toGateway
  BY DEF OpenTunnel
<1> HIDE DEF e
<1>5. /\ toGateway' \in Seq(Packet)
      /\ \A M : Free(toGateway, M) /\ e \notin M => Free(toGateway', M)
      /\ \A M : Only(toGateway, M) /\ (Free(toGateway, M) \/ e \notin M) => Only(toGateway', M)
      /\ \A M, L : Behind(toGateway, M, L) /\ e \notin M => Behind(toGateway', M, L)
      /\ \A M : ~Free(toGateway, M) => ~Free(toGateway', M)
  BY <1>2, <1>4, QueueTypes, AppendKeeps
<1>6. TypeOK'
  BY <1>1, <1>5 DEF IInv, TypeOK, gateway
<1>7. ASSUME NEW x \in Protocol PROVE (OneUnderWay(x) /\ Current(x) /\ OnlyAsked(x))'
  <2>1. OneUnderWay(x) /\ Current(x) /\ OnlyAsked(x)
    BY DEF IInv
  <2>2. Value(x)' = Value(x)
    BY <1>1 DEF Value
  <2>3. /\ e \in Requests(x) <=> x = "lcp"
        /\ e \notin AcksOf(x) /\ e \notin RequestsBut(x, Value(x))
    BY <1>2, <1>3, Kinds DEF Value, Protocol
  <2>4. x = "lcp" => ~Begun(x) /\ Begun(x)'
    BY <1>1 DEF Begun
  <2>5. x # "lcp" => Begun(x)' = Begun(x)
    BY <1>1 DEF Begun
  <2>6. x = "lcp" => /\ Free(toGateway, Requests(x)) /\ Free(toClient, Replies(x))
                     /\ <<"our", x>> \notin acked
    BY <2>1, <2>4 DEF OneUnderWay
  <2>7. OneUnderWay(x)'
    <3>1. CASE x = "lcp"
      BY <1>1, <1>5, <2>1, <2>4, <2>6, <3>1 DEF OneUnderWay
    <3>2. CASE x # "lcp"
      BY <1>1, <1>5, <2>1, <2>3, <2>5, <3>2 DEF OneUnderWay
    <3> QED
      BY <3>1, <3>2
  <2>8. Current(x)'
    BY <1>1, <1>5, <2>1, <2>2, <2>3 DEF Current, gateway
  <2>9. OnlyAsked(x)'
    BY <1>1, <1>5, <2>1, <2>3 DEF OnlyAsked, gateway
  <2> QED
    BY <2>7, <2>8, <2>9
<1>8. Heeded'
  BY <1>1 DEF IInv, Heeded, gateway
<1>9. LcpFirst'
  <2>1. e \notin Ipcp
    BY <1>2, <1>3, Kinds DEF Protocol
  <2>2. GatewayLcpOpen' = GatewayLcpOpen
    BY <1>1 DEF GatewayLcpOpen, gateway
  <2> QED
    BY <1>1, <1>5, <2>1, <2>2 DEF IInv, LcpFirst, gateway
<1>10. DoneIsSettled'
  BY <1>1 DEF DoneIsSettled
<1> QED
  BY <1>6, <1>7, <1>8, <1>9, <1>10 DEF IInv

\* The end changes nothing that is under way.
LEMMA EndStep ==
  ASSUME IInv, Settled \/ Fails
  PROVE  IInv'
<1>1. /\ phase' \in {"done", "failed"} /\ (phase' = "done" => acked = Acks)
      /\ UNCHANGED <<torn, mru, peerMru, ip, acked, started, toGateway, toClient, gateway>>
      /\ phase = "opening" => phase' = "failed"
  BY DEF Settled, Fails
<1>2. TypeOK'
  BY <1>1 DEF IInv, TypeOK, gateway
<1>3. ASSUME NEW x \in Protocol PROVE (OneUnderWay(x) /\ Current(x) /\ OnlyAsked(x))'
  <2>1. OneUnderWay(x) /\ Current(x) /\ OnlyAsked(x)
    BY DEF IInv
  <2>2. Value(x)' = Value(x) /\ (Begun(x) => Begun(x)')
    BY <1>1 DEF Value, Begun
  <2>3. OneUnderWay(x)'
    BY <1>1, <2>1, <2>2 DEF OneUnderWay
  <2> QED
    BY <1>1, <2>1, <2>2, <2>3 DEF Current, OnlyAsked, gateway
<1>4. (Heeded /\ LcpFirst /\ DoneIsSettled)'
  BY <1>1 DEF IInv, Heeded, LcpFirst, DoneIsSettled, GatewayLcpOpen, gateway
<1> QED
  BY <1>2, <1>3, <1>4 DEF IInv

LEMMA IdleStep ==
  ASSUME IInv, UNCHANGED vars
  PROVE  IInv'
<1>1. UNCHANGED <<phase, torn, mru, peerMru, ip, acked, started, toGateway, toClient, opens, asks,
                  asked, confirmed, agreed, refusals, refused, extras>>
  BY DEF vars, client, gateway
<1>2. TypeOK'
  BY <1>1 DEF IInv, TypeOK
<1>3. ASSUME NEW x \in Protocol PROVE (OneUnderWay(x) /\ Current(x) /\ OnlyAsked(x))'
  <2>1. OneUnderWay(x) /\ Current(x) /\ OnlyAsked(x)
    BY DEF IInv
  <2> QED
    BY <1>1, <2>1 DEF OneUnderWay, Current, OnlyAsked, Value, Begun
<1>4. (Heeded /\ LcpFirst /\ DoneIsSettled)'
  BY <1>1 DEF IInv, Heeded, LcpFirst, DoneIsSettled, GatewayLcpOpen
<1> QED
  BY <1>2, <1>3, <1>4 DEF IInv

LEMMA Invariance == Spec => []IInv
<1>1. IInv /\ [Next]_vars => IInv'
  BY OpenTunnelStep, ReadsStep, EndStep, GatewayStep, IdleStep DEF Next
<1> QED
  BY InitIInv, <1>1, PTL DEF Spec

-----------------------------------------------------------------------------

\* Packets, options and counters stay what they are (ppp.rs:14-52, 219-238, 332-347).
THEOREM TypeCorrect == Spec => []TypeOK
<1>1. IInv => TypeOK
  BY DEF IInv
<1> QED
  BY Invariance, <1>1, PTL

\* What holds when the negotiation is done.
LEMMA DoneFacts ==
  ASSUME IInv, phase = "done"
  PROVE  /\ agreed = [lcp |-> mru, ipcp |-> ip]
         /\ Free(toGateway, Requests("lcp")) /\ Free(toGateway, Requests("ipcp"))
         /\ asks # None => peerMru = asks
         /\ mru \in Mrus /\ peerMru \in Mrus \cup {None}
<1>1. acked = Acks
  BY DEF IInv, DoneIsSettled
<1>2. ASSUME NEW x \in Protocol
      PROVE  agreed[x] = Value(x) /\ Free(toGateway, Requests(x))
  <2>1. <<"our", x>> \in acked
    BY <1>1 DEF Acks
  <2> QED
    BY <2>1 DEF IInv, OneUnderWay, Current
<1>3. "lcp" \in Protocol /\ "ipcp" \in Protocol /\ <<"peer", "lcp">> \in acked
  BY <1>1 DEF Acks, Protocol
<1>4. agreed["lcp"] = mru /\ agreed["ipcp"] = ip
  BY <1>2, <1>3 DEF Value
<1>5. agreed \in [lcp : Mrus \cup {None}, ipcp : IpOptions \cup {None}]
  BY DEF IInv, TypeOK
<1>6. agreed = [lcp |-> mru, ipcp |-> ip]
  BY <1>4, <1>5
<1>7. asks # None => peerMru = asks
  BY <1>3 DEF IInv, Heeded
<1> QED
  BY <1>2, <1>3, <1>6, <1>7 DEF IInv, TypeOK

(* Although the client compares no ack with what it asked for, what it ends *)
(* with is what the gateway has acked (bridge.rs:314-317, 351-363).         *)
THEOREM AgreementReached == Spec => []EndsWithTheAgreed
<1>1. IInv => EndsWithTheAgreed
  <2> SUFFICES ASSUME IInv, phase = "done", NEW i \in DOMAIN toGateway
               PROVE  agreed = [lcp |-> mru, ipcp |-> ip] /\ toGateway[i].code # "request"
    BY DoneFacts DEF EndsWithTheAgreed
  <2>1. toGateway[i] \in Packet /\ toGateway[i].proto \in Protocol
    BY QueueTypes, PacketFields
  <2>2. toGateway[i].code # "request"
    BY <2>1, DoneFacts, Kinds DEF Free, Protocol
  <2> QED
    BY <2>2, DoneFacts
<1> QED
  BY Invariance, <1>1, PTL

\* The MTU is within both sides' MRU, whatever these are (ppp.rs:276-286).
THEOREM MtuIsFit == Spec => []MtuFitsBoth
<1>1. IInv => MtuFitsBoth
  <2> SUFFICES ASSUME IInv, phase = "done"
               PROVE  Mtu <= agreed.lcp /\ (asks # None => Mtu <= asks)
    BY DEF MtuFitsBoth
  <2>1. /\ agreed.lcp = mru /\ (asks # None => peerMru = asks)
        /\ mru \in Nat /\ (peerMru # None => peerMru \in Nat)
    <3>1. agreed = [lcp |-> mru, ipcp |-> ip]
      BY DoneFacts
    <3>2. agreed.lcp = mru
      BY <3>1
    <3>3. mru \in Mrus /\ peerMru \in Mrus \cup {None} /\ (asks # None => peerMru = asks)
      BY DoneFacts
    <3> QED
      BY <3>2, <3>3, PppConstants
  <2>2. Mtu <= mru /\ (peerMru # None => Mtu <= peerMru)
    BY <2>1 DEF Mtu
  <2> QED
    BY <2>1, <2>2
<1> QED
  BY Invariance, <1>1, PTL

(* The gateway meets no IPCP packet before the client's ack that opens LCP  *)
(* on its side (bridge.rs:369-377).                                         *)
THEOREM NoEarlyIpcp == Spec => []IpcpAfterLcp
<1>1. IInv => IpcpAfterLcp
  <2> SUFFICES ASSUME IInv, NEW i \in DOMAIN toGateway, toGateway[i] = Head(toGateway),
                      toGateway[i].proto = "ipcp"
               PROVE  GatewayLcpOpen
    BY DEF IpcpAfterLcp
  <2>1. toGateway # <<>> /\ toGateway[i] \in Packet
    BY QueueTypes
  <2>2. toGateway[i] \in Ipcp
    BY <2>1 DEF Ipcp
  <2>3. ~Free(toGateway, Ipcp)
    BY <2>2 DEF Free
  <2>4. ~Behind(toGateway, Ipcp, AcksOf("lcp"))
    BY <2>1, <2>2, QueueTypes, TailKeeps
  <2> QED
    BY <2>3, <2>4 DEF IInv, LcpFirst, GatewayLcpOpen
<1> QED
  BY Invariance, <1>1, PTL

-----------------------------------------------------------------------------
(* Nobody waits in vain: the safety half of NegotiationEnds *)

IpcpRejects == {p \in Packet : p.proto = "ipcp" /\ p.code = "reject"}

\* A request of the client, or the answer to it, is on its way.
UnderWay(proto) == ~Free(toGateway, Requests(proto)) \/ ~Free(toClient, Replies(proto))

\* What the client has begun it follows up, but for an IPCP reject.
FollowsUp(proto) ==
  phase # "failed" /\ Begun(proto) /\ <<"our", proto>> \notin acked /\
  (proto = "ipcp" => "ipcp" \notin refused)
    => UnderWay(proto)

\* What it was asked it has acked, or will still read.
Hears(proto) ==
  proto \in asked => <<"peer", proto>> \in acked \/ ~Free(toClient, Requests(proto))

Progress ==
  /\ \A proto \in Protocol : FollowsUp(proto) /\ Hears(proto)
  /\ LcpOpened(acked) => started
  /\ Free(toClient, IpcpRejects) \/ "ipcp" \in refused

LEMMA InitProgress == Init => Progress
<1> SUFFICES ASSUME Init PROVE Progress
  OBVIOUS
<1>1. \A proto \in Protocol : ~Begun(proto) /\ proto \notin asked
  BY DEF Init, Begun
<1>2. ~LcpOpened(acked) /\ Free(toClient, IpcpRejects)
  BY EmptyQueue DEF Init, LcpOpened
<1> QED
  BY <1>1, <1>2 DEF Progress, FollowsUp, Hears

\* An IPCP packet is taken only when LCP is open: the gateway drops none.
LEMMA TakenInTime ==
  ASSUME IInv, NEW p, Takes(p), p.proto = "ipcp"
  PROVE  GatewayLcpOpen
<1>1. p \in Ipcp
  BY TakesFacts DEF Ipcp
<1>2. ~Free(toGateway, Ipcp) /\ ~Behind(toGateway, Ipcp, AcksOf("lcp"))
  BY <1>1, TakesFacts
<1> QED
  BY <1>2 DEF IInv, LcpFirst, GatewayLcpOpen

(* What the gateway does: of the client's requests it takes only p, and     *)
(* answers it; e is what it says.                                           *)
LEMMA GatewayProgress ==
  ASSUME IInv, Progress, NEW says \in BOOLEAN, NEW e \in Packet,
         UNCHANGED client,
         toClient' = IF says THEN Append(toClient, e) ELSE toClient,
         \A x \in Protocol : /\ ~Free(toGateway, Requests(x)) =>
                                  ~Free(toGateway', Requests(x)) \/ (says /\ e \in Replies(x))
                             /\ x \in asked' => x \in asked \/ (says /\ e \in Requests(x)),
         refused \subseteq refused',
         says /\ e \in IpcpRejects => "ipcp" \in refused'
  PROVE  Progress'
<1> USE QueueTypes DEF client
<1>1. \A M : Free(toClient', M) <=> Free(toClient, M) /\ (says => e \notin M)
  BY AppendKeeps
<1>2. ASSUME NEW x \in Protocol PROVE FollowsUp(x)'
  <2>1. FollowsUp(x)
    BY DEF Progress
  <2>2. Begun(x)' = Begun(x)
    BY DEF Begun
  <2>3. UnderWay(x) => UnderWay(x)'
    BY <1>1 DEF UnderWay
  <2> QED
    BY <2>1, <2>2, <2>3 DEF FollowsUp
<1>3. ASSUME NEW x \in Protocol PROVE Hears(x)'
  BY <1>1 DEF Progress, Hears
<1>4. LcpOpened(acked)' => started'
  BY DEF Progress, LcpOpened
<1>5. Free(toClient', IpcpRejects) \/ "ipcp" \in refused'
  BY <1>1 DEF Progress
<1> QED
  BY <1>2, <1>3, <1>4, <1>5 DEF Progress

\* A packet that asks nothing is taken.
LEMMA TakenProgress ==
  ASSUME IInv, Progress, NEW p, Takes(p), p.code # "request",
         UNCHANGED <<toClient, refused>>
  PROVE  Progress'
<1>1. p \in Packet /\ \A x \in Protocol : p \notin Requests(x)
  BY TakesFacts, Kinds
<1>2. \A x \in Protocol : ~Free(toGateway, Requests(x)) => ~Free(toGateway', Requests(x))
  BY <1>1, TakesFacts
<1>3. UNCHANGED client /\ asked' = asked
  BY DEF Takes
<1>4. toClient' = IF FALSE THEN Append(toClient, p) ELSE toClient
  OBVIOUS
<1> QED
  BY <1>1, <1>2, <1>3, <1>4, GatewayProgress

\* A request is taken and answered.
LEMMA AnsweredProgress ==
  ASSUME IInv, Progress, NEW p, Takes(p), NEW e \in Packet, toClient' = Append(toClient, e),
         e.proto = p.proto, e.code \in {"ack", "nak", "reject"},
         refused \subseteq refused', e \in IpcpRejects => "ipcp" \in refused'
  PROVE  Progress'
<1>1. p \in Packet /\ p.proto \in Protocol
  BY TakesFacts, PacketFields
<1>2. e \in Replies(p.proto)
  BY <1>1, Kinds
<1>3. \A x \in Protocol : p \in Requests(x) => x = p.proto
  BY <1>1, Kinds
<1>4. \A x \in Protocol : ~Free(toGateway, Requests(x)) =>
                            ~Free(toGateway', Requests(x)) \/ e \in Replies(x)
  BY <1>2, <1>3, TakesFacts
<1>5. UNCHANGED client /\ asked' = asked
  BY DEF Takes
<1>6. toClient' = IF TRUE THEN Append(toClient, e) ELSE toClient
  OBVIOUS
<1> QED
  BY <1>4, <1>5, <1>6, GatewayProgress

LEMMA GatewayKeepsProgress ==
  ASSUME IInv, Progress, Gateway
  PROVE  Progress'
<1>1. ASSUME NEW proto \in Protocol, Asks(proto) PROVE Progress'
  <2> SUFFICES ASSUME NEW e, e = Pkt(proto, "request", IF proto = "lcp" THEN asks ELSE None)
               PROVE  Progress'
    OBVIOUS
  <2>1. e \in Packet
    BY PacketsMade DEF IInv, TypeOK, Protocol
  <2>2. e.proto = proto /\ e.code = "request"
    BY PktFields
  <2>3. /\ UNCHANGED client /\ toGateway' = toGateway /\ refused' = refused
        /\ asked' = asked \cup {proto}
    BY <1>1 DEF Asks
  <2>4. toClient' = IF TRUE THEN Append(toClient, e) ELSE toClient
    BY <1>1 DEF Asks, Sends
  <2>5. e \in Requests(proto) /\ e \notin IpcpRejects
    BY <2>1, <2>2 DEF Requests, IpcpRejects
  <2> QED
    BY <2>1, <2>3, <2>4, <2>5, GatewayProgress
<1>2. ASSUME NEW proto \in Protocol, NEW code \in {"echo", "other"}, SendsOther(proto, code)
      PROVE  Progress'
  <2> SUFFICES ASSUME NEW e, e = Pkt(proto, code, None)
               PROVE  Progress'
    OBVIOUS
  <2>1. e \in Packet
    BY PacketsMade
  <2>2. e.code = code
    BY PktFields
  <2>3. /\ UNCHANGED client /\ toGateway' = toGateway /\ refused' = refused /\ asked' = asked
    BY <1>2 DEF SendsOther
  <2>4. toClient' = IF TRUE THEN Append(toClient, e) ELSE toClient
    BY <1>2 DEF SendsOther, Sends
  <2>5. e \notin IpcpRejects
    BY <2>1, <2>2 DEF IpcpRejects
  <2> QED
    BY <2>1, <2>3, <2>4, <2>5, GatewayProgress
<1>3. ASSUME NEW p, TakesAck(p) PROVE Progress'
  BY <1>3, TakenProgress DEF TakesAck
<1>4. ASSUME NEW p, Drops(p) PROVE Progress'
  <2>1. Takes(p) /\ UNCHANGED <<toClient, refused>>
    BY <1>4 DEF Drops
  <2>2. p.code = "reply"
    BY <1>4, <2>1, TakenInTime DEF Drops
  <2> QED
    BY <2>1, <2>2, TakenProgress
<1>5. ASSUME NEW p, Agrees(p) PROVE Progress'
  <2> SUFFICES ASSUME NEW e, e = Pkt(p.proto, "ack", p.data)
               PROVE  Progress'
    OBVIOUS
  <2>1. Takes(p) /\ p.code = "request" /\ toClient' = Append(toClient, e) /\ refused' = refused
    BY <1>5 DEF Agrees, Sends
  <2>2. p \in Packet /\ p.proto \in Protocol
    BY <2>1, TakesFacts, PacketFields
  <2>3. e \in Packet
    BY <2>1, <2>2, PacketFields, PacketsMade DEF Protocol
  <2>4. e.proto = p.proto /\ e.code = "ack"
    BY PktFields
  <2>5. e \notin IpcpRejects
    BY <2>4 DEF IpcpRejects
  <2> QED
    BY <2>1, <2>3, <2>4, <2>5, AnsweredProgress
<1>6. ASSUME NEW p, NEW code \in {"nak", "reject"}, NEW data, Refuses(p, code, data),
             IF code = "reject" THEN data = None
             ELSE data \in IF p.proto = "lcp" THEN Mrus ELSE PartOfIp
      PROVE  Progress'
  <2> SUFFICES ASSUME NEW e, e = Pkt(p.proto, code, data)
               PROVE  Progress'
    OBVIOUS
  <2>1. /\ Takes(p) /\ toClient' = Append(toClient, e)
        /\ refused' = IF code = "reject" THEN refused \cup {p.proto} ELSE refused
    BY <1>6 DEF Refuses, Sends
  <2>2. p \in Packet /\ p.proto \in Protocol
    BY <2>1, TakesFacts, PacketFields
  <2>3. e \in Packet
    BY <1>6, <2>2, PacketsMade DEF Protocol
  <2>4. e.proto = p.proto /\ e.code = code
    BY PktFields
  <2>5. refused \subseteq refused' /\ (e \in IpcpRejects => "ipcp" \in refused')
    BY <2>1, <2>4 DEF IpcpRejects
  <2> QED
    BY <2>1, <2>3, <2>4, <2>5, AnsweredProgress
<1> QED
  BY <1>1, <1>2, <1>3, <1>4, <1>5, <1>6, Zenon DEF Gateway

(* A frame p is read and handled: a reply is taken or asked again for, but  *)
(* for an IPCP reject, and a request is acked.                              *)
LEMMA HandledProgress ==
  ASSUME IInv, Progress, NEW p, Read(p), NEW some \in BOOLEAN, NEW s \in Packet, NEW acks,
         Finish(IF some THEN <<s>> ELSE <<>>, acks), ip' \in IpOptions, acked \subseteq acks,
         \A x \in Protocol :
           /\ p \in Replies(x) => \/ <<"our", x>> \in acks
                                  \/ some /\ s \in Requests(x)
                                  \/ x = "ipcp" /\ p \in IpcpRejects
           /\ p \in Requests(x) => <<"peer", x>> \in acks
  PROVE  Progress'
<1>1. /\ acked' = acks /\ started' = (started \/ LcpOpened(acked')) /\ First \in Packet
      /\ \A M : Free(toGateway', M) <=>
             /\ Free(toGateway, M)
             /\ some => s \notin M
             /\ Starts => First \notin M
  BY FinishFacts
<1>2. /\ toClient # <<>> /\ p = Head(toClient) /\ toClient' = Tail(toClient)
      /\ UNCHANGED <<phase, asked, refused>>
  BY DEF Read, gateway
<1>3. \A M : ~Free(toClient, M) /\ p \notin M => ~Free(toClient', M)
  BY <1>2, QueueTypes, TailKeeps
<1>4. \A M : Free(toClient, M) => Free(toClient', M) /\ p \notin M
  BY ReadFacts
<1>5. p \in IpcpRejects => "ipcp" \in refused
  BY <1>4 DEF Progress
<1>6. ASSUME NEW x \in Protocol PROVE FollowsUp(x)'
  <2> SUFFICES ASSUME phase' # "failed", Begun(x)', <<"our", x>> \notin acked',
                      x = "ipcp" => "ipcp" \notin refused'
               PROVE  UnderWay(x)'
    BY DEF FollowsUp
  <2>1. CASE ~Begun(x)
    <3>1. x = "ipcp" /\ Starts
      BY <1>1, <1>2, <2>1 DEF Begun, Starts, Protocol
    <3>2. First \in Requests(x)
      BY <1>1, <3>1, PktFields DEF First, Requests
    <3> QED
      BY <1>1, <3>1, <3>2 DEF UnderWay
  <2>2. CASE Begun(x)
    <3>1. UnderWay(x)
      BY <1>1, <1>2, <2>2 DEF Progress, FollowsUp
    <3>2. CASE p \in Replies(x)
      <4>1. some /\ s \in Requests(x)
        BY <1>1, <1>2, <1>5, <3>2
      <4> QED
        BY <1>1, <4>1 DEF UnderWay
    <3>3. CASE p \notin Replies(x)
      BY <1>1, <1>3, <3>1, <3>3 DEF UnderWay
    <3> QED
      BY <3>2, <3>3
  <2> QED
    BY <2>1, <2>2
<1>7. ASSUME NEW x \in Protocol PROVE Hears(x)'
  <2>1. Hears(x)
    BY DEF Progress
  <2> QED
    BY <1>1, <1>2, <1>3, <2>1 DEF Hears
<1>8. LcpOpened(acked)' => started'
  BY <1>1 DEF LcpOpened
<1>9. Free(toClient', IpcpRejects) \/ "ipcp" \in refused'
  BY <1>2, <1>4 DEF Progress
<1> QED
  BY <1>6, <1>7, <1>8, <1>9 DEF Progress

LEMMA ReadsKeepProgress ==
  ASSUME IInv, IInv', Progress, Reads
  PROVE  Progress'
<1> USE DEF Protocol
<1>1. ip' \in IpOptions /\ mru' \in Mrus
  BY DEF IInv, TypeOK
<1>2. PICK p : ReadRequest(p) \/ ReadAck(p) \/ ReadNak(p) \/ ReadReject(p) \/ ReadOther(p)
  BY DEF Reads
<1>3. Read(p)
  BY <1>2 DEF ReadRequest, ReadAck, ReadNak, ReadReject, ReadOther
<1>4. p \in Packet /\ p.proto \in Protocol
  BY <1>3, ReadFacts
<1>5. CASE ReadRequest(p)
  <2> SUFFICES ASSUME NEW s, s = Pkt(p.proto, "ack", p.data),
                      NEW acks, acks = acked \cup {<<"peer", p.proto>>}
               PROVE  Progress'
    OBVIOUS
  <2>1. p.code = "request" /\ Finish(IF TRUE THEN <<s>> ELSE <<>>, acks)
    BY <1>5 DEF ReadRequest
  <2>2. s \in Packet
    BY <1>4, <2>1, PacketFields, PacketsMade
  <2>3. \A x \in Protocol : p \notin Replies(x) /\ (p \in Requests(x) => <<"peer", x>> \in acks)
    BY <1>4, <2>1, Kinds
  <2>4. acked \subseteq acks /\ TRUE \in BOOLEAN
    OBVIOUS
  <2> QED
    BY ONLY IInv, Progress, <1>1, <1>3, <2>1, <2>2, <2>3, <2>4, HandledProgress
<1>6. CASE ReadAck(p)
  <2> SUFFICES ASSUME NEW acks, acks = acked \cup {<<"our", p.proto>>}
               PROVE  Progress'
    OBVIOUS
  <2>1. p.code = "ack" /\ Finish(IF FALSE THEN <<p>> ELSE <<>>, acks)
    BY <1>6 DEF ReadAck
  <2>2. \A x \in Protocol : p \notin Requests(x) /\ (p \in Replies(x) => <<"our", x>> \in acks)
    BY <1>4, <2>1, Kinds
  <2>3. acked \subseteq acks /\ FALSE \in BOOLEAN
    OBVIOUS
  <2> QED
    BY ONLY IInv, Progress, <1>1, <1>3, <1>4, <2>1, <2>2, <2>3, HandledProgress
<1>7. CASE ReadNak(p)
  <2> SUFFICES ASSUME NEW s, s = Pkt(p.proto, "request", IF p.proto = "lcp" THEN mru' ELSE ip')
               PROVE  Progress'
    OBVIOUS
  <2>1. p.code = "nak" /\ Finish(IF TRUE THEN <<s>> ELSE <<>>, acked)
    BY <1>7 DEF ReadNak
  <2>2. s \in Packet
    BY <1>1, <1>4, PacketsMade
  <2>3. s.proto = p.proto /\ s.code = "request"
    BY PktFields
  <2>4. \A x \in Protocol : p \notin Requests(x) /\ (p \in Replies(x) => s \in Requests(x))
    BY <1>4, <2>1, <2>2, <2>3, Kinds
  <2> QED
    BY <1>1, <1>3, <2>1, <2>2, <2>4, HandledProgress
<1>8. CASE ReadReject(p)
  <2> SUFFICES ASSUME NEW s, s = Pkt("lcp", "request", mru), NEW some, some = (p.proto = "lcp")
               PROVE  Progress'
    OBVIOUS
  <2>1. p.code = "reject" /\ Finish(IF some THEN <<s>> ELSE <<>>, acked)
    BY <1>8 DEF ReadReject
  <2>2. s \in Packet
    BY PacketsMade DEF IInv, TypeOK
  <2>3. s.proto = "lcp" /\ s.code = "request"
    BY PktFields
  <2>4. \A x \in Protocol :
          /\ p \notin Requests(x)
          /\ p \in Replies(x) => \/ some /\ s \in Requests(x)
                                 \/ x = "ipcp" /\ p \in IpcpRejects
    BY <1>4, <2>1, <2>2, <2>3, Kinds DEF IpcpRejects
  <2>5. some \in BOOLEAN /\ acked \subseteq acked
    OBVIOUS
  <2> QED
    BY <1>1, <1>3, <2>1, <2>2, <2>4, <2>5, HandledProgress
<1>9. CASE ReadOther(p)
  <2> SUFFICES ASSUME NEW s, s = Pkt("lcp", "reply", None), NEW some, some = (p.code = "echo")
               PROVE  Progress'
    OBVIOUS
  <2>1. p.code \in {"echo", "other"} /\ Finish(IF some THEN <<s>> ELSE <<>>, acked)
    BY <1>9 DEF ReadOther
  <2>2. s \in Packet /\ some \in BOOLEAN
    BY PacketsMade
  <2>3. \A x \in Protocol : p \notin Replies(x) /\ p \notin Requests(x)
    BY <1>4, <2>1, Kinds
  <2> QED
    BY <1>1, <1>3, <2>1, <2>2, <2>3, HandledProgress
<1> QED
  BY <1>2, <1>5, <1>6, <1>7, <1>8, <1>9

\* The tunnel is opened with a request, and the end waits for nothing.
LEMMA PhaseKeepsProgress ==
  ASSUME IInv, Progress, OpenTunnel \/ Settled \/ Fails
  PROVE  Progress'
<1>1. UNCHANGED <<ip, acked, started, toClient, asked, refused>>
  BY DEF OpenTunnel, Settled, Fails, gateway
<1>2. ASSUME NEW x \in Protocol PROVE FollowsUp(x)'
  <2>1. FollowsUp(x)
    BY DEF Progress
  <2>2. CASE OpenTunnel
    <3> SUFFICES ASSUME NEW e, e = Pkt("lcp", "request", mru), phase' = "negotiating"
                 PROVE  FollowsUp(x)'
      BY <2>2 DEF OpenTunnel, FollowsUp
    <3>1. e \in Packet
      BY PacketsMade DEF IInv, TypeOK
    <3>2. e \in Requests("lcp")
      BY <3>1, PktFields DEF Requests
    <3>3. phase = "opening" /\ toGateway' = Append(toGateway, e)
      BY <2>2 DEF OpenTunnel
    <3>4. \A M : Free(toGateway', M) => Free(toGateway, M) /\ e \notin M
      BY <3>1, <3>3, QueueTypes, AppendKeeps
    <3>5. CASE x = "lcp"
      BY <3>2, <3>4, <3>5 DEF FollowsUp, UnderWay
    <3>6. CASE x # "lcp"
      <4>1. Begun(x)' = Begun(x)
        BY <1>1, <3>6 DEF Begun
      <4>2. UnderWay(x) => UnderWay(x)'
        BY <1>1, <3>4 DEF UnderWay
      <4> QED
        BY <1>1, <2>1, <3>3, <4>1, <4>2 DEF FollowsUp
    <3> QED
      BY <3>5, <3>6
  <2>3. CASE Settled \/ Fails
    <3>1. /\ toGateway' = toGateway
          /\ phase' = "failed" \/ (phase = "negotiating" /\ phase' = "done")
      BY <2>3 DEF Settled, Fails
    <3>2. phase' # "failed" => Begun(x)' = Begun(x)
      BY <1>1, <3>1 DEF Begun
    <3> QED
      BY <1>1, <2>1, <3>1, <3>2 DEF FollowsUp, UnderWay
  <2> QED
    BY <2>2, <2>3
<1> QED
  BY <1>1, <1>2 DEF Progress, Hears, LcpOpened

LEMMA ProgressInvariance == Spec => []Progress
<1>1. ASSUME IInv, IInv', Progress, [Next]_vars PROVE Progress'
  <2>1. CASE Next
    BY <1>1, <2>1, GatewayKeepsProgress, ReadsKeepProgress, PhaseKeepsProgress DEF Next
  <2>2. CASE UNCHANGED vars
    <3>1. UNCHANGED <<phase, ip, acked, started, toGateway, toClient, asked, refused>>
      BY <2>2 DEF vars, client, gateway
    <3> QED
      BY <1>1, <3>1 DEF Progress, FollowsUp, UnderWay, Hears, Begun, LcpOpened
  <2> QED
    BY <1>1, <2>1, <2>2
<1> QED
  BY Invariance, InitProgress, <1>1, PTL DEF Spec

(* When nothing is left to read and the gateway owes nothing, all is acked: *)
(* the client does not wait for a gateway that waits for it.                *)
NeitherWaits ==
  phase = "negotiating" /\ "ipcp" \notin refused /\ toClient = <<>> /\ ~GatewayOwes
    => acked = Acks

(* Client and gateway never stand still before all four acks are there, in  *)
(* whatever order they ask, ack, nak and repeat: the safety half of         *)
(* NegotiationEnds (bridge.rs:286-378).                                     *)
THEOREM NoStandstill == Spec => []NeitherWaits
<1>1. IInv /\ Progress => NeitherWaits
  <2> SUFFICES ASSUME IInv, Progress, phase = "negotiating", "ipcp" \notin refused,
                      toClient = <<>>, ~GatewayOwes
               PROVE  acked = Acks
    BY DEF NeitherWaits
  <2>1. "lcp" \in Protocol /\ "ipcp" \in Protocol
    BY DEF Protocol
  <2>2. toGateway = <<>> /\ "lcp" \in asked /\ (GatewayLcpOpen => "ipcp" \in asked)
    BY DEF GatewayOwes
  <2>3. \A M : Free(toGateway, M) /\ Free(toClient, M)
    BY <2>2, EmptyQueue
  <2>4. \A x \in Protocol : ~UnderWay(x)
    BY <2>3 DEF UnderWay
  <2>5. \A x \in asked : <<"peer", x>> \in acked
    BY <2>3 DEF Progress, Hears, IInv, TypeOK
  <2>6. <<"our", "lcp">> \in acked
    BY <2>1, <2>4 DEF Progress, FollowsUp, Begun
  <2>7. <<"peer", "lcp">> \in acked
    BY <2>2, <2>5
  <2>8. started
    BY <2>6, <2>7 DEF Progress, LcpOpened
  <2>9. <<"our", "ipcp">> \in acked
    BY <2>1, <2>4, <2>8 DEF Progress, FollowsUp, Begun
  <2>10. GatewayLcpOpen
    <3>1. "lcp" \in confirmed
      BY <2>3, <2>7 DEF IInv, LcpFirst
    <3>2. agreed["lcp"] = mru
      BY <2>1, <2>6 DEF IInv, Current, Value
    <3>3. mru # None
      BY NoneIsApart DEF IInv, TypeOK
    <3> QED
      BY <3>1, <3>2, <3>3 DEF GatewayLcpOpen
  <2>11. <<"peer", "ipcp">> \in acked
    BY <2>2, <2>5, <2>10
  <2>12. acked \subseteq Acks
    BY DEF IInv, TypeOK
  <2> QED
    BY <2>6, <2>7, <2>9, <2>11, <2>12 DEF Acks, Protocol
<1> QED
  BY Invariance, ProgressInvariance, <1>1, PTL
=============================================================================
