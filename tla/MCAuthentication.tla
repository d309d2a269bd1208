--------------------------- MODULE MCAuthentication ---------------------------
\* Authentication for TLC, with a configuration and bodies of the login's answer.
EXTENDS AuthenticationProperties

Tag(ev, name) == Token(ev, name, None)

Element(name, val) == <<Tag("start", name), Token("text", name, val), Tag("end", name)>>

MCNames == {"", "status", "SVPNCOOKIE", "tokeninfo", "html", "ret", "sslvpn-tunnel",
            "assigned-addr", "dns", "ip", "domain", "addr"}

MCValues == {"ip1", "ip2", "ns1", "ns2", "ns", "corp", "net1", "net2", "cookie"}

\* Two name servers, an address elsewhere, two routes and one that does not parse.
MCDocument ==
  <<Tag("start", "sslvpn-tunnel"), Token("empty", "assigned-addr", "ip1"), Tag("start", "dns")>>
    \o Element("ip", "ns1") \o Element("ip", "ns2") \o Element("domain", "corp")
    \o <<Tag("end", "dns")>> \o Element("ip", "ip2")
    \o <<Token("empty", "addr", "net1"), Token("empty", "addr", None),
         Token("empty", "addr", "net2"), Tag("end", "sslvpn-tunnel")>>

MCPushed ==
  [assigned |-> "ip1", dns |-> <<"ns1", "ns2">>, domain |-> "corp",
   routes |-> <<"net1", "net2">>]

Ret == Token("text", "ret", None)

\* Empty, one that comes in two parts, one with a blank line.
MCBodies == {<<>>, <<Ret, Ret>>, <<Ret, Blank, Ret>>}

MCAddresses == {"ip1", "ip2", "ns1", "ns2", "ns"}
=============================================================================
