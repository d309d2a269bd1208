---------------------------- MODULE Authentication ----------------------------
(***************************************************************************)
(* Logging in at the gateway and fetching the configuration of the tunnel  *)
(* (fortivpn: auth.rs, and its call in lib.rs).                            *)
(*                                                                         *)
(* authenticate() asks three things, the first two on one connection, and  *)
(* reads each answer up to the end of its header, with whatever else that  *)
(* read brings.  A connection carries tokens: header lines, blank lines    *)
(* and pieces of a body.  A read may end within a token.                   *)
(*                                                                         *)
(* The texts are abstracted: a token says what the client looks for in it. *)
(***************************************************************************)
EXTENDS Naturals, SequencesExt

CONSTANTS
  Names,      \* of header lines and elements
  Values,     \* what a token may say
  Document,   \* the gateway's configuration, as XML tokens
  Bodies,     \* bodies of an answer to the login
  Addresses,  \* texts that parse as an address
  Partial,    \* what a text may say that was cut short
  Certs,      \* certificates a gateway may present
  Rooted,     \* those that webpki's roots vouch for
  Pin,        \* the profile's trusted_cert
  Cookie,     \* value of SVPNCOOKIE
  None

\* What is in a header line, a blank line or a piece of a body.
Events == {"header", "blank", "start", "text", "end", "empty"}
Tokens == [ev : Events, name : Names, val : Values \cup {None}]

Token(ev, name, val) == [ev |-> ev, name |-> name, val |-> val]

Blank == Token("blank", "", None)
Tokeninfo == Token("text", "tokeninfo", None)

Results == {"ok", "GatewayUnreachable", "Io", "OtpRequired", "InvalidCredentials",
            "AllocationFailed"}

\* The lines that set a cookie are in the header.
ASSUME AuthConstants ==
  /\ {"", "status", "SVPNCOOKIE", "tokeninfo", "html"} \subseteq Names
  /\ None \notin Values \cup Certs \cup Results
  /\ Addresses \cup {Partial, Cookie} \subseteq Values
  /\ Rooted \subseteq Certs
  /\ Pin \in Certs \cup {None}
  /\ Document \in Seq(Tokens) /\ \A i \in DOMAIN Document : Document[i].ev # "blank"
  /\ Bodies \subseteq Seq(Tokens)
  /\ \A b \in Bodies : \A i \in DOMAIN b : b[i] # Tokeninfo /\ b[i].name # "SVPNCOOKIE"

VARIABLES
  pc,        \* the answer authenticate() reads, before that or after it
  response,  \* read_response: read so far
  torn,      \* the last read ended within a token
  cookie,    \* of the login's answer
  config,    \* the VpnConfig returned
  result,    \* the error returned, or "ok"
  wire,      \* answers on the current connection, not read
  requests,  \* requests the gateway has not looked at
  ended,     \* connections the gateway has closed
  opened,    \* the gateway has seen the request for tunnel mode
  page,      \* what it has given for the configuration
  verdict, body, certs  \* what it thinks of the login, says, and presents

client == <<pc, response, torn, cookie, config, result>>
gateway == <<verdict, body, certs>>
vars == <<client, wire, requests, ended, opened, page, gateway>>

Empty == [assigned |-> None, dns |-> <<>>, domain |-> None, routes |-> <<>>]

Init ==
  /\ pc = "start"
  /\ response = <<>>
  /\ torn = FALSE
  /\ cookie = None
  /\ config = Empty
  /\ result = None
  /\ wire = <<>>
  /\ requests = {}
  /\ ended = {}
  /\ opened = FALSE
  /\ page = <<>>
  /\ verdict \in {"accept", "refuse", "challenge"}
  /\ body \in Bodies
  /\ certs \in [1 .. 2 -> Certs]

-----------------------------------------------------------------------------
(* What is made of a response *)

(* extract_cookie: the first line that sets it to something. *)
CookieIn(tokens) ==
  LET i == SelectInSeq(tokens, LAMBDA t : t.name = "SVPNCOOKIE" /\ t.val # None)
  IN  IF i = 0 THEN None ELSE tokens[i].val

FirstBlank(tokens) == SelectInSeq(tokens, LAMBDA t : t = Blank)

\* What follows the first blank line, up to the next; all of it without one.
BodyOf(tokens) ==
  LET rest == SubSeq(tokens, FirstBlank(tokens) + 1, Len(tokens))
  IN  IF FirstBlank(rest) = 0 THEN rest ELSE SubSeq(rest, 1, FirstBlank(rest) - 1)

\* Mutant: the domain is taken from its text, complete or not.
ParseTextEager(s, t) ==
  [s EXCEPT !.text = t.val,
            !.config.domain = IF s.inDns /\ t.name = "domain" THEN t.val ELSE @]

ParseText(s, t) == [s EXCEPT !.text = t.val]

\* Mutant: any end tag ends the list of servers.
ParseEndOfAny(s, t) ==
  [config |->
     [s.config EXCEPT
        !.dns = IF t.name = "ip" /\ s.inDns /\ s.text \in Addresses
                THEN Append(@, s.text) ELSE @,
        !.domain = IF t.name = "domain" /\ s.inDns /\ s.text # None THEN s.text ELSE @],
   inDns |-> FALSE,
   text |-> None]

ParseEnd(s, t) ==
  [config |->
     [s.config EXCEPT
        !.dns = IF t.name = "ip" /\ s.inDns /\ s.text \in Addresses
                THEN Append(@, s.text) ELSE @,
        !.domain = IF t.name = "domain" /\ s.inDns /\ s.text # None THEN s.text ELSE @],
   inDns |-> s.inDns /\ t.name # "dns",
   text |-> None]

(* parse_vpn_config_xml, one event.  An address that does not parse counts *)
(* as unspecified.                                                         *)
ParseEvent(s, t) ==
  CASE t.ev = "start" -> [s EXCEPT !.inDns = @ \/ t.name = "dns", !.text = None]
    [] t.ev = "text" -> ParseText(s, t)
    [] t.ev = "end" -> ParseEnd(s, t)
    [] t.ev = "empty" /\ t.name = "assigned-addr" -> [s EXCEPT !.config.assigned = t.val]
    [] t.ev = "empty" /\ t.name = "addr" /\ t.val # None ->
         [s EXCEPT !.config.routes = Append(@, t.val)]
    [] OTHER -> s

\* The parser before the first token and after each.
Parsing(tokens) ==
  LET after[n \in 0 .. Len(tokens)] ==
        IF n = 0 THEN [config |-> Empty, inDns |-> FALSE, text |-> None]
        ELSE ParseEvent(after[n - 1], tokens[n])
  IN  after

Parsed(tokens) == Parsing(tokens)[Len(tokens)].config

(* The token after tokens that was cut short: of a text the head is read,  *)
(* a tag makes the parser fail.                                            *)
CutShort(t) == IF t.ev = "text" THEN <<Token("text", t.name, Partial)>> ELSE <<>>
Unclosed(t) == t.ev \in {"start", "end", "empty"}

-----------------------------------------------------------------------------
(* Connections and requests *)

(* A pin is compared with the hash of the certificate, and nothing else is *)
(* looked at.                                                              *)
PinMatches(cert) == cert = Pin
Trusted(cert) == IF Pin = None THEN cert \in Rooted ELSE PinMatches(cert)

\* build_request.
Request(path, c) == [path |-> path, cookie |-> c]

\* The request whose answer is read.
Awaited == [login |-> "logincheck", page |-> "fortisslvpn", xml |-> "fortisslvpn_xml"]
Reading == pc \in DOMAIN Awaited

Connection == IF pc = "xml" THEN 2 ELSE 1
Closed == Connection \in ended

Finish(r) ==
  /\ pc' = "done"
  /\ result' = r

Ask(p) ==
  /\ pc' = p
  /\ response' = <<>>
  /\ requests' = requests \cup {Request(Awaited[p], cookie')}
  /\ UNCHANGED <<config, result>>

(* tls_connect and the first request on the connection, whose writing      *)
(* completes the handshake.                                                *)
AskOnNew(n, p) ==
  /\ \/ Finish("GatewayUnreachable") /\ UNCHANGED <<response, requests, config>>
     \/ ~Trusted(certs[n]) /\ Finish("Io") /\ UNCHANGED <<response, requests, config>>
     \/ Trusted(certs[n]) /\ Ask(p)
  /\ wire' = <<>>
  /\ torn' = FALSE

Start ==
  /\ pc = "start"
  /\ UNCHANGED cookie
  /\ AskOnNew(1, "login")
  /\ UNCHANGED <<ended, opened, page, gateway>>

-----------------------------------------------------------------------------
(* read_response *)

Received(n) == response \o SubSeq(wire, 1, n)

(* A read gives n tokens and perhaps part of another one, or the end of a  *)
(* connection that is closed.                                              *)
Reads(n, part) ==
  /\ Reading
  /\ n <= Len(wire) /\ (part => n < Len(wire))
  /\ n > 0 \/ (part /\ ~torn) \/ (Closed /\ wire = <<>>)

\* Mutant: whatever a read gives is the response.
OverAtOnce(n) == n > 0 \/ (Closed /\ wire = <<>>)

\* Mutant: the response ends with the connection.
OverAtEnd(n) == Closed /\ wire = <<>>

\* Whether that ends the response.
Over(n) == Contains(Received(n), Blank) \/ (Closed /\ wire = <<>>)

Leaves(n, part) ==
  /\ wire' = SubSeq(wire, n + 1, Len(wire))
  /\ torn' = part

ReadMore(n, part) ==
  /\ Reads(n, part)
  /\ ~Over(n)
  /\ response' = Received(n)
  /\ Leaves(n, part)
  /\ UNCHANGED <<pc, cookie, config, result, requests, ended, opened, page, gateway>>

\* Mutant: the cookie is looked for first.
ReadLoginCookieFirst(n, part) ==
  LET r == Received(n) IN
  /\ pc = "login"
  /\ Reads(n, part)
  /\ Over(n)
  /\ Leaves(n, part)
  /\ \/ CookieIn(r) = None /\ Finish("InvalidCredentials")
        /\ UNCHANGED <<response, cookie, config, requests>>
     \/ CookieIn(r) # None /\ cookie' = CookieIn(r) /\ Ask("page")
  /\ UNCHANGED <<ended, opened, page, gateway>>

(* The answer to the login: a token is asked for, no cookie is given, or   *)
(* tunnel mode is asked for.                                               *)
ReadLogin(n, part) ==
  LET r == Received(n) IN
  /\ pc = "login"
  /\ Reads(n, part)
  /\ Over(n)
  /\ Leaves(n, part)
  /\ \/ Contains(r, Tokeninfo) /\ Finish("OtpRequired")
        /\ UNCHANGED <<response, cookie, config, requests>>
     \/ ~Contains(r, Tokeninfo) /\ CookieIn(r) = None /\ Finish("InvalidCredentials")
        /\ UNCHANGED <<response, cookie, config, requests>>
     \/ ~Contains(r, Tokeninfo) /\ CookieIn(r) # None
        /\ cookie' = CookieIn(r) /\ Ask("page")
  /\ UNCHANGED <<ended, opened, page, gateway>>

\* The second answer is not looked at; the connection is left.
ReadPage(n, part) ==
  /\ pc = "page"
  /\ Reads(n, part)
  /\ Over(n)
  /\ UNCHANGED cookie
  /\ AskOnNew(2, "xml")
  /\ UNCHANGED <<ended, opened, page, gateway>>

ReadXml(n, part) ==
  LET b == BodyOf(Received(n))
      cut == IF part THEN {wire[n + 1]} ELSE {} IN
  /\ pc = "xml"
  /\ Reads(n, part)
  /\ Over(n)
  /\ Leaves(n, part)
  /\ \/ (\E t \in cut : Unclosed(t)) /\ Finish("AllocationFailed") /\ UNCHANGED config
     \/ /\ \A t \in cut : ~Unclosed(t)
        /\ config' = Parsed(b \o IF part THEN CutShort(wire[n + 1]) ELSE <<>>)
        /\ Finish("ok")
  /\ UNCHANGED <<response, cookie, requests, ended, opened, page, gateway>>

\* The connection breaks, in a read or in the write before it.
Breaks ==
  /\ Reading
  /\ Finish("Io")
  /\ UNCHANGED <<response, torn, cookie, config, wire, requests, ended, opened, page, gateway>>

-----------------------------------------------------------------------------
(* The gateway *)

Status == Token("header", "status", None)
SetCookie(val) == Token("header", "SVPNCOOKIE", val)

LoginAnswer ==
  CASE verdict = "accept" -> <<Status, SetCookie(Cookie), Blank>> \o body
    [] verdict = "refuse" -> <<Status, SetCookie(None), Blank>> \o body
    [] verdict = "challenge" -> <<Status, Blank, Tokeninfo>>

\* What an HTML page is to the parser.
Html == <<Token("start", "html", None), Token("text", "", None), Token("end", "html", None)>>

\* The gateway looks at a request; it answers if the connection is still there.
Serves(r, p, answer) ==
  /\ r \in requests
  /\ r.path = Awaited[p]
  /\ requests' = requests \ {r}
  /\ wire' = IF pc = p /\ ~Closed THEN wire \o answer ELSE wire
  /\ UNCHANGED <<client, ended, gateway>>

ServeLogin(r) == Serves(r, "login", LoginAnswer) /\ UNCHANGED <<opened, page>>

ServePage(r) ==
  /\ Serves(r, "page", <<Status, Blank>> \o Html)
  /\ opened' = (r.cookie = Cookie)
  /\ UNCHANGED page

\* The configuration, or an error page, whose status is not looked at.
ServeXml(r) ==
  /\ page' \in IF r.cookie = Cookie THEN {Document, Html} ELSE {Html}
  /\ Serves(r, "xml", <<Status, Blank>> \o page')
  /\ UNCHANGED opened

\* The end of the connection may come before the end of an answer.
Close ==
  /\ Reading
  /\ ~Closed
  /\ \E n \in 0 .. Len(wire) :
       /\ torn => n > 0
       /\ wire' = SubSeq(wire, 1, n)
  /\ ended' = ended \cup {Connection}
  /\ UNCHANGED <<client, requests, opened, page, gateway>>

-----------------------------------------------------------------------------
Receives ==
  \E n \in 0 .. Len(wire), part \in BOOLEAN :
    ReadMore(n, part) \/ ReadLogin(n, part) \/ ReadPage(n, part) \/ ReadXml(n, part)

Gateway == Close \/ \E r \in requests : ServeLogin(r) \/ ServePage(r) \/ ServeXml(r)

Next == Start \/ Receives \/ Breaks \/ Gateway

\* The client does what it can; no read has a time-out.
Fairness == WF_vars(Start \/ Receives)

Spec == Init /\ [][Next]_vars /\ Fairness
=============================================================================
