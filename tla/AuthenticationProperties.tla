----------------------- MODULE AuthenticationProperties -----------------------
\* What authenticate() must satisfy.
EXTENDS Authentication

CONSTANT Pushed  \* what Document says, as a configuration

\* The gateway gives one address and one domain.
ASSUME GivenOnce ==
  \A i, j \in DOMAIN Document :
    /\ Document[i].ev = Document[j].ev /\ Document[i].name = Document[j].name
    /\ \/ Document[i].ev = "empty" /\ Document[i].name = "assigned-addr"
       \/ Document[i].ev = "end" /\ Document[i].name = "domain"
    => i = j

\* The requests of authenticate(): the first has no cookie yet.
Asked == {Request("logincheck", None), Request("fortisslvpn", Cookie),
          Request("fortisslvpn_xml", Cookie)}

Configs == [assigned : Values \cup {None}, dns : Seq(Addresses),
            domain : Values \cup {None}, routes : Seq(Values)]

TypeOK ==
  /\ pc \in {"start", "done"} \cup DOMAIN Awaited
  /\ response \in Seq(Tokens)
  /\ torn \in BOOLEAN
  /\ cookie \in {None, Cookie}
  /\ config \in Configs
  /\ result \in Results \cup {None}
  /\ wire \in Seq(Tokens)
  /\ requests \subseteq Asked
  /\ ended \subseteq {1, 2}
  /\ opened \in BOOLEAN
  /\ page \in {<<>>, Document, Html}
  /\ verdict \in {"accept", "refuse", "challenge"}
  /\ body \in Bodies
  /\ certs \in [1 .. 2 -> Certs]

(* A configuration cut short anywhere holds nothing the gateway has not     *)
(* pushed: servers and routes are its first ones, and no address is the     *)
(* head of another (auth.rs:34-129, 160-174; a torn tag is an error, a text *)
(* counts with the end of its element).                                     *)
NothingInvented ==
  result = "ok" =>
    /\ config.assigned \in {None, Pushed.assigned}
    /\ config.domain \in {None, Pushed.domain}
    /\ IsPrefix(config.dns, Pushed.dns)
    /\ IsPrefix(config.routes, Pushed.routes)

(* If the last read brought the whole answer and the gateway kept the       *)
(* connection open, the configuration is what the gateway pushed.  If a     *)
(* rest of the body comes later it is missing, unnoticed (auth.rs:169).     *)
WholeAnswerTaken ==
  result = "ok" /\ wire = <<>> /\ 2 \notin ended /\ page = Document
    => config = Pushed

(* The configuration is asked for when the gateway has seen the request for *)
(* tunnel mode: what was left of the login's answer is not taken for the    *)
(* answer to that request, unless it has a blank line (auth.rs:321-331).    *)
TunnelModeFirst ==
  pc = "xml" /\ ~Contains(body, Blank) /\ 1 \notin ended => opened

(* The error names what happened: a token is asked for only when the        *)
(* gateway wants one, and credentials are called wrong only when they are,  *)
(* when the connection ended, or when the gateway's word for a token came   *)
(* in a later read than the header (auth.rs:315-319).                       *)
ErrorNamesCause ==
  /\ result = "OtpRequired" => verdict = "challenge"
  /\ result = "InvalidCredentials" =>
       verdict = "refuse" \/ 1 \in ended \/ (verdict = "challenge" /\ wire # <<>>)

\* The gateway has not looked at the request whose answer is awaited.
GatewayOwes ==
  Reading /\ ~Closed /\ \E r \in requests : r.path = Awaited[pc]

(* authenticate() comes back if each request is looked at: it never waits   *)
(* for more than the gateway has to say (auth.rs:163-172).  There is no     *)
(* time-out, and the manager's mutex is held meanwhile.                     *)
AuthenticationEnds == []<>~GatewayOwes => <>(pc = "done")
=============================================================================
