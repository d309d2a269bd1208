------------------------- MODULE AuthenticationProofs -------------------------
(***************************************************************************)
(* Logging in for any configuration of the gateway, any bodies of its      *)
(* answers, and any way the answers are cut into reads.                    *)
(***************************************************************************)
EXTENDS AuthenticationProperties, WellFoundedInduction, TLAPS

-----------------------------------------------------------------------------
(* The inductive invariant *)

\* What has been read and what can be read is the beginning of answer.
Begins(answer) ==
  /\ Len(response) + Len(wire) <= Len(answer)
  /\ \A i \in 1 .. Len(response) : response[i] = answer[i]
  /\ \A i \in 1 .. Len(wire) : wire[i] = answer[Len(response) + i]

Whole(answer) == Len(response) + Len(wire) = Len(answer)

Pending(p) == \E r \in requests : r.path = Awaited[p]

\* The answer to the request for p, on connection n, is this one or comes still.
Answers(p, n, answer) ==
  /\ Begins(answer)
  /\ Pending(p) => response = <<>> /\ wire = <<>>
  /\ n \notin ended => Pending(p) \/ Whole(answer)

XmlAnswer == <<Status, Blank>> \o page

\* The second answer is begun when the gateway opens the tunnel mode.
PageComes ==
  1 \notin ended /\ ~opened /\ ~Contains(body, Blank)
    => ~Contains(response, Blank) /\ ~Contains(wire, Blank)

Exchange ==
  /\ pc = "login" => Answers("login", 1, LoginAnswer)
  /\ pc = "page" => PageComes
  /\ pc = "xml" => Answers("xml", 2, XmlAnswer)

\* The cookie is the one the login's answer sets; there is a result at the
\* end, and a complete answer is not changed after it.
Settled ==
  /\ pc \in {"start", "login"} => cookie = None
  /\ pc \in {"page", "xml"} => cookie = Cookie
  /\ pc # "done" => result = None
  /\ result = "ok" /\ 2 \notin ended => ~Pending("xml")

\* What each property rests on; a property is inductive along with it.
IInv == TypeOK /\ Exchange /\ Settled

-----------------------------------------------------------------------------
(* Lemmas about sequences and positions *)

LEMMA Concatenation ==
  ASSUME NEW s \in Seq(Tokens), NEW t \in Seq(Tokens)
  PROVE  /\ s \o t \in Seq(Tokens) /\ Len(s \o t) = Len(s) + Len(t)
         /\ \A i \in 1 .. Len(s) : (s \o t)[i] = s[i]
         /\ \A i \in 1 .. Len(t) : (s \o t)[Len(s) + i] = t[i]
<1>1. s \o t \in Seq(Tokens) /\ Len(s \o t) = Len(s) + Len(t) /\ Len(s) \in Nat /\ Len(t) \in Nat
  OBVIOUS
<1>2. \A i \in 1 .. Len(s) : (s \o t)[i] = s[i]
  OBVIOUS
<1>3. \A i \in 1 .. Len(t) : (s \o t)[Len(s) + i] = t[i]
  OBVIOUS
<1> QED
  BY <1>1, <1>2, <1>3

LEMMA Slice ==
  ASSUME NEW S, NEW s \in Seq(S), NEW m \in 1 .. Len(s) + 1, NEW n \in m - 1 .. Len(s)
  PROVE  /\ SubSeq(s, m, n) \in Seq(S) /\ Len(SubSeq(s, m, n)) = n - m + 1
         /\ \A i \in 1 .. n - m + 1 : SubSeq(s, m, n)[i] = s[m + i - 1]
  OBVIOUS

LEMMA SameSequence ==
  ASSUME NEW S, NEW s \in Seq(S), NEW t \in Seq(S), Len(s) = Len(t),
         \A i \in 1 .. Len(s) : s[i] = t[i]
  PROVE  s = t
  OBVIOUS

LEMMA LessIsWellFounded ==
  \E R : IsWellFoundedOn(R, Nat) /\ \A x, y \in Nat : <<y, x>> \in R <=> y < x
<1>1. \A x, y \in Nat : <<y, x>> \in OpToRel(<, Nat) <=> y < x
  BY DEF OpToRel
<1> WITNESS OpToRel(<, Nat)
<1> QED
  BY <1>1, NatLessThanWellFounded

\* A set of natural numbers that is not empty has a least element.
LEMMA MinIsMember ==
  ASSUME NEW I \in SUBSET Nat, I # {}
  PROVE  Min(I) \in I /\ \A y \in I : Min(I) <= y
<1>1. PICK R : IsWellFoundedOn(R, Nat) /\ \A x, y \in Nat : <<y, x>> \in R <=> y < x
  BY LessIsWellFounded
<1>2. PICK x \in I : \A y \in I : ~(<<y, x>> \in R)
  BY <1>1, WFMin
<1>3. ASSUME NEW y \in I PROVE x <= y
  <2>1. x \in Nat /\ y \in Nat /\ ~(<<y, x>> \in R)
    BY <1>2
  <2>2. ~(y < x)
    BY <1>1, <2>1, Zenon
  <2> QED
    BY <2>1, <2>2
<1> QED
  BY <1>2, <1>3 DEF Min

\* Induction over the positions of a sequence: a set that has 0, and with a
\* number below N the next one, has every number up to N.
LEMMA UpTo ==
  ASSUME NEW N \in Nat, NEW S, 0 \in S, \A n \in 0 .. N : n \in S /\ n < N => n + 1 \in S
  PROVE  0 .. N \subseteq S
<1> DEFINE I == {n \in 0 .. N : n \notin S}
<1>1. CASE I = {}
  BY <1>1
<1>2. CASE I # {}
  <2>1. Min(I) \in I /\ \A y \in I : Min(I) <= y
    BY <1>2, MinIsMember
  <2> DEFINE m == Min(I)
  <2> HIDE DEF m
  <2>2. m \in 0 .. N /\ m \notin S /\ m # 0 /\ \A y \in I : m <= y
    BY <2>1 DEF m
  <2>3. m - 1 \in 0 .. N /\ m - 1 < N /\ ~(m <= m - 1) /\ m - 1 + 1 = m
    BY <2>2
  <2>4. m - 1 \in S
    BY <2>2, <2>3
  <2> QED
    BY <2>2, <2>3, <2>4
<1> QED
  BY <1>1, <1>2

LEMMA FirstBlankFinds ==
  ASSUME NEW s \in Seq(Tokens)
  PROVE  /\ FirstBlank(s) \in 0 .. Len(s)
         /\ FirstBlank(s) = 0 => \A i \in 1 .. Len(s) : s[i] # Blank
         /\ FirstBlank(s) # 0 => /\ s[FirstBlank(s)] = Blank
                                 /\ \A i \in 1 .. Len(s) : s[i] = Blank => FirstBlank(s) <= i
<1> DEFINE I == {i \in 1 .. Len(s) : s[i] = Blank}
<1>1. FirstBlank(s) = IF I # {} THEN Min(I) ELSE 0
  BY DEF FirstBlank, SelectInSeq
<1>2. I \in SUBSET Nat
  OBVIOUS
<1>3. CASE I = {}
  BY <1>1, <1>3
<1>4. CASE I # {}
  <2>1. Min(I) \in I /\ \A y \in I : Min(I) <= y
    BY <1>2, <1>4, MinIsMember
  <2> QED
    BY <1>1, <1>4, <2>1
<1> QED
  BY <1>3, <1>4

LEMMA CookieFinds ==
  ASSUME NEW s \in Seq(Tokens)
  PROVE  \/ /\ CookieIn(s) = None
            /\ \A i \in 1 .. Len(s) : ~(s[i].name = "SVPNCOOKIE" /\ s[i].val # None)
         \/ \E i \in 1 .. Len(s) : /\ s[i].name = "SVPNCOOKIE" /\ s[i].val # None
                                   /\ CookieIn(s) = s[i].val
<1> DEFINE I == {i \in 1 .. Len(s) : s[i].name = "SVPNCOOKIE" /\ s[i].val # None}
           i0 == IF I # {} THEN Min(I) ELSE 0
<1>1. CookieIn(s) = IF i0 = 0 THEN None ELSE s[i0].val
  BY DEF CookieIn, SelectInSeq
<1>2. I \in SUBSET Nat
  OBVIOUS
<1>3. CASE I = {}
  BY <1>1, <1>3
<1>4. CASE I # {}
  <2>1. Min(I) \in I
    BY <1>2, <1>4, MinIsMember
  <2>2. i0 \in I
    BY <1>4, <2>1
  <2>3. CookieIn(s) = s[i0].val
    BY <1>1, <2>2
  <2> QED
    BY <2>2, <2>3
<1> QED
  BY <1>3, <1>4

-----------------------------------------------------------------------------
(* Lemmas about the parser *)

Parsers == [config : Configs, inDns : BOOLEAN, text : Values \cup {None}]

Fresh == [config |-> Empty, inDns |-> FALSE, text |-> None]

\* g is a parser's way through the first m tokens.
Way(g, tokens, m) ==
  g = [n \in 0 .. m |-> IF n = 0 THEN Fresh ELSE ParseEvent(g[n - 1], tokens[n])]

LEMMA WayExists ==
  ASSUME NEW tokens, NEW N \in Nat
  PROVE  \E g : Way(g, tokens, N)
<1> DEFINE S == {m \in 0 .. N : \E g : Way(g, tokens, m)}
<1>1. 0 \in S
  <2>1. Way([n \in 0 .. 0 |-> Fresh], tokens, 0)
    BY DEF Way
  <2> QED
    BY <2>1
<1>2. ASSUME NEW m \in 0 .. N, m \in S, m < N PROVE m + 1 \in S
  <2>1. PICK g : Way(g, tokens, m)
    BY <1>2
  <2> DEFINE h == [n \in 0 .. m + 1 |-> IF n = m + 1 THEN ParseEvent(g[m], tokens[n]) ELSE g[n]]
  <2>2. ASSUME NEW n \in 0 .. m + 1
        PROVE  h[n] = IF n = 0 THEN Fresh ELSE ParseEvent(h[n - 1], tokens[n])
    <3>1. CASE n = m + 1
      <4>1. n - 1 = m /\ m \in 0 .. m + 1 /\ m # m + 1 /\ n # 0
        BY <3>1
      <4>2. h[n - 1] = g[m] /\ h[n] = ParseEvent(g[m], tokens[n])
        BY <3>1, <4>1
      <4> QED
        BY <4>1, <4>2
    <3>2. CASE n # m + 1
      <4>1. n \in 0 .. m /\ h[n] = g[n]
        BY <3>2
      <4>2. g[n] = IF n = 0 THEN Fresh ELSE ParseEvent(g[n - 1], tokens[n])
        BY <2>1, <4>1 DEF Way
      <4>3. n # 0 => h[n - 1] = g[n - 1]
        BY <4>1
      <4> QED
        BY <4>1, <4>2, <4>3
    <3> QED
      BY <3>1, <3>2
  <2>3. DOMAIN h = 0 .. m + 1 /\ h = [n \in DOMAIN h |-> h[n]]
    OBVIOUS
  <2> HIDE DEF h
  <2>4. Way(h, tokens, m + 1)
    BY <2>2, <2>3 DEF Way
  <2> QED
    BY <1>2, <2>4
<1> HIDE DEF S
<1>3. 0 .. N \subseteq S
  BY <1>1, <1>2, UpTo
<1>4. N \in S
  BY <1>3
<1> QED
  BY <1>4 DEF S

LEMMA ParsingIsWay ==
  ASSUME NEW tokens \in Seq(Tokens)
  PROVE  Way(Parsing(tokens), tokens, Len(tokens))
<1> DEFINE P(p) == Way(p, tokens, Len(tokens))
<1>1. Parsing(tokens) = CHOOSE p : P(p)
  BY DEF Parsing, Way, Fresh
<1>2. \E g : P(g)
  BY WayExists
<1> HIDE DEF P
<1>3. P(CHOOSE p : P(p))
  BY <1>2
<1>4. P(Parsing(tokens))
  BY <1>1, <1>3
<1> QED
  BY <1>4 DEF P

\* The equation that defines the parser, by its two cases.
LEMMA ParsingSteps ==
  ASSUME NEW tokens \in Seq(Tokens)
  PROVE  /\ Parsing(tokens)[0] = Fresh
         /\ \A n \in 1 .. Len(tokens) :
              Parsing(tokens)[n] = ParseEvent(Parsing(tokens)[n - 1], tokens[n])
<1> DEFINE p == Parsing(tokens)
<1>1. p = [n \in 0 .. Len(tokens) |-> IF n = 0 THEN Fresh ELSE ParseEvent(p[n - 1], tokens[n])]
  BY ParsingIsWay DEF Way
<1> HIDE DEF p
<1>2. \A n \in 0 .. Len(tokens) :
        p[n] = IF n = 0 THEN Fresh ELSE ParseEvent(p[n - 1], tokens[n])
  BY <1>1
<1>3. Len(tokens) \in Nat
  OBVIOUS
<1>4. p[0] = Fresh
  BY <1>2, <1>3
<1>5. \A n \in 1 .. Len(tokens) : p[n] = ParseEvent(p[n - 1], tokens[n])
  BY <1>2, <1>3
<1> QED
  BY <1>4, <1>5 DEF p

LEMMA FreshType == Fresh \in Parsers
<1>1. <<>> \in Seq(Addresses) /\ <<>> \in Seq(Values)
  OBVIOUS
<1> QED
  BY <1>1 DEF Fresh, Parsers, Configs, Empty

\* What one token does to the parser.
LEMMA EventStep ==
  ASSUME NEW s \in Parsers, NEW t \in Tokens
  PROVE  /\ ParseEvent(s, t) \in Parsers
         /\ \/ ParseEvent(s, t).config.dns = s.config.dns
            \/ /\ s.text \in Addresses
               /\ ParseEvent(s, t).config.dns = Append(s.config.dns, s.text)
         /\ \/ ParseEvent(s, t).config.routes = s.config.routes
            \/ t.val \in Values /\ ParseEvent(s, t).config.routes = Append(s.config.routes, t.val)
         /\ \/ ParseEvent(s, t).config.assigned = s.config.assigned
            \/ t.ev = "empty" /\ t.name = "assigned-addr"
         /\ \/ ParseEvent(s, t).config.domain = s.config.domain
            \/ t.ev = "end" /\ t.name = "domain"
         /\ t.ev = "text" => ParseEvent(s, t).config = s.config
<1>0. /\ s = [config |-> s.config, inDns |-> s.inDns, text |-> s.text]
      /\ s.config = [assigned |-> s.config.assigned, dns |-> s.config.dns,
                     domain |-> s.config.domain, routes |-> s.config.routes]
      /\ s.inDns \in BOOLEAN /\ s.text \in Values \cup {None}
      /\ s.config.assigned \in Values \cup {None} /\ s.config.domain \in Values \cup {None}
      /\ s.config.dns \in Seq(Addresses) /\ s.config.routes \in Seq(Values)
      /\ t.val \in Values \cup {None}
  BY DEF Parsers, Configs, Tokens
<1>1. CASE t.ev = "start"
  <2>1. ParseEvent(s, t) = [s EXCEPT !.inDns = @ \/ t.name = "dns", !.text = None]
    BY <1>1 DEF ParseEvent
  <2> QED
    BY <1>0, <1>1, <2>1 DEF Parsers, Configs
<1>2. CASE t.ev = "text"
  <2>1. ParseEvent(s, t) = [s EXCEPT !.text = t.val]
    BY <1>2 DEF ParseEvent, ParseText
  <2> QED
    BY <1>0, <1>2, <2>1 DEF Parsers, Configs
<1>3. CASE t.ev = "end"
  <2> DEFINE d == IF t.name = "ip" /\ s.inDns /\ s.text \in Addresses
                  THEN Append(s.config.dns, s.text) ELSE s.config.dns
             m == IF t.name = "domain" /\ s.inDns /\ s.text # None
                  THEN s.text ELSE s.config.domain
             c == [s.config EXCEPT !.dns = d, !.domain = m]
  <2>1. ParseEvent(s, t) = [config |-> c, inDns |-> s.inDns /\ t.name # "dns", text |-> None]
    BY <1>3 DEF ParseEvent, ParseEnd
  <2>2. /\ d = s.config.dns \/ (s.text \in Addresses /\ d = Append(s.config.dns, s.text))
        /\ m = s.config.domain \/ (t.name = "domain" /\ m = s.text)
    OBVIOUS
  <2> HIDE DEF d, m
  <2>3. d \in Seq(Addresses) /\ m \in Values \cup {None}
    BY <1>0, <2>2
  <2>4. s.config \in [assigned : Values \cup {None}, dns : Seq(Addresses),
                      domain : Values \cup {None}, routes : Seq(Values)]
    BY DEF Parsers, Configs
  <2>5. /\ c.assigned = s.config.assigned /\ c.routes = s.config.routes
        /\ c.dns = d /\ c.domain = m /\ c \in Configs
    BY <2>3, <2>4 DEF Configs
  <2> HIDE DEF c
  <2> QED
    BY <1>0, <1>3, <2>1, <2>2, <2>5 DEF Parsers
<1>4. CASE t.ev = "empty" /\ t.name = "assigned-addr"
  <2>1. ParseEvent(s, t) = [s EXCEPT !.config.assigned = t.val]
    BY <1>4 DEF ParseEvent
  <2> QED
    BY <1>0, <1>4, <2>1 DEF Parsers, Configs
<1>5. CASE t.ev = "empty" /\ t.name = "addr" /\ t.val # None
  <2>1. ParseEvent(s, t) = [s EXCEPT !.config.routes = Append(@, t.val)]
    BY <1>5 DEF ParseEvent
  <2>2. t.val \in Values /\ Append(s.config.routes, t.val) \in Seq(Values)
    BY <1>0, <1>5
  <2> QED
    BY <1>0, <1>5, <2>1, <2>2 DEF Parsers, Configs
<1>6. CASE /\ t.ev \notin {"start", "text", "end"}
           /\ ~(t.ev = "empty" /\ t.name = "assigned-addr")
           /\ ~(t.ev = "empty" /\ t.name = "addr" /\ t.val # None)
  <2>1. ParseEvent(s, t) = s
    BY <1>6 DEF ParseEvent
  <2> QED
    BY <1>6, <2>1
<1> QED
  BY <1>1, <1>2, <1>3, <1>4, <1>5, <1>6

\* The parser, whatever it has read, is in one of its states.
LEMMA ParsingType ==
  ASSUME NEW tokens \in Seq(Tokens)
  PROVE  \A n \in 0 .. Len(tokens) : Parsing(tokens)[n] \in Parsers
<1> DEFINE p == Parsing(tokens)
           S == {n \in 0 .. Len(tokens) : p[n] \in Parsers}
<1>1. /\ p[0] = Fresh
      /\ \A n \in 1 .. Len(tokens) : p[n] = ParseEvent(p[n - 1], tokens[n])
  BY ParsingSteps
<1> HIDE DEF p
<1>2. 0 \in S
  BY <1>1, FreshType
<1>3. ASSUME NEW n \in 0 .. Len(tokens), n \in S, n < Len(tokens) PROVE n + 1 \in S
  <2>1. n + 1 \in 1 .. Len(tokens) /\ n + 1 - 1 = n /\ n + 1 \in 0 .. Len(tokens)
    BY <1>3
  <2>2. p[n + 1] = ParseEvent(p[n], tokens[n + 1])
    BY <1>1, <2>1
  <2>3. p[n] \in Parsers /\ tokens[n + 1] \in Tokens
    BY <1>3, <2>1
  <2> QED
    BY <2>1, <2>2, <2>3, EventStep
<1> HIDE DEF S
<1>4. 0 .. Len(tokens) \subseteq S
  BY <1>2, <1>3, UpTo
<1> QED
  BY <1>4 DEF S, p

\* The parser knows nothing of what it has not read.
LEMMA ParsingAgrees ==
  ASSUME NEW s \in Seq(Tokens), NEW t \in Seq(Tokens),
         NEW k \in 0 .. Len(s), k <= Len(t), \A i \in 1 .. k : s[i] = t[i]
  PROVE  Parsing(s)[k] = Parsing(t)[k]
<1> DEFINE p == Parsing(s)
           q == Parsing(t)
           S == {n \in 0 .. k : p[n] = q[n]}
<1>1. /\ p[0] = Fresh
      /\ \A n \in 1 .. Len(s) : p[n] = ParseEvent(p[n - 1], s[n])
  BY ParsingSteps
<1>2. /\ q[0] = Fresh
      /\ \A n \in 1 .. Len(t) : q[n] = ParseEvent(q[n - 1], t[n])
  BY ParsingSteps
<1> HIDE DEF p, q
<1>3. 0 \in S
  BY <1>1, <1>2
<1>4. ASSUME NEW n \in 0 .. k, n \in S, n < k PROVE n + 1 \in S
  <2>1. /\ n + 1 \in 1 .. k /\ n + 1 \in 1 .. Len(s) /\ n + 1 \in 1 .. Len(t)
        /\ n + 1 \in 0 .. k /\ n + 1 - 1 = n
    BY <1>4
  <2>2. p[n + 1] = ParseEvent(p[n], s[n + 1]) /\ q[n + 1] = ParseEvent(q[n], t[n + 1])
    BY <1>1, <1>2, <2>1
  <2>3. s[n + 1] = t[n + 1] /\ p[n] = q[n]
    BY <1>4, <2>1
  <2> QED
    BY <2>1, <2>2, <2>3
<1> HIDE DEF S
<1>5. 0 .. k \subseteq S
  <2>1. k \in Nat
    OBVIOUS
  <2> QED
    BY <2>1, <1>3, <1>4, UpTo
<1> QED
  BY <1>5 DEF S, p, q

LEMMA PrefixAtPositions ==
  ASSUME NEW V, NEW s \in Seq(V), NEW t \in Seq(V)
  PROVE  IsPrefix(s, t) <=> Len(s) <= Len(t) /\ \A i \in 1 .. Len(s) : s[i] = t[i]
<1>1. CASE Len(s) <= Len(t)
  <2>1. /\ SubSeq(t, 1, Len(s)) \in Seq(V) /\ Len(SubSeq(t, 1, Len(s))) = Len(s)
        /\ \A i \in 1 .. Len(s) : SubSeq(t, 1, Len(s))[i] = t[i]
    BY <1>1
  <2>2. /\ SubSeq(s, 1, Len(s)) \in Seq(V) /\ Len(SubSeq(s, 1, Len(s))) = Len(s)
        /\ \A i \in 1 .. Len(s) : SubSeq(s, 1, Len(s))[i] = s[i]
    OBVIOUS
  <2>3. SubSeq(s, 1, Len(s)) = SubSeq(t, 1, Len(s)) <=> \A i \in 1 .. Len(s) : s[i] = t[i]
    BY <2>1, <2>2, SameSequence
  <2> QED
    BY <1>1, <2>3 DEF IsPrefix
<1>2. CASE ~(Len(s) <= Len(t))
  BY <1>2 DEF IsPrefix
<1> QED
  BY <1>1, <1>2

LEMMA PrefixGrows ==
  ASSUME NEW V, NEW s \in Seq(V), NEW t \in Seq(V), IsPrefix(s, t), NEW e \in V
  PROVE  IsPrefix(s, Append(t, e))
<1>1. Len(s) <= Len(t) /\ \A i \in 1 .. Len(s) : s[i] = t[i]
  BY PrefixAtPositions
<1>2. /\ Append(t, e) \in Seq(V) /\ Len(Append(t, e)) = Len(t) + 1
      /\ \A i \in 1 .. Len(t) : Append(t, e)[i] = t[i]
  OBVIOUS
<1>3. Len(s) <= Len(Append(t, e)) /\ \A i \in 1 .. Len(s) : s[i] = Append(t, e)[i]
  BY <1>1, <1>2
<1> QED
  BY <1>2, <1>3, PrefixAtPositions

(* The parser takes nothing back, whatever the tokens are: servers and routes *)
(* are only added, and the address and the domain stay until another one      *)
(* comes (parse_vpn_config_xml, auth.rs:34-129).                              *)
THEOREM ParsingGrows ==
  ASSUME NEW tokens \in Seq(Tokens), NEW k \in 0 .. Len(tokens), NEW j \in k .. Len(tokens)
  PROVE  LET a == Parsing(tokens)[k].config
             b == Parsing(tokens)[j].config
         IN  /\ IsPrefix(a.dns, b.dns)
             /\ IsPrefix(a.routes, b.routes)
             /\ \/ a.assigned = b.assigned
                \/ \E i \in k + 1 .. j : tokens[i].ev = "empty" /\ tokens[i].name = "assigned-addr"
             /\ \/ a.domain = b.domain
                \/ \E i \in k + 1 .. j : tokens[i].ev = "end" /\ tokens[i].name = "domain"
<1> DEFINE p == Parsing(tokens)
           Addr(n) == \E i \in k + 1 .. n : tokens[i].ev = "empty" /\ tokens[i].name = "assigned-addr"
           Dom(n) == \E i \in k + 1 .. n : tokens[i].ev = "end" /\ tokens[i].name = "domain"
           Ok(n) == /\ IsPrefix(p[k].config.dns, p[n].config.dns)
                    /\ IsPrefix(p[k].config.routes, p[n].config.routes)
                    /\ p[k].config.assigned = p[n].config.assigned \/ Addr(n)
                    /\ p[k].config.domain = p[n].config.domain \/ Dom(n)
           S == {m \in 0 .. j - k : Ok(k + m)}
<1>0. k \in Nat /\ j \in Nat /\ k <= j /\ j <= Len(tokens) /\ j - k \in Nat
  OBVIOUS
<1>1. \A n \in 1 .. Len(tokens) : p[n] = ParseEvent(p[n - 1], tokens[n])
  BY ParsingSteps
<1>2. \A n \in 0 .. Len(tokens) : p[n] \in Parsers
  BY ParsingType
<1> HIDE DEF p
<1>3. \A n \in 0 .. Len(tokens) : p[n].config.dns \in Seq(Addresses)
                                  /\ p[n].config.routes \in Seq(Values)
  BY <1>2 DEF Parsers, Configs
<1>4. 0 \in S
  <2>1. IsPrefix(p[k].config.dns, p[k].config.dns)
    BY <1>3, PrefixAtPositions
  <2>2. IsPrefix(p[k].config.routes, p[k].config.routes)
    BY <1>3, PrefixAtPositions
  <2>3. Ok(k)
    BY <2>1, <2>2
  <2>4. k + 0 = k /\ 0 \in 0 .. j - k
    BY <1>0
  <2> HIDE DEF Ok
  <2> QED
    BY <2>3, <2>4
<1>5. ASSUME NEW m \in 0 .. j - k, m \in S, m < j - k PROVE m + 1 \in S
  <2> DEFINE n == k + m
  <2>1. /\ n \in 0 .. Len(tokens) /\ n + 1 \in 1 .. Len(tokens) /\ n + 1 - 1 = n
        /\ n + 1 \in 0 .. Len(tokens)
        /\ k + (m + 1) = n + 1 /\ m + 1 \in 0 .. j - k /\ n + 1 \in k + 1 .. n + 1
        /\ n \in Nat /\ k <= n
    <3>1. m \in Nat /\ m < j - k
      BY <1>0, <1>5
    <3> HIDE DEF Ok, S
    <3>2. n \in Nat /\ k <= n /\ n < j /\ k + (m + 1) = n + 1 /\ m + 1 \in 0 .. j - k
      BY <1>0, <3>1
    <3> HIDE DEF n
    <3> QED
      BY <1>0, <3>2
  <2>2. Ok(n)
    BY <1>5
  <2> HIDE DEF n
  <2>3. p[n + 1] = ParseEvent(p[n], tokens[n + 1]) /\ p[n] \in Parsers /\ tokens[n + 1] \in Tokens
    BY <1>1, <1>2, <2>1
  <2> DEFINE t == tokens[n + 1]
             q == p[n]
  <2> HIDE DEF q, t, S, Ok, Addr, Dom
  <2>4. /\ \/ p[n + 1].config.dns = p[n].config.dns
           \/ /\ p[n].text \in Addresses
              /\ p[n + 1].config.dns = Append(p[n].config.dns, p[n].text)
        /\ \/ p[n + 1].config.routes = p[n].config.routes
           \/ t.val \in Values /\ p[n + 1].config.routes = Append(p[n].config.routes, t.val)
        /\ p[n + 1].config.assigned = p[n].config.assigned
           \/ (t.ev = "empty" /\ t.name = "assigned-addr")
        /\ p[n + 1].config.domain = p[n].config.domain \/ (t.ev = "end" /\ t.name = "domain")
    <3>1. p[n + 1] = ParseEvent(q, t) /\ q = p[n] /\ q \in Parsers /\ t \in Tokens
      BY <2>3 DEF q, t
    <3>2. /\ \/ ParseEvent(q, t).config.dns = q.config.dns
             \/ /\ q.text \in Addresses
                /\ ParseEvent(q, t).config.dns = Append(q.config.dns, q.text)
          /\ \/ ParseEvent(q, t).config.routes = q.config.routes
             \/ t.val \in Values /\ ParseEvent(q, t).config.routes = Append(q.config.routes, t.val)
          /\ \/ ParseEvent(q, t).config.assigned = q.config.assigned
             \/ t.ev = "empty" /\ t.name = "assigned-addr"
          /\ \/ ParseEvent(q, t).config.domain = q.config.domain
             \/ t.ev = "end" /\ t.name = "domain"
      BY <3>1, EventStep
    <3> QED
      BY <3>1, <3>2
  <2>5. IsPrefix(p[k].config.dns, p[n + 1].config.dns)
    BY <1>0, <1>3, <2>1, <2>2, <2>4, PrefixGrows DEF Ok
  <2>6. IsPrefix(p[k].config.routes, p[n + 1].config.routes)
    BY <1>0, <1>3, <2>1, <2>2, <2>4, PrefixGrows DEF Ok
  <2>7. Addr(n) => Addr(n + 1)
    BY <1>0, <2>1 DEF Addr
  <2>8. Dom(n) => Dom(n + 1)
    BY <1>0, <2>1 DEF Dom
  <2>9. (t.ev = "empty" /\ t.name = "assigned-addr") => Addr(n + 1)
    BY <2>1 DEF Addr, t
  <2>10. (t.ev = "end" /\ t.name = "domain") => Dom(n + 1)
    BY <2>1 DEF Dom, t
  <2>11. Ok(n + 1)
    BY <2>2, <2>4, <2>5, <2>6, <2>7, <2>8, <2>9, <2>10 DEF Ok
  <2> QED
    BY <2>1, <2>11 DEF S
<1> HIDE DEF S
<1>6. 0 .. j - k \subseteq S
  BY <1>0, <1>4, <1>5, UpTo
<1>7. j - k \in S /\ k + (j - k) = j
  BY <1>0, <1>6
<1> HIDE DEF Ok
<1>8. Ok(j)
  BY <1>7 DEF S
<1> QED
  BY <1>8 DEF Ok, p

-----------------------------------------------------------------------------
(* Lemmas about the body of an answer *)

LEMMA TokenFacts ==
  /\ Status \in Tokens /\ Blank \in Tokens /\ Tokeninfo \in Tokens
  /\ SetCookie(Cookie) \in Tokens /\ SetCookie(None) \in Tokens
  /\ Status # Blank /\ Status # Tokeninfo /\ Blank # Tokeninfo
  /\ \A v : SetCookie(v) # Blank /\ SetCookie(v) # Tokeninfo
  /\ \A v : SetCookie(v).name = "SVPNCOOKIE" /\ SetCookie(v).val = v
  /\ Status.name # "SVPNCOOKIE" /\ Blank.name # "SVPNCOOKIE" /\ Tokeninfo.name # "SVPNCOOKIE"
  /\ Status.ev = "header" /\ Blank.ev = "blank"
  /\ Cookie \in Values /\ Cookie # None
<1>1. Cookie \in Values /\ Cookie # None /\ None \in Values \cup {None}
  BY AuthConstants
<1>2. /\ "header" \in Events /\ "blank" \in Events /\ "text" \in Events
      /\ "" \in Names /\ "status" \in Names /\ "SVPNCOOKIE" \in Names /\ "tokeninfo" \in Names
  BY AuthConstants DEF Events
<1>3. /\ Status.ev = "header" /\ Status.name = "status" /\ Blank.ev = "blank" /\ Blank.name = ""
      /\ Tokeninfo.ev = "text" /\ Tokeninfo.name = "tokeninfo"
      /\ \A v : /\ SetCookie(v).ev = "header" /\ SetCookie(v).name = "SVPNCOOKIE"
               /\ SetCookie(v).val = v
  BY DEF Token, Status, Blank, Tokeninfo, SetCookie
<1>4. /\ Status \in Tokens /\ Blank \in Tokens /\ Tokeninfo \in Tokens
      /\ SetCookie(Cookie) \in Tokens /\ SetCookie(None) \in Tokens
  <2>1. Status \in Tokens
    BY <1>1, <1>2 DEF Status, Token, Tokens
  <2>2. Blank \in Tokens
    BY <1>1, <1>2 DEF Blank, Token, Tokens
  <2>3. Tokeninfo \in Tokens
    BY <1>1, <1>2 DEF Tokeninfo, Token, Tokens
  <2>4. SetCookie(Cookie) \in Tokens /\ SetCookie(None) \in Tokens
    BY <1>1, <1>2 DEF SetCookie, Token, Tokens
  <2> QED
    BY <2>1, <2>2, <2>3, <2>4
<1>5. Status # Blank /\ Status # Tokeninfo /\ Blank # Tokeninfo
  <2>1. "header" # "blank" /\ "header" # "text" /\ "blank" # "text"
    OBVIOUS
  <2> QED
    BY <1>3, <2>1, Zenon
<1>6. ASSUME NEW v PROVE SetCookie(v) # Blank /\ SetCookie(v) # Tokeninfo
  <2>1. "header" # "blank" /\ "header" # "text"
    OBVIOUS
  <2> QED
    BY <1>3, <2>1, Zenon
<1> QED
  BY <1>1, <1>3, <1>4, <1>5, <1>6

LEMMA BodyType ==
  ASSUME NEW r \in Seq(Tokens)
  PROVE  BodyOf(r) \in Seq(Tokens)
<1> DEFINE f == FirstBlank(r)
           rest == SubSeq(r, f + 1, Len(r))
           g == FirstBlank(rest)
<1>1. f \in 0 .. Len(r)
  BY FirstBlankFinds
<1> HIDE DEF f
<1>2. rest \in Seq(Tokens)
  BY <1>1
<1> HIDE DEF rest
<1>3. g \in 0 .. Len(rest)
  BY <1>2, FirstBlankFinds
<1> HIDE DEF g
<1>4. g # 0 => SubSeq(rest, 1, g - 1) \in Seq(Tokens)
  BY <1>2, <1>3
<1>5. BodyOf(r) = IF g = 0 THEN rest ELSE SubSeq(rest, 1, g - 1)
  BY DEF BodyOf, f, rest, g
<1> QED
  BY <1>2, <1>4, <1>5

\* Of the beginning of an answer with body d, the body is the beginning of d;
\* before the blank line all there can be is the status.
LEMMA BodyBegins ==
  ASSUME NEW d \in Seq(Tokens), \A i \in 1 .. Len(d) : d[i] # Blank,
         NEW r \in Seq(Tokens), Len(r) <= Len(d) + 2,
         Len(r) >= 1 => r[1] = Status, Len(r) >= 2 => r[2] = Blank,
         \A i \in 3 .. Len(r) : r[i] = d[i - 2]
  PROVE  /\ BodyOf(r) \in Seq(Tokens)
         /\ Len(r) < 2 => BodyOf(r) = r
         /\ Len(r) >= 2 => /\ Len(BodyOf(r)) = Len(r) - 2
                           /\ \A i \in 1 .. Len(r) - 2 : BodyOf(r)[i] = d[i]
<1>1. BodyOf(r) \in Seq(Tokens)
  BY BodyType
<1>2. Status # Blank
  BY TokenFacts
<1>3. CASE Len(r) < 2
  <2>1. \A i \in 1 .. Len(r) : r[i] # Blank
    BY <1>2, <1>3
  <2>2. FirstBlank(r) = 0
    BY <2>1, FirstBlankFinds
  <2>3. SubSeq(r, 1, Len(r)) = r
    <3>1. SubSeq(r, 1, Len(r)) \in Seq(Tokens) /\ Len(SubSeq(r, 1, Len(r))) = Len(r)
          /\ \A i \in 1 .. Len(r) : SubSeq(r, 1, Len(r))[i] = r[i]
      OBVIOUS
    <3> QED
      BY <3>1, SameSequence
  <2>4. BodyOf(r) = r
    <3>1. FirstBlank(r) + 1 = 1
      BY <2>2
    <3> QED
      BY <2>2, <2>3, <3>1 DEF BodyOf
  <2> QED
    BY <1>1, <1>3, <2>4
<1>4. CASE Len(r) >= 2
  <2>1. FirstBlank(r) = 2
    <3>1. FirstBlank(r) \in 0 .. Len(r) /\ FirstBlank(r) # 0 /\ FirstBlank(r) <= 2
      <4>1. 2 \in 1 .. Len(r) /\ r[2] = Blank
        BY <1>4
      <4>2. FirstBlank(r) # 0
        BY <4>1, FirstBlankFinds
      <4>3. FirstBlank(r) <= 2
        BY <4>1, <4>2, FirstBlankFinds
      <4> QED
        BY <4>2, <4>3, FirstBlankFinds
    <3>2. FirstBlank(r) # 1
      <4>1. FirstBlank(r) = 1 => r[1] = Blank
        BY <3>1, FirstBlankFinds
      <4> QED
        BY <1>2, <1>4, <4>1
    <3> QED
      BY <3>1, <3>2
  <2> DEFINE rest == SubSeq(r, 3, Len(r))
  <2>2. /\ rest \in Seq(Tokens) /\ Len(rest) = Len(r) - 2
        /\ \A i \in 1 .. Len(r) - 2 : rest[i] = r[i + 2]
    <3>1. 3 \in 1 .. Len(r) + 1 /\ Len(r) \in 3 - 1 .. Len(r) /\ Len(r) - 3 + 1 = Len(r) - 2
      BY <1>4
    <3>2. /\ rest \in Seq(Tokens) /\ Len(rest) = Len(r) - 3 + 1
          /\ \A i \in 1 .. Len(r) - 3 + 1 : rest[i] = r[3 + i - 1]
      BY <3>1, Slice
    <3> QED
      BY <3>1, <3>2
  <2> HIDE DEF rest
  <2>3. \A i \in 1 .. Len(r) - 2 : rest[i] = d[i] /\ rest[i] # Blank
    BY <1>4, <2>2
  <2>4. FirstBlank(rest) = 0
    BY <2>2, <2>3, FirstBlankFinds
  <2>5. BodyOf(r) = rest
    BY <2>1, <2>4 DEF BodyOf, rest
  <2> QED
    BY <1>4, <2>2, <2>3, <2>5
<1> QED
  BY <1>3, <1>4

LEMMA CutType ==
  ASSUME NEW t \in Tokens
  PROVE  /\ CutShort(t) \in Seq(Tokens)
         /\ CutShort(t) = <<>> \/ (Len(CutShort(t)) = 1 /\ CutShort(t)[1].ev = "text")
<1>1. Partial \in Values
  BY AuthConstants
<1>2. Token("text", t.name, Partial) \in Tokens /\ Token("text", t.name, Partial).ev = "text"
  BY <1>1 DEF Token, Tokens, Events
<1> QED
  BY <1>2 DEF CutShort

\* The head of a text that was cut short is not taken for anything.
LEMMA CutTextIgnored ==
  ASSUME NEW b \in Seq(Tokens), NEW c \in Seq(Tokens),
         c = <<>> \/ (Len(c) = 1 /\ c[1].ev = "text")
  PROVE  Parsed(b \o c) = Parsing(b)[Len(b)].config
<1> DEFINE w == b \o c
           n == Len(b)
<1>1. /\ w \in Seq(Tokens) /\ Len(w) = n + Len(c) /\ n \in Nat /\ Len(c) \in Nat
      /\ \A i \in 1 .. n : w[i] = b[i]
      /\ \A i \in 1 .. Len(c) : w[n + i] = c[i]
  <2>1. w \in Seq(Tokens) /\ Len(w) = n + Len(c)
    BY Concatenation
  <2>2. \A i \in 1 .. n : w[i] = b[i]
    BY Concatenation
  <2>3. \A i \in 1 .. Len(c) : w[n + i] = c[i]
    BY Concatenation
  <2>4. n \in Nat /\ Len(c) \in Nat
    OBVIOUS
  <2> QED
    BY <2>1, <2>2, <2>3, <2>4
<1> HIDE DEF w
<1>2. Parsing(w)[n] = Parsing(b)[n]
  <2>1. n \in 0 .. Len(w) /\ n <= Len(b)
    BY <1>1
  <2> QED
    BY <1>1, <2>1, ParsingAgrees
<1>3. CASE c = <<>>
  <2>1. Len(w) = n
    BY <1>1, <1>3
  <2> QED
    BY <1>2, <2>1 DEF Parsed, w
<1>4. CASE Len(c) = 1 /\ c[1].ev = "text"
  <2>1. /\ Len(w) = n + 1 /\ n + 1 \in 1 .. Len(w) /\ n + 1 - 1 = n
        /\ n \in 0 .. Len(w) /\ w[n + 1] = c[1]
    BY <1>1, <1>4
  <2>2. Parsing(w)[n + 1] = ParseEvent(Parsing(w)[n], w[n + 1])
    <3>1. \A m \in 1 .. Len(w) : Parsing(w)[m] = ParseEvent(Parsing(w)[m - 1], w[m])
      BY <1>1, ParsingSteps
    <3> QED
      BY <2>1, <3>1
  <2>3. Parsing(w)[n] \in Parsers /\ w[n + 1] \in Tokens
    BY <1>1, <2>1, ParsingType
  <2>4. Parsing(w)[n + 1].config = Parsing(w)[n].config
    BY <1>4, <2>1, <2>2, <2>3, EventStep
  <2> QED
    BY <1>2, <2>1, <2>4 DEF Parsed, w
<1> QED
  BY <1>3, <1>4

-----------------------------------------------------------------------------
(* What is made of a configuration that was cut short *)

LEMMA DocumentFacts ==
  /\ Document \in Seq(Tokens) /\ \A i \in 1 .. Len(Document) : Document[i] # Blank
<1>1. Document \in Seq(Tokens) /\ \A i \in DOMAIN Document : Document[i].ev # "blank"
  BY AuthConstants
<1>2. \A i \in 1 .. Len(Document) : Document[i].ev # "blank"
  BY <1>1
<1> QED
  BY <1>1, <1>2, TokenFacts

LEMMA HtmlFacts ==
  /\ Html \in Seq(Tokens) /\ Len(Html) = 3
  /\ \A i \in 1 .. 3 : Html[i] # Blank /\ Html[i].ev # "empty" /\ Html[i].name \notin {"ip", "domain"}
<1> DEFINE a == Token("start", "html", None)
           b == Token("text", "", None)
           c == Token("end", "html", None)
<1>1. /\ "start" \in Events /\ "text" \in Events /\ "end" \in Events
      /\ "" \in Names /\ "html" \in Names /\ None \in Values \cup {None}
  BY AuthConstants DEF Events
<1>2. a \in Tokens /\ b \in Tokens /\ c \in Tokens
  BY <1>1 DEF Token, Tokens
<1>3. /\ a.ev = "start" /\ a.name = "html" /\ b.ev = "text" /\ b.name = ""
      /\ c.ev = "end" /\ c.name = "html"
  BY DEF Token
<1>4. a # Blank /\ b # Blank /\ c # Blank
  BY <1>3, TokenFacts
<1> HIDE DEF a, b, c
<1>5. Html = <<a, b, c>>
  BY DEF Html, a, b, c
<1>6. Html \in Seq(Tokens) /\ Len(Html) = 3 /\ Html[1] = a /\ Html[2] = b /\ Html[3] = c
  BY <1>2, <1>5
<1>7. \A i \in 1 .. 3 : i = 1 \/ i = 2 \/ i = 3
  OBVIOUS
<1> QED
  BY <1>3, <1>4, <1>6, <1>7

\* A page that is no configuration says nothing, and neither does its beginning.
LEMMA HtmlSaysNothing ==
  ASSUME NEW k \in 0 .. Len(Html)
  PROVE  Parsing(Html)[k].config = Empty
<1> DEFINE p == Parsing(Html)
           S == {n \in 0 .. 3 : p[n].config = Empty}
<1>1. /\ Html \in Seq(Tokens) /\ Len(Html) = 3
      /\ \A i \in 1 .. 3 : Html[i].ev # "empty" /\ Html[i].name \notin {"ip", "domain"}
  BY HtmlFacts
<1>2. p[0] = Fresh /\ \A n \in 1 .. 3 : p[n] = ParseEvent(p[n - 1], Html[n])
  BY <1>1, ParsingSteps
<1>3. \A n \in 0 .. 3 : p[n] \in Parsers
  BY <1>1, ParsingType
<1> HIDE DEF p
<1>4. 0 \in S
  BY <1>2 DEF Fresh
<1>5. ASSUME NEW n \in 0 .. 3, n \in S, n < 3 PROVE n + 1 \in S
  <2>1. n + 1 \in 1 .. 3 /\ n + 1 - 1 = n /\ n + 1 \in 0 .. 3
    BY <1>5
  <2> DEFINE q == p[n]
             t == Html[n + 1]
  <2>2. /\ p[n + 1] = ParseEvent(q, t) /\ q.config = Empty /\ q \in Parsers
        /\ t.ev # "empty" /\ t.name # "ip" /\ t.name # "domain"
    BY <1>1, <1>2, <1>3, <1>5, <2>1
  <2> HIDE DEF q, t, S
  <2>3. ParseEvent(q, t).config = q.config
    <3>1. CASE t.ev = "start"
      BY <2>2, <3>1 DEF ParseEvent, Parsers
    <3>2. CASE t.ev = "text"
      BY <2>2, <3>2 DEF ParseEvent, ParseText, Parsers
    <3>3. CASE t.ev = "end"
      <4>1. ParseEvent(q, t) =
              [config |-> [q.config EXCEPT !.dns = @, !.domain = @],
               inDns |-> q.inDns /\ t.name # "dns", text |-> None]
        BY <2>2, <3>3 DEF ParseEvent, ParseEnd
      <4>2. [q.config EXCEPT !.dns = @, !.domain = @] = q.config
        BY <2>2 DEF Parsers, Configs
      <4> QED
        BY <4>1, <4>2
    <3>4. CASE t.ev \notin {"start", "text", "end"}
      BY <2>2, <3>4 DEF ParseEvent
    <3> QED
      BY <3>1, <3>2, <3>3, <3>4
  <2> QED
    BY <2>1, <2>2, <2>3 DEF S
<1> HIDE DEF S
<1>6. 0 .. 3 \subseteq S
  BY <1>4, <1>5, UpTo
<1>7. k \in 0 .. 3
  BY <1>1
<1> QED
  BY <1>6, <1>7 DEF S, p

\* c holds nothing that was not pushed.
OnlyPushed(c) ==
  /\ c.assigned \in {None, Pushed.assigned}
  /\ c.domain \in {None, Pushed.domain}
  /\ IsPrefix(c.dns, Pushed.dns)
  /\ IsPrefix(c.routes, Pushed.routes)

LEMMA NothingIsPushed ==
  ASSUME Pushed = Parsed(Document)
  PROVE  Pushed \in Configs /\ OnlyPushed(Empty)
<1>1. Document \in Seq(Tokens) /\ Len(Document) \in 0 .. Len(Document)
  BY DocumentFacts
<1>2. Pushed \in Configs
  BY <1>1, ParsingType DEF Parsed, Parsers
<1>3. /\ Pushed.dns \in Seq(Addresses) /\ Pushed.routes \in Seq(Values)
      /\ <<>> \in Seq(Addresses) /\ <<>> \in Seq(Values) /\ Len(<<>>) = 0
      /\ 0 <= Len(Pushed.dns) /\ 0 <= Len(Pushed.routes)
  BY <1>2 DEF Configs
<1>4. IsPrefix(<<>>, Pushed.dns) /\ IsPrefix(<<>>, Pushed.routes)
  <2> DEFINE e == <<>>
  <2>1. e \in Seq(Addresses) /\ e \in Seq(Values) /\ Len(e) = 0 /\ 1 .. Len(e) = {}
    BY <1>3
  <2> HIDE DEF e
  <2>2. IsPrefix(e, Pushed.dns)
    BY <1>3, <2>1, PrefixAtPositions
  <2>3. IsPrefix(e, Pushed.routes)
    BY <1>3, <2>1, PrefixAtPositions
  <2> QED
    BY <2>2, <2>3 DEF e
<1> QED
  BY <1>2, <1>4 DEF OnlyPushed, Empty

\* What the first tokens of the document say was pushed, up to where they end.
LEMMA BeginningIsPushed ==
  ASSUME Pushed = Parsed(Document), NEW k \in 0 .. Len(Document)
  PROVE  OnlyPushed(Parsing(Document)[k].config)
<1> DEFINE D == Document
           N == Len(Document)
           c == Parsing(Document)[k].config
           Addr(i) == D[i].ev = "empty" /\ D[i].name = "assigned-addr"
           Dom(i) == D[i].ev = "end" /\ D[i].name = "domain"
<1>1. D \in Seq(Tokens) /\ N \in Nat /\ k \in 0 .. N /\ DOMAIN D = 1 .. N
  BY DocumentFacts
<1>2. Pushed = Parsing(D)[N].config
  BY DEF Parsed
<1>3. /\ IsPrefix(c.dns, Pushed.dns) /\ IsPrefix(c.routes, Pushed.routes)
      /\ c.assigned = Pushed.assigned \/ \E i \in k + 1 .. N : Addr(i)
      /\ c.domain = Pushed.domain \/ \E i \in k + 1 .. N : Dom(i)
  <2>1. N \in k .. N
    BY <1>1
  <2> QED
    BY <1>1, <1>2, <2>1, ParsingGrows
<1>4. /\ c.assigned = None \/ \E i \in 1 .. k : Addr(i)
      /\ c.domain = None \/ \E i \in 1 .. k : Dom(i)
  <2>1. 0 \in 0 .. N /\ k \in 0 .. N /\ 0 + 1 = 1
    BY <1>1
  <2>2. Parsing(D)[0].config = Empty
    BY <1>1, ParsingSteps DEF Fresh
  <2>3. /\ \/ Parsing(D)[0].config.assigned = c.assigned
           \/ \E i \in 0 + 1 .. k : Addr(i)
        /\ \/ Parsing(D)[0].config.domain = c.domain
           \/ \E i \in 0 + 1 .. k : Dom(i)
    BY <1>1, <2>1, ParsingGrows
  <2> QED
    BY <2>1, <2>2, <2>3 DEF Empty
<1>5. \A i \in 1 .. k, j \in k + 1 .. N : ~(Addr(i) /\ Addr(j)) /\ ~(Dom(i) /\ Dom(j))
  <2> SUFFICES ASSUME NEW i \in 1 .. k, NEW j \in k + 1 .. N
               PROVE  ~(Addr(i) /\ Addr(j)) /\ ~(Dom(i) /\ Dom(j))
    OBVIOUS
  <2>1. i \in DOMAIN D /\ j \in DOMAIN D /\ i # j
    BY <1>1
  <2> QED
    BY <2>1, GivenOnce
<1> HIDE DEF c, Addr, Dom
<1>6. c.assigned \in {None, Pushed.assigned} /\ c.domain \in {None, Pushed.domain}
  BY <1>3, <1>4, <1>5
<1> QED
  BY <1>3, <1>6 DEF OnlyPushed, c

-----------------------------------------------------------------------------
(* Lemmas about the answers *)

LEMMA LoginAnswerFacts ==
  ASSUME TypeOK
  PROVE  /\ LoginAnswer \in Seq(Tokens) /\ Contains(LoginAnswer, Blank)
         /\ verdict = "accept" =>
              /\ Len(LoginAnswer) >= 3 /\ LoginAnswer[2] = SetCookie(Cookie)
              /\ \A i \in 1 .. Len(LoginAnswer) : LoginAnswer[i] = Blank => i >= 3
         /\ verdict = "challenge" =>
              /\ Len(LoginAnswer) = 3 /\ LoginAnswer[3] = Tokeninfo
              /\ \A i \in 1 .. Len(LoginAnswer) : LoginAnswer[i] = Blank => i = 2
         /\ \A i \in 1 .. Len(LoginAnswer) : LoginAnswer[i] = Tokeninfo => verdict = "challenge"
         /\ \A i \in 1 .. Len(LoginAnswer) :
              LoginAnswer[i].name = "SVPNCOOKIE" => LoginAnswer[i].val \in {None, Cookie}
         /\ ~Contains(body, Blank) =>
              \A i, j \in 1 .. Len(LoginAnswer) :
                LoginAnswer[i] = Blank /\ LoginAnswer[j] = Blank => i = j
<1> DEFINE L == LoginAnswer
<1>0. verdict \in {"accept", "refuse", "challenge"} /\ body \in Bodies
  BY DEF TypeOK
<1>1. /\ body \in Seq(Tokens)
      /\ \A i \in 1 .. Len(body) : body[i] # Tokeninfo /\ body[i].name # "SVPNCOOKIE"
  <2>1. body \in Seq(Tokens) /\ \A i \in DOMAIN body : body[i] # Tokeninfo /\ body[i].name # "SVPNCOOKIE"
    BY <1>0, AuthConstants
  <2>2. DOMAIN body = 1 .. Len(body)
    BY <2>1
  <2> QED
    BY <2>1, <2>2
<1>2. ASSUME verdict # "challenge"
      PROVE  \E v \in {None, Cookie} :
               /\ verdict = "accept" => v = Cookie
               /\ L \in Seq(Tokens) /\ Len(L) = 3 + Len(body)
               /\ L[1] = Status /\ L[2] = SetCookie(v) /\ L[3] = Blank
               /\ \A i \in 1 .. Len(body) : L[3 + i] = body[i]
  <2> DEFINE v == IF verdict = "accept" THEN Cookie ELSE None
             h == <<Status, SetCookie(v), Blank>>
  <2>1. L = h \o body
    BY <1>0, <1>2 DEF LoginAnswer
  <2>2. v \in {None, Cookie} /\ SetCookie(v) \in Tokens /\ (verdict = "accept" => v = Cookie)
    BY TokenFacts
  <2> HIDE DEF v
  <2>3. /\ h \in Seq(Tokens) /\ Len(h) = 3 /\ h[1] = Status /\ h[2] = SetCookie(v) /\ h[3] = Blank
    BY <2>2, TokenFacts
  <2> HIDE DEF h, L
  <2>4. /\ L \in Seq(Tokens) /\ Len(L) = Len(h) + Len(body)
        /\ \A i \in 1 .. Len(h) : L[i] = h[i]
        /\ \A i \in 1 .. Len(body) : L[Len(h) + i] = body[i]
    BY <1>1, <2>1, <2>3, Concatenation
  <2>5. /\ Len(L) = 3 + Len(body) /\ L[1] = Status /\ L[2] = SetCookie(v) /\ L[3] = Blank
        /\ \A i \in 1 .. Len(body) : L[3 + i] = body[i]
    BY <2>3, <2>4
  <2> QED
    BY <2>2, <2>4, <2>5
<1>3. ASSUME verdict = "challenge"
      PROVE  /\ L \in Seq(Tokens) /\ Len(L) = 3
             /\ L[1] = Status /\ L[2] = Blank /\ L[3] = Tokeninfo
  <2>1. L = <<Status, Blank, Tokeninfo>>
    BY <1>3 DEF LoginAnswer
  <2> QED
    BY <2>1, TokenFacts
<1> HIDE DEF L
<1>4. CASE verdict # "challenge"
  <2>1. PICK v \in {None, Cookie} :
          /\ verdict = "accept" => v = Cookie
          /\ L \in Seq(Tokens) /\ Len(L) = 3 + Len(body)
          /\ L[1] = Status /\ L[2] = SetCookie(v) /\ L[3] = Blank
          /\ \A i \in 1 .. Len(body) : L[3 + i] = body[i]
    BY <1>2, <1>4
  <2>2. Len(body) \in Nat
    BY <1>1
  <2>3. ASSUME NEW i \in 1 .. Len(L), i > 3
        PROVE  /\ i - 3 \in 1 .. Len(body) /\ L[i] = body[i - 3]
               /\ L[i] # Tokeninfo /\ L[i].name # "SVPNCOOKIE"
    <3>1. i - 3 \in 1 .. Len(body) /\ 3 + (i - 3) = i
      BY <2>1, <2>2, <2>3
    <3> QED
      BY <1>1, <2>1, <3>1
  <2>4. /\ L[1] # Blank /\ L[1] # Tokeninfo /\ L[1].name # "SVPNCOOKIE"
        /\ L[2] # Blank /\ L[2] # Tokeninfo /\ L[2].val = v
        /\ L[3] # Tokeninfo /\ L[3].name # "SVPNCOOKIE"
    BY <2>1, TokenFacts
  <2>5. ASSUME NEW i \in 1 .. Len(L)
        PROVE  /\ L[i] # Tokeninfo
               /\ L[i] = Blank => i >= 3
               /\ L[i].name = "SVPNCOOKIE" => L[i].val \in {None, Cookie}
    <3>1. i = 1 \/ i = 2 \/ i = 3 \/ i > 3
      BY <2>5
    <3>2. CASE i = 1
      BY <2>4, <3>2
    <3>3. CASE i = 2
      BY <2>4, <3>3
    <3>4. CASE i = 3
      BY <2>4, <3>4
    <3>5. CASE i > 3
      BY <2>3, <3>5
    <3> QED
      BY <3>1, <3>2, <3>3, <3>4, <3>5
  <2>6. ASSUME ~Contains(body, Blank), NEW i \in 1 .. Len(L), L[i] = Blank PROVE i = 3
    <3>1. i >= 3
      BY <2>5, <2>6
    <3>2. ~(i > 3)
      BY <2>3, <2>6 DEF Contains
    <3> QED
      BY <3>1, <3>2
  <2>7. Contains(L, Blank)
    <3>1. 3 \in 1 .. Len(L)
      BY <2>1, <2>2
    <3> QED
      BY <2>1, <3>1 DEF Contains
  <2> QED
    BY <1>4, <2>1, <2>2, <2>5, <2>6, <2>7 DEF L
<1>5. CASE verdict = "challenge"
  <2>1. /\ L \in Seq(Tokens) /\ Len(L) = 3
        /\ L[1] = Status /\ L[2] = Blank /\ L[3] = Tokeninfo
    BY <1>3, <1>5
  <2>2. /\ L[1] # Blank /\ L[3] # Blank /\ L[1].name # "SVPNCOOKIE"
        /\ L[2].name # "SVPNCOOKIE" /\ L[3].name # "SVPNCOOKIE"
    BY <2>1, TokenFacts
  <2>3. \A i \in 1 .. Len(L) : i = 1 \/ i = 2 \/ i = 3
    BY <2>1
  <2>4. \A i \in 1 .. Len(L) : L[i] = Blank => i = 2
    BY <2>2, <2>3
  <2>5. \A i \in 1 .. Len(L) : L[i].name # "SVPNCOOKIE"
    BY <2>2, <2>3
  <2>6. Contains(L, Blank)
    <3>1. 2 \in 1 .. Len(L)
      BY <2>1
    <3> QED
      BY <2>1, <3>1 DEF Contains
  <2> QED
    BY <1>5, <2>1, <2>4, <2>5, <2>6 DEF L
<1> QED
  BY <1>4, <1>5

\* <<Status, Blank>> before a page that has no blank line.
LEMMA PageAnswerFacts ==
  ASSUME NEW d \in {<<>>, Document, Html}
  PROVE  /\ d \in Seq(Tokens) /\ \A i \in 1 .. Len(d) : d[i] # Blank
         /\ <<Status, Blank>> \o d \in Seq(Tokens)
         /\ Len(<<Status, Blank>> \o d) = Len(d) + 2
         /\ (<<Status, Blank>> \o d)[1] = Status /\ (<<Status, Blank>> \o d)[2] = Blank
         /\ \A i \in 1 .. Len(d) : (<<Status, Blank>> \o d)[i + 2] = d[i]
<1> DEFINE h == <<Status, Blank>>
<1>1. d \in Seq(Tokens) /\ \A i \in 1 .. Len(d) : d[i] # Blank
  <2>1. CASE d = <<>>
    BY <2>1
  <2>2. CASE d = Document
    BY <2>2, DocumentFacts
  <2>3. CASE d = Html
    BY <2>3, HtmlFacts
  <2> QED
    BY <2>1, <2>2, <2>3
<1>2. h \in Seq(Tokens) /\ Len(h) = 2 /\ h[1] = Status /\ h[2] = Blank
  BY TokenFacts
<1> HIDE DEF h
<1> DEFINE w == h \o d
<1>3. /\ w \in Seq(Tokens) /\ Len(w) = Len(h) + Len(d)
      /\ \A i \in 1 .. Len(h) : w[i] = h[i]
      /\ \A i \in 1 .. Len(d) : w[Len(h) + i] = d[i]
  BY <1>1, <1>2, Concatenation
<1> HIDE DEF w
<1>4. Len(d) \in Nat
  BY <1>1
<1>5. /\ Len(w) = Len(d) + 2 /\ w[1] = Status /\ w[2] = Blank
      /\ \A i \in 1 .. Len(d) : w[i + 2] = d[i]
  BY <1>2, <1>3, <1>4
<1> QED
  BY <1>1, <1>3, <1>5 DEF h, w

-----------------------------------------------------------------------------
(* Lemmas about reading *)

Rest(n) == SubSeq(wire, n + 1, Len(wire))

LEMMA Lengths ==
  ASSUME TypeOK
  PROVE  /\ response \in Seq(Tokens) /\ wire \in Seq(Tokens)
         /\ Len(response) \in Nat /\ Len(wire) \in Nat
  BY DEF TypeOK

LEMMA RestIs ==
  ASSUME TypeOK, NEW n \in 0 .. Len(wire)
  PROVE  /\ Rest(n) \in Seq(Tokens) /\ Len(Rest(n)) = Len(wire) - n
         /\ \A i \in 1 .. Len(wire) - n : Rest(n)[i] = wire[n + i]
<1> DEFINE m == n + 1
           N == Len(wire)
<1>1. wire \in Seq(Tokens) /\ N \in Nat
  BY Lengths
<1>2. /\ m \in 1 .. Len(wire) + 1 /\ N \in m - 1 .. Len(wire) /\ N - m + 1 = N - n
      /\ \A i \in 1 .. N - n : m + i - 1 = n + i
  BY <1>1
<1> HIDE DEF m
<1>3. /\ SubSeq(wire, m, N) \in Seq(Tokens) /\ Len(SubSeq(wire, m, N)) = N - m + 1
      /\ \A i \in 1 .. N - m + 1 : SubSeq(wire, m, N)[i] = wire[m + i - 1]
  BY <1>1, <1>2, Slice
<1>4. Rest(n) = SubSeq(wire, m, N)
  BY DEF Rest, m
<1> QED
  BY <1>2, <1>3, <1>4

LEMMA ReceivedIs ==
  ASSUME TypeOK, NEW n \in 0 .. Len(wire)
  PROVE  /\ Received(n) \in Seq(Tokens) /\ Len(Received(n)) = Len(response) + n
         /\ \A i \in 1 .. Len(response) : Received(n)[i] = response[i]
         /\ \A i \in 1 .. n : Received(n)[Len(response) + i] = wire[i]
<1> DEFINE s == SubSeq(wire, 1, n)
<1>1. response \in Seq(Tokens) /\ wire \in Seq(Tokens) /\ Len(wire) \in Nat
  BY Lengths
<1>2. /\ s \in Seq(Tokens) /\ Len(s) = n - 1 + 1
      /\ \A i \in 1 .. n - 1 + 1 : s[i] = wire[1 + i - 1]
  <2>1. 1 \in 1 .. Len(wire) + 1 /\ n \in 1 - 1 .. Len(wire)
    BY <1>1
  <2> QED
    BY <1>1, <2>1, Slice
<1> HIDE DEF s
<1>3. /\ response \o s \in Seq(Tokens) /\ Len(response \o s) = Len(response) + Len(s)
      /\ \A i \in 1 .. Len(response) : (response \o s)[i] = response[i]
      /\ \A i \in 1 .. Len(s) : (response \o s)[Len(response) + i] = s[i]
  BY <1>1, <1>2, Concatenation
<1>4. n \in Nat /\ n - 1 + 1 = n /\ \A i \in 1 .. n : 1 + i - 1 = i
  BY <1>1
<1>5. Len(s) = n /\ \A i \in 1 .. n : s[i] = wire[i]
  BY <1>2, <1>4
<1>6. Received(n) = response \o s
  BY DEF Received, s
<1> QED
  BY <1>3, <1>5, <1>6

\* A read moves the place in the answer, and nothing else.
LEMMA ReadingOn ==
  ASSUME TypeOK, NEW n \in 0 .. Len(wire), NEW answer, Begins(answer)
  PROVE  /\ Len(Received(n)) + Len(Rest(n)) = Len(response) + Len(wire)
         /\ \A i \in 1 .. Len(Received(n)) : Received(n)[i] = answer[i]
         /\ \A i \in 1 .. Len(Rest(n)) : Rest(n)[i] = answer[Len(Received(n)) + i]
<1> DEFINE m == Len(response)
           N == Len(wire)
           r == Received(n)
           t == Rest(n)
<1>1. m \in Nat /\ N \in Nat /\ n \in Nat /\ n <= N
  BY Lengths
<1>2. /\ Len(t) = N - n /\ \A i \in 1 .. N - n : t[i] = wire[n + i]
  BY RestIs
<1>3. /\ Len(r) = m + n
      /\ \A i \in 1 .. m : r[i] = response[i]
      /\ \A i \in 1 .. n : r[m + i] = wire[i]
  BY ReceivedIs
<1>4. /\ \A i \in 1 .. m : response[i] = answer[i]
      /\ \A i \in 1 .. N : wire[i] = answer[m + i]
  BY DEF Begins
<1> HIDE DEF m, N, r, t
<1>5. Len(r) + Len(t) = m + N
  BY <1>1, <1>2, <1>3
<1>6. ASSUME NEW i \in 1 .. Len(r) PROVE r[i] = answer[i]
  <2>1. CASE i <= m
    BY <1>1, <1>3, <1>4, <2>1
  <2>2. CASE i > m
    <3> DEFINE k == i - m
    <3>1. k \in 1 .. n /\ k \in 1 .. N /\ m + k = i
      BY <1>1, <1>3, <2>2
    <3> HIDE DEF k
    <3>2. r[m + k] = wire[k] /\ wire[k] = answer[m + k]
      BY <1>3, <1>4, <3>1
    <3> QED
      BY <3>1, <3>2
  <2> QED
    BY <1>1, <1>3, <2>1, <2>2
<1>7. ASSUME NEW i \in 1 .. Len(t) PROVE t[i] = answer[Len(r) + i]
  <2>1. i \in 1 .. N - n /\ n + i \in 1 .. N /\ m + (n + i) = Len(r) + i
    BY <1>1, <1>2, <1>3
  <2>2. t[i] = wire[n + i] /\ wire[n + i] = answer[m + (n + i)]
    BY <1>2, <1>4, <2>1
  <2> QED
    BY <2>1, <2>2
<1> QED
  BY <1>5, <1>6, <1>7 DEF m, N, r, t

\* What is parsed of an answer as far as it was read.
Says(r) == LET b == BodyOf(r) IN Parsing(b)[Len(b)].config

(* Of the beginning of an answer, with the configuration or an error page, or *)
(* without a body, nothing is taken that the configuration does not say; of a *)
(* complete one everything is (auth.rs:334-337).                              *)
THEOREM AnswerSays ==
  ASSUME Pushed = Parsed(Document), NEW d \in {<<>>, Document, Html},
         NEW r \in Seq(Tokens), Len(r) <= Len(d) + 2,
         \A i \in 1 .. Len(r) : r[i] = (<<Status, Blank>> \o d)[i]
  PROVE  /\ OnlyPushed(Says(r))
         /\ d = Document /\ Len(r) = Len(d) + 2 => Says(r) = Pushed
<1> DEFINE w == <<Status, Blank>> \o d
           b == BodyOf(r)
           k == Len(b)
           c == Says(r)
<1> SUFFICES OnlyPushed(c) /\ (d = Document /\ Len(r) = Len(d) + 2 => c = Pushed)
  OBVIOUS
<1>0. c = Parsing(b)[k].config
  BY DEF Says
<1>1. /\ d \in Seq(Tokens) /\ \A i \in 1 .. Len(d) : d[i] # Blank
      /\ w[1] = Status /\ w[2] = Blank /\ \A i \in 1 .. Len(d) : w[i + 2] = d[i]
  BY PageAnswerFacts
<1> HIDE DEF w
<1>2. \A i \in 1 .. Len(r) : r[i] = w[i]
  BY DEF w
<1>3. Len(d) \in Nat /\ Len(r) \in Nat
  BY <1>1
<1>4. /\ Len(r) >= 1 => r[1] = Status
      /\ Len(r) >= 2 => r[2] = Blank
  BY <1>1, <1>2, <1>3
<1>5. ASSUME NEW i \in 3 .. Len(r) PROVE r[i] = d[i - 2]
  <2>1. i \in 1 .. Len(r) /\ i - 2 \in 1 .. Len(d) /\ (i - 2) + 2 = i
    BY <1>3
  <2> QED
    BY <1>1, <1>2, <2>1
<1>6. /\ b \in Seq(Tokens)
      /\ Len(r) < 2 => b = r
      /\ Len(r) >= 2 => k = Len(r) - 2 /\ \A i \in 1 .. Len(r) - 2 : b[i] = d[i]
  BY <1>1, <1>4, <1>5, BodyBegins
<1>7. OnlyPushed(Empty)
  BY NothingIsPushed
<1> HIDE DEF b, c
<1>8. k \in Nat /\ Parsing(b)[0] = Fresh
  BY <1>6, ParsingSteps
<1>11. k = Len(b)
  OBVIOUS
<1> HIDE DEF k
<1>9. CASE Len(r) < 2
  <2>1. CASE k = 0
    <3>1. c = Empty
      BY <1>0, <1>8, <2>1 DEF Fresh
    <3> QED
      BY <1>3, <1>7, <1>9, <3>1
  <2>2. CASE k # 0
    <3>0. b = r /\ k = Len(r)
      BY <1>6, <1>9, <1>11
    <3>1. k = 1 /\ b[1] = Status
      <4>1. Len(r) = 1
        BY <1>3, <1>9, <2>2, <3>0
      <4>2. r[1] = Status
        BY <1>4, <4>1
      <4> QED
        BY <3>0, <4>1, <4>2
    <3>2. Parsing(b)[1] = ParseEvent(Fresh, Status)
      <4>1. \A n \in 1 .. k : Parsing(b)[n] = ParseEvent(Parsing(b)[n - 1], b[n])
        BY <1>6, <1>11, ParsingSteps
      <4>2. 1 \in 1 .. k /\ 1 - 1 = 0
        BY <3>1
      <4> QED
        BY <1>8, <3>1, <4>1, <4>2
    <3>3. ParseEvent(Fresh, Status) = Fresh
      BY TokenFacts DEF ParseEvent
    <3>4. c = Empty
      BY <1>0, <3>1, <3>2, <3>3 DEF Fresh
    <3> QED
      BY <1>3, <1>7, <1>9, <3>4
  <2> QED
    BY <2>1, <2>2
<1>10. CASE Len(r) >= 2
  <2>1. /\ k = Len(r) - 2 /\ k \in 0 .. Len(d) /\ k \in 0 .. Len(b) /\ k <= Len(d)
        /\ \A i \in 1 .. k : b[i] = d[i]
    <3>1. k = Len(r) - 2 /\ \A i \in 1 .. k : b[i] = d[i]
      BY <1>6, <1>10
    <3>2. k \in 0 .. Len(b)
      BY <1>8, <1>11
    <3>3. k <= Len(d) /\ k \in 0 .. Len(d)
      BY <1>3, <1>8, <3>1
    <3> QED
      BY <3>1, <3>2, <3>3
  <2>2. Parsing(b)[k] = Parsing(d)[k]
    <3>1. /\ b \in Seq(Tokens) /\ d \in Seq(Tokens) /\ k \in 0 .. Len(b) /\ k <= Len(d)
          /\ \A i \in 1 .. k : b[i] = d[i]
      BY <1>1, <1>6, <2>1
    <3> QED
      BY <3>1, ParsingAgrees, Zenon
  <2>3. CASE d = Document
    <3>1. OnlyPushed(c)
      BY <1>0, <2>1, <2>2, <2>3, BeginningIsPushed
    <3>2. Len(r) = Len(d) + 2 => k = Len(Document)
      BY <1>3, <2>1, <2>3
    <3>3. Len(r) = Len(d) + 2 => c = Pushed
      BY <1>0, <2>2, <2>3, <3>2 DEF Parsed
    <3> QED
      BY <3>1, <3>3
  <2>4. CASE d = Html /\ d # Document
    <3>1. c = Empty
      BY <1>0, <2>1, <2>2, <2>4, HtmlSaysNothing
    <3> QED
      BY <1>7, <2>4, <3>1
  <2>5. CASE d = <<>> /\ d # Document
    <3>1. k = 0
      BY <1>3, <2>1, <2>5
    <3>2. c = Empty
      BY <1>0, <1>8, <2>2, <3>1 DEF Fresh
    <3> QED
      BY <1>7, <2>5, <3>2
  <2> QED
    BY <2>3, <2>4, <2>5
<1> QED
  BY <1>3, <1>9, <1>10 DEF c

\* The configuration that is returned: a text cut short adds nothing to it.
LEMMA ConfigReturned ==
  ASSUME TypeOK, NEW n \in 0 .. Len(wire), NEW part \in BOOLEAN, part => n < Len(wire)
  PROVE  /\ Parsed(BodyOf(Received(n)) \o IF part THEN CutShort(wire[n + 1]) ELSE <<>>)
              = Says(Received(n))
         /\ Says(Received(n)) \in Configs
<1> DEFINE b == BodyOf(Received(n))
           c == IF part THEN CutShort(wire[n + 1]) ELSE <<>>
<1>1. b \in Seq(Tokens)
  BY ReceivedIs, BodyType
<1>2. c \in Seq(Tokens) /\ (c = <<>> \/ (Len(c) = 1 /\ c[1].ev = "text"))
  <2>1. CASE part
    <3>1. n + 1 \in 1 .. Len(wire)
      BY <2>1, Lengths
    <3>2. wire[n + 1] \in Tokens
      BY <3>1, Lengths
    <3> QED
      BY <2>1, <3>2, CutType
  <2>2. CASE ~part
    <3>1. <<>> \in Seq(Tokens)
      OBVIOUS
    <3> QED
      BY <2>2, <3>1
  <2> QED
    BY <2>1, <2>2
<1>3. Says(Received(n)) = Parsing(b)[Len(b)].config
  BY DEF Says
<1> HIDE DEF b, c
<1>4. Parsed(b \o c) = Parsing(b)[Len(b)].config
  BY <1>1, <1>2, CutTextIgnored
<1>5. Parsing(b)[Len(b)].config \in Configs
  <2>1. Len(b) \in 0 .. Len(b)
    BY <1>1
  <2> QED
    BY <1>1, <2>1, ParsingType DEF Parsers
<1> QED
  BY <1>3, <1>4, <1>5 DEF b, c

LEMMA XmlSays ==
  ASSUME Pushed = Parsed(Document), TypeOK, Begins(XmlAnswer), NEW n \in 0 .. Len(wire)
  PROVE  /\ OnlyPushed(Says(Received(n)))
         /\ page = Document /\ Whole(XmlAnswer) /\ n = Len(wire) => Says(Received(n)) = Pushed
<1> DEFINE r == Received(n)
           a == XmlAnswer
<1>1. page \in {<<>>, Document, Html}
  BY DEF TypeOK
<1>2. Len(a) = Len(page) + 2 /\ page \in Seq(Tokens)
  BY <1>1, PageAnswerFacts DEF XmlAnswer
<1>3. /\ Len(r) + Len(Rest(n)) = Len(response) + Len(wire)
      /\ \A i \in 1 .. Len(r) : r[i] = a[i]
  BY ReadingOn
<1>4. r \in Seq(Tokens) /\ Len(Rest(n)) = Len(wire) - n
  BY ReceivedIs, RestIs
<1>5. /\ Len(response) + Len(wire) <= Len(a)
      /\ Whole(a) <=> Len(response) + Len(wire) = Len(a)
      /\ Len(response) \in Nat /\ Len(wire) \in Nat
  BY Lengths DEF Begins, Whole
<1>6. \A i \in 1 .. Len(r) : r[i] = (<<Status, Blank>> \o page)[i]
  BY <1>3 DEF XmlAnswer
<1> HIDE DEF r, a
<1>7. Len(r) \in Nat /\ Len(page) \in Nat
  BY <1>2, <1>4
<1>8. Len(r) <= Len(page) + 2
  BY <1>2, <1>3, <1>4, <1>5, <1>7
<1>9. Whole(a) /\ n = Len(wire) => Len(r) = Len(page) + 2
  BY <1>2, <1>3, <1>4, <1>5, <1>7
<1>10. OnlyPushed(Says(r)) /\ (page = Document /\ Len(r) = Len(page) + 2 => Says(r) = Pushed)
  BY <1>1, <1>4, <1>6, <1>8, AnswerSays
<1> QED
  BY <1>9, <1>10 DEF r, a

-----------------------------------------------------------------------------
(* Lemmas about requests *)

LEMMA AwaitedFacts ==
  /\ DOMAIN Awaited = {"login", "page", "xml"}
  /\ Awaited["login"] = "logincheck"
  /\ Awaited["page"] = "fortisslvpn"
  /\ Awaited["xml"] = "fortisslvpn_xml"
  /\ Reading <=> pc \in {"login", "page", "xml"}
  BY DEF Awaited, Reading

\* There is one request of each path, and it carries the cookie.
LEMMA RequestFacts ==
  ASSUME TypeOK
  PROVE  /\ \A r, q \in requests : r.path = q.path => r = q
         /\ \A r \in requests : r.path = "fortisslvpn" => r.cookie = Cookie
<1>1. requests \subseteq Asked
  BY DEF TypeOK
<1>2. \A r \in Asked : /\ \/ r = Request("logincheck", None) \/ r = Request("fortisslvpn", Cookie)
                          \/ r = Request("fortisslvpn_xml", Cookie)
  BY DEF Asked
<1>3. \A p, c : Request(p, c).path = p /\ Request(p, c).cookie = c
  BY DEF Request
<1>4. "logincheck" # "fortisslvpn" /\ "logincheck" # "fortisslvpn_xml"
      /\ "fortisslvpn" # "fortisslvpn_xml"
  OBVIOUS
<1>5. ASSUME NEW r \in requests, NEW q \in requests, r.path = q.path PROVE r = q
  <2>1. r \in Asked /\ q \in Asked
    BY <1>1
  <2> QED
    BY <1>2, <1>3, <1>4, <1>5, <2>1
<1>6. ASSUME NEW r \in requests, r.path = "fortisslvpn" PROVE r.cookie = Cookie
  <2>1. r \in Asked
    BY <1>1
  <2> QED
    BY <1>2, <1>3, <1>4, <1>6, <2>1
<1> QED
  BY <1>5, <1>6

LEMMA InitIInv == Init => IInv
<1> SUFFICES ASSUME Init PROVE IInv
  OBVIOUS
<1>1. Empty \in Configs
  BY FreshType DEF Fresh, Parsers
<1>2. TypeOK
  <2>1. <<>> \in Seq(Tokens)
    OBVIOUS
  <2> QED
    BY <1>1, <2>1 DEF Init, TypeOK
<1> QED
  BY <1>2 DEF Init, IInv, Exchange, Settled, Pending

-----------------------------------------------------------------------------
(* The inductive invariant is kept by each action *)

LEMMA NoTokens ==
  ASSUME NEW s \in Seq(Tokens), Len(s) = 0
  PROVE  s = <<>>
<1>1. <<>> \in Seq(Tokens) /\ Len(<<>>) = 0
  OBVIOUS
<1>2. \A i \in 1 .. Len(s) : s[i] = <<>>[i]
  OBVIOUS
<1> QED
  BY <1>1, <1>2, SameSequence

\* What waits for an answer that is not given yet reads the end.
LEMMA PendingEnds ==
  ASSUME NEW p, NEW answer, Answers(p, Connection, answer), Pending(p),
         NEW n \in 0 .. Len(wire), NEW part \in BOOLEAN, Reads(n, part)
  PROVE  Closed /\ wire = <<>>
<1>1. wire = <<>>
  BY DEF Answers
<1>2. Len(wire) = 0
  BY <1>1
<1>3. n = 0 /\ ~part
  BY <1>2 DEF Reads
<1> QED
  BY <1>1, <1>3 DEF Reads

\* Reading on in an answer that is given.
LEMMA AnswersReadOn ==
  ASSUME TypeOK, NEW p, NEW m, NEW answer, Answers(p, m, answer), ~Pending(p),
         NEW n \in 0 .. Len(wire)
  PROVE  /\ Len(Received(n)) + Len(Rest(n)) <= Len(answer)
         /\ \A i \in 1 .. Len(Received(n)) : Received(n)[i] = answer[i]
         /\ \A i \in 1 .. Len(Rest(n)) : Rest(n)[i] = answer[Len(Received(n)) + i]
         /\ m \notin ended => Len(Received(n)) + Len(Rest(n)) = Len(answer)
<1>1. Begins(answer) /\ (m \notin ended => Whole(answer))
  BY DEF Answers
<1>2. /\ Len(Received(n)) + Len(Rest(n)) = Len(response) + Len(wire)
      /\ \A i \in 1 .. Len(Received(n)) : Received(n)[i] = answer[i]
      /\ \A i \in 1 .. Len(Rest(n)) : Rest(n)[i] = answer[Len(Received(n)) + i]
  BY <1>1, ReadingOn
<1> QED
  BY <1>1, <1>2 DEF Begins, Whole

LEMMA ReadMoreStep ==
  ASSUME IInv, NEW n \in 0 .. Len(wire), NEW part \in BOOLEAN, ReadMore(n, part)
  PROVE  IInv'
<1> DEFINE L == LoginAnswer
           X == XmlAnswer
<1>0. TypeOK /\ Exchange /\ Settled /\ Reads(n, part) /\ ~Over(n) /\ ~(Closed /\ wire = <<>>)
  BY DEF IInv, ReadMore, Over
<1>1. /\ pc' = pc /\ cookie' = cookie /\ config' = config /\ result' = result
      /\ requests' = requests /\ ended' = ended /\ opened' = opened /\ page' = page
      /\ verdict' = verdict /\ body' = body /\ certs' = certs
      /\ response' = Received(n) /\ wire' = Rest(n) /\ torn' = part
  BY DEF ReadMore, Leaves, Rest, gateway
<1>2. TypeOK'
  <2>1. Received(n) \in Seq(Tokens) /\ Rest(n) \in Seq(Tokens)
    BY <1>0, ReceivedIs, RestIs
  <2> QED
    BY <1>0, <1>1, <2>1 DEF TypeOK
<1>3. L' = L /\ X' = X /\ \A p : Pending(p)' <=> Pending(p)
  BY <1>1 DEF LoginAnswer, XmlAnswer, Pending
<1> HIDE DEF L, X
<1>4. ASSUME pc = "login" PROVE Answers("login", 1, L)'
  <2>1. Answers("login", Connection, L) /\ Connection = 1
    BY <1>0, <1>4 DEF Exchange, Connection, L
  <2>2. ~Pending("login")
    BY <1>0, <2>1, PendingEnds
  <2>3. /\ Len(Received(n)) + Len(Rest(n)) <= Len(L)
        /\ \A i \in 1 .. Len(Received(n)) : Received(n)[i] = L[i]
        /\ \A i \in 1 .. Len(Rest(n)) : Rest(n)[i] = L[Len(Received(n)) + i]
        /\ 1 \notin ended => Len(Received(n)) + Len(Rest(n)) = Len(L)
    BY <1>0, <2>1, <2>2, AnswersReadOn
  <2> QED
    BY <1>1, <1>3, <2>2, <2>3 DEF Answers, Begins, Whole
<1>5. ASSUME pc = "xml" PROVE Answers("xml", 2, X)'
  <2>1. Answers("xml", Connection, X) /\ Connection = 2
    BY <1>0, <1>5 DEF Exchange, Connection, X
  <2>2. ~Pending("xml")
    BY <1>0, <2>1, PendingEnds
  <2>3. /\ Len(Received(n)) + Len(Rest(n)) <= Len(X)
        /\ \A i \in 1 .. Len(Received(n)) : Received(n)[i] = X[i]
        /\ \A i \in 1 .. Len(Rest(n)) : Rest(n)[i] = X[Len(Received(n)) + i]
        /\ 2 \notin ended => Len(Received(n)) + Len(Rest(n)) = Len(X)
    BY <1>0, <2>1, <2>2, AnswersReadOn
  <2> QED
    BY <1>1, <1>3, <2>2, <2>3 DEF Answers, Begins, Whole
<1>6. ASSUME pc = "page" PROVE PageComes'
  <2>1. ~Contains(Received(n), Blank)
    BY <1>0 DEF Over
  <2>2. ASSUME ~Contains(wire, Blank) PROVE ~Contains(Rest(n), Blank)
    <3>1. /\ Len(Rest(n)) = Len(wire) - n /\ Len(wire) \in Nat
          /\ \A i \in 1 .. Len(wire) - n : Rest(n)[i] = wire[n + i]
      BY <1>0, RestIs, Lengths
    <3>2. \A i \in 1 .. Len(wire) - n : n + i \in 1 .. Len(wire)
      BY <3>1
    <3> QED
      BY <2>2, <3>1, <3>2 DEF Contains
  <2>3. PageComes
    BY <1>0, <1>6 DEF Exchange
  <2> QED
    BY <1>1, <2>1, <2>2, <2>3 DEF PageComes
<1>7. Exchange'
  BY <1>1, <1>4, <1>5, <1>6 DEF Exchange, L, X
<1>8. Settled'
  BY <1>0, <1>1, <1>3 DEF Settled
<1> QED
  BY <1>2, <1>7, <1>8 DEF IInv

LEMMA NoneIsNoResult == None \notin Results /\ None # "ok"
<1>1. None \notin Values \cup Certs \cup Results
  BY AuthConstants
<1> QED
  BY <1>1 DEF Results

\* Giving up with an error.
LEMMA GivenUp ==
  ASSUME TypeOK', pc' = "done", result' # "ok"
  PROVE  IInv'
  BY DEF IInv, Exchange, Settled

LEMMA StartStep ==
  ASSUME IInv, Start
  PROVE  IInv'
<1>0. TypeOK /\ Settled /\ pc = "start" /\ cookie = None /\ result = None
  BY DEF IInv, Start, Settled
<1>1. /\ cookie' = cookie /\ ended' = ended /\ opened' = opened /\ page' = page
      /\ verdict' = verdict /\ body' = body /\ certs' = certs
      /\ wire' = <<>> /\ torn' = FALSE /\ AskOnNew(1, "login")
  BY DEF Start, AskOnNew, gateway
<1>2. <<>> \in Seq(Tokens) /\ Len(<<>>) = 0
  OBVIOUS
<1>3. CASE pc' = "done"
  <2>1. /\ result' \in {"GatewayUnreachable", "Io"}
        /\ response' = response /\ requests' = requests /\ config' = config
    BY <1>1, <1>3 DEF AskOnNew, Finish, Ask
  <2>2. TypeOK'
    BY <1>0, <1>1, <1>2, <1>3, <2>1 DEF TypeOK, Results
  <2> QED
    BY <1>3, <2>1, <2>2, GivenUp
<1>4. CASE pc' # "done"
  <2>1. /\ pc' = "login" /\ response' = <<>> /\ config' = config /\ result' = result
        /\ requests' = requests \cup {Request("logincheck", None)}
    BY <1>0, <1>1, <1>4, AwaitedFacts DEF AskOnNew, Finish, Ask
  <2>2. TypeOK'
    <3>1. Request("logincheck", None) \in Asked
      BY DEF Asked
    <3> QED
      BY <1>0, <1>1, <1>2, <2>1, <3>1, AwaitedFacts DEF TypeOK
  <2>3. Answers("login", 1, LoginAnswer)'
    <3> DEFINE L == LoginAnswer
    <3>1. L' = L /\ L \in Seq(Tokens)
      BY <1>0, <1>1, LoginAnswerFacts DEF LoginAnswer
    <3> HIDE DEF L
    <3>2. Begins(L)'
      BY <1>1, <1>2, <2>1, <3>1 DEF Begins
    <3>3. Pending("login")'
      <4> DEFINE q == Request("logincheck", None)
      <4>1. q \in requests' /\ q.path = Awaited["login"]
        BY <2>1, AwaitedFacts DEF Request
      <4> HIDE DEF q
      <4> QED
        BY <4>1 DEF Pending
    <3>4. Answers("login", 1, L)'
      BY <1>1, <2>1, <3>2, <3>3 DEF Answers
    <3> QED
      BY <3>4 DEF L
  <2>4. Exchange'
    BY <2>1, <2>3 DEF Exchange
  <2>5. Settled'
    BY <1>0, <1>1, <2>1, NoneIsNoResult DEF Settled
  <2> QED
    BY <2>2, <2>4, <2>5 DEF IInv
<1> QED
  BY <1>3, <1>4

LEMMA ReadPageStep ==
  ASSUME IInv, NEW n \in 0 .. Len(wire), NEW part \in BOOLEAN, ReadPage(n, part)
  PROVE  IInv'
<1>0. TypeOK /\ Settled /\ pc = "page" /\ cookie = Cookie /\ result = None
  BY DEF IInv, ReadPage, Settled
<1>1. /\ cookie' = cookie /\ ended' = ended /\ opened' = opened /\ page' = page
      /\ verdict' = verdict /\ body' = body /\ certs' = certs
      /\ wire' = <<>> /\ torn' = FALSE /\ AskOnNew(2, "xml")
  BY DEF ReadPage, AskOnNew, gateway
<1>2. <<>> \in Seq(Tokens) /\ Len(<<>>) = 0
  OBVIOUS
<1>3. CASE pc' = "done"
  <2>1. /\ result' \in {"GatewayUnreachable", "Io"}
        /\ response' = response /\ requests' = requests /\ config' = config
    BY <1>1, <1>3 DEF AskOnNew, Finish, Ask
  <2>2. TypeOK'
    BY <1>0, <1>1, <1>2, <1>3, <2>1 DEF TypeOK, Results
  <2> QED
    BY <1>3, <2>1, <2>2, GivenUp
<1>4. CASE pc' # "done"
  <2>1. /\ pc' = "xml" /\ response' = <<>> /\ config' = config /\ result' = result
        /\ requests' = requests \cup {Request("fortisslvpn_xml", Cookie)}
    BY <1>0, <1>1, <1>4, AwaitedFacts DEF AskOnNew, Finish, Ask
  <2>2. TypeOK'
    <3>1. Request("fortisslvpn_xml", Cookie) \in Asked
      BY DEF Asked
    <3> QED
      BY <1>0, <1>1, <1>2, <2>1, <3>1, AwaitedFacts DEF TypeOK
  <2>3. Answers("xml", 2, XmlAnswer)'
    <3> DEFINE X == XmlAnswer
    <3>1. X' = X /\ X \in Seq(Tokens)
      BY <1>0, <1>1, PageAnswerFacts DEF XmlAnswer, TypeOK
    <3> HIDE DEF X
    <3>2. Begins(X)'
      BY <1>1, <1>2, <2>1, <3>1 DEF Begins
    <3>3. Pending("xml")'
      <4> DEFINE q == Request("fortisslvpn_xml", Cookie)
      <4>1. q \in requests' /\ q.path = Awaited["xml"]
        BY <2>1, AwaitedFacts DEF Request
      <4> HIDE DEF q
      <4> QED
        BY <4>1 DEF Pending
    <3>4. Answers("xml", 2, X)'
      BY <1>1, <2>1, <3>2, <3>3 DEF Answers
    <3> QED
      BY <3>4 DEF X
  <2>4. Exchange'
    BY <2>1, <2>3 DEF Exchange
  <2>5. Settled'
    BY <1>0, <1>1, <2>1, NoneIsNoResult DEF Settled
  <2> QED
    BY <2>2, <2>4, <2>5 DEF IInv
<1> QED
  BY <1>3, <1>4

LEMMA BreaksStep ==
  ASSUME IInv, Breaks
  PROVE  IInv'
<1>1. TypeOK'
  BY DEF IInv, TypeOK, Breaks, Finish, Results, gateway
<1> QED
  BY <1>1, GivenUp DEF Breaks, Finish

\* The end of a connection cuts what has not been read.
LEMMA CloseStep ==
  ASSUME IInv, Close
  PROVE  IInv'
<1> DEFINE L == LoginAnswer
           X == XmlAnswer
<1>0. TypeOK /\ Exchange /\ Settled /\ Reading
  BY DEF IInv, Close
<1>1. PICK n \in 0 .. Len(wire) : wire' = SubSeq(wire, 1, n)
  BY DEF Close
<1>2. /\ pc' = pc /\ response' = response /\ torn' = torn /\ cookie' = cookie
      /\ config' = config /\ result' = result /\ requests' = requests
      /\ opened' = opened /\ page' = page
      /\ verdict' = verdict /\ body' = body /\ certs' = certs
      /\ ended' = ended \cup {Connection} /\ Connection \in {1, 2}
  BY DEF Close, client, gateway, Connection
<1>3. /\ wire' \in Seq(Tokens) /\ Len(wire') = n /\ n <= Len(wire)
      /\ \A i \in 1 .. n : wire'[i] = wire[i]
  <2>1. 1 \in 1 .. Len(wire) + 1 /\ n \in 1 - 1 .. Len(wire) /\ n - 1 + 1 = n
        /\ wire \in Seq(Tokens) /\ \A i \in 1 .. n : 1 + i - 1 = i
    BY <1>0, Lengths
  <2>2. /\ SubSeq(wire, 1, n) \in Seq(Tokens) /\ Len(SubSeq(wire, 1, n)) = n - 1 + 1
        /\ \A i \in 1 .. n - 1 + 1 : SubSeq(wire, 1, n)[i] = wire[1 + i - 1]
    BY <2>1, Slice
  <2> QED
    BY <1>1, <2>1, <2>2
<1>4. TypeOK'
  BY <1>0, <1>2, <1>3 DEF TypeOK
<1>5. L' = L /\ X' = X /\ \A p : Pending(p)' <=> Pending(p)
  BY <1>2 DEF LoginAnswer, XmlAnswer, Pending
<1>6. /\ Len(L) \in Nat /\ Len(X) \in Nat /\ Len(response) \in Nat /\ Len(wire) \in Nat
      /\ n \in Nat
  <2>1. L \in Seq(Tokens) /\ X \in Seq(Tokens)
    BY <1>0, LoginAnswerFacts, PageAnswerFacts DEF TypeOK, XmlAnswer
  <2> HIDE DEF L, X
  <2>2. n \in Nat
    BY <1>0, Lengths
  <2> QED
    BY <1>0, <2>1, <2>2, Lengths
<1>7. wire = <<>> => wire' = <<>>
  <2>1. ASSUME wire = <<>> PROVE Len(wire') = 0
    BY <1>3, <1>6, <2>1
  <2> QED
    BY <1>3, <2>1, NoTokens
<1> HIDE DEF L, X
<1>8. Begins(L) => Begins(L)'
  <2> DEFINE w == wire'
  <2>1. /\ Len(w) = n /\ n <= Len(wire) /\ \A i \in 1 .. n : w[i] = wire[i]
    BY <1>3
  <2> HIDE DEF w
  <2>2. ASSUME Begins(L)
        PROVE  /\ Len(response) + Len(w) <= Len(L)
               /\ \A i \in 1 .. Len(response) : response[i] = L[i]
               /\ \A i \in 1 .. Len(w) : w[i] = L[Len(response) + i]
    <3>1. /\ Len(response) + Len(wire) <= Len(L)
          /\ \A i \in 1 .. Len(response) : response[i] = L[i]
          /\ \A i \in 1 .. Len(wire) : wire[i] = L[Len(response) + i]
      BY <2>2 DEF Begins
    <3>2. Len(response) + Len(w) <= Len(L)
      BY <1>6, <2>1, <3>1
    <3>3. ASSUME NEW i \in 1 .. Len(w) PROVE w[i] = L[Len(response) + i]
      <4>1. i \in 1 .. n /\ i \in 1 .. Len(wire)
        BY <1>6, <2>1
      <4> QED
        BY <2>1, <3>1, <4>1
    <3> QED
      BY <3>1, <3>2, <3>3
  <2> QED
    BY <1>2, <1>5, <2>2 DEF Begins, w
<1>9. Begins(X) => Begins(X)'
  <2> DEFINE w == wire'
  <2>1. /\ Len(w) = n /\ n <= Len(wire) /\ \A i \in 1 .. n : w[i] = wire[i]
    BY <1>3
  <2> HIDE DEF w
  <2>2. ASSUME Begins(X)
        PROVE  /\ Len(response) + Len(w) <= Len(X)
               /\ \A i \in 1 .. Len(response) : response[i] = X[i]
               /\ \A i \in 1 .. Len(w) : w[i] = X[Len(response) + i]
    <3>1. /\ Len(response) + Len(wire) <= Len(X)
          /\ \A i \in 1 .. Len(response) : response[i] = X[i]
          /\ \A i \in 1 .. Len(wire) : wire[i] = X[Len(response) + i]
      BY <2>2 DEF Begins
    <3>2. Len(response) + Len(w) <= Len(X)
      BY <1>6, <2>1, <3>1
    <3>3. ASSUME NEW i \in 1 .. Len(w) PROVE w[i] = X[Len(response) + i]
      <4>1. i \in 1 .. n /\ i \in 1 .. Len(wire)
        BY <1>6, <2>1
      <4> QED
        BY <2>1, <3>1, <4>1
    <3> QED
      BY <3>1, <3>2, <3>3
  <2> QED
    BY <1>2, <1>5, <2>2 DEF Begins, w
<1>10. pc = "login" => Answers("login", 1, L)'
  BY <1>0, <1>2, <1>5, <1>7, <1>8 DEF Exchange, Answers, Connection, L
<1>11. pc = "xml" => Answers("xml", 2, X)'
  BY <1>0, <1>2, <1>5, <1>7, <1>9 DEF Exchange, Answers, Connection, X
<1>12. pc = "page" => PageComes'
  BY <1>2 DEF Connection, PageComes
<1>13. Exchange'
  BY <1>2, <1>10, <1>11, <1>12 DEF Exchange, L, X
<1>14. Settled'
  BY <1>0, <1>2, AwaitedFacts, NoneIsNoResult DEF Settled
<1> QED
  BY <1>4, <1>13, <1>14 DEF IInv

LEMMA RequestServed ==
  ASSUME TypeOK, NEW p \in {"login", "page", "xml"}, NEW r \in requests,
         r.path = Awaited[p], requests' = requests \ {r}
  PROVE  /\ Pending(p) /\ ~Pending(p)' /\ requests' \subseteq Asked
         /\ \A q \in {"login", "page", "xml"} : q # p => (Pending(q)' <=> Pending(q))
<1>1. Pending(p)
  BY DEF Pending
<1>2. ~Pending(p)'
  BY RequestFacts DEF Pending
<1>3. requests' \subseteq Asked
  BY DEF TypeOK
<1>4. ASSUME NEW q \in {"login", "page", "xml"}, q # p PROVE Pending(q)' <=> Pending(q)
  <2>1. Awaited[q] # Awaited[p]
    BY <1>4, AwaitedFacts
  <2> QED
    BY <2>1 DEF Pending
<1> QED
  BY <1>1, <1>2, <1>3, <1>4

LEMMA AfterNothing ==
  ASSUME NEW s \in Seq(Tokens)
  PROVE  <<>> \o s = s
<1>1. <<>> \in Seq(Tokens) /\ Len(<<>>) = 0
  OBVIOUS
<1>2. /\ <<>> \o s \in Seq(Tokens) /\ Len(<<>> \o s) = Len(<<>>) + Len(s)
      /\ \A i \in 1 .. Len(s) : (<<>> \o s)[Len(<<>>) + i] = s[i]
  BY <1>1, Concatenation
<1>3. Len(s) \in Nat
  OBVIOUS
<1>4. Len(<<>> \o s) = Len(s) /\ \A i \in 1 .. Len(s) : (<<>> \o s)[i] = s[i]
  BY <1>1, <1>2, <1>3
<1> QED
  BY <1>2, <1>4, SameSequence

LEMMA ServeLoginStep ==
  ASSUME IInv, NEW r \in requests, ServeLogin(r)
  PROVE  IInv'
<1> DEFINE L == LoginAnswer
           X == XmlAnswer
<1>0. TypeOK /\ Exchange /\ Settled
  BY DEF IInv
<1>1. /\ pc' = pc /\ response' = response /\ torn' = torn /\ cookie' = cookie
      /\ config' = config /\ result' = result /\ ended' = ended
      /\ opened' = opened /\ page' = page
      /\ verdict' = verdict /\ body' = body /\ certs' = certs
      /\ r.path = Awaited["login"] /\ requests' = requests \ {r}
      /\ wire' = IF pc = "login" /\ ~Closed THEN wire \o L ELSE wire
  BY DEF ServeLogin, Serves, client, gateway
<1>2. /\ Pending("login") /\ ~Pending("login")' /\ requests' \subseteq Asked
      /\ Pending("xml")' <=> Pending("xml")
  BY <1>0, <1>1, RequestServed
<1>3. L' = L /\ X' = X /\ L \in Seq(Tokens)
  BY <1>0, <1>1, LoginAnswerFacts DEF LoginAnswer, XmlAnswer
<1> HIDE DEF L, X
<1>4. TypeOK'
  <2>1. wire' \in Seq(Tokens)
    BY <1>0, <1>1, <1>3, Concatenation DEF TypeOK
  <2> QED
    BY <1>0, <1>1, <1>2, <2>1 DEF TypeOK
<1>5. ASSUME pc = "login" PROVE Answers("login", 1, L)'
  <2>1. response = <<>> /\ wire = <<>> /\ Begins(L) /\ Connection = 1
    BY <1>0, <1>2, <1>5 DEF Exchange, Answers, Connection, L
  <2>2. CASE Closed
    <3>1. wire' = wire /\ 1 \in ended
      BY <1>1, <2>1, <2>2 DEF Closed
    <3>2. Begins(L)'
      BY <1>1, <1>3, <2>1, <3>1 DEF Begins
    <3> QED
      BY <1>1, <1>2, <3>1, <3>2 DEF Answers
  <2>3. CASE ~Closed
    <3>1. wire' = L
      BY <1>1, <1>3, <1>5, <2>1, <2>3, AfterNothing
    <3>2. Len(response) = 0 /\ Len(L) \in Nat /\ 1 .. Len(response) = {}
      BY <1>3, <2>1
    <3>3. Begins(L)' /\ Whole(L)'
      BY <1>1, <1>3, <3>1, <3>2 DEF Begins, Whole
    <3> QED
      BY <1>2, <3>3 DEF Answers
  <2> QED
    BY <2>2, <2>3
<1>6. ASSUME pc = "xml" PROVE Answers("xml", 2, X)'
  BY <1>0, <1>1, <1>2, <1>3, <1>6 DEF Exchange, Answers, Begins, Whole, X
<1>7. ASSUME pc = "page" PROVE PageComes'
  BY <1>0, <1>1, <1>7 DEF Exchange, PageComes
<1>8. Exchange'
  BY <1>1, <1>5, <1>6, <1>7 DEF Exchange, L, X
<1>9. Settled'
  BY <1>0, <1>1, <1>2 DEF Settled
<1> QED
  BY <1>4, <1>8, <1>9 DEF IInv

LEMMA ServePageStep ==
  ASSUME IInv, NEW r \in requests, ServePage(r)
  PROVE  IInv'
<1> DEFINE L == LoginAnswer
           X == XmlAnswer
           a == <<Status, Blank>> \o Html
<1>0. TypeOK /\ Exchange /\ Settled
  BY DEF IInv
<1>1. /\ pc' = pc /\ response' = response /\ torn' = torn /\ cookie' = cookie
      /\ config' = config /\ result' = result /\ ended' = ended
      /\ opened' = (r.cookie = Cookie) /\ page' = page
      /\ verdict' = verdict /\ body' = body /\ certs' = certs
      /\ r.path = Awaited["page"] /\ requests' = requests \ {r}
      /\ wire' = IF pc = "page" /\ ~Closed THEN wire \o a ELSE wire
  BY DEF ServePage, Serves, client, gateway
<1>2. /\ requests' \subseteq Asked
      /\ Pending("login")' <=> Pending("login")
      /\ Pending("xml")' <=> Pending("xml")
  BY <1>0, <1>1, RequestServed
<1>3. L' = L /\ X' = X /\ a \in Seq(Tokens)
  BY <1>0, <1>1, PageAnswerFacts DEF LoginAnswer, XmlAnswer
<1>4. opened'
  BY <1>0, <1>1, AwaitedFacts, RequestFacts
<1> HIDE DEF L, X, a
<1>5. TypeOK'
  <2>1. wire' \in Seq(Tokens)
    BY <1>0, <1>1, <1>3, Concatenation DEF TypeOK
  <2> QED
    BY <1>0, <1>1, <1>2, <1>4, <2>1 DEF TypeOK
<1>6. ASSUME pc = "login" PROVE Answers("login", 1, L)'
  BY <1>0, <1>1, <1>2, <1>3, <1>6 DEF Exchange, Answers, Begins, Whole, L
<1>7. ASSUME pc = "xml" PROVE Answers("xml", 2, X)'
  BY <1>0, <1>1, <1>2, <1>3, <1>7 DEF Exchange, Answers, Begins, Whole, X
<1>8. PageComes'
  BY <1>4 DEF PageComes
<1>9. Exchange'
  BY <1>1, <1>6, <1>7, <1>8 DEF Exchange, L, X
<1>10. Settled'
  BY <1>0, <1>1, <1>2 DEF Settled
<1> QED
  BY <1>5, <1>9, <1>10 DEF IInv

LEMMA ServeXmlStep ==
  ASSUME IInv, NEW r \in requests, ServeXml(r)
  PROVE  IInv'
<1> DEFINE L == LoginAnswer
           a == <<Status, Blank>> \o page'
<1>0. TypeOK /\ Exchange /\ Settled
  BY DEF IInv
<1>1. /\ pc' = pc /\ response' = response /\ torn' = torn /\ cookie' = cookie
      /\ config' = config /\ result' = result /\ ended' = ended
      /\ opened' = opened /\ page' \in {Document, Html}
      /\ verdict' = verdict /\ body' = body /\ certs' = certs
      /\ r.path = Awaited["xml"] /\ requests' = requests \ {r}
      /\ wire' = IF pc = "xml" /\ ~Closed THEN wire \o a ELSE wire
  BY DEF ServeXml, Serves, client, gateway
<1>2. /\ Pending("xml") /\ ~Pending("xml")' /\ requests' \subseteq Asked
      /\ Pending("login")' <=> Pending("login")
  BY <1>0, <1>1, RequestServed
<1>3. L' = L /\ XmlAnswer' = a /\ a \in Seq(Tokens)
  <2>1. page' \in {<<>>, Document, Html}
    BY <1>1
  <2> QED
    BY <1>1, <2>1, PageAnswerFacts, TokenFacts DEF LoginAnswer, XmlAnswer
<1> HIDE DEF L, a
<1>4. TypeOK'
  <2>1. wire' \in Seq(Tokens)
    BY <1>0, <1>1, <1>3, Concatenation DEF TypeOK
  <2> QED
    BY <1>0, <1>1, <1>2, <2>1 DEF TypeOK
<1>5. ASSUME pc = "login" PROVE Answers("login", 1, L)'
  BY <1>0, <1>1, <1>2, <1>3, <1>5 DEF Exchange, Answers, Begins, Whole, L
<1>6. ASSUME pc = "xml" PROVE Answers("xml", 2, XmlAnswer)'
  <2>1. response = <<>> /\ wire = <<>> /\ Connection = 2
    BY <1>0, <1>2, <1>6 DEF Exchange, Answers, Connection
  <2>2. Len(response) = 0 /\ Len(a) \in Nat /\ 1 .. Len(response) = {}
    BY <1>3, <2>1
  <2>3. CASE Closed
    <3>1. wire' = wire /\ 2 \in ended /\ Len(wire) = 0 /\ 1 .. Len(wire) = {}
      BY <1>1, <2>1, <2>3 DEF Closed
    <3>2. Begins(XmlAnswer)'
      BY <1>1, <1>3, <2>2, <3>1 DEF Begins
    <3> QED
      BY <1>1, <1>2, <3>1, <3>2 DEF Answers
  <2>4. CASE ~Closed
    <3>1. wire' = a
      BY <1>1, <1>3, <1>6, <2>1, <2>4, AfterNothing
    <3>2. Begins(XmlAnswer)' /\ Whole(XmlAnswer)'
      BY <1>1, <1>3, <2>2, <3>1 DEF Begins, Whole
    <3> QED
      BY <1>2, <3>2 DEF Answers
  <2> QED
    BY <2>3, <2>4
<1>7. ASSUME pc = "page" PROVE PageComes'
  BY <1>0, <1>1, <1>7 DEF Exchange, PageComes
<1>8. Exchange'
  BY <1>1, <1>5, <1>6, <1>7 DEF Exchange, L
<1>9. Settled'
  BY <1>0, <1>1, <1>2 DEF Settled
<1> QED
  BY <1>4, <1>8, <1>9 DEF IInv

\* What has been read of the login's answer, and what is left of it.
LEMMA LoginRead ==
  ASSUME IInv, pc = "login", NEW n \in 0 .. Len(wire)
  PROVE  /\ Received(n) \in Seq(Tokens) /\ Rest(n) \in Seq(Tokens)
         /\ \A i \in 1 .. Len(Received(n)) :
              i \in 1 .. Len(LoginAnswer) /\ Received(n)[i] = LoginAnswer[i]
         /\ \A i \in 1 .. Len(Rest(n)) :
              /\ Len(Received(n)) + i \in 1 .. Len(LoginAnswer)
              /\ Rest(n)[i] = LoginAnswer[Len(Received(n)) + i]
<1> DEFINE L == LoginAnswer
           r == Received(n)
           t == Rest(n)
<1>1. TypeOK /\ Begins(L)
  BY DEF IInv, Exchange, Answers
<1>2. /\ Len(r) + Len(t) = Len(response) + Len(wire)
      /\ \A i \in 1 .. Len(r) : r[i] = L[i]
      /\ \A i \in 1 .. Len(t) : t[i] = L[Len(r) + i]
  BY <1>1, ReadingOn
<1>3. Len(response) + Len(wire) <= Len(L)
  BY <1>1 DEF Begins
<1>4. r \in Seq(Tokens) /\ t \in Seq(Tokens) /\ L \in Seq(Tokens)
  BY <1>1, ReceivedIs, RestIs, LoginAnswerFacts
<1> HIDE DEF L, r, t
<1>5. Len(r) \in Nat /\ Len(t) \in Nat /\ Len(L) \in Nat /\ Len(r) + Len(t) <= Len(L)
  BY <1>2, <1>3, <1>4
<1>6. /\ \A i \in 1 .. Len(r) : i \in 1 .. Len(L)
      /\ \A i \in 1 .. Len(t) : Len(r) + i \in 1 .. Len(L)
  BY <1>5
<1> QED
  BY <1>2, <1>4, <1>6 DEF L, r, t

LEMMA ReadLoginStep ==
  ASSUME IInv, NEW n \in 0 .. Len(wire), NEW part \in BOOLEAN, ReadLogin(n, part)
  PROVE  IInv'
<1> DEFINE L == LoginAnswer
           r == Received(n)
           t == Rest(n)
<1>0. TypeOK /\ Settled /\ pc = "login" /\ result = None /\ Over(n)
  BY DEF IInv, ReadLogin, Settled
<1>1. /\ wire' = t /\ torn' = part /\ ended' = ended /\ opened' = opened /\ page' = page
      /\ verdict' = verdict /\ body' = body /\ certs' = certs
  BY DEF ReadLogin, Leaves, Rest, gateway
<1>2. /\ r \in Seq(Tokens) /\ t \in Seq(Tokens)
      /\ \A i \in 1 .. Len(r) : i \in 1 .. Len(L) /\ r[i] = L[i]
      /\ \A i \in 1 .. Len(t) : Len(r) + i \in 1 .. Len(L) /\ t[i] = L[Len(r) + i]
  BY <1>0, LoginRead
<1>3. CASE pc' = "done"
  <2>1. /\ result' \in {"OtpRequired", "InvalidCredentials"}
        /\ response' = response /\ requests' = requests /\ config' = config /\ cookie' = cookie
    BY <1>3 DEF ReadLogin, Finish, Ask
  <2>2. TypeOK'
    BY <1>0, <1>1, <1>2, <1>3, <2>1 DEF TypeOK, Results
  <2> QED
    BY <1>3, <2>1, <2>2, GivenUp
<1>4. CASE pc' # "done"
  <2>1. /\ pc' = "page" /\ response' = <<>> /\ config' = config /\ result' = result
        /\ CookieIn(r) # None /\ cookie' = CookieIn(r)
        /\ requests' = requests \cup {Request("fortisslvpn", cookie')}
    BY <1>4, AwaitedFacts DEF ReadLogin, Finish, Ask
  <2>2. cookie' = Cookie
    <3>1. PICK i \in 1 .. Len(r) : r[i].name = "SVPNCOOKIE" /\ CookieIn(r) = r[i].val
      BY <1>2, <2>1, CookieFinds
    <3>2. i \in 1 .. Len(L) /\ L[i].name = "SVPNCOOKIE" /\ CookieIn(r) = L[i].val
      BY <1>2, <3>1
    <3>3. L[i].val \in {None, Cookie}
      BY <1>0, <3>2, LoginAnswerFacts
    <3> QED
      BY <2>1, <3>2, <3>3
  <2>3. TypeOK'
    <3>1. Request("fortisslvpn", Cookie) \in Asked /\ <<>> \in Seq(Tokens)
      BY DEF Asked
    <3> QED
      BY <1>0, <1>1, <1>2, <2>1, <2>2, <3>1, AwaitedFacts DEF TypeOK
  <2>4. ASSUME 1 \notin ended, ~Contains(body, Blank) PROVE ~Contains(t, Blank)
    <3>1. ~Closed
      BY <1>0, <2>4 DEF Closed, Connection
    <3>2. PICK j \in 1 .. Len(r) : r[j] = Blank
      BY <1>0, <3>1 DEF Over, Contains
    <3>3. ASSUME NEW i \in 1 .. Len(t), t[i] = Blank PROVE FALSE
      <4>1. /\ j \in 1 .. Len(L) /\ Len(r) + i \in 1 .. Len(L)
            /\ L[j] = Blank /\ L[Len(r) + i] = Blank
        BY <1>2, <3>2, <3>3
      <4>2. j = Len(r) + i
        BY <1>0, <2>4, <4>1, LoginAnswerFacts
      <4>3. j <= Len(r) /\ i >= 1 /\ Len(r) \in Nat
        BY <1>2, <3>2
      <4> QED
        BY <4>2, <4>3
    <3> QED
      BY <3>3 DEF Contains
  <2>5. PageComes'
    <3>1. ~Contains(<<>>, Blank)
      BY DEF Contains
    <3> QED
      BY <1>1, <2>1, <2>4, <3>1 DEF PageComes
  <2>6. Exchange'
    BY <2>1, <2>5 DEF Exchange
  <2>7. Settled'
    BY <1>0, <2>1, <2>2, NoneIsNoResult DEF Settled
  <2> QED
    BY <2>3, <2>6, <2>7 DEF IInv
<1> QED
  BY <1>3, <1>4

LEMMA ReadXmlStep ==
  ASSUME IInv, NEW n \in 0 .. Len(wire), NEW part \in BOOLEAN, ReadXml(n, part)
  PROVE  IInv'
<1>0. TypeOK /\ Exchange /\ pc = "xml" /\ Reads(n, part) /\ (part => n < Len(wire))
  BY DEF IInv, ReadXml, Reads
<1>1. /\ pc' = "done" /\ response' = response /\ cookie' = cookie /\ requests' = requests
      /\ wire' = Rest(n) /\ torn' = part /\ ended' = ended /\ opened' = opened /\ page' = page
      /\ verdict' = verdict /\ body' = body /\ certs' = certs
      /\ \/ result' = "AllocationFailed" /\ config' = config
         \/ result' = "ok" /\ config' = Says(Received(n))
  BY <1>0, ConfigReturned DEF ReadXml, Finish, Leaves, Rest, gateway
<1>2. TypeOK'
  <2>1. Rest(n) \in Seq(Tokens) /\ Says(Received(n)) \in Configs
    BY <1>0, RestIs, ConfigReturned
  <2> QED
    BY <1>0, <1>1, <2>1 DEF TypeOK, Results
<1>3. ASSUME 2 \notin ended PROVE ~Pending("xml")
  <2>1. Answers("xml", Connection, XmlAnswer) /\ ~Closed
    BY <1>0, <1>3 DEF Exchange, Connection, Closed
  <2> QED
    BY <1>0, <2>1, PendingEnds
<1>4. Pending("xml")' <=> Pending("xml")
  BY <1>1 DEF Pending
<1>5. Exchange' /\ Settled'
  BY <1>1, <1>3, <1>4 DEF Exchange, Settled
<1> QED
  BY <1>2, <1>5 DEF IInv

LEMMA StutterStep ==
  ASSUME IInv, UNCHANGED vars
  PROVE  IInv'
<1>1. /\ pc' = pc /\ response' = response /\ torn' = torn /\ cookie' = cookie
      /\ config' = config /\ result' = result /\ wire' = wire /\ requests' = requests
      /\ ended' = ended /\ opened' = opened /\ page' = page
      /\ verdict' = verdict /\ body' = body /\ certs' = certs
  BY DEF vars, client, gateway
<1>2. TypeOK /\ Exchange /\ Settled
  BY DEF IInv
<1>3. TypeOK'
  BY <1>1, <1>2 DEF TypeOK
<1>4. LoginAnswer' = LoginAnswer /\ XmlAnswer' = XmlAnswer /\ \A p : Pending(p)' <=> Pending(p)
  BY <1>1 DEF LoginAnswer, XmlAnswer, Pending
<1>5. ASSUME pc = "login" PROVE Answers("login", 1, LoginAnswer)'
  BY <1>1, <1>2, <1>4, <1>5 DEF Exchange, Answers, Begins, Whole
<1>6. ASSUME pc = "xml" PROVE Answers("xml", 2, XmlAnswer)'
  BY <1>1, <1>2, <1>4, <1>6 DEF Exchange, Answers, Begins, Whole
<1>7. PageComes => PageComes'
  BY <1>1 DEF PageComes
<1>8. Exchange'
  BY <1>1, <1>2, <1>5, <1>6, <1>7 DEF Exchange
<1>9. Settled'
  BY <1>1, <1>2, <1>4 DEF Settled
<1> QED
  BY <1>3, <1>8, <1>9 DEF IInv

LEMMA IInvKept ==
  ASSUME IInv, [Next]_vars
  PROVE  IInv'
<1>1. CASE Start
  BY <1>1, StartStep
<1>2. ASSUME NEW n \in 0 .. Len(wire), NEW part \in BOOLEAN, ReadMore(n, part)
      PROVE  IInv'
  BY <1>2, ReadMoreStep
<1>3. ASSUME NEW n \in 0 .. Len(wire), NEW part \in BOOLEAN, ReadLogin(n, part)
      PROVE  IInv'
  BY <1>3, ReadLoginStep
<1>4. ASSUME NEW n \in 0 .. Len(wire), NEW part \in BOOLEAN, ReadPage(n, part)
      PROVE  IInv'
  BY <1>4, ReadPageStep
<1>5. ASSUME NEW n \in 0 .. Len(wire), NEW part \in BOOLEAN, ReadXml(n, part)
      PROVE  IInv'
  BY <1>5, ReadXmlStep
<1>6. CASE Breaks
  BY <1>6, BreaksStep
<1>7. CASE Close
  BY <1>7, CloseStep
<1>8. ASSUME NEW r \in requests, ServeLogin(r)
      PROVE  IInv'
  BY <1>8, ServeLoginStep
<1>9. ASSUME NEW r \in requests, ServePage(r)
      PROVE  IInv'
  BY <1>9, ServePageStep
<1>10. ASSUME NEW r \in requests, ServeXml(r)
       PROVE  IInv'
  BY <1>10, ServeXmlStep
<1>11. CASE UNCHANGED vars
  BY <1>11, StutterStep
<1> QED
  BY <1>1, <1>2, <1>3, <1>4, <1>5, <1>6, <1>7, <1>8, <1>9, <1>10, <1>11
     DEF Next, Receives, Gateway

-----------------------------------------------------------------------------
(* What a step may do *)

\* How the client goes on, and what the gateway may do meanwhile.
LEMMA StepKinds ==
  ASSUME IInv, [Next]_vars
  PROVE  \/ Start
         \/ \E n \in 0 .. Len(wire), part \in BOOLEAN :
              ReadMore(n, part) \/ ReadLogin(n, part) \/ ReadPage(n, part) \/ ReadXml(n, part)
         \/ Breaks
         \/ /\ pc' = pc /\ config' = config /\ result' = result
            /\ body' = body /\ verdict' = verdict
            /\ ended \subseteq ended' /\ (opened => opened')
            /\ pc = "done" => wire' = wire /\ ended' = ended /\ (page' = page \/ Pending("xml"))
<1>0. TypeOK
  BY DEF IInv
<1>1. CASE Close
  BY <1>1, AwaitedFacts DEF Close, client, gateway
<1>2. ASSUME NEW r \in requests, ServeLogin(r) \/ ServePage(r) \/ ServeXml(r)
      PROVE  /\ pc' = pc /\ config' = config /\ result' = result
             /\ body' = body /\ verdict' = verdict
             /\ ended \subseteq ended' /\ (opened => opened')
             /\ pc = "done" => wire' = wire /\ ended' = ended /\ (page' = page \/ Pending("xml"))
  <2>1. /\ pc' = pc /\ config' = config /\ result' = result
        /\ body' = body /\ verdict' = verdict /\ ended' = ended
        /\ pc = "done" => wire' = wire
    BY <1>2 DEF ServeLogin, ServePage, ServeXml, Serves, client, gateway
  <2>2. opened => opened'
    <3>1. CASE ServePage(r)
      BY <1>0, <3>1, AwaitedFacts, RequestFacts DEF ServePage, Serves
    <3>2. CASE ServeLogin(r) \/ ServeXml(r)
      BY <3>2 DEF ServeLogin, ServeXml
    <3> QED
      BY <1>2, <3>1, <3>2
  <2>3. page' = page \/ Pending("xml")
    BY <1>2 DEF ServeLogin, ServePage, ServeXml, Serves, Pending
  <2> QED
    BY <2>1, <2>2, <2>3
<1>3. CASE UNCHANGED vars
  BY <1>3 DEF vars, client, gateway
<1> QED
  BY <1>1, <1>2, <1>3 DEF Next, Receives, Gateway

\* After the end nothing of the outcome changes.
LEMMA OutcomeStays ==
  ASSUME IInv, [Next]_vars, pc = "done"
  PROVE  /\ pc' = "done" /\ config' = config /\ result' = result
         /\ verdict' = verdict /\ wire' = wire /\ ended' = ended
         /\ page' = page \/ Pending("xml")
  BY StepKinds, AwaitedFacts
     DEF Start, ReadMore, ReadLogin, ReadPage, ReadXml, Breaks, Reads

\* The end comes with one of the errors that are not told apart, with the
\* login's answer, or with the configuration.
LEMMA OutcomeComes ==
  ASSUME IInv, [Next]_vars, pc # "done", pc' = "done"
  PROVE  \/ result' \in {"GatewayUnreachable", "Io", "AllocationFailed"}
         \/ \E n \in 0 .. Len(wire), part \in BOOLEAN : ReadLogin(n, part)
         \/ /\ result' = "ok"
            /\ \E n \in 0 .. Len(wire), part \in BOOLEAN : ReadXml(n, part)
<1>1. CASE Start
  BY <1>1 DEF Start, AskOnNew, Finish, Ask
<1>2. ASSUME NEW n \in 0 .. Len(wire), NEW part \in BOOLEAN, ReadPage(n, part)
      PROVE  result' \in {"GatewayUnreachable", "Io"}
  BY <1>2 DEF ReadPage, AskOnNew, Finish, Ask
<1>3. ASSUME NEW n \in 0 .. Len(wire), NEW part \in BOOLEAN, ReadXml(n, part)
      PROVE  result' \in {"ok", "AllocationFailed"}
  BY <1>3 DEF ReadXml, Finish
<1>4. CASE Breaks
  BY <1>4 DEF Breaks, Finish
<1>5. ASSUME NEW n \in 0 .. Len(wire), NEW part \in BOOLEAN, ReadMore(n, part)
      PROVE  pc' = pc
  BY <1>5 DEF ReadMore
<1> QED
  BY <1>1, <1>2, <1>3, <1>4, <1>5, StepKinds

LEMMA NoOutcomeYet ==
  ASSUME IInv', pc' # "done"
  PROVE  result' = None
  BY DEF IInv, Settled

-----------------------------------------------------------------------------
(* The properties are kept *)

LEMMA TunnelModeFirstKept ==
  ASSUME IInv, TunnelModeFirst, [Next]_vars
  PROVE  TunnelModeFirst'
<1>1. CASE Start
  BY <1>1, AwaitedFacts DEF Start, AskOnNew, Finish, Ask, TunnelModeFirst
<1>2. ASSUME NEW n \in 0 .. Len(wire), NEW part \in BOOLEAN, ReadMore(n, part)
      PROVE  TunnelModeFirst'
  BY <1>2 DEF ReadMore, TunnelModeFirst, gateway
<1>3. ASSUME NEW n \in 0 .. Len(wire), NEW part \in BOOLEAN, ReadLogin(n, part)
      PROVE  TunnelModeFirst'
  BY <1>3 DEF ReadLogin, Finish, Ask, TunnelModeFirst
<1>4. ASSUME NEW n \in 0 .. Len(wire), NEW part \in BOOLEAN, ReadPage(n, part)
      PROVE  TunnelModeFirst'
  <2> SUFFICES ASSUME 1 \notin ended, ~Contains(body, Blank), ~opened
               PROVE  FALSE
    BY <1>4 DEF ReadPage, TunnelModeFirst, gateway
  <2>1. TypeOK /\ PageComes /\ pc = "page"
    BY <1>4 DEF IInv, Exchange, ReadPage
  <2>2. ~Contains(response, Blank) /\ ~Contains(wire, Blank)
    BY <2>1 DEF PageComes
  <2>3. Contains(Received(n), Blank)
    BY <1>4, <2>1 DEF ReadPage, Over, Closed, Connection
  <2>4. PICK i \in 1 .. Len(Received(n)) : Received(n)[i] = Blank
    BY <2>3 DEF Contains
  <2>5. /\ Len(Received(n)) = Len(response) + n
        /\ \A j \in 1 .. Len(response) : Received(n)[j] = response[j]
        /\ \A j \in 1 .. n : Received(n)[Len(response) + j] = wire[j]
        /\ Len(response) \in Nat /\ Len(wire) \in Nat
    BY <2>1, ReceivedIs, Lengths
  <2>6. CASE i <= Len(response)
    BY <2>2, <2>4, <2>5, <2>6 DEF Contains
  <2>7. CASE i > Len(response)
    <3> DEFINE j == i - Len(response)
    <3>1. j \in 1 .. n /\ j \in 1 .. Len(wire) /\ Len(response) + j = i
      BY <2>5, <2>7
    <3> HIDE DEF j
    <3>2. wire[j] = Blank
      BY <2>4, <2>5, <3>1
    <3> QED
      BY <2>2, <3>1, <3>2 DEF Contains
  <2> QED
    BY <2>5, <2>6, <2>7
<1>5. ASSUME NEW n \in 0 .. Len(wire), NEW part \in BOOLEAN, ReadXml(n, part)
      PROVE  TunnelModeFirst'
  BY <1>5 DEF ReadXml, Finish, TunnelModeFirst
<1>6. CASE Breaks
  BY <1>6 DEF Breaks, Finish, TunnelModeFirst
<1>7. CASE pc' = pc /\ body' = body /\ ended \subseteq ended' /\ (opened => opened')
  BY <1>7 DEF TunnelModeFirst
<1> QED
  BY <1>1, <1>2, <1>3, <1>4, <1>5, <1>6, <1>7, StepKinds

LEMMA ErrorNamesCauseKept ==
  ASSUME IInv, ErrorNamesCause, [Next]_vars
  PROVE  ErrorNamesCause'
<1>1. CASE pc = "done"
  BY <1>1, OutcomeStays DEF ErrorNamesCause
<1>2. CASE pc' # "done"
  <2>1. result' = None
    BY <1>2, IInvKept, NoOutcomeYet
  <2> QED
    BY <2>1, NoneIsNoResult DEF ErrorNamesCause, Results
<1>3. CASE result' \in {"GatewayUnreachable", "Io", "AllocationFailed", "ok"}
  BY <1>3 DEF ErrorNamesCause
<1>4. ASSUME NEW n \in 0 .. Len(wire), NEW part \in BOOLEAN, ReadLogin(n, part), pc' = "done"
      PROVE  ErrorNamesCause'
  <2> DEFINE L == LoginAnswer
             r == Received(n)
             t == Rest(n)
  <2>0. TypeOK /\ pc = "login" /\ Over(n) /\ Reads(n, part) /\ Answers("login", 1, L)
    BY <1>4 DEF IInv, ReadLogin, Exchange
  <2>1. /\ r \in Seq(Tokens) /\ t \in Seq(Tokens)
        /\ \A i \in 1 .. Len(r) : i \in 1 .. Len(L) /\ r[i] = L[i]
        /\ \A i \in 1 .. Len(t) : Len(r) + i \in 1 .. Len(L) /\ t[i] = L[Len(r) + i]
    BY <2>0, LoginRead
  <2>2. /\ wire' = t /\ ended' = ended /\ verdict' = verdict
        /\ \/ result' = "OtpRequired" /\ Contains(r, Tokeninfo)
           \/ /\ result' = "InvalidCredentials" /\ ~Contains(r, Tokeninfo) /\ CookieIn(r) = None
    BY <1>4 DEF ReadLogin, Leaves, Rest, gateway, Finish, Ask, Awaited
  <2>3. Contains(r, Tokeninfo) => verdict = "challenge"
    BY <2>0, <2>1, LoginAnswerFacts DEF Contains
  <2>4. ASSUME CookieIn(r) = None, verdict = "accept", 1 \notin ended PROVE FALSE
    <3>1. ~Closed
      BY <2>0, <2>4 DEF Closed, Connection
    <3>2. PICK j \in 1 .. Len(r) : r[j] = Blank
      BY <2>0, <3>1 DEF Over, Contains
    <3>3. j >= 3
      BY <2>0, <2>1, <2>4, <3>2, LoginAnswerFacts
    <3>4. 2 \in 1 .. Len(r)
      BY <2>1, <3>2, <3>3
    <3>5. r[2] = SetCookie(Cookie)
      BY <2>0, <2>1, <2>4, <3>4, LoginAnswerFacts
    <3>6. r[2].name = "SVPNCOOKIE" /\ r[2].val # None
      BY <3>5, TokenFacts
    <3> QED
      BY <2>1, <2>4, <3>4, <3>6, CookieFinds
  <2>5. ASSUME ~Contains(r, Tokeninfo), verdict = "challenge", 1 \notin ended, t = <<>>
        PROVE  FALSE
    <3>1. ~Closed
      BY <2>0, <2>5 DEF Closed, Connection
    <3>2. Answers("login", Connection, L)
      BY <2>0 DEF Connection
    <3>3. ~Pending("login")
      BY <2>0, <3>1, <3>2, PendingEnds
    <3>4. Len(r) + Len(t) = Len(L)
      BY <2>0, <2>5, <3>3, AnswersReadOn
    <3>5. Len(L) = 3 /\ L[3] = Tokeninfo
      BY <2>0, <2>5, LoginAnswerFacts
    <3>6. Len(r) \in Nat /\ Len(t) = 0
      BY <2>1, <2>5
    <3>7. 3 \in 1 .. Len(r)
      BY <3>4, <3>5, <3>6
    <3>8. r[3] = Tokeninfo
      BY <2>1, <3>5, <3>7
    <3> QED
      BY <2>5, <3>7, <3>8 DEF Contains
  <2>6. verdict \in {"accept", "refuse", "challenge"}
    BY <2>0 DEF TypeOK
  <2> HIDE DEF r, t, L
  <2> QED
    BY <2>2, <2>3, <2>4, <2>5, <2>6 DEF ErrorNamesCause
<1> QED
  BY <1>1, <1>2, <1>3, <1>4, OutcomeComes

LEMMA NothingInventedKept ==
  ASSUME Pushed = Parsed(Document), IInv, NothingInvented, [Next]_vars
  PROVE  NothingInvented'
<1>1. CASE pc = "done"
  BY <1>1, OutcomeStays DEF NothingInvented
<1>2. CASE pc' # "done"
  <2>1. result' = None
    BY <1>2, IInvKept, NoOutcomeYet
  <2> QED
    BY <2>1, NoneIsNoResult DEF NothingInvented
<1>3. CASE result' \in {"GatewayUnreachable", "Io", "AllocationFailed"}
  BY <1>3 DEF NothingInvented
<1>4. ASSUME NEW n \in 0 .. Len(wire), NEW part \in BOOLEAN, ReadLogin(n, part), pc' = "done"
      PROVE  NothingInvented'
  BY <1>4 DEF ReadLogin, Finish, Ask, Awaited, NothingInvented
<1>5. ASSUME result' = "ok",
             NEW n \in 0 .. Len(wire), NEW part \in BOOLEAN, ReadXml(n, part)
      PROVE  NothingInvented'
  <2>1. TypeOK /\ Begins(XmlAnswer) /\ (part => n < Len(wire))
    BY <1>5 DEF IInv, Exchange, Answers, ReadXml, Reads
  <2>2. config' = Says(Received(n))
    BY <1>5, <2>1, ConfigReturned DEF ReadXml, Finish
  <2>3. OnlyPushed(Says(Received(n)))
    BY <2>1, XmlSays
  <2>4. OnlyPushed(config')
    BY <2>2, <2>3
  <2> QED
    BY <2>4 DEF OnlyPushed, NothingInvented
<1> QED
  BY <1>1, <1>2, <1>3, <1>4, <1>5, OutcomeComes

LEMMA WholeAnswerTakenKept ==
  ASSUME Pushed = Parsed(Document), IInv, WholeAnswerTaken, [Next]_vars
  PROVE  WholeAnswerTaken'
<1>1. CASE pc = "done"
  <2>1. /\ config' = config /\ result' = result /\ wire' = wire /\ ended' = ended
        /\ page' = page \/ Pending("xml")
    BY <1>1, OutcomeStays
  <2>2. result = "ok" /\ 2 \notin ended => ~Pending("xml")
    BY DEF IInv, Settled
  <2> QED
    BY <2>1, <2>2 DEF WholeAnswerTaken
<1>2. CASE pc' # "done"
  <2>1. result' = None
    BY <1>2, IInvKept, NoOutcomeYet
  <2> QED
    BY <2>1, NoneIsNoResult DEF WholeAnswerTaken
<1>3. CASE result' \in {"GatewayUnreachable", "Io", "AllocationFailed"}
  BY <1>3 DEF WholeAnswerTaken
<1>4. ASSUME NEW n \in 0 .. Len(wire), NEW part \in BOOLEAN, ReadLogin(n, part), pc' = "done"
      PROVE  WholeAnswerTaken'
  BY <1>4 DEF ReadLogin, Finish, Ask, Awaited, WholeAnswerTaken
<1>5. ASSUME result' = "ok",
             NEW n \in 0 .. Len(wire), NEW part \in BOOLEAN, ReadXml(n, part)
      PROVE  WholeAnswerTaken'
  <2>1. /\ TypeOK /\ pc = "xml" /\ Answers("xml", 2, XmlAnswer) /\ Begins(XmlAnswer)
        /\ Reads(n, part) /\ (part => n < Len(wire))
    BY <1>5 DEF IInv, Exchange, Answers, ReadXml, Reads
  <2>2. config' = Says(Received(n)) /\ wire' = Rest(n) /\ ended' = ended /\ page' = page
    BY <1>5, <2>1, ConfigReturned DEF ReadXml, Finish, Leaves, Rest
  <2> SUFFICES ASSUME Rest(n) = <<>>, 2 \notin ended, page = Document
               PROVE  Says(Received(n)) = Pushed
    BY <2>2 DEF WholeAnswerTaken
  <2>3. ~Closed /\ Answers("xml", Connection, XmlAnswer)
    BY <2>1 DEF Closed, Connection
  <2>4. ~Pending("xml")
    BY <2>1, <2>3, PendingEnds
  <2>5. Whole(XmlAnswer)
    BY <2>1, <2>4 DEF Answers
  <2>6. n = Len(wire)
    <3>1. Len(Rest(n)) = 0
      OBVIOUS
    <3>2. Len(Rest(n)) = Len(wire) - n /\ Len(wire) \in Nat
      BY <2>1, RestIs, Lengths
    <3> QED
      BY <3>1, <3>2
  <2> QED
    BY <2>1, <2>5, <2>6, XmlSays
<1> QED
  BY <1>1, <1>2, <1>3, <1>4, <1>5, OutcomeComes

-----------------------------------------------------------------------------
(* What the client waits for *)

\* When the gateway owes nothing, the end of a header is on its way.
HeaderComes ==
  Reading /\ ~Closed /\ ~Pending(pc) => Contains(wire, Blank)

\* A client that reads has something to read, or the gateway's answer to wait for.
WaitsForGatewayOnly ==
  Reading /\ ~GatewayOwes => \E n \in 0 .. Len(wire), part \in BOOLEAN : Reads(n, part)

LEMMA BlankInAppended ==
  ASSUME NEW s \in Seq(Tokens), NEW t \in Seq(Tokens), Contains(t, Blank)
  PROVE  Contains(s \o t, Blank)
<1>1. PICK i \in 1 .. Len(t) : t[i] = Blank
  BY DEF Contains
<1>2. Len(s \o t) = Len(s) + Len(t) /\ (s \o t)[Len(s) + i] = t[i]
  BY Concatenation
<1>3. Len(s) + i \in 1 .. Len(s) + Len(t)
  OBVIOUS
<1> DEFINE j == Len(s) + i
           w == s \o t
<1> HIDE DEF j, w
<1>4. j \in 1 .. Len(w) /\ w[j] = Blank
  BY <1>1, <1>2, <1>3 DEF j, w
<1>5. Contains(w, Blank)
  BY <1>4 DEF Contains
<1> QED
  BY <1>5 DEF w

LEMMA HeaderServed ==
  ASSUME IInv, HeaderComes, NEW p \in {"login", "page", "xml"}, NEW r \in requests,
         r.path = Awaited[p], requests' = requests \ {r},
         pc' = pc, ended' = ended, wire' \in Seq(Tokens),
         pc # p => wire' = wire,
         pc = p /\ ~Closed => Contains(wire', Blank)
  PROVE  HeaderComes'
<1>0. TypeOK
  BY DEF IInv
<1>1. \A q \in {"login", "page", "xml"} : q # p => (Pending(q)' <=> Pending(q))
  BY <1>0, RequestServed
<1>2. Closed' = Closed /\ Reading' = Reading
  BY DEF Closed, Connection, Reading
<1>3. CASE pc = p
  BY <1>2, <1>3 DEF HeaderComes
<1>4. CASE pc # p
  <2> SUFFICES ASSUME Reading, ~Closed, ~Pending(pc)'
               PROVE  Contains(wire', Blank)
    BY <1>2 DEF HeaderComes
  <2>1. pc \in {"login", "page", "xml"}
    BY AwaitedFacts
  <2>2. ~Pending(pc)
    BY <1>1, <1>4, <2>1 DEF Pending
  <2> QED
    BY <1>4, <2>2 DEF HeaderComes
<1> QED
  BY <1>3, <1>4

LEMMA HeaderComesKept ==
  ASSUME IInv, HeaderComes, [Next]_vars
  PROVE  HeaderComes'
<1>0. TypeOK /\ Settled /\ response \in Seq(Tokens) /\ wire \in Seq(Tokens)
  BY Lengths DEF IInv
<1>1. ASSUME pc' = "done" PROVE HeaderComes'
  BY <1>1, AwaitedFacts DEF HeaderComes, Reading
<1>2. ASSUME NEW q, requests' = requests \cup {Request(Awaited[pc'], q)}
      PROVE  HeaderComes'
  <2>1. Request(Awaited[pc'], q).path = Awaited[pc']
    BY DEF Request
  <2>2. Pending(pc)'
    BY <1>2, <2>1 DEF Pending
  <2> QED
    BY <2>2 DEF HeaderComes
<1>3. CASE Start
  <2>1. pc' = "done" \/ requests' = requests \cup {Request(Awaited[pc'], cookie')}
    BY <1>3 DEF Start, AskOnNew, Finish, Ask
  <2> QED
    BY <1>1, <1>2, <2>1
<1>4. ASSUME NEW n \in 0 .. Len(wire), NEW part \in BOOLEAN, ReadMore(n, part)
      PROVE  HeaderComes'
  <2>1. /\ pc' = pc /\ ended' = ended /\ requests' = requests /\ wire' = Rest(n)
        /\ ~Contains(Received(n), Blank)
    BY <1>4 DEF ReadMore, Leaves, Rest, Over
  <2>2. ASSUME Contains(wire, Blank) PROVE Contains(Rest(n), Blank)
    <3>1. PICK i \in 1 .. Len(wire) : wire[i] = Blank
      BY <2>2 DEF Contains
    <3>2. /\ Len(Received(n)) = Len(response) + n
          /\ \A j \in 1 .. n : Received(n)[Len(response) + j] = wire[j]
          /\ Len(Rest(n)) = Len(wire) - n
          /\ \A j \in 1 .. Len(wire) - n : Rest(n)[j] = wire[n + j]
          /\ Len(wire) \in Nat /\ Len(response) \in Nat
      BY <1>0, ReceivedIs, RestIs, Lengths
    <3>3. CASE i <= n
      <4>1. i \in 1 .. n /\ Len(response) + i \in 1 .. Len(Received(n))
        BY <3>2, <3>3
      <4>2. Received(n)[Len(response) + i] = Blank
        BY <3>1, <3>2, <4>1
      <4> QED
        BY <2>1, <4>1, <4>2 DEF Contains
    <3>4. CASE i > n
      <4> DEFINE j == i - n
      <4>1. j \in 1 .. Len(wire) - n /\ n + j = i
        BY <3>2, <3>4
      <4> HIDE DEF j
      <4>2. Rest(n)[j] = Blank /\ j \in 1 .. Len(Rest(n))
        BY <3>1, <3>2, <4>1
      <4> QED
        BY <4>2 DEF Contains
    <3> QED
      BY <3>2, <3>3, <3>4
  <2> QED
    BY <2>1, <2>2 DEF HeaderComes, Reading, Closed, Connection, Pending
<1>5. ASSUME NEW n \in 0 .. Len(wire), NEW part \in BOOLEAN, ReadLogin(n, part)
      PROVE  HeaderComes'
  <2>1. pc' = "done" \/ requests' = requests \cup {Request(Awaited[pc'], cookie')}
    BY <1>5 DEF ReadLogin, Finish, Ask
  <2> QED
    BY <1>1, <1>2, <2>1
<1>6. ASSUME NEW n \in 0 .. Len(wire), NEW part \in BOOLEAN, ReadPage(n, part)
      PROVE  HeaderComes'
  <2>1. pc' = "done" \/ requests' = requests \cup {Request(Awaited[pc'], cookie')}
    BY <1>6 DEF ReadPage, AskOnNew, Finish, Ask
  <2> QED
    BY <1>1, <1>2, <2>1
<1>7. ASSUME NEW n \in 0 .. Len(wire), NEW part \in BOOLEAN, ReadXml(n, part)
      PROVE  HeaderComes'
  BY <1>1, <1>7 DEF ReadXml, Finish
<1>8. CASE Breaks
  BY <1>1, <1>8 DEF Breaks, Finish
<1>9. CASE Close
  BY <1>9 DEF Close, HeaderComes, Closed, Connection, client
<1>10. ASSUME NEW r \in requests, NEW p \in {"login", "page", "xml"}, NEW a \in Seq(Tokens),
              r.path = Awaited[p], requests' = requests \ {r}, pc' = pc, ended' = ended,
              wire' = IF pc = p /\ ~Closed THEN wire \o a ELSE wire, Contains(a, Blank)
       PROVE  HeaderComes'
  <2>1. wire' \in Seq(Tokens)
    BY <1>0, <1>10, Concatenation
  <2>2. pc = p /\ ~Closed => Contains(wire', Blank)
    BY <1>0, <1>10, BlankInAppended
  <2> QED
    BY <1>10, <2>1, <2>2, HeaderServed
<1>11. ASSUME NEW r \in requests, ServeLogin(r)
       PROVE  HeaderComes'
  <2>1. LoginAnswer \in Seq(Tokens) /\ Contains(LoginAnswer, Blank)
    BY <1>0, LoginAnswerFacts
  <2>2. /\ r.path = Awaited["login"] /\ requests' = requests \ {r} /\ pc' = pc /\ ended' = ended
        /\ wire' = IF pc = "login" /\ ~Closed THEN wire \o LoginAnswer ELSE wire
    BY <1>11 DEF ServeLogin, Serves, client
  <2> QED
    BY <1>10, <2>1, <2>2
<1>12. ASSUME NEW d \in {<<>>, Document, Html}
       PROVE  /\ <<Status, Blank>> \o d \in Seq(Tokens)
              /\ Contains(<<Status, Blank>> \o d, Blank)
  <2> DEFINE a == <<Status, Blank>> \o d
  <2>1. d \in Seq(Tokens) /\ a \in Seq(Tokens) /\ Len(a) = Len(d) + 2 /\ a[2] = Blank
    BY PageAnswerFacts
  <2> HIDE DEF a
  <2>2. 2 \in 1 .. Len(a)
    BY <2>1
  <2>3. Contains(a, Blank)
    BY <2>1, <2>2 DEF Contains
  <2> QED
    BY <2>1, <2>3 DEF a
<1>13. ASSUME NEW r \in requests, ServePage(r)
       PROVE  HeaderComes'
  <2> DEFINE a == <<Status, Blank>> \o Html
  <2>1. a \in Seq(Tokens) /\ Contains(a, Blank)
    BY <1>12
  <2>2. /\ r.path = Awaited["page"] /\ requests' = requests \ {r} /\ pc' = pc /\ ended' = ended
        /\ wire' = IF pc = "page" /\ ~Closed THEN wire \o a ELSE wire
    BY <1>13 DEF ServePage, Serves, client
  <2> HIDE DEF a
  <2> QED
    BY <1>10, <2>1, <2>2
<1>14. ASSUME NEW r \in requests, ServeXml(r)
       PROVE  HeaderComes'
  <2> DEFINE a == <<Status, Blank>> \o page'
  <2>1. a \in Seq(Tokens) /\ Contains(a, Blank)
    <3>1. page' \in {<<>>, Document, Html}
      BY <1>14 DEF ServeXml
    <3> QED
      BY <1>12, <3>1
  <2>2. /\ r.path = Awaited["xml"] /\ requests' = requests \ {r} /\ pc' = pc /\ ended' = ended
        /\ wire' = IF pc = "xml" /\ ~Closed THEN wire \o a ELSE wire
    BY <1>14 DEF ServeXml, Serves, client
  <2> HIDE DEF a
  <2> QED
    BY <1>10, <2>1, <2>2
<1>15. CASE UNCHANGED vars
  BY <1>15 DEF vars, client, HeaderComes, Reading, Closed, Connection, Pending
<1> QED
  BY <1>3, <1>4, <1>5, <1>6, <1>7, <1>8, <1>9, <1>11, <1>13, <1>14, <1>15
     DEF Next, Receives, Gateway

-----------------------------------------------------------------------------
(* The theorems *)

(* The invariant the others rest on: what the client has read and can read *)
(* is the beginning of the answer to its request.                          *)
THEOREM Invariance == Spec => []IInv
<1>1. Init => IInv
  BY InitIInv
<1>2. IInv /\ [Next]_vars => IInv'
  BY IInvKept
<1> QED
  BY <1>1, <1>2, PTL DEF Spec

(* The variables have their types: whatever the gateway sends, and wherever *)
(* its answers are cut, a configuration's servers are addresses, and the    *)
(* only cookie that is sent is the one the gateway gave.                    *)
THEOREM TypeCorrect == Spec => []TypeOK
<1>1. IInv => TypeOK
  BY DEF IInv
<1> QED
  BY <1>1, Invariance, PTL

(* For every document with at most one address and one domain, a            *)
(* configuration that was cut short anywhere holds nothing else than the    *)
(* whole one (auth.rs:34-129, 160-174).                                     *)
THEOREM ConfigurationNotInvented ==
  ASSUME Pushed = Parsed(Document)
  PROVE  Spec => []NothingInvented
<1>1. Init => NothingInvented
  BY NoneIsNoResult DEF Init, NothingInvented
<1>2. IInv /\ NothingInvented /\ [Next]_vars => NothingInvented'
  BY NothingInventedKept
<1> QED
  BY <1>1, <1>2, Invariance, PTL DEF Spec

(* A configuration whose last read brought the whole answer is what the     *)
(* gateway pushed, for every document and every way the answer arrives in   *)
(* reads (auth.rs:160-174).                                                 *)
THEOREM WholeAnswer ==
  ASSUME Pushed = Parsed(Document)
  PROVE  Spec => []WholeAnswerTaken
<1>1. Init => WholeAnswerTaken
  BY NoneIsNoResult DEF Init, WholeAnswerTaken
<1>2. IInv /\ WholeAnswerTaken /\ [Next]_vars => WholeAnswerTaken'
  BY WholeAnswerTakenKept
<1> QED
  BY <1>1, <1>2, Invariance, PTL DEF Spec

(* The leftover of the login's answer does not pass for the next answer: the *)
(* configuration is asked for after the gateway saw the request for tunnel   *)
(* mode (auth.rs:321-331).                                                   *)
THEOREM TunnelModeComesFirst == Spec => []TunnelModeFirst
<1>1. Init => TunnelModeFirst
  BY DEF Init, TunnelModeFirst
<1>2. IInv /\ TunnelModeFirst /\ [Next]_vars => TunnelModeFirst'
  BY TunnelModeFirstKept
<1> QED
  BY <1>1, <1>2, Invariance, PTL DEF Spec

(* A token is asked for only when the gateway wants one, and credentials are *)
(* called wrong only when they are, when the connection ended, or when the   *)
(* gateway's word for a token was not read yet (auth.rs:315-319).            *)
THEOREM ErrorsNameTheirCause == Spec => []ErrorNamesCause
<1>1. Init => ErrorNamesCause
  BY NoneIsNoResult DEF Init, ErrorNamesCause, Results
<1>2. IInv /\ ErrorNamesCause /\ [Next]_vars => ErrorNamesCause'
  BY ErrorNamesCauseKept
<1> QED
  BY <1>1, <1>2, Invariance, PTL DEF Spec

(* The client is never left waiting for more than the gateway has to say:    *)
(* while the gateway owes no answer there is something to read, or the end   *)
(* of the connection (auth.rs:163-172).  AuthenticationEnds rests on it.     *)
THEOREM NeverWaitsInVain == Spec => []WaitsForGatewayOnly
<1>1. Init => HeaderComes
  BY AwaitedFacts DEF Init, HeaderComes
<1>2. IInv /\ HeaderComes /\ [Next]_vars => HeaderComes'
  BY HeaderComesKept
<1>3. ASSUME IInv, HeaderComes PROVE WaitsForGatewayOnly
  <2> SUFFICES ASSUME Reading, ~GatewayOwes
               PROVE  \E n \in 0 .. Len(wire), part \in BOOLEAN : Reads(n, part)
    BY DEF WaitsForGatewayOnly
  <2>1. wire \in Seq(Tokens) /\ Len(wire) \in Nat
    BY <1>3, Lengths DEF IInv
  <2>2. CASE Len(wire) = 0
    <3>1. wire = <<>>
      BY <2>1, <2>2, NoTokens
    <3>2. ~Contains(wire, Blank)
      BY <2>2 DEF Contains
    <3>3. Closed
      BY <1>3, <3>2 DEF HeaderComes, GatewayOwes, Pending
    <3>4. Reads(0, FALSE)
      BY <2>2, <3>1, <3>3 DEF Reads
    <3>5. 0 \in 0 .. Len(wire)
      BY <2>1
    <3> QED
      BY <3>4, <3>5
  <2>3. CASE Len(wire) # 0
    <3>1. 1 \in 0 .. Len(wire) /\ 1 <= Len(wire)
      BY <2>1, <2>3
    <3>2. Reads(1, FALSE)
      BY <3>1 DEF Reads
    <3> QED
      BY <3>1, <3>2
  <2> QED
    BY <2>2, <2>3
<1>4. IInv /\ HeaderComes => WaitsForGatewayOnly
  BY <1>3
<1> QED
  BY <1>1, <1>2, <1>4, Invariance, PTL DEF Spec
=============================================================================
