------------------------- MODULE HelperProtocolProofs -------------------------
(***************************************************************************)
(* Daemon and helper for any devices and any number of late answers.       *)
(***************************************************************************)
EXTENDS HelperProtocolProperties, FiniteSetTheorems, SequenceTheorems, WellFoundedInduction, TLAPS

-----------------------------------------------------------------------------
(* The inductive invariant *)

\* On the connection the daemon has now, nothing is asked.
Nothing(w) == w = <<>> \/ w[Len(w)] = "eof"

\* Nothing is asked but cmd.
Just(w, cmd) ==
  /\ w # <<>> /\ w[Len(w)] = cmd
  /\ Len(w) = 1 \/ w[Len(w) - 1] = "eof"

\* The connection is there and no answer on it came late.
Prompt == conn /\ ~broken /\ ~late

(* While answers come in time, what is under way is what the daemon waits  *)
(* for.  Only the rest of a refused create_tun may lie before a ping.      *)
Agreement ==
  Prompt =>
    /\ buffer = <<>>
    /\ pc \in {"hand", "release", "device", "routes", "up"} => Nothing(work) /\ socket = <<>>
    /\ pc = "idle" => Nothing(work) /\ (socket = <<>> \/ (socket = <<Cut>> /\ device = None))
    /\ pc = "ping" =>
         \/ Just(work, pc) /\ socket \in {<<>>, <<Cut>>}
         \/ work = <<>> /\ socket \in {<<Line(TRUE)>>, <<Cut, Line(TRUE)>>}
    /\ pc \in {"undo", "destroy", "add"} =>
         \/ Just(work, pc) /\ socket = <<>>
         \/ work = <<>> /\ socket \in {<<Line(TRUE)>>, <<Line(FALSE)>>}
    /\ pc = "create" =>
         \/ Just(work, pc) /\ socket = <<>>
         \/ work = <<>> /\ socket = <<Line(FALSE)>>
         \/ work = <<>> /\ \E d \in Devices : socket = <<Fd(d), Line(TRUE)>> /\ tun = {d}
    /\ pc = "name" => work = <<>> /\ socket = <<Line(TRUE)>>

\* A connection starts with nothing on it.
Clean ==
  /\ ~conn => Nothing(work) /\ socket = <<>> /\ buffer = <<>>
  /\ broken => work = <<>> /\ tun = {}
  /\ Current \/ (socket = <<>> /\ buffer = <<>>)
  /\ ~conn /\ Current => tun = {}

\* The helper's device, if any, is the daemon's, if any.
SameDevice ==
  /\ \E d \in Devices \cup {None} : tun \subseteq {d}
  /\ Prompt /\ Current => device = None \/ tun \subseteq {device}

IInv == TypeOK /\ Agreement /\ Clean /\ SameDevice

-----------------------------------------------------------------------------
(* Lemmas about the queues *)

LEMMA AppendWork ==
  ASSUME NEW S, NEW w \in Seq(S), NEW cmd \in S
  PROVE  /\ Append(w, cmd) \in Seq(S)
         /\ Nothing(w) => Just(Append(w, cmd), cmd)
         /\ cmd = "eof" => Nothing(Append(w, cmd))
         /\ "eof" \in {Append(w, cmd)[i] : i \in DOMAIN Append(w, cmd)} <=>
              cmd = "eof" \/ "eof" \in {w[i] : i \in DOMAIN w}
<1> DEFINE a == Append(w, cmd)
<1>1. /\ a \in Seq(S) /\ Len(a) = Len(w) + 1 /\ Len(w) \in Nat
      /\ DOMAIN w = 1 .. Len(w) /\ DOMAIN a = 1 .. Len(a)
      /\ \A i \in 1 .. Len(w) : a[i] = w[i]
      /\ a[Len(w) + 1] = cmd
      /\ w = <<>> <=> Len(w) = 0
  OBVIOUS
<1> HIDE DEF a
<1>2. a # <<>> /\ Len(a) - 1 = Len(w)
  BY <1>1
<1>3. Nothing(w) => Just(a, cmd)
  BY <1>1, <1>2 DEF Nothing, Just
<1>4. cmd = "eof" => Nothing(a)
  BY <1>1, <1>2 DEF Nothing
<1>5. \A i \in DOMAIN a : i \in DOMAIN w \/ i = Len(w) + 1
  BY <1>1
<1>6. Len(w) + 1 \in DOMAIN a /\ \A i \in DOMAIN w : i \in DOMAIN a
  BY <1>1
<1> QED
  BY <1>1, <1>3, <1>4, <1>5, <1>6 DEF a

\* What is asked stays so when something before it is done.
LEMMA SuffixWork ==
  ASSUME NEW S, NEW w \in Seq(S), NEW n \in 1 .. Len(w)
  PROVE  /\ SubSeq(w, n + 1, Len(w)) \in Seq(S)
         /\ Nothing(w) => Nothing(SubSeq(w, n + 1, Len(w)))
         /\ n < Len(w) => \A cmd : Just(w, cmd) => Just(SubSeq(w, n + 1, Len(w)), cmd)
         /\ n = Len(w) => SubSeq(w, n + 1, Len(w)) = <<>>
<1> DEFINE v == SubSeq(w, n + 1, Len(w))
<1>1. /\ Len(w) \in Nat /\ DOMAIN w = 1 .. Len(w) /\ \A i \in 1 .. Len(w) : w[i] \in S
      /\ n \in Nat /\ n >= 1 /\ n <= Len(w)
      /\ w = <<>> <=> Len(w) = 0
  OBVIOUS
<1>2. /\ v \in Seq(S)
      /\ Len(v) = IF n + 1 <= Len(w) THEN Len(w) - (n + 1) + 1 ELSE 0
      /\ \A i \in 1 .. Len(w) - (n + 1) + 1 : v[i] = w[n + 1 + i - 1]
  <2>1. \A i \in n + 1 .. Len(w) : w[i] \in S
    BY <1>1
  <2> QED
    BY <2>1, SubSeqProperties, <1>1
<1> HIDE DEF v
<1> DEFINE m == Len(w)
           l == Len(v)
<1>3. /\ m \in Nat /\ l \in Nat /\ n \in Nat /\ n >= 1 /\ n <= m
      /\ l = IF n + 1 <= m THEN m - (n + 1) + 1 ELSE 0
      /\ \A i \in 1 .. m - (n + 1) + 1 : v[i] = w[n + 1 + i - 1]
      /\ (w = <<>> <=> m = 0) /\ (v = <<>> <=> l = 0)
  <2>1. v \in Seq(S)
    BY <1>2
  <2>2. l \in Nat /\ (v = <<>> <=> l = 0)
    BY <2>1
  <2> QED
    BY <1>1, <1>2, <2>2, Zenon
<1>4. /\ \A cmd : Just(w, cmd) <=> w # <<>> /\ w[m] = cmd /\ (m = 1 \/ w[m - 1] = "eof")
      /\ \A cmd : Just(v, cmd) <=> v # <<>> /\ v[l] = cmd /\ (l = 1 \/ v[l - 1] = "eof")
      /\ Nothing(w) <=> w = <<>> \/ w[m] = "eof"
      /\ Nothing(v) <=> v = <<>> \/ v[l] = "eof"
  <2>1. \A cmd : Just(w, cmd) <=> w # <<>> /\ w[m] = cmd /\ (m = 1 \/ w[m - 1] = "eof")
    BY Zenon DEF Just
  <2>2. \A cmd : Just(v, cmd) <=> v # <<>> /\ v[l] = cmd /\ (l = 1 \/ v[l - 1] = "eof")
    BY Zenon DEF Just
  <2> QED
    BY <2>1, <2>2, Zenon DEF Nothing
<1> HIDE DEF m, l
<1>5. l = m - n
  BY <1>3
<1>6. \A i \in 1 .. l : v[i] = w[n + i]
  <2> SUFFICES ASSUME NEW i \in 1 .. l PROVE v[i] = w[n + i]
    OBVIOUS
  <2>1. i \in 1 .. m - (n + 1) + 1 /\ n + 1 + i - 1 = n + i
    BY <1>3, <1>5
  <2> QED
    BY <1>3, <2>1
<1>7. l # 0 => v[l] = w[m]
  <2>1. l # 0 => l \in 1 .. l /\ n + l = m
    BY <1>3, <1>5
  <2> QED
    BY <1>6, <2>1
<1>8. l # 0 /\ l # 1 => v[l - 1] = w[m - 1] /\ m # 1
  <2>1. l # 0 /\ l # 1 => l - 1 \in 1 .. l /\ n + (l - 1) = m - 1 /\ m # 1
    BY <1>3, <1>5
  <2> QED
    BY <1>6, <2>1
<1>9. Nothing(w) => Nothing(v)
  BY <1>3, <1>4, <1>5, <1>7
<1>10. n < m => l # 0
  BY <1>3, <1>5
<1>11. ASSUME n < m, NEW cmd, Just(w, cmd) PROVE Just(v, cmd)
  BY <1>3, <1>4, <1>7, <1>8, <1>10, <1>11
<1>12. n = m => v = <<>>
  BY <1>3, <1>5
<1> QED
  BY <1>2, <1>9, <1>11, <1>12 DEF v, m

\* Nothing is before the only command of the daemon's own connection.
LEMMA CurrentWork ==
  ASSUME TypeOK, Current
  PROVE  /\ Nothing(work) => work = <<>>
         /\ \A cmd : Just(work, cmd) => Len(work) = 1 /\ work[1] = cmd
<1>1. work \in Seq(Commands \cup {"eof"})
  BY DEF TypeOK
<1>2. Len(work) \in Nat /\ (work = <<>> <=> Len(work) = 0) /\ DOMAIN work = 1 .. Len(work)
  BY <1>1
<1>3. \A i \in 1 .. Len(work) : work[i] # "eof"
  BY <1>2 DEF Current, Served
<1> QED
  BY <1>2, <1>3 DEF Nothing, Just

LEMMA Tokens ==
  /\ \A ok \in BOOLEAN : Line(ok) \in Token /\ Line(ok).kind = "line" /\ Cut # Line(ok)
  /\ Line(TRUE) # Line(FALSE)
  /\ Cut \in Token /\ Cut.kind = "cut"
  /\ \A d \in Devices : Fd(d) \in Token /\ Fd(d).kind = "fd" /\ Fd(d).dev = d
  /\ \A t \in Token : t.kind = "fd" => t.dev \in Devices
<1>1. \A ok \in BOOLEAN : Line(ok).kind = "line" /\ Line(ok).ok = ok
  BY DEF Line
<1>2. \A ok \in BOOLEAN : Line(ok) \in Token
  BY DEF Token
<1>3. Cut \in Token /\ Cut.kind = "cut"
  BY DEF Token, Cut
<1>4. \A d \in Devices : Fd(d) \in Token /\ Fd(d).kind = "fd" /\ Fd(d).dev = d
  BY DEF Token, Fd
<1>5. ASSUME NEW t \in Token, t.kind = "fd" PROVE t.dev \in Devices
  <2>1. t \in {Fd(d) : d \in Devices} \/ t \in {Line(TRUE), Line(FALSE), Cut}
    BY DEF Token
  <2> QED
    BY <1>1, <1>3, <1>4, <1>5, <2>1
<1>6. Line(TRUE) # Line(FALSE)
  BY <1>1
<1>7. \A ok \in BOOLEAN : Cut # Line(ok)
  BY <1>1, <1>3
<1> QED
  BY <1>1, <1>2, <1>3, <1>4, <1>5, <1>6, <1>7

LEMMA PairOfTwo ==
  ASSUME NEW S, NEW a \in S, NEW b \in S
  PROVE  <<a>> \o <<b>> = <<a, b>>
<1>1. <<a>> \in Seq(S) /\ Len(<<a>>) = 1 /\ <<a>>[1] = a
      /\ <<b>> \in Seq(S) /\ Len(<<b>>) = 1 /\ <<b>>[1] = b
  OBVIOUS
<1> DEFINE q == <<a>>
           r == <<b>>
           d == <<a, b>>
<1>2. d \in Seq(S) /\ Len(d) = 2 /\ d[1] = a /\ d[2] = b
  OBVIOUS
<1>3. q \in Seq(S) /\ Len(q) = 1 /\ q[1] = a /\ r \in Seq(S) /\ Len(r) = 1 /\ r[1] = b
  BY <1>1
<1> HIDE DEF q, r, d
<1> DEFINE c == q \o r
<1>4. /\ c \in Seq(S) /\ Len(c) = Len(q) + Len(r)
      /\ \A i \in 1 .. Len(q) + Len(r) : c[i] = IF i <= Len(q) THEN q[i] ELSE r[i - Len(q)]
  BY <1>3, ConcatProperties
<1> HIDE DEF c
<1>5. Len(c) = 2 /\ \A i \in 1 .. 2 : c[i] = IF i <= 1 THEN q[i] ELSE r[i - 1]
  BY <1>3, <1>4
<1>6. \A i \in 1 .. 2 : c[i] = d[i]
  BY <1>2, <1>3, <1>5
<1> QED
  BY <1>2, <1>4, <1>5, <1>6, SeqEqual DEF c, d, q, r

LEMMA ShortQueues ==
  ASSUME NEW a, NEW b
  PROVE  /\ <<a>>[1] = a /\ <<a, b>>[1] = a
         /\ Len(<<a>>) = 1
         /\ Head(<<a>>) = a /\ Head(<<a, b>>) = a
         /\ Tail(<<a>>) = <<>> /\ Tail(<<a, b>>) = <<b>>
         /\ <<a>> \o <<b>> = <<a, b>>
         /\ DOMAIN <<a>> = {1} /\ DOMAIN <<a, b>> = {1, 2} /\ <<a, b>>[2] = b
         /\ a \in Token /\ b \in Token => <<a>> \in Seq(Token) /\ <<a, b>> \in Seq(Token)
<1>1. /\ <<a>>[1] = a /\ <<a, b>>[1] = a /\ <<a, b>>[2] = b
      /\ Len(<<a>>) = 1 /\ DOMAIN <<a>> = {1} /\ DOMAIN <<a, b>> = {1, 2}
  OBVIOUS
<1>2. /\ Head(<<a>>) = a /\ Head(<<a, b>>) = a
      /\ Tail(<<a>>) = <<>> /\ Tail(<<a, b>>) = <<b>>
  OBVIOUS
<1>3. <<a>> \o <<b>> = <<a, b>>
  <2>1. a \in {a, b} /\ b \in {a, b}
    OBVIOUS
  <2> QED
    BY <2>1, PairOfTwo
<1>4. a \in Token /\ b \in Token => <<a>> \in Seq(Token) /\ <<a, b>> \in Seq(Token)
  OBVIOUS
<1> QED
  BY <1>1, <1>2, <1>3, <1>4

LEMMA LessIsWellFounded ==
  \E R : IsWellFoundedOn(R, Nat) /\ \A x, y \in Nat : <<y, x>> \in R <=> y < x
<1>1. \A x, y \in Nat : <<y, x>> \in OpToRel(<, Nat) <=> y < x
  BY DEF OpToRel
<1> WITNESS OpToRel(<, Nat)
<1> QED
  BY <1>1, NatLessThanWellFounded

LEMMA FirstLineFinds ==
  ASSUME NEW tokens \in Seq(Token), HasLine(tokens)
  PROVE  /\ FirstLine(tokens) \in DOMAIN tokens
         /\ tokens[FirstLine(tokens)].kind # "fd"
         /\ \A j \in 1 .. FirstLine(tokens) - 1 : tokens[j].kind = "fd"
<1> DEFINE I == {i \in DOMAIN tokens : tokens[i].kind # "fd"}
<1>1. I \subseteq Nat /\ I # {} /\ DOMAIN tokens = 1 .. Len(tokens) /\ Len(tokens) \in Nat
  BY DEF HasLine
<1>2. PICK R : IsWellFoundedOn(R, Nat) /\ \A x, y \in Nat : <<y, x>> \in R <=> y < x
  BY LessIsWellFounded
<1>3. PICK x \in I : \A y \in I : ~(<<y, x>> \in R)
  BY <1>1, <1>2, WFMin
<1>4. \A j \in 1 .. x - 1 : tokens[j].kind = "fd"
  <2> SUFFICES ASSUME NEW j \in 1 .. x - 1, tokens[j].kind # "fd" PROVE FALSE
    OBVIOUS
  <2>1. x \in Nat /\ j \in Nat /\ j < x /\ j \in I
    BY <1>1
  <2>2. <<j, x>> \in R
    BY <1>2, <2>1, Zenon
  <2> QED
    BY <1>3, <2>1, <2>2
<1> QED
  BY <1>3, <1>4 DEF FirstLine

-----------------------------------------------------------------------------
(* How commands end *)

LEMMA EndsFacts ==
  ASSUME NEW cmd, NEW ok \in BOOLEAN, NEW s, NEW b, Ends(cmd, ok, s, b)
  PROVE  /\ UNCHANGED <<broken, tun>>
         /\ conn' \in BOOLEAN
         /\ ~conn' <=> cmd = "ping" /\ ~ok
         /\ ~conn' => /\ pc' = "idle" /\ socket' = <<>> /\ buffer' = <<>>
                      /\ work' = IF broken THEN work ELSE Append(work, "eof")
         /\ conn' => work' = work /\ socket' = s /\ buffer' = b
         /\ cmd = "ping" => pc' = IF ok THEN "hand" ELSE "idle"
         /\ cmd = "undo" => pc' = "release"
         /\ cmd = "destroy" => pc' = after
         /\ cmd \in {"create", "add", "name"} => pc' = IF ok THEN "routes" ELSE "idle"
         /\ device' = IF cmd = "destroy" \/ (cmd \in {"name", "add"} /\ ~ok) THEN None ELSE device
         /\ leaked' = IF cmd = "name" /\ ~ok THEN leaked \cup {device} ELSE leaked
         /\ after' = IF cmd = "destroy" THEN "idle" ELSE after
<1>1. cmd \in {"create", "add", "name"} => cmd # "ping" /\ cmd # "undo" /\ cmd # "destroy"
  OBVIOUS
<1> QED
  BY <1>1 DEF Ends

(* A command's end keeps what does not depend on the answer, if what is    *)
(* left unread fits.                                                       *)
LEMMA EndsKeeps ==
  ASSUME IInv, NEW cmd, NEW ok \in BOOLEAN, NEW s, NEW b, Ends(cmd, ok, s, b),
         cmd \in Commands \cup {"name"}, conn,
         cmd = pc \/ (cmd \in Commands /\ pc = From[cmd] /\ ~ok),
         cmd = "create" => ~ok,
         s \in Seq(Token), b \in Seq(Token), late' \in BOOLEAN,
         Current \/ (s = <<>> /\ b = <<>>), Prompt' => Prompt
  PROVE  TypeOK' /\ Clean' /\ SameDevice'
<1> USE EndsFacts
<1>1. /\ pc \in Commands \cup {"name", "idle", "hand", "release", "device", "routes", "up"}
      /\ after \in {"idle", "device"} /\ broken \in BOOLEAN
      /\ device \in IF pc \in {"name", "routes", "add", "up", "release", "undo"} THEN Devices
                    ELSE IF pc \in {"device", "create"} THEN {None}
                    ELSE Devices \cup {None}
      /\ leaked \subseteq Devices /\ tun \subseteq Devices
      /\ work \in Seq(Commands \cup {"eof"}) /\ socket \in Seq(Token) /\ buffer \in Seq(Token)
  BY DEF IInv, TypeOK
<1>2. /\ From["ping"] = "idle" /\ From["undo"] = "release" /\ From["destroy"] = "release"
      /\ From["create"] = "device" /\ From["add"] = "routes"
  BY DEF From
<1>3. cmd \in {"ping", "undo", "destroy", "create", "add", "name"}
  BY DEF Commands
<1>4. pc' \in {"idle", "hand", "release", "device", "routes"}
  BY <1>1, <1>3
<1>5. device' \in IF pc' \in {"name", "routes", "add", "up", "release", "undo"} THEN Devices
                  ELSE IF pc' \in {"device", "create"} THEN {None}
                  ELSE Devices \cup {None}
  <2>1. CASE cmd = "ping"
    BY <1>1, <1>2, <2>1
  <2>2. CASE cmd = "undo"
    BY <1>1, <1>2, <2>2
  <2>3. CASE cmd = "destroy"
    BY <1>1, <1>2, <2>3
  <2>4. CASE cmd = "create"
    BY <1>1, <1>2, <2>4
  <2>5. CASE cmd = "add"
    BY <1>1, <1>2, <2>5
  <2>6. CASE cmd = "name"
    BY <1>1, <1>2, <2>6 DEF Commands
  <2> QED
    BY <1>3, <2>1, <2>2, <2>3, <2>4, <2>5, <2>6
<1>6. leaked' \subseteq Devices
  BY <1>1 DEF Commands
<1>7. work' \in Seq(Commands \cup {"eof"}) /\ socket' \in Seq(Token) /\ buffer' \in Seq(Token)
  <2>1. <<>> \in Seq(Token) /\ Append(work, "eof") \in Seq(Commands \cup {"eof"})
    BY <1>1
  <2> QED
    BY <1>1, <2>1
<1>8. TypeOK'
  <2>1. ~InFlight'
    BY <1>4 DEF InFlight, Commands
  <2> QED
    BY <1>1, <1>3, <1>4, <1>5, <1>6, <1>7, <2>1 DEF TypeOK
<1>9. Nothing(Append(work, "eof")) /\ "eof" \in {Append(work, "eof")[i] : i \in DOMAIN Append(work, "eof")}
  BY <1>1, AppendWork
<1>10. broken => work = <<>> /\ tun = {} /\ Current
  BY DEF IInv, Clean, Current, Served
<1>11. Clean'
  <2>1. CASE conn'
    BY <1>10, <2>1 DEF Clean, Current, Served
  <2>2. CASE ~conn' /\ broken
    BY <1>10, <2>2 DEF Clean, Current, Served, Nothing
  <2>3. CASE ~conn' /\ ~broken
    BY <1>9, <2>3 DEF Clean, Current, Served
  <2> QED
    BY <1>1, <2>1, <2>2, <2>3
<1> QED
  <2>1. \E d \in Devices \cup {None} : tun' \subseteq {d}
    BY DEF IInv, SameDevice
  <2>2. Prompt' /\ Current' => device' = None \/ tun' \subseteq {device'}
    <3>1. Prompt' => work' = work
      BY DEF Prompt
    <3>2. Prompt' /\ Current' => Prompt /\ Current
      BY <3>1 DEF Current, Served
    <3> QED
      BY <3>2 DEF IInv, SameDevice
  <2> QED
    BY <1>8, <1>11, <2>1, <2>2 DEF SameDevice

-----------------------------------------------------------------------------
(* The daemon's steps *)

LEMMA InitIInv == Init => IInv
<1> SUFFICES ASSUME Init PROVE IInv
  OBVIOUS
<1>1. <<>> \in Seq(Token) /\ <<>> \in Seq(Commands \cup {"eof"})
  OBVIOUS
<1>2. TypeOK
  BY <1>1 DEF Init, TypeOK, InFlight, Commands
<1>3. Agreement /\ Clean /\ SameDevice
  BY DEF Init, Agreement, Clean, SameDevice, Prompt, Nothing, Current, Served
<1> QED
  BY <1>2, <1>3 DEF IInv

\* Between commands nothing is under way.
LEMMA QuietStep ==
  ASSUME IInv, UNCHANGED <<conn, late, leaked, broken, work, answers, tun>>,
         pc \in {"hand", "up", "routes"} \/ (pc = "idle" /\ device # None),
         pc' \in {"idle", "up", "device", "release"}, after' \in {"idle", "device"},
         device' = device \/ device' = None,
         pc' \in {"up", "release"} => device' \in Devices,
         pc' = "device" => device' = None
  PROVE  IInv'
<1>1. UNCHANGED <<conn, late, leaked, broken, work, socket, buffer, tun>>
  BY DEF answers
<1>2. TypeOK'
  BY <1>1 DEF IInv, TypeOK, InFlight, Commands
<1>3. Prompt' = Prompt /\ Current' = Current /\ Nothing(work)' = Nothing(work)
  BY <1>1 DEF Prompt, Current, Served, Nothing
<1>4. Agreement'
  <2>1. Prompt => buffer = <<>> /\ Nothing(work) /\ socket = <<>>
    BY DEF IInv, Agreement
  <2> QED
    BY <1>1, <1>3, <2>1 DEF Agreement
<1>5. Clean' /\ SameDevice'
  BY <1>1, <1>3 DEF IInv, Clean, SameDevice
<1> QED
  BY <1>2, <1>4, <1>5 DEF IInv

LEMMA BetweenStep ==
  ASSUME IInv, Handshake \/ Configured \/ SessionDies \/ Release
  PROVE  IInv'
<1>1. UNCHANGED <<conn, late, leaked, broken, work, answers, tun>>
  BY DEF Handshake, Configured, SessionDies, Release, Goto
<1>2. /\ device \in IF pc \in {"name", "routes", "add", "up", "release", "undo"} THEN Devices
                    ELSE IF pc \in {"device", "create"} THEN {None}
                    ELSE Devices \cup {None}
      /\ after \in {"idle", "device"}
  BY DEF IInv, TypeOK
<1>3. CASE Handshake
  <2>1. pc = "hand" /\ device' = device /\ after' \in {"idle", "device"}
    BY <1>2, <1>3 DEF Handshake
  <2>2. /\ pc' \in {"idle", "up", "device", "release"}
        /\ pc' \in {"up", "release"} => device # None
        /\ pc' = "device" => device = None
    BY <1>3 DEF Handshake, Goto
  <2> QED
    BY <1>1, <1>2, <2>1, <2>2, QuietStep
<1>4. CASE Configured
  BY <1>1, <1>2, <1>4, QuietStep DEF Configured, Goto
<1>5. CASE SessionDies
  BY <1>1, <1>2, <1>5, QuietStep DEF SessionDies, Goto
<1>6. CASE Release
  <2>1. /\ pc \in {"up", "idle"} /\ device # None
        /\ pc' = "release" \/ (pc' = "idle" /\ device' = None)
        /\ pc' = "release" => device' = device
        /\ after' \in {"idle", "device"}
    BY <1>2, <1>6 DEF Release, Goto
  <2> QED
    BY <1>1, <1>2, <2>1, QuietStep
<1> QED
  BY <1>3, <1>4, <1>5, <1>6

LEMMA EnsureHelperStep ==
  ASSUME IInv, EnsureHelper
  PROVE  IInv'
<1>1. /\ pc = "idle" /\ ~conn /\ pc' = "hand" /\ conn' = TRUE /\ late' = FALSE /\ broken' = FALSE
      /\ socket' = <<>> /\ buffer' = <<>>
      /\ UNCHANGED <<after, device, leaked, work, tun>>
  BY DEF EnsureHelper
<1>2. <<>> \in Seq(Token)
  OBVIOUS
<1>3. TypeOK'
  BY <1>1, <1>2 DEF IInv, TypeOK, InFlight, Commands
<1>4. Nothing(work)' /\ Current' = Current
  BY <1>1 DEF IInv, Clean, Nothing, Current, Served
<1>5. Agreement' /\ Clean' /\ SameDevice'
  BY <1>1, <1>4 DEF IInv, Agreement, Clean, SameDevice
<1> QED
  BY <1>3, <1>5 DEF IInv

LEMMA AskStep ==
  ASSUME IInv, NEW cmd \in Commands, Ask(cmd)
  PROVE  IInv'
<1>1. /\ pc = From[cmd] /\ conn /\ ~broken
      /\ work' = Append(work, cmd) /\ pc' = cmd
      /\ UNCHANGED <<after, conn, late, device, leaked, broken, socket, buffer, tun>>
  BY DEF Ask, answers
<1>2. cmd \in {"ping", "undo", "destroy", "create", "add"} /\ cmd # "eof"
  BY DEF Commands
<1>3. /\ From["ping"] = "idle" /\ From["undo"] = "release" /\ From["destroy"] = "release"
      /\ From["create"] = "device" /\ From["add"] = "routes"
  BY DEF From
<1>4. work \in Seq(Commands \cup {"eof"})
  BY DEF IInv, TypeOK
<1>5. /\ work' \in Seq(Commands \cup {"eof"})
      /\ Nothing(work) => Just(work', cmd)
      /\ "eof" \in {work'[i] : i \in DOMAIN work'} <=> "eof" \in {work[i] : i \in DOMAIN work}
  BY <1>1, <1>2, <1>4, AppendWork
<1>6. Current' = Current
  BY <1>5 DEF Current, Served
<1>7. TypeOK'
  BY <1>1, <1>2, <1>3, <1>5 DEF IInv, TypeOK, InFlight
<1>8. Prompt' = Prompt
  BY <1>1 DEF Prompt
<1>9. Agreement'
  <2>1. Prompt => /\ buffer = <<>> /\ Nothing(work)
                  /\ socket = <<>> \/ (cmd = "ping" /\ socket = <<Cut>>)
    BY <1>1, <1>2, <1>3 DEF IInv, Agreement
  <2> QED
    BY <1>1, <1>2, <1>5, <1>8, <2>1 DEF Agreement
<1>10. Clean' /\ SameDevice'
  BY <1>1, <1>6, <1>8 DEF IInv, Clean, SameDevice
<1> QED
  BY <1>7, <1>9, <1>10 DEF IInv

LEMMA AskFailsStep ==
  ASSUME IInv, NEW cmd \in Commands, AskFails(cmd)
  PROVE  IInv'
<1>1. pc = From[cmd] /\ conn /\ broken /\ Ends(cmd, FALSE, socket, buffer) /\ late' = late
  BY DEF AskFails
<1>2. ~Prompt'
  BY <1>1, EndsFacts DEF Prompt
<1>3. /\ socket \in Seq(Token) /\ buffer \in Seq(Token) /\ late \in BOOLEAN
      /\ Current \/ (socket = <<>> /\ buffer = <<>>)
  BY DEF IInv, TypeOK, Clean
<1>4. TypeOK' /\ Clean' /\ SameDevice'
  BY <1>1, <1>2, <1>3, EndsKeeps
<1> QED
  BY <1>2, <1>4 DEF IInv, Agreement

\* A token is there only when the helper serves the daemon's connection.
LEMMA ReadsCurrent ==
  ASSUME IInv, socket # <<>> \/ buffer # <<>>
  PROVE  Current
  BY DEF IInv, Clean

LEMMA ReadLineStep ==
  ASSUME IInv, NEW n \in 1 .. Len(buffer \o socket), ReadLine(n)
  PROVE  IInv'
<1> DEFINE tokens == buffer \o socket
           first == FirstLine(tokens)
           s == SubSeq(tokens, n + 1, Len(tokens))
           b == SubSeq(tokens, first + 1, n)
           ok == tokens[1] = Line(TRUE)
<1>1. /\ pc \in {"ping", "undo", "destroy", "add", "name"} /\ InFlight
      /\ HasLine(tokens) /\ Ends(pc, ok, s, b) /\ late' = late
  BY DEF ReadLine, InFlight, Commands
<1>2. buffer \in Seq(Token) /\ socket \in Seq(Token) /\ conn /\ late \in BOOLEAN
      /\ after \in {"idle", "device"}
  BY <1>1 DEF IInv, TypeOK
<1>3. tokens \in Seq(Token)
  BY <1>2
<1>4. /\ Len(tokens) \in Nat /\ DOMAIN tokens = 1 .. Len(tokens)
      /\ \A i \in DOMAIN tokens : tokens[i] \in Token
  BY <1>3
<1>5. socket # <<>> \/ buffer # <<>>
  <2> SUFFICES ASSUME socket = <<>>, buffer = <<>> PROVE FALSE
    OBVIOUS
  <2>1. DOMAIN tokens = {}
    OBVIOUS
  <2> QED
    BY <1>1, <2>1 DEF HasLine
<1>6. buffer = <<>> => tokens = socket
  BY <1>2
<1> HIDE DEF tokens
<1>7. first \in DOMAIN tokens
  BY <1>1, <1>3, FirstLineFinds
<1> HIDE DEF first
<1>8. n \in 1 .. Len(tokens)
  BY DEF tokens
<1>9. s \in Seq(Token) /\ b \in Seq(Token)
  <2>1. \A i \in n + 1 .. Len(tokens) : tokens[i] \in Token
    BY <1>4, <1>8
  <2>2. \A i \in first + 1 .. n : tokens[i] \in Token
    BY <1>4, <1>7, <1>8
  <2>3. n + 1 \in Int /\ Len(tokens) \in Int /\ first + 1 \in Int /\ n \in Int
    BY <1>4, <1>7, <1>8
  <2> QED
    BY <2>1, <2>2, <2>3, SubSeqProperties
<1>10. Len(tokens) = 1 => s = <<>> /\ b = <<>>
  <2> SUFFICES ASSUME Len(tokens) = 1 PROVE s = <<>> /\ b = <<>>
    OBVIOUS
  <2>1. n = 1 /\ first = 1
    BY <1>4, <1>7, <1>8
  <2> QED
    BY <2>1, SubSeqEmpty
<1> HIDE DEF s, b
<1>11. ok \in BOOLEAN /\ (ok => tokens[1] = Line(TRUE))
  OBVIOUS
<1> HIDE DEF ok
<1>12. Prompt' => Prompt
  BY <1>1, <1>2, <1>11, EndsFacts DEF Prompt
<1>13. Current
  BY <1>5, ReadsCurrent
<1>14. TypeOK' /\ Clean' /\ SameDevice'
  BY <1>1, <1>2, <1>9, <1>11, <1>12, <1>13, EndsKeeps DEF InFlight
<1>15. Agreement'
  <2> SUFFICES ASSUME Prompt' PROVE Agreement'
    BY DEF Agreement
  <2>1. Prompt /\ buffer = <<>> /\ tokens = socket /\ socket # <<>>
    BY <1>5, <1>6, <1>12 DEF IInv, Agreement
  <2>2. conn' /\ (pc = "ping" => ok)
    BY <1>1, <1>11, EndsFacts DEF Prompt
  <2>3. work = <<>> /\ \E x \in BOOLEAN : socket = <<Line(x)>>
    <3>1. CASE pc = "ping"
      <4>1. socket \in {<<Cut>>, <<Line(TRUE)>>, <<Cut, Line(TRUE)>>}
        BY <2>1, <3>1 DEF IInv, Agreement
      <4>2. socket[1] # Cut
        BY <1>11, <2>1, <2>2, <3>1, Tokens
      <4>3. socket = <<Line(TRUE)>>
        <5>1. <<Cut>>[1] = Cut /\ <<Cut, Line(TRUE)>>[1] = Cut
          BY ShortQueues
        <5> QED
          BY <4>1, <4>2, <5>1
      <4>4. socket # <<>> /\ socket # <<Cut>>
        BY <4>2, <4>3
      <4> QED
        BY <2>1, <3>1, <4>3, <4>4 DEF IInv, Agreement
    <3>2. CASE pc \in {"undo", "destroy", "add"}
      BY <2>1, <3>2 DEF IInv, Agreement
    <3>3. CASE pc = "name"
      BY <2>1, <3>3 DEF IInv, Agreement
    <3> QED
      BY <1>1, <3>1, <3>2, <3>3
  <2>4. Len(tokens) = 1
    BY <2>1, <2>3, ShortQueues
  <2>5. work' = <<>> /\ socket' = <<>> /\ buffer' = <<>>
    BY <1>1, <1>10, <1>11, <2>2, <2>3, <2>4, EndsFacts
  <2>6. pc' \in {"hand", "release", "device", "routes", "idle"}
    BY <1>1, <1>2, <1>11, EndsFacts
  <2> QED
    BY <2>5, <2>6 DEF Agreement, Nothing
<1> QED
  BY <1>14, <1>15 DEF IInv

LEMMA RecvFdStep ==
  ASSUME IInv, RecvFd
  PROVE  IInv'
<1>1. pc = "create" /\ socket # <<>> /\ late' = late
  BY DEF RecvFd
<1>2. /\ conn /\ device = None /\ late \in BOOLEAN
      /\ socket \in Seq(Token) /\ buffer \in Seq(Token)
  BY <1>1 DEF IInv, TypeOK, InFlight, Commands
<1>3. Head(socket) \in Token /\ Tail(socket) \in Seq(Token) /\ Current
  BY <1>1, <1>2, ReadsCurrent
<1>4. Prompt =>
        /\ buffer = <<>> /\ work = <<>>
        /\ \/ socket = <<Line(FALSE)>>
           \/ \E d \in Devices : socket = <<Fd(d), Line(TRUE)>> /\ tun = {d}
  BY <1>1 DEF IInv, Agreement
<1>5. CASE /\ Head(socket).kind = "fd" /\ device' = Head(socket).dev /\ pc' = "name"
           /\ socket' = Tail(socket)
           /\ UNCHANGED <<after, conn, leaked, broken, work, buffer, tun>>
  <2>1. device' \in Devices
    BY <1>3, <1>5, Tokens
  <2>2. TypeOK'
    BY <1>1, <1>2, <1>3, <1>5, <2>1 DEF IInv, TypeOK, InFlight, Commands
  <2>3. Current' /\ Prompt' = Prompt
    BY <1>1, <1>3, <1>5 DEF Current, Served, Prompt
  <2>4. Prompt => \E d \in Devices : socket = <<Fd(d), Line(TRUE)>> /\ tun = {d}
    <3>1. Head(<<Line(FALSE)>>).kind # "fd"
      BY ShortQueues, Tokens
    <3> QED
      BY <1>4, <1>5, <3>1
  <2>5. Prompt => socket' = <<Line(TRUE)>> /\ tun = {device'}
    <3> SUFFICES ASSUME NEW d \in Devices, socket = <<Fd(d), Line(TRUE)>>, tun = {d}
                 PROVE  socket' = <<Line(TRUE)>> /\ tun = {device'}
      BY <2>4
    <3>1. Head(socket) = Fd(d) /\ Tail(socket) = <<Line(TRUE)>>
      BY ShortQueues
    <3> QED
      BY <1>5, <3>1, Tokens
  <2>6. Agreement'
    BY <1>4, <1>5, <2>3, <2>5 DEF Agreement
  <2>7. Clean' /\ SameDevice'
    BY <1>2, <1>5, <2>3, <2>5 DEF IInv, Clean, SameDevice
  <2> QED
    BY <2>2, <2>6, <2>7 DEF IInv
<1>6. CASE /\ Head(socket).kind # "fd"
           /\ Ends("create", FALSE, <<Cut>> \o Tail(socket), buffer)
  <2> DEFINE s == <<Cut>> \o Tail(socket)
  <2>1. s \in Seq(Token)
    BY <1>3, Tokens
  <2>2. socket = <<Line(FALSE)>> => s = <<Cut>>
    OBVIOUS
  <2> HIDE DEF s
  <2>3. Ends("create", FALSE, s, buffer)
    BY <1>6 DEF s
  <2>4. /\ UNCHANGED <<broken, tun>> /\ conn' /\ pc' = "idle" /\ device' = device
        /\ work' = work /\ socket' = s /\ buffer' = buffer
    <3> DEFINE cmd == "create"
    <3>1. cmd # "ping" /\ cmd # "undo" /\ cmd # "destroy" /\ cmd # "add" /\ cmd # "name"
      OBVIOUS
    <3>2. Ends(cmd, FALSE, s, buffer) /\ cmd \in {"create", "add", "name"}
      BY <2>3
    <3> HIDE DEF cmd
    <3> QED
      BY <3>1, <3>2, EndsFacts
  <2>5. Prompt' = Prompt
    BY <1>1, <1>2, <2>4 DEF Prompt
  <2>6. TypeOK' /\ Clean' /\ SameDevice'
    BY <1>1, <1>2, <1>3, <2>1, <2>3, <2>5, EndsKeeps DEF Commands
  <2>7. Prompt => socket = <<Line(FALSE)>>
    <3> SUFFICES ASSUME NEW d \in Devices, socket = <<Fd(d), Line(TRUE)>> PROVE FALSE
      BY <1>4
    <3>1. Head(socket) = Fd(d)
      BY ShortQueues
    <3> QED
      BY <1>6, <3>1, Tokens
  <2>8. Agreement'
    BY <1>2, <1>4, <2>2, <2>4, <2>5, <2>7 DEF Agreement, Nothing
  <2> QED
    BY <2>6, <2>8 DEF IInv
<1> QED
  BY <1>5, <1>6 DEF RecvFd

LEMMA ReadFailsStep ==
  ASSUME IInv, ReadFails
  PROVE  IInv'
<1>1. InFlight /\ pc \in Commands \cup {"name"} /\ late' = (conn' /\ (late \/ ~broken))
  BY DEF ReadFails, InFlight
<1>2. /\ conn /\ late \in BOOLEAN /\ broken \in BOOLEAN
      /\ socket \in Seq(Token) /\ buffer \in Seq(Token)
      /\ Current \/ (socket = <<>> /\ buffer = <<>>)
  BY <1>1 DEF IInv, TypeOK, Clean
<1>3. \E s, b \in Seq(Token) :
         Ends(pc, FALSE, s, b) /\ (Current \/ (s = <<>> /\ b = <<>>))
  <2>1. <<>> \in Seq(Token)
    OBVIOUS
  <2> QED
    BY <1>2, <2>1 DEF ReadFails
<1>4. PICK s \in Seq(Token), b \in Seq(Token) :
         Ends(pc, FALSE, s, b) /\ (Current \/ (s = <<>> /\ b = <<>>))
  BY <1>3
<1>5. conn' \in BOOLEAN /\ broken' = broken
  BY <1>4, EndsFacts
<1>6. ~Prompt' /\ late' \in BOOLEAN
  BY <1>1, <1>2, <1>5 DEF Prompt
<1>7. TypeOK' /\ Clean' /\ SameDevice'
  BY <1>1, <1>2, <1>4, <1>6, EndsKeeps
<1> QED
  BY <1>6, <1>7 DEF IInv, Agreement

-----------------------------------------------------------------------------
(* The helper's steps *)

LEMMA TailWork ==
  ASSUME NEW S, NEW w \in Seq(S), w # <<>>
  PROVE  /\ Tail(w) \in Seq(S) /\ Head(w) = w[1] /\ Len(w) \in Nat /\ Len(w) >= 1
         /\ Nothing(w) => Nothing(Tail(w))
         /\ Len(w) # 1 => \A cmd : Just(w, cmd) => Just(Tail(w), cmd)
         /\ Len(w) = 1 => Tail(w) = <<>>
         /\ "eof" \in {w[i] : i \in DOMAIN w} <=>
              w[1] = "eof" \/ "eof" \in {Tail(w)[i] : i \in DOMAIN Tail(w)}
<1>1. Tail(w) = SubSeq(w, 2, Len(w))
  BY TailIsSubSeq
<1>2. Len(w) \in Nat /\ Len(w) >= 1 /\ Head(w) = w[1]
  OBVIOUS
<1>3. 1 \in 1 .. Len(w) /\ 1 + 1 = 2
  BY <1>2
<1>4. /\ Tail(w) \in Seq(S)
      /\ Nothing(w) => Nothing(Tail(w))
      /\ 1 < Len(w) => \A cmd : Just(w, cmd) => Just(Tail(w), cmd)
      /\ 1 = Len(w) => Tail(w) = <<>>
  BY <1>1, <1>3, SuffixWork
<1> DEFINE t == Tail(w)
<1>5. /\ DOMAIN w = 1 .. Len(w) /\ DOMAIN t = 1 .. Len(w) - 1
      /\ \A i \in 1 .. Len(w) - 1 : t[i] = w[i + 1]
  OBVIOUS
<1> HIDE DEF t
<1>6. ASSUME NEW i \in DOMAIN w, i # 1 PROVE i - 1 \in DOMAIN t /\ t[i - 1] = w[i]
  BY <1>2, <1>5, <1>6
<1>7. \A i \in DOMAIN t : i + 1 \in DOMAIN w /\ t[i] = w[i + 1]
  BY <1>2, <1>5
<1>8. "eof" \in {w[i] : i \in DOMAIN w} <=> w[1] = "eof" \/ "eof" \in {t[i] : i \in DOMAIN t}
  <2>1. 1 \in DOMAIN w
    BY <1>2, <1>5
  <2> QED
    BY <2>1, <1>6, <1>7
<1>9. Len(w) # 1 => 1 < Len(w)
  <2> DEFINE m == Len(w)
  <2>1. m \in Nat /\ m >= 1
    BY <1>2
  <2> HIDE DEF m
  <2>2. m # 1 => 1 < m
    BY <2>1
  <2> QED
    BY <2>2 DEF m
<1> QED
  BY <1>2, <1>4, <1>8, <1>9, Zenon DEF t

\* What the helper has open and answers after each command.
LEMMA ServeStep ==
  ASSUME IInv, NEW cmd \in Commands \cup {"eof"}, NEW fds \in SUBSET Devices,
         NEW answer \in Seq(Token), Serve(cmd, fds, answer),
         cmd = "ping" => answer = <<Line(TRUE)>> /\ fds = tun,
         cmd = "destroy" => answer = <<Line(TRUE)>> /\ fds = {},
         cmd \in {"undo", "add"} => fds = tun /\ answer \in {<<Line(TRUE)>>, <<Line(FALSE)>>},
         cmd = "create" =>
           \/ fds = {} /\ answer = <<Line(FALSE)>>
           \/ \E d \in Devices : fds = {d} /\ answer = <<Fd(d), Line(TRUE)>> /\ Current,
         cmd = "eof" => fds = {}
  PROVE  IInv'
<1>1. /\ work # <<>> /\ Head(work) = cmd /\ work' = Tail(work) /\ tun' = fds
      /\ socket' = IF Current THEN socket \o answer ELSE socket
      /\ UNCHANGED <<pc, after, conn, late, device, leaked, broken, buffer>>
  BY DEF Serve, daemon
<1>2. /\ work \in Seq(Commands \cup {"eof"}) /\ socket \in Seq(Token) /\ buffer \in Seq(Token)
      /\ device \in Devices \cup {None} /\ (pc = "create" => device = None)
  BY DEF IInv, TypeOK
<1>3. /\ work' \in Seq(Commands \cup {"eof"}) /\ cmd = work[1]
      /\ Len(work) \in Nat /\ Len(work) >= 1
      /\ Nothing(work) => Nothing(work')
      /\ Len(work) # 1 => \A c : Just(work, c) => Just(work', c)
      /\ Len(work) = 1 => work' = <<>>
      /\ ~Current <=> cmd = "eof" \/ ~Current'
  BY <1>1, <1>2, TailWork DEF Current, Served
<1>4. TypeOK'
  BY <1>1, <1>2, <1>3 DEF IInv, TypeOK, InFlight
<1>5. Current => ~Nothing(work) /\ \A c : Just(work, c) => c = cmd /\ Len(work) = 1
  BY <1>1, <1>3, CurrentWork DEF IInv
<1>6. Prompt' = Prompt
  BY <1>1 DEF Prompt
<1>7. ASSUME Prompt, Current
      PROVE  /\ pc = cmd /\ pc \in {"ping", "undo", "destroy", "add", "create"}
             /\ work' = <<>> /\ buffer = <<>> /\ socket' = socket \o answer
             /\ pc # "ping" => socket = <<>>
             /\ pc = "ping" => socket \in {<<>>, <<Cut>>}
  <2>1. pc \in {"ping", "undo", "destroy", "add", "create"} /\ Just(work, pc)
    <3>1. /\ pc \notin {"hand", "release", "device", "routes", "up", "idle"}
          /\ pc # "name"
      BY <1>1, <1>5, <1>7 DEF IInv, Agreement
    <3>2. pc \in {"ping", "undo", "destroy", "add", "create"}
      BY <3>1 DEF IInv, TypeOK, Commands
    <3> QED
      BY <1>1, <1>7, <3>2 DEF IInv, Agreement
  <2> QED
    BY <1>1, <1>3, <1>5, <1>7, <2>1 DEF IInv, Agreement
<1>8. ASSUME Prompt, ~Current
      PROVE  socket' = <<>> /\ buffer = <<>> /\ (Just(work, pc) /\ pc # "eof" => Just(work', pc))
  <2>1. Len(work) = 1 => cmd = "eof"
    <3>1. Len(work) = 1 => Current' \/ cmd = "eof"
      BY <1>3 DEF Current, Served
    <3> QED
      BY <1>3, <1>8, <3>1
  <2>2. Just(work, pc) /\ Len(work) = 1 => pc = cmd
    BY <1>3 DEF Just
  <2> QED
    BY <1>1, <1>3, <1>8, <2>1, <2>2 DEF IInv, Clean
<1>9. Agreement'
  <2>1. CASE Prompt /\ Current
    <3>1. CASE pc = "create"
      <4>1. socket' = answer
        BY <1>2, <1>7, <2>1, <3>1
      <4> QED
        BY <1>1, <1>7, <2>1, <3>1, <4>1 DEF Agreement
    <3>2. CASE pc \in {"undo", "add", "destroy"}
      <4>1. socket' = <<>> \o answer
        BY <1>7, <2>1, <3>2
      <4>2. socket' = answer
        BY <4>1
      <4> QED
        BY <1>1, <1>7, <2>1, <3>2, <4>2 DEF Agreement
    <3>3. CASE pc = "ping"
      <4>1. answer = <<Line(TRUE)>> /\ socket' = socket \o answer /\ socket \in {<<>>, <<Cut>>}
        BY <1>7, <2>1, <3>3
      <4>2. <<>> \o <<Line(TRUE)>> = <<Line(TRUE)>> /\ <<Cut>> \o <<Line(TRUE)>> = <<Cut, Line(TRUE)>>
        <5>1. <<Line(TRUE)>> \in Seq(Token)
          BY Tokens, ShortQueues
        <5>2. <<>> \o <<Line(TRUE)>> = <<Line(TRUE)>>
          BY <5>1
        <5> QED
          BY <5>2, ShortQueues
      <4>3. socket' \in {<<Line(TRUE)>>, <<Cut, Line(TRUE)>>}
        BY <4>1, <4>2
      <4> QED
        BY <1>1, <1>7, <2>1, <3>3, <4>3 DEF Agreement
    <3> QED
      BY <1>7, <2>1, <3>1, <3>2, <3>3
  <2>2. CASE Prompt /\ ~Current
    <3>1. pc # "eof" /\ socket = <<>>
      BY <2>2 DEF IInv, TypeOK, Clean, Commands
    <3> QED
      BY <1>1, <1>3, <1>6, <1>8, <2>2, <3>1 DEF IInv, Agreement
  <2>3. CASE ~Prompt
    BY <1>6, <2>3 DEF Agreement
  <2> QED
    BY <2>1, <2>2, <2>3
<1>10. Clean'
  <2>1. ~conn => ~Current
    BY <1>5 DEF IInv, Clean
  <2>2. ~Current' => ~Current
    BY <1>3
  <2>3. ~conn /\ Current' => fds = {}
    BY <1>3, <2>1
  <2> QED
    BY <1>1, <1>3, <2>1, <2>2, <2>3 DEF IInv, Clean
<1>11. SameDevice'
  <2>1. cmd \in {"ping", "undo", "destroy", "create", "add", "eof"}
    BY DEF Commands
  <2>2. fds = tun \/ fds = {} \/ \E d \in Devices : fds = {d}
    BY <2>1
  <2>3. \E d \in Devices \cup {None} : fds \subseteq {d}
    <3>1. \E d \in Devices \cup {None} : tun \subseteq {d}
      BY DEF IInv, SameDevice
    <3> QED
      BY <2>2, <3>1
  <2>4. ASSUME Prompt, Current' PROVE device = None \/ fds \subseteq {device}
    <3>1. CASE cmd = "eof"
      BY <3>1
    <3>2. CASE cmd = "create"
      <4>1. Current
        BY <1>3, <2>4, <3>2
      <4> QED
        BY <1>2, <1>7, <2>4, <3>2, <4>1
    <3>3. CASE cmd \in {"ping", "undo", "destroy", "add"}
      <4>1. Current /\ (fds = tun \/ fds = {})
        BY <1>3, <2>4, <3>3
      <4> QED
        BY <2>4, <4>1 DEF IInv, SameDevice
    <3> QED
      BY <2>1, <3>1, <3>2, <3>3
  <2> QED
    BY <1>1, <1>6, <2>3, <2>4 DEF SameDevice
<1> QED
  BY <1>4, <1>9, <1>10, <1>11 DEF IInv

LEMMA HelperStep ==
  ASSUME IInv, ServeCreate \/ ServeOther
  PROVE  IInv'
<1>1. /\ "ping" \in Commands /\ "undo" \in Commands /\ "destroy" \in Commands
      /\ "create" \in Commands /\ "add" \in Commands /\ tun \subseteq Devices
  BY DEF Commands, IInv, TypeOK
<1>2. /\ \A ok \in BOOLEAN : <<Line(ok)>> \in Seq(Token)
      /\ \A d \in Devices : <<Fd(d), Line(TRUE)>> \in Seq(Token)
      /\ <<>> \in Seq(Token)
  <2>1. <<>> \in Seq(Token)
    OBVIOUS
  <2> QED
    BY <2>1, Tokens, ShortQueues
<1>3. CASE Serve("create", {}, <<Line(FALSE)>>)
  BY <1>1, <1>2, <1>3, ServeStep
<1>4. ASSUME NEW d \in Devices, Current, Serve("create", {d}, <<Fd(d), Line(TRUE)>>)
      PROVE  IInv'
  <2> DEFINE fds == {d}
             answer == <<Fd(d), Line(TRUE)>>
  <2>1. /\ fds \in SUBSET Devices /\ answer \in Seq(Token) /\ Serve("create", fds, answer)
        /\ \E e \in Devices : fds = {e} /\ answer = <<Fd(e), Line(TRUE)>> /\ Current
    BY <1>2, <1>4
  <2> HIDE DEF fds, answer
  <2> QED
    BY <1>1, <2>1, ServeStep
<1>5. CASE Serve("ping", tun, <<Line(TRUE)>>)
  BY <1>1, <1>2, <1>5, ServeStep
<1>6. CASE Serve("destroy", {}, <<Line(TRUE)>>)
  BY <1>1, <1>2, <1>6, ServeStep
<1>7. ASSUME NEW cmd \in {"undo", "add"}, NEW ok \in BOOLEAN, Serve(cmd, tun, <<Line(ok)>>)
      PROVE  IInv'
  BY <1>1, <1>2, <1>7, ServeStep
<1>8. CASE Serve("eof", {}, <<>>)
  BY <1>1, <1>2, <1>8, ServeStep
<1> QED
  BY <1>3, <1>4, <1>5, <1>6, <1>7, <1>8 DEF ServeCreate, ServeOther

LEMMA CrashStep ==
  ASSUME IInv, Crash
  PROVE  IInv'
<1>1. /\ tun' = {}
      /\ UNCHANGED <<pc, after, conn, late, device, leaked, buffer>>
      /\ work \in Seq(Commands \cup {"eof"}) /\ socket \in Seq(Token)
  BY DEF Crash, daemon, IInv, TypeOK
<1>2. CASE Current
  <2>1. conn /\ broken' = TRUE /\ work' = <<>>
    BY <1>2 DEF Crash
  <2>2. socket' \in Seq(Token)
    <3>1. socket' = socket \/ \E d \in Devices : socket' = Append(socket, Fd(d))
      BY <1>2 DEF Crash
    <3> QED
      BY <1>1, <3>1, Tokens
  <2>3. work' \in Seq(Commands \cup {"eof"})
    BY <2>1
  <2>4. TypeOK'
    BY <1>1, <2>1, <2>2, <2>3 DEF IInv, TypeOK, InFlight
  <2>5. ~Prompt' /\ Current'
    BY <2>1 DEF Prompt, Current, Served
  <2> QED
    BY <1>1, <2>1, <2>4, <2>5 DEF IInv, Agreement, Clean, SameDevice
<1>3. CASE ~Current
  <2>1. PICK i \in DOMAIN work :
           work[i] = "eof" /\ work' = SubSeq(work, i + 1, Len(work))
    BY <1>3 DEF Crash
  <2>2. UNCHANGED <<broken, socket>>
    BY <1>3 DEF Crash
  <2>3. /\ i \in 1 .. Len(work) /\ Len(work) \in Nat /\ work # <<>>
    BY <1>1, <2>1
  <2>4. /\ work' \in Seq(Commands \cup {"eof"})
        /\ Nothing(work) => Nothing(work')
        /\ i < Len(work) => \A cmd : Just(work, cmd) => Just(work', cmd)
    BY <1>1, <2>1, <2>3, SuffixWork
  <2>5. pc # "eof" /\ (Just(work, pc) => Just(work', pc))
    <3>1. pc # "eof"
      BY DEF IInv, TypeOK, Commands
    <3>2. Just(work, pc) => i # Len(work)
      BY <2>1, <3>1 DEF Just
    <3>3. Just(work, pc) => i < Len(work)
      BY <2>3, <3>2
    <3> QED
      BY <2>4, <3>1, <3>3
  <2>6. TypeOK'
    BY <1>1, <2>2, <2>4 DEF IInv, TypeOK, InFlight
  <2>7. Prompt' = Prompt /\ socket = <<>> /\ buffer = <<>>
    BY <1>1, <1>3, <2>2 DEF IInv, Prompt, Clean
  <2>8. Agreement'
    BY <1>1, <2>2, <2>3, <2>4, <2>5, <2>7 DEF IInv, Agreement
  <2>9. Clean' /\ SameDevice'
    BY <1>1, <2>2, <2>3, <2>4, <2>7 DEF IInv, Clean, SameDevice
  <2> QED
    BY <2>6, <2>8, <2>9 DEF IInv
<1> QED
  BY <1>2, <1>3

LEMMA Preserved ==
  ASSUME IInv, [Next]_vars
  PROVE  IInv'
<1>1. CASE Next
  BY <1>1, BetweenStep, EnsureHelperStep, AskStep, AskFailsStep, ReadLineStep, RecvFdStep,
     ReadFailsStep, HelperStep, CrashStep DEF Next, Reads
<1>2. CASE UNCHANGED vars
  <2>1. UNCHANGED <<pc, after, conn, late, device, leaked, broken, work, socket, buffer, tun>>
    BY <1>2 DEF vars, daemon, answers
  <2>2. TypeOK'
    BY <2>1 DEF IInv, TypeOK, InFlight
  <2> QED
    BY <2>1, <2>2 DEF IInv, Agreement, Clean, SameDevice, Prompt, Nothing, Just, Current, Served
<1> QED
  BY <1>1, <1>2

LEMMA Invariance == Spec => []IInv
  BY InitIInv, Preserved, PTL DEF Spec

-----------------------------------------------------------------------------

\* Commands, answers and devices are where they can be (platform, helper protocol).
THEOREM TypeCorrect == Spec => []TypeOK
<1>1. IInv => TypeOK
  BY DEF IInv
<1> QED
  BY Invariance, <1>1, PTL

LEMMA SmallCounts ==
  /\ Cardinality({i \in DOMAIN <<>> : <<>>[i].kind # "fd"}) = 0
  /\ \A ok \in BOOLEAN : Cardinality({i \in DOMAIN <<Line(ok)>> : <<Line(ok)>>[i].kind # "fd"}) = 1
  /\ \A d \in Devices :
       Cardinality({i \in DOMAIN <<Fd(d), Line(TRUE)>> : <<Fd(d), Line(TRUE)>>[i].kind # "fd"}) = 1
<1>1. {i \in DOMAIN <<>> : <<>>[i].kind # "fd"} = {}
  OBVIOUS
<1>2. ASSUME NEW ok \in BOOLEAN
      PROVE  {i \in DOMAIN <<Line(ok)>> : <<Line(ok)>>[i].kind # "fd"} = {1}
  BY Tokens, ShortQueues
<1>3. ASSUME NEW d \in Devices
      PROVE  {i \in DOMAIN <<Fd(d), Line(TRUE)>> : <<Fd(d), Line(TRUE)>>[i].kind # "fd"} = {2}
  <2> DEFINE q == <<Fd(d), Line(TRUE)>>
  <2>1. DOMAIN q = {1, 2} /\ q[1] = Fd(d) /\ q[2] = Line(TRUE)
    BY ShortQueues
  <2>2. Fd(d).kind = "fd" /\ Line(TRUE).kind # "fd"
    BY Tokens
  <2> HIDE DEF q
  <2>3. {i \in DOMAIN q : q[i].kind # "fd"} = {2}
    BY <2>1, <2>2
  <2> QED
    BY <2>3 DEF q
<1> QED
  BY <1>1, <1>2, <1>3, FS_EmptySet, FS_Singleton

(* While answers come in time, the one answer under way is the one to the   *)
(* command that waits, however often the helper crashed or was given up     *)
(* before (vpn.rs, ensure_helper; recv_fd).                                 *)
THEOREM AnswersMatch == Spec => []OwnAnswers
<1>1. IInv => OwnAnswers
  <2> SUFFICES ASSUME IInv, InTime
               PROVE  /\ InFlight /\ pc # "ping" => Outstanding = 1
                      /\ pc \in {"hand", "release", "device", "routes", "up"} => Outstanding = 0
    BY DEF OwnAnswers
  <2>1. Prompt /\ Current /\ TypeOK /\ buffer = <<>>
    BY DEF InTime, Prompt, IInv, Agreement
  <2>2. /\ Nothing(work) => work = <<>>
        /\ Just(work, pc) => Len(work) = 1
    BY <2>1, CurrentWork
  <2>3. Len(<<>>) = 0
    OBVIOUS
  <2>4. ASSUME InFlight, pc # "ping"
        PROVE  Outstanding = 1
    <3>1. \/ Len(work) = 1 /\ socket = <<>>
          \/ work = <<>> /\ \E ok \in BOOLEAN : socket = <<Line(ok)>>
          \/ work = <<>> /\ \E d \in Devices : socket = <<Fd(d), Line(TRUE)>>
      <4>1. pc \in {"undo", "destroy", "create", "add", "name"}
        BY <2>4 DEF InFlight, Commands
      <4> QED
        BY <2>1, <2>2, <4>1 DEF IInv, Agreement
    <3>2. CASE Len(work) = 1 /\ socket = <<>>
      BY <2>1, <3>2, SmallCounts DEF Outstanding
    <3>3. CASE work = <<>> /\ \E ok \in BOOLEAN : socket = <<Line(ok)>>
      BY <2>1, <2>3, <3>3, SmallCounts DEF Outstanding
    <3>4. CASE work = <<>> /\ \E d \in Devices : socket = <<Fd(d), Line(TRUE)>>
      <4>1. PICK d \in Devices : socket = <<Fd(d), Line(TRUE)>>
        BY <3>4
      <4>2. Cardinality({i \in DOMAIN socket : socket[i].kind # "fd"}) = 1
        BY <4>1, SmallCounts
      <4> QED
        BY <2>1, <2>3, <3>4, <4>2, SmallCounts DEF Outstanding
    <3> QED
      BY <3>1, <3>2, <3>3, <3>4
  <2>5. ASSUME pc \in {"hand", "release", "device", "routes", "up"}
        PROVE  Outstanding = 0
    <3>1. work = <<>> /\ socket = <<>>
      BY <2>1, <2>2, <2>5 DEF IInv, Agreement
    <3> QED
      BY <2>1, <2>3, <3>1, SmallCounts DEF Outstanding
  <2> QED
    BY <2>4, <2>5
<1> QED
  BY Invariance, <1>1, PTL

(* With any number of devices, daemon and helper agree on the one that is   *)
(* open (helper, handle_create_tun and close_tun_fds).                      *)
THEOREM DeviceIsOne == Spec => []OneDevice
<1>1. IInv => OneDevice
  <2> SUFFICES ASSUME IInv, InTime
               PROVE  Cardinality((tun \cup {device}) \ {None}) <= 1
    BY DEF OneDevice
  <2>1. PICK d \in Devices \cup {None} : tun \subseteq {d}
    BY DEF IInv, SameDevice
  <2>2. device = None \/ tun \subseteq {device}
    BY DEF InTime, Prompt, IInv, SameDevice
  <2>3. (tun \cup {device}) \ {None} = {} \/ \E x : (tun \cup {device}) \ {None} = {x}
    <3>1. CASE device = None
      <4>1. (tun \cup {device}) \ {None} \subseteq {d}
        BY <2>1, <3>1
      <4> QED
        BY <4>1
    <3>2. CASE device # None
      BY <2>2, <3>2
    <3> QED
      BY <3>1, <3>2
  <2>4. CASE (tun \cup {device}) \ {None} = {}
    BY <2>4, FS_EmptySet
  <2>5. CASE \E x : (tun \cup {device}) \ {None} = {x}
    <3>1. PICK x : (tun \cup {device}) \ {None} = {x}
      BY <2>5
    <3>2. Cardinality({x}) = 1
      BY FS_Singleton
    <3> QED
      BY <3>1, <3>2
  <2> QED
    BY <2>3, <2>4, <2>5
<1> QED
  BY Invariance, <1>1, PTL

(* Between descriptor and line nothing fails that the code has not been     *)
(* late or broken for (create_tun).                                         *)
THEOREM NoDescriptorLost == Spec => DescriptorKept
<1>1. IInv /\ [Next]_vars => [leaked' # leaked => late \/ broken]_vars
  <2> SUFFICES ASSUME IInv, Next, leaked' # leaked, ~late, ~broken PROVE FALSE
    OBVIOUS
  <2>1. ASSUME NEW cmd, NEW ok \in BOOLEAN, NEW s, NEW b, Ends(cmd, ok, s, b)
        PROVE  cmd = "name" /\ ~ok
    BY <2>1, EndsFacts
  <2>2. RecvFd \/ ReadFails \/ (\E n \in 1 .. Len(buffer \o socket) : ReadLine(n))
          \/ \E cmd \in Commands : AskFails(cmd)
    <3>1. ~EnsureHelper /\ ~Handshake /\ ~Configured /\ ~SessionDies /\ ~Release
      BY DEF EnsureHelper, Handshake, Configured, SessionDies, Release, Goto
    <3>2. \A cmd \in Commands : ~Ask(cmd)
      BY DEF Ask
    <3>3. ASSUME NEW cmd, NEW fds, NEW answer, Serve(cmd, fds, answer) PROVE FALSE
      BY <3>3 DEF Serve, daemon
    <3>4. ~ServeCreate /\ ~ServeOther
      BY <3>3, Zenon DEF ServeCreate, ServeOther
    <3>5. ~Crash
      BY DEF Crash, daemon
    <3> QED
      BY <3>1, <3>2, <3>4, <3>5 DEF Next, Reads
  <2>3. CASE RecvFd
    <3>1. leaked' = leaked \/ Ends("create", FALSE, <<Cut>> \o Tail(socket), buffer)
      BY <2>3 DEF RecvFd
    <3>2. ASSUME NEW s, NEW b, Ends("create", FALSE, s, b) PROVE FALSE
      BY <3>2 DEF Ends
    <3> QED
      BY <3>1, <3>2, Zenon
  <2>4. CASE \E cmd \in Commands : AskFails(cmd)
    BY <2>1, <2>4 DEF AskFails, Commands
  <2>5. pc = "name" => conn /\ socket = <<Line(TRUE)>> /\ buffer = <<>>
    BY DEF IInv, TypeOK, InFlight, Agreement, Prompt
  <2>6. buffer = <<>> /\ socket = <<Line(TRUE)>> => buffer \o socket = <<Line(TRUE)>>
    OBVIOUS
  <2>7. CASE ReadFails
    <3>1. pc = "name"
      BY <2>1, <2>7 DEF ReadFails
    <3>2. HasLine(<<Line(TRUE)>>)
      <4>1. 1 \in DOMAIN <<Line(TRUE)>> /\ <<Line(TRUE)>>[1] = Line(TRUE)
        OBVIOUS
      <4> QED
        BY <4>1, Tokens DEF HasLine
    <3> QED
      BY <2>5, <2>6, <2>7, <3>1, <3>2 DEF ReadFails
  <2>8. ASSUME NEW n \in 1 .. Len(buffer \o socket), ReadLine(n) PROVE FALSE
    <3>1. pc = "name" /\ (buffer \o socket)[1] # Line(TRUE)
      BY <2>1, <2>8 DEF ReadLine
    <3> QED
      BY <2>5, <2>6, <3>1, ShortQueues
  <2> QED
    BY <2>2, <2>3, <2>4, <2>7, <2>8
<1> QED
  BY Invariance, <1>1, PTL DEF Spec, DescriptorKept
=============================================================================
