---------------------------- MODULE HelperProtocol ----------------------------
(***************************************************************************)
(* The daemon's connection to the privileged helper (fortivpn: platform,   *)
(* lib.rs; fortivpn-daemon: vpn.rs; fortivpn-helper).                      *)
(*                                                                         *)
(* Commands and answers are lines on one socket, without identifiers; the  *)
(* descriptor of a new device comes beside a byte of its own, before the   *)
(* answer's line.  The daemon asks one command at a time and gives up on   *)
(* an answer after ten seconds; the answer may still come.  The helper     *)
(* serves one connection after the other, each to its end.                 *)
(***************************************************************************)
EXTENDS Naturals, Sequences, FiniteSets

CONSTANTS
  Devices,   \* TUN devices
  None,
  MaxBehind  \* bound: commands and answers under way when one more is asked

ASSUME ProtocolConstants ==
  /\ None \notin Devices
  /\ MaxBehind \in Nat

VARIABLES
  pc,      \* where the daemon is: a command is the wait for its answer
  after,   \* where it goes when a network is released
  conn,    \* VpnManager.helper is there
  late,    \* history: on this connection it has given up on an answer
  device,  \* the device of the session or of the preserved network
  leaked,  \* devices whose descriptor the daemon has lost, open
  broken,  \* the helper's end of the connection is closed
  work,    \* commands on their way, "eof" where a connection ends
  socket,  \* answers on their way
  buffer,  \* answers in the BufReader
  tun      \* tun_fds, the devices the helper has open

daemon == <<pc, after, conn, late, device, leaked>>
answers == <<socket, buffer>>
vars == <<daemon, broken, work, answers, tun>>

\* "undo" is delete_route or restore_dns, "add" add_route or configure_dns.
Commands == {"ping", "undo", "destroy", "create", "add"}

\* Where the daemon asks each.
From == [ping |-> "idle", undo |-> "release", destroy |-> "release",
         create |-> "device", add |-> "routes"]

\* "name": create_tun has its descriptor and waits for the line.
InFlight == pc \in Commands \cup {"name"}

(* What a socket carries: a descriptor with its byte, a line, and a line   *)
(* whose first byte was read as a descriptor's.                            *)
Fd(d) == [kind |-> "fd", dev |-> d, ok |-> FALSE]
Line(ok) == [kind |-> "line", dev |-> None, ok |-> ok]
Cut == [kind |-> "cut", dev |-> None, ok |-> FALSE]

Token == {Fd(d) : d \in Devices} \cup {Line(TRUE), Line(FALSE), Cut}

TypeOK ==
  /\ pc \in Commands \cup {"name", "idle", "hand", "release", "device", "routes", "up"}
  /\ after \in {"idle", "device"}
  /\ conn \in BOOLEAN /\ late \in BOOLEAN /\ broken \in BOOLEAN
  /\ InFlight => conn
  /\ device \in IF pc \in {"name", "routes", "add", "up", "release", "undo"} THEN Devices
                ELSE IF pc \in {"device", "create"} THEN {None}
                ELSE Devices \cup {None}
  /\ leaked \subseteq Devices /\ tun \subseteq Devices
  /\ work \in Seq(Commands \cup {"eof"})
  /\ socket \in Seq(Token) /\ buffer \in Seq(Token)

Init ==
  /\ pc = "idle"
  /\ after = "idle"
  /\ conn = FALSE
  /\ late = FALSE
  /\ device = None
  /\ leaked = {}
  /\ broken = FALSE
  /\ work = <<>>
  /\ socket = <<>>
  /\ buffer = <<>>
  /\ tun = {}

-----------------------------------------------------------------------------
(* The daemon asks *)

\* Mutant: the connection is used again without a ping.
EnsureHelperUnpinged ==
  /\ pc = "idle"
  /\ pc' = "hand"
  /\ conn' = TRUE
  /\ IF conn THEN UNCHANGED <<late, broken, answers>>
     ELSE /\ late' = FALSE
          /\ broken' = FALSE
          /\ socket' = <<>>
          /\ buffer' = <<>>
  /\ UNCHANGED <<after, device, leaked, work, tun>>

(* ensure_helper without a connection.  launchd holds the listening socket *)
(* and starts the helper; one that is busy accepts later.                  *)
EnsureHelper ==
  /\ pc = "idle"
  /\ ~conn
  /\ pc' = "hand"
  /\ conn' = TRUE
  /\ late' = FALSE
  /\ broken' = FALSE
  /\ socket' = <<>>
  /\ buffer' = <<>>
  /\ UNCHANGED <<after, device, leaked, work, tun>>

(* How a command ends for the daemon, with s and b left unread.  A ping    *)
(* without its ok drops the connection; undoing is best effort; a device   *)
(* that is not configured is closed, unless only its number is known.      *)
Ends(cmd, ok, s, b) ==
  LET dropped == cmd = "ping" /\ ~ok IN
  /\ pc' = CASE cmd = "ping" -> IF ok THEN "hand" ELSE "idle"
             [] cmd = "undo" -> "release"
             [] cmd = "destroy" -> after
             [] OTHER -> IF ok THEN "routes" ELSE "idle"
  /\ conn' = ~dropped
  /\ work' = IF dropped /\ ~broken THEN Append(work, "eof") ELSE work
  /\ socket' = IF dropped THEN <<>> ELSE s
  /\ buffer' = IF dropped THEN <<>> ELSE b
  /\ device' = IF cmd = "destroy" \/ (cmd \in {"name", "add"} /\ ~ok) THEN None ELSE device
  /\ leaked' = IF cmd = "name" /\ ~ok THEN leaked \cup {device} ELSE leaked
  /\ after' = IF cmd = "destroy" THEN "idle" ELSE after
  /\ UNCHANGED <<broken, tun>>

\* send_cmd.
Ask(cmd) ==
  /\ pc = From[cmd]
  /\ conn
  /\ ~broken
  /\ Len(work \o socket \o buffer) < MaxBehind
  /\ work' = Append(work, cmd)
  /\ pc' = cmd
  /\ UNCHANGED <<after, conn, late, device, leaked, broken, answers, tun>>

\* Writing to a connection the helper has closed fails.
AskFails(cmd) ==
  /\ pc = From[cmd]
  /\ conn
  /\ broken
  /\ Ends(cmd, FALSE, socket, buffer)
  /\ UNCHANGED late

-----------------------------------------------------------------------------
(* The daemon reads *)

HasLine(tokens) == \E i \in DOMAIN tokens : tokens[i].kind # "fd"

\* Position of the first line's end.
FirstLine(tokens) ==
  CHOOSE i \in DOMAIN tokens :
    /\ tokens[i].kind # "fd"
    /\ \A j \in 1 .. i - 1 : tokens[j].kind = "fd"

(* read_response.  Only a buffer without a line is filled, with as much as *)
(* one read gives; n tokens are then out of the socket.  A descriptor read *)
(* this way is closed, and its byte spoils the line.                       *)
ReadLine(n) ==
  LET tokens == buffer \o socket IN
  /\ InFlight /\ pc # "create"
  /\ HasLine(tokens)
  /\ IF HasLine(buffer) THEN n = Len(buffer) ELSE n \in FirstLine(tokens) .. Len(tokens)
  /\ Ends(pc, tokens[1] = Line(TRUE),
          SubSeq(tokens, n + 1, Len(tokens)), SubSeq(tokens, FirstLine(tokens) + 1, n))
  /\ UNCHANGED late

\* recv_fd: one byte of the socket, past the buffer.
RecvFd ==
  /\ pc = "create"
  /\ socket # <<>>
  /\ \/ /\ Head(socket).kind = "fd"
        /\ device' = Head(socket).dev
        /\ pc' = "name"
        /\ socket' = Tail(socket)
        /\ UNCHANGED <<after, conn, leaked, broken, work, buffer, tun>>
     \/ /\ Head(socket).kind # "fd"
        /\ Ends("create", FALSE, <<Cut>> \o Tail(socket), buffer)
  /\ UNCHANGED late

\* Mutant: the socket has no read timeout.
ReadFailsAtEnd ==
  /\ InFlight
  /\ broken
  /\ IF pc = "create"
     THEN socket = <<>> /\ Ends(pc, FALSE, socket, buffer)
     ELSE ~HasLine(buffer \o socket) /\ Ends(pc, FALSE, <<>>, <<>>)
  /\ UNCHANGED late

\* Nothing comes within ten seconds, or the connection has ended.
ReadFails ==
  /\ InFlight
  /\ IF pc = "create"
     THEN socket = <<>> /\ Ends(pc, FALSE, socket, buffer)
     ELSE ~HasLine(buffer \o socket) /\ Ends(pc, FALSE, <<>>, <<>>)
  /\ late' = (conn' /\ (late \/ ~broken))

-----------------------------------------------------------------------------
(* The daemon between commands *)

Goto(p) ==
  /\ pc' = p
  /\ UNCHANGED <<conn, late, leaked, broken, work, answers, tun>>

(* After the handshake with the gateway: a preserved network is adopted,   *)
(* or released before a new device is asked for.                           *)
Handshake ==
  /\ pc = "hand"
  /\ \/ Goto("idle") /\ UNCHANGED after
     \/ device # None /\ Goto("up") /\ UNCHANGED after
     \/ device # None /\ Goto("release") /\ after' = "device"
     \/ device = None /\ Goto("device") /\ UNCHANGED after
  /\ UNCHANGED device

Configured == pc = "routes" /\ Goto("up") /\ UNCHANGED <<after, device>>

\* The bridge died; the device is preserved.
SessionDies == pc = "up" /\ Goto("idle") /\ UNCHANGED <<after, device>>

\* disconnect, or the release of a preserved network, with the helper if any.
Release ==
  /\ pc \in {"up", "idle"}
  /\ device # None
  /\ IF conn THEN Goto("release") /\ after' = "idle" /\ UNCHANGED device
     ELSE Goto("idle") /\ device' = None /\ UNCHANGED after

-----------------------------------------------------------------------------
(* The helper *)

Served == {work[i] : i \in DOMAIN work}

\* The connection at work is the daemon's and not one it has left.
Current == "eof" \notin Served

\* A device that does not exist yet.
NewDevice(d) ==
  /\ d \in Devices \ (tun \cup leaked \cup {device})
  /\ \A i \in DOMAIN socket : socket[i].dev # d

\* The helper takes a command, has devices fds open and answers.
Serve(cmd, fds, answer) ==
  /\ work # <<>>
  /\ Head(work) = cmd
  /\ work' = Tail(work)
  /\ tun' = fds
  /\ socket' = IF Current THEN socket \o answer ELSE socket
  /\ UNCHANGED <<daemon, broken, buffer>>

\* Mutant: an error follows the descriptor.
ServeCreateThenFails ==
  \/ Serve("create", {}, <<Line(FALSE)>>)
  \/ \E d \in Devices :
       NewDevice(d) /\ Serve("create", {}, <<Fd(d), Line(FALSE)>>)

\* Mutant: the devices it had are not closed.
ServeCreateKeepsOld ==
  \/ Serve("create", tun, <<Line(FALSE)>>)
  \/ \E d \in Devices :
       /\ NewDevice(d) /\ Current
       /\ Serve("create", tun \cup {d}, <<Fd(d), Line(TRUE)>>)

(* handle_create_tun: what it had is closed first.  Whom the descriptor    *)
(* cannot be sent gets no device.                                          *)
ServeCreate ==
  \/ Serve("create", {}, <<Line(FALSE)>>)
  \/ \E d \in Devices :
       /\ NewDevice(d) /\ Current
       /\ Serve("create", {d}, <<Fd(d), Line(TRUE)>>)

\* handle_client: the other commands, and the end of a connection.
ServeOther ==
  \/ Serve("ping", tun, <<Line(TRUE)>>)
  \/ Serve("destroy", {}, <<Line(TRUE)>>)
  \/ \E cmd \in {"undo", "add"}, ok \in BOOLEAN : Serve(cmd, tun, <<Line(ok)>>)
  \/ Serve("eof", {}, <<>>)

(* A connection that waits to be accepted outlives the helper.  A crash    *)
(* may come between the descriptor and its line.                           *)
Crash ==
  /\ tun' = {}
  /\ IF Current
     THEN /\ conn /\ ~broken
          /\ broken' = TRUE
          /\ work' = <<>>
          /\ \/ UNCHANGED socket
             \/ \E d \in Devices :
                  /\ work # <<>> /\ Head(work) = "create" /\ NewDevice(d)
                  /\ socket' = Append(socket, Fd(d))
     ELSE /\ \E i \in DOMAIN work :
               /\ work[i] = "eof"
               /\ "eof" \notin {work[j] : j \in 1 .. i - 1}
               /\ work' = SubSeq(work, i + 1, Len(work))
          /\ UNCHANGED <<broken, socket>>
  /\ UNCHANGED <<daemon, buffer>>

-----------------------------------------------------------------------------
Reads == RecvFd \/ ReadFails \/ \E n \in 1 .. Len(buffer \o socket) : ReadLine(n)

Next ==
  \/ EnsureHelper \/ Handshake \/ Configured \/ SessionDies \/ Release
  \/ \E cmd \in Commands : Ask(cmd) \/ AskFails(cmd)
  \/ Reads
  \/ ServeCreate \/ ServeOther \/ Crash

(* The read timeout passes, whatever the helper does.  Of the helper       *)
(* nothing is assumed.                                                     *)
Fairness == WF_vars(Reads)

Spec == Init /\ [][Next]_vars /\ Fairness
=============================================================================
