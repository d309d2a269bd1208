----------------------- MODULE HelperProtocolProperties -----------------------
\* What the protocol between daemon and helper must keep.
EXTENDS HelperProtocol

\* Commands not answered yet and answers not read yet.
Outstanding ==
  Len(work) + Cardinality({i \in DOMAIN socket : socket[i].kind # "fd"})
    + Cardinality({i \in DOMAIN buffer : buffer[i].kind # "fd"})

\* The helper serves the daemon's connection, and every answer came in time.
InTime == conn /\ ~broken /\ ~late /\ Current

(* Answers carry no identifier, yet while they come in time no command but  *)
(* a ping meets an answer that is not its own, not even after a create_tun  *)
(* that was refused and left the rest of a line behind: the ping reads that *)
(* and drops the connection (vpn.rs, ensure_helper; recv_fd).               *)
OwnAnswers ==
  /\ InTime /\ InFlight /\ pc # "ping" => Outstanding = 1
  /\ InTime /\ pc \in {"hand", "release", "device", "routes", "up"} => Outstanding = 0

(* Helper and daemon never have different devices open while answers come   *)
(* in time, whatever failed, crashed or was left behind on earlier          *)
(* connections (helper, handle_create_tun and close_tun_fds).               *)
OneDevice == InTime => Cardinality((tun \cup {device}) \ {None}) <= 1

(* The daemon loses a descriptor, and keeps an interface alive that nobody  *)
(* can close, only when an answer came late or the helper ended between     *)
(* descriptor and line (create_tun holds a bare number at its second `?`).  *)
DescriptorKept == [][leaked' # leaked => late \/ broken]_vars

(* Every command ends, whatever the helper does or does not do: the manager *)
(* asks with its mutex held (HelperClientInner::connect, set_read_timeout). *)
CommandEnds == InFlight ~> ~InFlight
=============================================================================
