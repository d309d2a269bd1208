------------------------- MODULE VpnManagerProperties -------------------------
(***************************************************************************)
(* What the connection manager promises, and what a comment of the code    *)
(* claims that it does not keep.                                           *)
(***************************************************************************)
EXTENDS VpnManager

\* Where a monitor is between handle_session_death and the end of its loop.
ReconnectPC == {"lookup", "norec", "backoff", "connecting", "failed", "giveup"}

\* Where it still has to look at the status, and may change Reconnecting.
RetryPC == {"lookup", "backoff", "failed", "giveup"}

-----------------------------------------------------------------------------
(* Every session is watched: its monitor holds the manager's handle, or    *)
(* the receiver is still there and a task is on its way to spawn one, in   *)
(* whatever order the two critical sections of several connects and        *)
(* disconnects meet (ipc.rs, take_event_rx after the connect).             *)
SessionWatched ==
  session # None =>
    \/ /\ rx /\ handle = None
       /\ \E p \in Procs : pc[p] = "spawn"
    \/ /\ ~rx /\ handle = session
       /\ pc[session] \in {"watch", "dead"} /\ session \notin aborted

(* A monitor that may still act on a death is the monitor of the current   *)
(* session: no monitor outlives its session by more than the poll in which *)
(* disconnect aborted it (vpn.rs, disconnect and handle_session_death).    *)
MonitorOwnsSession ==
  \A m \in Sessions :
    pc[m] \in {"watch", "dead"} /\ m \notin aborted
      => session = m /\ handle = m

(* A held network has somebody who will release it: its own monitor is     *)
(* still in the reconnect path, and no session is up beside it.  A         *)
(* poisoned store breaks this: its unwrap() ends the monitor (vpn.rs,      *)
(* comment on preserved_network; ipc.rs, the lookup after a death).        *)
NetworkHasOwner ==
  preserved # None /\ ~poisoned => session = None /\ pc[preserved] \in ReconnectPC

(* No password outlives the session it was given for, and it is forgotten  *)
(* together with the profile (vpn.rs, session_passwords: "Cleared on       *)
(* disconnect").                                                           *)
SecretFollowsSession ==
  /\ passwords = {connectedId} \ {None}
  /\ session = None => connectedId = None

(* As long as the store is writable and no profile is deleted, the status  *)
(* Reconnecting is backed by a monitor that will look at it again, also    *)
(* when several monitors sleep at once (ipc.rs, spawn_session_monitor).    *)
ReconnectingHasMonitor ==
  Env \subseteq {"helper_down"} /\ status = "Reconnecting"
    => \E m \in Sessions : pc[m] \in RetryPC

(* The manager implements the life of sessions that SessionLifecycle       *)
(* states: whatever tasks meet, a session is never dropped by putting      *)
(* another in its place, has at most one watcher, and a held network is    *)
(* neither replaced nor kept beside a session (vpn.rs).                    *)
Lifecycle == INSTANCE SessionLifecycle WITH watcher <- handle, held <- preserved

ImplementsLifecycle == Lifecycle!Spec

-----------------------------------------------------------------------------
(* Liveness, for behaviours in which no handshake holds the mutex forever  *)

HandshakesEnd == []<>(lock = None)

(* A network held for a reconnect is given back or adopted, whatever       *)
(* clients do meanwhile (ipc.rs, "otherwise the host keeps routing into    *)
(* nothing").                                                              *)
NetworkEventuallyReleased ==
  HandshakesEnd => (preserved # None ~> preserved = None)

(* The reconnect loop always comes to an end: Reconnecting does not last   *)
(* (ipc.rs, RECONNECT_MAX_ATTEMPTS).                                       *)
ReconnectSettles ==
  HandshakesEnd => (status = "Reconnecting" ~> status # "Reconnecting")

(* A connect command is answered although other clients and monitors       *)
(* compete for the mutex (ipc.rs, connect_with_password).                  *)
CommandAnswered ==
  HandshakesEnd => \A c \in Clients : pc[c] # "idle" ~> pc[c] = "idle"

-----------------------------------------------------------------------------
(* What a comment says and the code does not keep                          *)

(* ipc.rs: "connect_with_password leaves status at Error on failure".      *)
NeverLeftConnecting == lock = None => status # "Connecting"
=============================================================================
