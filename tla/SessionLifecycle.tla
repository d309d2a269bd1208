-------------------------- MODULE SessionLifecycle --------------------------
(***************************************************************************)
(* What the daemon promises about VPN sessions, without tasks, mutexes or  *)
(* commands: one session at a time; a session is put under watch once; it  *)
(* is lost only through its watcher and closed by a client at any time; a  *)
(* network held from a lost session is never replaced by another one and   *)
(* never stays beside a session.                                           *)
(***************************************************************************)
CONSTANTS Sessions, None

VARIABLES
  session,  \* the session that is up
  watcher,  \* the session under watch
  held      \* the lost session whose network is kept for a reconnect

lifecycle == <<session, watcher, held>>

Init == session = None /\ watcher = None /\ held = None

\* A session comes up: it takes the held network over or has it released.
Establish(s) ==
  /\ session = None
  /\ session' = s
  /\ held' = None
  /\ UNCHANGED watcher

\* The session gets its watcher.
Watch ==
  /\ session # None
  /\ watcher = None
  /\ watcher' = session
  /\ UNCHANGED <<session, held>>

\* The watcher loses its session; the network may be kept.
Lose ==
  /\ session # None
  /\ watcher = session
  /\ session' = None
  /\ watcher' = None
  /\ held' \in {session, None}

\* A client closes whatever there is.
Close == session' = None /\ watcher' = None /\ held' = None

\* The held network is given back.
Release ==
  /\ held' = None
  /\ UNCHANGED <<session, watcher>>

Next == Watch \/ Lose \/ Close \/ Release \/ \E s \in Sessions : Establish(s)

Spec == Init /\ [][Next]_lifecycle
=============================================================================
