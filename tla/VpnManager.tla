----------------------------- MODULE VpnManager -----------------------------
(***************************************************************************)
(* The daemon's connection manager (fortivpn-daemon: vpn.rs, ipc.rs).      *)
(*                                                                         *)
(* Tasks of the tokio runtime share one VpnManager behind an asynchronous  *)
(* mutex: a task per IPC connection (Clients), whose commands run one      *)
(* after the other, and a monitor task per VPN session.  A monitor is      *)
(* named after the session whose event channel it was given, so the set    *)
(* Sessions names both.  A critical section of the mutex is one action,    *)
(* except connect_with_password, which holds the mutex across the whole    *)
(* handshake and is split into its start and its end.                      *)
(*                                                                         *)
(* Abstracted: wording of errors and events, the backoff delays, the       *)
(* handshake itself (it succeeds, or fails before or after the preserved   *)
(* network was touched), and what the network consists of.                 *)
(***************************************************************************)
EXTENDS Naturals, FiniteSets

CONSTANTS
  Clients,      \* IPC connections (the CLI, the tray application)
  Sessions,     \* session and monitor identities; bounds the monitors alive
  Profiles,     \* profiles a store may hold
  MaxAttempts,  \* RECONNECT_MAX_ATTEMPTS
  Env,          \* what may go wrong around the daemon, a subset of EnvKinds
  None

EnvKinds == {"helper_down", "disk_full", "profile_deleted"}

ASSUME ConstantsOK ==
  /\ Clients \cap Sessions = {}
  /\ None \notin Clients \cup Sessions \cup Profiles
  /\ MaxAttempts \in Nat \ {0}
  /\ Env \subseteq EnvKinds

VARIABLES
  status,       \* VpnManager.status
  session,      \* VpnManager.session
  rx,           \* the session still holds its event receiver
  handle,       \* VpnManager.monitor_handle
  connectedId,  \* VpnManager.connected_profile_id
  passwords,    \* keys of VpnManager.session_passwords
  preserved,    \* VpnManager.preserved_network: the session it was taken from
  lock,         \* the task inside connect_with_password, holding the mutex
  store,        \* profiles of the ProfileStore
  poisoned,     \* the std mutex of the store is poisoned
  pc,           \* where each task is
  target,       \* the profile a task is connecting to
  attempt,      \* a monitor's reconnect attempt
  aborted,      \* monitors with abort() pending in a poll that still runs
  feed          \* status of the last event broadcast

manager == <<status, session, rx, handle, connectedId, passwords, preserved>>
storeVars == <<store, poisoned>>
vars == <<manager, lock, storeVars, pc, target, attempt, aborted, feed>>

Procs == Clients \cup Sessions

Status == {"Disconnected", "Connecting", "Connected", "Reconnecting", "Error"}

PC == {"idle", "want", "connecting", "spawn", "announceConnected",
       "announceError", "watch", "dead", "lookup", "norec", "backoff",
       "failed", "giveup"}

TypeOK ==
  /\ status \in Status
  /\ session \in Sessions \cup {None}
  /\ rx \in BOOLEAN
  /\ handle \in Sessions \cup {None}
  /\ connectedId \in Profiles \cup {None}
  /\ passwords \subseteq Profiles
  /\ preserved \in Sessions \cup {None}
  /\ lock \in Procs \cup {None}
  /\ store \subseteq Profiles
  /\ poisoned \in BOOLEAN
  /\ pc \in [Procs -> PC]
  /\ target \in [Procs -> Profiles \cup {None}]
  /\ attempt \in [Sessions -> 0 .. MaxAttempts]
  /\ aborted \subseteq Sessions
  /\ feed \in {"disconnected", "connected", "reconnecting", "error"}

Init ==
  /\ status = "Disconnected"
  /\ session = None
  /\ rx = FALSE
  /\ handle = None
  /\ connectedId = None
  /\ passwords = {}
  /\ preserved = None
  /\ lock = None
  /\ store \in SUBSET Profiles
  /\ poisoned = FALSE
  /\ pc = [p \in Procs |-> "idle"]
  /\ target = [p \in Procs |-> None]
  /\ attempt = [m \in Sessions |-> 0]
  /\ aborted = {}
  /\ feed = "disconnected"

-----------------------------------------------------------------------------
(* connect_with_password, shared by the IPC command and the reconnect loop *)

\* A new session gets an identity no session and no monitor task holds.
Fresh(s) == pc[s] = "idle" /\ session # s

\* Where a failed connect leaves its caller.
OnFailure(p) == IF p \in Clients THEN "announceError" ELSE "failed"

(* Past the "Already connected" test: the status is Connecting, then       *)
(* ensure_helper() succeeds and the handshake goes on under the mutex, or  *)
(* `?` returns at once and the status stays as it is.                      *)
StartConnect(p) ==
  /\ status' = "Connecting"
  /\ \/ /\ lock' = p
        /\ pc' = [pc EXCEPT ![p] = "connecting"]
     \/ /\ "helper_down" \in Env
        /\ pc' = [pc EXCEPT ![p] = OnFailure(p)]
        /\ UNCHANGED lock

(* The handshake succeeds: whatever was preserved has been adopted by the  *)
(* new session or released by it.                                          *)
ConnectSucceeds(p) ==
  /\ pc[p] = "connecting"
  /\ \E s \in Sessions :
       /\ Fresh(s)
       /\ session' = s
  /\ rx' = TRUE
  /\ connectedId' = target[p]
  /\ passwords' = passwords \cup {target[p]}
  /\ status' = "Connected"
  /\ preserved' = None
  /\ lock' = None
  /\ pc' = [pc EXCEPT ![p] = "spawn"]
  /\ UNCHANGED <<handle, storeVars, target, attempt, aborted, feed>>

(* It fails: before phase 4 of connect_reusing the preserved network is    *)
(* handed back untouched, later it is gone.                                *)
ConnectFails(p) ==
  /\ pc[p] = "connecting"
  /\ preserved' \in {preserved, None}
  /\ status' = "Error"
  /\ connectedId' = None
  /\ lock' = None
  /\ pc' = [pc EXCEPT ![p] = OnFailure(p)]
  /\ UNCHANGED <<session, rx, handle, passwords, storeVars, target, attempt,
                 aborted, feed>>

\* Mutant: the handle of the new monitor is not kept.
SpawnMonitorDetached(p) ==
  /\ pc[p] = "spawn"
  /\ lock = None
  /\ \/ /\ session # None /\ rx
        /\ rx' = FALSE
        /\ pc' = [pc EXCEPT ![session] = "watch", ![p] = "announceConnected"]
     \/ /\ session = None \/ ~rx
        /\ pc' = [pc EXCEPT ![p] = "announceConnected"]
        /\ UNCHANGED rx
  /\ UNCHANGED <<status, session, handle, connectedId, passwords, preserved,
                 lock, storeVars, target, attempt, aborted, feed>>

\* Mutant: waits for a session although a client has closed it.
SpawnMonitorWaits(p) ==
  /\ pc[p] = "spawn"
  /\ lock = None
  /\ session # None /\ rx
  /\ rx' = FALSE
  /\ handle' = session
  /\ pc' = [pc EXCEPT ![session] = "watch", ![p] = "announceConnected"]
  /\ UNCHANGED <<status, session, connectedId, passwords, preserved, lock,
                 storeVars, target, attempt, aborted, feed>>

(* Second critical section of a successful connect: take the event         *)
(* receiver of whatever session is there by now and spawn its monitor.     *)
SpawnMonitor(p) ==
  /\ pc[p] = "spawn"
  /\ lock = None
  /\ \/ /\ session # None /\ rx
        /\ rx' = FALSE
        /\ handle' = session
        /\ pc' = [pc EXCEPT ![session] = "watch", ![p] = "announceConnected"]
     \/ /\ session = None \/ ~rx
        /\ pc' = [pc EXCEPT ![p] = "announceConnected"]
        /\ UNCHANGED <<rx, handle>>
  /\ UNCHANGED <<status, session, connectedId, passwords, preserved, lock,
                 storeVars, target, attempt, aborted, feed>>

\* A task is done: an IPC command returned, or a monitor task ended.
Finish(p) ==
  /\ pc' = [pc EXCEPT ![p] = "idle"]
  /\ target' = [target EXCEPT ![p] = None]
  /\ attempt' = [m \in Sessions |-> IF m = p THEN 0 ELSE attempt[m]]

\* The event is broadcast after the mutex was released.
Announce(p) ==
  /\ \/ pc[p] = "announceConnected" /\ feed' = "connected"
     \/ pc[p] = "announceError" /\ feed' = "error"
  /\ Finish(p)
  /\ UNCHANGED <<manager, lock, storeVars, aborted>>

-----------------------------------------------------------------------------
(* IPC commands *)

\* "connect_with_password": the profile is looked up and cloned.
LookUp(c, p) ==
  /\ pc[c] = "idle"
  /\ ~poisoned
  /\ p \in store
  /\ pc' = [pc EXCEPT ![c] = "want"]
  /\ target' = [target EXCEPT ![c] = p]
  /\ UNCHANGED <<manager, lock, storeVars, attempt, aborted, feed>>

\* Mutant: connects over a session that is up.
ClientConnectUnguarded(c) ==
  /\ pc[c] = "want"
  /\ lock = None
  /\ StartConnect(c)
  /\ UNCHANGED <<session, rx, handle, connectedId, passwords, preserved,
                 storeVars, target, attempt, aborted, feed>>

\* "connect_with_password": the mutex is acquired.
ClientConnect(c) ==
  /\ pc[c] = "want"
  /\ lock = None
  /\ \/ /\ status = "Connected"
        /\ pc' = [pc EXCEPT ![c] = "announceError"]
        /\ UNCHANGED <<status, lock>>
     \/ /\ status # "Connected"
        /\ StartConnect(c)
  /\ UNCHANGED <<session, rx, handle, connectedId, passwords, preserved,
                 storeVars, target, attempt, aborted, feed>>

\* Mutant: the monitor of the session is not aborted.
DisconnectKeepsMonitor(c) ==
  /\ pc[c] = "idle"
  /\ lock = None
  /\ status' = "Disconnected"
  /\ session' = None
  /\ rx' = FALSE
  /\ handle' = None
  /\ connectedId' = None
  /\ passwords' = passwords \ {connectedId}
  /\ preserved' = None
  /\ feed' = "disconnected"
  /\ UNCHANGED <<lock, storeVars, pc, target, attempt, aborted>>

\* Mutant: the password outlives the session.
DisconnectKeepsPassword(c) ==
  /\ pc[c] = "idle"
  /\ lock = None
  /\ status' = "Disconnected"
  /\ session' = None
  /\ rx' = FALSE
  /\ handle' = None
  /\ connectedId' = None
  /\ preserved' = None
  /\ pc' = [p \in Procs |-> IF p = handle /\ pc[p] = "watch"
                              THEN "idle" ELSE pc[p]]
  /\ aborted' = aborted \cup {m \in Sessions : m = handle /\ pc[m] = "dead"}
  /\ feed' = "disconnected"
  /\ UNCHANGED <<passwords, lock, storeVars, target, attempt>>

(* "disconnect": everything, the event included, under the mutex.  abort() *)
(* ends a monitor parked in the watch loop at once; one that has just been *)
(* woken runs on until it next yields.                                     *)
Disconnect(c) ==
  /\ pc[c] = "idle"
  /\ lock = None
  /\ status' = "Disconnected"
  /\ session' = None
  /\ rx' = FALSE
  /\ handle' = None
  /\ connectedId' = None
  /\ passwords' = passwords \ {connectedId}
  /\ preserved' = None
  /\ pc' = [p \in Procs |-> IF p = handle /\ pc[p] = "watch"
                              THEN "idle" ELSE pc[p]]
  /\ aborted' = aborted \cup {m \in Sessions : m = handle /\ pc[m] = "dead"}
  /\ feed' = "disconnected"
  /\ UNCHANGED <<lock, storeVars, target, attempt>>

(* "save_profile" and "delete_profile" write the file while they hold the  *)
(* store's std mutex; a failed write panics and poisons it.                *)
StoreWrite(newStore) ==
  /\ ~poisoned
  /\ store' = newStore
  /\ poisoned' \in BOOLEAN
  /\ poisoned' => "disk_full" \in Env
  /\ UNCHANGED <<manager, lock, pc, target, attempt, aborted, feed>>

SaveProfile(p) == StoreWrite(store \cup {p})

DeleteProfile(p) == "profile_deleted" \in Env /\ StoreWrite(store \ {p})

-----------------------------------------------------------------------------
(* The monitor of a session *)

\* The watch loop ends: the bridge reported Died, or dropped the channel.
SeeDeath(m) ==
  /\ pc[m] = "watch"
  /\ pc' = [pc EXCEPT ![m] = "dead"]
  /\ UNCHANGED <<manager, lock, storeVars, target, attempt, aborted, feed>>

(* A pending abort takes effect where the task yields: on the mutex it     *)
(* needs for handle_session_death or for the release after it.             *)
AbortLands(m) ==
  /\ m \in aborted
  /\ aborted' = aborted \ {m}
  /\ Finish(m)
  /\ UNCHANGED <<manager, lock, storeVars, feed>>

ReconnectInfo == connectedId # None /\ connectedId \in passwords

(* handle_session_death, and Reconnecting when a reconnect will be tried.  *)
(* The preserving teardown keeps the network, or restores it when it       *)
(* cannot.  An aborted monitor gets through only if there is no session:   *)
(* then the handler awaits nothing.                                        *)
HandleDeath(m) ==
  /\ pc[m] = "dead"
  /\ lock = None
  /\ session # None => m \notin aborted
  /\ passwords' = passwords \ {connectedId}
  /\ connectedId' = None
  /\ IF session # None /\ ReconnectInfo
       THEN preserved' \in {session, None}
       ELSE UNCHANGED preserved
  /\ session' = None
  /\ rx' = FALSE
  /\ handle' = None
  /\ IF ReconnectInfo
       THEN /\ status' = "Reconnecting"
            /\ pc' = [pc EXCEPT ![m] = "lookup"]
            /\ target' = [target EXCEPT ![m] = connectedId]
       ELSE /\ status' = "Error"
            /\ pc' = [pc EXCEPT ![m] = "norec"]
            /\ UNCHANGED target
  /\ UNCHANGED <<lock, storeVars, attempt, aborted, feed>>

(* handle_session_death in a poll that outlived its abort until the next   *)
(* session was up.  It takes the profile and the password of that session, *)
(* tells its bridge to stop, and is dropped where it awaits the bridge's   *)
(* tasks; status, session and handle stay.                                 *)
HandleDeathTooLate(m) ==
  /\ pc[m] = "dead"
  /\ lock = None
  /\ session # None
  /\ m \in aborted
  /\ passwords' = passwords \ {connectedId}
  /\ connectedId' = None
  /\ aborted' = aborted \ {m}
  /\ Finish(m)
  /\ UNCHANGED <<status, session, rx, handle, preserved, lock, storeVars, feed>>

(* The profile is looked up under the store's mutex only; unwrap() on a    *)
(* poisoned mutex panics and ends the monitor.                             *)
MonitorLookUp(m) ==
  /\ pc[m] = "lookup"
  /\ \/ /\ poisoned
        /\ Finish(m)
        /\ UNCHANGED feed
     \/ /\ ~poisoned /\ target[m] \notin store
        /\ pc' = [pc EXCEPT ![m] = "norec"]
        /\ UNCHANGED <<target, attempt, feed>>
     \/ /\ ~poisoned /\ target[m] \in store
        /\ pc' = [pc EXCEPT ![m] = "backoff"]
        /\ attempt' = [attempt EXCEPT ![m] = 1]
        /\ feed' = "reconnecting"
        /\ UNCHANGED target
  /\ UNCHANGED <<manager, lock, storeVars, aborted>>

\* No password or no profile: give the host its routing back, then report.
NoReconnect(m) ==
  /\ pc[m] = "norec"
  /\ lock = None
  /\ preserved' = None
  /\ pc' = [pc EXCEPT ![m] = "announceError"]
  /\ aborted' = aborted \ {m}
  /\ UNCHANGED <<status, session, rx, handle, connectedId, passwords, lock,
                 storeVars, target, attempt, feed>>

\* Mutant: stands down without looking at the status.
StandDownAlways(m) ==
  /\ pc[m] = "backoff"
  /\ lock = None
  /\ preserved' = None
  /\ Finish(m)
  /\ UNCHANGED <<status, session, rx, handle, connectedId, passwords, lock,
                 storeVars, aborted, feed>>

\* The backoff is over and the status is no longer Reconnecting.
StandDown(m) ==
  /\ pc[m] = "backoff"
  /\ lock = None
  /\ status # "Reconnecting"
  /\ preserved' = None
  /\ Finish(m)
  /\ UNCHANGED <<status, session, rx, handle, connectedId, passwords, lock,
                 storeVars, aborted, feed>>

\* The backoff is over: connect in the same critical section.
Retry(m) ==
  /\ pc[m] = "backoff"
  /\ lock = None
  /\ status = "Reconnecting"
  /\ StartConnect(m)
  /\ UNCHANGED <<session, rx, handle, connectedId, passwords, preserved,
                 storeVars, target, attempt, aborted, feed>>

\* Under the mutex again after a failed attempt.
AfterFailure(m) ==
  /\ pc[m] = "failed"
  /\ lock = None
  /\ \/ /\ attempt[m] < MaxAttempts
        /\ status' = IF status = "Error" THEN "Reconnecting" ELSE status
        /\ pc' = [pc EXCEPT ![m] = "backoff"]
        /\ attempt' = [attempt EXCEPT ![m] = @ + 1]
     \/ /\ attempt[m] = MaxAttempts
        /\ pc' = [pc EXCEPT ![m] = "giveup"]
        /\ UNCHANGED <<status, attempt>>
  /\ UNCHANGED <<session, rx, handle, connectedId, passwords, preserved, lock,
                 storeVars, target, aborted, feed>>

\* Mutant: gives up without releasing the network.
GiveUpKeepsNetwork(m) ==
  /\ pc[m] = "giveup"
  /\ lock = None
  /\ status' = IF status = "Reconnecting" THEN "Error" ELSE status
  /\ pc' = [pc EXCEPT ![m] = "announceError"]
  /\ UNCHANGED <<session, rx, handle, connectedId, passwords, preserved, lock,
                 storeVars, target, attempt, aborted, feed>>

\* Out of attempts: release the network, settle on Error.
GiveUp(m) ==
  /\ pc[m] = "giveup"
  /\ lock = None
  /\ preserved' = None
  /\ status' = IF status = "Reconnecting" THEN "Error" ELSE status
  /\ pc' = [pc EXCEPT ![m] = "announceError"]
  /\ UNCHANGED <<session, rx, handle, connectedId, passwords, lock, storeVars,
                 target, attempt, aborted, feed>>

-----------------------------------------------------------------------------
ConnectEnds(p) == ConnectSucceeds(p) \/ ConnectFails(p)

\* Steps a task takes by itself once it runs or gets the mutex.
ClientStep(c) == ClientConnect(c) \/ SpawnMonitor(c) \/ Announce(c)

MonitorStep(m) ==
  \/ SpawnMonitor(m) \/ Announce(m) \/ AbortLands(m) \/ HandleDeath(m)
  \/ HandleDeathTooLate(m) \/ MonitorLookUp(m) \/ NoReconnect(m) \/ StandDown(m) \/ Retry(m)
  \/ AfterFailure(m) \/ GiveUp(m)

Next ==
  \/ \E p \in Procs : ConnectEnds(p)
  \/ \E c \in Clients :
       \/ ClientStep(c)
       \/ Disconnect(c)
       \/ \E p \in Profiles : LookUp(c, p)
  \/ \E m \in Sessions : SeeDeath(m) \/ MonitorStep(m)
  \/ \E p \in Profiles : SaveProfile(p) \/ DeleteProfile(p)

Spec == Init /\ [][Next]_vars

(* tokio's scheduler runs every task that can run, and its Mutex is FIFO:  *)
(* a task whose turn on the mutex comes again and again gets it.  Nothing  *)
(* is assumed of ConnectEnds: the handshake has steps without a timeout.   *)
Fairness ==
  /\ \A c \in Clients : SF_vars(ClientStep(c))
  /\ \A m \in Sessions : SF_vars(MonitorStep(m))

FairSpec == Spec /\ Fairness
=============================================================================
