-------------------------- MODULE VpnManagerProofs --------------------------
(***************************************************************************)
(* The connection manager for any number of clients, sessions, profiles    *)
(* and reconnect attempts.                                                 *)
(***************************************************************************)
EXTENDS VpnManagerProperties, TLAPS

-----------------------------------------------------------------------------
(* The inductive invariant *)

\* The status tells whether a session is up.
SessionIffConnected == (session # None) <=> (status = "Connected")

\* The mutex is held across a handshake, whose start left Connecting.
LockInv ==
  /\ \A p \in Procs : lock = p <=> pc[p] = "connecting"
  /\ lock # None => status = "Connecting"

\* The receiver and the handle belong to the session that is up.
WatchInv ==
  /\ rx => session # None /\ pc[session] = "idle"
  /\ handle # None => handle = session
  /\ SessionWatched

\* The password and the profile are those of the session.
SecretInv ==
  /\ connectedId # None => session # None
  /\ SecretFollowsSession
  /\ \A p \in Procs : pc[p] = "connecting" \/ pc[p] = "backoff" \/ pc[p] = "failed"
                        \/ pc[p] = "want" \/ pc[p] = "lookup"
       => target[p] # None

\* A network is held beside no session, by a monitor in the reconnect path.
NetworkInv ==
  /\ preserved # None => session = None
  /\ preserved # None /\ ~poisoned
       => pc[preserved] \in ReconnectPC /\ preserved \notin aborted

\* An abort is pending only before the second use of the mutex.
AbortInv == \A m \in aborted : pc[m] \in {"dead", "norec"}

IInv ==
  /\ TypeOK
  /\ SessionIffConnected
  /\ LockInv
  /\ WatchInv
  /\ MonitorOwnsSession
  /\ SecretInv
  /\ NetworkInv
  /\ AbortInv

LEMMA InitIInv == Init => IInv
<1> SUFFICES ASSUME Init PROVE IInv
  OBVIOUS
<1> USE ConstantsOK DEF Init, Procs
<1>1. TypeOK
  <2>1. /\ pc \in [Procs -> PC]
        /\ target \in [Procs -> Profiles \cup {None}]
        /\ attempt \in [Sessions -> 0 .. MaxAttempts]
    BY DEF PC
  <2>2. poisoned \in BOOLEAN /\ rx \in BOOLEAN /\ store \subseteq Profiles
    BY Zenon
  <2> QED
    BY <2>1, <2>2 DEF TypeOK, Status
<1>2. SessionIffConnected /\ LockInv /\ WatchInv
  BY DEF SessionIffConnected, LockInv, WatchInv, SessionWatched
<1>3. MonitorOwnsSession /\ SecretInv /\ NetworkInv /\ AbortInv
  BY DEF MonitorOwnsSession, SecretInv, SecretFollowsSession, NetworkInv, AbortInv
<1> QED
  BY <1>1, <1>2, <1>3 DEF IInv

-----------------------------------------------------------------------------
(* Type correctness: one step of each action *)

LEMMA TypeStep == TypeOK /\ SecretInv /\ [Next]_vars => TypeOK'
<1> SUFFICES ASSUME TypeOK, SecretInv, [Next]_vars PROVE TypeOK'
  OBVIOUS
<1> USE ConstantsOK DEF TypeOK, Status, PC, Procs, manager, storeVars
<1>1. ASSUME NEW p \in Procs, ConnectSucceeds(p) PROVE TypeOK'
  BY <1>1 DEF ConnectSucceeds, SecretInv
<1>2. ASSUME NEW p \in Procs, ConnectFails(p) PROVE TypeOK'
  BY <1>2 DEF ConnectFails, OnFailure
<1>3. ASSUME NEW p \in Procs, SpawnMonitor(p) PROVE TypeOK'
  BY <1>3 DEF SpawnMonitor
<1>4. ASSUME NEW p \in Procs, Announce(p) PROVE TypeOK'
  BY <1>4 DEF Announce, Finish
<1>5. ASSUME NEW c \in Clients, ClientConnect(c) PROVE TypeOK'
  <2>1. CASE status = "Connected"
    BY <1>5, <2>1 DEF ClientConnect
  <2>2. CASE StartConnect(c)
    BY <1>5, <2>2 DEF ClientConnect, StartConnect, OnFailure
  <2> QED
    BY <1>5, <2>1, <2>2 DEF ClientConnect
<1>6. ASSUME NEW c \in Clients, Disconnect(c) PROVE TypeOK'
  BY <1>6 DEF Disconnect
<1>7. ASSUME NEW c \in Clients, NEW p \in Profiles, LookUp(c, p) PROVE TypeOK'
  BY <1>7 DEF LookUp
<1>8. ASSUME NEW p \in Profiles, SaveProfile(p) \/ DeleteProfile(p) PROVE TypeOK'
  BY <1>8 DEF SaveProfile, DeleteProfile, StoreWrite
<1>9. ASSUME NEW m \in Sessions, SeeDeath(m) PROVE TypeOK'
  BY <1>9 DEF SeeDeath
<1>10. ASSUME NEW m \in Sessions, AbortLands(m) PROVE TypeOK'
  BY <1>10 DEF AbortLands, Finish
<1>11. ASSUME NEW m \in Sessions, HandleDeath(m) PROVE TypeOK'
  BY <1>11 DEF HandleDeath, ReconnectInfo
<1>12. ASSUME NEW m \in Sessions, MonitorLookUp(m) PROVE TypeOK'
  BY <1>12 DEF MonitorLookUp, Finish
<1>13. ASSUME NEW m \in Sessions, NoReconnect(m) PROVE TypeOK'
  BY <1>13 DEF NoReconnect
<1>14. ASSUME NEW m \in Sessions, StandDown(m) PROVE TypeOK'
  BY <1>14 DEF StandDown, Finish
<1>15. ASSUME NEW m \in Sessions, Retry(m) PROVE TypeOK'
  BY <1>15 DEF Retry, StartConnect, OnFailure
<1>16. ASSUME NEW m \in Sessions, AfterFailure(m) PROVE TypeOK'
  BY <1>16 DEF AfterFailure
<1>17. ASSUME NEW m \in Sessions, GiveUp(m) PROVE TypeOK'
  BY <1>17 DEF GiveUp
<1>18. CASE UNCHANGED vars
  BY <1>18 DEF vars
<1>19. ASSUME NEW m \in Sessions, HandleDeathTooLate(m) PROVE TypeOK'
  BY <1>19 DEF HandleDeathTooLate, Finish
<1> QED
  BY <1>1, <1>2, <1>3, <1>4, <1>5, <1>6, <1>7, <1>8, <1>9, <1>10, <1>11, <1>12,
     <1>13, <1>14, <1>15, <1>16, <1>17, <1>18, <1>19
     DEF Next, ConnectEnds, ClientStep, MonitorStep

-----------------------------------------------------------------------------
(* The other parts of the invariant: one lemma per part, one step per action *)

LEMMA SessionIffConnectedStep == IInv /\ [Next]_vars => SessionIffConnected'
<1> SUFFICES ASSUME IInv, [Next]_vars PROVE SessionIffConnected'
  OBVIOUS
<1>a. TypeOK' /\ SessionIffConnected
  BY TypeStep DEF IInv
<1> USE ConstantsOK, <1>a DEF IInv, TypeOK, Procs, manager, storeVars, SessionIffConnected,
          LockInv
<1>1. ASSUME NEW p \in Procs, ConnectSucceeds(p) PROVE SessionIffConnected'
  BY <1>1 DEF ConnectSucceeds, Fresh
<1>2. ASSUME NEW p \in Procs, ConnectFails(p) PROVE SessionIffConnected'
  BY <1>2 DEF ConnectFails, OnFailure
<1>3. ASSUME NEW p \in Procs, SpawnMonitor(p) PROVE SessionIffConnected'
  BY <1>3 DEF SpawnMonitor
<1>4. ASSUME NEW p \in Procs, Announce(p) PROVE SessionIffConnected'
  BY <1>4 DEF Announce, Finish
<1>5. ASSUME NEW c \in Clients, ClientConnect(c) PROVE SessionIffConnected'
  BY <1>5 DEF ClientConnect, StartConnect, OnFailure
<1>6. ASSUME NEW c \in Clients, Disconnect(c) PROVE SessionIffConnected'
  BY <1>6 DEF Disconnect
<1>7. ASSUME NEW c \in Clients, NEW p \in Profiles, LookUp(c, p) PROVE SessionIffConnected'
  BY <1>7 DEF LookUp
<1>8. ASSUME NEW p \in Profiles, SaveProfile(p) \/ DeleteProfile(p) PROVE SessionIffConnected'
  BY <1>8 DEF SaveProfile, DeleteProfile, StoreWrite
<1>9. ASSUME NEW m \in Sessions, SeeDeath(m) PROVE SessionIffConnected'
  BY <1>9 DEF SeeDeath
<1>10. ASSUME NEW m \in Sessions, AbortLands(m) PROVE SessionIffConnected'
  BY <1>10 DEF AbortLands, Finish
<1>11. ASSUME NEW m \in Sessions, HandleDeath(m) PROVE SessionIffConnected'
  BY <1>11 DEF HandleDeath, ReconnectInfo
<1>12. ASSUME NEW m \in Sessions, MonitorLookUp(m) PROVE SessionIffConnected'
  BY <1>12 DEF MonitorLookUp, Finish
<1>13. ASSUME NEW m \in Sessions, NoReconnect(m) PROVE SessionIffConnected'
  BY <1>13 DEF NoReconnect
<1>14. ASSUME NEW m \in Sessions, StandDown(m) PROVE SessionIffConnected'
  BY <1>14 DEF StandDown, Finish
<1>15. ASSUME NEW m \in Sessions, Retry(m) PROVE SessionIffConnected'
  BY <1>15 DEF Retry, StartConnect, OnFailure
<1>16. ASSUME NEW m \in Sessions, AfterFailure(m) PROVE SessionIffConnected'
  BY <1>16 DEF AfterFailure
<1>17. ASSUME NEW m \in Sessions, GiveUp(m) PROVE SessionIffConnected'
  BY <1>17 DEF GiveUp
<1>18. CASE UNCHANGED vars
  BY <1>18 DEF vars
<1>19. ASSUME NEW m \in Sessions, HandleDeathTooLate(m) PROVE SessionIffConnected'
  BY <1>19 DEF HandleDeathTooLate, Finish
<1> QED
  BY <1>1, <1>2, <1>3, <1>4, <1>5, <1>6, <1>7, <1>8, <1>9, <1>10, <1>11, <1>12, <1>13, <1>14, <1>15, <1>16, <1>17, <1>18, <1>19
     DEF Next, ConnectEnds, ClientStep, MonitorStep

LEMMA LockInvStep == IInv /\ [Next]_vars => LockInv'
<1> SUFFICES ASSUME IInv, [Next]_vars PROVE LockInv'
  OBVIOUS
<1>a. TypeOK' /\ LockInv
  BY TypeStep DEF IInv
<1> USE ConstantsOK, <1>a DEF IInv, TypeOK, Procs, manager, storeVars, LockInv, SessionIffConnected,
          AbortInv
<1>1. ASSUME NEW p \in Procs, ConnectSucceeds(p) PROVE LockInv'
  BY <1>1 DEF ConnectSucceeds, Fresh
<1>2. ASSUME NEW p \in Procs, ConnectFails(p) PROVE LockInv'
  BY <1>2 DEF ConnectFails, OnFailure
<1>3. ASSUME NEW p \in Procs, SpawnMonitor(p) PROVE LockInv'
  BY <1>3 DEF SpawnMonitor
<1>4. ASSUME NEW p \in Procs, Announce(p) PROVE LockInv'
  BY <1>4 DEF Announce, Finish
<1>5. ASSUME NEW c \in Clients, ClientConnect(c) PROVE LockInv'
  BY <1>5 DEF ClientConnect, StartConnect, OnFailure
<1>6. ASSUME NEW c \in Clients, Disconnect(c) PROVE LockInv'
  BY <1>6 DEF Disconnect
<1>7. ASSUME NEW c \in Clients, NEW p \in Profiles, LookUp(c, p) PROVE LockInv'
  BY <1>7 DEF LookUp
<1>8. ASSUME NEW p \in Profiles, SaveProfile(p) \/ DeleteProfile(p) PROVE LockInv'
  BY <1>8 DEF SaveProfile, DeleteProfile, StoreWrite
<1>9. ASSUME NEW m \in Sessions, SeeDeath(m) PROVE LockInv'
  BY <1>9 DEF SeeDeath
<1>10. ASSUME NEW m \in Sessions, AbortLands(m) PROVE LockInv'
  BY <1>10 DEF AbortLands, Finish
<1>11. ASSUME NEW m \in Sessions, HandleDeath(m) PROVE LockInv'
  BY <1>11 DEF HandleDeath, ReconnectInfo
<1>12. ASSUME NEW m \in Sessions, MonitorLookUp(m) PROVE LockInv'
  BY <1>12 DEF MonitorLookUp, Finish
<1>13. ASSUME NEW m \in Sessions, NoReconnect(m) PROVE LockInv'
  BY <1>13 DEF NoReconnect
<1>14. ASSUME NEW m \in Sessions, StandDown(m) PROVE LockInv'
  BY <1>14 DEF StandDown, Finish
<1>15. ASSUME NEW m \in Sessions, Retry(m) PROVE LockInv'
  BY <1>15 DEF Retry, StartConnect, OnFailure
<1>16. ASSUME NEW m \in Sessions, AfterFailure(m) PROVE LockInv'
  BY <1>16 DEF AfterFailure
<1>17. ASSUME NEW m \in Sessions, GiveUp(m) PROVE LockInv'
  BY <1>17 DEF GiveUp
<1>18. CASE UNCHANGED vars
  BY <1>18 DEF vars
<1>19. ASSUME NEW m \in Sessions, HandleDeathTooLate(m) PROVE LockInv'
  BY <1>19 DEF HandleDeathTooLate, Finish
<1> QED
  BY <1>1, <1>2, <1>3, <1>4, <1>5, <1>6, <1>7, <1>8, <1>9, <1>10, <1>11, <1>12, <1>13, <1>14, <1>15, <1>16, <1>17, <1>18, <1>19
     DEF Next, ConnectEnds, ClientStep, MonitorStep

LEMMA WatchInvStep == IInv /\ [Next]_vars => WatchInv'
<1> SUFFICES ASSUME IInv, [Next]_vars PROVE WatchInv'
  OBVIOUS
<1>a. TypeOK' /\ WatchInv
  BY TypeStep DEF IInv
<1> USE ConstantsOK, <1>a DEF IInv, TypeOK, Procs, manager, storeVars, WatchInv, SessionWatched,
          SessionIffConnected, LockInv, MonitorOwnsSession, AbortInv
<1>1. ASSUME NEW p \in Procs, ConnectSucceeds(p) PROVE WatchInv'
  BY <1>1 DEF ConnectSucceeds, Fresh
<1>2. ASSUME NEW p \in Procs, ConnectFails(p) PROVE WatchInv'
  BY <1>2 DEF ConnectFails, OnFailure
<1>3. ASSUME NEW p \in Procs, SpawnMonitor(p) PROVE WatchInv'
  BY <1>3 DEF SpawnMonitor
<1>4. ASSUME NEW p \in Procs, Announce(p) PROVE WatchInv'
  BY <1>4 DEF Announce, Finish
<1>5. ASSUME NEW c \in Clients, ClientConnect(c) PROVE WatchInv'
  BY <1>5 DEF ClientConnect, StartConnect, OnFailure
<1>6. ASSUME NEW c \in Clients, Disconnect(c) PROVE WatchInv'
  BY <1>6 DEF Disconnect
<1>7. ASSUME NEW c \in Clients, NEW p \in Profiles, LookUp(c, p) PROVE WatchInv'
  BY <1>7 DEF LookUp
<1>8. ASSUME NEW p \in Profiles, SaveProfile(p) \/ DeleteProfile(p) PROVE WatchInv'
  BY <1>8 DEF SaveProfile, DeleteProfile, StoreWrite
<1>9. ASSUME NEW m \in Sessions, SeeDeath(m) PROVE WatchInv'
  BY <1>9 DEF SeeDeath
<1>10. ASSUME NEW m \in Sessions, AbortLands(m) PROVE WatchInv'
  BY <1>10 DEF AbortLands, Finish
<1>11. ASSUME NEW m \in Sessions, HandleDeath(m) PROVE WatchInv'
  BY <1>11 DEF HandleDeath, ReconnectInfo
<1>12. ASSUME NEW m \in Sessions, MonitorLookUp(m) PROVE WatchInv'
  BY <1>12 DEF MonitorLookUp, Finish
<1>13. ASSUME NEW m \in Sessions, NoReconnect(m) PROVE WatchInv'
  BY <1>13 DEF NoReconnect
<1>14. ASSUME NEW m \in Sessions, StandDown(m) PROVE WatchInv'
  BY <1>14 DEF StandDown, Finish
<1>15. ASSUME NEW m \in Sessions, Retry(m) PROVE WatchInv'
  BY <1>15 DEF Retry, StartConnect, OnFailure
<1>16. ASSUME NEW m \in Sessions, AfterFailure(m) PROVE WatchInv'
  BY <1>16 DEF AfterFailure
<1>17. ASSUME NEW m \in Sessions, GiveUp(m) PROVE WatchInv'
  BY <1>17 DEF GiveUp
<1>18. CASE UNCHANGED vars
  BY <1>18 DEF vars
<1>19. ASSUME NEW m \in Sessions, HandleDeathTooLate(m) PROVE WatchInv'
  BY <1>19 DEF HandleDeathTooLate, Finish
<1> QED
  BY <1>1, <1>2, <1>3, <1>4, <1>5, <1>6, <1>7, <1>8, <1>9, <1>10, <1>11, <1>12, <1>13, <1>14, <1>15, <1>16, <1>17, <1>18, <1>19
     DEF Next, ConnectEnds, ClientStep, MonitorStep

LEMMA MonitorOwnsSessionStep == IInv /\ [Next]_vars => MonitorOwnsSession'
<1> SUFFICES ASSUME IInv, [Next]_vars PROVE MonitorOwnsSession'
  OBVIOUS
<1>a. TypeOK' /\ MonitorOwnsSession
  BY TypeStep DEF IInv
<1> USE ConstantsOK, <1>a DEF IInv, TypeOK, Procs, manager, storeVars, MonitorOwnsSession,
          WatchInv, SessionWatched, SessionIffConnected, LockInv
<1>1. ASSUME NEW p \in Procs, ConnectSucceeds(p) PROVE MonitorOwnsSession'
  BY <1>1 DEF ConnectSucceeds, Fresh
<1>2. ASSUME NEW p \in Procs, ConnectFails(p) PROVE MonitorOwnsSession'
  BY <1>2 DEF ConnectFails, OnFailure
<1>3. ASSUME NEW p \in Procs, SpawnMonitor(p) PROVE MonitorOwnsSession'
  BY <1>3 DEF SpawnMonitor
<1>4. ASSUME NEW p \in Procs, Announce(p) PROVE MonitorOwnsSession'
  BY <1>4 DEF Announce, Finish
<1>5. ASSUME NEW c \in Clients, ClientConnect(c) PROVE MonitorOwnsSession'
  BY <1>5 DEF ClientConnect, StartConnect, OnFailure
<1>6. ASSUME NEW c \in Clients, Disconnect(c) PROVE MonitorOwnsSession'
  BY <1>6 DEF Disconnect
<1>7. ASSUME NEW c \in Clients, NEW p \in Profiles, LookUp(c, p) PROVE MonitorOwnsSession'
  BY <1>7 DEF LookUp
<1>8. ASSUME NEW p \in Profiles, SaveProfile(p) \/ DeleteProfile(p) PROVE MonitorOwnsSession'
  BY <1>8 DEF SaveProfile, DeleteProfile, StoreWrite
<1>9. ASSUME NEW m \in Sessions, SeeDeath(m) PROVE MonitorOwnsSession'
  BY <1>9 DEF SeeDeath
<1>10. ASSUME NEW m \in Sessions, AbortLands(m) PROVE MonitorOwnsSession'
  BY <1>10 DEF AbortLands, Finish
<1>11. ASSUME NEW m \in Sessions, HandleDeath(m) PROVE MonitorOwnsSession'
  BY <1>11 DEF HandleDeath, ReconnectInfo
<1>12. ASSUME NEW m \in Sessions, MonitorLookUp(m) PROVE MonitorOwnsSession'
  BY <1>12 DEF MonitorLookUp, Finish
<1>13. ASSUME NEW m \in Sessions, NoReconnect(m) PROVE MonitorOwnsSession'
  BY <1>13 DEF NoReconnect
<1>14. ASSUME NEW m \in Sessions, StandDown(m) PROVE MonitorOwnsSession'
  BY <1>14 DEF StandDown, Finish
<1>15. ASSUME NEW m \in Sessions, Retry(m) PROVE MonitorOwnsSession'
  BY <1>15 DEF Retry, StartConnect, OnFailure
<1>16. ASSUME NEW m \in Sessions, AfterFailure(m) PROVE MonitorOwnsSession'
  BY <1>16 DEF AfterFailure
<1>17. ASSUME NEW m \in Sessions, GiveUp(m) PROVE MonitorOwnsSession'
  BY <1>17 DEF GiveUp
<1>18. CASE UNCHANGED vars
  BY <1>18 DEF vars
<1>19. ASSUME NEW m \in Sessions, HandleDeathTooLate(m) PROVE MonitorOwnsSession'
  BY <1>19 DEF HandleDeathTooLate, Finish
<1> QED
  BY <1>1, <1>2, <1>3, <1>4, <1>5, <1>6, <1>7, <1>8, <1>9, <1>10, <1>11, <1>12, <1>13, <1>14, <1>15, <1>16, <1>17, <1>18, <1>19
     DEF Next, ConnectEnds, ClientStep, MonitorStep

LEMMA SecretInvStep == IInv /\ [Next]_vars => SecretInv'
<1> SUFFICES ASSUME IInv, [Next]_vars PROVE SecretInv'
  OBVIOUS
<1>a. TypeOK' /\ SecretInv
  BY TypeStep DEF IInv
<1> USE ConstantsOK, <1>a DEF IInv, TypeOK, Procs, manager, storeVars, SecretInv,
          SecretFollowsSession, SessionIffConnected, LockInv
<1>1. ASSUME NEW p \in Procs, ConnectSucceeds(p) PROVE SecretInv'
  BY <1>1 DEF ConnectSucceeds, Fresh
<1>2. ASSUME NEW p \in Procs, ConnectFails(p) PROVE SecretInv'
  BY <1>2 DEF ConnectFails, OnFailure
<1>3. ASSUME NEW p \in Procs, SpawnMonitor(p) PROVE SecretInv'
  BY <1>3 DEF SpawnMonitor
<1>4. ASSUME NEW p \in Procs, Announce(p) PROVE SecretInv'
  BY <1>4 DEF Announce, Finish
<1>5. ASSUME NEW c \in Clients, ClientConnect(c) PROVE SecretInv'
  BY <1>5 DEF ClientConnect, StartConnect, OnFailure
<1>6. ASSUME NEW c \in Clients, Disconnect(c) PROVE SecretInv'
  BY <1>6 DEF Disconnect
<1>7. ASSUME NEW c \in Clients, NEW p \in Profiles, LookUp(c, p) PROVE SecretInv'
  BY <1>7 DEF LookUp
<1>8. ASSUME NEW p \in Profiles, SaveProfile(p) \/ DeleteProfile(p) PROVE SecretInv'
  BY <1>8 DEF SaveProfile, DeleteProfile, StoreWrite
<1>9. ASSUME NEW m \in Sessions, SeeDeath(m) PROVE SecretInv'
  BY <1>9 DEF SeeDeath
<1>10. ASSUME NEW m \in Sessions, AbortLands(m) PROVE SecretInv'
  BY <1>10 DEF AbortLands, Finish
<1>11. ASSUME NEW m \in Sessions, HandleDeath(m) PROVE SecretInv'
  BY <1>11 DEF HandleDeath, ReconnectInfo
<1>12. ASSUME NEW m \in Sessions, MonitorLookUp(m) PROVE SecretInv'
  BY <1>12 DEF MonitorLookUp, Finish
<1>13. ASSUME NEW m \in Sessions, NoReconnect(m) PROVE SecretInv'
  BY <1>13 DEF NoReconnect
<1>14. ASSUME NEW m \in Sessions, StandDown(m) PROVE SecretInv'
  BY <1>14 DEF StandDown, Finish
<1>15. ASSUME NEW m \in Sessions, Retry(m) PROVE SecretInv'
  BY <1>15 DEF Retry, StartConnect, OnFailure
<1>16. ASSUME NEW m \in Sessions, AfterFailure(m) PROVE SecretInv'
  BY <1>16 DEF AfterFailure
<1>17. ASSUME NEW m \in Sessions, GiveUp(m) PROVE SecretInv'
  BY <1>17 DEF GiveUp
<1>18. CASE UNCHANGED vars
  BY <1>18 DEF vars
<1>19. ASSUME NEW m \in Sessions, HandleDeathTooLate(m) PROVE SecretInv'
  BY <1>19 DEF HandleDeathTooLate, Finish
<1> QED
  BY <1>1, <1>2, <1>3, <1>4, <1>5, <1>6, <1>7, <1>8, <1>9, <1>10, <1>11, <1>12, <1>13, <1>14, <1>15, <1>16, <1>17, <1>18, <1>19
     DEF Next, ConnectEnds, ClientStep, MonitorStep

LEMMA NetworkInvStep == IInv /\ [Next]_vars => NetworkInv'
<1> SUFFICES ASSUME IInv, [Next]_vars PROVE NetworkInv'
  OBVIOUS
<1>a. TypeOK' /\ NetworkInv
  BY TypeStep DEF IInv
<1> USE ConstantsOK, <1>a DEF IInv, TypeOK, Procs, manager, storeVars, NetworkInv, ReconnectPC,
          SessionIffConnected, LockInv, MonitorOwnsSession, WatchInv, SessionWatched
<1>1. ASSUME NEW p \in Procs, ConnectSucceeds(p) PROVE NetworkInv'
  BY <1>1 DEF ConnectSucceeds, Fresh
<1>2. ASSUME NEW p \in Procs, ConnectFails(p) PROVE NetworkInv'
  BY <1>2 DEF ConnectFails, OnFailure
<1>3. ASSUME NEW p \in Procs, SpawnMonitor(p) PROVE NetworkInv'
  BY <1>3 DEF SpawnMonitor
<1>4. ASSUME NEW p \in Procs, Announce(p) PROVE NetworkInv'
  BY <1>4 DEF Announce, Finish
<1>5. ASSUME NEW c \in Clients, ClientConnect(c) PROVE NetworkInv'
  BY <1>5 DEF ClientConnect, StartConnect, OnFailure
<1>6. ASSUME NEW c \in Clients, Disconnect(c) PROVE NetworkInv'
  BY <1>6 DEF Disconnect
<1>7. ASSUME NEW c \in Clients, NEW p \in Profiles, LookUp(c, p) PROVE NetworkInv'
  BY <1>7 DEF LookUp
<1>8. ASSUME NEW p \in Profiles, SaveProfile(p) \/ DeleteProfile(p) PROVE NetworkInv'
  BY <1>8 DEF SaveProfile, DeleteProfile, StoreWrite
<1>9. ASSUME NEW m \in Sessions, SeeDeath(m) PROVE NetworkInv'
  BY <1>9 DEF SeeDeath
<1>10. ASSUME NEW m \in Sessions, AbortLands(m) PROVE NetworkInv'
  BY <1>10 DEF AbortLands, Finish
<1>11. ASSUME NEW m \in Sessions, HandleDeath(m) PROVE NetworkInv'
  BY <1>11 DEF HandleDeath, ReconnectInfo
<1>12. ASSUME NEW m \in Sessions, MonitorLookUp(m) PROVE NetworkInv'
  BY <1>12 DEF MonitorLookUp, Finish
<1>13. ASSUME NEW m \in Sessions, NoReconnect(m) PROVE NetworkInv'
  BY <1>13 DEF NoReconnect
<1>14. ASSUME NEW m \in Sessions, StandDown(m) PROVE NetworkInv'
  BY <1>14 DEF StandDown, Finish
<1>15. ASSUME NEW m \in Sessions, Retry(m) PROVE NetworkInv'
  BY <1>15 DEF Retry, StartConnect, OnFailure
<1>16. ASSUME NEW m \in Sessions, AfterFailure(m) PROVE NetworkInv'
  BY <1>16 DEF AfterFailure
<1>17. ASSUME NEW m \in Sessions, GiveUp(m) PROVE NetworkInv'
  BY <1>17 DEF GiveUp
<1>18. CASE UNCHANGED vars
  BY <1>18 DEF vars
<1>19. ASSUME NEW m \in Sessions, HandleDeathTooLate(m) PROVE NetworkInv'
  BY <1>19 DEF HandleDeathTooLate, Finish
<1> QED
  BY <1>1, <1>2, <1>3, <1>4, <1>5, <1>6, <1>7, <1>8, <1>9, <1>10, <1>11, <1>12, <1>13, <1>14, <1>15, <1>16, <1>17, <1>18, <1>19
     DEF Next, ConnectEnds, ClientStep, MonitorStep

LEMMA AbortInvStep == IInv /\ [Next]_vars => AbortInv'
<1> SUFFICES ASSUME IInv, [Next]_vars PROVE AbortInv'
  OBVIOUS
<1>a. TypeOK' /\ AbortInv
  BY TypeStep DEF IInv
<1> USE ConstantsOK, <1>a DEF IInv, TypeOK, Procs, manager, storeVars, AbortInv, WatchInv, SessionWatched,
          SecretInv
<1>1. ASSUME NEW p \in Procs, ConnectSucceeds(p) PROVE AbortInv'
  BY <1>1 DEF ConnectSucceeds, Fresh
<1>2. ASSUME NEW p \in Procs, ConnectFails(p) PROVE AbortInv'
  BY <1>2 DEF ConnectFails, OnFailure
<1>3. ASSUME NEW p \in Procs, SpawnMonitor(p) PROVE AbortInv'
  BY <1>3 DEF SpawnMonitor
<1>4. ASSUME NEW p \in Procs, Announce(p) PROVE AbortInv'
  BY <1>4 DEF Announce, Finish
<1>5. ASSUME NEW c \in Clients, ClientConnect(c) PROVE AbortInv'
  BY <1>5 DEF ClientConnect, StartConnect, OnFailure
<1>6. ASSUME NEW c \in Clients, Disconnect(c) PROVE AbortInv'
  BY <1>6 DEF Disconnect
<1>7. ASSUME NEW c \in Clients, NEW p \in Profiles, LookUp(c, p) PROVE AbortInv'
  BY <1>7 DEF LookUp
<1>8. ASSUME NEW p \in Profiles, SaveProfile(p) \/ DeleteProfile(p) PROVE AbortInv'
  BY <1>8 DEF SaveProfile, DeleteProfile, StoreWrite
<1>9. ASSUME NEW m \in Sessions, SeeDeath(m) PROVE AbortInv'
  BY <1>9 DEF SeeDeath
<1>10. ASSUME NEW m \in Sessions, AbortLands(m) PROVE AbortInv'
  BY <1>10 DEF AbortLands, Finish
<1>11. ASSUME NEW m \in Sessions, HandleDeath(m) PROVE AbortInv'
  BY <1>11 DEF HandleDeath, ReconnectInfo
<1>12. ASSUME NEW m \in Sessions, MonitorLookUp(m) PROVE AbortInv'
  BY <1>12 DEF MonitorLookUp, Finish
<1>13. ASSUME NEW m \in Sessions, NoReconnect(m) PROVE AbortInv'
  BY <1>13 DEF NoReconnect
<1>14. ASSUME NEW m \in Sessions, StandDown(m) PROVE AbortInv'
  BY <1>14 DEF StandDown, Finish
<1>15. ASSUME NEW m \in Sessions, Retry(m) PROVE AbortInv'
  BY <1>15 DEF Retry, StartConnect, OnFailure
<1>16. ASSUME NEW m \in Sessions, AfterFailure(m) PROVE AbortInv'
  BY <1>16 DEF AfterFailure
<1>17. ASSUME NEW m \in Sessions, GiveUp(m) PROVE AbortInv'
  BY <1>17 DEF GiveUp
<1>18. CASE UNCHANGED vars
  BY <1>18 DEF vars
<1>19. ASSUME NEW m \in Sessions, HandleDeathTooLate(m) PROVE AbortInv'
  BY <1>19 DEF HandleDeathTooLate, Finish
<1> QED
  BY <1>1, <1>2, <1>3, <1>4, <1>5, <1>6, <1>7, <1>8, <1>9, <1>10, <1>11, <1>12, <1>13, <1>14, <1>15, <1>16, <1>17, <1>18, <1>19
     DEF Next, ConnectEnds, ClientStep, MonitorStep

-----------------------------------------------------------------------------
(* The theorems *)

LEMMA Invariance == Spec => []IInv
<1>1. IInv /\ [Next]_vars => IInv'
  BY TypeStep, SessionIffConnectedStep, LockInvStep, WatchInvStep,
     MonitorOwnsSessionStep, SecretInvStep, NetworkInvStep, AbortInvStep DEF IInv
<1> QED
  BY InitIInv, <1>1, PTL DEF Spec

(* Every variable of the manager and of its tasks stays in its type, for   *)
(* any constants (vpn.rs, ipc.rs).                                         *)
THEOREM TypeCorrect == Spec => []TypeOK
<1>1. IInv => TypeOK
  BY DEF IInv
<1> QED
  BY Invariance, <1>1, PTL

(* Every session is watched, or a task is on its way to spawn its monitor, *)
(* however the critical sections of connects and disconnects interleave    *)
(* (ipc.rs, spawn_session_monitor and its two callers).                    *)
THEOREM EverySessionWatched == Spec => []SessionWatched
<1>1. IInv => SessionWatched
  BY DEF IInv, WatchInv
<1> QED
  BY Invariance, <1>1, PTL

(* A monitor that has not been aborted is the one of the current session   *)
(* as long as it has not handled a death (vpn.rs, ipc.rs).                 *)
THEOREM MonitorsOwnTheirSession == Spec => []MonitorOwnsSession
<1>1. IInv => MonitorOwnsSession
  BY DEF IInv
<1> QED
  BY Invariance, <1>1, PTL

(* No password outlives its session, and none is kept without the profile  *)
(* it is for (vpn.rs, session_passwords).                                  *)
THEOREM SecretsFollowSessions == Spec => []SecretFollowsSession
<1>1. IInv => SecretFollowsSession
  BY DEF IInv, SecretInv
<1> QED
  BY Invariance, <1>1, PTL

(* A held network is released by somebody unless the store is poisoned     *)
(* (vpn.rs, preserved_network).                                            *)
THEOREM NetworksHaveOwners == Spec => []NetworkHasOwner
<1>1. IInv => NetworkHasOwner
  BY DEF IInv, NetworkInv, NetworkHasOwner
<1> QED
  BY Invariance, <1>1, PTL

-----------------------------------------------------------------------------
(* The manager implements SessionLifecycle: every action is a step of the  *)
(* abstract life of sessions or changes nothing of it (vpn.rs, ipc.rs).    *)
THEOREM LifecycleImplemented == Spec => ImplementsLifecycle
<1>1. Init => Lifecycle!Init
  BY DEF Init, Lifecycle!Init
<1>2. ASSUME IInv, [Next]_vars PROVE [Lifecycle!Next]_(Lifecycle!lifecycle)
  <2> USE ConstantsOK, <1>2
      DEF IInv, TypeOK, Procs, manager, storeVars, Lifecycle!Next,
          Lifecycle!lifecycle, WatchInv, NetworkInv
  <2>1. ASSUME NEW p \in Procs, ConnectSucceeds(p)
        PROVE  \E s \in Sessions : Lifecycle!Establish(s)
    BY <2>1 DEF ConnectSucceeds, Lifecycle!Establish, LockInv, SessionIffConnected
  <2>2. ASSUME NEW p \in Procs, ConnectFails(p)
        PROVE  Lifecycle!Release \/ UNCHANGED Lifecycle!lifecycle
    BY <2>2 DEF ConnectFails, Lifecycle!Release
  <2>3. ASSUME NEW p \in Procs, SpawnMonitor(p)
        PROVE  Lifecycle!Watch \/ UNCHANGED Lifecycle!lifecycle
    BY <2>3 DEF SpawnMonitor, Lifecycle!Watch, SessionWatched
  <2>4. ASSUME NEW c \in Clients, Disconnect(c) PROVE Lifecycle!Close
    BY <2>4 DEF Disconnect, Lifecycle!Close
  <2>5. ASSUME NEW m \in Sessions, HandleDeath(m)
        PROVE  Lifecycle!Lose \/ UNCHANGED Lifecycle!lifecycle
    <3>1. CASE session = None
      BY <2>5, <3>1 DEF HandleDeath
    <3>2. CASE session # None
      BY <2>5, <3>2 DEF HandleDeath, Lifecycle!Lose, MonitorOwnsSession
    <3> QED
      BY <3>1, <3>2
  <2>6. ASSUME NEW m \in Sessions, NoReconnect(m) \/ StandDown(m) \/ GiveUp(m)
        PROVE  Lifecycle!Release
    BY <2>6 DEF NoReconnect, StandDown, GiveUp, Lifecycle!Release
  <2>7. ASSUME NEW c \in Clients, ClientConnect(c) \/ \E p \in Profiles : LookUp(c, p)
        PROVE  UNCHANGED Lifecycle!lifecycle
    BY <2>7 DEF ClientConnect, LookUp
  <2>8. ASSUME NEW p \in Procs, Announce(p) PROVE UNCHANGED Lifecycle!lifecycle
    BY <2>8 DEF Announce
  <2>9. ASSUME NEW m \in Sessions,
               SeeDeath(m) \/ AbortLands(m) \/ HandleDeathTooLate(m) \/ MonitorLookUp(m)
                 \/ Retry(m) \/ AfterFailure(m)
        PROVE  UNCHANGED Lifecycle!lifecycle
    BY <2>9 DEF SeeDeath, AbortLands, HandleDeathTooLate, MonitorLookUp, Retry, AfterFailure
  <2>10. ASSUME NEW p \in Profiles, SaveProfile(p) \/ DeleteProfile(p)
         PROVE  UNCHANGED Lifecycle!lifecycle
    BY <2>10 DEF SaveProfile, DeleteProfile, StoreWrite
  <2>11. CASE UNCHANGED vars
    BY <2>11 DEF vars
  <2> QED
    BY <2>1, <2>2, <2>3, <2>4, <2>5, <2>6, <2>7, <2>8, <2>9, <2>10, <2>11
       DEF Next, ConnectEnds, ClientStep, MonitorStep
<1> QED
  BY <1>1, <1>2, Invariance, PTL DEF Spec, ImplementsLifecycle, Lifecycle!Spec

-----------------------------------------------------------------------------
(* Reconnecting has a monitor as long as the store cannot change under it  *)

\* Whatever somebody is connecting to is in the store.
StoreInv ==
  Env \subseteq {"helper_down"} =>
    /\ ~poisoned
    /\ connectedId # None => connectedId \in store
    /\ \A p \in Procs : target[p] # None => target[p] \in store

RInv == IInv /\ StoreInv /\ ReconnectingHasMonitor

LEMMA StoreInvStep == IInv /\ StoreInv /\ [Next]_vars => StoreInv'
<1> SUFFICES ASSUME IInv, StoreInv, [Next]_vars, Env \subseteq {"helper_down"}
             PROVE  StoreInv'
  BY DEF StoreInv
<1> USE ConstantsOK DEF IInv, TypeOK, Procs, manager, storeVars, StoreInv
<1>1. ASSUME NEW p \in Procs, ConnectSucceeds(p) PROVE StoreInv'
  BY <1>1 DEF ConnectSucceeds, Fresh
<1>2. ASSUME NEW p \in Procs, ConnectFails(p) PROVE StoreInv'
  BY <1>2 DEF ConnectFails, OnFailure
<1>3. ASSUME NEW p \in Procs, SpawnMonitor(p) PROVE StoreInv'
  BY <1>3 DEF SpawnMonitor
<1>4. ASSUME NEW p \in Procs, Announce(p) PROVE StoreInv'
  BY <1>4 DEF Announce, Finish
<1>5. ASSUME NEW c \in Clients, ClientConnect(c) PROVE StoreInv'
  BY <1>5 DEF ClientConnect, StartConnect, OnFailure
<1>6. ASSUME NEW c \in Clients, Disconnect(c) PROVE StoreInv'
  BY <1>6 DEF Disconnect
<1>7. ASSUME NEW c \in Clients, NEW p \in Profiles, LookUp(c, p) PROVE StoreInv'
  BY <1>7 DEF LookUp
<1>8. ASSUME NEW p \in Profiles, SaveProfile(p) \/ DeleteProfile(p) PROVE StoreInv'
  BY <1>8 DEF SaveProfile, DeleteProfile, StoreWrite
<1>9. ASSUME NEW m \in Sessions, SeeDeath(m) PROVE StoreInv'
  BY <1>9 DEF SeeDeath
<1>10. ASSUME NEW m \in Sessions, AbortLands(m) PROVE StoreInv'
  BY <1>10 DEF AbortLands, Finish
<1>11. ASSUME NEW m \in Sessions, HandleDeath(m) PROVE StoreInv'
  BY <1>11 DEF HandleDeath, ReconnectInfo
<1>12. ASSUME NEW m \in Sessions, MonitorLookUp(m) PROVE StoreInv'
  BY <1>12 DEF MonitorLookUp, Finish
<1>13. ASSUME NEW m \in Sessions, NoReconnect(m) PROVE StoreInv'
  BY <1>13 DEF NoReconnect
<1>14. ASSUME NEW m \in Sessions, StandDown(m) PROVE StoreInv'
  BY <1>14 DEF StandDown, Finish
<1>15. ASSUME NEW m \in Sessions, Retry(m) PROVE StoreInv'
  BY <1>15 DEF Retry, StartConnect, OnFailure
<1>16. ASSUME NEW m \in Sessions, AfterFailure(m) PROVE StoreInv'
  BY <1>16 DEF AfterFailure
<1>17. ASSUME NEW m \in Sessions, GiveUp(m) PROVE StoreInv'
  BY <1>17 DEF GiveUp
<1>18. CASE UNCHANGED vars
  BY <1>18 DEF vars
<1>19. ASSUME NEW m \in Sessions, HandleDeathTooLate(m) PROVE StoreInv'
  BY <1>19 DEF HandleDeathTooLate, Finish
<1> QED
  BY <1>1, <1>2, <1>3, <1>4, <1>5, <1>6, <1>7, <1>8, <1>9, <1>10, <1>11, <1>12, <1>13, <1>14, <1>15, <1>16, <1>17, <1>18, <1>19
     DEF Next, ConnectEnds, ClientStep, MonitorStep

LEMMA ReconnectStep ==
  IInv /\ StoreInv /\ ReconnectingHasMonitor /\ [Next]_vars => ReconnectingHasMonitor'
<1> SUFFICES ASSUME IInv, StoreInv, ReconnectingHasMonitor, [Next]_vars,
                    Env \subseteq {"helper_down"}
             PROVE  ReconnectingHasMonitor'
  BY DEF ReconnectingHasMonitor
<1> USE ConstantsOK DEF IInv, TypeOK, Procs, manager, storeVars, StoreInv,
        ReconnectingHasMonitor, RetryPC, SecretInv, AbortInv, LockInv, WatchInv
<1>1. ASSUME NEW p \in Procs, ConnectSucceeds(p) PROVE ReconnectingHasMonitor'
  BY <1>1 DEF ConnectSucceeds, Fresh
<1>2. ASSUME NEW p \in Procs, ConnectFails(p) PROVE ReconnectingHasMonitor'
  BY <1>2 DEF ConnectFails, OnFailure
<1>3. ASSUME NEW p \in Procs, SpawnMonitor(p) PROVE ReconnectingHasMonitor'
  BY <1>3 DEF SpawnMonitor
<1>4. ASSUME NEW p \in Procs, Announce(p) PROVE ReconnectingHasMonitor'
  BY <1>4 DEF Announce, Finish
<1>5. ASSUME NEW c \in Clients, ClientConnect(c) PROVE ReconnectingHasMonitor'
  BY <1>5 DEF ClientConnect, StartConnect, OnFailure
<1>6. ASSUME NEW c \in Clients, Disconnect(c) PROVE ReconnectingHasMonitor'
  BY <1>6 DEF Disconnect
<1>7. ASSUME NEW c \in Clients, NEW p \in Profiles, LookUp(c, p) PROVE ReconnectingHasMonitor'
  BY <1>7 DEF LookUp
<1>8. ASSUME NEW p \in Profiles, SaveProfile(p) \/ DeleteProfile(p) PROVE ReconnectingHasMonitor'
  BY <1>8 DEF SaveProfile, DeleteProfile, StoreWrite
<1>9. ASSUME NEW m \in Sessions, SeeDeath(m) PROVE ReconnectingHasMonitor'
  BY <1>9 DEF SeeDeath
<1>10. ASSUME NEW m \in Sessions, AbortLands(m) PROVE ReconnectingHasMonitor'
  BY <1>10 DEF AbortLands, Finish
<1>11. ASSUME NEW m \in Sessions, HandleDeath(m) PROVE ReconnectingHasMonitor'
  BY <1>11 DEF HandleDeath, ReconnectInfo
<1>12. ASSUME NEW m \in Sessions, MonitorLookUp(m) PROVE ReconnectingHasMonitor'
  BY <1>12 DEF MonitorLookUp, Finish
<1>13. ASSUME NEW m \in Sessions, NoReconnect(m) PROVE ReconnectingHasMonitor'
  BY <1>13 DEF NoReconnect
<1>14. ASSUME NEW m \in Sessions, StandDown(m) PROVE ReconnectingHasMonitor'
  BY <1>14 DEF StandDown, Finish
<1>15. ASSUME NEW m \in Sessions, Retry(m) PROVE ReconnectingHasMonitor'
  BY <1>15 DEF Retry, StartConnect, OnFailure
<1>16. ASSUME NEW m \in Sessions, AfterFailure(m) PROVE ReconnectingHasMonitor'
  BY <1>16 DEF AfterFailure
<1>17. ASSUME NEW m \in Sessions, GiveUp(m) PROVE ReconnectingHasMonitor'
  BY <1>17 DEF GiveUp
<1>18. CASE UNCHANGED vars
  BY <1>18 DEF vars
<1>19. ASSUME NEW m \in Sessions, HandleDeathTooLate(m) PROVE ReconnectingHasMonitor'
  BY <1>19 DEF HandleDeathTooLate, Finish
<1> QED
  BY <1>1, <1>2, <1>3, <1>4, <1>5, <1>6, <1>7, <1>8, <1>9, <1>10, <1>11, <1>12, <1>13, <1>14, <1>15, <1>16, <1>17, <1>18, <1>19
     DEF Next, ConnectEnds, ClientStep, MonitorStep

(* With a store that can be written and no deleted profile, the status     *)
(* Reconnecting always has a monitor that will look at it again (ipc.rs,   *)
(* spawn_session_monitor).                                                 *)
THEOREM ReconnectingIsBacked == Spec => []ReconnectingHasMonitor
<1>1. Init => RInv
  BY InitIInv, ConstantsOK DEF RInv, Init, StoreInv, ReconnectingHasMonitor
<1>2. RInv /\ [Next]_vars => StoreInv' /\ ReconnectingHasMonitor'
  BY StoreInvStep, ReconnectStep DEF RInv
<1>3. IInv' /\ StoreInv' /\ ReconnectingHasMonitor' => RInv'
  BY DEF RInv
<1>4. RInv => ReconnectingHasMonitor
  BY DEF RInv
<1> QED
  BY Invariance, <1>1, <1>2, <1>3, <1>4, PTL DEF Spec
=============================================================================
