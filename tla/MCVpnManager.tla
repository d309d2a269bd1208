---------------------------- MODULE MCVpnManager ----------------------------
(***************************************************************************)
(* The connection manager for TLC.                                         *)
(***************************************************************************)
EXTENDS VpnManagerProperties, TLC

\* Nothing orders clients, sessions or profiles.  Sound for safety only.
Symmetry ==
  Permutations(Clients) \cup Permutations(Sessions) \cup Permutations(Profiles)

(* The state without the last event, on which no action and none of the    *)
(* properties of the safety runs depend.                                   *)
StateView ==
  <<manager, lock, storeVars, pc, target, attempt, aborted>>
=============================================================================
