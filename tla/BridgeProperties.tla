--------------------------- MODULE BridgeProperties ---------------------------
\* What the bridge must satisfy.
EXTENDS Bridge

(* Neither the writer nor the reader ends by itself without the session     *)
(* monitor being told, whichever of them fails first and whatever the other *)
(* is waiting for (bridge.rs:102-111, 532-540, 592-594, 610-624).           *)
NoQuietEnd ==
  stop = 0 /\ (pc["writer"] = "ended" \/ pc["reader"] = "ended") => event # "alive"

(* A tunnel that has received something is not given up for its silence     *)
(* once that has been read (bridge.rs:18-21, 629-634): an idle tunnel whose *)
(* gateway answers no echo must live on its other frames.  An interval may  *)
(* have begun before the last frame.                                        *)
ExpiresOnlyWhenSilent ==
  [][event # "silence" /\ event' = "silence" /\ inbox = <<>> => silent + 1 >= MaxMissed]_vars

(* A gateway that falls silent is noticed, as long as it takes what is      *)
(* sent to it (bridge.rs:18-21, 592-608).                                   *)
SilenceNoticed ==
  <>[](inbox = <<>> /\ link = "ok") => <>(event # "alive" \/ stop > 0)

(* A closed connection is noticed, even if the reader waits for a channel   *)
(* the writer no longer empties (bridge.rs:532-540, 610-624).               *)
CloseNoticed == link = "closed" ~> event # "alive" \/ stop > 0

(* Once the session is being stopped, all tasks end and let go of the TUN   *)
(* device, also those that missed the shutdown in whatever they were        *)
(* waiting for (lib.rs, stop_bridge).                                       *)
StopEndsAllTasks == stop = 1 ~> \A t \in Task : pc[t] = "ended"
=============================================================================
