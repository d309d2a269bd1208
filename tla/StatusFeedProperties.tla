------------------------- MODULE StatusFeedProperties -------------------------
\* What the tray's user may rely on.
EXTENDS StatusFeed

TypeOK ==
  /\ up \in BOOLEAN
  /\ status \in Status
  /\ lock \in Tasks \cup {None}
  /\ pc \in [Tasks -> {"free", "connect", "disconnect", "connecting", "send", "backoff",
                       "failed"}]
  /\ out \in [Tasks -> {"connected", "reconnecting", "error", None}]
  /\ sub \in {"off", "on", "cut", "ended"}
  /\ unread \in Seq(Status) /\ Len(unread) <= Capacity
  /\ queue \in Seq(Status) /\ Len(queue) <= MaxQueue
  /\ cached \in Status \cup {None}
  /\ told \in BOOLEAN /\ icon \in BOOLEAN
  /\ main \in {"start", "idle", "call", "ask", "gone"}
  /\ call \in Conns \cup {None}

(* When the last event the tray is subscribed to tells the status and       *)
(* nothing is on its way, the menu and the icon show it: however many       *)
(* events a full channel has lost, and whatever the main thread has fetched *)
(* past the events it had not taken (ipc.rs:86-108, main.rs:96-108,         *)
(* 132-164, 229-255).                                                       *)
ShowsWhatItWasTold ==
  told /\ main = "idle" /\ queue = <<>> /\ unread = <<>>
    => cached = status /\ icon = (status = "connected")

(* From then on the tray comes to show it, although its main thread waits   *)
(* for answers the daemon may never give (ipc_client.rs:33-35,              *)
(* main.rs:96-108).                                                         *)
SettlesOnTold ==
  <>[](told /\ main # "gone") => <>[](cached = status /\ icon = (status = "connected"))
=============================================================================
