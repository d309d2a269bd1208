------------------------------ MODULE StatusFeed ------------------------------
(***************************************************************************)
(* The daemon's status events and the tray application that follows them   *)
(* (fortivpn-daemon: ipc.rs; fortivpn-app: main.rs, ipc_client.rs).        *)
(*                                                                         *)
(* Of the connection manager only what a client can see is kept: the       *)
(* status, who holds the mutex, and the events that tasks broadcast when   *)
(* they have let go of it.  The tray has a thread that subscribes, and a   *)
(* main thread that listens to it, handles clicks and waits for answers.   *)
(*                                                                         *)
(* Abstracted: profiles and passwords, wording, reconnect attempts (any    *)
(* number), notices, the seconds between two subscriptions, and the tenth  *)
(* of a second until a click is taken up.                                  *)
(***************************************************************************)
EXTENDS Naturals, Sequences

CONSTANTS
  Conns,      \* connections to the daemon, one command each
  Capacity,   \* of the broadcast channel
  MaxQueue,   \* bound of the tray's own channel
  None

\* VpnStatus, without its texts.
Status == {"disconnected", "connecting", "connected", "reconnecting", "error"}

ASSUME FeedConstants ==
  /\ "monitor" \notin Conns /\ None \notin Conns \cup Status
  /\ {Capacity, MaxQueue} \subseteq Nat \ {0}

VARIABLES
  up,       \* the daemon runs
  status,   \* VpnManager.status
  lock,     \* the task in a handshake, which holds the manager's mutex
  pc, out,  \* of a task: where it is, the event it will send
  sub,      \* the subscription
  unread,   \* events that have not reached the tray
  told,     \* history: the status has not changed since the last event, which
            \* told it, and came after the subscription
  queue,    \* STATUS_TX: statuses the main thread has not taken
  cached,   \* CACHED_STATUS, and what the menu was built from
  icon,     \* it says connected
  main, call  \* the main thread, and the command whose answer it awaits

daemon == <<up, status, lock, pc, out>>
feed == <<sub, unread, told>>
tray == <<queue, cached, icon, main>>
vars == <<daemon, feed, tray, call>>

Tasks == Conns \cup {"monitor"}

Init ==
  /\ up = TRUE
  /\ status = "disconnected"
  /\ lock = None
  /\ pc = [t \in Tasks |-> "free"]
  /\ out = [t \in Tasks |-> None]
  /\ sub = "off" /\ unread = <<>> /\ told = FALSE
  /\ queue = <<>>
  /\ cached = None
  /\ icon = FALSE
  /\ main = "start" /\ call = None

-----------------------------------------------------------------------------
(* The daemon *)

Goes(t, to) == pc' = [pc EXCEPT ![t] = to]

\* The mutex is released; the event is sent after it.
WillSend(t, e) ==
  /\ Goes(t, "send")
  /\ out' = [out EXCEPT ![t] = e]

\* Mutant: a subscriber that lags goes on with what comes next.
UnreadFromNext(e) ==
  LET all == Append(unread, e)
  IN  IF Len(all) > Capacity THEN <<>> ELSE all

(* broadcast::Sender::send.  A full channel loses its oldest event; the    *)
(* subscriber goes on with the ones it still has.                          *)
Unread(e) ==
  LET all == Append(unread, e)
  IN  IF Len(all) > Capacity THEN Tail(all) ELSE all

Broadcast(e) ==
  /\ unread' = IF sub = "on" THEN Unread(e) ELSE unread
  /\ told' = (sub = "on" /\ e = status')
  /\ UNCHANGED sub

\* The status is set; if an event tells of that, it comes later.
Set(s) ==
  /\ status' = s
  /\ told' = (told /\ s = status)
  /\ UNCHANGED <<sub, unread>>

\* A command has been answered; the tray may have given up on it.
Answer(c) == call' = IF call = c THEN None ELSE call

\* A client other than the tray.
Command(c) ==
  /\ up /\ pc[c] = "free" /\ call # c
  /\ \E kind \in {"connect", "disconnect"} : Goes(c, kind)
  /\ UNCHANGED <<up, status, lock, out, feed, tray, call>>

\* "connect_with_password" of a name the store does not have.
NotFound(c) ==
  /\ pc[c] = "connect"
  /\ Goes(c, "free")
  /\ Answer(c)
  /\ UNCHANGED <<up, status, lock, out, feed, tray>>

\* A refused command, or one without the helper, is told like an error.
StartConnect(t) ==
  /\ lock = None
  /\ \/ /\ status # "connected"
        /\ Set("connecting")
        /\ lock' = t
        /\ Goes(t, "connecting")
        /\ UNCHANGED out
     \/ /\ Set(IF status = "connected" THEN status ELSE "connecting")
        /\ IF t \in Conns THEN WillSend(t, "error")
                          ELSE Goes(t, "failed") /\ UNCHANGED out
        /\ UNCHANGED lock
  /\ UNCHANGED <<up, tray, call>>

Connect(c) == pc[c] = "connect" /\ StartConnect(c)

ConnectSucceeds(t) ==
  /\ pc[t] = "connecting"
  /\ Set("connected")
  /\ lock' = None
  /\ WillSend(t, "connected")
  /\ UNCHANGED <<up, tray, call>>

ConnectFails(t) ==
  /\ pc[t] = "connecting"
  /\ Set("error")
  /\ lock' = None
  /\ IF t \in Conns THEN WillSend(t, "error")
                    ELSE Goes(t, "failed") /\ UNCHANGED out
  /\ UNCHANGED <<up, tray, call>>

\* "disconnect" tells before it lets go of the mutex.
Disconnect(c) ==
  /\ pc[c] = "disconnect"
  /\ lock = None
  /\ status' = "disconnected"
  /\ Broadcast("disconnected")
  /\ Goes(c, "free")
  /\ Answer(c)
  /\ UNCHANGED <<up, lock, out, tray>>

(* handle_session_death: the monitor will reconnect, or finds the profile  *)
(* gone when it has already said so.  One monitor at work at a time.       *)
SessionDies ==
  /\ status = "connected"
  /\ pc["monitor"] = "free"
  /\ Set("reconnecting")
  /\ \E e \in {"reconnecting", "error"} : WillSend("monitor", e)
  /\ UNCHANGED <<up, lock, tray, call>>

\* The end of a backoff: stand down, or connect.
Retry ==
  /\ pc["monitor"] = "backoff"
  /\ \/ status = "reconnecting" /\ StartConnect("monitor")
     \/ /\ lock = None /\ status # "reconnecting"
        /\ Goes("monitor", "free")
        /\ UNCHANGED <<up, status, lock, out, feed, tray, call>>

\* After a failed attempt: another one, or none.
AfterFailure ==
  /\ pc["monitor"] = "failed"
  /\ lock = None
  /\ \/ /\ Set(IF status = "error" THEN "reconnecting" ELSE status)
        /\ Goes("monitor", "backoff")
        /\ UNCHANGED out
     \/ /\ Set(IF status = "reconnecting" THEN "error" ELSE status)
        /\ WillSend("monitor", "error")
  /\ UNCHANGED <<up, lock, tray, call>>

Send(t) ==
  /\ pc[t] = "send"
  /\ UNCHANGED <<up, status, lock, tray>>
  /\ Broadcast(out[t])
  /\ out' = [out EXCEPT ![t] = None]
  /\ Goes(t, IF out[t] = "reconnecting" THEN "backoff" ELSE "free")
  /\ Answer(t)

\* The daemon ends; of what it has written to the subscriber some arrives.
Crash ==
  /\ up
  /\ up' = FALSE
  /\ status' = "disconnected"
  /\ lock' = None
  /\ pc' = [t \in Tasks |-> "free"]
  /\ out' = [t \in Tasks |-> None]
  /\ sub' = IF sub = "on" THEN "cut" ELSE sub
  /\ unread' \in {SubSeq(unread, 1, n) : n \in 0 .. Len(unread)}
  /\ told' = FALSE
  /\ call' = None
  /\ UNCHANGED tray

Restart ==
  /\ ~up
  /\ up' = TRUE
  /\ UNCHANGED <<status, lock, pc, out, feed, tray, call>>

-----------------------------------------------------------------------------
(* The tray's thread *)

(* get_status: None when there is no daemon, or no answer in time because  *)
(* a handshake holds the mutex.                                            *)
Statuses ==
  IF up /\ lock = None
  THEN {status}
  ELSE {None}

Subscribe ==
  /\ sub = "off" /\ main \notin {"start", "gone"}
  /\ sub' = IF up THEN "on" ELSE "ended"
  /\ told' = FALSE
  /\ UNCHANGED <<unread, daemon, tray, call>>

Receive ==
  /\ unread # <<>>
  /\ Len(queue) < MaxQueue
  /\ queue' = Append(queue, Head(unread))
  /\ unread' = Tail(unread)
  /\ UNCHANGED <<sub, told, daemon, cached, icon, main, call>>

SubscriptionEnds ==
  /\ sub = "cut" /\ unread = <<>>
  /\ sub' = "ended"
  /\ UNCHANGED <<unread, told, daemon, tray, call>>

\* Status and profiles are fetched before the next subscription.
Refetch ==
  /\ sub = "ended"
  /\ Len(queue) < MaxQueue
  /\ sub' = "off"
  /\ \E s \in Statuses :
       \/ s = None /\ UNCHANGED queue
       \/ s # None /\ queue' = Append(queue, s)
  /\ UNCHANGED <<unread, told, daemon, cached, icon, main, call>>

-----------------------------------------------------------------------------
(* The tray's main thread *)

\* CACHED_STATUS is set, and refresh_tray called in the same step.
Refresh(s) ==
  /\ cached' = s
  /\ icon' = (s = "connected")

\* The first menu shows the status, the first icon does not.
Launch ==
  /\ main = "start"
  /\ main' = "idle"
  /\ cached' \in Statuses
  /\ UNCHANGED <<icon, queue, daemon, feed, call>>

\* The status listener.
Listen ==
  /\ main = "idle"
  /\ queue # <<>>
  /\ queue' = Tail(queue)
  /\ Refresh(Head(queue))
  /\ UNCHANGED <<main, daemon, feed, call>>

(* build_tray_menu: of a profile that is connected the item disconnects,    *)
(* the others connect unless the daemon is busy.                           *)
Items ==
  {"quit"} \cup CASE cached = "connected" -> {"disconnect"}
                    [] cached \in {"connecting", "reconnecting"} -> {}
                    [] OTHER -> {"connect"}

\* A command is sent, and its answer awaited; without a daemon there is none.
Calls(kind) ==
  \/ ~up /\ UNCHANGED <<pc, call>>
  \/ up /\ \E c \in Conns : pc[c] = "free" /\ Goes(c, kind) /\ call' = c

Clicked(kind) == main = "idle" /\ kind \in Items

\* Nothing is sent without a profile at the index, or without its password.
HandleConnect ==
  /\ Clicked("connect")
  /\ \/ Calls("connect") /\ main' = "call"
     \/ UNCHANGED <<main, pc, call>>
  /\ UNCHANGED <<queue, cached, icon, up, status, lock, out, feed>>

\* The index is not looked at.
HandleDisconnect ==
  /\ Clicked("disconnect")
  /\ Calls("disconnect")
  /\ main' = "call"
  /\ UNCHANGED <<queue, cached, icon, up, status, lock, out, feed>>

\* The process exits; a session is closed when the status says connected.
HandleQuit ==
  /\ Clicked("quit")
  /\ \E s \in Statuses : IF s = "connected" THEN Calls("disconnect")
                                           ELSE UNCHANGED <<pc, call>>
  /\ main' = "gone"
  /\ sub' = "off" /\ unread' = <<>> /\ told' = FALSE
  /\ queue' = <<>>
  /\ cached' = None /\ icon' = FALSE
  /\ UNCHANGED <<up, status, lock, out>>

\* Mutant: reads have no time-out.
AnswerOnly ==
  /\ main = "call"
  /\ call = None
  /\ main' = "ask"
  /\ UNCHANGED <<queue, cached, icon, daemon, feed, call>>

\* The answer, or none in time; the daemon goes on with the command.
AnswerOrTimeout ==
  /\ main = "call"
  /\ call' = None
  /\ main' = "ask"
  /\ UNCHANGED <<queue, cached, icon, daemon, feed>>

\* The status is asked for after a command, past what the listener has not taken.
Ask ==
  /\ main = "ask"
  /\ main' = "idle"
  /\ \E s \in Statuses : Refresh(IF s = None THEN cached ELSE s)
  /\ UNCHANGED <<queue, daemon, feed, call>>

-----------------------------------------------------------------------------
DaemonTask(t) == ConnectSucceeds(t) \/ ConnectFails(t) \/ Send(t)

ClientTask(c) == Command(c) \/ NotFound(c) \/ Connect(c) \/ Disconnect(c)

Daemon ==
  \/ \E t \in Tasks : DaemonTask(t)
  \/ \E c \in Conns : ClientTask(c)
  \/ SessionDies \/ Retry \/ AfterFailure \/ Crash \/ Restart

Thread == Subscribe \/ Receive \/ SubscriptionEnds \/ Refetch

HandleClick == HandleConnect \/ HandleDisconnect \/ HandleQuit

Proceed == AnswerOrTimeout \/ Ask

Next == Daemon \/ Thread \/ Launch \/ Listen \/ HandleClick \/ Proceed

(* The tray's threads run; its main thread, when it is not waiting, gets   *)
(* to the listener however often it is clicked at.  Nothing is assumed of  *)
(* the daemon or of the user.                                              *)
Fairness == WF_vars(Thread) /\ SF_vars(Listen) /\ WF_vars(Proceed)

Spec == Init /\ [][Next]_vars /\ Fairness
=============================================================================
