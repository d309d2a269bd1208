-------------------------------- MODULE Bridge --------------------------------
(***************************************************************************)
(* The tasks between the tunnel and the TUN device, and how a session      *)
(* stops them (fortivpn: bridge.rs, lib.rs).                               *)
(*                                                                         *)
(* Each task is a loop around a select! with the shutdown as one branch.   *)
(* It hears of a shutdown only while it waits there: notify_waiters wakes  *)
(* the Notified futures that exist, and a woken task whose select! picks   *)
(* another ready branch drops its future and forgets (Hear, Busy).         *)
(*                                                                         *)
(* Packets are counted; frames from the gateway are told apart by what     *)
(* they make the reader do.  Writing to the TUN device does not wait.      *)
(***************************************************************************)
EXTENDS Naturals, Sequences

CONSTANTS
  Capacity,    \* packets the outbound channel holds (256)
  BatchLimit,  \* packets the writer takes at once (32)
  MaxMissed,   \* MAX_MISSED_ECHOES (6)
  InboxLimit   \* bound: frames received and not yet read

ASSUME BridgeConstants ==
  /\ Capacity \in Nat \ {0} /\ BatchLimit \in Nat \ {0}
  /\ MaxMissed \in Nat \ {0} /\ InboxLimit \in Nat \ {0}

VARIABLES
  pc,       \* where each task is
  notified, \* tasks whose Notified has been woken
  aborted,  \* tasks stop_bridge has aborted
  queue,    \* packets in the outbound channel
  link,     \* TCP: "ok", "stalled" (takes nothing), or "closed"
  inbox,    \* frames received and not yet read
  due,      \* the echo timer has fired
  missed,   \* missed_echoes
  event,    \* the watch channel: "alive" or why the tunnel died
  silent,   \* echo intervals since the last frame was received, at most MaxMissed
  stop      \* stop_bridge: not called, waiting for task stop, or done

reader == <<inbox, due, missed, silent>>
vars == <<pc, notified, aborted, queue, link, reader, event, stop>>

\* In the order stop_bridge waits for them.
Tasks == <<"writer", "reader", "tun", "heartbeat">>
Task == {Tasks[i] : i \in DOMAIN Tasks}

Sending == {"send_echo", "send_reply", "send_ack"}

\* An IP packet, keepalive or echo reply counts as data; garbage breaks the framing.
Frame == {"data", "echo_request", "terminate", "garbage"}

\* What declare_dead is told, as far as it matters here.
Reason == {"silence", "failure"}

Done == Len(Tasks) + 1

TypeOK ==
  /\ pc \in [Task -> {"select", "writing", "send", "ended"} \cup Sending]
  /\ notified \subseteq Task
  /\ aborted \subseteq Task
  /\ queue \in 0 .. Capacity
  /\ link \in {"ok", "stalled", "closed"}
  /\ inbox \in Seq(Frame) /\ Len(inbox) <= InboxLimit
  /\ due \in BOOLEAN
  /\ missed \in 0 .. MaxMissed
  /\ event \in Reason \cup {"alive"}
  /\ silent \in 0 .. MaxMissed
  /\ stop \in 0 .. Done

Init ==
  /\ pc = [t \in Task |-> "select"]
  /\ notified = {}
  /\ aborted = {}
  /\ queue = 0
  /\ link = "ok"
  /\ inbox = <<>>
  /\ due = FALSE
  /\ missed = 0
  /\ event = "alive"
  /\ silent = 0
  /\ stop = 0

-----------------------------------------------------------------------------
(* What the tasks share *)

At(t, state) == pc[t] = state /\ t \notin aborted

Goto(t, state) == pc' = [pc EXCEPT ![t] = state]

\* A branch other than the shutdown is taken: the Notified is dropped.
Busy(t) == notified' = notified \ {t}

\* A task's locals, and the channel with its receiver, go with it.
ReaderGone ==
  /\ Goto("reader", "ended")
  /\ Busy("reader")
  /\ inbox' = <<>>
  /\ due' = FALSE
  /\ missed' = 0
  /\ silent' = 0

End(t) ==
  /\ IF t = "reader" THEN ReaderGone
     ELSE Goto(t, "ended") /\ Busy(t) /\ UNCHANGED reader
  /\ queue' = IF t = "writer" THEN 0 ELSE queue

\* The receiver of the channel is dropped with the writer.
RxClosed == pc["writer"] = "ended"

\* alive and the event change in one go.
DeclareDead(reason) == event' = reason

Hear(t) ==
  /\ At(t, "select")
  /\ t \in notified
  /\ End(t)
  /\ UNCHANGED <<aborted, link, event, stop>>

-----------------------------------------------------------------------------
(* tunnel_writer_loop *)

\* recv_many.
TakeBatch ==
  /\ At("writer", "select")
  /\ queue > 0
  /\ queue' = IF queue > BatchLimit THEN queue - BatchLimit ELSE 0
  /\ Goto("writer", "writing")
  /\ Busy("writer")
  /\ UNCHANGED <<aborted, link, reader, event, stop>>

\* No sender is left.
ChannelClosed ==
  /\ At("writer", "select")
  /\ queue = 0
  /\ pc["reader"] = "ended" /\ pc["tun"] = "ended"
  /\ End("writer")
  /\ UNCHANGED <<aborted, link, event, stop>>

WriteDone ==
  /\ At("writer", "writing")
  /\ link = "ok"
  /\ Goto("writer", "select")
  /\ UNCHANGED <<notified, aborted, queue, link, reader, event, stop>>

\* Mutant: the loop just ends.
WriteFailsQuietly ==
  /\ At("writer", "writing")
  /\ link = "closed"
  /\ End("writer")
  /\ UNCHANGED <<aborted, link, event, stop>>

WriteFails ==
  /\ At("writer", "writing")
  /\ link = "closed"
  /\ DeclareDead("failure")
  /\ End("writer")
  /\ UNCHANGED <<aborted, link, stop>>

-----------------------------------------------------------------------------
(* tunnel_reader_loop *)

EchoTick ==
  /\ At("reader", "select")
  /\ due
  /\ due' = FALSE
  /\ Goto("reader", "send_echo")
  /\ Busy("reader")
  /\ UNCHANGED <<aborted, queue, link, inbox, missed, silent, event, stop>>

\* A packet goes into the channel, which has room for it and a receiver.
Enqueue == ~RxClosed /\ queue < Capacity /\ queue' = queue + 1

\* Mutant: the echo is not counted when it goes out.
EchoSentUncounted ==
  /\ At("reader", "send_echo")
  /\ \/ RxClosed /\ End("reader")
     \/ Enqueue /\ Goto("reader", "select") /\ UNCHANGED <<notified, reader>>
  /\ UNCHANGED <<aborted, link, event, stop>>

(* The echo waits for room in the channel, and is counted once it is in.   *)
EchoSent ==
  /\ At("reader", "send_echo")
  /\ \/ RxClosed /\ End("reader") /\ UNCHANGED event
     \/ /\ Enqueue
        /\ IF missed + 1 >= MaxMissed
           THEN DeclareDead("silence") /\ ReaderGone
           ELSE /\ missed' = missed + 1
                /\ Goto("reader", "select")
                /\ UNCHANGED <<notified, inbox, due, silent, event>>
  /\ UNCHANGED <<aborted, link, stop>>

\* Where a frame that does not break the framing leads.
Handler(f) ==
  CASE f = "data" -> "select"
    [] f = "echo_request" -> "send_reply"
    [] f = "terminate" -> "send_ack"

\* Mutant: only what answers the echo resets the count.
ReadFrameKeepsCount ==
  /\ At("reader", "select")
  /\ inbox # <<>>
  /\ Head(inbox) # "garbage"
  /\ inbox' = Tail(inbox)
  /\ Goto("reader", Handler(Head(inbox)))
  /\ Busy("reader")
  /\ UNCHANGED <<aborted, queue, link, due, missed, silent, event, stop>>

ReadFrame ==
  /\ At("reader", "select")
  /\ inbox # <<>>
  /\ Head(inbox) # "garbage"
  /\ inbox' = Tail(inbox)
  /\ missed' = 0
  /\ Goto("reader", Handler(Head(inbox)))
  /\ Busy("reader")
  /\ UNCHANGED <<aborted, queue, link, due, silent, event, stop>>

\* The connection is closed or reset, or the framing is lost.
ReadFails ==
  /\ At("reader", "select")
  /\ link = "closed" \/ (inbox # <<>> /\ Head(inbox) = "garbage")
  /\ DeclareDead("failure")
  /\ End("reader")
  /\ UNCHANGED <<aborted, link, stop>>

\* A failure to answer is ignored.
ReplySent ==
  /\ At("reader", "send_reply")
  /\ Enqueue \/ (RxClosed /\ UNCHANGED queue)
  /\ Goto("reader", "select")
  /\ UNCHANGED <<notified, aborted, link, reader, event, stop>>

AckSent ==
  /\ At("reader", "send_ack")
  /\ Enqueue \/ (RxClosed /\ UNCHANGED queue)
  /\ DeclareDead("failure")
  /\ ReaderGone
  /\ UNCHANGED <<aborted, link, stop>>

-----------------------------------------------------------------------------
(* tun_reader_loop and heartbeat_loop *)

TunPacket ==
  /\ At("tun", "select")
  /\ Goto("tun", "send")
  /\ Busy("tun")
  /\ UNCHANGED <<aborted, queue, link, reader, event, stop>>

TunSent ==
  /\ At("tun", "send")
  /\ \/ RxClosed /\ End("tun")
     \/ Enqueue /\ Goto("tun", "select") /\ UNCHANGED <<notified, reader>>
  /\ UNCHANGED <<aborted, link, event, stop>>

\* Too short for a packet: read on.
TunTooShort ==
  /\ At("tun", "select")
  /\ Busy("tun")
  /\ UNCHANGED <<pc, aborted, queue, link, reader, event, stop>>

\* A read fails, or a heartbeat is due: time to look at alive.
LookAtAlive(t) ==
  /\ At(t, "select")
  /\ IF event = "alive" THEN Busy(t) /\ UNCHANGED <<pc, queue, reader>> ELSE End(t)
  /\ UNCHANGED <<aborted, link, event, stop>>

-----------------------------------------------------------------------------
(* The gateway and the clock *)

Receive(f) ==
  /\ link # "closed"
  /\ pc["reader"] # "ended"  \* what nobody reads is left out
  /\ Len(inbox) < InboxLimit
  /\ inbox' = Append(inbox, f)
  /\ silent' = 0
  /\ UNCHANGED <<pc, notified, aborted, queue, link, due, missed, event, stop>>

LinkChanges ==
  /\ link # "closed"
  /\ link' \in {"ok", "stalled", "closed"} \ {link}
  /\ UNCHANGED <<pc, notified, aborted, queue, reader, event, stop>>

\* The reader waits, for a frame or for a channel the writer does not empty.
ReaderWaits ==
  \/ pc["reader"] = "select" /\ ~due /\ inbox = <<>> /\ link # "closed"
  \/ /\ pc["reader"] \in Sending
     /\ queue = Capacity
     /\ pc["writer"] = "writing" /\ link = "stalled"

(* One echo interval passes.  It is long: what the reader can do it has    *)
(* done before.  A timer that fires while the reader waits for the channel *)
(* fires once.                                                             *)
Interval ==
  /\ ReaderWaits
  /\ due' = TRUE
  /\ silent' = IF silent < MaxMissed THEN silent + 1 ELSE silent
  /\ UNCHANGED <<pc, notified, aborted, queue, link, inbox, missed, event, stop>>

-----------------------------------------------------------------------------
(* stop_bridge *)

NotifyWaiters ==
  /\ stop = 0
  /\ stop' = 1
  /\ notified' = {t \in Task : pc[t] = "select"}
  /\ UNCHANGED <<pc, aborted, queue, link, reader, event>>

TaskStopped ==
  /\ stop \in DOMAIN Tasks
  /\ pc[Tasks[stop]] = "ended"
  /\ stop' = stop + 1
  /\ UNCHANGED <<pc, notified, aborted, queue, link, reader, event>>

\* Mutant: a task that did not hear is left alone.
StopGivesUp ==
  /\ stop \in DOMAIN Tasks
  /\ pc[Tasks[stop]] # "ended"
  /\ stop' = stop + 1
  /\ UNCHANGED <<pc, notified, aborted, queue, link, reader, event>>

\* After three seconds.
StopAborts ==
  /\ stop \in DOMAIN Tasks
  /\ pc[Tasks[stop]] # "ended"
  /\ aborted' = aborted \cup {Tasks[stop]}
  /\ stop' = stop + 1
  /\ UNCHANGED <<pc, notified, queue, link, reader, event>>

AbortLands(t) ==
  /\ t \in aborted
  /\ aborted' = aborted \ {t}
  /\ End(t)
  /\ UNCHANGED <<link, event, stop>>

-----------------------------------------------------------------------------
Writer == TakeBatch \/ ChannelClosed \/ WriteDone \/ WriteFails
Reader == EchoTick \/ EchoSent \/ ReadFrame \/ ReadFails \/ ReplySent \/ AckSent
StopBridge == TaskStopped \/ StopAborts \/ \E t \in Task : AbortLands(t)

Next ==
  \/ Writer \/ Reader
  \/ TunPacket \/ TunSent \/ TunTooShort \/ LookAtAlive("tun") \/ LookAtAlive("heartbeat")
  \/ \E f \in Frame : Receive(f)
  \/ LinkChanges \/ Interval
  \/ NotifyWaiters \/ StopBridge
  \/ \E t \in Task : Hear(t)

(* Tokio polls what can run; the channel serves its senders in order, and  *)
(* a select! picks among its ready branches at random.  Nothing is assumed *)
(* of the gateway, of the host's traffic, or that anybody stops the bridge.*)
Fairness ==
  /\ SF_vars(Writer)
  /\ SF_vars(Reader)
  /\ WF_vars(Interval)
  /\ WF_vars(StopBridge)

Spec == Init /\ [][Next]_vars /\ Fairness
=============================================================================
