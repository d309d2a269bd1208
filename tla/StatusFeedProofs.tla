--------------------------- MODULE StatusFeedProofs ---------------------------
(***************************************************************************)
(* The status feed for any number of connections and any size of the two   *)
(* channels.                                                               *)
(***************************************************************************)
EXTENDS StatusFeedProperties, TLAPS

-----------------------------------------------------------------------------
(* The inductive invariant *)

\* Only a subscriber that is still connected has been told.
ToldIsSubscribed ==
  /\ told => sub = "on"
  /\ sub = "on" => main \notin {"start", "gone"}

(* The event that told the status is the last one on its way, or nothing   *)
(* is on its way and the main thread has shown it.                         *)
ToldComesLast ==
  told =>
    CASE unread # <<>> -> unread[Len(unread)] = status
      [] unread = <<>> /\ queue # <<>> -> queue[Len(queue)] = status
      [] OTHER -> cached = status /\ icon = (status = "connected")

\* A task that is about to send has something to say.
SendsSomething == \A t \in Tasks : pc[t] = "send" => out[t] # None

IInv == TypeOK /\ SendsSomething /\ ToldIsSubscribed /\ ToldComesLast

-----------------------------------------------------------------------------
(* Lemmas about sequences *)

LEMMA LastOfTail ==
  ASSUME NEW S, NEW q \in Seq(S), q # <<>>
  PROVE  /\ Tail(q) \in Seq(S) /\ Len(Tail(q)) = Len(q) - 1 /\ Head(q) \in S
         /\ Tail(q) # <<>> => Tail(q)[Len(Tail(q))] = q[Len(q)]
         /\ Tail(q) = <<>> => Head(q) = q[Len(q)]
<1>1. Len(q) \in Nat /\ Len(q) > 0
  OBVIOUS
<1>2. Tail(q) \in Seq(S) /\ Len(Tail(q)) = Len(q) - 1 /\ Head(q) \in S
  BY <1>1
<1>3. \A i \in 1 .. Len(Tail(q)) : Tail(q)[i] = q[i + 1]
  BY <1>1
<1>4. ASSUME Tail(q) # <<>> PROVE Tail(q)[Len(Tail(q))] = q[Len(q)]
  BY <1>1, <1>2, <1>3, <1>4
<1>5. ASSUME Tail(q) = <<>> PROVE Head(q) = q[Len(q)]
  <2>1. Len(<<>>) = 0
    OBVIOUS
  <2>2. Len(Tail(q)) = 0
    BY <1>5, <2>1, Zenon
  <2>3. ASSUME NEW n \in Nat, NEW m, m = n - 1, m = 0 PROVE n = 1
    BY <2>3
  <2>4. Len(q) = 1
    BY <1>1, <1>2, <2>2, <2>3, Zenon
  <2> QED
    BY <2>4
<1> QED
  BY <1>2, <1>4, <1>5

LEMMA LastOfAppend ==
  ASSUME NEW S, NEW q \in Seq(S), NEW e \in S
  PROVE  /\ Append(q, e) \in Seq(S) /\ Len(Append(q, e)) = Len(q) + 1
         /\ Append(q, e) # <<>>
         /\ Append(q, e)[Len(Append(q, e))] = e
  OBVIOUS

\* A full channel loses its oldest event, never the one that is sent.
LEMMA SentIsLast ==
  ASSUME TypeOK, NEW e \in Status
  PROVE  /\ Unread(e) \in Seq(Status) /\ Len(Unread(e)) <= Capacity
         /\ Unread(e) # <<>> /\ Unread(e)[Len(Unread(e))] = e
<1> DEFINE all == Append(unread, e)
<1>1. /\ unread \in Seq(Status) /\ Len(unread) <= Capacity
      /\ Len(unread) \in Nat /\ Capacity \in Nat /\ Capacity > 0
  BY FeedConstants DEF TypeOK
<1>2. all \in Seq(Status) /\ Len(all) = Len(unread) + 1 /\ all # <<>> /\ all[Len(all)] = e
  BY <1>1, LastOfAppend
<1>3. CASE Len(all) > Capacity
  <2>1. Unread(e) = Tail(all)
    BY <1>3 DEF Unread
  <2>2. Tail(all) \in Seq(Status) /\ Len(Tail(all)) = Len(all) - 1
    BY <1>2, LastOfTail
  <2>3. Tail(all) # <<>>
    BY <1>1, <1>2, <1>3, <2>2
  <2>4. Tail(all)[Len(Tail(all))] = e
    BY <1>2, <2>3, LastOfTail
  <2> QED
    BY <1>1, <1>2, <2>1, <2>2, <2>3, <2>4
<1>4. CASE ~(Len(all) > Capacity)
  <2>1. Unread(e) = all
    BY <1>4 DEF Unread
  <2> QED
    BY <1>1, <1>2, <1>4, <2>1
<1> QED
  BY <1>3, <1>4

-----------------------------------------------------------------------------
(* One step preserves IInv *)

LEMMA InitIInv == Init => IInv
<1> SUFFICES ASSUME Init PROVE IInv
  OBVIOUS
<1>1. TypeOK
  <2>1. <<>> \in Seq(Status) /\ Len(<<>>) = 0
    OBVIOUS
  <2>2. Len(<<>>) <= Capacity /\ Len(<<>>) <= MaxQueue
    BY <2>1, FeedConstants
  <2> QED
    BY <2>1, <2>2 DEF Init, TypeOK, Status
<1>2. SendsSomething /\ ToldIsSubscribed /\ ToldComesLast
  BY DEF Init, SendsSomething, ToldIsSubscribed, ToldComesLast
<1> QED
  BY <1>1, <1>2 DEF IInv

\* A change of status without its event leaves nothing told.
LEMMA SetStep ==
  ASSUME IInv, NEW s, Set(s), UNCHANGED tray
  PROVE  ToldIsSubscribed' /\ ToldComesLast'
<1>1. told' => told /\ status' = status
  BY DEF Set
<1>2. UNCHANGED <<sub, unread, queue, cached, icon, main>>
  BY DEF Set, tray
<1> QED
  BY <1>1, <1>2 DEF IInv, ToldIsSubscribed, ToldComesLast

\* An event that is sent is the last one on its way.
LEMMA BroadcastStep ==
  ASSUME IInv, NEW e \in Status, Broadcast(e), UNCHANGED tray
  PROVE  /\ ToldIsSubscribed' /\ ToldComesLast'
         /\ unread' \in Seq(Status) /\ Len(unread') <= Capacity /\ told' \in BOOLEAN
<1>1. /\ UNCHANGED <<sub, queue, cached, icon, main>>
      /\ unread' = IF sub = "on" THEN Unread(e) ELSE unread
      /\ told' = (sub = "on" /\ e = status')
  BY DEF Broadcast, tray
<1>2. TypeOK
  BY DEF IInv
<1>3. /\ Unread(e) \in Seq(Status) /\ Len(Unread(e)) <= Capacity
      /\ Unread(e) # <<>> /\ Unread(e)[Len(Unread(e))] = e
  BY <1>2, SentIsLast
<1>4. unread' \in Seq(Status) /\ Len(unread') <= Capacity /\ told' \in BOOLEAN
  BY <1>1, <1>2, <1>3 DEF TypeOK
<1>5. ToldIsSubscribed'
  BY <1>1 DEF IInv, ToldIsSubscribed
<1>6. ASSUME told' PROVE unread' # <<>> /\ unread'[Len(unread')] = status'
  BY <1>1, <1>3, <1>6
<1> QED
  BY <1>4, <1>5, <1>6 DEF ToldComesLast

\* Nothing that concerns the feed.
LEMMA QuietStep ==
  ASSUME IInv, UNCHANGED <<feed, tray, status>>
  PROVE  ToldIsSubscribed' /\ ToldComesLast'
  BY DEF IInv, feed, tray, ToldIsSubscribed, ToldComesLast

\* What an item of Statuses is.
LEMMA StatusesType == TypeOK => \A s \in Statuses : s = status \/ s = None
  BY DEF Statuses

LEMMA QueueStep ==
  ASSUME TypeOK, NEW s \in Status, Len(queue) < MaxQueue
  PROVE  /\ Append(queue, s) \in Seq(Status) /\ Len(Append(queue, s)) <= MaxQueue
<1>1. queue \in Seq(Status) /\ Len(queue) \in Nat /\ MaxQueue \in Nat
  BY FeedConstants DEF TypeOK
<1>2. Append(queue, s) \in Seq(Status) /\ Len(Append(queue, s)) = Len(queue) + 1
  BY <1>1, LastOfAppend
<1> QED
  BY <1>1, <1>2

\* A task that Sends broadcasts a status.
LEMMA Sent ==
  ASSUME IInv, NEW t \in Tasks, Send(t)
  PROVE  out[t] \in Status /\ Broadcast(out[t]) /\ UNCHANGED tray
<1>1. pc[t] = "send" /\ out[t] # None /\ Broadcast(out[t]) /\ UNCHANGED tray
  BY DEF Send, IInv, SendsSomething
<1>2. out[t] \in {"connected", "reconnecting", "error", None}
  BY DEF IInv, TypeOK
<1> QED
  BY <1>1, <1>2 DEF Status

LEMMA StartConnectStep ==
  ASSUME IInv, NEW t \in Tasks, StartConnect(t)
  PROVE  TypeOK' /\ SendsSomething' /\ ToldIsSubscribed' /\ ToldComesLast'
<1>1. PICK s \in Status : Set(s)
  BY DEF StartConnect, IInv, TypeOK, Status
<1>2. ToldIsSubscribed' /\ ToldComesLast'
  BY <1>1, SetStep DEF StartConnect
<1>3. TypeOK'
  BY <1>1 DEF StartConnect, Set, WillSend, Goes, IInv, TypeOK, Status, tray, Tasks
<1>4. SendsSomething'
  BY FeedConstants
  DEF StartConnect, WillSend, Goes, IInv, TypeOK, SendsSomething, Status
<1> QED
  BY <1>2, <1>3, <1>4

LEMMA DaemonStep ==
  ASSUME IInv, Daemon
  PROVE  IInv'
<1> USE FeedConstants DEF IInv
<1>1. ASSUME NEW t \in Tasks, ConnectSucceeds(t) \/ ConnectFails(t)
      PROVE  IInv'
  <2>1. PICK s \in Status : Set(s)
    BY <1>1 DEF ConnectSucceeds, ConnectFails, Status
  <2>2. UNCHANGED tray
    BY <1>1 DEF ConnectSucceeds, ConnectFails
  <2>3. ToldIsSubscribed' /\ ToldComesLast'
    BY <2>1, <2>2, SetStep
  <2>4. TypeOK'
    BY <1>1, <2>1
    DEF ConnectSucceeds, ConnectFails, Set, WillSend, Goes, TypeOK, Status, tray
  <2>5. SendsSomething'
    BY <1>1 DEF ConnectSucceeds, ConnectFails, WillSend, Goes, TypeOK, SendsSomething, Status
  <2> QED
    BY <2>3, <2>4, <2>5
<1>2. ASSUME NEW t \in Tasks, Send(t)
      PROVE  IInv'
  <2>1. out[t] \in Status /\ Broadcast(out[t]) /\ UNCHANGED tray
    BY <1>2, Sent
  <2>2. /\ ToldIsSubscribed' /\ ToldComesLast'
        /\ unread' \in Seq(Status) /\ Len(unread') <= Capacity /\ told' \in BOOLEAN
    BY <2>1, BroadcastStep
  <2>3. TypeOK'
    BY <1>2, <2>1, <2>2 DEF Send, Broadcast, Goes, Answer, TypeOK, tray
  <2>4. SendsSomething'
    BY <1>2 DEF Send, Goes, TypeOK, SendsSomething
  <2> QED
    BY <2>2, <2>3, <2>4
<1>3. ASSUME NEW c \in Conns, Command(c) \/ NotFound(c)
      PROVE  IInv'
  <2>1. UNCHANGED <<feed, tray, status>>
    BY <1>3 DEF Command, NotFound
  <2>2. ToldIsSubscribed' /\ ToldComesLast'
    BY <2>1, QuietStep
  <2>3. TypeOK'
    BY <1>3 DEF Command, NotFound, Goes, Answer, TypeOK, feed, tray
  <2>4. SendsSomething'
    BY <1>3 DEF Command, NotFound, Goes, TypeOK, SendsSomething
  <2> QED
    BY <2>2, <2>3, <2>4
<1>4. ASSUME NEW c \in Conns, Connect(c)
      PROVE  IInv'
  BY <1>4, StartConnectStep DEF Connect, Tasks
<1>5. ASSUME NEW c \in Conns, Disconnect(c)
      PROVE  IInv'
  <2>1. Broadcast("disconnected") /\ UNCHANGED tray
    BY <1>5 DEF Disconnect
  <2>2. /\ ToldIsSubscribed' /\ ToldComesLast'
        /\ unread' \in Seq(Status) /\ Len(unread') <= Capacity /\ told' \in BOOLEAN
    BY <2>1, BroadcastStep DEF Status
  <2>3. TypeOK'
    BY <1>5, <2>2 DEF Disconnect, Broadcast, Goes, Answer, TypeOK, Status, tray
  <2>4. SendsSomething'
    BY <1>5 DEF Disconnect, Goes, TypeOK, SendsSomething
  <2> QED
    BY <2>2, <2>3, <2>4
<1>6. ASSUME SessionDies \/ AfterFailure
      PROVE  IInv'
  <2>1. PICK s \in Status : Set(s)
    BY <1>6 DEF SessionDies, AfterFailure, TypeOK, Status
  <2>2. UNCHANGED tray
    BY <1>6 DEF SessionDies, AfterFailure
  <2>3. ToldIsSubscribed' /\ ToldComesLast'
    BY <2>1, <2>2, SetStep
  <2>4. TypeOK'
    BY <1>6, <2>1
    DEF SessionDies, AfterFailure, Set, WillSend, Goes, TypeOK, Status, Tasks, tray
  <2>5. SendsSomething'
    BY <1>6 DEF SessionDies, AfterFailure, WillSend, Goes, TypeOK, SendsSomething, Status
  <2> QED
    BY <2>3, <2>4, <2>5
<1>7. ASSUME Retry
      PROVE  IInv'
  <2>1. CASE StartConnect("monitor")
    BY <2>1, StartConnectStep DEF Tasks
  <2>2. CASE Goes("monitor", "free") /\ UNCHANGED <<up, status, lock, out, feed, tray, call>>
    <3>1. ToldIsSubscribed' /\ ToldComesLast'
      BY <2>2, QuietStep
    <3> QED
      BY <2>2, <3>1 DEF Goes, TypeOK, SendsSomething, feed, tray
  <2> QED
    BY <1>7, <2>1, <2>2 DEF Retry
<1>8. ASSUME Crash
      PROVE  IInv'
  <2>1. PICK n \in 0 .. Len(unread) : unread' = SubSeq(unread, 1, n)
    BY <1>8 DEF Crash
  <2>2. unread' \in Seq(Status) /\ Len(unread') <= Capacity
    BY <2>1 DEF TypeOK
  <2>3. TypeOK'
    BY <1>8, <2>2 DEF Crash, TypeOK, Status, tray
  <2> QED
    BY <1>8, <2>3 DEF Crash, SendsSomething, ToldIsSubscribed, ToldComesLast, tray
<1>9. ASSUME Restart
      PROVE  IInv'
  <2>1. ToldIsSubscribed' /\ ToldComesLast'
    BY <1>9, QuietStep DEF Restart
  <2> QED
    BY <1>9, <2>1 DEF Restart, TypeOK, SendsSomething, feed, tray
<1> QED
  BY <1>1, <1>2, <1>3, <1>4, <1>5, <1>6, <1>7, <1>8, <1>9
  DEF Daemon, DaemonTask, ClientTask

LEMMA TrayStep ==
  ASSUME IInv, Thread \/ Launch \/ Listen \/ HandleClick \/ Proceed
  PROVE  IInv'
<1> USE FeedConstants DEF IInv
<1>1. CASE Subscribe
  BY <1>1 DEF Subscribe, TypeOK, SendsSomething, ToldIsSubscribed, ToldComesLast, daemon, tray
<1>2. CASE Receive
  <2>1. /\ unread \in Seq(Status) /\ unread # <<>> /\ queue \in Seq(Status)
        /\ unread' = Tail(unread) /\ queue' = Append(queue, Head(unread))
        /\ UNCHANGED <<up, status, lock, pc, out, sub, told, cached, icon, main, call>>
    BY <1>2 DEF Receive, TypeOK, daemon
  <2>2. /\ unread' \in Seq(Status) /\ Len(unread') = Len(unread) - 1 /\ Head(unread) \in Status
        /\ unread' # <<>> => unread'[Len(unread')] = unread[Len(unread)]
        /\ unread' = <<>> => Head(unread) = unread[Len(unread)]
    BY <2>1, LastOfTail
  <2>3. queue' \in Seq(Status) /\ Len(queue') <= MaxQueue
    BY <1>2, <2>1, <2>2, QueueStep DEF Receive
  <2>4. queue' # <<>> /\ queue'[Len(queue')] = Head(unread)
    BY <2>1, <2>2, LastOfAppend
  <2>5. Len(unread') <= Capacity
    BY <2>1, <2>2 DEF TypeOK
  <2>6. TypeOK'
    BY <2>1, <2>2, <2>3, <2>5 DEF TypeOK
  <2>7. ToldComesLast'
    BY <2>1, <2>2, <2>4, Zenon DEF ToldComesLast
  <2> QED
    BY <2>1, <2>6, <2>7 DEF SendsSomething, ToldIsSubscribed
<1>3. CASE SubscriptionEnds
  BY <1>3
  DEF SubscriptionEnds, TypeOK, SendsSomething, ToldIsSubscribed, ToldComesLast, daemon, tray
<1>4. CASE Refetch
  <2>1. ~told
    BY <1>4 DEF Refetch, ToldIsSubscribed
  <2>2. queue' \in Seq(Status) /\ Len(queue') <= MaxQueue
    BY <1>4, QueueStep, StatusesType DEF Refetch, TypeOK
  <2> QED
    BY <1>4, <2>1, <2>2
    DEF Refetch, TypeOK, SendsSomething, ToldIsSubscribed, ToldComesLast, daemon
<1>5. CASE Launch
  <2>1. ~told /\ ~told'
    BY <1>5 DEF Launch, ToldIsSubscribed, feed
  <2> QED
    BY <1>5, <2>1, StatusesType
    DEF Launch, TypeOK, SendsSomething, ToldIsSubscribed, ToldComesLast, daemon, feed
<1>6. CASE Listen
  <2>1. /\ queue \in Seq(Status) /\ queue # <<>> /\ queue' = Tail(queue)
        /\ cached' = Head(queue) /\ icon' = (Head(queue) = "connected")
        /\ UNCHANGED <<up, status, lock, pc, out, sub, unread, told, main, call>>
    BY <1>6 DEF Listen, Refresh, TypeOK, daemon, feed
  <2>2. /\ queue' \in Seq(Status) /\ Len(queue') = Len(queue) - 1 /\ Head(queue) \in Status
        /\ queue' # <<>> => queue'[Len(queue')] = queue[Len(queue)]
        /\ queue' = <<>> => Head(queue) = queue[Len(queue)]
    BY <2>1, LastOfTail
  <2>3. Len(queue') <= MaxQueue
    BY <2>1, <2>2 DEF TypeOK
  <2>4. TypeOK'
    BY <2>1, <2>2, <2>3 DEF TypeOK
  <2>5. ToldComesLast'
    BY <2>1, <2>2, Zenon DEF ToldComesLast
  <2> QED
    BY <2>1, <2>4, <2>5 DEF SendsSomething, ToldIsSubscribed
<1>7. CASE HandleConnect \/ HandleDisconnect
  <2>1. UNCHANGED <<up, status, lock, out, feed, queue, cached, icon>> /\ main = "idle"
    BY <1>7 DEF HandleConnect, HandleDisconnect, Clicked
  <2>2. UNCHANGED <<pc, call>> \/ Calls("connect") \/ Calls("disconnect")
    BY <1>7 DEF HandleConnect, HandleDisconnect
  <2>3. main' \in {"idle", "call"}
    BY <1>7, <2>1 DEF HandleConnect, HandleDisconnect
  <2>4. TypeOK' /\ SendsSomething'
    BY <2>1, <2>2, <2>3 DEF Calls, Goes, TypeOK, SendsSomething, Tasks, feed
  <2> QED
    BY <2>1, <2>3, <2>4 DEF ToldIsSubscribed, ToldComesLast, feed
<1>8. CASE HandleQuit
  <2>1. UNCHANGED <<pc, call>> \/ Calls("disconnect")
    BY <1>8 DEF HandleQuit
  <2>2. <<>> \in Seq(Status) /\ Len(<<>>) = 0
    OBVIOUS
  <2>3. /\ unread' = <<>> /\ queue' = <<>> /\ sub' = "off" /\ main' = "gone" /\ told' = FALSE
        /\ cached' = None /\ icon' = FALSE
        /\ UNCHANGED <<up, status, lock, out>>
    BY <1>8 DEF HandleQuit
  <2>4. Len(<<>>) <= Capacity /\ Len(<<>>) <= MaxQueue
    BY <2>2
  <2>5. /\ unread' \in Seq(Status) /\ Len(unread') <= Capacity
        /\ queue' \in Seq(Status) /\ Len(queue') <= MaxQueue
    BY <2>2, <2>3, <2>4, Zenon
  <2>6. TypeOK' /\ SendsSomething'
    BY <2>1, <2>3, <2>5 DEF Calls, Goes, TypeOK, SendsSomething, Tasks
  <2> QED
    BY <2>3, <2>6 DEF ToldIsSubscribed, ToldComesLast
<1>9. CASE AnswerOrTimeout
  BY <1>9
  DEF AnswerOrTimeout, TypeOK, SendsSomething, ToldIsSubscribed, ToldComesLast, daemon, feed
<1>10. CASE Ask
  BY <1>10, StatusesType
  DEF Ask, Refresh, TypeOK, SendsSomething, ToldIsSubscribed, ToldComesLast, daemon, feed
<1> QED
  BY <1>1, <1>2, <1>3, <1>4, <1>5, <1>6, <1>7, <1>8, <1>9, <1>10, Zenon
  DEF Thread, HandleClick, Proceed

-----------------------------------------------------------------------------
(* Theorems *)

LEMMA Invariance == Spec => []IInv
<1>1. ASSUME IInv, [Next]_vars PROVE IInv'
  <2>1. CASE UNCHANGED vars
    BY <1>1, <2>1
    DEF vars, daemon, feed, tray, IInv, TypeOK, SendsSomething, ToldIsSubscribed, ToldComesLast
  <2> QED
    BY <1>1, <2>1, DaemonStep, TrayStep, Zenon DEF Next
<1> QED
  BY InitIInv, <1>1, PTL DEF Spec

\* Every variable of the feed keeps its type, and no channel overflows.
THEOREM TypeCorrect == Spec => []TypeOK
<1>1. IInv => TypeOK
  BY DEF IInv
<1> QED
  BY Invariance, <1>1, PTL

(* Whatever the channels hold and lose, a tray that has nothing left to     *)
(* take shows the status it was told last.                                  *)
THEOREM ToldIsShown == Spec => []ShowsWhatItWasTold
<1>1. IInv => ShowsWhatItWasTold
  BY DEF IInv, ToldComesLast, ShowsWhatItWasTold
<1> QED
  BY Invariance, <1>1, PTL
=============================================================================
