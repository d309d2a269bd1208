---------------------------- MODULE DataPathProofs ----------------------------
(***************************************************************************)
(* The data path of a tunnel: the frame reader for any stream of frames,   *)
(* and the bridge whose reader task calls it, for any size of its channel  *)
(* and any budget of echoes.                                               *)
(***************************************************************************)
EXTENDS FrameReaderProperties, BridgeProperties, TLAPS

-----------------------------------------------------------------------------
(* The frame reader: the inductive invariant *)

\* The reader is as far into the next frame as its buffers are filled.
InSync ==
  /\ pos = Start[Len(out)] + header_filled + payload_filled
  /\ payload_size = None => header_filled < HeaderSize
  /\ payload_size # None => /\ header_filled = HeaderSize
                            /\ Len(out) \in Frames \ Bad
                            /\ payload_size = Size[Len(out)]

ReaderIInv ==
  /\ ReaderTypeOK
  /\ Len(out) \in 0 .. NumFrames
  /\ future # "failed" => InSync

-----------------------------------------------------------------------------
(* The frame reader: what a header decodes to *)

\* The numbers of a frame.
LEMMA FrameFacts ==
  ASSUME NEW k \in Frames
  PROVE  /\ k \in Nat /\ k < NumFrames /\ k + 1 \in 0 .. NumFrames
         /\ Start[k] \in Nat /\ Size[k] \in Nat /\ Start[k + 1] \in Nat
         /\ HeaderSize \in Nat /\ HeaderSize > 0
         /\ Start[k + 1] = Start[k] + HeaderSize + Size[k]
  BY StreamConstants DEF Frames

\* The numbers of the reader.
LEMMA ReaderFacts ==
  ASSUME ReaderIInv
  PROVE  /\ Len(out) \in Nat /\ Start[Len(out)] \in Nat
         /\ HeaderSize \in Nat /\ HeaderSize > 0
         /\ header_filled \in Nat /\ payload_filled \in Nat
         /\ pos \in Nat /\ arrived \in Nat /\ Start[NumFrames] \in Nat
  BY StreamConstants DEF ReaderIInv, ReaderTypeOK

\* A header that begins where a frame does tells the size of that frame.
LEMMA DecodedHeader ==
  ASSUME NEW k \in Frames
  PROVE  Decoded(Start[k]) = {IF k \in Bad THEN None ELSE Size[k]}
<1>1. \A i \in Frames : Start[i] = Start[k] => i = k
  <2> SUFFICES ASSUME NEW i \in Frames, Start[i] = Start[k], i # k PROVE FALSE
    OBVIOUS
  <2>1. i \in Nat /\ k \in Nat
    BY FrameFacts
  <2>2. \A m \in Frames : Start[m] \in Nat /\ Start[m + 1] \in Nat /\ Start[m + 1] > Start[m]
    BY FrameFacts
  <2>3. \A m, n \in Frames : m < n => Start[m + 1] <= Start[n]
    BY StreamConstants
  <2>4. CASE i < k
    BY <2>2, <2>3, <2>4
  <2>5. CASE k < i
    BY <2>2, <2>3, <2>5
  <2> QED
    BY <2>1, <2>4, <2>5
<1>2. {j \in Frames : Start[j] = Start[k]} = {k}
  BY <1>1
<1> QED
  BY <1>2 DEF Decoded

\* Bytes are only read of a frame that exists.
LEMMA NextFrameExists ==
  ASSUME ReaderIInv, future # "failed", pos < arrived
  PROVE  Len(out) \in Frames
<1>1. Start[Len(out)] <= pos
  BY ReaderFacts DEF ReaderIInv, InSync
<1>2. Len(out) # NumFrames
  BY <1>1, ReaderFacts DEF ReaderIInv, ReaderTypeOK
<1> QED
  BY <1>2, StreamConstants DEF ReaderIInv, Frames

-----------------------------------------------------------------------------
(* The frame reader: one step preserves ReaderIInv *)

LEMMA ReaderInitIInv == ReaderInit => ReaderIInv
  BY StreamConstants DEF ReaderInit, ReaderIInv, InSync, ReaderTypeOK

LEMMA ReaderStepIInv == ReaderIInv /\ [ReaderNext]_readerVars => ReaderIInv'
<1> SUFFICES ASSUME ReaderIInv, [ReaderNext]_readerVars PROVE ReaderIInv'
  OBVIOUS
<1>0. /\ Len(out) \in Nat /\ Start[Len(out)] \in Nat
      /\ HeaderSize \in Nat /\ HeaderSize > 0
      /\ header_filled \in Nat /\ payload_filled \in Nat
      /\ pos \in Nat /\ arrived \in Nat /\ Start[NumFrames] \in Nat
  BY ReaderFacts
<1> USE StreamConstants DEF ReaderIInv, socket
<1>1. ASSUME NEW n \in 1 .. Start[NumFrames], Arrive(n) PROVE ReaderIInv'
  BY <1>1 DEF Arrive, ReaderTypeOK, InSync
<1>2. CASE Close
  BY <1>2 DEF Close, ReaderTypeOK, InSync
<1>3. CASE Call
  BY <1>3 DEF Call, ReaderTypeOK, InSync
<1>4. CASE Cancel
  BY <1>4 DEF Cancel, ReaderTypeOK, InSync
<1>5. ASSUME NEW n \in 1 .. HeaderSize, ReadHeader(n) PROVE ReaderIInv'
  <2>1. Len(out) \in Frames
    BY <1>5, NextFrameExists DEF ReadHeader, ReaderTypeOK
  <2>2. pos = Start[Len(out)] + header_filled /\ payload_filled = 0
    BY <1>5 DEF ReadHeader, InSync, ReaderTypeOK
  <2>3. CASE header_filled' = HeaderSize
    <3>1. pos' - HeaderSize = Start[Len(out)] /\ pos' = Start[Len(out)] + HeaderSize
      <4>1. pos' = pos + n /\ HeaderSize = header_filled + n
        BY <1>5, <2>3 DEF ReadHeader
      <4> QED
        BY <4>1, <2>2, <1>0
    <3>2. /\ payload_size' = IF Len(out) \in Bad THEN None ELSE Size[Len(out)]
          /\ payload_filled' = 0
          /\ future' = IF payload_size' = None THEN "failed" ELSE future
      BY <1>5, <2>1, <2>3, <3>1, DecodedHeader DEF ReadHeader
    <3>3. UNCHANGED <<arrived, inbound, out>> /\ pos' <= arrived /\ future = "pending"
      BY <1>5 DEF ReadHeader
    <3>4. ReaderTypeOK'
      BY <2>1, <2>3, <3>1, <3>2, <3>3, FrameFacts, <1>0 DEF ReaderTypeOK
    <3>5. future' # "failed" => InSync'
      BY <2>1, <2>3, <3>1, <3>2, <3>3, FrameFacts, <1>0 DEF InSync
    <3> QED
      BY <3>3, <3>4, <3>5
  <2>4. CASE header_filled' # HeaderSize
    <3>1. /\ UNCHANGED <<socket, out, payload_size, payload_filled, future>>
          /\ future = "pending" /\ payload_size = None
          /\ header_filled + n <= HeaderSize /\ header_filled' = header_filled + n
          /\ pos + n <= arrived /\ pos' = pos + n
      BY <1>5, <2>4 DEF ReadHeader
    <3>2. ReaderTypeOK'
      BY <3>1, <1>0 DEF ReaderTypeOK
    <3>3. pos' = Start[Len(out)] + header_filled' + payload_filled' /\ header_filled' < HeaderSize
      BY <2>2, <2>4, <3>1, <1>0
    <3>4. InSync'
      BY <3>1, <3>3 DEF InSync
    <3> QED
      BY <3>1, <3>2, <3>4
  <2> QED
    BY <2>3, <2>4
<1>6. ASSUME NEW n \in 1 .. Start[NumFrames], ReadPayload(n) PROVE ReaderIInv'
  BY <1>6 DEF ReadPayload, ReaderTypeOK, InSync
<1>7. CASE Return
  <2>1. /\ Len(out) \in Frames /\ payload_size = Size[Len(out)]
        /\ pos = Start[Len(out)] + HeaderSize + payload_size
    BY <1>7, <1>0 DEF Return, Full, InSync
  <2>2. pos = Start[Len(out) + 1]
    BY <2>1, FrameFacts
  <2>3. /\ out' = Append(out, [from |-> pos - payload_size, size |-> payload_size])
        /\ pos - payload_size \in Nat /\ payload_size \in Nat
    <3>1. payload_size \in Nat /\ pos - payload_size = Start[Len(out)] + HeaderSize
      BY <2>1, <1>0, FrameFacts
    <3> QED
      BY <1>7, <3>1, <1>0 DEF Return
  <2>4. out' \in Seq([from : Nat, size : Nat]) /\ Len(out') = Len(out) + 1
    BY <2>3 DEF ReaderTypeOK
  <2>5. ReaderTypeOK' /\ Len(out') \in 0 .. NumFrames
    BY <1>7, <2>1, <2>4 DEF Return, ReaderTypeOK, Frames
  <2>6. InSync'
    BY <1>7, <2>2, <2>4 DEF Return, InSync, ReaderTypeOK
  <2> QED
    BY <2>5, <2>6
<1>8. CASE NextFails
  BY <1>8 DEF NextFails, ReaderTypeOK
<1>9. CASE UNCHANGED readerVars
  BY <1>9 DEF readerVars, ReaderTypeOK, InSync
<1> QED
  BY <1>1, <1>2, <1>3, <1>4, <1>5, <1>6, <1>7, <1>8, <1>9 DEF ReaderNext, Read

LEMMA ReaderInvariance == ReaderSpec => []ReaderIInv
<1>1. ReaderInit => ReaderIInv
  BY ReaderInitIInv
<1>2. ReaderIInv /\ [ReaderNext]_readerVars => ReaderIInv'
  BY ReaderStepIInv
<1> QED
  BY <1>1, <1>2, PTL DEF ReaderSpec

-----------------------------------------------------------------------------
(* Type correctness: the buffers are never filled beyond their size, and    *)
(* nothing is read that has not arrived (tunnel.rs:105-137).                *)
THEOREM ReaderTypeCorrect == ReaderSpec => []ReaderTypeOK
<1>1. ReaderIInv => ReaderTypeOK
  BY DEF ReaderIInv
<1> QED
  BY <1>1, ReaderInvariance, PTL

(* Whatever reads are cut short and whatever futures are dropped, the       *)
(* caller sees what FrameSource promises (tunnel.rs:61-72).                 *)
THEOREM ReaderImplementsSource == ReaderSpec => ImplementsFrameSource
<1>1. ReaderInit => FrameSource!Init
  BY DEF ReaderInit, FrameSource!Init
<1>2. ReaderIInv /\ [ReaderNext]_readerVars => [FrameSource!Next]_(FrameSource!vars)
  <2> SUFFICES ASSUME ReaderIInv, [ReaderNext]_readerVars, ~UNCHANGED FrameSource!vars
               PROVE  FrameSource!Next
    OBVIOUS
  <2>0. /\ Len(out) \in Nat /\ Start[Len(out)] \in Nat
        /\ HeaderSize \in Nat /\ HeaderSize > 0
        /\ header_filled \in Nat /\ payload_filled \in Nat
        /\ pos \in Nat /\ arrived \in Nat /\ Start[NumFrames] \in Nat
    BY ReaderFacts
  <2> USE StreamConstants DEF ReaderIInv, socket, FrameSource!vars
  <2>1. ASSUME NEW n \in 1 .. Start[NumFrames], Arrive(n) PROVE FrameSource!Arrive(n)
    BY <2>1 DEF Arrive, FrameSource!Arrive
  <2>2. CASE Close
    BY <2>2 DEF Close, FrameSource!Close, FrameSource!Next
  <2>3. CASE Call
    BY <2>3 DEF Call
  <2>4. CASE Cancel
    BY <2>4 DEF Cancel
  <2>5. ASSUME NEW n \in 1 .. HeaderSize, ReadHeader(n) PROVE FrameSource!Fail
    <3>1. Len(out) \in Frames
      BY <2>5, NextFrameExists DEF ReadHeader, ReaderTypeOK
    <3>2. pos = Start[Len(out)] + header_filled
      BY <2>5 DEF ReadHeader, InSync, ReaderTypeOK
    <3>3. header_filled' = HeaderSize /\ future = "pending"
      BY <2>5 DEF ReadHeader
    <3>4. /\ pos' - HeaderSize = Start[Len(out)]
          /\ Start[Len(out)] + HeaderSize <= arrived
      <4>1. pos' = pos + n /\ HeaderSize = header_filled + n /\ pos + n <= arrived
        BY <2>5, <3>3 DEF ReadHeader
      <4> QED
        BY <4>1, <3>2, <2>0
    <3>5. payload_size' \in {IF Len(out) \in Bad THEN None ELSE Size[Len(out)]}
      BY <2>5, <3>1, <3>3, <3>4, DecodedHeader DEF ReadHeader
    <3>6. future' = "failed" /\ payload_size' = None
      BY <2>5, <3>3 DEF ReadHeader
    <3>7. Len(out) \in Bad
      BY <3>1, <3>5, <3>6
    <3> QED
      BY <2>5, <3>1, <3>3, <3>4, <3>6, <3>7 DEF ReadHeader, FrameSource!Fail, ReaderTypeOK
  <2>6. ASSUME NEW n \in 1 .. Start[NumFrames], ReadPayload(n) PROVE FALSE
    BY <2>6 DEF ReadPayload
  <2>7. CASE Return
    <3>1. /\ Len(out) \in Frames \ Bad /\ payload_size = Size[Len(out)]
          /\ pos = Start[Len(out)] + HeaderSize + payload_size
      BY <2>7 DEF Return, Full, InSync, ReaderTypeOK
    <3>2. FrameSource!Complete(Len(out))
      BY <3>1 DEF ReaderTypeOK, Frames, FrameSource!Complete, FrameSource!Frames
    <3>3. pos - payload_size = Start[Len(out)] + HeaderSize
      BY <3>1, FrameFacts
    <3> QED
      BY <2>7, <3>1, <3>2, <3>3
         DEF Return, FrameSource!Deliver, FrameSource!Payload, FrameSource!Next
  <2>8. CASE NextFails
    <3>1. CASE inbound = "reset"
      BY <2>8, <3>1 DEF NextFails, FrameSource!Fail, FrameSource!Next
    <3>2. CASE inbound = "eof" /\ pos = arrived
      <4>1. ~FrameSource!Complete(Len(out))
        <5>1. ASSUME Len(out) \in Frames PROVE pos < Start[Len(out) + 1]
          <6>1. InSync /\ ~Full
            BY <2>8 DEF NextFails
          <6>2. CASE payload_size = None
            BY <5>1, <6>1, <6>2, <2>0, FrameFacts DEF InSync, ReaderTypeOK
          <6>3. CASE payload_size # None
            <7>1. payload_filled < payload_size /\ payload_size = Size[Len(out)]
              BY <6>1, <6>3, <5>1, <2>0, FrameFacts DEF InSync, Full, ReaderTypeOK
            <7> QED
              BY <5>1, <6>1, <6>3, <7>1, <2>0, FrameFacts DEF InSync
          <6> QED
            BY <6>2, <6>3
        <5>2. ASSUME Len(out) \in Frames PROVE ~(Start[Len(out) + 1] <= arrived)
          BY <3>2, <5>1, <5>2, <2>0, FrameFacts
        <5> QED
          BY <5>2 DEF FrameSource!Complete, FrameSource!Frames, Frames
      <4> QED
        BY <2>8, <3>2, <4>1 DEF NextFails, FrameSource!Fail, FrameSource!Next
    <3> QED
      BY <2>8, <3>1, <3>2 DEF NextFails
  <2> QED
    BY <2>1, <2>2, <2>3, <2>4, <2>5, <2>6, <2>7, <2>8
       DEF ReaderNext, Read, readerVars, FrameSource!Next
<1> QED
  BY <1>1, <1>2, ReaderInvariance, PTL DEF ReaderSpec, ImplementsFrameSource, FrameSource!Spec

-----------------------------------------------------------------------------
(* The bridge: the inductive invariant *)

\* Before stop_bridge is called nobody is woken or aborted.
NobodyStopped == stop = 0 => notified = {} /\ aborted = {}

\* Ticks that have been counted, are being sent, or are due.
Ticks ==
  missed + (IF pc["reader"] = "send_echo" THEN 1 ELSE 0) + (IF due THEN 1 ELSE 0)

\* Once everything received is read, at most one tick is not a silent interval.
TicksAreSilence == inbox = <<>> => Ticks <= silent + 1 \/ silent = MaxMissed

IInv == TypeOK /\ NobodyStopped /\ NoQuietEnd /\ TicksAreSilence

-----------------------------------------------------------------------------
(* The bridge: lemmas about tasks *)

LEMMA TaskSet == Task = {"writer", "reader", "tun", "heartbeat"}
<1>1. DOMAIN Tasks = 1 .. 4
  BY DEF Tasks
<1> QED
  BY <1>1 DEF Task, Tasks

\* Nothing is left in an inbox that is gone.
LEMMA EmptyInbox == <<>> \in Seq(Frame) /\ Len(<<>>) = 0 /\ Len(<<>>) <= InboxLimit
<1>1. <<>> \in Seq(Frame)
  OBVIOUS
<1>2. Len(<<>>) = 0
  OBVIOUS
<1> QED
  BY <1>1, <1>2, BridgeConstants

LEMMA ZeroCount == 0 \in 0 .. MaxMissed /\ 0 \in 0 .. Capacity
  BY BridgeConstants

\* ReaderGone is the end of the reader, the channel aside.
LEMMA ReaderGoneStep ==
  ASSUME TypeOK, ReaderGone
  PROVE  /\ pc' = [pc EXCEPT !["reader"] = "ended"]
         /\ notified' = notified \ {"reader"}
         /\ inbox' \in Seq(Frame) /\ Len(inbox') <= InboxLimit
         /\ missed' = 0 /\ due' = FALSE /\ silent' = 0
         /\ due' \in BOOLEAN /\ missed' \in 0 .. MaxMissed /\ silent' \in 0 .. MaxMissed
<1>1. /\ pc' = [pc EXCEPT !["reader"] = "ended"]
      /\ notified' = notified \ {"reader"}
      /\ missed' = 0 /\ due' = FALSE /\ silent' = 0 /\ inbox' = <<>>
  BY DEF ReaderGone, Goto, Busy
<1>2. inbox' \in Seq(Frame) /\ Len(inbox') <= InboxLimit
  BY <1>1, EmptyInbox
<1>3. due' \in BOOLEAN /\ missed' \in 0 .. MaxMissed /\ silent' \in 0 .. MaxMissed
  BY <1>1, ZeroCount
<1> QED
  BY <1>1, <1>2, <1>3

\* A task that ends leaves the types alone, and no count behind it.
LEMMA EndStep ==
  ASSUME TypeOK, NEW t \in Task, End(t)
  PROVE  /\ pc' = [pc EXCEPT ![t] = "ended"]
         /\ notified' = notified \ {t}
         /\ queue' \in 0 .. Capacity
         /\ inbox' \in Seq(Frame) /\ Len(inbox') <= InboxLimit
         /\ due' \in BOOLEAN /\ missed' \in 0 .. MaxMissed /\ silent' \in 0 .. MaxMissed
         /\ t # "reader" => UNCHANGED reader
         /\ t = "reader" => missed' = 0 /\ due' = FALSE
<1>1. CASE t = "reader"
  <2>1. ReaderGone /\ queue' = queue
    BY <1>1 DEF End
  <2>2. queue' \in 0 .. Capacity
    BY <2>1 DEF TypeOK
  <2> QED
    BY <1>1, <2>1, <2>2, ReaderGoneStep
<1>2. CASE t # "reader"
  BY <1>2, BridgeConstants DEF End, Goto, Busy, TypeOK, reader
<1> QED
  BY <1>1, <1>2

-----------------------------------------------------------------------------
(* The bridge: one step preserves IInv *)

LEMMA InitIInv == Init => IInv
<1> SUFFICES ASSUME Init PROVE IInv
  OBVIOUS
<1>1. TypeOK
  <2>1. inbox \in Seq(Frame) /\ Len(inbox) <= InboxLimit
    BY EmptyInbox DEF Init
  <2>2. queue \in 0 .. Capacity /\ missed \in 0 .. MaxMissed /\ silent \in 0 .. MaxMissed
    BY ZeroCount DEF Init
  <2>3. stop \in 0 .. Done
    BY DEF Init, Done, Tasks
  <2>4. pc \in [Task -> {"select", "writing", "send", "ended"} \cup Sending]
    BY DEF Init
  <2>5. /\ notified \subseteq Task /\ aborted \subseteq Task
        /\ link \in {"ok", "stalled", "closed"}
        /\ due \in BOOLEAN /\ event \in Reason \cup {"alive"}
    BY DEF Init
  <2> QED
    BY <2>1, <2>2, <2>3, <2>4, <2>5 DEF TypeOK
<1>2. NobodyStopped /\ NoQuietEnd
  BY TaskSet DEF Init, NobodyStopped, NoQuietEnd
<1>3. TicksAreSilence
  <2>1. Ticks = 0 /\ silent = 0
    BY TaskSet DEF Init, Ticks
  <2> QED
    BY <2>1 DEF TicksAreSilence
<1> QED
  BY <1>1, <1>2, <1>3 DEF IInv

\* What leaves the reader and its pc alone leaves TicksAreSilence alone.
LEMMA OtherSteps ==
  ASSUME TicksAreSilence, UNCHANGED reader, pc'["reader"] = pc["reader"]
  PROVE  TicksAreSilence'
  BY DEF TicksAreSilence, Ticks, reader

LEMMA Successor == \A n \in 0 .. MaxMissed : 0 <= n + 1
  BY BridgeConstants

\* An ended reader has no ticks.
LEMMA EndedReader ==
  ASSUME TypeOK', pc'["reader"] = "ended", missed' = 0, due' = FALSE
  PROVE  TicksAreSilence'
<1>1. silent' \in 0 .. MaxMissed
  BY DEF TypeOK
<1>2. 0 <= silent' + 1
  BY <1>1, Successor, Zenon
<1>3. Ticks' = 0
  BY DEF Ticks
<1> QED
  BY <1>2, <1>3 DEF TicksAreSilence

LEMMA TypeStep == IInv /\ [Next]_vars => TypeOK'
<1> SUFFICES ASSUME IInv, [Next]_vars PROVE TypeOK'
  OBVIOUS
<1> USE BridgeConstants, TaskSet DEF IInv
<1>1. CASE Writer
  <2>1. CASE TakeBatch
    BY <2>1 DEF TakeBatch, Goto, Busy, TypeOK, reader
  <2>2. CASE ChannelClosed
    BY <2>2, EndStep DEF ChannelClosed, TypeOK
  <2>3. CASE WriteDone
    BY <2>3 DEF WriteDone, Goto, TypeOK, reader
  <2>4. CASE WriteFails
    BY <2>4, EndStep DEF WriteFails, DeclareDead, TypeOK, Reason
  <2> QED
    BY <1>1, <2>1, <2>2, <2>3, <2>4 DEF Writer
<1>2. CASE Reader
  <2>1. CASE EchoTick
    BY <2>1 DEF EchoTick, Goto, Busy, TypeOK, Sending
  <2>2. CASE EchoSent
    <3>1. CASE RxClosed /\ End("reader") /\ UNCHANGED event
      BY <2>2, <3>1, EndStep DEF EchoSent, TypeOK
    <3>2. CASE Enqueue /\ DeclareDead("silence") /\ ReaderGone
      <4>1. queue' \in 0 .. Capacity /\ event' \in Reason
        BY <3>2 DEF Enqueue, DeclareDead, TypeOK, Reason
      <4>2. UNCHANGED <<aborted, link, stop>>
        BY <2>2 DEF EchoSent
      <4> QED
        BY <3>2, <4>1, <4>2, ReaderGoneStep DEF TypeOK
    <3>3. CASE /\ Enqueue /\ missed + 1 < MaxMissed
               /\ missed' = missed + 1
               /\ Goto("reader", "select")
               /\ UNCHANGED <<notified, inbox, due, silent, event>>
      BY <2>2, <3>3 DEF EchoSent, Enqueue, Goto, TypeOK
    <3> QED
      BY <2>2, <3>1, <3>2, <3>3 DEF EchoSent, TypeOK
  <2>3. CASE ReadFrame
    <3>1. Head(inbox) \in Frame \ {"garbage"} /\ inbox' = Tail(inbox)
      BY <2>3 DEF ReadFrame, TypeOK
    <3>2. Handler(Head(inbox)) \in {"select"} \cup Sending
      BY <3>1 DEF Handler, Frame, Sending
    <3>3. inbox' \in Seq(Frame) /\ Len(inbox') <= InboxLimit
      BY <2>3, <3>1 DEF ReadFrame, TypeOK
    <3> QED
      BY <2>3, <3>2, <3>3 DEF ReadFrame, Goto, Busy, TypeOK
  <2>4. CASE ReadFails
    BY <2>4, EndStep DEF ReadFails, DeclareDead, TypeOK, Reason
  <2>5. CASE ReplySent
    BY <2>5 DEF ReplySent, Enqueue, Goto, TypeOK, reader
  <2>6. CASE AckSent
    <3>1. queue' \in 0 .. Capacity /\ event' \in Reason
      BY <2>6 DEF AckSent, Enqueue, DeclareDead, TypeOK, Reason
    <3>2. ReaderGone /\ UNCHANGED <<aborted, link, stop>>
      BY <2>6 DEF AckSent
    <3> QED
      BY <3>1, <3>2, ReaderGoneStep DEF TypeOK
  <2> QED
    BY <1>2, <2>1, <2>2, <2>3, <2>4, <2>5, <2>6 DEF Reader
<1>3. CASE TunPacket
  BY <1>3 DEF TunPacket, Goto, Busy, TypeOK, reader
<1>4. CASE TunSent
  <2>1. CASE RxClosed /\ End("tun")
    BY <1>4, <2>1, EndStep DEF TunSent, TypeOK
  <2>2. CASE Enqueue /\ Goto("tun", "select") /\ UNCHANGED <<notified, reader>>
    BY <1>4, <2>2 DEF TunSent, Enqueue, Goto, TypeOK, reader
  <2> QED
    BY <1>4, <2>1, <2>2 DEF TunSent
<1>5. ASSUME NEW t \in Task, LookAtAlive(t) PROVE TypeOK'
  <2>1. CASE event = "alive"
    BY <1>5, <2>1 DEF LookAtAlive, Busy, TypeOK, reader
  <2>2. CASE event # "alive"
    BY <1>5, <2>2, EndStep DEF LookAtAlive, TypeOK
  <2> QED
    BY <2>1, <2>2
<1>6. ASSUME NEW f \in Frame, Receive(f) PROVE TypeOK'
  <2>1. inbox' \in Seq(Frame) /\ Len(inbox') = Len(inbox) + 1
    BY <1>6 DEF Receive, TypeOK
  <2> QED
    BY <1>6, <2>1 DEF Receive, TypeOK
<1>7. CASE LinkChanges
  BY <1>7 DEF LinkChanges, TypeOK, reader
<1>8. CASE Interval
  BY <1>8 DEF Interval, TypeOK
<1>9. CASE NotifyWaiters
  BY <1>9 DEF NotifyWaiters, TypeOK, reader, Done, Tasks
<1>10. CASE StopBridge
  <2>1. CASE TaskStopped
    BY <2>1 DEF TaskStopped, TypeOK, reader, Done, Tasks
  <2>2. CASE StopAborts
    BY <2>2 DEF StopAborts, TypeOK, reader, Done, Tasks, Task
  <2>3. ASSUME NEW t \in Task, AbortLands(t) PROVE TypeOK'
    BY <2>3, EndStep DEF AbortLands, TypeOK
  <2> QED
    BY <1>10, <2>1, <2>2, <2>3 DEF StopBridge
<1>11. ASSUME NEW t \in Task, Hear(t) PROVE TypeOK'
  BY <1>11, EndStep DEF Hear, TypeOK
<1>12. CASE UNCHANGED vars
  BY <1>12 DEF vars, reader, TypeOK
<1>13. CASE TunTooShort
  BY <1>13 DEF TunTooShort, Busy, TypeOK, reader
<1> QED
  BY <1>13, <1>1, <1>2, <1>3, <1>4, <1>5, <1>6, <1>7, <1>8, <1>9, <1>10, <1>11, <1>12 DEF Next

\* Until stop_bridge is called, an ended reader or writer has told why.
LEMMA QuietStep == IInv /\ [Next]_vars => NobodyStopped' /\ NoQuietEnd'
<1> SUFFICES ASSUME IInv, [Next]_vars PROVE NobodyStopped' /\ NoQuietEnd'
  OBVIOUS
<1> USE TaskSet DEF IInv
<1>1. ASSUME UNCHANGED <<aborted, stop>>, notified' \subseteq notified
      PROVE  NobodyStopped'
  BY <1>1 DEF NobodyStopped
<1>2. ASSUME UNCHANGED <<pc, event, stop>>
      PROVE  NoQuietEnd'
  BY <1>2 DEF NoQuietEnd
<1>3. ASSUME event' # "alive" PROVE NoQuietEnd'
  BY <1>3 DEF NoQuietEnd
<1>4. ASSUME NEW t \in Task, NEW state, state # "ended", Goto(t, state), UNCHANGED <<event, stop>>
      PROVE  NoQuietEnd'
  BY <1>4 DEF Goto, NoQuietEnd, TypeOK
<1>5. ASSUME NEW t \in Task, t \notin {"writer", "reader"}, End(t), UNCHANGED <<event, stop>>
      PROVE  NoQuietEnd'
  BY <1>5, EndStep DEF NoQuietEnd, TypeOK
<1>6. ASSUME stop' # 0 PROVE NobodyStopped' /\ NoQuietEnd'
  BY <1>6 DEF NobodyStopped, NoQuietEnd
<1>7. CASE Writer
  <2>1. CASE TakeBatch
    BY <2>1, <1>1, <1>4 DEF TakeBatch, Busy
  <2>2. CASE ChannelClosed
    <3>1. UNCHANGED <<aborted, event, stop>> /\ notified' \subseteq notified
      BY <2>2, EndStep DEF ChannelClosed
    <3>2. stop = 0 => event # "alive"
      BY <2>2 DEF ChannelClosed, NoQuietEnd
    <3> QED
      BY <3>1, <3>2, <1>1 DEF NoQuietEnd
  <2>3. CASE WriteDone
    BY <2>3, <1>1, <1>4 DEF WriteDone
  <2>4. CASE WriteFails
    BY <2>4, <1>1, <1>3, EndStep DEF WriteFails, DeclareDead
  <2> QED
    BY <1>7, <2>1, <2>2, <2>3, <2>4 DEF Writer
<1>8. CASE Reader
  <2>1. CASE EchoTick
    BY <2>1, <1>1, <1>4 DEF EchoTick, Busy
  <2>2. CASE EchoSent
    <3>1. CASE RxClosed /\ End("reader") /\ UNCHANGED event
      <4>1. UNCHANGED <<aborted, event, stop>> /\ notified' \subseteq notified
        BY <2>2, <3>1, EndStep DEF EchoSent
      <4>2. stop = 0 => event # "alive"
        BY <3>1 DEF RxClosed, NoQuietEnd
      <4> QED
        BY <4>1, <4>2, <1>1 DEF NoQuietEnd
    <3>2. CASE DeclareDead("silence") /\ ReaderGone
      BY <2>2, <3>2, <1>1, <1>3, ReaderGoneStep DEF EchoSent, DeclareDead
    <3>3. CASE Goto("reader", "select") /\ UNCHANGED <<notified, event>>
      BY <2>2, <3>3, <1>1, <1>4 DEF EchoSent
    <3> QED
      BY <2>2, <3>1, <3>2, <3>3 DEF EchoSent
  <2>3. CASE ReadFrame
    <3>1. Handler(Head(inbox)) # "ended"
      <4>1. Head(inbox) \in Frame \ {"garbage"}
        BY <2>3 DEF ReadFrame, TypeOK
      <4> QED
        BY <4>1 DEF Handler, Frame
    <3> QED
      BY <2>3, <3>1, <1>1, <1>4 DEF ReadFrame, Busy
  <2>4. CASE ReadFails
    BY <2>4, <1>1, <1>3, EndStep DEF ReadFails, DeclareDead
  <2>5. CASE ReplySent
    BY <2>5, <1>1, <1>4 DEF ReplySent
  <2>6. CASE AckSent
    BY <2>6, <1>1, <1>3, ReaderGoneStep DEF AckSent, DeclareDead
  <2> QED
    BY <1>8, <2>1, <2>2, <2>3, <2>4, <2>5, <2>6 DEF Reader
<1>9. CASE TunPacket
  BY <1>9, <1>1, <1>4 DEF TunPacket, Busy
<1>10. CASE TunSent
  BY <1>10, <1>1, <1>4, <1>5, EndStep DEF TunSent
<1>11. ASSUME NEW t \in {"tun", "heartbeat"}, LookAtAlive(t)
       PROVE  NobodyStopped' /\ NoQuietEnd'
  BY <1>11, <1>1, <1>2, <1>5, EndStep DEF LookAtAlive, Busy
<1>12. ASSUME NEW f \in Frame, Receive(f) PROVE NobodyStopped' /\ NoQuietEnd'
  BY <1>12, <1>1, <1>2 DEF Receive
<1>13. CASE LinkChanges
  BY <1>13, <1>1, <1>2 DEF LinkChanges
<1>14. CASE Interval
  BY <1>14, <1>1, <1>2 DEF Interval
<1>15. CASE NotifyWaiters
  BY <1>15, <1>6 DEF NotifyWaiters
<1>16. CASE TaskStopped \/ StopAborts
  BY <1>16, <1>6 DEF TaskStopped, StopAborts, TypeOK, Done, Tasks
<1>17. ASSUME NEW t \in Task, AbortLands(t) \/ Hear(t)
       PROVE  NobodyStopped' /\ NoQuietEnd'
  <2>1. stop' # 0
    BY <1>17 DEF AbortLands, Hear, NobodyStopped
  <2> QED
    BY <2>1, <1>6
<1>18. CASE TunTooShort \/ UNCHANGED vars
  BY <1>18, <1>1, <1>2 DEF TunTooShort, Busy, vars
<1> QED
  BY <1>7, <1>8, <1>9, <1>10, <1>11, <1>12, <1>13, <1>14, <1>15, <1>16, <1>17, <1>18
     DEF Next, StopBridge

-----------------------------------------------------------------------------
(* The bridge: a tick is a silent interval *)

\* A task other than the reader ends.
LEMMA OthersEnd ==
  ASSUME TypeOK, TicksAreSilence, NEW t \in Task, t # "reader", End(t)
  PROVE  TicksAreSilence'
<1>1. UNCHANGED reader /\ pc'["reader"] = pc["reader"]
  BY EndStep, TaskSet DEF TypeOK
<1> QED
  BY <1>1, OtherSteps

LEMMA TicksStep == IInv /\ [Next]_vars => TicksAreSilence'
<1> SUFFICES ASSUME IInv, [Next]_vars PROVE TicksAreSilence'
  OBVIOUS
<1> USE TaskSet DEF IInv
<1>1. TypeOK'
  BY TypeStep
<1>2. missed \in Nat /\ silent \in Nat /\ silent <= MaxMissed /\ MaxMissed \in Nat
  BY BridgeConstants DEF TypeOK
<1>3. ASSUME NEW t \in Task, End(t) PROVE TicksAreSilence'
  <2>1. CASE t = "reader"
    <3>1. pc'["reader"] = "ended" /\ missed' = 0 /\ due' = FALSE
      BY <1>3, <2>1, EndStep DEF TypeOK
    <3> QED
      BY <1>1, <3>1, EndedReader
  <2> QED
    BY <1>3, <2>1, OthersEnd
<1>4. ASSUME NEW t \in Task \ {"reader"}, NEW state, Goto(t, state), UNCHANGED reader
      PROVE  TicksAreSilence'
  BY <1>4, OtherSteps DEF Goto, TypeOK
<1>5. ASSUME UNCHANGED <<pc, reader>> PROVE TicksAreSilence'
  BY <1>5, OtherSteps
<1>6. CASE ReaderGone
  <2>1. pc'["reader"] = "ended" /\ missed' = 0 /\ due' = FALSE
    BY <1>6, ReaderGoneStep DEF TypeOK
  <2> QED
    BY <1>1, <2>1, EndedReader
<1>7. CASE Writer
  BY <1>7, <1>3, <1>4 DEF Writer, TakeBatch, ChannelClosed, WriteDone, WriteFails
<1>8. CASE Reader
  <2>1. CASE EchoTick
    <3>1. /\ pc["reader"] = "select" /\ pc'["reader"] = "send_echo"
          /\ due /\ ~due' /\ UNCHANGED <<missed, silent, inbox>>
      BY <2>1 DEF EchoTick, At, Goto, TypeOK
    <3>2. Ticks' = Ticks
      BY <3>1, <1>2 DEF Ticks
    <3> QED
      BY <3>1, <3>2 DEF TicksAreSilence
  <2>2. CASE EchoSent
    <3>1. CASE missed' = missed + 1 /\ Goto("reader", "select")
               /\ UNCHANGED <<inbox, due, silent>>
      <4>1. pc["reader"] = "send_echo" /\ pc'["reader"] = "select"
        BY <2>2, <3>1 DEF EchoSent, At, Goto, TypeOK
      <4>2. Ticks' = Ticks
        BY <3>1, <4>1, <1>2 DEF Ticks
      <4> QED
        BY <3>1, <4>2 DEF TicksAreSilence
    <3> QED
      BY <2>2, <3>1, <1>3, <1>6 DEF EchoSent
  <2>3. CASE ReadFrame
    <3>1. missed' = 0 /\ UNCHANGED <<due, silent>> /\ pc'["reader"] = Handler(Head(inbox))
      BY <2>3 DEF ReadFrame, Goto, TypeOK
    <3>2. Handler(Head(inbox)) # "send_echo"
      <4>1. Head(inbox) \in Frame \ {"garbage"}
        BY <2>3 DEF ReadFrame, TypeOK
      <4> QED
        BY <4>1 DEF Handler, Frame
    <3>3. Ticks' = IF due' THEN 1 ELSE 0
      BY <3>1, <3>2 DEF Ticks
    <3>4. Ticks' <= 1
      BY <3>3
    <3>5. Ticks' <= silent' + 1
      BY <3>1, <3>3, <1>2
    <3> QED
      BY <3>5 DEF TicksAreSilence
  <2>4. CASE ReadFails
    BY <2>4, <1>3 DEF ReadFails
  <2>5. CASE ReplySent
    <3>1. /\ pc["reader"] = "send_reply" /\ pc'["reader"] = "select"
          /\ UNCHANGED reader
      BY <2>5 DEF ReplySent, At, Goto, TypeOK
    <3>2. Ticks' = Ticks
      BY <3>1 DEF Ticks, reader
    <3> QED
      BY <3>1, <3>2 DEF TicksAreSilence, reader
  <2>6. CASE AckSent
    BY <2>6, <1>6 DEF AckSent
  <2> QED
    BY <1>8, <2>1, <2>2, <2>3, <2>4, <2>5, <2>6 DEF Reader
<1>9. CASE TunPacket \/ TunSent
  BY <1>9, <1>3, <1>4 DEF TunPacket, TunSent
<1>10. ASSUME NEW t \in Task, LookAtAlive(t) \/ AbortLands(t) \/ Hear(t)
       PROVE  TicksAreSilence'
  BY <1>10, <1>3, <1>5 DEF LookAtAlive, AbortLands, Hear
<1>11. ASSUME NEW f \in Frame, Receive(f) PROVE TicksAreSilence'
  <2>1. inbox' # <<>>
    BY <1>11 DEF Receive, TypeOK
  <2> QED
    BY <2>1 DEF TicksAreSilence
<1>12. CASE Interval
  <2>1. /\ due' = TRUE /\ UNCHANGED <<pc, inbox, missed>>
        /\ silent' = IF silent < MaxMissed THEN silent + 1 ELSE silent
    BY <1>12 DEF Interval
  <2>2. Ticks' <= Ticks + 1 /\ Ticks \in Nat /\ Ticks' \in Nat
    BY <2>1, <1>2 DEF Ticks
  <2> QED
    BY <2>1, <2>2, <1>2 DEF TicksAreSilence
<1>13. CASE LinkChanges \/ NotifyWaiters \/ TaskStopped \/ StopAborts \/ TunTooShort \/ UNCHANGED vars
  BY <1>13, <1>5 DEF TunTooShort, LinkChanges, NotifyWaiters, TaskStopped, StopAborts, vars
<1> QED
  BY <1>7, <1>8, <1>9, <1>10, <1>11, <1>12, <1>13 DEF Next, StopBridge

-----------------------------------------------------------------------------
(* The bridge: the theorems *)

LEMMA Invariance == Spec => []IInv
<1>1. IInv /\ [Next]_vars => IInv'
  BY TypeStep, QuietStep, TicksStep DEF IInv
<1> QED
  BY InitIInv, <1>1, PTL DEF Spec

(* Channel, echo count and tasks stay within their ranges, for any sizes. *)
THEOREM TypeCorrect == Spec => []TypeOK
<1>1. IInv => TypeOK
  BY DEF IInv
<1> QED
  BY Invariance, <1>1, PTL

(* The session monitor is told of the end of the writer or the reader      *)
(* whichever ends first (declare_dead, bridge.rs).                         *)
THEOREM NobodyEndsQuietly == Spec => []NoQuietEnd
<1>1. IInv => NoQuietEnd
  BY DEF IInv
<1> QED
  BY Invariance, <1>1, PTL

(* With nothing left to read, the tunnel is given up for its silence only  *)
(* after all but one of MaxMissed intervals were silent (bridge.rs,        *)
(* tunnel_reader_loop).                                                    *)
THEOREM SilenceBeforeExpiry == Spec => ExpiresOnlyWhenSilent
<1> DEFINE Fair == event # "silence" /\ event' = "silence" /\ inbox = <<>>
                     => silent + 1 >= MaxMissed
<1>1. IInv /\ [Next]_vars => [Fair]_vars
  <2> SUFFICES ASSUME IInv, Next, event # "silence", event' = "silence", inbox = <<>>
               PROVE  silent + 1 >= MaxMissed
    OBVIOUS
  <2>1. missed \in Nat /\ silent \in Nat /\ MaxMissed \in Nat
    BY BridgeConstants DEF IInv, TypeOK
  <2>2. EchoSent /\ missed + 1 >= MaxMissed
    BY DEF Next, Writer, Reader, StopBridge, TakeBatch, ChannelClosed, WriteDone, WriteFails,
           EchoTick, EchoSent, ReadFrame, ReadFails, ReplySent, AckSent, TunPacket, TunSent, TunTooShort,
           LookAtAlive, Receive, LinkChanges, Interval, NotifyWaiters, TaskStopped,
           StopAborts, AbortLands, Hear, DeclareDead
  <2>3. pc["reader"] = "send_echo"
    BY <2>2 DEF EchoSent, At
  <2>4. Ticks >= missed + 1
    BY <2>1, <2>3 DEF Ticks
  <2>5. Ticks \in Nat
    BY <2>1 DEF Ticks
  <2>6. Ticks <= silent + 1 \/ silent = MaxMissed
    BY DEF IInv, TicksAreSilence
  <2> QED
    BY <2>1, <2>2, <2>4, <2>5, <2>6
<1> QED
  BY Invariance, <1>1, PTL DEF Spec, ExpiresOnlyWhenSilent

-----------------------------------------------------------------------------
(* The bridge: stop_bridge *)

\* Whom stop_bridge has waited for has ended, or is aborted.
StopSparesNone ==
  \A i \in DOMAIN Tasks : i < stop => pc[Tasks[i]] = "ended" \/ Tasks[i] \in aborted

\* An ended task stays ended, and an abort is not taken back before it lands.
LEMMA EndedStays ==
  ASSUME IInv, [Next]_vars, NEW u \in Task
  PROVE  /\ pc[u] = "ended" => pc'[u] = "ended"
         /\ u \in aborted => u \in aborted' \/ pc'[u] = "ended"
<1> USE TaskSet DEF IInv
<1>1. ASSUME NEW t \in Task, NEW from, NEW to, from # "ended", At(t, from), Goto(t, to)
      PROVE  pc[u] = "ended" => pc'[u] = "ended"
  BY <1>1 DEF At, Goto, TypeOK
<1>2. ASSUME NEW t \in Task, End(t)
      PROVE  pc'[t] = "ended" /\ (pc[u] = "ended" => pc'[u] = "ended")
  BY <1>2, EndStep DEF TypeOK
<1>3. ASSUME ReaderGone PROVE pc[u] = "ended" => pc'[u] = "ended"
  BY <1>3, ReaderGoneStep DEF TypeOK
<1>4. CASE Writer
  BY <1>4, <1>1, <1>2 DEF Writer, TakeBatch, ChannelClosed, WriteDone, WriteFails
<1>5. CASE Reader
  <2>1. CASE EchoTick \/ ReadFrame \/ ReplySent
    BY <2>1, <1>1 DEF EchoTick, ReadFrame, ReplySent
  <2>2. CASE EchoSent \/ ReadFails \/ AckSent
    BY <2>2, <1>1, <1>2, <1>3 DEF EchoSent, ReadFails, AckSent
  <2> QED
    BY <1>5, <2>1, <2>2 DEF Reader
<1>6. CASE TunPacket \/ TunSent
  BY <1>6, <1>1, <1>2 DEF TunPacket, TunSent
<1>7. ASSUME NEW t \in {"tun", "heartbeat"}, LookAtAlive(t)
      PROVE  /\ pc[u] = "ended" => pc'[u] = "ended"
             /\ aborted' = aborted
  BY <1>7, <1>2 DEF LookAtAlive
<1>8. ASSUME NEW f \in Frame, Receive(f) PROVE UNCHANGED <<pc, aborted>>
  BY <1>8 DEF Receive
<1>9. CASE \/ TunTooShort \/ LinkChanges \/ Interval \/ NotifyWaiters
           \/ TaskStopped \/ UNCHANGED vars
  BY <1>9 DEF TunTooShort, LinkChanges, Interval, NotifyWaiters, TaskStopped, vars
<1>10. CASE StopAborts
  BY <1>10 DEF StopAborts
<1>11. ASSUME NEW t \in Task, Hear(t)
       PROVE  /\ pc[u] = "ended" => pc'[u] = "ended"
              /\ aborted' = aborted
  BY <1>11, <1>2 DEF Hear
<1>12. ASSUME NEW t \in Task, AbortLands(t)
       PROVE  /\ pc[u] = "ended" => pc'[u] = "ended"
              /\ u \in aborted => u \in aborted' \/ pc'[u] = "ended"
  BY <1>12, <1>2 DEF AbortLands
<1> QED
  BY <1>4, <1>5, <1>6, <1>7, <1>8, <1>9, <1>10, <1>11, <1>12 DEF Next, StopBridge

(* When stop_bridge returns, no task is left that has neither ended nor    *)
(* been aborted, also none that missed the shutdown: the safety half of    *)
(* StopEndsAllTasks (lib.rs, stop_bridge).                                 *)
THEOREM StopForgetsNobody == Spec => []StopSparesNone
<1>1. DOMAIN Tasks = 1 .. 4 /\ \A i \in DOMAIN Tasks : Tasks[i] \in Task
  BY DEF Task, Tasks
<1>2. Init => StopSparesNone
  BY <1>1 DEF Init, StopSparesNone
<1>3. ASSUME IInv, StopSparesNone, [Next]_vars PROVE StopSparesNone'
  <2> SUFFICES ASSUME NEW i \in DOMAIN Tasks, i < stop'
               PROVE  pc'[Tasks[i]] = "ended" \/ Tasks[i] \in aborted'
    BY DEF StopSparesNone
  <2>1. Tasks[i] \in Task
    BY <1>1
  <2>2. CASE i < stop
    BY <1>3, <2>1, <2>2, EndedStays DEF StopSparesNone
  <2>3. CASE ~(i < stop)
    <3>1. i \in 1 .. 4 /\ stop \in 0 .. Done
      BY <1>1, <1>3 DEF IInv, TypeOK
    <3>2. stop' # stop
      BY <2>3
    <3>3. NotifyWaiters \/ TaskStopped \/ StopAborts
      BY <1>3, <3>2
         DEF Next, Writer, Reader, StopBridge, TakeBatch, ChannelClosed, WriteDone, WriteFails,
             EchoTick, EchoSent, ReadFrame, ReadFails, ReplySent, AckSent, TunPacket, TunSent,
             TunTooShort, LookAtAlive, Receive, LinkChanges, Interval, AbortLands, Hear, vars
    <3>4. CASE NotifyWaiters
      BY <3>1, <3>4 DEF NotifyWaiters
    <3>5. CASE TaskStopped \/ StopAborts
      <4>1. stop' = stop + 1 /\ stop \in 1 .. 4
        BY <1>1, <3>5 DEF TaskStopped, StopAborts
      <4>2. i = stop
        BY <2>3, <3>1, <4>1
      <4> QED
        BY <3>5, <4>2 DEF TaskStopped, StopAborts
    <3> QED
      BY <3>3, <3>4, <3>5
  <2> QED
    BY <2>2, <2>3
<1> QED
  BY Invariance, <1>2, <1>3, PTL DEF Spec
=============================================================================
