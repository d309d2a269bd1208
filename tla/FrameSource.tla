----------------------------- MODULE FrameSource -----------------------------
(***************************************************************************)
(* What FrameReader promises: the frames of the gateway come out whole, in *)
(* order, each once, as if nobody ever dropped a read (fortivpn:           *)
(* tunnel.rs:61-72).                                                       *)
(*                                                                         *)
(* Bytes are known by their position in the stream of the gateway.  Frame  *)
(* i has its header at Start[i], and a payload of Size[i] bytes after it;  *)
(* the headers of the frames in Bad do not decode.                         *)
(***************************************************************************)
EXTENDS Naturals, Sequences

CONSTANTS HeaderSize, NumFrames, Start, Size, Bad

Frames == 0 .. NumFrames - 1

VARIABLES
  arrived, \* bytes the socket has received
  inbound, \* "open", closed by the gateway ("eof"), or broken ("reset")
  out,     \* payloads handed out
  failed   \* an error was handed out

vars == <<arrived, inbound, out, failed>>

Payload(i) == [from |-> Start[i] + HeaderSize, size |-> Size[i]]

Complete(i) == i \in Frames /\ Start[i + 1] <= arrived

Init ==
  /\ arrived = 0
  /\ inbound = "open"
  /\ out = <<>>
  /\ failed = FALSE

Arrive(n) ==
  /\ inbound = "open"
  /\ arrived' = arrived + n
  /\ arrived' <= Start[NumFrames]
  /\ UNCHANGED <<inbound, out, failed>>

Close ==
  /\ inbound = "open"
  /\ inbound' \in {"eof", "reset"}
  /\ UNCHANGED <<arrived, out, failed>>

Deliver ==
  /\ ~failed
  /\ Complete(Len(out))
  /\ Len(out) \notin Bad
  /\ out' = Append(out, Payload(Len(out)))
  /\ UNCHANGED <<arrived, inbound, failed>>

\* Only for a header that does not decode, or when nothing more can come.
Fail ==
  /\ ~failed
  /\ \/ Len(out) \in Bad /\ Start[Len(out)] + HeaderSize <= arrived
     \/ inbound = "eof" /\ ~Complete(Len(out))
     \/ inbound = "reset"
  /\ failed' = TRUE
  /\ UNCHANGED <<arrived, inbound, out>>

Next ==
  \/ \E n \in 1 .. Start[NumFrames] : Arrive(n)
  \/ Close \/ Deliver \/ Fail

Spec == Init /\ [][Next]_vars
=============================================================================
