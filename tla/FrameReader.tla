----------------------------- MODULE FrameReader -----------------------------
(***************************************************************************)
(* The cancel-safe reader of 0x5050 frames (fortivpn: tunnel.rs).          *)
(*                                                                         *)
(* A future of next_frame exists between Call and its result, and may be   *)
(* dropped wherever it awaits the socket.  What a buffer holds is told by  *)
(* pos and its fill level: reads are contiguous, so the last byte of it is *)
(* the one before pos.                                                     *)
(*                                                                         *)
(* Its names are its own: DataPathProofs extends it along with Bridge.     *)
(***************************************************************************)
EXTENDS Naturals, Sequences

CONSTANTS
  HeaderSize, NumFrames, Start, Size, Bad,  \* as in FrameSource
  None

Frames == 0 .. NumFrames - 1

ASSUME StreamConstants ==
  /\ HeaderSize \in Nat \ {0}
  /\ NumFrames \in Nat
  /\ Size \in [Frames -> Nat]
  /\ Start \in [0 .. NumFrames -> Nat]
  /\ Start[0] = 0
  /\ \A i \in Frames : Start[i + 1] = Start[i] + HeaderSize + Size[i]
  /\ \A i, j \in Frames : i < j => Start[i + 1] <= Start[j]
  /\ Bad \subseteq Frames
  /\ None \notin Nat

VARIABLES
  arrived, inbound,  \* the socket
  pos,            \* next byte to read from it
  header_filled,
  payload_filled,
  payload_size,   \* None, or what the header declared
  future,         \* "none", "pending", or "failed" for good
  out             \* payloads handed out

socket == <<arrived, inbound>>
readerVars == <<socket, pos, header_filled, payload_filled, payload_size, future, out>>

ReaderTypeOK ==
  /\ arrived \in 0 .. Start[NumFrames]
  /\ inbound \in {"open", "eof", "reset"}
  /\ pos \in 0 .. arrived
  /\ header_filled \in 0 .. HeaderSize
  /\ payload_size \in Nat \cup {None}
  /\ payload_filled \in IF payload_size = None THEN {0} ELSE 0 .. payload_size
  /\ future \in {"none", "pending", "failed"}
  /\ out \in Seq([from : Nat, size : Nat])

ReaderInit ==
  /\ arrived = 0
  /\ inbound = "open"
  /\ pos = 0
  /\ header_filled = 0
  /\ payload_filled = 0
  /\ payload_size = None
  /\ future = "none"
  /\ out = <<>>

-----------------------------------------------------------------------------
(* The socket *)

Arrive(n) ==
  /\ inbound = "open"
  /\ arrived' = arrived + n
  /\ arrived' <= Start[NumFrames]
  /\ UNCHANGED <<inbound, pos, header_filled, payload_filled, payload_size, future, out>>

Close ==
  /\ inbound = "open"
  /\ inbound' \in {"eof", "reset"}
  /\ UNCHANGED <<arrived, pos, header_filled, payload_filled, payload_size, future, out>>

-----------------------------------------------------------------------------
(* next_frame *)

Call ==
  /\ future = "none"
  /\ future' = "pending"
  /\ UNCHANGED <<socket, pos, header_filled, payload_filled, payload_size, out>>

\* The payload is complete; no await is left before the future's result.
Full == payload_size # None /\ payload_filled = payload_size

\* Mutant: the header is read into the future, as read_frame does.
CancelDropsHeader ==
  /\ future = "pending"
  /\ ~Full
  /\ future' = "none"
  /\ header_filled' = IF payload_size = None THEN 0 ELSE header_filled
  /\ UNCHANGED <<socket, pos, payload_filled, payload_size, out>>

\* Another branch of the caller's select! wins.
Cancel ==
  /\ future = "pending"
  /\ ~Full
  /\ future' = "none"
  /\ UNCHANGED <<socket, pos, header_filled, payload_filled, payload_size, out>>

(* What the header at p decodes to.  Bytes that are no header may happen   *)
(* to decode.                                                              *)
Decoded(p) ==
  IF \E i \in Frames : Start[i] = p
  THEN {IF i \in Bad THEN None ELSE Size[i] : i \in {j \in Frames : Start[j] = p}}
  ELSE {None} \cup {Size[i] : i \in Frames}

ReadHeader(n) ==
  /\ future = "pending"
  /\ payload_size = None
  /\ pos + n <= arrived
  /\ header_filled + n <= HeaderSize
  /\ pos' = pos + n
  /\ header_filled' = header_filled + n
  /\ IF header_filled' = HeaderSize
     THEN \E size \in Decoded(pos' - HeaderSize) :
            /\ payload_size' = size
            /\ payload_filled' = 0
            /\ future' = IF size = None THEN "failed" ELSE future
     ELSE UNCHANGED <<payload_size, payload_filled, future>>
  /\ UNCHANGED <<socket, out>>

ReadPayload(n) ==
  /\ future = "pending"
  /\ payload_size # None
  /\ pos + n <= arrived
  /\ payload_filled + n <= payload_size
  /\ pos' = pos + n
  /\ payload_filled' = payload_filled + n
  /\ UNCHANGED <<socket, header_filled, payload_size, future, out>>

\* Mutant: an empty payload is read for, not handed out.
ReturnNonEmpty ==
  /\ future = "pending"
  /\ Full
  /\ payload_size > 0
  /\ out' = Append(out, [from |-> pos - payload_size, size |-> payload_size])
  /\ header_filled' = 0
  /\ payload_filled' = 0
  /\ payload_size' = None
  /\ future' = "none"
  /\ UNCHANGED <<socket, pos>>

Return ==
  /\ future = "pending"
  /\ Full
  /\ out' = Append(out, [from |-> pos - payload_size, size |-> payload_size])
  /\ header_filled' = 0
  /\ payload_filled' = 0
  /\ payload_size' = None
  /\ future' = "none"
  /\ UNCHANGED <<socket, pos>>

\* The read fails, or returns 0 after the last byte.
NextFails ==
  /\ future = "pending"
  /\ ~Full
  /\ inbound = "reset" \/ (inbound = "eof" /\ pos = arrived)
  /\ future' = "failed"
  /\ UNCHANGED <<socket, pos, header_filled, payload_filled, payload_size, out>>

Read ==
  \/ \E n \in 1 .. HeaderSize : ReadHeader(n)
  \/ \E n \in 1 .. Start[NumFrames] : ReadPayload(n)

ReaderNext ==
  \/ \E n \in 1 .. Start[NumFrames] : Arrive(n)
  \/ Close
  \/ Call \/ Cancel \/ Read \/ Return \/ NextFails

(* The caller's loop calls again after a cancellation, and its select!     *)
(* polls the ready branches in random order, so a read that is possible    *)
(* again and again is made.                                                *)
ReaderFairness ==
  /\ WF_readerVars(Call)
  /\ SF_readerVars(Read)
  /\ WF_readerVars(Return)

ReaderSpec == ReaderInit /\ [][ReaderNext]_readerVars /\ ReaderFairness
=============================================================================
