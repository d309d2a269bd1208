------------------------ MODULE FrameReaderProperties ------------------------
\* What the frame reader must satisfy.
EXTENDS FrameReader

FrameSource == INSTANCE FrameSource WITH failed <- future = "failed"

(* Whatever reads are cut short and whatever futures are dropped, the       *)
(* caller sees the frames of the gateway and no error of the reader's own   *)
(* making (tunnel.rs:61-72, 95-98; bridge.rs:576-578).                      *)
ImplementsFrameSource == FrameSource!Spec

(* A dropped future "only postpones the frame" (tunnel.rs:98): one that has *)
(* arrived is handed out in the end, unless the reader has failed.          *)
FramesComeOut ==
  \A i \in Frames :
    Start[i + 1] <= arrived ~> Len(out) > i \/ future = "failed"
=============================================================================
