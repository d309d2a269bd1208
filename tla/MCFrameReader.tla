---------------------------- MODULE MCFrameReader ----------------------------
\* Instances of FrameReader for TLC.
EXTENDS FrameReaderProperties, TLC

MCSize == 0 :> 2 @@ 1 :> 0 @@ 2 :> 3 @@ 3 :> 1

MCStart == 0 :> 0 @@ 1 :> 5 @@ 2 :> 8 @@ 3 :> 14 @@ 4 :> 18
=============================================================================
