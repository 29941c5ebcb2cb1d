-------------------------- MODULE MCFrameReception --------------------------
(* FrameReception for TLC: one frame is three packets, the 16-bit sequence *)
(* numbers are numbers modulo 16 that wrap inside the second frame.        *)
EXTENDS FrameReception

MCSeqMod == 16
MCPacketsPerFrame == 3
MCFirstSeq == 12
MCJoinAnywhere == 0 .. 2
MCJoinAtFrameStart == {0}
=============================================================================
