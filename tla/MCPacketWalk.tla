---------------------------- MODULE MCPacketWalk ----------------------------
(* PacketWalk for TLC: a picture of two lines of two pgroups, room for     *)
(* three segment headers, and datagrams cut off at every kind of place.    *)
EXTENDS PacketWalk

MCPacketLengths == {11, 12, 13, 14, 15, 16, 20, 21, 26, 28, 32, 35, 37, 42}
=============================================================================
