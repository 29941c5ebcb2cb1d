------------------------------ MODULE RtpVideo ------------------------------
(***************************************************************************)
(* The RTP packets of an ST 2110-20 video stream, as far as the receiver   *)
(* tells them apart.  A conforming sender cuts every frame into the same   *)
(* number of packets, numbers them consecutively modulo 2^16, gives every  *)
(* packet of a frame the frame's timestamp, and sets the marker bit on the *)
(* last packet of a frame.  The sender is outside the repository: this     *)
(* module is its contract, read off the parser in rx_rfc4175.c.            *)
(*                                                                         *)
(* A packet is named by its position n \in Nat in the stream.  The pixels  *)
(* it carries fill one slot of the picture, and a slot is said to hold the *)
(* timestamp of the frame its pixels were taken from.                      *)
(***************************************************************************)
EXTENDS Integers

CONSTANTS SeqMod,           \* number of RTP sequence numbers, 2^16
          PacketsPerFrame,  \* packets the sender cuts one frame into
          FirstSeq,         \* sequence number of packet 0
          Blank             \* content of a slot that memset has zeroed

ASSUME SeqModAssumption == SeqMod \in Nat \ {0, 1}
ASSUME PacketsPerFrameAssumption == PacketsPerFrame \in Nat \ {0}
ASSUME FirstSeqAssumption == FirstSeq \in Nat
ASSUME BlankAssumption == Blank \notin Nat

Slots == 0 .. PacketsPerFrame - 1

Pictures == [Slots -> Nat \cup {Blank}]

BlankPicture == [s \in Slots |-> Blank]

FrameOf(n) == n \div PacketsPerFrame

SlotOf(n) == n % PacketsPerFrame

IsLastOfFrame(n) == SlotOf(n) = PacketsPerFrame - 1

SeqOf(n) == (FirstSeq + n) % SeqMod

PacketsOf(f) == f * PacketsPerFrame .. (f + 1) * PacketsPerFrame - 1

(***************************************************************************)
(* Condition of a packet whose RTP header can be read:                     *)
(*   "intact"  - every segment of it is copied into the picture            *)
(*   "garbled" - no segment is: the segment headers do not fit the         *)
(*               datagram, or there are too many, or the datagram was cut  *)
(*               at the size of the receive buffer                         *)
(***************************************************************************)
Conditions == {"intact", "garbled"}

\* A datagram as the assembler sees it.  It is not readable if it is too
\* short for its RTP header or for the two bytes of the extended sequence
\* number.
Packet == [readable : BOOLEAN, seq : 0 .. SeqMod - 1, ts : Nat,
           marker : BOOLEAN, slots : SUBSET Slots]

\* Packet n of the stream, received in the given condition.
PacketAt(n, condition) ==
    [readable |-> TRUE,
     seq      |-> SeqOf(n),
     ts       |-> FrameOf(n),
     marker   |-> IsLastOfFrame(n),
     slots    |-> IF condition = "intact" THEN {SlotOf(n)} ELSE {}]

\* A datagram that is no packet of any stream.
Stray == [readable |-> FALSE, seq |-> 0, ts |-> 0, marker |-> FALSE,
          slots |-> {}]
=============================================================================
