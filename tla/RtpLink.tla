------------------------------ MODULE RtpLink -------------------------------
(***************************************************************************)
(* The multicast path from the sender to the receiver's socket: UDP over   *)
(* IP, so a packet may be lost, may come late, may come twice.  It is      *)
(* outside the repository; the code only assumes what is said here.        *)
(*                                                                         *)
(* A packet that is passed over may still come later, up to Reach          *)
(* positions behind; if it never does, it was lost.                        *)
(***************************************************************************)
EXTENDS RtpVideo

CONSTANTS Frames,         \* length of the stream, in frames
          JoinAt,         \* positions of the first packet that may arrive
          MaxSkip,        \* bound on a burst of passed-over packets
          Reach,          \* how far behind a late packet or a duplicate may be
          Duplicates      \* whether packets may arrive twice

ASSUME FramesAssumption == Frames \in Nat
ASSUME JoinAtAssumption == JoinAt \subseteq Nat
ASSUME MaxSkipAssumption == MaxSkip \in Nat
ASSUME ReachAssumption == Reach \in Nat
\* A sequence number names one packet within what the link can displace.
ASSUME WindowAssumption == MaxSkip + Reach < SeqMod
ASSUME DuplicatesAssumption == Duplicates \in BOOLEAN

VARIABLES cursor,   \* position after the furthest packet that has arrived
          arrived   \* positions of the packets that have arrived

linkVars == <<cursor, arrived>>

StreamLength == Frames * PacketsPerFrame

LinkTypeOK ==
    /\ cursor \in Nat
    /\ arrived \in SUBSET Nat

LinkInit ==
    /\ cursor \in JoinAt
    /\ arrived = {}

\* Packet n overtakes everything between cursor and n.  Nothing is passed
\* over before the receiver has read its first packet: that is where it joins.
ArrivesAhead(n) ==
    /\ n >= cursor
    /\ n < StreamLength
    /\ n - cursor <= (IF arrived = {} THEN 0 ELSE MaxSkip)
    /\ cursor' = n + 1

\* Packet n arrives behind a later one, or a second time.
ArrivesBehind(n) ==
    /\ n < cursor
    /\ cursor - n <= Reach
    /\ n \in arrived => Duplicates
    /\ UNCHANGED cursor

LinkDelivers(n) ==
    /\ ArrivesAhead(n) \/ ArrivesBehind(n)
    /\ arrived' = arrived \cup {n}
=============================================================================
