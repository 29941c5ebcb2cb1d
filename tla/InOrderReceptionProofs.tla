----------------------- MODULE InOrderReceptionProofs -----------------------
(***************************************************************************)
(* Theorems about FrameReception on a link that does not reorder (Reach =  *)
(* 0), for every sequence-number width, packets per frame, stream length,  *)
(* point of joining and burst of losses below the width, whether packets   *)
(* are intact or garbled.                                                  *)
(*                                                                         *)
(* The proofs first reduce a call of rx_process_packet to positions in the *)
(* stream (lemma Reading), and then speak of positions only.               *)
(***************************************************************************)
EXTENDS FrameReceptionProofs, FiniteSetTheorems, WellFoundedInduction
-----------------------------------------------------------------------------
(* Frames as intervals of positions.                                       *)

FirstOf(f) == f * PacketsPerFrame

\* A position lies between the first and the last one of its frame.
LEMMA FrameBounds ==
    ASSUME NEW n \in Nat
    PROVE  /\ FrameOf(n) \in Nat
           /\ FirstOf(FrameOf(n)) \in Nat
           /\ FirstOf(FrameOf(n)) <= n
           /\ n <= FirstOf(FrameOf(n)) + PacketsPerFrame - 1
           /\ IsLastOfFrame(n) <=>
                  n = FirstOf(FrameOf(n)) + PacketsPerFrame - 1
<1> DEFINE P == PacketsPerFrame
           f == FrameOf(n)
           s == SlotOf(n)
<1>1. P \in Nat \ {0}
  BY Constants DEF ConstantAssumptions
<1>2. f \in Nat /\ s \in 0 .. P - 1 /\ n = P * f + s
  BY Position DEF Slots
<1>3. IsLastOfFrame(n) <=> s = P - 1
  BY DEF IsLastOfFrame
<1>4. FirstOf(f) = f * P
  BY DEF FirstOf
<1> HIDE DEF P, f, s
<1>5. FirstOf(f) = P * f /\ P * f \in Nat
  BY <1>1, <1>2, <1>4
<1>6. /\ FirstOf(f) <= n /\ n <= FirstOf(f) + P - 1
      /\ s = P - 1 <=> n = FirstOf(f) + P - 1
  BY <1>1, <1>2, <1>5
<1> QED
  BY <1>2, <1>3, <1>5, <1>6 DEF P, f, s

\* A later frame starts behind the end of an earlier one.
LEMMA LaterFrame ==
    ASSUME NEW f \in Nat, NEW g \in Nat, f < g
    PROVE  /\ FirstOf(f) \in Nat /\ FirstOf(g) \in Nat
           /\ FirstOf(f) + PacketsPerFrame <= FirstOf(g)
<1> DEFINE P == PacketsPerFrame
<1>1. P \in Nat \ {0}
  BY Constants DEF ConstantAssumptions
<1>2. FirstOf(f) = f * P /\ FirstOf(g) = g * P
  BY DEF FirstOf
<1> HIDE DEF P
<1>3. PICK e \in Nat : g = f + 1 + e
  <2>1. g - f - 1 \in Nat /\ g = f + 1 + (g - f - 1)
    OBVIOUS
  <2> QED
    BY <2>1
<1>4. g * P = f * P + P + e * P
  BY <1>1, <1>3
<1>5. f * P \in Nat /\ e * P \in Nat /\ g * P \in Nat
  BY <1>1
<1>6. f * P + P <= g * P
  BY <1>1, <1>4, <1>5
<1> QED
  BY <1>2, <1>5, <1>6 DEF P

\* The positions of a frame, as an interval.
LEMMA FrameInterval ==
    ASSUME NEW f \in Nat
    PROVE  /\ FirstOf(f) \in Nat
           /\ PacketsOf(f) = FirstOf(f) .. FirstOf(f) + PacketsPerFrame - 1
<1> DEFINE P == PacketsPerFrame
<1>1. P \in Nat \ {0}
  BY Constants DEF ConstantAssumptions
<1>2. FirstOf(f) = f * P /\ PacketsOf(f) = f * P .. (f + 1) * P - 1
  BY DEF FirstOf, PacketsOf
<1> HIDE DEF P
<1>3. (f + 1) * P = f * P + P /\ f * P \in Nat
  BY <1>1
<1>4. PacketsOf(f) = FirstOf(f) .. FirstOf(f) + P - 1
  BY <1>1, <1>2, <1>3
<1> QED
  BY <1>2, <1>3, <1>4 DEF P

\* A position is among those of a frame exactly if that is its frame.
LEMMA OfFrame ==
    ASSUME NEW f \in Nat, NEW n \in Nat
    PROVE  n \in PacketsOf(f) <=> FrameOf(n) = f
<1>1. /\ FrameOf(n) \in Nat
      /\ FirstOf(FrameOf(n)) \in Nat
      /\ FirstOf(FrameOf(n)) <= n
      /\ n <= FirstOf(FrameOf(n)) + PacketsPerFrame - 1
  BY FrameBounds
<1>2. /\ FirstOf(f) \in Nat
      /\ PacketsOf(f) = FirstOf(f) .. FirstOf(f) + PacketsPerFrame - 1
  BY FrameInterval
<1>3. PacketsPerFrame \in Nat
  BY Constants DEF ConstantAssumptions
<1>4. ASSUME FrameOf(n) < f PROVE n \notin PacketsOf(f)
  <2>1. FirstOf(FrameOf(n)) + PacketsPerFrame <= FirstOf(f)
    BY <1>1, <1>4, LaterFrame
  <2> QED
    BY <1>1, <1>2, <1>3, <2>1
<1>5. ASSUME FrameOf(n) > f PROVE n \notin PacketsOf(f)
  <2>1. FirstOf(f) + PacketsPerFrame <= FirstOf(FrameOf(n))
    BY <1>1, <1>5, LaterFrame
  <2> QED
    BY <1>1, <1>2, <1>3, <2>1
<1> QED
  BY <1>1, <1>2, <1>3, <1>4, <1>5

\* The packet behind a marker is the first of its frame; the packet behind
\* any other is not, and is of the same frame.
LEMMA NextOfFrame ==
    ASSUME NEW n \in Nat
    PROVE  /\ FrameOf(n + 1) \in Nat /\ FirstOf(FrameOf(n + 1)) \in Nat
           /\ IsLastOfFrame(n) => FirstOf(FrameOf(n + 1)) = n + 1
           /\ ~IsLastOfFrame(n) => FrameOf(n + 1) = FrameOf(n)
<1>1. /\ FrameOf(n) \in Nat
      /\ FirstOf(FrameOf(n)) \in Nat
      /\ FirstOf(FrameOf(n)) <= n
      /\ n <= FirstOf(FrameOf(n)) + PacketsPerFrame - 1
      /\ IsLastOfFrame(n) <=>
             n = FirstOf(FrameOf(n)) + PacketsPerFrame - 1
  BY FrameBounds
<1>2. /\ FrameOf(n + 1) \in Nat
      /\ FirstOf(FrameOf(n + 1)) \in Nat
      /\ FirstOf(FrameOf(n + 1)) <= n + 1
  <2>1. n + 1 \in Nat
    OBVIOUS
  <2> QED
    BY <2>1, FrameBounds
<1>3. ~IsLastOfFrame(n) => FrameOf(n + 1) = FrameOf(n)
  BY Successor
<1>4. ASSUME IsLastOfFrame(n) PROVE FirstOf(FrameOf(n + 1)) = n + 1
  <2>1. FrameOf(n) < FrameOf(n + 1)
    <3>1. FrameOf(n + 1) # FrameOf(n)
      BY <1>4, Successor
    <3>2. n + 1 \in Nat /\ n < n + 1
      OBVIOUS
    <3>3. FrameOf(n) <= FrameOf(n + 1)
      BY <3>2, Order
    <3> QED
      BY <1>1, <1>2, <3>1, <3>3
  <2>2. FirstOf(FrameOf(n)) + PacketsPerFrame <= FirstOf(FrameOf(n + 1))
    BY <1>1, <1>2, <2>1, LaterFrame
  <2>3. n = FirstOf(FrameOf(n)) + PacketsPerFrame - 1
    BY <1>1, <1>4
  <2>4. PacketsPerFrame \in Nat
    BY Constants DEF ConstantAssumptions
  <2> QED
    BY <1>1, <1>2, <2>2, <2>3, <2>4
<1> QED
  BY <1>2, <1>3, <1>4
-----------------------------------------------------------------------------
(* What a call does, in terms of positions.                                *)

\* The numbers of two packets less than one width apart differ by their
\* distance.
LEMMA GapIsDistance ==
    ASSUME NEW m \in Nat, NEW n \in Nat, m < n, n - (m + 1) < SeqMod
    PROVE  (SeqOf(n) - (SeqOf(m) + 1)) % SeqMod = n - (m + 1)
<1> DEFINE M == SeqMod
           a == FirstSeq + n
           b == FirstSeq + m
           d == (a % M) - ((b % M) + 1)
<1>1. M \in Nat \ {0, 1} /\ FirstSeq \in Nat
  BY Constants DEF ConstantAssumptions
<1>2. a \in Int /\ b \in Int /\ a - b = n - m
  BY <1>1
<1>3. n - (m + 1) \in 0 .. M - 1
  BY <1>1
<1>4. PICK qa \in Int : a = M * qa + (a % M) /\ a % M \in 0 .. M - 1
  BY <1>1, <1>2, Division
<1>5. PICK qb \in Int : b = M * qb + (b % M) /\ b % M \in 0 .. M - 1
  BY <1>1, <1>2, Division
<1>6. d \in Int
  BY <1>4, <1>5
<1>7. PICK qd \in Int : d = M * qd + (d % M) /\ d % M \in 0 .. M - 1
  BY <1>1, <1>6, Division
<1>8. (SeqOf(n) - (SeqOf(m) + 1)) % SeqMod = d % M
  BY DEF SeqOf
<1>9. d = (a % M) - ((b % M) + 1)
  OBVIOUS
<1> DEFINE r == d % M
           c == n - (m + 1)
<1>10. r \in 0 .. M - 1 /\ d = M * qd + r
  BY <1>7
<1> HIDE DEF M, a, b, d, r
<1>11. PICK q \in Int : q = qa - qb + qd /\ c - r = M * q
  <2>1. M * (qa - qb + qd) = M * qa - M * qb + M * qd
    BY <1>1
  <2>2. M * qa \in Int /\ M * qb \in Int /\ M * qd \in Int
    BY <1>1
  <2>3. c - r = M * (qa - qb + qd)
    BY <1>1, <1>2, <1>4, <1>5, <1>9, <1>10, <2>1, <2>2
  <2> QED
    BY <2>3
<1>12. q = 0
  <2>0. c - r < M /\ r - c < M
    BY <1>1, <1>3, <1>10
  <2>1. CASE q >= 1
    <3>1. M * q = M + M * (q - 1) /\ M * (q - 1) \in Nat
      BY <1>1, <2>1
    <3> QED
      BY <1>1, <1>3, <1>10, <1>11, <2>0, <3>1
  <2>2. CASE q <= -1
    <3>1. M * q = -M - M * (-1 - q) /\ M * (-1 - q) \in Nat
      BY <1>1, <2>2
    <3> QED
      BY <1>1, <1>3, <1>10, <1>11, <2>0, <3>1
  <2> QED
    BY <2>1, <2>2
<1>13. c = r
  BY <1>1, <1>3, <1>10, <1>11, <1>12
<1> QED
  BY <1>8, <1>13 DEF r

\* What has arrived was read in the order of its positions, and `last' is the
\* furthest of it.
ReadInOrder ==
    /\ LastPacketKnown
    /\ last = -1 <=> arrived = {}
    /\ last # -1 => last \in arrived /\ \A m \in arrived : m <= last

\* Packets were passed over directly in front of packet n.
PassedOver(n) == last # -1 /\ n # last + 1

IncompleteAt(n) == frameIncomplete \/ PassedOver(n)

\* The three things that reading packet n can do.
Flushes(n) ==
    /\ last \in Nat /\ ~IsLastOfFrame(last) /\ ~IsLastOfFrame(n)
    /\ FrameOf(last) < FrameOf(n)
    /\ delivered'.ts = FrameOf(last)
    /\ delivered'.incomplete = TRUE
    /\ frameIncomplete' = FALSE
    /\ frameDelivered' = FALSE
    /\ shown' = shown \cup {FrameOf(last)}

Extends(n) ==
    /\ \/ last = -1 \/ IsLastOfFrame(last)
       \/ FrameOf(last) = FrameOf(n)
    /\ ~IsLastOfFrame(n)
    /\ UNCHANGED <<delivered, shown>>
    /\ frameIncomplete' = IncompleteAt(n)
    /\ frameDelivered' = FALSE

Completes(n) ==
    /\ IsLastOfFrame(n)
    /\ delivered'.ts = FrameOf(n)
    /\ delivered'.incomplete = IncompleteAt(n)
    /\ frameIncomplete' = FALSE
    /\ frameDelivered' = TRUE
    /\ shown' = shown \cup {FrameOf(n)}

\* A packet arrives behind everything that has arrived.
LEMMA Arrival ==
    ASSUME TypeOK, ReadInOrder, Reach = 0, NEW n \in Nat, LinkDelivers(n)
    PROVE  /\ arrived' = arrived \cup {n}
           /\ \A m \in arrived : m \in Nat /\ m < n
           /\ last # -1 => /\ last \in Nat /\ last < n
                           /\ n - (last + 1) < SeqMod
<1>1. /\ MaxSkip \in Nat /\ SeqMod \in Nat /\ MaxSkip < SeqMod
  BY Constants DEF ConstantAssumptions
<1>2. /\ cursor \in Nat /\ arrived \subseteq Nat /\ last \in Nat \cup {-1}
  BY DEF TypeOK, LinkTypeOK
<1>3. n <= cursor + MaxSkip /\ cursor - n <= 0
  BY ArrivalWindow
<1>4. /\ arrived' = arrived \cup {n}
  BY DEF LinkDelivers
<1>5. ASSUME last # -1
      PROVE  /\ last \in Nat /\ last < n /\ n - (last + 1) < SeqMod
             /\ \A m \in arrived : m <= last
  <2>1. last < cursor /\ cursor - last <= 1
    BY <1>5 DEF ReadInOrder, LastPacketKnown
  <2>2. \A m \in arrived : m <= last
    BY <1>5 DEF ReadInOrder
  <2> QED
    BY <1>1, <1>2, <1>3, <1>5, <2>1, <2>2
<1>6. ASSUME NEW m \in arrived PROVE m \in Nat /\ m < n
  <2>1. last # -1
    BY DEF ReadInOrder
  <2> QED
    BY <1>2, <1>5, <2>1
<1> QED
  BY <1>4, <1>5, <1>6

\* The gap in front of a packet is the number of packets passed over.
LEMMA GapInOrder ==
    ASSUME TypeOK, ReadInOrder, Reach = 0, NEW n \in Nat, LinkDelivers(n),
           NEW condition \in Conditions
    PROVE  Gap(PacketAt(n, condition)) =
               IF last = -1 THEN 0 ELSE n - (last + 1)
<1>1. PacketAt(n, condition).seq = SeqOf(n)
  BY DEF PacketAt
<1>2. CASE last = -1
  BY <1>2 DEF ReadInOrder, LastPacketKnown, Gap
<1>3. CASE last # -1
  <2>1. last \in Nat /\ last < n /\ n - (last + 1) < SeqMod
    BY <1>3, Arrival
  <2>2. hasPrevPacket /\ lastSeq = SeqOf(last)
    BY <1>3 DEF ReadInOrder, LastPacketKnown
  <2>3. (SeqOf(n) - (SeqOf(last) + 1)) % SeqMod = n - (last + 1)
    BY <2>1, GapIsDistance
  <2> QED
    BY <1>1, <1>3, <2>2, <2>3 DEF Gap
<1> QED
  BY <1>2, <1>3

\* A call is one of the three.
LEMMA Reading ==
    ASSUME TypeOK, ReadInOrder, DeliveryOrder, Reach = 0, NEW n \in Nat,
           NEW condition \in Conditions, ReceivePacket(n, condition)
    PROVE  /\ LinkDelivers(n)
           /\ last' = n
           /\ ReadInOrder'
           /\ Flushes(n) \/ Extends(n) \/ Completes(n)
<1> DEFINE pkt == PacketAt(n, condition)
<1>1. LinkDelivers(n) /\ ProcessPacket(pkt) /\ last' = n
  BY DEF ReceivePacket, ProcessAndCount
<1>2. /\ pkt.readable /\ pkt.seq = SeqOf(n) /\ pkt.ts = FrameOf(n)
      /\ pkt.marker <=> IsLastOfFrame(n)
  BY DEF PacketAt
<1>3. ReadInOrder'
  <2>1. DeliveryOrder'
    BY PacketKeepsOrder
  <2>2. /\ arrived' = arrived \cup {n}
        /\ \A m \in arrived : m \in Nat /\ m < n
    BY <1>1, Arrival
  <2>3. \A m \in arrived' : m <= n
    BY <2>2
  <2> QED
    BY <1>1, <2>1, <2>2, <2>3 DEF ReadInOrder, DeliveryOrder
<1>4. IncompleteWith(pkt) = IncompleteAt(n)
  <2>1. Gap(pkt) # 0 <=> PassedOver(n)
    <3>1. Gap(pkt) = IF last = -1 THEN 0 ELSE n - (last + 1)
      BY <1>1, GapInOrder
    <3>2. last # -1 => last \in Nat
      BY DEF TypeOK
    <3> QED
      BY <3>1, <3>2 DEF PassedOver
  <2> QED
    BY <2>1 DEF IncompleteWith, IncompleteAt
<1>5. /\ FrameOf(n) \in Nat
      /\ last # -1 => /\ last \in Nat /\ lastTs = FrameOf(last)
                      /\ FrameOf(last) \in Nat
                      /\ FrameOf(last) <= FrameOf(n)
      /\ hasPrevPacket <=> last # -1
      /\ frameDelivered <=> last # -1 /\ IsLastOfFrame(last)
  <2>1. FrameOf(n) \in Nat
    BY Position
  <2>2. ASSUME last # -1
        PROVE  /\ last \in Nat /\ lastTs = FrameOf(last)
               /\ FrameOf(last) \in Nat
               /\ FrameOf(last) <= FrameOf(n)
    BY <1>1, <2>2, Arrival, Order, Position
       DEF ReadInOrder, LastPacketKnown
  <2> QED
    BY <2>1, <2>2 DEF ReadInOrder, LastPacketKnown, DeliveryOrder
<1>6. ProcessAndCount(pkt)
  BY DEF ReceivePacket
<1> HIDE DEF pkt
<1>7. /\ shown' = IF FramesCompleted(pkt) > 0
                  THEN shown \cup {delivered'.ts} ELSE shown
      /\ FramesCompleted(pkt) =
             IF FlushesPrevious(pkt) \/ IsLastOfFrame(n) THEN 1 ELSE 0
  BY <1>2, <1>6 DEF ProcessAndCount, FramesCompleted
<1>8. CASE FlushPrevious(pkt)
  <2>1. /\ FlushesPrevious(pkt) /\ hasPrevPacket /\ FrameOf(n) # lastTs
        /\ ~frameDelivered /\ ~IsLastOfFrame(n)
        /\ delivered'.ts = lastTs /\ delivered'.incomplete = TRUE
        /\ frameIncomplete' = FALSE
        /\ frameDelivered' = FALSE
    BY <1>2, <1>8
       DEF FlushPrevious, FlushesPrevious, StartsNewFrame, DeliverFrame
  <2>2. shown' = shown \cup {lastTs}
    BY <1>7, <2>1
  <2>3. FrameOf(last) < FrameOf(n)
    BY <1>5, <2>1
  <2>4. Flushes(n)
    BY <1>5, <2>1, <2>2, <2>3 DEF Flushes
  <2> QED
    BY <1>1, <1>3, <2>4
<1>9. CASE AddToFrame(pkt)
  <2>1. /\ ~FlushesPrevious(pkt) /\ ~IsLastOfFrame(n)
        /\ delivered' = delivered
        /\ frameIncomplete' = IncompleteWith(pkt)
        /\ frameDelivered' = (frameDelivered /\ ~StartsNewFrame(pkt))
    BY <1>2, <1>9 DEF AddToFrame
  <2>2. shown' = shown
    BY <1>7, <2>1
  <2>3. \/ last = -1 \/ IsLastOfFrame(last)
        \/ FrameOf(last) = FrameOf(n)
    BY <1>2, <1>5, <2>1 DEF FlushesPrevious, StartsNewFrame
  <2>4. frameDelivered' = FALSE
    <3>1. ASSUME frameDelivered PROVE StartsNewFrame(pkt)
      <4>1. last \in Nat /\ IsLastOfFrame(last) /\ last < n
        BY <1>1, <1>5, <3>1, Arrival
      <4>2. FrameOf(last) # FrameOf(n)
        <5>1. FrameOf(last) = FrameOf(n) => SlotOf(last) < SlotOf(n)
          BY <4>1, Order
        <5>2. /\ SlotOf(last) = PacketsPerFrame - 1
              /\ SlotOf(n) \in 0 .. PacketsPerFrame - 1
              /\ PacketsPerFrame \in Nat
          BY <4>1, Position, Constants
             DEF ConstantAssumptions, IsLastOfFrame, Slots
        <5> QED
          BY <5>1, <5>2
      <4> QED
        BY <1>2, <1>5, <3>1, <4>2 DEF StartsNewFrame
    <3> QED
      BY <2>1, <3>1
  <2>5. Extends(n)
    BY <1>4, <2>1, <2>2, <2>3, <2>4 DEF Extends
  <2> QED
    BY <1>1, <1>3, <2>5
<1>10. CASE CompleteFrame(pkt)
  <2>1. /\ IsLastOfFrame(n)
        /\ delivered'.ts = FrameOf(n)
        /\ delivered'.incomplete = IncompleteWith(pkt)
        /\ frameIncomplete' = FALSE
        /\ frameDelivered' = TRUE
    BY <1>2, <1>10 DEF CompleteFrame, DeliverFrame
  <2>2. shown' = shown \cup {FrameOf(n)}
    BY <1>7, <2>1
  <2>3. Completes(n)
    BY <1>4, <2>1, <2>2 DEF Completes
  <2> QED
    BY <1>1, <1>3, <2>3
<1> QED
  BY <1>1, <1>2, <1>8, <1>9, <1>10 DEF ProcessPacket, IgnorePacket

\* Any other step leaves what the properties speak of as it is, but for a
\* stray datagram, which is only counted.
LEMMA Strays ==
    ASSUME TypeOK, ReceiveStray
    PROVE  UNCHANGED <<assemblerVars, linkVars, last, shown, packetsLost>>
<1>1. ~Stray.readable /\ FramesCompleted(Stray) = 0
  BY DEF Stray, FramesCompleted
<1>2. UNCHANGED <<assemblerVars, linkVars, last>>
  BY <1>1 DEF ReceiveStray, ProcessAndCount, ProcessPacket, IgnorePacket,
              FlushPrevious, AddToFrame, CompleteFrame, linkVars
<1>3. shown' = shown /\ packetsLost' = packetsLost
  BY <1>1 DEF ReceiveStray, ProcessAndCount, TypeOK
<1> QED
  BY <1>2, <1>3

\* A step reads a packet of the stream or leaves all that alone.
LEMMA Steps ==
    ASSUME TypeOK, [Next]_vars
    PROVE  \/ \E n \in Nat, condition \in Conditions :
                  ReceivePacket(n, condition)
           \/ UNCHANGED <<assemblerVars, linkVars, last, shown, packetsLost>>
<1>1. ASSUME NEW n \in 0 .. StreamLength - 1, NEW condition \in Arrivals,
             ReceivePacket(n, condition)
      PROVE  n \in Nat /\ condition \in Conditions
  BY Constants DEF ConstantAssumptions
<1>2. CASE ReceiveStray
  BY <1>2, Strays
<1>3. CASE UNCHANGED vars
  BY <1>3 DEF vars, historyVars, statsVars
<1> QED
  BY <1>1, <1>2, <1>3 DEF Next

\* Reading in order, together with the order of the deliveries, is an
\* invariant of a link that does not reorder.
LEMMA OrderInvariance ==
    ASSUME Reach = 0
    PROVE  Spec => [](ReadInOrder /\ DeliveryOrder)
<1>1. Init => ReadInOrder /\ DeliveryOrder
  BY DEF Init, AssemblerInit, LinkInit, DeliveryOrder, ReadInOrder,
         LastPacketKnown, Delivered
<1>2. TypeOK /\ ReadInOrder /\ DeliveryOrder /\ [Next]_vars =>
          ReadInOrder' /\ DeliveryOrder'
  <2> SUFFICES ASSUME TypeOK, ReadInOrder, DeliveryOrder, [Next]_vars
               PROVE  ReadInOrder' /\ DeliveryOrder'
    OBVIOUS
  <2>1. ASSUME NEW n \in Nat, NEW condition \in Conditions,
               ReceivePacket(n, condition)
        PROVE  ReadInOrder' /\ DeliveryOrder'
    BY <2>1, Reading, PacketKeepsOrder
  <2>2. CASE UNCHANGED <<assemblerVars, linkVars, last, shown, packetsLost>>
    BY <2>2 DEF assemblerVars, linkVars, DeliveryOrder, LastPacketKnown,
                ReadInOrder, Delivered, SeqOf, FrameOf, SlotOf, IsLastOfFrame
  <2> QED
    BY <2>1, <2>2, Steps
<1> QED
  BY <1>1, <1>2, Typing, PTL DEF Spec
-----------------------------------------------------------------------------
(* No frame vanishes.                                                      *)

\* While the packet read last is a marker, its frame has been shown.
MarkersAreShown == frameDelivered => FrameOf(last) \in shown

\* The packets of later frames than f among some positions.
LaterThan(f, positions) == {m \in positions : FrameOf(m) > f}

LEMMA PacketKeepsMarkersShown ==
    ASSUME TypeOK, ReadInOrder, DeliveryOrder, MarkersAreShown, Reach = 0,
           NEW n \in Nat, NEW condition \in Conditions,
           ReceivePacket(n, condition)
    PROVE  MarkersAreShown'
<1>1. last' = n /\ (Flushes(n) \/ Extends(n) \/ Completes(n))
  BY Reading
<1>2. FrameOf(last)' = FrameOf(n)
  BY <1>1 DEF FrameOf
<1> QED
  BY <1>1, <1>2 DEF MarkersAreShown, Flushes, Extends, Completes

\* The least of a set of positions and a later one is the least of the set.
LEMMA MinOfMore ==
    ASSUME NEW S \in SUBSET Nat, NEW low \in S, \A m \in S : low <= m,
           NEW n \in Nat, low <= n
    PROVE  Min(S) = low /\ Min(S \cup {n}) = low
<1>1. \A x \in S \cup {n} :
          (\A y \in S \cup {n} : x =< y) => x = low
  OBVIOUS
<1>2. \A x \in S : (\A y \in S : x =< y) => x = low
  OBVIOUS
<1>3. low \in S \cup {n} /\ \A y \in S \cup {n} : low =< y
  OBVIOUS
<1> QED
  BY <1>1, <1>2, <1>3 DEF Min

LEMMA MinOfOne == \A n \in Nat : Min({n}) = n
BY DEF Min

\* A set of numbers that is not empty has a least element.
LEMMA Least ==
    ASSUME NEW S \in SUBSET Nat, S # {}
    PROVE  \E low \in S : \A m \in S : low <= m
<1> DEFINE Less == OpToRel(<, Nat)
<1>1. IsWellFoundedOn(Less, Nat)
  BY NatLessThanWellFounded
<1>2. \A x \in Nat, y \in Nat : <<y, x>> \in Less <=> y < x
  BY DEF OpToRel
<1> HIDE DEF Less
<1>3. PICK x \in S : \A y \in S : ~(<<y, x>> \in Less)
  BY <1>1, WFMin
<1>4. x \in Nat /\ \A y \in S : y \in Nat /\ ~(y < x)
  BY <1>2, <1>3
<1>5. \A y \in S : x <= y
  BY <1>4
<1> QED
  BY <1>5

LEMMA PacketKeepsFrames ==
    ASSUME TypeOK, ReadInOrder, DeliveryOrder, MarkersAreShown,
           NoFrameVanishes, Reach = 0,
           NEW n \in Nat, NEW condition \in Conditions,
           ReceivePacket(n, condition)
    PROVE  NoFrameVanishes'
<1>1. /\ LinkDelivers(n) /\ last' = n
      /\ Flushes(n) \/ Extends(n) \/ Completes(n)
  BY Reading
<1>2. /\ arrived' = arrived \cup {n}
      /\ \A m \in arrived : m \in Nat /\ m < n
      /\ last # -1 => last \in Nat /\ last < n
  BY <1>1, Arrival
<1>3. /\ FrameOf(n) \in Nat
      /\ \A m \in arrived : FrameOf(m) \in Nat /\ FrameOf(m) <= FrameOf(n)
  BY <1>2, Order, Position
<1>4. shown \subseteq shown'
  BY <1>1 DEF Flushes, Extends, Completes
<1> SUFFICES ASSUME NEW f \in 0 .. Frames - 1,
                    PacketsOf(f) \cap arrived' # {},
                    LaterThan(f, arrived') # {}
             PROVE  f \in shown' \/ IsLastOfFrame(Min(LaterThan(f, arrived')))
  BY DEF NoFrameVanishes, LaterThan
<1>5. f \in Nat
  BY Constants DEF ConstantAssumptions
<1>6. n \in PacketsOf(f) <=> FrameOf(n) = f
  BY <1>5, OfFrame
<1>7. FrameOf(n) > f
  BY <1>2, <1>3, <1>5 DEF LaterThan
<1>8. LaterThan(f, arrived') = LaterThan(f, arrived) \cup {n}
  BY <1>2, <1>7 DEF LaterThan
<1>9. PacketsOf(f) \cap arrived # {}
  BY <1>2, <1>3, <1>5, <1>6, <1>7
<1>10. CASE LaterThan(f, arrived) # {}
  <2>1. LaterThan(f, arrived) \in SUBSET Nat
    BY <1>2 DEF LaterThan
  <2>2. PICK low \in LaterThan(f, arrived) :
                 \A m \in LaterThan(f, arrived) : low <= m
    BY <1>10, <2>1, Least
  <2>3. low \in Nat /\ low <= n
    BY <1>2, <2>1, <2>2 DEF LaterThan
  <2>4. Min(LaterThan(f, arrived)) = Min(LaterThan(f, arrived'))
    BY <1>8, <2>1, <2>2, <2>3, MinOfMore
  <2>5. f \in shown \/ IsLastOfFrame(Min(LaterThan(f, arrived)))
    BY <1>9, <1>10 DEF NoFrameVanishes, LaterThan
  <2> QED
    BY <1>4, <2>4, <2>5
<1>11. CASE LaterThan(f, arrived) = {}
  <2>1. Min(LaterThan(f, arrived')) = n
    BY <1>8, <1>11, MinOfOne
  <2>2. last \in Nat /\ FrameOf(last) = f
    <3>1. PICK p \in arrived : p \in PacketsOf(f)
      BY <1>9
    <3>2. FrameOf(p) = f /\ p \in Nat
      BY <1>2, <1>5, <3>1, OfFrame
    <3>3. last \in Nat /\ last \in arrived /\ p <= last
      BY <1>2, <3>1 DEF ReadInOrder
    <3>4. p = last \/ FrameOf(p) <= FrameOf(last)
      BY <3>2, <3>3, Order
    <3>5. ~(FrameOf(last) > f)
      BY <1>11, <3>3 DEF LaterThan
    <3>6. FrameOf(last) \in Nat
      BY <3>3, Position
    <3> QED
      BY <1>5, <3>2, <3>3, <3>4, <3>5, <3>6
  <2>3. CASE Flushes(n)
    BY <2>2, <2>3 DEF Flushes
  <2>4. CASE Extends(n)
    <3>1. IsLastOfFrame(last)
      BY <1>3, <1>5, <1>7, <2>2, <2>4 DEF Extends
    <3>2. f \in shown
      BY <2>2, <3>1 DEF DeliveryOrder, MarkersAreShown
    <3> QED
      BY <1>4, <3>2
  <2>5. CASE Completes(n)
    BY <2>1, <2>5 DEF Completes
  <2> QED
    BY <1>1, <2>3, <2>4, <2>5
<1> QED
  BY <1>10, <1>11

\* On a link that does not reorder, a frame of which a packet was read is
\* shown by the time a later one is under way, unless all that was read of
\* that one is its marker.
THEOREM FramesDoNotVanish ==
    ASSUME Reach = 0
    PROVE  Spec => []NoFrameVanishes
<1>1. Init => MarkersAreShown /\ NoFrameVanishes
  BY DEF Init, AssemblerInit, LinkInit, MarkersAreShown, NoFrameVanishes
<1>2. TypeOK /\ ReadInOrder /\ DeliveryOrder /\ MarkersAreShown /\
      NoFrameVanishes /\ [Next]_vars =>
          MarkersAreShown' /\ NoFrameVanishes'
  <2> SUFFICES ASSUME TypeOK, ReadInOrder, DeliveryOrder, MarkersAreShown,
                      NoFrameVanishes, [Next]_vars
               PROVE  MarkersAreShown' /\ NoFrameVanishes'
    OBVIOUS
  <2>1. ASSUME NEW n \in Nat, NEW condition \in Conditions,
               ReceivePacket(n, condition)
        PROVE  MarkersAreShown' /\ NoFrameVanishes'
    BY <2>1, PacketKeepsMarkersShown, PacketKeepsFrames
  <2>2. CASE UNCHANGED <<assemblerVars, linkVars, last, shown, packetsLost>>
    BY <2>2 DEF assemblerVars, linkVars, MarkersAreShown, NoFrameVanishes,
                FrameOf
  <2> QED
    BY <2>1, <2>2, Steps
<1> QED
  BY <1>1, <1>2, Typing, OrderInvariance, PTL DEF Spec
-----------------------------------------------------------------------------
(* What the incomplete flag tells, when it is set.                         *)

\* Packet m of frame f, or the one in front of it, was passed over.
Missing(m, f) ==
    /\ m \in (PacketsOf(f) \cup {f * PacketsPerFrame - 1}) \cap Nat
    /\ m < last
    /\ m \notin arrived

\* The flag is set only on account of a packet that was passed over, both in
\* the frame being filled and in the one last delivered.
FlagsHaveCauses ==
    /\ frameIncomplete =>
           /\ last # -1 /\ ~IsLastOfFrame(last)
           /\ \E m \in Nat : Missing(m, FrameOf(last))
    /\ Delivered /\ delivered.incomplete =>
           \E m \in Nat : Missing(m, delivered.ts)

\* What is missing stays missing when a later packet is read.
LEMMA MissingForGood ==
    ASSUME NEW n \in Nat, NEW m \in Nat, NEW f, Missing(m, f),
           last \in Nat, last < n, last' = n, arrived' = arrived \cup {n}
    PROVE  Missing(m, f)'
BY DEF Missing

\* If something was passed over directly in front of packet n, the packet in
\* front of it is missing.
LEMMA MissingInFront ==
    ASSUME NEW n \in Nat, last \in Nat, last < n, n # last + 1,
           \A m \in arrived : m \in Nat /\ m <= last,
           last' = n, arrived' = arrived \cup {n}
    PROVE  Missing(n - 1, FrameOf(n))'
<1>1. n - 1 \in Nat /\ n - 1 < n /\ n - 1 \notin arrived \cup {n}
  OBVIOUS
<1>2. /\ FrameOf(n) \in Nat /\ FirstOf(FrameOf(n)) \in Nat
      /\ FirstOf(FrameOf(n)) <= n
      /\ n <= FirstOf(FrameOf(n)) + PacketsPerFrame - 1
  BY FrameBounds
<1>3. PacketsOf(FrameOf(n)) =
          FirstOf(FrameOf(n)) .. FirstOf(FrameOf(n)) + PacketsPerFrame - 1
  BY <1>2, FrameInterval
<1>4. n - 1 \in PacketsOf(FrameOf(n)) \/ n - 1 = FirstOf(FrameOf(n)) - 1
  BY <1>2, <1>3, Constants DEF ConstantAssumptions
<1>5. n - 1 \in (PacketsOf(FrameOf(n)) \cup
                     {FrameOf(n) * PacketsPerFrame - 1}) \cap Nat
  BY <1>1, <1>4 DEF FirstOf
<1> QED
  BY <1>1, <1>5 DEF Missing, FrameOf, PacketsOf

LEMMA PacketKeepsCauses ==
    ASSUME TypeOK, ReadInOrder, DeliveryOrder, FlagsHaveCauses, Reach = 0,
           NEW n \in Nat, NEW condition \in Conditions,
           ReceivePacket(n, condition)
    PROVE  FlagsHaveCauses'
<1>1. /\ LinkDelivers(n) /\ last' = n
      /\ Flushes(n) \/ Extends(n) \/ Completes(n)
  BY Reading
<1>2. /\ arrived' = arrived \cup {n}
      /\ \A m \in arrived : m \in Nat /\ m < n
      /\ last # -1 => last \in Nat /\ last < n
      /\ last # -1 => \A m \in arrived : m \in Nat /\ m <= last
  BY <1>1, Arrival DEF ReadInOrder
<1>3. IsLastOfFrame(last)' <=> IsLastOfFrame(n)
  BY <1>1 DEF IsLastOfFrame, SlotOf
<1>4. FrameOf(last)' = FrameOf(n)
  BY <1>1 DEF FrameOf
\* What the flag of the frame that ends with packet n would tell.
<1>5. ASSUME IncompleteAt(n),
             \/ ~frameIncomplete \/ FrameOf(last) = FrameOf(n)
             \/ PassedOver(n)
      PROVE  \E m \in Nat : Missing(m, FrameOf(n))'
  <2>1. CASE PassedOver(n)
    <3>1. last \in Nat /\ last < n /\ n # last + 1
      BY <1>2, <2>1 DEF PassedOver
    <3>2. Missing(n - 1, FrameOf(n))'
      BY <1>1, <1>2, <3>1, MissingInFront
    <3>3. n - 1 \in Nat
      BY <3>1
    <3> QED
      BY <3>2, <3>3
  <2>2. CASE ~PassedOver(n)
    <3>1. frameIncomplete /\ FrameOf(last) = FrameOf(n)
      BY <1>5, <2>2 DEF IncompleteAt
    <3>2. PICK m \in Nat : Missing(m, FrameOf(n))
      BY <3>1 DEF FlagsHaveCauses
    <3>3. last \in Nat /\ last < n
      BY <1>2, <3>1 DEF FlagsHaveCauses
    <3>4. Missing(m, FrameOf(n))'
      BY <1>1, <1>2, <3>2, <3>3, MissingForGood
    <3> QED
      BY <3>4
  <2> QED
    BY <2>1, <2>2
\* The flag survives into another frame only where packets were passed over.
<1>6. ASSUME frameIncomplete, FrameOf(last) # FrameOf(n)
      PROVE  PassedOver(n)
  <2>1. last # -1 /\ ~IsLastOfFrame(last)
    BY <1>6 DEF FlagsHaveCauses
  <2>2. FrameOf(last + 1) = FrameOf(last)
    BY <1>2, <2>1, NextOfFrame
  <2> QED
    BY <1>6, <2>1, <2>2 DEF PassedOver
<1>7. CASE Flushes(n)
  <2>1. /\ last \in Nat /\ ~IsLastOfFrame(last)
        /\ FrameOf(last) < FrameOf(n)
        /\ delivered'.ts = FrameOf(last)
        /\ frameIncomplete' = FALSE
    BY <1>7 DEF Flushes
  <2>2. PICK f \in Nat, p \in Nat : f = FrameOf(last) /\ p = last + 1
    BY <2>1, Position
  <2>3. FrameOf(p) = f
    BY <2>1, <2>2, NextOfFrame
  <2>4. p \in PacketsOf(f)
    BY <2>3, OfFrame
  <2>5. p < n /\ p \notin arrived'
    BY <1>2, <2>1, <2>2, <2>3, Position
  <2>6. Missing(p, f)'
    BY <1>1, <2>4, <2>5 DEF Missing
  <2>7. delivered'.ts = f
    BY <2>1, <2>2
  <2> QED
    BY <2>1, <2>6, <2>7 DEF FlagsHaveCauses, Missing
<1>8. CASE Extends(n)
  <2>1. /\ ~IsLastOfFrame(n)
        /\ delivered' = delivered
        /\ frameIncomplete' = IncompleteAt(n)
    BY <1>8 DEF Extends
  <2>2. frameIncomplete' => \E m \in Nat : Missing(m, FrameOf(n))'
    BY <1>5, <1>6, <2>1
  <2>3. ASSUME Delivered', delivered'.incomplete
        PROVE  \E m \in Nat : Missing(m, delivered.ts)'
    <3>1. Delivered /\ delivered.incomplete
      BY <2>1, <2>3 DEF Delivered
    <3>2. PICK m \in Nat : Missing(m, delivered.ts)
      BY <3>1 DEF FlagsHaveCauses
    <3>3. last \in Nat /\ last < n
      BY <1>2, <3>1 DEF DeliveryOrder
    <3>4. Missing(m, delivered.ts)'
      BY <1>1, <1>2, <2>1, <3>2, <3>3 DEF Missing
    <3> QED
      BY <3>4
  <2> QED
    BY <1>1, <1>3, <1>4, <2>1, <2>2, <2>3 DEF FlagsHaveCauses
<1>9. CASE Completes(n)
  <2>1. /\ delivered'.ts = FrameOf(n)
        /\ delivered'.incomplete = IncompleteAt(n)
        /\ frameIncomplete' = FALSE
    BY <1>9 DEF Completes
  <2>2. delivered'.incomplete => \E m \in Nat : Missing(m, FrameOf(n))'
    BY <1>5, <1>6, <2>1
  <2> QED
    BY <2>1, <2>2 DEF FlagsHaveCauses
<1> QED
  BY <1>1, <1>7, <1>8, <1>9

\* On a link that does not reorder, a frame is flagged only if a packet of
\* it, or the one in front of it, did not arrive: no false alarms, whatever
\* was garbled and wherever the receiver joined.
THEOREM FlaggedFramesLackPackets ==
    ASSUME Reach = 0
    PROVE  Spec => []IncompleteHasACause
<1>1. Init => FlagsHaveCauses
  BY DEF Init, AssemblerInit, FlagsHaveCauses, Delivered
<1>2. TypeOK /\ ReadInOrder /\ DeliveryOrder /\ FlagsHaveCauses /\
      [Next]_vars => FlagsHaveCauses'
  <2> SUFFICES ASSUME TypeOK, ReadInOrder, DeliveryOrder, FlagsHaveCauses,
                      [Next]_vars
               PROVE  FlagsHaveCauses'
    OBVIOUS
  <2>1. ASSUME NEW n \in Nat, NEW condition \in Conditions,
               ReceivePacket(n, condition)
        PROVE  FlagsHaveCauses'
    BY <2>1, PacketKeepsCauses
  <2>2. CASE UNCHANGED <<assemblerVars, linkVars, last, shown, packetsLost>>
    BY <2>2 DEF assemblerVars, linkVars, FlagsHaveCauses, Missing, Delivered,
                FrameOf, SlotOf, IsLastOfFrame
  <2> QED
    BY <2>1, <2>2, Steps
<1>3. FlagsHaveCauses => IncompleteHasACause
  BY DEF FlagsHaveCauses, IncompleteHasACause, Missing
<1> QED
  BY <1>1, <1>2, <1>3, Typing, OrderInvariance, PTL DEF Spec
-----------------------------------------------------------------------------
(* What the incomplete flag tells, when it is not set.                     *)

\* Of the positions first .. until those from k on have arrived; those before
\* k have not, and neither has the one in front of them all.
OnlyFrontMissing(k, first, until) ==
    /\ k \in first .. until
    /\ k .. until \subseteq arrived
    /\ k = first \/ (first - 1 .. k - 1) \cap arrived = {}

\* A frame without the flag lacks at most its front, while it is filled and
\* when it has been delivered.
FrontsAtMost ==
    /\ ~frameIncomplete /\ last # -1 /\ ~IsLastOfFrame(last) =>
           \E k \in Nat : OnlyFrontMissing(k, FirstOf(FrameOf(last)), last)
    /\ Delivered /\ ~delivered.incomplete =>
           \E k \in Nat :
               OnlyFrontMissing(k, FirstOf(delivered.ts),
                                FirstOf(delivered.ts) + PacketsPerFrame - 1)

\* Nothing comes to what is missing at the front, once something behind it
\* has arrived.
LEMMA FrontForGood ==
    ASSUME NEW k \in Nat, NEW first \in Nat, NEW until \in Nat, NEW n \in Nat,
           OnlyFrontMissing(k, first, until),
           \A m \in arrived : m \in Nat /\ m < n,
           arrived' = arrived \cup {n}
    PROVE  OnlyFrontMissing(k, first, until)'
<1>1. /\ k \in first .. until
      /\ k .. until \subseteq arrived
      /\ k = first \/ (first - 1 .. k - 1) \cap arrived = {}
  BY DEF OnlyFrontMissing
<1>2. k < n
  BY <1>1
<1>3. n \notin first - 1 .. k - 1
  BY <1>1, <1>2
<1> QED
  BY <1>1, <1>3 DEF OnlyFrontMissing

\* Packet n, when read without a gap or as the first of a cleared buffer, ends
\* such a run.
LEMMA FrontWith ==
    ASSUME TypeOK, ReadInOrder, FrontsAtMost, NEW n \in Nat,
           arrived' = arrived \cup {n},
           \A m \in arrived : m \in Nat /\ m < n,
           last # -1 => last \in Nat /\ last < n,
           NEW first, first = FirstOf(FrameOf(n)),
           ~IncompleteAt(n) \/ Flushes(n)
    PROVE  \E k \in Nat : OnlyFrontMissing(k, first, n)'
<1>1. first \in Nat /\ first <= n /\ FrameOf(n) \in Nat
  BY FrameBounds
\* A run of n alone.
<1>2. ASSUME n = first \/ (first - 1 .. n - 1) \cap arrived = {}
      PROVE  OnlyFrontMissing(n, first, n)'
  BY <1>1, <1>2 DEF OnlyFrontMissing
<1>3. CASE last = -1
  BY <1>2, <1>3 DEF ReadInOrder
<1>4. CASE last # -1 /\ ~IncompleteAt(n)
  <2>1. last \in Nat /\ n = last + 1 /\ ~frameIncomplete
    BY <1>4 DEF IncompleteAt, PassedOver
  <2>2. CASE IsLastOfFrame(last)
    <3>1. n = first
      BY <2>1, <2>2, NextOfFrame
    <3> QED
      BY <1>2, <3>1
  <2>3. CASE ~IsLastOfFrame(last)
    <3>1. FrameOf(n) = FrameOf(last)
      BY <2>1, <2>3, NextOfFrame
    <3>2. PICK k \in Nat : OnlyFrontMissing(k, first, last)
      BY <1>4, <2>1, <2>3, <3>1 DEF FrontsAtMost
    <3>3. /\ k \in first .. last
          /\ k .. last \subseteq arrived
          /\ k = first \/ (first - 1 .. k - 1) \cap arrived = {}
      BY <3>2 DEF OnlyFrontMissing
    <3>4. k \in first .. n /\ k .. n \subseteq arrived \cup {n}
      BY <1>1, <2>1, <3>3
    <3>5. k = first \/ (first - 1 .. k - 1) \cap (arrived \cup {n}) = {}
      BY <1>1, <2>1, <3>3
    <3> QED
      BY <3>4, <3>5 DEF OnlyFrontMissing
  <2> QED
    BY <2>2, <2>3
<1>5. CASE Flushes(n)
  <2>1. last \in Nat /\ ~IsLastOfFrame(last) /\ FrameOf(last) < FrameOf(n)
    BY <1>5 DEF Flushes
  <2>2. /\ FrameOf(last) \in Nat /\ FirstOf(FrameOf(last)) \in Nat
        /\ last <= FirstOf(FrameOf(last)) + PacketsPerFrame - 1
        /\ last # FirstOf(FrameOf(last)) + PacketsPerFrame - 1
    BY <2>1, FrameBounds
  <2>3. FirstOf(FrameOf(last)) + PacketsPerFrame <= first
    BY <1>1, <2>1, <2>2, LaterFrame
  <2>4. last < first - 1
    BY <1>1, <2>1, <2>2, <2>3, Constants DEF ConstantAssumptions
  <2>5. \A m \in arrived : m \in Nat /\ m < first - 1
    BY <1>1, <2>1, <2>4 DEF ReadInOrder
  <2>6. (first - 1 .. n - 1) \cap arrived = {}
    BY <1>1, <2>5
  <2> QED
    BY <1>2, <2>6
<1> QED
  BY <1>3, <1>4, <1>5

LEMMA PacketKeepsFronts ==
    ASSUME TypeOK, ReadInOrder, DeliveryOrder, FrontsAtMost, Reach = 0,
           NEW n \in Nat, NEW condition \in Conditions,
           ReceivePacket(n, condition)
    PROVE  FrontsAtMost'
<1>1. /\ LinkDelivers(n) /\ last' = n
      /\ Flushes(n) \/ Extends(n) \/ Completes(n)
  BY Reading
<1>2. /\ arrived' = arrived \cup {n}
      /\ \A m \in arrived : m \in Nat /\ m < n
      /\ last # -1 => last \in Nat /\ last < n
  BY <1>1, Arrival
<1>3. IsLastOfFrame(last)' <=> IsLastOfFrame(n)
  BY <1>1 DEF IsLastOfFrame, SlotOf
<1>4. PICK first \in Nat : first = FirstOf(FrameOf(n))
  BY FrameBounds
<1>5. FirstOf(FrameOf(last))' = first
  BY <1>1, <1>4 DEF FrameOf, FirstOf
<1>6. ~IncompleteAt(n) \/ Flushes(n) =>
          \E k \in Nat : OnlyFrontMissing(k, first, n)'
  BY <1>2, <1>4, FrontWith
<1>7. CASE Flushes(n)
  <2>1. delivered'.incomplete = TRUE
    BY <1>7 DEF Flushes
  <2>2. \E k \in Nat : OnlyFrontMissing(k, FirstOf(FrameOf(last)), last)'
    BY <1>1, <1>5, <1>6, <1>7 DEF OnlyFrontMissing
  <2> QED
    BY <2>1, <2>2 DEF FrontsAtMost
<1>8. CASE Extends(n)
  <2>1. delivered' = delivered /\ frameIncomplete' = IncompleteAt(n)
    BY <1>8 DEF Extends
  <2>2. ~frameIncomplete' =>
            \E k \in Nat : OnlyFrontMissing(k, FirstOf(FrameOf(last)), last)'
    BY <1>1, <1>5, <1>6, <2>1 DEF OnlyFrontMissing
  <2>3. ASSUME Delivered', ~delivered'.incomplete
        PROVE  \E k \in Nat :
                   OnlyFrontMissing(k, FirstOf(delivered.ts),
                       FirstOf(delivered.ts) + PacketsPerFrame - 1)'
    <3>1. PICK start \in Nat, end \in Nat :
              /\ start = FirstOf(delivered.ts)
              /\ end = FirstOf(delivered.ts) + PacketsPerFrame - 1
      <4>1. delivered.ts \in Nat
        BY DEF TypeOK, AssemblerTypeOK, Deliveries
      <4>2. FirstOf(delivered.ts) \in Nat /\ PacketsPerFrame \in Nat \ {0}
        BY <4>1, FrameInterval, Constants DEF ConstantAssumptions
      <4> QED
        BY <4>2
    <3>2. PICK k \in Nat : OnlyFrontMissing(k, start, end)
      BY <2>1, <2>3, <3>1 DEF FrontsAtMost, Delivered
    <3>3. OnlyFrontMissing(k, start, end)'
      BY <1>2, <3>2, FrontForGood
    <3> QED
      BY <2>1, <3>1, <3>3 DEF OnlyFrontMissing
  <2> QED
    BY <2>2, <2>3 DEF FrontsAtMost
<1>9. CASE Completes(n)
  <2>1. /\ IsLastOfFrame(n)
        /\ delivered'.ts = FrameOf(n)
        /\ delivered'.incomplete = IncompleteAt(n)
    BY <1>9 DEF Completes
  <2>2. n = first + PacketsPerFrame - 1
    BY <1>4, <2>1, FrameBounds
  <2>3. ~delivered'.incomplete =>
            \E k \in Nat :
                OnlyFrontMissing(k, FirstOf(delivered.ts),
                    FirstOf(delivered.ts) + PacketsPerFrame - 1)'
    BY <1>4, <1>6, <2>1, <2>2 DEF OnlyFrontMissing
  <2> QED
    BY <1>3, <2>1, <2>3 DEF FrontsAtMost
<1> QED
  BY <1>1, <1>7, <1>8, <1>9

\* What the invariant says of a delivered frame is the property.
LEMMA FrontsOfDelivered ==
    ASSUME TypeOK, FrontsAtMost
    PROVE  UnflaggedLacksAtMostItsFront
<1> SUFFICES ASSUME Delivered, ~delivered.incomplete,
                    NEW own, own = PacketsOf(delivered.ts),
                    NEW first, first = delivered.ts * PacketsPerFrame
             PROVE  \E k \in own :
                        /\ {n \in own : n >= k} \subseteq arrived
                        /\ \/ k = first
                           \/ (first - 1 .. k - 1) \cap arrived = {}
  BY DEF UnflaggedLacksAtMostItsFront
<1>1. delivered.ts \in Nat
  BY DEF TypeOK, AssemblerTypeOK, Deliveries
<1>2. /\ first \in Nat /\ first = FirstOf(delivered.ts)
      /\ own = first .. first + PacketsPerFrame - 1
  BY <1>1, FrameInterval DEF FirstOf
<1>3. PICK k \in Nat :
          OnlyFrontMissing(k, first, first + PacketsPerFrame - 1)
  BY <1>2 DEF FrontsAtMost
<1>4. PacketsPerFrame \in Nat
  BY Constants DEF ConstantAssumptions
<1>5. /\ k \in own
      /\ k .. first + PacketsPerFrame - 1 \subseteq arrived
      /\ k = first \/ (first - 1 .. k - 1) \cap arrived = {}
  BY <1>2, <1>3 DEF OnlyFrontMissing
<1>6. {n \in own : n >= k} \subseteq k .. first + PacketsPerFrame - 1
  BY <1>2, <1>4
<1> QED
  BY <1>5, <1>6

\* On a link that does not reorder, a frame without the flag lacks at most a
\* front of it that was lost in one piece with the packet before it, whatever
\* else was lost, also where the sequence numbers wrap around.
THEOREM UnflaggedFramesLackTheirFront ==
    ASSUME Reach = 0
    PROVE  Spec => []UnflaggedLacksAtMostItsFront
<1>1. Init => FrontsAtMost
  BY DEF Init, AssemblerInit, FrontsAtMost, Delivered
<1>2. TypeOK /\ ReadInOrder /\ DeliveryOrder /\ FrontsAtMost /\
      [Next]_vars => FrontsAtMost'
  <2> SUFFICES ASSUME TypeOK, ReadInOrder, DeliveryOrder, FrontsAtMost,
                      [Next]_vars
               PROVE  FrontsAtMost'
    OBVIOUS
  <2>1. ASSUME NEW n \in Nat, NEW condition \in Conditions,
               ReceivePacket(n, condition)
        PROVE  FrontsAtMost'
    BY <2>1, PacketKeepsFronts
  <2>2. CASE UNCHANGED <<assemblerVars, linkVars, last, shown, packetsLost>>
    BY <2>2 DEF assemblerVars, linkVars, FrontsAtMost, OnlyFrontMissing,
                Delivered, FirstOf, FrameOf, SlotOf, IsLastOfFrame
  <2> QED
    BY <2>1, <2>2, Steps
<1> QED
  BY <1>1, <1>2, FrontsOfDelivered, Typing, OrderInvariance, PTL DEF Spec
-----------------------------------------------------------------------------
(* packets_lost.                                                           *)

LossesAdd ==
    /\ arrived = {} => packetsLost = 0
    /\ LossAccounting

\* What is missing up to n is what was missing up to the packet read before
\* it, and everything in between.
LEMMA LossesUpTo ==
    ASSUME NEW S \in SUBSET Nat, NEW low \in Nat, NEW m \in Nat, NEW n \in Nat,
           low <= m, m < n, \A i \in S : i <= m
    PROVE  Cardinality((low .. n) \ (S \cup {n})) =
               Cardinality((low .. m) \ S) + (n - (m + 1))
<1> DEFINE Before == (low .. m) \ S
           Between == m + 1 .. n - 1
<1>1. (low .. n) \ (S \cup {n}) = Before \cup Between
  OBVIOUS
<1>2. Before \cap Between = {}
  OBVIOUS
<1>3. IsFiniteSet(Between) /\ Cardinality(Between) = n - (m + 1)
  <2>1. m + 1 \in Int /\ n - 1 \in Int
    OBVIOUS
  <2>2. /\ IsFiniteSet(Between)
        /\ Cardinality(Between) =
               IF m + 1 > n - 1 THEN 0 ELSE (n - 1) - (m + 1) + 1
    BY <2>1, FS_Interval
  <2> QED
    BY <2>2
<1>4. IsFiniteSet(Before) /\ Cardinality(Before) \in Nat
  <2>1. IsFiniteSet(low .. m)
    BY FS_Interval
  <2> QED
    BY <2>1, FS_Difference, FS_CardinalityType
<1> HIDE DEF Before, Between
<1>5. Cardinality({}) = 0
  BY FS_EmptySet
<1>6. Cardinality(Before \cup Between) =
          Cardinality(Before) + Cardinality(Between) - Cardinality({})
  BY <1>2, <1>3, <1>4, FS_Union
<1>7. Cardinality(Before \cup Between) = Cardinality(Before) + (n - (m + 1))
  BY <1>3, <1>4, <1>5, <1>6
<1> QED
  BY <1>1, <1>7 DEF Before

LEMMA PacketKeepsLosses ==
    ASSUME TypeOK, ReadInOrder, LossesAdd, DeliveryOrder, Reach = 0,
           NEW n \in Nat, NEW condition \in Conditions,
           ReceivePacket(n, condition)
    PROVE  LossesAdd'
<1>1. LinkDelivers(n) /\ last' = n
  BY Reading
<1>2. /\ arrived' = arrived \cup {n}
      /\ \A m \in arrived : m \in Nat /\ m < n
      /\ last # -1 => last \in Nat /\ last < n
  BY <1>1, Arrival
<1>3. packetsLost' =
          packetsLost + (IF last = -1 THEN 0 ELSE n - (last + 1))
  <2>1. Gap(PacketAt(n, condition)) =
            IF last = -1 THEN 0 ELSE n - (last + 1)
    BY <1>1, GapInOrder
  <2>2. PacketAt(n, condition).readable
    BY DEF PacketAt
  <2> QED
    BY <2>1, <2>2 DEF ReceivePacket, ProcessAndCount
<1>4. packetsLost \in Nat
  BY DEF TypeOK
<1>5. CASE arrived = {}
  <2>1. packetsLost' = 0
    BY <1>3, <1>4, <1>5 DEF ReadInOrder, LossesAdd
  <2>2. Min(arrived') = n
    BY <1>2, <1>5, MinOfOne
  <2>3. (n .. n) \ arrived' = {}
    BY <1>2, <1>5
  <2>4. Cardinality((Min(arrived') .. last') \ arrived') = 0
    BY <1>1, <2>2, <2>3, FS_EmptySet
  <2> QED
    BY <1>2, <2>1, <2>4 DEF LossesAdd, LossAccounting
<1>6. CASE arrived # {}
  <2>1. last \in Nat /\ last < n /\ \A m \in arrived : m <= last
    BY <1>2, <1>6 DEF ReadInOrder
  <2>2. arrived \in SUBSET Nat
    BY <1>2
  <2>3. PICK low \in arrived : \A m \in arrived : low <= m
    BY <1>6, <2>2, Least
  <2>4. low \in Nat /\ low <= last /\ low <= n
    BY <1>2, <2>1, <2>3
  <2>5. Min(arrived) = low /\ Min(arrived') = low
    BY <1>2, <2>2, <2>3, <2>4, MinOfMore
  <2>6. packetsLost = Cardinality((low .. last) \ arrived)
    BY <1>6, <2>5 DEF LossesAdd, LossAccounting
  <2>7. Cardinality((low .. n) \ arrived') =
            Cardinality((low .. last) \ arrived) + (n - (last + 1))
    BY <1>2, <2>1, <2>2, <2>4, LossesUpTo
  <2>8. packetsLost' = Cardinality((low .. n) \ arrived')
    BY <1>3, <2>1, <2>6, <2>7
  <2> QED
    BY <1>1, <1>2, <2>5, <2>8 DEF LossesAdd, LossAccounting
<1> QED
  BY <1>5, <1>6

\* On a link that does not reorder, packets_lost is exact: the number of
\* packets missing between the first and the last one read, for every spread
\* of bursts each shorter than the numbers are wide.
THEOREM LossesAreCounted ==
    ASSUME Reach = 0
    PROVE  Spec => []LossAccounting
<1>1. Init => LossesAdd
  BY DEF Init, LinkInit, LossesAdd, LossAccounting
<1>2. TypeOK /\ ReadInOrder /\ DeliveryOrder /\ LossesAdd /\
      [Next]_vars => LossesAdd'
  <2> SUFFICES ASSUME TypeOK, ReadInOrder, DeliveryOrder, LossesAdd,
                      [Next]_vars
               PROVE  LossesAdd'
    OBVIOUS
  <2>1. ASSUME NEW n \in Nat, NEW condition \in Conditions,
               ReceivePacket(n, condition)
        PROVE  LossesAdd'
    BY <2>1, PacketKeepsLosses
  <2>2. CASE UNCHANGED <<assemblerVars, linkVars, last, shown, packetsLost>>
    BY <2>2 DEF linkVars, LossesAdd, LossAccounting
  <2> QED
    BY <2>1, <2>2, Steps
<1>3. LossesAdd => LossAccounting
  BY DEF LossesAdd
<1> QED
  BY <1>1, <1>2, <1>3, Typing, OrderInvariance, PTL DEF Spec
=============================================================================
