------------------------ MODULE FrameReceptionProofs ------------------------
(***************************************************************************)
(* Theorems about FrameReception, for every sequence-number width, packets *)
(* per frame, stream length and link that satisfy the assumptions.         *)
(***************************************************************************)
EXTENDS FrameReception, TLAPS

ConstantAssumptions ==
    /\ SeqMod \in Nat \ {0, 1}
    /\ PacketsPerFrame \in Nat \ {0}
    /\ FirstSeq \in Nat
    /\ Blank \notin Nat
    /\ Frames \in Nat
    /\ JoinAt \subseteq Nat
    /\ MaxSkip \in Nat
    /\ Reach \in Nat
    /\ MaxSkip + Reach < SeqMod
    /\ Arrivals \subseteq Conditions
    /\ MaxPackets \in Nat

LEMMA Constants == ConstantAssumptions
BY SeqModAssumption, PacketsPerFrameAssumption, FirstSeqAssumption,
   BlankAssumption, FramesAssumption, JoinAtAssumption, MaxSkipAssumption,
   ReachAssumption, WindowAssumption, ArrivalsAssumption, MaxPacketsAssumption
   DEF ConstantAssumptions
-----------------------------------------------------------------------------
(* Positions in the stream, and the arithmetic of sequence numbers.        *)

\* Quotient and remainder, for a divisor the provers see only as a symbol.
LEMMA Division ==
    ASSUME NEW d \in Nat \ {0}, NEW n \in Int
    PROVE  /\ n \div d \in Int
           /\ n % d \in 0 .. d - 1
           /\ n = d * (n \div d) + (n % d)
OBVIOUS

\* Every position is a frame and a slot of it.
LEMMA Position ==
    ASSUME NEW n \in Nat
    PROVE  /\ FrameOf(n) \in Nat
           /\ SlotOf(n) \in Slots
           /\ n = PacketsPerFrame * FrameOf(n) + SlotOf(n)
<1>1. PacketsPerFrame \in Nat \ {0}
  BY Constants DEF ConstantAssumptions
<1>2. /\ n \div PacketsPerFrame \in Int
      /\ n % PacketsPerFrame \in 0 .. PacketsPerFrame - 1
      /\ n = PacketsPerFrame * (n \div PacketsPerFrame) + (n % PacketsPerFrame)
  BY <1>1, Division
<1>3. n \div PacketsPerFrame \in Nat
  BY <1>1
<1> QED
  BY <1>2, <1>3 DEF FrameOf, SlotOf, Slots

\* Later positions are in later frames, or in later slots of the same frame.
LEMMA Order ==
    ASSUME NEW m \in Nat, NEW n \in Nat, m < n
    PROVE  /\ FrameOf(m) <= FrameOf(n)
           /\ FrameOf(m) = FrameOf(n) => SlotOf(m) < SlotOf(n)
<1> DEFINE P == PacketsPerFrame
           fm == FrameOf(m)
           fn == FrameOf(n)
           sm == SlotOf(m)
           sn == SlotOf(n)
<1>1. P \in Nat \ {0}
  BY Constants DEF ConstantAssumptions
<1>2. /\ fm \in Nat /\ fn \in Nat
      /\ sm \in 0 .. P - 1 /\ sn \in 0 .. P - 1
      /\ m = P * fm + sm /\ n = P * fn + sn
  BY Position DEF Slots
<1> HIDE DEF P, fm, fn, sm, sn
<1>3. ASSUME fm > fn PROVE FALSE
  <2>1. PICK e \in Nat : fm = fn + 1 + e
    <3>1. fm - fn - 1 \in Nat /\ fm = fn + 1 + (fm - fn - 1)
      BY <1>2, <1>3
    <3> QED
      BY <3>1
  <2>2. P * fm = P * fn + P + P * e
    BY <1>1, <1>2, <2>1
  <2>3. P * e \in Nat /\ P * fn \in Nat
    BY <1>1, <1>2
  <2> QED
    BY <1>1, <1>2, <2>2, <2>3
<1>4. fm <= fn
  BY <1>2, <1>3
<1>5. ASSUME fm = fn PROVE sm < sn
  <2>1. P * fn \in Nat
    BY <1>1, <1>2
  <2> QED
    BY <1>2, <1>5, <2>1
<1> QED
  BY <1>4, <1>5 DEF fm, fn, sm, sn

\* The packet after packet n is in the next slot, or starts the next frame.
LEMMA Successor ==
    ASSUME NEW n \in Nat
    PROVE  IF IsLastOfFrame(n)
           THEN FrameOf(n + 1) # FrameOf(n)
           ELSE FrameOf(n + 1) = FrameOf(n) /\ SlotOf(n + 1) = SlotOf(n) + 1
<1> DEFINE P == PacketsPerFrame
           f == FrameOf(n)
           g == FrameOf(n + 1)
           s == SlotOf(n)
           t == SlotOf(n + 1)
<1>1. P \in Nat \ {0}
  BY Constants DEF ConstantAssumptions
<1>2. f \in Nat /\ s \in 0 .. P - 1 /\ n = P * f + s
  BY Position DEF Slots
<1>3. g \in Nat /\ t \in 0 .. P - 1 /\ n + 1 = P * g + t
  <2>1. n + 1 \in Nat
    OBVIOUS
  <2> QED
    BY <2>1, Position DEF Slots
<1>4. f <= g /\ (f = g => s < t)
  <2>1. n + 1 \in Nat /\ n < n + 1
    OBVIOUS
  <2> QED
    BY <2>1, Order
<1>5. IsLastOfFrame(n) <=> s = P - 1
  BY DEF IsLastOfFrame
<1> HIDE DEF P, f, g, s, t
<1>6. CASE f = g
  <2>1. P * f \in Nat
    BY <1>1, <1>2
  <2>2. t = s + 1
    BY <1>2, <1>3, <1>6, <2>1
  <2> QED
    BY <1>1, <1>2, <1>3, <1>5, <1>6, <2>2 DEF f, g, s, t
<1>7. CASE f # g
  <2>1. PICK e \in Nat : g = f + 1 + e
    <3>1. g - f - 1 \in Nat /\ g = f + 1 + (g - f - 1)
      BY <1>2, <1>3, <1>4, <1>7
    <3> QED
      BY <3>1
  <2>2. P * g = P * f + P + P * e
    BY <1>1, <1>2, <2>1
  <2>3. P * e \in Nat /\ P * f \in Nat
    BY <1>1, <1>2
  <2>4. s = P - 1
    BY <1>1, <1>2, <1>3, <2>2, <2>3
  <2> QED
    BY <1>5, <1>7, <2>4 DEF f, g
<1> QED
  BY <1>6, <1>7

\* Within the link's window a sequence number determines its packet: only
\* the packet after packet m shows no gap after packet m.
LEMMA NoGapMeansNext ==
    ASSUME NEW m \in Nat, NEW n \in Nat,
           n - (m + 1) < SeqMod, (m + 1) - n < SeqMod,
           (SeqOf(n) - (SeqOf(m) + 1)) % SeqMod = 0
    PROVE  n = m + 1
<1> DEFINE M == SeqMod
           a == FirstSeq + n
           b == FirstSeq + m
           d == (a % M) - ((b % M) + 1)
<1>1. M \in Nat \ {0, 1} /\ FirstSeq \in Nat
  BY Constants DEF ConstantAssumptions
<1>2. a \in Int /\ b \in Int /\ a - b = n - m
  BY <1>1
<1>3. n - (m + 1) < M /\ (m + 1) - n < M
  OBVIOUS
<1>4. d % M = 0
  BY DEF SeqOf
<1>5. PICK qa \in Int : a = M * qa + (a % M) /\ a % M \in 0 .. M - 1
  BY <1>1, <1>2, Division
<1>6. PICK qb \in Int : b = M * qb + (b % M) /\ b % M \in 0 .. M - 1
  BY <1>1, <1>2, Division
<1>7. PICK qd \in Int : d = M * qd
  <2>1. d \in Int
    BY <1>5, <1>6
  <2>2. d = M * (d \div M) + (d % M) /\ d \div M \in Int
    BY <1>1, <2>1, Division
  <2>3. M * (d \div M) \in Int
    BY <1>1, <2>2
  <2>4. d = M * (d \div M)
    BY <1>4, <2>2, <2>3
  <2> QED
    BY <2>2, <2>4
<1>8. d = (a % M) - ((b % M) + 1)
  OBVIOUS
<1> HIDE DEF M, a, b, d
<1>9. PICK q \in Int : q = qa - qb + qd /\ n - (m + 1) = M * q
  <2>1. M * (qa - qb + qd) = M * qa - M * qb + M * qd
    BY <1>1
  <2>2. M * qa \in Int /\ M * qb \in Int /\ M * qd \in Int
    BY <1>1
  <2>3. n - (m + 1) = M * (qa - qb + qd)
    BY <1>1, <1>2, <1>5, <1>6, <1>7, <1>8, <2>1, <2>2
  <2> QED
    BY <2>3
<1>10. q = 0
  <2>1. CASE q >= 1
    <3>1. M * q = M + M * (q - 1) /\ M * (q - 1) \in Nat
      BY <1>1, <2>1
    <3> QED
      BY <1>1, <1>3, <1>9, <3>1
  <2>2. CASE q <= -1
    <3>1. M * q = -M - M * (-1 - q) /\ M * (-1 - q) \in Nat
      BY <1>1, <2>2
    <3> QED
      BY <1>1, <1>3, <1>9, <3>1
  <2> QED
    BY <2>1, <2>2
<1> QED
  BY <1>1, <1>9, <1>10
-----------------------------------------------------------------------------
(* Types.                                                                  *)

\* What the link delivers is a packet.
LEMMA PacketType ==
    ASSUME NEW n \in Nat, NEW condition \in Conditions
    PROVE  PacketAt(n, condition) \in Packet
<1>1. SeqOf(n) \in 0 .. SeqMod - 1
  BY Constants, Division DEF ConstantAssumptions, SeqOf
<1>2. FrameOf(n) \in Nat /\ SlotOf(n) \in Slots
  BY Position
<1> QED
  BY <1>1, <1>2 DEF PacketAt, Packet, IsLastOfFrame

LEMMA StrayType == Stray \in Packet
BY Constants DEF ConstantAssumptions, Stray, Packet

\* The gap in front of a packet is a 16-bit number.
LEMMA GapType ==
    ASSUME AssemblerTypeOK, NEW pkt \in Packet
    PROVE  Gap(pkt) \in 0 .. SeqMod - 1
<1>1. SeqMod \in Nat \ {0}
  BY Constants DEF ConstantAssumptions
<1>2. pkt.seq - (lastSeq + 1) \in Int
  BY <1>1 DEF AssemblerTypeOK, Packet
<1> QED
  BY <1>1, <1>2, Division DEF Gap

LEMMA FillType ==
    ASSUME NEW buf \in Pictures, NEW pkt \in Packet
    PROVE  Fill(buf, pkt) \in Pictures
BY DEF Fill, Pictures, Packet

LEMMA BlankPictureType == BlankPicture \in Pictures
BY DEF BlankPicture, Pictures

\* So does what a callback is given.
LEMMA DeliverFrameTyping ==
    ASSUME NEW picture \in Pictures, NEW ts \in Nat,
           NEW incomplete \in BOOLEAN, frameNumber \in Nat,
           DeliverFrame(picture, ts, incomplete)
    PROVE  /\ deliverBuf' \in Pictures
           /\ delivered' \in Deliveries
           /\ frameNumber' \in Nat
           /\ frameIncomplete' \in BOOLEAN
<1>1. [number |-> frameNumber, ts |-> ts, incomplete |-> incomplete]
          \in Deliveries
  BY DEF Deliveries
<1>2. /\ deliverBuf' = picture
      /\ delivered' = [number |-> frameNumber, ts |-> ts,
                       incomplete |-> incomplete]
      /\ frameIncomplete' = FALSE
  BY DEF DeliverFrame
<1>3. frameNumber' \in Nat
  BY DEF DeliverFrame
<1> QED
  BY <1>1, <1>2, <1>3

LEMMA RememberPacketTyping ==
    ASSUME NEW pkt \in Packet, RememberPacket(pkt)
    PROVE  /\ lastSeq' \in 0 .. SeqMod - 1
           /\ lastTs' \in Nat
           /\ hasPrevPacket' \in BOOLEAN
BY DEF RememberPacket, Packet

\* Processing a packet preserves the types of the assembler's state.
LEMMA ProcessPacketTyping ==
    ASSUME AssemblerTypeOK, NEW pkt \in Packet, ProcessPacket(pkt)
    PROVE  AssemblerTypeOK'
<1>1. /\ fillBuf \in Pictures
      /\ frameNumber \in Nat
      /\ lastTs \in Nat
      /\ pkt.ts \in Nat
  BY DEF AssemblerTypeOK, Packet
<1>2. IncompleteWith(pkt) \in BOOLEAN
  BY DEF AssemblerTypeOK, IncompleteWith
<1>3. Fill(fillBuf, pkt) \in Pictures /\ Fill(BlankPicture, pkt) \in Pictures
  BY <1>1, FillType, BlankPictureType
<1>4. CASE IgnorePacket(pkt)
  BY <1>4 DEF IgnorePacket, assemblerVars, AssemblerTypeOK
<1>5. CASE FlushPrevious(pkt)
  <2>1. /\ DeliverFrame(fillBuf, lastTs, TRUE)
        /\ RememberPacket(pkt)
        /\ fillBuf' = Fill(BlankPicture, pkt)
        /\ frameDelivered' = FALSE
    BY <1>5 DEF FlushPrevious
  <2> QED
    BY <1>1, <1>3, <2>1, DeliverFrameTyping, RememberPacketTyping
       DEF AssemblerTypeOK
<1>6. CASE AddToFrame(pkt)
  <2>1. /\ RememberPacket(pkt)
        /\ fillBuf' = Fill(fillBuf, pkt)
        /\ frameIncomplete' = IncompleteWith(pkt)
        /\ frameDelivered' \in BOOLEAN
        /\ UNCHANGED <<deliverBuf, frameNumber, delivered>>
    BY <1>6 DEF AddToFrame
  <2> QED
    BY <1>2, <1>3, <2>1, RememberPacketTyping DEF AssemblerTypeOK
<1>7. CASE CompleteFrame(pkt)
  <2>1. /\ DeliverFrame(Fill(fillBuf, pkt), pkt.ts, IncompleteWith(pkt))
        /\ RememberPacket(pkt)
        /\ fillBuf' = BlankPicture
        /\ frameDelivered' = TRUE
    BY <1>7 DEF CompleteFrame
  <2> QED
    BY <1>1, <1>2, <1>3, <2>1, DeliverFrameTyping, RememberPacketTyping,
       BlankPictureType DEF AssemblerTypeOK
<1> QED
  BY <1>4, <1>5, <1>6, <1>7 DEF ProcessPacket

\* Counting it preserves the types of the statistics.
LEMMA ProcessAndCountTyping ==
    ASSUME TypeOK, NEW pkt \in Packet, ProcessAndCount(pkt)
    PROVE  /\ AssemblerTypeOK'
           /\ packetsReceived' \in Nat
           /\ packetsLost' \in Nat
           /\ framesReceived' \in Nat
           /\ framesDropped' \in Nat
           /\ shown' \in SUBSET Nat
           /\ flagged' \in Nat
<1>1. AssemblerTypeOK'
  BY ProcessPacketTyping DEF TypeOK, ProcessAndCount
<1>2. Gap(pkt) \in Nat
  BY GapType, Constants DEF ConstantAssumptions, TypeOK
<1>3. FramesCompleted(pkt) \in Nat /\ DropsCounted(pkt) \in Nat
  BY DEF FramesCompleted, DropsCounted
<1>4. delivered'.ts \in Nat
  BY <1>1 DEF AssemblerTypeOK, Deliveries
<1>5. /\ packetsReceived' = packetsReceived + 1
      /\ packetsLost' = packetsLost + (IF pkt.readable THEN Gap(pkt) ELSE 0)
      /\ framesReceived' = framesReceived + FramesCompleted(pkt)
      /\ framesDropped' = framesDropped + DropsCounted(pkt)
  BY DEF ProcessAndCount
<1>6. /\ (shown' = shown \cup {delivered'.ts} \/ shown' = shown)
      /\ (flagged' = flagged + 1 \/ flagged' = flagged)
  BY DEF ProcessAndCount
<1>7. packetsReceived' \in Nat /\ packetsLost' \in Nat
  BY <1>2, <1>5 DEF TypeOK
<1>8. framesReceived' \in Nat /\ framesDropped' \in Nat
  BY <1>3, <1>5 DEF TypeOK
<1>9. shown' \in SUBSET Nat
  BY <1>4, <1>6 DEF TypeOK
<1>10. flagged' \in Nat
  BY <1>6 DEF TypeOK
<1> QED
  BY <1>1, <1>7, <1>8, <1>9, <1>10

\* Every reachable state of the receiver is well typed.
THEOREM Typing == Spec => []TypeOK
<1>1. Init => TypeOK
  <2> SUFFICES ASSUME Init PROVE TypeOK
    OBVIOUS
  <2>1. NoDelivery \in Deliveries
    BY DEF NoDelivery, Deliveries
  <2>2. AssemblerTypeOK
    <3>1. 0 \in 0 .. SeqMod - 1
      BY Constants DEF ConstantAssumptions
    <3>2. AssemblerInit
      BY DEF Init
    <3> QED
      BY <2>1, <3>1, <3>2, BlankPictureType DEF AssemblerInit, AssemblerTypeOK
  <2>3. LinkTypeOK
    BY Constants DEF ConstantAssumptions, Init, LinkInit, LinkTypeOK
  <2> QED
    BY <2>2, <2>3 DEF Init, TypeOK
<1>2. TypeOK /\ [Next]_vars => TypeOK'
  <2> SUFFICES ASSUME TypeOK, [Next]_vars PROVE TypeOK'
    OBVIOUS
  <2>1. ASSUME NEW n \in 0 .. StreamLength - 1, NEW condition \in Arrivals,
               ReceivePacket(n, condition)
        PROVE  TypeOK'
    <3>1. n \in Nat /\ condition \in Conditions
      BY Constants DEF ConstantAssumptions
    <3>2. PacketAt(n, condition) \in Packet
      BY <3>1, PacketType
    <3>3. LinkTypeOK'
      <4>1. cursor' = n + 1 \/ cursor' = cursor
        BY <2>1
           DEF ReceivePacket, LinkDelivers, ArrivesAhead, ArrivesBehind
      <4>2. arrived' = arrived \cup {n}
        BY <2>1 DEF ReceivePacket, LinkDelivers
      <4> QED
        BY <3>1, <4>1, <4>2 DEF TypeOK, LinkTypeOK
    <3>4. last' \in Nat
      BY <2>1, <3>1 DEF ReceivePacket
    <3> QED
      BY <2>1, <3>2, <3>3, <3>4, ProcessAndCountTyping
         DEF ReceivePacket, TypeOK
  <2>2. CASE ReceiveStray
    BY <2>2, StrayType, ProcessAndCountTyping
       DEF ReceiveStray, TypeOK, LinkTypeOK
  <2>3. CASE UNCHANGED vars
    BY <2>3 DEF vars, assemblerVars, linkVars, statsVars, historyVars, TypeOK,
                AssemblerTypeOK, LinkTypeOK
  <2> QED
    BY <2>1, <2>2, <2>3 DEF Next
<1> QED
  BY <1>1, <1>2, PTL DEF Spec
-----------------------------------------------------------------------------
(* Statistics.                                                             *)

\* Processing a packet delivers a frame exactly if it says so.
LEMMA CompletedIsDelivered ==
    ASSUME NEW pkt \in Packet, ProcessPacket(pkt), frameNumber \in Nat
    PROVE  frameNumber' = frameNumber + FramesCompleted(pkt)
<1>1. pkt.readable \in BOOLEAN /\ pkt.marker \in BOOLEAN
  BY DEF Packet
<1>2. CASE IgnorePacket(pkt)
  BY <1>1, <1>2 DEF IgnorePacket, assemblerVars, FramesCompleted
<1>3. CASE FlushPrevious(pkt)
  BY <1>1, <1>3 DEF FlushPrevious, DeliverFrame, FramesCompleted
<1>4. CASE AddToFrame(pkt)
  BY <1>1, <1>4 DEF AddToFrame, FramesCompleted
<1>5. CASE CompleteFrame(pkt)
  BY <1>1, <1>5 DEF CompleteFrame, DeliverFrame, FramesCompleted
<1> QED
  BY <1>2, <1>3, <1>4, <1>5 DEF ProcessPacket

\* The frame counters count what the callback is given, for every link, every
\* condition of the packets and every order of arrival.
THEOREM StatsMatch == Spec => []StatsMatchDeliveries
<1>1. Init => StatsMatchDeliveries
  BY DEF Init, AssemblerInit, StatsMatchDeliveries
<1>2. TypeOK /\ StatsMatchDeliveries /\ [Next]_vars => StatsMatchDeliveries'
  <2> SUFFICES ASSUME TypeOK, StatsMatchDeliveries, [Next]_vars
               PROVE  StatsMatchDeliveries'
    OBVIOUS
  <2>1. ASSUME NEW pkt \in Packet, ProcessAndCount(pkt)
        PROVE  StatsMatchDeliveries'
    <3>1. frameNumber' = frameNumber + FramesCompleted(pkt)
      BY <2>1, CompletedIsDelivered
         DEF ProcessAndCount, TypeOK, AssemblerTypeOK
    <3>2. framesReceived' = framesReceived + FramesCompleted(pkt)
      BY <2>1 DEF ProcessAndCount
    <3>3. framesDropped' = framesDropped + DropsCounted(pkt)
      BY <2>1 DEF ProcessAndCount
    <3>4. flagged' = flagged + DropsCounted(pkt)
      <4>1. FramesCompleted(pkt) \in {0, 1}
        BY DEF FramesCompleted
      <4>2. CASE FramesCompleted(pkt) > 0
        BY <2>1, <4>2 DEF ProcessAndCount, DropsCounted, TypeOK
      <4>3. CASE ~(FramesCompleted(pkt) > 0)
        BY <2>1, <4>3 DEF ProcessAndCount, DropsCounted, TypeOK
      <4> QED
        BY <4>2, <4>3
    <3> QED
      BY <3>1, <3>2, <3>3, <3>4 DEF StatsMatchDeliveries
  <2>2. ASSUME NEW n \in 0 .. StreamLength - 1, NEW condition \in Arrivals,
               ReceivePacket(n, condition)
        PROVE  StatsMatchDeliveries'
    <3>1. PacketAt(n, condition) \in Packet
      BY PacketType, Constants DEF ConstantAssumptions
    <3> QED
      BY <2>1, <2>2, <3>1 DEF ReceivePacket
  <2>3. CASE ReceiveStray
    BY <2>1, <2>3, StrayType DEF ReceiveStray
  <2>4. CASE UNCHANGED vars
    BY <2>4 DEF vars, assemblerVars, statsVars, historyVars,
                StatsMatchDeliveries
  <2> QED
    BY <2>2, <2>3, <2>4 DEF Next
<1> QED
  BY <1>1, <1>2, Typing, PTL DEF Spec
-----------------------------------------------------------------------------
(* The picture and the incomplete flag.                                    *)

\* Where the link may put a packet, relative to those that have arrived.
LEMMA ArrivalWindow ==
    ASSUME TypeOK, NEW n \in Nat, LinkDelivers(n)
    PROVE  /\ n <= cursor + MaxSkip
           /\ cursor - n <= Reach
           /\ n < cursor'
           /\ cursor' - n <= Reach + 1
           /\ cursor' \in Nat
<1>1. MaxSkip \in Nat /\ Reach \in Nat /\ cursor \in Nat
  BY Constants DEF ConstantAssumptions, TypeOK, LinkTypeOK
<1>2. CASE ArrivesAhead(n)
  BY <1>1, <1>2 DEF ArrivesAhead
<1>3. CASE ArrivesBehind(n)
  BY <1>1, <1>3 DEF ArrivesBehind
<1> QED
  BY <1>2, <1>3 DEF LinkDelivers

\* A packet that shows no gap is the successor of the last one.
LEMMA NoGapIsSuccessor ==
    ASSUME TypeOK, LastPacketKnown, last # -1, NEW n \in Nat, LinkDelivers(n),
           NEW condition \in Conditions, Gap(PacketAt(n, condition)) = 0
    PROVE  n = last + 1
<1>1. /\ MaxSkip \in Nat /\ Reach \in Nat /\ SeqMod \in Nat
      /\ MaxSkip + Reach < SeqMod
      /\ cursor \in Nat /\ last \in Nat
  BY Constants DEF ConstantAssumptions, TypeOK, LinkTypeOK
<1>2. /\ hasPrevPacket /\ lastSeq = SeqOf(last)
      /\ last < cursor /\ cursor - last <= Reach + 1
  BY DEF LastPacketKnown
<1>3. n <= cursor + MaxSkip /\ cursor - n <= Reach
  BY ArrivalWindow
<1>4. (SeqOf(n) - (SeqOf(last) + 1)) % SeqMod = 0
  BY <1>2 DEF Gap, PacketAt
<1>5. n - (last + 1) < SeqMod /\ (last + 1) - n < SeqMod
  BY <1>1, <1>2, <1>3
<1> QED
  BY <1>1, <1>4, <1>5, NoGapMeansNext

\* An intact packet alone in a cleared picture is a run of one slot.
LEMMA FillBlank ==
    ASSUME NEW n \in Nat
    PROVE  Fill(BlankPicture, PacketAt(n, "intact")) = RunUpTo(SlotOf(n), n)
<1>1. SlotOf(n) \in Slots
  BY Position
<1>2. ASSUME NEW s \in Slots
      PROVE  s = SlotOf(n) <=> SlotOf(n) <= s /\ s <= SlotOf(n)
  BY <1>1, Constants DEF ConstantAssumptions, Slots
<1> QED
  BY <1>1, <1>2 DEF Fill, BlankPicture, PacketAt, RunUpTo

\* The successor of a packet of the same frame extends its run by one slot.
LEMMA FillRun ==
    ASSUME NEW m \in Nat, NEW k \in 0 .. SlotOf(m), ~IsLastOfFrame(m)
    PROVE  Fill(RunUpTo(k, m), PacketAt(m + 1, "intact")) = RunUpTo(k, m + 1)
<1>1. FrameOf(m + 1) = FrameOf(m) /\ SlotOf(m + 1) = SlotOf(m) + 1
  BY Successor
<1>2. SlotOf(m) \in Slots
  BY Position
<1>3. ASSUME NEW s \in Slots
      PROVE  k <= s /\ s <= SlotOf(m + 1) <=>
                 s = SlotOf(m + 1) \/ (k <= s /\ s <= SlotOf(m))
  BY <1>1, <1>2, Constants DEF ConstantAssumptions, Slots
<1>4. ASSUME NEW s \in Slots
      PROVE  Fill(RunUpTo(k, m), PacketAt(m + 1, "intact"))[s] =
                 RunUpTo(k, m + 1)[s]
  BY <1>1, <1>3 DEF Fill, PacketAt, RunUpTo
<1> QED
  BY <1>4 DEF Fill, RunUpTo

\* Without a gap and without a flag, the picture with the new packet in it is
\* a run that ends with the new packet.
LEMMA NoGapExtendsRun ==
    ASSUME TypeOK, LastPacketKnown, UnflaggedPictureHasNoHole,
           NEW n \in Nat, LinkDelivers(n), NEW pkt,
           pkt = PacketAt(n, "intact"), ~IncompleteWith(pkt)
    PROVE  \E k \in 0 .. SlotOf(n) : Fill(fillBuf, pkt) = RunUpTo(k, n)
<1>1. ~frameIncomplete /\ Gap(pkt) = 0
  BY DEF IncompleteWith
<1>2. SlotOf(n) \in 0 .. SlotOf(n)
  BY Position, Constants DEF ConstantAssumptions, Slots
<1>3. CASE last = -1 \/ IsLastOfFrame(last)
  <2>1. fillBuf = BlankPicture
    BY <1>1, <1>3 DEF UnflaggedPictureHasNoHole
  <2> QED
    BY <1>2, <2>1, FillBlank
<1>4. CASE ~(last = -1 \/ IsLastOfFrame(last))
  <2>1. last \in Nat
    BY <1>4 DEF TypeOK
  <2>2. n = last + 1
    BY <1>1, <1>4, NoGapIsSuccessor DEF Conditions
  <2>3. PICK k \in 0 .. SlotOf(last) : fillBuf = RunUpTo(k, last)
    BY <1>1, <1>4 DEF UnflaggedPictureHasNoHole
  <2>4. Fill(fillBuf, pkt) = RunUpTo(k, n)
    BY <1>4, <2>1, <2>2, <2>3, FillRun
  <2>5. k \in 0 .. SlotOf(n)
    <3>1. SlotOf(n) = SlotOf(last) + 1
      BY <1>4, <2>1, <2>2, Successor
    <3>2. SlotOf(last) \in Int
      BY <2>1, Position, Constants DEF ConstantAssumptions, Slots
    <3> QED
      BY <3>1, <3>2
  <2> QED
    BY <2>4, <2>5
<1> QED
  BY <1>3, <1>4

\* Reading an intact packet keeps the picture and its flag together.
LEMMA PacketKeepsPicture ==
    ASSUME TypeOK, PictureInvariant, NEW n \in Nat,
           ReceivePacket(n, "intact")
    PROVE  PictureInvariant'
<1> DEFINE pkt == PacketAt(n, "intact")
<1>1. LinkDelivers(n) /\ ProcessPacket(pkt) /\ last' = n
  BY DEF ReceivePacket, ProcessAndCount
<1>2. /\ pkt.readable /\ pkt.seq = SeqOf(n) /\ pkt.ts = FrameOf(n)
      /\ pkt.marker <=> IsLastOfFrame(n)
  BY DEF PacketAt
<1>3. /\ FrameOf(n) \in Nat
      /\ SlotOf(n) \in Slots
  BY Position
<1>4. LastPacketKnown /\ UnflaggedPictureHasNoHole /\ CompleteFrameIsATail
  BY DEF PictureInvariant
<1> HIDE DEF pkt
<1>5. LastPacketKnown'
  <2>1. RememberPacket(pkt)
    BY <1>1, <1>2
       DEF ProcessPacket, IgnorePacket, FlushPrevious, AddToFrame,
           CompleteFrame
  <2>2. n < cursor' /\ cursor' - n <= Reach + 1
    BY <1>1, ArrivalWindow
  <2> QED
    BY <1>1, <1>2, <2>1, <2>2
       DEF LastPacketKnown, RememberPacket, SeqOf, FrameOf
<1>6. CASE FlushPrevious(pkt)
  <2>1. /\ fillBuf' = Fill(BlankPicture, pkt)
        /\ delivered'.incomplete
        /\ ~IsLastOfFrame(n)
    BY <1>2, <1>6 DEF FlushPrevious, DeliverFrame, FlushesPrevious
  <2>2. fillBuf' = RunUpTo(SlotOf(n), n)
    BY <2>1, FillBlank DEF pkt
  <2>3. SlotOf(n) \in 0 .. SlotOf(n)
    BY <1>3, Constants DEF ConstantAssumptions, Slots
  <2>4. UnflaggedPictureHasNoHole'
    BY <1>1, <2>1, <2>2, <2>3
       DEF UnflaggedPictureHasNoHole, RunUpTo, IsLastOfFrame, SlotOf, FrameOf,
           Slots
  <2>5. CompleteFrameIsATail'
    BY <2>1 DEF CompleteFrameIsATail
  <2> QED
    BY <1>5, <2>4, <2>5 DEF PictureInvariant
<1>7. CASE AddToFrame(pkt)
  <2>1. /\ fillBuf' = Fill(fillBuf, pkt)
        /\ frameIncomplete' = IncompleteWith(pkt)
        /\ UNCHANGED <<deliverBuf, delivered>>
        /\ ~IsLastOfFrame(n)
    BY <1>2, <1>7 DEF AddToFrame
  <2>2. ASSUME ~IncompleteWith(pkt)
        PROVE  \E k \in 0 .. SlotOf(n) : fillBuf' = RunUpTo(k, n)
    BY <1>1, <1>4, <2>1, <2>2, NoGapExtendsRun DEF pkt
  <2>3. UnflaggedPictureHasNoHole'
    BY <1>1, <2>1, <2>2
       DEF UnflaggedPictureHasNoHole, RunUpTo, IsLastOfFrame, SlotOf, FrameOf,
           Slots
  <2>4. CompleteFrameIsATail'
    BY <1>4, <2>1 DEF CompleteFrameIsATail, Delivered
  <2> QED
    BY <1>5, <2>3, <2>4 DEF PictureInvariant
<1>8. CASE CompleteFrame(pkt)
  <2>1. /\ fillBuf' = BlankPicture
        /\ deliverBuf' = Fill(fillBuf, pkt)
        /\ delivered'.incomplete = IncompleteWith(pkt)
        /\ delivered'.ts = FrameOf(n)
        /\ IsLastOfFrame(n)
    BY <1>2, <1>8 DEF CompleteFrame, DeliverFrame
  <2>2. UnflaggedPictureHasNoHole'
    BY <1>1, <2>1
       DEF UnflaggedPictureHasNoHole, BlankPicture, IsLastOfFrame, SlotOf,
           Slots
  <2>3. CompleteFrameIsATail'
    <3> SUFFICES ASSUME ~IncompleteWith(pkt)
                 PROVE  \E k \in Slots :
                            Fill(fillBuf, pkt) =
                                [s \in Slots |->
                                    IF s >= k THEN FrameOf(n) ELSE Blank]
      BY <2>1 DEF CompleteFrameIsATail
    <3>1. PICK k \in 0 .. SlotOf(n) : Fill(fillBuf, pkt) = RunUpTo(k, n)
      BY <1>1, <1>4, NoGapExtendsRun DEF pkt
    <3>2. SlotOf(n) = PacketsPerFrame - 1 /\ PacketsPerFrame \in Nat
      BY <2>1, Constants DEF ConstantAssumptions, IsLastOfFrame
    <3>3. k \in Slots
      BY <3>1, <3>2 DEF Slots
    <3>4. ASSUME NEW s \in Slots
          PROVE  k <= s /\ s <= SlotOf(n) <=> s >= k
      BY <3>2, <3>3 DEF Slots
    <3> QED
      BY <3>1, <3>3, <3>4 DEF RunUpTo
  <2> QED
    BY <1>5, <2>2, <2>3 DEF PictureInvariant
<1> QED
  BY <1>1, <1>2, <1>6, <1>7, <1>8 DEF ProcessPacket, IgnorePacket

\* When the packets that arrive are intact, in whatever order and however
\* often they do, the picture invariant holds throughout.
THEOREM PictureInvariance ==
    ASSUME Arrivals \subseteq {"intact"}
    PROVE  Spec => []PictureInvariant
<1>1. Init => PictureInvariant
  BY DEF Init, AssemblerInit, PictureInvariant, LastPacketKnown,
         UnflaggedPictureHasNoHole, CompleteFrameIsATail, Delivered
<1>2. TypeOK /\ PictureInvariant /\ [Next]_vars => PictureInvariant'
  <2> SUFFICES ASSUME TypeOK, PictureInvariant, [Next]_vars
               PROVE  PictureInvariant'
    OBVIOUS
  <2>1. ASSUME NEW n \in 0 .. StreamLength - 1, NEW condition \in Arrivals,
               ReceivePacket(n, condition)
        PROVE  PictureInvariant'
    <3>1. n \in Nat /\ condition = "intact"
      OBVIOUS
    <3> QED
      BY <2>1, <3>1, PacketKeepsPicture
  <2>2. CASE ReceiveStray
    <3>1. UNCHANGED <<assemblerVars, linkVars, last>>
      BY <2>2 DEF ReceiveStray, ProcessAndCount, ProcessPacket, IgnorePacket,
                  FlushPrevious, AddToFrame, CompleteFrame, Stray, linkVars
    <3> QED
      BY <3>1 DEF assemblerVars, linkVars, PictureInvariant, LastPacketKnown,
                  UnflaggedPictureHasNoHole, CompleteFrameIsATail, Delivered
  <2>3. CASE UNCHANGED vars
    BY <2>3 DEF vars, assemblerVars, linkVars, historyVars, PictureInvariant,
                LastPacketKnown, UnflaggedPictureHasNoHole,
                CompleteFrameIsATail, Delivered
  <2> QED
    BY <2>1, <2>2, <2>3 DEF Next
<1> QED
  BY <1>1, <1>2, Typing, PTL DEF Spec

\* A frame that reaches the callback without the incomplete flag is a tail of
\* one sent frame, whatever the link loses, duplicates or reorders.
THEOREM UnflaggedFramesAreTails ==
    ASSUME Arrivals \subseteq {"intact"}
    PROVE  Spec => []CompleteFrameIsATail
<1>1. PictureInvariant => CompleteFrameIsATail
  BY DEF PictureInvariant
<1> QED
  BY <1>1, PictureInvariance, PTL
-----------------------------------------------------------------------------
(* The order of deliveries on a link that does not reorder.                *)

\* A link that reaches back no further than the cursor delivers in order.
LEMMA InOrder ==
    ASSUME TypeOK, LastPacketKnown, Reach = 0, last # -1,
           NEW n \in Nat, LinkDelivers(n)
    PROVE  last \in Nat /\ last < n
<1>1. cursor - n <= Reach
  BY ArrivalWindow
<1>2. last \in Nat /\ cursor \in Nat /\ last < cursor
  BY DEF TypeOK, LinkTypeOK, LastPacketKnown
<1> QED
  BY <1>1, <1>2

\* Reading a packet keeps the order, and what it delivers is new.
LEMMA PacketKeepsOrder ==
    ASSUME TypeOK, DeliveryOrder, Reach = 0, NEW n \in Nat,
           NEW condition \in Conditions, ReceivePacket(n, condition)
    PROVE  /\ DeliveryOrder'
           /\ delivered' # delivered /\ Delivered =>
                  delivered'.ts > delivered.ts
<1> DEFINE pkt == PacketAt(n, condition)
<1>1. LinkDelivers(n) /\ ProcessPacket(pkt) /\ last' = n
  BY DEF ReceivePacket, ProcessAndCount
<1>2. /\ pkt.readable /\ pkt.seq = SeqOf(n) /\ pkt.ts = FrameOf(n)
      /\ pkt.marker <=> IsLastOfFrame(n)
  BY DEF PacketAt
<1>3. LastPacketKnown
  BY DEF DeliveryOrder
<1>4. delivered \in Deliveries /\ (Delivered => delivered.ts \in Nat)
  BY DEF TypeOK, AssemblerTypeOK, Deliveries
<1>5. FrameOf(n) \in Nat /\ SlotOf(n) \in Slots
  BY Position
<1>6. ASSUME last # -1
      PROVE  /\ last \in Nat /\ hasPrevPacket /\ lastTs = FrameOf(last)
             /\ FrameOf(last) \in Nat /\ SlotOf(last) \in Slots
             /\ FrameOf(last) <= FrameOf(n)
             /\ FrameOf(last) = FrameOf(n) => SlotOf(last) < SlotOf(n)
             /\ frameDelivered <=> IsLastOfFrame(last)
  BY <1>1, <1>3, <1>6, InOrder, Order, Position
     DEF LastPacketKnown, DeliveryOrder
<1>7. last = -1 => ~hasPrevPacket /\ ~Delivered
  BY DEF LastPacketKnown, DeliveryOrder
<1> HIDE DEF pkt
<1>8. LastPacketKnown'
  <2>1. RememberPacket(pkt)
    BY <1>1, <1>2
       DEF ProcessPacket, IgnorePacket, FlushPrevious, AddToFrame,
           CompleteFrame
  <2>2. n < cursor' /\ cursor' - n <= Reach + 1
    BY <1>1, ArrivalWindow
  <2> QED
    BY <1>1, <1>2, <2>1, <2>2
       DEF LastPacketKnown, RememberPacket, SeqOf, FrameOf
<1>9. last' # -1 /\ FrameOf(last)' = FrameOf(n)
      /\ (IsLastOfFrame(last)' <=> IsLastOfFrame(n))
  BY <1>1 DEF FrameOf, IsLastOfFrame, SlotOf
<1>10. CASE FlushPrevious(pkt)
  <2>1. /\ hasPrevPacket /\ FrameOf(n) # lastTs /\ ~frameDelivered
        /\ ~IsLastOfFrame(n)
        /\ delivered'.ts = lastTs
        /\ frameDelivered' = FALSE
    BY <1>2, <1>10
       DEF FlushPrevious, FlushesPrevious, StartsNewFrame, DeliverFrame
  <2>2. last # -1 /\ lastTs < FrameOf(n)
    BY <1>5, <1>6, <1>7, <2>1
  <2>3. Delivered => delivered.ts < lastTs
    BY <1>6, <2>1, <2>2 DEF DeliveryOrder
  <2> QED
    BY <1>4, <1>6, <1>8, <1>9, <2>1, <2>2, <2>3 DEF DeliveryOrder
<1>11. CASE AddToFrame(pkt)
  <2>1. /\ ~IsLastOfFrame(n)
        /\ delivered' = delivered
        /\ frameDelivered' => frameDelivered /\ ~StartsNewFrame(pkt)
    BY <1>2, <1>11 DEF AddToFrame
  <2>2. CASE last = -1
    <3>1. ~Delivered /\ ~Delivered' /\ ~hasPrevPacket
      BY <1>7, <2>1, <2>2 DEF Delivered
    <3>2. ~frameDelivered
      BY <2>2 DEF DeliveryOrder
    <3> QED
      BY <1>8, <1>9, <2>1, <3>1, <3>2 DEF DeliveryOrder
  <2>3. CASE last # -1
    <3>1. frameDelivered => FrameOf(last) < FrameOf(n)
      BY <1>5, <1>6, <2>3, Constants
         DEF ConstantAssumptions, IsLastOfFrame, Slots
    <3>2. ~frameDelivered'
      BY <1>2, <1>6, <2>1, <2>3, <3>1, <1>5 DEF StartsNewFrame
    <3>3. Delivered => delivered.ts < FrameOf(n)
      BY <1>4, <1>5, <1>6, <2>3, <3>1 DEF DeliveryOrder
    <3> QED
      BY <1>8, <1>9, <2>1, <3>2, <3>3 DEF DeliveryOrder, Delivered
  <2> QED
    BY <2>2, <2>3
<1>12. CASE CompleteFrame(pkt)
  <2>1. /\ IsLastOfFrame(n)
        /\ delivered'.ts = FrameOf(n)
        /\ frameDelivered' = TRUE
    BY <1>2, <1>12 DEF CompleteFrame, DeliverFrame
  <2>2. Delivered => delivered.ts < FrameOf(n)
    <3> SUFFICES ASSUME Delivered PROVE delivered.ts < FrameOf(n)
      OBVIOUS
    <3>1. last # -1
      BY <1>7
    <3>2. frameDelivered => FrameOf(last) < FrameOf(n)
      BY <1>5, <1>6, <3>1, Constants
         DEF ConstantAssumptions, IsLastOfFrame, Slots
    <3> QED
      BY <1>4, <1>5, <1>6, <3>1, <3>2 DEF DeliveryOrder
  <2> QED
    BY <1>4, <1>5, <1>8, <1>9, <2>1, <2>2 DEF DeliveryOrder
<1> QED
  BY <1>1, <1>2, <1>10, <1>11, <1>12 DEF ProcessPacket, IgnorePacket

\* On a link that does not reorder, deliveries follow the stream: no frame
\* after a later one, and none twice, whatever is lost or garbled.
THEOREM DeliveriesInOrder ==
    ASSUME Reach = 0
    PROVE  Spec => DeliveriesAdvance
<1> DEFINE Advance ==
        delivered' # delivered /\ Delivered => delivered'.ts > delivered.ts
<1>1. Init => DeliveryOrder
  BY DEF Init, AssemblerInit, DeliveryOrder, LastPacketKnown, Delivered
<1>2. TypeOK /\ DeliveryOrder /\ [Next]_vars =>
          DeliveryOrder' /\ [Advance]_vars
  <2> SUFFICES ASSUME TypeOK, DeliveryOrder, [Next]_vars
               PROVE  DeliveryOrder' /\ Advance
    OBVIOUS
  <2>1. ASSUME NEW n \in 0 .. StreamLength - 1, NEW condition \in Arrivals,
               ReceivePacket(n, condition)
        PROVE  DeliveryOrder' /\ Advance
    <3>1. n \in Nat /\ condition \in Conditions
      BY Constants DEF ConstantAssumptions
    <3> QED
      BY <2>1, <3>1, PacketKeepsOrder
  <2>2. ASSUME UNCHANGED <<assemblerVars, linkVars, last>>
        PROVE  DeliveryOrder' /\ Advance
    BY <2>2 DEF assemblerVars, linkVars, DeliveryOrder, LastPacketKnown,
                Delivered, SeqOf, FrameOf, SlotOf, IsLastOfFrame
  <2>3. CASE ReceiveStray
    BY <2>2, <2>3
       DEF ReceiveStray, ProcessAndCount, ProcessPacket, IgnorePacket,
           FlushPrevious, AddToFrame, CompleteFrame, Stray, linkVars
  <2>4. CASE UNCHANGED vars
    BY <2>2, <2>4 DEF vars, historyVars
  <2> QED
    BY <2>1, <2>3, <2>4 DEF Next
<1> QED
  BY <1>1, <1>2, Typing, PTL DEF Spec, DeliveriesAdvance
=============================================================================
