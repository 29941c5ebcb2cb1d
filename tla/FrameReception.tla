--------------------------- MODULE FrameReception ---------------------------
(***************************************************************************)
(* rx_process_packet (rx_core.c) over an unreliable link: every packet     *)
(* that reaches the socket is counted, assembled, and its losses and the   *)
(* delivery it causes are added to the statistics.  The receive thread     *)
(* runs a call to its end before it takes the next packet, so a call is    *)
(* one step here; StatsSeqlock looks inside it.                            *)
(***************************************************************************)
EXTENDS FrameAssembler, RtpLink, FiniteSets, FiniteSetsExt

CONSTANTS Arrivals,    \* conditions in which packets arrive
          MaxPackets   \* bound on the number of datagrams received

ASSUME ArrivalsAssumption == Arrivals \subseteq Conditions
ASSUME MaxPacketsAssumption == MaxPackets \in Nat

VARIABLES packetsReceived, packetsLost, framesReceived, framesDropped,
          last,    \* history: position of the last packet read, or -1
          shown,   \* history: timestamps the callback has been given
          flagged  \* history: number of deliveries marked incomplete

statsVars == <<packetsReceived, packetsLost, framesReceived, framesDropped>>
historyVars == <<last, shown, flagged>>
vars == <<assemblerVars, linkVars, statsVars, historyVars>>

TypeOK ==
    /\ AssemblerTypeOK
    /\ LinkTypeOK
    /\ packetsReceived \in Nat
    /\ packetsLost \in Nat
    /\ framesReceived \in Nat
    /\ framesDropped \in Nat
    /\ last \in Nat \cup {-1}
    /\ shown \in SUBSET Nat
    /\ flagged \in Nat

Init ==
    /\ AssemblerInit
    /\ LinkInit
    /\ packetsReceived = 0
    /\ packetsLost = 0
    /\ framesReceived = 0
    /\ framesDropped = 0
    /\ last = -1
    /\ shown = {}
    /\ flagged = 0
-----------------------------------------------------------------------------
\* The mutant looks at frame_incomplete, which deliver_frame has reset.
DropsCounted_TooLate(pkt) ==
    IF FramesCompleted(pkt) > 0 /\ frameIncomplete' THEN 1 ELSE 0

\* rx_stats_frame: a delivery is counted as dropped if it was incomplete.
DropsCounted(pkt) ==
    IF FramesCompleted(pkt) > 0 /\ delivered'.incomplete THEN 1 ELSE 0

\* rx_process_packet: the datagram is counted, assembled, and what came of
\* it is counted; `last', `shown' and `flagged' follow along.
ProcessAndCount(pkt) ==
    /\ packetsReceived < MaxPackets
    /\ packetsReceived' = packetsReceived + 1
    /\ ProcessPacket(pkt)
    /\ packetsLost' = packetsLost + (IF pkt.readable THEN Gap(pkt) ELSE 0)
    /\ framesReceived' = framesReceived + FramesCompleted(pkt)
    /\ framesDropped' = framesDropped + DropsCounted(pkt)
    /\ IF FramesCompleted(pkt) > 0
       THEN /\ shown' = shown \cup {delivered'.ts}
            /\ flagged' = IF delivered'.incomplete
                          THEN flagged + 1 ELSE flagged
       ELSE UNCHANGED <<shown, flagged>>

ReceivePacket(n, condition) ==
    /\ LinkDelivers(n)
    /\ ProcessAndCount(PacketAt(n, condition))
    /\ last' = n

ReceiveStray ==
    /\ ProcessAndCount(Stray)
    /\ UNCHANGED <<cursor, arrived, last>>

Next ==
    \/ \E n \in 0 .. StreamLength - 1, condition \in Arrivals :
           ReceivePacket(n, condition)
    \/ ReceiveStray

Spec == Init /\ [][Next]_vars
-----------------------------------------------------------------------------
Delivered == delivered # NoDelivery

\* A frame delivered without the incomplete flag is a tail of one sent frame:
\* from some packet on it has every packet of that frame, its marker
\* included, and it has nothing else.  This is all the flag promises, since
\* the gap in front of a frame is charged to the frame flushed before it.
CompleteFrameIsATail ==
    Delivered /\ ~delivered.incomplete =>
        \E k \in Slots :
            deliverBuf = [s \in Slots |->
                             IF s >= k THEN delivered.ts ELSE Blank]

\* The assembler remembers the packet it read last, and that packet is within
\* reach of the furthest one that has arrived.
LastPacketKnown ==
    IF last = -1
    THEN ~hasPrevPacket
    ELSE /\ hasPrevPacket
         /\ lastSeq = SeqOf(last)
         /\ lastTs = FrameOf(last)
         /\ last < cursor
         /\ cursor - last <= Reach + 1

\* The slots from `from' to that of packet n hold the pixels of n's frame.
RunUpTo(from, n) ==
    [s \in Slots |->
        IF from <= s /\ s <= SlotOf(n) THEN FrameOf(n) ELSE Blank]

\* While no gap is flagged, the frame being filled has no hole: its buffer
\* holds a run of consecutive packets that ends with the last one read.  This
\* is why the flag can stand for the picture when the frame is delivered.
UnflaggedPictureHasNoHole ==
    ~frameIncomplete =>
        IF last = -1 \/ IsLastOfFrame(last)
        THEN fillBuf = BlankPicture
        ELSE \E k \in 0 .. SlotOf(last) : fillBuf = RunUpTo(k, last)

\* The inductive invariant behind CompleteFrameIsATail.
PictureInvariant ==
    /\ LastPacketKnown
    /\ UnflaggedPictureHasNoHole
    /\ CompleteFrameIsATail

\* What the plugin's frame callback relies on (obs-st2110-source.c:84): a
\* frame without the incomplete flag has all its packets.
CompleteMeansWhole ==
    Delivered /\ ~delivered.incomplete =>
        deliverBuf = [s \in Slots |-> delivered.ts]

\* As long as nothing is reordered, a frame without the incomplete flag lacks
\* at most its front: what is missing of it was lost, or missed by joining
\* late, in one piece with the packet before the frame.  Every other loss is
\* flagged, also where the sequence numbers wrap around.
UnflaggedLacksAtMostItsFront ==
    Delivered /\ ~delivered.incomplete =>
        LET own   == PacketsOf(delivered.ts)
            first == delivered.ts * PacketsPerFrame
        IN  \E k \in own :
                /\ {n \in own : n >= k} \subseteq arrived
                /\ k = first \/ (first - 1 .. k - 1) \cap arrived = {}

\* As long as nothing is reordered, a frame is flagged only if a packet of
\* it, or the packet just before it, did not arrive: no false alarms.
IncompleteHasACause ==
    Delivered /\ delivered.incomplete =>
        \E n \in (PacketsOf(delivered.ts) \cup
                  {delivered.ts * PacketsPerFrame - 1}) \cap Nat :
            n \notin arrived

\* As long as nothing is reordered, packets_lost is the number of packets
\* that are missing between the first packet read and the last one, however
\* the losses are spread and whether or not the numbers wrap around.
LossAccounting ==
    arrived # {} =>
        packetsLost = Cardinality((Min(arrived) .. last) \ arrived)

\* The two frame counters of rx_process_packet agree with what the callback
\* was given: one count per delivery, one drop per incomplete delivery.
StatsMatchDeliveries ==
    /\ framesReceived = frameNumber
    /\ framesDropped = flagged

\* As long as nothing is reordered, deliveries follow the stream: no frame is
\* delivered after a later one, and none is delivered twice.
DeliveriesAdvance ==
    [][delivered' # delivered /\ Delivered =>
           delivered'.ts > delivered.ts]_vars

\* The inductive invariant behind DeliveriesAdvance: as long as nothing is
\* reordered, frame_delivered is set exactly while the last packet read is a
\* marker, and tells whether the last delivery was that packet's frame or an
\* earlier one.
DeliveryOrder ==
    /\ LastPacketKnown
    /\ frameDelivered <=> last # -1 /\ IsLastOfFrame(last)
    /\ Delivered => /\ last # -1
                    /\ IF frameDelivered THEN delivered.ts = FrameOf(last)
                                         ELSE delivered.ts < FrameOf(last)

\* As long as nothing is reordered, a frame of which a packet was read has
\* been delivered once a later frame is under way, with one exception in the
\* code: all that was read of the next frame is its marker packet.
NoFrameVanishes ==
    \A f \in 0 .. Frames - 1 :
        LET later == {n \in arrived : FrameOf(n) > f}
        IN  PacketsOf(f) \cap arrived # {} /\ later # {} =>
                f \in shown \/ IsLastOfFrame(Min(later))
=============================================================================
