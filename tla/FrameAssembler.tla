--------------------------- MODULE FrameAssembler ---------------------------
(***************************************************************************)
(* rx_frame_assembler_t and rx_assembler_process_packet (rx_rfc4175.c):    *)
(* packets go into the fill buffer; a marker, or the first packet of the   *)
(* next frame, swaps the two buffers and hands the filled one to the       *)
(* frame callback.                                                         *)
(*                                                                         *)
(* The walk over the segments of one packet is the subject of PacketWalk;  *)
(* here it is the set of slots the packet fills.  `delivered' stands for   *)
(* the st2110rx_frame_t the last callback was given and for the fields     *)
(* delivered_incomplete and delivered_timestamp, which copy it.            *)
(***************************************************************************)
EXTENDS RtpVideo

VARIABLES fillBuf, deliverBuf,             \* the two frame buffers
          lastSeq, lastTs, hasPrevPacket,  \* the last readable packet
          frameIncomplete, frameDelivered, \* flags of the frame being filled
          frameNumber,                     \* number of the next delivery
          delivered                        \* what the last callback saw

assemblerVars == <<fillBuf, deliverBuf, lastSeq, lastTs, hasPrevPacket,
                   frameIncomplete, frameDelivered, frameNumber, delivered>>

Deliveries == [number : Int, ts : Nat, incomplete : BOOLEAN]

NoDelivery == [number |-> -1, ts |-> 0, incomplete |-> FALSE]

AssemblerTypeOK ==
    /\ fillBuf \in Pictures
    /\ deliverBuf \in Pictures
    /\ lastSeq \in 0 .. SeqMod - 1
    /\ lastTs \in Nat
    /\ hasPrevPacket \in BOOLEAN
    /\ frameIncomplete \in BOOLEAN
    /\ frameDelivered \in BOOLEAN
    /\ frameNumber \in Nat
    /\ delivered \in Deliveries

AssemblerInit ==
    /\ fillBuf = BlankPicture
    /\ deliverBuf = BlankPicture
    /\ lastSeq = 0
    /\ lastTs = 0
    /\ hasPrevPacket = FALSE
    /\ frameIncomplete = FALSE
    /\ frameDelivered = FALSE
    /\ frameNumber = 0
    /\ delivered = NoDelivery
-----------------------------------------------------------------------------
\* Mutants of Gap: the difference is not reduced modulo 2^16; a packet whose
\* number is not above the expected one is no gap; the gap counts the packet
\* itself.
Gap_Signed(pkt) ==
    IF hasPrevPacket THEN pkt.seq - (lastSeq + 1) ELSE 0
Gap_NoWrap(pkt) ==
    IF hasPrevPacket /\ pkt.seq > lastSeq THEN pkt.seq - (lastSeq + 1) ELSE 0
Gap_OffByOne(pkt) ==
    IF hasPrevPacket /\ pkt.seq # (lastSeq + 1) % SeqMod
    THEN (pkt.seq - lastSeq) % SeqMod ELSE 0

\* The number of packets missing in front of pkt, in 16-bit arithmetic; a
\* packet from the past is a gap of almost 2^16.
Gap(pkt) ==
    IF hasPrevPacket THEN (pkt.seq - (lastSeq + 1)) % SeqMod ELSE 0

\* Mutant of IncompleteWith: a gap is counted but does not mark the frame.
IncompleteWith_Forgets(pkt) == frameIncomplete

\* frame_incomplete once the sequence number of pkt has been looked at.
IncompleteWith(pkt) == frameIncomplete \/ Gap(pkt) # 0

StartsNewFrame(pkt) == hasPrevPacket /\ pkt.ts # lastTs

\* Mutants of FlushesPrevious: a frame that was delivered by its marker is
\* delivered again; a frame without marker is never delivered.
FlushesPrevious_Redelivers(pkt) == StartsNewFrame(pkt) /\ ~pkt.marker
FlushesPrevious_Never(pkt) == FALSE

\* The packet shows that the marker of the previous frame was lost.
FlushesPrevious(pkt) ==
    StartsNewFrame(pkt) /\ ~frameDelivered /\ ~pkt.marker

\* Completed deliveries of one call; a packet never completes two frames.
FramesCompleted(pkt) ==
    IF pkt.readable /\ (FlushesPrevious(pkt) \/ pkt.marker) THEN 1 ELSE 0

Fill(buf, pkt) ==
    [s \in Slots |-> IF s \in pkt.slots THEN pkt.ts ELSE buf[s]]

RememberPacket(pkt) ==
    /\ lastSeq' = pkt.seq
    /\ lastTs' = pkt.ts
    /\ hasPrevPacket' = TRUE

\* deliver_frame: swap, call back; the caller sees to the cleared buffer.
DeliverFrame(picture, ts, incomplete) ==
    /\ deliverBuf' = picture
    /\ delivered' = [number |-> frameNumber, ts |-> ts,
                     incomplete |-> incomplete]
    /\ frameNumber' = frameNumber + 1
    /\ frameIncomplete' = FALSE
-----------------------------------------------------------------------------
\* The header cannot be parsed: no field of the assembler changes.
IgnorePacket(pkt) ==
    /\ ~pkt.readable
    /\ UNCHANGED assemblerVars

\* The previous frame is delivered, as incomplete, without its marker; the
\* packet is the first of a cleared buffer, and the gap it revealed is
\* charged to the frame that has gone.
FlushPrevious(pkt) ==
    /\ pkt.readable
    /\ FlushesPrevious(pkt)
    /\ DeliverFrame(fillBuf, lastTs, TRUE)
    /\ fillBuf' = Fill(BlankPicture, pkt)
    /\ frameDelivered' = FALSE
    /\ RememberPacket(pkt)

\* The packet only adds to the frame being filled.
AddToFrame(pkt) ==
    /\ pkt.readable
    /\ ~FlushesPrevious(pkt)
    /\ ~pkt.marker
    /\ fillBuf' = Fill(fillBuf, pkt)
    /\ frameIncomplete' = IncompleteWith(pkt)
    /\ frameDelivered' = (frameDelivered /\ ~StartsNewFrame(pkt))
    /\ RememberPacket(pkt)
    /\ UNCHANGED <<deliverBuf, frameNumber, delivered>>

\* The marker packet delivers whatever the fill buffer holds.  If it is also
\* the first packet of a new timestamp, an undelivered previous frame stays
\* in the buffer and is shown as part of this one.
CompleteFrame(pkt) ==
    /\ pkt.readable
    /\ pkt.marker
    /\ DeliverFrame(Fill(fillBuf, pkt), pkt.ts, IncompleteWith(pkt))
    /\ fillBuf' = BlankPicture
    /\ frameDelivered' = TRUE
    /\ RememberPacket(pkt)

\* rx_assembler_process_packet.
ProcessPacket(pkt) ==
    \/ IgnorePacket(pkt)
    \/ FlushPrevious(pkt)
    \/ AddToFrame(pkt)
    \/ CompleteFrame(pkt)
=============================================================================
