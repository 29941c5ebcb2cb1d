----------------------------- MODULE TestSender -----------------------------
(***************************************************************************)
(* st2110tx-test.c: the test sender cuts a picture of colour bars into RTP *)
(* packets of one segment each and sends it again and again, leaving out   *)
(* some packets if it is told to (--drop-pct).  `picture' is what becomes  *)
(* of a frame where the segments are put as the sender's headers say, in   *)
(* the layout of the library's buffer.  The library reads the headers      *)
(* differently: see ReadAsWritten.                                         *)
(***************************************************************************)
EXTENDS PictureLayout, PixelGroups, Sequences

CONSTANTS Payload,      \* bytes in a UDP datagram: --mtu less 28
          SeqMod,       \* number of RTP sequence numbers, 2^16
          TsMod,        \* number of RTP timestamps, 2^32
          TsStep,       \* 90000 / --fps
          Count,        \* --count, the frames to send
          OffsetLimit,  \* number of offsets a segment header can hold, 2^15
          Drops,        \* whether --drop-pct is above 0
          SendFails,    \* whether sendto may fail
          Blank         \* a byte the receiver has not been sent

ASSUME GroupAssumption == PixelsPerGroup = 2 /\ PgroupSize = 5
ASSUME SizeAssumption ==
    /\ Width > 0 /\ Width % 2 = 0
    /\ Height \in 1 .. OffsetLimit
    /\ Payload \in Nat /\ Payload >= 12 + 6 + PgroupSize
\* parse_args does not look: a wider picture would run into the C bit.
ASSUME OffsetAssumption == OffsetLimit \in Nat /\ Width <= OffsetLimit
ASSUME NumbersAssumption ==
    /\ SeqMod \in Nat \ {0, 1}
    /\ TsMod \in Nat \ {0} /\ TsStep \in Nat
    /\ Count \in Nat \ {0}
ASSUME SwitchesAssumption == Drops \in BOOLEAN /\ SendFails \in BOOLEAN
ASSUME SenderBlankAssumption == Blank \notin Bytes

VARIABLES pc,           \* "setup", "send", "sent", "done", "failed"
          frameIndex, line, remaining, pixelOffset, seq, ts,
          packet,       \* history: the packet made last in this frame
          made,         \* history: number of packets made
          picture,      \* history: what the receiver has of this frame
          left          \* history: bytes of this frame that were left out

position == <<frameIndex, line, remaining, pixelOffset>>
vars == <<pc, position, seq, ts, packet, made, picture, left>>

Places == 0 .. BufSize - 1

NoPicture == [b \in Places |-> Blank]

Packet == [seq : 0 .. SeqMod - 1, ts : 0 .. TsMod - 1, marker : BOOLEAN,
           len : Nat, line : Nat, continues : BOOLEAN,
           offset : 0 .. OffsetLimit - 1, from : Nat]

NoPacket == [seq |-> -1]

\* Cb, Y and Cr of the eight bars.
Bars ==
    << <<512, 940, 512>>, <<64, 877, 553>>, <<671, 754, 159>>,
       <<223, 691, 200>>, <<800, 566, 824>>, <<352, 503, 865>>,
       <<960, 380, 471>>, <<512, 64, 512>> >>

\* The bar that group g of a line belongs to.
BarOf(g) ==
    LET groups == Width \div 2
        perBar == IF groups \div 8 = 0 THEN 1 ELSE groups \div 8
        bar    == g \div perBar
    IN  Bars[(IF bar > 7 THEN 7 ELSE bar) + 1]

\* generate_colorbars_be10.
Frame ==
    [b \in Places |->
        LET bar == BarOf((b % FillStride) \div PgroupSize)
        IN  PackGroup(bar[1], bar[2], bar[3], bar[2])
                [(b % PgroupSize) + 1]]

TypeOK ==
    /\ pc \in {"setup", "send", "sent", "done", "failed"}
    /\ frameIndex \in 0 .. Count
    /\ line \in 0 .. Height
    /\ remaining \in 0 .. FillStride
    /\ pixelOffset \in 0 .. Width
    /\ seq \in 0 .. SeqMod - 1
    /\ ts \in 0 .. TsMod - 1
    /\ packet \in Packet \cup {NoPacket}
    /\ made \in Nat
    /\ picture \in [Places -> Bytes \cup {Blank}]
    /\ left \subseteq Places

Init ==
    /\ pc = "setup"
    /\ frameIndex = 0 /\ line = 0
    /\ remaining = FillStride /\ pixelOffset = 0
    /\ seq = 1 % SeqMod /\ ts = 0
    /\ packet = NoPacket /\ made = 0
    /\ picture = NoPicture /\ left = {}
-----------------------------------------------------------------------------
\* Buffers, the socket and its options; all of it is released if a call fails.
SetUp ==
    /\ pc = "setup"
    /\ pc' \in {"send", "failed"}
    /\ UNCHANGED <<position, seq, ts, packet, made, picture, left>>

\* The bytes of a segment: whole pixel groups, as many as fit a datagram.
MaxSegment == ((Payload - 12 - 6) \div PgroupSize) * PgroupSize

SegmentLength == IF remaining > MaxSegment THEN MaxSegment ELSE remaining

Continues == remaining > SegmentLength

\* Mutant: every packet of the last line has the marker.
IsLastPacket_OfLastLine == line + 1 = Height

IsLastPacket == line + 1 = Height /\ ~Continues

\* `from' is where in the frame the payload is taken from.
MadePacket ==
    [seq       |-> seq,
     ts        |-> ts,
     marker    |-> IsLastPacket,
     len       |-> SegmentLength,
     line      |-> line,
     continues |-> Continues,
     offset    |-> pixelOffset % OffsetLimit,
     from      |-> line * FillStride + (FillStride - remaining)]

\* Mutants: the offset is advanced by groups, or by bytes, instead of pixels.
PixelsSent_Groups == SegmentLength \div 5
PixelsSent_Bytes == SegmentLength

PixelsSent == (SegmentLength \div 5) * 2

\* On to the rest of the line, or to the next line.
Advance ==
    /\ IF Continues
       THEN /\ remaining' = remaining - SegmentLength
            /\ pixelOffset' = (pixelOffset + PixelsSent) % (2 * OffsetLimit)
            /\ UNCHANGED line
       ELSE /\ line' = line + 1
            /\ remaining' = FillStride
            /\ pixelOffset' = 0
    /\ pc' = IF line' = Height THEN "sent" ELSE "send"
    /\ UNCHANGED frameIndex

\* The bytes of the packet, at their places in the receiver's picture.
Received ==
    [b \in Places |->
        LET k == b - Destination(MadePacket)
        IN  IF k \in 0 .. SegmentLength - 1
            THEN Frame[MadePacket.from + k] ELSE picture[b]]

\* Each packet takes a number, whether it is sent or left out.
MakePacket ==
    /\ pc = "send"
    /\ packet' = MadePacket
    /\ made' = made + 1
    /\ seq' = (seq + 1) % SeqMod
    /\ UNCHANGED ts

SendPacket ==
    /\ MakePacket
    /\ Advance
    /\ picture' = Received
    /\ UNCHANGED left

LeaveOut ==
    /\ Drops
    /\ MakePacket
    /\ Advance
    /\ left' = left \cup
           MadePacket.from .. MadePacket.from + SegmentLength - 1
    /\ UNCHANGED picture

SendtoFails ==
    /\ SendFails
    /\ MakePacket
    /\ pc' = "failed"
    /\ UNCHANGED <<position, picture, left>>

\* The end of the outer loop, and its condition.  The pause until the next
\* frame is due changes nothing.
NextFrame ==
    /\ pc = "sent"
    /\ frameIndex' = frameIndex + 1
    /\ ts' = (ts + TsStep) % TsMod
    /\ pc' = IF frameIndex' < Count THEN "send" ELSE "done"
    /\ line' = 0 /\ remaining' = FillStride /\ pixelOffset' = 0
    /\ packet' = NoPacket
    /\ picture' = NoPicture /\ left' = {}
    /\ UNCHANGED <<seq, made>>

Next ==
    \/ SetUp
    \/ SendPacket
    \/ LeaveOut
    \/ SendtoFails
    \/ NextFrame

Spec == Init /\ [][Next]_vars
-----------------------------------------------------------------------------
PacketsPerLine == (FillStride + MaxSegment - 1) \div MaxSegment

\* The sender the receiver's model assumes.
Contract == INSTANCE RtpVideo WITH
    PacketsPerFrame <- Height * PacketsPerLine,
    FirstSeq        <- 1

\* The test sender is such a sender as RtpVideo describes and FrameReception
\* relies on: it cuts every frame into the same number of packets, numbers
\* them without gaps, also over those it leaves out, gives the packets of a
\* frame one timestamp, and sets the marker on the last of them only.
KeepsTheContract ==
    packet # NoPacket =>
        LET n == made - 1
        IN  /\ packet.seq = Contract!SeqOf(n)
            /\ packet.ts = (Contract!FrameOf(n) * TsStep) % TsMod
            /\ packet.marker = Contract!IsLastOfFrame(n)
            /\ pc \in {"send", "sent"} =>
                   (pc = "sent" <=> Contract!IsLastOfFrame(n))

\* When a frame has been sent, the receiver has every byte of it in its place
\* and once only, except those of the packets that were left out.
FrameIsCutWithoutRemainder ==
    pc = "sent" =>
        picture = [b \in Places |-> IF b \in left THEN Blank ELSE Frame[b]]

\* Where every byte of a frame has come to its place, the conversion of the
\* library shows the bars the sender means, with eight of their ten bits.
ConversionShowsTheBars ==
    pc = "sent" /\ left = {} =>
        LET shown == ConvertBe10ToUyvy(
                         picture, FillStride,
                         [i \in 0 .. 2 * Width * Height - 1 |-> Blank],
                         2 * Width, Width, Height)
        IN  \A y \in 0 .. Height - 1, g \in 0 .. Width \div 2 - 1 :
                LET at  == y * 2 * Width + 4 * g
                    bar == BarOf(g)
                IN  /\ shown[at]     = bar[1] \div 4
                    /\ shown[at + 1] = bar[2] \div 4
                    /\ shown[at + 2] = bar[3] \div 4
                    /\ shown[at + 3] = bar[2] \div 4
-----------------------------------------------------------------------------
\* The first four 16-bit words behind the RTP header of packet p: the three
\* of the segment header, and one of the pixels.
PayloadWords(p) ==
    << p.len,
       p.line,
       p.offset + (IF p.continues THEN OffsetLimit ELSE 0),
       Frame[p.from] * 256 + Frame[p.from + 1] >>

\* The first segment header that rx_assembler_process_packet reads from these
\* words: it skips the first one, the extended sequence number.
SegmentRead(words) ==
    [len       |-> words[2],
     line      |-> words[3] % OffsetLimit,
     offset    |-> words[4] % OffsetLimit,
     continues |-> (words[4] \div OffsetLimit) % 2 = 1]

\* The receiver of this repository reads from each packet of the test sender
\* the one segment that is in it: its length, line and offset, and that no
\* other segment follows.
ReadAsWritten ==
    packet # NoPacket =>
        SegmentRead(PayloadWords(packet)) =
            [len |-> packet.len, line |-> packet.line,
             offset |-> packet.offset, continues |-> FALSE]
=============================================================================
