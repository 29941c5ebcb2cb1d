----------------------------- MODULE PacketWalk -----------------------------
(***************************************************************************)
(* The parser of one datagram (rx_rfc4175.c): parse_rtp_header, the skip   *)
(* over the extended sequence number, the loop that collects the segment   *)
(* headers and the loop that walks the payloads behind them.  Positions    *)
(* are byte offsets into the datagram, and what its header fields say is   *)
(* chosen when they are read.  FrameAssembler sees only the outcome.       *)
(***************************************************************************)
EXTENDS PictureLayout, Sequences

CONSTANTS PacketLengths,   \* lengths of datagrams
          CsrcCounts,      \* values of the CC field
          ExtensionWords,  \* values of the extension length field
          SegLengths, LineNumbers, PixelOffsets,  \* fields of a segment header
          MaxSegments      \* room for segment headers, 8 in the code

ASSUME FieldsAssumption ==
    /\ PacketLengths \subseteq Nat
    /\ CsrcCounts \subseteq 0 .. 15
    /\ ExtensionWords \subseteq Nat
    /\ SegLengths \subseteq Nat
    /\ LineNumbers \subseteq Nat
    /\ PixelOffsets \subseteq Nat
ASSUME MaxSegmentsAssumption == MaxSegments \in Nat

VARIABLES pc,        \* "rtp", "headers", "payloads", "done"
          length,    \* pkt_len
          payload,   \* where the segment headers begin
          p,         \* the read position
          segments,  \* the segment headers collected
          i,         \* the segment whose payload is next
          examined,  \* history: end of the furthest byte the parser has read
          copies     \* history: the copies into the fill buffer

vars == <<pc, length, payload, p, segments, i, examined, copies>>

SegmentHeaderSize == 6

Segment == [len : SegLengths, line : LineNumbers, offset : PixelOffsets]

TypeOK ==
    /\ pc \in {"rtp", "headers", "payloads", "done"}
    /\ length \in Nat
    /\ payload \in Nat
    /\ p \in Nat
    /\ segments \in Seq(Segment)
    /\ Len(segments) <= MaxSegments
    /\ i \in 1 .. Len(segments) + 1
    /\ examined \in Nat
    /\ copies \subseteq [segment : Nat, from : Nat, to : Nat, len : Nat]

Init ==
    /\ pc = "rtp"
    /\ length \in PacketLengths
    /\ payload = 0
    /\ p = 0
    /\ segments = <<>>
    /\ i = 1
    /\ examined = 0
    /\ copies = {}
-----------------------------------------------------------------------------
(* parse_rtp_header.                                                       *)

FixedHeaderSize(cc) == 12 + 4 * cc

ExtensionSize(extended, words) == IF extended THEN 4 + 4 * words ELSE 0

PayloadStart(cc, extended, words) ==
    FixedHeaderSize(cc) + ExtensionSize(extended, words)

\* Too short for an RTP header, or for the header of its extension.
TooShortForHeader(cc, extended) ==
    \/ length < 12
    \/ extended /\ length < FixedHeaderSize(cc) + 4

\* How far parse_rtp_header looks into the datagram: at its fixed fields, and
\* at the length of the extension.
HeaderBytes(cc, extended) ==
    IF length < 12 THEN 0
    ELSE IF extended /\ length >= FixedHeaderSize(cc) + 4
         THEN FixedHeaderSize(cc) + 4 ELSE 8

\* Nothing left for the two bytes of the extended sequence number.
NoPayload(cc, extended, words) ==
    length < PayloadStart(cc, extended, words) + 2

RejectPacket(cc, extended, words) ==
    /\ pc = "rtp"
    /\ TooShortForHeader(cc, extended) \/ NoPayload(cc, extended, words)
    /\ pc' = "done"
    /\ examined' = HeaderBytes(cc, extended)
    /\ UNCHANGED <<length, payload, p, segments, i, copies>>

AcceptPacket(cc, extended, words) ==
    /\ pc = "rtp"
    /\ ~TooShortForHeader(cc, extended)
    /\ ~NoPayload(cc, extended, words)
    /\ pc' = "headers"
    /\ payload' = PayloadStart(cc, extended, words) + 2
    /\ p' = payload'
    /\ examined' = HeaderBytes(cc, extended)
    /\ UNCHANGED <<length, segments, i, copies>>
-----------------------------------------------------------------------------
(* The segment headers, all in front of the payloads.                      *)

\* Mutants: the last header may end a byte behind the datagram; a header
\* more than there is room for is read.
NoMoreHeaders_CutOff ==
    \/ p + SegmentHeaderSize > length + 1
    \/ Len(segments) >= MaxSegments
NoMoreHeaders_NoRoom ==
    \/ p + SegmentHeaderSize > length
    \/ Len(segments) > MaxSegments

NoMoreHeaders ==
    \/ p + SegmentHeaderSize > length
    \/ Len(segments) >= MaxSegments

ReadSegmentHeader(segment, continuation) ==
    /\ pc = "headers"
    /\ ~NoMoreHeaders
    /\ segments' = Append(segments, segment)
    /\ p' = p + SegmentHeaderSize
    /\ examined' = p'
    /\ pc' = IF continuation THEN "headers" ELSE "payloads"
    /\ UNCHANGED <<length, payload, i, copies>>

\* The list is cut off or too long: none of its segments is used.
DropSegments ==
    /\ pc = "headers"
    /\ NoMoreHeaders
    /\ segments' = <<>>
    /\ pc' = "payloads"
    /\ UNCHANGED <<length, payload, p, i, examined, copies>>
-----------------------------------------------------------------------------
(* The payloads.                                                           *)

AtSegment == pc = "payloads" /\ i <= Len(segments)

\* Mutants: the payload of a segment on a line below the picture is not
\* passed over; such a segment is looked at again.
PassSegment_NotBelow ==
    /\ p' = p + (IF segments[i].line < Height THEN segments[i].len ELSE 0)
    /\ i' = i + 1
PassSegment_Again ==
    /\ p' = p + segments[i].len
    /\ i' = IF segments[i].line < Height THEN i + 1 ELSE i

\* p moves over the payload, and the loop goes on to the next segment.
PassSegment ==
    /\ p' = p + segments[i].len
    /\ i' = i + 1

\* A line below the picture: passed over without a look at the length.
SkipLine ==
    /\ AtSegment
    /\ segments[i].line >= Height
    /\ PassSegment
    /\ UNCHANGED <<pc, length, payload, segments, examined, copies>>

\* The payload is cut off: the rest of the packet is given up.
StopShort ==
    /\ AtSegment
    /\ segments[i].line < Height
    /\ p + segments[i].len > length
    /\ pc' = "done"
    /\ UNCHANGED <<length, payload, p, segments, i, examined, copies>>

SkipOutside ==
    /\ AtSegment
    /\ segments[i].line < Height
    /\ p + segments[i].len <= length
    /\ ~InPicture(segments[i])
    /\ PassSegment
    /\ UNCHANGED <<pc, length, payload, segments, examined, copies>>

CopySegment ==
    /\ AtSegment
    /\ segments[i].line < Height
    /\ p + segments[i].len <= length
    /\ InPicture(segments[i])
    /\ copies' = copies \cup
                    {[segment |-> i, from |-> p,
                      to |-> Destination(segments[i]),
                      len |-> segments[i].len]}
    /\ examined' = p + segments[i].len
    /\ PassSegment
    /\ UNCHANGED <<pc, length, payload, segments>>

LeaveWalk ==
    /\ pc = "payloads"
    /\ i > Len(segments)
    /\ pc' = "done"
    /\ UNCHANGED <<length, payload, p, segments, i, examined, copies>>

Next ==
    \/ \E cc \in CsrcCounts, extended \in BOOLEAN, words \in ExtensionWords :
           \/ RejectPacket(cc, extended, words)
           \/ AcceptPacket(cc, extended, words)
    \/ \E segment \in Segment, continuation \in BOOLEAN :
           ReadSegmentHeader(segment, continuation)
    \/ DropSegments
    \/ SkipLine
    \/ StopShort
    \/ SkipOutside
    \/ CopySegment
    \/ LeaveWalk

Spec == Init /\ [][Next]_vars /\ WF_vars(Next)
-----------------------------------------------------------------------------
\* The parser looks at bytes of the datagram only, and a copy stays inside
\* the datagram it reads and the buffer it fills.
StaysInBounds ==
    /\ examined <= length
    /\ \A copy \in copies :
           /\ copy.from + copy.len <= length
           /\ copy.to + copy.len <= BufSize

\* Where RFC 4175 puts the payload of the k-th segment: behind all headers
\* and behind the payload of the segment before it, used or not.
RfcStart[k \in 1 .. Len(segments) + 1] ==
    IF k = 1 THEN payload + SegmentHeaderSize * Len(segments)
             ELSE RfcStart[k - 1] + segments[k - 1].len

\* The line is in the picture, the payload in the datagram, and its place in
\* the buffer.
Usable(k) ==
    /\ segments[k].line < Height
    /\ RfcStart[k] + segments[k].len <= length
    /\ InPicture(segments[k])

RfcCopy(k) ==
    [segment |-> k,
     from    |-> RfcStart[k],
     to      |-> Destination(segments[k]),
     len     |-> segments[k].len]

\* When the walk is over, it has copied each usable segment from the place
\* where RFC 4175 puts it, and nothing else.
CopiesFollowTheLayout ==
    pc = "done" =>
        copies = {RfcCopy(k) : k \in {k \in DOMAIN segments : Usable(k)}}

\* The parser comes to the end of every datagram.
WalkEnds == <>(pc = "done")
=============================================================================
