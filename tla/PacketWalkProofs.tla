-------------------------- MODULE PacketWalkProofs --------------------------
(***************************************************************************)
(* Theorems about PacketWalk, for every datagram, every value of its       *)
(* fields, every picture and any room for segment headers.                 *)
(***************************************************************************)
EXTENDS PacketWalk, WellFoundedInduction, TLAPS

LEMMA DivisionInNat ==
    ASSUME NEW d \in Nat \ {0}, NEW n \in Nat
    PROVE  n \div d \in Nat
OBVIOUS

\* The fields of a segment header are natural numbers, and so is the place in
\* the buffer they name.
LEMMA SegmentFields ==
    ASSUME NEW segment \in Segment
    PROVE  /\ segment.len \in Nat
           /\ segment.line \in Nat
           /\ Destination(segment) \in Nat
           /\ BufSize \in Nat
<1>1. segment.len \in Nat /\ segment.line \in Nat /\ segment.offset \in Nat
  BY FieldsAssumption DEF Segment
<1>2. /\ Width \div PixelsPerGroup \in Nat
      /\ segment.offset \div PixelsPerGroup \in Nat
  BY <1>1, DivisionInNat, GeometryAssumption
<1>3. FillStride \in Nat /\ ByteOffset(segment) \in Nat
  BY <1>2, GeometryAssumption DEF FillStride, ByteOffset
<1>4. segment.line * FillStride \in Nat /\ FillStride * Height \in Nat
  BY <1>1, <1>3, GeometryAssumption
<1> QED
  BY <1>1, <1>3, <1>4 DEF Destination, BufSize

\* Sizes computed from the RTP header.
LEMMA HeaderSizes ==
    ASSUME NEW cc \in CsrcCounts, NEW extended \in BOOLEAN,
           NEW words \in ExtensionWords, length \in Nat
    PROVE  /\ PayloadStart(cc, extended, words) \in Nat
           /\ HeaderBytes(cc, extended) \in Nat
           /\ HeaderBytes(cc, extended) <= length
<1>1. cc \in Nat /\ words \in Nat
  BY FieldsAssumption
<1> QED
  BY <1>1 DEF PayloadStart, HeaderBytes, FixedHeaderSize, ExtensionSize

\* The read position never decreases below a natural number, the list never
\* outgrows its room, and nothing outside the datagram or the buffer is
\* touched.  Before the walk begins, i is where a for loop starts.
WalkInvariant ==
    /\ TypeOK
    /\ pc \in {"rtp", "headers"} => i = 1
    /\ StaysInBounds

LEMMA StepKeepsWalkInvariant ==
    ASSUME WalkInvariant, [Next]_vars
    PROVE  WalkInvariant'
<1> USE DEF WalkInvariant
<1>1. /\ length \in Nat /\ payload \in Nat /\ p \in Nat /\ examined \in Nat
      /\ segments \in Seq(Segment) /\ Len(segments) <= MaxSegments
      /\ i \in 1 .. Len(segments) + 1
      /\ MaxSegments \in Nat /\ Len(segments) \in Nat
  BY MaxSegmentsAssumption DEF TypeOK
<1>2. ASSUME NEW cc \in CsrcCounts, NEW extended \in BOOLEAN,
             NEW words \in ExtensionWords, RejectPacket(cc, extended, words)
      PROVE  WalkInvariant'
  <2>1. /\ HeaderBytes(cc, extended) \in Nat
        /\ HeaderBytes(cc, extended) <= length
    BY <1>1, HeaderSizes
  <2> QED
    BY <1>2, <2>1 DEF RejectPacket, TypeOK, StaysInBounds
<1>3. ASSUME NEW cc \in CsrcCounts, NEW extended \in BOOLEAN,
             NEW words \in ExtensionWords, AcceptPacket(cc, extended, words)
      PROVE  WalkInvariant'
  <2>1. /\ PayloadStart(cc, extended, words) \in Nat
        /\ HeaderBytes(cc, extended) \in Nat
        /\ HeaderBytes(cc, extended) <= length
    BY <1>1, HeaderSizes
  <2> QED
    BY <1>3, <2>1 DEF AcceptPacket, TypeOK, StaysInBounds
<1>4. ASSUME NEW segment \in Segment, NEW continuation \in BOOLEAN,
             ReadSegmentHeader(segment, continuation)
      PROVE  WalkInvariant'
  <2>1. /\ segments' = Append(segments, segment)
        /\ p' = p + 6 /\ examined' = p + 6 /\ p + 6 <= length
        /\ Len(segments) < MaxSegments
        /\ i = 1 /\ i' = i
        /\ pc' \in {"headers", "payloads"}
        /\ UNCHANGED <<length, payload, copies>>
    BY <1>1, <1>4
       DEF ReadSegmentHeader, NoMoreHeaders, SegmentHeaderSize
  <2>2. /\ segments' \in Seq(Segment)
        /\ Len(segments') = Len(segments) + 1
    BY <1>1, <2>1
  <2>3. TypeOK'
    BY <1>1, <2>1, <2>2 DEF TypeOK
  <2>4. StaysInBounds'
    BY <1>1, <2>1 DEF StaysInBounds
  <2> QED
    BY <2>1, <2>3, <2>4
<1>5. CASE DropSegments
  <2>1. segments' = <<>> /\ Len(segments') = 0 /\ segments' \in Seq(Segment)
    BY <1>5 DEF DropSegments
  <2> QED
    BY <1>1, <1>5, <2>1 DEF DropSegments, TypeOK, StaysInBounds
<1>6. ASSUME AtSegment
      PROVE  /\ segments[i] \in Segment
             /\ segments[i].len \in Nat
             /\ Destination(segments[i]) \in Nat
             /\ BufSize \in Nat
             /\ p + segments[i].len \in Nat
             /\ i \in Nat /\ i + 1 \in 1 .. Len(segments) + 1
             /\ pc = "payloads"
  <2>1. i \in 1 .. Len(segments)
    BY <1>1, <1>6 DEF AtSegment
  <2>2. segments[i] \in Segment
    BY <1>1, <2>1
  <2> QED
    BY <1>1, <1>6, <2>1, <2>2, SegmentFields DEF AtSegment
<1>7. ASSUME SkipLine \/ SkipOutside PROVE WalkInvariant'
  <2>1. /\ AtSegment
        /\ p' = p + segments[i].len
        /\ i' = i + 1
        /\ UNCHANGED <<pc, length, payload, segments, examined, copies>>
    BY <1>7 DEF SkipLine, SkipOutside, PassSegment
  <2> QED
    BY <1>1, <1>6, <2>1 DEF TypeOK, StaysInBounds
<1>8. CASE StopShort \/ LeaveWalk
  BY <1>1, <1>8 DEF StopShort, LeaveWalk, TypeOK, StaysInBounds
<1>9. CASE CopySegment
  <2> DEFINE copy == [segment |-> i, from |-> p,
                      to |-> Destination(segments[i]),
                      len |-> segments[i].len]
  <2>1. /\ AtSegment
        /\ p + segments[i].len <= length
        /\ Destination(segments[i]) + segments[i].len <= BufSize
        /\ copies' = copies \cup {copy}
        /\ examined' = p + segments[i].len
        /\ p' = p + segments[i].len
        /\ i' = i + 1
        /\ UNCHANGED <<pc, length, payload, segments>>
    BY <1>9 DEF CopySegment, PassSegment, InPicture
  <2>2. copy \in [segment : Nat, from : Nat, to : Nat, len : Nat]
    BY <1>1, <1>6, <2>1
  <2>3. copy.from + copy.len <= length /\ copy.to + copy.len <= BufSize
    BY <2>1
  <2> HIDE DEF copy
  <2>4. TypeOK'
    BY <1>1, <1>6, <2>1, <2>2 DEF TypeOK
  <2>5. StaysInBounds'
    BY <2>1, <2>3 DEF StaysInBounds, BufSize, FillStride
  <2> QED
    BY <1>6, <2>1, <2>4, <2>5
<1>10. CASE UNCHANGED vars
  BY <1>10 DEF vars, TypeOK, StaysInBounds
<1> QED
  BY <1>2, <1>3, <1>4, <1>5, <1>7, <1>8, <1>9, <1>10 DEF Next

LEMMA WalkInvariance == Spec => []WalkInvariant
<1>1. Init => WalkInvariant
  BY MaxSegmentsAssumption, FieldsAssumption
     DEF Init, WalkInvariant, TypeOK, StaysInBounds
<1>2. WalkInvariant /\ [Next]_vars => WalkInvariant'
  BY StepKeepsWalkInvariant
<1> QED
  BY <1>1, <1>2, PTL DEF Spec

\* Whatever the header fields say, the parser of a datagram reads only the
\* datagram and writes only the fill buffer.
THEOREM ParserStaysInBounds == Spec => []StaysInBounds
<1>1. WalkInvariant => StaysInBounds
  BY DEF WalkInvariant
<1> QED
  BY <1>1, WalkInvariance, PTL

\* Every reachable state of the parser is well typed; in particular the list
\* of segment headers never outgrows its room.
THEOREM ParserTyping == Spec => []TypeOK
<1>1. WalkInvariant => TypeOK
  BY DEF WalkInvariant
<1> QED
  BY <1>1, WalkInvariance, PTL
-----------------------------------------------------------------------------
(* Where RFC 4175 puts the payloads.                                       *)

\* A set of numbers that is not empty has a least element.
LEMMA Least ==
    ASSUME NEW S \in SUBSET Nat, S # {}
    PROVE  \E low \in S : \A m \in S : low <= m
<1> DEFINE Less == OpToRel(<, Nat)
<1>1. IsWellFoundedOn(Less, Nat)
  BY NatLessThanWellFounded
<1>2. \A x \in Nat, y \in Nat : <<y, x>> \in Less <=> y < x
  BY DEF OpToRel
<1> HIDE DEF Less
<1>3. PICK x \in S : \A y \in S : ~(<<y, x>> \in Less)
  BY <1>1, WFMin
<1>4. x \in Nat /\ \A y \in S : y \in Nat /\ ~(y < x)
  BY <1>2, <1>3
<1>5. \A y \in S : x <= y
  BY <1>4
<1> QED
  BY <1>5

\* What holds of 0 and passes on to the next number below n holds of n.
LEMMA UpTo ==
    ASSUME NEW n \in Nat, NEW S \in SUBSET Nat, 0 \in S,
           \A k \in Nat : k < n /\ k \in S => k + 1 \in S
    PROVE  n \in S
<1> DEFINE Missing == {k \in 0 .. n : k \notin S}
<1>1. ASSUME n \notin S PROVE FALSE
  <2>1. n \in Missing /\ Missing \in SUBSET Nat
    BY <1>1
  <2>2. PICK low \in Missing : \A m \in Missing : low <= m
    BY <2>1, Least
  <2>3. low # 0 /\ low \in 1 .. n
    BY <2>2
  <2>4. low - 1 \in Nat /\ low - 1 < n /\ low - 1 \notin Missing
    BY <2>2, <2>3
  <2>5. low - 1 \in S
    BY <2>3, <2>4
  <2>6. (low - 1) + 1 \in S
    BY <2>4, <2>5
  <2>7. (low - 1) + 1 = low
    BY <2>3
  <2> QED
    BY <2>2, <2>6, <2>7
<1> QED
  BY <1>1

\* RfcStart, for a number n of segments.
IsStart(start, n) ==
    start = [k \in 1 .. n + 1 |->
                IF k = 1 THEN payload + SegmentHeaderSize * Len(segments)
                         ELSE start[k - 1] + segments[k - 1].len]

LEMMA SegmentLengths ==
    ASSUME TypeOK
    PROVE  /\ Len(segments) \in Nat
           /\ \A k \in 1 .. Len(segments) :
                  segments[k] \in Segment /\ segments[k].len \in Nat
           /\ payload + SegmentHeaderSize * Len(segments) \in Nat
<1>1. segments \in Seq(Segment) /\ payload \in Nat
  BY DEF TypeOK
<1>2. Len(segments) \in Nat
      /\ \A k \in 1 .. Len(segments) : segments[k] \in Segment
  BY <1>1
<1> QED
  BY <1>1, <1>2, SegmentFields DEF SegmentHeaderSize

\* There is a list of starts, as long as that of the segments.
LEMMA StartsExist ==
    ASSUME TypeOK
    PROVE  \E start \in [1 .. Len(segments) + 1 -> Nat] :
               IsStart(start, Len(segments))
<1> DEFINE base == payload + SegmentHeaderSize * Len(segments)
           N == Len(segments)
           Good == {n \in Nat : \E start \in [1 .. n + 1 -> Nat] :
                                    IsStart(start, n)}
<1>1. N \in Nat /\ base \in Nat
      /\ \A k \in 1 .. N : segments[k].len \in Nat
  BY SegmentLengths
<1>2. 0 \in Good
  <2> DEFINE start == [k \in 1 .. 1 |-> base]
  <2>1. start \in [1 .. 0 + 1 -> Nat] /\ IsStart(start, 0)
    BY <1>1 DEF IsStart
  <2> QED
    BY <2>1
<1>3. ASSUME NEW n \in Nat, n < N, n \in Good
      PROVE  n + 1 \in Good
  <2>1. PICK short \in [1 .. n + 1 -> Nat] : IsStart(short, n)
    BY <1>3
  <2> DEFINE start ==
        [k \in 1 .. n + 2 |-> IF k <= n + 1 THEN short[k]
                              ELSE short[n + 1] + segments[n + 1].len]
  <2>2. segments[n + 1].len \in Nat
    BY <1>1, <1>3
  <2>3. start \in [1 .. (n + 1) + 1 -> Nat]
    BY <2>2
  <2>4. ASSUME NEW k \in 1 .. n + 2
        PROVE  start[k] = IF k = 1 THEN base
                          ELSE start[k - 1] + segments[k - 1].len
    <3>1. CASE k = 1
      BY <2>1, <3>1 DEF IsStart
    <3>2. CASE k # 1 /\ k <= n + 1
      <4>1. k - 1 \in 1 .. n + 1 /\ k \in 1 .. n + 1
        BY <3>2
      <4>2. short[k] = short[k - 1] + segments[k - 1].len
        BY <2>1, <3>2, <4>1 DEF IsStart
      <4> QED
        BY <3>2, <4>1, <4>2
    <3>3. CASE k = n + 2
      <4>1. k - 1 = n + 1 /\ k # 1 /\ ~(k <= n + 1)
        BY <3>3
      <4> QED
        BY <4>1
    <3> QED
      BY <3>1, <3>2, <3>3
  <2>5. IsStart(start, n + 1)
    <3>1. (n + 1) + 1 = n + 2
      OBVIOUS
    <3>2. start = [k \in 1 .. n + 2 |->
                      IF k = 1 THEN base
                      ELSE start[k - 1] + segments[k - 1].len]
      BY <2>4
    <3> QED
      BY <3>1, <3>2 DEF IsStart
  <2> HIDE DEF start
  <2> QED
    BY <2>3, <2>5
<1> HIDE DEF Good
<1>4. N \in Good
  <2>1. Good \in SUBSET Nat
    BY DEF Good
  <2> QED
    BY <1>1, <1>2, <1>3, <2>1, UpTo
<1> QED
  BY <1>4 DEF Good

\* RfcStart is that list.
LEMMA Starts ==
    ASSUME TypeOK
    PROVE  /\ RfcStart \in [1 .. Len(segments) + 1 -> Nat]
           /\ RfcStart[1] = payload + SegmentHeaderSize * Len(segments)
           /\ \A k \in 1 .. Len(segments) :
                  RfcStart[k + 1] = RfcStart[k] + segments[k].len
<1> DEFINE N == Len(segments)
<1>1. PICK start \in [1 .. N + 1 -> Nat] : IsStart(start, N)
  BY StartsExist
<1>2. RfcStart = CHOOSE f : IsStart(f, N)
  BY DEF RfcStart, IsStart
<1>3. IsStart(RfcStart, N)
  BY <1>1, <1>2
<1>4. N \in Nat /\ payload + SegmentHeaderSize * Len(segments) \in Nat
      /\ \A k \in 1 .. N : segments[k].len \in Nat
  BY SegmentLengths
<1> HIDE DEF N
<1>5. RfcStart = [k \in 1 .. N + 1 |->
          IF k = 1 THEN payload + SegmentHeaderSize * Len(segments)
                   ELSE RfcStart[k - 1] + segments[k - 1].len]
  BY <1>3 DEF IsStart
<1>6. RfcStart[1] = payload + SegmentHeaderSize * Len(segments)
  <2>1. 1 \in 1 .. N + 1
    BY <1>4
  <2> QED
    BY <1>5, <2>1
<1>7. ASSUME NEW k \in 1 .. N
      PROVE  RfcStart[k + 1] = RfcStart[k] + segments[k].len
  <2>1. k + 1 \in 1 .. N + 1 /\ k + 1 # 1 /\ (k + 1) - 1 = k
    BY <1>4
  <2> QED
    BY <1>5, <2>1
<1>8. ASSUME NEW n \in 1 .. N + 1 PROVE RfcStart[n] \in Nat
  <2> DEFINE Good == {k \in Nat : k <= N => RfcStart[k + 1] \in Nat}
  <2>1. 0 \in Good
    BY <1>4, <1>6
  <2>2. ASSUME NEW k \in Nat, k < n - 1, k \in Good PROVE k + 1 \in Good
    <3>1. k + 1 \in 1 .. N
      BY <1>4, <2>2
    <3>2. RfcStart[(k + 1) + 1] = RfcStart[k + 1] + segments[k + 1].len
      BY <1>7, <3>1
    <3> QED
      BY <1>4, <2>2, <3>1, <3>2
  <2>3. Good \in SUBSET Nat
    OBVIOUS
  <2> HIDE DEF Good
  <2>4. n - 1 \in Good
    <3>1. n - 1 \in Nat
      BY <1>4
    <3> QED
      BY <2>1, <2>2, <2>3, <3>1, UpTo
  <2>5. RfcStart[(n - 1) + 1] \in Nat
    BY <1>4, <2>4 DEF Good
  <2>6. (n - 1) + 1 = n
    BY <1>4
  <2> QED
    BY <2>5, <2>6
<1>9. DOMAIN RfcStart = 1 .. N + 1
  BY <1>5
<1>10. RfcStart \in [1 .. N + 1 -> Nat]
  BY <1>5, <1>8, <1>9
<1> QED
  BY <1>6, <1>7, <1>10 DEF N

\* A later payload does not begin before an earlier one.
LEMMA StartsGrow ==
    ASSUME TypeOK, NEW j \in 1 .. Len(segments) + 1,
           NEW k \in 1 .. Len(segments) + 1, j <= k
    PROVE  RfcStart[j] <= RfcStart[k]
<1> DEFINE N == Len(segments)
           Good == {n \in Nat :
                       j + n <= N + 1 => RfcStart[j] <= RfcStart[j + n]}
<1>1. N \in Nat /\ RfcStart \in [1 .. N + 1 -> Nat]
      /\ \A n \in 1 .. N : /\ RfcStart[n + 1] = RfcStart[n] + segments[n].len
                           /\ segments[n].len \in Nat
  BY Starts, SegmentLengths
<1> HIDE DEF N
<1>2. j \in 1 .. N + 1 /\ k \in 1 .. N + 1 /\ k - j \in Nat
  BY <1>1 DEF N
<1>3. 0 \in Good
  <2>1. j + 0 = j /\ RfcStart[j] \in Nat
    BY <1>1, <1>2
  <2> QED
    BY <2>1
<1>4. ASSUME NEW n \in Nat, n < k - j, n \in Good PROVE n + 1 \in Good
  <2>1. j + n \in 1 .. N /\ j + (n + 1) = (j + n) + 1
    BY <1>1, <1>2, <1>4
  <2>2. RfcStart[(j + n) + 1] = RfcStart[j + n] + segments[j + n].len
        /\ segments[j + n].len \in Nat
    BY <1>1, <2>1
  <2>3. RfcStart[j] \in Nat /\ RfcStart[j + n] \in Nat
        /\ RfcStart[j] <= RfcStart[j + n]
    BY <1>1, <1>2, <1>4, <2>1
  <2>4. RfcStart[j] <= RfcStart[j + (n + 1)]
    BY <2>1, <2>2, <2>3
  <2> QED
    BY <2>4
<1>5. Good \in SUBSET Nat
  OBVIOUS
<1>6. k - j \in Good
  <2> HIDE DEF Good
  <2> QED
    BY <1>2, <1>3, <1>4, <1>5, UpTo
<1>7. j + (k - j) = k /\ k <= N + 1
  BY <1>1, <1>2
<1> QED
  BY <1>6, <1>7
-----------------------------------------------------------------------------
(* The walk over the payloads.                                             *)

\* The copies the walk owes for the segments in front of the n-th.
CopiesBefore(n) ==
    {RfcCopy(k) : k \in {k \in DOMAIN segments : k < n /\ Usable(k)}}

\* The walk is where the layout puts the next payload.  After a list that was
\* dropped it is elsewhere, but then there is no segment to copy.
LayoutInvariant ==
    /\ pc \in {"rtp", "headers"} => copies = {}
    /\ pc = "rtp" => segments = <<>>
    /\ pc = "headers" => p = payload + SegmentHeaderSize * Len(segments)
    /\ pc = "payloads" => copies = CopiesBefore(i)
    /\ pc = "payloads" /\ segments # <<>> => p = RfcStart[i]
    /\ CopiesFollowTheLayout

\* Nothing is owed in front of the first segment.
LEMMA NoneBeforeTheFirst ==
    ASSUME TypeOK
    PROVE  CopiesBefore(1) = {}
<1>1. \A k \in DOMAIN segments : ~(k < 1)
  BY DEF TypeOK
<1> QED
  BY <1>1 DEF CopiesBefore

\* One more is owed behind a usable segment, and none behind another.
LEMMA NextBefore ==
    ASSUME TypeOK, NEW n \in 1 .. Len(segments)
    PROVE  CopiesBefore(n + 1) =
               IF Usable(n) THEN CopiesBefore(n) \cup {RfcCopy(n)}
                            ELSE CopiesBefore(n)
<1>1. Len(segments) \in Nat /\ DOMAIN segments = 1 .. Len(segments)
  BY DEF TypeOK
<1>2. {k \in DOMAIN segments : k < n + 1 /\ Usable(k)} =
          IF Usable(n)
          THEN {k \in DOMAIN segments : k < n /\ Usable(k)} \cup {n}
          ELSE {k \in DOMAIN segments : k < n /\ Usable(k)}
  <2>1. \A k \in DOMAIN segments : k < n + 1 <=> k < n \/ k = n
    BY <1>1
  <2>2. ~(n < n)
    BY <1>1
  <2> QED
    BY <1>1, <2>1, <2>2
<1> QED
  BY <1>2 DEF CopiesBefore

\* The layout is fixed once the headers have been read.
LEMMA LayoutStays ==
    ASSUME UNCHANGED <<segments, payload, length>>
    PROVE  /\ RfcStart' = RfcStart
           /\ \A n : CopiesBefore(n)' = CopiesBefore(n)
           /\ {RfcCopy(k) : k \in {k \in DOMAIN segments : Usable(k)}}' =
                  {RfcCopy(k) : k \in {k \in DOMAIN segments : Usable(k)}}
<1>1. RfcStart' = RfcStart
  BY DEF RfcStart
<1>2. \A k : (Usable(k)' <=> Usable(k)) /\ RfcCopy(k)' = RfcCopy(k)
  BY <1>1 DEF Usable, RfcCopy, InPicture, Destination, ByteOffset,
              FillStride, BufSize
<1> QED
  BY <1>1, <1>2 DEF CopiesBefore

LEMMA PassStep ==
    ASSUME TypeOK, LayoutInvariant, AtSegment, PassSegment,
           UNCHANGED <<pc, length, payload, segments>>,
           copies' = IF Usable(i) THEN copies \cup {RfcCopy(i)} ELSE copies
    PROVE  LayoutInvariant'
<1>1. pc = "payloads" /\ i \in 1 .. Len(segments) /\ segments # <<>>
      /\ p' = p + segments[i].len /\ i' = i + 1
  BY DEF AtSegment, PassSegment, TypeOK
<1>2. copies = CopiesBefore(i) /\ p = RfcStart[i]
  BY <1>1 DEF LayoutInvariant
<1>3. PICK n : n = i + 1
  OBVIOUS
<1>4. copies' = CopiesBefore(n)
  BY <1>1, <1>2, <1>3, NextBefore
<1>5. p' = RfcStart[n]
  BY <1>1, <1>2, <1>3, Starts
<1>6. copies' = CopiesBefore(i)'
  <2>1. copies' = CopiesBefore(n)'
    BY <1>4, LayoutStays
  <2>2. i' = n
    BY <1>1, <1>3
  <2> QED
    BY <2>1, <2>2 DEF CopiesBefore
<1>7. p' = RfcStart'[i']
  BY <1>1, <1>3, <1>5, LayoutStays
<1> QED
  BY <1>1, <1>6, <1>7 DEF LayoutInvariant, CopiesFollowTheLayout

\* A segment that is passed over has no usable place.
LEMMA SkipStep ==
    ASSUME TypeOK, LayoutInvariant, SkipLine \/ SkipOutside
    PROVE  LayoutInvariant'
<1>1. AtSegment /\ PassSegment
      /\ UNCHANGED <<pc, length, payload, segments, copies>>
  BY DEF SkipLine, SkipOutside
<1>2. ~Usable(i)
  <2>1. i \in 1 .. Len(segments) /\ Height \in Nat
    BY <1>1, GeometryAssumption DEF AtSegment, TypeOK
  <2>2. segments[i].line \in Nat
    BY <2>1, SegmentFields DEF TypeOK
  <2>3. segments[i].line >= Height \/ ~InPicture(segments[i])
    BY DEF SkipLine, SkipOutside
  <2> QED
    BY <2>1, <2>2, <2>3 DEF Usable
<1> QED
  BY <1>1, <1>2, PassStep

LEMMA CopyStep ==
    ASSUME TypeOK, LayoutInvariant, CopySegment
    PROVE  LayoutInvariant'
<1>1. /\ AtSegment /\ PassSegment
      /\ segments[i].line < Height
      /\ p + segments[i].len <= length
      /\ InPicture(segments[i])
      /\ copies' = copies \cup
                      {[segment |-> i, from |-> p,
                        to |-> Destination(segments[i]),
                        len |-> segments[i].len]}
      /\ UNCHANGED <<pc, length, payload, segments>>
  BY DEF CopySegment
<1>2. p = RfcStart[i]
  <2>1. pc = "payloads" /\ i \in 1 .. Len(segments) /\ segments # <<>>
    BY <1>1 DEF AtSegment, TypeOK
  <2> QED
    BY <2>1 DEF LayoutInvariant
<1>3. Usable(i) /\ copies' = copies \cup {RfcCopy(i)}
  BY <1>1, <1>2 DEF Usable, RfcCopy
<1> QED
  BY <1>1, <1>3, PassStep

\* Where one payload is cut off, those behind it are, too.
LEMMA StopStep ==
    ASSUME TypeOK, LayoutInvariant, StopShort
    PROVE  LayoutInvariant'
<1>1. /\ AtSegment /\ p + segments[i].len > length
      /\ pc' = "done"
      /\ UNCHANGED <<length, payload, segments, copies>>
  BY DEF StopShort
<1>2. i \in 1 .. Len(segments) /\ segments # <<>> /\ pc = "payloads"
      /\ length \in Nat
  BY <1>1 DEF AtSegment, TypeOK
<1>3. copies = CopiesBefore(i) /\ p = RfcStart[i]
  BY <1>2 DEF LayoutInvariant
<1>4. ASSUME NEW k \in DOMAIN segments, Usable(k)
      PROVE  k < i
  <2>1. k \in 1 .. Len(segments) /\ Len(segments) \in Nat
    BY DEF TypeOK
  <2>2. RfcStart[k] + segments[k].len <= length
    BY <1>4 DEF Usable
  <2>3. ASSUME i <= k PROVE RfcStart[i] + segments[i].len <= length
    <3>1. CASE i = k
      BY <2>2, <3>1
    <3>2. CASE i < k
      <4>1. RfcStart[i + 1] <= RfcStart[k]
        <5>1. i + 1 \in 1 .. Len(segments) + 1
              /\ k \in 1 .. Len(segments) + 1 /\ i + 1 <= k
          BY <1>2, <2>1, <3>2
        <5> QED
          BY <5>1, StartsGrow
      <4>2. RfcStart[i + 1] = RfcStart[i] + segments[i].len
        BY <1>2, Starts
      <4>3. RfcStart[k] \in Nat /\ segments[k].len \in Nat
            /\ RfcStart[i] \in Nat /\ segments[i].len \in Nat
        BY <1>2, <2>1, Starts, SegmentLengths
      <4> QED
        BY <1>2, <2>2, <4>1, <4>2, <4>3
    <3> QED
      BY <1>2, <2>1, <2>3, <3>1, <3>2
  <2>4. RfcStart[i] \in Nat /\ segments[i].len \in Nat
    <3>1. i \in 1 .. Len(segments) + 1
      BY <1>2, <2>1
    <3>2. RfcStart \in [1 .. Len(segments) + 1 -> Nat]
      BY Starts
    <3> QED
      BY <1>2, <3>1, <3>2, SegmentLengths
  <2> QED
    BY <1>1, <1>2, <1>3, <2>1, <2>3, <2>4
<1>5. copies = {RfcCopy(k) : k \in {k \in DOMAIN segments : Usable(k)}}
  BY <1>3, <1>4 DEF CopiesBefore
<1>6. CopiesFollowTheLayout'
  BY <1>1, <1>5, LayoutStays DEF CopiesFollowTheLayout
<1> QED
  BY <1>1, <1>6 DEF LayoutInvariant

LEMMA LeaveStep ==
    ASSUME TypeOK, LayoutInvariant, LeaveWalk
    PROVE  LayoutInvariant'
<1>1. pc = "payloads" /\ i > Len(segments) /\ pc' = "done"
      /\ UNCHANGED <<length, payload, segments, copies>>
  BY DEF LeaveWalk
<1>2. \A k \in DOMAIN segments : k < i
  BY <1>1 DEF TypeOK
<1>3. copies = {RfcCopy(k) : k \in {k \in DOMAIN segments : Usable(k)}}
  BY <1>1, <1>2 DEF LayoutInvariant, CopiesBefore
<1>4. CopiesFollowTheLayout'
  BY <1>1, <1>3, LayoutStays DEF CopiesFollowTheLayout
<1> QED
  BY <1>1, <1>4 DEF LayoutInvariant

\* The first start, after a step that leaves the list in order.
LEMMA FirstStartAfter ==
    (TypeOK =>
        RfcStart[1] = payload + SegmentHeaderSize * Len(segments))'
<1>1. TypeOK =>
          RfcStart[1] = payload + SegmentHeaderSize * Len(segments)
  BY Starts
<1> QED
  BY <1>1, PTL

\* The list of headers ends, used or dropped, where the first payload begins.
LEMMA HeadersStep ==
    ASSUME WalkInvariant, WalkInvariant', LayoutInvariant,
           DropSegments \/ \E segment \in Segment, continuation \in BOOLEAN :
                               ReadSegmentHeader(segment, continuation)
    PROVE  LayoutInvariant'
<1>1. pc = "headers" /\ i = 1 /\ i' = i /\ copies = {} /\ copies' = {}
      /\ pc' \in {"headers", "payloads"} /\ UNCHANGED payload
  BY DEF DropSegments, ReadSegmentHeader, WalkInvariant, LayoutInvariant
<1>2. copies' = CopiesBefore(i)'
  <2>1. CopiesBefore(1)' = {}
    <3>1. TypeOK'
      BY DEF WalkInvariant
    <3>2. \A k \in DOMAIN segments' : ~(k < 1)
      BY <3>1 DEF TypeOK
    <3> QED
      BY <3>2 DEF CopiesBefore
  <2> QED
    BY <1>1, <2>1 DEF CopiesBefore
<1>3. segments' # <<>> =>
          p' = payload' + SegmentHeaderSize * Len(segments')
  <2>1. CASE DropSegments
    BY <2>1 DEF DropSegments
  <2>2. ASSUME NEW segment \in Segment, NEW continuation \in BOOLEAN,
               ReadSegmentHeader(segment, continuation)
        PROVE  p' = payload' + SegmentHeaderSize * Len(segments')
    <3>1. segments' = Append(segments, segment) /\ p' = p + 6
          /\ p = payload + 6 * Len(segments)
      BY <1>1, <2>2 DEF ReadSegmentHeader, LayoutInvariant,
                        SegmentHeaderSize
    <3>2. Len(segments') = Len(segments) + 1 /\ Len(segments) \in Nat
          /\ payload \in Nat
      BY <3>1 DEF WalkInvariant, TypeOK
    <3> QED
      BY <1>1, <3>1, <3>2 DEF SegmentHeaderSize
  <2> QED
    BY <2>1, <2>2
<1>4. pc' = "headers" => p' = payload' + SegmentHeaderSize * Len(segments')
  <2>1. ASSUME pc' = "headers" PROVE segments' # <<>>
    <3>1. PICK segment \in Segment : segments' = Append(segments, segment)
      BY <2>1 DEF DropSegments, ReadSegmentHeader
    <3>2. Append(segments, segment) # <<>>
      BY DEF WalkInvariant, TypeOK
    <3> QED
      BY <3>1, <3>2
  <2> QED
    BY <1>3, <2>1
<1>5. RfcStart'[1] = payload' + SegmentHeaderSize * Len(segments')
  BY FirstStartAfter DEF WalkInvariant
<1> QED
  BY <1>1, <1>2, <1>3, <1>4, <1>5
     DEF LayoutInvariant, CopiesFollowTheLayout

LEMMA LayoutStep ==
    ASSUME WalkInvariant, WalkInvariant', LayoutInvariant, [Next]_vars
    PROVE  LayoutInvariant'
<1>1. TypeOK
  BY DEF WalkInvariant
<1>2. ASSUME NEW cc \in CsrcCounts, NEW extended \in BOOLEAN,
             NEW words \in ExtensionWords, RejectPacket(cc, extended, words)
      PROVE  LayoutInvariant'
  <2>1. pc' = "done" /\ copies' = {} /\ segments' = <<>>
    BY <1>2 DEF RejectPacket, LayoutInvariant
  <2>2. {k \in DOMAIN segments' : Usable(k)'} = {}
    BY <2>1
  <2>3. CopiesFollowTheLayout'
    BY <2>1, <2>2 DEF CopiesFollowTheLayout
  <2> QED
    BY <2>1, <2>3 DEF LayoutInvariant
<1>3. ASSUME NEW cc \in CsrcCounts, NEW extended \in BOOLEAN,
             NEW words \in ExtensionWords, AcceptPacket(cc, extended, words)
      PROVE  LayoutInvariant'
  <2>1. pc' = "headers" /\ copies' = {} /\ segments' = <<>>
        /\ p' = payload' /\ payload' = PayloadStart(cc, extended, words) + 2
    BY <1>3 DEF AcceptPacket, LayoutInvariant
  <2>2. payload' \in Nat
    BY DEF WalkInvariant, TypeOK
  <2>3. p' = payload' + SegmentHeaderSize * Len(segments')
    <3>1. Len(segments') = 0
      BY <2>1
    <3> QED
      BY <2>1, <2>2, <3>1 DEF SegmentHeaderSize
  <2> QED
    BY <2>1, <2>3 DEF LayoutInvariant, CopiesFollowTheLayout
<1>4. CASE UNCHANGED vars
  <2>1. UNCHANGED <<pc, length, payload, p, segments, i, copies>>
    BY <1>4 DEF vars
  <2>2. CopiesBefore(i)' = CopiesBefore(i)
    <3>1. PICK n : n = i
      OBVIOUS
    <3>2. CopiesBefore(n)' = CopiesBefore(n)
      BY <2>1, LayoutStays
    <3> QED
      BY <2>1, <3>1, <3>2 DEF CopiesBefore
  <2> QED
    BY <2>1, <2>2, LayoutStays DEF LayoutInvariant, CopiesFollowTheLayout
<1> QED
  BY <1>1, <1>2, <1>3, <1>4, HeadersStep, SkipStep, StopStep, CopyStep,
     LeaveStep DEF Next

\* However many segments a datagram has, of whatever lengths: each that is
\* usable is copied from where RFC 4175 puts it, the one behind a segment that
\* was passed over too, and nothing else is copied.
THEOREM CopiesTheLayout == Spec => []CopiesFollowTheLayout
<1>1. Init => LayoutInvariant
  BY DEF Init, LayoutInvariant, CopiesFollowTheLayout
<1>2. WalkInvariant /\ WalkInvariant' /\ LayoutInvariant /\ [Next]_vars
          => LayoutInvariant'
  BY LayoutStep
<1>3. LayoutInvariant => CopiesFollowTheLayout
  BY DEF LayoutInvariant
<1> QED
  BY <1>1, <1>2, <1>3, WalkInvariance, PTL DEF Spec
=============================================================================
