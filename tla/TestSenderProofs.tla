-------------------------- MODULE TestSenderProofs --------------------------
(***************************************************************************)
(* Theorems about the pixel groups, for every group and not only for those *)
(* of the eight bars, and about TestSender, for every picture, datagram    *)
(* size and number of frames, with or without packets left out and calls   *)
(* that fail.                                                              *)
(***************************************************************************)
EXTENDS TestSender, TLAPS

\* A packed group consists of bytes: no bit of a sample spills into the next
\* field when pack_group cuts the samples up.
THEOREM PackedIntoBytes ==
    ASSUME NEW cb \in Samples, NEW y0 \in Samples,
           NEW cr \in Samples, NEW y1 \in Samples
    PROVE  PackGroup(cb, y0, cr, y1) \in
               Bytes \X Bytes \X Bytes \X Bytes \X Bytes
<1>1. cb \div 4 \in Bytes
  BY SMT DEF Samples, Bytes
<1>2. (cb % 4) * 64 + y0 \div 16 \in Bytes
  BY SMT DEF Samples, Bytes
<1>3. (y0 % 16) * 16 + cr \div 64 \in Bytes
  BY SMT DEF Samples, Bytes
<1>4. (cr % 64) * 4 + y1 \div 256 \in Bytes
  BY SMT DEF Samples, Bytes
<1>5. y1 % 256 \in Bytes
  BY SMT DEF Samples, Bytes
<1>6. QED
  BY <1>1, <1>2, <1>3, <1>4, <1>5 DEF PackGroup

\* The receiver's unpacking is the inverse of the sender's packing: every
\* sample of every group comes back with all of its ten bits.
THEOREM UnpackInvertsPack ==
    ASSUME NEW cb \in Samples, NEW y0 \in Samples,
           NEW cr \in Samples, NEW y1 \in Samples
    PROVE  UnpackGroup(PackGroup(cb, y0, cr, y1)) = <<cb, y0, cr, y1>>
<1>1. (cb \div 4) * 4 + ((cb % 4) * 64 + y0 \div 16) \div 64 = cb
  BY SMT DEF Samples
<1>2. (((cb % 4) * 64 + y0 \div 16) % 64) * 16
          + ((y0 % 16) * 16 + cr \div 64) \div 16 = y0
  BY SMT DEF Samples
<1>3. (((y0 % 16) * 16 + cr \div 64) % 16) * 64
          + ((cr % 64) * 4 + y1 \div 256) \div 4 = cr
  BY SMT DEF Samples
<1>4. (((cr % 64) * 4 + y1 \div 256) % 4) * 256 + (y1 % 256) = y1
  BY SMT DEF Samples
<1>5. QED
  BY <1>1, <1>2, <1>3, <1>4 DEF UnpackGroup, PackGroup
-----------------------------------------------------------------------------
(* Arithmetic for divisors the provers see only as symbols.                *)

LEMMA Division ==
    ASSUME NEW d \in Nat \ {0}, NEW n \in Int
    PROVE  /\ n \div d \in Int
           /\ n % d \in 0 .. d - 1
           /\ n = d * (n \div d) + (n % d)
OBVIOUS

LEMMA Growth ==
    ASSUME NEW d \in Nat, NEW a \in Nat, NEW b \in Nat, a <= b
    PROVE  a * d \in Nat /\ b * d \in Nat /\ a * d <= b * d
<1>1. PICK e \in Nat : b = a + e
  <2>1. b - a \in Nat /\ b = a + (b - a)
    OBVIOUS
  <2> QED
    BY <2>1
<1>2. b * d = a * d + e * d
  BY <1>1
<1>3. a * d \in Nat /\ e * d \in Nat /\ b * d \in Nat
  BY <1>1
<1> QED
  BY <1>2, <1>3

\* Quotient and remainder are what they are written as.
LEMMA Quotient ==
    ASSUME NEW d \in Nat \ {0}, NEW q \in Nat, NEW r \in 0 .. d - 1
    PROVE  (q * d + r) \div d = q /\ (q * d + r) % d = r
<1> DEFINE n == q * d + r
           p == n \div d
           s == n % d
<1>1. q * d \in Nat /\ n \in Nat
  OBVIOUS
<1>2. p \in Int /\ s \in 0 .. d - 1 /\ n = d * p + s
  BY <1>1, Division
<1>3. p \in Nat
  BY <1>1
<1> HIDE DEF p, s
<1>4. ~(p < q)
  <2>1. ASSUME p < q PROVE FALSE
    <3>1. (p + 1) * d <= q * d
      BY <1>3, <2>1, Growth
    <3>2. (p + 1) * d = p * d + d /\ p * d = d * p
      BY <1>3
    <3>3. d * p \in Nat
      BY <1>3
    <3> QED
      BY <1>1, <1>2, <3>1, <3>2, <3>3
  <2> QED
    BY <2>1
<1>5. ~(q < p)
  <2>1. ASSUME q < p PROVE FALSE
    <3>1. (q + 1) * d <= p * d
      BY <1>3, <2>1, Growth
    <3>2. (q + 1) * d = q * d + d /\ p * d = d * p
      BY <1>3
    <3>3. d * p \in Nat
      BY <1>3
    <3> QED
      BY <1>1, <1>2, <3>1, <3>2, <3>3
  <2> QED
    BY <2>1
<1>6. p = q
  BY <1>3, <1>4, <1>5
<1>7. s = r
  <2>1. d * p = q * d
    BY <1>6
  <2> QED
    BY <1>1, <1>2, <2>1
<1> QED
  BY <1>6, <1>7 DEF p, s

LEMMA PlaceInGrid ==
    ASSUME NEW d \in Nat \ {0}, NEW q \in Nat, NEW r \in 0 .. d - 1,
           NEW n, n = q * d + r
    PROVE  n \div d = q /\ n % d = r
BY Quotient

\* A sum is reduced at once or term by term.
LEMMA SumReduced ==
    ASSUME NEW m \in Nat \ {0}, NEW a \in Nat, NEW b \in Nat
    PROVE  ((a % m) + b) % m = (a + b) % m
<1> DEFINE q == a \div m
           r == a % m
           p == (r + b) \div m
           s == (r + b) % m
<1>1. q \in Nat /\ r \in 0 .. m - 1 /\ a = m * q + r
  <2>1. q \in Nat
    OBVIOUS
  <2> QED
    BY <2>1, Division
<1>2. p \in Nat /\ s \in 0 .. m - 1 /\ r + b = m * p + s
  <2>1. r + b \in Nat
    BY <1>1
  <2>2. p \in Nat
    BY <2>1
  <2> QED
    BY <2>1, <2>2, Division
<1> HIDE DEF q, r, p, s
<1>3. a + b = (q + p) * m + s
  <2>1. (q + p) * m = m * q + m * p
    BY <1>1, <1>2
  <2>2. m * q \in Nat /\ m * p \in Nat
    BY <1>1, <1>2
  <2> QED
    BY <1>1, <1>2, <2>1, <2>2
<1>4. (a + b) % m = s
  <2>1. q + p \in Nat
    BY <1>1, <1>2
  <2>2. ((q + p) * m + s) % m = s
    BY <1>2, <2>1, Quotient
  <2> QED
    BY <1>3, <2>2
<1> QED
  BY <1>4 DEF s, r
-----------------------------------------------------------------------------
(* The sizes of a line and of a segment.                                   *)

Groups == Width \div 2

GroupsPerSegment == (Payload - 12 - 6) \div PgroupSize

PacketsPerFrame == Height * PacketsPerLine

LEMMA Sizes ==
    /\ PixelsPerGroup = 2 /\ PgroupSize = 5
    /\ Groups \in Nat \ {0} /\ Width = 2 * Groups /\ Width <= OffsetLimit
    /\ OffsetLimit \in Nat \ {0} /\ Height \in Nat \ {0}
    /\ FillStride = 5 * Groups /\ FillStride \in Nat \ {0}
    /\ GroupsPerSegment \in Nat \ {0}
    /\ MaxSegment = 5 * GroupsPerSegment /\ MaxSegment \in Nat \ {0}
<1>1. PixelsPerGroup = 2 /\ PgroupSize = 5
  BY GroupAssumption
<1>2. Groups \in Nat \ {0} /\ Width = 2 * Groups
  BY SizeAssumption, GeometryAssumption DEF Groups
<1>3. OffsetLimit \in Nat \ {0} /\ Width <= OffsetLimit
      /\ Height \in Nat \ {0}
  BY SizeAssumption, OffsetAssumption, GeometryAssumption
<1>4. FillStride = 5 * Groups
  BY <1>1, <1>2 DEF FillStride, Groups
<1>5. GroupsPerSegment \in Nat \ {0}
  BY <1>1, SizeAssumption DEF GroupsPerSegment
<1>6. MaxSegment = 5 * GroupsPerSegment
  BY <1>1, <1>5 DEF MaxSegment, GroupsPerSegment
<1> QED
  BY <1>1, <1>2, <1>3, <1>4, <1>5, <1>6

\* As many packets as a line needs, and not one more.
LEMMA LineNeeds ==
    /\ PacketsPerLine \in Nat \ {0}
    /\ (PacketsPerLine - 1) * MaxSegment < FillStride
    /\ FillStride <= PacketsPerLine * MaxSegment
    /\ PacketsPerFrame \in Nat \ {0}
<1> DEFINE S == FillStride
           X == MaxSegment
           L == PacketsPerLine
<1>1. S \in Nat \ {0} /\ X \in Nat \ {0} /\ Height \in Nat \ {0}
  BY Sizes
<1>2. L = (S + X - 1) \div X
  BY DEF PacketsPerLine
<1> HIDE DEF S, X, L
<1>3. L \in Nat /\ X * L <= S + X - 1 /\ S - 1 < X * L
  <2>1. S + X - 1 \in Nat
    BY <1>1
  <2>2. L \in Nat
    BY <1>1, <1>2, <2>1
  <2>3. /\ (S + X - 1) % X \in 0 .. X - 1
        /\ S + X - 1 = X * L + ((S + X - 1) % X)
    BY <1>1, <1>2, <2>1, Division
  <2>4. X * L \in Nat
    BY <1>1, <2>2
  <2> QED
    BY <1>1, <2>2, <2>3, <2>4
<1>4. L # 0
  <2>1. L = 0 => X * L = 0
    BY <1>1
  <2> QED
    BY <1>1, <1>3, <2>1
<1>5. (L - 1) * X = X * L - X /\ L * X = X * L /\ X * L \in Nat
  BY <1>1, <1>3
<1>6. Height * L \in Nat \ {0}
  <2>1. 1 * L <= Height * L /\ Height * L \in Nat
    BY <1>1, <1>3, Growth
  <2> QED
    BY <1>3, <1>4, <2>1
<1> QED
  BY <1>1, <1>3, <1>4, <1>5, <1>6 DEF S, X, L, PacketsPerFrame

\* After j packets of a line.
InLine(j) ==
    /\ remaining = FillStride - j * MaxSegment
    /\ pixelOffset = 2 * (GroupsPerSegment * j)

LEMMA NextSegment ==
    ASSUME NEW j \in 0 .. PacketsPerLine - 1, InLine(j)
    PROVE  /\ remaining \in 1 .. FillStride
           /\ SegmentLength \in 1 .. remaining
           /\ Continues <=> j # PacketsPerLine - 1
           /\ ~Continues => SegmentLength = remaining
           /\ Continues => SegmentLength = MaxSegment
           /\ Continues => remaining - SegmentLength =
                              FillStride - (j + 1) * MaxSegment
<1> DEFINE S == FillStride
           X == MaxSegment
           L == PacketsPerLine
           r == remaining
<1>1. S \in Nat \ {0} /\ X \in Nat \ {0} /\ L \in Nat \ {0}
      /\ (L - 1) * X < S /\ S <= L * X
  BY Sizes, LineNeeds
<1>2. r = S - j * X /\ j \in 0 .. L - 1
  BY DEF InLine
<1>3. SegmentLength = (IF r > X THEN X ELSE r)
  BY DEF SegmentLength
<1>4. Continues <=> r > SegmentLength
  BY DEF Continues
<1> HIDE DEF S, X, L, r
<1>5. j * X \in Nat /\ j * X <= (L - 1) * X /\ (L - 1) * X \in Nat
  <2>1. j \in Nat /\ L - 1 \in Nat /\ j <= L - 1
    BY <1>1, <1>2
  <2> QED
    BY <1>1, <2>1, Growth
<1>6. r \in 1 .. S
  BY <1>1, <1>2, <1>5
<1>7. (j + 1) * X = j * X + X
  BY <1>1, <1>2
<1>8. CASE j = L - 1
  <2>1. S <= j * X + X
    <3>1. (j + 1) * X = L * X
      BY <1>1, <1>8
    <3> QED
      BY <1>1, <1>7, <3>1
  <2>2. ~(r > X)
    BY <1>1, <1>2, <1>5, <2>1
  <2> QED
    BY <1>3, <1>4, <1>6, <1>8, <2>2 DEF S, X, L, r
<1>9. CASE j # L - 1
  <2>1. j + 1 \in Nat /\ L - 1 \in Nat /\ j + 1 <= L - 1
    BY <1>1, <1>2, <1>9
  <2>2. (j + 1) * X <= (L - 1) * X
    BY <1>1, <2>1, Growth
  <2>3. r > X
    BY <1>1, <1>2, <1>5, <1>7, <2>2
  <2>4. r - X = S - (j + 1) * X
    BY <1>1, <1>2, <1>5, <1>7
  <2> QED
    BY <1>1, <1>3, <1>4, <1>6, <1>9, <2>3, <2>4 DEF S, X, L, r
<1> QED
  BY <1>8, <1>9

\* An offset within a line, for the positions before and after a step.
LEMMA OffsetInLine ==
    ASSUME NEW j \in 0 .. PacketsPerLine - 1
    PROVE  2 * (GroupsPerSegment * j) \in 0 .. Width - 1
<1> DEFINE G == Groups
           M == GroupsPerSegment
           L == PacketsPerLine
           sent == M * j
<1>1. G \in Nat \ {0} /\ M \in Nat \ {0} /\ Width = 2 * G
      /\ FillStride = 5 * G /\ MaxSegment = 5 * M
  BY Sizes
<1>2. L \in Nat \ {0} /\ (L - 1) * MaxSegment < FillStride
  BY LineNeeds
<1>3. j \in Nat /\ j <= L - 1 /\ sent \in Nat
  BY <1>1, <1>2
<1>4. j * (5 * M) <= (L - 1) * (5 * M)
  BY <1>1, <1>2, <1>3, Growth
<1>5. j * (5 * M) = 5 * sent
  BY <1>1, <1>3
<1>6. (L - 1) * (5 * M) < 5 * G
  BY <1>1, <1>2
<1> HIDE DEF G, M, L, sent
<1>7. (L - 1) * (5 * M) \in Int
  BY <1>1, <1>2
<1>8. sent < G
  BY <1>1, <1>3, <1>4, <1>5, <1>6, <1>7
<1> QED
  BY <1>1, <1>3, <1>8 DEF G, M, L, sent

\* The offset is that of the pixels sent: it fits a segment header, does not
\* wrap around where it is advanced, and leads to the bytes cut.
LEMMA NextOffset ==
    ASSUME NEW j \in 0 .. PacketsPerLine - 1, InLine(j)
    PROVE  /\ pixelOffset \in 0 .. Width - 1
           /\ pixelOffset % OffsetLimit = pixelOffset
           /\ (pixelOffset \div 2) * 5 = FillStride - remaining
           /\ Continues => (pixelOffset + PixelsSent) % (2 * OffsetLimit) =
                               2 * (GroupsPerSegment * (j + 1))
<1> DEFINE G == Groups
           M == GroupsPerSegment
           O == OffsetLimit
           sent == M * j
<1>1. G \in Nat \ {0} /\ M \in Nat \ {0} /\ O \in Nat \ {0}
      /\ Width = 2 * G /\ 2 * G <= O
      /\ FillStride = 5 * G /\ MaxSegment = 5 * M
  BY Sizes
<1>2. j \in Nat /\ sent \in Nat
  BY <1>1, LineNeeds
<1>3. j * MaxSegment = 5 * sent
  BY <1>1, <1>2
<1>4. pixelOffset = 2 * sent /\ remaining = 5 * G - 5 * sent
  BY <1>1, <1>3 DEF InLine
<1>5. remaining \in 1 .. FillStride
      /\ (Continues => SegmentLength = MaxSegment
                       /\ SegmentLength < remaining)
  BY NextSegment DEF Continues
<1>6. M * (j + 1) = sent + M
  BY <1>1, <1>2
<1> HIDE DEF G, M, O, sent
<1>7. sent < G
  BY <1>1, <1>2, <1>4, <1>5
<1>8. pixelOffset \in 0 .. 2 * G - 1 /\ (pixelOffset \div 2) * 5 = 5 * sent
  BY <1>1, <1>2, <1>4, <1>7
<1>9. pixelOffset % O = pixelOffset
  <2>1. pixelOffset \in 0 .. O - 1
    BY <1>1, <1>8
  <2>2. (0 * O + pixelOffset) % O = pixelOffset
    BY <1>1, <2>1, Quotient
  <2> QED
    BY <1>1, <1>8, <2>2
<1>10. ASSUME Continues
       PROVE  (pixelOffset + PixelsSent) % (2 * O) = 2 * (sent + M)
  <2>1. 5 * M < 5 * G - 5 * sent
    BY <1>1, <1>4, <1>5, <1>10
  <2>2. PixelsSent = 2 * M
    BY <1>1, <1>5, <1>10 DEF PixelsSent
  <2>3. pixelOffset + PixelsSent = 2 * (sent + M)
        /\ 2 * (sent + M) \in 0 .. 2 * O - 1
    BY <1>1, <1>2, <1>4, <2>1, <2>2
  <2>4. (0 * (2 * O) + 2 * (sent + M)) % (2 * O) = 2 * (sent + M)
    <3>1. 2 * O \in Nat \ {0}
      BY <1>1
    <3> QED
      BY <2>3, <3>1, Quotient
  <2> QED
    BY <1>1, <2>3, <2>4
<1> QED
  BY <1>1, <1>4, <1>6, <1>8, <1>9, <1>10 DEF G, M, O, sent

\* Packet j of line y of frame f, in the stream of all packets.
LEMMA Numbering ==
    ASSUME NEW f \in Nat, NEW y \in 0 .. Height - 1,
           NEW j \in 0 .. PacketsPerLine - 1, NEW n,
           n = f * PacketsPerFrame + y * PacketsPerLine + j
    PROVE  /\ n \in Nat
           /\ Contract!FrameOf(n) = f
           /\ Contract!IsLastOfFrame(n) <=>
                  y + 1 = Height /\ j = PacketsPerLine - 1
<1> DEFINE L == PacketsPerLine
           P == PacketsPerFrame
           r == y * L + j
<1>1. L \in Nat \ {0} /\ P \in Nat \ {0} /\ P = Height * L
      /\ Height \in Nat \ {0}
  BY LineNeeds, Sizes DEF PacketsPerFrame
<1>2. y \in Nat /\ j \in Nat /\ j <= L - 1 /\ y + 1 <= Height
  BY <1>1
<1>3. y * L \in Nat /\ (y + 1) * L = y * L + L
  BY <1>1, <1>2
<1>4. (y + 1) * L <= P
  <2>1. (y + 1) * L <= Height * L
    BY <1>1, <1>2, Growth
  <2> QED
    BY <1>1, <2>1
<1>5. r \in 0 .. P - 1
  BY <1>1, <1>2, <1>3, <1>4
<1>6. r = P - 1 <=> y + 1 = Height /\ j = L - 1
  <2>1. CASE y + 1 = Height
    <3>1. (y + 1) * L = P
      BY <1>1, <2>1
    <3> QED
      BY <1>1, <1>2, <1>3, <2>1, <3>1
  <2>2. CASE y + 1 # Height
    <3>1. (y + 2) * L <= Height * L
      <4>1. y + 2 \in Nat /\ y + 2 <= Height
        BY <1>1, <1>2, <2>2
      <4> QED
        BY <1>1, <4>1, Growth
    <3>2. (y + 2) * L = y * L + L + L
      BY <1>1, <1>2
    <3> QED
      BY <1>1, <1>2, <1>3, <2>2, <3>1, <3>2
  <2> QED
    BY <2>1, <2>2
<1>7. f * P \in Nat
  BY <1>1
<1>8. n = f * P + r /\ n \in Nat
  BY <1>2, <1>3, <1>7
<1>9. n \div P = f /\ n % P = r
  <2> HIDE DEF r
  <2>1. (f * P + r) \div P = f /\ (f * P + r) % P = r
    BY <1>1, <1>5, Quotient
  <2> QED
    BY <1>8, <2>1
<1>10. Contract!FrameOf(n) = n \div P
  BY DEF Contract!FrameOf, PacketsPerFrame
<1>11. Contract!IsLastOfFrame(n) <=> n % P = P - 1
  BY DEF Contract!IsLastOfFrame, Contract!SlotOf, PacketsPerFrame
<1> QED
  BY <1>6, <1>8, <1>9, <1>10, <1>11
-----------------------------------------------------------------------------
(* The picture.                                                            *)

\* Every bar is one of the eight, and its samples have ten bits.
LEMMA BarsAreSamples ==
    ASSUME NEW g \in Nat
    PROVE  BarOf(g)[1] \in Samples /\ BarOf(g)[2] \in Samples
           /\ BarOf(g)[3] \in Samples
<1> DEFINE perBar == IF Groups \div 8 = 0 THEN 1 ELSE Groups \div 8
           bar == g \div perBar
           i == (IF bar > 7 THEN 7 ELSE bar) + 1
<1>1. perBar \in Nat \ {0}
  BY Sizes
<1>2. bar \in Nat
  BY <1>1
<1>3. BarOf(g) = Bars[i]
  BY DEF BarOf, Groups
<1>4. i \in 1 .. 8
  BY <1>2
<1> HIDE DEF i
<1>5. Bars[i][1] \in Samples /\ Bars[i][2] \in Samples
      /\ Bars[i][3] \in Samples
  BY <1>4 DEF Bars, Samples
<1> QED
  BY <1>3, <1>5

LEMMA FrameIsBytes == Frame \in [Places -> Bytes]
<1>1. ASSUME NEW b \in Places
      PROVE  Frame[b] \in Bytes
  <2> DEFINE g == (b % FillStride) \div PgroupSize
             bar == BarOf(g)
             k == (b % PgroupSize) + 1
             packed == PackGroup(bar[1], bar[2], bar[3], bar[2])
  <2>1. FillStride \in Nat \ {0} /\ PgroupSize = 5 /\ b \in Int
    BY Sizes DEF Places
  <2>2. b % FillStride \in Nat
    BY <2>1, Division
  <2>3. g \in Nat /\ k \in 1 .. 5
    BY <2>1, <2>2
  <2>4. bar[1] \in Samples /\ bar[2] \in Samples /\ bar[3] \in Samples
    BY <2>3, BarsAreSamples
  <2>5. Frame[b] = packed[k]
    BY DEF Frame
  <2> HIDE DEF g, bar, k
  <2>6. packed \in Bytes \X Bytes \X Bytes \X Bytes \X Bytes
    BY <2>4, PackedIntoBytes
  <2> HIDE DEF packed
  <2>7. packed[k] \in Bytes
    BY <2>3, <2>6
  <2> QED
    BY <2>5, <2>7
<1>2. Frame = [b \in Places |-> Frame[b]]
  BY DEF Frame
<1> QED
  BY <1>1, <1>2

\* The bytes cut from the current frame so far.
BytesCut == line * FillStride + (FillStride - remaining)

\* The receiver has the frame up to there, without what was left out.
PictureUpTo(cut) ==
    /\ left \subseteq 0 .. cut - 1
    /\ picture = [b \in Places |-> IF b < cut /\ b \notin left
                                   THEN Frame[b] ELSE Blank]

\* A packet says where its bytes are from and where they belong, which is the
\* same place; the bytes of the next packet follow.
LEMMA Cut ==
    ASSUME line \in 0 .. Height - 1,
           NEW j \in 0 .. PacketsPerLine - 1, InLine(j)
    PROVE  /\ BytesCut \in Nat
           /\ MadePacket.from = BytesCut
           /\ Destination(MadePacket) = BytesCut
           /\ BytesCut + SegmentLength <= BufSize
           /\ ~Continues =>
                  BytesCut + SegmentLength = (line + 1) * FillStride
<1>1. FillStride \in Nat \ {0} /\ Height \in Nat \ {0}
      /\ PixelsPerGroup = 2 /\ PgroupSize = 5
  BY Sizes
<1>2. remaining \in 1 .. FillStride /\ SegmentLength \in 1 .. remaining
      /\ (~Continues => SegmentLength = remaining)
  BY NextSegment
<1>3. line \in Nat /\ line + 1 <= Height
  BY <1>1
<1>4. line * FillStride \in Nat
      /\ (line + 1) * FillStride = line * FillStride + FillStride
  BY <1>1, <1>3
<1>5. (line + 1) * FillStride <= FillStride * Height
  <2>1. (line + 1) * FillStride <= Height * FillStride
    BY <1>1, <1>3, Growth
  <2> QED
    BY <1>1, <2>1
<1>6. MadePacket.from = BytesCut /\ MadePacket.line = line
      /\ MadePacket.offset = pixelOffset % OffsetLimit
  BY DEF MadePacket, BytesCut
<1>7. ByteOffset(MadePacket) = FillStride - remaining
  BY <1>1, <1>6, NextOffset DEF ByteOffset
<1>8. Destination(MadePacket) = BytesCut
  BY <1>6, <1>7 DEF Destination, BytesCut
<1> QED
  BY <1>1, <1>2, <1>4, <1>5, <1>6, <1>8 DEF BytesCut, BufSize

\* The picture grows by the packet that is sent ...
LEMMA SentPicture ==
    ASSUME line \in 0 .. Height - 1,
           NEW j \in 0 .. PacketsPerLine - 1, InLine(j),
           PictureUpTo(BytesCut),
           NEW next, next = BytesCut + SegmentLength
    PROVE  /\ left \subseteq 0 .. next - 1
           /\ Received = [b \in Places |-> IF b < next /\ b \notin left
                                           THEN Frame[b] ELSE Blank]
<1> DEFINE cut == BytesCut
<1>1. cut \in Nat /\ Destination(MadePacket) = cut /\ MadePacket.from = cut
  BY Cut
<1>2. SegmentLength \in Nat \ {0}
  BY NextSegment
<1>3. left \subseteq 0 .. cut - 1
      /\ picture = [b \in Places |-> IF b < cut /\ b \notin left
                                     THEN Frame[b] ELSE Blank]
  BY DEF PictureUpTo
<1> HIDE DEF cut
<1>4. ASSUME NEW b \in Places
      PROVE  (LET k == b - Destination(MadePacket)
              IN  IF k \in 0 .. SegmentLength - 1
                  THEN Frame[MadePacket.from + k] ELSE picture[b]) =
             IF b < next /\ b \notin left THEN Frame[b] ELSE Blank
  <2>1. b \in Int
    BY DEF Places
  <2>2. CASE b - cut \in 0 .. SegmentLength - 1
    <3>1. cut + (b - cut) = b /\ b < next /\ b \notin left
      BY <1>1, <1>2, <1>3, <2>1, <2>2 DEF cut
    <3> QED
      BY <1>1, <2>2, <3>1
  <2>3. CASE b - cut \notin 0 .. SegmentLength - 1
    <3>1. b < next <=> b < cut
      BY <1>1, <1>2, <2>1, <2>3 DEF cut
    <3> QED
      BY <1>1, <1>3, <2>3, <3>1
  <2> QED
    BY <2>2, <2>3
<1>5. left \subseteq 0 .. next - 1
  BY <1>1, <1>2, <1>3 DEF cut
<1> QED
  BY <1>4, <1>5 DEF Received

\* ... and lacks the one that is left out.
LEMMA LeftOutPicture ==
    ASSUME line \in 0 .. Height - 1,
           NEW j \in 0 .. PacketsPerLine - 1, InLine(j),
           PictureUpTo(BytesCut),
           NEW next, next = BytesCut + SegmentLength,
           NEW without,
           without = left \cup
               MadePacket.from .. MadePacket.from + SegmentLength - 1
    PROVE  /\ without \subseteq 0 .. next - 1
           /\ without \subseteq left \cup Places
           /\ picture = [b \in Places |-> IF b < next /\ b \notin without
                                          THEN Frame[b] ELSE Blank]
<1> DEFINE cut == BytesCut
<1>1. cut \in Nat /\ MadePacket.from = cut /\ next <= BufSize
  BY Cut
<1>2. SegmentLength \in Nat \ {0}
  BY NextSegment
<1>3. left \subseteq 0 .. cut - 1
      /\ picture = [b \in Places |-> IF b < cut /\ b \notin left
                                     THEN Frame[b] ELSE Blank]
  BY DEF PictureUpTo
<1>4. next = cut + SegmentLength /\ without = left \cup cut .. next - 1
  <2>1. next = cut + SegmentLength
    OBVIOUS
  <2>2. cut + SegmentLength - 1 = next - 1
    BY <1>1, <1>2, <2>1
  <2> QED
    BY <1>1, <2>1, <2>2
<1> HIDE DEF cut
<1>5. ASSUME NEW b \in Places
      PROVE  b < next /\ b \notin without <=> b < cut /\ b \notin left
  <2>1. b \in Int
    BY DEF Places
  <2> QED
    BY <1>1, <1>2, <1>4, <2>1
<1>6. without \subseteq 0 .. next - 1
  BY <1>1, <1>2, <1>3, <1>4
<1>7. cut .. next - 1 \subseteq Places
  <2>1. BufSize \in Int
    BY Sizes DEF BufSize
  <2> QED
    BY <1>1, <1>2, <1>4, <2>1 DEF Places
<1> QED
  BY <1>3, <1>4, <1>5, <1>6, <1>7
-----------------------------------------------------------------------------
(* The inductive invariant.                                                *)

\* A packet is due: which one, and what the receiver has of the frame.
Sending ==
    /\ frameIndex < Count /\ line < Height
    /\ \E j \in 0 .. PacketsPerLine - 1 :
           /\ InLine(j)
           /\ made = frameIndex * PacketsPerFrame + line * PacketsPerLine + j
    /\ PictureUpTo(BytesCut)

\* All packets of a frame have been made.
FrameSent ==
    /\ frameIndex < Count
    /\ made = (frameIndex + 1) * PacketsPerFrame
    /\ PictureUpTo(BufSize)

SenderInvariant ==
    /\ TypeOK
    /\ seq = (1 + made) % SeqMod
    /\ ts = (frameIndex * TsStep) % TsMod
    /\ pc = "setup" => packet = NoPacket
    /\ pc \in {"setup", "send"} => Sending
    /\ pc = "sent" => FrameSent
    /\ KeepsTheContract

LEMMA SenderConstants ==
    /\ SeqMod \in Nat \ {0} /\ TsMod \in Nat \ {0} /\ TsStep \in Nat
    /\ Count \in Nat \ {0}
    /\ FillStride \in Nat \ {0} /\ Height \in Nat \ {0}
    /\ OffsetLimit \in Nat \ {0} /\ Width \in Nat \ {0}
    /\ PacketsPerLine \in Nat \ {0} /\ PacketsPerFrame \in Nat \ {0}
    /\ BufSize \in Nat
<1>1. FillStride * Height \in Nat
  BY Sizes
<1> QED
  BY <1>1, Sizes, LineNeeds, NumbersAssumption DEF BufSize

LEMMA SenderInitially == Init => SenderInvariant
<1> SUFFICES ASSUME Init PROVE SenderInvariant
  OBVIOUS
<1>1. /\ pc = "setup" /\ frameIndex = 0 /\ line = 0
      /\ remaining = FillStride /\ pixelOffset = 0
      /\ seq = 1 % SeqMod /\ ts = 0 /\ packet = NoPacket /\ made = 0
      /\ picture = NoPicture /\ left = {}
  BY DEF Init
<1>2. seq \in 0 .. SeqMod - 1 /\ seq = (1 + made) % SeqMod
  BY <1>1, SenderConstants, Division
<1>3. ts \in 0 .. TsMod - 1 /\ ts = (frameIndex * TsStep) % TsMod
  <2>1. frameIndex * TsStep = 0
    BY <1>1, SenderConstants
  <2>2. (0 * TsMod + 0) % TsMod = 0
    BY SenderConstants, Quotient
  <2> QED
    BY <1>1, <2>1, <2>2, SenderConstants
<1>4. BytesCut = 0
  BY <1>1, SenderConstants DEF BytesCut
<1>5. PictureUpTo(BytesCut)
  <2>1. \A b \in Places : ~(b < 0)
    BY SenderConstants DEF Places
  <2>2. NoPicture = [b \in Places |-> IF b < 0 /\ b \notin left
                                      THEN Frame[b] ELSE Blank]
    BY <2>1 DEF NoPicture
  <2> QED
    BY <1>1, <1>4, <2>2 DEF PictureUpTo
<1>6. 0 \in 0 .. PacketsPerLine - 1 /\ InLine(0)
      /\ made = frameIndex * PacketsPerFrame + line * PacketsPerLine + 0
  <2>1. 0 * MaxSegment = 0 /\ GroupsPerSegment * 0 = 0
    BY Sizes
  <2> QED
    BY <1>1, <2>1, SenderConstants DEF InLine
<1>7. Sending
  BY <1>1, <1>5, <1>6, SenderConstants DEF Sending
<1>8. picture \in [Places -> Bytes \cup {Blank}]
  BY <1>1 DEF NoPicture
<1> QED
  BY <1>1, <1>2, <1>3, <1>7, <1>8, SenderConstants
     DEF SenderInvariant, TypeOK, KeepsTheContract

\* What the making of a packet establishes, whether or not it is then sent.
LEMMA MakeStep ==
    ASSUME SenderInvariant, MakePacket, UNCHANGED frameIndex,
           NEW j \in 0 .. PacketsPerLine - 1, InLine(j),
           made = frameIndex * PacketsPerFrame + line * PacketsPerLine + j,
           pc' \in {"send", "sent"} =>
               (pc' = "sent" <=> line + 1 = Height /\ ~Continues)
    PROVE  /\ made' \in Nat /\ made' = made + 1
           /\ seq' \in 0 .. SeqMod - 1 /\ seq' = (1 + made') % SeqMod
           /\ packet' \in Packet
           /\ KeepsTheContract'
           /\ UNCHANGED ts
<1>1. pc = "send" /\ packet' = MadePacket /\ made' = made + 1
      /\ seq' = (seq + 1) % SeqMod /\ UNCHANGED ts
  BY DEF MakePacket
<1>2. made \in Nat /\ seq = (1 + made) % SeqMod /\ seq \in 0 .. SeqMod - 1
      /\ ts \in 0 .. TsMod - 1 /\ ts = (frameIndex * TsStep) % TsMod
      /\ frameIndex \in Nat /\ line \in 0 .. Height - 1
  BY <1>1, SenderConstants DEF SenderInvariant, TypeOK, Sending
<1>3. seq' = (1 + made') % SeqMod
  <2>1. 1 + made \in Nat
    BY <1>2
  <2>2. (((1 + made) % SeqMod) + 1) % SeqMod = (1 + made + 1) % SeqMod
    BY <2>1, SenderConstants, SumReduced
  <2>3. 1 + made + 1 = 1 + made'
    BY <1>1, <1>2
  <2> QED
    BY <1>1, <1>2, <2>2, <2>3
<1>4. seq' \in 0 .. SeqMod - 1
  <2>1. 1 + made' \in Int
    BY <1>1, <1>2
  <2> QED
    BY <1>3, <2>1, SenderConstants, Division
<1>5. packet'.seq = seq /\ packet'.ts = ts /\ packet'.marker = IsLastPacket
  BY <1>1 DEF MadePacket
<1>6. Continues <=> j # PacketsPerLine - 1
  BY NextSegment
<1>7. Contract!FrameOf(made) = frameIndex
      /\ (Contract!IsLastOfFrame(made) <=>
              line + 1 = Height /\ j = PacketsPerLine - 1)
  BY <1>2, Numbering
<1>8. packet'.marker = Contract!IsLastOfFrame(made)
  <2>1. IsLastPacket <=> Contract!IsLastOfFrame(made)
    BY <1>6, <1>7 DEF IsLastPacket
  <2>2. IsLastPacket \in BOOLEAN /\ Contract!IsLastOfFrame(made) \in BOOLEAN
    BY DEF IsLastPacket, Contract!IsLastOfFrame
  <2> QED
    BY <1>5, <2>1, <2>2
<1>9. Contract!SeqOf(made) = seq
  BY <1>2 DEF Contract!SeqOf
<1>10. KeepsTheContract'
  <2>1. made' - 1 = made
    BY <1>1, <1>2
  <2>2. pc' \in {"send", "sent"} =>
            (pc' = "sent" <=> Contract!IsLastOfFrame(made))
    BY <1>6, <1>7
  <2>3. packet'.ts = (Contract!FrameOf(made) * TsStep) % TsMod
    BY <1>2, <1>5, <1>7
  <2> QED
    BY <1>5, <1>8, <1>9, <2>1, <2>2, <2>3 DEF KeepsTheContract
<1>11. packet' \in Packet
  <2>1. SegmentLength \in Nat
    BY NextSegment
  <2>2. pixelOffset % OffsetLimit \in 0 .. OffsetLimit - 1
    <3>1. pixelOffset \in Int
      BY DEF SenderInvariant, TypeOK
    <3> QED
      BY <3>1, SenderConstants, Division
  <2>3. BytesCut \in Nat /\ MadePacket.from = BytesCut
    BY <1>2, Cut
  <2>4. line * FillStride + (FillStride - remaining) \in Nat
    BY <2>3 DEF BytesCut
  <2>5. IsLastPacket \in BOOLEAN /\ Continues \in BOOLEAN
    BY DEF IsLastPacket, Continues
  <2> QED
    BY <1>1, <1>2, <2>1, <2>2, <2>4, <2>5 DEF MadePacket, Packet
<1> QED
  BY <1>1, <1>2, <1>3, <1>4, <1>10, <1>11

\* Advance goes on to the next packet of the line, to the next line, or to the
\* end of the frame.
LEMMA AdvanceStep ==
    ASSUME SenderInvariant, pc = "send", Advance, made' = made + 1,
           NEW j \in 0 .. PacketsPerLine - 1, InLine(j),
           made = frameIndex * PacketsPerFrame + line * PacketsPerLine + j
    PROVE  /\ UNCHANGED frameIndex
           /\ line' \in 0 .. Height /\ remaining' \in 0 .. FillStride
           /\ pixelOffset' \in 0 .. Width
           /\ pc' \in {"send", "sent"}
           /\ pc' = "sent" <=> line + 1 = Height /\ ~Continues
           /\ pc' = "send" =>
                  /\ line' < Height
                  /\ BytesCut' = BytesCut + SegmentLength
                  /\ \E i \in 0 .. PacketsPerLine - 1 :
                        /\ InLine(i)'
                        /\ made' = frameIndex * PacketsPerFrame
                                       + line' * PacketsPerLine + i
           /\ pc' = "sent" =>
                  /\ made' = (frameIndex + 1) * PacketsPerFrame
                  /\ BytesCut + SegmentLength = BufSize
<1>1. line \in 0 .. Height - 1 /\ frameIndex \in Nat /\ made \in Nat
  BY SenderConstants DEF SenderInvariant, TypeOK, Sending
<1>2. UNCHANGED frameIndex
      /\ pc' = IF line' = Height THEN "sent" ELSE "send"
  BY DEF Advance
<1>3. remaining \in 1 .. FillStride /\ SegmentLength \in 1 .. remaining
      /\ (Continues <=> j # PacketsPerLine - 1)
  BY NextSegment
<1>4. BytesCut \in Nat /\ FillStride \in Nat /\ line * FillStride \in Nat
      /\ (line + 1) * FillStride \in Nat
  BY <1>1, Cut, SenderConstants
<1>5. CASE Continues
  <2>1. remaining' = remaining - SegmentLength /\ UNCHANGED line
        /\ pixelOffset' = (pixelOffset + PixelsSent) % (2 * OffsetLimit)
    BY <1>5 DEF Advance
  <2>2. InLine(j + 1)'
    <3>1. remaining' = FillStride - (j + 1) * MaxSegment
      BY <1>5, <2>1, NextSegment
    <3>2. pixelOffset' = 2 * (GroupsPerSegment * (j + 1))
      BY <1>5, <2>1, NextOffset
    <3> QED
      BY <3>1, <3>2 DEF InLine
  <2>3. j + 1 \in 0 .. PacketsPerLine - 1
    BY <1>3, <1>5, SenderConstants
  <2>4. remaining' \in 0 .. FillStride
    <3>1. remaining - SegmentLength \in 0 .. FillStride
      BY <1>3, <1>4
    <3> QED
      BY <2>1, <3>1
  <2>5. pixelOffset' \in 0 .. Width
    <3>1. PICK i : i = j + 1
      OBVIOUS
    <3>2. i \in 0 .. PacketsPerLine - 1 /\ InLine(i)'
      BY <2>2, <2>3, <3>1 DEF InLine
    <3>3. pixelOffset' \in 0 .. Width - 1
      BY <3>2, OffsetInLine DEF InLine
    <3> QED
      BY <3>3, SenderConstants
  <2>6. pc' = "send" /\ line' < Height
    BY <1>1, <1>2, <2>1, SenderConstants
  <2>7. BytesCut' = BytesCut + SegmentLength
    BY <1>3, <1>4, <2>1 DEF BytesCut
  <2>8. made' = frameIndex * PacketsPerFrame + line' * PacketsPerLine
                    + (j + 1)
    <3>1. frameIndex * PacketsPerFrame \in Nat
          /\ line * PacketsPerLine \in Nat
      BY <1>1, SenderConstants
    <3> QED
      BY <2>1, <3>1
  <2>9. \E i \in 0 .. PacketsPerLine - 1 :
            /\ InLine(i)'
            /\ made' = frameIndex * PacketsPerFrame
                           + line' * PacketsPerLine + i
    BY <2>2, <2>3, <2>8 DEF InLine
  <2> QED
    BY <1>1, <1>2, <1>5, <2>1, <2>4, <2>5, <2>6, <2>7, <2>9,
       SenderConstants
<1>6. CASE ~Continues
  <2>1. line' = line + 1 /\ remaining' = FillStride /\ pixelOffset' = 0
    BY <1>6 DEF Advance
  <2>2. SegmentLength = remaining /\ j = PacketsPerLine - 1
        /\ BytesCut + SegmentLength = (line + 1) * FillStride
    BY <1>1, <1>3, <1>6, NextSegment, Cut
  <2>3. made' = frameIndex * PacketsPerFrame + (line + 1) * PacketsPerLine
    <3>1. (line + 1) * PacketsPerLine = line * PacketsPerLine
                                            + PacketsPerLine
      BY <1>1, SenderConstants
    <3>2. frameIndex * PacketsPerFrame \in Nat
          /\ line * PacketsPerLine \in Nat
      BY <1>1, SenderConstants
    <3> QED
      BY <2>2, <3>1, <3>2, SenderConstants
  <2>4. InLine(0)'
    <3>1. 0 * MaxSegment = 0 /\ GroupsPerSegment * 0 = 0
      BY Sizes
    <3> QED
      BY <2>1, <3>1, SenderConstants DEF InLine
  <2>5. BytesCut' = (line + 1) * FillStride
    BY <1>4, <2>1 DEF BytesCut
  <2>6. CASE line + 1 = Height
    <3>1. made' = (frameIndex + 1) * PacketsPerFrame
      <4>1. (line + 1) * PacketsPerLine = PacketsPerFrame
        BY <2>6 DEF PacketsPerFrame
      <4>2. (frameIndex + 1) * PacketsPerFrame
                = frameIndex * PacketsPerFrame + PacketsPerFrame
        BY <1>1, SenderConstants
      <4> QED
        BY <2>3, <4>1, <4>2
    <3>2. BytesCut + SegmentLength = BufSize
      <4>1. (line + 1) * FillStride = FillStride * Height
        BY <2>6, SenderConstants
      <4> QED
        BY <2>2, <4>1 DEF BufSize
    <3> QED
      BY <1>2, <1>6, <2>1, <2>6, <3>1, <3>2, SenderConstants
  <2>7. CASE line + 1 # Height
    <3>1. pc' = "send" /\ line' < Height
      BY <1>1, <1>2, <2>1, <2>7, SenderConstants
    <3>2. 0 \in 0 .. PacketsPerLine - 1
          /\ made' = frameIndex * PacketsPerFrame
                         + line' * PacketsPerLine + 0
      <4>1. frameIndex * PacketsPerFrame \in Nat
            /\ (line + 1) * PacketsPerLine \in Nat
        BY <1>1, SenderConstants
      <4> QED
        BY <2>1, <2>3, <4>1, SenderConstants
    <3>3. \E i \in 0 .. PacketsPerLine - 1 :
              /\ InLine(i)'
              /\ made' = frameIndex * PacketsPerFrame
                             + line' * PacketsPerLine + i
      BY <2>4, <3>2
    <3> QED
      BY <1>1, <1>2, <2>1, <2>2, <2>5, <2>7, <3>1, <3>3, SenderConstants
  <2> QED
    BY <2>6, <2>7
<1> QED
  BY <1>5, <1>6

\* A packet was made and the picture follows the cut, with the bytes of the
\* packet or without them.
LEMMA OnwardStep ==
    ASSUME SenderInvariant, MakePacket, Advance,
           NEW next, next = BytesCut + SegmentLength,
           PictureUpTo(next)', left' \subseteq Places,
           picture' \in [Places -> Bytes \cup {Blank}]
    PROVE  SenderInvariant'
<1>1. pc = "send" /\ Sending
  BY DEF MakePacket, SenderInvariant
<1>2. PICK j \in 0 .. PacketsPerLine - 1 :
          /\ InLine(j)
          /\ made = frameIndex * PacketsPerFrame + line * PacketsPerLine + j
  BY <1>1 DEF Sending
<1>3. made' = made + 1
  BY DEF MakePacket
<1>4. /\ UNCHANGED frameIndex
      /\ line' \in 0 .. Height /\ remaining' \in 0 .. FillStride
      /\ pixelOffset' \in 0 .. Width
      /\ pc' \in {"send", "sent"}
      /\ pc' = "sent" <=> line + 1 = Height /\ ~Continues
  BY <1>1, <1>2, <1>3, AdvanceStep
<1>5. /\ made' \in Nat
      /\ seq' \in 0 .. SeqMod - 1 /\ seq' = (1 + made') % SeqMod
      /\ packet' \in Packet
      /\ KeepsTheContract'
      /\ UNCHANGED ts
  BY <1>2, <1>4, MakeStep
<1>6. TypeOK'
  BY <1>4, <1>5 DEF SenderInvariant, TypeOK
<1>7. ts' = (frameIndex' * TsStep) % TsMod
  BY <1>4, <1>5 DEF SenderInvariant
<1>8. frameIndex' < Count
  BY <1>1, <1>4 DEF Sending
<1>9. pc' = "send" => Sending'
  <2>1. SUFFICES ASSUME pc' = "send" PROVE Sending'
    OBVIOUS
  <2>2. /\ line' < Height /\ BytesCut' = next
        /\ \E i \in 0 .. PacketsPerLine - 1 :
              /\ InLine(i)'
              /\ made' = frameIndex * PacketsPerFrame
                             + line' * PacketsPerLine + i
    BY <1>1, <1>2, <1>3, <2>1, AdvanceStep
  <2>3. PictureUpTo(BytesCut)'
    BY <2>2 DEF PictureUpTo
  <2> QED
    BY <1>4, <1>8, <2>2, <2>3 DEF Sending
<1>10. pc' = "sent" => FrameSent'
  <2>1. SUFFICES ASSUME pc' = "sent" PROVE FrameSent'
    OBVIOUS
  <2>2. made' = (frameIndex + 1) * PacketsPerFrame /\ next = BufSize
    BY <1>1, <1>2, <1>3, <2>1, AdvanceStep
  <2>3. PictureUpTo(BufSize)'
    BY <2>2 DEF PictureUpTo, BufSize, FillStride
  <2> QED
    BY <1>4, <1>8, <2>2, <2>3 DEF FrameSent
<1> QED
  BY <1>4, <1>5, <1>6, <1>7, <1>9, <1>10 DEF SenderInvariant

LEMMA SendStep ==
    ASSUME SenderInvariant, SendPacket
    PROVE  SenderInvariant'
<1>1. MakePacket /\ Advance /\ picture' = Received /\ UNCHANGED left
  BY DEF SendPacket
<1>2. line \in 0 .. Height - 1 /\ PictureUpTo(BytesCut)
      /\ \E j \in 0 .. PacketsPerLine - 1 : InLine(j)
  BY <1>1, SenderConstants
     DEF MakePacket, SenderInvariant, Sending, TypeOK
<1>3. PICK next : next = BytesCut + SegmentLength
  OBVIOUS
<1>4. /\ left \subseteq 0 .. next - 1
      /\ Received = [b \in Places |-> IF b < next /\ b \notin left
                                      THEN Frame[b] ELSE Blank]
  BY <1>2, <1>3, SentPicture
<1>5. PictureUpTo(next)'
  BY <1>1, <1>4 DEF PictureUpTo
<1>6. picture' \in [Places -> Bytes \cup {Blank}]
  BY <1>1, <1>4, FrameIsBytes
<1>7. left' \subseteq Places
  BY <1>1 DEF SenderInvariant, TypeOK
<1> QED
  BY <1>1, <1>3, <1>5, <1>6, <1>7, OnwardStep

LEMMA LeaveOutStep ==
    ASSUME SenderInvariant, LeaveOut
    PROVE  SenderInvariant'
<1>1. MakePacket /\ Advance /\ UNCHANGED picture
      /\ left' = left \cup
             MadePacket.from .. MadePacket.from + SegmentLength - 1
  BY DEF LeaveOut
<1>2. line \in 0 .. Height - 1 /\ PictureUpTo(BytesCut)
      /\ \E j \in 0 .. PacketsPerLine - 1 : InLine(j)
  BY <1>1, SenderConstants
     DEF MakePacket, SenderInvariant, Sending, TypeOK
<1>3. PICK next : next = BytesCut + SegmentLength
  OBVIOUS
<1>4. PICK without : without = left \cup
          MadePacket.from .. MadePacket.from + SegmentLength - 1
  OBVIOUS
<1>5. /\ without \subseteq 0 .. next - 1
      /\ without \subseteq left \cup Places
      /\ picture = [b \in Places |-> IF b < next /\ b \notin without
                                     THEN Frame[b] ELSE Blank]
  BY <1>2, <1>3, <1>4, LeftOutPicture
<1>6. left' = without
  BY <1>1, <1>4
<1>7. PictureUpTo(next)'
  BY <1>1, <1>5, <1>6 DEF PictureUpTo
<1>8. left' \subseteq Places /\ picture' \in [Places -> Bytes \cup {Blank}]
  BY <1>1, <1>5, <1>6 DEF SenderInvariant, TypeOK
<1> QED
  BY <1>1, <1>3, <1>7, <1>8, OnwardStep

LEMMA SendtoFailsStep ==
    ASSUME SenderInvariant, SendtoFails
    PROVE  SenderInvariant'
<1>1. MakePacket /\ pc = "send" /\ pc' = "failed"
      /\ UNCHANGED <<frameIndex, line, remaining, pixelOffset, picture, left>>
  BY DEF SendtoFails, MakePacket, position
<1>2. PICK j \in 0 .. PacketsPerLine - 1 :
          /\ InLine(j)
          /\ made = frameIndex * PacketsPerFrame + line * PacketsPerLine + j
  BY <1>1 DEF SenderInvariant, Sending
<1>3. /\ made' \in Nat
      /\ seq' \in 0 .. SeqMod - 1 /\ seq' = (1 + made') % SeqMod
      /\ packet' \in Packet
      /\ KeepsTheContract'
      /\ UNCHANGED ts
  BY <1>1, <1>2, MakeStep
<1> QED
  BY <1>1, <1>3 DEF SenderInvariant, TypeOK

LEMMA NextFrameStep ==
    ASSUME SenderInvariant, NextFrame
    PROVE  SenderInvariant'
<1>1. /\ pc = "sent" /\ frameIndex' = frameIndex + 1
      /\ ts' = (ts + TsStep) % TsMod
      /\ pc' = IF frameIndex' < Count THEN "send" ELSE "done"
      /\ line' = 0 /\ remaining' = FillStride /\ pixelOffset' = 0
      /\ packet' = NoPacket
      /\ picture' = NoPicture /\ left' = {}
      /\ UNCHANGED <<seq, made>>
  BY DEF NextFrame
<1>2. FrameSent /\ frameIndex \in Nat /\ TypeOK
      /\ ts = (frameIndex * TsStep) % TsMod
  BY <1>1, SenderConstants DEF SenderInvariant, TypeOK
<1>3. ts' = (frameIndex' * TsStep) % TsMod /\ ts' \in 0 .. TsMod - 1
  <2>1. PICK a \in Nat : a = frameIndex * TsStep
    BY <1>2, SenderConstants
  <2>2. ((a % TsMod) + TsStep) % TsMod = (a + TsStep) % TsMod
    BY SenderConstants, SumReduced
  <2>3. a + TsStep = frameIndex' * TsStep
    BY <1>1, <1>2, <2>1, SenderConstants
  <2>4. (a + TsStep) % TsMod \in 0 .. TsMod - 1
    BY SenderConstants, Division
  <2> QED
    BY <1>1, <1>2, <2>1, <2>2, <2>3, <2>4
<1>4. frameIndex' \in 0 .. Count
  BY <1>1, <1>2, SenderConstants DEF FrameSent
<1>5. BytesCut' = 0
  <2>1. 0 * FillStride + (FillStride - FillStride) = 0
    BY SenderConstants
  <2> QED
    BY <1>1, <2>1 DEF BytesCut
<1>6. PictureUpTo(BytesCut)'
  <2>1. \A b \in Places : ~(b < 0)
    BY SenderConstants DEF Places
  <2>2. NoPicture = [b \in Places |-> IF b < 0 /\ b \notin {}
                                      THEN Frame[b] ELSE Blank]
    BY <2>1 DEF NoPicture
  <2> QED
    BY <1>1, <1>5, <2>2 DEF PictureUpTo
<1>7. pc' = "send" => Sending'
  <2>1. 0 * MaxSegment = 0 /\ GroupsPerSegment * 0 = 0
    BY Sizes
  <2>2. 0 \in 0 .. PacketsPerLine - 1 /\ InLine(0)'
    BY <1>1, <2>1, SenderConstants DEF InLine
  <2>3. made' = frameIndex' * PacketsPerFrame + line' * PacketsPerLine + 0
    <3>1. made' = frameIndex' * PacketsPerFrame
          /\ frameIndex' * PacketsPerFrame \in Nat
      BY <1>1, <1>2, SenderConstants DEF FrameSent
    <3>2. line' * PacketsPerLine = 0
      BY <1>1, SenderConstants
    <3> QED
      BY <3>1, <3>2
  <2> QED
    BY <1>1, <1>6, <2>2, <2>3, SenderConstants DEF Sending
<1>8. TypeOK'
  <2>1. picture' \in [Places -> Bytes \cup {Blank}]
    BY <1>1 DEF NoPicture
  <2> QED
    BY <1>1, <1>2, <1>3, <1>4, <2>1, SenderConstants DEF TypeOK
<1> QED
  BY <1>1, <1>3, <1>7, <1>8 DEF SenderInvariant, KeepsTheContract

LEMMA SenderStep ==
    ASSUME SenderInvariant, [Next]_vars
    PROVE  SenderInvariant'
<1>1. CASE SetUp
  <2>1. pc = "setup" /\ pc' \in {"send", "failed"}
        /\ UNCHANGED <<frameIndex, line, remaining, pixelOffset, seq, ts,
                       packet, made, picture, left>>
    BY <1>1 DEF SetUp, position
  <2> QED
    BY <2>1 DEF SenderInvariant, TypeOK, Sending, InLine, PictureUpTo,
                BytesCut, KeepsTheContract
<1>2. CASE UNCHANGED vars
  <2>1. UNCHANGED <<pc, frameIndex, line, remaining, pixelOffset, seq, ts,
                    packet, made, picture, left>>
    BY <1>2 DEF vars, position
  <2> QED
    BY <2>1 DEF SenderInvariant, TypeOK, Sending, FrameSent, InLine,
                PictureUpTo, BytesCut, KeepsTheContract
<1> QED
  BY <1>1, <1>2, SendStep, LeaveOutStep, SendtoFailsStep, NextFrameStep
     DEF Next

LEMMA SenderInvariance == Spec => []SenderInvariant
<1>1. SenderInvariant /\ [Next]_vars => SenderInvariant'
  BY SenderStep
<1> QED
  BY <1>1, SenderInitially, PTL DEF Spec
-----------------------------------------------------------------------------
\* Every variable of the sender keeps its type: line, remainder and offset
\* stay within the picture and the offset within its field of the header.
THEOREM SenderTyping == Spec => []TypeOK
<1>1. SenderInvariant => TypeOK
  BY DEF SenderInvariant
<1> QED
  BY <1>1, SenderInvariance, PTL

\* The sender numbers, times and marks its packets as the model of the frame
\* assembler assumes, also across those it leaves out.
THEOREM SenderKeepsTheContract == Spec => []KeepsTheContract
<1>1. SenderInvariant => KeepsTheContract
  BY DEF SenderInvariant
<1> QED
  BY <1>1, SenderInvariance, PTL

LEMMA WholePicture ==
    ASSUME SenderInvariant
    PROVE  FrameIsCutWithoutRemainder
<1> SUFFICES ASSUME pc = "sent"
             PROVE  picture = [b \in Places |->
                                  IF b \in left THEN Blank ELSE Frame[b]]
  BY DEF FrameIsCutWithoutRemainder
<1>1. picture = [b \in Places |-> IF b < BufSize /\ b \notin left
                                  THEN Frame[b] ELSE Blank]
  BY DEF SenderInvariant, FrameSent, PictureUpTo
<1>2. \A b \in Places : b < BufSize
  BY SenderConstants DEF Places
<1> QED
  BY <1>1, <1>2

\* The packets of a frame carry every byte of it, each to its place, and none
\* twice: of any picture, whatever fits a datagram and whatever is left out.
THEOREM FrameArrivesWhole == Spec => []FrameIsCutWithoutRemainder
BY SenderInvariance, WholePicture, PTL
-----------------------------------------------------------------------------
(* The conversion of a frame that has arrived whole.                       *)

\* Group g of line y, as the converter reads it from the picture.
LEMMA GroupOfFrame ==
    ASSUME NEW y \in 0 .. Height - 1, NEW g \in 0 .. Groups - 1,
           NEW k \in 1 .. 5
    PROVE  LET bar == BarOf(g)
           IN  Frame[y * FillStride + g * 5 + k - 1] =
                   PackGroup(bar[1], bar[2], bar[3], bar[2])[k]
<1> DEFINE S == FillStride
           G == Groups
           r == g * 5 + k - 1
           b == y * S + g * 5 + k - 1
<1>1. S \in Nat \ {0} /\ G \in Nat \ {0} /\ S = 5 * G
      /\ PgroupSize = 5 /\ Height \in Nat \ {0}
  BY Sizes
<1>2. y \in Nat /\ y + 1 <= Height /\ g \in Nat /\ g + 1 <= G
  BY <1>1
<1>3. r \in 0 .. S - 1
  BY <1>1, <1>2
<1>4. y * S \in Nat /\ b = y * S + r /\ b \in Nat
  BY <1>1, <1>2
<1>5. b \in Places
  <2>1. (y + 1) * S <= Height * S
    BY <1>1, <1>2, Growth
  <2>2. (y + 1) * S = y * S + S /\ Height * S = S * Height
    BY <1>1, <1>2
  <2>3. S * Height \in Nat
    BY <1>1
  <2>4. b < BufSize /\ BufSize \in Nat
    BY <1>1, <1>3, <1>4, <2>1, <2>2, <2>3 DEF BufSize
  <2> QED
    BY <1>4, <2>4 DEF Places
<1>6. b % S = r
  <2>1. (y * S + r) % S = r
    BY <1>1, <1>2, <1>3, Quotient
  <2> QED
    BY <1>4, <2>1
<1>7. r \div 5 = g
  BY <1>2
<1>8. b % 5 = k - 1
  <2>1. PICK z \in Nat : z = y * G + g
    BY <1>1, <1>2
  <2>2. y * S = 5 * (y * G) /\ y * G \in Nat
    BY <1>1, <1>2
  <2>3. b = 5 * z + (k - 1)
    BY <1>2, <1>4, <2>1, <2>2
  <2> HIDE DEF b
  <2> QED
    BY <2>1, <2>3
<1>9. Frame[b] =
          LET bar == BarOf((b % FillStride) \div PgroupSize)
          IN  PackGroup(bar[1], bar[2], bar[3], bar[2])
                  [(b % PgroupSize) + 1]
  BY <1>5 DEF Frame
<1> HIDE DEF b, r
<1>10. (b % FillStride) \div PgroupSize = g /\ (b % PgroupSize) + 1 = k
  BY <1>1, <1>6, <1>7, <1>8
<1>11. Frame[b] = PackGroup(BarOf(g)[1], BarOf(g)[2], BarOf(g)[3],
                            BarOf(g)[2])[k]
  BY <1>9, <1>10
<1> QED
  BY <1>11 DEF b

\* The four samples that are unpacked from it.
LEMMA SamplesOfGroup ==
    ASSUME NEW y \in 0 .. Height - 1, NEW g \in 0 .. Groups - 1,
           NEW group,
           group = [k \in 1 .. 5 |-> Frame[y * FillStride + g * 5 + k - 1]]
    PROVE  UnpackGroup(group) =
               <<BarOf(g)[1], BarOf(g)[2], BarOf(g)[3], BarOf(g)[2]>>
<1> DEFINE packed == PackGroup(BarOf(g)[1], BarOf(g)[2], BarOf(g)[3],
                               BarOf(g)[2])
<1>1. \A k \in 1 .. 5 : group[k] = packed[k]
  BY GroupOfFrame
<1>2. BarOf(g)[1] \in Samples /\ BarOf(g)[2] \in Samples
      /\ BarOf(g)[3] \in Samples
  BY Sizes, BarsAreSamples
<1>3. UnpackGroup(packed) =
          <<BarOf(g)[1], BarOf(g)[2], BarOf(g)[3], BarOf(g)[2]>>
  BY <1>2, UnpackInvertsPack
<1> HIDE DEF packed
<1>4. group[1] = packed[1] /\ group[2] = packed[2] /\ group[3] = packed[3]
      /\ group[4] = packed[4] /\ group[5] = packed[5]
  BY <1>1
<1>5. UnpackGroup(group) = UnpackGroup(packed)
  BY <1>4 DEF UnpackGroup
<1> QED
  BY <1>3, <1>5

\* Byte c of the four that are shown for a group.
LEMMA ByteShown ==
    ASSUME NEW y \in 0 .. Height - 1, NEW g \in 0 .. Groups - 1,
           NEW c \in 0 .. 3, NEW dst,
           DOMAIN dst = 0 .. 2 * Width * Height - 1
    PROVE  ConvertBe10ToUyvy(Frame, FillStride, dst, 2 * Width, Width, Height)
               [y * 2 * Width + 4 * g + c] =
           <<BarOf(g)[1], BarOf(g)[2], BarOf(g)[3], BarOf(g)[2]>>[c + 1]
               \div 4
<1> DEFINE G == Groups
           D == 2 * Width
           x == 4 * g + c
           i == y * 2 * Width + 4 * g + c
           group == [k \in 1 .. 5 |-> Frame[y * FillStride + g * 5 + k - 1]]
<1>1. G \in Nat \ {0} /\ Width = 2 * G /\ Height \in Nat \ {0}
  BY Sizes
<1>2. y \in Nat /\ y + 1 <= Height /\ g \in Nat /\ g + 1 <= G
      /\ D \in Nat \ {0} /\ D = 4 * G /\ Width \div 2 = G
  BY <1>1
<1> HIDE DEF D, G
<1>3. x \in 0 .. D - 1
  BY <1>1, <1>2
<1>4. y * D \in Nat /\ i = y * D + x /\ i \in Nat
  <2>1. y * D \in Nat
    BY <1>2
  <2>2. y * 2 * Width = y * D
    BY <1>1, <1>2 DEF D
  <2>3. i = y * D + (4 * g + c)
    BY <1>2, <2>1, <2>2
  <2> QED
    BY <1>2, <2>1, <2>3
<1>5. i \in DOMAIN dst
  <2>1. (y + 1) * D <= Height * D
    BY <1>1, <1>2, Growth
  <2>2. (y + 1) * D = y * D + D /\ Height * D = 2 * Width * Height
    BY <1>1, <1>2 DEF D
  <2>3. Height * D \in Nat
    BY <1>1, <1>2
  <2>4. x \in Nat /\ x < D /\ D \in Nat
    BY <1>2, <1>3
  <2> HIDE DEF i, x
  <2>5. i < y * D + D
    BY <1>4, <2>4
  <2>6. i < Height * D
    BY <1>4, <2>1, <2>2, <2>3, <2>4, <2>5
  <2> QED
    BY <1>4, <2>2, <2>3, <2>6
<1>6. i \div D = y /\ i % D = x
  <2>1. D \in Nat \ {0} /\ y \in Nat
    BY <1>2
  <2> HIDE DEF i, x
  <2> QED
    BY <1>3, <1>4, <2>1, PlaceInGrid
<1>7. x \div 4 = g /\ x % 4 = c
  BY <1>2
<1>8. ConvertBe10ToUyvy(Frame, FillStride, dst, D, Width, Height)[i] =
          LET yy == i \div D
              xx == i % D
              gr == [k \in 1 .. 5 |->
                        Frame[yy * FillStride + (xx \div 4) * 5 + k - 1]]
          IN  IF yy < Height /\ xx \div 4 < Width \div 2
              THEN ToEightBits(UnpackGroup(gr)[(xx % 4) + 1])
              ELSE dst[i]
  BY <1>5 DEF ConvertBe10ToUyvy
<1> HIDE DEF i, x
<1>9. y < Height /\ g < Width \div 2
  BY <1>1, <1>2
<1>10. ConvertBe10ToUyvy(Frame, FillStride, dst, D, Width, Height)[i] =
           ToEightBits(UnpackGroup(group)[c + 1])
  BY <1>6, <1>7, <1>8, <1>9
<1>11. UnpackGroup(group) =
           <<BarOf(g)[1], BarOf(g)[2], BarOf(g)[3], BarOf(g)[2]>>
  BY SamplesOfGroup DEF G
<1> HIDE DEF group
<1>12. ConvertBe10ToUyvy(Frame, FillStride, dst, D, Width, Height)[i] =
           <<BarOf(g)[1], BarOf(g)[2], BarOf(g)[3], BarOf(g)[2]>>[c + 1]
               \div 4
  BY <1>10, <1>11 DEF ToEightBits
<1> QED
  BY <1>12 DEF i, D

\* From a frame that has arrived whole the converter of the library makes the
\* colours the sender meant, of ten bits the upper eight, in every group of
\* every line and of any picture.
THEOREM BarsAreShown == Spec => []ConversionShowsTheBars
<1>1. SenderInvariant => ConversionShowsTheBars
  <2> SUFFICES ASSUME SenderInvariant, pc = "sent", left = {},
                      NEW y \in 0 .. Height - 1,
                      NEW g \in 0 .. Width \div 2 - 1, NEW shown,
                      shown = ConvertBe10ToUyvy(
                          picture, FillStride,
                          [i \in 0 .. 2 * Width * Height - 1 |-> Blank],
                          2 * Width, Width, Height)
               PROVE  LET at  == y * 2 * Width + 4 * g
                          bar == BarOf(g)
                      IN  /\ shown[at]     = bar[1] \div 4
                          /\ shown[at + 1] = bar[2] \div 4
                          /\ shown[at + 2] = bar[3] \div 4
                          /\ shown[at + 3] = bar[2] \div 4
    BY DEF ConversionShowsTheBars
  <2>1. picture = Frame
    <3>1. picture = [b \in Places |-> Frame[b]]
      BY WholePicture DEF FrameIsCutWithoutRemainder
    <3>2. Frame = [b \in Places |-> Frame[b]]
      BY DEF Frame
    <3> QED
      BY <3>1, <3>2
  <2> DEFINE at  == y * 2 * Width + 4 * g
             bar == BarOf(g)
             four == <<bar[1], bar[2], bar[3], bar[2]>>
  <2>2. g \in 0 .. Groups - 1
    BY DEF Groups
  <2>3. \A c \in 0 .. 3 : shown[at + c] = four[c + 1] \div 4
    BY <2>1, <2>2, ByteShown
  <2>4. at + 0 = at
    BY Sizes
  <2> HIDE DEF at, bar
  <2>5. shown[at] = four[1] \div 4 /\ shown[at + 1] = four[2] \div 4
        /\ shown[at + 2] = four[3] \div 4 /\ shown[at + 3] = four[4] \div 4
    BY <2>3, <2>4
  <2> QED
    BY <2>5 DEF at, bar
<1> QED
  BY <1>1, SenderInvariance, PTL
=============================================================================
