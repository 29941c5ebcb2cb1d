----------------------------- MODULE PixelGroups ----------------------------
(***************************************************************************)
(* The pixel group of 10-bit 4:2:2 video, two pixels in five bytes, as the *)
(* test sender packs it (pack_group) and as the receiver turns it into the *)
(* four bytes of 8-bit UYVY (rx_convert_be10_to_uyvy).  Shifts and masks   *)
(* are quotients and remainders; joined bit fields do not overlap.         *)
(***************************************************************************)
EXTENDS Integers

Samples == 0 .. 1023

Bytes == 0 .. 255

PackGroup(cb, y0, cr, y1) ==
    << cb \div 4,
       (cb % 4) * 64 + y0 \div 16,
       (y0 % 16) * 16 + cr \div 64,
       (cr % 64) * 4 + y1 \div 256,
       y1 % 256 >>

\* The four samples of the group g, in the order cb, y0, cr, y1.
UnpackGroup(g) ==
    << g[1] * 4 + g[2] \div 64,
       (g[2] % 64) * 16 + g[3] \div 16,
       (g[3] % 16) * 64 + g[4] \div 4,
       (g[4] % 4) * 256 + g[5] >>

\* Mutant: the low bits of the samples are kept instead of the high ones.
ToEightBits_LowBits(s) == s % 256

ToEightBits(s) == s \div 4

\* rx_convert_be10_to_uyvy for pictures given as functions from byte offsets:
\* byte i of the result is one of the four of its group, or, behind the last
\* group of a line or below the last line, what dst held.
ConvertBe10ToUyvy(src, srcStride, dst, dstStride, width, height) ==
    [i \in DOMAIN dst |->
        LET y == i \div dstStride
            x == i % dstStride
            group == [k \in 1 .. 5 |->
                         src[y * srcStride + (x \div 4) * 5 + k - 1]]
        IN  IF y < height /\ x \div 4 < width \div 2
            THEN ToEightBits(UnpackGroup(group)[(x % 4) + 1])
            ELSE dst[i]]
=============================================================================
