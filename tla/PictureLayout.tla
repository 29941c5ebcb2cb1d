---------------------------- MODULE PictureLayout ---------------------------
(***************************************************************************)
(* Where the bytes of a segment belong in a picture: lines of pixel groups *)
(* one behind the other, as rx_assembler_process_packet fills them and as  *)
(* the test sender cuts them.                                              *)
(***************************************************************************)
EXTENDS Integers

CONSTANTS Width, Height,   \* of the picture, in pixels
          PixelsPerGroup,  \* pixels in a pgroup, 2
          PgroupSize       \* bytes in a pgroup, 5 or 4

ASSUME GeometryAssumption ==
    /\ Width \in Nat
    /\ Height \in Nat
    /\ PixelsPerGroup \in Nat \ {0}
    /\ PgroupSize \in Nat

FillStride == (Width \div PixelsPerGroup) * PgroupSize

BufSize == FillStride * Height

ByteOffset(segment) == (segment.offset \div PixelsPerGroup) * PgroupSize

Destination(segment) == segment.line * FillStride + ByteOffset(segment)

InPicture(segment) == Destination(segment) + segment.len <= BufSize
=============================================================================
