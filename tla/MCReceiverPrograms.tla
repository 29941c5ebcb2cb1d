------------------------- MODULE MCReceiverPrograms -------------------------
(* ReceiverPrograms for TLC: pictures of up to 4 by 2 pixels instead of    *)
(* 8192 by 4320, and 32-bit products that wrap at 32.  The widths are one  *)
(* that is accepted for each format, the largest, an odd one, one above    *)
(* the limit, and ones whose strides wrap around to 0 and to a small       *)
(* value.                                                                  *)
EXTENDS ReceiverPrograms

MCSettings ==
    [named : {TRUE}, width : {2, 4}, height : {2}, input : {"10bit", "uyvy"}]
    \cup
    [named : {TRUE}, width : {16, 18}, height : {1}, input : {"uyvy"}]
    \cup
    {[named |-> FALSE, width |-> 2, height |-> 1, input |-> "uyvy"],
     [named |-> TRUE, width |-> 0, height |-> 1, input |-> "uyvy"],
     [named |-> TRUE, width |-> 3, height |-> 1, input |-> "10bit"],
     [named |-> TRUE, width |-> 6, height |-> 1, input |-> "10bit"],
     [named |-> TRUE, width |-> 2, height |-> 3, input |-> "10bit"],
     [named |-> TRUE, width |-> 2, height |-> 1, input |-> "p010"]}

\* Without a limit, a limit below the bound on frames, and one at it.
MCOptions == [count : {0, 1, 3}, statsEvery : {0, 2}, output : BOOLEAN]
=============================================================================
