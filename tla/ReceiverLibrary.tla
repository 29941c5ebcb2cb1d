--------------------------- MODULE ReceiverLibrary --------------------------
(***************************************************************************)
(* libst2110rx as a program that links it sees it: st2110rx_create with    *)
(* its checks and allocations (rx_core.c, rx_rfc4175.c), the life of the   *)
(* receiver, of which ReceiverService says what is promised, and the       *)
(* frames that rx_process_packet hands to the program's callback and then  *)
(* counts.  The program makes its calls one at a time; ObsSource and       *)
(* ReceiverCli are two of them, and say what their callbacks do.           *)
(***************************************************************************)
EXTENDS Integers

CONSTANTS UintMod,              \* the 32-bit products wrap here
          MaxWidth, MaxHeight,  \* 8192 and 4320
          MaxFrames             \* bound on the frames of one receiver

ASSUME LimitsAssumption ==
    /\ MaxWidth \in Nat /\ MaxHeight \in Nat
    /\ UintMod \in Nat /\ 4 * MaxWidth < UintMod
ASSUME MaxFramesAssumption == MaxFrames \in Nat

VARIABLES service, calling, open,  \* see ReceiverService; "destroyed" before
                             \* the first receiver as well as after one
          config,            \* config of the receiver
          memory,            \* blocks that are allocated
          step,              \* where the receive thread is: "out", in the
                             \* program's callback, or at "count"
          frame,             \* the frame the callback has been given
          framesReceived, framesDropped  \* the counters of the receiver

libraryVars == <<service, calling, open, config, memory, step, frame,
                 framesReceived, framesDropped>>

Promise == INSTANCE ReceiverService

\* What the two products of the size are computed from; `named' is whether
\* there is a multicast address.
Formats == {"10bit", "uyvy", "p010", "v210"}
Configs == [named : BOOLEAN, width : 0 .. UintMod - 1,
            height : 0 .. UintMod - 1, input : Formats, output : Formats]

NoConfig == [named |-> FALSE, width |-> 0, height |-> 0,
             input |-> "uyvy", output |-> "uyvy"]

NoFrame == [data |-> "none"]

LibraryInit ==
    /\ service = "destroyed" /\ calling = FALSE /\ open = FALSE
    /\ config = NoConfig
    /\ memory = {}
    /\ step = "out" /\ frame = NoFrame
    /\ framesReceived = 0 /\ framesDropped = 0
-----------------------------------------------------------------------------
(* st2110rx_create.                                                        *)

CreateAccepts(c) ==
    c.named /\ c.width # 0 /\ c.height # 0 /\ c.width % 2 = 0

\* Mutant: rx_assembler_init does not limit the size.
AssemblerAccepts_AnySize(c) == c.input \in {"10bit", "uyvy"}

AssemblerAccepts(c) ==
    /\ c.width <= MaxWidth /\ c.height <= MaxHeight
    /\ c.input \in {"10bit", "uyvy"}

ConvertStride(c) == (c.width * 2) % UintMod

FillStride(c) ==
    ((c.width \div 2) * (IF c.input = "10bit" THEN 5 ELSE 4)) % UintMod

Blocks == {"rx", "packet", "convert", "fill", "deliver"}

\* What has been allocated when an allocation fails, or, for the last, when
\* the assembler refuses the configuration.
AllocatedBefore ==
    [rx |-> {}, packet |-> {"rx"}, convert |-> {"rx", "packet"},
     fill |-> {"rx", "packet", "convert", "deliver"},
     deliver |-> {"rx", "packet", "convert", "fill"},
     assembler |-> {"rx", "packet", "convert"}]

\* Mutant: the last branch of st2110rx_create forgets a buffer.
FreedAfter_NotConvert ==
    [rx |-> {}, packet |-> {"rx"}, convert |-> {"packet", "rx"},
     fill |-> {"fill", "deliver", "packet", "rx"},
     deliver |-> {"fill", "deliver", "packet", "rx"},
     assembler |-> {"packet", "rx"}]

\* What the branch that handles the failure frees.
FreedAfter ==
    [rx |-> {}, packet |-> {"rx"}, convert |-> {"packet", "rx"},
     fill |-> {"fill", "deliver", "convert", "packet", "rx"},
     deliver |-> {"fill", "deliver", "convert", "packet", "rx"},
     assembler |-> {"convert", "packet", "rx"}]

CreateSucceeds(c) ==
    /\ CreateAccepts(c) /\ AssemblerAccepts(c)
    /\ service' = "stopped"
    /\ config' = c
    /\ memory' = memory \cup Blocks
    /\ framesReceived' = 0 /\ framesDropped' = 0
    /\ UNCHANGED <<calling, open, step, frame>>

\* The result is NULL.
CreateFails(c) ==
    /\ \/ ~CreateAccepts(c) /\ UNCHANGED memory
       \/ \E failing \in DOMAIN FreedAfter :
              /\ CreateAccepts(c)
              /\ failing = "assembler" => ~AssemblerAccepts(c)
              /\ failing \in {"fill", "deliver"} => AssemblerAccepts(c)
              /\ memory' = memory \cup
                     (AllocatedBefore[failing] \ FreedAfter[failing])
    /\ UNCHANGED <<service, calling, open, config, step, frame,
                   framesReceived, framesDropped>>
-----------------------------------------------------------------------------
(* The other calls, and their returns.                                     *)

Call(name, from) ==
    /\ Promise!Enter(name, from)
    /\ UNCHANGED <<config, memory, step, frame, framesReceived,
                   framesDropped>>

StartReturns ==
    /\ Promise!StartReturns
    /\ UNCHANGED <<config, memory, step, frame, framesReceived,
                   framesDropped>>

\* The join in st2110rx_stop, which st2110rx_destroy calls, too.
ThreadEnds ==
    /\ Promise!ThreadEnds
    /\ UNCHANGED <<config, memory, step, frame, framesReceived,
                   framesDropped>>

StopReturns ==
    /\ Promise!StopReturns
    /\ UNCHANGED <<config, memory, step, frame, framesReceived,
                   framesDropped>>

\* st2110rx_destroy frees all that st2110rx_create allocated.
DestroyReturns ==
    /\ Promise!DestroyReturns
    /\ memory' = {}
    /\ UNCHANGED <<config, step, frame, framesReceived, framesDropped>>
-----------------------------------------------------------------------------
(* The receive thread.                                                     *)

\* What rx_internal_frame_cb makes of a frame: `data' names the buffer.
FrameOf(c, incomplete) ==
    LET converted == c.output = "uyvy" /\ c.input = "10bit"
        stride    == IF converted THEN ConvertStride(c) ELSE FillStride(c)
    IN  [data       |-> IF converted THEN "convert" ELSE "deliver",
         format     |-> IF converted THEN "uyvy" ELSE c.input,
         width      |-> c.width,
         height     |-> c.height,
         linesize   |-> stride,
         incomplete |-> incomplete]

\* The assembler delivers a frame; the callback goes on at `first'.
DeliverFrame(first) ==
    /\ framesReceived < MaxFrames
    /\ Promise!CallbackBegins
    /\ \E incomplete \in BOOLEAN : frame' = FrameOf(config, incomplete)
    /\ step' = first
    /\ UNCHANGED <<config, memory, framesReceived, framesDropped>>

\* Within the callback.
CallbackGoesOn(from, to) ==
    /\ step = from
    /\ step' = to
    /\ UNCHANGED <<service, calling, open, config, memory, frame,
                   framesReceived, framesDropped>>

\* Mutant: a frame is counted as received only if it was complete.
CountedAsReceived_Complete == IF frame.incomplete THEN 0 ELSE 1

CountedAsReceived == 1

\* rx_stats_frame, once the callback has returned.
CountFrame ==
    /\ step = "count"
    /\ Promise!CallbackEnds
    /\ framesReceived' = framesReceived + CountedAsReceived
    /\ framesDropped' = framesDropped + (IF frame.incomplete THEN 1 ELSE 0)
    /\ step' = "out"
    /\ frame' = NoFrame
    /\ UNCHANGED <<config, memory>>
-----------------------------------------------------------------------------
\* Bytes of a line of pixels.
LineBytes(format, width) ==
    IF format = "10bit" THEN (width \div 2) * 5 ELSE width * 2

\* Each buffer is `height' times its stride long.  The lines of the frame fit
\* into the lines of its buffer; so do those the conversion has read.
FitsItsBuffer(f) ==
    /\ f.data \in memory
    /\ LineBytes(f.format, f.width) <= f.linesize
    /\ f.data = "convert" =>
           LineBytes(config.input, f.width) <= FillStride(config)
=============================================================================
