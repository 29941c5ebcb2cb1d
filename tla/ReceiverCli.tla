----------------------------- MODULE ReceiverCli ----------------------------
(***************************************************************************)
(* st2110rx-cli.c: the command-line receiver.  main sets everything up,    *)
(* polls stop_requested and takes everything down; beside it the receive   *)
(* thread is in frame_cb, which counts, writes and now and then reports,   *)
(* and asks main to stop; and SIGINT may come at any moment.               *)
(***************************************************************************)
EXTENDS ReceiverLibrary

CONSTANTS Options,   \* what the user may ask for
          CliWidth, CliHeight  \* --width, --height

\* --count, --stats and --output; 0 asks for no limit and for no reports.
ASSUME OptionsAssumption ==
    Options \subseteq [count : Nat, statsEvery : Nat, output : BOOLEAN]
\* main refuses 0.
ASSUME CliSizeAssumption ==
    CliWidth \in 1 .. UintMod - 1 /\ CliHeight \in 1 .. UintMod - 1

VARIABLES main,           \* next step of main
          options,        \* the options, in g_cli
          cliRx,          \* g_cli.rx is not NULL
          outputOpen,     \* the output file is open
          framesSeen,     \* g_cli.frames_seen
          stopRequested,  \* g_cli.stop_requested
          printed,        \* history: the statistics printed last
          seenIncomplete, \* history: frames seen that were incomplete
          interrupted,    \* history: SIGINT has been handled
          status          \* history: what main has returned

cliVars == <<main, options, cliRx, outputOpen, framesSeen, stopRequested,
             printed, seenIncomplete, interrupted, status>>

callbackVars == <<framesSeen, stopRequested, printed, seenIncomplete>>

NoOptions == [count |-> 0, statsEvery |-> 0, output |-> FALSE]

\* main begins with a memset of g_cli.
CliInit ==
    /\ main = "open"
    /\ options = NoOptions
    /\ cliRx = FALSE /\ outputOpen = FALSE
    /\ framesSeen = 0 /\ stopRequested = FALSE
    /\ printed = <<>> /\ seenIncomplete = 0
    /\ interrupted = FALSE
    /\ status = -1
-----------------------------------------------------------------------------
(* main.                                                                   *)

MainReturns(result) == main' = "exited" /\ status' = result

OpenOutput ==
    /\ main = "open"
    /\ options' \in Options
    /\ \/ /\ options'.output
          /\ MainReturns(1)
          /\ UNCHANGED outputOpen
       \/ /\ main' = "create"
          /\ outputOpen' = options'.output
          /\ UNCHANGED status
    /\ UNCHANGED <<libraryVars, cliRx, callbackVars, interrupted>>

CliConfig == [named |-> TRUE, width |-> CliWidth, height |-> CliHeight,
              input |-> "10bit", output |-> "uyvy"]

Create ==
    /\ main = "create"
    /\ \/ CreateSucceeds(CliConfig) /\ cliRx' = TRUE /\ main' = "signal"
       \/ CreateFails(CliConfig) /\ main' = "give up" /\ UNCHANGED cliRx
    /\ UNCHANGED <<options, outputOpen, callbackVars, interrupted, status>>

\* Until now SIGINT ends the process.
InstallHandler ==
    /\ main = "signal"
    /\ main' = "start"
    /\ UNCHANGED <<libraryVars, options, cliRx, outputOpen, callbackVars,
                   interrupted, status>>

\* main goes on from `from' to `to' with a call of the library.
MainCalls(name, states, from, to) ==
    /\ main = from
    /\ Call(name, states)
    /\ main' = to
    /\ UNCHANGED <<options, cliRx, outputOpen, callbackVars, interrupted,
                   status>>

Started ==
    /\ main = "starting"
    /\ StartReturns
    /\ main' = IF service' = "started" THEN "poll" ELSE "undo"
    /\ UNCHANGED <<options, cliRx, outputOpen, callbackVars, interrupted,
                   status>>

\* Mutant: the output file is closed before the receiver is stopped.
SeeStopRequest_ClosesOutput ==
    /\ main = "poll"
    /\ stopRequested
    /\ main' = "stop"
    /\ outputOpen' = FALSE
    /\ UNCHANGED <<libraryVars, options, cliRx, callbackVars, interrupted,
                   status>>

\* Between two looks at stop_requested main sleeps for 100 ms.
SeeStopRequest ==
    /\ main = "poll"
    /\ stopRequested
    /\ main' = "stop"
    /\ UNCHANGED <<libraryVars, options, cliRx, outputOpen, callbackVars,
                   interrupted, status>>

Stopped ==
    /\ main = "stopping"
    /\ StopReturns
    /\ main' = "final stats"
    /\ UNCHANGED <<options, cliRx, outputOpen, callbackVars, interrupted,
                   status>>

\* st2110rx_get_stats, printed.
PrintStats == printed' = <<framesReceived, framesDropped>>

PrintFinalStats ==
    /\ main = "final stats"
    /\ PrintStats
    /\ main' = "destroy"
    /\ UNCHANGED <<libraryVars, options, cliRx, outputOpen, framesSeen,
                   stopRequested, seenIncomplete, interrupted, status>>

\* g_cli.rx keeps pointing at the receiver that has been freed.
Destroyed(from, to) ==
    /\ main = from
    /\ DestroyReturns
    /\ main' = to
    /\ UNCHANGED <<options, cliRx, outputOpen, callbackVars, interrupted,
                   status>>

CloseAndReturn(from, result) ==
    /\ main = from
    /\ outputOpen' = FALSE
    /\ MainReturns(result)
    /\ UNCHANGED <<libraryVars, options, cliRx, callbackVars, interrupted>>

MainGoesOn ==
    \/ ThreadEnds /\ UNCHANGED cliVars
    \/ OpenOutput
    \/ Create
    \/ InstallHandler
    \/ MainCalls("starting", {"stopped"}, "start", "starting")
    \/ Started
    \/ SeeStopRequest
    \/ MainCalls("stopping", {"started"}, "stop", "stopping")
    \/ Stopped
    \/ PrintFinalStats
    \/ MainCalls("destroying", {"stopped"}, "destroy", "destroying")
    \/ Destroyed("destroying", "close")
    \/ CloseAndReturn("close", 0)
    \/ MainCalls("destroying", {"stopped"}, "undo", "undoing")
    \/ Destroyed("undoing", "give up")
    \/ CloseAndReturn("give up", 1)
-----------------------------------------------------------------------------
(* signal_handler.                                                         *)

Interrupt ==
    /\ main \notin {"open", "create", "signal", "exited"}
    /\ main = "give up" => cliRx
    /\ stopRequested' = TRUE
    /\ interrupted' = TRUE
    /\ UNCHANGED <<libraryVars, main, options, cliRx, outputOpen, framesSeen,
                   printed, seenIncomplete, status>>
-----------------------------------------------------------------------------
(* frame_cb.                                                               *)

mainVars == <<main, options, cliRx, outputOpen, interrupted, status>>

CliFrameArrives ==
    /\ main \notin {"open", "exited"}
    /\ DeliverFrame("see")
    /\ UNCHANGED cliVars

SeeFrame ==
    /\ CallbackGoesOn("see", "write")
    /\ framesSeen' = framesSeen + 1
    /\ seenIncomplete' = seenIncomplete + (IF frame.incomplete THEN 1 ELSE 0)
    /\ UNCHANGED <<mainVars, stopRequested, printed>>

WriteFrame ==
    /\ CallbackGoesOn("write", "report")
    /\ UNCHANGED cliVars

ReportIsDue ==
    /\ options.statsEvery > 0
    /\ framesSeen % options.statsEvery = 0
    /\ cliRx

Report ==
    /\ CallbackGoesOn("report", "limit")
    /\ IF ReportIsDue THEN PrintStats ELSE UNCHANGED printed
    /\ UNCHANGED <<mainVars, framesSeen, stopRequested, seenIncomplete>>

\* Mutants: the limit has to be exceeded; 0 is a limit, too.
LimitReached_Exceeded == options.count > 0 /\ framesSeen > options.count
LimitReached_Zero == framesSeen >= options.count

LimitReached == options.count > 0 /\ framesSeen >= options.count

CheckLimit ==
    /\ CallbackGoesOn("limit", "count")
    /\ stopRequested' = (stopRequested \/ LimitReached)
    /\ UNCHANGED <<mainVars, framesSeen, printed, seenIncomplete>>

CliFrameIsCounted ==
    /\ main \notin {"open", "exited"}
    /\ CountFrame
    /\ UNCHANGED cliVars

CliReceiveThread ==
    \/ SeeFrame
    \/ WriteFrame
    \/ Report
    \/ CheckLimit
    \/ CliFrameIsCounted
-----------------------------------------------------------------------------
CliNext ==
    \/ MainGoesOn
    \/ Interrupt
    \/ CliFrameArrives
    \/ CliReceiveThread

CliSpec == LibraryInit /\ CliInit /\ [][CliNext]_<<libraryVars, cliVars>>
-----------------------------------------------------------------------------
\* A report from the callback does not have the frame it is made for, since
\* rx_process_packet counts a frame after its callback (rx_core.c:150); the
\* final statistics have every frame the callback was given, and those of
\* them that were incomplete.
StatsFollowTheCallback ==
    /\ step = "limit" /\ ReportIsDue =>
           printed[1] = framesSeen - 1
    /\ main \in {"destroy", "destroying", "close"} =>
           printed = <<framesSeen, seenIncomplete>>

\* Whatever main is doing, a frame is written to a file that is open, and a
\* report asks a receiver that has not been freed.
OutputOutlivesCallback ==
    /\ step = "write" => outputOpen = options.output
    /\ step = "report" => service # "destroyed" /\ "rx" \in memory

\* main ends with 0 only if SIGINT came or if there is a limit and it was
\* reached; it then leaves no file open, no memory, no thread in a callback.
StopsForAReason ==
    main = "exited" =>
        /\ status = 0 =>
               \/ interrupted
               \/ options.count > 0 /\ framesSeen >= options.count
        /\ ~outputOpen /\ memory = {} /\ step = "out"

\* Once the callback has seen as many frames as asked for, main ends.
ReachesTheCount ==
    (options.count > 0 /\ framesSeen >= options.count) ~> (main = "exited")
=============================================================================
