-------------------------- MODULE ReceiverCliProofs -------------------------
(***************************************************************************)
(* Theorems about ReceiverCli, for all options, sizes, limits of the       *)
(* library and numbers of frames.                                          *)
(***************************************************************************)
EXTENDS ReceiverCli, TLAPS
-----------------------------------------------------------------------------
(* The inductive invariant, in five parts: how far main has come with the  *)
(* receiver and its memory; the output file and the reason to stop; where  *)
(* the receive thread is; what it has counted and what has been printed.   *)

Empty == {"open", "create", "close", "give up", "exited"}
Built == {"signal", "start", "undo", "final stats", "destroy"}
Serving == {"starting", "poll", "stop", "stopping"}
Leaving == {"undoing", "destroying"}

Main ==
    /\ main \in Empty \cup Built \cup Serving \cup Leaving
    /\ main \in Empty => service = "destroyed" /\ memory = {}
    /\ main \notin Empty => service # "destroyed" /\ memory = Blocks
    /\ main \in Built => service = "stopped"
    /\ main \in Leaving => service = "destroying"
    /\ main = "starting" => service = "starting"
    /\ main \in {"poll", "stop"} => service = "started"
    /\ main = "stopping" => service = "stopping"

Reason ==
    interrupted \/ (options.count > 0 /\ framesSeen >= options.count)

Output ==
    /\ outputOpen \in BOOLEAN
    /\ options \in Options \cup {NoOptions}
    /\ main \in {"open", "exited"} => outputOpen = FALSE
    /\ main \notin {"open", "exited"} => outputOpen = options.output

Ending ==
    /\ stopRequested \in BOOLEAN /\ interrupted \in BOOLEAN
    /\ main = "open" => stopRequested = FALSE
    /\ stopRequested => Reason
    /\ main \in {"stop", "stopping", "final stats", "destroy", "destroying",
                 "close"} => Reason
    /\ status = 0 => main = "exited" /\ Reason

Thread ==
    /\ calling \in BOOLEAN /\ open \in BOOLEAN
    /\ step \in {"out", "see", "write", "report", "limit", "count"}
    /\ step # "out" => calling
    /\ calling => open
    /\ open => main \in Serving

Dropped == IF frame.incomplete THEN 1 ELSE 0

Counts ==
    /\ framesSeen \in Nat /\ seenIncomplete \in Nat
    /\ main \in {"open", "create"} => framesSeen = 0 /\ seenIncomplete = 0
    /\ step \in {"out", "see"} =>
           framesReceived = framesSeen /\ framesDropped = seenIncomplete
    /\ step \notin {"out", "see"} =>
           /\ framesReceived = framesSeen - 1
           /\ framesDropped = seenIncomplete - Dropped
    /\ step = "limit" /\ ReportIsDue => printed[1] = framesSeen - 1
    /\ main \in {"destroy", "destroying", "close"} =>
           printed = <<framesSeen, seenIncomplete>>

CliInvariant == Main /\ Output /\ Ending /\ Thread /\ Counts
-----------------------------------------------------------------------------
LEMMA CliCreateFreesAll ==
    ASSUME NEW failing \in DOMAIN FreedAfter
    PROVE  AllocatedBefore[failing] \ FreedAfter[failing] = {}
BY DEF AllocatedBefore, FreedAfter

LEMMA LimitsAreNumbers ==
    options \in Options \cup {NoOptions} =>
        options.count \in Nat /\ options.output \in BOOLEAN
<1>1. CASE options \in Options
  <2>1. options \in [count : Nat, statsEvery : Nat, output : BOOLEAN]
    BY <1>1, OptionsAssumption
  <2> QED
    BY <2>1
<1>2. CASE options = NoOptions
  BY <1>2 DEF NoOptions
<1> QED
  BY <1>1, <1>2

LEMMA CliInitially == LibraryInit /\ CliInit => CliInvariant
<1> SUFFICES ASSUME LibraryInit, CliInit
             PROVE  CliInvariant
  OBVIOUS
<1> USE DEF LibraryInit, CliInit, Empty, Built, Serving, Leaving
<1>1. Main
  BY DEF Main
<1>2. Output
  BY DEF Output
<1>5. Ending
  <2>1. status # 0
    OBVIOUS
  <2> QED
    BY <2>1, Zenon DEF Ending
<1>3. Thread
  BY DEF Thread
<1>4. Counts
  BY DEF Counts
<1> QED
  BY <1>1, <1>2, <1>3, <1>4, <1>5 DEF CliInvariant

LEMMA OneIsNotZero == 1 # 0
OBVIOUS

LEMMA FailureIsReported ==
    ASSUME status # 0, OpenOutput \/ CloseAndReturn("give up", 1)
    PROVE  status' # 0
<1>1. CASE status' = 1
  BY <1>1, OneIsNotZero, Zenon
<1>2. CASE status' = status
  BY <1>2
<1>3. OpenOutput => status' = 1 \/ status' = status
  BY Zenon DEF OpenOutput, MainReturns
<1>4. CloseAndReturn("give up", 1) => status' = 1
  BY DEF CloseAndReturn, MainReturns
<1> QED
  BY <1>1, <1>2, <1>3, <1>4

\* One more frame seen is no reason less.
LEMMA SeeKeepsReason ==
    ASSUME Output, Counts, SeeFrame
    PROVE  Reason => Reason'
<1>1. options.count \in Nat
  BY LimitsAreNumbers DEF Output
<1>2. framesSeen \in Nat /\ framesSeen' = framesSeen + 1
  BY DEF Counts, SeeFrame
<1>3. UNCHANGED <<options, interrupted>>
  BY DEF SeeFrame, mainVars
<1> QED
  BY <1>1, <1>2, <1>3 DEF Reason

LEMMA SeeKeepsCounts ==
    ASSUME Main, Thread, Counts, SeeFrame
    PROVE  Counts'
<1>1. main' \in Serving /\ step = "see" /\ step' = "write"
  BY DEF Main, Thread, SeeFrame, CallbackGoesOn, mainVars
<1>2. framesSeen \in Nat /\ framesSeen' = framesSeen + 1
      /\ framesReceived' = framesSeen
  BY <1>1 DEF Counts, SeeFrame, CallbackGoesOn
<1>3. seenIncomplete \in Nat /\ Dropped \in Nat /\ Dropped' = Dropped
      /\ seenIncomplete' = seenIncomplete + Dropped
      /\ framesDropped' = seenIncomplete
  BY <1>1 DEF Counts, SeeFrame, CallbackGoesOn, Dropped
<1>4. framesReceived' = framesSeen' - 1
  BY <1>2
<1>5. seenIncomplete' \in Nat /\ framesDropped' = seenIncomplete' - Dropped'
  BY <1>3
<1> QED
  BY <1>1, <1>2, <1>4, <1>5 DEF Counts, Serving

LEMMA ReportKeepsCounts ==
    ASSUME Main, Thread, Counts, Report
    PROVE  Counts'
<1>1. main' \in Serving /\ step = "report" /\ step' = "limit"
  BY DEF Main, Thread, Report, CallbackGoesOn, mainVars
<1>2. UNCHANGED <<framesSeen, seenIncomplete, framesReceived, framesDropped,
                  frame>>
  BY DEF Report, CallbackGoesOn
<1>3. framesReceived = framesSeen - 1
  BY <1>1 DEF Counts
<1>4. ReportIsDue' = ReportIsDue
  BY DEF Report, mainVars, ReportIsDue
<1>5. ReportIsDue' => printed'[1] = framesReceived
  BY <1>4 DEF Report, PrintStats
<1> QED
  BY <1>1, <1>2, <1>3, <1>5 DEF Counts, Serving, Dropped

LEMMA CountKeepsCounts ==
    ASSUME Main, Thread, Counts, CliFrameIsCounted
    PROVE  Counts'
<1>1. main' \in Serving /\ step = "count" /\ step' = "out"
  BY DEF Main, Thread, CliFrameIsCounted, CountFrame, cliVars
<1>2. UNCHANGED <<framesSeen, seenIncomplete>>
  BY DEF CliFrameIsCounted, cliVars
<1>3. framesReceived = framesSeen - 1 /\ framesSeen \in Nat
      /\ framesDropped = seenIncomplete - Dropped /\ Dropped \in Nat
      /\ seenIncomplete \in Nat
  BY <1>1 DEF Counts, Dropped
<1>4. framesReceived' = framesReceived + 1
      /\ framesDropped' = framesDropped + Dropped
  BY DEF CliFrameIsCounted, CountFrame, CountedAsReceived, Dropped
<1>5. framesReceived' = framesSeen' /\ framesDropped' = seenIncomplete'
  BY <1>2, <1>3, <1>4
<1> QED
  BY <1>1, <1>2, <1>3, <1>5 DEF Counts, Serving

LEMMA MainStep ==
    CliInvariant /\ MainGoesOn => CliInvariant'
<1> SUFFICES ASSUME Main, Output, Ending, Thread, Counts, MainGoesOn
             PROVE  CliInvariant'
  BY DEF CliInvariant
<1> USE DEF CliInvariant, Main, Output, Ending, Thread, Counts, Empty,
            Built, Serving, Leaving, Dropped, Reason, ReportIsDue,
            libraryVars, callbackVars
<1>1. CASE ThreadEnds /\ UNCHANGED cliVars
  BY <1>1 DEF ThreadEnds, Promise!ThreadEnds, cliVars
<1>2. CASE OpenOutput
  <2> USE <1>2 DEF OpenOutput, MainReturns
  <2>1. Main'
    OBVIOUS
  <2>2. step = "out" /\ ~open
    OBVIOUS
  <2>3. Output'
    <3>1. options' \in Options => options'.output \in BOOLEAN
      BY OptionsAssumption
    <3> QED
      BY <3>1
  <2>5. status # 0
    OBVIOUS
  <2>6. status' # 0
    BY <2>5, FailureIsReported
  <2>7. Ending'
    BY <2>6
  <2>4. Thread' /\ Counts'
    BY <2>2
  <2> QED
    BY <2>1, <2>3, <2>4, <2>7
<1>3. CASE Create
  <2>1. CASE CreateSucceeds(CliConfig) /\ cliRx' = TRUE /\ main' = "signal"
    BY <1>3, <2>1 DEF Create, CreateSucceeds
  <2>2. CASE CreateFails(CliConfig) /\ main' = "give up" /\ UNCHANGED cliRx
    <3>1. memory' = {}
      BY <1>3, <2>2, CliCreateFreesAll DEF Create, CreateFails
    <3> QED
      BY <1>3, <2>2, <3>1 DEF Create, CreateFails
  <2> QED
    BY <1>3, <2>1, <2>2 DEF Create
<1>4. CASE InstallHandler
  BY <1>4 DEF InstallHandler
<1>5. CASE MainCalls("starting", {"stopped"}, "start", "starting")
  BY <1>5 DEF MainCalls, Call, Promise!Enter
<1>6. CASE Started
  BY <1>6 DEF Started, StartReturns, Promise!StartReturns
<1>7. CASE SeeStopRequest
  BY <1>7 DEF SeeStopRequest
<1>8. CASE MainCalls("stopping", {"started"}, "stop", "stopping")
  BY <1>8 DEF MainCalls, Call, Promise!Enter
<1>9. CASE Stopped
  BY <1>9 DEF Stopped, StopReturns, Promise!StopReturns
<1>10. CASE PrintFinalStats
  BY <1>10 DEF PrintFinalStats, PrintStats
<1>11. CASE MainCalls("destroying", {"stopped"}, "destroy", "destroying")
  BY <1>11 DEF MainCalls, Call, Promise!Enter
<1>12. CASE Destroyed("destroying", "close")
  BY <1>12 DEF Destroyed, DestroyReturns, Promise!DestroyReturns
<1>13. CASE CloseAndReturn("close", 0)
  BY <1>13 DEF CloseAndReturn, MainReturns
<1>14. CASE MainCalls("destroying", {"stopped"}, "undo", "undoing")
  BY <1>14 DEF MainCalls, Call, Promise!Enter
<1>15. CASE Destroyed("undoing", "give up")
  <2> USE <1>15 DEF Destroyed, DestroyReturns, Promise!DestroyReturns
  <2>1. Main' /\ Thread'
    OBVIOUS
  <2>2. Output'
    OBVIOUS
  <2>4. Ending'
    OBVIOUS
  <2>3. Counts'
    OBVIOUS
  <2> QED
    BY <2>1, <2>2, <2>3, <2>4
<1>16. CASE CloseAndReturn("give up", 1)
  <2> USE <1>16 DEF CloseAndReturn, MainReturns
  <2>1. Main' /\ Thread'
    OBVIOUS
  <2>2. Output'
    OBVIOUS
  <2>4. Ending'
    <3>1. status # 0
      OBVIOUS
    <3>2. status' # 0
      BY <3>1, FailureIsReported
    <3> QED
      BY <3>2
  <2>3. Counts'
    OBVIOUS
  <2> QED
    BY <2>1, <2>2, <2>3, <2>4
<1> QED
  BY <1>1, <1>2, <1>3, <1>4, <1>5, <1>6, <1>7, <1>8, <1>9, <1>10, <1>11,
     <1>12, <1>13, <1>14, <1>15, <1>16 DEF MainGoesOn

LEMMA CallbackStep ==
    CliInvariant /\ (CliFrameArrives \/ CliReceiveThread) => CliInvariant'
<1> SUFFICES ASSUME Main, Output, Ending, Thread, Counts,
                    CliFrameArrives \/ CliReceiveThread
             PROVE  CliInvariant'
  BY DEF CliInvariant
<1> USE DEF CliInvariant, Main, Output, Ending, Thread, Counts, Empty,
            Built, Serving, Leaving, Dropped, Reason, mainVars, cliVars
<1>1. CASE CliFrameArrives
  <2> USE <1>1 DEF CliFrameArrives, DeliverFrame, Promise!CallbackBegins
  <2>1. Main' /\ Thread'
    OBVIOUS
  <2>2. Output'
    OBVIOUS
  <2>4. Ending'
    OBVIOUS
  <2>3. Counts'
    OBVIOUS
  <2> QED
    BY <2>1, <2>2, <2>3, <2>4
<1>2. CASE SeeFrame
  <2> USE <1>2, LimitsAreNumbers DEF SeeFrame, CallbackGoesOn
  <2>1. Main' /\ Thread'
    OBVIOUS
  <2>2. Output'
    OBVIOUS
  <2>4. Ending'
    <3>1. Reason => Reason'
      BY SeeKeepsReason
    <3> HIDE DEF Reason
    <3> QED
      BY <3>1
  <2>3. Counts'
    BY SeeKeepsCounts
  <2> QED
    BY <2>1, <2>2, <2>3, <2>4
<1>3. CASE WriteFrame
  <2> USE <1>3 DEF WriteFrame, CallbackGoesOn
  <2>1. Main' /\ Thread'
    OBVIOUS
  <2>2. Output'
    OBVIOUS
  <2>4. Ending'
    OBVIOUS
  <2>3. Counts'
    OBVIOUS
  <2> QED
    BY <2>1, <2>2, <2>3, <2>4
<1>4. CASE Report
  <2> USE <1>4 DEF Report, CallbackGoesOn, PrintStats, ReportIsDue
  <2>1. Main' /\ Thread'
    OBVIOUS
  <2>2. Output'
    OBVIOUS
  <2>4. Ending'
    OBVIOUS
  <2>3. Counts'
    BY ReportKeepsCounts
  <2> QED
    BY <2>1, <2>2, <2>3, <2>4
<1>5. CASE CheckLimit
  <2> USE <1>5, LimitsAreNumbers
      DEF CheckLimit, CallbackGoesOn, LimitReached
  <2>1. Main' /\ Thread'
    OBVIOUS
  <2>2. Output'
    OBVIOUS
  <2>4. Ending'
    OBVIOUS
  <2>3. Counts'
    OBVIOUS
  <2> QED
    BY <2>1, <2>2, <2>3, <2>4
<1>6. CASE CliFrameIsCounted
  <2> USE <1>6
      DEF CliFrameIsCounted, CountFrame, CountedAsReceived,
          Promise!CallbackEnds
  <2>1. Main' /\ Thread'
    OBVIOUS
  <2>2. Output'
    OBVIOUS
  <2>4. Ending'
    OBVIOUS
  <2>3. Counts'
    BY CountKeepsCounts
  <2> QED
    BY <2>1, <2>2, <2>3, <2>4
<1> QED
  BY <1>1, <1>2, <1>3, <1>4, <1>5, <1>6 DEF CliReceiveThread

LEMMA CliStep ==
    CliInvariant /\ [CliNext]_<<libraryVars, cliVars>> => CliInvariant'
<1> SUFFICES ASSUME CliInvariant, [CliNext]_<<libraryVars, cliVars>>
             PROVE  CliInvariant'
  OBVIOUS
<1> USE DEF CliInvariant, Main, Output, Ending, Thread, Counts, Empty,
            Built, Serving, Leaving, Dropped, Reason, ReportIsDue,
            libraryVars, cliVars
<1>1. CASE Interrupt
  BY <1>1 DEF Interrupt
<1>2. CASE UNCHANGED <<libraryVars, cliVars>>
  <2> USE <1>2
  <2>1. Main' /\ Thread'
    OBVIOUS
  <2>2. Output'
    OBVIOUS
  <2>4. Ending'
    OBVIOUS
  <2>3. Counts'
    OBVIOUS
  <2> QED
    BY <2>1, <2>2, <2>3, <2>4
<1> QED
  BY <1>1, <1>2, MainStep, CallbackStep DEF CliNext

LEMMA CliInvariance == CliSpec => []CliInvariant
BY CliInitially, CliStep, PTL DEF CliSpec
-----------------------------------------------------------------------------
\* The statistics printed at the end are those of every frame the callback
\* was given; those printed within the callback lag one frame behind.
THEOREM StatsFollow == CliSpec => []StatsFollowTheCallback
<1>1. CliInvariant => StatsFollowTheCallback
  BY DEF CliInvariant, Counts, StatsFollowTheCallback
<1> QED
  BY <1>1, CliInvariance, PTL

\* No frame is written to a file that is closed, and no report asks a
\* receiver that has been freed.
THEOREM OutputOutlives == CliSpec => []OutputOutlivesCallback
<1>1. CliInvariant => OutputOutlivesCallback
  BY DEF CliInvariant, Main, Output, Ending, Thread, Empty, Serving, Blocks,
         OutputOutlivesCallback
<1> QED
  BY <1>1, CliInvariance, PTL

\* The program ends with 0 only after SIGINT or at its limit, and whenever it
\* ends it has closed its file and freed its receiver.
THEOREM EndsForAReason == CliSpec => []StopsForAReason
<1>1. CliInvariant => StopsForAReason
  BY DEF CliInvariant, Main, Output, Ending, Thread, Empty, Serving, Reason,
         StopsForAReason
<1> QED
  BY <1>1, CliInvariance, PTL
=============================================================================
