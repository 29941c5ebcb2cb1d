------------------------------ MODULE ObsSource -----------------------------
(***************************************************************************)
(* obs-st2110-source.c: a source of the OBS plugin.  OBS creates, updates  *)
(* and destroys it, one call at a time; each update tears the receiver     *)
(* down and creates another.  Beside it the receive thread is in the frame *)
(* callback, which shows the frame and now and then logs the statistics of *)
(* ctx->rx.                                                                *)
(***************************************************************************)
EXTENDS ReceiverLibrary

CONSTANT Settings   \* what the user may set: configs without an output

ASSUME SettingsAssumption ==
    Settings \subseteq [named : BOOLEAN, width : 0 .. UintMod - 1,
                        height : 0 .. UintMod - 1, input : Formats]

VARIABLES caller,         \* next step of the call of OBS
          settings,       \* its argument
          rx,             \* ctx->rx is not NULL
          width, height,  \* the cached size
          logged          \* last_log_time_ns is not 0

sourceVars == <<caller, settings, rx, width, height, logged>>
vars == <<libraryVars, sourceVars>>

CallSteps == {"teardown", "destroying", "configure", "build", "start",
              "starting", "undo", "undoing"}
FreeSteps == {"teardown to free", "destroying to free", "free"}

NoSettings == [named |-> FALSE, width |-> 0, height |-> 0, input |-> "uyvy"]

TypeOK ==
    /\ caller \in CallSteps \cup FreeSteps \cup {"none", "idle", "freed"}
    /\ settings \in Settings \cup {NoSettings}
    /\ rx \in BOOLEAN
    /\ width \in Nat /\ height \in Nat
    /\ logged \in BOOLEAN

\* bzalloc.
Init ==
    /\ LibraryInit
    /\ caller = "none"
    /\ settings = NoSettings
    /\ rx = FALSE
    /\ width = 0 /\ height = 0
    /\ logged = FALSE
-----------------------------------------------------------------------------
(* The calls of OBS.                                                       *)

\* st2110_create and st2110_update: both go into st2110_create_receiver.
CreateOrUpdate ==
    /\ caller \in {"none", "idle"}
    /\ settings' \in Settings
    /\ caller' = "teardown"
    /\ UNCHANGED <<libraryVars, rx, width, height, logged>>

\* st2110_destroy.
Destroy ==
    /\ caller = "idle"
    /\ caller' = "teardown to free"
    /\ UNCHANGED <<libraryVars, settings, rx, width, height, logged>>

\* Mutant: ctx->rx is set to NULL before the receiver is destroyed.
ClearedWhileDestroying_First == rx' = FALSE

ClearedWhileDestroying == UNCHANGED rx

\* st2110_destroy_receiver: st2110rx_destroy is called, if there is a
\* receiver, and ctx->rx is cleared when it has returned.
DestroyReceiver(from, waiting, after) ==
    \/ /\ caller = from /\ rx
       /\ Call("destroying", {"stopped", "started"})
       /\ ClearedWhileDestroying
       /\ caller' = waiting
       /\ UNCHANGED <<settings, width, height, logged>>
    \/ /\ caller = from /\ ~rx
       /\ caller' = after
       /\ UNCHANGED <<libraryVars, settings, rx, width, height, logged>>
    \/ /\ caller = waiting
       /\ DestroyReturns
       /\ rx' = FALSE
       /\ caller' = after
       /\ UNCHANGED <<settings, width, height, logged>>

\* Without a size or an address the call returns, with the old size cached.
Configure ==
    /\ caller = "configure"
    /\ IF settings.named /\ settings.width # 0 /\ settings.height # 0
       THEN /\ width' = settings.width
            /\ height' = settings.height
            /\ caller' = "build"
       ELSE /\ caller' = "idle"
            /\ UNCHANGED <<width, height>>
    /\ UNCHANGED <<libraryVars, settings, rx, logged>>

Config == [named  |-> settings.named, width |-> settings.width,
           height |-> settings.height, input |-> settings.input,
           output |-> "uyvy"]

BuildReceiver ==
    /\ caller = "build"
    /\ \/ CreateSucceeds(Config) /\ rx' = TRUE /\ caller' = "start"
       \/ CreateFails(Config) /\ rx' = FALSE /\ caller' = "idle"
    /\ UNCHANGED <<settings, width, height, logged>>

StartReceiver ==
    /\ caller = "start"
    /\ Call("starting", {"stopped"})
    /\ caller' = "starting"
    /\ UNCHANGED <<settings, rx, width, height, logged>>

ReceiverStarted ==
    /\ caller = "starting"
    /\ StartReturns
    /\ caller' = IF service' = "started" THEN "idle" ELSE "undo"
    /\ UNCHANGED <<settings, rx, width, height, logged>>

\* bfree.
FreeSource ==
    /\ caller = "free"
    /\ caller' = "freed"
    /\ UNCHANGED <<libraryVars, settings, rx, width, height, logged>>

CallGoesOn ==
    \/ ThreadEnds /\ UNCHANGED sourceVars
    \/ DestroyReceiver("teardown", "destroying", "configure")
    \/ DestroyReceiver("teardown to free", "destroying to free", "free")
    \/ Configure
    \/ BuildReceiver
    \/ StartReceiver
    \/ ReceiverStarted
    \/ DestroyReceiver("undo", "undoing", "idle")
    \/ FreeSource
-----------------------------------------------------------------------------
(* The frame callback.                                                     *)

FrameArrives == DeliverFrame("show") /\ UNCHANGED sourceVars

\* obs_source_output_video copies the frame; then it may be time to log.
ShowFrame ==
    /\ CallbackGoesOn("show", "time")
    /\ UNCHANGED sourceVars

\* Less than five seconds since the last line, or no line yet.
NoLogYet ==
    /\ CallbackGoesOn("time", "count")
    /\ logged' = TRUE
    /\ UNCHANGED <<caller, settings, rx, width, height>>

TimeToLog ==
    /\ logged
    /\ CallbackGoesOn("time", "check")
    /\ UNCHANGED sourceVars

\* Mutant: a lock that the calls of OBS hold protects ctx->rx.
MayReadReceiver_Locked == caller = "idle"

MayReadReceiver == TRUE

\* The condition reads ctx->rx, and the call of st2110rx_get_stats reads it
\* again.
CheckReceiver ==
    /\ MayReadReceiver
    /\ CallbackGoesOn("check", IF rx THEN "get stats" ELSE "count")
    /\ UNCHANGED sourceVars

GetStats ==
    /\ CallbackGoesOn("get stats", "count")
    /\ UNCHANGED sourceVars

FrameIsCounted == CountFrame /\ UNCHANGED sourceVars

ReceiveThread ==
    \/ ShowFrame
    \/ NoLogYet
    \/ TimeToLog
    \/ CheckReceiver
    \/ GetStats
    \/ FrameIsCounted
-----------------------------------------------------------------------------
Next ==
    \/ CreateOrUpdate
    \/ Destroy
    \/ CallGoesOn
    \/ FrameArrives
    \/ ReceiveThread

Spec == Init /\ [][Next]_vars
-----------------------------------------------------------------------------
InCallback == step \in {"show", "time", "check", "get stats"}

\* As long as the callback runs, the source it was given exists, and ctx->rx
\* is the receiver whose thread runs it: neither of its two readings of
\* ctx->rx finds NULL or a receiver that has been freed.
CallbackHasItsSource ==
    InCallback =>
        /\ caller \notin {"none", "free", "freed"}
        /\ rx
        /\ service # "destroyed"
        /\ "rx" \in memory

\* Every frame shown is what the source tells OBS about it: UYVY of the size
\* OBS is told by get_width and get_height, lying in its buffer.
ShownFrameIsSound ==
    step = "show" =>
        /\ frame.format = "uyvy"
        /\ frame.width = width /\ frame.height = height
        /\ FitsItsBuffer(frame)

\* Between two calls there is a receiver with all its memory, started, or
\* none with nothing left of it, whatever failed, however often the settings
\* were changed.
NothingLeaks ==
    caller \in {"idle", "freed"} =>
        IF rx THEN service = "started" /\ memory = Blocks
              ELSE service = "destroyed" /\ memory = {}

\* Every call of OBS returns: the callback never waits for a call that waits
\* for the callback.
CallsReturn ==
    caller \in CallSteps \cup FreeSteps ~> caller \in {"idle", "freed"}
=============================================================================
