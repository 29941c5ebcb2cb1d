--------------------------- MODULE ObsSourceProofs --------------------------
(***************************************************************************)
(* Theorems about ObsSource, for all limits of the library, settings of    *)
(* the user and numbers of frames.                                         *)
(***************************************************************************)
EXTENDS ObsSource, TLAPS

LEMMA Limits ==
    /\ MaxWidth \in Nat /\ MaxHeight \in Nat /\ UintMod \in Nat
    /\ 4 * MaxWidth < UintMod
BY LimitsAssumption
-----------------------------------------------------------------------------
(* The inductive invariant, in three parts: how far the call of OBS has    *)
(* come with the receiver; where the receive thread is; that the receiver  *)
(* has the size OBS is told.                                               *)

Owner ==
    /\ rx \in BOOLEAN
    /\ rx => service \in {"stopped", "starting", "started", "destroying"}
    /\ ~rx => service = "destroyed"
    /\ rx => memory = Blocks
    /\ ~rx => memory = {}
    /\ caller \in {"none", "freed", "configure", "build", "free"} => ~rx
    /\ caller \in {"idle", "teardown", "teardown to free"} /\ rx =>
           service = "started"
    /\ caller \in {"start", "undo"} => service = "stopped"
    /\ caller = "starting" => service = "starting"
    /\ caller \in {"destroying", "destroying to free", "undoing"} =>
           service = "destroying"

Thread ==
    /\ calling \in BOOLEAN /\ open \in BOOLEAN
    /\ step # "out" => calling
    /\ calling => open
    /\ open => service \in {"starting", "started", "destroying"}

\* A configuration that a receiver has been created from.
Accepted(c) ==
    /\ c \in Configs
    /\ c.output = "uyvy"
    /\ CreateAccepts(c) /\ AssemblerAccepts(c)

Size ==
    /\ settings \in Settings \cup {NoSettings}
    /\ caller = "build" =>
           width = settings.width /\ height = settings.height
    /\ rx => /\ Accepted(config)
             /\ width = config.width /\ height = config.height
    /\ step = "show" =>
           \E incomplete \in BOOLEAN : frame = FrameOf(config, incomplete)

SourceInvariant == Owner /\ Thread /\ Size
-----------------------------------------------------------------------------
\* Whichever step of st2110rx_create fails, nothing stays allocated.
LEMMA FailingCreateFreesAll ==
    ASSUME NEW failing \in DOMAIN FreedAfter
    PROVE  AllocatedBefore[failing] \ FreedAfter[failing] = {}
BY DEF AllocatedBefore, FreedAfter

LEMMA SettingsAreConfigs ==
    ASSUME settings \in Settings \cup {NoSettings}
    PROVE  Config \in Configs
<1>1. UintMod \in Nat /\ 0 \in 0 .. UintMod - 1
  BY Limits
<1>2. /\ settings.named \in BOOLEAN
      /\ settings.width \in 0 .. UintMod - 1
      /\ settings.height \in 0 .. UintMod - 1
      /\ settings.input \in Formats
  <2>1. CASE settings \in Settings
    <3>1. settings \in [named : BOOLEAN, width : 0 .. UintMod - 1,
                        height : 0 .. UintMod - 1, input : Formats]
      BY <2>1, SettingsAssumption
    <3> QED
      BY <3>1
  <2>2. CASE settings = NoSettings
    BY <1>1, <2>2 DEF NoSettings, Formats
  <2> QED
    BY <2>1, <2>2
<1> QED
  BY <1>2 DEF Config, Configs, Formats

\* The products of an accepted size do not wrap, and a line of the frame, as
\* of what it is converted from, fits the stride.
LEMMA AcceptedFramesFit ==
    ASSUME NEW c, Accepted(c), NEW incomplete \in BOOLEAN
    PROVE  LET f == FrameOf(c, incomplete)
           IN  /\ f.format = "uyvy"
               /\ f.width = c.width /\ f.height = c.height
               /\ f.data \in {"convert", "deliver"}
               /\ LineBytes(f.format, f.width) <= f.linesize
               /\ f.data = "convert" =>
                      LineBytes(c.input, c.width) <= FillStride(c)
<1>1. /\ c.width \in Nat /\ c.width <= MaxWidth /\ c.width % 2 = 0
      /\ c.input \in {"10bit", "uyvy"} /\ c.output = "uyvy"
  BY Limits DEF Accepted, Configs, CreateAccepts, AssemblerAccepts
<1>2. /\ c.width \div 2 \in Nat
      /\ c.width = 2 * (c.width \div 2)
  BY <1>1
<1>3. /\ (c.width \div 2) * 5 < UintMod /\ (c.width \div 2) * 4 < UintMod
      /\ c.width * 2 < UintMod
  BY <1>1, <1>2, Limits
<1>4. ASSUME NEW n \in Nat, n < UintMod
      PROVE  n % UintMod = n
  BY <1>4, Limits
<1>5. ConvertStride(c) = c.width * 2
  BY <1>1, <1>3, <1>4 DEF ConvertStride
<1>6. CASE c.input = "10bit"
  <2>1. FillStride(c) = (c.width \div 2) * 5
    BY <1>2, <1>3, <1>4, <1>6 DEF FillStride
  <2> QED
    BY <1>1, <1>5, <1>6, <2>1 DEF FrameOf, LineBytes
<1>7. CASE c.input = "uyvy"
  <2>1. FillStride(c) = (c.width \div 2) * 4
    BY <1>2, <1>3, <1>4, <1>7 DEF FillStride
  <2> QED
    BY <1>1, <1>2, <1>7, <2>1 DEF FrameOf, LineBytes
<1> QED
  BY <1>1, <1>6, <1>7
-----------------------------------------------------------------------------
LEMMA SourceInit == Init => SourceInvariant
BY DEF Init, LibraryInit, SourceInvariant, Owner, Thread, Size

LEMMA SourceNext == SourceInvariant /\ [Next]_vars => SourceInvariant'
<1> SUFFICES ASSUME Owner, Thread, Size, [Next]_vars
             PROVE  SourceInvariant'
  BY DEF SourceInvariant
<1> USE DEF SourceInvariant, Owner, Thread, Size, libraryVars
<1>1. CASE CreateOrUpdate
  BY <1>1 DEF CreateOrUpdate
<1>2. CASE Destroy
  BY <1>2 DEF Destroy
<1>3. ASSUME NEW from \in {"teardown", "teardown to free", "undo"},
             NEW waiting, NEW after, DestroyReceiver(from, waiting, after),
             <<from, waiting, after>> \in
                 {<<"teardown", "destroying", "configure">>,
                  <<"teardown to free", "destroying to free", "free">>,
                  <<"undo", "undoing", "idle">>}
      PROVE  SourceInvariant'
  <2>1. CASE /\ caller = from /\ rx
             /\ Call("destroying", {"stopped", "started"})
             /\ ClearedWhileDestroying
             /\ caller' = waiting
             /\ UNCHANGED <<settings, width, height, logged>>
    BY <1>3, <2>1 DEF Call, Promise!Enter, ClearedWhileDestroying
  <2>2. CASE /\ caller = from /\ ~rx
             /\ caller' = after
             /\ UNCHANGED <<libraryVars, settings, rx, width, height,
                            logged>>
    BY <1>3, <2>2
  <2>3. CASE /\ caller = waiting
             /\ DestroyReturns
             /\ rx' = FALSE
             /\ caller' = after
             /\ UNCHANGED <<settings, width, height, logged>>
    BY <1>3, <2>3 DEF DestroyReturns, Promise!DestroyReturns
  <2> QED
    BY <1>3, <2>1, <2>2, <2>3 DEF DestroyReceiver
<1>4. CASE ThreadEnds /\ UNCHANGED sourceVars
  BY <1>4 DEF ThreadEnds, Promise!ThreadEnds, sourceVars
<1>5. CASE Configure
  BY <1>5 DEF Configure
<1>6. CASE BuildReceiver
  <2>1. /\ caller = "build" /\ ~rx /\ step = "out" /\ ~calling /\ ~open
        /\ memory = {}
        /\ UNCHANGED <<settings, width, height>>
    BY <1>6 DEF BuildReceiver
  <2>2. CASE CreateSucceeds(Config) /\ rx' = TRUE /\ caller' = "start"
    <3>1. Accepted(Config)
      BY <2>2, SettingsAreConfigs DEF Accepted, CreateSucceeds, Config
    <3>2. config' = Config /\ service' = "stopped"
      BY <2>2 DEF CreateSucceeds
    <3>3. Accepted(config')
      BY <3>1, <3>2
    <3>4. config'.width = width /\ config'.height = height
      BY <2>1, <3>2 DEF Config
    <3> QED
      BY <2>1, <2>2, <3>2, <3>3, <3>4 DEF CreateSucceeds, Accepted
  <2>3. CASE CreateFails(Config) /\ rx' = FALSE /\ caller' = "idle"
    <3>1. memory' = {}
      BY <2>1, <2>3, FailingCreateFreesAll DEF CreateFails
    <3> QED
      BY <2>1, <2>3, <3>1 DEF CreateFails
  <2> QED
    BY <1>6, <2>2, <2>3 DEF BuildReceiver
<1>7. CASE StartReceiver
  BY <1>7 DEF StartReceiver, Call, Promise!Enter
<1>8. CASE ReceiverStarted
  BY <1>8 DEF ReceiverStarted, StartReturns, Promise!StartReturns
<1>9. CASE FreeSource
  BY <1>9 DEF FreeSource
<1>10. CASE FrameArrives
  BY <1>10 DEF FrameArrives, DeliverFrame, Promise!CallbackBegins,
               sourceVars
<1>11. CASE ReceiveThread
  BY <1>11 DEF ReceiveThread, ShowFrame, NoLogYet, TimeToLog, CheckReceiver,
               GetStats, FrameIsCounted, CallbackGoesOn, CountFrame,
               Promise!CallbackEnds, sourceVars
<1>12. CASE UNCHANGED vars
  BY <1>12 DEF vars, sourceVars
<1> QED
  BY <1>1, <1>2, <1>3, <1>4, <1>5, <1>6, <1>7, <1>8, <1>9, <1>10, <1>11,
     <1>12 DEF Next, CallGoesOn

LEMMA SourceInvariance == Spec => []SourceInvariant
BY SourceInit, SourceNext, PTL DEF Spec
-----------------------------------------------------------------------------
\* As long as the frame callback of the plugin runs, the source it was given
\* has not been freed, ctx->rx is set, and its receiver has not been freed.
THEOREM CallbackKeepsItsSource == Spec => []CallbackHasItsSource
<1>1. SourceInvariant => CallbackHasItsSource
  BY DEF SourceInvariant, Owner, Thread, CallbackHasItsSource, InCallback,
         Blocks
<1> QED
  BY <1>1, SourceInvariance, PTL

\* A frame that the plugin shows has the size and the format OBS is told of,
\* and lies in a buffer that is large enough, for every size the user sets:
\* none that is accepted makes a 32-bit stride wrap around.
THEOREM ShownFramesAreSound == Spec => []ShownFrameIsSound
<1>1. ASSUME SourceInvariant, step = "show"
      PROVE  ShownFrameIsSound
  <2>1. PICK incomplete \in BOOLEAN : frame = FrameOf(config, incomplete)
    BY <1>1 DEF SourceInvariant, Size
  <2>2. rx
    BY <1>1 DEF SourceInvariant, Owner, Thread
  <2>3. /\ Accepted(config)
        /\ width = config.width /\ height = config.height
        /\ memory = Blocks
    BY <1>1, <2>2 DEF SourceInvariant, Owner, Size
  <2>4. /\ frame.format = "uyvy"
        /\ frame.width = config.width /\ frame.height = config.height
        /\ frame.data \in {"convert", "deliver"}
        /\ LineBytes(frame.format, frame.width) <= frame.linesize
        /\ frame.data = "convert" =>
               LineBytes(config.input, config.width) <= FillStride(config)
    BY <2>1, <2>3, AcceptedFramesFit
  <2> QED
    BY <2>3, <2>4 DEF ShownFrameIsSound, FitsItsBuffer, Blocks
<1>2. SourceInvariant => ShownFrameIsSound
  BY <1>1 DEF ShownFrameIsSound
<1> QED
  BY <1>2, SourceInvariance, PTL

\* Between two calls of OBS there is a started receiver with all its memory,
\* or none and nothing left of it, whichever calls failed.
THEOREM SourceLeaksNothing == Spec => []NothingLeaks
<1>1. SourceInvariant => NothingLeaks
  BY DEF SourceInvariant, Owner, NothingLeaks
<1> QED
  BY <1>1, SourceInvariance, PTL
=============================================================================
