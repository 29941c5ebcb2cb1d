--------------------------- MODULE ReceiverBuilds ---------------------------
(***************************************************************************)
(* The receiver in either build of the library: the one for Windows, whose *)
(* thread works a pool of buffers, or the one for Linux, whose thread      *)
(* blocks in recvfrom.  A process has one of the two for good.  The        *)
(* properties are those of ReceiverLifecycle, none of which asks which     *)
(* build it is.                                                            *)
(***************************************************************************)
EXTENDS ReceiverLifecycle

VARIABLE build

Windows == INSTANCE ReceiverLifecycle WITH Iocp <- TRUE
Linux == INSTANCE ReceiverLifecycle WITH Iocp <- FALSE

buildVars == <<vars, build>>

BuildsInit == Init /\ build \in {"windows", "linux"}

OnWindows(A) == build = "windows" /\ A /\ UNCHANGED build

OnLinux(A) == build = "linux" /\ A /\ UNCHANGED build

BuildsNext == OnWindows(Windows!Next) \/ OnLinux(Linux!Next)

\* The fairness of ReceiverLifecycle in either build.
BuildsSpec ==
    /\ BuildsInit
    /\ [][BuildsNext]_buildVars
    /\ WF_buildVars(OnWindows(Windows!StartStep))
    /\ WF_buildVars(OnWindows(Windows!StopStep))
    /\ WF_buildVars(OnWindows(Windows!ReceiveThread))
    /\ WF_buildVars(OnWindows(Windows!CancelReceive))
    /\ WF_buildVars(OnLinux(Linux!StartStep))
    /\ WF_buildVars(OnLinux(Linux!StopStep))
    /\ WF_buildVars(OnLinux(Linux!ReceiveThread))
=============================================================================
