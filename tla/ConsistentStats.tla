--------------------------- MODULE ConsistentStats --------------------------
(***************************************************************************)
(* What rx_stats_snapshot promises about the pair of jitter and mean gap   *)
(* (rx_stats.c:82): both values of a snapshot belong to one packet, and to *)
(* one whose pair was current at some time during the call.  Only a call   *)
(* that has used up its attempts may return a torn pair.                   *)
(*                                                                         *)
(* The pair the n-th update leaves behind is written as version n.         *)
(***************************************************************************)
EXTENDS Naturals

VARIABLES version,  \* version of the pair that is current
          calling,  \* whether a snapshot is being taken
          since,    \* version that was current when the call began
          result    \* the pair the last call has returned, and whether the
                    \* call is sure of it

vars == <<version, calling, since, result>>

NoResult == [jitter |-> 0, gap |-> 0, sure |-> FALSE]

Init ==
    /\ version = 0
    /\ calling = FALSE
    /\ since = 0
    /\ result = NoResult

Update ==
    /\ version' = version + 1
    /\ UNCHANGED <<calling, since, result>>

Call ==
    /\ ~calling
    /\ calling' = TRUE
    /\ since' = version
    /\ result' = NoResult
    /\ UNCHANGED version

\* A call returns a pair that was current during the call.
Return ==
    /\ calling
    /\ calling' = FALSE
    /\ \E v \in since .. version :
           result' = [jitter |-> v, gap |-> v, sure |-> TRUE]
    /\ since' = 0
    /\ UNCHANGED version

\* A call that gives up returns two values that are no older than the call;
\* each may be of an update that is under way.
GiveUp ==
    /\ calling
    /\ calling' = FALSE
    /\ \E j, g \in since .. version + 1 :
           result' = [jitter |-> j, gap |-> g, sure |-> FALSE]
    /\ since' = 0
    /\ UNCHANGED version

Next == Update \/ Call \/ Return \/ GiveUp

Spec == Init /\ [][Next]_vars
=============================================================================
