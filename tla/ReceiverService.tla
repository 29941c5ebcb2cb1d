--------------------------- MODULE ReceiverService --------------------------
(***************************************************************************)
(* What the API of st2110rx.h promises the owner of a receiver: frames are *)
(* handed to the owner's callback only between the beginning of a start    *)
(* and the return of the stop or destroy that follows it, so that whatever *)
(* the callback uses may be freed once that call has returned (the plugin  *)
(* does: st2110_destroy, obs-st2110-source.c:206).                         *)
(***************************************************************************)

VARIABLES service,  \* where the owner is: between two calls, or inside one
          calling,  \* whether the receive thread is in the packet handler
          open      \* whether there may be a receive thread

vars == <<service, calling, open>>

Init ==
    /\ service = "stopped"
    /\ calling = FALSE
    /\ open = FALSE

Enter(call, from) ==
    /\ service \in from
    /\ service' = call
    /\ open' = (open \/ call = "starting")
    /\ UNCHANGED calling

\* A start returns with a receiver that runs, or fails and leaves none.
StartReturns ==
    /\ service = "starting"
    /\ service' \in {"started", "stopped"}
    /\ service' = "stopped" => ~calling
    /\ open' = (service' = "started")
    /\ UNCHANGED calling

\* A stop, or a destroy, waits for the handler to return and ends the thread.
ThreadEnds ==
    /\ service \in {"stopping", "destroying"}
    /\ open /\ ~calling
    /\ open' = FALSE
    /\ UNCHANGED <<service, calling>>

StopReturns ==
    /\ service = "stopping"
    /\ ~open
    /\ service' = "stopped"
    /\ UNCHANGED <<calling, open>>

DestroyReturns ==
    /\ service = "destroying"
    /\ ~open
    /\ service' = "destroyed"
    /\ UNCHANGED <<calling, open>>

CallbackBegins ==
    /\ open /\ ~calling
    /\ calling' = TRUE
    /\ UNCHANGED <<service, open>>

CallbackEnds ==
    /\ calling
    /\ calling' = FALSE
    /\ UNCHANGED <<service, open>>

Next ==
    \/ Enter("starting", {"stopped"})
    \/ Enter("stopping", {"stopped", "started"})
    \/ Enter("destroying", {"stopped", "started"})
    \/ StartReturns
    \/ ThreadEnds
    \/ StopReturns
    \/ DestroyReturns
    \/ CallbackBegins
    \/ CallbackEnds

Spec == Init /\ [][Next]_vars
=============================================================================
