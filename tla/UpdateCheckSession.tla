------------------------- MODULE UpdateCheckSession -------------------------
(***************************************************************************)
(* What one update check promises its owner, abstracted from the threads, *)
(* the mutex and the transport (the state machine of the spec, section    *)
(* 4.3):                                                                   *)
(*                                                                         *)
(*   idle -> primary -> finished                                           *)
(*                   -> fallback -> finished                               *)
(*   idle -> failedToStart                                                 *)
(*                                                                         *)
(* The fallback is entered only while the check is not aborted; the owner *)
(* of an asynchronous check is notified once, in the step that finishes   *)
(* the exchange; a synchronous check never notifies.  Abort may happen at *)
(* any time after the start.                                              *)
(***************************************************************************)
EXTENDS Naturals

VARIABLES
    async,          \* the owner passed a completion callback
    phase,          \* where the exchange is
    notifications,  \* how often the owner has been notified
    aborted         \* the owner has called Abort

vars == <<async, phase, notifications, aborted>>

Phases == {"idle", "primary", "fallback", "finished", "failedToStart"}

\* Notify the owner of an asynchronous check.
Notify == notifications' = IF async THEN notifications + 1 ELSE notifications

Init ==
    /\ async \in BOOLEAN
    /\ phase = "idle"
    /\ notifications = 0
    /\ aborted = FALSE

Start ==
    /\ phase = "idle"
    /\ phase' \in {"primary", "failedToStart"}
    /\ UNCHANGED <<async, notifications, aborted>>

PrimaryEnds ==
    /\ phase = "primary"
    /\ phase' = "finished"
    /\ Notify
    /\ UNCHANGED <<async, aborted>>

Retry ==
    /\ phase = "primary"
    /\ ~aborted
    /\ phase' = "fallback"
    /\ UNCHANGED <<async, notifications, aborted>>

FallbackEnds ==
    /\ phase = "fallback"
    /\ phase' = "finished"
    /\ Notify
    /\ UNCHANGED <<async, aborted>>

Abort ==
    /\ phase \notin {"idle", "failedToStart"}
    /\ aborted' = TRUE
    /\ UNCHANGED <<async, phase, notifications>>

Next == Start \/ PrimaryEnds \/ Retry \/ FallbackEnds \/ Abort

\* A started exchange does not stop half way.
Spec ==
    /\ Init /\ [][Next]_vars
    /\ WF_vars(Start)
    /\ WF_vars(PrimaryEnds \/ Retry)
    /\ WF_vars(FallbackEnds)

=============================================================================
