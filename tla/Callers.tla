------------------------------- MODULE Callers -------------------------------
(***************************************************************************)
(* The threads that call the media components.  A component's mutex is     *)
(* modelled by its owner, NoThread when it is free.                        *)
(***************************************************************************)
CONSTANTS Threads, NoThread

ASSUME CallersAssumption == NoThread \notin Threads

(* What a listener is told is the tuple of the arguments it is called with; *)
(* this is what one has heard that was not called yet.                     *)
NoNews == <<>>

==============================================================================
