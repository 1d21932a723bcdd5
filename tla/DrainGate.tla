------------------------------ MODULE DrainGate ------------------------------
(* What the retirement of a room relies on: a gate that admits calls until *)
(* it is closed, and reports that it has drained only when it is closed    *)
(* and every call it admitted has left.  ExecutorGate shows that the code  *)
(* of executor_lifetime.h keeps this promise, RoomLifecycle that the room  *)
(* as a whole does.                                                        *)

VARIABLES phase,   \* "open", "closed" or "drained"
          inside   \* the calls that are inside

vars == <<phase, inside>>

Init == phase = "open" /\ inside = {}

\* Calls enter only while the gate is open.
Enter == phase = "open" /\ inside \subseteq inside' /\ UNCHANGED phase

Leave == inside' \subseteq inside /\ UNCHANGED phase

Close == phase = "open" /\ phase' = "closed" /\ UNCHANGED inside

Drain == phase = "closed" /\ inside = {} /\ phase' = "drained" /\ UNCHANGED inside

Next == Enter \/ Leave \/ Close \/ Drain

Spec == Init /\ [][Next]_vars

=============================================================================
