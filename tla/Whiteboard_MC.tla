--------------------------- MODULE Whiteboard_MC ---------------------------
(* Small instances of Whiteboard: how much each participant may do.        *)
EXTENDS Whiteboard

CONSTANTS HostCommands, GuestCommands, HostKinds, GuestKinds

IssuedBound == [p \in Participants |-> IF p = Authority THEN HostCommands ELSE GuestCommands]
KindsUsed == [p \in Participants |-> IF p = Authority THEN HostKinds ELSE GuestKinds]

=============================================================================
