------------------------ MODULE LocalPublication_MC ------------------------
(* A small instance of LocalPublication.                                   *)
EXTENDS LocalPublication

CONSTANTS t1, t2

\* Nothing tells the tracks apart: the first to be published is t1.
FirstTrack == ops = <<>> \/ ops[1].track = t1

=============================================================================
