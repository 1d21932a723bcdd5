------------------------- MODULE SubscriptionSync_MC -------------------------
(* SubscriptionSync with one video and one audio track.                      *)
EXTENDS SubscriptionSync

CONSTANTS camera, microphone

AllTracks == {camera, microphone}
VideoTracks == {camera}

=============================================================================
