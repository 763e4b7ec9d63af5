---------------------------- MODULE MCVoiceAudio ----------------------------
(* Two WebRTC sessions of one call, which connects again, and a SIP call.  *)
EXTENDS VoiceAudio, TLC

CONSTANTS web, again, dialog, webCall, sipCall

MCCallOf == [s \in Sessions |-> IF s = dialog THEN sipCall ELSE webCall]
MCSymmetry == Permutations({web, again})
=============================================================================
