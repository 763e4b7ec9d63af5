------------------------------ MODULE MCAtPort ------------------------------
(* An exchange and two submissions, of which all may miss their deadline. *)
EXTENDS AtPort, TLC

CONSTANTS probe, text1, text2, ring, hangup

MCExchanges == {probe}
MCSubmissions == {text1, text2}
MCUrcs == {ring, hangup}
=============================================================================
