---------------------------- MODULE MCRecording ----------------------------
(* A small instance of Recording: one call, two starts, a stop or a        *)
(* deletion, and the end of the call or a deletion.                        *)
EXTENDS Recording

CONSTANTS c1, w1, w2, w3, w4

MCJobs == [w \in Workers |-> CASE w = w1 -> {"start"}
                               [] w = w2 -> {"start", "delete"}
                               [] w = w3 -> {"stop", "delete"}
                               [] OTHER  -> {"end"}]
=============================================================================
