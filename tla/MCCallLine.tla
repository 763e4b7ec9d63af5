----------------------------- MODULE MCCallLine -----------------------------
(* Small instances of CallLine: two incoming calls; and one call, dialled  *)
(* or incoming.  A view leaves out what no guard and no property of its    *)
(* run reads any more.                                                     *)
EXTENDS CallLine, TLC

CONSTANTS d1, p1, p2, w1, w2, f1

MCFailureOf == [w \in Handlers |-> f1]

IncomingOps == [w \in Handlers |-> IF w = w1 THEN {"answer"} ELSE {"hangup"}]
OutgoingOps == [w \in Handlers |-> IF w = w1 THEN {"dial"} ELSE {"hangup"}]

MCLine == <<active, requests, net, rings, fresh, at, lines, taken, urc, adapter, channels,
            handler, reader, row>>
IncomingView == <<MCLine, IF \A w \in Handlers : At(w, "new") THEN heard ELSE None>>
OutgoingView == <<MCLine, cut>>

LineSymmetry == Permutations(PhysIds)
=============================================================================
