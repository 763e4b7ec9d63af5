----------------------------- MODULE MCSipCalls -----------------------------
(* A call whose INVITE is sent twice, and another one.                     *)
EXTENDS SipCalls, TLC

CONSTANTS first, again, other, callA, callB

MCInvites == {first, again, other}
MCCallIDs == {callA, callB}
MCCallID == first :> callA @@ again :> callA @@ other :> callB
=============================================================================
