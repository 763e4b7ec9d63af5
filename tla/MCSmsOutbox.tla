----------------------------- MODULE MCSmsOutbox -----------------------------
(* A small instance of SmsOutbox: a long message that is asked for twice,  *)
(* a short one of the same device, one of a SIP client, and a read or a    *)
(* deletion of the long one.                                               *)
EXTENDS SmsOutbox

CONSTANTS long, again, short, sip, reader, deleter, dev

MCKind == [a \in Requests |-> CASE a = sip     -> "sip"
                                [] a = reader  -> "read"
                                [] a = deleter -> "delete"
                                [] OTHER       -> "send"]
MCKey == [a \in Requests |-> CASE a = sip   -> NoKey
                               [] a = again -> long
                               [] OTHER     -> a]
MCDevice == [a \in Requests |-> dev]
MCParts == [a \in Requests |-> IF a \in {long, again} THEN 2 ELSE 1]
MCTarget == [a \in Requests |-> long]
=============================================================================
