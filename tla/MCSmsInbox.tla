----------------------------- MODULE MCSmsInbox -----------------------------
(* Small instances of SmsInbox: long messages of two parts, of one sender  *)
(* who uses a reference again, and short ones, which have no reference.    *)
EXTENDS SmsInbox

CONSTANTS long, again, short, garbled, reference, none

MCTotal == [m \in Messages |-> IF m \in {long, again} THEN 2 ELSE 1]
MCConcatKey == [m \in Messages |-> IF m \in {long, again} THEN reference ELSE none]
=============================================================================
