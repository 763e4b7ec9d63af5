---------------------------- MODULE OneSubmission ----------------------------
(***************************************************************************)
(* What a client may rely on that sends a message under an idempotency key *)
(* and repeats the request after a timeout: the parts of the message go to *)
(* the network at most once, out of one handler, and once an outcome is    *)
(* recorded for the key it stays and nothing more is sent.                 *)
(***************************************************************************)
EXTENDS Naturals

CONSTANTS Keys, Handlers, Parts, Outcomes, NoOutcome

VARIABLES sent,      \* sent[k][h]: the parts that h sent for k
          outcome    \* what is recorded for k

abstractVars == <<sent, outcome>>

Init == /\ sent = [k \in Keys |-> [h \in Handlers |-> 0]]
        /\ outcome = [k \in Keys |-> NoOutcome]

Send(k, h) ==
    /\ outcome[k] = NoOutcome
    /\ sent[k][h] < Parts[k] /\ \A g \in Handlers \ {h} : sent[k][g] = 0
    /\ sent' = [sent EXCEPT ![k][h] = @ + 1]
    /\ UNCHANGED outcome

Record(k, o) ==
    /\ outcome[k] = NoOutcome
    /\ outcome' = [outcome EXCEPT ![k] = o]
    /\ UNCHANGED sent

Next == \E k \in Keys : \/ \E h \in Handlers : Send(k, h)
                        \/ \E o \in Outcomes : Record(k, o)

Spec == Init /\ [][Next]_abstractVars
=============================================================================
