------------------------------ MODULE SmsOutbox ------------------------------
(***************************************************************************)
(* Outbound SMS: POST /messages with its idempotency key and rate limit    *)
(* (api/server.go), the SIP request MESSAGE (sip/server.go), Engine.Send   *)
(* (sms/engine.go), the submission by the AT client, the table `messages`  *)
(* and the requests that read or delete a message meanwhile.  Each request *)
(* has a goroutine; a step is a statement of the database or one half of a *)
(* modem exchange, and a restart may fall between any two.                 *)
(*                                                                         *)
(* A message is named by the request that creates it.                      *)
(***************************************************************************)
EXTENDS Naturals, FiniteSets

CONSTANTS
    Requests,
    Kind,           \* Kind[a]: "send", "sip", "read" or "delete"
    Key,            \* Key[a]: operation and idempotency key; requests that share one are repeats
    NoKey,          \* a SIP request has none
    Device,         \* Device[a]: the device that asks
    Parts,          \* Parts[a]: the segments of the message of a
    Target,         \* Target[a]: the request whose message a reads or deletes
    FailingPoints,  \* steps whose failure is explored
    MaxRequests,    \* bound: how many of the requests arrive
    MaxFaults       \* bound: failures and restarts in a behaviour

Keys == {Key[a] : a \in Requests} \ {NoKey}
Senders == {a \in Requests : Kind[a] \in {"send", "sip"}}

ASSUME OutboxConstants ==
    /\ Kind \in [Requests -> {"send", "sip", "read", "delete"}]
    /\ Parts \in [Requests -> Nat \ {0}]
    /\ Target \in [Requests -> Senders]
    /\ DOMAIN Key = Requests /\ DOMAIN Device = Requests
    /\ \A a \in Requests : Kind[a] = "sip" <=> Key[a] = NoKey
    /\ \A a, b \in Requests : Key[a] = Key[b] /\ Key[a] # NoKey =>
           Kind[a] = Kind[b] /\ Parts[a] = Parts[b] /\ Device[a] = Device[b]
    /\ FailingPoints \subseteq {"claim", "insert", "answer", "status", "apply", "complete",
                          "crash"}
    /\ {MaxRequests, MaxFaults} \subseteq Nat

VARIABLES
    idem,       \* table idempotency_records: status_code of a key, 0 for no record
    row,        \* table messages: the status of each message
    taken,      \* external: how many parts of each message the modem has sent
    pc,         \* where the goroutine of each request is
    answer,     \* the status that a request is about to return or has returned, or 0
    late,       \* the requests at work whose context has ended
    lastSMSSend,  \* the devices that have sent since the start
    faults

outboxVars == <<idem, row, taken, pc, answer, late, lastSMSSend, faults>>

-----------------------------------------------------------------------------
(* Helpers.                                                                *)

Pending == 102
Codes == {201, 204, 404, 409, 429, 500, 502}
Asking == {"send", "read", "delete"}
Sending == {"insert", "submit", "await_ok", "await_refused", "mark_submitted", "mark_sent",
            "mark_unknown", "mark_failed"}
Waiting == {"await_ok", "await_refused"}

\* A request arrives.
Arrives(a) == pc[a] = "new" /\ Cardinality({b \in Requests : pc[b] # "new"}) < MaxRequests

\* Nobody asks any more for the context of a submission that is over.
Goes(a, where) ==
    /\ pc' = [pc EXCEPT ![a] = where]
    /\ late' = IF where = "done" \/ (where = "complete" /\ Kind[a] = "send")
               THEN late \ {a} ELSE late
Returns(a, code) == answer' = [answer EXCEPT ![a] = code]
Fault(point) == point \in FailingPoints /\ faults < MaxFaults /\ faults' = faults + 1

\* sendMessage and messageAction record the answer under the key; SIP answers at once.
Finish(a, code) ==
    Returns(a, code) /\ Goes(a, IF Kind[a] = "sip" THEN "done" ELSE "complete")

\* An exchange holds the port from its command to its final result.
PortFree == \A b \in Requests : pc[b] \notin Waiting

\* UpdateMessageStatus, in the context of the submission.
Update(a, status) ==
    /\ a \notin late /\ row[a] # "deleted"
    /\ row' = [row EXCEPT ![a] = status] /\ UNCHANGED faults
UpdateFails(a) ==
    /\ \/ (a \in late \/ row[a] = "deleted") /\ UNCHANGED faults
       \/ Fault("status")
    /\ UNCHANGED row

-----------------------------------------------------------------------------
(* The idempotency record.                                                 *)

\* Mutant of Claim: a record that is pending is claimed again.
ClaimAgain(a) ==
    /\ Arrives(a) /\ Kind[a] \in Asking
    /\ IF idem[Key[a]] \in {0, Pending}
       THEN /\ idem' = [idem EXCEPT ![Key[a]] = Pending] /\ UNCHANGED answer
            /\ Goes(a, IF Kind[a] = "send" THEN "rate" ELSE "apply")
       ELSE /\ Returns(a, idem[Key[a]]) /\ Goes(a, "done") /\ UNCHANGED idem
    /\ UNCHANGED <<row, taken, lastSMSSend, faults>>

\* Mutant of Claim: every repeat is answered like a request that succeeded.
ClaimReplaysCreated(a) ==
    /\ Arrives(a) /\ Kind[a] \in Asking
    /\ IF idem[Key[a]] = 0
       THEN /\ idem' = [idem EXCEPT ![Key[a]] = Pending] /\ UNCHANGED answer
            /\ Goes(a, IF Kind[a] = "send" THEN "rate" ELSE "apply")
       ELSE /\ Returns(a, IF idem[Key[a]] = Pending THEN 409 ELSE 201)
            /\ Goes(a, "done") /\ UNCHANGED idem
    /\ UNCHANGED <<row, taken, lastSMSSend, faults>>

\* A repeat gets the recorded answer.  When the claim itself fails, a read completes the
\* record all the same, whoever has claimed it.
Claim(a) ==
    /\ Arrives(a) /\ Kind[a] \in Asking
    /\ \/ /\ idem[Key[a]] = 0
          /\ idem' = [idem EXCEPT ![Key[a]] = Pending]
          /\ Goes(a, IF Kind[a] = "send" THEN "rate" ELSE "apply")
          /\ UNCHANGED <<answer, faults>>
       \/ /\ idem[Key[a]] # 0
          /\ Returns(a, IF idem[Key[a]] = Pending THEN 409 ELSE idem[Key[a]])
          /\ Goes(a, "done") /\ UNCHANGED <<idem, faults>>
       \/ /\ Fault("claim") /\ Returns(a, 500)
          /\ Goes(a, IF Kind[a] = "read" THEN "complete" ELSE "done") /\ UNCHANGED idem
    /\ UNCHANGED <<row, taken, lastSMSSend>>

\* The context of a read or a deletion is the connection's, that of a send is not.  Only
\* after a success is a failure of CompleteIdempotency reported.
Complete(a) ==
    /\ pc[a] = "complete" /\ Goes(a, "done")
    /\ \/ /\ a \notin late \/ Kind[a] = "send"
          /\ idem' = [idem EXCEPT ![Key[a]] = IF @ = 0 THEN 0 ELSE answer[a]]
          /\ UNCHANGED <<answer, faults>>
       \/ /\ \/ a \in late /\ Kind[a] # "send" /\ UNCHANGED faults
             \/ Fault("complete")
          /\ Returns(a, IF answer[a] \in {201, 204} THEN 500 ELSE answer[a])
          /\ UNCHANGED idem
    /\ UNCHANGED <<row, taken, lastSMSSend>>

-----------------------------------------------------------------------------
(* sendMessage and handleMessageRequest.                                   *)

\* Mutant of Rate: the refusal is not recorded.
RateUnrecorded(a) ==
    /\ pc[a] = "rate"
    /\ \/ /\ Device[a] \in lastSMSSend /\ Returns(a, 429) /\ Goes(a, "done")
          /\ UNCHANGED lastSMSSend
       \/ /\ lastSMSSend' = lastSMSSend \union {Device[a]}
          /\ Goes(a, "insert") /\ UNCHANGED answer
    /\ UNCHANGED <<idem, row, taken, faults>>

\* allowSMSSend: a second or less after the last send the device is refused; the refusal is
\* recorded as the answer for the key.
Rate(a) ==
    /\ pc[a] = "rate"
    /\ \/ Device[a] \in lastSMSSend /\ Finish(a, 429) /\ UNCHANGED lastSMSSend
       \/ /\ lastSMSSend' = lastSMSSend \union {Device[a]}
          /\ Goes(a, "insert") /\ UNCHANGED answer
    /\ UNCHANGED <<idem, row, taken, faults>>

\* A MESSAGE request goes to the engine without key or limit, each retransmission anew.
SipMessage(a) ==
    /\ Arrives(a) /\ Kind[a] = "sip" /\ Goes(a, "insert")
    /\ UNCHANGED <<idem, row, taken, answer, lastSMSSend, faults>>

-----------------------------------------------------------------------------
(* Engine.Send.                                                            *)

Insert(a) ==
    /\ pc[a] = "insert"
    /\ \/ /\ a \notin late /\ row' = [row EXCEPT ![a] = "queued"]
          /\ Goes(a, "submit") /\ UNCHANGED <<answer, faults>>
       \/ /\ (a \in late /\ UNCHANGED faults) \/ Fault("insert")
          /\ Finish(a, 502) /\ UNCHANGED row
    /\ UNCHANGED <<idem, taken, lastSMSSend>>

\* SendPDU or SendTextSMS: the modem sends the part or refuses it; nothing is written once
\* the context has ended.
Submit(a) ==
    /\ pc[a] = "submit"
    /\ \/ /\ a \notin late /\ PortFree
          /\ \/ Goes(a, "await_ok") /\ taken' = [taken EXCEPT ![a] = @ + 1]
             \/ Goes(a, "await_refused") /\ UNCHANGED taken
       \/ a \in late /\ Goes(a, "mark_failed") /\ UNCHANGED taken
    /\ UNCHANGED <<idem, row, answer, lastSMSSend, faults>>

\* The final result of the modem arrives, or it says nothing.
ModemAnswers(a) ==
    /\ \/ pc[a] = "await_ok" /\ Goes(a, "mark_submitted")
       \/ pc[a] = "await_refused" /\ Goes(a, "mark_failed")
    /\ UNCHANGED <<idem, row, taken, answer, lastSMSSend, faults>>

\* Mutant of AnswerLost: the read of the port has no deadline.
AnswerLostUnnoticed(a) ==
    /\ pc[a] \in Waiting /\ Fault("answer") /\ Goes(a, "mark_unknown")
    /\ UNCHANGED <<idem, row, taken, answer, lastSMSSend>>

\* Deadline or a broken port: the result is unknown, or, before the prompt, a failure.
AnswerLost(a) ==
    /\ pc[a] \in Waiting
    /\ (a \in late /\ UNCHANGED faults) \/ Fault("answer")
    /\ \/ Goes(a, "mark_unknown")
       \/ pc[a] = "await_refused" /\ Goes(a, "mark_failed")
    /\ UNCHANGED <<idem, row, taken, answer, lastSMSSend>>

\* Mutant of MarkSubmitted: the loop over the segments ends after the first.
MarkSubmittedOnce(a) ==
    /\ pc[a] = "mark_submitted"
    /\ \/ Update(a, "submitted") /\ Goes(a, "mark_sent") /\ UNCHANGED answer
       \/ UpdateFails(a) /\ Finish(a, 502)
    /\ UNCHANGED <<idem, taken, lastSMSSend>>

\* After each part that the modem confirmed.
MarkSubmitted(a) ==
    /\ pc[a] = "mark_submitted"
    /\ \/ /\ Update(a, "submitted")
          /\ Goes(a, IF taken[a] < Parts[a] THEN "submit" ELSE "mark_sent")
          /\ UNCHANGED answer
       \/ UpdateFails(a) /\ Finish(a, 502)
    /\ UNCHANGED <<idem, taken, lastSMSSend>>

MarkSent(a) ==
    /\ pc[a] = "mark_sent"
    /\ \/ Update(a, "sent") /\ Finish(a, 201)
       \/ UpdateFails(a) /\ Finish(a, 502)
    /\ UNCHANGED <<idem, taken, lastSMSSend>>

\* The remaining parts are not sent; the request succeeds.
MarkUnknown(a) ==
    /\ pc[a] = "mark_unknown"
    /\ \/ Update(a, "submitted") /\ Finish(a, 201)
       \/ UpdateFails(a) /\ Finish(a, 502)
    /\ UNCHANGED <<idem, taken, lastSMSSend>>

\* Mutant of MarkFailed: the error of the submission is dropped.
MarkFailedQuietly(a) ==
    /\ pc[a] = "mark_failed"
    /\ Update(a, "failed") \/ UpdateFails(a)
    /\ Finish(a, 201)
    /\ UNCHANGED <<idem, taken, lastSMSSend>>

MarkFailed(a) ==
    /\ pc[a] = "mark_failed"
    /\ Update(a, "failed") \/ UpdateFails(a)
    /\ Finish(a, 502)
    /\ UNCHANGED <<idem, taken, lastSMSSend>>

-----------------------------------------------------------------------------
(* messageAction.                                                          *)

\* A failed deletion returns without completing the record.
Apply(a) ==
    /\ pc[a] = "apply"
    /\ LET m == Target[a]
           status == IF Kind[a] = "read" THEN "read" ELSE "deleted"
       IN \/ /\ a \notin late /\ row[m] \notin {"none", "deleted"}
             /\ row' = [row EXCEPT ![m] = status] /\ Finish(a, 204) /\ UNCHANGED faults
          \/ /\ a \notin late /\ row[m] \in {"none", "deleted"}
             /\ Finish(a, 404) /\ UNCHANGED <<row, faults>>
          \/ /\ (a \in late /\ UNCHANGED faults) \/ Fault("apply")
             /\ Returns(a, 500) /\ Goes(a, IF Kind[a] = "read" THEN "complete" ELSE "done")
             /\ UNCHANGED row
    /\ UNCHANGED <<idem, taken, lastSMSSend>>

-----------------------------------------------------------------------------
(* Time and restarts.                                                      *)

\* Two minutes (HTTP) or 30 seconds (SIP) of a submission are over, or the client of a read
\* or a deletion is gone.
Expire(a) ==
    /\ a \notin late
    /\ \/ Kind[a] \in {"send", "sip"} /\ pc[a] \in Sending
       \/ Kind[a] \in {"read", "delete"} /\ pc[a] \in {"apply", "complete"}
    /\ late' = late \union {a}
    /\ UNCHANGED <<idem, row, taken, pc, answer, lastSMSSend, faults>>

\* Nothing of a request survives but the tables; nobody takes it up again.
Crash ==
    /\ Fault("crash")
    /\ pc' = [a \in Requests |-> IF pc[a] = "new" THEN "new" ELSE "done"]
    /\ answer' = [a \in Requests |-> IF pc[a] = "done" THEN answer[a] ELSE 0]
    /\ late' = {} /\ lastSMSSend' = {}
    /\ UNCHANGED <<idem, row, taken>>

-----------------------------------------------------------------------------
Init ==
    /\ idem = [k \in Keys |-> 0]
    /\ row = [a \in Requests |-> "none"] /\ taken = [a \in Requests |-> 0]
    /\ pc = [a \in Requests |-> "new"] /\ answer = [a \in Requests |-> 0]
    /\ late = {} /\ lastSMSSend = {} /\ faults = 0

\* What the goroutine of a does without waiting for the modem.
GoOn(a) ==
    \/ Claim(a) \/ Complete(a) \/ Rate(a) \/ SipMessage(a) \/ Insert(a) \/ Submit(a)
    \/ AnswerLost(a) \/ MarkSubmitted(a) \/ MarkSent(a) \/ MarkUnknown(a) \/ MarkFailed(a)
    \/ Apply(a)

Next ==
    \/ \E a \in Requests : GoOn(a) \/ ModemAnswers(a) \/ Expire(a)
    \/ Crash

Spec == Init /\ [][Next]_outboxVars

\* A goroutine that has begun goes on, and its context ends; the modem may stay silent.
Fairness ==
    \A a \in Requests : /\ WF_outboxVars(pc[a] # "new" /\ GoOn(a))
                        /\ WF_outboxVars(Expire(a))

FairSpec == Spec /\ Fairness

-----------------------------------------------------------------------------
(* Properties.                                                             *)

\* Tables, goroutines and answers have their types.
TypeOK ==
    /\ idem \in [Keys -> Codes \union {0, Pending}]
    /\ row \in [Requests -> {"none", "queued", "submitted", "sent", "failed", "read", "deleted"}]
    /\ taken \in [Requests -> Nat] /\ \A a \in Requests : taken[a] <= Parts[a]
    /\ pc \in [Requests -> Sending \union {"new", "rate", "apply", "complete", "done"}]
    /\ answer \in [Requests -> Codes \union {0}]
    /\ late \subseteq Requests /\ lastSMSSend \subseteq {Device[a] : a \in Requests}
    /\ faults \in 0 .. MaxFaults

SendKeys == {Key[a] : a \in {b \in Requests : Kind[b] = "send"}}

PartsFor == [k \in SendKeys |-> Parts[CHOOSE a \in Senders : Key[a] = k]]
SentFor == [k \in SendKeys |-> [a \in Senders |-> IF Key[a] = k THEN taken[a] ELSE 0]]
OutcomeFor == [k \in SendKeys |-> IF idem[k] = Pending THEN 0 ELSE idem[k]]

Promise == INSTANCE OneSubmission WITH
    Keys <- SendKeys, Handlers <- Senders, Parts <- PartsFor,
    Outcomes <- Codes, NoOutcome <- 0, sent <- SentFor, outcome <- OutcomeFor

\* Whatever repeats, failures and restarts there are, the parts of a message go out at most
\* once per key, and an outcome stays (ClaimIdempotency: never a second modem operation).
AtMostOnce == Promise!Spec

\* "sent" says that every part is out, "failed" that some part is not; the parts before it may
\* be (Engine.Send).
StatusIsTrue ==
    \A a \in Senders : /\ row[a] = "sent" => taken[a] = Parts[a]
                       /\ row[a] = "failed" => taken[a] < Parts[a]

\* Not kept by the code (README, Observations).
\* UpdateMessageStatus (db.go:946): a submission that the modem accepted survives a
\* later serial or network error and is not falsely marked as failed.  When a later part
\* fails, Engine.Send overwrites "submitted".
AcceptedStaysSubmitted == \A a \in Senders : row[a] = "failed" => taken[a] = 0

\* A recorded 201 has a message that was submitted, as far as anybody could tell; a message
\* refused by the rate limit was not sent (sendMessage).
OutcomeIsTrue ==
    \A k \in SendKeys :
        /\ idem[k] = 201 => \E a \in Requests :
               Key[a] = k /\ row[a] \in {"submitted", "sent", "read", "deleted"}
        /\ idem[k] = 429 => \A a \in Requests : Key[a] = k => taken[a] = 0

\* A client that repeats a send never gets another result than it got before; only "still
\* in progress" and "try again" differ (replayIdempotency).
RepliesAgree ==
    \A a, b \in Requests :
        Kind[a] = "send" /\ Key[a] = Key[b] /\ pc[a] = "done" /\ pc[b] = "done" =>
            answer[a] = answer[b] \/ {answer[a], answer[b]} \cap {0, 409, 500} # {}

\* Without failures and restarts a key is pending only while somebody works on it: every
\* return of sendMessage after the claim records an answer.
NoStuckKey ==
    faults = 0 =>
        \A k \in SendKeys : idem[k] = Pending =>
            \E a \in Requests : Key[a] = k /\ pc[a] \notin {"new", "done"}

\* Every request that has begun comes to its end even if the modem never answers (the
\* deadlines of sendMessage and handleMessageRequest).
RequestsEnd == <>[](\A a \in Requests : pc[a] \in {"new", "done"})
=============================================================================
