-------------------------- MODULE SubmissionProofs --------------------------
(***************************************************************************)
(* Theorems about sending a text, in two parts.                            *)
(*                                                                         *)
(* SmsOutbox, for any requests, keys and bounds.  Of the requests that     *)
(* share a key at most one ever gets past its claim; while it works the    *)
(* key is pending, and what it has sent, stored and answered is its own.   *)
(*                                                                         *)
(* AtPort, the serial port below it, for any exchanges, submissions,       *)
(* events and bounds.  Three parts of one invariant, which hardly meet: the*)
(* command that has the port and the modem are at the same point of their  *)
(* dialogue until a deadline passes; a reader's step cuts the pieces it    *)
(* has, and so never has one twice; and until a command begins the port    *)
(* carries whole lines.                                                    *)
(***************************************************************************)
EXTENDS SmsOutbox, AtPort, SequenceTheorems, TLAPS

Keyed == {a \in Requests : Kind[a] = "send"}
Accepted == {"submitted", "sent", "read", "deleted"}
Active(a) == pc[a] \notin {"new", "done"}

\* What the client of a got is a result of the send.
Told(a) == pc[a] = "done" /\ answer[a] \notin {0, 409, 500}

\* Where a request stands, and what it has sent and stored by then.
StepOK ==
    \A a \in Requests :
        /\ pc[a] \in Sending => a \in Senders
        /\ pc[a] = "rate" => a \in Keyed
        /\ pc[a] = "apply" => a \notin Senders
        /\ pc[a] = "complete" => Kind[a] # "sip" /\ answer[a] \in Codes
        /\ pc[a] \in {"new", "rate", "insert"} \/ a \notin Senders =>
              taken[a] = 0 /\ row[a] = "none"
        /\ pc[a] \in {"submit", "await_refused", "mark_failed"} => taken[a] < Parts[a]
        /\ pc[a] = "mark_sent" => taken[a] = Parts[a]
        /\ row[a] = "failed" => pc[a] \in {"complete", "done"}

\* The request that works on a key, or has sent for it, is the only one, and has claimed it.
KeyOK ==
    \A a \in Keyed :
        /\ Active(a) => idem[Key[a]] = Pending
        /\ taken[a] > 0 => idem[Key[a]] # 0
        /\ Active(a) \/ taken[a] > 0 =>
              \A b \in Keyed \ {a} : Key[b] = Key[a] => ~Active(b) /\ taken[b] = 0

\* A result that a client got is the recorded one, or none will be recorded.
AnswerOK ==
    \A a \in Keyed :
        /\ Told(a) => idem[Key[a]] \in {Pending, answer[a]}
        /\ Told(a) /\ idem[Key[a]] = Pending =>
              \A b \in Keyed \ {a} : Key[b] = Key[a] => ~Active(b) /\ ~Told(b)
        /\ pc[a] = "complete" /\ answer[a] = 201 => row[a] \in Accepted
        /\ pc[a] = "complete" /\ answer[a] = 429 => taken[a] = 0

OutcomeOK ==
    \A k \in SendKeys :
        /\ idem[k] = 201 =>
              \E a \in Keyed : Key[a] = k /\ pc[a] = "done" /\ row[a] \in Accepted
        /\ idem[k] = 429 => \A a \in Keyed : Key[a] = k => taken[a] = 0

\* The inductive invariant.
IInv ==
    /\ TypeOK /\ StatusIsTrue /\ NoStuckKey
    /\ StepOK /\ KeyOK /\ AnswerOK /\ OutcomeOK

-----------------------------------------------------------------------------
(* Keys.                                                                   *)

\* The requests of a send's key are sends; every API request has a key.
LEMMA KeysOK ==
    /\ \A k \in SendKeys : k \in Keys /\ \A a \in Requests : Key[a] = k => a \in Keyed
    /\ \A a \in Keyed : Key[a] \in SendKeys /\ a \in Senders
    /\ \A a \in Requests : Kind[a] \in Asking => Key[a] \in Keys
BY OutboxConstants DEF SendKeys, Keys, Keyed, Senders, Asking

\* A step that leaves alone what the sends with a key go by.
LEMMA KeyedUntouched ==
    ASSUME IInv,
           \A b \in Keyed : /\ pc'[b] = pc[b] /\ taken'[b] = taken[b] /\ answer'[b] = answer[b]
                            /\ idem'[Key[b]] = idem[Key[b]]
                            /\ row[b] \in Accepted => row'[b] \in Accepted,
           faults' = 0 => faults = 0
    PROVE  KeyOK' /\ AnswerOK' /\ OutcomeOK' /\ NoStuckKey'
<1>1. KeyOK'
  BY DEF IInv, KeyOK, Active
<1>2. AnswerOK'
  BY DEF IInv, AnswerOK, Active, Told
<1>3. \A k \in SendKeys : idem'[k] = idem[k]
  BY DEF SendKeys, Keyed
<1>4. OutcomeOK'
  BY <1>3 DEF IInv, OutcomeOK
<1>5. NoStuckKey'
  BY <1>3, KeysOK DEF IInv, NoStuckKey
<1> QED BY <1>1, <1>2, <1>4, <1>5

\* A send with a key goes on to its next step.
LEMMA KeyedGoesOn ==
    ASSUME IInv, NEW a \in Keyed, NEW where, Active(a), where \notin {"new", "done"},
           pc' = [pc EXCEPT ![a] = where], idem' = idem, faults' = 0 => faults = 0,
           \A b \in Keyed \ {a} : /\ taken'[b] = taken[b] /\ answer'[b] = answer[b]
                                  /\ row[b] \in Accepted => row'[b] \in Accepted,
           where = "complete" /\ answer'[a] = 201 => row'[a] \in Accepted,
           where = "complete" /\ answer'[a] = 429 => taken'[a] = 0
    PROVE  KeyOK' /\ AnswerOK' /\ OutcomeOK' /\ NoStuckKey'
<1>1. pc \in [Requests -> Sending \union {"new", "rate", "apply", "complete", "done"}]
  BY DEF IInv, TypeOK
<1>2. /\ pc'[a] = where
      /\ \A b \in Requests \ {a} : pc'[b] = pc[b]
  BY <1>1 DEF Keyed
<1>3. /\ idem[Key[a]] = Pending
      /\ \A b \in Keyed \ {a} : Key[b] = Key[a] => ~Active(b) /\ taken[b] = 0
  BY DEF IInv, KeyOK
<1>4. \A b \in Keyed : pc'[b] = pc[b] \/ b = a
  BY <1>2 DEF Keyed
<1>5. KeyOK'
  BY <1>2, <1>3, <1>4 DEF IInv, KeyOK, Active, Pending
<1>6. AnswerOK'
  <2> SUFFICES ASSUME NEW b \in Keyed
               PROVE  /\ Told(b)' => idem[Key[b]] \in {Pending, answer'[b]}
                      /\ Told(b)' /\ idem[Key[b]] = Pending =>
                            \A c \in Keyed \ {b} : Key[c] = Key[b] => ~Active(c)' /\ ~Told(c)'
                      /\ pc'[b] = "complete" /\ answer'[b] = 201 => row'[b] \in Accepted
                      /\ pc'[b] = "complete" /\ answer'[b] = 429 => taken'[b] = 0
    BY DEF AnswerOK
  <2>1. ~Told(a)'
    BY <1>2 DEF Told
  <2>2. \A c \in Keyed \ {a} : (Told(c)' <=> Told(c)) /\ (Active(c)' <=> Active(c))
    BY <1>4 DEF Told, Active
  <2>3. CASE b = a
    BY <1>2, <2>1, <2>3
  <2>4. CASE b # a
    BY <1>3, <1>4, <2>1, <2>2, <2>4 DEF IInv, AnswerOK
  <2> QED BY <2>3, <2>4
<1>7. OutcomeOK'
  <2>1. Key[a] \in SendKeys /\ idem[Key[a]] \notin {201, 429}
    BY <1>3, KeysOK DEF Pending
  <2>2. ~(pc[a] = "done")
    BY DEF Active
  <2> QED BY <1>4, <2>1, <2>2 DEF IInv, OutcomeOK
<1>8. NoStuckKey'
  BY <1>2, KeysOK DEF IInv, NoStuckKey, Keyed
<1> QED BY <1>5, <1>6, <1>7, <1>8

-----------------------------------------------------------------------------
(* Types and places.                                                       *)

LEMMA ClaimLocal == ASSUME IInv, NEW a \in Requests, Claim(a)
                    PROVE  TypeOK' /\ StepOK' /\ StatusIsTrue'
<1> USE KeysOK DEF IInv, Claim, Arrives, Goes, Returns, Fault, Keyed, Senders, Asking,
             Sending, Pending, Codes
<1>1. TypeOK'
  <2>1. Key[a] \in Keys /\ Kind[a] \in Asking
    OBVIOUS
  <2>2. (IF idem[Key[a]] = Pending THEN 409 ELSE idem[Key[a]]) \in Codes \/ idem[Key[a]] = 0
    BY <2>1 DEF TypeOK
  <2>3. pc' \in [Requests -> Sending \union {"new", "rate", "apply", "complete", "done"}]
    BY DEF TypeOK
  <2>4. idem' \in [Keys -> Codes \union {0, Pending}]
    BY <2>1 DEF TypeOK
  <2>5. answer' \in [Requests -> Codes \union {0}]
    BY <2>2 DEF TypeOK
  <2>6. late' \subseteq Requests
    BY DEF TypeOK
  <2>7. faults' \in 0 .. MaxFaults
    BY OutboxConstants DEF TypeOK
  <2> QED BY <2>3, <2>4, <2>5, <2>6, <2>7 DEF TypeOK
<1>2. StepOK'
  BY DEF TypeOK, StepOK
<1>3. StatusIsTrue'
  BY DEF TypeOK, StepOK, StatusIsTrue
<1> QED BY <1>1, <1>2, <1>3

LEMMA CompleteLocal == ASSUME IInv, NEW a \in Requests, Complete(a)
                       PROVE  TypeOK' /\ StepOK' /\ StatusIsTrue'
<1> USE KeysOK, OutboxConstants DEF IInv, Complete, Goes, Returns, Fault, Keyed, Senders, Asking,
             Sending, Pending, Codes
<1>1. TypeOK'
  BY DEF TypeOK
<1>2. StepOK'
  BY DEF TypeOK, StepOK
<1>3. StatusIsTrue'
  BY DEF TypeOK, StepOK, StatusIsTrue
<1> QED BY <1>1, <1>2, <1>3

LEMMA RateLocal == ASSUME IInv, NEW a \in Requests, Rate(a)
                   PROVE  TypeOK' /\ StepOK' /\ StatusIsTrue'
BY KeysOK DEF IInv, TypeOK, StepOK, StatusIsTrue, Rate, Finish, Goes, Returns, Fault, Keyed, Senders,
              Asking, Sending, Pending, Codes

LEMMA SipLocal == ASSUME IInv, NEW a \in Requests, SipMessage(a)
                  PROVE  TypeOK' /\ StepOK' /\ StatusIsTrue'
BY KeysOK DEF IInv, TypeOK, StepOK, StatusIsTrue, SipMessage, Arrives, Goes, Keyed, Senders, Sending

LEMMA InsertLocal == ASSUME IInv, NEW a \in Requests, Insert(a)
                     PROVE  TypeOK' /\ StepOK' /\ StatusIsTrue'
<1> USE KeysOK, OutboxConstants DEF IInv, Insert, Finish, Goes, Returns, Fault, Keyed, Senders,
             Sending, Codes
<1>1. TypeOK'
  BY DEF TypeOK
<1>2. StepOK'
  BY DEF TypeOK, StepOK
<1>3. StatusIsTrue'
  BY DEF TypeOK, StepOK, StatusIsTrue
<1> QED BY <1>1, <1>2, <1>3

LEMMA SubmitLocal == ASSUME IInv, NEW a \in Requests, Submit(a)
                     PROVE  TypeOK' /\ StepOK' /\ StatusIsTrue'
<1> USE KeysOK, OutboxConstants DEF IInv, Submit, Goes, Keyed, Senders, Sending
<1>1. TypeOK'
  BY DEF TypeOK, StepOK
<1>2. StepOK'
  BY DEF TypeOK, StepOK
<1>3. StatusIsTrue'
  BY DEF TypeOK, StepOK, StatusIsTrue
<1> QED BY <1>1, <1>2, <1>3

LEMMA AnswersLocal == ASSUME IInv, NEW a \in Requests, ModemAnswers(a) \/ AnswerLost(a)
                      PROVE  TypeOK' /\ StepOK' /\ StatusIsTrue'
<1> USE KeysOK, OutboxConstants DEF IInv, ModemAnswers, AnswerLost, Waiting, Goes, Fault, Keyed,
             Senders, Sending
<1>1. TypeOK'
  <2>1. CASE ModemAnswers(a)
    BY <2>1 DEF TypeOK
  <2>2. CASE AnswerLost(a)
    BY <2>2 DEF TypeOK
  <2> QED BY <2>1, <2>2
<1>2. StepOK'
  BY DEF TypeOK, StepOK
<1>3. StatusIsTrue'
  BY DEF TypeOK, StepOK, StatusIsTrue
<1> QED BY <1>1, <1>2, <1>3

\* A status is written, or cannot be, and the request goes on or answers.
LEMMA StatusLocal ==
    ASSUME IInv, NEW a \in Senders, NEW where \in {"submit", "mark_sent", "complete", "done"},
           NEW status \in {"submitted", "sent", "failed"},
           pc[a] \in {"mark_submitted", "mark_sent", "mark_unknown", "mark_failed"},
           pc' = [pc EXCEPT ![a] = where], row' \in {row, [row EXCEPT ![a] = status]},
           answer' \in [Requests -> Codes \union {0}],
           \A b \in Requests \ {a} : answer'[b] = answer[b],
           late' \subseteq Requests, faults' \in 0 .. MaxFaults,
           UNCHANGED <<idem, taken, lastSMSSend>>,
           where = "submit" => taken[a] < Parts[a],
           where = "mark_sent" => taken[a] = Parts[a],
           where = "complete" => Kind[a] # "sip" /\ answer'[a] \in Codes,
           status = "sent" => taken[a] = Parts[a],
           status = "failed" => taken[a] < Parts[a] /\ where \in {"complete", "done"}
    PROVE  TypeOK' /\ StepOK' /\ StatusIsTrue'
<1> USE DEF IInv, Senders
<1>1. TypeOK'
  BY DEF TypeOK, Sending
<1>2. /\ pc'[a] = where /\ row'[a] \in {row[a], status}
      /\ \A b \in Requests \ {a} : pc'[b] = pc[b] /\ row'[b] = row[b]
  BY DEF TypeOK
<1>3. row[a] # "failed"
  BY DEF StepOK
<1>4. StepOK'
  <2> SUFFICES ASSUME NEW b \in Requests
               PROVE  /\ pc'[b] \in Sending => b \in Senders
                      /\ pc'[b] = "rate" => b \in Keyed
                      /\ pc'[b] = "apply" => b \notin Senders
                      /\ pc'[b] = "complete" => Kind[b] # "sip" /\ answer'[b] \in Codes
                      /\ pc'[b] \in {"new", "rate", "insert"} \/ b \notin Senders =>
                            taken[b] = 0 /\ row'[b] = "none"
                      /\ pc'[b] \in {"submit", "await_refused", "mark_failed"} =>
                            taken[b] < Parts[b]
                      /\ pc'[b] = "mark_sent" => taken[b] = Parts[b]
                      /\ row'[b] = "failed" => pc'[b] \in {"complete", "done"}
    BY DEF StepOK
  <2>1. CASE b = a
    BY <1>2, <1>3, <2>1
  <2>2. CASE b # a
    BY <1>2, <2>2 DEF StepOK
  <2> QED BY <2>1, <2>2
<1>5. StatusIsTrue'
  BY <1>2, <1>3 DEF StatusIsTrue
<1> QED BY <1>1, <1>4, <1>5

LEMMA MarkLocal ==
    ASSUME IInv, NEW a \in Requests,
           MarkSubmitted(a) \/ MarkSent(a) \/ MarkUnknown(a) \/ MarkFailed(a)
    PROVE  TypeOK' /\ StepOK' /\ StatusIsTrue'
<1> DEFINE answered == IF Kind[a] = "sip" THEN "done" ELSE "complete"
<1>1. /\ a \in Senders /\ late \subseteq Requests /\ faults \in 0 .. MaxFaults
      /\ pc[a] \in {"mark_submitted", "mark_sent", "mark_unknown", "mark_failed"}
      /\ pc[a] = "mark_sent" => taken[a] = Parts[a]
      /\ pc[a] = "mark_failed" => taken[a] < Parts[a]
      /\ taken[a] \in Nat /\ taken[a] <= Parts[a] /\ Parts[a] \in Nat
  BY OutboxConstants DEF IInv, TypeOK, StepOK, Sending, MarkSubmitted, MarkSent, MarkUnknown,
                         MarkFailed
<1>2. ASSUME NEW where, Goes(a, where) PROVE late' \subseteq Requests
  BY <1>1, <1>2 DEF Goes
<1>3. ASSUME UpdateFails(a) PROVE faults' \in 0 .. MaxFaults
  BY <1>1, <1>3, OutboxConstants DEF UpdateFails, Fault
<1>4. ASSUME NEW status, Update(a, status)
      PROVE  row' = [row EXCEPT ![a] = status] /\ faults' \in 0 .. MaxFaults
  BY <1>1, <1>4 DEF Update
<1>5. ASSUME NEW code \in Codes, Finish(a, code)
      PROVE  /\ Goes(a, answered) /\ pc' = [pc EXCEPT ![a] = answered]
             /\ answer' \in [Requests -> Codes \union {0}] /\ answer'[a] \in Codes
             /\ \A b \in Requests \ {a} : answer'[b] = answer[b]
  <2>1. answer \in [Requests -> Codes \union {0}]
    BY DEF IInv, TypeOK
  <2>2. answer' = [answer EXCEPT ![a] = code]
    BY <1>5 DEF Finish, Returns
  <2> QED BY <1>5, <2>1, <2>2 DEF Finish, Goes
<1>6. /\ answered \in {"complete", "done"} /\ (answered = "complete" => Kind[a] # "sip")
      /\ 201 \in Codes /\ 502 \in Codes /\ (UpdateFails(a) => row' = row)
      /\ UNCHANGED <<idem, taken, lastSMSSend>>
  BY DEF Codes, UpdateFails, MarkSubmitted, MarkSent, MarkUnknown, MarkFailed
<1> HIDE DEF answered
<1>7. CASE MarkSubmitted(a)
  <2>1. CASE UpdateFails(a) /\ Finish(a, 502)
    BY <1>1, <1>2, <1>3, <1>5, <1>6, <2>1, StatusLocal
  <2>2. CASE /\ Update(a, "submitted") /\ answer' = answer
             /\ Goes(a, IF taken[a] < Parts[a] THEN "submit" ELSE "mark_sent")
    <3> DEFINE where == IF taken[a] < Parts[a] THEN "submit" ELSE "mark_sent"
    <3>1. /\ pc' = [pc EXCEPT ![a] = where] /\ where \in {"submit", "mark_sent"}
          /\ where = "submit" => taken[a] < Parts[a]
          /\ where = "mark_sent" => taken[a] = Parts[a]
      BY <1>1, <2>2 DEF Goes
    <3>2. late' \subseteq Requests
      BY <1>2, <2>2
    <3>3. row' = [row EXCEPT ![a] = "submitted"] /\ faults' \in 0 .. MaxFaults
      BY <1>4, <2>2
    <3>4. /\ answer' \in [Requests -> Codes \union {0}] /\ where # "complete"
          /\ \A b \in Requests \ {a} : answer'[b] = answer[b]
      BY <2>2, <3>1 DEF IInv, TypeOK
    <3> HIDE DEF where
    <3> QED BY <1>1, <1>6, <3>1, <3>2, <3>3, <3>4, StatusLocal
  <2> QED BY <1>7, <2>1, <2>2 DEF MarkSubmitted
<1>8. CASE MarkSent(a)
  <2>1. taken[a] = Parts[a]
    BY <1>1, <1>8 DEF MarkSent
  <2>2. CASE Update(a, "sent") /\ Finish(a, 201)
    BY <1>1, <1>2, <1>4, <1>5, <1>6, <2>1, <2>2, StatusLocal
  <2>3. CASE UpdateFails(a) /\ Finish(a, 502)
    BY <1>1, <1>2, <1>3, <1>5, <1>6, <2>3, StatusLocal
  <2> QED BY <1>8, <2>2, <2>3 DEF MarkSent
<1>9. CASE MarkUnknown(a)
  <2>1. CASE Update(a, "submitted") /\ Finish(a, 201)
    BY <1>1, <1>2, <1>4, <1>5, <1>6, <2>1, StatusLocal
  <2>2. CASE UpdateFails(a) /\ Finish(a, 502)
    BY <1>1, <1>2, <1>3, <1>5, <1>6, <2>2, StatusLocal
  <2> QED BY <1>9, <2>1, <2>2 DEF MarkUnknown
<1>10. CASE MarkFailed(a)
  <2>1. taken[a] < Parts[a] /\ Finish(a, 502)
    BY <1>1, <1>10 DEF MarkFailed
  <2>2. CASE Update(a, "failed")
    BY <1>1, <1>2, <1>4, <1>5, <1>6, <2>1, <2>2, StatusLocal
  <2>3. CASE UpdateFails(a)
    BY <1>1, <1>2, <1>3, <1>5, <1>6, <2>1, <2>3, StatusLocal
  <2> QED BY <1>10, <2>2, <2>3 DEF MarkFailed
<1> QED BY <1>7, <1>8, <1>9, <1>10

LEMMA ApplyLocal == ASSUME IInv, NEW a \in Requests, Apply(a)
                    PROVE  TypeOK' /\ StepOK' /\ StatusIsTrue'
<1> USE KeysOK, OutboxConstants DEF IInv, Apply, Finish, Goes, Returns, Fault, Keyed, Senders,
             Sending, Codes
<1>1. TypeOK'
  BY SMTT(30) DEF TypeOK
<1>2. StepOK'
  BY SMTT(30) DEF TypeOK, StepOK
<1>3. StatusIsTrue'
  BY DEF TypeOK, StepOK, StatusIsTrue
<1> QED BY <1>1, <1>2, <1>3

LEMMA TimeLocal == ASSUME IInv, (\E a \in Requests : Expire(a)) \/ Crash
                   PROVE  TypeOK' /\ StepOK' /\ StatusIsTrue'
BY KeysOK, OutboxConstants
   DEF IInv, TypeOK, StepOK, StatusIsTrue, Expire, Crash, Fault, Keyed, Senders, Sending, Codes

-----------------------------------------------------------------------------
(* Keys, answers and outcomes.                                             *)

\* A step of one request that has begun and changes no record.
LEMMA Moves ==
    ASSUME IInv, NEW a \in Requests, NEW where, Active(a),
           pc' = [pc EXCEPT ![a] = where], idem' = idem, faults' = 0 => faults = 0,
           \A b \in Requests \ {a} :
               taken'[b] = taken[b] /\ answer'[b] = answer[b] /\ row'[b] = row[b],
           a \in Keyed => /\ where \notin {"new", "done"}
                         /\ (where = "complete" /\ answer'[a] = 201 => row'[a] \in Accepted)
                         /\ (where = "complete" /\ answer'[a] = 429 => taken'[a] = 0)
    PROVE  KeyOK' /\ AnswerOK' /\ OutcomeOK' /\ NoStuckKey'
<1>1. CASE a \in Keyed
  <2>1. \A b \in Keyed \ {a} : b \in Requests \ {a}
    BY DEF Keyed
  <2> QED BY <1>1, <2>1, KeyedGoesOn
<1>2. CASE a \notin Keyed
  <2>1. \A b \in Keyed : b \in Requests \ {a}
    BY <1>2 DEF Keyed
  <2>2. \A b \in Keyed : pc'[b] = pc[b]
    BY <2>1 DEF IInv, TypeOK
  <2> QED BY <2>1, <2>2, KeyedUntouched
<1> QED BY <1>1, <1>2

LEMMA MovesKeep ==
    ASSUME IInv, NEW a \in Requests,
           \/ Rate(a) \/ Insert(a) \/ Submit(a) \/ ModemAnswers(a) \/ AnswerLost(a)
           \/ MarkSubmitted(a) \/ MarkSent(a) \/ MarkUnknown(a) \/ MarkFailed(a)
    PROVE  KeyOK' /\ AnswerOK' /\ OutcomeOK' /\ NoStuckKey'
<1> USE DEF Active, Goes, Returns, Fault, Accepted
<1>0. a \in Keyed => Kind[a] # "sip"
  BY DEF Keyed
<1>1. CASE Rate(a)
  BY <1>0, <1>1, Moves DEF Rate, Finish, IInv, TypeOK, StepOK
<1>2. CASE Insert(a)
  BY <1>0, <1>2, Moves DEF Insert, Finish, IInv, TypeOK
<1>3. CASE Submit(a)
  BY <1>3, Moves DEF Submit, IInv, TypeOK
<1>4. CASE ModemAnswers(a)
  BY <1>4, Moves DEF ModemAnswers
<1>5. CASE AnswerLost(a)
  BY <1>5, Moves DEF AnswerLost, Waiting, IInv, TypeOK
<1>6. CASE MarkSubmitted(a)
  BY <1>0, <1>6, Moves DEF MarkSubmitted, Update, UpdateFails, Finish, IInv, TypeOK
<1>7. CASE MarkSent(a)
  BY <1>0, <1>7, Moves DEF MarkSent, Update, UpdateFails, Finish, IInv, TypeOK
<1>8. CASE MarkUnknown(a)
  BY <1>0, <1>8, Moves DEF MarkUnknown, Update, UpdateFails, Finish, IInv, TypeOK
<1>9. CASE MarkFailed(a)
  <2> DEFINE where == IF Kind[a] = "sip" THEN "done" ELSE "complete"
  <2>1. \A b \in Requests \ {a} : taken'[b] = taken[b] /\ answer'[b] = answer[b] /\ row'[b] = row[b]
    BY <1>9 DEF MarkFailed, Update, UpdateFails, Finish, IInv, TypeOK
  <2>2. pc' = [pc EXCEPT ![a] = where]
    BY <1>9 DEF MarkFailed, Finish
  <2>3. Active(a) /\ idem' = idem
    BY <1>9 DEF MarkFailed
  <2>4. answer'[a] = 502
    BY <1>9 DEF MarkFailed, Finish, IInv, TypeOK
  <2>5. faults' = 0 => faults = 0
    BY <1>9 DEF MarkFailed, Update, UpdateFails, IInv, TypeOK
  <2>6. a \in Keyed => /\ where \notin {"new", "done"}
                      /\ (where = "complete" /\ answer'[a] = 201 => row'[a] \in Accepted)
                      /\ (where = "complete" /\ answer'[a] = 429 => taken'[a] = 0)
    BY <1>0, <2>4
  <2> HIDE DEF where, Active
  <2>7. QED BY <2>1, <2>2, <2>3, <2>4, <2>5, <2>6, Moves
<1> QED BY <1>1, <1>2, <1>3, <1>4, <1>5, <1>6, <1>7, <1>8, <1>9

\* What requests without a send's key do to the others: nothing.
LEMMA OthersKeep ==
    ASSUME IInv, NEW a \in Requests,
           SipMessage(a) \/ Apply(a) \/ Expire(a) \/ (a \notin Keyed /\ (Claim(a) \/ Complete(a)))
    PROVE  KeyOK' /\ AnswerOK' /\ OutcomeOK' /\ NoStuckKey'
<1> USE DEF Goes, Returns, Fault, IInv, TypeOK
<1>1. CASE SipMessage(a)
  BY <1>1, KeyedUntouched DEF SipMessage, Keyed
<1>2. CASE Apply(a)
  <2>1. a \notin Keyed
    BY <1>2, KeysOK DEF Apply, StepOK
  <2>2. \A b \in Keyed : pc'[b] = pc[b] /\ answer'[b] = answer[b]
    BY <1>2, <2>1 DEF Apply, Finish, Keyed
  <2>3. \A b \in Keyed : row[b] \in Accepted => row'[b] \in Accepted
    BY <1>2 DEF Apply, Accepted, Keyed
  <2>4. UNCHANGED <<taken, idem>> /\ (faults' = 0 => faults = 0)
    BY <1>2 DEF Apply
  <2> QED BY <2>2, <2>3, <2>4, KeyedUntouched
<1>3. CASE Expire(a)
  BY <1>3, KeyedUntouched DEF Expire
<1>4. CASE a \notin Keyed /\ (Claim(a) \/ Complete(a))
  <2>1. \A b \in Keyed : Key[b] \in Keys /\ Key[b] # Key[a] /\ b # a /\ b \in Requests
    BY <1>4, KeysOK DEF Keyed
  <2>2. \A b \in Keyed : pc'[b] = pc[b] /\ answer'[b] = answer[b] /\ idem'[Key[b]] = idem[Key[b]]
    BY <1>4, <2>1 DEF Claim, Complete
  <2>3. UNCHANGED <<taken, row>> /\ (faults' = 0 => faults = 0)
    BY <1>4 DEF Claim, Complete
  <2> QED BY <2>2, <2>3, KeyedUntouched
<1> QED BY <1>1, <1>2, <1>3, <1>4

\* A claim of a send: its own if there is no record, otherwise at most a copy of the answer.
LEMMA ClaimKeeps ==
    ASSUME IInv, NEW a \in Keyed, Claim(a)
    PROVE  KeyOK' /\ AnswerOK' /\ OutcomeOK' /\ NoStuckKey'
<1> USE DEF Goes, Returns, Fault
<1>1. /\ a \in Requests /\ Key[a] \in Keys /\ Key[a] \in SendKeys /\ Kind[a] = "send"
      /\ pc[a] = "new" /\ taken[a] = 0 /\ UNCHANGED <<row, taken>>
  BY KeysOK DEF Claim, Arrives, Keyed, Asking, IInv, StepOK
<1>2. \A b \in Keyed \ {a} : b \in Requests /\ pc'[b] = pc[b] /\ answer'[b] = answer[b]
  BY DEF Claim, Keyed, IInv, TypeOK
<1>3. CASE idem[Key[a]] = 0 /\ idem' = [idem EXCEPT ![Key[a]] = Pending] /\ pc'[a] = "rate"
           /\ faults' = faults
  <2>1. \A b \in Keyed \ {a} : Key[b] = Key[a] => ~Active(b) /\ taken[b] = 0 /\ ~Told(b)
    BY <1>2, <1>3 DEF IInv, TypeOK, KeyOK, AnswerOK, Told, Pending
  <2>2. \A k \in SendKeys : idem'[k] = IF k = Key[a] THEN Pending ELSE idem[k]
    BY <1>3, KeysOK DEF IInv, TypeOK
  <2>3. \A b \in Keyed : idem'[Key[b]] = IF Key[b] = Key[a] THEN Pending ELSE idem[Key[b]]
    BY <2>2, KeysOK
  <2>4. KeyOK'
    BY <1>1, <1>2, <1>3, <2>1, <2>3 DEF IInv, KeyOK, Active, Pending
  <2>5. AnswerOK'
    BY <1>1, <1>2, <1>3, <2>1, <2>3 DEF IInv, AnswerOK, Active, Told, Pending
  <2>6. OutcomeOK'
    BY <1>1, <1>2, <1>3, <2>2 DEF IInv, OutcomeOK, Pending
  <2>7. NoStuckKey'
    <3> SUFFICES ASSUME NEW k \in SendKeys, faults = 0, idem'[k] = Pending
                 PROVE  \E b \in Requests : Key[b] = k /\ pc'[b] \notin {"new", "done"}
      BY <1>3 DEF NoStuckKey
    <3>1. CASE k = Key[a]
      BY <1>1, <1>3, <3>1
    <3>2. CASE k # Key[a]
      BY <1>2, <2>2, <3>2, KeysOK DEF IInv, NoStuckKey
    <3> QED BY <3>1, <3>2
  <2> QED BY <2>4, <2>5, <2>6, <2>7
<1>4. CASE /\ pc'[a] = "done" /\ idem' = idem /\ (faults' = 0 => faults = 0)
           /\ answer'[a] \in {409, 500} \/ (idem[Key[a]] = answer'[a] /\ answer'[a] # Pending)
  <2>1. Told(a)' => idem[Key[a]] = answer'[a] /\ idem[Key[a]] # Pending
    BY <1>4 DEF Told
  <2>2. \A b \in Keyed \ {a} : (Told(b)' <=> Told(b)) /\ (Active(b)' <=> Active(b))
    BY <1>2 DEF Told, Active
  <2>3. ~Active(a) /\ ~Active(a)' /\ ~Told(a)
    BY <1>1, <1>4 DEF Active, Told
  <2>4. KeyOK'
    BY <1>1, <1>4, <2>2, <2>3 DEF IInv, KeyOK
  <2>5. AnswerOK'
    BY <1>1, <1>2, <1>4, <2>1, <2>2, <2>3 DEF IInv, AnswerOK
  <2>6. OutcomeOK'
    BY <1>1, <1>2, <1>4 DEF IInv, OutcomeOK
  <2>7. NoStuckKey'
    BY <1>1, <1>2, <1>4, KeysOK DEF IInv, NoStuckKey
  <2> QED BY <2>4, <2>5, <2>6, <2>7
<1>5. \/ idem[Key[a]] = 0 /\ idem' = [idem EXCEPT ![Key[a]] = Pending] /\ pc'[a] = "rate"
         /\ faults' = faults
      \/ /\ pc'[a] = "done" /\ idem' = idem /\ (faults' = 0 => faults = 0)
         /\ answer'[a] \in {409, 500} \/ (idem[Key[a]] = answer'[a] /\ answer'[a] # Pending)
  BY <1>1 DEF Claim, IInv, TypeOK
<1> QED BY <1>3, <1>4, <1>5

\* A send ends: its answer is recorded, or the record cannot be written.
LEMMA CompleteKeeps ==
    ASSUME IInv, NEW a \in Keyed, Complete(a)
    PROVE  KeyOK' /\ AnswerOK' /\ OutcomeOK' /\ NoStuckKey'
<1> USE DEF Goes, Returns, Fault
<1>1. /\ a \in Requests /\ Key[a] \in Keys /\ Key[a] \in SendKeys /\ Kind[a] = "send"
      /\ pc[a] = "complete" /\ answer[a] \in Codes /\ UNCHANGED <<row, taken>>
      /\ idem[Key[a]] = Pending /\ pc'[a] = "done"
  BY KeysOK DEF Complete, Keyed, IInv, StepOK, KeyOK, Active, TypeOK
<1>2. \A b \in Keyed \ {a} : b \in Requests /\ pc'[b] = pc[b] /\ answer'[b] = answer[b]
  BY DEF Complete, Keyed, IInv, TypeOK
<1>3. \A b \in Keyed \ {a} : Key[b] = Key[a] => ~Active(b) /\ taken[b] = 0 /\ ~Told(b)
  BY <1>1 DEF IInv, KeyOK, AnswerOK, Active
<1>4. \A b \in Keyed \ {a} : (Told(b)' <=> Told(b)) /\ (Active(b)' <=> Active(b))
  BY <1>2 DEF Told, Active
<1>5. Active(a) /\ ~Active(a)' /\ ~Told(a)
  BY <1>1 DEF Active, Told
<1>6. CASE idem' = [idem EXCEPT ![Key[a]] = answer[a]] /\ answer' = answer /\ faults' = faults
  <2>2. \A k \in SendKeys : idem'[k] = IF k = Key[a] THEN answer[a] ELSE idem[k]
    BY <1>6, KeysOK DEF IInv, TypeOK
  <2>3. \A b \in Keyed : idem'[Key[b]] = IF Key[b] = Key[a] THEN answer[a] ELSE idem[Key[b]]
    BY <2>2, KeysOK
  <2>4. KeyOK'
    BY <1>1, <1>3, <1>4, <1>5, <2>3 DEF IInv, KeyOK, Codes
  <2>5. AnswerOK'
    BY <1>1, <1>2, <1>3, <1>4, <1>5, <1>6, <2>3 DEF IInv, AnswerOK, Codes, Pending
  <2>6. OutcomeOK'
    BY <1>1, <1>2, <1>3, <2>2 DEF IInv, OutcomeOK, AnswerOK
  <2>7. NoStuckKey'
    BY <1>1, <1>2, <1>6, <2>2, KeysOK DEF IInv, NoStuckKey, Codes, Pending
  <2> QED BY <2>4, <2>5, <2>6, <2>7
<1>7. CASE idem' = idem /\ faults' # 0
  <2>4. KeyOK'
    BY <1>1, <1>3, <1>4, <1>5, <1>7 DEF IInv, KeyOK
  <2>5. AnswerOK'
    BY <1>1, <1>2, <1>3, <1>4, <1>5, <1>7 DEF IInv, AnswerOK
  <2>6. OutcomeOK'
    BY <1>1, <1>2, <1>7 DEF IInv, OutcomeOK
  <2>7. NoStuckKey'
    BY <1>7 DEF NoStuckKey
  <2> QED BY <2>4, <2>5, <2>6, <2>7
<1> QED BY <1>1, <1>6, <1>7 DEF Complete, Pending, IInv, TypeOK

\* A restart ends every request and leaves the tables.
LEMMA CrashKeeps ==
    ASSUME IInv, Crash
    PROVE  KeyOK' /\ AnswerOK' /\ OutcomeOK' /\ NoStuckKey'
<1>1. /\ \A a \in Keyed : /\ ~Active(a)' /\ (Told(a)' <=> Told(a))
                          /\ Told(a) => answer'[a] = answer[a]
                          /\ pc[a] = "done" => pc'[a] = "done"
                          /\ pc'[a] # "complete"
      /\ UNCHANGED <<idem, row, taken>>
  BY DEF Crash, Active, Told, Keyed
<1>2. KeyOK'
  BY <1>1 DEF IInv, KeyOK
<1>3. AnswerOK'
  BY <1>1 DEF IInv, AnswerOK
<1>4. OutcomeOK'
  BY <1>1 DEF IInv, OutcomeOK
<1>5. NoStuckKey'
  BY DEF Crash, Fault, NoStuckKey, IInv, TypeOK
<1> QED BY <1>2, <1>3, <1>4, <1>5

-----------------------------------------------------------------------------
(* Theorems.                                                               *)

LEMMA InitKeeps == Init => IInv
<1> SUFFICES ASSUME Init PROVE IInv
  OBVIOUS
<1> USE DEF Init
<1>1. TypeOK
  BY OutboxConstants DEF TypeOK
<1>2. StatusIsTrue /\ StepOK /\ KeyOK /\ AnswerOK
  BY OutboxConstants DEF StatusIsTrue, StepOK, KeyOK, AnswerOK, Active, Told, Keyed, Senders, Sending
<1>3. OutcomeOK /\ NoStuckKey
  BY KeysOK DEF OutcomeOK, NoStuckKey, Pending
<1> QED BY <1>1, <1>2, <1>3 DEF IInv

LEMMA NextKeeps == IInv /\ [Next]_outboxVars => IInv'
<1> SUFFICES ASSUME IInv, [Next]_outboxVars PROVE IInv'
  OBVIOUS
<1>1. ASSUME NEW a \in Requests, Claim(a) PROVE IInv'
  BY <1>1, ClaimLocal, ClaimKeeps, OthersKeep DEF IInv
<1>2. ASSUME NEW a \in Requests, Complete(a) PROVE IInv'
  BY <1>2, CompleteLocal, CompleteKeeps, OthersKeep DEF IInv
<1>3. ASSUME NEW a \in Requests, Rate(a) PROVE IInv'
  BY <1>3, RateLocal, MovesKeep DEF IInv
<1>4. ASSUME NEW a \in Requests, SipMessage(a) PROVE IInv'
  BY <1>4, SipLocal, OthersKeep DEF IInv
<1>5. ASSUME NEW a \in Requests, Insert(a) PROVE IInv'
  BY <1>5, InsertLocal, MovesKeep DEF IInv
<1>6. ASSUME NEW a \in Requests, Submit(a) PROVE IInv'
  BY <1>6, SubmitLocal, MovesKeep DEF IInv
<1>7. ASSUME NEW a \in Requests, ModemAnswers(a) \/ AnswerLost(a) PROVE IInv'
  BY <1>7, AnswersLocal, MovesKeep DEF IInv
<1>8. ASSUME NEW a \in Requests,
             MarkSubmitted(a) \/ MarkSent(a) \/ MarkUnknown(a) \/ MarkFailed(a)
      PROVE  IInv'
  BY <1>8, MarkLocal, MovesKeep DEF IInv
<1>9. ASSUME NEW a \in Requests, Apply(a) PROVE IInv'
  BY <1>9, ApplyLocal, OthersKeep DEF IInv
<1>10. ASSUME NEW a \in Requests, Expire(a) PROVE IInv'
  BY <1>10, TimeLocal, OthersKeep DEF IInv
<1>11. CASE Crash
  BY <1>11, TimeLocal, CrashKeeps DEF IInv
<1>12. CASE UNCHANGED outboxVars
  BY <1>12 DEF outboxVars, IInv, TypeOK, StatusIsTrue, NoStuckKey, StepOK, KeyOK, AnswerOK,
               OutcomeOK, Active, Told
<1> QED BY <1>1, <1>2, <1>3, <1>4, <1>5, <1>6, <1>7, <1>8, <1>9, <1>10, <1>11, <1>12 DEF Next, GoOn

THEOREM Invariance == Spec => []IInv
BY InitKeeps, NextKeeps, PTL DEF Spec

\* Tables, goroutines and answers have their types, and no message is sent in more parts
\* than it has.
THEOREM TypeCorrect == Spec => []TypeOK
<1>1. IInv => TypeOK
  BY DEF IInv
<1> QED BY <1>1, Invariance, PTL

\* A message marked "sent" (Engine.Send) is out entirely, a "failed" one is not.
THEOREM StatusTrue == Spec => []StatusIsTrue
<1>1. IInv => StatusIsTrue
  BY DEF IInv
<1> QED BY <1>1, Invariance, PTL

\* A recorded 201 has a message that was submitted, a recorded 429 has sent nothing
\* (sendMessage).
THEOREM OutcomeTrue == Spec => []OutcomeIsTrue
<1>1. IInv => OutcomeIsTrue
  <2> SUFFICES ASSUME IInv, NEW k \in SendKeys
               PROVE  /\ idem[k] = 201 => \E a \in Requests : Key[a] = k /\ row[a] \in Accepted
                      /\ idem[k] = 429 => \A a \in Requests : Key[a] = k => taken[a] = 0
    BY DEF OutcomeIsTrue, Accepted
  <2> QED BY KeysOK DEF IInv, OutcomeOK, Keyed
<1> QED BY <1>1, Invariance, PTL

\* Two clients that repeat a send never get different results of it (replayIdempotency).
THEOREM RepliesAgreeAlways == Spec => []RepliesAgree
<1>1. IInv => RepliesAgree
  <2> SUFFICES ASSUME IInv, NEW a \in Requests, NEW b \in Requests, Kind[a] = "send",
                      Key[a] = Key[b], pc[a] = "done", pc[b] = "done",
                      ~({answer[a], answer[b]} \cap {0, 409, 500} # {})
               PROVE  answer[a] = answer[b]
    BY DEF RepliesAgree
  <2>0. answer[a] \notin {0, 409, 500} /\ answer[b] \notin {0, 409, 500}
    BY ZenonT(30)
  <2>1. a \in Keyed /\ b \in Keyed /\ Told(a) /\ Told(b)
    BY <2>0, KeysOK DEF Keyed, Told
  <2> QED BY <2>1 DEF IInv, AnswerOK
<1> QED BY <1>1, Invariance, PTL

\* Without failures and restarts every return of sendMessage records an answer.
THEOREM NoKeyStuck == Spec => []NoStuckKey
<1>1. IInv => NoStuckKey
  BY DEF IInv
<1> QED BY <1>1, Invariance, PTL

-----------------------------------------------------------------------------
(* The refinement.                                                         *)

\* The requests of a key agree on its parts.
LEMMA PartsOK == \A a \in Keyed : PartsFor[Key[a]] = Parts[a]
<1> SUFFICES ASSUME NEW a \in Keyed PROVE PartsFor[Key[a]] = Parts[a]
  OBVIOUS
<1> DEFINE b == CHOOSE c \in Senders : Key[c] = Key[a]
<1>1. Key[a] \in SendKeys /\ a \in Senders
  BY KeysOK
<1>2. b \in Senders /\ Key[b] = Key[a]
  BY <1>1
<1>3. Parts[b] = Parts[a]
  BY <1>1, <1>2, OutboxConstants DEF Keyed, Senders
<1> QED BY <1>1, <1>3 DEF PartsFor

\* A step that leaves what the sends have sent and what is recorded for them is a stutter.
LEMMA Stutters ==
    ASSUME \A k \in SendKeys : idem'[k] = idem[k],
           \A a \in Keyed : taken'[a] = taken[a]
    PROVE  UNCHANGED Promise!abstractVars
<1>1. \A k \in SendKeys : \A a \in Senders : Key[a] = k => taken'[a] = taken[a]
  BY KeysOK DEF Senders
<1>2. SentFor' = SentFor
  BY <1>1 DEF SentFor
<1>3. OutcomeFor' = OutcomeFor
  BY DEF OutcomeFor
<1> QED BY <1>2, <1>3 DEF Promise!abstractVars

\* A submission is a Send of the abstract specification.
LEMMA SubmitImplements ==
    ASSUME IInv, NEW a \in Keyed, Submit(a), taken' = [taken EXCEPT ![a] = @ + 1]
    PROVE  Promise!Next
<1> DEFINE k == Key[a]
<1>1. k \in SendKeys /\ a \in Senders /\ a \in Requests /\ pc[a] = "submit"
  BY KeysOK DEF Submit, Keyed
<1>2. idem[k] = Pending /\ idem' = idem /\ taken[a] < Parts[a] /\ taken[a] \in Nat
  BY <1>1 DEF Submit, IInv, KeyOK, Active, StepOK, TypeOK
<1>3. \A b \in Senders \ {a} : Key[b] = k => taken[b] = 0
  BY <1>1, KeysOK DEF IInv, KeyOK, Active, Senders
<1>4. OutcomeFor[k] = 0 /\ OutcomeFor' = OutcomeFor
  BY <1>1, <1>2 DEF OutcomeFor
<1>5. SentFor[k][a] < PartsFor[k] /\ \A b \in Senders \ {a} : SentFor[k][b] = 0
  BY <1>1, <1>2, <1>3, PartsOK DEF SentFor
<1>6. SentFor' = [SentFor EXCEPT ![k][a] = @ + 1]
  <2>1. \A b \in Senders : taken'[b] = IF b = a THEN taken[a] + 1 ELSE taken[b]
    BY <1>1 DEF IInv, TypeOK, Senders
  <2> QED BY <1>1, <2>1, SMTT(30) DEF SentFor
<1>7. Promise!Send(k, a)
  BY <1>4, <1>5, <1>6 DEF Promise!Send
<1> QED BY <1>1, <1>7 DEF Promise!Next

\* Recording an answer is a Record of the abstract specification.
LEMMA CompleteImplements ==
    ASSUME IInv, NEW a \in Keyed, Complete(a), idem' # idem
    PROVE  Promise!Next
<1> DEFINE k == Key[a]
<1>1. k \in SendKeys /\ k \in Keys /\ pc[a] = "complete" /\ a \in Requests
  BY KeysOK DEF Complete, Keyed
<1>2. idem[k] = Pending /\ answer[a] \in Codes
  BY <1>1 DEF IInv, KeyOK, Active, StepOK
<1>3. idem' = [idem EXCEPT ![k] = answer[a]] /\ UNCHANGED taken
  BY <1>1, <1>2 DEF Complete, Pending
<1>4. OutcomeFor[k] = 0 /\ UNCHANGED SentFor
  BY <1>1, <1>2, <1>3 DEF OutcomeFor, SentFor
<1>5. OutcomeFor' = [OutcomeFor EXCEPT ![k] = answer[a]]
  <2>1. \A j \in SendKeys : idem'[j] = IF j = k THEN answer[a] ELSE idem[j]
    BY <1>3, KeysOK DEF IInv, TypeOK
  <2>2. answer[a] # Pending
    BY <1>2 DEF Codes, Pending
  <2> QED BY <1>1, <2>1, <2>2 DEF OutcomeFor
<1>6. Promise!Record(k, answer[a])
  BY <1>4, <1>5 DEF Promise!Record
<1> QED BY <1>1, <1>2, <1>6 DEF Promise!Next

LEMMA StepImplements == IInv /\ [Next]_outboxVars => [Promise!Next]_(Promise!abstractVars)
<1> SUFFICES ASSUME IInv, [Next]_outboxVars PROVE Promise!Next \/ UNCHANGED Promise!abstractVars
  OBVIOUS
<1>1. CASE UNCHANGED <<idem, taken>>
  BY <1>1, Stutters
<1>2. ASSUME NEW a \in Requests, Claim(a) PROVE UNCHANGED Promise!abstractVars
  <2>1. UNCHANGED taken
    BY <1>2 DEF Claim
  <2>2. CASE a \in Keyed /\ idem[Key[a]] = 0 /\ idem' = [idem EXCEPT ![Key[a]] = Pending]
    <3>1. \A k \in SendKeys : idem'[k] = idem[k] \/ (idem'[k] = Pending /\ idem[k] = 0)
      BY <2>2, KeysOK DEF IInv, TypeOK
    <3>2. OutcomeFor' = OutcomeFor
      BY <3>1 DEF OutcomeFor, Pending
    <3>3. SentFor' = SentFor
      BY <2>1 DEF SentFor
    <3> QED BY <3>2, <3>3 DEF Promise!abstractVars
  <2>3. CASE a \in Keyed /\ idem' = idem
    BY <2>1, <2>3, Stutters
  <2>4. CASE a \notin Keyed
    <3>1. \A k \in SendKeys : k # Key[a]
      BY <1>2, <2>4, KeysOK
    <3>2. \A k \in SendKeys : idem'[k] = idem[k]
      BY <1>2, <3>1, KeysOK DEF Claim, IInv, TypeOK
    <3> QED BY <2>1, <3>2, Stutters
  <2> QED BY <1>2, <2>2, <2>3, <2>4 DEF Claim
<1>3. ASSUME NEW a \in Requests, Complete(a) PROVE Promise!Next \/ UNCHANGED Promise!abstractVars
  <2>1. UNCHANGED taken
    BY <1>3 DEF Complete
  <2>2. CASE a \in Keyed
    BY <1>3, <2>1, <2>2, CompleteImplements, Stutters
  <2>3. CASE a \notin Keyed
    <3>1. \A k \in SendKeys : idem'[k] = idem[k]
      BY <1>3, <2>3, KeysOK DEF Complete, IInv, TypeOK
    <3> QED BY <2>1, <3>1, Stutters
  <2> QED BY <2>2, <2>3
<1>4. ASSUME NEW a \in Requests, Submit(a) PROVE Promise!Next \/ UNCHANGED Promise!abstractVars
  <2>1. UNCHANGED idem
    BY <1>4 DEF Submit
  <2>2. CASE a \in Keyed
    BY <1>4, <2>1, <2>2, SubmitImplements, Stutters DEF Submit
  <2>3. CASE a \notin Keyed
    <3>1. \A b \in Keyed : taken'[b] = taken[b]
      BY <1>4, <2>3 DEF Submit, IInv, TypeOK, Keyed
    <3> QED BY <2>1, <3>1, Stutters
  <2> QED BY <2>2, <2>3
<1> QED BY <1>1, <1>2, <1>3, <1>4
        DEF Next, GoOn, outboxVars, Rate, SipMessage, Insert, ModemAnswers, AnswerLost, MarkSubmitted,
            MarkSent, MarkUnknown, MarkFailed, Apply, Expire, Crash

\* sendMessage, the idempotency table and Engine.Send together implement OneSubmission: of all
\* the requests of a key one submits, each part once, and nothing follows a recorded outcome.
THEOREM Implements == Spec => AtMostOnce
<1>1. Init => Promise!Init
  <2> SUFFICES ASSUME Init PROVE Promise!Init
    OBVIOUS
  <2>1. \A a \in Senders : taken[a] = 0
    BY DEF Init, Senders
  <2>2. \A k \in SendKeys : idem[k] = 0
    BY KeysOK DEF Init
  <2> QED BY <2>1, <2>2 DEF Promise!Init, SentFor, OutcomeFor, Pending
<1> QED BY <1>1, StepImplements, Invariance, PTL DEF Spec, AtMostOnce, Promise!Spec

-----------------------------------------------------------------------------
(***************************************************************************)
(* The serial port.                                                        *)
(***************************************************************************)

(* The inductive invariant.                                                *)

Readers == Commands \union {NoOne}
Urc(u) == [kind |-> "urc", of |-> u]

\* The pieces of events; prompts; those of events and of answers to k; those of anything but u.
UrcPieces == {p \in Pieces : p.line.kind = "urc"}
Prompts == {p \in Pieces : p.line.kind = "prompt"}
AnswerPieces(k, kinds) ==
    {p \in Pieces : p.line.kind # "urc" => p.line.of = k /\ p.line.kind \in kinds}
PiecesBut(u) == {p \in Pieces : p.line # Urc(u)}

Reading(k) == client[k] \in {"prompt", "final"}

\* Who reads has the port, and what it has read and not taken ends no line.
PortIsHeld ==
    /\ \A k \in Commands : Reading(k) \/ client[k] = "dispatch" <=> port = k
    /\ \A k \in Commands : client[k] = "prompt" => k \in Submissions
    /\ \A k \in Commands : ~Reading(k) => buffer[k] = <<>>
    /\ \A r \in Readers : Ends(buffer[r]) = {}

\* How far the modem and the command k, which has the port, are with each other.
Quiet == wire \in Seq(UrcPieces)
Unread(k) == buffer[k] \in Seq(UrcPieces)
Asked(k) ==
    /\ input = <<<<"command", k>>>> /\ prompting = NoOne /\ Quiet /\ Unread(k)
    /\ client[k] = "final" => k \in Exchanges
EndsAnswer(p) == p.part = "tail" /\ p.line.kind # "urc"
LastAnswer(s) == \A i, j \in DOMAIN s : i < j /\ EndsAnswer(s[i]) => s[j] \in UrcPieces
Answered(k, kinds) ==
    /\ input = <<>> /\ prompting = NoOne /\ LastAnswer(wire)
    /\ wire \in Seq(AnswerPieces(k, kinds)) /\ buffer[k] \in Seq(AnswerPieces(k, kinds))
OnePrompt(s) ==
    /\ s \in Seq(UrcPieces \union Prompts)
    /\ \A i, j \in DOMAIN s : s[i] \in Prompts /\ s[j] \in Prompts => i = j
Prompted(k) == input = <<>> /\ prompting = k /\ OnePrompt(wire) /\ Unread(k)
Supplied(k) == input = <<<<"body", k>>>> /\ prompting = k /\ Quiet /\ Unread(k)

Settled == input = <<>> /\ prompting = NoOne /\ Quiet
BeforePrompt(k) == Asked(k) \/ Answered(k, {"error"}) \/ Prompted(k)
BeforeFinal(k) == Asked(k) \/ Answered(k, {"ok", "error"}) \/ Supplied(k)

InStep ==
    /\ \A k \in Commands : client[k] \in {"dispatch", "done"} => given[k] = k
    /\ (\A k \in Commands : ~Reading(k)) => Settled
    /\ \A k \in Commands : client[k] = "prompt" => BeforePrompt(k)
    /\ \A k \in Commands : client[k] = "final" => BeforeFinal(k)
    /\ \A s \in submitted : s[1] = s[2]

\* No piece of an event is in two places, nor in any once the event was handed on.
Once(s) == \A i, j \in DOMAIN s : s[i].line.kind = "urc" /\ s[i] = s[j] => i = j
Apart(s, t) == \A i \in DOMAIN s, j \in DOMAIN t : s[i].line.kind = "urc" => s[i] # t[j]
Without(s, u) == s \in Seq(PiecesBut(u))
Got(r) == (held[r] \o buffer[r]) \o (IF r = NoOne THEN chunk ELSE <<>>)

PiecesOnce ==
    /\ Once(wire) /\ \A r \in Readers : Once(Got(r)) /\ Apart(Got(r), wire)
    /\ \A q, r \in Readers : q # r => Apart(Got(q), Got(r))
Gone(u) == Without(wire, u) /\ \A r \in Readers : Without(Got(r), u)
NothingTwice ==
    /\ PiecesOnce
    /\ \A u \in Urcs : \/ u \in toSend /\ handled[u] = 0 /\ Gone(u)
                       \/ u \notin toSend /\ handled[u] = 0
                       \/ u \notin toSend /\ handled[u] = 1 /\ Gone(u)

\* Until a command begins, the port carries whole lines of events and Run has their pieces.
Closes(p) == p.part = "tail"
HeadOf(p) == [line |-> p.line, part |-> "head"]
TailOf(p) == [line |-> p.line, part |-> "tail"]
Lined(s) ==
    \A i \in DOMAIN s :
        /\ s[i].line.kind = "urc"
        /\ ~Closes(s[i]) => i + 1 \in DOMAIN s /\ s[i + 1] = TailOf(s[i])
        /\ Closes(s[i]) => i - 1 \in DOMAIN s /\ s[i - 1] = HeadOf(s[i])
Stream == (buffer[NoOne] \o chunk) \o wire

NothingLost ==
    (\A k \in Commands : client[k] = "idle") =>
        /\ input = <<>> /\ Lined(held[NoOne]) /\ Lined(Stream)
        /\ chunk # <<>> => held[NoOne] = <<>>
        /\ \A u \in Urcs : \/ u \in toSend \/ handled[u] = 1
                           \/ ~Without(held[NoOne], u) \/ ~Without(Stream, u)

PortInv ==
    /\ PortTypeOK /\ PortIsHeld /\ (deadlines = 0 => InStep) /\ NothingTwice /\ NothingLost

-----------------------------------------------------------------------------
(* Sequences.                                                              *)

\* Cutting a sequence: it is what was taken followed by what is left.
LEMMA Cut ==
    ASSUME NEW S, NEW s \in Seq(S), NEW n \in 0..Len(s)
    PROVE  /\ SubSeq(s, 1, n) \in Seq(S) /\ SubSeq(s, n + 1, Len(s)) \in Seq(S)
           /\ s = SubSeq(s, 1, n) \o SubSeq(s, n + 1, Len(s))
           /\ Len(SubSeq(s, 1, n)) = n /\ Len(SubSeq(s, n + 1, Len(s))) = Len(s) - n
           /\ \A i \in 1..n : SubSeq(s, 1, n)[i] = s[i]
           /\ \A i \in 1..(Len(s) - n) : SubSeq(s, n + 1, Len(s))[i] = s[n + i]
<1>1. Len(s) \in Nat
  BY LenProperties
<1>2. \A i \in 1..Len(s) : s[i] \in S
  BY ElementOfSeq
<1>3. /\ SubSeq(s, 1, n) \in Seq(S)
      /\ Len(SubSeq(s, 1, n)) = IF 1 <= n THEN n - 1 + 1 ELSE 0
      /\ \A i \in 1..(n - 1 + 1) : SubSeq(s, 1, n)[i] = s[1 + i - 1]
  <2>1. 1 \in Int /\ n \in Int /\ \A i \in 1..n : s[i] \in S
    BY <1>1, <1>2
  <2> QED
    BY <2>1, SubSeqProperties
<1>4. /\ SubSeq(s, n + 1, Len(s)) \in Seq(S)
      /\ Len(SubSeq(s, n + 1, Len(s))) = IF n + 1 <= Len(s) THEN Len(s) - (n + 1) + 1 ELSE 0
      /\ \A i \in 1..(Len(s) - (n + 1) + 1) : SubSeq(s, n + 1, Len(s))[i] = s[n + 1 + i - 1]
  <2>1. n + 1 \in Int /\ Len(s) \in Int /\ \A i \in (n + 1)..Len(s) : s[i] \in S
    BY <1>1, <1>2
  <2> QED
    BY <2>1, SubSeqProperties
<1>5. s = SubSeq(s, 1, n) \o SubSeq(s, n + 1, Len(s))
  <2>1. /\ 1 \in 1..(Len(s) + 1) /\ n \in (1 - 1)..Len(s) /\ Len(s) \in n..Len(s)
    BY <1>1
  <2>2. SubSeq(s, 1, n) \o SubSeq(s, n + 1, Len(s)) = SubSeq(s, 1, Len(s))
    BY <2>1, ConcatAdjacentSubSeq
  <2> QED
    BY <2>2, SubSeqFull
<1>6. Len(SubSeq(s, 1, n)) = n /\ \A i \in 1..n : SubSeq(s, 1, n)[i] = s[i]
  <2>1. \A i \in 1..n : i \in 1..(n - 1 + 1) /\ 1 + i - 1 = i
    BY <1>1
  <2>2. Len(SubSeq(s, 1, n)) = n
    BY <1>1, <1>3
  <2> QED
    BY <2>1, <2>2, <1>3
<1>7. Len(SubSeq(s, n + 1, Len(s))) = Len(s) - n
  BY <1>1, <1>4
<1>8. \A i \in 1..(Len(s) - n) : SubSeq(s, n + 1, Len(s))[i] = s[n + i]
  <2>1. \A i \in 1..(Len(s) - n) : i \in 1..(Len(s) - (n + 1) + 1) /\ n + 1 + i - 1 = n + i
    BY <1>1
  <2> QED
    BY <2>1, <1>4
<1> QED
  BY <1>3, <1>4, <1>5, <1>6, <1>7, <1>8

\* The elements of a concatenation.
LEMMA Joined ==
    ASSUME NEW S, NEW s \in Seq(S), NEW t \in Seq(S)
    PROVE  /\ s \o t \in Seq(S) /\ DOMAIN (s \o t) = 1..(Len(s) + Len(t))
           /\ Len(s) \in Nat /\ DOMAIN s = 1..Len(s) /\ Len(t) \in Nat /\ DOMAIN t = 1..Len(t)
           /\ Len(s \o t) = Len(s) + Len(t)
           /\ \A i \in DOMAIN s : i \in DOMAIN (s \o t) /\ (s \o t)[i] = s[i]
           /\ \A j \in DOMAIN t : /\ Len(s) + j \in DOMAIN (s \o t)
                                 /\ (s \o t)[Len(s) + j] = t[j]
           /\ \A i \in DOMAIN (s \o t) : i \in DOMAIN s \/ \E j \in DOMAIN t : i = Len(s) + j
<1>1. /\ Len(s) \in Nat /\ DOMAIN s = 1..Len(s) /\ Len(t) \in Nat /\ DOMAIN t = 1..Len(t)
  BY LenProperties
<1>2. /\ s \o t \in Seq(S) /\ Len(s \o t) = Len(s) + Len(t)
      /\ \A i \in 1..(Len(s) + Len(t)) : (s \o t)[i] = IF i <= Len(s) THEN s[i] ELSE t[i - Len(s)]
  BY ConcatProperties
<1>3. DOMAIN (s \o t) = 1..(Len(s) + Len(t))
  BY <1>2, LenProperties
<1>4. \A i \in DOMAIN s : i \in DOMAIN (s \o t) /\ (s \o t)[i] = s[i]
  <2>1. \A i \in 1..Len(s) : i \in 1..(Len(s) + Len(t)) /\ i <= Len(s)
    BY <1>1
  <2> QED
    BY <2>1, <1>1, <1>2, <1>3
<1>5. \A j \in DOMAIN t : Len(s) + j \in DOMAIN (s \o t) /\ (s \o t)[Len(s) + j] = t[j]
  <2>1. \A j \in 1..Len(t) : /\ Len(s) + j \in 1..(Len(s) + Len(t)) /\ ~(Len(s) + j <= Len(s))
                             /\ Len(s) + j - Len(s) = j
    BY <1>1
  <2>2. \A m \in 1..(Len(s) + Len(t)) : ~(m <= Len(s)) => (s \o t)[m] = t[m - Len(s)]
    BY <1>2
  <2>3. \A j \in 1..Len(t) : (s \o t)[Len(s) + j] = t[Len(s) + j - Len(s)]
    BY <2>1, <2>2
  <2> QED
    BY <2>1, <2>3, <1>1, <1>3
<1>6. \A i \in DOMAIN (s \o t) : i \in DOMAIN s \/ \E j \in DOMAIN t : i = Len(s) + j
  <2>1. \A i \in 1..(Len(s) + Len(t)) :
            i \in 1..Len(s) \/ (i - Len(s) \in 1..Len(t) /\ i = Len(s) + (i - Len(s)))
    BY <1>1
  <2> QED
    BY <2>1, <1>1, <1>3
<1> QED
  BY <1>1, <1>2, <1>3, <1>4, <1>5, <1>6

\* Apart and Once of a concatenation, from those of its parts.
LEMMA ApartJoined ==
    ASSUME NEW S, NEW s \in Seq(S), NEW t \in Seq(S), NEW z \in Seq(S)
    PROVE  /\ Apart(s \o t, z) <=> Apart(s, z) /\ Apart(t, z)
           /\ Apart(z, s \o t) <=> Apart(z, s) /\ Apart(z, t)
<1> DEFINE st == s \o t
<1>1. /\ \A i \in DOMAIN s : i \in DOMAIN st /\ st[i] = s[i]
      /\ \A j \in DOMAIN t : Len(s) + j \in DOMAIN st /\ st[Len(s) + j] = t[j]
      /\ \A i \in DOMAIN st : i \in DOMAIN s \/ \E j \in DOMAIN t : i = Len(s) + j
  BY Joined
<1> HIDE DEF st
<1>2. \A i \in DOMAIN st : \/ i \in DOMAIN s /\ st[i] = s[i]
                           \/ \E j \in DOMAIN t : st[i] = t[j]
  BY <1>1
<1>3. /\ Apart(st, z) <=> Apart(s, z) /\ Apart(t, z)
      /\ Apart(z, st) <=> Apart(z, s) /\ Apart(z, t)
  BY <1>1, <1>2 DEF Apart
<1> QED
  BY <1>3 DEF st

LEMMA ApartTurned ==
    ASSUME NEW s, NEW t, Apart(s, t) PROVE Apart(t, s)
  BY DEF Apart

LEMMA OnceJoined ==
    ASSUME NEW S, NEW s \in Seq(S), NEW t \in Seq(S)
    PROVE  Once(s \o t) <=> Once(s) /\ Once(t) /\ Apart(s, t)
<1> DEFINE st == s \o t
           n == Len(s)
<1>1. n \in Nat /\ DOMAIN s = 1..n /\ Len(t) \in Nat /\ DOMAIN t = 1..Len(t)
  BY Joined
<1>2. \A i \in DOMAIN st : i \in DOMAIN s \/ \E j \in DOMAIN t : i = n + j
  BY Joined
<1>3. \A i \in DOMAIN s : i \in DOMAIN st /\ st[i] = s[i]
  BY Joined
<1>4. \A j \in DOMAIN t : n + j \in DOMAIN st /\ st[n + j] = t[j]
  BY Joined
<1>5. \A i \in DOMAIN s, j \in DOMAIN t : i # n + j
  BY <1>1
<1>6. \A i, j \in DOMAIN t : n + i = n + j => i = j
  BY <1>1
<1> HIDE DEF st, n
<1>7. Once(st) => Once(s) /\ Once(t) /\ Apart(s, t)
  <2> SUFFICES ASSUME Once(st) PROVE Once(s) /\ Once(t) /\ Apart(s, t)
    OBVIOUS
  <2>1. Once(s)
    BY <1>3 DEF Once
  <2>2. Once(t)
    BY <1>4, <1>6 DEF Once
  <2>3. Apart(s, t)
    BY <1>3, <1>4, <1>5 DEF Once, Apart
  <2> QED
    BY <2>1, <2>2, <2>3
<1>8. Once(s) /\ Once(t) /\ Apart(s, t) => Once(st)
  <2> SUFFICES ASSUME Once(s), Once(t), Apart(s, t),
                      NEW i \in DOMAIN st, NEW j \in DOMAIN st,
                      st[i].line.kind = "urc", st[i] = st[j]
               PROVE  i = j
    BY DEF Once
  <2>1. CASE i \in DOMAIN s /\ j \in DOMAIN s
    BY <2>1, <1>3 DEF Once
  <2>2. CASE \E a, b \in DOMAIN t : i = n + a /\ j = n + b
    BY <2>2, <1>4 DEF Once
  <2>3. CASE i \in DOMAIN s /\ \E b \in DOMAIN t : j = n + b
    BY <2>3, <1>3, <1>4 DEF Apart
  <2>4. CASE j \in DOMAIN s /\ \E b \in DOMAIN t : i = n + b
    BY <2>4, <1>3, <1>4 DEF Apart
  <2> QED
    BY <2>1, <2>2, <2>3, <2>4, <1>2
<1> QED
  BY <1>7, <1>8 DEF st

\* A sequence is over a smaller set if its elements are in it.
LEMMA Over ==
    ASSUME NEW S, NEW T, NEW s \in Seq(S)
    PROVE  s \in Seq(T) <=> \A i \in DOMAIN s : s[i] \in T
<1>1. /\ Len(s) \in Nat /\ s \in [1..Len(s) -> S] /\ DOMAIN s = 1..Len(s)
  BY LenProperties
<1>2. s \in Seq(T) => \A i \in DOMAIN s : s[i] \in T
  BY <1>1, ElementOfSeq
<1>3. ASSUME \A i \in DOMAIN s : s[i] \in T PROVE s \in Seq(T)
  <2>1. s \in [1..Len(s) -> T]
    BY <1>1, <1>3
  <2> QED
    BY <1>1, <2>1, SeqDef
<1> QED
  BY <1>2, <1>3

LEMMA OverJoined ==
    ASSUME NEW S, NEW T, NEW s \in Seq(S), NEW t \in Seq(S)
    PROVE  s \o t \in Seq(T) <=> s \in Seq(T) /\ t \in Seq(T)
<1>1. s \in Seq(T) /\ t \in Seq(T) => s \o t \in Seq(T)
  BY ConcatProperties
<1>2. ASSUME s \o t \in Seq(T) PROVE s \in Seq(T) /\ t \in Seq(T)
  <2>1. s \o t \in Seq(S)
    BY Joined
  <2>2. \A i \in DOMAIN (s \o t) : (s \o t)[i] \in T
    BY <1>2, <2>1, Over
  <2>3. \A i \in DOMAIN s : s[i] \in T
    BY <2>2, Joined
  <2>4. \A i \in DOMAIN t : t[i] \in T
    <3>1. \A j \in DOMAIN t : /\ Len(s) + j \in DOMAIN (s \o t)
                              /\ (s \o t)[Len(s) + j] = t[j]
      BY Joined
    <3> QED
      BY <2>2, <3>1
  <2> QED
    BY <2>3, <2>4, Over
<1> QED
  BY <1>1, <1>2

LEMMA JoinedNone ==
    ASSUME NEW S, NEW s \in Seq(S)
    PROVE  <<>> \in Seq(S) /\ s \o <<>> = s /\ <<>> \o s = s /\ DOMAIN <<>> = {}
<1>1. <<>> \in Seq(S) /\ Len(<<>>) = 0
  BY EmptySeq
<1>2. DOMAIN <<>> = {}
  BY <1>1, LenProperties
<1> QED
  BY <1>1, <1>2, ConcatEmptySeq

\* What Feed takes ends a line and what it keeps ends none.
LEMMA Fed ==
    ASSUME NEW s \in Seq(Pieces), NEW e \in 0..Len(s), Feed(s, e)
    PROVE  /\ SubSeq(s, 1, e) \in Seq(Pieces) /\ SubSeq(s, e + 1, Len(s)) \in Seq(Pieces)
           /\ s = SubSeq(s, 1, e) \o SubSeq(s, e + 1, Len(s))
           /\ Ends(SubSeq(s, e + 1, Len(s))) = {}
           /\ \/ SubSeq(s, 1, e) = <<>>
              \/ SubSeq(s, 1, e)[Len(SubSeq(s, 1, e))].part = "tail"
<1>0. /\ SubSeq(s, 1, e) \in Seq(Pieces) /\ SubSeq(s, e + 1, Len(s)) \in Seq(Pieces)
      /\ s = SubSeq(s, 1, e) \o SubSeq(s, e + 1, Len(s))
      /\ Len(SubSeq(s, 1, e)) = e /\ Len(SubSeq(s, e + 1, Len(s))) = Len(s) - e
  BY Cut, ZenonT(30)
<1> DEFINE c == SubSeq(s, 1, e)
           d == SubSeq(s, e + 1, Len(s))
<1>1. /\ c \in Seq(Pieces) /\ d \in Seq(Pieces) /\ s = c \o d
      /\ Len(c) = e /\ Len(d) = Len(s) - e
  BY ONLY <1>0, Zenon DEF c, d
<1>2. \A i \in 1..e : c[i] = s[i]
  BY Cut
<1>3. \A i \in 1..(Len(s) - e) : d[i] = s[e + i]
  BY Cut
<1>4. Len(s) \in Nat /\ DOMAIN s = 1..Len(s) /\ DOMAIN d = 1..Len(d)
  BY <1>1, LenProperties
<1> HIDE DEF c, d
<1>5. Ends(d) = {}
  <2> SUFFICES ASSUME NEW i \in DOMAIN d, d[i].part = "tail" PROVE FALSE
    BY DEF Ends
  <2>1. i \in 1..(Len(s) - e) /\ e + i \in DOMAIN s /\ ~(e + i <= e)
    BY <1>1, <1>4
  <2>2. s[e + i].part = "tail"
    BY <2>1, <1>3
  <2> QED
    BY <2>1, <2>2 DEF Feed, Ends
<1>6. c = <<>> \/ c[Len(c)].part = "tail"
  <2>1. CASE e = 0
    BY <2>1, <1>1, EmptySeq
  <2>2. CASE e # 0
    <3>1. e \in 1..e /\ e \in Ends(s)
      BY <2>2 DEF Feed
    <3>2. s[e].part = "tail"
      BY <3>1 DEF Ends
    <3> QED
      BY <3>1, <3>2, <1>1, <1>2
  <2> QED
    BY <2>1, <2>2
<1> QED
  BY <1>1, <1>5, <1>6 DEF c, d

-----------------------------------------------------------------------------
(* What each kind of step does to the pieces.                              *)

\* A reader takes a from the wire, of which the sequence of pieces it has keeps a stretch.
Takes(r, a) ==
    /\ wire' \in Seq(Pieces) /\ wire = a \o wire'
    /\ \A q \in Readers : q # r => Got(q)' = Got(q)
    /\ \E x, y \in Seq(Pieces) : Got(r) \o a = (x \o Got(r)') \o y

LEMMA GotType ==
    ASSUME NEW h \in Seq(Pieces), NEW b \in Seq(Pieces), NEW c \in Seq(Pieces), NEW r
    PROVE  (h \o b) \o (IF r = NoOne THEN c ELSE <<>>) \in Seq(Pieces)
<1>1. (IF r = NoOne THEN c ELSE <<>>) \in Seq(Pieces)
  BY EmptySeq
<1> QED
  BY <1>1, Joined

\* What is kept is no less once, apart and without an event than all of it.
LEMMA Stretch ==
    ASSUME NEW g \in Seq(Pieces), NEW a \in Seq(Pieces), NEW x \in Seq(Pieces),
           NEW h \in Seq(Pieces), NEW y \in Seq(Pieces), g \o a = (x \o h) \o y
    PROVE  /\ Once(g) /\ Once(a) /\ Apart(g, a) => Once(h)
           /\ \A z \in Seq(Pieces) : Apart(g, z) /\ Apart(a, z) => Apart(h, z)
           /\ \A T : g \in Seq(T) /\ a \in Seq(T) => h \in Seq(T)
<1> DEFINE xh == x \o h
<1>1. xh \in Seq(Pieces)
  BY Joined
<1>2. Once(g) /\ Once(a) /\ Apart(g, a) => Once(h)
  <2>1. Once(g) /\ Once(a) /\ Apart(g, a) => Once(xh \o y)
    BY OnceJoined
  <2>2. Once(xh) => Once(h)
    BY OnceJoined
  <2> HIDE DEF xh
  <2>3. Once(xh \o y) => Once(xh)
    BY <1>1, OnceJoined
  <2> QED
    BY <2>1, <2>2, <2>3
<1>3. ASSUME NEW z \in Seq(Pieces), Apart(g, z), Apart(a, z) PROVE Apart(h, z)
  <2>1. Apart(xh \o y, z)
    BY <1>3, ApartJoined
  <2>2. Apart(xh, z) => Apart(h, z)
    BY ApartJoined
  <2> HIDE DEF xh
  <2>3. Apart(xh, z)
    BY <2>1, <1>1, ApartJoined
  <2> QED
    BY <2>2, <2>3
<1>4. ASSUME NEW T, g \in Seq(T), a \in Seq(T) PROVE h \in Seq(T)
  <2>1. xh \o y \in Seq(T)
    BY <1>4, ConcatProperties
  <2>2. xh \in Seq(T) => h \in Seq(T)
    BY OverJoined
  <2> HIDE DEF xh
  <2>3. xh \in Seq(T)
    BY <2>1, <1>1, OverJoined
  <2> QED
    BY <2>2, <2>3
<1> QED
  BY <1>2, <1>3, <1>4

LEMMA TakesKeeps ==
    ASSUME PortTypeOK, PortTypeOK', NEW r \in Readers, NEW a \in Seq(Pieces), Takes(r, a),
           PiecesOnce
    PROVE  PiecesOnce' /\ \A u : Gone(u) => Gone(u)'
<1>1. \A q \in Readers : Got(q) \in Seq(Pieces)
  <2> SUFFICES ASSUME NEW q \in Readers PROVE Got(q) \in Seq(Pieces)
    OBVIOUS
  <2>1. held[q] \in Seq(Pieces) /\ buffer[q] \in Seq(Pieces) /\ chunk \in Seq(Pieces)
    BY DEF PortTypeOK, Readers
  <2> QED
    BY <2>1, GotType DEF Got
<1>2. \A q \in Readers : Got(q)' \in Seq(Pieces)
  <2> SUFFICES ASSUME NEW q \in Readers PROVE Got(q)' \in Seq(Pieces)
    OBVIOUS
  <2>1. held'[q] \in Seq(Pieces) /\ buffer'[q] \in Seq(Pieces) /\ chunk' \in Seq(Pieces)
    BY DEF PortTypeOK, Readers
  <2> QED
    BY <2>1, GotType DEF Got
<1>3. wire \in Seq(Pieces) /\ wire' \in Seq(Pieces) /\ wire = a \o wire'
  BY DEF Takes, PortTypeOK
<1>4. PICK x \in Seq(Pieces), y \in Seq(Pieces) : Got(r) \o a = (x \o Got(r)') \o y
  BY DEF Takes
<1>5. Once(a) /\ Once(wire') /\ Apart(a, wire')
  BY <1>3, OnceJoined DEF PiecesOnce
<1>6. \A q \in Readers : Apart(Got(q), a) /\ Apart(Got(q), wire')
  BY <1>1, <1>3, ApartJoined DEF PiecesOnce
<1>7. /\ Once(Got(r)) /\ Once(a) /\ Apart(Got(r), a) => Once(Got(r)')
      /\ \A z \in Seq(Pieces) : Apart(Got(r), z) /\ Apart(a, z) => Apart(Got(r)', z)
      /\ \A T : Got(r) \in Seq(T) /\ a \in Seq(T) => Got(r)' \in Seq(T)
  BY <1>1, <1>2, <1>4, Stretch
<1>8. Once(Got(r)') /\ Apart(Got(r)', wire')
  BY <1>3, <1>5, <1>6, <1>7 DEF PiecesOnce
<1>9. \A q \in Readers : q # r => Got(q)' = Got(q)
  BY DEF Takes
<1>10. \A q \in Readers : q # r => Apart(Got(r)', Got(q)) /\ Apart(Got(q), Got(r)')
  <2> SUFFICES ASSUME NEW q \in Readers, q # r
               PROVE  Apart(Got(r)', Got(q)) /\ Apart(Got(q), Got(r)')
    OBVIOUS
  <2>1. Apart(Got(r), Got(q))
    BY DEF PiecesOnce
  <2>2. Apart(a, Got(q))
    BY <1>6, ApartTurned
  <2>3. Apart(Got(r)', Got(q))
    BY <1>1, <1>7, <2>1, <2>2
  <2> QED
    BY <2>3, ApartTurned
<1>11. PiecesOnce'
  <2>1. \A q \in Readers : Once(Got(q)') /\ Apart(Got(q)', wire')
    BY <1>6, <1>8, <1>9 DEF PiecesOnce
  <2>2. \A p, q \in Readers : p # q => Apart(Got(p)', Got(q)')
    BY <1>9, <1>10 DEF PiecesOnce
  <2> QED
    BY <1>5, <2>1, <2>2 DEF PiecesOnce
<1>12. ASSUME NEW u, Gone(u) PROVE Gone(u)'
  <2>1. /\ wire \in Seq(PiecesBut(u)) /\ \A q \in Readers : Got(q) \in Seq(PiecesBut(u))
    BY <1>12 DEF Gone, Without
  <2>2. a \in Seq(PiecesBut(u)) /\ wire' \in Seq(PiecesBut(u))
    BY <1>3, <2>1, OverJoined
  <2>3. Got(r)' \in Seq(PiecesBut(u))
    BY <1>7, <2>1, <2>2
  <2>4. \A q \in Readers : Got(q)' \in Seq(PiecesBut(u))
    BY <1>9, <2>1, <2>3
  <2> QED
    BY <2>2, <2>4 DEF Gone, Without
<1> QED
  BY <1>11, <1>12

-----------------------------------------------------------------------------
(* Types.                                                                  *)

LEMMA NoOneApart == NoOne \notin Commands /\ NoOne \in Readers /\ Commands \subseteq Readers
  BY PortConstants DEF Readers

LEMMA PiecesType ==
    /\ \A u \in Urcs : Line("urc", u) \in Seq(UrcPieces) /\ Line("urc", u) \in Seq(Pieces)
    /\ \A k \in Commands : Line("ok", k) \in Seq(Pieces) /\ Line("error", k) \in Seq(Pieces)
    /\ \A k \in Submissions : Piece("prompt", k, "head") \in Pieces
<1>1. \A u \in Urcs : Piece("urc", u, "head") \in UrcPieces /\ Piece("urc", u, "tail") \in UrcPieces
  BY DEF Piece, Pieces, Lines, UrcPieces
<1>2. \A k \in Commands : /\ Piece("ok", k, "head") \in Pieces /\ Piece("ok", k, "tail") \in Pieces
                          /\ Piece("error", k, "head") \in Pieces /\ Piece("error", k, "tail") \in Pieces
  BY DEF Piece, Pieces, Lines
<1>3. \A k \in Submissions : Piece("prompt", k, "head") \in Pieces
  BY DEF Piece, Pieces
<1>4. UrcPieces \subseteq Pieces
  BY DEF UrcPieces
<1>5. \A S : \A p, q \in S : <<p, q>> \in Seq(S)
  OBVIOUS
<1> QED
  BY <1>1, <1>2, <1>3, <1>4, <1>5 DEF Line

LEMMA Consuming ==
    ASSUME PortTypeOK, NEW n \in Nat, Consumes(n)
    PROVE  /\ SubSeq(wire, 1, n) \in Seq(Pieces) /\ wire' \in Seq(Pieces)
           /\ wire = SubSeq(wire, 1, n) \o wire'
<1>1. wire \in Seq(Pieces) /\ n \in 0..Len(wire) /\ wire' = SubSeq(wire, n + 1, Len(wire))
  BY LenProperties DEF PortTypeOK, Consumes
<1> QED
  BY <1>1, Cut

LEMMA Continuing ==
    ASSUME PortTypeOK, NEW k \in Commands, NEW fed \in Seq(Pieces), Continues(k, fed)
    PROVE  /\ \E c, d \in Seq(Pieces) :
                 /\ fed = c \o d /\ Ends(d) = {}
                 /\ buffer' = [buffer EXCEPT ![k] = d]
                 /\ held' = [held EXCEPT ![k] = held[k] \o c]
           /\ UNCHANGED <<input, client, given>>
<1>1. PICK e \in 0..Len(fed) :
         /\ Feed(fed, e)
         /\ buffer' = [buffer EXCEPT ![k] = SubSeq(fed, e + 1, Len(fed))]
         /\ held' = [held EXCEPT ![k] = held[k] \o SubSeq(fed, 1, e)]
  BY DEF Continues
<1>2. /\ SubSeq(fed, 1, e) \in Seq(Pieces) /\ SubSeq(fed, e + 1, Len(fed)) \in Seq(Pieces)
      /\ fed = SubSeq(fed, 1, e) \o SubSeq(fed, e + 1, Len(fed))
      /\ Ends(SubSeq(fed, e + 1, Len(fed))) = {}
  BY <1>1, Fed
<1>3. UNCHANGED <<input, client, given>>
  BY DEF Continues
<1> QED
  BY <1>1, <1>2, <1>3

\* What a command was fed up to the line that ends at i, and what came with it.
LEMMA UpTo ==
    ASSUME NEW s \in Seq(Pieces), NEW i \in DOMAIN s
    PROVE  /\ SubSeq(s, 1, i) \in Seq(Pieces)
           /\ \E d \in Seq(Pieces) : s = SubSeq(s, 1, i) \o d
<1>1. i \in 0..Len(s)
  BY LenProperties
<1>2. /\ SubSeq(s, 1, i) \in Seq(Pieces) /\ SubSeq(s, i + 1, Len(s)) \in Seq(Pieces)
      /\ s = SubSeq(s, 1, i) \o SubSeq(s, i + 1, Len(s))
  BY <1>1, Cut
<1> QED
  BY <1>2

LEMMA HandleType ==
    ASSUME PortTypeOK, NEW r \in Readers, Handle(r)
    PROVE  \E i \in Unsolicited(held[r]), c, d \in Seq(Pieces) :
              /\ First(i, Unsolicited(held[r])) /\ held[r] = c \o d /\ Len(c) = i
              /\ c = SubSeq(held[r], 1, i) /\ d = SubSeq(held[r], i + 1, Len(held[r]))
              /\ held' = [held EXCEPT ![r] = d]
              /\ held[r][i].line.of \in Urcs /\ held[r][i].line = Urc(held[r][i].line.of)
              /\ handled' = [handled EXCEPT ![held[r][i].line.of] = @ + 1]
<1>1. PICK i \in Unsolicited(held[r]) :
         /\ First(i, Unsolicited(held[r]))
         /\ handled' = [handled EXCEPT ![held[r][i].line.of] = @ + 1]
         /\ held' = [held EXCEPT ![r] = SubSeq(held[r], i + 1, Len(held[r]))]
  BY DEF Handle
<1>2. held[r] \in Seq(Pieces)
  BY DEF PortTypeOK, Readers
<1>3. i \in DOMAIN held[r] /\ held[r][i].line.kind = "urc"
  BY <1>1 DEF Unsolicited, Ends
<1>4. i \in 0..Len(held[r]) /\ held[r][i] \in Pieces
  BY <1>2, <1>3, LenProperties
<1>5. held[r][i].line.of \in Urcs /\ held[r][i].line = Urc(held[r][i].line.of)
  BY <1>3, <1>4 DEF Pieces, Lines, Urc
<1>6. /\ SubSeq(held[r], 1, i) \in Seq(Pieces) /\ SubSeq(held[r], i + 1, Len(held[r])) \in Seq(Pieces)
      /\ held[r] = SubSeq(held[r], 1, i) \o SubSeq(held[r], i + 1, Len(held[r]))
      /\ Len(SubSeq(held[r], 1, i)) = i
  <2> DEFINE h == held[r]
  <2>1. h \in Seq(Pieces) /\ i \in 0..Len(h)
    BY <1>2, <1>4
  <2> HIDE DEF h
  <2>2. /\ SubSeq(h, 1, i) \in Seq(Pieces) /\ SubSeq(h, i + 1, Len(h)) \in Seq(Pieces)
        /\ h = SubSeq(h, 1, i) \o SubSeq(h, i + 1, Len(h))
        /\ Len(SubSeq(h, 1, i)) = i
    BY <2>1, Cut
  <2> QED
    BY <2>2 DEF h
<1> DEFINE c == SubSeq(held[r], 1, i)
           d == SubSeq(held[r], i + 1, Len(held[r]))
<1>7. /\ c \in Seq(Pieces) /\ d \in Seq(Pieces) /\ held[r] = c \o d /\ Len(c) = i
      /\ c = SubSeq(held[r], 1, i) /\ d = SubSeq(held[r], i + 1, Len(held[r]))
      /\ held' = [held EXCEPT ![r] = d]
  BY <1>1, <1>6
<1> HIDE DEF c, d
<1> QED
  BY <1>1, <1>5, <1>7

LEMMA ExceptType ==
    ASSUME NEW D, NEW R, NEW f \in [D -> R], NEW i, NEW x \in R
    PROVE  [f EXCEPT ![i] = x] \in [D -> R]
  OBVIOUS

LEMMA StopsType ==
    ASSUME PortTypeOK, NEW k \in Commands, NEW lines \in Seq(Pieces),
           NEW state \in {"final", "dispatch"}, Stops(k, state, lines)
    PROVE  /\ client' \in [Commands -> {"idle", "prompt", "final", "dispatch", "done"}]
           /\ buffer' \in [Commands \union {NoOne} -> Seq(Pieces)]
           /\ held' \in [Commands \union {NoOne} -> Seq(Pieces)]
<1>1. <<>> \in Seq(Pieces)
  BY EmptySeq
<1>2. held[k] \in Seq(Pieces)
  BY DEF PortTypeOK
<1>3. held[k] \o lines \in Seq(Pieces)
  BY <1>2, Joined
<1> QED
  BY <1>1, <1>3, ExceptType DEF PortTypeOK, Stops

LEMMA ContinuesType ==
    ASSUME PortTypeOK, NEW k \in Commands, NEW fed \in Seq(Pieces), Continues(k, fed)
    PROVE  /\ buffer' \in [Commands \union {NoOne} -> Seq(Pieces)]
           /\ held' \in [Commands \union {NoOne} -> Seq(Pieces)]
           /\ UNCHANGED <<input, client, given>>
<1>1. PICK c \in Seq(Pieces), d \in Seq(Pieces) :
         /\ buffer' = [buffer EXCEPT ![k] = d]
         /\ held' = [held EXCEPT ![k] = held[k] \o c]
  BY Continuing
<1>2. held[k] \in Seq(Pieces)
  BY DEF PortTypeOK
<1>3. held[k] \o c \in Seq(Pieces)
  BY <1>2, Joined
<1>4. UNCHANGED <<input, client, given>>
  BY Continuing
<1> QED
  BY <1>1, <1>3, <1>4, ExceptType DEF PortTypeOK

LEMMA FedType ==
    ASSUME PortTypeOK, NEW r \in Readers, NEW n \in Nat, Consumes(n)
    PROVE  buffer[r] \in Seq(Pieces) /\ buffer[r] \o SubSeq(wire, 1, n) \in Seq(Pieces)
<1>1. buffer[r] \in Seq(Pieces)
  BY DEF PortTypeOK, Readers
<1> QED
  BY <1>1, Consuming, Joined

\* A read of a command either goes on or stops with the pieces up to a line.
ReadsOn(k, n) ==
    /\ Finals(buffer[k] \o SubSeq(wire, 1, n)) = {} /\ Continues(k, buffer[k] \o SubSeq(wire, 1, n))
EndsRead(k, n) ==
    \E lines, d \in Seq(Pieces), state \in {"final", "dispatch"} :
        /\ buffer[k] \o SubSeq(wire, 1, n) = lines \o d /\ Stops(k, state, lines)
        /\ input' \in {input, Append(input, <<"body", k>>)}
        /\ given' = given \/ \E i \in Finals(buffer[k] \o SubSeq(wire, 1, n)) :
               given' = [given EXCEPT ![k] = (buffer[k] \o SubSeq(wire, 1, n))[i].line.of]

LEMMA ReadCases ==
    ASSUME PortTypeOK, NEW k \in Commands, NEW n \in Nat, ReadFinal(k, n) \/ ReadPrompt(k, n)
    PROVE  Reads(k, n) /\ (ReadsOn(k, n) \/ EndsRead(k, n))
<1>1. Reads(k, n) /\ Consumes(n)
  BY DEF ReadFinal, ReadPrompt, Reads
<1> DEFINE fed == buffer[k] \o SubSeq(wire, 1, n)
<1>2. fed \in Seq(Pieces) /\ <<>> \in Seq(Pieces)
  BY <1>1, FedType, EmptySeq, NoOneApart
<1>3. \A i \in Finals(fed) : /\ SubSeq(fed, 1, i) \in Seq(Pieces)
                             /\ \E d \in Seq(Pieces) : fed = SubSeq(fed, 1, i) \o d
  <2> SUFFICES ASSUME NEW i \in Finals(fed)
               PROVE  /\ SubSeq(fed, 1, i) \in Seq(Pieces)
                      /\ \E d \in Seq(Pieces) : fed = SubSeq(fed, 1, i) \o d
    OBVIOUS
  <2>1. i \in DOMAIN fed
    BY DEF Finals, Ends
  <2> HIDE DEF fed
  <2> QED
    BY <1>2, <2>1, UpTo
<1>4. fed = <<>> \o fed
  BY <1>2, JoinedNone
<1>5. \/ Finals(fed) = {} /\ Continues(k, fed)
      \/ Stops(k, "final", <<>>) /\ input' = Append(input, <<"body", k>>) /\ UNCHANGED given
      \/ \E i \in Finals(fed) :
            /\ Stops(k, "final", SubSeq(fed, 1, i)) \/ Stops(k, "dispatch", SubSeq(fed, 1, i))
            /\ input' \in {input, Append(input, <<"body", k>>)}
            /\ given' = given \/ given' = [given EXCEPT ![k] = fed[i].line.of]
  BY DEF ReadFinal, ReadPrompt
<1> HIDE DEF fed
<1>6. CASE Finals(fed) = {} /\ Continues(k, fed)
  BY <1>1, <1>6 DEF ReadsOn, fed
<1>7. CASE Stops(k, "final", <<>>) /\ input' = Append(input, <<"body", k>>) /\ UNCHANGED given
  <2>1. EndsRead(k, n)
    BY <1>2, <1>4, <1>7 DEF EndsRead, fed
  <2> QED
    BY <1>1, <2>1
<1>8. ASSUME NEW i \in Finals(fed),
             Stops(k, "final", SubSeq(fed, 1, i)) \/ Stops(k, "dispatch", SubSeq(fed, 1, i)),
             input' \in {input, Append(input, <<"body", k>>)},
             given' = given \/ given' = [given EXCEPT ![k] = fed[i].line.of]
      PROVE  EndsRead(k, n)
  <2>1. PICK d \in Seq(Pieces) : fed = SubSeq(fed, 1, i) \o d
    BY <1>3
  <2>2. PICK state \in {"final", "dispatch"} : Stops(k, state, SubSeq(fed, 1, i))
    BY <1>8
  <2>3. SubSeq(fed, 1, i) \in Seq(Pieces)
    BY <1>3
  <2>4. \E lines, e \in Seq(Pieces), s \in {"final", "dispatch"} :
           fed = lines \o e /\ Stops(k, s, lines)
    BY <2>1, <2>2, <2>3
  <2> QED
    BY <1>8, <2>4 DEF EndsRead, fed
<1> QED
  BY <1>1, <1>5, <1>6, <1>7, <1>8

LEMMA ModemType ==
    ASSUME PortTypeOK, (\E u \in Urcs : ModemEvent(u)) \/ ModemProcesses
    PROVE  PortTypeOK'
<1> DEFINE Items == {"command", "body"} \X Commands
<1>1. wire \in Seq(Pieces) /\ input \in Seq(Items)
  BY DEF PortTypeOK
<1>2. ASSUME NEW u \in Urcs, ModemEvent(u) PROVE PortTypeOK'
  <2>1. wire' \in Seq(Pieces)
    BY <1>1, <1>2, PiecesType, Joined DEF ModemEvent
  <2>2. toSend' \subseteq Urcs
    BY <1>2 DEF ModemEvent, PortTypeOK
  <2> QED
    BY <1>2, <2>1, <2>2 DEF ModemEvent, PortTypeOK, readers
<1>3. ASSUME ModemProcesses PROVE PortTypeOK'
  <2>1. input # <<>> /\ input' = Tail(input)
    BY <1>3 DEF ModemProcesses
  <2>2. Head(input) \in Items /\ input' \in Seq(Items)
    BY <1>1, <2>1, HeadTailProperties
  <2>3. Head(input)[2] \in Commands
    BY <2>2
  <2>4. /\ wire' \in Seq(Pieces) /\ prompting' \in Submissions \union {NoOne}
        /\ submitted' \subseteq Submissions \X Commands
    <3>1. \/ Answers(Head(input)[2]) \/ TakesBody(Head(input)[2])
          \/ UNCHANGED <<wire, prompting, submitted>>
      BY <1>3 DEF ModemProcesses, Swallows
    <3>2. CASE Answers(Head(input)[2])
      <4>1. submitted' = submitted /\ submitted \subseteq Submissions \X Commands
        BY <3>2 DEF Answers, PortTypeOK
      <4>2. prompting' \in Submissions \union {NoOne}
        BY <3>2, <2>3 DEF Answers, PortTypeOK
      <4> DEFINE k == Head(input)[2]
      <4>3. \/ wire' = wire \o Line("ok", k) \/ wire' = wire \o Line("error", k)
            \/ k \in Submissions /\ wire' = Append(wire, Piece("prompt", k, "head"))
        BY <3>2 DEF Answers
      <4>4. k \in Commands
        BY <2>3
      <4>5. wire' \in Seq(Pieces)
        <5> HIDE DEF k
        <5>1. wire \o Line("ok", k) \in Seq(Pieces) /\ wire \o Line("error", k) \in Seq(Pieces)
          BY <1>1, <4>4, PiecesType, Joined
        <5>2. k \in Submissions => Append(wire, Piece("prompt", k, "head")) \in Seq(Pieces)
          BY <1>1, PiecesType, AppendProperties
        <5> QED
          BY <4>3, <5>1, <5>2
      <4> QED
        BY <4>1, <4>2, <4>5
    <3>3. CASE TakesBody(Head(input)[2])
      <4>1. prompting \in Submissions /\ prompting \in Commands
        BY <3>3 DEF TakesBody, PortTypeOK, Commands
      <4>2. wire' \in Seq(Pieces)
        BY <3>3, <4>1, <1>1, PiecesType, Joined DEF TakesBody
      <4>3. submitted' \subseteq Submissions \X Commands
        BY <3>3, <4>1, <2>3 DEF TakesBody, PortTypeOK
      <4> QED
        BY <3>3, <4>2, <4>3 DEF TakesBody
    <3>4. CASE UNCHANGED <<wire, prompting, submitted>>
      BY <3>4 DEF PortTypeOK
    <3> QED
      BY <3>1, <3>2, <3>3, <3>4
  <2> QED
    BY <1>3, <2>2, <2>4 DEF ModemProcesses, PortTypeOK, readers
<1> QED
  BY <1>2, <1>3

LEMMA CommandType ==
    ASSUME PortTypeOK, NEW k \in Commands, Command(k)
    PROVE  PortTypeOK'
<1> DEFINE Items == {"command", "body"} \X Commands
           States == {"idle", "prompt", "final", "dispatch", "done"}
<1>1. input \in Seq(Items) /\ client \in [Commands -> States]
  BY DEF PortTypeOK
<1>2. CASE Begin(k)
  <2>1. <<"command", k>> \in Items
    OBVIOUS
  <2>2. input' \in Seq(Items)
    BY <1>1, <1>2, <2>1, AppendProperties DEF Begin
  <2>3. client' \in [Commands -> States]
    BY <1>1, <1>2 DEF Begin
  <2> QED
    BY <1>2, <2>2, <2>3 DEF Begin, PortTypeOK, readers
<1>3. CASE Refused(k)
  <2>1. client' \in [Commands -> States]
    BY <1>1, <1>3 DEF Refused
  <2>2. deadlines' \in 0..MaxDeadlines
    BY <1>3, PortConstants DEF Refused, PortTypeOK
  <2> QED
    BY <1>3, <2>1, <2>2 DEF Refused, PortTypeOK, modem, readers
<1>4. CASE GiveUp(k)
  <2>1. PICK n \in 0..ChunkSize : Consumes(n)
    BY <1>4 DEF GiveUp
  <2>2. n \in Nat
    BY PortConstants
  <2>3. wire' \in Seq(Pieces)
    BY <2>1, <2>2, Consuming
  <2>4. deadlines' \in 0..MaxDeadlines
    BY <1>4, PortConstants DEF GiveUp, PortTypeOK
  <2>5. <<>> \in Seq(Pieces)
    BY EmptySeq
  <2>6. Stops(k, "dispatch", <<>>)
    BY <1>4 DEF GiveUp
  <2>7. /\ client' \in [Commands -> States]
        /\ buffer' \in [Commands \union {NoOne} -> Seq(Pieces)]
        /\ held' \in [Commands \union {NoOne} -> Seq(Pieces)]
    BY <2>5, <2>6, StopsType
  <2> QED
    BY <1>4, <2>3, <2>4, <2>7 DEF GiveUp, PortTypeOK, modem
<1>5. CASE Dispatch(k)
  <2>1. \/ Handle(k) /\ UNCHANGED <<port, client>>
        \/ /\ held' = [held EXCEPT ![k] = <<>>] /\ UNCHANGED handled
           /\ port' = NoOne /\ client' = [client EXCEPT ![k] = "done"]
    BY <1>5 DEF Dispatch
  <2>2. held' \in [Commands \union {NoOne} -> Seq(Pieces)] /\ handled' \in [Urcs -> Nat]
    <3>1. CASE Handle(k)
      <4>1. k \in Readers
        BY DEF Readers
      <4>2. \E v \in Urcs, d \in Seq(Pieces) :
               held' = [held EXCEPT ![k] = d] /\ handled' = [handled EXCEPT ![v] = @ + 1]
        BY <3>1, <4>1, HandleType
      <4> QED
        BY <4>2 DEF PortTypeOK
    <3>2. CASE held' = [held EXCEPT ![k] = <<>>] /\ UNCHANGED handled
      BY <3>2, EmptySeq, ExceptType DEF PortTypeOK
    <3> QED
      BY <2>1, <3>1, <3>2
  <2>3. client' \in [Commands -> States] /\ port' \in Commands \union {NoOne}
    BY <2>1 DEF PortTypeOK
  <2> QED
    BY <1>5, <2>2, <2>3 DEF Dispatch, PortTypeOK, modem
<1>6. ASSUME NEW n \in 1..ChunkSize, ReadPrompt(k, n) \/ ReadFinal(k, n) PROVE PortTypeOK'
  <2>1. n \in Nat /\ Reads(k, n) /\ (ReadsOn(k, n) \/ EndsRead(k, n))
    BY <1>6, ReadCases, PortConstants
  <2>2. Consumes(n)
    BY <2>1 DEF Reads
  <2>3. wire' \in Seq(Pieces)
    BY <2>1, <2>2, Consuming
  <2>4. buffer[k] \o SubSeq(wire, 1, n) \in Seq(Pieces)
    BY <2>1, <2>2, FedType, NoOneApart
  <2>5. /\ client' \in [Commands -> States]
        /\ buffer' \in [Commands \union {NoOne} -> Seq(Pieces)]
        /\ held' \in [Commands \union {NoOne} -> Seq(Pieces)]
        /\ input' \in Seq(Items) /\ given' \in [Commands -> Commands \union {NoOne}]
    <3>1. CASE ReadsOn(k, n)
      <4>1. Continues(k, buffer[k] \o SubSeq(wire, 1, n))
        BY <3>1 DEF ReadsOn
      <4> QED
        BY <2>4, <4>1, ContinuesType DEF PortTypeOK
    <3>2. CASE EndsRead(k, n)
      <4> DEFINE fed == buffer[k] \o SubSeq(wire, 1, n)
      <4>1. PICK lines \in Seq(Pieces), state \in {"final", "dispatch"} : Stops(k, state, lines)
        BY <3>2 DEF EndsRead
      <4>2. input' \in {input, Append(input, <<"body", k>>)}
        BY <3>2 DEF EndsRead
      <4>3. \/ given' = given
            \/ \E i \in Finals(fed) : given' = [given EXCEPT ![k] = fed[i].line.of]
        BY <3>2 DEF EndsRead
      <4>4. <<"body", k>> \in Items
        OBVIOUS
      <4>5. input' \in Seq(Items)
        <5> HIDE DEF Items
        <5>1. Append(input, <<"body", k>>) \in Seq(Items)
          BY <1>1, <4>4, AppendProperties
        <5> QED
          BY <1>1, <4>2, <5>1
      <4>6. \A i \in Finals(fed) : fed[i].line.of \in Commands
        <5> SUFFICES ASSUME NEW i \in Finals(fed) PROVE fed[i].line.of \in Commands
          OBVIOUS
        <5>1. i \in DOMAIN fed /\ fed[i].line.kind \in {"ok", "error"}
          BY DEF Finals, Ends
        <5> HIDE DEF fed
        <5>2. fed[i] \in Pieces
          BY <2>4, <5>1, LenProperties, ElementOfSeq DEF fed
        <5> QED
          BY <5>1, <5>2 DEF Pieces, Lines
      <4>7. given' \in [Commands -> Commands \union {NoOne}]
        BY <4>3, <4>6, ExceptType DEF PortTypeOK
      <4> QED
        BY <4>1, <4>5, <4>7, StopsType
    <3> QED
      BY <2>1, <3>1, <3>2
  <2> QED
    BY <2>1, <2>3, <2>5 DEF Reads, PortTypeOK
<1> QED
  BY <1>2, <1>3, <1>4, <1>5, <1>6 DEF Command

LEMMA RunType ==
    ASSUME PortTypeOK, Run
    PROVE  PortTypeOK'
<1>1. ASSUME NEW n \in 1..ChunkSize, PollRead(n) PROVE PortTypeOK'
  <2>1. n \in Nat /\ Consumes(n) /\ chunk' = SubSeq(wire, 1, n)
    BY <1>1, PortConstants DEF PollRead
  <2>2. wire' \in Seq(Pieces) /\ chunk' \in Seq(Pieces)
    BY <2>1, Consuming
  <2> QED
    BY <1>1, <2>2 DEF PollRead, PortTypeOK, modem
<1>2. CASE PollFeed
  <2> DEFINE fed == buffer[NoOne] \o chunk
  <2>1. PICK e \in 0..Len(fed) :
           /\ Feed(fed, e)
           /\ buffer' = [buffer EXCEPT ![NoOne] = SubSeq(fed, e + 1, Len(fed))]
           /\ held' = [held EXCEPT ![NoOne] = SubSeq(fed, 1, e)]
    BY <1>2 DEF PollFeed
  <2>2. fed \in Seq(Pieces)
    BY Joined DEF PortTypeOK
  <2>3. SubSeq(fed, 1, e) \in Seq(Pieces) /\ SubSeq(fed, e + 1, Len(fed)) \in Seq(Pieces)
    <3> HIDE DEF fed
    <3> QED
      BY <2>1, <2>2, Fed
  <2>4. /\ buffer' \in [Commands \union {NoOne} -> Seq(Pieces)]
        /\ held' \in [Commands \union {NoOne} -> Seq(Pieces)]
    <3> HIDE DEF fed
    <3> QED
      BY <2>1, <2>3, ExceptType DEF PortTypeOK
  <2>5. chunk' \in Seq(Pieces)
    BY <1>2, EmptySeq DEF PollFeed
  <2> QED
    BY <1>2, <2>4, <2>5 DEF PollFeed, PortTypeOK, modem
<1>3. CASE PollHandle
  <2>1. Handle(NoOne)
    BY <1>3 DEF PollHandle
  <2>2. \E v \in Urcs, d \in Seq(Pieces) :
           held' = [held EXCEPT ![NoOne] = d] /\ handled' = [handled EXCEPT ![v] = @ + 1]
    BY <2>1, NoOneApart, HandleType
  <2>3. held' \in [Commands \union {NoOne} -> Seq(Pieces)] /\ handled' \in [Urcs -> Nat]
    BY <2>2 DEF PortTypeOK
  <2> QED
    BY <1>3, <2>3 DEF PollHandle, PortTypeOK, modem
<1> QED
  BY <1>1, <1>2, <1>3 DEF Run

LEMMA TypeStep == PortTypeOK /\ [PortNext]_portVars => PortTypeOK'
<1> SUFFICES ASSUME PortTypeOK, [PortNext]_portVars PROVE PortTypeOK'
  OBVIOUS
<1>1. CASE UNCHANGED portVars
  BY <1>1 DEF PortTypeOK, portVars, modem, readers
<1>2. CASE PortNext
  BY <1>2, ModemType, CommandType, RunType DEF PortNext
<1> QED
  BY <1>1, <1>2

-----------------------------------------------------------------------------
(* Whose the port is.                                                      *)

LEMMA NoEnds == Ends(<<>>) = {}
<1>1. DOMAIN <<>> = {}
  BY JoinedNone, EmptySeq
<1> QED
  BY <1>1 DEF Ends

\* A command that goes on reading, or stops.
LEMMA ReadHolds ==
    ASSUME PortTypeOK, PortIsHeld, NEW k \in Commands, port' = port,
           \/ \E fed \in Seq(Pieces) : Reading(k) /\ Continues(k, fed)
           \/ \E lines \in Seq(Pieces), state \in {"final", "dispatch"} :
                 Reading(k) /\ Stops(k, state, lines)
    PROVE  PortIsHeld'
<1>1. port = k /\ Reading(k)
  BY DEF PortIsHeld
<1>2. CASE \E fed \in Seq(Pieces) : Continues(k, fed)
  <2>1. PICK d \in Seq(Pieces) : Ends(d) = {} /\ buffer' = [buffer EXCEPT ![k] = d]
    BY <1>2, Continuing
  <2>2. client' = client
    BY <1>2, Continuing
  <2>3. \A r \in Readers : Ends(buffer'[r]) = {}
    BY <2>1 DEF PortIsHeld, PortTypeOK, Readers
  <2>4. \A j \in Commands : ~Reading(j) => buffer'[j] = <<>>
    BY <1>1, <2>1 DEF PortIsHeld, PortTypeOK
  <2> QED
    BY <2>2, <2>3, <2>4 DEF PortIsHeld, Reading
<1>3. ASSUME NEW state \in {"final", "dispatch"},
             client' = [client EXCEPT ![k] = state], buffer' = [buffer EXCEPT ![k] = <<>>]
      PROVE  PortIsHeld'
  <2>1. client'[k] = state /\ \A j \in Commands : j # k => client'[j] = client[j]
    BY <1>3 DEF PortTypeOK
  <2>2. \A r \in Readers : Ends(buffer'[r]) = {}
    BY <1>3, NoEnds DEF PortIsHeld, PortTypeOK, Readers
  <2>3. \A j \in Commands : buffer'[j] = <<>>
    <3>1. \A j \in Commands : j # k => ~Reading(j)
      BY <1>1 DEF PortIsHeld
    <3> QED
      BY <1>3, <3>1 DEF PortIsHeld, PortTypeOK
  <2>4. \A j \in Commands :
           /\ client'[j] \in {"prompt", "final"} \/ client'[j] = "dispatch" <=> port' = j
           /\ client'[j] = "prompt" => j \in Submissions
    BY <1>1, <2>1 DEF PortIsHeld, Reading
  <2> QED
    BY <2>2, <2>3, <2>4 DEF PortIsHeld, Reading
<1> QED
  BY <1>2, <1>3 DEF Stops

LEMMA HoldsStep ==
    PortTypeOK /\ PortIsHeld /\ [PortNext]_portVars => PortIsHeld'
<1> SUFFICES ASSUME PortTypeOK, PortIsHeld, [PortNext]_portVars PROVE PortIsHeld'
  OBVIOUS
<1>1. ASSUME UNCHANGED <<port, client, buffer>> PROVE PortIsHeld'
  BY <1>1 DEF PortIsHeld, Reading
<1>2. CASE (\E u \in Urcs : ModemEvent(u)) \/ ModemProcesses
  BY <1>1, <1>2 DEF ModemEvent, ModemProcesses, readers
<1>3. ASSUME NEW k \in Commands, Command(k) PROVE PortIsHeld'
  <2>1. CASE Begin(k)
    <3>1. port = NoOne /\ port' = k /\ client[k] = "idle" /\ buffer' = buffer
      BY <2>1 DEF Begin, readers
    <3>2. client' = [client EXCEPT ![k] = IF k \in Submissions THEN "prompt" ELSE "final"]
      BY <2>1 DEF Begin
    <3>3. \A j \in Commands : j # k => client'[j] = client[j]
      BY <3>2 DEF PortTypeOK
    <3>4. client'[k] = IF k \in Submissions THEN "prompt" ELSE "final"
      BY <3>2 DEF PortTypeOK
    <3>5. \A j \in Commands : ~Reading(j) /\ client[j] # "dispatch"
      BY <3>1, NoOneApart DEF PortIsHeld
    <3> QED
      BY <3>1, <3>3, <3>4, <3>5 DEF PortIsHeld, Reading
  <2>2. CASE Refused(k)
    <3>1. UNCHANGED <<port, buffer>> /\ client[k] = "idle"
      BY <2>2 DEF Refused, readers
    <3>2. client'[k] = "done" /\ \A j \in Commands : j # k => client'[j] = client[j]
      BY <2>2 DEF Refused, PortTypeOK
    <3>3. ~Reading(k) /\ client[k] # "dispatch"
      BY <3>1 DEF Reading
    <3> QED
      BY <3>1, <3>2, <3>3 DEF PortIsHeld, Reading
  <2>3. CASE GiveUp(k)
    BY <2>3, ReadHolds, EmptySeq DEF GiveUp, Reading
  <2>4. CASE Dispatch(k)
    <3>1. CASE UNCHANGED <<port, client>>
      BY <1>1, <2>4, <3>1 DEF Dispatch
    <3>2. CASE port' = NoOne /\ client' = [client EXCEPT ![k] = "done"]
      <4>1. port = k /\ client[k] = "dispatch" /\ buffer' = buffer
        BY <2>4 DEF Dispatch, PortIsHeld
      <4>2. client'[k] = "done" /\ \A j \in Commands : j # k => client'[j] = client[j]
        BY <3>2 DEF PortTypeOK
      <4>3. ~Reading(k)
        BY <4>1 DEF Reading
      <4> QED
        BY <3>2, <4>1, <4>2, <4>3, NoOneApart DEF PortIsHeld, Reading
    <3> QED
      BY <2>4, <3>1, <3>2 DEF Dispatch
  <2>5. ASSUME NEW n \in 1..ChunkSize, ReadPrompt(k, n) \/ ReadFinal(k, n) PROVE PortIsHeld'
    <3>1. n \in Nat /\ Reads(k, n) /\ (ReadsOn(k, n) \/ EndsRead(k, n))
      BY <2>5, ReadCases, PortConstants
    <3>2. port' = port /\ Consumes(n)
      BY <3>1 DEF Reads
    <3>3. Reading(k)
      BY <2>5 DEF ReadPrompt, ReadFinal, Reading
    <3>4. buffer[k] \o SubSeq(wire, 1, n) \in Seq(Pieces)
      BY <3>1, <3>2, FedType, NoOneApart
    <3>5. CASE ReadsOn(k, n)
      BY <3>2, <3>3, <3>4, <3>5, ReadHolds DEF ReadsOn
    <3>6. CASE EndsRead(k, n)
      BY <3>2, <3>3, <3>6, ReadHolds DEF EndsRead
    <3> QED
      BY <3>1, <3>5, <3>6
  <2> QED
    BY <1>3, <2>1, <2>2, <2>3, <2>4, <2>5 DEF Command
<1>4. CASE Run
  <2>1. CASE UNCHANGED <<port, client, buffer>>
    BY <1>1, <2>1
  <2>2. CASE PollFeed
    <3>1. PICK e \in 0..Len(buffer[NoOne] \o chunk) :
             /\ Feed(buffer[NoOne] \o chunk, e)
             /\ buffer' = [buffer EXCEPT ![NoOne] =
                              SubSeq(buffer[NoOne] \o chunk, e + 1, Len(buffer[NoOne] \o chunk))]
      BY <2>2 DEF PollFeed
    <3>2. buffer[NoOne] \o chunk \in Seq(Pieces)
      BY Joined DEF PortTypeOK
    <3>3. Ends(SubSeq(buffer[NoOne] \o chunk, e + 1, Len(buffer[NoOne] \o chunk))) = {}
      BY <3>1, <3>2, Fed
    <3>4. \A r \in Readers : Ends(buffer'[r]) = {}
      BY <3>1, <3>3 DEF PortIsHeld, PortTypeOK, Readers
    <3>5. \A j \in Commands : buffer'[j] = buffer[j]
      BY <3>1, NoOneApart DEF PortTypeOK
    <3>6. UNCHANGED <<port, client>>
      BY <2>2 DEF PollFeed
    <3> QED
      BY <3>4, <3>5, <3>6 DEF PortIsHeld, Reading
  <2> QED
    BY <1>4, <2>1, <2>2 DEF Run, PollRead, PollHandle
<1>5. CASE UNCHANGED portVars
  BY <1>1, <1>5 DEF portVars, readers
<1> QED
  BY <1>2, <1>3, <1>4, <1>5 DEF PortNext

-----------------------------------------------------------------------------
(* Answers and prompts among the pieces.                                   *)

LEMMA LastAnswerJoined ==
    ASSUME NEW s \in Seq(Pieces), NEW t \in Seq(Pieces)
    PROVE  /\ LastAnswer(s \o t) => LastAnswer(t)
           /\ LastAnswer(s \o t) /\ (\E i \in DOMAIN s : EndsAnswer(s[i])) => t \in Seq(UrcPieces)
           /\ LastAnswer(s) /\ t \in Seq(UrcPieces) => LastAnswer(s \o t)
<1> DEFINE st == s \o t
<1>1. /\ Len(s) \in Nat /\ DOMAIN s = 1..Len(s) /\ DOMAIN t = 1..Len(t) /\ Len(t) \in Nat
      /\ \A i \in DOMAIN s : i \in DOMAIN st /\ st[i] = s[i]
      /\ \A j \in DOMAIN t : Len(s) + j \in DOMAIN st /\ st[Len(s) + j] = t[j]
      /\ \A i \in DOMAIN st : i \in DOMAIN s \/ \E j \in DOMAIN t : i = Len(s) + j
  BY Joined
<1> HIDE DEF st
<1>2. ASSUME LastAnswer(st) PROVE LastAnswer(t)
  <2> SUFFICES ASSUME NEW i \in DOMAIN t, NEW j \in DOMAIN t, i < j, EndsAnswer(t[i])
               PROVE  t[j] \in UrcPieces
    BY DEF LastAnswer
  <2>1. Len(s) + i < Len(s) + j
    BY <1>1
  <2>2. /\ Len(s) + i \in DOMAIN st /\ st[Len(s) + i] = t[i]
        /\ Len(s) + j \in DOMAIN st /\ st[Len(s) + j] = t[j]
    BY <1>1
  <2> QED
    BY <1>2, <2>1, <2>2 DEF LastAnswer
<1>3. ASSUME LastAnswer(st), NEW i \in DOMAIN s, EndsAnswer(s[i]) PROVE t \in Seq(UrcPieces)
  <2> SUFFICES ASSUME NEW j \in DOMAIN t PROVE t[j] \in UrcPieces
    BY Over
  <2>1. i < Len(s) + j
    BY <1>1
  <2> QED
    BY <1>1, <1>3, <2>1 DEF LastAnswer
<1>4. ASSUME LastAnswer(s), t \in Seq(UrcPieces) PROVE LastAnswer(st)
  <2> SUFFICES ASSUME NEW i \in DOMAIN st, NEW j \in DOMAIN st, i < j, EndsAnswer(st[i])
               PROVE  st[j] \in UrcPieces
    BY DEF LastAnswer
  <2>1. \A m \in DOMAIN t : t[m] \in UrcPieces
    BY <1>4, Over
  <2>2. CASE \E m \in DOMAIN t : j = Len(s) + m
    BY <1>1, <2>1, <2>2
  <2>3. CASE j \in DOMAIN s
    <3>1. i \in DOMAIN s
      BY <1>1, <2>3
    <3> QED
      BY <1>1, <1>4, <2>3, <3>1 DEF LastAnswer
  <2> QED
    BY <1>1, <2>2, <2>3
<1> QED
  BY <1>2, <1>3, <1>4 DEF st

\* An answer after events alone.
LEMMA AnswerLast ==
    ASSUME NEW s \in Seq(UrcPieces), NEW kind \in {"ok", "error"}, NEW k \in Commands
    PROVE  /\ s \o Line(kind, k) \in Seq(AnswerPieces(k, {kind}))
           /\ LastAnswer(s \o Line(kind, k))
<1> DEFINE t == Line(kind, k)
           h == Piece(kind, k, "head")
           l == Piece(kind, k, "tail")
           st == s \o t
<1>1. UrcPieces \subseteq Pieces /\ UrcPieces \subseteq AnswerPieces(k, {kind})
  BY DEF UrcPieces, AnswerPieces
<1>2. h \in AnswerPieces(k, {kind}) /\ l \in AnswerPieces(k, {kind}) /\ h \in Pieces /\ l \in Pieces
  BY DEF AnswerPieces, Piece, Pieces, Lines
<1>3. ~EndsAnswer(h)
  BY DEF Piece, EndsAnswer
<1>4. \A p \in UrcPieces : ~EndsAnswer(p)
  BY DEF UrcPieces, EndsAnswer
<1>5. t = <<h, l>>
  BY DEF Line
<1> HIDE DEF t, h, l
<1>6. DOMAIN t = {1, 2} /\ t[1] = h /\ t[2] = l
  BY <1>5
<1>7. s \in Seq(Pieces) /\ t \in Seq(Pieces)
  BY <1>1, <1>2, <1>5, SeqMonotonic
<1>8. st \in Seq(AnswerPieces(k, {kind}))
  <2> DEFINE A == AnswerPieces(k, {kind})
  <2>1. UrcPieces \subseteq A /\ h \in A /\ l \in A
    BY <1>1, <1>2
  <2> HIDE DEF A
  <2>2. s \in Seq(A)
    BY <2>1, SeqMonotonic
  <2>3. t \in Seq(A)
    BY <2>1, <1>5
  <2>4. s \o t \in Seq(A)
    BY <2>2, <2>3, ConcatProperties
  <2> QED
    BY <2>4 DEF A
<1>9. /\ Len(s) \in Nat /\ DOMAIN s = 1..Len(s)
      /\ \A i \in DOMAIN s : i \in DOMAIN st /\ st[i] = s[i]
      /\ \A j \in DOMAIN t : Len(s) + j \in DOMAIN st /\ st[Len(s) + j] = t[j]
      /\ \A i \in DOMAIN st : i \in DOMAIN s \/ \E j \in DOMAIN t : i = Len(s) + j
  BY <1>7, Joined
<1>10. \A i \in DOMAIN s : s[i] \in UrcPieces
  BY <1>9, ElementOfSeq
<1> HIDE DEF st
<1>11. LastAnswer(st)
  <2> SUFFICES ASSUME NEW i \in DOMAIN st, NEW j \in DOMAIN st, i < j, EndsAnswer(st[i])
               PROVE  st[j] \in UrcPieces
    BY DEF LastAnswer
  <2>1. i \notin DOMAIN s
    BY <1>4, <1>9, <1>10
  <2>2. i = Len(s) + 2
    <3>1. PICK m \in {1, 2} : i = Len(s) + m
      BY <1>6, <1>9, <2>1
    <3>2. st[i] = t[m]
      BY <1>6, <1>9, <3>1
    <3> QED
      BY <1>3, <1>6, <3>1, <3>2
  <2>3. j \in 1..Len(s) \/ j = Len(s) + 1 \/ j = Len(s) + 2
    BY <1>6, <1>9
  <2> QED
    BY <1>9, <2>2, <2>3
<1> QED
  BY <1>8, <1>11 DEF st, t

LEMMA OnePromptJoined ==
    ASSUME NEW s \in Seq(Pieces), NEW t \in Seq(Pieces)
    PROVE  /\ OnePrompt(s \o t) => OnePrompt(t)
           /\ OnePrompt(s \o t) /\ (\E i \in DOMAIN s : s[i] \in Prompts) => t \in Seq(UrcPieces)
           /\ OnePrompt(s \o t) /\ (\A i \in DOMAIN s : s[i] \notin Prompts) => s \in Seq(UrcPieces)
           /\ OnePrompt(s) /\ t \in Seq(UrcPieces) => OnePrompt(s \o t)
<1> DEFINE st == s \o t
           Both == UrcPieces \union Prompts
<1>1. /\ Len(s) \in Nat /\ DOMAIN s = 1..Len(s) /\ DOMAIN t = 1..Len(t) /\ Len(t) \in Nat
      /\ \A i \in DOMAIN s : i \in DOMAIN st /\ st[i] = s[i]
      /\ \A j \in DOMAIN t : Len(s) + j \in DOMAIN st /\ st[Len(s) + j] = t[j]
      /\ \A i \in DOMAIN st : i \in DOMAIN s \/ \E j \in DOMAIN t : i = Len(s) + j
  BY Joined
<1>2. st \in Seq(Both) <=> s \in Seq(Both) /\ t \in Seq(Both)
  BY OverJoined
<1>3. \A p \in UrcPieces : p \notin Prompts
  BY DEF UrcPieces, Prompts
<1>4. /\ \A T : s \in Seq(T) <=> \A i \in DOMAIN s : s[i] \in T
      /\ \A T : t \in Seq(T) <=> \A i \in DOMAIN t : t[i] \in T
  BY Over
<1> HIDE DEF st
<1>5. ASSUME OnePrompt(st) PROVE OnePrompt(t)
  <2>1. t \in Seq(Both)
    BY <1>2, <1>5 DEF OnePrompt
  <2>2. \A i, j \in DOMAIN t : t[i] \in Prompts /\ t[j] \in Prompts => Len(s) + i = Len(s) + j
    BY <1>1, <1>5 DEF OnePrompt
  <2>3. \A i, j \in DOMAIN t : Len(s) + i = Len(s) + j => i = j
    BY <1>1
  <2> QED
    BY <2>1, <2>2, <2>3 DEF OnePrompt
<1>6. ASSUME OnePrompt(st), NEW i \in DOMAIN s, s[i] \in Prompts PROVE t \in Seq(UrcPieces)
  <2> SUFFICES ASSUME NEW j \in DOMAIN t PROVE t[j] \in UrcPieces
    BY <1>4
  <2>1. t[j] \in Both
    BY <1>2, <1>4, <1>6 DEF OnePrompt
  <2>2. i # Len(s) + j
    BY <1>1
  <2>3. t[j] \notin Prompts
    BY <1>1, <1>6, <2>2 DEF OnePrompt
  <2> QED
    BY <2>1, <2>3
<1>7. ASSUME OnePrompt(st), \A i \in DOMAIN s : s[i] \notin Prompts PROVE s \in Seq(UrcPieces)
  BY <1>2, <1>4, <1>7 DEF OnePrompt
<1>8. ASSUME OnePrompt(s), t \in Seq(UrcPieces) PROVE OnePrompt(st)
  <2>1. t \in Seq(Both) /\ s \in Seq(Both)
    BY <1>4, <1>8 DEF OnePrompt
  <2>2. \A j \in DOMAIN t : t[j] \notin Prompts
    BY <1>3, <1>4, <1>8
  <2>3. \A i \in DOMAIN st : st[i] \in Prompts => i \in DOMAIN s
    BY <1>1, <2>2
  <2>4. \A i, j \in DOMAIN st : st[i] \in Prompts /\ st[j] \in Prompts => i = j
    BY <1>1, <1>8, <2>3 DEF OnePrompt
  <2> QED
    BY <1>2, <2>1, <2>4 DEF OnePrompt
<1> QED
  BY <1>5, <1>6, <1>7, <1>8 DEF st

LEMMA PromptLast ==
    ASSUME NEW s \in Seq(UrcPieces), NEW p \in Prompts
    PROVE  OnePrompt(Append(s, p))
<1> DEFINE Both == UrcPieces \union Prompts
           sp == Append(s, p)
<1>1. s \in Seq(Both) /\ p \in Both
  BY SeqMonotonic
<1>2. /\ sp \in Seq(Both) /\ Len(sp) = Len(s) + 1
      /\ \A i \in 1..Len(s) : sp[i] = s[i]
  BY <1>1, AppendProperties
<1>3. DOMAIN sp = 1..(Len(s) + 1) /\ Len(s) \in Nat /\ DOMAIN s = 1..Len(s)
  BY <1>2, LenProperties
<1>4. \A i \in 1..Len(s) : s[i] \notin Prompts
  <2>1. \A i \in 1..Len(s) : s[i] \in UrcPieces
    BY <1>3, ElementOfSeq
  <2> QED
    BY <2>1 DEF UrcPieces, Prompts
<1> HIDE DEF sp
<1>5. \A i \in DOMAIN sp : sp[i] \in Prompts => i = Len(s) + 1
  <2>1. \A i \in DOMAIN sp : i \in 1..Len(s) \/ i = Len(s) + 1
    BY <1>3
  <2> QED
    BY <1>2, <1>4, <2>1
<1>6. OnePrompt(sp)
  BY <1>2, <1>5 DEF OnePrompt
<1> QED
  BY <1>6 DEF sp

\* The final lines among what a command was fed.
LEMMA FinalsOf ==
    ASSUME NEW b \in Seq(Pieces), NEW a \in Seq(Pieces), Ends(b) = {},
           NEW i \in Finals(b \o a)
    PROVE  \E j \in DOMAIN a : EndsAnswer(a[j])
<1>1. i \in DOMAIN (b \o a) /\ EndsAnswer((b \o a)[i]) /\ (b \o a)[i].part = "tail"
  BY DEF Finals, Ends, EndsAnswer
<1>2. i \notin DOMAIN b
  <2>1. i \in DOMAIN b => (b \o a)[i] = b[i]
    BY Joined
  <2> QED
    BY <1>1, <2>1 DEF Ends
<1> DEFINE ba == b \o a
<1>3. /\ \A j \in DOMAIN a : ba[Len(b) + j] = a[j]
      /\ \A j \in DOMAIN ba : j \in DOMAIN b \/ \E m \in DOMAIN a : j = Len(b) + m
  BY Joined
<1> HIDE DEF ba
<1> QED
  BY <1>1, <1>2, <1>3 DEF ba

LEMMA FinalsAre ==
    ASSUME NEW k \in Commands, NEW kinds, NEW s \in Seq(AnswerPieces(k, kinds)), NEW i \in Finals(s)
    PROVE  s[i].line.of = k /\ s[i].line.kind \in kinds
<1>1. i \in DOMAIN s /\ s[i].line.kind # "urc"
  BY DEF Finals, Ends
<1>2. s[i] \in AnswerPieces(k, kinds)
  BY <1>1, LenProperties, ElementOfSeq
<1> QED
  BY <1>1, <1>2 DEF AnswerPieces

LEMMA NoFinals ==
    ASSUME NEW s \in Seq(UrcPieces)
    PROVE  Finals(s) = {}
<1> SUFFICES ASSUME NEW i \in Finals(s) PROVE FALSE
  OBVIOUS
<1>1. i \in DOMAIN s /\ s[i].line.kind # "urc"
  BY DEF Finals, Ends
<1>2. s[i] \in UrcPieces
  BY <1>1, LenProperties, ElementOfSeq
<1> QED
  BY <1>1, <1>2 DEF UrcPieces

-----------------------------------------------------------------------------
(* The modem and the command that has the port stay in step.               *)

LEMMA InStepAfter ==
    ASSUME PortTypeOK, InStep, NEW k \in Commands,
           \A j \in Commands : j # k => client'[j] = client[j] /\ given'[j] = given[j] /\ ~Reading(j),
           \A s \in submitted' : s[1] = s[2],
           \/ client'[k] = "prompt" /\ BeforePrompt(k)'
           \/ client'[k] = "final" /\ BeforeFinal(k)'
           \/ client'[k] \in {"dispatch", "done"} /\ given'[k] = k /\ Settled'
    PROVE  InStep'
<1>1. \A j \in Commands : j # k => client'[j] \notin {"prompt", "final"}
  BY DEF Reading
<1>2. \A j \in Commands : client'[j] \in {"dispatch", "done"} => given'[j] = j
  BY DEF InStep
<1>3. (\A j \in Commands : ~Reading(j)') => Settled'
  BY DEF Reading
<1>4. \A j \in Commands : client'[j] = "prompt" => BeforePrompt(j)'
  BY <1>1
<1>5. \A j \in Commands : client'[j] = "final" => BeforeFinal(j)'
  BY <1>1
<1> QED
  BY <1>2, <1>3, <1>4, <1>5 DEF InStep

LEMMA UrcAre ==
    /\ UrcPieces \subseteq Pieces /\ Prompts \subseteq Pieces /\ UrcPieces \intersect Prompts = {}
    /\ \A k, kinds : /\ UrcPieces \subseteq AnswerPieces(k, kinds) /\ AnswerPieces(k, kinds) \subseteq Pieces
                     /\ kinds \subseteq {"ok", "error"} => AnswerPieces(k, kinds) \intersect Prompts = {}
  BY DEF UrcPieces, Prompts, AnswerPieces

\* The pieces of a read are among those that were on the wire.
LEMMA ReadOver ==
    ASSUME PortTypeOK, NEW k \in Commands, NEW n \in Nat, Consumes(n), NEW T,
           wire \in Seq(T), buffer[k] \in Seq(T)
    PROVE  /\ SubSeq(wire, 1, n) \in Seq(T) /\ wire' \in Seq(T)
           /\ buffer[k] \o SubSeq(wire, 1, n) \in Seq(T)
<1> DEFINE a == SubSeq(wire, 1, n)
<1>1. a \in Seq(Pieces) /\ wire' \in Seq(Pieces) /\ wire = a \o wire'
  BY Consuming
<1> HIDE DEF a
<1>2. a \in Seq(T) /\ wire' \in Seq(T)
  BY <1>1, OverJoined
<1>3. buffer[k] \o a \in Seq(T)
  BY <1>2, ConcatProperties
<1> QED
  BY <1>2, <1>3 DEF a

LEMMA ReadPrompts ==
    ASSUME PortTypeOK, NEW n \in Nat, Consumes(n)
    PROVE  (\E i \in 1..n : wire[i].line.kind = "prompt")
               <=> \E i \in DOMAIN SubSeq(wire, 1, n) : SubSeq(wire, 1, n)[i] \in Prompts
<1> DEFINE a == SubSeq(wire, 1, n)
<1>1. wire \in Seq(Pieces) /\ n \in 0..Len(wire)
  BY LenProperties DEF PortTypeOK, Consumes
<1>2. a \in Seq(Pieces) /\ Len(a) = n /\ \A i \in 1..n : a[i] = wire[i]
  BY <1>1, Cut
<1> HIDE DEF a
<1>3. DOMAIN a = 1..n /\ \A i \in 1..n : a[i] \in Pieces
  BY <1>2, LenProperties, ElementOfSeq
<1>4. \A i \in 1..n : wire[i].line.kind = "prompt" <=> a[i] \in Prompts
  BY <1>2, <1>3 DEF Prompts
<1> QED
  BY <1>3, <1>4 DEF a

\* Going on with what is over T leaves what is over T.
LEMMA ContinuesOver ==
    ASSUME PortTypeOK, NEW k \in Commands, NEW fed \in Seq(Pieces), Continues(k, fed), NEW T
    PROVE  fed \in Seq(T) => buffer'[k] \in Seq(T)
<1>1. PICK c \in Seq(Pieces), d \in Seq(Pieces) :
         /\ fed = c \o d /\ Ends(d) = {}
         /\ buffer' = [buffer EXCEPT ![k] = d]
         /\ held' = [held EXCEPT ![k] = held[k] \o c]
  BY Continuing
<1>2. fed \in Seq(T) => d \in Seq(T)
  BY <1>1, OverJoined
<1> QED
  BY <1>1, <1>2 DEF PortTypeOK

\* While nothing but events is read a command reads on.
LEMMA ReadsNothing ==
    ASSUME PortTypeOK, NEW k \in Commands, NEW n \in Nat, ReadFinal(k, n) \/ ReadPrompt(k, n),
           SubSeq(wire, 1, n) \in Seq(UrcPieces), Unread(k)
    PROVE  UNCHANGED <<input, client, given>> /\ Unread(k)'
<1> DEFINE a == SubSeq(wire, 1, n)
           fed == buffer[k] \o a
<1>1. Consumes(n)
  BY DEF ReadFinal, ReadPrompt, Reads
<1>2. fed \in Seq(UrcPieces) /\ fed \in Seq(Pieces)
  <2>1. fed \in Seq(UrcPieces)
    BY ConcatProperties DEF Unread
  <2> QED
    BY <2>1, UrcAre, SeqMonotonic
<1>3. Finals(fed) = {}
  BY <1>2, NoFinals
<1>4. ~\E i \in 1..n : wire[i].line.kind = "prompt"
  <2>1. \A i \in DOMAIN a : a[i] \notin Prompts
    <3> HIDE DEF a, fed
    <3>1. \A i \in DOMAIN a : a[i] \in UrcPieces
      BY LenProperties, ElementOfSeq DEF a
    <3> QED
      BY <3>1, UrcAre
  <2> QED
    BY <1>1, <2>1, ReadPrompts
<1>5. Continues(k, fed)
  BY <1>3, <1>4 DEF ReadFinal, ReadPrompt
<1> HIDE DEF fed
<1>6. buffer'[k] \in Seq(UrcPieces)
  BY <1>2, <1>5, ContinuesOver
<1> QED
  BY <1>5, <1>6 DEF Continues, Unread

LEMMA ReadInStep ==
    ASSUME PortTypeOK, PortIsHeld, InStep, NEW k \in Commands, NEW n \in Nat,
           ReadFinal(k, n) \/ ReadPrompt(k, n)
    PROVE  InStep'
<1> DEFINE a == SubSeq(wire, 1, n)
           fed == buffer[k] \o a
<1>1. Consumes(n) /\ Reads(k, n)
  BY DEF ReadFinal, ReadPrompt, Reads
<1>2. /\ a \in Seq(Pieces) /\ wire' \in Seq(Pieces) /\ wire = a \o wire'
      /\ fed \in Seq(Pieces) /\ buffer[k] \in Seq(Pieces)
  BY <1>1, Consuming, FedType, NoOneApart
<1>3. UNCHANGED <<prompting, submitted>> /\ \A s \in submitted' : s[1] = s[2]
  BY <1>1 DEF Reads, InStep
<1>4. \/ ReadFinal(k, n) /\ client[k] = "final" /\ BeforeFinal(k)
      \/ ReadPrompt(k, n) /\ client[k] = "prompt" /\ BeforePrompt(k)
  BY DEF ReadFinal, ReadPrompt, InStep
<1>5. Reading(k) /\ \A j \in Commands : j # k => ~Reading(j)
  BY <1>4 DEF Reading, PortIsHeld
<1>6. \A j \in Commands : j # k => client'[j] = client[j] /\ given'[j] = given[j]
  <2>1. ReadsOn(k, n) \/ EndsRead(k, n)
    BY ReadCases
  <2>2. CASE ReadsOn(k, n)
    BY <2>2 DEF ReadsOn, Continues
  <2>3. CASE EndsRead(k, n)
    <3>1. \E state : client' = [client EXCEPT ![k] = state]
      BY <2>3 DEF EndsRead, Stops
    <3>2. given' = given \/ \E x : given' = [given EXCEPT ![k] = x]
      BY <2>3 DEF EndsRead
    <3> QED
      BY <3>1, <3>2 DEF PortTypeOK
  <2> QED
    BY <2>1, <2>2, <2>3
\* It reads on, and what was true of the port still is.
<1>7. ASSUME UNCHANGED <<client>>,
             client[k] = "final" => BeforeFinal(k)', client[k] = "prompt" => BeforePrompt(k)'
      PROVE  InStep'
  BY <1>3, <1>4, <1>5, <1>6, <1>7, InStepAfter
<1>8. CASE Asked(k) \/ (Supplied(k) /\ client[k] = "final")
  <2>1. Quiet /\ Unread(k)
    BY <1>8 DEF Asked, Supplied
  <2>2. a \in Seq(UrcPieces) /\ wire' \in Seq(UrcPieces)
    BY <1>1, <2>1, ReadOver DEF Quiet, Unread
  <2>3. UNCHANGED <<input, client, given>> /\ Unread(k)'
    BY <1>4, <2>1, <2>2, ReadsNothing
  <2>4. Quiet'
    BY <2>2 DEF Quiet
  <2>5. Asked(k)' \/ (Supplied(k)' /\ client[k] = "final")
    <3>1. input' = input /\ prompting' = prompting /\ client'[k] = client[k]
      BY <1>3, <2>3
    <3>2. Asked(k) => Asked(k)'
      <4> SUFFICES ASSUME Asked(k) PROVE Asked(k)'
        OBVIOUS
      <4>1. input' = <<<<"command", k>>>> /\ prompting' = NoOne
        BY <3>1 DEF Asked
      <4>2. client'[k] = "final" => k \in Exchanges
        BY <3>1 DEF Asked
      <4> QED
        BY <2>3, <2>4, <4>1, <4>2 DEF Asked
    <3>3. Supplied(k) => Supplied(k)'
      <4> SUFFICES ASSUME Supplied(k) PROVE Supplied(k)'
        OBVIOUS
      <4>1. input' = <<<<"body", k>>>> /\ prompting' = k
        BY <3>1 DEF Supplied
      <4> QED
        BY <2>3, <2>4, <4>1 DEF Supplied
    <3> QED
      BY <1>8, <3>2, <3>3
  <2> QED
    BY <1>7, <2>3, <2>5 DEF BeforeFinal, BeforePrompt
<1>9. ASSUME NEW kinds, \/ kinds = {"ok", "error"} /\ client[k] = "final"
                        \/ kinds = {"error"} /\ client[k] = "prompt",
             Answered(k, kinds)
      PROVE  InStep'
  <2> DEFINE A == AnswerPieces(k, kinds)
  <2>1. /\ a \in Seq(A) /\ wire' \in Seq(A) /\ fed \in Seq(A)
    BY <1>1, <1>9, ReadOver DEF Answered
  <2>2. LastAnswer(wire) /\ LastAnswer(wire')
    <3> HIDE DEF a
    <3>1. LastAnswer(wire)
      BY <1>9 DEF Answered
    <3>2. LastAnswer(a \o wire')
      BY <1>2, <3>1
    <3> QED
      BY <1>2, <3>1, <3>2, LastAnswerJoined
  <2>3. ~\E i \in 1..n : wire[i].line.kind = "prompt"
    <3>1. A \intersect Prompts = {}
      BY <1>9, UrcAre
    <3>2. \A i \in DOMAIN a : a[i] \notin Prompts
      <4> HIDE DEF a, A
      <4>1. \A i \in DOMAIN a : a[i] \in A
        BY <2>1, LenProperties, ElementOfSeq
      <4> QED
        BY <3>1, <4>1
    <3> QED
      BY <1>1, <3>2, ReadPrompts
  <2>4. CASE Finals(fed) = {}
    <3>1. Continues(k, fed)
      BY <1>4, <2>3, <2>4 DEF ReadFinal, ReadPrompt
    <3>2. buffer'[k] \in Seq(A)
      <4> HIDE DEF fed, A
      <4> QED
        BY <1>2, <2>1, <3>1, ContinuesOver
    <3>3. UNCHANGED <<input, client>>
      BY <3>1 DEF Continues
    <3>4. Answered(k, kinds)'
      BY <1>3, <1>9, <2>1, <2>2, <3>2, <3>3 DEF Answered
    <3> QED
      BY <1>7, <1>9, <3>3, <3>4 DEF BeforeFinal, BeforePrompt
  <2>5. ASSUME NEW i \in Finals(fed),
               \/ /\ given' = [given EXCEPT ![k] = fed[i].line.of] /\ UNCHANGED input
                  /\ client' = [client EXCEPT ![k] = "dispatch"]
               \/ client[k] = "prompt" /\ fed[i].line.kind = "ok"
        PROVE  InStep'
    <3>1. fed[i].line.of = k /\ fed[i].line.kind \in kinds
      <4> HIDE DEF fed
      <4> QED
        BY <2>1, <2>5, FinalsAre
    <3>2. /\ given' = [given EXCEPT ![k] = k] /\ UNCHANGED input
          /\ client' = [client EXCEPT ![k] = "dispatch"]
      BY <1>9, <2>5, <3>1
    <3>3. Ends(buffer[k]) = {}
      BY NoOneApart DEF PortIsHeld
    <3>4. \E j \in DOMAIN a : EndsAnswer(a[j])
      <4> HIDE DEF a
      <4> QED
        BY <1>2, <2>5, <3>3, FinalsOf
    <3>5. wire' \in Seq(UrcPieces)
      <4> HIDE DEF a
      <4> QED
        BY <1>2, <2>2, <3>4, LastAnswerJoined
    <3>6. Settled'
      BY <1>3, <1>9, <3>2, <3>5 DEF Settled, Quiet, Answered
    <3>7. client'[k] = "dispatch" /\ given'[k] = k
      BY <3>2 DEF PortTypeOK
    <3> QED
      BY <1>3, <1>5, <1>6, <3>6, <3>7, InStepAfter
  <2>6. CASE Finals(fed) # {}
    <3>1. \E i \in Finals(fed) :
             \/ /\ given' = [given EXCEPT ![k] = fed[i].line.of] /\ UNCHANGED input
                /\ client' = [client EXCEPT ![k] = "dispatch"]
             \/ client[k] = "prompt" /\ fed[i].line.kind = "ok"
      BY <1>4, <2>3, <2>6 DEF ReadFinal, ReadPrompt, Stops
    <3> QED
      BY <2>5, <3>1
  <2> QED
    BY <2>4, <2>6
<1>10. CASE Prompted(k) /\ client[k] = "prompt"
  <2>1. OnePrompt(wire) /\ OnePrompt(wire')
    <3> HIDE DEF a
    <3>1. OnePrompt(wire)
      BY <1>10 DEF Prompted
    <3> QED
      BY <1>2, <3>1, OnePromptJoined
  <2>2. CASE \E i \in 1..n : wire[i].line.kind = "prompt"
    <3>1. Stops(k, "final", <<>>) /\ input' = Append(input, <<"body", k>>)
      BY <1>4, <1>10, <2>2 DEF ReadPrompt
    <3>2. wire' \in Seq(UrcPieces)
      <4>1. \E i \in DOMAIN a : a[i] \in Prompts
        BY <1>1, <2>2, ReadPrompts
      <4> HIDE DEF a
      <4> QED
        BY <1>2, <2>1, <4>1, OnePromptJoined
    <3>3. input' = <<<<"body", k>>>>
      BY <1>10, <3>1 DEF Prompted
    <3>4. buffer'[k] = <<>> /\ client'[k] = "final"
      BY <3>1 DEF Stops, PortTypeOK
    <3>5. Supplied(k)'
      BY <1>3, <1>10, <3>2, <3>3, <3>4, EmptySeq DEF Supplied, Prompted, Quiet, Unread
    <3> QED
      BY <1>3, <1>5, <1>6, <3>4, <3>5, InStepAfter DEF BeforeFinal
  <2>3. CASE ~\E i \in 1..n : wire[i].line.kind = "prompt"
    <3>1. a \in Seq(UrcPieces)
      <4>1. \A i \in DOMAIN a : a[i] \notin Prompts
        BY <1>1, <2>3, ReadPrompts
      <4> HIDE DEF a
      <4> QED
        BY <1>2, <2>1, <4>1, OnePromptJoined
    <3>2. UNCHANGED <<input, client, given>> /\ Unread(k)'
      BY <1>4, <1>10, <3>1, ReadsNothing DEF Prompted
    <3>3. Prompted(k)'
      BY <1>3, <1>10, <2>1, <3>2 DEF Prompted
    <3> QED
      BY <1>7, <1>10, <3>2, <3>3 DEF BeforePrompt
  <2> QED
    BY <2>2, <2>3
<1>11. CASE Answered(k, {"ok", "error"}) /\ client[k] = "final"
  <2> DEFINE kinds == {"ok", "error"}
  <2>1. /\ Answered(k, kinds)
        /\ (kinds = {"ok", "error"} /\ client[k] = "final") \/ (kinds = {"error"} /\ client[k] = "prompt")
    BY <1>11
  <2> HIDE DEF kinds
  <2> QED
    BY <2>1, <1>9
<1>12. CASE Answered(k, {"error"}) /\ client[k] = "prompt"
  <2> DEFINE kinds == {"error"}
  <2>1. /\ Answered(k, kinds)
        /\ (kinds = {"ok", "error"} /\ client[k] = "final") \/ (kinds = {"error"} /\ client[k] = "prompt")
    BY <1>12
  <2> HIDE DEF kinds
  <2> QED
    BY <2>1, <1>9
<1> QED
  BY <1>4, <1>8, <1>10, <1>11, <1>12 DEF BeforeFinal, BeforePrompt

\* An event on the wire changes nothing of it.
LEMMA EventInStep ==
    ASSUME PortTypeOK, InStep, NEW u \in Urcs, ModemEvent(u)
    PROVE  InStep'
<1>1. UNCHANGED <<input, prompting, submitted, client, buffer, given>> /\ wire' = wire \o Line("urc", u)
  BY DEF ModemEvent, readers
<1>2. wire \in Seq(Pieces) /\ Line("urc", u) \in Seq(Pieces) /\ Line("urc", u) \in Seq(UrcPieces)
  BY PiecesType DEF PortTypeOK
<1>3. \A T : wire \in Seq(T) /\ UrcPieces \subseteq T => wire' \in Seq(T)
  <2> SUFFICES ASSUME NEW T, wire \in Seq(T), UrcPieces \subseteq T PROVE wire' \in Seq(T)
    OBVIOUS
  <2> DEFINE l == Line("urc", u)
  <2>1. l \in Seq(T)
    BY <1>2, SeqMonotonic
  <2> HIDE DEF l
  <2>2. wire \o l \in Seq(T)
    BY <2>1, ConcatProperties
  <2> QED
    BY <1>1, <2>2 DEF l
<1>4. Quiet => Quiet'
  BY <1>3 DEF Quiet
<1>5. LastAnswer(wire) => LastAnswer(wire')
  BY <1>1, <1>2, LastAnswerJoined
<1>6. OnePrompt(wire) => OnePrompt(wire')
  BY <1>1, <1>2, OnePromptJoined
<1>7. \A k : Unread(k) <=> Unread(k)'
  BY <1>1 DEF Unread
<1>8. \A k : Asked(k) => Asked(k)'
  BY <1>1, <1>4, <1>7 DEF Asked
<1>9. \A k, kinds : Answered(k, kinds) => Answered(k, kinds)'
  <2> SUFFICES ASSUME NEW k, NEW kinds, Answered(k, kinds) PROVE Answered(k, kinds)'
    OBVIOUS
  <2>1. wire' \in Seq(AnswerPieces(k, kinds))
    BY <1>3, UrcAre DEF Answered
  <2>2. UNCHANGED <<input, prompting, buffer>>
    BY <1>1
  <2> QED
    BY <1>5, <2>1, <2>2 DEF Answered
<1>10. \A k : Prompted(k) => Prompted(k)'
  BY <1>1, <1>6, <1>7 DEF Prompted
<1>11. \A k : Supplied(k) => Supplied(k)'
  BY <1>1, <1>4, <1>7 DEF Supplied
<1>12. Settled => Settled'
  BY <1>1, <1>4 DEF Settled
<1>13. \A k : (BeforePrompt(k) => BeforePrompt(k)') /\ (BeforeFinal(k) => BeforeFinal(k)')
  BY <1>8, <1>9, <1>10, <1>11 DEF BeforePrompt, BeforeFinal
<1>14. client' = client /\ given' = given /\ submitted' = submitted
  BY <1>1
<1> QED
  BY <1>12, <1>13, <1>14 DEF InStep, Reading

LEMMA HeadOne ==
    ASSUME NEW x
    PROVE  Head(<<x>>) = x /\ Tail(<<x>>) = <<>> /\ <<x>> # <<>>
  OBVIOUS

\* The modem answers the command, asks for the body of a submission or takes it.
LEMMA AnswersInStep ==
    ASSUME PortTypeOK, PortIsHeld, InStep, ModemProcesses
    PROVE  InStep'
<1>1. input # <<>> /\ UNCHANGED <<client, buffer, given>>
  BY DEF ModemProcesses, readers
<1>2. PICK k \in Commands : Reading(k)
  BY <1>1 DEF InStep, Settled
<1>3. \A j \in Commands : j # k => ~Reading(j)
  BY <1>2 DEF PortIsHeld
<1>4. \A j \in Commands : j # k => client'[j] = client[j] /\ given'[j] = given[j] /\ ~Reading(j)
  BY <1>1, <1>3
<1>5. NoOne # k /\ (k \in Exchanges => k \notin Submissions) /\ k \in Exchanges \union Submissions
  BY PortConstants DEF Commands
<1>6. Unread(k) => Unread(k)'
  BY <1>1 DEF Unread
<1>7. ASSUME NEW kind \in {"ok", "error"}, Quiet, Unread(k), wire' = wire \o Line(kind, k),
             input' = <<>>, prompting' = NoOne
      PROVE  Answered(k, {kind})' /\ Answered(k, {"ok", "error"})'
  <2> DEFINE A == AnswerPieces(k, {kind})
             B == AnswerPieces(k, {"ok", "error"})
  <2>1. wire' \in Seq(A) /\ LastAnswer(wire')
    BY <1>7, AnswerLast DEF Quiet
  <2>2. buffer'[k] \in Seq(UrcPieces)
    BY <1>1, <1>7 DEF Unread
  <2>3. A \subseteq B /\ UrcPieces \subseteq A
    BY UrcAre DEF AnswerPieces
  <2>4. wire' \in Seq(A) /\ wire' \in Seq(B) /\ buffer'[k] \in Seq(A) /\ buffer'[k] \in Seq(B)
    <3> HIDE DEF A, B
    <3>1. buffer'[k] \in Seq(A)
      BY <2>2, <2>3, SeqMonotonic
    <3> QED
      BY <2>1, <2>3, <3>1, SeqMonotonic
  <2> QED
    BY <1>7, <2>1, <2>4 DEF Answered
<1>8. CASE Asked(k)
  <2>1. input = <<<<"command", k>>>> /\ prompting = NoOne /\ Quiet /\ Unread(k)
    BY <1>8 DEF Asked
  <2>2. Head(input) = <<"command", k>> /\ Tail(input) = <<>>
    BY <2>1, HeadOne
  <2>3. Head(input)[1] = "command" /\ Head(input)[2] = k
    BY <2>2
  <2>4. input' = <<>> /\ Answers(k)
    BY <2>1, <2>2, <2>3 DEF ModemProcesses, Swallows
  <2>5. submitted' = submitted
    BY <2>4 DEF Answers
  <2>6. \A s \in submitted' : s[1] = s[2]
    BY <2>5 DEF InStep
  <2>7. CASE client[k] = "final"
    <3>1. k \in Exchanges
      BY <1>8, <2>7 DEF Asked
    <3>2. wire' = wire \o Line("ok", k) /\ prompting' = NoOne
      BY <1>5, <2>1, <2>4, <3>1 DEF Answers
    <3>3. Answered(k, {"ok", "error"})'
      BY <1>7, <2>1, <2>4, <3>2
    <3>4. client'[k] = "final" /\ BeforeFinal(k)'
      BY <1>1, <2>7, <3>3 DEF BeforeFinal
    <3> QED
      BY <1>4, <2>6, <3>4, InStepAfter
  <2>8. CASE client[k] = "prompt"
    <3>1. k \in Submissions
      BY <2>8 DEF PortIsHeld
    <3>2. \/ wire' = wire \o Line("error", k) /\ prompting' = NoOne
          \/ wire' = Append(wire, Piece("prompt", k, "head")) /\ prompting' = k
      BY <1>5, <2>1, <2>4, <3>1 DEF Answers
    <3>3. CASE wire' = wire \o Line("error", k) /\ prompting' = NoOne
      <4>1. Answered(k, {"error"})'
        BY <1>7, <2>1, <2>4, <3>3
      <4> QED
        BY <1>1, <1>4, <2>6, <2>8, <4>1, InStepAfter DEF BeforePrompt
    <3>4. CASE wire' = Append(wire, Piece("prompt", k, "head")) /\ prompting' = k
      <4>1. Piece("prompt", k, "head") \in Prompts
        BY <3>1, PiecesType DEF Prompts, Piece
      <4>2. OnePrompt(wire')
        BY <2>1, <3>4, <4>1, PromptLast DEF Quiet
      <4>3. Prompted(k)'
        BY <1>6, <2>1, <2>4, <3>4, <4>2 DEF Prompted
      <4> QED
        BY <1>1, <1>4, <2>6, <2>8, <4>3, InStepAfter DEF BeforePrompt
    <3> QED
      BY <3>2, <3>3, <3>4
  <2> QED
    BY <1>2, <2>7, <2>8 DEF Reading
<1>9. CASE Supplied(k) /\ client[k] = "final"
  <2>1. input = <<<<"body", k>>>> /\ prompting = k /\ Quiet /\ Unread(k)
    BY <1>9 DEF Supplied
  <2>2. Head(input) = <<"body", k>> /\ Tail(input) = <<>>
    BY <2>1, HeadOne
  <2>3. Head(input)[1] = "body" /\ Head(input)[2] = k
    BY <2>2
  <2>4. input' = <<>> /\ TakesBody(k)
    BY <1>5, <2>1, <2>2, <2>3 DEF ModemProcesses
  <2>5. /\ wire' = wire \o Line("ok", k) /\ prompting' = NoOne
        /\ submitted' = submitted \union {<<k, k>>}
    BY <2>1, <2>4 DEF TakesBody
  <2>6. \A s \in submitted' : s[1] = s[2]
    BY <2>5 DEF InStep
  <2>7. Answered(k, {"ok", "error"})'
    BY <1>7, <2>1, <2>4, <2>5
  <2>8. client'[k] = "final" /\ BeforeFinal(k)'
    BY <1>1, <1>9, <2>7 DEF BeforeFinal
  <2> QED
    BY <1>4, <2>6, <2>8, InStepAfter
<1> QED
  BY <1>1, <1>2, <1>8, <1>9
  DEF InStep, Reading, BeforePrompt, BeforeFinal, Answered, Prompted

\* A command begins when nothing is left of the one before it.
LEMMA BeginInStep ==
    ASSUME PortTypeOK, PortIsHeld, InStep, NEW k \in Commands, Begin(k)
    PROVE  InStep'
<1>1. /\ client[k] = "idle" /\ port = NoOne /\ input' = Append(input, <<"command", k>>)
      /\ UNCHANGED <<prompting, submitted, wire, buffer, given>>
  BY DEF Begin, readers
<1>2. client' = [client EXCEPT ![k] = IF k \in Submissions THEN "prompt" ELSE "final"]
  BY DEF Begin
<1>3. \A j \in Commands : ~Reading(j)
  BY <1>1, NoOneApart DEF PortIsHeld
<1>4. Settled /\ buffer[k] = <<>>
  BY <1>3 DEF InStep, PortIsHeld
<1>5. /\ client'[k] = IF k \in Submissions THEN "prompt" ELSE "final"
      /\ \A j \in Commands : j # k => client'[j] = client[j]
  BY <1>2 DEF PortTypeOK
<1>6. input' = <<<<"command", k>>>> /\ prompting' = NoOne /\ Quiet' /\ Unread(k)'
  BY <1>1, <1>4, EmptySeq DEF Settled, Quiet, Unread
<1>7. client'[k] = "final" => k \in Exchanges
  BY <1>5 DEF Commands
<1>8. Asked(k)'
  BY <1>6, <1>7 DEF Asked
<1>9. \A s \in submitted' : s[1] = s[2]
  BY <1>1 DEF InStep
<1>10. \A j \in Commands : j # k => client'[j] = client[j] /\ given'[j] = given[j] /\ ~Reading(j)
  BY <1>1, <1>3, <1>5
<1>11. BeforePrompt(k)' /\ BeforeFinal(k)'
  BY <1>8 DEF BeforePrompt, BeforeFinal
<1>12. client'[k] = "prompt" \/ client'[k] = "final"
  BY <1>5
<1> QED
  BY <1>9, <1>10, <1>11, <1>12, InStepAfter

LEMMA DispatchInStep ==
    ASSUME PortTypeOK, PortIsHeld, InStep, NEW k \in Commands, Dispatch(k)
    PROVE  InStep'
<1>1. /\ client[k] = "dispatch" /\ UNCHANGED <<input, prompting, submitted, wire, given>>
  BY DEF Dispatch, modem
<1>2. client' = client \/ client' = [client EXCEPT ![k] = "done"]
  BY DEF Dispatch
<1>3. client'[k] \in {"dispatch", "done"} /\ \A j \in Commands : j # k => client'[j] = client[j]
  BY <1>1, <1>2 DEF PortTypeOK
<1>4. \A j \in Commands : ~Reading(j)
  BY <1>1 DEF PortIsHeld, Reading
<1>5. Settled /\ given[k] = k
  BY <1>1, <1>4 DEF InStep
<1>6. Settled' /\ given'[k] = k
  BY <1>1, <1>5 DEF Settled, Quiet
<1>7. \A s \in submitted' : s[1] = s[2]
  BY <1>1 DEF InStep
<1>8. \A j \in Commands : j # k => client'[j] = client[j] /\ given'[j] = given[j] /\ ~Reading(j)
  BY <1>1, <1>3, <1>4
<1> QED
  BY <1>3, <1>6, <1>7, <1>8, InStepAfter

\* Run reads when no command has the port, and leaves the parsers of the commands alone.
LEMMA RunInStep ==
    ASSUME PortTypeOK, PortIsHeld, InStep, Run
    PROVE  InStep'
<1>1. UNCHANGED <<input, prompting, submitted, client, given>>
  BY DEF Run, PollRead, PollFeed, PollHandle, modem
<1>2. \A k \in Commands : buffer'[k] = buffer[k]
  BY NoOneApart DEF Run, PollRead, PollFeed, PollHandle, PortTypeOK
<1>3. CASE UNCHANGED wire
  <2>1. wire' = wire /\ input' = input /\ prompting' = prompting /\ client' = client
        /\ given' = given /\ submitted' = submitted
    BY <1>1, <1>3
  <2>2. \A k \in Commands : /\ (Asked(k) => Asked(k)') /\ (Prompted(k) => Prompted(k)')
                            /\ (Supplied(k) => Supplied(k)')
    BY <1>2, <2>1 DEF Asked, Prompted, Supplied, Quiet, Unread
  <2>3. \A kinds : \A k \in Commands : Answered(k, kinds) => Answered(k, kinds)'
    BY <1>2, <2>1 DEF Answered
  <2>4. \A k \in Commands : (BeforePrompt(k) => BeforePrompt(k)') /\ (BeforeFinal(k) => BeforeFinal(k)')
    BY <2>2, <2>3 DEF BeforePrompt, BeforeFinal
  <2>5. Settled => Settled'
    BY <2>1 DEF Settled, Quiet
  <2> QED
    BY <2>1, <2>4, <2>5 DEF InStep, Reading
<1>4. ASSUME NEW n \in 1..ChunkSize, PollRead(n) PROVE InStep'
  <2>1. n \in Nat /\ Consumes(n) /\ port = NoOne
    BY <1>4, PortConstants DEF PollRead
  <2>2. \A k \in Commands : ~Reading(k)
    BY <2>1, NoOneApart DEF PortIsHeld
  <2>3. Settled
    BY <2>2 DEF InStep
  <2> DEFINE a == SubSeq(wire, 1, n)
  <2>4. a \in Seq(Pieces) /\ wire' \in Seq(Pieces) /\ wire = a \o wire'
    BY <2>1, Consuming
  <2>5. wire' \in Seq(UrcPieces)
    <3> HIDE DEF a
    <3> QED
      BY <2>3, <2>4, OverJoined DEF Settled, Quiet
  <2>6. Settled'
    BY <1>1, <2>3, <2>5 DEF Settled, Quiet
  <2>7. client' = client /\ given' = given /\ submitted' = submitted
    BY <1>1
  <2> QED
    BY <2>2, <2>6, <2>7 DEF InStep, Reading
<1> QED
  BY <1>3, <1>4 DEF Run, PollFeed, PollHandle

LEMMA InStepStep ==
    ASSUME PortTypeOK, PortIsHeld, deadlines = 0 => InStep, [PortNext]_portVars
    PROVE  deadlines' = 0 => InStep'
<1> SUFFICES ASSUME deadlines' = 0 PROVE InStep'
  OBVIOUS
<1>1. deadlines \in Nat /\ deadlines + 1 # 0
  BY PortConstants DEF PortTypeOK
<1>2. CASE UNCHANGED portVars
  <2>1. /\ UNCHANGED <<input, prompting, wire, client, buffer, given, submitted>>
        /\ deadlines' = deadlines
    BY <1>2 DEF portVars, modem, readers
  <2>2. InStep
    BY <2>1
  <2> QED
    BY <2>1, <2>2 DEF InStep, Settled, BeforePrompt, BeforeFinal, Asked, Answered, Prompted, Supplied,
                      Quiet, Unread, Reading
<1>3. CASE \E u \in Urcs : ModemEvent(u)
  <2>1. deadlines' = deadlines
    BY <1>3 DEF ModemEvent
  <2> QED
    BY <1>3, <2>1, EventInStep
<1>4. CASE ModemProcesses
  <2>1. deadlines' = deadlines
    BY <1>4 DEF ModemProcesses
  <2> QED
    BY <1>4, <2>1, AnswersInStep
<1>5. ASSUME NEW k \in Commands, Command(k) PROVE InStep'
  <2>1. CASE Begin(k)
    <3>1. deadlines' = deadlines
      BY <2>1 DEF Begin
    <3> QED
      BY <2>1, <3>1, BeginInStep
  <2>2. CASE Refused(k) \/ GiveUp(k)
    BY <1>1, <2>2 DEF Refused, GiveUp
  <2>3. CASE Dispatch(k)
    <3>1. deadlines' = deadlines
      BY <2>3 DEF Dispatch
    <3> QED
      BY <2>3, <3>1, DispatchInStep
  <2>4. ASSUME NEW n \in 1..ChunkSize, ReadPrompt(k, n) \/ ReadFinal(k, n) PROVE InStep'
    <3>1. n \in Nat /\ deadlines' = deadlines
      BY <2>4, PortConstants DEF ReadPrompt, ReadFinal, Reads
    <3> QED
      BY <2>4, <3>1, ReadInStep
  <2> QED
    BY <1>5, <2>1, <2>2, <2>3, <2>4 DEF Command
<1>6. CASE Run
  <2>1. deadlines' = deadlines
    BY <1>6 DEF Run, PollRead, PollFeed, PollHandle
  <2> QED
    BY <1>6, <2>1, RunInStep
<1> QED
  BY <1>2, <1>3, <1>4, <1>5, <1>6 DEF PortNext

-----------------------------------------------------------------------------
(* No event is handed on twice.                                            *)

LEMMA Regroup == \A s, t, u \in Seq(Pieces) : (s \o t) \o u = s \o (t \o u)
<1> TAKE s, t, u \in Seq(Pieces)
<1> QED
  OBVIOUS

\* What a command has: no chunk.
LEMMA GotIs ==
    ASSUME NEW h \in Seq(Pieces), NEW b \in Seq(Pieces), NEW c, NEW r, r # NoOne
    PROVE  (h \o b) \o (IF r = NoOne THEN c ELSE <<>>) = h \o b
<1> DEFINE hb == h \o b
<1>1. hb \in Seq(Pieces)
  BY ConcatProperties
<1> HIDE DEF hb
<1>2. hb \o <<>> = hb
  BY <1>1, JoinedNone
<1> QED
  BY <1>2 DEF hb

LEMMA TakesBy ==
    ASSUME PortTypeOK, PortTypeOK', NEW r \in Readers, NEW a \in Seq(Pieces), wire = a \o wire',
           \A q \in Readers : q # r => held'[q] = held[q] /\ buffer'[q] = buffer[q],
           r # NoOne => chunk' = chunk,
           NEW x \in Seq(Pieces), NEW y \in Seq(Pieces), Got(r) \o a = (x \o Got(r)') \o y
    PROVE  Takes(r, a)
<1>1. wire' \in Seq(Pieces)
  BY DEF PortTypeOK
<1>2. \A q \in Readers : q # r => Got(q)' = Got(q)
  BY DEF Got
<1> QED
  BY <1>1, <1>2 DEF Takes

\* A command keeps of what it was fed a beginning, as lines, and what follows or nothing.
LEMMA CommandTakes ==
    ASSUME PortTypeOK, PortTypeOK', NEW k \in Commands, NEW n \in Nat, Consumes(n), chunk' = chunk,
           NEW c \in Seq(Pieces), NEW d \in Seq(Pieces), NEW rest \in {d, <<>>},
           buffer[k] \o SubSeq(wire, 1, n) = c \o d,
           held' = [held EXCEPT ![k] = held[k] \o c], buffer' = [buffer EXCEPT ![k] = rest]
    PROVE  SubSeq(wire, 1, n) \in Seq(Pieces) /\ Takes(k, SubSeq(wire, 1, n))
<1> DEFINE a == SubSeq(wire, 1, n)
<1>1. a \in Seq(Pieces) /\ wire = a \o wire' /\ buffer[k] \o a = c \o d
  BY Consuming
<1> HIDE DEF a
<1>2. /\ held[k] \in Seq(Pieces) /\ buffer[k] \in Seq(Pieces) /\ chunk \in Seq(Pieces)
      /\ held'[k] = held[k] \o c /\ buffer'[k] = rest /\ <<>> \in Seq(Pieces)
  BY EmptySeq DEF PortTypeOK
<1>3. held[k] \o c \in Seq(Pieces) /\ rest \in Seq(Pieces)
  BY <1>2, ConcatProperties
<1>4. k # NoOne /\ k \in Readers
  BY NoOneApart
<1> DEFINE h == held[k]
           b == buffer[k]
           hc == h \o c
<1>5. /\ h \in Seq(Pieces) /\ b \in Seq(Pieces) /\ hc \in Seq(Pieces) /\ b \o a = c \o d
      /\ Got(k) = (h \o b) \o (IF k = NoOne THEN chunk ELSE <<>>)
      /\ Got(k)' = (hc \o rest) \o (IF k = NoOne THEN chunk' ELSE <<>>)
  BY <1>1, <1>2, <1>3 DEF Got
<1> HIDE DEF h, b
<1>6. Got(k) = h \o b /\ (h \o b) \o a = hc \o d
  <2>1. Got(k) = h \o b
    BY <1>4, <1>5, GotIs
  <2>2. (h \o b) \o a = hc \o d
    <3>1. h \in Seq(Pieces) /\ b \in Seq(Pieces) /\ a \in Seq(Pieces) /\ b \o a = c \o d
      BY <1>1, <1>5
    <3>2. (h \o b) \o a = h \o (b \o a)
      BY <3>1, Regroup, Zenon
    <3>3. (h \o c) \o d = h \o (c \o d)
      BY <3>1, Regroup, Zenon
    <3> QED
      BY <3>1, <3>2, <3>3
  <2> QED
    BY <2>1, <2>2
<1>7. Got(k) \o a = hc \o d
  BY <1>6
<1>8. \A q \in Readers : q # k => held'[q] = held[q] /\ buffer'[q] = buffer[q]
  BY DEF PortTypeOK, Readers
<1> HIDE DEF hc
<1>9. Got(k)' = hc \o rest
  BY <1>3, <1>4, <1>5, GotIs
<1>10. CASE rest = d
  <2>1. hc \o d \in Seq(Pieces)
    BY <1>5, ConcatProperties
  <2>2. Got(k) \o a = (<<>> \o Got(k)') \o <<>>
    BY <1>7, <1>9, <1>10, <2>1, JoinedNone
  <2> QED
    BY <1>1, <1>2, <1>4, <1>8, <2>2, TakesBy DEF a
<1>11. CASE rest = <<>>
  <2>1. Got(k)' = hc /\ <<>> \o hc = hc
    BY <1>5, <1>9, <1>11, JoinedNone
  <2>2. Got(k) \o a = (<<>> \o Got(k)') \o d
    BY <1>7, <2>1
  <2> QED
    BY <1>1, <1>2, <1>4, <1>8, <2>2, TakesBy DEF a
<1> QED
  BY <1>10, <1>11

LEMMA ReadTakes ==
    ASSUME PortTypeOK, PortTypeOK', NEW k \in Commands, NEW n \in Nat, ReadFinal(k, n) \/ ReadPrompt(k, n)
    PROVE  SubSeq(wire, 1, n) \in Seq(Pieces) /\ Takes(k, SubSeq(wire, 1, n))
<1>1. Reads(k, n) /\ (ReadsOn(k, n) \/ EndsRead(k, n))
  BY ReadCases
<1>2. Consumes(n) /\ chunk' = chunk
  BY <1>1 DEF Reads
<1> DEFINE fed == buffer[k] \o SubSeq(wire, 1, n)
<1>3. fed \in Seq(Pieces)
  BY <1>2, FedType, NoOneApart
<1> HIDE DEF fed
<1>4. CASE ReadsOn(k, n)
  <2>1. Continues(k, fed)
    BY <1>4 DEF ReadsOn, fed
  <2>2. PICK c, d \in Seq(Pieces) :
           /\ fed = c \o d /\ Ends(d) = {}
           /\ buffer' = [buffer EXCEPT ![k] = d]
           /\ held' = [held EXCEPT ![k] = held[k] \o c]
    BY <1>3, <2>1, Continuing
  <2> QED
    BY <1>2, <2>2, CommandTakes DEF fed
<1>5. CASE EndsRead(k, n)
  <2>1. PICK lines, d \in Seq(Pieces), state \in {"final", "dispatch"} :
           fed = lines \o d /\ Stops(k, state, lines)
    BY <1>5 DEF EndsRead, fed
  <2>2. held' = [held EXCEPT ![k] = held[k] \o lines] /\ buffer' = [buffer EXCEPT ![k] = <<>>]
    BY <2>1 DEF Stops
  <2> QED
    BY <1>2, <2>1, <2>2, CommandTakes DEF fed
<1> QED
  BY <1>1, <1>4, <1>5

LEMMA GiveUpTakes ==
    ASSUME PortTypeOK, PortTypeOK', NEW k \in Commands, GiveUp(k)
    PROVE  \E a \in Seq(Pieces) : Takes(k, a)
<1>1. PICK n \in 0..ChunkSize : Consumes(n)
  BY DEF GiveUp
<1>2. n \in Nat /\ chunk' = chunk
  BY PortConstants DEF GiveUp
<1> DEFINE fed == buffer[k] \o SubSeq(wire, 1, n)
<1>3. fed \in Seq(Pieces)
  BY <1>1, <1>2, FedType, NoOneApart
<1> HIDE DEF fed
<1>4. <<>> \in Seq(Pieces) /\ fed = <<>> \o fed
  BY <1>3, JoinedNone
<1>5. held' = [held EXCEPT ![k] = held[k] \o <<>>] /\ buffer' = [buffer EXCEPT ![k] = <<>>]
  BY DEF GiveUp, Stops
<1>6. SubSeq(wire, 1, n) \in Seq(Pieces) /\ Takes(k, SubSeq(wire, 1, n))
  BY <1>1, <1>2, <1>3, <1>4, <1>5, CommandTakes DEF fed
<1> QED
  BY <1>6

\* A reader drops the beginning of the lines it holds.
LEMMA DropTakes ==
    ASSUME PortTypeOK, PortTypeOK', NEW r \in Readers, UNCHANGED <<wire, buffer, chunk>>,
           NEW c \in Seq(Pieces), NEW d \in Seq(Pieces), held[r] = c \o d,
           held' = [held EXCEPT ![r] = d]
    PROVE  Takes(r, <<>>) /\ Got(r) = c \o Got(r)' /\ Got(r)' \in Seq(Pieces)
<1> DEFINE e == IF r = NoOne THEN chunk ELSE <<>>
<1>1. /\ held[r] \in Seq(Pieces) /\ buffer[r] \in Seq(Pieces) /\ held'[r] = d
      /\ e \in Seq(Pieces) /\ <<>> \in Seq(Pieces) /\ wire \in Seq(Pieces)
  BY EmptySeq DEF PortTypeOK, Readers
<1>2. Got(r) = ((c \o d) \o buffer[r]) \o e /\ Got(r)' = (d \o buffer[r]) \o e
  BY <1>1 DEF Got
<1> HIDE DEF e
<1> DEFINE db == d \o buffer[r]
<1>3. db \in Seq(Pieces) /\ (c \o d) \o buffer[r] = c \o db
  <2>1. db \in Seq(Pieces)
    BY <1>1, ConcatProperties
  <2>2. c \in Seq(Pieces) /\ d \in Seq(Pieces) /\ buffer[r] \in Seq(Pieces)
    BY <1>1
  <2> QED
    BY <2>1, <2>2, Regroup, ZenonT(30)
<1> HIDE DEF db
<1>4. db \o e \in Seq(Pieces) /\ (c \o db) \o e = c \o (db \o e)
  <2>1. db \o e \in Seq(Pieces)
    BY <1>1, <1>3, ConcatProperties
  <2>2. c \in Seq(Pieces) /\ db \in Seq(Pieces) /\ e \in Seq(Pieces)
    BY <1>1, <1>3
  <2> QED
    BY <2>1, <2>2, Regroup, ZenonT(30)
<1>5. Got(r) = c \o Got(r)' /\ Got(r)' \in Seq(Pieces)
  BY <1>2, <1>3, <1>4 DEF db
<1> DEFINE g == Got(r)
           h == Got(r)'
<1>6. g = c \o h /\ h \in Seq(Pieces) /\ g \in Seq(Pieces)
  BY <1>5, ConcatProperties
<1> HIDE DEF g, h
<1>7. g \o <<>> = (c \o h) \o <<>>
  BY <1>6
<1>8. wire = <<>> \o wire'
  BY <1>1, JoinedNone
<1>9. \A q \in Readers : q # r => held'[q] = held[q] /\ buffer'[q] = buffer[q]
  BY DEF PortTypeOK, Readers
<1>10. Got(r) \o <<>> = (c \o Got(r)') \o <<>>
  BY <1>7 DEF g, h
<1>11. Takes(r, <<>>)
  BY <1>1, <1>8, <1>9, <1>10, TakesBy
<1> QED
  BY <1>5, <1>11

LEMMA PollReadTakes ==
    ASSUME PortTypeOK, PortTypeOK', NEW n \in Nat, PollRead(n)
    PROVE  SubSeq(wire, 1, n) \in Seq(Pieces) /\ Takes(NoOne, SubSeq(wire, 1, n))
<1> DEFINE a == SubSeq(wire, 1, n)
           hb == held[NoOne] \o buffer[NoOne]
<1>1. Consumes(n) /\ chunk = <<>> /\ chunk' = a /\ UNCHANGED <<held, buffer>>
  BY DEF PollRead
<1>2. a \in Seq(Pieces) /\ wire = a \o wire'
  BY <1>1, Consuming
<1>3. hb \in Seq(Pieces) /\ <<>> \in Seq(Pieces)
  BY ConcatProperties, EmptySeq DEF PortTypeOK
<1>4. Got(NoOne) = hb \o <<>> /\ Got(NoOne)' = hb \o a
  BY <1>1 DEF Got
<1> HIDE DEF a, hb
<1>5. hb \o a \in Seq(Pieces)
  BY <1>2, <1>3, ConcatProperties
<1>6. Got(NoOne) \o a = (<<>> \o Got(NoOne)') \o <<>>
  BY <1>2, <1>3, <1>4, <1>5, JoinedNone
<1> QED
  BY <1>1, <1>2, <1>3, <1>6, NoOneApart, TakesBy DEF a

LEMMA PollFeedCuts ==
    ASSUME PortTypeOK, PollFeed
    PROVE  /\ \E c, d \in Seq(Pieces) :
                 /\ buffer[NoOne] \o chunk = c \o d
                 /\ held' = [held EXCEPT ![NoOne] = c] /\ buffer' = [buffer EXCEPT ![NoOne] = d]
                 /\ c = <<>> \/ c[Len(c)].part = "tail"
           /\ chunk' = <<>> /\ UNCHANGED <<modem, wire, port, client, handled, given, deadlines>>
<1> DEFINE fed == buffer[NoOne] \o chunk
<1>1. PICK e \in 0..Len(fed) :
         /\ Feed(fed, e)
         /\ buffer' = [buffer EXCEPT ![NoOne] = SubSeq(fed, e + 1, Len(fed))]
         /\ held' = [held EXCEPT ![NoOne] = SubSeq(fed, 1, e)]
  BY DEF PollFeed
<1>2. fed \in Seq(Pieces)
  BY Joined DEF PortTypeOK
<1>3. chunk' = <<>> /\ UNCHANGED <<modem, wire, port, client, handled, given, deadlines>>
  BY DEF PollFeed
<1> HIDE DEF fed
<1>4. /\ SubSeq(fed, 1, e) \in Seq(Pieces) /\ SubSeq(fed, e + 1, Len(fed)) \in Seq(Pieces)
      /\ fed = SubSeq(fed, 1, e) \o SubSeq(fed, e + 1, Len(fed))
      /\ SubSeq(fed, 1, e) = <<>> \/ SubSeq(fed, 1, e)[Len(SubSeq(fed, 1, e))].part = "tail"
  BY <1>1, <1>2, Fed
<1> QED
  BY <1>1, <1>3, <1>4 DEF fed

LEMMA PollFeedTakes ==
    ASSUME PortTypeOK, PortTypeOK', PollFeed
    PROVE  Takes(NoOne, <<>>)
<1>1. PICK c, d \in Seq(Pieces) :
         /\ buffer[NoOne] \o chunk = c \o d
         /\ held' = [held EXCEPT ![NoOne] = c] /\ buffer' = [buffer EXCEPT ![NoOne] = d]
  BY PollFeedCuts
<1>2. chunk' = <<>> /\ wire' = wire
  BY PollFeedCuts
<1> DEFINE h == held[NoOne]
           b == buffer[NoOne]
<1>3. /\ h \in Seq(Pieces) /\ b \in Seq(Pieces) /\ chunk \in Seq(Pieces) /\ <<>> \in Seq(Pieces)
      /\ wire \in Seq(Pieces) /\ held'[NoOne] = c /\ buffer'[NoOne] = d
  BY <1>1, EmptySeq DEF PortTypeOK
<1>4. Got(NoOne) = (h \o b) \o chunk /\ Got(NoOne)' = (c \o d) \o <<>> /\ b \o chunk = c \o d
  BY <1>1, <1>2, <1>3 DEF Got
<1> HIDE DEF h, b
<1> DEFINE cd == c \o d
           hb == h \o b
<1>5. cd \in Seq(Pieces) /\ hb \o chunk = h \o cd
  <2>1. cd \in Seq(Pieces)
    BY <1>3, ConcatProperties
  <2>2. (h \o b) \o chunk = h \o (b \o chunk)
    <3>1. h \in Seq(Pieces) /\ b \in Seq(Pieces) /\ chunk \in Seq(Pieces)
      BY <1>3
    <3> QED
      BY <3>1, Regroup, ZenonT(30)
  <2> QED
    BY <1>4, <2>1, <2>2
<1> HIDE DEF cd, hb
<1>6. h \o cd \in Seq(Pieces) /\ cd \o <<>> = cd
  BY <1>3, <1>5, ConcatProperties, JoinedNone
<1>7. Got(NoOne) = h \o cd /\ Got(NoOne)' = cd
  BY <1>4, <1>5, <1>6 DEF cd, hb
<1>8. Got(NoOne) \o <<>> = (h \o Got(NoOne)') \o <<>>
  BY <1>7
<1>9. wire = <<>> \o wire'
  BY <1>2, <1>3, JoinedNone
<1>10. \A q \in Readers : q # NoOne => held'[q] = held[q] /\ buffer'[q] = buffer[q]
  BY <1>1 DEF PortTypeOK, Readers
<1> QED
  BY <1>3, <1>8, <1>9, <1>10, NoOneApart, TakesBy

\* Every reader's step takes pieces from the wire, or none.
LEMMA ReaderTakes ==
    ASSUME PortTypeOK, PortTypeOK', Run \/ \E k \in Commands : Command(k)
    PROVE  \/ UNCHANGED <<wire, held, buffer, chunk>>
           \/ \E r \in Readers, a \in Seq(Pieces) : Takes(r, a)
<1>1. ASSUME NEW k \in Commands, Command(k)
      PROVE  \/ UNCHANGED <<wire, held, buffer, chunk>>
             \/ \E r \in Readers, a \in Seq(Pieces) : Takes(r, a)
  <2>0. k \in Readers
    BY NoOneApart
  <2>1. CASE Begin(k) \/ Refused(k)
    BY <2>1 DEF Begin, Refused, readers
  <2>2. CASE GiveUp(k)
    BY <2>0, <2>2, GiveUpTakes
  <2>3. CASE Dispatch(k)
    <3>1. UNCHANGED <<wire, buffer, chunk>>
      BY <2>3 DEF Dispatch
    <3>2. CASE Handle(k)
      <4>1. \E c, d \in Seq(Pieces) : held[k] = c \o d /\ held' = [held EXCEPT ![k] = d]
        BY <2>0, <3>2, HandleType
      <4> QED
        BY <2>0, <3>1, <4>1, DropTakes, EmptySeq
    <3>3. CASE held' = [held EXCEPT ![k] = <<>>]
      <4>1. held[k] \in Seq(Pieces)
        BY DEF PortTypeOK
      <4>2. held[k] = held[k] \o <<>> /\ <<>> \in Seq(Pieces)
        BY <4>1, JoinedNone
      <4>3. Takes(k, <<>>)
        BY <2>0, <3>1, <3>3, <4>1, <4>2, DropTakes
      <4> QED
        BY <2>0, <4>2, <4>3
    <3> QED
      BY <2>3, <3>2, <3>3 DEF Dispatch
  <2>4. ASSUME NEW n \in 1..ChunkSize, ReadPrompt(k, n) \/ ReadFinal(k, n)
        PROVE  \E r \in Readers, a \in Seq(Pieces) : Takes(r, a)
    <3>1. n \in Nat
      BY PortConstants
    <3> QED
      BY <2>0, <2>4, <3>1, ReadTakes
  <2> QED
    BY <1>1, <2>1, <2>2, <2>3, <2>4 DEF Command
<1>2. CASE Run
  <2>1. ASSUME NEW n \in 1..ChunkSize, PollRead(n)
        PROVE  \E r \in Readers, a \in Seq(Pieces) : Takes(r, a)
    <3>1. n \in Nat
      BY PortConstants
    <3> QED
      BY <2>1, <3>1, PollReadTakes, NoOneApart
  <2>2. CASE PollFeed
    BY <2>2, PollFeedTakes, NoOneApart, EmptySeq
  <2>3. CASE PollHandle
    <3>1. Handle(NoOne) /\ UNCHANGED <<wire, buffer, chunk>>
      BY <2>3 DEF PollHandle
    <3>2. \E c, d \in Seq(Pieces) : held[NoOne] = c \o d /\ held' = [held EXCEPT ![NoOne] = d]
      BY <3>1, NoOneApart, HandleType
    <3> QED
      BY <3>1, <3>2, NoOneApart, DropTakes, EmptySeq
  <2> QED
    BY <1>2, <2>1, <2>2, <2>3 DEF Run
<1> QED
  BY <1>1, <1>2

LEMMA TakesTwice ==
    ASSUME PortTypeOK, PortTypeOK', NothingTwice, UNCHANGED <<toSend, handled>>,
           \/ UNCHANGED <<wire, held, buffer, chunk>>
           \/ \E r \in Readers, a \in Seq(Pieces) : Takes(r, a)
    PROVE  NothingTwice'
<1>1. PiecesOnce
  BY DEF NothingTwice
<1>2. PiecesOnce' /\ \A u : Gone(u) => Gone(u)'
  <2>1. CASE UNCHANGED <<wire, held, buffer, chunk>>
    <3>1. wire' = wire /\ \A r : Got(r)' = Got(r)
      BY <2>1 DEF Got
    <3> QED
      BY <1>1, <3>1 DEF PiecesOnce, Gone
  <2>2. CASE \E r \in Readers, a \in Seq(Pieces) : Takes(r, a)
    BY <1>1, <2>2, TakesKeeps
  <2> QED
    BY <2>1, <2>2
<1>3. toSend' = toSend /\ handled' = handled
  OBVIOUS
<1> QED
  BY <1>2, <1>3 DEF NothingTwice

\* What is apart from both pieces of an event has none of them.
LEMMA ApartBut ==
    ASSUME NEW u \in Urcs, NEW c \in Seq(Pieces), NEW i \in DOMAIN c, NEW j \in DOMAIN c,
           c[i].line = Urc(u), c[i].part = "tail", c[j].line = Urc(u), c[j].part # "tail",
           NEW z \in Seq(Pieces), Apart(c, z)
    PROVE  Without(z, u)
<1> SUFFICES ASSUME NEW m \in DOMAIN z, z[m].line = Urc(u) PROVE FALSE
  <2>1. \A m \in DOMAIN z : z[m] \in Pieces
    BY LenProperties, ElementOfSeq
  <2>2. ASSUME \A m \in DOMAIN z : z[m].line # Urc(u) PROVE \A m \in DOMAIN z : z[m] \in PiecesBut(u)
    BY <2>1, <2>2 DEF PiecesBut
  <2> QED
    BY <2>2, Over DEF Without
<1>1. z[m] \in Pieces /\ c[i] \in Pieces /\ c[j] \in Pieces
  BY LenProperties, ElementOfSeq
<1>2. \A p \in Pieces : /\ p = [line |-> p.line, part |-> p.part] /\ p.part \in {"head", "tail"}
  BY DEF Pieces
<1>3. c[i] = [line |-> Urc(u), part |-> "tail"] /\ c[j] = [line |-> Urc(u), part |-> "head"]
  BY <1>1, <1>2
<1>4. z[m] = c[i] \/ z[m] = c[j]
  BY <1>1, <1>2, <1>3
<1>5. c[i].line.kind = "urc" /\ c[j].line.kind = "urc"
  BY DEF Urc
<1> QED
  BY <1>4, <1>5 DEF Apart

\* The event that lineHandle is given was not given before, and is nowhere any more.
LEMMA HandleTwice ==
    ASSUME PortTypeOK, PortTypeOK', NothingTwice, NEW r \in Readers, Handle(r),
           UNCHANGED <<toSend, wire, buffer, chunk>>
    PROVE  NothingTwice'
<1>1. PICK i \in Unsolicited(held[r]), c, d \in Seq(Pieces) :
         /\ First(i, Unsolicited(held[r])) /\ held[r] = c \o d /\ Len(c) = i
         /\ c = SubSeq(held[r], 1, i) /\ d = SubSeq(held[r], i + 1, Len(held[r]))
         /\ held' = [held EXCEPT ![r] = d]
         /\ held[r][i].line.of \in Urcs /\ held[r][i].line = Urc(held[r][i].line.of)
         /\ handled' = [handled EXCEPT ![held[r][i].line.of] = @ + 1]
  BY HandleType
<1>2. PICK v \in Urcs : held[r][i].line = Urc(v) /\ handled' = [handled EXCEPT ![v] = @ + 1]
  BY <1>1
<1>3. Takes(r, <<>>) /\ Got(r) = c \o Got(r)' /\ Got(r)' \in Seq(Pieces)
  BY <1>1, DropTakes
<1>4. PiecesOnce
  BY DEF NothingTwice
<1>5. PiecesOnce' /\ \A u : Gone(u) => Gone(u)'
  BY <1>3, <1>4, TakesKeeps, EmptySeq
<1>6. /\ i \in DOMAIN c /\ i - 1 \in DOMAIN c /\ c[i] = held[r][i] /\ c[i - 1] = held[r][i - 1]
      /\ c[i].part = "tail" /\ c[i - 1].part # "tail" /\ c[i - 1].line = c[i].line
  <2>1. /\ i \in DOMAIN held[r] /\ i - 1 \in DOMAIN held[r] /\ held[r][i].part = "tail"
        /\ held[r][i - 1].part # "tail" /\ held[r][i - 1].line = held[r][i].line
    BY DEF Unsolicited, Whole, Ends
  <2>2. held[r] \in Seq(Pieces) /\ i \in 0..Len(held[r])
    <3>1. held[r] \in Seq(Pieces)
      BY DEF PortTypeOK, Readers
    <3>2. Len(held[r]) \in Nat /\ DOMAIN held[r] = 1..Len(held[r])
      BY <3>1, LenProperties
    <3> QED
      BY <2>1, <3>1, <3>2
  <2>3. \A j \in 1..i : c[j] = held[r][j]
    <3>1. \A j \in 1..i : SubSeq(held[r], 1, i)[j] = held[r][j]
      BY <2>2, Cut
    <3> QED
      BY <1>1, <3>1
  <2>4. DOMAIN c = 1..i
    BY <1>1, LenProperties
  <2>5. DOMAIN held[r] = 1..Len(held[r])
    BY <2>2, LenProperties
  <2>6. i \in 1..i /\ i - 1 \in 1..i
    BY <2>1, <2>2, <2>5
  <2> QED
    BY <2>1, <2>3, <2>4, <2>6
<1>7. c[i].line = Urc(v) /\ c[i - 1].line = Urc(v)
  BY <1>2, <1>6
<1>8. \A z \in Seq(Pieces) : Apart(c, z) => Without(z, v)
  BY <1>2, <1>6, <1>7, ApartBut
<1>9. \A q \in Readers : Got(q) \in Seq(Pieces) /\ (q # r => Got(q)' = Got(q))
  <2> SUFFICES ASSUME NEW q \in Readers PROVE Got(q) \in Seq(Pieces)
    BY <1>3 DEF Takes
  <2>1. held[q] \in Seq(Pieces) /\ buffer[q] \in Seq(Pieces) /\ chunk \in Seq(Pieces)
    BY DEF PortTypeOK, Readers
  <2> QED
    BY <2>1, GotType DEF Got
<1>10. Gone(v)'
  <2> DEFINE g == Got(r)
             h == Got(r)'
  <2>1. g = c \o h /\ h \in Seq(Pieces) /\ Once(g)
    BY <1>3, <1>4 DEF PiecesOnce
  <2>2. /\ wire \in Seq(Pieces) /\ Apart(g, wire)
        /\ \A q \in Readers : q # r => Apart(g, Got(q))
    BY <1>4 DEF PiecesOnce, PortTypeOK
  <2> HIDE DEF g, h
  <2>3. Apart(c, h)
    BY <2>1, OnceJoined
  <2>4. Apart(c, wire)
    BY <2>1, <2>2, ApartJoined
  <2>5. \A q \in Readers : q # r => Apart(c, Got(q))
    <3> SUFFICES ASSUME NEW q \in Readers, q # r PROVE Apart(c, Got(q))
      OBVIOUS
    <3> DEFINE o == Got(q)
    <3>1. o \in Seq(Pieces) /\ Apart(g, o)
      BY <1>9, <2>2
    <3> HIDE DEF o
    <3>2. Apart(c, o)
      BY <2>1, <3>1, ApartJoined
    <3> QED
      BY <3>2 DEF o
  <2>6. Without(wire', v)
    BY <1>8, <2>2, <2>4
  <2>7. Without(h, v)
    BY <1>8, <2>1, <2>3
  <2>8. \A q \in Readers : Without(Got(q)', v)
    <3>1. \A q \in Readers : q # r => Without(Got(q), v)
      BY <1>8, <1>9, <2>5
    <3> QED
      BY <1>9, <2>7, <3>1 DEF h
  <2> QED
    BY <2>6, <2>8 DEF Gone
<1>11. ~Gone(v)
  <2>1. SUFFICES ASSUME Without(Got(r), v) PROVE FALSE
    BY DEF Gone
  <2> DEFINE h == Got(r)'
  <2>2. c \o h \in Seq(PiecesBut(v)) /\ h \in Seq(Pieces)
    BY <1>3, <2>1 DEF Without
  <2> HIDE DEF h
  <2>3. c \in Seq(PiecesBut(v))
    BY <2>2, OverJoined
  <2>4. c[i] \in PiecesBut(v)
    <3> DEFINE P == PiecesBut(v)
    <3>1. c \in Seq(P)
      BY <2>3
    <3> HIDE DEF P
    <3>2. c[i] \in P
      BY <1>6, <3>1, LenProperties, ElementOfSeq
    <3> QED
      BY <3>2 DEF P
  <2> QED
    BY <1>7, <2>4 DEF PiecesBut
<1>12. v \notin toSend /\ handled[v] = 0
  BY <1>2, <1>11 DEF NothingTwice
<1>13. handled'[v] = 1 /\ \A u \in Urcs : u # v => handled'[u] = handled[u]
  BY <1>2, <1>12 DEF PortTypeOK
<1>14. toSend' = toSend
  OBVIOUS
<1> QED
  BY <1>5, <1>10, <1>12, <1>13, <1>14 DEF NothingTwice

\* What the modem sends is nowhere yet.
LEMMA SendsTwice ==
    ASSUME PortTypeOK, PiecesOnce, NEW t \in Seq(Pieces), wire' = wire \o t, Once(t),
           Apart(wire, t), \A r \in Readers : Apart(Got(r), t), UNCHANGED <<held, buffer, chunk>>
    PROVE  PiecesOnce' /\ \A u : Gone(u) /\ Without(t, u) => Gone(u)'
<1>1. wire \in Seq(Pieces) /\ \A r : Got(r)' = Got(r)
  BY DEF PortTypeOK, Got
<1>2. \A r \in Readers : Got(r) \in Seq(Pieces)
  <2> SUFFICES ASSUME NEW q \in Readers PROVE Got(q) \in Seq(Pieces)
    OBVIOUS
  <2>1. held[q] \in Seq(Pieces) /\ buffer[q] \in Seq(Pieces) /\ chunk \in Seq(Pieces)
    BY DEF PortTypeOK, Readers
  <2> QED
    BY <2>1, GotType DEF Got
<1>3. Once(wire \o t)
  BY <1>1, OnceJoined DEF PiecesOnce
<1>4. ASSUME NEW r \in Readers PROVE Apart(Got(r), wire \o t)
  <2> DEFINE g == Got(r)
  <2>1. g \in Seq(Pieces) /\ Apart(g, wire) /\ Apart(g, t)
    BY <1>2, <1>4 DEF PiecesOnce
  <2> HIDE DEF g
  <2>2. Apart(g, wire \o t)
    BY <1>1, <2>1, ApartJoined
  <2> QED
    BY <2>2 DEF g
<1>5. PiecesOnce'
  BY <1>1, <1>3, <1>4 DEF PiecesOnce
<1>6. ASSUME NEW u, Gone(u), Without(t, u) PROVE Gone(u)'
  <2>1. Without(wire', u)
    <3> DEFINE P == PiecesBut(u)
    <3>1. wire \in Seq(P) /\ t \in Seq(P)
      BY <1>6 DEF Gone, Without
    <3> HIDE DEF P
    <3>2. wire \o t \in Seq(P)
      BY <3>1, ConcatProperties
    <3> QED
      BY <3>2 DEF P, Without
  <2> QED
    BY <1>1, <1>6, <2>1 DEF Gone
<1> QED
  BY <1>5, <1>6

LEMMA EventTwice ==
    ASSUME PortTypeOK, NothingTwice, NEW u \in Urcs, ModemEvent(u)
    PROVE  NothingTwice'
<1> DEFINE t == Line("urc", u)
<1>1. /\ u \in toSend /\ toSend' = toSend \ {u} /\ wire' = wire \o t
      /\ UNCHANGED <<held, buffer, chunk, handled>>
  BY DEF ModemEvent, readers
<1>2. t \in Seq(Pieces)
  BY PiecesType
<1>3. /\ DOMAIN t = {1, 2} /\ t[1].line = Urc(u) /\ t[2].line = Urc(u)
      /\ t[1].part = "head" /\ t[2].part = "tail"
  BY DEF Line, Piece, Urc
<1>4. PiecesOnce /\ Gone(u) /\ handled[u] = 0
  BY <1>1 DEF NothingTwice
<1> HIDE DEF t
<1>5. Once(t)
  BY <1>3 DEF Once
<1>6. \A s : Without(s, u) => Apart(s, t)
  <2> SUFFICES ASSUME NEW s, Without(s, u), NEW i \in DOMAIN s, NEW j \in DOMAIN t, s[i] = t[j]
               PROVE  FALSE
    BY DEF Apart
  <2> DEFINE P == PiecesBut(u)
  <2>1. s \in Seq(P)
    BY DEF Without
  <2> HIDE DEF P
  <2>2. s[i] \in P
    BY <2>1, LenProperties, ElementOfSeq
  <2> QED
    BY <1>3, <2>2 DEF P, PiecesBut
<1>7. \A w : w # u => Without(t, w)
  <2> SUFFICES ASSUME NEW w, w # u PROVE Without(t, w)
    OBVIOUS
  <2>1. \A i \in DOMAIN t : t[i] \in Pieces
    BY <1>2, LenProperties, ElementOfSeq
  <2>2. Urc(u) # Urc(w)
    BY DEF Urc
  <2>3. \A i \in DOMAIN t : t[i] \in PiecesBut(w)
    BY <1>3, <2>1, <2>2 DEF PiecesBut
  <2> QED
    BY <1>2, <2>3, Over DEF Without
<1>8. Apart(wire, t) /\ \A r \in Readers : Apart(Got(r), t)
  BY <1>4, <1>6 DEF Gone
<1>9. PiecesOnce' /\ \A w : Gone(w) /\ Without(t, w) => Gone(w)'
  BY <1>1, <1>2, <1>4, <1>5, <1>8, SendsTwice
<1>10. \A w : w # u /\ Gone(w) => Gone(w)'
  BY <1>7, <1>9
<1>11. handled' = handled /\ u \notin toSend' /\ \A w \in Urcs : w # u => (w \in toSend' <=> w \in toSend)
  BY <1>1
<1> QED
  BY <1>4, <1>9, <1>10, <1>11 DEF NothingTwice

LEMMA AnswersTwice ==
    ASSUME PortTypeOK, NothingTwice, ModemProcesses
    PROVE  NothingTwice'
<1>1. UNCHANGED <<toSend, held, buffer, chunk, handled>>
  BY DEF ModemProcesses, readers
<1>2. \/ wire' = wire
      \/ \E k \in Commands, kind \in {"ok", "error"} : wire' = wire \o Line(kind, k)
      \/ \E k \in Submissions : wire' = Append(wire, Piece("prompt", k, "head"))
  <2>1. prompting # NoOne => prompting \in Commands
    BY DEF PortTypeOK, Commands
  <2> QED
    BY <2>1 DEF ModemProcesses, Answers, Swallows, TakesBody, Commands
<1>3. wire' = wire \/ \E t \in Seq(Pieces) : /\ wire' = wire \o t
                                             /\ \A i \in DOMAIN t : t[i].line.kind # "urc"
  <2>1. ASSUME NEW k \in Commands, NEW kind \in {"ok", "error"}, wire' = wire \o Line(kind, k)
        PROVE  \E t \in Seq(Pieces) : wire' = wire \o t /\ \A i \in DOMAIN t : t[i].line.kind # "urc"
    <3>1. Line(kind, k) \in Seq(Pieces)
      BY PiecesType
    <3>2. \A i \in DOMAIN Line(kind, k) : Line(kind, k)[i].line.kind # "urc"
      BY DEF Line, Piece
    <3> QED
      BY <2>1, <3>1, <3>2
  <2>2. ASSUME NEW k \in Submissions, wire' = Append(wire, Piece("prompt", k, "head"))
        PROVE  \E t \in Seq(Pieces) : wire' = wire \o t /\ \A i \in DOMAIN t : t[i].line.kind # "urc"
    <3> DEFINE p == Piece("prompt", k, "head")
    <3>1. p \in Pieces /\ wire \in Seq(Pieces)
      BY PiecesType DEF PortTypeOK
    <3>2. p.line.kind # "urc"
      BY DEF Piece
    <3> HIDE DEF p
    <3>3. Append(wire, p) = wire \o <<p>> /\ <<p>> \in Seq(Pieces)
      BY <3>1, AppendIsConcat
    <3>4. \A i \in DOMAIN <<p>> : <<p>>[i].line.kind # "urc"
      BY <3>2
    <3>5. wire' = wire \o <<p>>
      BY <2>2, <3>3 DEF p
    <3> QED
      BY <3>3, <3>4, <3>5
  <2> QED
    BY <1>2, <2>1, <2>2
<1>4. CASE wire' = wire
  BY <1>1, <1>4, TakesTwice, ModemType
<1>5. ASSUME NEW t \in Seq(Pieces), wire' = wire \o t, \A i \in DOMAIN t : t[i].line.kind # "urc"
      PROVE  NothingTwice'
  <2>1. Once(t) /\ \A s : Apart(s, t)
    BY <1>5 DEF Once, Apart
  <2>2. PiecesOnce' /\ \A u : Gone(u) /\ Without(t, u) => Gone(u)'
    BY <1>1, <1>5, <2>1, SendsTwice DEF NothingTwice
  <2>3. \A u : Without(t, u)
    <3> SUFFICES ASSUME NEW u PROVE Without(t, u)
      OBVIOUS
    <3>1. \A i \in DOMAIN t : t[i] \in Pieces
      BY LenProperties, ElementOfSeq
    <3>2. Urc(u).kind = "urc"
      BY DEF Urc
    <3>3. \A i \in DOMAIN t : t[i] \in PiecesBut(u)
      BY <1>5, <3>1, <3>2 DEF PiecesBut
    <3> QED
      BY <3>3, Over DEF Without
  <2>4. toSend' = toSend /\ handled' = handled
    BY <1>1
  <2> QED
    BY <2>2, <2>3, <2>4 DEF NothingTwice
<1> QED
  BY <1>3, <1>4, <1>5

LEMMA TwiceStep ==
    ASSUME PortTypeOK, NothingTwice, [PortNext]_portVars
    PROVE  NothingTwice'
<1>0. PortTypeOK'
  BY TypeStep
<1>1. CASE UNCHANGED portVars
  BY <1>0, <1>1, TakesTwice DEF portVars, modem, readers
<1>2. CASE (\E u \in Urcs : ModemEvent(u)) \/ ModemProcesses
  BY <1>2, EventTwice, AnswersTwice
<1>3. ASSUME NEW r \in Readers, Handle(r), UNCHANGED <<toSend, wire, buffer, chunk>>
      PROVE  NothingTwice'
  BY <1>0, <1>3, HandleTwice
<1>4. ASSUME NEW k \in Commands, Command(k) PROVE NothingTwice'
  <2>1. CASE Dispatch(k) /\ Handle(k)
    BY <1>3, <2>1, NoOneApart DEF Dispatch, modem
  <2>2. CASE ~(Dispatch(k) /\ Handle(k))
    <3>1. UNCHANGED <<toSend, handled>>
      BY <1>4, <2>2 DEF Command, Begin, Refused, GiveUp, Dispatch, ReadPrompt, ReadFinal, Reads,
                        modem, readers
    <3>2. \/ UNCHANGED <<wire, held, buffer, chunk>>
          \/ \E r \in Readers, a \in Seq(Pieces) : Takes(r, a)
      BY <1>0, <1>4, ReaderTakes
    <3> QED
      BY <1>0, <3>1, <3>2, TakesTwice
  <2> QED
    BY <2>1, <2>2
<1>5. CASE Run
  <2>1. CASE PollHandle
    BY <1>3, <2>1, NoOneApart DEF PollHandle, modem
  <2>2. CASE ~PollHandle
    <3>1. UNCHANGED <<toSend, handled>>
      BY <1>5, <2>2 DEF Run, PollRead, PollFeed, modem
    <3>2. \/ UNCHANGED <<wire, held, buffer, chunk>>
          \/ \E r \in Readers, a \in Seq(Pieces) : Takes(r, a)
      BY <1>0, <1>5, ReaderTakes
    <3> QED
      BY <1>0, <3>1, <3>2, TakesTwice
  <2> QED
    BY <2>1, <2>2
<1> QED
  BY <1>1, <1>2, <1>4, <1>5 DEF PortNext

-----------------------------------------------------------------------------
(* Until a command begins no event is lost.                                *)

LEMMA WholeLine ==
    /\ \A p \in Pieces : /\ HeadOf(p).line = p.line /\ TailOf(p).line = p.line
                         /\ ~Closes(HeadOf(p)) /\ Closes(TailOf(p))
                         /\ ~Closes(p) => p = HeadOf(p)
                         /\ Closes(p) => p = TailOf(p)
                         /\ HeadOf(TailOf(p)) = HeadOf(p) /\ TailOf(HeadOf(p)) = TailOf(p)
  BY DEF HeadOf, TailOf, Closes, Pieces

LEMMA LinedConcat ==
    ASSUME NEW s \in Seq(Pieces), NEW t \in Seq(Pieces), Lined(s), Lined(t)
    PROVE  Lined(s \o t)
<1> DEFINE st == s \o t
           n == Len(s)
<1>1. /\ n \in Nat /\ DOMAIN s = 1..n /\ DOMAIN t = 1..Len(t) /\ Len(t) \in Nat
      /\ \A i \in DOMAIN s : i \in DOMAIN st /\ st[i] = s[i]
      /\ \A j \in DOMAIN t : n + j \in DOMAIN st /\ st[n + j] = t[j]
      /\ \A i \in DOMAIN st : i \in DOMAIN s \/ \E j \in DOMAIN t : i = n + j
  BY Joined
<1> HIDE DEF st, n
<1> SUFFICES ASSUME NEW i \in DOMAIN st
             PROVE  /\ st[i].line.kind = "urc"
                    /\ ~Closes(st[i]) => i + 1 \in DOMAIN st /\ st[i + 1] = TailOf(st[i])
                    /\ Closes(st[i]) => i - 1 \in DOMAIN st /\ st[i - 1] = HeadOf(st[i])
  BY DEF Lined, st
<1>2. CASE i \in DOMAIN s
  BY <1>1, <1>2 DEF Lined
<1>3. ASSUME NEW j \in DOMAIN t, i = n + j
      PROVE  /\ st[i].line.kind = "urc"
             /\ ~Closes(st[i]) => i + 1 \in DOMAIN st /\ st[i + 1] = TailOf(st[i])
             /\ Closes(st[i]) => i - 1 \in DOMAIN st /\ st[i - 1] = HeadOf(st[i])
  <2>1. /\ t[j].line.kind = "urc"
        /\ ~Closes(t[j]) => j + 1 \in DOMAIN t /\ t[j + 1] = TailOf(t[j])
        /\ Closes(t[j]) => j - 1 \in DOMAIN t /\ t[j - 1] = HeadOf(t[j])
    BY DEF Lined
  <2>2. st[i] = t[j]
    BY <1>1, <1>3
  <2>3. i + 1 = n + (j + 1) /\ i - 1 = n + (j - 1)
    BY <1>1, <1>3
  <2>4. j + 1 \in DOMAIN t => i + 1 \in DOMAIN st /\ st[i + 1] = t[j + 1]
    BY <1>1, <2>3
  <2>5. j - 1 \in DOMAIN t => i - 1 \in DOMAIN st /\ st[i - 1] = t[j - 1]
    BY <1>1, <2>3
  <2> QED
    BY <2>1, <2>2, <2>4, <2>5
<1> QED
  BY <1>1, <1>2, <1>3

\* A cut after the end of a line.
LEMMA LinedCut ==
    ASSUME NEW s \in Seq(Pieces), NEW t \in Seq(Pieces), Lined(s \o t),
           s = <<>> \/ s[Len(s)].part = "tail"
    PROVE  Lined(s) /\ Lined(t)
<1> DEFINE st == s \o t
           n == Len(s)
<1>1. /\ n \in Nat /\ DOMAIN s = 1..n /\ DOMAIN t = 1..Len(t) /\ Len(t) \in Nat
      /\ \A i \in DOMAIN s : i \in DOMAIN st /\ st[i] = s[i]
      /\ \A j \in DOMAIN t : n + j \in DOMAIN st /\ st[n + j] = t[j]
      /\ \A i \in DOMAIN st : i \in DOMAIN s \/ \E j \in DOMAIN t : i = n + j
      /\ DOMAIN st = 1..(n + Len(t))
  BY Joined
<1>2. n = 0 \/ (n \in DOMAIN s /\ Closes(s[n]))
  <2>1. s = <<>> => n = 0
    BY EmptySeq
  <2>2. n # 0 => n \in DOMAIN s
    BY <1>1
  <2> QED
    BY <2>1, <2>2 DEF Closes
<1>3. \A p : Closes(TailOf(p)) /\ ~Closes(HeadOf(p))
  BY DEF Closes, TailOf, HeadOf
<1>4. Lined(st)
  OBVIOUS
<1> HIDE DEF st, n
<1>5. Lined(s)
  <2> SUFFICES ASSUME NEW i \in DOMAIN s
               PROVE  /\ s[i].line.kind = "urc"
                      /\ ~Closes(s[i]) => i + 1 \in DOMAIN s /\ s[i + 1] = TailOf(s[i])
                      /\ Closes(s[i]) => i - 1 \in DOMAIN s /\ s[i - 1] = HeadOf(s[i])
    BY DEF Lined
  <2>1. i \in DOMAIN st /\ st[i] = s[i]
    BY <1>1
  <2>2. /\ s[i].line.kind = "urc"
        /\ ~Closes(s[i]) => i + 1 \in DOMAIN st /\ st[i + 1] = TailOf(s[i])
        /\ Closes(s[i]) => i - 1 \in DOMAIN st /\ st[i - 1] = HeadOf(s[i])
    BY <1>4, <2>1 DEF Lined
  <2>3. ~Closes(s[i]) => i + 1 \in DOMAIN s
    <3>1. ~Closes(s[i]) => i # n
      BY <1>1, <1>2
    <3> QED
      BY <1>1, <3>1
  <2>4. i - 1 \in DOMAIN st => i - 1 \in DOMAIN s
    BY <1>1
  <2> QED
    BY <1>1, <2>2, <2>3, <2>4
<1>6. Lined(t)
  <2> SUFFICES ASSUME NEW j \in DOMAIN t
               PROVE  /\ t[j].line.kind = "urc"
                      /\ ~Closes(t[j]) => j + 1 \in DOMAIN t /\ t[j + 1] = TailOf(t[j])
                      /\ Closes(t[j]) => j - 1 \in DOMAIN t /\ t[j - 1] = HeadOf(t[j])
    BY DEF Lined
  <2>1. n + j \in DOMAIN st /\ st[n + j] = t[j]
    BY <1>1
  <2>2. /\ t[j].line.kind = "urc"
        /\ ~Closes(t[j]) => (n + j) + 1 \in DOMAIN st /\ st[(n + j) + 1] = TailOf(t[j])
        /\ Closes(t[j]) => (n + j) - 1 \in DOMAIN st /\ st[(n + j) - 1] = HeadOf(t[j])
    BY <1>4, <2>1 DEF Lined
  <2>3. (n + j) + 1 = n + (j + 1) /\ (n + j) - 1 = n + (j - 1)
    BY <1>1
  <2>4. ~Closes(t[j]) => j + 1 \in DOMAIN t /\ t[j + 1] = TailOf(t[j])
    <3>1. (n + j) + 1 \in DOMAIN st => j + 1 \in DOMAIN t
      BY <1>1
    <3> QED
      BY <1>1, <2>2, <2>3, <3>1
  <2>5. Closes(t[j]) => j - 1 \in DOMAIN t /\ t[j - 1] = HeadOf(t[j])
    <3> SUFFICES ASSUME Closes(t[j]) PROVE j - 1 \in DOMAIN t /\ t[j - 1] = HeadOf(t[j])
      OBVIOUS
    <3>1. (n + j) - 1 \in DOMAIN st /\ st[(n + j) - 1] = HeadOf(t[j])
      BY <2>2
    <3>2. CASE j = 1
      <4>1. (n + j) - 1 = n /\ n # 0
        BY <1>1, <3>1, <3>2
      <4>2. Closes(st[n])
        BY <1>1, <1>2, <4>1
      <4> QED
        BY <1>3, <3>1, <4>1, <4>2
    <3>3. CASE j # 1
      <4>1. j - 1 \in DOMAIN t
        BY <1>1, <3>3
      <4> QED
        BY <1>1, <2>3, <3>1, <4>1
    <3> QED
      BY <3>2, <3>3
  <2> QED
    BY <2>2, <2>4, <2>5
<1> QED
  BY <1>5, <1>6

\* What is lined and not empty begins with a whole line.
LEMMA LinedFirst ==
    ASSUME NEW h \in Seq(Pieces), Lined(h), h # <<>>
    PROVE  /\ 1 \in DOMAIN h /\ 2 \in DOMAIN h /\ h[1].line = h[2].line /\ 2 \in Unsolicited(h)
<1>1. DOMAIN h = 1..Len(h) /\ Len(h) \in Nat /\ Len(h) # 0
  BY LenProperties, EmptySeq
<1>2. 1 \in DOMAIN h /\ 0 \notin DOMAIN h /\ 1 - 1 = 0 /\ 1 + 1 = 2 /\ 2 - 1 = 1 /\ 2 - 2 = 0
  BY <1>1
<1>3. ~Closes(h[1]) /\ 2 \in DOMAIN h /\ h[2] = TailOf(h[1])
  BY <1>2 DEF Lined
<1>4. h[2].line = h[1].line /\ Closes(h[2])
  BY <1>3 DEF TailOf, Closes
<1>5. 2 \in Ends(h) /\ 1 \notin Ends(h)
  BY <1>3, <1>4 DEF Closes, Ends
<1>6. Whole(h, 2)
  BY <1>2, <1>4, <1>5 DEF Whole
<1>7. h[2].line.kind = "urc"
  BY <1>3 DEF Lined
<1> QED
  BY <1>2, <1>3, <1>4, <1>5, <1>6, <1>7 DEF Unsolicited

\* Each piece of what is lined is of a line that ends in it.
LEMMA LinedEnds ==
    ASSUME NEW h \in Seq(Pieces), Lined(h), NEW i \in DOMAIN h
    PROVE  \E j \in Unsolicited(h) : h[j].line = h[i].line
<1>0. DOMAIN h = 1..Len(h) /\ Len(h) \in Nat
  BY LenProperties
<1>1. PICK j \in DOMAIN h : Closes(h[j]) /\ h[j].line = h[i].line
  <2>1. CASE Closes(h[i])
    BY <2>1
  <2>2. CASE ~Closes(h[i])
    <3>1. i + 1 \in DOMAIN h /\ h[i + 1] = TailOf(h[i])
      BY <2>2 DEF Lined
    <3>2. Closes(TailOf(h[i])) /\ TailOf(h[i]).line = h[i].line
      BY DEF TailOf, Closes
    <3> QED
      BY <3>1, <3>2
  <2> QED
    BY <2>1, <2>2
<1>2. j - 1 \in DOMAIN h /\ h[j - 1] = HeadOf(h[j]) /\ h[j].line.kind = "urc"
  BY <1>1 DEF Lined
<1>3. ~Closes(h[j - 1]) /\ h[j - 1].line = h[j].line
  BY <1>2 DEF HeadOf, Closes
<1>4. j - 2 = 0 \/ (j - 2 \in DOMAIN h /\ Closes(h[j - 2]))
  <2> DEFINE m == j - 2
  <2>1. m = 0 \/ m \in DOMAIN h
    BY <1>0, <1>2
  <2>2. m + 1 = j - 1
    BY <1>0
  <2> HIDE DEF m
  <2>3. ASSUME m \in DOMAIN h, ~Closes(h[m]) PROVE FALSE
    <3>1. h[m + 1] = TailOf(h[m])
      BY <2>3 DEF Lined
    <3>2. Closes(TailOf(h[m]))
      BY DEF TailOf, Closes
    <3> QED
      BY <1>3, <2>2, <3>1, <3>2
  <2>4. m = 0 \/ (m \in DOMAIN h /\ Closes(h[m]))
    BY <2>1, <2>3
  <2> QED
    BY <2>4 DEF m
<1>5. j \in Ends(h) /\ j - 1 \in DOMAIN h \ Ends(h) /\ j - 2 \in {0} \union Ends(h)
  BY <1>1, <1>2, <1>3, <1>4 DEF Ends, Closes
<1>6. j \in Unsolicited(h)
  BY <1>2, <1>3, <1>5 DEF Unsolicited, Whole
<1> QED
  BY <1>1, <1>6

LEMMA CommandBusy ==
    ASSUME PortTypeOK, NEW k \in Commands, Command(k)
    PROVE  client'[k] # "idle"
<1>1. client \in [Commands -> {"idle", "prompt", "final", "dispatch", "done"}]
  BY DEF PortTypeOK
<1>2. CASE Begin(k)
  <2>1. client' = [client EXCEPT ![k] = IF k \in Submissions THEN "prompt" ELSE "final"]
    BY <1>2 DEF Begin
  <2>2. client'[k] = IF k \in Submissions THEN "prompt" ELSE "final"
    BY <1>1, <2>1
  <2> QED
    BY <2>2
<1>3. CASE Refused(k) \/ GiveUp(k) \/ Dispatch(k)
  BY <1>1, <1>3 DEF Refused, GiveUp, Dispatch, Stops
<1>4. ASSUME NEW n \in 1..ChunkSize, ReadPrompt(k, n) \/ ReadFinal(k, n) PROVE client'[k] # "idle"
  <2>1. client[k] # "idle"
    BY <1>4 DEF ReadPrompt, ReadFinal
  <2>2. client' = client \/ \E state \in {"final", "dispatch"} : client' = [client EXCEPT ![k] = state]
    BY <1>4 DEF ReadPrompt, ReadFinal, Continues, Stops
  <2> QED
    BY <1>1, <2>1, <2>2
<1> QED
  BY <1>2, <1>3, <1>4 DEF Command

LEMMA WithoutJoined ==
    ASSUME NEW s \in Seq(Pieces), NEW t \in Seq(Pieces), NEW u
    PROVE  Without(s \o t, u) <=> Without(s, u) /\ Without(t, u)
  BY OverJoined DEF Without

LEMMA WithoutNone == \A u : Without(<<>>, u)
  BY EmptySeq DEF Without

\* Some piece of what is not without an event is of that event.
LEMMA NotWithout ==
    ASSUME NEW s \in Seq(Pieces), NEW u
    PROVE  Without(s, u) <=> \A i \in DOMAIN s : s[i].line # Urc(u)
<1>1. \A i \in DOMAIN s : s[i] \in Pieces
  BY LenProperties, ElementOfSeq
<1>2. Without(s, u) <=> \A i \in DOMAIN s : s[i] \in PiecesBut(u)
  BY Over DEF Without
<1> QED
  BY <1>1, <1>2 DEF PiecesBut

LEMMA EventLost ==
    ASSUME PortTypeOK, NothingLost, \A k \in Commands : client[k] = "idle",
           NEW u \in Urcs, ModemEvent(u)
    PROVE  NothingLost'
<1> DEFINE t == Line("urc", u)
           bc == buffer[NoOne] \o chunk
           st == bc \o wire
<1>1. /\ toSend' = toSend \ {u} /\ wire' = wire \o t
      /\ UNCHANGED <<input, held, buffer, chunk, handled>>
  BY DEF ModemEvent, readers
<1>2. t \in Seq(Pieces) /\ wire \in Seq(Pieces) /\ bc \in Seq(Pieces)
  BY PiecesType, ConcatProperties DEF PortTypeOK
<1>3. /\ DOMAIN t = {1, 2} /\ t[1] = Piece("urc", u, "head") /\ t[2] = Piece("urc", u, "tail")
  BY DEF Line
<1>4. Stream' = bc \o (wire \o t) /\ Stream = st
  BY <1>1 DEF Stream
<1>5. /\ input = <<>> /\ Lined(held[NoOne]) /\ Lined(Stream) /\ (chunk # <<>> => held[NoOne] = <<>>)
      /\ \A v \in Urcs : \/ v \in toSend \/ handled[v] = 1
                         \/ ~Without(held[NoOne], v) \/ ~Without(Stream, v)
  BY DEF NothingLost
<1> HIDE DEF t, bc
<1>6. bc \o (wire \o t) = st \o t
  BY <1>2, Regroup, Zenon
<1>7. st \in Seq(Pieces)
  BY <1>2, ConcatProperties
<1> HIDE DEF st
<1>8. Lined(t)
  <2> DEFINE p == Piece("urc", u, "head")
             q == Piece("urc", u, "tail")
  <2>1. /\ p.line.kind = "urc" /\ q.line.kind = "urc" /\ ~Closes(p) /\ Closes(q)
        /\ q = TailOf(p) /\ p = HeadOf(q)
    BY DEF Piece, Closes, TailOf, HeadOf
  <2>2. t[1] = p /\ t[2] = q /\ DOMAIN t = {1, 2}
    BY <1>3
  <2> HIDE DEF p, q
  <2> QED
    BY <2>1, <2>2 DEF Lined
<1>9. Lined(Stream')
  BY <1>2, <1>4, <1>5, <1>6, <1>7, <1>8, LinedConcat
<1>10. ~Without(t, u)
  <2>1. 1 \in DOMAIN t /\ t[1].line = Urc(u)
    BY <1>3 DEF Piece, Urc
  <2> QED
    BY <1>2, <2>1, NotWithout
<1>11. ASSUME NEW v, ~Without(st, v) \/ ~Without(t, v) PROVE ~Without(Stream', v)
  <2>1. ~Without(st \o t, v)
    BY <1>2, <1>7, <1>11, WithoutJoined
  <2> QED
    BY <1>4, <1>6, <2>1
<1>12. \A v \in Urcs : \/ v \in toSend' \/ handled'[v] = 1
                       \/ ~Without(held'[NoOne], v) \/ ~Without(Stream', v)
  BY <1>1, <1>4, <1>5, <1>10, <1>11
<1>13. input' = input /\ held' = held /\ chunk' = chunk
  BY <1>1
<1> QED
  BY <1>5, <1>9, <1>12, <1>13 DEF NothingLost

LEMMA PollReadLost ==
    ASSUME PortTypeOK, NothingLost, \A k \in Commands : client[k] = "idle",
           NEW n \in Nat, PollRead(n)
    PROVE  NothingLost'
<1> DEFINE a == SubSeq(wire, 1, n)
           b == buffer[NoOne]
<1>1. /\ chunk = <<>> /\ chunk' = a /\ Consumes(n) /\ Unsolicited(held[NoOne]) = {}
      /\ input' = input /\ toSend' = toSend /\ buffer' = buffer /\ held' = held /\ handled' = handled
  BY DEF PollRead, modem
<1>2. /\ a \in Seq(Pieces) /\ wire' \in Seq(Pieces) /\ wire = a \o wire' /\ b \in Seq(Pieces)
  BY <1>1, Consuming DEF PortTypeOK
<1>3. Stream = (b \o <<>>) \o wire /\ Stream' = (b \o a) \o wire'
  BY <1>1 DEF Stream
<1> HIDE DEF a, b
<1>4. (b \o a) \o wire' = b \o (a \o wire')
  BY <1>2, Regroup, Zenon
<1>5. b \o <<>> = b
  BY <1>2, JoinedNone
<1>6. Stream' = Stream
  BY <1>2, <1>3, <1>4, <1>5
<1>7. held[NoOne] = <<>>
  <2>1. held[NoOne] \in Seq(Pieces) /\ Lined(held[NoOne])
    BY DEF PortTypeOK, NothingLost
  <2> QED
    BY <1>1, <2>1, LinedFirst
<1> QED
  BY <1>1, <1>6, <1>7 DEF NothingLost

LEMMA PollFeedLost ==
    ASSUME PortTypeOK, NothingLost, \A k \in Commands : client[k] = "idle", PollFeed
    PROVE  NothingLost'
<1>1. PICK c, d \in Seq(Pieces) :
         /\ buffer[NoOne] \o chunk = c \o d
         /\ held' = [held EXCEPT ![NoOne] = c] /\ buffer' = [buffer EXCEPT ![NoOne] = d]
         /\ c = <<>> \/ c[Len(c)].part = "tail"
  BY PollFeedCuts
<1>2. /\ chunk # <<>> /\ chunk' = <<>> /\ input' = input /\ toSend' = toSend /\ wire' = wire
      /\ handled' = handled
  BY DEF PollFeed, modem
<1>3. wire \in Seq(Pieces) /\ held'[NoOne] = c /\ buffer'[NoOne] = d
  BY <1>1 DEF PortTypeOK
<1>4. Stream = (c \o d) \o wire /\ Stream' = (d \o <<>>) \o wire
  BY <1>1, <1>2, <1>3 DEF Stream
<1>5. d \o <<>> = d
  BY JoinedNone
<1>6. (c \o d) \o wire = c \o (d \o wire)
  BY <1>3, Regroup, Zenon
<1> DEFINE dw == d \o wire
<1>7. dw \in Seq(Pieces)
  BY <1>3, ConcatProperties
<1>8. Stream = c \o dw /\ Stream' = dw
  BY <1>4, <1>5, <1>6
<1> HIDE DEF dw
<1>9. held[NoOne] = <<>> /\ Lined(c \o dw) /\ input = <<>>
  BY <1>2, <1>8 DEF NothingLost
<1>10. Lined(c) /\ Lined(dw)
  BY <1>1, <1>7, <1>9, LinedCut
<1>11. ASSUME NEW v \in Urcs
       PROVE  \/ v \in toSend' \/ handled'[v] = 1 \/ ~Without(c, v) \/ ~Without(dw, v)
  <2>1. v \in toSend \/ handled[v] = 1 \/ ~Without(held[NoOne], v) \/ ~Without(Stream, v)
    BY DEF NothingLost
  <2>2. Without(held[NoOne], v)
    BY <1>9, WithoutNone
  <2>3. Without(c \o dw, v) <=> Without(c, v) /\ Without(dw, v)
    BY <1>7, WithoutJoined
  <2> QED
    BY <1>2, <1>8, <2>1, <2>2, <2>3
<1> QED
  BY <1>2, <1>3, <1>8, <1>9, <1>10, <1>11 DEF NothingLost

LEMMA PollHandleLost ==
    ASSUME PortTypeOK, NothingLost, NothingTwice', \A k \in Commands : client[k] = "idle", PollHandle
    PROVE  NothingLost'
<1>1. Handle(NoOne) /\ UNCHANGED <<input, toSend, wire, buffer, chunk>>
  BY DEF PollHandle, modem
<1> DEFINE h == held[NoOne]
<1>2. PICK i \in Unsolicited(h), c, d \in Seq(Pieces) :
         /\ First(i, Unsolicited(h)) /\ h = c \o d /\ Len(c) = i
         /\ c = SubSeq(h, 1, i) /\ d = SubSeq(h, i + 1, Len(h))
         /\ held' = [held EXCEPT ![NoOne] = d]
         /\ h[i].line.of \in Urcs /\ h[i].line = Urc(h[i].line.of)
         /\ handled' = [handled EXCEPT ![h[i].line.of] = @ + 1]
  BY <1>1, NoOneApart, HandleType
<1>3. PICK v \in Urcs : h[i].line = Urc(v) /\ handled' = [handled EXCEPT ![v] = @ + 1]
  BY <1>2
<1>4. h \in Seq(Pieces) /\ Lined(h) /\ held'[NoOne] = d /\ (chunk # <<>> => h = <<>>) /\ input = <<>>
  BY <1>2 DEF PortTypeOK, NothingLost
<1> HIDE DEF h
<1>5. i \in DOMAIN h /\ i - 1 \in DOMAIN h /\ Closes(h[i])
  BY DEF Unsolicited, Ends, Whole, Closes
<1>6. DOMAIN h = 1..Len(h) /\ Len(h) \in Nat
  BY <1>4, LenProperties
<1>7. h # <<>>
  BY <1>5, <1>6, EmptySeq
<1>8. 2 \in Unsolicited(h) /\ h[1].line = h[2].line
  BY <1>4, <1>7, LinedFirst
<1>9. i = 2
  <2>1. i <= 2
    BY <1>2, <1>8 DEF First
  <2> QED
    BY <1>5, <1>6, <2>1
<1>10. DOMAIN c = {1, 2} /\ c[1] = h[1] /\ c[2] = h[2] /\ Len(c) = 2
  <2>1. i \in 0..Len(h)
    BY <1>5, <1>6
  <2>2. \A j \in 1..i : c[j] = h[j]
    <3>1. \A j \in 1..i : SubSeq(h, 1, i)[j] = h[j]
      BY <1>4, <2>1, Cut
    <3> QED
      BY <1>2, <3>1
  <2>3. DOMAIN c = 1..2
    <3>1. Len(c) = 2
      BY <1>2, <1>9
    <3> QED
      BY <3>1, LenProperties
  <2>4. Len(c) = 2
    BY <1>2, <1>9
  <2>5. c[1] = h[1] /\ c[2] = h[2]
    <3>1. 1 \in 1..i /\ 2 \in 1..i
      BY <1>9
    <3> QED
      BY <2>2, <3>1
  <2>6. 1..2 = {1, 2}
    OBVIOUS
  <2> QED
    BY <2>3, <2>4, <2>5, <2>6
<1>11. Lined(d)
  <2>1. c[Len(c)].part = "tail" /\ Lined(c \o d)
    BY <1>2, <1>4, <1>5, <1>9, <1>10 DEF Closes
  <2> QED
    BY <2>1, LinedCut
<1>12. chunk = <<>>
  BY <1>4, <1>7
<1>13. \A w : w # v => Without(c, w)
  <2>1. \A w : w # v => Urc(v) # Urc(w)
    BY DEF Urc
  <2>2. c[1].line = Urc(v) /\ c[2].line = Urc(v)
    BY <1>3, <1>8, <1>9, <1>10
  <2> QED
    BY <1>10, <2>1, <2>2, NotWithout
<1>14. Stream' = Stream
  BY <1>1 DEF Stream
<1>15. handled'[v] = 1
  <2>1. handled'[v] = handled[v] + 1 /\ handled[v] \in Nat
    BY <1>3 DEF PortTypeOK
  <2>2. handled'[v] = 0 \/ handled'[v] = 1
    BY DEF NothingTwice
  <2> QED
    BY <2>1, <2>2
<1>16. ASSUME NEW w \in Urcs, w # v
       PROVE  \/ w \in toSend' \/ handled'[w] = 1 \/ ~Without(d, w) \/ ~Without(Stream', w)
  <2>1. w \in toSend \/ handled[w] = 1 \/ ~Without(h, w) \/ ~Without(Stream, w)
    BY DEF NothingLost, h
  <2>2. handled'[w] = handled[w]
    BY <1>3, <1>16 DEF PortTypeOK
  <2>3. Without(h, w) <=> Without(c, w) /\ Without(d, w)
    BY <1>2, WithoutJoined
  <2> QED
    BY <1>1, <1>13, <1>14, <1>16, <2>1, <2>2, <2>3
<1>17. Lined(Stream)
  BY DEF NothingLost
<1> QED
  BY <1>1, <1>4, <1>11, <1>12, <1>14, <1>15, <1>16, <1>17 DEF NothingLost

LEMMA LostStep ==
    ASSUME PortTypeOK, NothingLost, NothingTwice', [PortNext]_portVars
    PROVE  NothingLost'
<1> SUFFICES ASSUME \A k \in Commands : client'[k] = "idle" PROVE NothingLost'
  BY DEF NothingLost
<1>1. \A k \in Commands : ~Command(k)
  BY CommandBusy
<1>2. client' = client
  BY <1>1 DEF PortNext, ModemEvent, ModemProcesses, Run, PollRead, PollFeed, PollHandle, portVars
<1>3. \A k \in Commands : client[k] = "idle"
  BY <1>2
<1>4. CASE \E u \in Urcs : ModemEvent(u)
  BY <1>3, <1>4, EventLost
<1>5. ~ModemProcesses
  BY <1>3 DEF ModemProcesses, NothingLost
<1>6. CASE Run
  <2>1. ASSUME NEW n \in 1..ChunkSize, PollRead(n) PROVE NothingLost'
    <3>1. n \in Nat
      BY PortConstants
    <3> QED
      BY <1>3, <2>1, <3>1, PollReadLost
  <2> QED
    BY <1>3, <1>6, <2>1, PollFeedLost, PollHandleLost DEF Run
<1>7. CASE UNCHANGED portVars
  BY <1>7 DEF portVars, modem, readers, NothingLost, Stream
<1> QED
  BY <1>1, <1>4, <1>5, <1>6, <1>7 DEF PortNext

-----------------------------------------------------------------------------
(* The theorems about the port.                                            *)

LEMMA PortStarts == PortInit => PortInv
<1> SUFFICES ASSUME PortInit PROVE PortInv
  OBVIOUS
<1>1. PortTypeOK
  BY PortConstants, EmptySeq DEF PortInit, PortTypeOK
<1>2. PortIsHeld
  BY NoOneApart, NoEnds DEF PortInit, PortIsHeld, Reading, Readers
<1>3. InStep
  BY EmptySeq DEF PortInit, InStep, Settled, Quiet, Reading
<1>4. DOMAIN <<>> = {} /\ <<>> \o <<>> = <<>>
  BY JoinedNone, EmptySeq
<1>5. \A r \in Readers : Got(r) = <<>>
  BY <1>4 DEF PortInit, Got, Readers
<1>6. NothingTwice
  <2>1. PiecesOnce
    BY <1>4, <1>5 DEF PortInit, PiecesOnce, Once, Apart
  <2>2. \A u \in Urcs : Gone(u)
    BY <1>5, WithoutNone DEF PortInit, Gone
  <2> QED
    BY <2>1, <2>2 DEF PortInit, NothingTwice
<1>7. NothingLost
  <2>1. Lined(<<>>)
    BY <1>4 DEF Lined
  <2>2. Stream = <<>> /\ held[NoOne] = <<>>
    BY <1>4 DEF PortInit, Stream
  <2> QED
    BY <2>1, <2>2 DEF PortInit, NothingLost
<1> QED
  BY <1>1, <1>2, <1>3, <1>6, <1>7 DEF PortInv

LEMMA PortKeeps == PortInv /\ [PortNext]_portVars => PortInv'
<1> SUFFICES ASSUME PortInv, [PortNext]_portVars PROVE PortInv'
  OBVIOUS
<1>1. PortTypeOK /\ PortIsHeld /\ (deadlines = 0 => InStep) /\ NothingTwice /\ NothingLost
  BY DEF PortInv
<1>2. PortTypeOK' /\ PortIsHeld'
  BY <1>1, TypeStep, HoldsStep
<1>3. (deadlines = 0 => InStep)'
  BY <1>1, InStepStep
<1>4. NothingTwice'
  BY <1>1, TwiceStep
<1>5. NothingLost'
  BY <1>1, <1>4, LostStep
<1> QED
  BY <1>2, <1>3, <1>4, <1>5 DEF PortInv

\* The invariant of the port: the types; the port has one owner, and what a parser keeps ends
\* no line; the command that reads and the modem are in step until a deadline passes; no
\* piece of an event is in two places; and until a command begins none is lost.
THEOREM PortInvariance == PortSpec => []PortInv
<1>1. PortInit => PortInv
  BY PortStarts
<1>2. PortInv /\ [PortNext]_portVars => PortInv'
  BY PortKeeps
<1> QED
  BY <1>1, <1>2, PTL DEF PortSpec

\* What the modem, the wire and the readers hold keeps its type, for any commands, events,
\* chunk size and number of deadlines.
THEOREM PortTypeCorrect == PortSpec => []PortTypeOK
<1>1. PortInv => PortTypeOK
  BY DEF PortInv
<1> QED
  BY <1>1, PortInvariance, PTL

\* Exchange and SendPDU give their caller the answer to their own command until a deadline
\* passes, since a command begins only when nothing of the one before is left on the port.
THEOREM AnswersAreMatched == PortSpec => []AnswersMatch
<1>1. PortInv => AnswersMatch
  BY DEF PortInv, InStep, AnswersMatch
<1> QED
  BY <1>1, PortInvariance, PTL

\* SendPDU is atomic until a deadline passes: the modem sends no text as the body of another
\* submission.
THEOREM BodiesAreMatched == PortSpec => []BodiesMatch
<1>1. PortInv => BodiesMatch
  <2> SUFFICES ASSUME PortInv, NEW s \in submitted, s[1] # s[2] PROVE deadlines > 0
    BY DEF BodiesMatch
  <2>1. deadlines # 0
    BY DEF PortInv, InStep
  <2>2. deadlines \in 0..MaxDeadlines
    BY DEF PortInv, PortTypeOK
  <2> QED
    BY <2>1, <2>2, PortConstants
<1> QED
  BY <1>1, PortInvariance, PTL

LEMMA NotUnderway ==
    ASSUME PortTypeOK, NEW u \in Urcs, Gone(u), u \notin toSend
    PROVE  ~Underway(u)
<1>1. wire \in Seq(Pieces) /\ chunk \in Seq(Pieces)
  BY DEF PortTypeOK
<1>2. \A r \in Readers : held[r] \in Seq(Pieces) /\ buffer[r] \in Seq(Pieces)
  BY DEF PortTypeOK, Readers
<1>3. ASSUME NEW r \in Readers
      PROVE  Without(held[r], u) /\ Without(buffer[r], u) /\ (r = NoOne => Without(chunk, u))
  <2> DEFINE h == held[r]
             b == buffer[r]
             c == IF r = NoOne THEN chunk ELSE <<>>
             hb == h \o b
  <2>1. h \in Seq(Pieces) /\ b \in Seq(Pieces) /\ c \in Seq(Pieces) /\ hb \in Seq(Pieces)
    BY <1>1, <1>2, EmptySeq, ConcatProperties
  <2>2. Without(hb \o c, u)
    BY DEF Gone, Got
  <2> HIDE DEF h, b, c
  <2>3. Without(hb, u) <=> Without(h, u) /\ Without(b, u)
    BY <2>1, WithoutJoined
  <2> HIDE DEF hb
  <2>4. Without(hb, u) /\ Without(c, u)
    BY <2>1, <2>2, WithoutJoined
  <2> QED
    BY <2>3, <2>4 DEF h, b, c
<1>4. Without(wire, u) /\ Without(chunk, u)
  BY <1>3, NoOneApart DEF Gone
<1>5. \A s \in Seq(Pieces) : Without(s, u) => \A i \in DOMAIN s : s[i].line # Urc(u)
  BY NotWithout
<1>6. \A s \in Seq(Pieces) : \A i \in DOMAIN s : s[i].line.kind = "urc" => s[i].line = Urc(s[i].line.of)
  <2> SUFFICES ASSUME NEW s \in Seq(Pieces), NEW i \in DOMAIN s, s[i].line.kind = "urc"
               PROVE  s[i].line = Urc(s[i].line.of)
    OBVIOUS
  <2>1. s[i] \in Pieces
    BY LenProperties, ElementOfSeq
  <2> QED
    BY <2>1 DEF Pieces, Lines, Urc
<1>7. \A s \in Seq(Pieces) : Without(s, u) =>
         \A i \in DOMAIN s : ~(s[i].line.kind = "urc" /\ s[i].line.of = u)
  BY <1>5, <1>6
<1>8. \A s : Unsolicited(s) \subseteq {i \in DOMAIN s : s[i].line.kind = "urc"}
  BY DEF Unsolicited, Ends
<1>9. /\ \A i \in DOMAIN wire : ~(wire[i].line.kind = "urc" /\ wire[i].line.of = u)
      /\ \A i \in DOMAIN chunk : ~(chunk[i].line.kind = "urc" /\ chunk[i].line.of = u)
  BY <1>1, <1>4, <1>7
<1>10. \A r \in Readers : \A i \in DOMAIN buffer[r] :
          ~(buffer[r][i].line.kind = "urc" /\ buffer[r][i].line.of = u)
  BY <1>2, <1>3, <1>7
<1>11. \A r \in Readers : \A i \in Unsolicited(held[r]) : held[r][i].line.of # u
  BY <1>2, <1>3, <1>7, <1>8
<1> QED
  BY <1>9, <1>10, <1>11 DEF Underway, Readers

LEMMA StillUnderway ==
    ASSUME PortTypeOK, NEW u \in Urcs, Lined(held[NoOne]),
           ~Without(held[NoOne], u) \/ ~Without(Stream, u)
    PROVE  Underway(u)
<1> DEFINE b == buffer[NoOne]
           h == held[NoOne]
           Holds(s) == \E i \in DOMAIN s : s[i].line.kind = "urc" /\ s[i].line.of = u
<1>1. /\ wire \in Seq(Pieces) /\ chunk \in Seq(Pieces) /\ b \in Seq(Pieces) /\ h \in Seq(Pieces)
  BY DEF PortTypeOK
<1>2. Urc(u).kind = "urc" /\ Urc(u).of = u
  BY DEF Urc
<1>3. \A s \in Seq(Pieces) : ~Without(s, u) => Holds(s)
  BY <1>2, NotWithout
<1>4. CASE ~Without(h, u)
  <2>1. PICK i \in DOMAIN h : h[i].line = Urc(u)
    BY <1>1, <1>4, NotWithout
  <2>2. PICK j \in Unsolicited(h) : h[j].line = Urc(u)
    BY <1>1, <2>1, LinedEnds
  <2>3. h[j].line.of = u
    BY <1>2, <2>2
  <2> QED
    BY <2>3 DEF Underway
<1>5. CASE ~Without(Stream, u)
  <2> DEFINE bc == b \o chunk
  <2>1. bc \in Seq(Pieces) /\ Stream = bc \o wire
    BY <1>1, ConcatProperties DEF Stream
  <2>2. Without(bc, u) <=> Without(b, u) /\ Without(chunk, u)
    <3> HIDE DEF b
    <3> QED
      BY <1>1, WithoutJoined
  <2> HIDE DEF bc
  <2>3. ~Without(bc, u) \/ ~Without(wire, u)
    BY <1>1, <1>5, <2>1, WithoutJoined
  <2>4. Holds(b) \/ Holds(chunk) \/ Holds(wire)
    <3> HIDE DEF Holds
    <3> QED
      BY <1>1, <1>3, <2>2, <2>3
  <2> QED
    BY <2>4 DEF Underway
<1> QED
  BY <1>4, <1>5

\* No unsolicited line reaches lineHandle twice, by dispatchUnsolicited or Run, and as long as
\* no command has begun each is underway or was handed on.
THEOREM EventsAreOnce == PortSpec => []EventsOnce
<1>1. PortInv => EventsOnce
  <2> SUFFICES ASSUME PortInv, NEW u \in Urcs
               PROVE  /\ handled[u] <= 1 /\ (handled[u] = 1 => ~Underway(u))
                      /\ (\A k \in Commands : client[k] = "idle") => Underway(u) \/ handled[u] = 1
    BY DEF EventsOnce
  <2>1. PortTypeOK /\ NothingTwice /\ NothingLost
    BY DEF PortInv
  <2>2. handled[u] <= 1
    <3>1. handled[u] = 0 \/ handled[u] = 1
      BY <2>1 DEF NothingTwice
    <3> QED
      BY <3>1
  <2>3. ASSUME handled[u] = 1 PROVE ~Underway(u)
    <3>1. u \notin toSend /\ Gone(u)
      BY <2>1, <2>3 DEF NothingTwice
    <3> QED
      BY <2>1, <3>1, NotUnderway
  <2>4. ASSUME \A k \in Commands : client[k] = "idle" PROVE Underway(u) \/ handled[u] = 1
    <3>1. /\ Lined(held[NoOne])
          /\ \/ u \in toSend \/ handled[u] = 1
             \/ ~Without(held[NoOne], u) \/ ~Without(Stream, u)
      BY <2>1, <2>4 DEF NothingLost
    <3>2. u \in toSend => Underway(u)
      BY DEF Underway
    <3> QED
      BY <2>1, <3>1, <3>2, StillUnderway
  <2> QED
    BY <2>2, <2>3, <2>4
<1> QED
  BY <1>1, PortInvariance, PTL
=============================================================================
