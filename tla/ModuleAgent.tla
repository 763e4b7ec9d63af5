---------------------------- MODULE ModuleAgent ----------------------------
(***************************************************************************)
(* The agent that runs inside the module: the requests of its HTTP server, *)
(* each in a goroutine of its own, and the goroutines that refresh the     *)
(* status of the line share the vendor's console (internal/control) and    *)
(* the journal of events (internal/events).                                *)
(*                                                                         *)
(* Every request is bounded by a timeout and ends early when its client    *)
(* goes, which are one nondeterministic choice here: a wait may end        *)
(* without its answer at any time, also just after the answer arrived.     *)
(* Nothing is on disk: an agent that is started again has an empty journal *)
(* that counts from 1, and knows of no call.                               *)
(***************************************************************************)
EXTENDS Integers, FiniteSets

CONSTANTS
    Dials,        \* requests to dial, and the calls they make
    Hangups,      \* requests to hang up
    Messages,     \* requests to send an SMS
    Refreshers,   \* main, and the goroutine of the ticker
    Rounds,       \* bound: how often a refresher refreshes
    Attempts,     \* the places the fallback sends a PDU to, one after the other
    Limit,        \* events the journal keeps
    Buffer,       \* events the channel of a subscriber holds
    MaxRestarts,  \* bound: how often the agent is started again
    None

ASSUME AgentConstants ==
    /\ None \notin Dials \union Messages \union Refreshers
    /\ Dials \intersect Messages = {} /\ (Dials \union Messages) \intersect Refreshers = {}
    /\ Rounds \in [Refreshers -> Nat]
    /\ Attempts \in Nat /\ Limit \in Nat \ {0} /\ Buffer \in Nat \ {0}
    /\ MaxRestarts \in Nat

VARIABLES
    mu,        \* who holds SimpleRILAdapter.mu for longer than one step: a request to dial
    rilMu,     \* who holds simpleRILMu
    active,    \* SimpleRILAdapter.active, a session named after its call
    dial,      \* where a request to dial is
    hangup,    \* where a request to hang up is
    session,   \* session[h]: the session it took
    sms,       \* where a request to send is
    attempt,   \* attempt[m]: the place the fallback is at
    refresh,   \* where a refresher is
    left,      \* left[f]: refreshes it still makes
    consoles,  \* whose console runs
    radio,     \* the calls the modem has
    shown,     \* shown[d]: the last state of its call on the console of d
    result,    \* result[m]: the result on the console of m
    sent,      \* history: how often the network took m
    unseen,    \* history: how often the fallback did not see that it had
    seq,       \* Journal.seq; the entries are the last Limit ones
    stream,    \* where the handler of the one client that listens is
    queue,     \* events it still has to write: those of Since, later its channel
    cursor,    \* the last event the client has
    origin,    \* history: whose event that is, this agent's or one's that is gone
    excused,   \* history: events that never reached the channel of the handler
    restarts   \* history: how often the agent was started again

calls == <<mu, active, dial, hangup, session, radio, shown>>
messages == <<sms, attempt, result, sent, unseen>>
status == <<refresh, left>>
events == <<seq, stream, queue, cursor, origin, excused>>
vars == <<calls, messages, status, events, rilMu, consoles, restarts>>

Entries == {e \in 1 .. seq : e > seq - Limit}

TypeOK ==
    /\ mu \in Dials \union {None} /\ active \in Dials \union {None}
    /\ rilMu \in Messages \union Refreshers \union {None}
    /\ dial \in [Dials -> {"idle", "waiting", "accepted", "failed", "gone"}]
    /\ hangup \in [Hangups -> {"idle", "ending", "done"}]
    /\ session \in [Hangups -> Dials \union {None}]
    /\ sms \in [Messages -> {"idle", "asked", "fallback", "accepted", "failed"}]
    /\ attempt \in [Messages -> 0 .. Attempts]
    /\ refresh \in [Refreshers -> {"idle", "queued", "asking", "known"}]
    /\ \A f \in Refreshers : left[f] \in 0 .. Rounds[f]
    /\ consoles \subseteq Dials \union Messages \union Refreshers
    /\ radio \subseteq Dials
    /\ shown \in [Dials -> {"none", "going", "ended"}]
    /\ result \in [Messages -> {"none", "success", "rejected"}]
    /\ \A m \in Messages : sent[m] \in 0 .. Attempts + 1 /\ unseen[m] \in 0 .. Attempts
    /\ seq \in Nat /\ cursor \in Nat /\ origin \in {"this", "gone"}
    /\ stream \in {"off", "missing", "open"}
    /\ queue \subseteq 1 .. seq /\ excused \subseteq 1 .. seq
    /\ restarts \in 0 .. MaxRestarts

Init ==
    /\ mu = None /\ rilMu = None /\ active = None
    /\ dial = [d \in Dials |-> "idle"]
    /\ hangup = [h \in Hangups |-> "idle"] /\ session = [h \in Hangups |-> None]
    /\ sms = [m \in Messages |-> "idle"] /\ attempt = [m \in Messages |-> 0]
    /\ refresh = [f \in Refreshers |-> "idle"] /\ left = Rounds
    /\ consoles = {} /\ radio = {}
    /\ shown = [d \in Dials |-> "none"]
    /\ result = [m \in Messages |-> "none"]
    /\ sent = [m \in Messages |-> 0] /\ unseen = [m \in Messages |-> 0]
    /\ seq = 0 /\ stream = "off" /\ queue = {} /\ cursor = 0 /\ excused = {}
    /\ origin = "this" /\ restarts = 0

----------------------------------------------------------------------------
(* Calls.  Dial keeps the adapter's mutex until its call has a state.  The console of a       *)
(* session that is stopped is told to quit and killed; whether that ends its call is up to    *)
(* the modem.                                                                                 *)

Stop(d) ==
    /\ consoles' = consoles \ {d}
    /\ radio' \in {radio, radio \ {d}}

\* Mutant: the adapter does not look for a call it already holds.
DialOver(d) ==
    /\ dial[d] = "idle" /\ mu = None
    /\ dial' = [dial EXCEPT ![d] = "waiting"]
    /\ mu' = d /\ consoles' = consoles \union {d}
    /\ UNCHANGED <<active, hangup, session, radio, shown, messages, status, events, rilMu, restarts>>

Dial(d) ==
    /\ dial[d] = "idle" /\ mu = None
    /\ IF active # None
       THEN /\ dial' = [dial EXCEPT ![d] = "failed"]
            /\ UNCHANGED <<mu, consoles>>
       ELSE /\ dial' = [dial EXCEPT ![d] = "waiting"]
            /\ mu' = d /\ consoles' = consoles \union {d}
    /\ UNCHANGED <<active, hangup, session, radio, shown, messages, status, events, rilMu, restarts>>

\* The client went before the console was up, or no state was seen in time.
DialFails(d) ==
    /\ dial[d] = "waiting"
    /\ dial' = [dial EXCEPT ![d] = "failed"]
    /\ mu' = None
    /\ Stop(d)
    /\ UNCHANGED <<active, hangup, session, shown, messages, status, events, rilMu, restarts>>

DialSees(d) ==
    /\ dial[d] = "waiting" /\ shown[d] # "none"
    /\ dial' = [dial EXCEPT ![d] = "accepted"]
    /\ mu' = None
    /\ IF shown[d] = "ended"
       THEN Stop(d) /\ UNCHANGED active
       ELSE active' = d /\ UNCHANGED <<consoles, radio>>
    /\ UNCHANGED <<hangup, session, shown, messages, status, events, rilMu, restarts>>

\* The id of the call in the request is not looked at: the session there is is taken.
Hangup(h) ==
    /\ hangup[h] = "idle" /\ mu = None
    /\ active' = None
    /\ session' = [session EXCEPT ![h] = active]
    /\ hangup' = [hangup EXCEPT ![h] = IF active = None THEN "done" ELSE "ending"]
    /\ UNCHANGED <<mu, dial, radio, shown, messages, status, events, rilMu, consoles, restarts>>

\* call_end was written or not, its result was seen or not: the session is stopped.
HangupStops(h) ==
    /\ hangup[h] = "ending"
    /\ hangup' = [hangup EXCEPT ![h] = "done"]
    /\ Stop(session[h])
    /\ UNCHANGED <<mu, active, dial, session, shown, messages, status, events, rilMu, restarts>>

----------------------------------------------------------------------------
(* The modem: a call connects, is answered and ends, and its console, if it still runs,       *)
(* shows it.                                                                                  *)

Show(d, state) == shown' = IF d \in consoles THEN [shown EXCEPT ![d] = state] ELSE shown

RadioCalls(d) ==
    /\ dial[d] = "waiting" /\ shown[d] = "none"
    /\ \/ radio' = radio \union {d} /\ Show(d, "going")
       \/ UNCHANGED radio /\ Show(d, "ended")
    /\ UNCHANGED <<mu, active, dial, hangup, session, messages, status, events, rilMu, consoles, restarts>>

RadioEnds(d) ==
    /\ d \in radio
    /\ radio' = radio \ {d}
    /\ Show(d, "ended")
    /\ UNCHANGED <<mu, active, dial, hangup, session, messages, status, events, rilMu, consoles, restarts>>

----------------------------------------------------------------------------
(* Messages.  SendSMS keeps simpleRILMu to its end, the fallback over AT included.            *)

\* The request ends: its console, if it runs, is stopped and the mutex released.
EndSms(m, outcome) ==
    /\ sms' = [sms EXCEPT ![m] = outcome]
    /\ rilMu' = None
    /\ consoles' = consoles \ {m}

SendSMS(m) ==
    /\ sms[m] = "idle" /\ rilMu = None
    /\ rilMu' = m /\ consoles' = consoles \union {m}
    /\ sms' = [sms EXCEPT ![m] = "asked"]
    /\ UNCHANGED <<calls, attempt, result, sent, unseen, status, events, restarts>>

\* The modem hands the message to the network, or rejects it.
Submits(m) ==
    /\ sms[m] = "asked" /\ result[m] = "none"
    /\ \/ /\ result' = [result EXCEPT ![m] = "success"]
          /\ sent' = [sent EXCEPT ![m] = @ + 1]
       \/ result' = [result EXCEPT ![m] = "rejected"] /\ UNCHANGED sent
    /\ UNCHANGED <<calls, sms, attempt, unseen, status, events, rilMu, consoles, restarts>>

\* Mutant: a result that did not come in time leads to the fallback as well.
SmsGivesUpOver(m) ==
    /\ sms[m] = "asked"
    /\ sms' = [sms EXCEPT ![m] = "fallback"]
    /\ consoles' = consoles \ {m}
    /\ UNCHANGED <<calls, attempt, result, sent, unseen, status, events, rilMu, restarts>>

\* The client goes, or no result is seen in time: the error is returned as it is.
SmsGivesUp(m) ==
    /\ sms[m] = "asked"
    /\ EndSms(m, "failed")
    /\ UNCHANGED <<calls, attempt, result, sent, unseen, status, events, restarts>>

SmsSees(m) ==
    /\ sms[m] = "asked"
    /\ \/ result[m] = "success" /\ EndSms(m, "accepted")
       \/ /\ result[m] = "rejected"
          /\ sms' = [sms EXCEPT ![m] = "fallback"]
          /\ consoles' = consoles \ {m}
          /\ UNCHANGED rilMu
    /\ UNCHANGED <<calls, attempt, result, sent, unseen, status, events, restarts>>

\* One place of the fallback, a forwarder on the host or an AT port of the module, takes the
\* PDU and says so; takes it and the answer is not seen; or does not take it.  After an
\* answer that was not seen the next place gets the same PDU.
AtSends(m) ==
    /\ sms[m] = "fallback" /\ attempt[m] < Attempts
    /\ attempt' = [attempt EXCEPT ![m] = @ + 1]
    /\ \/ /\ sent' = [sent EXCEPT ![m] = @ + 1]
          /\ EndSms(m, "accepted")
          /\ UNCHANGED unseen
       \/ /\ sent' = [sent EXCEPT ![m] = @ + 1]
          /\ unseen' = [unseen EXCEPT ![m] = @ + 1]
          /\ UNCHANGED <<sms, rilMu, consoles>>
       \/ UNCHANGED <<sent, unseen, sms, rilMu, consoles>>
    /\ UNCHANGED <<calls, result, status, events, restarts>>

\* No place is left, or the client is gone.
AtGivesUp(m) ==
    /\ sms[m] = "fallback"
    /\ EndSms(m, "failed")
    /\ UNCHANGED <<calls, attempt, result, sent, unseen, status, events, restarts>>

----------------------------------------------------------------------------
(* The status of the line, and the journal.                                                   *)

\* Status looks for a call under the adapter's mutex and lets go of it before it waits for
\* the console.
Refresh(f) ==
    /\ refresh[f] = "idle" /\ left[f] > 0 /\ mu = None
    /\ left' = [left EXCEPT ![f] = @ - 1]
    /\ refresh' = [refresh EXCEPT ![f] = IF active # None THEN "known" ELSE "queued"]
    /\ UNCHANGED <<calls, messages, events, rilMu, consoles, restarts>>

RefreshAsks(f) ==
    /\ refresh[f] = "queued" /\ rilMu = None
    /\ rilMu' = f /\ consoles' = consoles \union {f}
    /\ refresh' = [refresh EXCEPT ![f] = "asking"]
    /\ UNCHANGED <<calls, messages, left, events, restarts>>

RefreshHears(f) ==
    /\ refresh[f] = "asking"
    /\ rilMu' = None /\ consoles' = consoles \ {f}
    /\ refresh' = [refresh EXCEPT ![f] = "known"]
    /\ UNCHANGED <<calls, messages, left, events, restarts>>

\* Whether there was an answer or not, the line is an event.  It reaches the handler that
\* has a channel with room; the others find it in the journal, or never.
Append(f) ==
    /\ refresh[f] = "known"
    /\ refresh' = [refresh EXCEPT ![f] = "idle"]
    /\ seq' = seq + 1
    /\ IF stream = "open" /\ Cardinality(queue) < Buffer
       THEN queue' = queue \union {seq'} /\ UNCHANGED excused
       ELSE excused' = excused \union {seq'} /\ UNCHANGED queue
    /\ UNCHANGED <<calls, messages, left, stream, cursor, origin, rilMu, consoles, restarts>>

\* Mutant: off by one.
KnownLater(c) == \A e \in Entries : e - 1 \in Entries \/ c >= e - 2

\* Since: the journal still has all that follows event c.  It has so, too, when it is empty,
\* and when c is an event it never had, which an agent that is gone had.
Known(c) == \A e \in Entries : e - 1 \in Entries \/ c >= e - 1

\* A client comes back with the last event it has, unless that is too old.
Connect ==
    /\ stream = "off" /\ Known(cursor)
    /\ stream' = "missing"
    /\ queue' = {e \in Entries : e > cursor}
    /\ excused' = {}
    /\ UNCHANGED <<calls, messages, status, seq, cursor, origin, rilMu, consoles, restarts>>

\* Every missing event is written.
Subscribe ==
    /\ stream = "missing" /\ queue = {}
    /\ stream' = "open"
    /\ UNCHANGED <<calls, messages, status, seq, queue, cursor, origin, excused, rilMu, consoles,
                   restarts>>

Write ==
    /\ \E e \in queue :
         /\ \A x \in queue : e <= x
         /\ queue' = queue \ {e} /\ cursor' = e
    /\ origin' = "this"
    /\ UNCHANGED <<calls, messages, status, seq, stream, excused, rilMu, consoles, restarts>>

\* A write fails, or the client goes.
Disconnect ==
    /\ stream # "off"
    /\ stream' = "off" /\ queue' = {}
    /\ UNCHANGED <<calls, messages, status, seq, cursor, origin, excused, rilMu, consoles, restarts>>

\* The agent dies, its requests and consoles with it, and is started again.  The client keeps
\* its cursor; a call goes on, if it does, without the console that made it.
Restart ==
    /\ restarts < MaxRestarts
    /\ restarts' = restarts + 1
    /\ mu' = None /\ rilMu' = None /\ active' = None /\ consoles' = {}
    /\ dial' = [d \in Dials |-> IF dial[d] \in {"waiting", "accepted"} THEN "gone" ELSE dial[d]]
    /\ hangup' = [h \in Hangups |-> IF hangup[h] = "ending" THEN "done" ELSE hangup[h]]
    /\ session' = [h \in Hangups |-> None]
    /\ sms' = [m \in Messages |-> IF sms[m] \in {"asked", "fallback"} THEN "failed" ELSE sms[m]]
    /\ refresh' = [f \in Refreshers |-> "idle"]
    /\ seq' = 0 /\ stream' = "off" /\ queue' = {} /\ excused' = {}
    /\ origin' = IF cursor = 0 THEN "this" ELSE "gone"
    /\ UNCHANGED <<radio, shown, result, attempt, sent, unseen, left, cursor>>

----------------------------------------------------------------------------

DialStep(d) == Dial(d) \/ DialSees(d) \/ DialFails(d)
HangupStep(h) == Hangup(h) \/ HangupStops(h)
SmsStep(m) == SendSMS(m) \/ SmsSees(m) \/ SmsGivesUp(m) \/ AtSends(m)
              \/ AtGivesUp(m)
RefreshStep(f) == Refresh(f) \/ RefreshAsks(f) \/ RefreshHears(f) \/ Append(f)
Radio(d) == RadioCalls(d) \/ RadioEnds(d)
Stream == Connect \/ Subscribe \/ Write \/ Disconnect

Next ==
    \/ \E d \in Dials : DialStep(d) \/ Radio(d)
    \/ \E h \in Hangups : HangupStep(h)
    \/ \E m \in Messages : SmsStep(m) \/ Submits(m)
    \/ \E f \in Refreshers : RefreshStep(f)
    \/ Stream
    \/ Restart

Spec == Init /\ [][Next]_vars

----------------------------------------------------------------------------
(* Properties.                                                                                *)

\* SendSMS: the network gets a message once, and once more for each place of the fallback
\* that had handed it over without being seen to; a message that is answered as accepted was
\* handed over.  A result that came too late must not lead to the fallback.
SentOnce ==
    \A m \in Messages :
        /\ sent[m] <= 1 + unseen[m]
        /\ sms[m] = "accepted" => sent[m] > 0

\* Dial and Hangup: a call the modem still has, and that this agent answered as accepted
\* because it was connecting or up, is the one the adapter holds, or a request to hang up took
\* it; the session the adapter holds has its console, so that call_end can be written to it;
\* and only one request ever takes a session.
CallsAreHeld ==
    /\ \A d \in radio :
          dial[d] = "accepted" => active = d \/ \E h \in Hangups : session[h] = d
    /\ active # None => active \in consoles
    /\ \A g, h \in Hangups : g # h /\ session[g] # None => session[g] # session[h]

\* Append, Since, Subscribe: a client gets events in their order, none twice, and misses only
\* such as were appended before its handler had a channel or while that was full; coming back
\* with its cursor, it gets those it missed, or is refused.  The cursor must be of this agent:
\* one of an agent that is gone may be beyond all the journal has, and Since answers it with
\* nothing instead of refusing it.  From the first event of the new agent on all is as before.
NoSilentHoles ==
    [][cursor' # cursor /\ origin = "this" =>
         /\ cursor' > cursor
         /\ \A e \in cursor + 1 .. cursor' - 1 : e \in excused]_vars

=============================================================================
