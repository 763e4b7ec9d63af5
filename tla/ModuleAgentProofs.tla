-------------------------- MODULE ModuleAgentProofs --------------------------
(***************************************************************************)
(* Theorems about ModuleAgent, for any requests, attempts, rounds and      *)
(* sizes of the journal and of its subscribers' channels.  Calls, messages *)
(* and events share no variable but the set of consoles, so each of the    *)
(* three has an invariant of its own.                                      *)
(***************************************************************************)
EXTENDS ModuleAgent, TLAPS

\* A request to dial has the mutex, its console and no session before it; a session belongs to
\* the adapter or to the request to hang up that took it.
CallsOK ==
    /\ \A d \in Dials :
          /\ dial[d] = "idle" => d \notin radio /\ shown[d] = "none"
          /\ dial[d] = "waiting" => /\ mu = d /\ active = None /\ d \in consoles
                                    /\ shown[d] # "going" => d \notin radio
          /\ active = d => dial[d] = "accepted" /\ d \in consoles
          /\ d \in radio /\ dial[d] = "accepted" =>
                active = d \/ \E h \in Hangups : session[h] = d
    /\ mu # None => dial[mu] = "waiting"
    /\ \A h \in Hangups :
          /\ hangup[h] = "idle" => session[h] = None
          /\ hangup[h] = "ending" => session[h] # None
          /\ session[h] # None => dial[session[h]] = "accepted" /\ active # session[h]
    /\ \A g, h \in Hangups : g # h /\ session[g] # None => session[g] # session[h]

\* What the network got at each step of a request to send.
MessagesOK ==
    /\ sent \in [Messages -> Nat] /\ unseen \in [Messages -> Nat]
    /\ \A m \in Messages :
          /\ sent[m] <= 1 + unseen[m] /\ sent[m] <= 1 + attempt[m] /\ unseen[m] <= attempt[m]
          /\ sms[m] = "idle" => result[m] = "none"
          /\ sms[m] \in {"idle", "asked"} =>
                unseen[m] = 0 /\ sent[m] = IF result[m] = "success" THEN 1 ELSE 0
          /\ sms[m] = "fallback" => sent[m] = unseen[m]
          /\ sms[m] = "accepted" => sent[m] > 0

\* While a client is connected, what follows an event on its way is on its way or excused; and
\* so is what follows its cursor, when that is a cursor of this agent.
EventsOK ==
    /\ stream = "off" => queue = {}
    /\ \A e \in queue : \A x \in e .. seq : x \in queue \union excused
    /\ origin = "this" =>
          /\ cursor <= seq
          /\ \A e \in queue : e > cursor
          /\ stream # "off" => \A e \in cursor + 1 .. seq : e \in queue \union excused

\* The inductive invariant.
IInv == TypeOK /\ left \in [Refreshers -> Nat] /\ CallsOK /\ MessagesOK /\ EventsOK

LEMMA InitHolds == Init => IInv
<1> SUFFICES ASSUME Init PROVE IInv
  OBVIOUS
<1> USE AgentConstants DEF Init
<1>1. TypeOK /\ left \in [Refreshers -> Nat]
  BY DEF TypeOK
<1>2. CallsOK
  BY DEF CallsOK
<1>3. MessagesOK
  BY DEF MessagesOK
<1>4. EventsOK
  BY DEF EventsOK
<1> QED BY <1>1, <1>2, <1>3, <1>4 DEF IInv

-----------------------------------------------------------------------------
(* Calls.                                                                  *)

CallTypes ==
    /\ mu \in Dials \union {None} /\ active \in Dials \union {None}
    /\ dial \in [Dials -> {"idle", "waiting", "accepted", "failed", "gone"}]
    /\ hangup \in [Hangups -> {"idle", "ending", "done"}]
    /\ session \in [Hangups -> Dials \union {None}]
    /\ radio \subseteq Dials
    /\ shown \in [Dials -> {"none", "going", "ended"}]

LEMMA DialKeeps ==
    ASSUME CallTypes, CallsOK, NEW d \in Dials, Dial(d)
    PROVE  CallTypes' /\ CallsOK'
<1> USE AgentConstants DEF CallTypes, CallsOK, Dial
<1>1. CallTypes'
  OBVIOUS
<1>2. \A e \in Dials \ {d} : dial'[e] = dial[e]
  OBVIOUS
<1>3. dial[d] = "idle" /\ dial'[d] = IF active # None THEN "failed" ELSE "waiting"
  OBVIOUS
<1>4. CallsOK'
  BY <1>2, <1>3
<1> QED BY <1>1, <1>4

LEMMA DialFailsKeeps ==
    ASSUME CallTypes, CallsOK, NEW d \in Dials, DialFails(d)
    PROVE  CallTypes' /\ CallsOK'
<1> USE AgentConstants DEF CallTypes, CallsOK, DialFails, Stop
<1>1. CallTypes'
  OBVIOUS
<1>2. dial'[d] = "failed" /\ \A e \in Dials \ {d} : dial'[e] = dial[e]
  OBVIOUS
<1>3. mu = d /\ active = None
  OBVIOUS
<1>4. CallsOK'
  BY <1>2, <1>3
<1> QED BY <1>1, <1>4

LEMMA DialSeesKeeps ==
    ASSUME CallTypes, CallsOK, NEW d \in Dials, DialSees(d)
    PROVE  CallTypes' /\ CallsOK'
<1> USE AgentConstants DEF CallTypes, CallsOK
<1>1. /\ dial[d] = "waiting" /\ dial'[d] = "accepted" /\ mu' = None
      /\ \A e \in Dials \ {d} : dial'[e] = dial[e]
      /\ UNCHANGED <<hangup, session, shown>>
      /\ dial' \in [Dials -> {"idle", "waiting", "accepted", "failed", "gone"}]
  BY DEF DialSees
<1>2. mu = d /\ active = None /\ d \in consoles /\ d # None
  BY <1>1
<1>3. \A h \in Hangups : session[h] # d
  BY <1>1, <1>2
<1>4. CASE shown[d] = "ended"
  <2>1. /\ radio' \in {radio, radio \ {d}} /\ consoles' = consoles \ {d}
        /\ active' = active
    BY ONLY <1>4, DialSees(d) DEF DialSees, Stop
  <2>2. d \notin radio
    BY <1>1, <1>4
  <2>3. radio' = radio
    BY ONLY <2>1, <2>2
  <2> QED BY <1>1, <1>2, <1>3, <2>1, <2>2, <2>3
<1>5. CASE shown[d] # "ended"
  <2>1. active' = d /\ consoles' = consoles /\ radio' = radio
    BY <1>5 DEF DialSees
  <2>2. CallTypes'
    BY <1>1, <2>1
  <2> QED BY <1>1, <1>2, <1>3, <2>1, <2>2
<1> QED BY <1>4, <1>5

LEMMA HangupKeeps ==
    ASSUME CallTypes, CallsOK, NEW h \in Hangups, Hangup(h)
    PROVE  CallTypes' /\ CallsOK'
<1> USE AgentConstants DEF CallTypes, CallsOK
<1>1. /\ active' = None /\ session'[h] = active /\ session[h] = None
      /\ hangup'[h] = IF active = None THEN "done" ELSE "ending"
      /\ \A g \in Hangups \ {h} : session'[g] = session[g] /\ hangup'[g] = hangup[g]
      /\ UNCHANGED <<mu, dial, radio, shown, consoles>>
  BY DEF Hangup
<1>2. CallTypes'
  BY DEF Hangup
<1>3. \A d \in Dials : d \in radio' /\ dial'[d] = "accepted" =>
         active' = d \/ \E g \in Hangups : session'[g] = d
  BY <1>1
<1>4. \A g \in Hangups : /\ hangup'[g] = "idle" => session'[g] = None
                         /\ hangup'[g] = "ending" => session'[g] # None
                         /\ session'[g] # None => /\ dial'[session'[g]] = "accepted"
                                                  /\ active' # session'[g]
  BY <1>1
<1>5. \A g, k \in Hangups : g # k /\ session'[g] # None => session'[g] # session'[k]
  BY <1>1
<1> QED BY <1>1, <1>2, <1>3, <1>4, <1>5

LEMMA HangupStopsKeeps ==
    ASSUME CallTypes, CallsOK, NEW h \in Hangups, HangupStops(h)
    PROVE  CallTypes' /\ CallsOK'
<1> USE AgentConstants DEF CallTypes, CallsOK
<1>1. /\ hangup[h] = "ending" /\ hangup'[h] = "done"
      /\ \A g \in Hangups \ {h} : hangup'[g] = hangup[g]
      /\ UNCHANGED <<mu, active, dial, session, shown>>
      /\ radio' \subseteq radio /\ consoles' = consoles \ {session[h]}
  BY DEF HangupStops, Stop
<1>2. CallTypes'
  BY <1>1 DEF HangupStops
<1>3. session[h] \in Dials /\ dial[session[h]] = "accepted" /\ active # session[h]
  BY <1>1
<1> QED BY <1>1, <1>2, <1>3

LEMMA RadioKeeps ==
    ASSUME CallTypes, CallsOK, NEW d \in Dials, Radio(d)
    PROVE  CallTypes' /\ CallsOK'
<1> USE AgentConstants DEF CallTypes, CallsOK, Radio, RadioCalls, RadioEnds, Show
<1>1. /\ UNCHANGED <<mu, active, dial, hangup, session, consoles>>
      /\ \A e \in Dials \ {d} : shown'[e] = shown[e] /\ (e \in radio' <=> e \in radio)
  OBVIOUS
<1>2. CallTypes'
  OBVIOUS
<1>3. dial[d] # "idle"
  OBVIOUS
<1>4. dial[d] = "waiting" => (shown'[d] # "going" => d \notin radio')
  OBVIOUS
<1>5. dial[d] # "waiting" => radio' \subseteq radio
  OBVIOUS
<1>6. CallsOK'
  BY <1>1, <1>2, <1>3, <1>4, <1>5
<1> QED BY <1>2, <1>6

\* A step of the rest of the agent stops only consoles of its own.
LEMMA ElsewhereKeepsCalls ==
    ASSUME CallTypes, CallsOK, UNCHANGED calls, consoles \intersect Dials \subseteq consoles'
    PROVE  CallTypes' /\ CallsOK'
BY AgentConstants DEF CallTypes, CallsOK, calls

-----------------------------------------------------------------------------
(* Messages.                                                               *)

MessageTypes ==
    /\ rilMu \in Messages \union Refreshers \union {None}
    /\ sms \in [Messages -> {"idle", "asked", "fallback", "accepted", "failed"}]
    /\ attempt \in [Messages -> 0 .. Attempts]
    /\ result \in [Messages -> {"none", "success", "rejected"}]

LEMMA SmsKeeps ==
    ASSUME MessageTypes, MessagesOK, NEW m \in Messages, SmsStep(m) \/ Submits(m)
    PROVE  /\ MessageTypes' /\ MessagesOK'
           /\ UNCHANGED <<calls, status, events>>
           /\ consoles' \in {consoles, consoles \union {m}, consoles \ {m}}
<1> USE AgentConstants DEF MessageTypes, MessagesOK
<1> DEFINE Kept == /\ MessageTypes' /\ MessagesOK'
                   /\ UNCHANGED <<calls, status, events>>
                   /\ consoles' \in {consoles, consoles \union {m}, consoles \ {m}}
<1>1. CASE SendSMS(m)
  BY <1>1 DEF SendSMS
<1>2. CASE SmsSees(m)
  <2>1. CASE result[m] = "success" /\ EndSms(m, "accepted")
    BY <1>2, <2>1 DEF SmsSees, EndSms
  <2>2. CASE /\ result[m] = "rejected" /\ sms' = [sms EXCEPT ![m] = "fallback"]
             /\ consoles' = consoles \ {m} /\ UNCHANGED rilMu
    BY <1>2, <2>2 DEF SmsSees
  <2> QED BY <1>2, <2>1, <2>2 DEF SmsSees
<1>3. CASE SmsGivesUp(m) \/ AtGivesUp(m)
  BY <1>3 DEF SmsGivesUp, AtGivesUp, EndSms
<1>4. CASE AtSends(m)
  <2>1. /\ attempt'[m] = attempt[m] + 1 /\ attempt' \in [Messages -> 0 .. Attempts]
        /\ \A k \in Messages \ {m} : attempt'[k] = attempt[k]
        /\ sms[m] = "fallback" /\ UNCHANGED <<calls, result, status, events>>
        /\ attempt[m] \in Nat /\ sent[m] \in Nat /\ unseen[m] \in Nat
    BY <1>4 DEF AtSends
  <2>2. CASE sent' = [sent EXCEPT ![m] = @ + 1] /\ EndSms(m, "accepted") /\ UNCHANGED unseen
    <3>1. sent'[m] = sent[m] + 1 /\ sent' \in [Messages -> Nat]
          /\ \A k \in Messages \ {m} : sent'[k] = sent[k]
      BY <2>1, <2>2
    <3>2. MessageTypes'
      BY <2>1, <2>2 DEF EndSms
    <3>3. sms'[m] = "accepted" /\ \A k \in Messages \ {m} : sms'[k] = sms[k]
      BY <2>2 DEF EndSms
    <3>4. MessagesOK'
      BY <2>1, <2>2, <3>1, <3>3
    <3> QED BY <2>1, <2>2, <3>2, <3>4 DEF EndSms
  <2>3. CASE /\ sent' = [sent EXCEPT ![m] = @ + 1] /\ unseen' = [unseen EXCEPT ![m] = @ + 1]
             /\ UNCHANGED <<sms, rilMu, consoles>>
    <3>1. /\ sent'[m] = sent[m] + 1 /\ sent' \in [Messages -> Nat]
          /\ unseen'[m] = unseen[m] + 1 /\ unseen' \in [Messages -> Nat]
          /\ \A k \in Messages \ {m} : sent'[k] = sent[k] /\ unseen'[k] = unseen[k]
      BY <2>1, <2>3
    <3>2. MessageTypes'
      BY <2>1, <2>3
    <3>3. MessagesOK'
      BY <2>1, <2>3, <3>1
    <3> QED BY <2>1, <2>3, <3>2, <3>3
  <2>4. CASE UNCHANGED <<sent, unseen, sms, rilMu, consoles>>
    <3>1. MessageTypes' /\ MessagesOK'
      BY <2>1, <2>4
    <3> QED BY <2>1, <2>4, <3>1
  <2> QED BY <1>4, <2>2, <2>3, <2>4 DEF AtSends
<1>5. CASE Submits(m)
  <2>1. CASE result' = [result EXCEPT ![m] = "success"] /\ sent' = [sent EXCEPT ![m] = @ + 1]
    <3>1. /\ sms[m] = "asked" /\ sent[m] = 0 /\ unseen[m] = 0 /\ sent'[m] = 1
          /\ \A k \in Messages \ {m} : sent'[k] = sent[k] /\ result'[k] = result[k]
          /\ sent' \in [Messages -> Nat]
      BY <1>5, <2>1 DEF Submits
    <3> QED BY <1>5, <2>1, <3>1 DEF Submits
  <2>2. CASE result' = [result EXCEPT ![m] = "rejected"] /\ UNCHANGED sent
    BY <1>5, <2>2 DEF Submits
  <2> QED BY <1>5, <2>1, <2>2 DEF Submits
<1> QED BY <1>1, <1>2, <1>3, <1>4, <1>5 DEF SmsStep

-----------------------------------------------------------------------------
(* Events.                                                                 *)

EventTypes ==
    /\ seq \in Nat /\ cursor \in Nat /\ origin \in {"this", "gone"}
    /\ stream \in {"off", "missing", "open"}
    /\ queue \subseteq 1 .. seq /\ excused \subseteq 1 .. seq

StatusTypes ==
    /\ refresh \in [Refreshers -> {"idle", "queued", "asking", "known"}]
    /\ left \in [Refreshers -> Nat] /\ \A f \in Refreshers : left[f] \in 0 .. Rounds[f]

\* What Since still has reaches back to the cursor of every client it does not refuse.
LEMMA KnownReachesBack ==
    ASSUME EventTypes, Known(cursor), cursor <= seq PROVE \A e \in cursor + 1 .. seq : e \in Entries
<1> DEFINE first == IF seq > Limit THEN seq - Limit + 1 ELSE 1
<1>1. ASSUME seq > 0 PROVE first \in Entries /\ first - 1 \notin Entries
  BY <1>1, AgentConstants DEF Entries, EventTypes
<1>2. ASSUME seq > 0 PROVE cursor >= first - 1
  BY <1>1, <1>2 DEF Known
<1>3. ASSUME NEW e \in cursor + 1 .. seq PROVE e \in Entries
  <2>1. seq > 0 /\ e >= first
    BY <1>2, <1>3, AgentConstants DEF EventTypes
  <2> QED BY <1>3, <2>1, AgentConstants DEF Entries, EventTypes
<1> QED BY <1>3

LEMMA StreamKeeps ==
    ASSUME EventTypes, EventsOK, Stream
    PROVE  EventTypes' /\ EventsOK'
<1> USE DEF EventTypes, EventsOK
<1>1. CASE Connect
  <2>1. queue' \subseteq 1 .. seq /\ \A e \in queue' : e > cursor
    BY <1>1 DEF Connect, Entries
  <2>2. ASSUME NEW e \in queue', NEW x \in e .. seq PROVE x \in queue'
    BY <1>1, <2>1, <2>2, AgentConstants DEF Connect, Entries
  <2>3. origin = "this" => \A e \in cursor + 1 .. seq : e \in queue'
    BY <1>1, KnownReachesBack DEF Connect
  <2> QED BY <1>1, <2>1, <2>2, <2>3 DEF Connect
<1>2. CASE Subscribe
  BY <1>2 DEF Subscribe
<1>3. CASE Write
  <2>1. PICK e \in queue : (\A x \in queue : e <= x) /\ queue' = queue \ {e} /\ cursor' = e
    BY <1>3 DEF Write
  <2>2. UNCHANGED <<seq, stream, excused>> /\ origin' = "this"
    BY <1>3 DEF Write
  <2>3. e \in 1 .. seq /\ stream # "off" /\ \A x \in e .. seq : x \in queue \union excused
    BY <2>1
  <2>4. \A x \in e + 1 .. seq : x \in e .. seq /\ x # e
    BY <2>3
  <2>5. \A x \in e + 1 .. seq : x \in queue' \union excused'
    BY <2>1, <2>2, <2>3, <2>4
  <2>6. \A x \in queue' : x > e /\ x \in 1 .. seq
    BY <2>1, <2>3
  <2>7. \A q \in queue' : \A x \in q .. seq : x \in e + 1 .. seq
    BY <2>3, <2>6
  <2> QED BY <2>1, <2>2, <2>3, <2>5, <2>6, <2>7
<1>4. CASE Disconnect
  BY <1>4 DEF Disconnect
<1> QED BY <1>1, <1>2, <1>3, <1>4 DEF Stream

LEMMA AppendKeeps ==
    ASSUME EventTypes, EventsOK, NEW f \in Refreshers, Append(f)
    PROVE  EventTypes' /\ EventsOK'
<1> USE DEF EventTypes, EventsOK
<1>1. /\ seq' = seq + 1 /\ UNCHANGED <<stream, cursor, origin>>
      /\ \/ stream = "open" /\ queue' = queue \union {seq'} /\ excused' = excused
         \/ queue' = queue /\ excused' = excused \union {seq'}
  BY DEF Append
<1>2. seq \in Nat /\ cursor \in Nat /\ \A e \in 1 .. seq : e \in 1 .. seq + 1
  OBVIOUS
<1>3. queue' \subseteq queue \union {seq + 1} /\ excused' \subseteq excused \union {seq + 1}
  BY <1>1
<1>4. EventTypes'
  BY <1>1, <1>2, <1>3
<1>5. \A e \in queue \union excused \union {seq + 1} : e \in queue' \union excused'
                                                   \/ e = seq + 1
  BY <1>1
<1>6. seq + 1 \in queue' \union excused'
  BY <1>1
<1>7. ASSUME NEW e \in queue', NEW x \in e .. seq' PROVE x \in queue' \union excused'
  <2>1. e \in queue \/ e = seq + 1
    BY <1>3
  <2>2. CASE x = seq + 1
    BY <1>6, <2>2
  <2>3. CASE x # seq + 1
    <3>1. e \in queue /\ x \in e .. seq
      BY <1>1, <1>2, <1>7, <2>1, <2>3
    <3> QED BY <1>1, <3>1
  <2> QED BY <2>2, <2>3
<1>8. ASSUME origin' = "this", stream' # "off", NEW e \in cursor' + 1 .. seq'
      PROVE  e \in queue' \union excused'
  <2>1. e = seq + 1 \/ e \in cursor + 1 .. seq
    BY <1>1, <1>8
  <2>2. CASE e \in cursor + 1 .. seq
    <3>1. e \in queue \union excused
      BY <1>1, <1>8, <2>2
    <3> QED BY <1>1, <3>1
  <2> QED BY <1>6, <2>1, <2>2
<1>9. ASSUME origin' = "this" PROVE cursor' <= seq' /\ \A e \in queue' : e > cursor'
  <2>1. cursor <= seq /\ \A e \in queue : e > cursor
    BY <1>1, <1>9
  <2> QED BY <1>1, <1>2, <1>3, <2>1
<1>10. stream' = "off" => queue' = {}
  BY <1>1
<1> QED BY <1>4, <1>7, <1>8, <1>9, <1>10

LEMMA RefreshStepKeeps ==
    ASSUME StatusTypes, MessageTypes, MessagesOK, EventTypes, EventsOK,
           NEW f \in Refreshers, RefreshStep(f)
    PROVE  /\ StatusTypes' /\ MessageTypes' /\ MessagesOK' /\ EventTypes' /\ EventsOK'
           /\ UNCHANGED calls
           /\ consoles' \in {consoles, consoles \union {f}, consoles \ {f}}
<1>1. StatusTypes'
  BY AgentConstants
  DEF StatusTypes, RefreshStep, Refresh, RefreshAsks, RefreshHears, Append
<1>2. /\ UNCHANGED <<calls, messages>>
      /\ consoles' \in {consoles, consoles \union {f}, consoles \ {f}}
      /\ rilMu' \in {rilMu, f, None}
      /\ UNCHANGED events \/ Append(f)
  BY DEF RefreshStep, Refresh, RefreshAsks, RefreshHears, Append
<1>3. MessageTypes' /\ MessagesOK'
  BY <1>2 DEF MessageTypes, MessagesOK, messages
<1>4. EventTypes' /\ EventsOK'
  BY <1>2, AppendKeeps DEF EventTypes, EventsOK, events
<1> QED BY <1>1, <1>2, <1>3, <1>4

-----------------------------------------------------------------------------
(* The invariant, and what follows from it.                                *)

\* An agent that is started again knows of no call, no message and no event.
LEMMA RestartKeeps ==
    ASSUME CallTypes, CallsOK, MessageTypes, MessagesOK, EventTypes, EventsOK, StatusTypes,
           Restart
    PROVE  /\ CallTypes' /\ CallsOK' /\ MessageTypes' /\ MessagesOK' /\ StatusTypes'
           /\ EventTypes' /\ EventsOK' /\ consoles' = {}
<1>1. CallTypes' /\ CallsOK'
  BY AgentConstants DEF CallTypes, CallsOK, Restart
<1>2. MessageTypes' /\ MessagesOK'
  BY DEF MessageTypes, MessagesOK, Restart
<1>3. EventTypes' /\ EventsOK'
  BY DEF EventTypes, EventsOK, Restart
<1>4. StatusTypes' /\ consoles' = {}
  BY DEF StatusTypes, Restart
<1> QED BY <1>1, <1>2, <1>3, <1>4

LEMMA RestartsCounted ==
    ASSUME restarts \in 0 .. MaxRestarts, [Next]_vars PROVE restarts' \in 0 .. MaxRestarts
<1>1. CASE Restart
  BY <1>1, AgentConstants DEF Restart
<1>2. ASSUME NEW d \in Dials, DialStep(d) \/ Radio(d) PROVE UNCHANGED restarts
  BY <1>2 DEF DialStep, Dial, DialSees, DialFails, Radio, RadioCalls, RadioEnds
<1>3. ASSUME NEW h \in Hangups, HangupStep(h) PROVE UNCHANGED restarts
  BY <1>3 DEF HangupStep, Hangup, HangupStops
<1>4. ASSUME NEW m \in Messages, SmsStep(m) \/ Submits(m) PROVE UNCHANGED restarts
  BY <1>4 DEF SmsStep, SendSMS, SmsSees, SmsGivesUp, AtSends, AtGivesUp, Submits
<1>5. ASSUME NEW f \in Refreshers, RefreshStep(f) PROVE UNCHANGED restarts
  BY <1>5 DEF RefreshStep, Refresh, RefreshAsks, RefreshHears, Append
<1>6. Stream \/ UNCHANGED vars => UNCHANGED restarts
  BY DEF Stream, Connect, Subscribe, Write, Disconnect, vars
<1> QED BY <1>1, <1>2, <1>3, <1>4, <1>5, <1>6 DEF Next

LEMMA TypesTogether ==
    TypeOK /\ left \in [Refreshers -> Nat] <=>
        /\ restarts \in 0 .. MaxRestarts
        /\ CallTypes /\ MessageTypes /\ EventTypes /\ StatusTypes
        /\ consoles \subseteq Dials \union Messages \union Refreshers
        /\ \A m \in Messages : sent[m] \in 0 .. Attempts + 1 /\ unseen[m] \in 0 .. Attempts
BY DEF TypeOK, CallTypes, MessageTypes, EventTypes, StatusTypes

LEMMA NextKeeps == IInv /\ [Next]_vars => IInv'
<1> SUFFICES ASSUME IInv, [Next]_vars
             PROVE  /\ CallTypes' /\ MessageTypes' /\ EventTypes' /\ StatusTypes'
                    /\ consoles' \subseteq Dials \union Messages \union Refreshers
                    /\ CallsOK' /\ MessagesOK' /\ EventsOK'
  <2> USE AgentConstants
      DEF CallTypes, MessageTypes, EventTypes, StatusTypes, CallsOK, MessagesOK, EventsOK
  <2>1. ASSUME MessageTypes', MessagesOK'
        PROVE  \A m \in Messages : sent'[m] \in 0 .. Attempts + 1 /\ unseen'[m] \in 0 .. Attempts
    BY <2>1
  <2>2. ASSUME IInv, [Next]_vars PROVE restarts' \in 0 .. MaxRestarts
    <3>1. restarts \in 0 .. MaxRestarts
      BY ONLY <2>2 DEF IInv, TypeOK
    <3> QED BY ONLY <2>2, <3>1, RestartsCounted
  <2> QED BY <2>1, <2>2 DEF IInv, TypeOK
<1>1. /\ CallTypes /\ MessageTypes /\ EventTypes /\ StatusTypes
      /\ consoles \subseteq Dials \union Messages \union Refreshers
      /\ CallsOK /\ MessagesOK /\ EventsOK
  BY TypesTogether DEF IInv
<1>2. ASSUME UNCHANGED <<messages, status, events, rilMu>>, CallTypes', CallsOK',
             consoles' \subseteq Dials \union Messages \union Refreshers
      PROVE  /\ CallTypes' /\ MessageTypes' /\ EventTypes' /\ StatusTypes'
             /\ consoles' \subseteq Dials \union Messages \union Refreshers
             /\ CallsOK' /\ MessagesOK' /\ EventsOK'
  BY <1>1, <1>2
  DEF messages, status, events, MessageTypes, EventTypes, StatusTypes, MessagesOK, EventsOK
<1>3. ASSUME NEW d \in Dials, DialStep(d) \/ Radio(d)
      PROVE  /\ UNCHANGED <<messages, status, events, rilMu>> /\ CallTypes' /\ CallsOK'
             /\ consoles' \subseteq Dials \union Messages \union Refreshers
  <2>1. CallTypes' /\ CallsOK'
    BY <1>1, <1>3, DialKeeps, DialFailsKeeps, DialSeesKeeps, RadioKeeps DEF DialStep
  <2>2. /\ UNCHANGED <<messages, status, events, rilMu>>
        /\ consoles' \subseteq Dials \union Messages \union Refreshers
    BY <1>1, <1>3 DEF DialStep, Dial, DialSees, DialFails, Stop, Radio, RadioCalls, RadioEnds
  <2> QED BY <2>1, <2>2
<1>4. ASSUME NEW h \in Hangups, HangupStep(h)
      PROVE  /\ UNCHANGED <<messages, status, events, rilMu>> /\ CallTypes' /\ CallsOK'
             /\ consoles' \subseteq Dials \union Messages \union Refreshers
  <2>1. CallTypes' /\ CallsOK'
    BY <1>1, <1>4, HangupKeeps, HangupStopsKeeps DEF HangupStep
  <2>2. /\ UNCHANGED <<messages, status, events, rilMu>>
        /\ consoles' \subseteq Dials \union Messages \union Refreshers
    BY <1>1, <1>4 DEF HangupStep, Hangup, HangupStops, Stop
  <2> QED BY <2>1, <2>2
<1>5. ASSUME NEW m \in Messages, SmsStep(m) \/ Submits(m)
      PROVE  /\ CallTypes' /\ MessageTypes' /\ EventTypes' /\ StatusTypes'
             /\ consoles' \subseteq Dials \union Messages \union Refreshers
             /\ CallsOK' /\ MessagesOK' /\ EventsOK'
  <2>1. /\ MessageTypes' /\ MessagesOK' /\ UNCHANGED <<calls, status, events>>
        /\ consoles' \in {consoles, consoles \union {m}, consoles \ {m}}
    BY <1>1, <1>5, SmsKeeps
  <2>2. CallTypes' /\ CallsOK'
    BY <1>1, <2>1, ElsewhereKeepsCalls, AgentConstants
  <2>3. EventTypes' /\ StatusTypes' /\ EventsOK'
    BY <1>1, <2>1 DEF status, events, EventTypes, StatusTypes, EventsOK
  <2> QED BY <1>1, <2>1, <2>2, <2>3
<1>6. ASSUME NEW f \in Refreshers, RefreshStep(f)
      PROVE  /\ CallTypes' /\ MessageTypes' /\ EventTypes' /\ StatusTypes'
             /\ consoles' \subseteq Dials \union Messages \union Refreshers
             /\ CallsOK' /\ MessagesOK' /\ EventsOK'
  <2>1. /\ StatusTypes' /\ MessageTypes' /\ MessagesOK' /\ EventTypes' /\ EventsOK'
        /\ UNCHANGED calls /\ consoles' \in {consoles, consoles \union {f}, consoles \ {f}}
    BY <1>1, <1>6, RefreshStepKeeps
  <2>2. CallTypes' /\ CallsOK'
    BY <1>1, <2>1, ElsewhereKeepsCalls, AgentConstants
  <2> QED BY <1>1, <2>1, <2>2
<1>7. CASE Stream
  <2>1. UNCHANGED <<calls, messages, status, rilMu, consoles>>
    BY <1>7 DEF Stream, Connect, Subscribe, Write, Disconnect
  <2>2. CallTypes' /\ CallsOK' /\ MessageTypes' /\ MessagesOK' /\ StatusTypes'
    BY <1>1, <2>1
    DEF calls, messages, status, CallTypes, CallsOK, MessageTypes, MessagesOK, StatusTypes
  <2> QED BY <1>1, <1>7, <2>1, <2>2, StreamKeeps
<1>8. CASE UNCHANGED vars
  <2>1. CallTypes' /\ CallsOK'
    BY <1>1, <1>8, ElsewhereKeepsCalls DEF vars
  <2> QED BY <1>1, <1>2, <1>8, <2>1 DEF vars
<1>9. CASE Restart
  BY <1>1, <1>9, RestartKeeps
<1> QED BY <1>2, <1>3, <1>4, <1>5, <1>6, <1>7, <1>8, <1>9 DEF Next

THEOREM Invariance == Spec => []IInv
<1>1. Init => IInv
  BY InitHolds
<1>2. IInv /\ [Next]_vars => IInv'
  BY NextKeeps
<1> QED BY <1>1, <1>2, PTL DEF Spec

\* Every variable keeps its type.
THEOREM TypeCorrect == Spec => []TypeOK
<1>1. IInv => TypeOK
  BY DEF IInv
<1> QED BY <1>1, Invariance, PTL

\* The network gets a message once, and once more for each place of the fallback that had
\* handed it over unseen: SendSMS goes to the fallback only after a rejection.
THEOREM Sent == Spec => []SentOnce
<1>1. IInv => SentOnce
  BY DEF IInv, MessagesOK, SentOnce
<1> QED BY <1>1, Invariance, PTL

\* A call that was answered as accepted stays with the adapter or with the one request to
\* hang up that took it, whatever Dial, Hangup and the modem do between each other's steps.
THEOREM Held == Spec => []CallsAreHeld
<1>1. IInv => CallsAreHeld
  BY AgentConstants DEF IInv, CallsOK, CallsAreHeld, TypeOK
<1> QED BY <1>1, Invariance, PTL

\* A client with a cursor of this agent gets the events in their order, and misses none but
\* those that were appended before its handler had a channel or while that was full.
THEOREM NoHoles == Spec => NoSilentHoles
<1> DEFINE Step == cursor' # cursor /\ origin = "this" =>
                      /\ cursor' > cursor
                      /\ \A e \in cursor + 1 .. cursor' - 1 : e \in excused
<1>1. IInv /\ [Next]_vars => Step \/ UNCHANGED vars
  <2> SUFFICES ASSUME IInv, [Next]_vars, cursor' # cursor, origin = "this" PROVE Step
    OBVIOUS
  <2>1. Write
    BY DEF Next, DialStep, Dial, DialSees, DialFails, Radio, RadioCalls, RadioEnds, HangupStep,
           Hangup, HangupStops, SmsStep, SendSMS, SmsSees, SmsGivesUp, AtSends, AtGivesUp,
           Submits, RefreshStep, Refresh, RefreshAsks, RefreshHears, Append, Stream, Connect,
           Subscribe, Disconnect, Restart, vars, events
  <2>2. PICK e \in queue : (\A x \in queue : e <= x) /\ cursor' = e
    BY <2>1 DEF Write
  <2>3. stream # "off" /\ e \in 1 .. seq /\ e > cursor
    BY <2>2 DEF IInv, EventsOK, TypeOK
  <2>4. \A x \in cursor + 1 .. e - 1 : x \in cursor + 1 .. seq /\ ~(e <= x)
    BY <2>3 DEF IInv, TypeOK
  <2>5. \A x \in cursor + 1 .. seq : x \in queue \union excused
    BY <2>3 DEF IInv, EventsOK
  <2> QED BY <2>2, <2>3, <2>4, <2>5
<1> QED BY <1>1, Invariance, PTL DEF Spec, NoSilentHoles
=============================================================================
