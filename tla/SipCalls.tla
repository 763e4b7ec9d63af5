------------------------------ MODULE SipCalls ------------------------------
(***************************************************************************)
(* Calls over SIP: the handlers of sip/server.go, each datagram in a       *)
(* goroutine of its own, and the call sessions of sip/session.go, which    *)
(* share the map of sessions, the one line of the modem and the one audio  *)
(* device, also with the calls of the API and those that come in.          *)
(*                                                                         *)
(* A session is named after the INVITE whose handler made it: one that is  *)
(* retransmitted has the Call-ID of another.  ringClients makes a session  *)
(* too, which no handler ever takes further.                               *)
(***************************************************************************)
EXTENDS Integers

CONSTANTS
    Invites,     \* INVITE requests
    CallIDs,
    CallID,      \* the Call-ID of an INVITE
    Ring,        \* the session of an incoming call, and its Call-ID
    Incoming,    \* an incoming cellular call
    ApiCall,     \* a call that was dialled through the API
    None,
    MaxFaults    \* bound: AT commands that fail or miss their deadline

ASSUME SipConstants ==
    /\ CallID \in [Invites -> CallIDs] /\ Ring \notin CallIDs \union Invites
    /\ None \notin Invites \union CallIDs \union {Ring, Incoming, ApiCall}
    /\ Invites \intersect (CallIDs \union {Incoming, ApiCall}) = {}
    /\ MaxFaults \in Nat

Sessions == Invites \union {Ring}
Keys == CallIDs \union {Ring}
KeyOf(s) == IF s = Ring THEN Ring ELSE CallID[s]

\* Who hangs sessions up: the handler of an INVITE (stale sessions, and its own) and that of
\* a BYE or CANCEL, named after its Call-ID.
Actors == Invites \union CallIDs

VARIABLES
    sessions,   \* Server.sessions
    at,         \* where the handler of an INVITE, or its goroutine, is
    bye,        \* the Call-IDs for which a BYE or CANCEL is at work
    stale,      \* stale[x]: the Call-IDs that x still has to hang up
    victim,     \* victim[x]: the session that x is hanging up
    cancelled,  \* sessions that were hung up: their context is cancelled
    bridge,     \* sessions whose bridge is started
    device,     \* the Call-ID that has the audio device
    active,     \* the call the adapters believe the line to have
    cell,       \* the call the modem has
    up,         \* it was answered
    past,       \* INVITEs whose Call-ID was not in the map: their handlers dial
    faults

line == <<active, cell, up>>
media == <<cancelled, bridge, device>>
hangup == <<stale, victim, bye>>
vars == <<sessions, at, hangup, media, line, past, faults>>

Steps == {"idle", "reap", "ready", "dial", "fail", "store", "await", "bridge", "spawn", "start",
          "hangup", "done"}
Calls == Invites \union {Incoming, ApiCall}

TypeOK ==
    /\ up \in BOOLEAN
    /\ sessions \in [Keys -> Sessions \union {None}]
    /\ at \in [Invites -> Steps] /\ bye \subseteq CallIDs
    /\ stale \in [Actors -> SUBSET Keys] /\ victim \in [Actors -> Sessions \union {None}]
    /\ cancelled \subseteq Sessions /\ bridge \subseteq Invites
    /\ device \in CallIDs \union {None}
    /\ {active, cell} \subseteq Calls \union {None}
    /\ past \subseteq Invites /\ faults \in 0..MaxFaults

Init ==
    /\ up = FALSE
    /\ sessions = [k \in Keys |-> None] /\ at = [h \in Invites |-> "idle"] /\ bye = {}
    /\ stale = [x \in Actors |-> {}] /\ victim = [x \in Actors |-> None]
    /\ cancelled = {} /\ bridge = {} /\ device = None
    /\ active = None /\ cell = None /\ past = {} /\ faults = 0

Goes(h, from, to) == at[h] = from /\ at' = [at EXCEPT ![h] = to]
Fault == faults < MaxFaults /\ faults' = faults + 1

-----------------------------------------------------------------------------
(* The line: the modem and both adapters.                                  *)

OutgoingIsUp == cell \in Invites \union {ApiCall} /\ up

RemoteAnswers ==
    /\ cell \in Invites \union {ApiCall} /\ ~up /\ up' = TRUE
    /\ UNCHANGED <<sessions, at, hangup, media, active, cell, past, faults>>

RemoteEnds ==
    /\ cell # None /\ cell' = None /\ up' = FALSE
    /\ active' = IF active = cell THEN None ELSE active
    /\ UNCHANGED <<sessions, at, hangup, media, past, faults>>

\* A call of the API, or one that comes in and that ringClients offers to the clients.
OtherCall(c) ==
    /\ c \in {Incoming, ApiCall} /\ cell = None /\ active = None
    /\ cell' = c /\ active' = c /\ up' = FALSE
    /\ \/ /\ c = Incoming /\ sessions[Ring] = None /\ Ring \notin cancelled
          /\ sessions' = [sessions EXCEPT ![Ring] = Ring]
       \/ c = ApiCall /\ UNCHANGED sessions
    /\ UNCHANGED <<at, hangup, media, past, faults>>

-----------------------------------------------------------------------------
(* SIPCallSession.Hangup, which ends whatever call the line has.           *)

\* Mutant: a bridge that was never started is stopped all the same.
HangupAnyBridge(x, s) ==
    /\ victim' = [victim EXCEPT ![x] = s]
    /\ cancelled' = cancelled \union {s} /\ bridge' = bridge \ {s} /\ device' = None

\* The context is cancelled and the bridge is stopped, by the first hangup of the session only
\* and when it is started: one that is still starting is left alone.
HangupBridge(x, s) ==
    /\ victim' = [victim EXCEPT ![x] = s]
    /\ cancelled' = cancelled \union {s}
    /\ IF s \in bridge \ cancelled
       THEN bridge' = bridge \ {s} /\ device' = None
       ELSE UNCHANGED <<bridge, device>>

\* ATH, when the adapters know of a call; then the media and the map.
HangupLine(x, key) ==
    /\ \/ active # None /\ active' = None /\ cell' = None /\ up' = FALSE /\ UNCHANGED faults
       \/ active = None /\ UNCHANGED <<line, faults>>
       \/ active # None /\ Fault /\ UNCHANGED line
    /\ victim' = [victim EXCEPT ![x] = None]
    /\ sessions' = [sessions EXCEPT ![key] = None]
    /\ UNCHANGED <<cancelled, bridge, device>>

\* reapStaleSessions, one Call-ID of their list after the other.
Reap(x) ==
    /\ stale[x] # {} /\ victim[x] = None
    /\ \E k \in stale[x] :
          \/ sessions[k] # None /\ HangupBridge(x, sessions[k]) /\ UNCHANGED stale
          \/ /\ sessions[k] = None /\ stale' = [stale EXCEPT ![x] = @ \ {k}]
             /\ UNCHANGED <<victim, media>>
    /\ UNCHANGED <<sessions, at, bye, line, past, faults>>

Reaped(x) ==
    /\ stale[x] # {} /\ victim[x] # None
    /\ HangupLine(x, KeyOf(victim[x]))
    /\ stale' = [stale EXCEPT ![x] = @ \ {KeyOf(victim[x])}]
    /\ UNCHANGED <<at, bye, past>>

Mapped == {k \in Keys : sessions[k] # None}

-----------------------------------------------------------------------------
(* handleInvite and the goroutine it leaves.                               *)

\* 403 without a registration, the state of a session that is in the map, or on to the dial.
Invite(h) ==
    /\ at[h] = "idle"
    /\ \/ Goes(h, "idle", "done") /\ UNCHANGED <<stale, past>>
       \/ /\ sessions[CallID[h]] = None
          /\ Goes(h, "idle", "reap") /\ stale' = [stale EXCEPT ![h] = Mapped]
          /\ past' = past \union {h}
    /\ UNCHANGED <<sessions, victim, bye, media, line, faults>>

\* Nothing is left to reap: 180, then WaitReady and PrepareRoute, which may fail.
Prepare(h) ==
    /\ stale[h] = {}
    /\ \/ Goes(h, "reap", "ready") /\ UNCHANGED faults
       \/ Goes(h, "ready", "dial") /\ UNCHANGED faults
       \/ Goes(h, "ready", "fail") /\ Fault
    /\ UNCHANGED <<sessions, hangup, media, line, past>>

\* ATD: refused by the adapter or by the modem, accepted, or past its deadline, with or
\* without a call.
Dial(h) ==
    /\ \/ /\ (active # None \/ cell # None)
          /\ Goes(h, "dial", "fail") /\ UNCHANGED <<line, faults>>
       \/ /\ active = None /\ cell = None /\ cell' = h /\ up' = FALSE
          /\ \/ Goes(h, "dial", "store") /\ active' = h /\ UNCHANGED faults
             \/ Goes(h, "dial", "fail") /\ Fault /\ UNCHANGED active
       \/ Goes(h, "dial", "fail") /\ Fault /\ UNCHANGED line
    /\ UNCHANGED <<sessions, hangup, media, past>>

\* 500, and the Call-ID leaves the map.
DialFailed(h) ==
    /\ Goes(h, "fail", "done")
    /\ sessions' = [sessions EXCEPT ![CallID[h]] = None]
    /\ UNCHANGED <<hangup, cancelled, bridge, device, line, past, faults>>

Store(h) ==
    /\ Goes(h, "store", "await")
    /\ sessions' = [sessions EXCEPT ![CallID[h]] = h]
    /\ UNCHANGED <<hangup, media, line, past, faults>>

\* AwaitBridge: any outgoing call that is up ends the wait, and nothing but answerTimeout
\* ends it otherwise, the hangup of the session included.
WaitActive(h) ==
    /\ \/ OutgoingIsUp /\ Goes(h, "await", "bridge")
       \/ Goes(h, "await", "hangup")
    /\ UNCHANGED <<sessions, hangup, media, line, past, faults>>

\* Bridge.Start looks at the context of the session, and takes the device, which is free or has
\* its Call-ID already.
BridgeTakes(h) ==
    /\ \/ /\ h \notin cancelled /\ device = None /\ device' = CallID[h]
          /\ Goes(h, "bridge", "spawn") /\ UNCHANGED faults
       \/ /\ h \notin cancelled /\ device = CallID[h]
          /\ Goes(h, "bridge", "start") /\ UNCHANGED <<device, faults>>
       \/ /\ h \in cancelled \/ device \notin {None, CallID[h]}
          /\ Goes(h, "bridge", "hangup") /\ UNCHANGED <<device, faults>>
       \/ Goes(h, "bridge", "hangup") /\ Fault /\ UNCHANGED device
    /\ UNCHANGED <<sessions, hangup, cancelled, bridge, line, past>>

\* The processes are started, or one cannot be and the device is given back.
BridgeSpawns(h) ==
    /\ \/ Goes(h, "spawn", "start") /\ UNCHANGED <<device, faults>>
       \/ /\ Goes(h, "spawn", "hangup") /\ Fault
          /\ device' = IF device = CallID[h] THEN None ELSE device
    /\ UNCHANGED <<sessions, hangup, cancelled, bridge, line, past>>

\* The bridge is marked as started, whatever happened to its session; then 200.
BridgeStarts(h) ==
    /\ Goes(h, "start", "done") /\ bridge' = bridge \union {h}
    /\ UNCHANGED <<sessions, hangup, cancelled, device, line, past, faults>>

BridgeStart(h) == BridgeTakes(h) \/ BridgeSpawns(h) \/ BridgeStarts(h)

\* Mutant: the session leaves the map and the line is left to the other side.
GiveUpQuietly(h) ==
    /\ Goes(h, "hangup", "done") /\ stale[h] = {}
    /\ sessions' = [sessions EXCEPT ![CallID[h]] = None]
    /\ UNCHANGED <<hangup, media, line, past, faults>>

\* The call was not answered or has no bridge: the goroutine hangs its session up.
GiveUp(h) ==
    /\ at[h] = "hangup" /\ stale[h] = {}
    /\ \/ /\ victim[h] = None /\ HangupBridge(h, h) /\ UNCHANGED <<at, sessions, line, faults>>
       \/ /\ victim[h] = h /\ HangupLine(h, CallID[h]) /\ Goes(h, "hangup", "done")
    /\ UNCHANGED <<stale, bye, past>>

\* The reply to a BYE or CANCEL is 200, whether there is a session to hang up or not.
Bye(k) ==
    /\ k \notin bye /\ sessions[k] # None
    /\ bye' = bye \union {k} /\ HangupBridge(k, sessions[k])
    /\ UNCHANGED <<sessions, at, stale, line, past, faults>>

ByeEnds(k) ==
    /\ k \in bye /\ bye' = bye \ {k} /\ HangupLine(k, k)
    /\ UNCHANGED <<at, stale, past>>

HandleInvite(h) ==
    \/ Invite(h) \/ Reap(h) \/ Reaped(h) \/ Prepare(h) \/ Dial(h) \/ DialFailed(h) \/ Store(h)

AwaitBridge(h) == WaitActive(h) \/ BridgeStart(h) \/ GiveUp(h)

Next ==
    \/ RemoteAnswers \/ RemoteEnds \/ OtherCall(Incoming) \/ OtherCall(ApiCall)
    \/ \E h \in Invites : HandleInvite(h) \/ AwaitBridge(h)
    \/ \E k \in CallIDs : Bye(k) \/ ByeEnds(k)

Spec == Init /\ [][Next]_vars

-----------------------------------------------------------------------------
(* Properties                                                              *)

\* A goroutine that will still store session s or hang it up, whatever the clients do.
Attended(s) ==
    \/ at[s] \in {"store", "hangup"}
    \/ \E x \in Actors : victim[x] = s

\* Another INVITE with the same Call-ID was taken for a new call.
Doubled(s) == \E h \in past \ {s} : CallID[h] = CallID[s]

\* The next BYE, or the next INVITE, finds session s and hangs it up, if nobody does already.
CanBeFound(s) == Attended(s) \/ sessions[CallID[s]] = s

\* Nothing pins the line, and no bridge pins the audio device, whatever handlers overlap: a
\* session that has the line can be found, and so can one with a bridge that was not hung up
\* before its bridge had started.  It does not hold when ATH failed or when an INVITE was
\* retransmitted while it dialled.
CallsCanBeHungUp ==
    \A s \in Invites :
        (active = s \/ s \in bridge \ cancelled) /\ faults = 0 /\ ~Doubled(s) => CanBeFound(s)

\* Not kept by the code (README, Observations).
\* reapStaleSessions (sip/server.go:217): no client that vanished pins the audio device.
\* A hangup that comes while the bridge starts takes the session out of the map, and nobody
\* stops the bridge that it leaves.
DeviceIsNotPinned ==
    \A s \in bridge : faults = 0 /\ ~Doubled(s) => CanBeFound(s)

\* The bridge that is started has the audio device, also one whose session was hung up while
\* others start and stop theirs, so two calls never share it; except one whose Call-ID another
\* session has, and those that start when such a session failed to start its processes.
BridgeHasDevice ==
    \A s \in bridge :
        \/ device = CallID[s] \/ Doubled(s)
        \/ faults > 0 /\ \E t \in past : Doubled(t)
=============================================================================
