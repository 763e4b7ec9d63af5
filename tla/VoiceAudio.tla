----------------------------- MODULE VoiceAudio -----------------------------
(***************************************************************************)
(* The one audio device of the modem and everybody who wants it.  A        *)
(* session is a SIP dialog (sip/session.go) or a WebRTC session of the API *)
(* (api/server.go); each has a bridge of its own (voice/bridge.go).  All   *)
(* bridges share qdc507.Audio (voice/qdc507/audio.go), which keeps the     *)
(* route on the module up, and below it ALSAAudio (voice/alsa.go), which   *)
(* runs one arecord and one aplay.  Both keep a call of their own, and     *)
(* neither holds its lock while it talks to a device, so a step here is    *)
(* one critical section, one command or one frame of sound.                *)
(*                                                                         *)
(* A pair of processes is named by the session that spawned it, and a      *)
(* frame by the pair it was read from or written to.                       *)
(***************************************************************************)
EXTENDS Naturals

CONSTANTS
    Sessions,       \* SIP dialogs and WebRTC sessions, each with its bridge
    Sip,            \* those of the SIP server, whose context a hangup cancels
    Calls, CallOf,  \* CallOf[s]: the identifier s passes to its bridge
    NoCall, NoPair,
    FaultPoints,    \* steps whose failure is explored: "adb", "route", "spawn"
    MaxFaults       \* bound: failures in a behaviour

ASSUME VoiceConstants ==
    /\ Sip \subseteq Sessions /\ CallOf \in [Sessions -> Calls]
    /\ NoCall \notin Calls /\ {NoPair, "off", "read"} \intersect Sessions = {}
    /\ FaultPoints \subseteq {"adb", "route", "spawn"} /\ MaxFaults \in Nat

VARIABLES
    starter,    \* the goroutine that prepares the route for s and starts its bridge
    dialled,    \* whether it has prepared the route and dialled, and now starts the bridge
    closer,     \* the goroutine that stops the bridge of s; sync.Once makes it one
    started,    \* Bridge.started
    qdcCall,    \* qdc507.Audio.call
    prepared,   \* qdc507.Audio.prepared
    recent,     \* qdc507.Audio.lastRotate is less than 30 s ago
    route,      \* a route session runs on the module
    alsaCall,   \* ALSAAudio.call
    pair,       \* ALSAAudio.capture, playback, rx, tx
    stale,      \* the pair a goroutine took out of ALSAAudio to reap it
    alive,      \* pairs whose processes run
    reader,     \* Bridge.readLoop: "off", "read", or the pair its frame is from
    heard,      \* heard[s]: pairs, but its own, whose frames the client of s was sent
    spoken,     \* spoken[s]: pairs, but its own, that were given frames of the client of s
    unclean,    \* a start or a stop could not leave the device as it should
    faults      \* failures so far

qdc == <<qdcCall, prepared, recent, route>>
alsa == <<alsaCall, pair, stale, alive>>
bridge == <<started, reader, heard, spoken>>
vars == <<starter, dialled, closer, qdc, alsa, bridge, unclean, faults>>

StarterStates == {"idle", "check", "ensure", "recent", "forget", "boot", "kill", "launch",
    "ready", "dial", "own", "take", "spawn", "install", "start", "up", "failed"}
CloserStates == {"idle", "stop", "qdc", "alsa", "reap", "done"}

TypeOK ==
    /\ starter \in [Sessions -> StarterStates] /\ closer \in [Sessions -> CloserStates]
    /\ dialled \in [Sessions -> BOOLEAN] /\ started \in [Sessions -> BOOLEAN]
    /\ {prepared, recent, route} \subseteq BOOLEAN
    /\ {qdcCall, alsaCall} \subseteq Calls \union {NoCall}
    /\ pair \in Sessions \union {NoPair} /\ stale \in [Sessions -> Sessions \union {NoPair}]
    /\ alive \subseteq Sessions /\ unclean \in BOOLEAN
    /\ reader \in [Sessions -> Sessions \union {"off", "read"}]
    /\ heard \in [Sessions -> SUBSET Sessions] /\ spoken \in [Sessions -> SUBSET Sessions]
    /\ faults \in 0..MaxFaults

Init ==
    /\ starter = [s \in Sessions |-> "idle"] /\ closer = [s \in Sessions |-> "idle"]
    /\ dialled = [s \in Sessions |-> s \notin Sip] /\ started = [s \in Sessions |-> FALSE]
    /\ qdcCall = NoCall /\ alsaCall = NoCall
    /\ prepared = FALSE /\ recent = FALSE /\ route = FALSE
    /\ pair = NoPair /\ stale = [s \in Sessions |-> NoPair] /\ alive = {}
    /\ reader = [s \in Sessions |-> "off"]
    /\ heard = [s \in Sessions |-> {}] /\ spoken = [s \in Sessions |-> {}]
    /\ unclean = FALSE /\ faults = 0

-----------------------------------------------------------------------------
Busy(s) == starter[s] \notin {"idle", "dial", "up", "failed"}
Closing(s) == closer[s] # "idle"

\* Hangup's first act cancels the context of a SIP session; the bridges of the
\* API run on context.Background().
Cancelled(s) == s \in Sip /\ Closing(s)
Goes(s, from, to) == starter[s] = from /\ starter' = [starter EXCEPT ![s] = to]
Closes(s, from, to) == closer[s] = from /\ closer' = [closer EXCEPT ![s] = to]

\* A step of s fails: by a fault of the world, or because s was cancelled.
Fails(s, point) ==
    \/ Cancelled(s) /\ UNCHANGED faults
    \/ point \in FaultPoints /\ faults < MaxFaults /\ faults' = faults + 1

\* webRTCOffer makes a session unless the map has one for the call, and holds
\* webrtcMu, which closeWebRTC needs too, until the bridge is started.
MutexFree == \A s \in Sessions \ Sip : ~Busy(s)
Unmapped(call) == \A s \in Sessions \ Sip :
    CallOf[s] = call => starter[s] \in {"idle", "failed"} \/ Closing(s)

-----------------------------------------------------------------------------
(* qdc507.Audio: PrepareRoute before a SIP dial, Start from the bridge.    *)

PrepareRoute(s) ==
    /\ s \in Sip /\ ~dialled[s] /\ Goes(s, "idle", "ensure")
    /\ UNCHANGED <<dialled, closer, qdc, alsa, bridge, unclean, faults>>

\* The modem accepted ATD, and the other side answered: AwaitBridge goes on.
Answered(s) ==
    /\ Goes(s, "dial", "check") /\ dialled' = [dialled EXCEPT ![s] = TRUE]
    /\ UNCHANGED <<closer, qdc, alsa, bridge, unclean, faults>>

WebRTCOffer(s) ==
    /\ s \notin Sip /\ MutexFree /\ Unmapped(CallOf[s]) /\ Goes(s, "idle", "check")
    /\ UNCHANGED <<dialled, closer, qdc, alsa, bridge, unclean, faults>>

QdcStart(s) ==
    /\ starter[s] = "check"
    /\ LET free == qdcCall \in {NoCall, CallOf[s]} /\ ~Cancelled(s)
       IN starter' = [starter EXCEPT ![s] = IF free THEN "ensure" ELSE "failed"]
    /\ UNCHANGED <<dialled, closer, qdc, alsa, bridge, unclean, faults>>

\* Where ensureRuntime returns to: PrepareRoute or Start.
Ensured(s) == IF dialled[s] THEN "own" ELSE "dial"

ReadPrepared(s) ==
    /\ Goes(s, "ensure", IF prepared THEN "recent" ELSE "boot")
    /\ UNCHANGED <<dialled, closer, qdc, alsa, bridge, unclean, faults>>

ReadRotation(s) ==
    /\ Goes(s, "recent", IF recent THEN Ensured(s) ELSE "forget")
    /\ UNCHANGED <<dialled, closer, qdc, alsa, bridge, unclean, faults>>

\* A rotation clears `prepared`, and nothing but a whole bootstrap sets it again.
ForgetPrepared(s) ==
    /\ Goes(s, "forget", "kill") /\ prepared' = FALSE
    /\ UNCHANGED <<dialled, closer, qdcCall, recent, route, alsa, bridge, unclean, faults>>

Bootstrap(s) ==
    /\ ~Cancelled(s) /\ Goes(s, "boot", "kill") /\ prepared' = TRUE
    /\ UNCHANGED <<dialled, closer, qdcCall, recent, route, alsa, bridge, unclean, faults>>

BootstrapFails(s) ==
    /\ Goes(s, "boot", "failed") /\ Fails(s, "adb")
    /\ UNCHANGED <<dialled, closer, qdc, alsa, bridge, unclean>>

\* startRemoteRoute kills every route session, whoever started it; what fails
\* here is ignored.
KillRoute(s) ==
    /\ Goes(s, "kill", "launch")
    /\ \/ ~Cancelled(s) /\ route' = FALSE /\ UNCHANGED faults
       \/ Fails(s, "adb") /\ UNCHANGED route
    /\ UNCHANGED <<dialled, closer, qdcCall, prepared, recent, alsa, bridge, unclean>>

LaunchRoute(s) ==
    /\ ~Cancelled(s) /\ Goes(s, "launch", "ready") /\ route' = TRUE
    /\ UNCHANGED <<dialled, closer, qdcCall, prepared, recent, alsa, bridge, unclean, faults>>

\* The ready script finds a route session in the PID file, not necessarily ours.
RouteReady(s) ==
    /\ route /\ ~Cancelled(s) /\ Goes(s, "ready", Ensured(s)) /\ recent' = TRUE
    /\ UNCHANGED <<dialled, closer, qdcCall, prepared, route, alsa, bridge, unclean, faults>>

RouteFails(s) ==
    /\ \/ Goes(s, "launch", "failed") /\ Fails(s, "adb")
       \/ Goes(s, "ready", "failed") /\ Fails(s, "route")
       \/ Goes(s, "ready", "failed") /\ ~route /\ UNCHANGED faults
    /\ UNCHANGED <<dialled, closer, qdc, alsa, bridge, unclean>>

OwnQdc(s) ==
    /\ Goes(s, "own", "take") /\ qdcCall' = CallOf[s]
    /\ UNCHANGED <<dialled, closer, prepared, recent, route, alsa, bridge, unclean, faults>>

\* Thirty seconds pass since the last rotation.
RouteAges ==
    /\ recent /\ recent' = FALSE
    /\ UNCHANGED <<starter, dialled, closer, qdcCall, prepared, route, alsa, bridge, unclean,
                   faults>>

-----------------------------------------------------------------------------
(* ALSAAudio.Start: the lock guards the fields, not the processes.  When   *)
(* it fails, nobody takes the call out of qdc507.Audio again.              *)

TakeRefused(s) ==
    /\ Cancelled(s) \/ alsaCall \notin {NoCall, CallOf[s]}
    /\ Goes(s, "take", "failed") /\ unclean' = TRUE
    /\ UNCHANGED <<dialled, closer, qdc, alsa, bridge, faults>>

TakeAgain(s) ==
    /\ ~Cancelled(s) /\ alsaCall = CallOf[s] /\ Goes(s, "take", "start")
    /\ UNCHANGED <<dialled, closer, qdc, alsa, bridge, unclean, faults>>

Take(s) ==
    /\ ~Cancelled(s) /\ alsaCall = NoCall /\ Goes(s, "take", "spawn")
    /\ alsaCall' = CallOf[s]
    /\ stale' = [stale EXCEPT ![s] = pair] /\ pair' = NoPair
    /\ UNCHANGED <<dialled, closer, qdc, alive, bridge, unclean, faults>>

Spawn(s) ==
    /\ Goes(s, "spawn", "install")
    /\ alive' = (alive \ {stale[s]}) \union {s} /\ stale' = [stale EXCEPT ![s] = NoPair]
    /\ UNCHANGED <<dialled, closer, qdc, alsaCall, pair, bridge, unclean, faults>>

\* arecord or aplay does not start; an arecord that did loses its pipe and ends.
SpawnFails(s) ==
    /\ Goes(s, "spawn", "failed") /\ unclean' = TRUE
    /\ "spawn" \in FaultPoints /\ faults < MaxFaults /\ faults' = faults + 1
    /\ alive' = alive \ {stale[s]} /\ stale' = [stale EXCEPT ![s] = NoPair]
    /\ alsaCall' = IF alsaCall = CallOf[s] THEN NoCall ELSE alsaCall
    /\ UNCHANGED <<dialled, closer, qdc, pair, bridge>>

Install(s) ==
    /\ Goes(s, "install", "start") /\ pair' = s
    /\ UNCHANGED <<dialled, closer, qdc, alsaCall, stale, alive, bridge, unclean, faults>>

\* Bridge.Start after audio.Start returned; a Stop that came before found nothing to do.
BridgeStart(s) ==
    /\ Goes(s, "start", "up") /\ started' = [started EXCEPT ![s] = TRUE]
    /\ reader' = [reader EXCEPT ![s] = "read"]
    /\ UNCHANGED <<dialled, closer, qdc, alsa, heard, spoken, unclean, faults>>

Start(s) ==
    \/ PrepareRoute(s) \/ Answered(s) \/ WebRTCOffer(s) \/ QdcStart(s)
    \/ ReadPrepared(s) \/ ReadRotation(s) \/ ForgetPrepared(s)
    \/ Bootstrap(s) \/ BootstrapFails(s)
    \/ KillRoute(s) \/ LaunchRoute(s) \/ RouteReady(s) \/ RouteFails(s)
    \/ OwnQdc(s) \/ TakeRefused(s) \/ TakeAgain(s) \/ Take(s)
    \/ Spawn(s) \/ SpawnFails(s) \/ Install(s) \/ BridgeStart(s)

-----------------------------------------------------------------------------
(* Stop: of the bridge, which asks qdc507.Audio, which asks ALSAAudio.     *)

\* A SIP session is hung up at any time once it was dialled; closeWebRTC finds
\* the bridges that webRTCOffer has started.
Close(s) ==
    /\ IF s \in Sip THEN starter[s] = "dial" \/ dialled[s]
                    ELSE starter[s] = "up" /\ MutexFree
    /\ Closes(s, "idle", "stop")
    /\ UNCHANGED <<starter, dialled, qdc, alsa, bridge, unclean, faults>>

BridgeStop(s) ==
    /\ Closes(s, "stop", IF started[s] THEN "qdc" ELSE "done")
    /\ started' = [started EXCEPT ![s] = FALSE]
    /\ unclean' = (unclean \/ starter[s] \in {"spawn", "install", "start"})
    /\ UNCHANGED <<starter, dialled, qdc, alsa, reader, heard, spoken, faults>>

\* Mutant: the call stays in qdc507.Audio.
QdcStopKeepsCall(s) ==
    /\ Closes(s, "qdc", IF qdcCall # NoCall THEN "alsa" ELSE "done")
    /\ unclean' = (unclean \/ qdcCall # CallOf[s])
    /\ UNCHANGED <<starter, dialled, qdc, alsa, bridge, faults>>

\* qdc507.Audio.Stop takes the call out, whosever it is.
QdcStop(s) ==
    /\ Closes(s, "qdc", IF qdcCall # NoCall THEN "alsa" ELSE "done")
    /\ qdcCall' = NoCall
    /\ unclean' = (unclean \/ qdcCall # CallOf[s])
    /\ UNCHANGED <<starter, dialled, prepared, recent, route, alsa, bridge, faults>>

\* Mutant: the fields are cleared before the processes were taken out of them.
AlsaStopLosesPair(s) ==
    /\ Closes(s, "alsa", "reap") /\ alsaCall' = NoCall /\ pair' = NoPair
    /\ UNCHANGED <<starter, dialled, qdc, stale, alive, bridge, unclean, faults>>

AlsaStop(s) ==
    /\ Closes(s, "alsa", "reap") /\ alsaCall' = NoCall
    /\ stale' = [stale EXCEPT ![s] = pair] /\ pair' = NoPair
    /\ UNCHANGED <<starter, dialled, qdc, alive, bridge, unclean, faults>>

Reap(s) ==
    /\ Closes(s, "reap", "done")
    /\ alive' = alive \ {stale[s]} /\ stale' = [stale EXCEPT ![s] = NoPair]
    /\ UNCHANGED <<starter, dialled, qdc, alsaCall, pair, bridge, unclean, faults>>

Stop(s) == Close(s) \/ BridgeStop(s) \/ QdcStop(s) \/ AlsaStop(s) \/ Reap(s)

-----------------------------------------------------------------------------
(* The loops of a bridge.                                                  *)

\* ReadPCM reads whatever pair is installed; the loop ends at the first error.
ReadFrame(s) ==
    /\ reader[s] = "read"
    /\ reader' = [reader EXCEPT ![s] =
           IF Cancelled(s) \/ alsaCall = NoCall \/ pair \notin alive THEN "off" ELSE pair]
    /\ UNCHANGED <<starter, dialled, closer, qdc, alsa, started, heard, spoken, unclean, faults>>

\* Mutant: whether the bridge still runs is looked at after the frame was sent.
DeliverAnyway(s) ==
    /\ reader[s] \in Sessions
    /\ reader' = [reader EXCEPT ![s] = IF started[s] THEN "read" ELSE "off"]
    /\ heard' = [heard EXCEPT ![s] = @ \union ({reader[s]} \ {s})]
    /\ UNCHANGED <<starter, dialled, closer, qdc, alsa, started, spoken, unclean, faults>>

\* The frame goes to the client unless the bridge was stopped meanwhile.
DeliverFrame(s) ==
    /\ reader[s] \in Sessions
    /\ reader' = [reader EXCEPT ![s] = IF started[s] THEN "read" ELSE "off"]
    /\ heard' = IF started[s] THEN [heard EXCEPT ![s] = @ \union ({reader[s]} \ {s})] ELSE heard
    /\ UNCHANGED <<starter, dialled, closer, qdc, alsa, started, spoken, unclean, faults>>

\* clientPlaybackLoop writes every 20 ms while the bridge is started, errors or not.
WriteFrame(s) ==
    /\ started[s] /\ ~Cancelled(s) /\ alsaCall # NoCall /\ pair # NoPair
    /\ spoken' = [spoken EXCEPT ![s] = @ \union ({pair} \ {s})]
    /\ UNCHANGED <<starter, dialled, closer, qdc, alsa, started, reader, heard, unclean, faults>>

Loops(s) == ReadFrame(s) \/ DeliverFrame(s) \/ WriteFrame(s)

Next == RouteAges \/ \E s \in Sessions : Start(s) \/ Stop(s) \/ Loops(s)

Spec == Init /\ [][Next]_vars

-----------------------------------------------------------------------------
\* No two sessions of one call have begun; a client that connects again while its former
\* bridge stops shares the device with it.
NoReconnect == \A s, t \in Sessions :
    s # t /\ CallOf[s] = CallOf[t] => "idle" \in {starter[s], starter[t]}

\* Whatever overlaps, the client of a call hears the modem's sound of its own
\* call only, and speaks into its own call only: bridge.go:186 and bridge.go:237
\* check `started`, and the device changes hands only when nobody has it.
NoCrossTalk ==
    NoReconnect =>
        \A s \in Sessions : heard[s] \union spoken[s] = {}

\* A running arecord and aplay can be reached by somebody who will kill them: they
\* are installed, or about to be, or about to be reaped (alsa.go:92, alsa.go:242).
NoOrphanProcess ==
    NoReconnect =>
        \A p \in alive : \/ pair = p \/ starter[p] = "install"
                         \/ \E t \in Sessions : stale[t] = p

\* When all is quiet, the device belongs to nobody, unless a start failed after
\* its qdc507.Audio.call was written, or a stop met a start that was under way
\* or found the call of another session (audio.go:217, audio.go:241, bridge.go:264).
DeviceIsReleased ==
    /\ \A s \in Sessions : ~Busy(s) /\ ~started[s] /\ closer[s] \in {"idle", "done"}
    /\ qdcCall # NoCall \/ alsaCall # NoCall \/ alive # {}
    => unclean
=============================================================================
