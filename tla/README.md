# CellBridge in TLA+

Specifications, model-checking runs and proofs for CellBridge: a gateway on a NAS that gives
one cellular line (a QDC507 module behind a serial AT port and a USB audio device) to an iOS app
and to SIP clients. Paths below are relative to `src/`; `internal/` stands for `gateway/internal/`.

- [Inventory](#inventory): the parts of the system and what makes each of them correct
- [Modules](#modules): what is modelled, and how state and actions correspond to the code
- [Runs](#runs): what each run checks, its bounds and what it shows
- [Proofs](#proofs): what is proved for every value of the constants
- [Observations](#observations): where the code does something else than it says
- [Not modelled](#not-modelled): what stays out, and why
- [Plan](#plan): what comes next

## Inventory

One process (`gateway/cmd/cellbridge-gateway/main.go`) runs the goroutines. The line is a single
shared resource: HTTP handlers, the SIP server, the URC reader, the event reader and the SMS engine
all reach it.

| Component | State | Operations | Hard behaviour | Correct when |
|---|---|---|---|---|
| call controller, `internal/call/state.go` | the one active call; results of requests by key | Incoming, Dial, Answer, MarkCellularReady, MarkMediaReady, MarkRecovering, Hangup, RemoteEnded, Rollback, DTMF, Finish | replays of requests, rollback to an old snapshot, reports of two legs and of two ends in any order | Active means both legs; nothing is up before an answer; the line changes hands only through Finish; the first end reason stays |
| AT client, `internal/modem/at/parser.go` | port lock, line buffers of Run and of each command | Exchange, SendPDU, SendTextSMS, Run | URC lines inside answers and torn by chunks; deadlines; late answers; lines handed on outside the lock | an answer belongs to its command; a submission is atomic; no event is handed on twice |
| AT adapter, `internal/modem/at/adapter.go` | marker of the active call, event channel | Dial, Answer, Hangup, DTMF, HandleURC, SendSMS, ListSMS, DeleteSMS, WaitActive | the marker is read and written in separate critical sections around exchanges | the marker agrees with the modem when nothing is under way |
| ActiveCallAdapter, `internal/modem/call_adapter.go` | active and last physical and logical identifiers, event channel | SetLogicalCallID, Dial, Answer, Hangup, forwardEvents | renaming events of the previous call; a full channel | an event reaches the call it is about |
| API server, `internal/api/server.go` | WebRTC sessions, voice bridges, line status, rate limits | dial, answer, hangup, reject, DTMF, offers, sendMessage, HandleModemEvent, read-only handlers | handlers race with modem events on the controller and on rows | no call is left ending, hidden from the app or left over after the hardware ended it |
| SMS engine inbound, `internal/sms/engine.go`, `multipart.go` | pending parts of messages | Run, Ingest, Add, Prune | crash or failure between statements; duplicates; parts out of order | every message once, whole, and deleted from the modem only when stored |
| SMS engine outbound, `internal/sms/engine.go` | status of a message | Send | unknown result of a submission; retry under an idempotency key | no silent second submission; status says what is known |
| PDU codec, `internal/sms/pdu.go` | none | DecodePDU, EncodeSubmitSegments | octet arithmetic | round trip |
| database, `internal/db` | calls, messages, sms_segments, recordings, devices, tokens, idempotency_records, sync_log | one transaction per operation | order of writers of a row; claims of request keys | a terminal row stays terminal; a key is claimed once |
| authentication, `internal/auth/auth.go` | pairings in memory; devices and tokens in the database | StartPairing, Complete, Authorize, Refresh, Revoke; `device-revoke` of `cellbridge-admin` | revoke-then-issue; overlapping refreshes; a revocation by another process; expiry; crashes | a pairing and a refresh token are used once; a revoked device stays out; no device is signed out by its own refreshes |
| SIP, `internal/sip` | map of sessions, registrations, RTP sockets | INVITE, BYE, CANCEL, REGISTER, MESSAGE, ringClients, reapStaleSessions, AwaitBridge | retransmission, BYE while dialling or waiting, one line and one device for all sessions | what a session has can be hung up; a running bridge owns the device |
| voice, `internal/voice` | `started` of each bridge; calls of `qdc507.Audio` and `ALSAAudio`; child processes; the route on the module | Start, Stop, ReadPCM, WritePCM, PrepareRoute, both loops | Stop during Start; a Start that fails late; loops that outlive their call; cancelled contexts | nobody hears another call; no process is left behind; the device is free again |
| WebRTC engine, `internal/webrtc` | peer connections | offer, close | callbacks of an external library | callbacks reach the call they were made for |
| recording manager, `internal/recording/manager.go` | sessions; rows; part files | Start, write, Stop, finalize, Delete, Recover, retention | check-then-act; a background encoder; restart | one session per call; a deleted recording stays deleted; no row stays "starting" |
| event bus, push, discovery, configuration, identifiers | subscribers; none | Publish; send; start-up | slow subscribers | losses are repaired by the sync log |
| module agent, `module-agent/` | two mutexes, the console sessions, the active call; journal with subscribers | SendSMS, Dial, Hangup, Status; Append, Since, Subscribe | QMI with AT fallback; results that come too late; the gap between Since and Subscribe; a full channel; an agent that is started again | a message goes out once; a call that goes on is held; a listener gets what it missed or is refused |
| provisioner and command-line tools, `tools/`, `gateway/cmd/` | none | one-shot commands | none | not modelled |

How they interact in a call: the modem writes URC lines; `Client.Run` or an exchange reads them;
`Adapter.HandleURC` turns them into events of a physical call; `forwardEvents` renames them to the
logical call; `Server.HandleModemEvent` applies them to the controller and to the table `calls`.
HTTP handlers go the other way: controller, adapter, AT command, controller again, row. Each arrow
is a place where another goroutine runs.

## Modules

| Module | Models | Composes |
|---|---|---|
| `CallController` | `internal/call/state.go` | |
| `CallLine` | AT adapter, ActiveCallAdapter, call handlers and `HandleModemEvent`, table `calls` | extends `CallController` |
| `CallProofs` | theorems about `CallController` and `CallLine` | extends `CallLine` |
| `SmsInbox` | `Engine.Run`, `Engine.Ingest`, the multipart assembler, tables `sms_segments` and `messages`, the modem's storage | |
| `SmsInboxProofs` | theorems about `SmsInbox` | extends it |
| `Recording` | `internal/recording/manager.go`, the handlers that call it, tables `recordings` and `calls` | |
| `RecordingProofs` | theorems about `Recording` | extends it |
| `OneSubmission` | what a client may rely on that repeats a send: the abstract specification | |
| `SmsOutbox` | `sendMessage`, `messageAction`, SIP `MESSAGE`, `Engine.Send`, the submission, tables `idempotency_records` and `messages` | implements `OneSubmission` |
| `VoiceAudio` | `internal/voice/bridge.go`, `alsa.go`, `qdc507/audio.go`, the bridges of SIP sessions and of `webRTCOffer` | |
| `VoiceAudioProofs` | theorems about `VoiceAudio` | extends it |
| `AtPort` | `internal/modem/at/parser.go` and the modem behind the port | |
| `SubmissionProofs` | theorems about `SmsOutbox`, the refinement among them, and about `AtPort` | extends both |
| `Devices` | `internal/auth/auth.go`, the handlers for pairing, refresh, push registration and events, tables `devices` and `device_tokens`, `device-revoke` | |
| `DevicesProofs` | theorems about `Devices` | extends it |
| `SipCalls` | the call handlers of `internal/sip/server.go`, `session.go`, and the line and device they share | |
| `SipCallsProofs` | theorems about `SipCalls` | extends it |
| `ModuleAgent` | `module-agent/internal/control`, `internal/events`, the handlers and refreshes of `cmd/cellbridge-agent` | |
| `ModuleAgentProofs` | theorems about `ModuleAgent` | extends it |
| `MC...` | values for constants, bounds, symmetry, views; one for each module that has runs | |

`VoiceAudio`, `AtPort` and `SipCalls` look closer at what other modules take as one step or leave out:
`CallLine` and `SmsOutbox` make an exchange one or two steps, `SipCalls` has no processes behind a bridge.

### CallController

`active` is `Controller.active`, `requests` is `Controller.requests` (a result keeps the call it
returns and the snapshot it replaced), `reply` is what the last method returned. Every exported
method holds the mutex, so each is one action; `Mutate` is `Controller.mutate`, with its four
outcomes as disjuncts: replay of a known key, unknown call, wrong state, applied. `Snapshot` only
reads. A key names operation, call and attempt: the API demands a UUID per request, so one key is
not used for two operations. Peers and times are left out, except whether `ConnectedAt` and
`EndedAt` are set.

`Dial` replays a known key before it looks at the line, as the code does; `Rollback` is offered for
the keys that the API rolls back (answer and hangup).

### CallLine

Actors: the modem (`Ring`, `RemoteEnd`), the two readers of the serial port (`Serial`),
`forwardEvents` (`Forward`), the event reader (`ReadIncoming` ... `PersistEnded`) and one goroutine
per request (`handler[w]`, with its program counter and locals). A step is one critical section, one
AT exchange or one database statement:

| Code | Steps |
|---|---|
| `Client.Run`, `Exchange` and the submissions | `RunTakes`, `ExchangeTakes`: read lines from the port, for `HandleURC` |
| `HandleURC` | `UrcRead` takes a line and reads the marker; `UrcRing` or `UrcEnd` writes it and sends the event |
| `ActiveCallAdapter.Hangup` | `HangupRead`, `HangupValidate`, `HangupATH`, `FinishActive`, `HangupForget` |
| `Server.dial` | `DialStart`, `DialBind`, `DialCheck`, `DialATD`, `DialActive`, `DialAdapter`, `DialCellular`, `PersistCall`; `DialFail`, `DialFinish` and `DialRelease` on failure |
| `Server.callAction`, answer | `AnswerStart`, `AnswerRead`, `AnswerValidate`, `AnswerATA`, `AnswerCellular`, `PersistCall`; `AnswerRollback` on failure |
| `Server.callAction`, hangup and reject | `HangupStart`, the steps of the modem's Hangup, `HangupModem`, `PersistCall` |

URC lines wait in `lines`, the serial port. `Client.Run` reads them with the port lock and hands
them on without it (`parser.go:253`); an exchange hands its own on after its answer, before it gives
the lock back (`parser.go:101`). So `taken["run"]` and `taken["exchange"]` are handled side by side:
a line that `Run` read may be handled after a later one, or two `HandleURC` may read the marker
before either writes it (the history variable `heard` is "muddled" then). A command waits until the
exchange before it has handed on its lines (`PortFree`); `ExchangeTakes` is one of any goroutine,
that of a call, of an SMS or of a status. It loses what it read after its final line, and a first
line of which `Run` had the beginning (`AtPort` has the pieces). `Persist` keeps of a row only
whether `ended_at` is set. `HangupRead` finds no active identifier where the code returns
`ErrNoActiveCall`; any other failure is "error". An AT command may fail by an answer, with the modem
as it was, or because the request's context ends after the modem obeyed it (`CutOff`):
`Adapter.Dial`, `Answer` and `Hangup` report both as an error (`adapter.go:165`, 182, 190), and for
a request that was cut off `persistCall` cannot write its row any more. The database does not fail
here. The media leg, and with it the states Active and Recovering, is left to `CallController`.

### SmsInbox

One goroutine, so steps are sequential, but each statement or exchange is its own step, between
which the process may crash and the network may deliver. A PDU is a part of a sent message and
stands for its own hash; its key is `ConcatKey`, the sender and the 8-bit reference, with the number
of parts, and two messages may share it: a sender uses a reference again, and all its short messages
have reference 0. The history variable `met` has the long messages of which a part was stored while
another one waited under their key. A message whose parts have a 16-bit reference, which
`parseConcat` does not read, is several messages of one part here. `Unreadable` messages are those
whose entries `ListSMS` skips or `DecodePDU` refuses: nothing is stored of them and they are not
deleted. A row of `messages` is the set of PDUs its body was built from. `Poll` prunes the assembler
by the latest part of a key and the table by each row's own time. `Fails(point)` is the error path
of a statement, at the points a run allows.

### Recording

Actors: goroutines of requests and of ended calls (`worker[w]`), one `finalize` goroutine per
recording (`fin[r]`), and the start of the process (`boot`), which runs `Recover` before requests are
served. `Start` is eight steps: the row of the call, the session map, the newest recording with the
creation of the parts, two saves and two updates of the call's row, the session. `Stop` takes the
session out first; `EndCall` is `persistCall`, which saves the call and then stops. `deleteExpired`
calls `Delete`, so a worker with the job "delete" stands for it too.

`row[r]` is the state in table `recordings`; a save overwrites it whatever it is by then. `call[c]` keeps
state, `recording_id` and `recording_state`. `work[r]` is the work directory: both parts, only some
of its files, empty, or gone; `audio` the recordings with an audio file. Recordings are numbered in
the order of `created_at`, which `GetRecordingByCall` sorts by. The call becomes Active and ends
here without its own steps (`Connect`, `EndCall`): after a restart its row stays open, since the
controller has forgotten it. A crash drops goroutines and sessions and keeps tables and files.

Left out: the refusals by settings and free space, frames written to an open part, lengths, hashes,
and the removal of directories without a row after a day. `fail` ignores an error of its own save,
and `Recover` gives up at an error of the database; both leave rows as they are until the next start
and are not explored.

### SmsOutbox

Each request is a goroutine: `pc[a]` is where it stands, `answer[a]` the status it returns, and `late`
holds the requests whose context has ended. `idem[k]` is the status code recorded for a key (102 is
pending, 0 no record), `row[a]` the status of the message that request `a` creates, and `taken[a]`, kept
by the modem, how many of its parts went out.

| Code | Steps |
|---|---|
| `ClaimIdempotency`, `replayIdempotency` | `Claim`: claimed, replayed, or failed; the handlers differ in what they do after a failure |
| `allowSMSSend` | `Rate`: the clock is left out, so a device that has sent may be refused or not |
| `Engine.Send` | `Insert`; for each part `Submit`, `ModemAnswers` or `AnswerLost`, `MarkSubmitted`; `MarkSent`, `MarkUnknown` or `MarkFailed` |
| `SendPDU`, `SendTextSMS` | `Submit` decides whether the modem sends the part; the answer comes later or never, and the port stays taken until then |
| `MarkMessageRead`, `DeleteMessage` | `Apply` |
| `CompleteIdempotency` | `Complete` |

A status update runs in the context of the submission and fails once that has ended or the row is
gone; a send's record is written in a context that outlives the connection, that of a read or deletion
is not. Left out: bodies of answers, the sync log, audits, and the commands that choose the SMS format
(`AT+CMGF`), which are part of `Submit` here. A SIP answer of 200
or 500 appears as 201 or 502. After a lost answer the next command gets its own answer here, although
nothing drains the port (`parser.go:116`): what a late answer does to the next command is in `AtPort`.
`StatusIsTrue` reads "failed" as "not entirely out"; that an accepted part should keep the message from it
is `AcceptedStaysSubmitted`, which the code does not keep (Observation 9).

The refinement maps `taken` to what each handler has sent for its key and `idem` to the outcome, where
a pending record is no outcome yet.

### VoiceAudio

A session is a bridge with two goroutines beside its loops: `starter[s]` prepares and starts it,
`closer[s]` stops it. Each bridge calls `qdc507.Audio`, which calls `ALSAAudio`; both keep a call of
their own (`qdcCall`, `alsaCall`) under a mutex they give up before they talk to a device.

| Code | Steps |
|---|---|
| `Audio.Start`, `ensureRuntime` | `QdcStart`, `ReadPrepared`, `ReadRotation`, `ForgetPrepared`, `Bootstrap`, `KillRoute`, `LaunchRoute`, `RouteReady`, `OwnQdc`; `BootstrapFails` and `RouteFails` |
| `ALSAAudio.Start` | `Take` (or `TakeAgain`, `TakeRefused`), `Spawn` (or `SpawnFails`), `Install` |
| `Bridge.Start` | `BridgeStart`, after the above |
| `Bridge.Stop` | `BridgeStop`, `QdcStop`, `AlsaStop`, `Reap` |
| `readLoop` | `ReadFrame` reads from the pair that is installed, `DeliverFrame` gives it to the client |
| `clientPlaybackLoop` | `WriteFrame` |

A frame is the pair of processes it came from or went to, so `heard` and `spoken` say whose sound a
client got and who got the client's. A SIP session prepares the route before it dials and has a
context that its hangup cancels; a WebRTC session has neither, and `webrtcMu` orders offers and
closes (`MutexFree`). The commands `adb` runs on the module are steps that do what they say or fail.
Left out: the jitter queue, the silence that keeps the playback running, G.711.

### AtPort

The modem's output is `wire`, a sequence of pieces; every line has two of them, and a read returns
any number up to `ChunkSize`, so reads end inside lines and answers. A line is named by the position
where it ends: `Feed` takes the pieces up to the last of them and keeps the rest in `buffer`, `held` has
the complete lines whose events a reader has still to hand on. Commands take `port` (`ioCh`)
from `Begin` to the end of `Dispatch`; `Run` takes it for one read and parses later, under the mutex
(`PollRead`, `PollFeed`, `PollHandle`). `SendPDU` reads a prompt, writes the body and reads the final
line (`ReadPrompt`, `ReadFinal`). `GiveUp` is a deadline: the port stays open, the modem keeps waiting
for a body or answers later, and the read under way may swallow what it still gets. The modem
(`ModemProcesses`) answers in the order it is written, may refuse a submission instead of prompting,
and takes whatever it is written after a prompt as the body. Lost lines on the wire, a broken port
and concatenated submissions are not modelled.

### Devices

A request is a goroutine (`at[r]`) whose steps are the statements of the database; the tables live
through `Crash`, the pairings in memory do not. Tokens are named by the request that issued them, so
`token[<<r, kind>>]` is the row and `holds` what reached a device. `RevokeDevice` is another process.
Clients present any token they were ever given. A proof of possession is right or wrong
(`Complete`), an address is accepted; hashes and clocks are left out: `Expire` may hit anything, in
any order.

### SipCalls

Handlers of INVITEs (`at[h]`) and of BYEs run side by side, one per datagram. A session is named by
its INVITE; `sessions` maps Call-IDs. `SIPCallSession.Hangup` is two steps, `HangupBridge` and
`HangupLine`, run by a BYE, by the reaping of another INVITE, or by the session's own goroutine. The
line is what the adapters believe (`active`) and what the modem has (`cell`, `up`); the API or the
network may take it at any time it is free (`OtherCall`). `WaitActive` accepts any outgoing call that is
up, as the adapter does. The device is one owner, here by Call-ID; `VoiceAudio` has its inside.
`Bridge.Start` is three steps: `BridgeTakes` looks at the context and takes the device, `BridgeSpawns`
starts the processes or gives the device back, `BridgeStarts` marks the bridge, whatever happened to the
session meanwhile. A hangup between them finds no bridge to stop and has no second try
(`sync.Once`): `CallsCanBeHungUp` speaks of the bridges that no hangup overtook, `DeviceIsNotPinned` of all,
and does not hold (Observation 8).
Left out: registrations and digest (they only admit a client), ACK and OPTIONS, media.

### ModuleAgent

`mu` and `rilMu` are the two mutexes, `consoles` the processes that run the vendor's console, `shown`
and `result` what these have printed. `Dial` holds `mu` until its call has a state; `SendSMS` holds
`rilMu` to its end, the AT fallback included; `Status` lets go of `mu` before it asks for `rilMu`. Every
wait may end without its answer. The comment at `control.go:27` wants every run of the console
serialized, but `Dial` takes only `mu`: in the model, as in the code, the console of a dial may run
beside that of a message or of a status. `result` "success" is either of the two texts
`waitForSMSResult` takes for one, the unconditional SUCCESS (line 425) or RESULT CODE 0 (line 419); that
a code other than 0 follows an unconditional SUCCESS already read is not modelled.

The journal is `seq` and the last `Limit` events; one client listens (`Connect` is `Since`, `Subscribe`
follows when the missing events are written, so that an event appended in between is in neither),
loses its connection and comes back with its cursor. `excused` records the events its handler had no
room or no channel for. `Restart` is the agent that dies and is started again: the requests, consoles
and the session under way are gone, the journal is empty and counts from 1, while the modem keeps its
calls and the client its cursor. `origin` records whether that cursor is an event of this agent; one
that is not is outside `NoSilentHoles` (see Observations). A call made before a restart becomes "gone":
`CallsAreHeld` speaks of what the running agent accepted.

Left out: pairing token, health, the handlers that only read, the octets of a PDU, a console that exits
by itself (its session then stays in the adapter until a hangup), and the goroutine that a timed-out
`tryATPort` leaves behind on its port, which may take an answer of the next one for its own. A hangup
that took the session counts as holding the call also when `call_end` could not be written.

## Runs

Twelve runs, all of which pass.

| Run | Question | Bounds | Distinct states |
|---|---|---|---|
| CallController | Do the flags and the ownership of the line survive every order of calls, replays and rollbacks? | 2 calls, 1 attempt, at most 4 stored results (`MaxRequests`) | 327,223 |
| CallLineIncoming | Do events alone bring controller, adapter and rows back in line; has every call that came in a row; is an ending call always finished by somebody? | 2 cellular calls, 2 RINGs (`MaxRings`), one request to answer and one to hang up, ATA and ATH may fail or be cut off, channels of 4 (`EventCapacity`) | 1,958,756 |
| CallLineOutgoing | Does a dial that loses its call leave a cellular call behind; has every call that was put through a row? | 1 dialled call, 1 cellular identifier, 1 RING, one request to dial and one to hang up, ATD may fail or be cut off, channels of 4 | 2,559,369 |
| SmsInbox | Is a message unique and stored before it is deleted, through crashes and expiry? | a message of two parts and one of one part, each PDU twice, slots 0 and 1, retention 1 of 2 ticks, 2 faults anywhere | 2,387,461 |
| SmsInboxLive | Is every message announced, does the storage drain, and are rows whole when a sender uses a reference again? | two messages of two parts with one key and one that cannot be parsed, each PDU twice; no crashes, no time, 2 failures up to the segment and of deletions | 423,209 |
| Recording | Is sound kept, do tables and sessions agree, does every finalization and every restart settle the rows? | one call, two recordings, two starts, a stop or deletion, a second deletion, the call's end; 1 fault at any step, 2 crashes | 661,831 |
| SmsOutbox | Does a repeated send go out twice or get two answers; are statuses and recorded answers true; does every request end? | six requests, of which 3 arrive (`MaxRequests`): a two-part send and its repeat, another send of the device, a SIP message, a read and a deletion of the long message; 1 failure or restart at any step (`MaxFaults`) | 701,254 |
| VoiceAudio | Does anybody hear another call, is a process or the device left taken, whatever starts and stops overlap? | two WebRTC sessions of one call, a SIP session of another; 1 fault (`MaxFaults`) of adb, of the route or of a spawn | 3,342,922 |
| AtPort | Does an answer or a body reach the wrong command, is an event handed on twice? | one exchange, two submissions, two unsolicited lines, chunks of up to 4 pieces (`ChunkSize`), 2 deadlines (`MaxDeadlines`) | 3,679,883 |
| Devices | Is a pairing or a refresh token used twice, does a revoked device get in, is a device signed out by itself? | two pairings, two completions, two refreshes, one other request; 1 failure, lost response or crash (`MaxFaults`) | 2,953,239 |
| SipCalls | Can a session pin the line or the device, does a bridge run without the device? | three INVITEs of two Call-IDs, their BYEs, a call of the API, an incoming one; 1 AT command that fails (`MaxFaults`) | 2,234,282 |
| ModuleAgent | Is a message submitted more often than needed, a call lost; does a client that comes back miss an event unsaid? | two dials, two hangups, one SMS with two places of fallback (`Attempts`), 3 refreshes (`Rounds`), a journal of 2 (`Limit`), a channel of 1 (`Buffer`), 1 restart (`MaxRestarts`) | 4,493,790 |

Why the bounds are enough. Two calls are what it takes for one call's late events to meet another
call; four results let a call be answered, connected, hung up and rolled back, and replayed. Two
RINGs give a call that rings again, or a second call, of which either may overtake the end of the
first. In both runs of the line the channels hold all the events of a behaviour, so that nothing is
dropped there; what a full channel does is a hazard no passing property can cover. A dial that meets
a call of its own number of RINGs needs one identifier: what a second one would add is the incoming
run's. Two faults let a retry fail too. Two messages with one key are what is needed to mix parts.
Two recordings let two Starts overlap and a second one follow the first; the second crash can hit
`Recover`. Three requests are a send, its repeat and one that disturbs them; the long message has a
part after the first. `PhysIds` bounds the cellular calls: a RING that would need one more
identifier stays unread. Three voice sessions are two that share a call and one that does not; one
fault suffices, since every later step is explored without one too. A chunk of four pieces may hold
an answer and a half, so a line is torn at every place, and two deadlines leave a late answer and a
waiting prompt at once. Two refreshes present one token or two. A retransmitted INVITE and another
one are what it takes for three sessions to meet on one line. Three refreshes exceed a journal of
two, which makes `Since` refuse, and a restart may come before or after any of them.

What the properties say:

- `ActiveNeedsBothLegs`, `NothingUpBeforeAnswer`, `LineChangesOnlyThroughFinish`,
  `FirstEndReasonWins`: the four rules of the state machine; the last two are about steps.
- `ActiveNeedsBothLegs` and `LineChangesOnlyThroughFinish` are checked by the run; the other two are
  proved only.
- `OnlyRollbackOrphans`: a step after which an ending call has nobody left to finish it is the
  Rollback of an answer or of a hangup whose modem command failed. The code keeps this by giving the
  duty to whoever moved the call to Ending, and by treating `ErrNoActiveCall` as success. That
  Rollback itself orphans calls is the second of the [Observations](#observations).
- `UnattendedLineAgrees`: if no request came in, all queues are empty and NO CARRIER was the last
  line handled, the controller is idle, the marker empty and no row open, as long as no two lines
  were handled at a time. The premises are needed: when NO CARRIER overtakes its RING, or an
  exchange loses it, the call stays, and two lines handled at a time may make up two identifiers
  (Observation 11).
- `NoHiddenCall`: a modem that is up means that the controller has a call, if nothing rang, one request
  at most has dialled, the modem obeys ATH and no request was cut off. One that was does leave a hidden
  call (Observation 12). With a second dial it is not true either: `SetLogicalCallID` comes
  before ATD, so the "ended" event that NO CARRIER left between ATD and the marker of the first call is
  renamed to the second, ends that one in the controller, and leaves it up on the modem.
- `CallsAreRecorded`: when all is quiet the call on the line has a row, if it came in or was put
  through. A dial whose ATD failed and whose hangup was rolled back has none, which is right.
- `RowsAreWhole`, `NoMessageTwice`, `DeletedOnlyWhenStored`: the inbox. Note the
  premise of `NoMessageTwice`: once segments expire that were written but never linked, the same
  PDU delivered again does become a second message. `RowsAreWhole` excepts messages that `met` another:
  their parts are mixed (Observation 10). A reference may be used again without harm as soon as the
  message before is linked.
- `EveryMessageAnnounced`, `SlotsDrain`: liveness of the inbox, of the messages that can be parsed.
- `SoundIsKept`, `ReadyIsPlayable`: what is on disk for a recording nobody asked to delete.
  `SessionsRecord`: a session never writes to parts that a finalization reads. `CleanRowsAreFinal`:
  finished recordings whose work directory is gone are safe from restarts; the premises are needed,
  a recording whose directory is still there can be brought back.
- `RestartSettles`, `FinalizingEnds`: no recording of an earlier process stays under way; a stopped
  recording gets to an end. Recordings orphaned within a process, by two Starts that overlap or a
  Start that overlaps the end of its call, wait for the next start; nothing is promised about them.
- `CallRowAgrees`: the two tables agree when all is quiet, also after crashes, if no update failed
  and nothing was deleted.
- `AtMostOnce`: `SmsOutbox` implements `OneSubmission`: the parts of a message leave from one handler
  only, none twice, and none after an outcome is recorded, which then stays. `RepliesAgree` is the
  client's side of it. `StatusIsTrue` and `OutcomeIsTrue` tie what is stored to what the modem sent.
- `NoStuckKey`: no return of `sendMessage` forgets its record. The premise is needed: after a crash, or
  when the record cannot be written, the key stays pending for ever. `RequestsEnd`: liveness with a
  modem that never answers.
- `NoCrossTalk`: a client hears and speaks into the processes its own session started. Its premise
  (`NoReconnect`) is that no second session of one call begins at all, early or late. That is wider
  than what goes wrong, which is a client that connects again while its former bridge stops: the two
  have one call identifier, `ALSAAudio` cannot tell them apart, and the late stop takes the new
  device away.
- `NoOrphanProcess`: a running `arecord` or `aplay` is in somebody's hands who will reap it.
- `DeviceIsReleased`: all quiet means all free, but for three cases in which the code does keep the
  device: `ALSAAudio.Start` failed after `Audio.call` was written, a stop came before `started`, or a stop
  took out the call of another session. `unclean` records them.
- `AnswersMatch`, `BodiesMatch`: until the first deadline a command gets its own answer, and only its
  body is sent for it. After a deadline neither is true: the port is not drained.
- `EventsOnce`: no event is handed on twice, and `Run` alone loses none.
- `PairsOnce`, `OneRefreshToken`: one use each, however requests overlap. `NeverSignedOut`: without faults
  a device that is not revoked always has a refresh token that works, or is getting one. The
  premise is needed: a crash between `RevokeToken` and `StoreToken` signs it out.
- `RevokedStaysOut`: no later request is taken for a revoked device, also not with a token that was
  stored after the revocation, since `LookupToken` joins the device. An event stream that is open is
  not asked again.
- `CallsCanBeHungUp`: the line and the device belong to a session that is in the map or is attended by a
  goroutine. The premise excepts a failing ATH and a Call-ID that two handlers dial.
- `BridgeHasDevice`: no two bridges run on one device, for Call-IDs that are not doubled.
- `SentOnce`: a message leaves once, and once more for each place of the fallback whose success was not
  seen. `CallsAreHeld`: an accepted call that goes on has a session somebody holds, with a console.
- `NoSilentHoles`: the cursor of a listener skips only events its handler was not connected for or had no
  room for; after it comes back, only such as `Since` reported as gone.

Each module states a type invariant `TypeOK` too, kept out of the cfgs, as are
`NothingUpBeforeAnswer`, `FirstEndReasonWins`, `SessionsRecord` and `LinksAreSound`. All are proved.
Names in `CallLine` and `AtPort` carry a prefix (`LineTypeOK`, `PortTypeOK`) where a module that
extends two components would meet them twice.

Fairness. `SmsInbox!FairSpec` assumes weak fairness of the engine's next step. The code justifies
it: one goroutine, a ticker that never stops, a timeout around every exchange (15 s and 10 s). Faults
are finite by `MaxFaults`. Deliveries and time need no fairness. The safety runs use none.

`Recording!FairSpec` assumes it of every goroutine that has begun, of each finalization (the encoder
has ten minutes), of `Recover`, and of the start of a process that ended (`restart: unless-stopped` in
`infra/docker/docker-compose.yml:10`). A new job and a new call are not fair: users may do nothing.

`SmsOutbox!FairSpec` assumes that a request that has begun goes on and that its context ends (two
minutes for HTTP, 30 seconds for SIP, the connection for reads and deletions). Nothing is assumed of
the modem, nor that a request arrives. The other modules promise safety only and assume nothing.

Deadlock is checked in the CallController run and in the two of SmsInbox. A CallLine behaviour ends when its
requests are served and its RINGs are used up, a Recording behaviour when its workers are, and a
SmsOutbox behaviour when its requests have ended, so there the check is off, and in the
five modules after it for the same reason: their requests, calls and events are finite.

`Devices` and `ModuleAgent` use symmetry of their requests, `VoiceAudio` of the two WebRTC sessions,
the run CallLineIncoming of the cellular identifiers; their properties treat these alike and are
safety. The views of `MCCallLine` leave `reply` out of the state, which no guard and no property
reads, and of the two history variables what the run's properties do not read any more: `cut` in
one, `heard` in the other and once a request has come in.

Observed while checking, and stated as hazards because the code offers no property to hold: an
answer picks up another call than the one answered when the first one ends before ATA; NO CARRIER
between the OK of ATD and the marker leaves the marker set; a late "ended" event is renamed to the
call being dialled, because `SetLogicalCallID` comes before ATD; an inbound call after a refused
dial is filed under the refused call's identifier; a RING still queued after a rejection recreates
the call. When the deadline of a submission is what cuts it off, `Engine.Send` records "submitted" in
the expired context, which fails: the row stays "queued" and the request is answered 502, although
`modem/domain.go:12` asks not to report a plain failed send. A failed deletion leaves its key pending,
and a read whose claim failed completes the record that another request has claimed.

## Proofs

`CallProofs` proves of the controller, for arbitrary sets of calls, attempts and reasons:

| Theorem | States |
|---|---|
| `TypeCorrect` | `Spec => []TypeOK` |
| `BothLegs` | `Spec => []ActiveNeedsBothLegs` |
| `Consent` | `Spec => []NothingUpBeforeAnswer` |
| `LineChanges` | `Spec => LineChangesOnlyThroughFinish` |
| `FirstReason` | `Spec => FirstEndReasonWins` |

The only assumption is `ConstantsOK`: the three null values are not ordinary values. The three
invariants are not inductive alone, because Rollback puts a snapshot out of `requests` back on the
line. `IInv` therefore adds `SnapshotsOK`: every recorded snapshot is a call with agreeing flags and
consent, and is the call its request was about. `MutateKeeps` shows once that a step of `mutate`
keeps `IInv` when the change it applies is sound; `ChangesAreSound` shows that for the change of
each method; Incoming, Dial, Rollback and Finish have lemmas of their own, and `NextKeeps` puts them
together, one step per method. The two step properties follow the same path: a lemma about `Mutate`,
then one step per method. `MaxRequests` plays no part here: it bounds only TLC's exploration.

`CallProofs` proves of the line, for any calls, requests, failing commands and channel sizes:

| Theorem | States |
|---|---|
| `UsesController` | `LineSpec => Spec`, the specification of `CallController` |
| `GatewayLineChanges` | `LineSpec => LineChangesOnlyThroughFinish` |
| `LineTypeCorrect` | `LineSpec => []LineTypeOK` |
| `EndingIsAttended` | `LineSpec => OnlyRollbackOrphans` |
| `EveryCallRecorded` | `LineSpec => []CallsAreRecorded` |
| `UnattendedAgrees` | `EventCapacity >= 2 * MaxRings` implies `LineSpec => []UnattendedLineAgrees` |
| `NothingHidden` | `LineSpec => []NoHiddenCall` |

The assumptions are `ConstantsOK` and `LineConstants`. `LineInv` is the controller's `IInv` together with
`ActorsOK`: an incoming event always names a call, a handler past its first step and the event reader have
the call they work on, and a handler that hangs up the modem will return to a step that ends its call, or
has none to end. Each of the actors' steps is then one of the controller's methods with a key that exists,
or no step of it (`MethodReplies`, `HandleKeeps`, `ReaderKeeps`), so the theorems about the controller hold
in the gateway. `EndingIsAttended` follows who has to finish the call (`EndersKept`): a step that changes no
call keeps the duty or hands it on, the only methods that leave a call in Ending are Hangup and RemoteEnded
(`NotEnding`), whose callers take the duty, and a Finish that gives it up has freed the line or was about
another call (`FinishOutcome`).

`EveryCallRecorded` rests on `RecordedInv`: the call on the line, and every snapshot that a Rollback
may put back there, has a row or a goroutine about to write it, once it came in or was put through.
A handler that was cut off goes to a step that puts nothing through (`CutOffIsRefused`), so that its
lost save does no harm. A handler establishes a call only in the step that leads to `PersistCall`,
and no step takes a row away.

For `UnattendedAgrees` there are two queues between `HandleURC` and the event reader (the events of
the AT adapter, those of the ActiveCallAdapter), and a call may begin while the end of the one
before is still under way. Which lines reach `HandleURC`, and in which order, does not matter, as
long as it handles them one at a time: after NO CARRIER the adapter knows of no call (`LinesLead`).
`Story` says that each queue leads from what its receiver knows to what its sender knows
(`EventsLead`), that the reader's copy is the call on the line until it has finished that one
(`ReaderFollows`), and that the identifier of a call that ended does not come back (`NoIdAgain`), so
that its "ended" is never taken for the replay of an earlier request. `Fits` counts: the modem
writes two lines for a RING at most. That is where the premise on the capacity comes from, since a
full channel drops what it cannot hold (`call_adapter.go:131`); lines in the hands of either reader
count too (`Waiting`), and those that are lost only make it fewer. The run's instance satisfies the
premise. Lemmas `LeadsAppend` and the like say what sending and receiving do to a queue, and there
is one lemma per actor.

`NothingHidden` splits a dial where ATD is accepted (`DialInv`). As long as the modem is or may get
up (`MayBeUp`), no line and no event is under way. Until the dial has marked its call it has the
last word: it finds its call gone and releases the modem (`Attends`), so a hangup that found no
active identifier does no harm. Nothing of this survives a context that ends between the obeyed ATD
or ATH and its answer, hence the premise that `cut` is empty. When it has marked it (`Committed`),
every hangup finds the identifier and ends the cellular call, because a hangup that found none had
put the call in Ending before, and the mark would have failed (`Gone`).

`RecordingProofs` proves, for any number of calls, goroutines, recordings, failures and crashes:

| Theorem | States |
|---|---|
| `TypeCorrect` | `Spec => []TypeOK` |
| `SoundKept` | `Spec => []SoundIsKept` |
| `ReadyPlayable` | `Spec => []ReadyIsPlayable` |
| `SessionsSound` | `Spec => []SessionsRecord` |
| `RestartsSettle` | `Spec => []RestartSettles` |
| `CleanRowsFinal` | `Spec => CleanRowsAreFinal` |
| `TablesAgree` | `Spec => []CallRowAgrees` |

The only assumption, `RecordingConstants`, gives the constants their types. `IInv` says who may be
busy with a recording, since each property alone depends on it: a row is written by four kinds of
goroutine out of their own copy. `HoldersOK`: the Start or Stop that is about to write a recording is
the only one, no session names it, no finalization reads it, it was created after the last start, and
its parts exist. `SessionsOK`: the same of the recording a session names. `FinOK`: a finalization that
comes to save has published its audio, or the deletion was asked for, and one that removes parts has
settled the row. `BootOK`: while the process is not up nobody holds anything, and what Recover still
has to do has its directory and no finalization. `OpenOK`: a row under way has its parts, and one of
an earlier process has Recover or a finalization to settle it. Deletions go on beside all of them
(`DeletersOK` only ties them to their row), which is why a held row may also be "deleted" and why
`DeletedStaysDeleted` fails. The proof has a lemma for the effect of each helper that writes a record,
a lemma for each kind of move (`FreeMove`, `HolderMove`, `FinMove`, `NobodyServes`), one lemma per
step, and `Invariance` puts them together. `CleanRowsFinal` needs in addition `RowWriters`: no holder,
finalization or Recover is about a recording without directory and finalization.

`TablesAgree` has a second invariant on top, `AgreeInv`, for behaviours in which no update failed and
nothing was deleted. Two statements write the two tables, so between them the call's row is behind:
`LinkPending` names the goroutine, finalization or `Recover` that still has to write it, and `LinkersOK` says
that whoever is between the statements writes what the first one stored. A crash leaves the row behind
with nobody to write it; then the recording is one that `Recover` will find.

`SubmissionProofs` proves of the messages, for any requests, keys, devices, failures and crashes:

| Theorem | States |
|---|---|
| `Implements` | `Spec => AtMostOnce`: `SmsOutbox` refines `OneSubmission` |
| `TypeCorrect` | `Spec => []TypeOK` |
| `StatusTrue` | `Spec => []StatusIsTrue` |
| `OutcomeTrue` | `Spec => []OutcomeIsTrue` |
| `RepliesAgreeAlways` | `Spec => []RepliesAgree` |
| `NoKeyStuck` | `Spec => []NoStuckKey` |

The only assumption is `OutboxConstants`: types, a key for every API request and none for SIP, and
requests that share a key being repeats of one another. `IInv` adds `StepOK`, what a request has sent
and stored at each of its steps; `KeyOK`, that the request at work for a key, or that has sent for it,
is the only one and has claimed it; `AnswerOK`, that a result a client got is the recorded one or none
will be recorded; and `OutcomeOK`, which names the request behind a recorded 201. The `...Local` lemmas
show that each step keeps types and places; `Moves` shows once that a step which touches no record
keeps the rest, `ClaimKeeps`, `CompleteKeeps` and `CrashKeeps` do the others, and `NextKeeps` puts
them together. For the refinement `Submit` of a send is `Send`, `Complete` of a send is `Record`, and
every other step stutters (`StepImplements`). `MaxRequests` and `MaxFaults` are arbitrary here.

`SubmissionProofs` proves of the port, for any commands, events, chunk sizes and number of deadlines:

| Theorem | States |
|---|---|
| `PortInvariance` | `PortSpec => []PortInv` |
| `PortTypeCorrect` | `PortSpec => []PortTypeOK` |
| `AnswersAreMatched` | `PortSpec => []AnswersMatch` |
| `BodiesAreMatched` | `PortSpec => []BodiesMatch` |
| `EventsAreOnce` | `PortSpec => []EventsOnce` |

The only assumption is `PortConstants`. `PortInv` has four parts beside the types, and each needs
the first: `PortIsHeld` says that a command reads exactly while it has the port, and that what a
parser keeps ends no line. `InStep` is the dialogue of the modem with the command that has the port,
and holds until a deadline passes: its command is still to be processed (`Asked`), or answered with
at most one final line under way, after which only events come (`Answered`), or it is prompted
(`Prompted`) or has written its body (`Supplied`); when no command reads, nothing of an answer is
left anywhere (`Settled`). A deadline breaks just that, which is why both matching properties have
it as a premise.

`NothingTwice` is about places: no piece of an event is twice in the wire, a reader's lines, buffer
and chunk taken together, nor in two of these (`PiecesOnce`), and none of an event that is still to
be sent or was handed on (`Gone`). Every step of a reader moves a stretch off the front of the wire
to the end of what it has, or drops some of it (`Takes`, `TakesKeeps`). `NothingLost` says that
until a command begins the buffer, chunk and wire of `Run` are one sequence of whole lines
(`Lined`), so that each cut between two polls is made up for by the buffer. The lemmas about cutting
and joining sequences (`Cut`, `Joined`, `Regroup`) and those about `Apart` and `Once` carry all of
it. TLC checked `PortInv` on an instance of the run's constants with one deadline before it was
proved.

`SmsInboxProofs` proves, for any messages, storage, deliveries, failures and crashes:

| Theorem | States |
|---|---|
| `TypeCorrect` | `Spec => []TypeOK` |
| `LinksSound` | `Spec => []LinksAreSound` |
| `StoredFirst` | `Spec => DeletedOnlyWhenStored` |
| `WholeRows` | `Spec => []RowsAreWhole` |
| `OneRow` | `Spec => []NoMessageTwice` |

`InboxConstants`, `NullsAreNew` and `RowsAreNotNull` type the constants and keep the null values
apart. Nothing is assumed of the keys: any messages may share sender, reference and number of parts.
`IInv` ties the entry under work to the modem and the table (`EntryOK`), what is linked next to its
row (`LinksOK`) and what is inserted next to one whole message (`WholeOK`). `MetOK` says that long
messages which wait under one key have met: the last part stored of two found the other waiting, in
the table or in the assembler. `RetainedOK` is what makes a row unique: while nothing has expired,
every PDU in the assembler or in a row is in `sms_segments`, so `Known` catches a second delivery
before it is assembled.

`DevicesProofs` proves, for any pairings, requests, failures and crashes:

| Theorem | States |
|---|---|
| `TypeCorrect` | `Spec => []TypeOK` |
| `OnePairing` | `Spec => []PairsOnce` |
| `OneRefresh` | `Spec => []OneRefreshToken` |
| `StaysSignedIn` | `Spec => []NeverSignedOut` |
| `StaysOut` | `Spec => RevokedStaysOut` |

The only assumption is `DeviceConstants`. The argument is a right that moves: a request carries it
for a device when it will store a refresh token or has stored one that is not revoked (`Carries`), and
`OneCarrier` says that only one does. `RevokeToken` succeeds for one request only, which takes the right
over from the request that issued the token. `PairingOK` says the same of a pairing that has left the map;
`StepOK` and `TokensOK` say what a request knows, and has stored, at each step.

`SipCallsProofs` proves, for any INVITEs, Call-IDs and failures:

| Theorem | States |
|---|---|
| `TypeCorrect` | `Spec => []TypeOK` |
| `DeviceOwned` | `Spec => []BridgeHasDevice` |
| `CanBeHungUp` | `Spec => []CallsCanBeHungUp` |

The only assumption is `SipConstants`. A session leaves the map only through a hangup, and the hangup
cancels its context (`VictimsOK`) before it stops the bridge and ends the call. So a session whose
context is intact is still in the map (`BridgesOK`), where the next handler finds it; `LineOK` says the
same of the line. A bridge has the device from the step that takes it (`HasBridge`), so one whose session was
hung up in between keeps it, and only two sessions of one Call-ID can give back each other's
(`Muddled`). `BridgeStops` and `LineEnds` prove the two halves of a hangup once, for a BYE, a reaping and the
session's own goroutine.

`ModuleAgentProofs` proves, for any requests, attempts, rounds, and sizes of journal and channel:

| Theorem | States |
|---|---|
| `TypeCorrect` | `Spec => []TypeOK` |
| `Sent` | `Spec => []SentOnce` |
| `Held` | `Spec => []CallsAreHeld` |
| `NoHoles` | `Spec => NoSilentHoles` |

The only assumption is `AgentConstants`. Calls, messages and the journal share nothing but the set of
consoles, so the invariant has three parts: `CallsOK` follows a session from the request to dial, which has
the mutex, to the adapter and to the one hangup that takes it; `MessagesOK` counts submissions against
attempts; `EventsOK` says that what follows the cursor of a connected client, or an
event on its way to it, is in its queue or excused; the second half carries a client whose cursor is of
a former agent to its first event of this one.
For the step in which the client comes back, `KnownReachesBack` shows that the journal has every event
after a cursor of this agent that `Since` accepts.

`VoiceAudioProofs` proves, for any sessions, calls, failures and orders of starts and stops:

| Theorem | States |
|---|---|
| `TypeCorrect` | `Spec => []TypeOK` |
| `OwnSoundOnly` | `Spec => []NoCrossTalk` |
| `NoProcessLost` | `Spec => []NoOrphanProcess` |
| `Released` | `Spec => []DeviceIsReleased` |

The only assumption is `VoiceConstants`. The first two properties have the premise that no client
connects a second time to a call; then `SoleOwner` is inductive: from the step in which `ALSAAudio`
takes a call to the one that stops it, one session is the owner and the installed processes are its
own (`OneOwner`). `Released` has no such premise and needs another argument, about a debt: a start
that wrote `qdc507.Audio.call` owes a stop that finds it there (`Owes`). When a second start
overwrites the call of the first, two stops are owed for one entry, so that one of them will not
find it (`Doomed`), which `unclean` records.

Only model-checked, because out of the prover's reach: liveness under fairness. Every invariant and
every action property that a run checks is the statement of a theorem.

## Observations

What a comment, a test or a document says and the code does not keep. Where an item begins with a name, that
is a definition of a module, marked there as not kept by the code: TLC shows a counterexample when it is added
to the cfg of a run of its module. The runs do not check them; the other items are read off the models and the
code.

1. `MediaRecoveryReturnsToActive`, `internal/call/state.go:171`. `MarkMediaReady` uses one request key per
   call. After connect and `MarkRecovering`, the next `MarkMediaReady` replays the first result and
   changes nothing: the call reports success and stays Recovering. `call/state_test.go:69` expects
   Active, on a call that had not been connected before.
2. `NoGhostCall`, `internal/api/server.go:967`. A hangup reads the active identifier, NO CARRIER
   clears the marker, `validateActive` reports a mismatch. The handler knows only `ErrNoActiveCall`
   as "already ended", rolls back, and the controller keeps a call that the hardware has ended.
3. `TerminalRowStays`, `internal/api/server.go:1625`. The event reader holds an Ending snapshot while
   the hangup handler finishes the call and writes the terminal row; then the snapshot overwrites
   it and `ended_at` is NULL. `Finish` in the reader then fails, so nothing repairs the row.
4. `CrashBeforeDeletionIsSafe`, `internal/sms/engine.go:46`. The hash of a segment is on disk before its
   message. After a crash in between, the next poll takes the entry for known and deletes it from
   the modem; the comment at line 177 says a crash before deletion is safe.
5. `DeletedStaysDeleted`, `internal/recording/manager.go:401`. Start, Stop, finalize and fail save their
   own copy of the row, and `Recover` takes a deleted recording whose parts are left for one to
   finish. So a recording deleted while it was under way comes back as ready, with its audio;
   `docs/deployment/nas.md:136` demands that it cannot be accessed any more.
6. `internal/sip/server.go:237` says that retransmissions of a Call-ID never cause a second dial. One that
   arrives while the first handler dials does (`Doubled` of `SipCalls`), because the session is
   stored after the dial; when the second dial is refused, it also takes the first session out of the map.
7. `module-agent/internal/events/journal.go:45`. The journal starts again at 1 with the agent. A client that
   comes back with the cursor of a former agent is refused only when that is smaller than what the
   journal dropped; otherwise `Since` answers ok and passes over the new events up to that number,
   and the next event takes the cursor back. Sequence numbers do not say whose they are. A call that
   goes on through a restart is known to nobody and cannot be hung up through the agent.
8. `DeviceIsNotPinned`, `internal/voice/bridge.go:63`. A BYE, CANCEL or reaping while a bridge
   starts spends the one stop of the bridge before there is anything to stop. The session leaves the
   map, the bridge is then marked as started, and nothing finds it any more: the device stays with
   its Call-ID and every later call is refused it, without any failure. `internal/sip/server.go:217`
   says that the reaping keeps a client that vanished from pinning the device. TLC finds it in 12
   steps of the SipCalls instance.
9. `AcceptedStaysSubmitted`, `internal/sms/engine.go:151`. The modem accepts the first part of a
   long message and the row says submitted; a later part fails and the row says failed. The comment
   at `internal/db/db.go:946` wants an accepted submission to survive a later serial or network
   error as submitted rather than falsely failed. TLC finds it in 9 steps of the SmsOutbox instance.
10. `internal/sms/multipart.go:60`, `internal/db/db.go:1003`. Parts are collected by sender, 8-bit
    reference and number of parts. When a sender uses a reference again while a message of it still
    waits for a part, one row gets parts of both. A 16-bit reference (`internal/sms/pdu.go:415`) is
    not read, so each part of such a message becomes a message. An entry that `ListSMS` skips
    (`internal/modem/at/adapter.go:289`) or `DecodePDU` refuses (`internal/sms/engine.go:49`) stays
    in the modem for ever.
11. `internal/modem/at/parser.go:274`. `Run` hands its lines to `HandleURC` after it gave up the
    port, so the next exchange may read and handle NO CARRIER before the RING of the same call: the
    end names no call and is passed over, then the RING makes up an identifier, and the controller
    keeps a ringing call that nobody will end. Two lines handled at once read one marker: two RINGs
    make up two identifiers. What an exchange reads after its final line is dropped, also a NO
    CARRIER.
12. `internal/api/server.go:797`. When the request's context ends after the modem obeyed ATD,
    `Adapter.Dial` reports an error (`adapter.go:165`) and `dial` takes the call for refused: it
    hangs up and finishes it in the controller, but sends no ATH, and the call goes on, unknown to
    the app. An ATH that was obeyed and cut off counts as failed, and the hangup is rolled back to a
    call the hardware has ended (as in 2).

## Not modelled

The PDU codecs and the G.711 tables are pure conversions of octets, covered by unit tests of vectors.
Media forwarding and the WebRTC library are I/O; what they report enters `CallController` as
`MarkMediaReady` and `MarkRecovering`. The event bus, push, mDNS, discovery and configuration keep no
state that a later step reads. Provisioning and most command-line tools run once, with the gateway
stopped or without changing what it reads; `device-revoke` is the exception and is in `Devices`. The
read-only handlers, the sync log and the audit log are left out: nothing modelled reads them. With SIP
enabled a second goroutine receives from the one event channel (`main.go:288`); `CallLine` is the gateway
without it, and nothing in the code would make its properties hold with it.

## Plan

What is worth doing next: a composition of `SipCalls` with `VoiceAudio`, which has the processes behind a
bridge; the rows that the hangup handler and the event reader both write, under the
premise that keeps `TerminalRowStays` true.
