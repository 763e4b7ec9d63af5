------------------------------ MODULE CallLine ------------------------------
(***************************************************************************)
(* One cellular line from the modem to the HTTP API: the URCs and the      *)
(* commands of modem/at/adapter.go, the identifier mapping of              *)
(* modem/call_adapter.go, the call controller (CallController), and the    *)
(* goroutines of api/server.go that drive it: the handlers of dial, answer *)
(* and hangup requests, and HandleModemEvent.  A step of a goroutine is    *)
(* one critical section or one AT exchange, so that the others run in      *)
(* between.                                                                *)
(*                                                                         *)
(* `net` is the modem's own view of the line.  The media leg is not here:  *)
(* calls stop at "connecting".  Handlers run to the end; the SIP server,   *)
(* which reads the same events, is not running.                            *)
(***************************************************************************)
EXTENDS CallController, Naturals, Sequences

CONSTANTS
    DialIds,        \* clientCallId of dial requests
    PhysIds,        \* identifiers the AT adapter makes up, one per cellular call
    Handlers,       \* HTTP requests, each served by a goroutine; a handler is its own key
    Ops,            \* Ops[w]: the requests that w may be: "dial", "answer", "hangup"
    FailureOf,      \* FailureOf[w]: the key "modem-failure:" + requestID of w
    ClientHangup, DialFailed,       \* the reasons of a hangup
    LocalEnd, NoCarrier,            \* ModemEvent.Raw of an ended call
    FailingCommands,    \* AT commands whose failure is explored
    CutCommands,        \* AT commands that the modem may obey although Exchange reports an error
    EventCapacity,      \* of each event channel
    MaxRings,           \* bound: RING lines in a behaviour
    None

ASSUME LineConstants ==
    /\ DialIds \union PhysIds \subseteq CallIds /\ DialIds \intersect PhysIds = {}
    /\ Ops \in [Handlers -> SUBSET {"dial", "answer", "hangup"}]
    /\ FailureOf \in [Handlers -> Attempts \ Handlers] /\ Handlers \subseteq Attempts
    /\ {ClientHangup, DialFailed} \subseteq HangupReasons
    /\ {LocalEnd, NoCarrier} \subseteq RemoteReasons
    /\ FailingCommands \union CutCommands \subseteq {"ATD", "ATA", "ATH"}
    /\ {EventCapacity, MaxRings} \subseteq Nat
    /\ None \notin CallIds \union {"RING", "NO CARRIER", "muddled"}

VARIABLES
    net,        \* the modem's line: "idle", "ringing" or "up"
    rings,      \* RING lines so far
    fresh,      \* identifiers not yet made up
    at,         \* at.Adapter.active
    lines,      \* URC lines in the serial port
    taken,      \* taken[t]: the lines that t has read and not handled yet
    urc,        \* urc[t]: the HandleURC at work in t: its line and the callID it read
    heard,      \* history: the last line handled; "muddled" once two were handled at a time
    cut,        \* history: handlers whose context ended after the modem had obeyed
    adapter,    \* ActiveCallAdapter: active, logical, lastPhysical, lastLogical
    atEvents, events,   \* the channels of the two adapters
    handler,    \* the goroutines of the requests
    reader,     \* the goroutine that calls HandleModemEvent
    row         \* table calls: "none", or whether the row of a call is "open" or "ended"

controller == <<active, requests, reply>>
serial == <<lines, taken, urc, heard>>
modem == <<net, rings, fresh, at, serial, cut>>
channels == <<atEvents, events>>
lineVars == <<controller, modem, adapter, channels, handler, reader, row>>

Ids == PhysIds \union {None}
UrcLines == {"RING", "NO CARRIER"}
Event == [kind : {"incoming", "ended"}, call : CallIds \union {None},
          raw : {LocalEnd, NoCarrier, None}]

-----------------------------------------------------------------------------
(* Helpers.                                                                *)

\* The non-blocking send of HandleURC, finishActive and forwardEvents.
Sent(channel, event) == IF Len(channel) < EventCapacity THEN Append(channel, event) ELSE channel

\* persistCall: SaveCall overwrites every column of the row, ended_at included.
Persist(call) == row' = [row EXCEPT ![call.id] = IF call.ended THEN "ended" ELSE "open"]

At(w, where) == handler[w].pc = where
Step(w, where) == handler' = [handler EXCEPT ![w].pc = where]

\* A handler's locals; they are gone when it returns.
Local(where) == [pc |-> where, current |-> NoCall, phys |-> None, return |-> "done",
                 outcome |-> "ok"]
Over(w) == handler' = [handler EXCEPT ![w] = Local("done")]

\* The handler got `call` from the controller and goes on.
Took(w, where, call) == handler' = [handler EXCEPT ![w].pc = where, ![w].current = call]

Succeeded == reply'.err = "none"

-----------------------------------------------------------------------------
(* The modem: what it writes waits in the serial port.                     *)

Ring ==
    /\ net \in {"idle", "ringing"} /\ net' = "ringing"
    /\ rings < MaxRings /\ rings' = rings + 1
    /\ lines' = Append(lines, "RING")
    /\ UNCHANGED <<controller, fresh, at, taken, urc, heard, cut, adapter, channels, handler,
                   reader, row>>

\* NO CARRIER, BUSY or NO ANSWER: the network ended the call.
RemoteEnd ==
    /\ net # "idle" /\ net' = "idle"
    /\ lines' = Append(lines, "NO CARRIER")
    /\ UNCHANGED <<controller, rings, fresh, at, taken, urc, heard, cut, adapter, channels,
                   handler, reader, row>>

-----------------------------------------------------------------------------
(* Who reads the port, and hands the lines to HandleURC one after another: *)
(* Client.Run, which releases the port before it does, and the exchanges,  *)
(* of any goroutine, which release it after.  So a line read by Run may be *)
(* handled after a later one, or together with it.                         *)

Takers == {"run", "exchange"}
NoUrc == [line |-> None, call |-> None]

Handled(t) == taken[t] = <<>> /\ urc[t] = NoUrc
PortFree == Handled("exchange")

\* What HandleURC is given, in the order of the port.
RunTakes(n) ==
    /\ PortFree /\ Handled("run")
    /\ taken' = [taken EXCEPT !["run"] = SubSeq(lines, 1, n)]
    /\ lines' = SubSeq(lines, n + 1, Len(lines))
    /\ UNCHANGED <<controller, net, rings, fresh, at, urc, heard, cut, adapter, channels, handler,
                   reader, row>>

\* The first line is lost when Run had read its beginning, and so are the lines after the
\* final one that Exchange read with it.
ExchangeTakes(n) ==
    /\ PortFree
    /\ \E first \in 1 .. 2, last \in 0 .. n :
          taken' = [taken EXCEPT !["exchange"] = SubSeq(lines, first, last)]
    /\ lines' = SubSeq(lines, n + 1, Len(lines))
    /\ UNCHANGED <<controller, net, rings, fresh, at, urc, heard, cut, adapter, channels, handler,
                   reader, row>>

-----------------------------------------------------------------------------
(* at.Adapter.HandleURC: it reads the active identifier, and in a second   *)
(* critical section it replaces it.                                        *)

UrcRead(t) ==
    /\ urc[t] = NoUrc /\ taken[t] # <<>>
    /\ urc' = [urc EXCEPT ![t] = [line |-> Head(taken[t]), call |-> at]]
    /\ taken' = [taken EXCEPT ![t] = Tail(taken[t])]
    /\ heard' = IF \E u \in Takers : urc[u] # NoUrc THEN "muddled" ELSE heard
    /\ UNCHANGED <<controller, net, rings, fresh, at, lines, cut, adapter, channels, handler,
                   reader, row>>

\* t is through with its line.
Through(t) ==
    /\ urc' = [urc EXCEPT ![t] = NoUrc]
    /\ heard' = IF heard = "muddled" THEN heard ELSE urc[t].line

\* The first RING of a call makes up its identifier.
UrcRing(t) ==
    /\ urc[t].line = "RING" /\ Through(t)
    /\ \/ /\ urc[t].call = None
          /\ \E p \in fresh :
                /\ at' = p /\ fresh' = fresh \ {p}
                /\ atEvents' = Sent(atEvents, [kind |-> "incoming", call |-> p, raw |-> None])
       \/ /\ urc[t].call # None
          /\ UNCHANGED <<at, fresh>>
          /\ atEvents' =
                Sent(atEvents, [kind |-> "incoming", call |-> urc[t].call, raw |-> None])
    /\ UNCHANGED <<controller, net, rings, lines, taken, cut, adapter, events, handler, reader, row>>

\* Mutant of UrcEnd: the active marker is not cleared.
UrcEndKeepsMarker(t) ==
    /\ urc[t].line = "NO CARRIER" /\ Through(t)
    /\ atEvents' = Sent(atEvents, [kind |-> "ended", call |-> urc[t].call, raw |-> NoCarrier])
    /\ UNCHANGED <<controller, net, rings, lines, taken, cut, fresh, at, adapter, events, handler,
                   reader, row>>

UrcEnd(t) ==
    /\ urc[t].line = "NO CARRIER" /\ Through(t)
    /\ at' = IF at = urc[t].call THEN None ELSE at
    /\ atEvents' = Sent(atEvents, [kind |-> "ended", call |-> urc[t].call, raw |-> NoCarrier])
    /\ UNCHANGED <<controller, net, rings, lines, taken, cut, fresh, adapter, events, handler,
                   reader, row>>

Serial ==
    \/ \E n \in 1 .. Len(lines) : RunTakes(n) \/ ExchangeTakes(n)
    \/ \E t \in Takers : UrcRead(t) \/ UrcRing(t) \/ UrcEnd(t)

-----------------------------------------------------------------------------
(* ActiveCallAdapter.forwardEvents.                                        *)

Forward ==
    /\ atEvents # <<>>
    /\ LET event == Head(atEvents)
           physical == event.call
           logical == IF physical = adapter.lastPhysical /\ adapter.lastLogical # None
                      THEN adapter.lastLogical ELSE adapter.logical
           current == IF event.kind = "incoming" /\ physical # None /\ adapter.active = None
                      THEN physical ELSE adapter.active
           known == physical \in {current, adapter.lastPhysical}
           named == IF physical # None /\ known /\ logical # None THEN logical ELSE physical
       IN /\ adapter' =
                IF event.kind = "ended" /\ known
                THEN IF adapter.lastPhysical = None
                     THEN [active |-> None, logical |-> None,
                           lastPhysical |-> physical, lastLogical |-> adapter.logical]
                     ELSE [adapter EXCEPT !.active = None, !.logical = None]
                ELSE [adapter EXCEPT !.active = current]
          /\ events' = Sent(events, [event EXCEPT !.call = named])
    /\ atEvents' = Tail(atEvents)
    /\ UNCHANGED <<controller, modem, handler, reader, row>>

-----------------------------------------------------------------------------
(* Server.HandleModemEvent.                                                *)

Idle == [pc |-> "idle", current |-> NoCall]

ReadIncoming ==
    /\ reader.pc = "idle" /\ events # <<>> /\ Head(events).kind = "incoming"
    /\ events' = Tail(events)
    /\ Incoming(Head(events).call)
    /\ reader' = IF Succeeded THEN [pc |-> "incoming", current |-> reply'.call] ELSE Idle
    /\ UNCHANGED <<modem, adapter, atEvents, handler, row>>

\* Mutant of PersistIncoming: the call is not saved.
PersistIncomingNothing ==
    /\ reader.pc = "incoming"
    /\ reader' = Idle
    /\ UNCHANGED <<controller, modem, adapter, channels, handler, row>>

PersistIncoming ==
    /\ reader.pc = "incoming"
    /\ Persist(reader.current)
    /\ reader' = Idle
    /\ UNCHANGED <<controller, modem, adapter, channels, handler>>

ReadEnded ==
    /\ reader.pc = "idle" /\ events # <<>> /\ Head(events).kind = "ended"
    /\ events' = Tail(events)
    /\ IF Head(events).call = None
       THEN UNCHANGED <<controller, reader>>
       ELSE /\ RemoteEnded(Head(events).call, Head(events).raw)
            /\ reader' = IF Succeeded THEN [pc |-> "ending", current |-> reply'.call] ELSE Idle
    /\ UNCHANGED <<modem, adapter, atEvents, handler, row>>

PersistEnding ==
    /\ reader.pc = "ending"
    /\ Persist(reader.current)
    /\ reader' = [reader EXCEPT !.pc = "finish"]
    /\ UNCHANGED <<controller, modem, adapter, channels, handler>>

FinishEnded ==
    /\ reader.pc = "finish"
    /\ Finish(reader.current.id)
    /\ reader' = IF Succeeded THEN [pc |-> "ended", current |-> reply'.call] ELSE Idle
    /\ UNCHANGED <<modem, adapter, channels, handler, row>>

PersistEnded ==
    /\ reader.pc = "ended"
    /\ Persist(reader.current)
    /\ reader' = Idle
    /\ UNCHANGED <<controller, modem, adapter, channels, handler>>

Reader ==
    \/ ReadIncoming \/ PersistIncoming
    \/ ReadEnded \/ PersistEnding \/ FinishEnded \/ PersistEnded

-----------------------------------------------------------------------------
(* A command of a handler is one exchange, at whose end the modem obeys.   *)
(* When the request's context ends in between, Exchange reports an error,  *)
(* and nothing more of the request reaches the database.                   *)

CutOff(w) == cut' = cut \union {w}

-----------------------------------------------------------------------------
(* ActiveCallAdapter.Hangup over at.Adapter.Hangup, for any handler: read  *)
(* the active identifier, validate it, ATH, report the end, forget it.     *)
(* A caller looks at `outcome`: "ok", "no_call" (ErrNoActiveCall), "error".*)

HangupDone(w, outcome) ==
    handler' = [handler EXCEPT ![w].pc = handler[w].return, ![w].outcome = outcome, ![w].phys = None,
                               ![w].return = "done"]

HangupRead(w) ==
    /\ At(w, "hangup_read")
    /\ \/ adapter.active = None /\ HangupDone(w, "no_call")
       \/ /\ adapter.active # None
          /\ handler' = [handler EXCEPT ![w].pc = "hangup_validate", ![w].phys = adapter.active]
    /\ UNCHANGED <<controller, modem, adapter, channels, reader, row>>

HangupValidate(w) ==
    /\ At(w, "hangup_validate")
    /\ \/ at = handler[w].phys /\ Step(w, "hangup_ath")
       \/ at # handler[w].phys /\ HangupDone(w, "error")
    /\ UNCHANGED <<controller, modem, adapter, channels, reader, row>>

HangupATH(w) ==
    /\ At(w, "hangup_ath") /\ PortFree
    /\ \/ net' = "idle" /\ Step(w, "hangup_finish") /\ UNCHANGED cut
       \/ "ATH" \in FailingCommands /\ UNCHANGED <<net, cut>> /\ HangupDone(w, "error")
       \/ "ATH" \in CutCommands /\ net' = "idle" /\ CutOff(w) /\ HangupDone(w, "error")
    /\ UNCHANGED <<controller, rings, fresh, at, serial, adapter, channels, reader, row>>

FinishActive(w) ==
    /\ At(w, "hangup_finish")
    /\ at' = IF at = handler[w].phys THEN None ELSE at
    /\ atEvents' = Sent(atEvents, [kind |-> "ended", call |-> handler[w].phys, raw |-> LocalEnd])
    /\ Step(w, "hangup_forget")
    /\ UNCHANGED <<controller, net, rings, fresh, serial, cut, adapter, events, reader, row>>

HangupForget(w) ==
    /\ At(w, "hangup_forget")
    /\ adapter' = [active |-> None, logical |-> None,
                   lastPhysical |-> adapter.active, lastLogical |-> adapter.logical]
    /\ HangupDone(w, "ok")
    /\ UNCHANGED <<controller, modem, channels, reader, row>>

ModemHangup(w) ==
    HangupRead(w) \/ HangupValidate(w) \/ HangupATH(w) \/ FinishActive(w) \/ HangupForget(w)

\* The caller's step into ModemHangup.
CallHangup(w, return, current) ==
    handler' = [handler EXCEPT ![w].pc = "hangup_read", ![w].return = return,
                               ![w].current = current]

-----------------------------------------------------------------------------
(* Server.dial.                                                            *)

DialStart(w, d) ==
    /\ At(w, "new") /\ "dial" \in Ops[w]
    /\ Dial(d, w)
    /\ IF Succeeded THEN Took(w, "dial_bind", reply'.call) ELSE Over(w)
    /\ UNCHANGED <<modem, adapter, channels, reader, row>>

\* SetLogicalCallID.
DialBind(w) ==
    /\ At(w, "dial_bind")
    /\ adapter' = [adapter EXCEPT !.logical = handler[w].current.id]
    /\ Step(w, "dial_check")
    /\ UNCHANGED <<controller, modem, channels, reader, row>>

\* at.Adapter.Dial refuses while it knows of a call; the handler then hangs that one up.
DialCheck(w) ==
    /\ At(w, "dial_check")
    /\ \/ at = None /\ Step(w, "dial_atd")
       \/ at # None /\ CallHangup(w, "dial_failed", handler[w].current)
    /\ UNCHANGED <<controller, modem, adapter, channels, reader, row>>

DialATD(w) ==
    /\ At(w, "dial_atd") /\ PortFree
    /\ \/ net = "idle" /\ net' = "up" /\ Step(w, "dial_active") /\ UNCHANGED cut
       \/ /\ net # "idle" \/ "ATD" \in FailingCommands
          /\ UNCHANGED <<net, cut>> /\ Step(w, "dial_failed")
       \/ /\ net = "idle" /\ "ATD" \in CutCommands
          /\ net' = "up" /\ CutOff(w) /\ Step(w, "dial_failed")
    /\ UNCHANGED <<controller, rings, fresh, at, serial, adapter, channels, reader, row>>

\* ATD was accepted: the adapters note the identifier of the call.
DialActive(w) ==
    /\ At(w, "dial_active")
    /\ \E p \in fresh :
          /\ fresh' = fresh \ {p}
          /\ at' = p
          /\ handler' = [handler EXCEPT ![w].pc = "dial_adapter", ![w].phys = p]
    /\ UNCHANGED <<controller, net, rings, serial, cut, adapter, channels, reader, row>>

DialAdapter(w) ==
    /\ At(w, "dial_adapter")
    /\ adapter' = [adapter EXCEPT !.active = handler[w].phys,
                                  !.lastPhysical = None, !.lastLogical = None]
    /\ Step(w, "dial_cellular")
    /\ UNCHANGED <<controller, modem, channels, reader, row>>

\* Mutant of DialCellular: after a failed mark the modem is left alone.
DialCellularKeepsModem(w) ==
    /\ At(w, "dial_cellular")
    /\ MarkCellularReady(handler[w].current.id)
    /\ IF Succeeded THEN Took(w, "persist", reply'.call) ELSE Over(w)
    /\ UNCHANGED <<modem, adapter, channels, reader, row>>

\* `current` is what MarkCellularReady returns, the zero Call if it fails.
DialCellular(w) ==
    /\ At(w, "dial_cellular")
    /\ MarkCellularReady(handler[w].current.id)
    /\ IF Succeeded THEN Took(w, "persist", reply'.call)
                    ELSE CallHangup(w, "dial_release", NoCall)
    /\ UNCHANGED <<modem, adapter, channels, reader, row>>

\* The modem was released; Finish is called with the ID of `current`, the zero Call.
DialRelease(w) ==
    /\ At(w, "dial_release")
    /\ Over(w)
    /\ UNCHANGED <<controller, modem, adapter, channels, reader, row>>

\* Mutant: the call is left in Ending for the event reader, which hears nothing of it.
DialFailUnfinished(w) ==
    /\ At(w, "dial_failed")
    /\ Hangup(handler[w].current.id, FailureOf[w], DialFailed)
    /\ Step(w, "persist")
    /\ UNCHANGED <<modem, adapter, channels, reader, row>>

\* The modem refused: the call is hung up and finished in the controller.
DialFail(w) ==
    /\ At(w, "dial_failed")
    /\ Hangup(handler[w].current.id, FailureOf[w], DialFailed)
    /\ Step(w, "dial_finish")
    /\ UNCHANGED <<modem, adapter, channels, reader, row>>

DialFinish(w) ==
    /\ At(w, "dial_finish")
    /\ Finish(handler[w].current.id)
    /\ IF Succeeded THEN Took(w, "persist", reply'.call) ELSE Step(w, "persist")
    /\ UNCHANGED <<modem, adapter, channels, reader, row>>

PersistCall(w) ==
    /\ At(w, "persist")
    /\ IF w \in cut THEN UNCHANGED row ELSE Persist(handler[w].current)
    /\ Over(w)
    /\ UNCHANGED <<controller, modem, adapter, channels, reader>>

DialHandler(w) ==
    \/ \E d \in DialIds : DialStart(w, d)
    \/ DialBind(w) \/ DialCheck(w) \/ DialATD(w) \/ DialActive(w) \/ DialAdapter(w)
    \/ DialCellular(w) \/ DialRelease(w) \/ DialFail(w) \/ DialFinish(w)

-----------------------------------------------------------------------------
(* Server.callAction: answer, and hangup or reject.                        *)

AnswerStart(w, c) ==
    /\ At(w, "new") /\ "answer" \in Ops[w]
    /\ Answer(c, w)
    /\ IF Succeeded
       THEN handler' = [handler EXCEPT ![w].pc = "answer_read", ![w].current = reply'.call]
       ELSE Over(w)
    /\ UNCHANGED <<modem, adapter, channels, reader, row>>

AnswerRead(w) ==
    /\ At(w, "answer_read")
    /\ \/ adapter.active = None /\ Step(w, "answer_rollback")
       \/ /\ adapter.active # None
          /\ handler' = [handler EXCEPT ![w].pc = "answer_validate", ![w].phys = adapter.active]
    /\ UNCHANGED <<controller, modem, adapter, channels, reader, row>>

AnswerValidate(w) ==
    /\ At(w, "answer_validate")
    /\ \/ at = handler[w].phys /\ Step(w, "answer_ata")
       \/ at # handler[w].phys /\ Step(w, "answer_rollback")
    /\ UNCHANGED <<controller, modem, adapter, channels, reader, row>>

\* ATA takes whatever call rings by now.
AnswerATA(w) ==
    /\ At(w, "answer_ata") /\ PortFree
    /\ \/ net = "ringing" /\ net' = "up" /\ Step(w, "answer_cellular") /\ UNCHANGED cut
       \/ /\ net # "ringing" \/ "ATA" \in FailingCommands
          /\ UNCHANGED <<net, cut>> /\ Step(w, "answer_rollback")
       \/ /\ net = "ringing" /\ "ATA" \in CutCommands
          /\ net' = "up" /\ CutOff(w) /\ Step(w, "answer_rollback")
    /\ UNCHANGED <<controller, rings, fresh, at, serial, adapter, channels, reader, row>>

\* Without the cellular mark the request fails, but the call was picked up: no rollback.
AnswerCellular(w) ==
    /\ At(w, "answer_cellular")
    /\ MarkCellularReady(handler[w].current.id)
    /\ IF Succeeded THEN Took(w, "persist", reply'.call) ELSE Over(w)
    /\ UNCHANGED <<modem, adapter, channels, reader, row>>

AnswerRollback(w) ==
    /\ At(w, "answer_rollback")
    /\ Rollback(AnswerKey(handler[w].current.id, w), handler[w].current.id)
    /\ Over(w)
    /\ UNCHANGED <<modem, adapter, channels, reader, row>>

HangupStart(w, c) ==
    /\ At(w, "new") /\ "hangup" \in Ops[w]
    /\ Hangup(c, w, ClientHangup)
    /\ IF Succeeded THEN CallHangup(w, "hangup_modem", reply'.call) ELSE Over(w)
    /\ UNCHANGED <<modem, adapter, channels, reader, row>>

\* Mutant of HangupModem: an idle modem counts as an error that needs no rollback.
HangupModemIdleIsError(w) ==
    /\ At(w, "hangup_modem")
    /\ \/ /\ handler[w].outcome = "ok"
          /\ Finish(handler[w].current.id)
       \/ /\ handler[w].outcome = "error"
          /\ Rollback(HangupKey(handler[w].current.id, w), handler[w].current.id)
       \/ /\ handler[w].outcome = "no_call"
          /\ UNCHANGED controller
    /\ Over(w)
    /\ UNCHANGED <<modem, adapter, channels, reader, row>>

\* An idle modem is as good as a hangup; after an error the call is rolled back.  When
\* the event reader has finished the call, its row is left to the reader.
HangupModem(w) ==
    /\ At(w, "hangup_modem")
    /\ \/ /\ handler[w].outcome # "error"
          /\ Finish(handler[w].current.id)
          /\ IF Succeeded THEN Took(w, "persist", reply'.call) ELSE Over(w)
       \/ /\ handler[w].outcome = "error"
          /\ Rollback(HangupKey(handler[w].current.id, w), handler[w].current.id)
          /\ Over(w)
    /\ UNCHANGED <<modem, adapter, channels, reader, row>>

ActionHandler(w) ==
    \/ \E c \in CallIds : AnswerStart(w, c) \/ HangupStart(w, c)
    \/ AnswerRead(w) \/ AnswerValidate(w) \/ AnswerATA(w) \/ AnswerCellular(w)
    \/ AnswerRollback(w) \/ HangupModem(w)

-----------------------------------------------------------------------------
LineInit ==
    /\ Init
    /\ net = "idle" /\ rings = 0 /\ fresh = PhysIds /\ at = None
    /\ lines = <<>> /\ taken = [t \in Takers |-> <<>>] /\ urc = [t \in Takers |-> NoUrc]
    /\ heard = None /\ cut = {}
    /\ adapter = [active |-> None, logical |-> None, lastPhysical |-> None, lastLogical |-> None]
    /\ atEvents = <<>> /\ events = <<>>
    /\ handler = [w \in Handlers |-> Local("new")]
    /\ reader = Idle
    /\ row = [c \in CallIds |-> "none"]

Handle(w) == DialHandler(w) \/ ActionHandler(w) \/ ModemHangup(w) \/ PersistCall(w)

Gateway == Serial \/ Forward \/ Reader \/ \E w \in Handlers : Handle(w)

LineNext == Ring \/ RemoteEnd \/ Gateway

LineSpec == LineInit /\ [][LineNext]_lineVars

-----------------------------------------------------------------------------
(* Properties.                                                             *)

HandlerPCs ==
    {"new", "done", "persist", "hangup_read", "hangup_validate", "hangup_ath",
     "hangup_finish", "hangup_forget", "hangup_modem", "dial_bind", "dial_check", "dial_atd",
     "dial_active", "dial_adapter", "dial_cellular", "dial_release", "dial_failed",
     "dial_finish", "answer_read", "answer_validate", "answer_ata", "answer_cellular",
     "answer_rollback"}

LineTypeOK ==
    /\ TypeOK
    /\ net \in {"idle", "ringing", "up"} /\ rings \in 0 .. MaxRings
    /\ fresh \subseteq PhysIds /\ at \in Ids
    /\ lines \in Seq(UrcLines) /\ taken \in [Takers -> Seq(UrcLines)]
    /\ urc \in [Takers -> [line : UrcLines \union {None}, call : Ids]]
    /\ heard \in UrcLines \union {None, "muddled"} /\ cut \subseteq Handlers
    /\ adapter \in [active : Ids, logical : CallIds \union {None},
                    lastPhysical : Ids, lastLogical : CallIds \union {None}]
    /\ atEvents \in Seq(Event) /\ Len(atEvents) <= EventCapacity
    /\ events \in Seq(Event) /\ Len(events) <= EventCapacity
    /\ handler \in [Handlers -> [pc : HandlerPCs, current : Call \union {NoCall}, phys : Ids,
                                 return : {"done", "dial_failed", "dial_release", "hangup_modem"},
                                 outcome : {"ok", "no_call", "error"}]]
    /\ reader \in [pc : {"idle", "incoming", "ending", "finish", "ended"},
                   current : Call \union {NoCall}]
    /\ row \in [CallIds -> {"none", "open", "ended"}]

\* No goroutine is at work and no line or event is on its way.
Quiet ==
    /\ lines = <<>> /\ \A t \in Takers : Handled(t)
    /\ atEvents = <<>> /\ events = <<>> /\ reader.pc = "idle"
    /\ \A w \in Handlers : At(w, "new") \/ At(w, "done")

\* w is on its way to finish c.
Ender(w, c) ==
    /\ handler[w].pc \in {"hangup_read", "hangup_validate", "hangup_ath", "hangup_finish",
                          "hangup_forget", "hangup_modem", "dial_failed", "dial_finish"}
    /\ handler[w].current # NoCall /\ handler[w].current.id = c

\* The call is ending and no goroutine is left to finish it.
Orphaned ==
    /\ active # NoCall /\ active.state = "ending"
    /\ ~ (reader.pc \in {"ending", "finish"} /\ reader.current.id = active.id)
    /\ \A w \in Handlers : ~Ender(w, active.id)

\* w is about to put an earlier snapshot of its call back.
RollsBack(w) ==
    At(w, "answer_rollback") \/ (At(w, "hangup_modem") /\ handler[w].outcome = "error")

\* A call that is ending always has a goroutine on its way to Finish, however the local
\* and the remote end race; only Rollback can put back a call that nobody finishes
\* (HandleModemEvent, callAction, dial).
OnlyRollbackOrphans ==
    [][Orphaned' /\ ~Orphaned =>
          \E w \in Handlers : RollsBack(w) /\ handler'[w].pc = "done"]_lineVars

\* When all is quiet, a call on the line that came in, or that the modem has put through,
\* has a row in the database, also when it was hung up meanwhile and rolled back
\* (persistCall in HandleModemEvent, dial and callAction).  A dialled call whose dial lost
\* it before MarkCellularReady has none, though a rollback may put it back.
CallsAreRecorded ==
    Quiet /\ active # NoCall /\ (active.direction = "inbound" \/ active.cellularReady)
        => row[active.id] # "none"

\* Without requests the events alone bring marker, controller, adapter and rows back in
\* line once NO CARRIER is the last line handled, whatever rang, also several times, and
\* whatever is still queued while the next call comes in, as long as no two lines are
\* handled at a time (HandleURC, forwardEvents, HandleModemEvent).  When NO CARRIER
\* overtakes a RING, or an exchange loses it, nobody hears that the call is over.
UnattendedLineAgrees ==
    Quiet /\ heard = "NO CARRIER" /\ (\A w \in Handlers : At(w, "new")) =>
        active = NoCall /\ at = None /\ \A c \in CallIds : row[c] # "open"

\* At most one request has dialled.
OneDial ==
    \A k, l \in Keys :
        k.op = "dial" /\ l.op = "dial" /\ requests[k] # NoResult /\ requests[l] # NoResult => k = l

\* A dialled call that is up is on the line or gets released: a dial that loses its call
\* to hangups or to the network meanwhile leaves no cellular call behind (dial), if the
\* modem obeys ATH and no request is cut off.  The premises are needed: an event of the previous
\* call, in or out, may reach the one being dialled; and dial does not release a call whose
\* ATD was obeyed after its client had gone.
NoHiddenCall ==
    rings = 0 /\ OneDial /\ "ATH" \notin FailingCommands /\ cut = {} /\ Quiet /\ net = "up" =>
        active # NoCall

\* Not kept by the code (README, Observations).
\* Comment "rolling the controller back here would leave the app showing a call that the
\* hardware has already ended": when all is quiet and the modem is idle, no call is on
\* the line.
NoGhostCall == Quiet /\ net = "idle" => active = NoCall

\* Not kept by the code (README, Observations).
\* Comment "The event reader owns that race; do not persist the stale Ending snapshot
\* over its terminal row": the Ending snapshot does not replace a terminal row.
TerminalRowStays ==
    [][\A c \in CallIds : reader.pc = "ending" /\ row[c] = "ended" => row'[c] = "ended"]_lineVars
=============================================================================
