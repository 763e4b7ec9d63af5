--------------------------- MODULE CallController ---------------------------
(***************************************************************************)
(* The in-memory call state machine of the gateway,                        *)
(* gateway/internal/call/state.go.  The gateway drives ONE cellular line,  *)
(* so the controller holds at most one call.  Every exported method runs   *)
(* under Controller.mu and is one atomic action here; its return value is  *)
(* kept in `reply`.  Peers, timestamps and error texts are abstracted: a   *)
(* timestamp is the Boolean "is set", an error is its sentinel.            *)
(*                                                                         *)
(* Request keys.  Answer and Hangup take the client's Idempotency-Key, the *)
(* other transitions build a key from the call ID.  The API contract makes *)
(* a client key a UUID of one request, so a key names its operation and    *)
(* its call; `tag` separates the attempts of a client and the reasons of   *)
(* an internal key.                                                        *)
(***************************************************************************)

CONSTANTS
    CallIds,        \* call identifiers, chosen by clients or by the adapter
    Attempts,       \* client requests for one operation on one call
    HangupReasons,  \* why the gateway hangs up: the client's action, a failed dial
    RemoteReasons,  \* why the network ended the call: the text of the URC
    MediaReasons,   \* why its media leg is recovering
    NoReason,       \* EndReason = ""
    NoCall,         \* a nil *Call, and the zero Call of a failed method
    NoResult        \* a key absent from Controller.requests

VARIABLES
    active,         \* Controller.active
    requests,       \* Controller.requests, with the `call` and `previous` of a result
    reply           \* what the last method call returned

vars == <<active, requests, reply>>

LiveStates == {"incoming_ringing", "outgoing_dialing", "connecting", "active", "recovering"}
States == LiveStates \union {"ending"}

Reasons == HangupReasons \union RemoteReasons \union MediaReasons

Call == [id: CallIds, direction: {"inbound", "outbound"}, state: States,
         reason: Reasons \union {NoReason}, cellularReady: BOOLEAN, mediaReady: BOOLEAN,
         answered: BOOLEAN, connected: BOOLEAN, ended: BOOLEAN]

Keys ==
    [op: {"dial", "answer", "hangup"}, call: CallIds, tag: Attempts]
    \union [op: {"cellular_ready", "media_ready"}, call: CallIds, tag: {NoReason}]
    \union [op: {"recovering"}, call: CallIds, tag: MediaReasons]
    \union [op: {"remote_ended"}, call: CallIds, tag: RemoteReasons]

Result == [call: Call, previous: Call \union {NoCall}]

Errors == {"none", "line_busy", "duplicate_event", "not_found", "invalid_state"}
Replies == [op: {k.op : k \in Keys} \union {"new", "incoming", "rollback", "dtmf", "finish"},
            err: Errors, call: Call \union {NoCall}]

ASSUME ConstantsOK ==
    /\ NoCall \notin Call
    /\ NoResult \notin Result
    /\ NoReason \notin Reasons

-----------------------------------------------------------------------------
(* Helpers.                                                                *)

Return(op, err, call) == reply' = [op |-> op, err |-> err, call |-> call]

NewCall(c, direction, state) ==
    [id |-> c, direction |-> direction, state |-> state, reason |-> NoReason,
     cellularReady |-> FALSE, mediaReady |-> FALSE, answered |-> FALSE,
     connected |-> FALSE, ended |-> FALSE]

\* c.active != nil && c.active.ID == callID
Holds(c) == active # NoCall /\ active.id = c

\* The tail of MarkCellularReady and of MarkMediaReady: Active needs both legs.
Joined(call) ==
    IF call.cellularReady /\ call.mediaReady
    THEN [call EXCEPT !.state = "active", !.connected = TRUE]
    ELSE [call EXCEPT !.state = "connecting"]

\* The change of Hangup and of RemoteEnded: the first end reason is kept.
Ending(call, r) ==
    IF call.state = "ending" THEN call
    ELSE [call EXCEPT !.state = "ending", !.reason = r]

\* Controller.mutate: a known key replays its result before the call ID is looked at;
\* otherwise the change applies when the state allows it, and is recorded with the
\* snapshot it replaced.
Mutate(key, from, changed) ==
    \/ /\ requests[key] # NoResult
       /\ Return(key.op, "none", requests[key].call)
       /\ UNCHANGED <<active, requests>>
    \/ /\ requests[key] = NoResult
       /\ ~Holds(key.call)
       /\ Return(key.op, "not_found", NoCall)
       /\ UNCHANGED <<active, requests>>
    \/ /\ requests[key] = NoResult
       /\ Holds(key.call)
       /\ active.state \notin from
       /\ Return(key.op, "invalid_state", NoCall)
       /\ UNCHANGED <<active, requests>>
    \/ /\ requests[key] = NoResult
       /\ Holds(key.call)
       /\ active.state \in from
       /\ active' = changed
       /\ requests' = [requests EXCEPT ![key] = [call |-> changed, previous |-> active]]
       /\ Return(key.op, "none", changed)

-----------------------------------------------------------------------------
(* The methods.                                                            *)

Init ==
    /\ active = NoCall
    /\ requests = [k \in Keys |-> NoResult]
    /\ reply = [op |-> "new", err |-> "none", call |-> NoCall]

Incoming(c) ==
    /\ UNCHANGED requests
    /\ \/ /\ active = NoCall
          /\ active' = NewCall(c, "inbound", "incoming_ringing")
          /\ Return("incoming", "none", active')
       \/ /\ Holds(c)
          /\ UNCHANGED active
          /\ Return("incoming", "duplicate_event", active)
       \/ /\ active # NoCall /\ ~Holds(c)
          /\ UNCHANGED active
          /\ Return("incoming", "line_busy", NoCall)

DialKey(c, n) == [op |-> "dial", call |-> c, tag |-> n]

Dial(c, n) ==
    LET key == DialKey(c, n)
        new == NewCall(c, "outbound", "outgoing_dialing")
    IN  \/ /\ requests[key] # NoResult
           /\ UNCHANGED <<active, requests>>
           /\ Return("dial", "none", requests[key].call)
        \/ /\ requests[key] = NoResult /\ active # NoCall
           /\ UNCHANGED <<active, requests>>
           /\ Return("dial", "line_busy", NoCall)
        \/ /\ requests[key] = NoResult /\ active = NoCall
           /\ active' = new
           /\ requests' = [requests EXCEPT ![key] = [call |-> new, previous |-> NoCall]]
           /\ Return("dial", "none", new)

AnswerKey(c, n) == [op |-> "answer", call |-> c, tag |-> n]

Answer(c, n) ==
    Mutate(AnswerKey(c, n), {"incoming_ringing"},
           [active EXCEPT !.answered = TRUE, !.state = "connecting"])

MarkCellularReady(c) ==
    Mutate([op |-> "cellular_ready", call |-> c, tag |-> NoReason],
           {"outgoing_dialing", "connecting"},
           Joined([active EXCEPT !.cellularReady = TRUE]))

MarkMediaReady(c) ==
    Mutate([op |-> "media_ready", call |-> c, tag |-> NoReason],
           {"outgoing_dialing", "connecting", "active", "recovering"},
           Joined([active EXCEPT !.mediaReady = TRUE]))

\* Mutant of MarkRecovering: the media leg stays marked ready.
MarkRecoveringKeepsMedia(c, r) ==
    Mutate([op |-> "recovering", call |-> c, tag |-> r],
           {"outgoing_dialing", "connecting", "active"},
           [active EXCEPT !.state = "recovering", !.reason = r])

MarkRecovering(c, r) ==
    Mutate([op |-> "recovering", call |-> c, tag |-> r],
           {"outgoing_dialing", "connecting", "active"},
           [active EXCEPT !.state = "recovering", !.mediaReady = FALSE, !.reason = r])

HangupKey(c, n) == [op |-> "hangup", call |-> c, tag |-> n]

Hangup(c, n, r) == Mutate(HangupKey(c, n), States, Ending(active, r))

RemoteEnded(c, r) ==
    Mutate([op |-> "remote_ended", call |-> c, tag |-> r], States, Ending(active, r))

\* Mutant of CanRollback: the call on the line is not compared.
CanRollbackAnyLine(key, c) ==
    /\ requests[key] # NoResult
    /\ requests[key].previous # NoCall

\* Restores the snapshot a request replaced and forgets the request.  The snapshot goes
\* over whatever happened to the call since.
CanRollback(key, c) ==
    /\ requests[key] # NoResult
    /\ requests[key].previous # NoCall
    /\ Holds(c)

Rollback(key, c) ==
    \/ /\ CanRollback(key, c)
       /\ active' = requests[key].previous
       /\ requests' = [requests EXCEPT ![key] = NoResult]
       /\ Return("rollback", "none", NoCall)
    \/ /\ ~CanRollback(key, c)
       /\ UNCHANGED <<active, requests>>
       /\ Return("rollback", "not_found", NoCall)

DTMF(c) ==
    /\ UNCHANGED <<active, requests>>
    /\ \/ ~Holds(c) /\ Return("dtmf", "not_found", NoCall)
       \/ Holds(c) /\ active.state # "active" /\ Return("dtmf", "invalid_state", NoCall)
       \/ Holds(c) /\ active.state = "active" /\ Return("dtmf", "none", NoCall)

Finish(c) ==
    /\ UNCHANGED requests
    /\ \/ /\ ~Holds(c)
          /\ UNCHANGED active
          /\ Return("finish", "not_found", NoCall)
       \/ /\ Holds(c) /\ active.state # "ending"
          /\ UNCHANGED active
          /\ Return("finish", "invalid_state", NoCall)
       \/ /\ Holds(c) /\ active.state = "ending"
          /\ active' = NoCall
          /\ Return("finish", "none", [active EXCEPT !.ended = TRUE])

Next ==
    \E c \in CallIds :
        \/ Incoming(c)
        \/ MarkCellularReady(c)
        \/ MarkMediaReady(c)
        \/ DTMF(c)
        \/ Finish(c)
        \/ \E n \in Attempts :
              \/ Dial(c, n)
              \/ Answer(c, n)
              \/ \E r \in HangupReasons : Hangup(c, n, r)
              \/ Rollback(AnswerKey(c, n), c)
              \/ Rollback(HangupKey(c, n), c)
        \/ \E r \in MediaReasons : MarkRecovering(c, r)
        \/ \E r \in RemoteReasons : RemoteEnded(c, r)

Spec == Init /\ [][Next]_vars

-----------------------------------------------------------------------------
(* Properties.                                                             *)

TypeOK ==
    /\ active \in Call \union {NoCall}
    /\ requests \in [Keys -> Result \union {NoResult}]
    /\ reply \in Replies

\* What the flags of a call say about its state.
LegsAgree(call) ==
    /\ call.state = "active" => call.cellularReady /\ call.mediaReady /\ call.connected
    /\ call.cellularReady /\ call.mediaReady => call.state \in {"active", "ending"}
    /\ call.state \in {"incoming_ringing", "outgoing_dialing"} =>
          ~call.cellularReady /\ ~call.mediaReady /\ ~call.connected

\* The call is Active exactly when both the cellular leg and the media leg are up, also
\* after recoveries and after a rollback to an older snapshot (MarkCellularReady,
\* MarkMediaReady, MarkRecovering, Rollback).
ActiveNeedsBothLegs == active # NoCall => LegsAgree(active)

\* No leg of an incoming call comes up before the user answered it, whatever is
\* delivered, replayed or rolled back (Answer, MarkCellularReady, MarkMediaReady).
ConsentFor(call) ==
    call.direction = "inbound" /\ ~call.answered =>
        ~call.cellularReady /\ ~call.mediaReady /\ call.state \in {"incoming_ringing", "ending"}
NothingUpBeforeAnswer == active # NoCall => ConsentFor(active)

\* The line passes from one call to another only through Finish: no replay and no
\* rollback puts another call, or a finished one, on it (mutate, Rollback, Finish).
LineChangesOnlyThroughFinish ==
    [][/\ active # NoCall /\ active' # NoCall => active'.id = active.id
       /\ active # NoCall /\ active' = NoCall => active.state = "ending"
       /\ active = NoCall /\ active' # NoCall =>
             active'.state \in {"incoming_ringing", "outgoing_dialing"}]_vars

\* While a call is ending its reason stays the first one, whoever else reports the end
\* (Hangup, RemoteEnded); only Rollback may take it back to an earlier snapshot.
FirstEndReasonWins ==
    [][active # NoCall /\ active' # NoCall /\ active.state = "ending"
          /\ reply'.op # "rollback"
       => active' = active]_vars

\* Not kept by the code (README, Observations).
\* Test "TestMediaRecoveryCanReturnToActive": MarkMediaReady on a recovering call takes
\* it back to Active.  What the method returns as the call is then the call.
MediaRecoveryReturnsToActive ==
    reply.op = "media_ready" /\ reply.err = "none" /\ Holds(reply.call.id)
        => active.state # "recovering"
=============================================================================
