----------------------------- MODULE CallProofs -----------------------------
(***************************************************************************)
(* Theorems about CallController and CallLine, for any calls, requests,    *)
(* reasons, failing commands and capacities.                               *)
(*                                                                         *)
(* Rollback puts an old snapshot back on the line, so what holds of the    *)
(* active call must also hold of every snapshot that a request may         *)
(* restore: that is what SnapshotsOK adds to make the invariant of the     *)
(* controller inductive.  Whatever the modem, the adapters and the         *)
(* goroutines of CallLine do between them, they use the controller as its  *)
(* specification allows (UsesController), so that what is shown of it      *)
(* holds in the gateway; and an ending call is never left alone.           *)
(*                                                                         *)
(* Three more invariants follow the calls through the gateway: to their    *)
(* rows (RecordedInv), through the queues when no request comes in         *)
(* (StoryInv), and for a single dial up to the modem (DialInv).            *)
(***************************************************************************)
EXTENDS CallLine, SequenceTheorems, TLAPS

-----------------------------------------------------------------------------
(* The controller.                                                         *)

\* What every call on the line, and every snapshot of one, satisfies.
GoodCall(call) == LegsAgree(call) /\ ConsentFor(call)

\* A recorded snapshot is a good state of the very call its request was about.
SnapshotsOK ==
    \A k \in Keys :
        requests[k] # NoResult /\ requests[k].previous # NoCall
            => GoodCall(requests[k].previous) /\ requests[k].previous.id = k.call

\* The inductive invariant.
IInv ==
    /\ TypeOK
    /\ active # NoCall => GoodCall(active)
    /\ SnapshotsOK

-----------------------------------------------------------------------------
(* Lemmas about the operators.                                             *)

\* The keys built by the methods are keys.
LEMMA KeysOfMethods ==
    ASSUME NEW c \in CallIds, NEW n \in Attempts
    PROVE  /\ DialKey(c, n) \in Keys
           /\ AnswerKey(c, n) \in Keys
           /\ HangupKey(c, n) \in Keys
           /\ [op |-> "cellular_ready", call |-> c, tag |-> NoReason] \in Keys
           /\ [op |-> "media_ready", call |-> c, tag |-> NoReason] \in Keys
           /\ \A r \in MediaReasons : [op |-> "recovering", call |-> c, tag |-> r] \in Keys
           /\ \A r \in RemoteReasons : [op |-> "remote_ended", call |-> c, tag |-> r] \in Keys
  BY DEF Keys, DialKey, AnswerKey, HangupKey

\* A freshly created call is well typed and good.
LEMMA NewCallIsGood ==
    ASSUME NEW c \in CallIds, NEW d \in {"inbound", "outbound"},
           NEW s \in {"incoming_ringing", "outgoing_dialing"},
           d = "inbound" => s = "incoming_ringing"
    PROVE  NewCall(c, d, s) \in Call /\ GoodCall(NewCall(c, d, s)) /\ NewCall(c, d, s).id = c
  BY DEF NewCall, Call, States, LiveStates, GoodCall, LegsAgree, ConsentFor

\* A state change that Mutate may apply to the call on the line: it stays the same call,
\* well typed and good.
Sound(changed) == changed \in Call /\ GoodCall(changed) /\ changed.id = active.id

\* A step of Mutate keeps the invariant when the change it applies is sound.
LEMMA MutateKeeps ==
    ASSUME IInv, NEW key \in Keys, NEW from, NEW changed,
           Holds(key.call) /\ active.state \in from => Sound(changed),
           Mutate(key, from, changed)
    PROVE  IInv'
  <1> USE DEF IInv, Sound
  <1>1. CASE UNCHANGED <<active, requests>> /\ reply' \in Replies
    BY <1>1 DEF TypeOK, SnapshotsOK
  <1>2. CASE requests[key] # NoResult /\ Return(key.op, "none", requests[key].call)
             /\ UNCHANGED <<active, requests>>
    <2>1. requests[key].call \in Call
      BY <1>2 DEF TypeOK, Result
    <2>2. reply' \in Replies
      BY <1>2, <2>1 DEF Return, Replies, Errors
    <2> QED BY <1>1, <1>2, <2>2
  <1>3. CASE /\ UNCHANGED <<active, requests>>
             /\ Return(key.op, "not_found", NoCall) \/ Return(key.op, "invalid_state", NoCall)
    <2>1. reply' \in Replies
      BY <1>3 DEF Return, Replies, Errors
    <2> QED BY <1>1, <1>3, <2>1
  <1>4. CASE /\ requests[key] = NoResult /\ Holds(key.call) /\ active.state \in from
             /\ active' = changed
             /\ requests' = [requests EXCEPT ![key] = [call |-> changed, previous |-> active]]
             /\ Return(key.op, "none", changed)
    <2>1. active \in Call /\ active.id = key.call /\ active # NoCall
      BY <1>4 DEF Holds, TypeOK
    <2>2. changed \in Call /\ GoodCall(changed) /\ changed.id = key.call
      BY <1>4, <2>1
    <2>3. [call |-> changed, previous |-> active] \in Result
      BY <2>1, <2>2 DEF Result
    <2>4. TypeOK'
      BY <1>4, <2>2, <2>3 DEF TypeOK, Return, Replies, Errors
    <2>5. SnapshotsOK'
      BY <1>4, <2>1 DEF SnapshotsOK, TypeOK
    <2> QED BY <1>4, <2>2, <2>4, <2>5
  <1> QED BY <1>2, <1>3, <1>4 DEF Mutate

-----------------------------------------------------------------------------
(* The invariant.                                                          *)

\* NewController: no call and no request.
LEMMA InitKeeps == Init => IInv
  BY DEF Init, IInv, TypeOK, SnapshotsOK, Replies, Errors

\* A RING puts a new call on a free line and changes nothing on a busy one.
LEMMA IncomingKeeps == ASSUME IInv, NEW c \in CallIds, Incoming(c) PROVE IInv'
  <1>1. NewCall(c, "inbound", "incoming_ringing") \in Call
        /\ GoodCall(NewCall(c, "inbound", "incoming_ringing"))
    BY NewCallIsGood
  <1>2. active' \in Call \union {NoCall} /\ (active' # NoCall => GoodCall(active'))
    BY <1>1 DEF Incoming, IInv, TypeOK
  <1>3. reply' \in Replies
    BY <1>1 DEF Incoming, Return, Replies, Errors, IInv, TypeOK
  <1> QED BY <1>2, <1>3 DEF Incoming, IInv, TypeOK, SnapshotsOK

\* Dial records its call without a previous snapshot, so Rollback cannot undo it.
LEMMA DialKeeps ==
    ASSUME IInv, NEW c \in CallIds, NEW n \in Attempts, Dial(c, n) PROVE IInv'
  <1> DEFINE key == DialKey(c, n)
             new == NewCall(c, "outbound", "outgoing_dialing")
  <1>1. new \in Call /\ GoodCall(new)
    BY NewCallIsGood
  <1>2. key \in Keys /\ key.op = "dial"
    BY KeysOfMethods DEF DialKey
  <1> HIDE DEF new, key
  <1>3. CASE requests[key] # NoResult /\ UNCHANGED <<active, requests>>
             /\ Return("dial", "none", requests[key].call)
    BY <1>2, <1>3 DEF IInv, TypeOK, SnapshotsOK, Return, Replies, Errors, Result
  <1>4. CASE UNCHANGED <<active, requests>> /\ Return("dial", "line_busy", NoCall)
    BY <1>2, <1>4 DEF IInv, TypeOK, SnapshotsOK, Return, Replies, Errors
  <1>5. CASE /\ active' = new
             /\ requests' = [requests EXCEPT ![key] = [call |-> new, previous |-> NoCall]]
             /\ Return("dial", "none", new)
    <2>1. [call |-> new, previous |-> NoCall] \in Result
      BY <1>1 DEF Result
    <2>2. TypeOK'
      BY <1>1, <1>2, <1>5, <2>1 DEF IInv, TypeOK, Return, Replies, Errors
    <2>3. SnapshotsOK'
      BY <1>5 DEF IInv, TypeOK, SnapshotsOK
    <2> QED BY <1>1, <1>5, <2>2, <2>3 DEF IInv
  <1> QED BY <1>3, <1>4, <1>5 DEF Dial, new, key

\* The snapshot of a request is the good state of the same call at an earlier time.
LEMMA RollbackKeeps ==
    ASSUME IInv, NEW key \in Keys, NEW c \in CallIds, Rollback(key, c) PROVE IInv'
  <1>1. reply' \in Replies
    BY DEF Rollback, Return, Replies, Errors
  <1>2. CASE CanRollback(key, c) /\ active' = requests[key].previous
             /\ requests' = [requests EXCEPT ![key] = NoResult]
    <2>1. active' \in Call /\ GoodCall(active')
      BY <1>2 DEF IInv, TypeOK, SnapshotsOK, CanRollback, Result
    <2>2. SnapshotsOK'
      BY <1>2 DEF IInv, TypeOK, SnapshotsOK
    <2> QED BY <1>1, <1>2, <2>1, <2>2 DEF IInv, TypeOK
  <1>3. CASE UNCHANGED <<active, requests>>
    BY <1>1, <1>3 DEF IInv, TypeOK, SnapshotsOK
  <1> QED BY <1>2, <1>3 DEF Rollback

\* Finish only clears the line.
LEMMA FinishKeeps == ASSUME IInv, NEW c \in CallIds, Finish(c) PROVE IInv'
  <1>1. Holds(c) => [active EXCEPT !.ended = TRUE] \in Call
    BY DEF Holds, IInv, TypeOK, Call
  <1>2. \E ended \in Call \union {NoCall}, err \in Errors : Return("finish", err, ended)
    BY <1>1 DEF Finish, Errors
  <1>3. reply' \in Replies
    BY <1>2 DEF Return, Replies
  <1> QED BY <1>3 DEF Finish, IInv, TypeOK, SnapshotsOK

\* The changes the methods pass to Mutate are sound where their guards allow them.
LEMMA ChangesAreSound ==
    ASSUME IInv, active # NoCall
    PROVE  /\ active.state = "incoming_ringing" =>
                 Sound([active EXCEPT !.answered = TRUE, !.state = "connecting"])
           /\ active.state \in {"outgoing_dialing", "connecting"} =>
                 Sound(Joined([active EXCEPT !.cellularReady = TRUE]))
           /\ active.state \in {"outgoing_dialing", "connecting", "active", "recovering"} =>
                 Sound(Joined([active EXCEPT !.mediaReady = TRUE]))
           /\ \A r \in MediaReasons :
                 active.state \in {"outgoing_dialing", "connecting", "active"} =>
                    Sound([active EXCEPT !.state = "recovering", !.mediaReady = FALSE,
                                         !.reason = r])
           /\ \A r \in HangupReasons \union RemoteReasons : Sound(Ending(active, r))
  <1>1. active \in Call /\ GoodCall(active)
    BY DEF IInv, TypeOK
  <1> USE <1>1 DEF Sound, GoodCall, LegsAgree, ConsentFor, Call, States, LiveStates, Reasons
  <1>2. active.state = "incoming_ringing" =>
            Sound([active EXCEPT !.answered = TRUE, !.state = "connecting"])
    OBVIOUS
  <1>3. active.state \in {"outgoing_dialing", "connecting"} =>
            Sound(Joined([active EXCEPT !.cellularReady = TRUE]))
    BY DEF Joined
  <1>4. active.state \in {"outgoing_dialing", "connecting", "active", "recovering"} =>
            Sound(Joined([active EXCEPT !.mediaReady = TRUE]))
    BY DEF Joined
  <1>5. ASSUME NEW r \in MediaReasons,
               active.state \in {"outgoing_dialing", "connecting", "active"}
        PROVE  Sound([active EXCEPT !.state = "recovering", !.mediaReady = FALSE,
                                    !.reason = r])
    BY <1>5
  <1>6. ASSUME NEW r \in HangupReasons \union RemoteReasons
        PROVE  Sound(Ending(active, r))
    BY <1>6, ZenonT(30) DEF Ending
  <1> QED BY <1>2, <1>3, <1>4, <1>5, <1>6

\* Every method keeps the invariant.
LEMMA NextKeeps == IInv /\ [Next]_vars => IInv'
  <1> SUFFICES ASSUME IInv, [Next]_vars PROVE IInv'
    OBVIOUS
  <1>1. CASE UNCHANGED vars
    BY <1>1 DEF vars, IInv, TypeOK, SnapshotsOK
  <1>2. ASSUME NEW c \in CallIds, Incoming(c) PROVE IInv'
    BY <1>2, IncomingKeeps
  <1>3. ASSUME NEW c \in CallIds, MarkCellularReady(c) PROVE IInv'
    <2> DEFINE key == [op |-> "cellular_ready", call |-> c, tag |-> NoReason]
    <2>1. key \in Keys
      BY DEF Keys
    <2> QED BY <1>3, <2>1, MutateKeeps, ChangesAreSound DEF MarkCellularReady, Holds
  <1>4. ASSUME NEW c \in CallIds, MarkMediaReady(c) PROVE IInv'
    <2> DEFINE key == [op |-> "media_ready", call |-> c, tag |-> NoReason]
    <2>1. key \in Keys
      BY DEF Keys
    <2> QED BY <1>4, <2>1, MutateKeeps, ChangesAreSound DEF MarkMediaReady, Holds
  <1>5. ASSUME NEW c \in CallIds, DTMF(c) PROVE IInv'
    BY <1>5 DEF DTMF, Return, Replies, Errors, IInv, TypeOK, SnapshotsOK
  <1>6. ASSUME NEW c \in CallIds, Finish(c) PROVE IInv'
    BY <1>6, FinishKeeps
  <1>7. ASSUME NEW c \in CallIds, NEW n \in Attempts, Dial(c, n) PROVE IInv'
    BY <1>7, DialKeeps
  <1>8. ASSUME NEW c \in CallIds, NEW n \in Attempts, Answer(c, n) PROVE IInv'
    BY <1>8, KeysOfMethods, MutateKeeps, ChangesAreSound DEF Answer, Holds
  <1>9. ASSUME NEW c \in CallIds, NEW n \in Attempts, NEW r \in HangupReasons,
               Hangup(c, n, r)
        PROVE  IInv'
    BY <1>9, KeysOfMethods, MutateKeeps, ChangesAreSound DEF Hangup, Holds
  <1>10. ASSUME NEW c \in CallIds, NEW n \in Attempts,
                Rollback(AnswerKey(c, n), c) \/ Rollback(HangupKey(c, n), c)
         PROVE  IInv'
    BY <1>10, KeysOfMethods, RollbackKeeps
  <1>11. ASSUME NEW c \in CallIds, NEW r \in MediaReasons, MarkRecovering(c, r)
         PROVE  IInv'
    <2> DEFINE key == [op |-> "recovering", call |-> c, tag |-> r]
    <2>1. key \in Keys
      BY DEF Keys
    <2> QED BY <1>11, <2>1, MutateKeeps, ChangesAreSound DEF MarkRecovering, Holds
  <1>12. ASSUME NEW c \in CallIds, NEW r \in RemoteReasons, RemoteEnded(c, r)
         PROVE  IInv'
    <2> DEFINE key == [op |-> "remote_ended", call |-> c, tag |-> r]
    <2>1. key \in Keys
      BY DEF Keys
    <2> QED BY <1>12, <2>1, MutateKeeps, ChangesAreSound DEF RemoteEnded, Holds
  <1> QED BY <1>1, <1>2, <1>3, <1>4, <1>5, <1>6, <1>7, <1>8, <1>9, <1>10, <1>11, <1>12
          DEF Next

\* The invariant holds in every behaviour.
LEMMA Invariance == Spec => []IInv
  BY InitKeeps, NextKeeps, PTL DEF Spec

-----------------------------------------------------------------------------
(* The theorems.                                                           *)

\* The controller's variables keep their types (every method of Controller).
THEOREM TypeCorrect == Spec => []TypeOK
  <1>1. IInv => TypeOK
    BY DEF IInv
  <1> QED BY <1>1, Invariance, PTL

\* The call is Active exactly when both legs are up (MarkCellularReady, MarkMediaReady,
\* MarkRecovering), also after Rollback restored a snapshot.
THEOREM BothLegs == Spec => []ActiveNeedsBothLegs
  <1>1. IInv => ActiveNeedsBothLegs
    BY DEF IInv, GoodCall, ActiveNeedsBothLegs
  <1> QED BY <1>1, Invariance, PTL

\* No leg of an incoming call is up before the user answered it (Answer).
THEOREM Consent == Spec => []NothingUpBeforeAnswer
  <1>1. IInv => NothingUpBeforeAnswer
    BY DEF IInv, GoodCall, NothingUpBeforeAnswer
  <1> QED BY <1>1, Invariance, PTL

\* One step never replaces the call on the line by another (Rollback, Finish): the only
\* snapshots of a request are of the call it was about.
LineStep ==
    /\ active # NoCall /\ active' # NoCall => active'.id = active.id
    /\ active # NoCall /\ active' = NoCall => active.state = "ending"
    /\ active = NoCall /\ active' # NoCall =>
          active'.state \in {"incoming_ringing", "outgoing_dialing"}

\* Mutate never changes which call is on the line.
LEMMA MutateLineStep ==
    ASSUME IInv, NEW key \in Keys, NEW from, NEW changed,
           Holds(key.call) /\ active.state \in from => Sound(changed),
           Mutate(key, from, changed)
    PROVE  LineStep
  BY ConstantsOK DEF Mutate, LineStep, Sound, Holds, IInv

\* Every method respects the rule of the line.
LEMMA NextLineStep == IInv /\ [Next]_vars => LineStep
  <1> SUFFICES ASSUME IInv, [Next]_vars PROVE LineStep
    OBVIOUS
  <1> USE ConstantsOK
  <1>1. CASE UNCHANGED vars
    BY <1>1 DEF vars, LineStep
  <1>2. ASSUME NEW c \in CallIds, Incoming(c) PROVE LineStep
    BY <1>2, NewCallIsGood DEF Incoming, LineStep, NewCall
  <1>3. ASSUME NEW c \in CallIds, MarkCellularReady(c) PROVE LineStep
    <2> DEFINE key == [op |-> "cellular_ready", call |-> c, tag |-> NoReason]
    <2>1. key \in Keys
      BY DEF Keys
    <2> QED BY <1>3, <2>1, MutateLineStep, ChangesAreSound DEF MarkCellularReady, Holds
  <1>4. ASSUME NEW c \in CallIds, MarkMediaReady(c) PROVE LineStep
    <2> DEFINE key == [op |-> "media_ready", call |-> c, tag |-> NoReason]
    <2>1. key \in Keys
      BY DEF Keys
    <2> QED BY <1>4, <2>1, MutateLineStep, ChangesAreSound DEF MarkMediaReady, Holds
  <1>5. ASSUME NEW c \in CallIds, DTMF(c) PROVE LineStep
    BY <1>5 DEF DTMF, LineStep
  <1>6. ASSUME NEW c \in CallIds, Finish(c) PROVE LineStep
    BY <1>6 DEF Finish, LineStep
  <1>7. ASSUME NEW c \in CallIds, NEW n \in Attempts, Dial(c, n) PROVE LineStep
    BY <1>7 DEF Dial, LineStep, NewCall
  <1>8. ASSUME NEW c \in CallIds, NEW n \in Attempts, Answer(c, n) PROVE LineStep
    BY <1>8, KeysOfMethods, MutateLineStep, ChangesAreSound DEF Answer, Holds
  <1>9. ASSUME NEW c \in CallIds, NEW n \in Attempts, NEW r \in HangupReasons,
               Hangup(c, n, r)
        PROVE  LineStep
    BY <1>9, KeysOfMethods, MutateLineStep, ChangesAreSound DEF Hangup, Holds
  <1>10. ASSUME NEW c \in CallIds, NEW n \in Attempts,
                Rollback(AnswerKey(c, n), c) \/ Rollback(HangupKey(c, n), c)
         PROVE  LineStep
    <2>1. ASSUME NEW key \in Keys, key.call = c, Rollback(key, c) PROVE LineStep
      BY <2>1 DEF Rollback, CanRollback, Holds, IInv, SnapshotsOK, LineStep
    <2> QED BY <1>10, <2>1, KeysOfMethods DEF AnswerKey, HangupKey
  <1>11. ASSUME NEW c \in CallIds, NEW r \in MediaReasons, MarkRecovering(c, r)
         PROVE  LineStep
    <2> DEFINE key == [op |-> "recovering", call |-> c, tag |-> r]
    <2>1. key \in Keys
      BY DEF Keys
    <2> QED BY <1>11, <2>1, MutateLineStep, ChangesAreSound DEF MarkRecovering, Holds
  <1>12. ASSUME NEW c \in CallIds, NEW r \in RemoteReasons, RemoteEnded(c, r)
         PROVE  LineStep
    <2> DEFINE key == [op |-> "remote_ended", call |-> c, tag |-> r]
    <2>1. key \in Keys
      BY DEF Keys
    <2> QED BY <1>12, <2>1, MutateLineStep, ChangesAreSound DEF RemoteEnded, Holds
  <1> QED BY <1>1, <1>2, <1>3, <1>4, <1>5, <1>6, <1>7, <1>8, <1>9, <1>10, <1>11, <1>12
          DEF Next

THEOREM LineChanges == Spec => LineChangesOnlyThroughFinish
  <1>1. IInv /\ [Next]_vars => [LineStep]_vars
    BY NextLineStep
  <1>2. LineChangesOnlyThroughFinish <=> [][LineStep]_vars
    BY PTL DEF LineChangesOnlyThroughFinish, LineStep
  <1> QED BY <1>1, <1>2, Invariance, PTL DEF Spec

\* While a call ends, only Rollback may touch it: no report of the end rewrites the reason.
EndingStep ==
    active # NoCall /\ active' # NoCall /\ active.state = "ending" /\ reply'.op # "rollback"
        => active' = active

\* Every method but Rollback leaves the reason of an ending call alone.
LEMMA NextEndingStep == [Next]_vars => EndingStep
  <1> SUFFICES ASSUME [Next]_vars, active # NoCall, active' # NoCall,
                      active.state = "ending", reply'.op # "rollback"
               PROVE  active' = active
    BY DEF EndingStep
  <1>1. ASSUME NEW key, NEW from, NEW changed, Mutate(key, from, changed),
               "ending" \in from => changed = active
        PROVE  active' = active
    BY <1>1 DEF Mutate
  <1>2. ASSUME NEW r PROVE Ending(active, r) = active
    BY DEF Ending
  <1>3. ASSUME NEW key, NEW c, Rollback(key, c) PROVE FALSE
    BY <1>3 DEF Rollback, Return
  <1>4. CASE UNCHANGED vars
    BY <1>4 DEF vars
  <1>5. ASSUME NEW c \in CallIds,
               Incoming(c) \/ DTMF(c) \/ Finish(c) \/ \E n \in Attempts : Dial(c, n)
        PROVE  active' = active
    BY <1>5 DEF Incoming, DTMF, Finish, Dial
  <1>6. ASSUME NEW c \in CallIds,
               \/ MarkCellularReady(c) \/ MarkMediaReady(c)
               \/ \E n \in Attempts : Answer(c, n)
               \/ \E r \in MediaReasons : MarkRecovering(c, r)
        PROVE  active' = active
    <2>1. CASE MarkCellularReady(c)
      BY <1>1, <2>1 DEF MarkCellularReady
    <2>2. CASE MarkMediaReady(c)
      BY <1>1, <2>2 DEF MarkMediaReady
    <2>3. ASSUME NEW n \in Attempts, Answer(c, n) PROVE active' = active
      BY <1>1, <2>3 DEF Answer
    <2>4. ASSUME NEW r \in MediaReasons, MarkRecovering(c, r) PROVE active' = active
      BY <1>1, <2>4 DEF MarkRecovering
    <2> QED BY <1>6, <2>1, <2>2, <2>3, <2>4
  <1>7. ASSUME NEW c \in CallIds, NEW n \in Attempts, NEW r, Hangup(c, n, r)
        PROVE  active' = active
    BY <1>1, <1>2, <1>7 DEF Hangup
  <1>8. ASSUME NEW c \in CallIds, NEW r, RemoteEnded(c, r) PROVE active' = active
    BY <1>1, <1>2, <1>8 DEF RemoteEnded
  <1> QED BY <1>3, <1>4, <1>5, <1>6, <1>7, <1>8 DEF Next

THEOREM FirstReason == Spec => FirstEndReasonWins
  <1>1. [Next]_vars => [EndingStep]_vars
    BY NextEndingStep
  <1>2. FirstEndReasonWins <=> [][EndingStep]_vars
    BY PTL DEF FirstEndReasonWins, EndingStep
  <1> QED BY <1>1, <1>2, PTL DEF Spec


-----------------------------------------------------------------------------
(* The call line.                                                          *)

EndRaws == {LocalEnd, NoCarrier}

\* Events as the AT adapter sends them, and as the event reader gets them.
AtEvent ==
    [kind : {"incoming"}, call : PhysIds, raw : {None}]
    \union [kind : {"ended"}, call : Ids, raw : EndRaws]
LineEvent ==
    [kind : {"incoming"}, call : CallIds, raw : {None}]
    \union [kind : {"ended"}, call : CallIds \union {None}, raw : EndRaws]

ModemOK ==
    /\ net \in {"idle", "ringing", "up"} /\ rings \in 0 .. MaxRings
    /\ fresh \subseteq PhysIds /\ at \in Ids
    /\ lines \in Seq(UrcLines) /\ taken \in [Takers -> Seq(UrcLines)]
    /\ urc \in [Takers -> [line : UrcLines \union {None}, call : Ids]]
    /\ heard \in UrcLines \union {None, "muddled"} /\ cut \subseteq Handlers

AdapterOK ==
    adapter \in [active : Ids, logical : CallIds \union {None},
                 lastPhysical : Ids, lastLogical : CallIds \union {None}]

ChannelsOK ==
    /\ atEvents \in Seq(AtEvent) /\ Len(atEvents) <= EventCapacity
    /\ events \in Seq(LineEvent) /\ Len(events) <= EventCapacity

HandlerType ==
    [pc : HandlerPCs, current : Call \union {NoCall}, phys : Ids,
     return : {"done", "dial_failed", "dial_release", "hangup_modem"},
     outcome : {"ok", "no_call", "error"}]

\* In ModemHangup, and where a handler has no call of its own.
Hanging ==
    {"hangup_read", "hangup_validate", "hangup_ath", "hangup_finish", "hangup_forget"}
Outside == {"new", "done", "dial_release"}

\* A handler that hangs up returns to a step that ends the handler's call, or it has none.
HandlerOK(h) ==
    /\ h \in HandlerType
    /\ h.pc \notin Outside \union Hanging => h.current \in Call
    /\ h.pc \in Hanging => \/ h.return \in {"hangup_modem", "dial_failed"} /\ h.current \in Call
                           \/ h.return = "dial_release" /\ h.current = NoCall

HandlersOK ==
    /\ handler \in [Handlers -> HandlerType]
    /\ \A w \in Handlers : HandlerOK(handler[w])

ReaderOK ==
    /\ reader \in [pc : {"idle", "incoming", "ending", "finish", "ended"},
                   current : Call \union {NoCall}]
    /\ reader.pc # "idle" => reader.current \in Call

RowsOK == row \in [CallIds -> {"none", "open", "ended"}]

\* What the actors keep beside the controller, whose invariant is IInv.
ActorsOK == ModemOK /\ AdapterOK /\ ChannelsOK /\ HandlersOK /\ ReaderOK /\ RowsOK

\* The inductive invariant.
LineInv == IInv /\ ActorsOK

-----------------------------------------------------------------------------
(* The steps of a handler.                                                 *)

LEMMA HandlerChanges ==
    ASSUME HandlersOK, NEW w \in Handlers, NEW h, HandlerOK(h),
           handler' = [handler EXCEPT ![w] = h]
    PROVE  HandlersOK'
<1>1. h \in HandlerType
  BY DEF HandlerOK
<1>2. handler' \in [Handlers -> HandlerType]
  BY <1>1 DEF HandlersOK
<1>3. \A v \in Handlers : handler'[v] = IF v = w THEN h ELSE handler[v]
  BY DEF HandlersOK
<1>4. \A v \in Handlers : HandlerOK(handler'[v])
  BY <1>3 DEF HandlersOK
<1> QED BY <1>2, <1>4 DEF HandlersOK

\* It goes on, with the identifier of a cellular call or with what it has.
LEMMA StepKeeps ==
    ASSUME HandlersOK, NEW w \in Handlers, NEW where \in HandlerPCs, NEW p \in Ids,
           \/ Step(w, where)
           \/ handler' = [handler EXCEPT ![w].pc = where, ![w].phys = p],
           \/ where \in Outside
           \/ handler[w].pc \in Hanging /\ where \in Hanging
           \/ handler[w].pc \notin Outside \union Hanging /\ where \notin Hanging
    PROVE  HandlersOK'
<1>1. handler[w] \in HandlerType /\ HandlerOK(handler[w])
  BY DEF HandlersOK
<1>2. CASE Step(w, where)
  <2> DEFINE h == [handler[w] EXCEPT !.pc = where]
  <2>1. handler' = [handler EXCEPT ![w] = h]
    BY <1>2 DEF Step
  <2>2. h \in HandlerType /\ h.pc = where /\ h.current = handler[w].current
        /\ h.return = handler[w].return
    BY <1>1 DEF HandlerType
  <2>3. HandlerOK(h)
    BY <1>1, <2>2 DEF HandlerOK, Outside, Hanging
  <2> QED BY <2>1, <2>3, HandlerChanges
<1>3. CASE handler' = [handler EXCEPT ![w].pc = where, ![w].phys = p]
  <2> DEFINE h == [handler[w] EXCEPT !.pc = where, !.phys = p]
  <2>1. handler' = [handler EXCEPT ![w] = h]
    BY <1>1, <1>3 DEF HandlersOK
  <2>2. h \in HandlerType /\ h.pc = where /\ h.current = handler[w].current
        /\ h.return = handler[w].return
    BY <1>1 DEF HandlerType
  <2>3. HandlerOK(h)
    BY <1>1, <2>2 DEF HandlerOK, Outside, Hanging
  <2> QED BY <2>1, <2>3, HandlerChanges
<1> QED BY <1>2, <1>3

LEMMA OverKeeps == ASSUME HandlersOK, NEW w \in Handlers, Over(w) PROVE HandlersOK'
<1>1. Local("done") \in HandlerType /\ Local("done").pc = "done"
  BY DEF Local, HandlerType, HandlerPCs, Ids
<1>2. HandlerOK(Local("done"))
  BY <1>1 DEF HandlerOK, Outside, Hanging
<1> QED BY <1>2, HandlerChanges DEF Over

\* It takes a call it got from the controller along.
LEMMA TookKeeps ==
    ASSUME HandlersOK, NEW w \in Handlers, NEW where \in HandlerPCs, where \notin Hanging,
           NEW call \in Call, Took(w, where, call)
    PROVE  HandlersOK'
<1> DEFINE h == [handler[w] EXCEPT !.pc = where, !.current = call]
<1>1. handler[w] \in HandlerType
  BY DEF HandlersOK
<1>2. handler' = [handler EXCEPT ![w] = h]
  BY <1>1 DEF Took, HandlersOK
<1>3. h \in HandlerType /\ h.pc = where /\ h.current = call
  BY <1>1 DEF HandlerType
<1>4. HandlerOK(h)
  BY <1>3 DEF HandlerOK
<1> QED BY <1>2, <1>4, HandlerChanges

\* It calls the modem's Hangup, and returns from it.
LEMMA CallHangupKeeps ==
    ASSUME HandlersOK, NEW w \in Handlers, NEW return, NEW current,
           \/ return \in {"hangup_modem", "dial_failed"} /\ current \in Call
           \/ return = "dial_release" /\ current = NoCall,
           CallHangup(w, return, current)
    PROVE  HandlersOK'
<1> DEFINE h == [handler[w] EXCEPT !.pc = "hangup_read", !.return = return, !.current = current]
<1>1. handler[w] \in HandlerType
  BY DEF HandlersOK
<1>2. handler' = [handler EXCEPT ![w] = h]
  BY <1>1 DEF CallHangup, HandlersOK
<1>3. h \in HandlerType /\ h.pc = "hangup_read" /\ h.current = current /\ h.return = return
  BY <1>1 DEF HandlerType, HandlerPCs
<1>4. HandlerOK(h)
  BY <1>3 DEF HandlerOK, Outside, Hanging
<1> QED BY <1>2, <1>4, HandlerChanges

LEMMA HangupDoneKeeps ==
    ASSUME HandlersOK, NEW w \in Handlers, NEW outcome \in {"ok", "no_call", "error"},
           handler[w].pc \in Hanging, HangupDone(w, outcome)
    PROVE  HandlersOK'
<1> DEFINE h == [handler[w] EXCEPT !.pc = handler[w].return, !.outcome = outcome, !.phys = None,
                                   !.return = "done"]
<1>1. handler[w] \in HandlerType /\ HandlerOK(handler[w])
  BY DEF HandlersOK
<1>2. handler' = [handler EXCEPT ![w] = h]
  BY <1>1 DEF HangupDone, HandlersOK
<1>3. handler[w].return \in HandlerPCs /\ None \in Ids
  BY <1>1 DEF HandlerType, HandlerPCs, Ids
<1>4. h \in HandlerType /\ h.pc = handler[w].return /\ h.current = handler[w].current
  BY <1>1, <1>3 DEF HandlerType
<1>5. HandlerOK(h)
  BY <1>1, <1>4 DEF HandlerOK, Outside, Hanging
<1> QED BY <1>2, <1>5, HandlerChanges

-----------------------------------------------------------------------------
(* Channels.                                                               *)

LEMMA SentKeeps ==
    ASSUME NEW S, NEW channel \in Seq(S), Len(channel) <= EventCapacity, NEW event \in S
    PROVE  Sent(channel, event) \in Seq(S) /\ Len(Sent(channel, event)) <= EventCapacity
<1>1. EventCapacity \in Nat
  BY LineConstants
<1>2. CASE Len(channel) < EventCapacity
  <2>1. Append(channel, event) \in Seq(S) /\ Len(Append(channel, event)) = Len(channel) + 1
    BY AppendProperties
  <2>2. Len(channel) \in Nat
    BY LenProperties
  <2> QED BY <1>1, <1>2, <2>1, <2>2 DEF Sent
<1>3. CASE ~(Len(channel) < EventCapacity)
  BY <1>3 DEF Sent
<1> QED BY <1>2, <1>3

LEMMA TakenKeeps ==
    ASSUME NEW S, NEW channel \in Seq(S), Len(channel) <= EventCapacity, channel # <<>>
    PROVE  /\ Head(channel) \in S
           /\ Tail(channel) \in Seq(S) /\ Len(Tail(channel)) <= EventCapacity
<1>1. /\ Head(channel) \in S /\ Tail(channel) \in Seq(S)
      /\ Len(Tail(channel)) = Len(channel) - 1
  BY HeadTailProperties
<1>2. Len(channel) \in Nat /\ EventCapacity \in Nat
  BY LenProperties, LineConstants
<1> QED BY <1>1, <1>2

\* The events that the AT adapter makes up.
LEMMA EventsMade ==
    /\ \A p \in PhysIds : [kind |-> "incoming", call |-> p, raw |-> None] \in AtEvent
    /\ \A p \in Ids, r \in EndRaws : [kind |-> "ended", call |-> p, raw |-> r] \in AtEvent
BY DEF AtEvent

-----------------------------------------------------------------------------
(* The modem and the adapters.                                             *)

\* A step of them leaves the rest alone.
LEMMA ElsewhereKeeps ==
    ASSUME ActorsOK, UNCHANGED <<handler, reader, row>>
    PROVE  HandlersOK' /\ ReaderOK' /\ RowsOK'
BY DEF ActorsOK, HandlersOK, ReaderOK, RowsOK

LEMMA RingKeeps == ASSUME ActorsOK, Ring \/ RemoteEnd PROVE ActorsOK'
<1> USE DEF ActorsOK
<1>1. /\ UNCHANGED <<handler, reader, row, fresh, at, taken, urc, heard, cut, adapter, atEvents,
                     events>>
      /\ net' \in {"idle", "ringing", "up"} /\ rings' \in 0 .. MaxRings
      /\ \E line \in UrcLines : lines' = Append(lines, line)
  <2>1. CASE Ring
    <3>1. rings \in 0 .. MaxRings /\ MaxRings \in Nat
      BY LineConstants DEF ModemOK
    <3>2. rings' \in 0 .. MaxRings
      BY <2>1, <3>1 DEF Ring
    <3> QED BY <2>1, <3>2 DEF Ring, channels, UrcLines
  <2>2. CASE RemoteEnd
    <3>1. rings' \in 0 .. MaxRings
      BY <2>2 DEF RemoteEnd, ModemOK
    <3> QED BY <2>2, <3>1 DEF RemoteEnd, channels, UrcLines
  <2> QED BY <2>1, <2>2
<1>2. lines' \in Seq(UrcLines)
  <2>1. PICK line \in UrcLines : lines' = Append(lines, line)
    BY <1>1
  <2>2. Append(lines, line) \in Seq(UrcLines)
    BY AppendProperties DEF ModemOK
  <2> QED BY <2>1, <2>2
<1>3. ModemOK'
  BY <1>1, <1>2 DEF ModemOK
<1> QED BY <1>1, <1>3, ElsewhereKeeps DEF AdapterOK, ChannelsOK

\* A part of a sequence of lines.
LEMMA PartOfLines ==
    ASSUME NEW s \in Seq(UrcLines), NEW i \in Nat \ {0}, NEW j \in 0 .. Len(s)
    PROVE  SubSeq(s, i, j) \in Seq(UrcLines)
<1>1. Len(s) \in Nat /\ \A k \in 1 .. Len(s) : s[k] \in UrcLines
  BY ElementOfSeq, LenProperties
<1>2. \A k \in i .. j : s[k] \in UrcLines
  BY <1>1
<1> QED BY <1>1, <1>2, SubSeqProperties

LEMMA LinesTaken ==
    ASSUME ModemOK, NEW n \in 1 .. Len(lines), RunTakes(n) \/ ExchangeTakes(n)
    PROVE  /\ lines' = SubSeq(lines, n + 1, Len(lines)) /\ lines' \in Seq(UrcLines)
           /\ \E t \in Takers, i \in 1 .. 2, j \in 0 .. n :
                 /\ taken' = [taken EXCEPT ![t] = SubSeq(lines, i, j)]
                 /\ SubSeq(lines, i, j) \in Seq(UrcLines)
                 /\ Handled(t)
           /\ UNCHANGED <<controller, net, rings, fresh, at, urc, heard, cut, adapter, channels,
                          handler, reader, row>>
<1>1. Len(lines) \in Nat /\ n \in Nat /\ n <= Len(lines) /\ lines \in Seq(UrcLines)
  BY LenProperties DEF ModemOK
<1>2. \A i \in 1 .. 2, j \in 0 .. n : SubSeq(lines, i, j) \in Seq(UrcLines)
  BY <1>1, PartOfLines
<1>3. SubSeq(lines, n + 1, Len(lines)) \in Seq(UrcLines)
  BY <1>1, PartOfLines
<1>4. lines' = SubSeq(lines, n + 1, Len(lines))
  BY DEF RunTakes, ExchangeTakes
<1>5. UNCHANGED <<controller, net, rings, fresh, at, urc, heard, cut, adapter, channels, handler,
                  reader, row>>
  BY DEF RunTakes, ExchangeTakes
<1>6. CASE RunTakes(n)
  <2>1. taken' = [taken EXCEPT !["run"] = SubSeq(lines, 1, n)] /\ Handled("run")
    BY <1>6 DEF RunTakes
  <2>2. "run" \in Takers /\ 1 \in 1 .. 2 /\ n \in 0 .. n
    BY <1>1 DEF Takers
  <2> QED BY <1>2, <1>3, <1>4, <1>5, <2>1, <2>2
<1>7. CASE ExchangeTakes(n)
  <2>1. PICK i \in 1 .. 2, j \in 0 .. n :
           taken' = [taken EXCEPT !["exchange"] = SubSeq(lines, i, j)]
    BY <1>7 DEF ExchangeTakes
  <2>2. "exchange" \in Takers /\ Handled("exchange")
    BY <1>7 DEF ExchangeTakes, PortFree, Takers
  <2> QED BY <1>2, <1>3, <1>4, <1>5, <2>1, <2>2
<1> QED BY <1>6, <1>7

LEMMA LinesTakenKeep ==
    ASSUME ActorsOK, NEW n \in 1 .. Len(lines), RunTakes(n) \/ ExchangeTakes(n)
    PROVE  ActorsOK' /\ UNCHANGED controller
<1> USE DEF ActorsOK
<1>1. PICK t \in Takers, s \in Seq(UrcLines) : taken' = [taken EXCEPT ![t] = s]
  BY LinesTaken
<1>2. /\ lines' \in Seq(UrcLines)
      /\ UNCHANGED <<controller, net, rings, fresh, at, urc, heard, cut, adapter, channels,
                     handler, reader, row>>
  BY LinesTaken
<1>3. ModemOK'
  BY <1>1, <1>2 DEF ModemOK
<1> QED BY <1>2, <1>3, ElsewhereKeeps DEF AdapterOK, ChannelsOK, channels

LEMMA UrcReadKeeps ==
    ASSUME ActorsOK, NEW t \in Takers, UrcRead(t) PROVE ActorsOK' /\ UNCHANGED controller
<1> USE DEF ActorsOK
<1>1. /\ UNCHANGED <<controller, handler, reader, row, net, rings, fresh, at, lines, cut, adapter,
                     atEvents, events>>
      /\ urc' = [urc EXCEPT ![t] = [line |-> Head(taken[t]), call |-> at]]
      /\ taken' = [taken EXCEPT ![t] = Tail(taken[t])] /\ taken[t] # <<>>
      /\ heard' \in {"muddled", heard}
  BY DEF UrcRead, channels
<1>2. taken[t] \in Seq(UrcLines)
  BY DEF ModemOK
<1>3. Head(taken[t]) \in UrcLines /\ Tail(taken[t]) \in Seq(UrcLines)
  BY <1>1, <1>2, HeadTailProperties
<1>4. ModemOK'
  BY <1>1, <1>3 DEF ModemOK
<1> QED BY <1>1, <1>4, ElsewhereKeeps DEF AdapterOK, ChannelsOK

LEMMA UrcHandledKeeps ==
    ASSUME ActorsOK, NEW t \in Takers, UrcRing(t) \/ UrcEnd(t)
    PROVE  ActorsOK' /\ UNCHANGED controller
<1> USE DEF ActorsOK
<1>1. /\ UNCHANGED <<controller, handler, reader, row, net, rings, lines, taken, cut, adapter,
                     events>>
      /\ urc' = [urc EXCEPT ![t] = NoUrc]
      /\ urc[t].line \in UrcLines /\ heard' \in {heard, urc[t].line}
  BY DEF UrcRing, UrcEnd, Through, UrcLines
<1>2. NoUrc \in [line : UrcLines \union {None}, call : Ids]
  BY DEF NoUrc, Ids
<1>3. /\ fresh' \subseteq PhysIds /\ at' \in Ids
      /\ \E event \in AtEvent : atEvents' = Sent(atEvents, event)
  <2> USE EventsMade DEF ModemOK, Ids
  <2>0. urc[t].call \in Ids
    OBVIOUS
  <2>1. CASE UrcRing(t)
    <3>1. CASE urc[t].call = None
      BY <2>1, <3>1 DEF UrcRing
    <3>2. CASE urc[t].call # None
      BY <2>0, <2>1, <3>2 DEF UrcRing
    <3> QED BY <3>1, <3>2
  <2>2. CASE UrcEnd(t)
    <3>1. NoCarrier \in EndRaws
      BY DEF EndRaws
    <3> QED BY <2>0, <2>2, <3>1 DEF UrcEnd
  <2> QED BY <2>1, <2>2
<1>4. ModemOK'
  BY <1>1, <1>2, <1>3 DEF ModemOK
<1>5. ChannelsOK'
  BY <1>1, <1>3, SentKeeps DEF ChannelsOK
<1> QED BY <1>1, <1>4, <1>5, ElsewhereKeeps DEF AdapterOK

\* What reading and handling lines leaves alone.
LEMMA SerialFrame ==
    ASSUME Serial
    PROVE  UNCHANGED <<controller, net, rings, cut, adapter, events, handler, reader, row>>
<1> DEFINE Frame ==
            UNCHANGED <<controller, net, rings, cut, adapter, events, handler, reader, row>>
<1>1. ASSUME NEW n, RunTakes(n) \/ ExchangeTakes(n) PROVE Frame
  BY <1>1 DEF RunTakes, ExchangeTakes, channels
<1>2. ASSUME NEW t, UrcRead(t) \/ UrcRing(t) \/ UrcEnd(t) PROVE Frame
  BY <1>2 DEF UrcRead, UrcRing, UrcEnd, channels
<1>3. Frame
  <2> HIDE DEF Frame
  <2> QED BY <1>1, <1>2 DEF Serial
<1> QED BY <1>3

\* All that happens between the port and HandleURC.
LEMMA SerialKeeps == ASSUME ActorsOK, Serial PROVE ActorsOK' /\ UNCHANGED controller
BY LinesTakenKeep, UrcReadKeeps, UrcHandledKeeps DEF Serial

\* An event gets the logical name of the call it is about.
LEMMA ForwardKeeps == ASSUME ActorsOK, Forward PROVE ActorsOK'
<1> USE DEF ActorsOK
<1>1. /\ UNCHANGED <<handler, reader, row, net, rings, fresh, at, lines, taken, urc, heard, cut>>
      /\ atEvents # <<>> /\ atEvents' = Tail(atEvents)
  BY DEF Forward, modem, serial
<1> DEFINE event == Head(atEvents)
<1>2. event \in AtEvent /\ Tail(atEvents) \in Seq(AtEvent) /\ Len(Tail(atEvents)) <= EventCapacity
  BY <1>1, TakenKeeps DEF ChannelsOK
<1>3. ModemOK'
  BY <1>1 DEF ModemOK
<1>4. PhysIds \subseteq CallIds /\ None \notin CallIds
  BY LineConstants
<1>5. event.call \in Ids /\ (event.kind = "incoming" => event.call \in PhysIds)
  BY <1>2, <1>4 DEF AtEvent, Ids
<1>6. AdapterOK'
  <2>1. adapter' \in
           {[adapter EXCEPT !.active = None, !.logical = None],
            [active |-> None, logical |-> None,
             lastPhysical |-> event.call, lastLogical |-> adapter.logical],
            [adapter EXCEPT !.active = event.call], [adapter EXCEPT !.active = adapter.active]}
    BY DEF Forward
  <2>2. None \in Ids
    BY DEF Ids
  <2>3. adapter.active \in Ids /\ adapter.logical \in CallIds \union {None}
    BY DEF AdapterOK
  <2> HIDE DEF event
  <2>4. CASE adapter' = [adapter EXCEPT !.active = None, !.logical = None]
    BY <2>2, <2>4 DEF AdapterOK
  <2>5. CASE adapter' = [active |-> None, logical |-> None, lastPhysical |-> event.call,
                         lastLogical |-> adapter.logical]
    BY ONLY <1>5, <2>2, <2>3, <2>5 DEF AdapterOK
  <2>6. ASSUME NEW p \in Ids, adapter' = [adapter EXCEPT !.active = p] PROVE AdapterOK'
    BY <2>6 DEF AdapterOK
  <2> QED BY <1>5, <2>1, <2>3, <2>4, <2>5, <2>6
<1>7. ChannelsOK'
  <2>1. \E c \in CallIds \union {None} :
           /\ events' = Sent(events, [event EXCEPT !.call = c])
           /\ event.kind = "incoming" => c \in CallIds
    <3> DEFINE physical == event.call
               logical == IF physical = adapter.lastPhysical /\ adapter.lastLogical # None
                          THEN adapter.lastLogical ELSE adapter.logical
    <3>1. \E c \in {logical, physical} :
             /\ events' = Sent(events, [event EXCEPT !.call = c])
             /\ c # physical => physical # None /\ logical # None
      BY DEF Forward
    <3>2. logical \in CallIds \union {None} /\ physical \in CallIds \union {None}
      BY <1>4, <1>5 DEF AdapterOK, Ids
    <3> HIDE DEF event, logical
    <3> QED BY <1>4, <1>5, <3>1, <3>2 DEF Ids
  <2>2. \A c \in CallIds \union {None} :
           (event.kind = "incoming" => c \in CallIds) => [event EXCEPT !.call = c] \in LineEvent
    <3> HIDE DEF event
    <3> QED BY <1>2 DEF AtEvent, LineEvent
  <2> HIDE DEF event
  <2>3. events' \in Seq(LineEvent) /\ Len(events') <= EventCapacity
    BY <2>1, <2>2, SentKeeps DEF ChannelsOK
  <2> QED BY <1>1, <1>2, <2>3 DEF ChannelsOK
<1> QED BY <1>1, <1>3, <1>6, <1>7, ElsewhereKeeps

-----------------------------------------------------------------------------
(* The handlers, where they do not use the controller.                     *)

LEMMA OnlyHandlers ==
    ASSUME ActorsOK, HandlersOK', UNCHANGED <<modem, adapter, channels, reader, row>>
    PROVE  ActorsOK'
BY DEF ActorsOK, ModemOK, AdapterOK, ChannelsOK, ReaderOK, RowsOK, modem, serial, channels

LEMMA ModemHangupKeeps ==
    ASSUME ActorsOK, NEW w \in Handlers, ModemHangup(w)
    PROVE  ActorsOK' /\ UNCHANGED controller
<1> USE DEF ActorsOK
<1>0. /\ handler[w] \in HandlerType /\ None \in Ids
      /\ handler[w].phys \in Ids /\ handler[w].return \in HandlerPCs
  BY DEF HandlersOK, HandlerType, HandlerPCs, Ids
<1>1. CASE HangupRead(w)
  <2>1. adapter.active \in Ids
    BY DEF AdapterOK
  <2>2. HandlersOK'
    BY <1>1, <2>1, StepKeeps, HangupDoneKeeps DEF HangupRead, At, Hanging, HandlerPCs
  <2> QED BY <1>1, <2>2, OnlyHandlers DEF HangupRead
<1>2. CASE HangupValidate(w)
  <2>1. HandlersOK'
    BY <1>0, <1>2, StepKeeps, HangupDoneKeeps DEF HangupValidate, At, Hanging, HandlerPCs
  <2> QED BY <1>2, <2>1, OnlyHandlers DEF HangupValidate
<1>3. CASE HangupATH(w)
  <2>1. HandlersOK'
    BY <1>0, <1>3, StepKeeps, HangupDoneKeeps DEF HangupATH, At, Hanging, HandlerPCs
  <2>2. ModemOK'
    BY <1>3 DEF HangupATH, CutOff, ModemOK, serial
  <2> QED BY <1>3, <2>1, <2>2 DEF HangupATH, AdapterOK, ChannelsOK, ReaderOK, RowsOK, channels
<1>4. CASE FinishActive(w)
  <2>1. HandlersOK'
    BY <1>0, <1>4, StepKeeps DEF FinishActive, At, Hanging, HandlerPCs
  <2>2. ModemOK'
    BY <1>0, <1>4 DEF FinishActive, ModemOK, serial
  <2>3. ChannelsOK'
    <3>1. [kind |-> "ended", call |-> handler[w].phys, raw |-> LocalEnd] \in AtEvent
      BY <1>0, EventsMade DEF EndRaws
    <3> QED BY <1>4, <3>1, SentKeeps DEF FinishActive, ChannelsOK
  <2> QED BY <1>4, <2>1, <2>2, <2>3 DEF FinishActive, AdapterOK, ReaderOK, RowsOK
<1>5. CASE HangupForget(w)
  <2>1. HandlersOK'
    BY <1>5, HangupDoneKeeps DEF HangupForget, At, Hanging
  <2>2. AdapterOK'
    BY <1>0, <1>5 DEF HangupForget, AdapterOK
  <2> QED BY <1>5, <2>1, <2>2
          DEF HangupForget, ModemOK, ChannelsOK, ReaderOK, RowsOK, modem, serial, channels
<1> QED BY <1>1, <1>2, <1>3, <1>4, <1>5
        DEF ModemHangup, HangupRead, HangupValidate, HangupATH, FinishActive, HangupForget

\* Where a handler has a call, and goes on with it.
LEMMA WorkingHandler ==
    ASSUME HandlersOK, NEW w \in Handlers,
           handler[w].pc \in HandlerPCs \ (Outside \union Hanging)
    PROVE  /\ handler[w].current \in Call /\ handler[w].current.id \in CallIds
           /\ handler[w].phys \in Ids
           /\ \A where \in HandlerPCs \ Hanging : Step(w, where) => HandlersOK'
           /\ \A where \in HandlerPCs \ Hanging, p \in Ids :
                 handler' = [handler EXCEPT ![w].pc = where, ![w].phys = p] => HandlersOK'
<1>1. /\ handler[w].current \in Call /\ handler[w].phys \in Ids
  BY DEF HandlersOK, HandlerOK, HandlerType
<1>2. \A where \in HandlerPCs \ Hanging : Step(w, where) => HandlersOK'
  BY <1>1, StepKeeps
<1>3. \A where \in HandlerPCs \ Hanging, p \in Ids :
          handler' = [handler EXCEPT ![w].pc = where, ![w].phys = p] => HandlersOK'
  BY StepKeeps
<1> QED BY <1>1, <1>2, <1>3 DEF Call

DialStep(w) ==
    \/ DialBind(w) \/ DialCheck(w) \/ DialATD(w) \/ DialActive(w) \/ DialAdapter(w)
    \/ DialRelease(w)

LEMMA DialStepKeeps ==
    ASSUME ActorsOK, NEW w \in Handlers, DialStep(w)
    PROVE  ActorsOK' /\ UNCHANGED controller
<1> USE DEF ActorsOK, Outside, Hanging, HandlerPCs
<1>1. CASE DialBind(w)
  <2>1. HandlersOK' /\ handler[w].current.id \in CallIds
    BY <1>1, WorkingHandler DEF DialBind, At
  <2>2. AdapterOK'
    BY <1>1, <2>1 DEF DialBind, AdapterOK
  <2> QED BY <1>1, <2>1, <2>2
          DEF DialBind, ModemOK, ChannelsOK, ReaderOK, RowsOK, modem, serial, channels
<1>2. CASE DialCheck(w)
  <2>1. handler[w].current \in Call
    BY <1>2, WorkingHandler DEF DialCheck, At
  <2>2. HandlersOK'
    BY <1>2, <2>1, WorkingHandler, CallHangupKeeps DEF DialCheck, At
  <2> QED BY <1>2, <2>2, OnlyHandlers DEF DialCheck
<1>3. CASE DialATD(w)
  <2>1. HandlersOK'
    BY <1>3, WorkingHandler DEF DialATD, At
  <2>2. ModemOK'
    BY <1>3 DEF DialATD, CutOff, ModemOK, serial
  <2> QED BY <1>3, <2>1, <2>2 DEF DialATD, AdapterOK, ChannelsOK, ReaderOK, RowsOK, channels
<1>4. CASE DialActive(w)
  <2>1. PICK p \in fresh : /\ fresh' = fresh \ {p} /\ at' = p
                           /\ handler' = [handler EXCEPT ![w].pc = "dial_adapter", ![w].phys = p]
    BY <1>4 DEF DialActive
  <2>2. p \in Ids
    BY DEF ModemOK, Ids
  <2>3. HandlersOK'
    BY <1>4, <2>1, <2>2, WorkingHandler DEF DialActive, At
  <2>4. ModemOK'
    BY <1>4, <2>1, <2>2 DEF DialActive, ModemOK, serial
  <2> QED BY <1>4, <2>3, <2>4 DEF DialActive, AdapterOK, ChannelsOK, ReaderOK, RowsOK, channels
<1>5. CASE DialAdapter(w)
  <2>1. HandlersOK' /\ handler[w].phys \in Ids
    BY <1>5, WorkingHandler DEF DialAdapter, At
  <2>2. AdapterOK'
    BY <1>5, <2>1 DEF DialAdapter, AdapterOK, Ids
  <2> QED BY <1>5, <2>1, <2>2
          DEF DialAdapter, ModemOK, ChannelsOK, ReaderOK, RowsOK, modem, serial, channels
<1>6. CASE DialRelease(w)
  BY <1>6, OverKeeps, OnlyHandlers DEF DialRelease
<1> QED BY <1>1, <1>2, <1>3, <1>4, <1>5, <1>6
        DEF DialStep, DialBind, DialCheck, DialATD, DialActive, DialAdapter, DialRelease

AnswerStep(w) == AnswerRead(w) \/ AnswerValidate(w) \/ AnswerATA(w)

LEMMA AnswerStepKeeps ==
    ASSUME ActorsOK, NEW w \in Handlers, AnswerStep(w)
    PROVE  ActorsOK' /\ UNCHANGED controller
<1> USE DEF ActorsOK, Outside, Hanging, HandlerPCs
<1>1. CASE AnswerRead(w)
  <2>1. adapter.active \in Ids
    BY DEF AdapterOK
  <2>2. HandlersOK'
    BY <1>1, <2>1, WorkingHandler DEF AnswerRead, At
  <2> QED BY <1>1, <2>2, OnlyHandlers DEF AnswerRead
<1>2. CASE AnswerValidate(w)
  <2>1. HandlersOK'
    BY <1>2, WorkingHandler DEF AnswerValidate, At
  <2> QED BY <1>2, <2>1, OnlyHandlers DEF AnswerValidate
<1>3. CASE AnswerATA(w)
  <2>1. HandlersOK'
    BY <1>3, WorkingHandler DEF AnswerATA, At
  <2>2. ModemOK'
    BY <1>3 DEF AnswerATA, CutOff, ModemOK, serial
  <2> QED BY <1>3, <2>1, <2>2 DEF AnswerATA, AdapterOK, ChannelsOK, ReaderOK, RowsOK, channels
<1> QED BY <1>1, <1>2, <1>3 DEF AnswerStep, AnswerRead, AnswerValidate, AnswerATA

-----------------------------------------------------------------------------
(* The methods of the controller that the gateway calls.                   *)

LEMMA MutateReplies ==
    ASSUME IInv, NEW key \in Keys, NEW from, NEW changed,
           Holds(key.call) /\ active.state \in from => Sound(changed),
           Mutate(key, from, changed), Succeeded
    PROVE  reply'.call \in Call
BY DEF Mutate, Return, Succeeded, Sound, IInv, TypeOK, Result

\* Each is a step of the controller, and a call is what it returns without an error.
LEMMA MethodReplies ==
    ASSUME IInv, NEW c \in CallIds,
           \/ Incoming(c) \/ MarkCellularReady(c) \/ Finish(c)
           \/ \E n \in Attempts : \/ Dial(c, n) \/ Answer(c, n)
                                  \/ \E r \in HangupReasons : Hangup(c, n, r)
           \/ \E r \in RemoteReasons : RemoteEnded(c, r)
    PROVE  [Next]_vars /\ (Succeeded => reply'.call \in Call)
<1> USE KeysOfMethods DEF Next, Succeeded
<1>1. CASE Incoming(c)
  <2>1. Succeeded => reply'.call = NewCall(c, "inbound", "incoming_ringing")
    BY <1>1 DEF Incoming, Return
  <2> QED BY <1>1, <2>1, NewCallIsGood
<1>2. ASSUME NEW n \in Attempts, Dial(c, n)
      PROVE  [Next]_vars /\ (Succeeded => reply'.call \in Call)
  <2>1. DialKey(c, n) \in Keys /\ requests[DialKey(c, n)] \in Result \union {NoResult}
    BY DEF IInv, TypeOK
  <2>2. Succeeded => \/ reply'.call = NewCall(c, "outbound", "outgoing_dialing")
                     \/ reply'.call \in Call
    BY <1>2, <2>1 DEF Dial, Return, Result
  <2> QED BY <1>2, <2>2, NewCallIsGood
<1>3. ASSUME NEW n \in Attempts, Answer(c, n)
      PROVE  [Next]_vars /\ (Succeeded => reply'.call \in Call)
  <2>1. Succeeded => reply'.call \in Call
    BY <1>3, MutateReplies, ChangesAreSound DEF Answer, Holds, AnswerKey
  <2> QED BY <1>3, <2>1
<1>4. CASE MarkCellularReady(c)
  <2> DEFINE key == [op |-> "cellular_ready", call |-> c, tag |-> NoReason]
  <2>1. Succeeded => reply'.call \in Call
    <3>1. key \in Keys
      BY DEF Keys
    <3> QED BY <1>4, <3>1, MutateReplies, ChangesAreSound DEF MarkCellularReady, Holds
  <2> QED BY <1>4, <2>1
<1>5. CASE Finish(c)
  <2> DEFINE final == [active EXCEPT !.ended = TRUE]
  <2>1. active # NoCall => final \in Call
    BY DEF IInv, TypeOK, Call
  <2>2. \/ Return("finish", "not_found", NoCall) \/ Return("finish", "invalid_state", NoCall)
        \/ active # NoCall /\ Return("finish", "none", final)
    BY <1>5 DEF Finish, Holds
  <2> HIDE DEF final
  <2>3. Succeeded => reply'.call \in Call
    BY <2>1, <2>2 DEF Return
  <2> QED BY <1>5, <2>3
<1>6. ASSUME NEW n \in Attempts, NEW r \in HangupReasons, Hangup(c, n, r)
      PROVE  [Next]_vars /\ (Succeeded => reply'.call \in Call)
  <2>1. Succeeded => reply'.call \in Call
    BY <1>6, MutateReplies, ChangesAreSound DEF Hangup, Holds, HangupKey
  <2> QED BY <1>6, <2>1
<1>7. ASSUME NEW r \in RemoteReasons, RemoteEnded(c, r)
      PROVE  [Next]_vars /\ (Succeeded => reply'.call \in Call)
  <2> DEFINE key == [op |-> "remote_ended", call |-> c, tag |-> r]
  <2>1. Succeeded => reply'.call \in Call
    <3>1. key \in Keys
      BY DEF Keys
    <3> QED BY <1>7, <3>1, MutateReplies, ChangesAreSound DEF RemoteEnded, Holds
  <2> QED BY <1>7, <2>1
<1> QED BY <1>1, <1>2, <1>3, <1>4, <1>5, <1>6, <1>7

\* Rollback belongs to an answer or a hangup of the same call.
LEMMA RollbackIsAllowed ==
    ASSUME NEW c \in CallIds, NEW n \in Attempts,
           Rollback(AnswerKey(c, n), c) \/ Rollback(HangupKey(c, n), c)
    PROVE  Next
BY DEF Next

-----------------------------------------------------------------------------
(* The handlers, where they use the controller.                            *)

DialMethod(w) ==
    \/ \E d \in DialIds : DialStart(w, d)
    \/ DialCellular(w) \/ DialFail(w) \/ DialFinish(w)

LEMMA DialMethodKeeps ==
    ASSUME LineInv, NEW w \in Handlers, DialMethod(w)
    PROVE  ActorsOK' /\ [Next]_vars
<1> USE DEF ActorsOK, LineInv, Outside, Hanging, HandlerPCs
<1>0. w \in Attempts /\ FailureOf[w] \in Attempts /\ DialIds \subseteq CallIds
      /\ DialFailed \in HangupReasons
  BY LineConstants
<1>1. ASSUME NEW d \in DialIds, DialStart(w, d) PROVE HandlersOK' /\ [Next]_vars
  <2>1. [Next]_vars /\ (Succeeded => reply'.call \in Call)
    BY <1>0, <1>1, MethodReplies DEF DialStart
  <2>2. HandlersOK'
    BY <1>1, <2>1, TookKeeps, OverKeeps DEF DialStart
  <2> QED BY <2>1, <2>2
<1>2. ASSUME DialCellular(w) PROVE HandlersOK' /\ [Next]_vars
  <2>1. handler[w].current.id \in CallIds
    BY <1>2, WorkingHandler DEF DialCellular, At
  <2>2. [Next]_vars /\ (Succeeded => reply'.call \in Call)
    BY <1>0, <1>2, <2>1, MethodReplies DEF DialCellular
  <2>3. HandlersOK'
    BY <1>2, <2>2, TookKeeps, CallHangupKeeps DEF DialCellular
  <2> QED BY <2>2, <2>3
<1>3. ASSUME DialFail(w) PROVE HandlersOK' /\ [Next]_vars
  <2>1. handler[w].current.id \in CallIds /\ HandlersOK'
    BY <1>3, WorkingHandler DEF DialFail, At
  <2>2. [Next]_vars
    BY <1>0, <1>3, <2>1, MethodReplies DEF DialFail
  <2> QED BY <2>1, <2>2
<1>4. ASSUME DialFinish(w) PROVE HandlersOK' /\ [Next]_vars
  <2>1. handler[w].current.id \in CallIds /\ (Step(w, "persist") => HandlersOK')
    BY <1>4, WorkingHandler DEF DialFinish, At
  <2>2. [Next]_vars /\ (Succeeded => reply'.call \in Call)
    BY <1>0, <1>4, <2>1, MethodReplies DEF DialFinish
  <2>3. HandlersOK'
    BY <1>4, <2>1, <2>2, TookKeeps DEF DialFinish
  <2> QED BY <2>2, <2>3
<1>5. HandlersOK' /\ [Next]_vars
  BY <1>1, <1>2, <1>3, <1>4 DEF DialMethod
<1>6. UNCHANGED <<modem, adapter, channels, reader, row>>
  BY DEF DialMethod, DialStart, DialCellular, DialFail, DialFinish
<1> QED BY <1>5, <1>6, OnlyHandlers

ActionMethod(w) ==
    \/ \E c \in CallIds : AnswerStart(w, c) \/ HangupStart(w, c)
    \/ AnswerCellular(w) \/ AnswerRollback(w) \/ HangupModem(w)

LEMMA ActionMethodKeeps ==
    ASSUME LineInv, NEW w \in Handlers, ActionMethod(w)
    PROVE  ActorsOK' /\ [Next]_vars
<1> USE DEF ActorsOK, LineInv, Outside, Hanging, HandlerPCs
<1>0. w \in Attempts /\ ClientHangup \in HangupReasons
  BY LineConstants
<1>1. ASSUME NEW c \in CallIds, AnswerStart(w, c) PROVE HandlersOK' /\ [Next]_vars
  <2>1. [Next]_vars /\ (Succeeded => reply'.call \in Call)
    BY <1>0, <1>1, MethodReplies DEF AnswerStart
  <2>2. HandlersOK'
    BY <1>1, <2>1, TookKeeps, OverKeeps DEF AnswerStart, Took
  <2> QED BY <2>1, <2>2
<1>2. ASSUME NEW c \in CallIds, HangupStart(w, c) PROVE HandlersOK' /\ [Next]_vars
  <2>1. [Next]_vars /\ (Succeeded => reply'.call \in Call)
    BY <1>0, <1>2, MethodReplies DEF HangupStart
  <2>2. HandlersOK'
    BY <1>2, <2>1, CallHangupKeeps, OverKeeps DEF HangupStart
  <2> QED BY <2>1, <2>2
<1>3. ASSUME AnswerCellular(w) PROVE HandlersOK' /\ [Next]_vars
  <2>1. handler[w].current.id \in CallIds
    BY <1>3, WorkingHandler DEF AnswerCellular, At
  <2>2. [Next]_vars /\ (Succeeded => reply'.call \in Call)
    BY <1>0, <1>3, <2>1, MethodReplies DEF AnswerCellular
  <2>3. HandlersOK'
    BY <1>3, <2>2, TookKeeps, OverKeeps DEF AnswerCellular
  <2> QED BY <2>2, <2>3
<1>4. ASSUME AnswerRollback(w) PROVE HandlersOK' /\ [Next]_vars
  <2>1. handler[w].current.id \in CallIds
    BY <1>4, WorkingHandler DEF AnswerRollback, At
  <2> QED BY <1>0, <1>4, <2>1, RollbackIsAllowed, OverKeeps DEF AnswerRollback
<1>5. ASSUME HangupModem(w) PROVE HandlersOK' /\ [Next]_vars
  <2>1. handler[w].current.id \in CallIds
    BY <1>5, WorkingHandler DEF HangupModem, At
  <2>2. CASE /\ Finish(handler[w].current.id)
             /\ IF Succeeded THEN Took(w, "persist", reply'.call) ELSE Over(w)
    <3>1. [Next]_vars /\ (Succeeded => reply'.call \in Call)
      BY <1>0, <2>1, <2>2, MethodReplies
    <3> QED BY <2>2, <3>1, TookKeeps, OverKeeps
  <2>3. CASE /\ Rollback(HangupKey(handler[w].current.id, w), handler[w].current.id)
             /\ Over(w)
    BY <1>0, <2>1, <2>3, RollbackIsAllowed, OverKeeps
  <2> QED BY <1>5, <2>2, <2>3 DEF HangupModem
<1>6. HandlersOK' /\ [Next]_vars
  BY <1>1, <1>2, <1>3, <1>4, <1>5 DEF ActionMethod
<1>7. UNCHANGED <<modem, adapter, channels, reader, row>>
  BY DEF ActionMethod, AnswerStart, HangupStart, AnswerCellular, AnswerRollback, HangupModem
<1> QED BY <1>6, <1>7, OnlyHandlers

\* Any handler writes the row of a call it has.
LEMMA PersistKeeps ==
    ASSUME RowsOK, NEW call \in Call, Persist(call) PROVE RowsOK'
BY DEF Persist, RowsOK

LEMMA HandleKeeps ==
    ASSUME LineInv, NEW w \in Handlers, Handle(w)
    PROVE  ActorsOK' /\ [Next]_vars
<1> USE DEF LineInv
<1>1. CASE DialHandler(w)
  <2>1. DialStep(w) \/ DialMethod(w)
    BY <1>1 DEF DialHandler, DialStep, DialMethod
  <2> QED BY <2>1, DialStepKeeps, DialMethodKeeps DEF controller, vars
<1>2. CASE ActionHandler(w)
  <2>1. AnswerStep(w) \/ ActionMethod(w)
    BY <1>2 DEF ActionHandler, AnswerStep, ActionMethod
  <2> QED BY <2>1, AnswerStepKeeps, ActionMethodKeeps DEF controller, vars
<1>3. CASE ModemHangup(w)
  BY <1>3, ModemHangupKeeps DEF controller, vars
<1>4. CASE PersistCall(w)
  <2>1. handler[w].current \in Call
    BY <1>4, WorkingHandler DEF PersistCall, At, ActorsOK, Outside, Hanging, HandlerPCs
  <2>2. HandlersOK' /\ RowsOK'
    BY <1>4, <2>1, OverKeeps, PersistKeeps DEF PersistCall, ActorsOK, RowsOK
  <2> QED BY <1>4, <2>2 DEF PersistCall, ActorsOK, ModemOK, AdapterOK, ChannelsOK, ReaderOK,
                            controller, vars, modem, serial, channels
<1> QED BY <1>1, <1>2, <1>3, <1>4 DEF Handle

-----------------------------------------------------------------------------
(* The event reader.                                                       *)

ReaderSteps(pc, call) == reader' = [pc |-> pc, current |-> call]

LEMMA ReaderChanges ==
    ASSUME NEW pc \in {"idle", "incoming", "ending", "finish", "ended"}, NEW call,
           \/ pc = "idle" /\ call = NoCall
           \/ call \in Call,
           ReaderSteps(pc, call)
    PROVE  ReaderOK'
BY DEF ReaderOK, ReaderSteps

\* An event leaves the channel.
LEMMA EventTaken ==
    ASSUME ChannelsOK, events # <<>>
    PROVE  /\ Head(events) \in LineEvent
           /\ events' = Tail(events) /\ UNCHANGED atEvents => ChannelsOK'
BY TakenKeeps DEF ChannelsOK

LEMMA ReaderKeeps ==
    ASSUME LineInv, Reader
    PROVE  ActorsOK' /\ [Next]_vars
<1> USE DEF LineInv, ActorsOK
<1>1. CASE ReadIncoming
  <2>1. Head(events) \in LineEvent /\ ChannelsOK'
    BY <1>1, EventTaken DEF ReadIncoming
  <2>2. Head(events).call \in CallIds
    BY <1>1, <2>1 DEF ReadIncoming, LineEvent
  <2>3. [Next]_vars /\ (Succeeded => reply'.call \in Call)
    BY <1>1, <2>2, MethodReplies DEF ReadIncoming
  <2>4. ReaderOK'
    BY <1>1, <2>3, ReaderChanges DEF ReadIncoming, ReaderSteps, Idle
  <2> QED BY <1>1, <2>1, <2>3, <2>4
          DEF ReadIncoming, ModemOK, AdapterOK, HandlersOK, RowsOK, modem, serial
<1>2. CASE PersistIncoming
  <2>1. ReaderOK'
    BY <1>2, ReaderChanges DEF PersistIncoming, ReaderSteps, Idle
  <2>2. RowsOK'
    BY <1>2, PersistKeeps DEF PersistIncoming, ReaderOK
  <2> QED BY <1>2, <2>1, <2>2
          DEF PersistIncoming, ModemOK, AdapterOK, ChannelsOK, HandlersOK, controller, vars,
              modem, serial, channels
<1>3. CASE ReadEnded
  <2>1. Head(events) \in LineEvent /\ ChannelsOK'
    BY <1>3, EventTaken DEF ReadEnded
  <2>2. /\ Head(events).call \in CallIds \union {None}
        /\ Head(events).raw \in RemoteReasons
    BY <1>3, <2>1, LineConstants DEF ReadEnded, LineEvent, EndRaws
  <2>3. CASE Head(events).call = None
    <3>1. ReaderOK' /\ UNCHANGED controller
      BY <1>3, <2>3 DEF ReadEnded, ReaderOK
    <3> QED BY <1>3, <2>1, <3>1
            DEF ReadEnded, ModemOK, AdapterOK, HandlersOK, RowsOK, modem, serial, controller, vars
  <2>4. CASE Head(events).call # None
    <3>1. Head(events).call \in CallIds
      BY <2>2, <2>4
    <3>2. [Next]_vars /\ (Succeeded => reply'.call \in Call)
      BY <1>3, <2>2, <2>4, <3>1, MethodReplies DEF ReadEnded
    <3>3. ReaderOK'
      BY <1>3, <2>4, <3>2, ReaderChanges DEF ReadEnded, ReaderSteps, Idle
    <3> QED BY <1>3, <2>1, <3>2, <3>3
            DEF ReadEnded, ModemOK, AdapterOK, HandlersOK, RowsOK, modem, serial
  <2> QED BY <2>3, <2>4
<1>4. CASE PersistEnding
  <2>1. reader.current \in Call
    BY <1>4 DEF PersistEnding, ReaderOK
  <2>2. ReaderOK'
    BY <1>4, <2>1 DEF PersistEnding, ReaderOK
  <2>3. RowsOK'
    BY <1>4, <2>1, PersistKeeps DEF PersistEnding
  <2> QED BY <1>4, <2>2, <2>3
          DEF PersistEnding, ModemOK, AdapterOK, ChannelsOK, HandlersOK, controller, vars,
              modem, serial, channels
<1>5. CASE FinishEnded
  <2>1. reader.current.id \in CallIds
    BY <1>5 DEF FinishEnded, ReaderOK, Call
  <2>2. [Next]_vars /\ (Succeeded => reply'.call \in Call)
    BY <1>5, <2>1, MethodReplies DEF FinishEnded
  <2>3. ReaderOK'
    BY <1>5, <2>2, ReaderChanges DEF FinishEnded, ReaderSteps, Idle
  <2> QED BY <1>5, <2>2, <2>3
          DEF FinishEnded, ModemOK, AdapterOK, ChannelsOK, HandlersOK, RowsOK, modem, serial,
              channels
<1>6. CASE PersistEnded
  <2>1. ReaderOK'
    BY <1>6, ReaderChanges DEF PersistEnded, ReaderSteps, Idle
  <2>2. RowsOK'
    BY <1>6, PersistKeeps DEF PersistEnded, ReaderOK
  <2> QED BY <1>6, <2>1, <2>2
          DEF PersistEnded, ModemOK, AdapterOK, ChannelsOK, HandlersOK, controller, vars,
              modem, serial, channels
<1> QED BY <1>1, <1>2, <1>3, <1>4, <1>5, <1>6 DEF Reader

-----------------------------------------------------------------------------
(* The invariant of the line.                                              *)

LEMMA LineInitKeeps == LineInit => LineInv
<1> SUFFICES ASSUME LineInit PROVE LineInv
  OBVIOUS
<1>1. IInv
  BY InitKeeps DEF LineInit
<1>2. EventCapacity \in Nat /\ MaxRings \in Nat
  BY LineConstants
<1>3. ModemOK /\ AdapterOK /\ ReaderOK /\ RowsOK
  BY <1>2 DEF LineInit, ModemOK, AdapterOK, ReaderOK, RowsOK, NoUrc, Ids, Idle, UrcLines
<1>4. ChannelsOK
  BY <1>2 DEF LineInit, ChannelsOK
<1>5. HandlersOK
  <2>1. Local("new") \in HandlerType /\ Local("new").pc = "new"
    BY DEF Local, HandlerType, HandlerPCs, Ids
  <2>2. HandlerOK(Local("new"))
    BY <2>1 DEF HandlerOK, Outside, Hanging
  <2> QED BY <2>1, <2>2 DEF LineInit, HandlersOK
<1> QED BY <1>1, <1>3, <1>4, <1>5 DEF LineInv, ActorsOK

\* A step of any actor keeps what the actors hold, and is a step of the controller or
\* leaves it alone.
LEMMA LineNextKeeps ==
    ASSUME LineInv, [LineNext]_lineVars
    PROVE  LineInv' /\ [Next]_vars
<1>1. ActorsOK' /\ [Next]_vars
  <2>1. CASE UNCHANGED lineVars
    BY <2>1 DEF lineVars, LineInv, ActorsOK, ModemOK, AdapterOK, ChannelsOK, HandlersOK, ReaderOK,
                RowsOK, controller, vars, modem, serial, channels
  <2>2. CASE Ring \/ RemoteEnd
    BY <2>2, RingKeeps DEF LineInv, Ring, RemoteEnd, controller, vars
  <2>3. CASE Serial
    BY <2>3, SerialKeeps DEF LineInv, controller, vars
  <2>4. CASE Forward
    BY <2>4, ForwardKeeps DEF LineInv, Forward, controller, vars
  <2>5. CASE Reader
    BY <2>5, ReaderKeeps
  <2>6. CASE \E w \in Handlers : Handle(w)
    BY <2>6, HandleKeeps
  <2> QED BY <2>1, <2>2, <2>3, <2>4, <2>5, <2>6 DEF LineNext, Gateway
<1> QED BY <1>1, NextKeeps DEF LineInv

LEMMA LineInvariance == LineSpec => []LineInv
BY LineInitKeeps, LineNextKeeps, PTL DEF LineSpec

-----------------------------------------------------------------------------
(* The theorems.                                                           *)

\* The gateway uses the controller as its specification allows: every handler and the
\* event reader leave it alone or make one of its method calls, with calls and keys that
\* exist (dial, callAction, HandleModemEvent).
THEOREM UsesController == LineSpec => Spec
<1>1. LineInit => Init
  BY DEF LineInit
<1> QED BY <1>1, LineInvariance, LineNextKeeps, PTL DEF LineSpec, Spec

\* Therefore in the gateway too one call never replaces another on the line (dial,
\* callAction and HandleModemEvent over mutate, Rollback and Finish).
THEOREM GatewayLineChanges == LineSpec => LineChangesOnlyThroughFinish
BY UsesController, LineChanges, PTL

\* The gateway's variables keep their types: the channels never exceed their capacity,
\* and a handler that persists, hangs up or finishes a call has one.
THEOREM LineTypeCorrect == LineSpec => []LineTypeOK
<1>1. LineInv => LineTypeOK
  <2> SUFFICES ASSUME LineInv PROVE LineTypeOK
    OBVIOUS
  <2>1. AtEvent \subseteq Event /\ LineEvent \subseteq Event
    BY LineConstants DEF AtEvent, LineEvent, Event, EndRaws, Ids
  <2>2. \A S, T : S \subseteq T => Seq(S) \subseteq Seq(T)
    <3> SUFFICES ASSUME NEW S, NEW T, S \subseteq T, NEW s \in Seq(S) PROVE s \in Seq(T)
      OBVIOUS
    <3>1. s \in [1 .. Len(s) -> S] /\ Len(s) \in Nat
      BY LenProperties
    <3>2. s \in [1 .. Len(s) -> T]
      BY <3>1
    <3> QED BY <3>1, <3>2, SeqDef
  <2>3. atEvents \in Seq(Event) /\ events \in Seq(Event)
    BY <2>1, <2>2 DEF LineInv, ActorsOK, ChannelsOK
  <2> QED BY <2>3 DEF LineTypeOK, LineInv, IInv, ActorsOK, ModemOK, AdapterOK, ChannelsOK,
                      HandlersOK, HandlerType, ReaderOK, RowsOK
<1> QED BY <1>1, LineInvariance, PTL

-----------------------------------------------------------------------------
(* Who ends an ending call.                                                *)

\* Nothing happened to the call on the line, and who was to finish it still is.
LEMMA EndersKept ==
    ASSUME active' = active,
           reader.pc \in {"ending", "finish"} /\ reader.current.id = active.id
              => reader'.pc \in {"ending", "finish"} /\ reader'.current.id = reader.current.id,
           \A w \in Handlers : Ender(w, active.id) => Ender(w, active.id)'
    PROVE  Orphaned' => Orphaned
BY DEF Orphaned

\* The same for a step of one handler.
LEMMA EnderKept ==
    ASSUME active' = active, reader' = reader, NEW w \in Handlers,
           \A v \in Handlers \ {w} : handler'[v] = handler[v],
           Ender(w, active.id) => Ender(w, active.id)'
    PROVE  Orphaned' => Orphaned
<1>1. \A v \in Handlers : Ender(v, active.id) => Ender(v, active.id)'
  BY DEF Ender
<1> QED BY <1>1, EndersKept

\* The outcomes of Finish, and of a change of the call, that leave a call ending.
LEMMA FinishOutcome ==
    ASSUME NEW c, Finish(c), Orphaned'
    PROVE  active' = active /\ active # NoCall /\ active.id # c
BY DEF Finish, Holds, Orphaned

LEMMA MutateOutcome ==
    ASSUME NEW key, NEW from, NEW changed, Mutate(key, from, changed)
    PROVE  \/ active' = active
           \/ /\ active' = changed /\ Holds(key.call)
              /\ Succeeded /\ reply'.call = changed
BY DEF Mutate, Return, Succeeded

LEMMA EndingOutcome ==
    ASSUME IInv, NEW c, NEW r, active # NoCall
    PROVE  Ending(active, r).id = active.id
BY DEF Ending, IInv, TypeOK, Call

\* No other method leaves a call ending that was not.
LEMMA NotEnding ==
    ASSUME IInv, NEW c, Orphaned',
           \/ Incoming(c) \/ MarkCellularReady(c)
           \/ \E n \in Attempts : Dial(c, n) \/ Answer(c, n)
    PROVE  active' = active
<1> USE DEF Orphaned
<1>1. CASE Incoming(c)
  BY <1>1 DEF Incoming, NewCall
<1>2. CASE MarkCellularReady(c)
  <2> DEFINE ready == [active EXCEPT !.cellularReady = TRUE]
  <2>1. \/ active' = active
        \/ active' = Joined(ready) /\ active # NoCall
    BY <1>2, MutateOutcome DEF MarkCellularReady, Holds
  <2>2. active # NoCall => Joined(ready).state \in {"active", "connecting"}
    BY DEF Joined, IInv, TypeOK, Call
  <2> QED BY <2>1, <2>2
<1>3. ASSUME NEW n \in Attempts, Dial(c, n) PROVE active' = active
  BY <1>3 DEF Dial, NewCall
<1>4. ASSUME NEW n \in Attempts, Answer(c, n) PROVE active' = active
  <2> DEFINE answered == [active EXCEPT !.answered = TRUE, !.state = "connecting"]
  <2>1. \/ active' = active
        \/ active' = answered /\ active # NoCall
    BY <1>4, MutateOutcome DEF Answer, Holds
  <2>2. active # NoCall => answered.state = "connecting"
    BY DEF IInv, TypeOK, Call
  <2> QED BY <2>1, <2>2
<1> QED BY <1>1, <1>2, <1>3, <1>4

\* A step of one handler leaves the others and the event reader where they are.
LEMMA OthersWait ==
    ASSUME HandlersOK, NEW w \in Handlers, Handle(w)
    PROVE  reader' = reader /\ \A v \in Handlers \ {w} : handler'[v] = handler[v]
<1> USE DEF HandlersOK, Step, Over, Took, CallHangup, HangupDone
<1>1. CASE ModemHangup(w)
  BY <1>1 DEF ModemHangup, HangupRead, HangupValidate, HangupATH, FinishActive, HangupForget
<1>2. CASE DialHandler(w)
  BY <1>2 DEF DialHandler, DialStart, DialBind, DialCheck, DialATD, DialActive, DialAdapter,
              DialCellular, DialRelease, DialFail, DialFinish
<1>3. CASE ActionHandler(w)
  BY <1>3 DEF ActionHandler, AnswerStart, AnswerRead, AnswerValidate, AnswerATA, AnswerCellular,
              AnswerRollback, HangupStart, HangupModem
<1>4. CASE PersistCall(w)
  BY <1>4 DEF PersistCall
<1> QED BY <1>1, <1>2, <1>3, <1>4 DEF Handle

OrphanStep ==
    Orphaned' /\ ~Orphaned => \E w \in Handlers : RollsBack(w) /\ handler'[w].pc = "done"

EnderPCs == Hanging \union {"hangup_modem", "dial_failed", "dial_finish"}

\* A handler that is not at such a step ends nothing; one that goes on among them with its
\* call still ends it.
LEMMA EnderMoves ==
    ASSUME NEW w \in Handlers, NEW c
    PROVE  /\ handler[w].pc \notin EnderPCs => ~Ender(w, c)
           /\ handler'[w].pc \in EnderPCs /\ handler'[w].current = handler[w].current =>
                 (Ender(w, c) => Ender(w, c)')
           /\ handler[w].current = NoCall => ~Ender(w, c)
BY DEF Ender, EnderPCs, Hanging

\* The modem's Hangup returns to a step that ends the call, or had no call to end.
LEMMA ModemHangupOrphans ==
    ASSUME LineInv, NEW w \in Handlers, ModemHangup(w)
    PROVE  Orphaned' => Orphaned
<1> USE DEF LineInv, ActorsOK
<1>1. active' = active
  BY ModemHangupKeeps DEF controller
<1>2. reader' = reader /\ \A v \in Handlers \ {w} : handler'[v] = handler[v]
  BY OthersWait DEF Handle
<1>3. handler[w].pc \in Hanging /\ HandlerOK(handler[w])
  BY DEF ModemHangup, HangupRead, HangupValidate, HangupATH, FinishActive, HangupForget, At,
         Hanging, HandlersOK
<1>4. /\ handler'[w].current = handler[w].current
      /\ handler'[w].pc \in Hanging \union {handler[w].return}
  BY DEF ModemHangup, HangupRead, HangupValidate, HangupATH, FinishActive, HangupForget, At,
         Step, HangupDone, Hanging, HandlersOK, HandlerType
<1>5. Ender(w, active.id) => Ender(w, active.id)'
  BY <1>1, <1>3, <1>4, EnderMoves DEF HandlerOK, EnderPCs
<1> QED BY <1>1, <1>2, <1>5, EnderKept

\* A step of a handler that ends nothing, with the call on the line as it was.
LEMMA BystanderOrphans ==
    ASSUME LineInv, NEW w \in Handlers, Handle(w), handler[w].pc \notin EnderPCs,
           active' = active
    PROVE  Orphaned' => Orphaned
BY OthersWait, EnderMoves, EnderKept DEF LineInv, ActorsOK

LEMMA DialOrphans ==
    ASSUME LineInv, NEW w \in Handlers, DialHandler(w)
    PROVE  Orphaned' => Orphaned
<1> USE DEF LineInv, ActorsOK, EnderPCs, Hanging
<1>0. /\ Handle(w) /\ reader' = reader /\ handler \in [Handlers -> HandlerType]
      /\ \A v \in Handlers \ {w} : handler'[v] = handler[v]
  BY OthersWait DEF Handle, HandlersOK
<1>1. CASE DialStep(w)
  <2>1. handler[w].pc \notin EnderPCs
    BY <1>1 DEF DialStep, DialBind, DialCheck, DialATD, DialActive, DialAdapter, DialRelease, At
  <2> QED BY <1>0, <1>1, <2>1, DialStepKeeps, BystanderOrphans DEF controller
<1>2. ASSUME NEW d \in DialIds, DialStart(w, d), Orphaned' PROVE Orphaned
  <2>1. active' = active
    BY <1>2, NotEnding, LineConstants DEF DialStart
  <2> QED BY <1>0, <1>2, <2>1, BystanderOrphans DEF DialStart, At
<1>3. ASSUME DialCellular(w), Orphaned' PROVE Orphaned
  <2>1. active' = active
    BY <1>3, NotEnding DEF DialCellular
  <2> QED BY <1>0, <1>3, <2>1, BystanderOrphans DEF DialCellular, At
<1>4. ASSUME DialFail(w), Orphaned' PROVE Orphaned
  <2>1. handler[w].current \in Call
    BY <1>4, WorkingHandler DEF DialFail, At, Outside, HandlerPCs
  <2>2. handler'[w].pc = "dial_finish" /\ handler'[w].current = handler[w].current
    BY <1>0, <1>4 DEF DialFail, Step
  <2>3. CASE active' = active
    BY <1>0, <1>4, <2>2, <2>3, EnderMoves, EnderKept
  <2>4. CASE active' # active
    <3>1. /\ active' = Ending(active, DialFailed)
          /\ active # NoCall /\ active.id = handler[w].current.id
      BY <1>4, <2>4, MutateOutcome DEF DialFail, Hangup, HangupKey, Holds
    <3>2. Ender(w, active.id)'
      BY <2>1, <2>2, <3>1, EndingOutcome, ConstantsOK DEF Ender
    <3> QED BY <1>4, <3>2 DEF Orphaned
  <2> QED BY <2>3, <2>4
<1>5. ASSUME DialFinish(w), Orphaned' PROVE Orphaned
  <2>1. active' = active /\ active # NoCall /\ active.id # handler[w].current.id
    BY <1>5, FinishOutcome DEF DialFinish
  <2>2. Ender(w, active.id) => Ender(w, active.id)'
    BY <2>1 DEF Ender
  <2> QED BY <1>0, <1>5, <2>1, <2>2, EnderKept
<1> QED BY <1>1, <1>2, <1>3, <1>4, <1>5 DEF DialHandler, DialStep

\* A request that hangs up goes on to end the call; only a rollback step may leave it.
LEMMA ActionOrphans ==
    ASSUME LineInv, NEW w \in Handlers, ActionHandler(w)
    PROVE  OrphanStep
<1> USE DEF LineInv, ActorsOK, EnderPCs, Hanging
<1>0. /\ Handle(w) /\ reader' = reader /\ handler \in [Handlers -> HandlerType]
      /\ \A v \in Handlers \ {w} : handler'[v] = handler[v]
  BY OthersWait DEF Handle, HandlersOK
<1>1. ASSUME AnswerStep(w), Orphaned' PROVE Orphaned
  <2>1. handler[w].pc \notin EnderPCs
    BY <1>1 DEF AnswerStep, AnswerRead, AnswerValidate, AnswerATA, At
  <2> QED BY <1>0, <1>1, <2>1, AnswerStepKeeps, BystanderOrphans DEF controller
<1>2. ASSUME NEW c \in CallIds, AnswerStart(w, c), Orphaned' PROVE Orphaned
  <2>1. active' = active
    BY <1>2, NotEnding, LineConstants DEF AnswerStart
  <2> QED BY <1>0, <1>2, <2>1, BystanderOrphans DEF AnswerStart, At
<1>3. ASSUME AnswerCellular(w), Orphaned' PROVE Orphaned
  <2>1. active' = active
    BY <1>3, NotEnding DEF AnswerCellular
  <2> QED BY <1>0, <1>3, <2>1, BystanderOrphans DEF AnswerCellular, At
<1>4. ASSUME NEW c \in CallIds, HangupStart(w, c), Orphaned' PROVE Orphaned
  <2>1. CASE active' = active
    BY <1>0, <1>4, <2>1, BystanderOrphans DEF HangupStart, At
  <2>2. CASE active' # active
    <3>1. /\ active # NoCall /\ Succeeded
          /\ active' = Ending(active, ClientHangup) /\ reply'.call = active'
      BY <1>4, <2>2, MutateOutcome DEF HangupStart, Hangup, Holds
    <3>2. handler'[w].pc = "hangup_read" /\ handler'[w].current = active'
      BY <1>0, <1>4, <3>1 DEF HangupStart, CallHangup, HandlerType
    <3>3. Ender(w, active.id)'
      BY <1>4, <3>2 DEF Ender, Orphaned
    <3> QED BY <1>4, <3>3 DEF Orphaned
  <2> QED BY <2>1, <2>2
<1>5. ASSUME HangupModem(w), Orphaned', ~RollsBack(w) PROVE Orphaned
  <2>1. Finish(handler[w].current.id)
    BY <1>5 DEF HangupModem, RollsBack
  <2>2. active' = active /\ active # NoCall /\ active.id # handler[w].current.id
    BY <1>5, <2>1, FinishOutcome
  <2>3. Ender(w, active.id) => Ender(w, active.id)'
    BY <2>2 DEF Ender
  <2> QED BY <1>0, <1>5, <2>2, <2>3, EnderKept
<1>6. ASSUME \/ AnswerRollback(w)
             \/ HangupModem(w) /\ RollsBack(w)
      PROVE  RollsBack(w) /\ handler'[w].pc = "done"
  <2>1. Over(w) /\ RollsBack(w)
    BY <1>6 DEF AnswerRollback, HangupModem, RollsBack, At
  <2> QED BY <1>0, <2>1 DEF Over, Local
<1> QED BY <1>1, <1>2, <1>3, <1>4, <1>5, <1>6 DEF ActionHandler, AnswerStep, OrphanStep

\* The event reader finishes the call it reported the end of.
LEMMA ReaderOrphans ==
    ASSUME LineInv, Reader
    PROVE  Orphaned' => Orphaned
<1> USE DEF LineInv, ActorsOK
<1>1. ASSUME reader.pc \in {"idle", "incoming", "ended"}, UNCHANGED <<active, handler>>
      PROVE  Orphaned' => Orphaned
  BY <1>1, EndersKept DEF Ender
<1>2. ASSUME ReadIncoming, Orphaned' PROVE Orphaned
  BY <1>1, <1>2, NotEnding DEF ReadIncoming
<1>3. CASE PersistIncoming \/ PersistEnded
  BY <1>1, <1>3 DEF PersistIncoming, PersistEnded, controller
<1>4. ASSUME ReadEnded, Orphaned' PROVE Orphaned
  <2>1. CASE active' = active
    BY <1>1, <1>4, <2>1 DEF ReadEnded
  <2>2. CASE active' # active
    <3>1. Succeeded /\ reply'.call = active'
      BY <1>4, <2>2, MutateOutcome DEF ReadEnded, RemoteEnded, controller
    <3>2. reader'.pc = "ending" /\ reader'.current = active'
      BY <1>4, <2>2, <3>1 DEF ReadEnded, controller
    <3> QED BY <1>4, <3>2 DEF Orphaned
  <2> QED BY <2>1, <2>2
<1>5. CASE PersistEnding
  <2>1. /\ UNCHANGED <<active, handler>>
        /\ reader'.pc = "finish" /\ reader'.current = reader.current
    BY <1>5 DEF PersistEnding, controller, ReaderOK
  <2> QED BY <2>1, EndersKept DEF Ender
<1>6. ASSUME FinishEnded, Orphaned' PROVE Orphaned
  <2>1. active' = active /\ active.id # reader.current.id /\ handler' = handler
    BY <1>6, FinishOutcome DEF FinishEnded
  <2> QED BY <1>6, <2>1, EndersKept DEF Ender
<1> QED BY <1>2, <1>3, <1>4, <1>5, <1>6 DEF Reader

\* Every step but a rollback leaves an ending call to somebody.
LEMMA NextOrphans ==
    ASSUME LineInv, [LineNext]_lineVars
    PROVE  OrphanStep
<1>1. CASE \E w \in Handlers : Handle(w)
  <2>1. PICK w \in Handlers : Handle(w)
    BY <1>1
  <2>2. CASE PersistCall(w)
    BY <2>1, <2>2, BystanderOrphans
       DEF PersistCall, At, EnderPCs, Hanging, controller, OrphanStep
  <2> QED BY <2>1, <2>2, ModemHangupOrphans, DialOrphans, ActionOrphans DEF Handle, OrphanStep
<1>2. CASE Reader
  BY <1>2, ReaderOrphans DEF OrphanStep
<1>3. CASE UNCHANGED <<controller, handler, reader>>
  BY <1>3, EndersKept DEF Ender, OrphanStep, controller
<1>4. CASE Ring \/ RemoteEnd \/ Serial \/ Forward
  BY <1>3, <1>4, SerialFrame DEF Ring, RemoteEnd, Forward
<1> QED BY <1>1, <1>2, <1>3, <1>4 DEF LineNext, Gateway, lineVars

\* However many requests and events race for its end, a call that is ending has a
\* goroutine on its way to Finish, unless a request just put an older snapshot of it back
\* (HandleModemEvent, callAction, dial).
THEOREM EndingIsAttended == LineSpec => OnlyRollbackOrphans
<1>1. LineInv /\ [LineNext]_lineVars => [OrphanStep]_lineVars
  BY NextOrphans
<1>2. OnlyRollbackOrphans <=> [][OrphanStep]_lineVars
  BY PTL DEF OnlyRollbackOrphans, OrphanStep
<1> QED BY <1>1, <1>2, LineInvariance, PTL DEF LineSpec
-----------------------------------------------------------------------------
(* The rows of the calls.                                                  *)

\* A call that came in, or that the modem has put through.
Established(call) == call.direction = "inbound" \/ call.cellularReady

\* The calls that have a row, or a goroutine about to write it: not one that was cut off.
SavedCalls ==
    {c \in CallIds : \/ row[c] # "none"
                     \/ reader.pc = "incoming" /\ reader.current.id = c
                     \/ \E w \in Handlers \ cut :
                           At(w, "persist") /\ handler[w].current.id = c}

RecordedCall(call) == call # NoCall /\ Established(call) => call.id \in SavedCalls

\* Rollback may put back any snapshot, so each is of a recorded call.
RecordedInv ==
    /\ RecordedCall(active)
    /\ \A k \in Keys : requests[k] # NoResult => RecordedCall(requests[k].previous)

\* A handler that was cut off took its command for refused: it marks no cellular leg.
Refused == {"dial_failed", "dial_finish", "dial_release", "hangup_modem", "answer_rollback",
            "persist", "done"}
CutOffIsRefused == \A w \in cut : handler[w].pc \in Refused

\* The controller is left alone.
LEMMA SameRecorded ==
    ASSUME RecordedInv, SavedCalls \subseteq SavedCalls', UNCHANGED <<active, requests>>
    PROVE  RecordedInv'
BY DEF RecordedInv, RecordedCall, Established

\* A change establishes the call on the line only when it is about to be recorded.
LEMMA MutateRecorded ==
    ASSUME IInv, RecordedInv, SavedCalls \subseteq SavedCalls',
           NEW key \in Keys, NEW from, NEW changed, Mutate(key, from, changed),
           Holds(key.call) /\ active' = changed =>
               /\ changed.id = active.id
               /\ Established(changed) => Established(active) \/ active.id \in SavedCalls'
    PROVE  RecordedInv'
<1>1. CASE UNCHANGED <<active, requests>>
  BY <1>1, SameRecorded
<1>2. CASE /\ Holds(key.call) /\ active' = changed
           /\ requests' = [requests EXCEPT ![key] = [call |-> changed, previous |-> active]]
  <2>1. RecordedCall(active)'
    BY <1>2 DEF RecordedInv, RecordedCall, Established, Holds
  <2>2. requests'[key].previous = active /\ \A k \in Keys \ {key} : requests'[k] = requests[k]
    BY <1>2 DEF IInv, TypeOK
  <2>3. ASSUME NEW k \in Keys, requests'[k] # NoResult PROVE RecordedCall(requests[k].previous)'
    <3>1. CASE k = key
      BY <2>2, <3>1 DEF RecordedInv, RecordedCall, Established
    <3>2. CASE k # key
      BY <2>2, <2>3, <3>2 DEF RecordedInv, RecordedCall, Established
    <3> QED BY <3>1, <3>2
  <2> QED BY <2>1, <2>3 DEF RecordedInv
<1> QED BY <1>1, <1>2 DEF Mutate

\* The methods that establish no call.
LEMMA MethodRecorded ==
    ASSUME IInv, RecordedInv, SavedCalls \subseteq SavedCalls', NEW c \in CallIds,
           \/ Finish(c)
           \/ \E n \in Attempts : \/ Dial(c, n) \/ Answer(c, n)
                                  \/ \E r \in HangupReasons : Hangup(c, n, r)
           \/ \E r \in RemoteReasons : RemoteEnded(c, r)
    PROVE  RecordedInv'
<1>1. CASE Finish(c)
  BY <1>1 DEF Finish, RecordedInv, RecordedCall, Established
<1>2. ASSUME NEW n \in Attempts, Dial(c, n) PROVE RecordedInv'
  <2> DEFINE new == NewCall(c, "outbound", "outgoing_dialing")
             key == DialKey(c, n)
  <2>1. key \in Keys /\ ~Established(new)
    BY KeysOfMethods DEF NewCall, Established
  <2> HIDE DEF new, key
  <2>2. CASE UNCHANGED <<active, requests>>
    BY <2>2, SameRecorded
  <2>3. CASE /\ active' = new
             /\ requests' = [requests EXCEPT ![key] = [call |-> new, previous |-> NoCall]]
    <3>1. RecordedCall(active)'
      BY <2>1, <2>3 DEF RecordedCall, Established
    <3>2. requests'[key].previous = NoCall /\ \A k \in Keys \ {key} : requests'[k] = requests[k]
      BY <2>1, <2>3 DEF IInv, TypeOK
    <3>3. ASSUME NEW k \in Keys, requests'[k] # NoResult PROVE RecordedCall(requests[k].previous)'
      <4>1. CASE k = key
        BY <3>2, <4>1 DEF RecordedCall
      <4>2. CASE k # key
        BY <3>2, <3>3, <4>2 DEF RecordedInv, RecordedCall, Established
      <4> QED BY <4>1, <4>2
    <3> QED BY <3>1, <3>3 DEF RecordedInv
  <2> QED BY <1>2, <2>2, <2>3 DEF Dial, new, key
<1>3. ASSUME NEW n \in Attempts, Answer(c, n) PROVE RecordedInv'
  <2> DEFINE answered == [active EXCEPT !.answered = TRUE, !.state = "connecting"]
  <2>1. active # NoCall =>
            answered.id = active.id /\ (Established(answered) => Established(active))
    BY DEF IInv, TypeOK, Call, Established
  <2>2. AnswerKey(c, n) \in Keys /\ Mutate(AnswerKey(c, n), {"incoming_ringing"}, answered)
    BY <1>3, KeysOfMethods DEF Answer
  <2> HIDE DEF answered
  <2> QED BY <2>1, <2>2, MutateRecorded DEF Holds
<1>4. ASSUME NEW r, active # NoCall
      PROVE  /\ Ending(active, r).id = active.id
             /\ Established(Ending(active, r)) => Established(active)
  BY <1>4 DEF IInv, TypeOK, Call, Established, Ending
<1>5. ASSUME NEW n \in Attempts, NEW r \in HangupReasons, Hangup(c, n, r) PROVE RecordedInv'
  <2>1. HangupKey(c, n) \in Keys /\ Mutate(HangupKey(c, n), States, Ending(active, r))
    BY <1>5, KeysOfMethods DEF Hangup
  <2> QED BY <1>4, <2>1, MutateRecorded DEF Holds
<1>6. ASSUME NEW r \in RemoteReasons, RemoteEnded(c, r) PROVE RecordedInv'
  <2> DEFINE key == [op |-> "remote_ended", call |-> c, tag |-> r]
  <2>1. key \in Keys /\ Mutate(key, States, Ending(active, r))
    BY <1>6 DEF Keys, RemoteEnded
  <2> QED BY <1>4, <2>1, MutateRecorded DEF Holds
<1> QED BY <1>1, <1>2, <1>3, <1>5, <1>6

\* The snapshot that comes back is of a recorded call.
LEMMA RollbackRecorded ==
    ASSUME IInv, RecordedInv, SavedCalls \subseteq SavedCalls', NEW key \in Keys, NEW c,
           Rollback(key, c)
    PROVE  RecordedInv'
<1>1. CASE CanRollback(key, c) /\ active' = requests[key].previous
           /\ requests' = [requests EXCEPT ![key] = NoResult]
  <2>1. RecordedCall(active)'
    BY <1>1 DEF CanRollback, RecordedInv, RecordedCall, Established
  <2>2. ASSUME NEW k \in Keys, requests'[k] # NoResult PROVE RecordedCall(requests[k].previous)'
    <3>1. requests[k] # NoResult /\ requests'[k] = requests[k]
      BY <1>1, <2>2 DEF IInv, TypeOK
    <3> QED BY <3>1 DEF RecordedInv, RecordedCall, Established
  <2> QED BY <2>1, <2>2 DEF RecordedInv
<1> QED BY <1>1, SameRecorded DEF Rollback

\* The mark of the cellular leg succeeds for a handler that goes on to write the row.
LEMMA CellularRecorded ==
    ASSUME LineInv, RecordedInv, SavedCalls \subseteq SavedCalls', NEW w \in Handlers,
           NEW c \in CallIds, MarkCellularReady(c), w \notin cut',
           Succeeded => Took(w, "persist", reply'.call)
    PROVE  RecordedInv'
<1> DEFINE key == [op |-> "cellular_ready", call |-> c, tag |-> NoReason]
           from == {"outgoing_dialing", "connecting"}
           ready == Joined([active EXCEPT !.cellularReady = TRUE])
<1>1. IInv /\ key \in Keys /\ key.call = c /\ Mutate(key, from, ready)
  BY DEF LineInv, Keys, MarkCellularReady
<1>2. active # NoCall => ready.id = active.id /\ active.id \in CallIds
  BY DEF LineInv, IInv, TypeOK, Call, Joined
<1> HIDE DEF key, from, ready
<1>3. CASE UNCHANGED <<active, requests>>
  BY <1>3, SameRecorded
<1>4. CASE Holds(c) /\ active' = ready /\ Return(key.op, "none", ready)
  <2>1. Took(w, "persist", ready)
    BY <1>4 DEF Return, Succeeded
  <2>2. handler'[w].pc = "persist" /\ handler'[w].current = ready
    BY <2>1 DEF Took, LineInv, ActorsOK, HandlersOK, HandlerType
  <2>3. active.id \in SavedCalls'
    BY <1>2, <1>4, <2>2 DEF SavedCalls, At, Holds
  <2> QED BY <1>1, <1>2, <1>4, <2>3, MutateRecorded DEF Holds
<1> QED BY <1>1, <1>3, <1>4 DEF Mutate

\* A row that is there, or about to be written, is not lost: SaveCall never deletes one.
LEMMA PersistSaves ==
    ASSUME RowsOK, NEW call \in Call, Persist(call)
    PROVE  /\ row'[call.id] # "none"
           /\ \A c \in CallIds : row[c] # "none" => row'[c] # "none"
BY DEF Persist, RowsOK, Call

\* The goroutines that are about to write a row are still there, or have written it.
LEMMA SavedKept ==
    ASSUME \A c \in CallIds : row[c] # "none" => row'[c] # "none",
           reader.pc = "incoming" =>
               \/ reader' = reader
               \/ row'[reader.current.id] # "none",
           \A w \in Handlers \ cut : At(w, "persist") =>
               \/ handler'[w] = handler[w] /\ w \notin cut'
               \/ row'[handler[w].current.id] # "none"
    PROVE  SavedCalls \subseteq SavedCalls'
BY DEF SavedCalls, At

\* A step of a handler cuts off no other.
LEMMA OnlyOneCutOff ==
    ASSUME LineInv, NEW w \in Handlers, Handle(w)
    PROVE  cut' \subseteq cut \union {w}
<1>1. CASE ModemHangup(w)
  BY <1>1 DEF ModemHangup, HangupRead, HangupValidate, HangupATH, CutOff, FinishActive,
              HangupForget, modem
<1>2. CASE DialHandler(w)
  BY <1>2 DEF DialHandler, DialStart, DialBind, DialCheck, DialATD, CutOff, DialActive,
              DialAdapter, DialCellular, DialRelease, DialFail, DialFinish, modem
<1>3. CASE ActionHandler(w)
  BY <1>3 DEF ActionHandler, AnswerStart, AnswerRead, AnswerValidate, AnswerATA, CutOff,
              AnswerCellular, AnswerRollback, HangupStart, HangupModem, modem
<1>4. CASE PersistCall(w)
  BY <1>4 DEF PersistCall, modem
<1> QED BY <1>1, <1>2, <1>3, <1>4 DEF Handle

\* The cellular leg is marked only behind a command that was seen to succeed.
LEMMA CutKept ==
    ASSUME LineInv, CutOffIsRefused, [LineNext]_lineVars
    PROVE  CutOffIsRefused'
<1> USE DEF LineInv, ActorsOK, HandlersOK, CutOffIsRefused, Refused
<1>1. CASE UNCHANGED <<cut, handler>>
  BY <1>1
<1>2. ASSUME NEW w \in Handlers, Handle(w) PROVE CutOffIsRefused'
  <2>1. /\ \A v \in Handlers \ {w} : handler'[v] = handler[v]
        /\ cut' \subseteq cut \union {w} /\ cut \subseteq Handlers
    BY <1>2, OthersWait, OnlyOneCutOff DEF ModemOK
  <2>2. SUFFICES ASSUME w \in cut' PROVE handler'[w].pc \in Refused
    BY <2>1
  <2>3. handler[w].pc \in Hanging =>
            handler[w].return \in {"dial_failed", "dial_release", "hangup_modem"}
    BY DEF HandlerOK
  <2> USE DEF Step, Over, Local, Took, CallHangup, HangupDone, HandlerType, At, modem
  <2>4. CASE ModemHangup(w)
    BY <2>2, <2>3, <2>4 DEF ModemHangup, HangupRead, HangupValidate, HangupATH, FinishActive,
                            HangupForget, Hanging
  <2>5. CASE DialHandler(w)
    BY <2>2, <2>5 DEF DialHandler, DialStart, DialBind, DialCheck, DialATD, DialActive,
            DialAdapter, DialCellular, DialRelease, DialFail, DialFinish
  <2>6. CASE ActionHandler(w)
    BY <2>2, <2>6 DEF ActionHandler, AnswerStart, AnswerRead, AnswerValidate, AnswerATA,
            AnswerCellular, AnswerRollback, HangupStart, HangupModem
  <2>7. CASE PersistCall(w)
    BY <2>7 DEF PersistCall
  <2> QED BY <1>2, <2>4, <2>5, <2>6, <2>7 DEF Handle
<1>3. CASE Ring \/ RemoteEnd \/ Serial \/ Forward \/ Reader
  BY <1>1, <1>3, SerialFrame DEF Ring, RemoteEnd, Forward, Reader, ReadIncoming, PersistIncoming,
     ReadEnded, PersistEnding, FinishEnded, PersistEnded, modem
<1> QED BY <1>1, <1>2, <1>3 DEF LineNext, Gateway, lineVars, modem

LEMMA HandleSaved ==
    ASSUME LineInv, NEW w \in Handlers, Handle(w)
    PROVE  SavedCalls \subseteq SavedCalls'
<1> USE DEF LineInv, ActorsOK
<1>1. /\ reader' = reader /\ \A v \in Handlers \ {w} : handler'[v] = handler[v]
      /\ cut' \subseteq cut \union {w}
  BY OthersWait, OnlyOneCutOff
<1>2. CASE PersistCall(w) /\ w \notin cut
  <2>1. handler[w].current \in Call /\ Persist(handler[w].current)
    BY <1>2, WorkingHandler DEF PersistCall, At, Outside, Hanging, HandlerPCs
  <2>2. /\ row'[handler[w].current.id] # "none"
        /\ \A c \in CallIds : row[c] # "none" => row'[c] # "none"
    BY <2>1, PersistSaves
  <2> QED BY <1>1, <2>2, SavedKept
<1>4. CASE PersistCall(w) /\ w \in cut
  BY <1>1, <1>4, SavedKept DEF PersistCall
<1>3. CASE ~PersistCall(w)
  <2>1. row' = row /\ ~At(w, "persist")
    BY <1>3 DEF Handle, At, ModemHangup, HangupRead, HangupValidate, HangupATH, FinishActive,
                HangupForget, DialHandler, DialStart, DialBind, DialCheck, DialATD, DialActive,
                DialAdapter, DialCellular, DialRelease, DialFail, DialFinish, ActionHandler,
                AnswerStart, AnswerRead, AnswerValidate, AnswerATA, AnswerCellular,
                AnswerRollback, HangupStart, HangupModem
  <2> QED BY <1>1, <2>1, SavedKept
<1> QED BY <1>2, <1>3, <1>4

LEMMA ReaderSaved ==
    ASSUME LineInv, Reader
    PROVE  SavedCalls \subseteq SavedCalls'
<1> USE DEF LineInv, ActorsOK
<1>1. handler' = handler /\ cut' = cut
  BY DEF Reader, ReadIncoming, PersistIncoming, ReadEnded, PersistEnding, FinishEnded, PersistEnded,
         modem
<1>2. CASE PersistIncoming \/ PersistEnding \/ PersistEnded
  <2>1. reader.current \in Call /\ Persist(reader.current)
    BY <1>2 DEF PersistIncoming, PersistEnding, PersistEnded, ReaderOK
  <2>2. /\ row'[reader.current.id] # "none"
        /\ \A c \in CallIds : row[c] # "none" => row'[c] # "none"
    BY <2>1, PersistSaves
  <2> QED BY <1>1, <2>2, SavedKept
<1>3. CASE ReadIncoming \/ ReadEnded \/ FinishEnded
  <2>1. row' = row /\ reader.pc # "incoming"
    BY <1>3 DEF ReadIncoming, ReadEnded, FinishEnded
  <2> QED BY <1>1, <2>1, SavedKept
<1> QED BY <1>2, <1>3 DEF Reader

\* The call that comes in is on its way to its row.
LEMMA ReaderRecorded ==
    ASSUME LineInv, RecordedInv, Reader
    PROVE  RecordedInv'
<1> USE DEF LineInv, ActorsOK
<1>0. SavedCalls \subseteq SavedCalls'
  BY ReaderSaved
<1>1. CASE ReadIncoming
  <2>1. Head(events).call \in CallIds /\ Incoming(Head(events).call)
    BY <1>1, EventTaken DEF ReadIncoming, LineEvent
  <2>2. CASE active' = active
    BY <1>0, <2>1, <2>2, SameRecorded DEF Incoming
  <2>3. CASE active' # active
    <3>1. /\ active' = NewCall(Head(events).call, "inbound", "incoming_ringing")
          /\ Succeeded /\ reply'.call = active' /\ requests' = requests
      BY <2>1, <2>3 DEF Incoming, Return, Succeeded
    <3>2. active'.id \in CallIds
      BY <2>1, <3>1 DEF NewCall
    <3>3. reader'.pc = "incoming" /\ reader'.current = active'
      BY <1>1, <3>1 DEF ReadIncoming
    <3>4. active'.id \in SavedCalls'
      BY <3>2, <3>3 DEF SavedCalls
    <3> QED BY <1>0, <3>1, <3>4 DEF RecordedInv, RecordedCall, Established
  <2> QED BY <2>2, <2>3
<1>2. CASE PersistIncoming \/ PersistEnding \/ PersistEnded
  BY <1>0, <1>2, SameRecorded DEF PersistIncoming, PersistEnding, PersistEnded, controller
<1>3. CASE ReadEnded
  <2>1. CASE UNCHANGED controller
    BY <1>0, <2>1, SameRecorded DEF controller
  <2>2. CASE Head(events).call # None /\ RemoteEnded(Head(events).call, Head(events).raw)
    <3>1. Head(events).call \in CallIds /\ Head(events).raw \in RemoteReasons
      BY <1>3, <2>2, EventTaken, LineConstants DEF ReadEnded, LineEvent, EndRaws
    <3> QED BY <1>0, <2>2, <3>1, MethodRecorded
  <2> QED BY <1>3, <2>1, <2>2 DEF ReadEnded, controller
<1>4. CASE FinishEnded
  <2>1. reader.current.id \in CallIds
    BY <1>4 DEF FinishEnded, ReaderOK, Call
  <2> QED BY <1>0, <1>4, <2>1, MethodRecorded DEF FinishEnded
<1> QED BY <1>1, <1>2, <1>3, <1>4 DEF Reader

LEMMA HandleRecorded ==
    ASSUME LineInv, CutOffIsRefused, RecordedInv, NEW w \in Handlers, Handle(w)
    PROVE  RecordedInv'
<1> USE DEF LineInv, ActorsOK
<1>0. /\ SavedCalls \subseteq SavedCalls' /\ w \in Attempts /\ FailureOf[w] \in Attempts
      /\ DialIds \subseteq CallIds /\ {ClientHangup, DialFailed} \subseteq HangupReasons
  BY HandleSaved, LineConstants
<1>1. CASE UNCHANGED controller
  BY <1>0, <1>1, SameRecorded DEF controller
<1>2. CASE DialMethod(w)
  <2>1. ASSUME NEW d \in DialIds, DialStart(w, d) PROVE RecordedInv'
    BY <1>0, <2>1, MethodRecorded DEF DialStart
  <2>2. CASE DialCellular(w) \/ DialFail(w) \/ DialFinish(w)
    <3>1. handler[w].current.id \in CallIds
      BY <2>2, WorkingHandler
         DEF DialCellular, DialFail, DialFinish, At, Outside, Hanging, HandlerPCs
    <3>2. CASE DialCellular(w)
      <4>1. w \notin cut'
        BY <3>2 DEF DialCellular, At, CutOffIsRefused, Refused, modem
      <4> QED BY <1>0, <3>1, <3>2, <4>1, CellularRecorded DEF DialCellular
    <3>3. CASE DialFail(w) \/ DialFinish(w)
      BY <1>0, <3>1, <3>3, MethodRecorded DEF DialFail, DialFinish
    <3> QED BY <2>2, <3>2, <3>3
  <2> QED BY <1>2, <2>1, <2>2 DEF DialMethod
<1>3. CASE ActionMethod(w)
  <2>1. ASSUME NEW c \in CallIds, AnswerStart(w, c) \/ HangupStart(w, c) PROVE RecordedInv'
    BY <1>0, <2>1, MethodRecorded DEF AnswerStart, HangupStart
  <2>2. CASE AnswerCellular(w) \/ AnswerRollback(w) \/ HangupModem(w)
    <3>1. handler[w].current.id \in CallIds
      BY <2>2, WorkingHandler
         DEF AnswerCellular, AnswerRollback, HangupModem, At, Outside, Hanging, HandlerPCs
    <3>2. CASE AnswerCellular(w)
      <4>1. w \notin cut'
        BY <3>2 DEF AnswerCellular, At, CutOffIsRefused, Refused, modem
      <4> QED BY <1>0, <3>1, <3>2, <4>1, CellularRecorded DEF AnswerCellular
    <3>3. CASE AnswerRollback(w)
      BY <1>0, <3>1, <3>3, KeysOfMethods, RollbackRecorded DEF AnswerRollback
    <3>4. CASE HangupModem(w)
      BY <1>0, <3>1, <3>4, KeysOfMethods, RollbackRecorded, MethodRecorded DEF HangupModem
    <3> QED BY <2>2, <3>2, <3>3, <3>4
  <2> QED BY <1>3, <2>1, <2>2 DEF ActionMethod
<1>4. CASE DialStep(w) \/ AnswerStep(w) \/ ModemHangup(w) \/ PersistCall(w)
  BY <1>1, <1>4, DialStepKeeps, AnswerStepKeeps, ModemHangupKeeps DEF PersistCall
<1> QED BY <1>2, <1>3, <1>4
        DEF Handle, DialHandler, DialStep, DialMethod, ActionHandler, AnswerStep, ActionMethod

LEMMA NextRecorded ==
    ASSUME LineInv, CutOffIsRefused, RecordedInv, [LineNext]_lineVars
    PROVE  RecordedInv'
<1>1. CASE \E w \in Handlers : Handle(w)
  BY <1>1, HandleRecorded
<1>2. CASE Reader
  BY <1>2, ReaderRecorded
<1>3. CASE UNCHANGED <<controller, cut, handler, reader, row>>
  <2>1. SavedCalls \subseteq SavedCalls'
    BY <1>3, SavedKept
  <2> QED BY <1>3, <2>1, SameRecorded DEF controller
<1>4. CASE Ring \/ RemoteEnd \/ Serial \/ Forward
  BY <1>3, <1>4, SerialFrame DEF Ring, RemoteEnd, Forward, modem
<1> QED BY <1>1, <1>2, <1>3, <1>4 DEF LineNext, Gateway, lineVars, modem

\* When the gateway comes to rest, the call on the line has its row, whichever of the end,
\* the answer and a rollback overtook the write of it (persistCall in HandleModemEvent, dial
\* and callAction).
THEOREM EveryCallRecorded == LineSpec => []CallsAreRecorded
<1>1. LineInit => RecordedInv /\ CutOffIsRefused
  BY DEF LineInit, Init, RecordedInv, RecordedCall, CutOffIsRefused
<1>2. LineInv /\ RecordedInv => CallsAreRecorded
  <2> SUFFICES ASSUME LineInv, RecordedInv, Quiet, active # NoCall, Established(active)
               PROVE  row[active.id] # "none"
    BY DEF CallsAreRecorded, Established
  <2>1. active.id \in SavedCalls
    BY DEF RecordedInv, RecordedCall
  <2> QED BY <2>1 DEF SavedCalls, Quiet, At
<1> QED BY <1>1, <1>2, LineInvariance, CutKept, NextRecorded, PTL DEF LineSpec
-----------------------------------------------------------------------------
(* A line without requests, whose lines are handled one at a time, though   *)
(* some may be lost and some overtaken.  What is under way from HandleURC  *)
(* to the reader tells one story of the line, in two queues; each leads    *)
(* from what its receiver knows to what its sender knows.                  *)

Unattended == (\A w \in Handlers : At(w, "new")) /\ heard # "muddled"

\* The event that may follow when call x, or None, is on the line; and what is on it then.
\* A NO CARRIER that nobody waits for ends no call.
Allowed(x, e) == \/ x = None /\ e.kind = "incoming" /\ e.call \in PhysIds
                 \/ x \in PhysIds /\ e.call = x
                 \/ x = None /\ e.kind = "ended" /\ e.call = None
After(e) == IF e.kind = "incoming" THEN e.call ELSE None

\* The events of s lead from x to y.
Leads(x, s, y) ==
    /\ \A i \in 1 .. Len(s) : Allowed(IF i = 1 THEN x ELSE After(s[i - 1]), s[i])
    /\ y = IF s = <<>> THEN x ELSE After(s[Len(s)])

\* One line is in hand at most, and after NO CARRIER the AT adapter knows of no call.
LinesLead ==
    /\ \A t \in Takers : urc[t] # NoUrc =>
          urc[t].call = at /\ \A u \in Takers \ {t} : urc[u] = NoUrc
    /\ heard = "NO CARRIER" => at = None

\* The call whose end the reader has not seen.
Current == IF active = NoCall \/ reader.pc \in {"ending", "finish"} THEN None ELSE active.id

EventsLead ==
    /\ adapter.logical = None /\ adapter.lastLogical = None
    /\ Leads(adapter.active, atEvents, at)
    /\ Leads(Current, events, adapter.active)

\* The reader's copy is the call on the line, until it has finished that one.
ReaderFollows ==
    /\ reader.pc \in {"incoming", "ending", "finish"} => active # NoCall /\ reader.current = active
    /\ reader.pc \in {"ending", "finish"} => active.state = "ending"
    /\ reader.pc = "ended" => active = NoCall /\ reader.current.ended
    /\ \A c \in CallIds : row[c] = "open" =>
          \/ active # NoCall /\ active.id = c
          \/ reader.pc = "ended" /\ reader.current.id = c

\* The identifier of a call that ended does not come back, so that its end is no replay.
HasEnded(c) ==
    \E r \in RemoteReasons : requests[[op |-> "remote_ended", call |-> c, tag |-> r]] # NoResult
Retired(c) == c \notin fresh /\ c # at
Absent(c, s) == \A i \in 1 .. Len(s) : s[i].call # c
EndedIn(s) == {s[i].call : i \in {j \in 1 .. Len(s) : s[j].kind = "ended"}}
NoneAfter(s) ==
    \A i, j \in 1 .. Len(s) :
        i < j /\ s[i].kind = "ended" /\ s[i].call # None => s[j].call # s[i].call
NoIdAgain ==
    /\ at \notin fresh
    /\ \A c \in CallIds :
          /\ HasEnded(c) => Retired(c) /\ Absent(c, events) /\ Absent(c, atEvents)
          /\ c \in EndedIn(events) => Retired(c) /\ Absent(c, atEvents)
          /\ c \in EndedIn(atEvents) => Retired(c)
    /\ NoneAfter(events) /\ NoneAfter(atEvents)

\* The modem writes at most two lines for a RING, so nothing is dropped.
InHand == IF \A t \in Takers : urc[t] = NoUrc THEN 0 ELSE 1
Expected == IF net = "idle" THEN 0 ELSE 1
Waiting == Len(taken["run"]) + Len(taken["exchange"])
Fits == Len(lines) + Waiting + InHand + Len(atEvents) + Len(events) + Expected <= 2 * rings

Story == LinesLead /\ EventsLead /\ ReaderFollows /\ NoIdAgain /\ Fits
StoryInv == Unattended => Story

\* A queue without its head, and one with another entry.
LEMMA QueueTakes ==
    ASSUME NEW S, NEW s \in Seq(S), s # <<>>
    PROVE  /\ Len(s) \in Nat /\ Len(s) > 0 /\ Head(s) = s[1] /\ Tail(s) \in Seq(S)
           /\ Len(Tail(s)) = Len(s) - 1
           /\ \A i \in 1 .. Len(Tail(s)) : Tail(s)[i] = s[i + 1]
           /\ Tail(s) = <<>> <=> Len(s) = 1
<1>1. /\ Tail(s) \in Seq(S) /\ Len(Tail(s)) = Len(s) - 1
      /\ \A i \in 1 .. Len(Tail(s)) : Tail(s)[i] = s[i + 1]
  BY HeadTailProperties
<1>2. Len(s) \in Nat /\ Len(s) > 0 /\ Head(s) = s[1]
  BY EmptySeq
<1>3. Len(<<>>) = 0 /\ (Tail(s) # <<>> => Len(Tail(s)) \in Nat \ {0})
  <2>1. Len(<<>>) = 0 /\ \A q \in Seq(S) : q # <<>> => Len(q) \in Nat \ {0}
    BY EmptySeq
  <2> QED BY <1>1, <2>1
<1>4. Tail(s) = <<>> <=> Len(s) = 1
  <2>1. CASE Tail(s) = <<>>
    BY <1>1, <1>2, <1>3, <2>1
  <2>2. CASE Tail(s) # <<>>
    BY <1>1, <1>2, <1>3, <2>2
  <2> QED BY <2>1, <2>2
<1> QED BY <1>1, <1>2, <1>4

LEMMA QueueGrows ==
    ASSUME NEW S, NEW s \in Seq(S), NEW e \in S
    PROVE  /\ Len(s) \in Nat /\ Append(s, e) \in Seq(S) /\ Append(s, e) # <<>>
           /\ Len(Append(s, e)) = Len(s) + 1
           /\ \A i \in 1 .. Len(s) : Append(s, e)[i] = s[i]
           /\ Append(s, e)[Len(s) + 1] = e
           /\ s = <<>> <=> Len(s) = 0
BY AppendProperties, EmptySeq

LEMMA LeadsHead ==
    ASSUME NEW S, NEW s \in Seq(S), s # <<>>, NEW x, NEW y, Leads(x, s, y)
    PROVE  Allowed(x, Head(s)) /\ Leads(After(Head(s)), Tail(s), y)
<1> DEFINE t == Tail(s)
<1>1. /\ Len(s) \in Nat /\ Len(s) > 0 /\ Head(s) = s[1] /\ Len(t) = Len(s) - 1
      /\ \A i \in 1 .. Len(t) : t[i] = s[i + 1]
      /\ t = <<>> <=> Len(s) = 1
  BY QueueTakes
<1> HIDE DEF t
<1>2. /\ \A i \in 1 .. Len(s) : Allowed(IF i = 1 THEN x ELSE After(s[i - 1]), s[i])
      /\ y = After(s[Len(s)])
  BY DEF Leads
<1>3. Allowed(x, Head(s))
  BY <1>1, <1>2
<1>4. ASSUME NEW i \in 1 .. Len(t)
      PROVE  Allowed(IF i = 1 THEN After(Head(s)) ELSE After(t[i - 1]), t[i])
  <2>1. Allowed(After(s[i]), s[i + 1])
    BY <1>1, <1>2
  <2>2. i # 1 => t[i - 1] = s[i]
    BY <1>1
  <2> QED BY <1>1, <2>1, <2>2
<1>5. y = IF t = <<>> THEN After(Head(s)) ELSE After(t[Len(t)])
  BY <1>1, <1>2
<1> QED BY <1>3, <1>4, <1>5 DEF Leads, t

LEMMA LeadsAppend ==
    ASSUME NEW S, NEW s \in Seq(S), NEW e \in S, NEW x, NEW y, Leads(x, s, y), Allowed(y, e)
    PROVE  Leads(x, Append(s, e), After(e))
<1> DEFINE t == Append(s, e)
<1>1. /\ Len(s) \in Nat /\ t # <<>> /\ Len(t) = Len(s) + 1
      /\ \A i \in 1 .. Len(s) : t[i] = s[i]
      /\ t[Len(s) + 1] = e
      /\ s = <<>> <=> Len(s) = 0
  BY QueueGrows
<1> HIDE DEF t
<1>2. /\ \A i \in 1 .. Len(s) : Allowed(IF i = 1 THEN x ELSE After(s[i - 1]), s[i])
      /\ y = IF s = <<>> THEN x ELSE After(s[Len(s)])
  BY DEF Leads
<1>3. ASSUME NEW i \in 1 .. Len(t)
      PROVE  Allowed(IF i = 1 THEN x ELSE After(t[i - 1]), t[i])
  <2>1. CASE i <= Len(s)
    <3>1. i \in 1 .. Len(s) /\ t[i] = s[i] /\ (i # 1 => t[i - 1] = s[i - 1])
      BY <1>1, <2>1
    <3> QED BY <1>2, <3>1
  <2>2. CASE i = Len(s) + 1
    <3>1. t[i] = e /\ (i # 1 => t[i - 1] = s[Len(s)])
      BY <1>1, <2>2
    <3> QED BY <1>1, <1>2, <2>2, <3>1
  <2> QED BY <1>1, <2>1, <2>2
<1>4. After(e) = IF t = <<>> THEN x ELSE After(t[Len(t)])
  BY <1>1
<1> QED BY <1>3, <1>4 DEF Leads, t

\* The calls in a queue, and those that end in it.
LEMMA CallsTaken ==
    ASSUME NEW S, NEW s \in Seq(S), s # <<>>
    PROVE  /\ \A c : Absent(c, s) => Head(s).call # c /\ Absent(c, Tail(s))
           /\ EndedIn(Tail(s)) \subseteq EndedIn(s)
           /\ NoneAfter(s) => NoneAfter(Tail(s))
           /\ Head(s).kind = "ended" => Head(s).call \in EndedIn(s)
           /\ Head(s).kind = "ended" /\ Head(s).call # None /\ NoneAfter(s) =>
                 Absent(Head(s).call, Tail(s))
<1> DEFINE t == Tail(s)
<1>1. /\ Len(s) \in Nat /\ Len(s) > 0 /\ Head(s) = s[1] /\ Len(t) = Len(s) - 1
      /\ \A i \in 1 .. Len(t) : t[i] = s[i + 1] /\ i + 1 \in 1 .. Len(s)
  BY QueueTakes
<1> HIDE DEF t
<1>2. \A c : Absent(c, s) => Head(s).call # c /\ Absent(c, t)
  BY <1>1 DEF Absent
<1>3. EndedIn(t) \subseteq EndedIn(s)
  <2> SUFFICES ASSUME NEW i \in 1 .. Len(t), t[i].kind = "ended" PROVE t[i].call \in EndedIn(s)
    BY DEF EndedIn
  <2>1. i + 1 \in 1 .. Len(s) /\ t[i] = s[i + 1]
    BY <1>1
  <2> QED BY <2>1 DEF EndedIn
<1>4. NoneAfter(s) => NoneAfter(t)
  <2> SUFFICES ASSUME NoneAfter(s), NEW i \in 1 .. Len(t), NEW j \in 1 .. Len(t), i < j,
                      t[i].kind = "ended", t[i].call # None
               PROVE  t[j].call # t[i].call
    BY DEF NoneAfter
  <2>1. /\ i + 1 \in 1 .. Len(s) /\ j + 1 \in 1 .. Len(s) /\ i + 1 < j + 1
        /\ t[i] = s[i + 1] /\ t[j] = s[j + 1]
    BY <1>1
  <2> QED BY <2>1 DEF NoneAfter
<1>5. Head(s).kind = "ended" => Head(s).call \in EndedIn(s)
  BY <1>1 DEF EndedIn
<1>6. Head(s).kind = "ended" /\ Head(s).call # None /\ NoneAfter(s) => Absent(Head(s).call, t)
  BY <1>1 DEF NoneAfter, Absent
<1> QED BY <1>2, <1>3, <1>4, <1>5, <1>6 DEF t

LEMMA CallsAdded ==
    ASSUME NEW S, NEW s \in Seq(S), NEW e \in S
    PROVE  /\ \A c : Absent(c, s) /\ e.call # c => Absent(c, Append(s, e))
           /\ \A c \in EndedIn(Append(s, e)) :
                 c \in EndedIn(s) \/ (e.kind = "ended" /\ c = e.call)
           /\ NoneAfter(s) /\ (e.call = None \/ e.call \notin EndedIn(s)) =>
                 NoneAfter(Append(s, e))
<1> DEFINE t == Append(s, e)
<1>1. /\ Len(s) \in Nat /\ Len(t) = Len(s) + 1
      /\ \A i \in 1 .. Len(s) : t[i] = s[i]
      /\ t[Len(s) + 1] = e
  BY QueueGrows
<1>2. \A i \in 1 .. Len(t) : i \in 1 .. Len(s) \/ i = Len(s) + 1
  BY <1>1
<1> HIDE DEF t
<1>3. \A c : Absent(c, s) /\ e.call # c => Absent(c, t)
  BY <1>1, <1>2 DEF Absent
<1>4. \A c \in EndedIn(t) : c \in EndedIn(s) \/ (e.kind = "ended" /\ c = e.call)
  BY <1>1, <1>2 DEF EndedIn
<1>5. ASSUME NoneAfter(s), e.call = None \/ e.call \notin EndedIn(s) PROVE NoneAfter(t)
  <2> SUFFICES ASSUME NEW i \in 1 .. Len(t), NEW j \in 1 .. Len(t), i < j, t[i].kind = "ended",
                      t[i].call # None
               PROVE  t[j].call # t[i].call
    BY DEF NoneAfter
  <2>1. i \in 1 .. Len(s) /\ t[i] = s[i]
    BY <1>1, <1>2
  <2>2. CASE j \in 1 .. Len(s)
    BY <1>1, <1>5, <2>1, <2>2 DEF NoneAfter
  <2>3. CASE j = Len(s) + 1
    BY <1>1, <1>5, <2>1, <2>3 DEF EndedIn
  <2> QED BY <1>2, <2>2, <2>3
<1> QED BY <1>3, <1>4, <1>5 DEF t

\* Where the constants keep the identifiers apart from "no call".
LEMMA NoneIsNoId ==
    /\ PhysIds \subseteq CallIds /\ None \notin CallIds /\ None \notin PhysIds
    /\ None \notin UrcLines /\ "muddled" \notin UrcLines
BY LineConstants DEF UrcLines

\* No step of a handler leads back to "new".
LEMMA RequestsBegin ==
    ASSUME HandlersOK, NEW w \in Handlers, Handle(w)
    PROVE  handler'[w].pc # "new"
<1> USE DEF HandlersOK, HandlerType, Step, Over, Local, Took, CallHangup, HangupDone
<1>1. CASE ModemHangup(w)
  BY <1>1 DEF ModemHangup, HangupRead, HangupValidate, HangupATH, FinishActive, HangupForget
<1>2. CASE DialHandler(w)
  BY <1>2 DEF DialHandler, DialStart, DialBind, DialCheck, DialATD, DialActive, DialAdapter,
              DialCellular, DialRelease, DialFail, DialFinish
<1>3. CASE ActionHandler(w)
  BY <1>3 DEF ActionHandler, AnswerStart, AnswerRead, AnswerValidate, AnswerATA, AnswerCellular,
              AnswerRollback, HangupStart, HangupModem
<1>4. CASE PersistCall(w)
  BY <1>4 DEF PersistCall
<1> QED BY <1>1, <1>2, <1>3, <1>4 DEF Handle

\* The queues, and the lengths that Fits adds up.
LEMMA Queues ==
    ASSUME LineInv
    PROVE  /\ lines \in Seq(UrcLines) /\ \A t \in Takers : taken[t] \in Seq(UrcLines)
           /\ atEvents \in Seq(AtEvent) /\ events \in Seq(LineEvent)
           /\ AtEvent \subseteq LineEvent
<1>1. AtEvent \subseteq LineEvent
  BY NoneIsNoId DEF AtEvent, LineEvent, Ids
<1> QED BY <1>1 DEF LineInv, ActorsOK, ModemOK, ChannelsOK

LEMMA WaitingLines ==
    ASSUME LineInv
    PROVE  \E m, n \in Nat : m = Len(taken["run"]) /\ n = Len(taken["exchange"]) /\ Waiting = m + n
<1>1. \A t \in Takers : Len(taken[t]) \in Nat
  BY Queues, LenProperties
<1>2. Len(taken["run"]) \in Nat /\ Len(taken["exchange"]) \in Nat
  BY <1>1 DEF Takers
<1> QED BY <1>2 DEF Waiting

LEMMA Lengths ==
    ASSUME LineInv
    PROVE  /\ Len(lines) \in Nat /\ Len(atEvents) \in Nat /\ Len(events) \in Nat
           /\ Waiting \in Nat /\ rings \in Nat /\ rings <= MaxRings
<1>1. Len(lines) \in Nat /\ Len(atEvents) \in Nat /\ Len(events) \in Nat
  BY Queues, LenProperties
<1>2. Waiting \in Nat
  <2>1. PICK m, n \in Nat : Waiting = m + n
    BY WaitingLines
  <2> QED BY <2>1
<1>3. rings \in 0 .. MaxRings
  BY DEF LineInv, ActorsOK, ModemOK
<1>4. MaxRings \in Nat
  BY LineConstants
<1>5. rings \in Nat /\ rings <= MaxRings
  BY <1>3, <1>4
<1> QED BY <1>1, <1>2, <1>5

\* What depends on neither the lines nor the modem.
LEMMA EventsUntouched ==
    ASSUME EventsLead, ReaderFollows, NoIdAgain,
           UNCHANGED <<active, requests, fresh, at, adapter, atEvents, events, reader, row>>
    PROVE  EventsLead' /\ ReaderFollows' /\ NoIdAgain'
BY DEF EventsLead, Current, ReaderFollows, NoIdAgain, HasEnded, Retired

\* What depends on neither the modem nor the lines before HandleURC.
LEMMA LinesUntouched ==
    ASSUME LinesLead, UNCHANGED <<at, urc, heard>>
    PROVE  LinesLead' /\ InHand' = InHand
BY DEF LinesLead, InHand

\* The modem adds a line.
LEMMA RingTells ==
    ASSUME LineInv, Story, Ring \/ RemoteEnd
    PROVE  Story'
<1>1. PICK l \in UrcLines :
          /\ lines' = Append(lines, l)
          /\ l = "RING" => net' = "ringing" /\ rings' = rings + 1
          /\ l = "NO CARRIER" => net # "idle" /\ net' = "idle" /\ rings' = rings
  BY DEF Ring, RemoteEnd, UrcLines
<1>2. UNCHANGED <<active, requests, fresh, at, taken, urc, heard, adapter, atEvents, events, reader,
                  row>>
  BY DEF Ring, RemoteEnd, controller, channels
<1>3. LinesLead' /\ InHand' = InHand
  BY <1>2, LinesUntouched DEF Story
<1>4. Fits'
  <2>1. Len(lines') = Len(lines) + 1
    BY <1>1, Queues, QueueGrows
  <2>2. /\ InHand \in {0, 1} /\ Expected \in {0, 1} /\ Expected' \in {0, 1}
        /\ \/ rings' = rings + 1
           \/ Expected = 1 /\ Expected' = 0 /\ rings' = rings
    BY <1>1, <1>2 DEF InHand, Expected, UrcLines
  <2>3. Len(lines) + Waiting + InHand + Len(atEvents) + Len(events) + Expected <= 2 * rings
    BY DEF Story, Fits
  <2>4. Len(atEvents') = Len(atEvents) /\ Len(events') = Len(events) /\ Waiting' = Waiting
    BY <1>2 DEF Waiting
  <2>5. InHand' = InHand
    BY <1>3
  <2>6. /\ Len(lines) \in Nat /\ Len(atEvents) \in Nat /\ Len(events) \in Nat
        /\ Waiting \in Nat /\ rings \in Nat
    BY Lengths
  <2>7. Len(lines') + Waiting' + InHand' + Len(atEvents') + Len(events') + Expected' <= 2 * rings'
    BY ONLY <2>1, <2>2, <2>3, <2>4, <2>5, <2>6, SMTT(30)
  <2> QED BY <2>7 DEF Fits
<1> QED BY <1>2, <1>3, <1>4, EventsUntouched DEF Story

\* How many lines are left, and how many were taken: those that are lost only make fewer.
LEMMA FewerLines ==
    ASSUME NEW s \in Seq(UrcLines), NEW n \in 1 .. Len(s), NEW i \in 1 .. 2, NEW j \in 0 .. n
    PROVE  /\ Len(SubSeq(s, n + 1, Len(s))) = Len(s) - n
           /\ Len(SubSeq(s, i, j)) \in Nat /\ Len(SubSeq(s, i, j)) <= n
<1>1. Len(s) \in Nat /\ \A k \in 1 .. Len(s) : s[k] \in UrcLines
  BY ElementOfSeq, LenProperties
<1>2. ASSUME NEW k \in Nat \ {0}, NEW l \in 0 .. Len(s)
      PROVE  Len(SubSeq(s, k, l)) = IF k <= l THEN l - k + 1 ELSE 0
  <2>1. \A m \in k .. l : s[m] \in UrcLines
    BY <1>1
  <2> QED BY <1>1, <2>1, SubSeqProperties
<1>3. Len(SubSeq(s, n + 1, Len(s))) = IF n + 1 <= Len(s) THEN Len(s) - (n + 1) + 1 ELSE 0
  BY <1>1, <1>2
<1>4. Len(SubSeq(s, i, j)) = IF i <= j THEN j - i + 1 ELSE 0
  BY <1>1, <1>2
<1> QED BY <1>1, <1>3, <1>4

LEMMA TakenTells ==
    ASSUME LineInv, Story, NEW n \in 1 .. Len(lines), RunTakes(n) \/ ExchangeTakes(n)
    PROVE  Story'
<1>1. PICK t \in Takers, i \in 1 .. 2, j \in 0 .. n :
          taken' = [taken EXCEPT ![t] = SubSeq(lines, i, j)] /\ Handled(t)
  BY LinesTaken DEF LineInv, ActorsOK
<1>2. /\ lines' = SubSeq(lines, n + 1, Len(lines))
      /\ UNCHANGED <<controller, net, rings, fresh, at, urc, heard, adapter, channels, reader, row>>
  BY LinesTaken DEF LineInv, ActorsOK
<1>3. UNCHANGED <<active, requests, net, rings, fresh, at, urc, heard, adapter, atEvents, events,
                  reader, row>>
  BY <1>2 DEF controller, channels
<1>4. LinesLead' /\ InHand' = InHand
  BY <1>3, LinesUntouched DEF Story
<1>5. Fits'
  <2>1. /\ Len(lines') = Len(lines) - n /\ n \in Nat
        /\ Len(SubSeq(lines, i, j)) \in Nat /\ Len(SubSeq(lines, i, j)) <= n
    BY <1>2, Queues, FewerLines, Lengths
  <2>2. /\ taken'[t] = SubSeq(lines, i, j) /\ Len(taken[t]) = 0
        /\ \A u \in Takers \ {t} : taken'[u] = taken[u]
    BY <1>1, EmptySeq DEF LineInv, ActorsOK, ModemOK, Handled
  <2>3. Waiting' \in Nat /\ Waiting' <= Waiting + n
    <3>1. PICK a, b \in Nat : /\ a = Len(taken["run"]) /\ b = Len(taken["exchange"])
                              /\ Waiting = a + b
      BY WaitingLines
    <3>2. PICK k \in Nat : k = Len(SubSeq(lines, i, j)) /\ k <= n
      BY <2>1
    <3>3. (Waiting' = k + b /\ a = 0) \/ (Waiting' = a + k /\ b = 0)
      BY <2>2, <3>1, <3>2 DEF Takers, Waiting
    <3>4. n \in Nat /\ a \in Nat /\ b \in Nat /\ k \in Nat /\ k <= n /\ Waiting = a + b
      BY <2>1, <3>1, <3>2
    <3> QED BY ONLY <3>3, <3>4
  <2>4. InHand \in {0, 1} /\ Expected' = Expected /\ Expected \in {0, 1}
    BY <1>3 DEF InHand, Expected
  <2>5. Len(lines) + Waiting + InHand + Len(atEvents) + Len(events) + Expected <= 2 * rings
    BY DEF Story, Fits
  <2>6. Len(atEvents') = Len(atEvents) /\ Len(events') = Len(events) /\ rings' = rings
    BY <1>3
  <2>7. /\ Len(lines) \in Nat /\ Len(atEvents) \in Nat /\ Len(events) \in Nat
        /\ Waiting \in Nat /\ rings \in Nat
    BY Lengths
  <2>8. InHand' = InHand
    BY <1>4
  <2>9. n \in Nat /\ Len(lines') = Len(lines) - n
    BY <2>1
  <2>10. Len(lines') + Waiting' + InHand' + Len(atEvents') + Len(events') + Expected' <= 2 * rings'
    BY ONLY <2>3, <2>4, <2>5, <2>6, <2>7, <2>8, <2>9, SMTT(30)
  <2> QED BY <2>10 DEF Fits
<1> QED BY <1>3, <1>4, <1>5, EventsUntouched DEF Story

\* HandleURC takes a line and keeps what it read.
LEMMA UrcReadTells ==
    ASSUME LineInv, Story, NEW t \in Takers, UrcRead(t), heard' # "muddled"
    PROVE  Story'
<1>1. /\ UNCHANGED <<active, requests, net, rings, fresh, at, lines, heard, adapter, atEvents,
                     events, reader, row>>
      /\ \A u \in Takers : urc[u] = NoUrc
      /\ taken[t] # <<>> /\ taken' = [taken EXCEPT ![t] = Tail(taken[t])]
      /\ urc' = [urc EXCEPT ![t] = [line |-> Head(taken[t]), call |-> at]]
  BY DEF UrcRead, controller, channels
<1>2. urc'[t].call = at /\ \A u \in Takers \ {t} : urc'[u] = NoUrc
  BY <1>1 DEF LineInv, ActorsOK, ModemOK
<1>3. LinesLead'
  BY <1>1, <1>2 DEF Story, LinesLead
<1>4. Fits'
  <2>1. InHand = 0 /\ InHand' \in {0, 1} /\ Expected' = Expected /\ Expected \in {0, 1}
    BY <1>1 DEF InHand, Expected
  <2>2. Len(lines) + Waiting + InHand + Len(atEvents) + Len(events) + Expected <= 2 * rings
    BY DEF Story, Fits
  <2>3. /\ Len(taken'[t]) = Len(taken[t]) - 1 /\ Len(taken[t]) > 0
        /\ \A u \in Takers \ {t} : taken'[u] = taken[u]
    <3>1. /\ Len(Tail(taken[t])) = Len(taken[t]) - 1 /\ Len(taken[t]) > 0
          /\ taken[t] \in Seq(UrcLines)
      BY <1>1, Queues, QueueTakes
    <3>2. taken'[t] = Tail(taken[t])
      BY <1>1 DEF LineInv, ActorsOK, ModemOK
    <3>3. \A u \in Takers \ {t} : taken'[u] = taken[u]
      BY <1>1 DEF LineInv, ActorsOK, ModemOK
    <3> QED BY <3>1, <3>2, <3>3
  <2>4. Waiting' \in Nat /\ Waiting' = Waiting - 1
    <3>1. \E a, b \in Nat : a = Len(taken["run"]) /\ b = Len(taken["exchange"]) /\ Waiting = a + b
      BY WaitingLines
    <3>2. PICK a, b \in Nat : /\ a = Len(taken["run"]) /\ b = Len(taken["exchange"])
                              /\ Waiting = a + b
      BY ONLY <3>1
    <3>3. /\ Waiting' = Len(taken'["run"]) + Len(taken'["exchange"])
          /\ t = "run" \/ t = "exchange"
      BY DEF Waiting, Takers
    <3>4. (a > 0 /\ Waiting' = (a - 1) + b) \/ (b > 0 /\ Waiting' = a + (b - 1))
      BY ONLY <2>3, <3>2, <3>3 DEF Takers
    <3>5. a \in Nat /\ b \in Nat /\ Waiting = a + b
      BY <3>2
    <3> QED BY ONLY <3>4, <3>5
  <2>5. /\ Len(lines') = Len(lines) /\ Len(atEvents') = Len(atEvents)
        /\ Len(events') = Len(events) /\ rings' = rings
    BY <1>1
  <2>6. /\ Len(lines) \in Nat /\ Len(atEvents) \in Nat /\ Len(events) \in Nat
        /\ Waiting \in Nat /\ rings \in Nat
    BY Lengths
  <2>7. Len(lines') + Waiting' + InHand' + Len(atEvents') + Len(events') + Expected' <= 2 * rings'
    BY ONLY <2>1, <2>2, <2>4, <2>5, <2>6, SMTT(30)
  <2> QED BY <2>7 DEF Fits
<1> QED BY <1>1, <1>3, <1>4, EventsUntouched DEF Story

\* Where an event comes from a line in hand, or from the other channel, there is room for it.
LEMMA RoomForEvent ==
    ASSUME LineInv, Story, EventCapacity >= 2 * MaxRings
    PROVE  /\ \A t \in Takers : urc[t] # NoUrc => Len(atEvents) < EventCapacity
           /\ atEvents # <<>> => Len(events) < EventCapacity
<1>1. EventCapacity \in Nat /\ MaxRings \in Nat
  BY LineConstants
<1>2. /\ InHand \in {0, 1} /\ Expected \in {0, 1}
      /\ \A t \in Takers : urc[t] # NoUrc => InHand = 1
  BY DEF InHand, Expected
<1>3. Len(lines) + Waiting + InHand + Len(atEvents) + Len(events) + Expected <= 2 * rings
  BY DEF Story, Fits
<1>4. /\ InHand = 1 => Len(atEvents) < EventCapacity
      /\ Len(atEvents) > 0 => Len(events) < EventCapacity
  BY <1>1, <1>2, <1>3, Lengths
<1>5. atEvents # <<>> => Len(atEvents) > 0
  BY Queues, QueueTakes
<1> QED BY <1>2, <1>4, <1>5

\* The AT adapter sends what becomes of the line, under the identifier it knows or a new one.
LEMMA AdapterTells ==
    ASSUME LineInv, Story, NEW e \in AtEvent, Allowed(at, e), atEvents' = Append(atEvents, e),
           at' = After(e), fresh' \subseteq fresh, at' \notin fresh',
           e.call = at \/ e.call \in fresh, e.kind = "ended" => e.call = at,
           UNCHANGED <<active, requests, adapter, events, reader, row>>
    PROVE  EventsLead' /\ ReaderFollows' /\ NoIdAgain'
<1> USE DEF Story
<1>0. /\ atEvents \in Seq(AtEvent) /\ PhysIds \subseteq CallIds
      /\ e.call \in CallIds \union {None} /\ None \notin CallIds
  BY Queues, NoneIsNoId DEF Allowed
<1>1. EventsLead'
  <2>1. Leads(adapter.active, Append(atEvents, e), After(e))
    BY <1>0, LeadsAppend DEF EventsLead
  <2> QED BY <2>1 DEF EventsLead, Current
<1>2. ReaderFollows'
  BY DEF ReaderFollows
<1>3. /\ \A c : Absent(c, atEvents) /\ e.call # c => Absent(c, atEvents')
      /\ \A c \in EndedIn(atEvents') :
            c \in EndedIn(atEvents) \/ (e.kind = "ended" /\ c = e.call)
      /\ NoneAfter(atEvents) /\ (e.call = None \/ e.call \notin EndedIn(atEvents)) =>
            NoneAfter(atEvents')
  BY <1>0, CallsAdded
<1>4. ASSUME NEW c \in CallIds, Retired(c) PROVE Retired(c)' /\ e.call # c
  BY <1>0, <1>4 DEF Retired, After
<1>5. e.kind = "ended" /\ e.call # None => Retired(e.call)'
  BY <1>0 DEF Retired, After, NoIdAgain
<1>6. NoneAfter(atEvents')
  BY <1>0, <1>3, <1>4 DEF NoIdAgain
<1>7. ASSUME NEW c \in CallIds
      PROVE  /\ HasEnded(c)' => Retired(c)' /\ Absent(c, events') /\ Absent(c, atEvents')
             /\ c \in EndedIn(events') => Retired(c)' /\ Absent(c, atEvents')
             /\ c \in EndedIn(atEvents') => Retired(c)'
  <2>1. HasEnded(c)' = HasEnded(c)
    BY DEF HasEnded
  <2>2. /\ HasEnded(c) => Retired(c) /\ Absent(c, events) /\ Absent(c, atEvents)
        /\ c \in EndedIn(events) => Retired(c) /\ Absent(c, atEvents)
        /\ c \in EndedIn(atEvents) => Retired(c)
    BY DEF NoIdAgain
  <2>3. c \in EndedIn(atEvents') => Retired(c)'
    <3>1. CASE c \in EndedIn(atEvents)
      BY <1>4, <2>2, <3>1
    <3>2. CASE e.kind = "ended" /\ c = e.call
      BY <1>0, <1>5, <3>2 DEF Retired
    <3> QED BY <1>3, <3>1, <3>2
  <2> QED BY <1>3, <1>4, <2>1, <2>2, <2>3
<1> QED BY <1>1, <1>2, <1>6, <1>7 DEF NoIdAgain

\* HandleURC has handled a line: its event stands for it.
LEMMA UrcTells ==
    ASSUME LineInv, Story, EventCapacity >= 2 * MaxRings, NEW t \in Takers, UrcRing(t) \/ UrcEnd(t)
    PROVE  Story'
<1> USE DEF Story
<1>0. /\ None \notin PhysIds /\ fresh \subseteq PhysIds /\ at \in PhysIds \union {None}
      /\ NoCarrier \in EndRaws /\ urc \in [Takers -> [line : UrcLines \union {None}, call : Ids]]
  BY NoneIsNoId DEF LineInv, ActorsOK, ModemOK, Ids, EndRaws
<1>1. /\ urc[t] # NoUrc /\ urc[t].call = at /\ \A u \in Takers : urc'[u] = NoUrc
      /\ UNCHANGED <<active, requests, adapter, events, reader, row, lines, taken, net, rings>>
  <2>1. urc[t].line \in UrcLines /\ urc' = [urc EXCEPT ![t] = NoUrc]
    BY DEF UrcRing, UrcEnd, UrcLines, Through
  <2>2. urc[t] # NoUrc
    BY <2>1, NoneIsNoId DEF NoUrc
  <2>3. UNCHANGED <<active, requests, adapter, events, reader, row, lines, taken, net, rings>>
    BY DEF UrcRing, UrcEnd, controller
  <2> QED BY <1>0, <2>1, <2>2, <2>3 DEF LinesLead
<1>2. Len(atEvents) < EventCapacity
  BY <1>1, RoomForEvent
<1> DEFINE Reported(e) ==
        /\ atEvents' = Append(atEvents, e) /\ Allowed(at, e) /\ at' = After(e)
        /\ fresh' \subseteq fresh /\ at' \notin fresh'
        /\ e.call = at \/ e.call \in fresh
        /\ e.kind = "ended" => e.call = at
        /\ heard' = "NO CARRIER" => at' = None
<1>3. PICK e \in AtEvent : Reported(e)
  <2>0. UrcRing(t) => heard' # "NO CARRIER"
    BY DEF UrcRing, Through
  <2>1. ASSUME UrcRing(t), urc[t].call = None, NEW p \in fresh, at' = p, fresh' = fresh \ {p},
               atEvents' = Sent(atEvents, [kind |-> "incoming", call |-> p, raw |-> None])
        PROVE  \E e \in AtEvent : Reported(e)
    <3>1. [kind |-> "incoming", call |-> p, raw |-> None] \in AtEvent
      BY <1>0 DEF AtEvent
    <3> QED BY <1>0, <1>1, <1>2, <2>0, <2>1, <3>1 DEF Sent, Allowed, After
  <2>2. ASSUME UrcRing(t), urc[t].call # None, UNCHANGED <<at, fresh>>,
               atEvents' = Sent(atEvents, [kind |-> "incoming", call |-> urc[t].call, raw |-> None])
        PROVE  \E e \in AtEvent : Reported(e)
    <3>1. [kind |-> "incoming", call |-> at, raw |-> None] \in AtEvent
      BY <1>0, <1>1, <2>2 DEF AtEvent
    <3> QED BY <1>0, <1>1, <1>2, <2>0, <2>2, <3>1 DEF Sent, Allowed, After, NoIdAgain
  <2>3. ASSUME UrcEnd(t) PROVE \E e \in AtEvent : Reported(e)
    <3>1. [kind |-> "ended", call |-> at, raw |-> NoCarrier] \in AtEvent
      BY <1>0 DEF AtEvent, Ids
    <3>2. at' = None /\ fresh' = fresh
      BY <1>1, <2>3 DEF UrcEnd
    <3> QED BY <1>0, <1>1, <1>2, <2>3, <3>1, <3>2 DEF Sent, Allowed, After, UrcEnd
  <2> QED BY <2>1, <2>2, <2>3 DEF UrcRing
<1>4. LinesLead'
  BY <1>1, <1>3 DEF LinesLead
<1>5. Fits'
  <2>1. InHand = 1 /\ InHand' = 0 /\ Expected' = Expected /\ Expected \in {0, 1}
    BY <1>1 DEF InHand, Expected
  <2>2. Len(lines) + Waiting + InHand + Len(atEvents) + Len(events) + Expected <= 2 * rings
    BY DEF Fits
  <2>3. Len(atEvents') = Len(atEvents) + 1
    BY <1>3, Queues, QueueGrows
  <2>4. /\ Len(lines') = Len(lines) /\ Waiting' = Waiting
        /\ Len(events') = Len(events) /\ rings' = rings
    BY <1>1 DEF Waiting
  <2>5. /\ Len(lines) \in Nat /\ Len(atEvents) \in Nat /\ Len(events) \in Nat
        /\ Waiting \in Nat /\ rings \in Nat
    BY Lengths
  <2>6. Len(lines') + Waiting' + InHand' + Len(atEvents') + Len(events') + Expected' <= 2 * rings'
    BY ONLY <2>1, <2>2, <2>3, <2>4, <2>5, SMTT(30)
  <2> QED BY <2>6 DEF Fits
<1>6. EventsLead' /\ ReaderFollows' /\ NoIdAgain'
  BY <1>1, <1>3, AdapterTells
<1> QED BY <1>4, <1>5, <1>6

\* forwardEvents passes the event on as it is, and notes what it says.
LEMMA ForwardTells ==
    ASSUME LineInv, Story, EventCapacity >= 2 * MaxRings, Forward
    PROVE  Story'
<1> USE DEF Story
<1>0. PICK e \in AtEvent, x \in Ids : e = Head(atEvents) /\ x = adapter.active
  <2>1. adapter.active \in Ids
    BY DEF LineInv, ActorsOK, AdapterOK
  <2>2. Head(atEvents) \in AtEvent
    BY Queues, HeadTailProperties DEF Forward
  <2> QED BY <2>1, <2>2
<1>1. /\ atEvents # <<>> /\ atEvents' = Tail(atEvents)
      /\ UNCHANGED <<active, requests, net, rings, fresh, at, lines, taken, urc, heard, reader,
                     row>>
  BY DEF Forward, controller, modem, serial
<1>2. Allowed(x, e) /\ Leads(After(e), atEvents', at)
  BY <1>0, <1>1, Queues, LeadsHead DEF EventsLead
<1>3. /\ e.call \in CallIds \union {None} /\ None \notin CallIds /\ e \in LineEvent
      /\ e.kind = "incoming" => e.call # None
  BY <1>0, <1>2, Queues, NoneIsNoId DEF Allowed
<1>4. e.kind \in {"incoming", "ended"} /\ [e EXCEPT !.call = e.call] = e
  BY <1>0 DEF AtEvent
<1>5. /\ events' = Append(events, e) /\ adapter'.active = After(e)
      /\ adapter'.logical = None /\ adapter'.lastLogical = None
  <2>1. Len(events) < EventCapacity
    BY <1>1, RoomForEvent
  <2>2. adapter.logical = None /\ adapter.lastLogical = None
    BY DEF EventsLead
  <2>3. adapter \in [active : Ids, logical : CallIds \union {None},
                     lastPhysical : Ids, lastLogical : CallIds \union {None}]
    BY DEF LineInv, ActorsOK, AdapterOK
  <2>4. events' = Sent(events, [e EXCEPT !.call = e.call])
    BY <1>0, <2>2 DEF Forward
  <2>5. CASE e.kind = "incoming"
    <3>1. adapter' = [adapter EXCEPT !.active = e.call]
      BY <1>0, <1>2, <1>3, <2>2, <2>3, <2>5 DEF Forward, Allowed
    <3> QED BY <1>4, <2>1, <2>2, <2>3, <2>4, <2>5, <3>1 DEF Sent, After
  <2>6. CASE e.kind = "ended"
    <3>1. adapter.active = e.call
      BY <1>0, <1>2, <2>6 DEF Allowed
    <3>2. adapter' = IF adapter.lastPhysical = None
                     THEN [active |-> None, logical |-> None,
                           lastPhysical |-> e.call, lastLogical |-> adapter.logical]
                     ELSE [adapter EXCEPT !.active = None, !.logical = None]
      BY <1>0, <2>2, <2>6, <3>1 DEF Forward
    <3> QED BY <1>4, <2>1, <2>2, <2>3, <2>4, <2>6, <3>2 DEF Sent, After
  <2> QED BY <1>4, <2>5, <2>6
<1>6. EventsLead'
  <2>1. Leads(Current, events', After(e))
    BY <1>0, <1>2, <1>3, <1>5, Queues, LeadsAppend DEF EventsLead
  <2>2. Current' = Current
    BY <1>1 DEF Current
  <2> QED BY <1>1, <1>2, <1>5, <2>1, <2>2 DEF EventsLead
<1>7. NoIdAgain'
  <2>1. /\ \A c : Absent(c, atEvents) => e.call # c /\ Absent(c, atEvents')
        /\ EndedIn(atEvents') \subseteq EndedIn(atEvents)
        /\ NoneAfter(atEvents) => NoneAfter(atEvents')
        /\ e.kind = "ended" => e.call \in EndedIn(atEvents)
        /\ e.kind = "ended" /\ e.call # None /\ NoneAfter(atEvents) => Absent(e.call, atEvents')
    BY <1>0, <1>1, Queues, CallsTaken
  <2>2. /\ \A c : Absent(c, events) /\ e.call # c => Absent(c, events')
        /\ \A c \in EndedIn(events') :
              c \in EndedIn(events) \/ (e.kind = "ended" /\ c = e.call)
        /\ NoneAfter(events) /\ (e.call = None \/ e.call \notin EndedIn(events)) =>
              NoneAfter(events')
    BY <1>3, <1>5, Queues, CallsAdded
  <2>3. NoneAfter(events') /\ NoneAfter(atEvents')
    BY <1>3, <2>1, <2>2 DEF NoIdAgain
  <2>4. ASSUME NEW c \in CallIds
        PROVE  /\ HasEnded(c)' => Retired(c)' /\ Absent(c, events') /\ Absent(c, atEvents')
               /\ c \in EndedIn(events') => Retired(c)' /\ Absent(c, atEvents')
               /\ c \in EndedIn(atEvents') => Retired(c)'
    <3>1. HasEnded(c)' = HasEnded(c) /\ Retired(c)' = Retired(c)
      BY <1>1 DEF HasEnded, Retired
    <3>2. /\ HasEnded(c) => Retired(c) /\ Absent(c, events) /\ Absent(c, atEvents)
          /\ c \in EndedIn(events) => Retired(c) /\ Absent(c, atEvents)
          /\ c \in EndedIn(atEvents) => Retired(c)
          /\ NoneAfter(atEvents)
      BY DEF NoIdAgain
    <3>3. HasEnded(c)' => Retired(c)' /\ Absent(c, events') /\ Absent(c, atEvents')
      BY <2>1, <2>2, <3>1, <3>2
    <3>4. ASSUME c \in EndedIn(events') PROVE Retired(c)' /\ Absent(c, atEvents')
      <4>1. CASE c \in EndedIn(events)
        BY <2>1, <3>1, <3>2, <4>1
      <4>2. CASE c \notin EndedIn(events)
        <5>1. e.kind = "ended" /\ c = e.call
          BY <2>2, <3>4, <4>2
        <5>2. c # None
          BY NoneIsNoId
        <5>3. c \in EndedIn(atEvents) /\ Absent(c, atEvents')
          BY <2>1, <3>2, <5>1, <5>2
        <5> QED BY <3>1, <3>2, <5>3
      <4> QED BY <4>1, <4>2
    <3>5. c \in EndedIn(atEvents') => Retired(c)'
      BY <2>1, <3>1, <3>2
    <3> QED BY <3>3, <3>4, <3>5
  <2> QED BY <1>1, <2>3, <2>4 DEF NoIdAgain
<1>8. Fits'
  <2>1. InHand' = InHand /\ Expected' = Expected /\ InHand \in {0, 1} /\ Expected \in {0, 1}
    BY <1>1 DEF InHand, Expected
  <2>2. Len(lines) + Waiting + InHand + Len(atEvents) + Len(events) + Expected <= 2 * rings
    BY DEF Fits
  <2>3. Len(atEvents') = Len(atEvents) - 1 /\ Len(events') = Len(events) + 1
    <3>1. Len(atEvents') = Len(atEvents) - 1
      BY <1>1, Queues, QueueTakes
    <3>2. Len(events') = Len(events) + 1
      BY <1>3, <1>5, Queues, QueueGrows
    <3> QED BY <3>1, <3>2
  <2>4. Len(lines') = Len(lines) /\ Waiting' = Waiting /\ rings' = rings
    BY <1>1 DEF Waiting
  <2>5. /\ Len(lines) \in Nat /\ Len(atEvents) \in Nat /\ Len(events) \in Nat
        /\ Waiting \in Nat /\ rings \in Nat
    BY Lengths
  <2>6. Len(lines') + Waiting' + InHand' + Len(atEvents') + Len(events') + Expected' <= 2 * rings'
    BY ONLY <2>1, <2>2, <2>3, <2>4, <2>5, SMTT(30)
  <2> QED BY <2>6 DEF Fits
<1>9. LinesLead' /\ ReaderFollows'
  BY <1>1, LinesUntouched DEF ReaderFollows
<1> QED BY <1>6, <1>7, <1>8, <1>9

\* The reader takes the next event: what it reads follows from the call it knows.
LEMMA ReaderTakes ==
    ASSUME LineInv, Story, reader.pc = "idle", events # <<>>
    PROVE  /\ Allowed(Current, Head(events)) /\ Head(events).call \in CallIds \union {None}
           /\ Head(events).kind = "incoming" => Head(events).call \in CallIds
           /\ Leads(After(Head(events)), Tail(events), adapter.active)
           /\ Current = IF active = NoCall THEN None ELSE active.id
           /\ active # NoCall => active \in Call /\ active.id \in CallIds
           /\ Head(events).raw \in RemoteReasons \union {None}
           /\ Head(events).kind = "ended" => Head(events).raw \in RemoteReasons
<1>1. Head(events) \in LineEvent
  BY Queues, HeadTailProperties
<1>2. Leads(Current, events, adapter.active)
  BY DEF Story, EventsLead
<1>3. /\ Allowed(Current, Head(events))
      /\ Leads(After(Head(events)), Tail(events), adapter.active)
  BY <1>2, Queues, LeadsHead
<1>4. /\ Head(events).call \in CallIds \union {None}
      /\ Head(events).kind = "incoming" => Head(events).call \in CallIds
  BY <1>3, NoneIsNoId DEF Allowed
<1>5. active # NoCall => active \in Call /\ active.id \in CallIds
  BY DEF LineInv, IInv, TypeOK, Call
<1>6. /\ Head(events).raw \in RemoteReasons \union {None}
      /\ Head(events).kind = "ended" => Head(events).raw \in RemoteReasons
  BY <1>1, LineConstants DEF LineEvent, EndRaws
<1> QED BY <1>3, <1>4, <1>5, <1>6 DEF Current

\* An event less is under way; the modem and the AT adapter are where they were.
LEMMA EventLess ==
    ASSUME LineInv, Story, events # <<>>, events' = Tail(events),
           UNCHANGED <<net, rings, fresh, at, lines, taken, urc, heard, adapter, atEvents>>,
           \A c \in CallIds :
               HasEnded(c)' => \/ HasEnded(c)
                               \/ Head(events).kind = "ended" /\ c = Head(events).call
    PROVE  LinesLead' /\ Fits' /\ NoIdAgain'
<1> USE DEF Story
<1>1. LinesLead'
  BY LinesUntouched
<1>2. Fits'
  <2>1. InHand' = InHand /\ Expected' = Expected /\ InHand \in {0, 1} /\ Expected \in {0, 1}
    BY DEF InHand, Expected
  <2>2. Len(lines) + Waiting + InHand + Len(atEvents) + Len(events) + Expected <= 2 * rings
    BY DEF Fits
  <2>3. Len(events') = Len(events) - 1
    BY Queues, QueueTakes
  <2>4. /\ Len(lines') = Len(lines) /\ Waiting' = Waiting
        /\ Len(atEvents') = Len(atEvents) /\ rings' = rings
    BY DEF Waiting
  <2>5. /\ Len(lines) \in Nat /\ Len(atEvents) \in Nat /\ Len(events) \in Nat
        /\ Waiting \in Nat /\ rings \in Nat
    BY Lengths
  <2>6. Len(lines') + Waiting' + InHand' + Len(atEvents') + Len(events') + Expected' <= 2 * rings'
    BY ONLY <2>1, <2>2, <2>3, <2>4, <2>5, SMTT(30)
  <2> QED BY <2>6 DEF Fits
<1>3. NoIdAgain'
  <2>1. /\ \A c : Absent(c, events) => Head(events).call # c /\ Absent(c, events')
        /\ EndedIn(events') \subseteq EndedIn(events)
        /\ NoneAfter(events) => NoneAfter(events')
        /\ Head(events).kind = "ended" => Head(events).call \in EndedIn(events)
        /\ Head(events).kind = "ended" /\ Head(events).call # None /\ NoneAfter(events) =>
              Absent(Head(events).call, events')
    BY Queues, CallsTaken
  <2>2. ASSUME NEW c \in CallIds
        PROVE  /\ HasEnded(c)' => Retired(c)' /\ Absent(c, events') /\ Absent(c, atEvents')
               /\ c \in EndedIn(events') => Retired(c)' /\ Absent(c, atEvents')
               /\ c \in EndedIn(atEvents') => Retired(c)'
    <3>1. Retired(c)' = Retired(c)
      BY DEF Retired
    <3>2. /\ HasEnded(c) => Retired(c) /\ Absent(c, events) /\ Absent(c, atEvents)
          /\ c \in EndedIn(events) => Retired(c) /\ Absent(c, atEvents)
          /\ c \in EndedIn(atEvents) => Retired(c)
          /\ NoneAfter(events)
      BY DEF NoIdAgain
    <3>3. HasEnded(c)' => \/ HasEnded(c)
                          \/ Head(events).kind = "ended" /\ c = Head(events).call
      OBVIOUS
    <3> QED BY <2>1, <3>1, <3>2, <3>3, NoneIsNoId
  <2> QED BY <2>1, <2>2 DEF NoIdAgain
<1> QED BY <1>1, <1>2, <1>3

\* A new call takes the free line; a repeated RING changes nothing.
LEMMA IncomingTells ==
    ASSUME LineInv, Story, ReadIncoming
    PROVE  Story'
<1>1. PICK c \in CallIds : /\ c = Head(events).call /\ Incoming(c)
                           /\ Head(events).kind = "incoming"
                           /\ events # <<>> /\ reader.pc = "idle"
  BY ReaderTakes DEF ReadIncoming
<1>2. /\ UNCHANGED <<net, rings, fresh, at, lines, taken, urc, heard, adapter, atEvents, requests,
                     row>>
      /\ events' = Tail(events)
      /\ reader' = IF Succeeded THEN [pc |-> "incoming", current |-> reply'.call] ELSE Idle
  BY DEF ReadIncoming, Incoming, modem, serial
<1>3. LinesLead' /\ Fits' /\ NoIdAgain'
  <2>1. \A d \in CallIds : HasEnded(d)' => HasEnded(d)
    BY <1>2 DEF HasEnded
  <2> QED BY <1>1, <1>2, <2>1, EventLess
<1>4. /\ Allowed(Current, Head(events)) /\ Leads(c, events', adapter.active)
      /\ Current = IF active = NoCall THEN None ELSE active.id
      /\ active # NoCall => active.id \in CallIds
  BY <1>1, <1>2, ReaderTakes DEF After
<1>5. adapter.logical = None /\ adapter.lastLogical = None /\ Leads(adapter.active, atEvents, at)
  BY DEF Story, EventsLead
<1>6. CASE active = NoCall
  <2>1. /\ active' = NewCall(c, "inbound", "incoming_ringing") /\ reply'.call = active'
        /\ Succeeded
    BY <1>1, <1>6 DEF Incoming, Return, Succeeded, Holds
  <2>2. active' \in Call /\ active'.id = c /\ active' # NoCall
    BY <2>1, NewCallIsGood, ConstantsOK
  <2>3. reader'.pc = "incoming" /\ reader'.current = active'
    BY <1>2, <2>1
  <2>4. Current' = c
    BY <2>2, <2>3 DEF Current
  <2>5. EventsLead'
    BY <1>2, <1>4, <1>5, <2>4 DEF EventsLead
  <2>6. ReaderFollows'
    BY <1>1, <1>2, <1>6, <2>2, <2>3 DEF Story, ReaderFollows
  <2> QED BY <1>3, <2>5, <2>6 DEF Story
<1>7. CASE active # NoCall
  <2>1. c = active.id
    BY <1>1, <1>4, <1>7, NoneIsNoId DEF Allowed
  <2>2. active' = active /\ reader' = Idle
    BY <1>1, <1>2, <1>7, <2>1 DEF Incoming, Return, Succeeded, Holds
  <2>3. Current' = c
    BY <1>7, <2>1, <2>2 DEF Current, Idle
  <2>4. EventsLead'
    BY <1>2, <1>4, <1>5, <2>3 DEF EventsLead
  <2>5. ReaderFollows'
    BY <1>1, <1>2, <2>2 DEF Story, ReaderFollows, Idle
  <2> QED BY <1>3, <2>4, <2>5 DEF Story
<1> QED BY <1>6, <1>7

\* An end of no call changes nothing.
LEMMA NoEndTells ==
    ASSUME LineInv, Story, ReadEnded, Head(events).call = None
    PROVE  Story'
<1>1. /\ UNCHANGED <<active, requests, net, rings, fresh, at, lines, taken, urc, heard, adapter,
                     atEvents, reader, row>>
      /\ events' = Tail(events) /\ events # <<>> /\ reader.pc = "idle"
      /\ Head(events).kind = "ended"
  BY DEF ReadEnded, controller, modem, serial
<1>2. LinesLead' /\ Fits' /\ NoIdAgain'
  <2>1. \A d \in CallIds : HasEnded(d)' => HasEnded(d)
    BY <1>1 DEF HasEnded
  <2> QED BY <1>1, <2>1, EventLess
<1>3. Current = None /\ Leads(None, events', adapter.active) /\ Current' = Current
  BY <1>1, ReaderTakes, NoneIsNoId DEF Allowed, After, Current
<1>4. EventsLead' /\ ReaderFollows'
  BY <1>1, <1>3 DEF Story, EventsLead, ReaderFollows
<1> QED BY <1>2, <1>4 DEF Story

\* The end that is read is that of the call on the line, and it is no replay.
LEMMA EndTells ==
    ASSUME LineInv, Story, ReadEnded, Head(events).call # None
    PROVE  Story'
<1>1. PICK c \in CallIds, r \in RemoteReasons :
          /\ c = Head(events).call /\ r = Head(events).raw
          /\ Head(events).kind = "ended" /\ events # <<>> /\ reader.pc = "idle"
  BY ReaderTakes DEF ReadEnded
<1>2. /\ active # NoCall /\ c = active.id /\ active \in Call
      /\ Leads(None, Tail(events), adapter.active)
  BY <1>1, ReaderTakes, NoneIsNoId DEF Allowed, After
<1>3. /\ UNCHANGED <<net, rings, fresh, at, lines, taken, urc, heard, adapter, atEvents, row>>
      /\ events' = Tail(events) /\ RemoteEnded(c, r)
      /\ reader' = IF Succeeded THEN [pc |-> "ending", current |-> reply'.call] ELSE Idle
  BY <1>1, NoneIsNoId DEF ReadEnded, modem, serial
<1> DEFINE key == [op |-> "remote_ended", call |-> c, tag |-> r]
<1>4. key \in Keys /\ key.call = c
  BY DEF Keys
<1>5. requests[key] = NoResult
  <2>1. ~Absent(c, events)
    BY <1>1, Queues, CallsTaken
  <2>2. ~HasEnded(c)
    BY <2>1 DEF Story, NoIdAgain
  <2> QED BY <2>2 DEF HasEnded
<1>6. Mutate(key, States, Ending(active, r))
  BY <1>3 DEF RemoteEnded
<1>7. active.state \in States /\ Holds(c)
  BY <1>2 DEF Call, Holds
<1> HIDE DEF key
<1>8. /\ active' = Ending(active, r) /\ Succeeded /\ reply'.call = active'
      /\ requests' = [requests EXCEPT ![key] = [call |-> active', previous |-> active]]
  BY <1>4, <1>5, <1>6, <1>7 DEF Mutate, Return, Succeeded
<1>9. active' # NoCall /\ active'.id = c /\ active'.state = "ending"
  <2>1. Sound(Ending(active, r))
    BY <1>2, ChangesAreSound DEF LineInv
  <2>2. Ending(active, r).state = "ending"
    BY <1>2 DEF Ending, Call
  <2> QED BY <1>2, <1>8, <2>1, <2>2, ConstantsOK DEF Sound
<1>10. reader'.pc = "ending" /\ reader'.current = active' /\ Current' = None
  BY <1>3, <1>8 DEF Current
<1>11. EventsLead'
  BY <1>2, <1>3, <1>10 DEF Story, EventsLead
<1>12. ReaderFollows'
  BY <1>1, <1>2, <1>3, <1>9, <1>10 DEF Story, ReaderFollows
<1>13. LinesLead' /\ Fits' /\ NoIdAgain'
  <2>1. ASSUME NEW d \in CallIds, HasEnded(d)', d # c PROVE HasEnded(d)
    <3>1. PICK q \in RemoteReasons :
              requests'[[op |-> "remote_ended", call |-> d, tag |-> q]] # NoResult
      BY <2>1 DEF HasEnded
    <3>2. [op |-> "remote_ended", call |-> d, tag |-> q] # key
      BY <2>1 DEF key
    <3>3. [op |-> "remote_ended", call |-> d, tag |-> q] \in Keys
      BY DEF Keys
    <3>4. requests \in [Keys -> Result \union {NoResult}]
      BY DEF LineInv, IInv, TypeOK
    <3> QED BY <1>8, <3>1, <3>2, <3>3, <3>4 DEF HasEnded
  <2> QED BY <1>1, <1>3, <2>1, EventLess
<1> QED BY <1>11, <1>12, <1>13 DEF Story

\* The other steps of the reader follow from its copy of the call.
LEMMA ReaderTells ==
    ASSUME LineInv, Story, PersistIncoming \/ PersistEnding \/ FinishEnded \/ PersistEnded
    PROVE  Story'
<1>0. /\ reader.current \in Call /\ reader.current.id \in CallIds
      /\ row \in [CallIds -> {"none", "open", "ended"}] /\ ReaderFollows
      /\ reader \in [pc : {"idle", "incoming", "ending", "finish", "ended"},
                     current : Call \union {NoCall}]
  BY DEF LineInv, ActorsOK, ReaderOK, RowsOK, PersistIncoming, PersistEnding, FinishEnded,
         PersistEnded, Call, Story
<1>1. UNCHANGED <<net, rings, fresh, at, lines, taken, urc, heard, adapter, atEvents, events,
                  requests>>
  BY DEF PersistIncoming, PersistEnding, FinishEnded, PersistEnded, Finish, controller, modem,
         serial, channels
<1>2. LinesLead' /\ Fits' /\ NoIdAgain'
  BY <1>1 DEF Story, LinesLead, Waiting, Fits, InHand, Expected, NoIdAgain, HasEnded, Retired
<1>3. Current' = Current /\ ReaderFollows'
  <2>1. CASE PersistIncoming
    <3>1. active' = active /\ reader' = Idle /\ reader.pc = "incoming" /\ Persist(reader.current)
      BY <2>1 DEF PersistIncoming, controller
    <3>2. active # NoCall /\ reader.current = active
      BY <1>0, <3>1 DEF ReaderFollows
    <3>3. \A c \in CallIds : c # active.id => row'[c] = row[c]
      BY <1>0, <3>1, <3>2 DEF Persist
    <3> QED BY <1>0, <3>1, <3>2, <3>3 DEF ReaderFollows, Current, Idle
  <2>2. CASE PersistEnding
    <3>1. /\ active' = active /\ reader.pc = "ending" /\ Persist(reader.current)
          /\ reader'.pc = "finish" /\ reader'.current = reader.current
      BY <1>0, <2>2 DEF PersistEnding, controller
    <3>2. active # NoCall /\ reader.current = active /\ active.state = "ending"
      BY <1>0, <3>1 DEF ReaderFollows
    <3>3. \A c \in CallIds : c # active.id => row'[c] = row[c]
      BY <1>0, <3>1, <3>2 DEF Persist
    <3> QED BY <1>0, <3>1, <3>2, <3>3 DEF ReaderFollows, Current
  <2>3. CASE FinishEnded
    <3>1. reader.pc = "finish" /\ row' = row
      BY <2>3 DEF FinishEnded
    <3>2. active # NoCall /\ reader.current = active /\ active.state = "ending"
      BY <1>0, <3>1 DEF ReaderFollows
    <3>3. /\ active' = NoCall /\ reader'.pc = "ended"
          /\ reader'.current = [active EXCEPT !.ended = TRUE]
      <4>1. Finish(reader.current.id) /\ Holds(reader.current.id)
        BY <2>3, <3>2 DEF FinishEnded, Holds
      <4>2. active' = NoCall /\ Return("finish", "none", [active EXCEPT !.ended = TRUE])
        BY <3>2, <4>1 DEF Finish
      <4>3. reply'.err = "none" /\ reply'.call = [active EXCEPT !.ended = TRUE]
        BY <4>2 DEF Return
      <4>4. reader' = [pc |-> "ended", current |-> reply'.call]
        BY <2>3, <4>3 DEF FinishEnded, Succeeded
      <4> QED BY <4>2, <4>3, <4>4
    <3>4. reader'.current.ended /\ reader'.current.id = active.id
      BY <1>0, <3>2, <3>3 DEF Call
    <3> QED BY <1>0, <3>1, <3>2, <3>3, <3>4 DEF ReaderFollows, Current
  <2>4. CASE PersistEnded
    <3>1. active' = active /\ reader' = Idle /\ reader.pc = "ended" /\ Persist(reader.current)
      BY <2>4 DEF PersistEnded, controller
    <3>2. active = NoCall /\ reader.current.ended
      BY <1>0, <3>1 DEF ReaderFollows
    <3>3. /\ row'[reader.current.id] = "ended"
          /\ \A c \in CallIds : c # reader.current.id => row'[c] = row[c]
      BY <1>0, <3>1, <3>2 DEF Persist
    <3> QED BY <1>0, <3>1, <3>2, <3>3 DEF ReaderFollows, Current, Idle
  <2> QED BY <2>1, <2>2, <2>3, <2>4
<1>4. EventsLead'
  BY <1>1, <1>3 DEF Story, EventsLead
<1> QED BY <1>2, <1>3, <1>4 DEF Story

\* The story goes on until a request comes or two lines are handled at a time.
LEMMA SerialTells ==
    ASSUME LineInv, heard # "muddled" => Story, EventCapacity >= 2 * MaxRings, Serial,
           heard' # "muddled"
    PROVE  Story'
<1>1. ASSUME NEW n \in 1 .. Len(lines), RunTakes(n) \/ ExchangeTakes(n) PROVE Story'
  <2>1. heard' = heard
    BY <1>1 DEF RunTakes, ExchangeTakes
  <2> QED BY <1>1, <2>1, TakenTells
<1>2. ASSUME NEW t \in Takers, UrcRead(t) PROVE Story'
  <2>1. heard # "muddled"
    BY <1>2 DEF UrcRead
  <2> QED BY <1>2, <2>1, UrcReadTells
<1>3. ASSUME NEW t \in Takers, UrcRing(t) \/ UrcEnd(t) PROVE Story'
  <2>1. heard # "muddled"
    BY <1>3 DEF UrcRing, UrcEnd, Through
  <2> QED BY <1>3, <2>1, UrcTells
<1> QED BY <1>1, <1>2, <1>3 DEF Serial

LEMMA StoryKept ==
    ASSUME LineInv, StoryInv, EventCapacity >= 2 * MaxRings, [LineNext]_lineVars
    PROVE  StoryInv'
<1> SUFFICES ASSUME Unattended' PROVE Story'
  BY DEF StoryInv
<1>1. ASSUME NEW w \in Handlers, Handle(w) PROVE FALSE
  BY <1>1, RequestsBegin DEF LineInv, ActorsOK, Unattended, At
<1>2. CASE UNCHANGED lineVars
  <2>1. Story
    BY <1>2 DEF lineVars, modem, serial, StoryInv, Unattended, At
  <2> QED BY <1>2, <2>1
          DEF lineVars, controller, modem, serial, channels, Story, LinesLead, Waiting, Fits,
              InHand, Expected, NoIdAgain, HasEnded, Retired, EventsLead, Current, ReaderFollows
<1>3. CASE Ring \/ RemoteEnd \/ Forward \/ Reader
  <2>1. handler' = handler /\ heard' = heard
    BY <1>3 DEF Ring, RemoteEnd, Forward, Reader, ReadIncoming, PersistIncoming, ReadEnded,
                PersistEnding, FinishEnded, PersistEnded, modem, serial
  <2>2. Story
    BY <2>1 DEF StoryInv, Unattended, At
  <2> QED BY <1>3, <2>2, RingTells, ForwardTells, IncomingTells, NoEndTells, EndTells, ReaderTells
          DEF Reader
<1>4. CASE Serial
  <2>1. handler' = handler
    BY <1>4, SerialFrame
  <2>2. heard # "muddled" => Story
    BY <2>1 DEF StoryInv, Unattended, At
  <2> QED BY <1>4, <2>2, SerialTells DEF Unattended
<1> QED BY <1>1, <1>2, <1>3, <1>4 DEF LineNext, Gateway

\* As long as the channels hold the two events of every RING, the events alone bring the
\* gateway back in line with NO CARRIER once HandleURC has handled one last, whatever rang,
\* whichever lines were lost or overtaken, and whatever is queued when the next call comes
\* in, unless two lines were handled at a time (HandleURC, forwardEvents, HandleModemEvent).
THEOREM UnattendedAgrees ==
    ASSUME EventCapacity >= 2 * MaxRings
    PROVE  LineSpec => []UnattendedLineAgrees
<1>1. LineInit => StoryInv
  <2> SUFFICES ASSUME LineInit PROVE Story
    BY DEF StoryInv
  <2> USE DEF LineInit, Init
  <2>1. Len(<<>>) = 0
    BY EmptySeq
  <2>2. LinesLead
    BY DEF LinesLead
  <2>3. EventsLead
    <3>1. Leads(None, <<>>, None)
      BY <2>1 DEF Leads
    <3> QED BY <3>1 DEF EventsLead, Current
  <2>4. ReaderFollows
    BY DEF ReaderFollows, Idle
  <2>5. NoIdAgain
    <3>1. \A c \in CallIds : ~HasEnded(c)
      BY DEF HasEnded, Keys
    <3>2. EndedIn(<<>>) = {} /\ NoneAfter(<<>>)
      BY <2>1 DEF EndedIn, NoneAfter
    <3> QED BY <3>1, <3>2, NoneIsNoId DEF NoIdAgain
  <2>6. Fits
    <3>1. InHand = 0 /\ Expected = 0
      BY DEF InHand, Expected
    <3>2. Waiting = 0
      BY <2>1, <3>1 DEF Waiting, Takers
    <3> QED BY <2>1, <3>1, <3>2 DEF Fits
  <2> QED BY <2>2, <2>3, <2>4, <2>5, <2>6 DEF Story
<1>2. LineInv /\ StoryInv => UnattendedLineAgrees
  <2> SUFFICES ASSUME LineInv, StoryInv, Quiet, heard = "NO CARRIER",
                      \A w \in Handlers : At(w, "new")
               PROVE  active = NoCall /\ at = None /\ \A c \in CallIds : row[c] # "open"
    BY DEF UnattendedLineAgrees
  <2>1. Story
    BY DEF StoryInv, Unattended
  <2>2. at = None
    BY <2>1 DEF Story, LinesLead
  <2>3. Current = None
    BY <2>1, <2>2 DEF Story, EventsLead, Leads, Quiet
  <2>4. active = NoCall
    <3>1. active # NoCall => active.id \in CallIds
      BY DEF LineInv, IInv, TypeOK, Call
    <3> QED BY <2>3, <3>1, NoneIsNoId DEF Current, Quiet
  <2>5. \A c \in CallIds : row[c] # "open"
    BY <2>1, <2>4 DEF Story, ReaderFollows, Quiet
  <2> QED BY <2>2, <2>4, <2>5
<1>3. LineInv /\ StoryInv /\ [LineNext]_lineVars => StoryInv'
  BY StoryKept
<1> QED BY <1>1, <1>2, <1>3, LineInvariance, PTL DEF LineSpec
-----------------------------------------------------------------------------
(* A single dial.  Until its call is up no event is under way.  Once it is *)
(* up, the dial has still to find out whether its call is on the line, or  *)
(* every hangup finds the identifier of the cellular call and ends that.   *)

DialBefore == {"dial_bind", "dial_check", "dial_atd"}
DialAfter == {"dial_active", "dial_adapter", "dial_cellular"}
Dialling == DialBefore \union DialAfter
Reaching == {"hangup_read", "hangup_validate", "hangup_ath"}

\* No result is recorded for a request that has not begun.
KeysUnused ==
    \A k \in Keys, w \in Handlers :
        At(w, "new") /\ k.op \in {"dial", "answer", "hangup"} /\ k.tag = w => requests[k] = NoResult

Dialled == \E k \in Keys : k.op = "dial" /\ requests[k] # NoResult
CellularUnmarked == \A k \in Keys : k.op = "cellular_ready" => requests[k] = NoResult

\* The premise of NoHiddenCall.
Premise == rings = 0 /\ OneDial /\ "ATH" \notin FailingCommands /\ cut = {}

\* The modem is up, or the dial may still get it there.
MayBeUp == ~Dialled \/ net = "up" \/ \E w \in Handlers : handler[w].pc \in DialBefore

LineCalm ==
    /\ lines = <<>> /\ (\A t \in Takers : Handled(t))
    /\ atEvents = <<>> /\ events = <<>> /\ reader.pc = "idle"
    /\ adapter.active \in {None, at}
    /\ active # NoCall => active.state # "incoming_ringing"

\* No call is left to be marked.
Gone == active = NoCall \/ active.state = "ending"

PlaceOK(w) ==
    /\ handler[w].pc \in {"new", "done", "persist", "hangup_modem"} \union Reaching \union Dialling
    /\ handler[w].pc \in DialBefore => net = "idle" /\ at = None
    /\ handler[w].pc = "dial_active" => at = None
    /\ handler[w].pc = "dial_adapter" => at = handler[w].phys /\ at # None /\ adapter.active = None
    /\ handler[w].pc = "dial_cellular" => adapter.active # None
    /\ handler[w].pc \in {"hangup_validate", "hangup_ath"}
          => handler[w].phys = adapter.active /\ adapter.active # None
    /\ handler[w].pc \in Reaching => \/ handler[w].return = "dial_release" /\ adapter.active # None
                                     \/ handler[w].return = "hangup_modem" /\ Gone
    /\ handler[w].pc = "hangup_modem" => Gone /\ handler[w].outcome # "error"

OneDialer ==
    \A v, w \in Handlers : handler[v].pc \in Dialling /\ handler[w].pc \in Dialling => v = w

FirstDial ==
    /\ ~Dialled => /\ active = NoCall /\ net = "idle" /\ at = None /\ CellularUnmarked
                   /\ \A w \in Handlers : At(w, "new") \/ At(w, "done")
    /\ (\E w \in Handlers : handler[w].pc \in Dialling) => CellularUnmarked

\* The dial of w will still mark its call or release the modem.
Attends(w) == \/ handler[w].pc \in DialAfter
              \/ handler[w].pc \in Reaching /\ handler[w].return = "dial_release"

Committed ==
    net = "up" /\ (\A w \in Handlers : ~Attends(w)) =>
        active # NoCall /\ adapter.active # None /\ \A w \in Handlers : ~At(w, "hangup_modem")

DialStory == LineCalm /\ (\A w \in Handlers : PlaceOK(w)) /\ OneDialer /\ FirstDial /\ Committed

DialInv ==
    /\ KeysUnused
    /\ rings = 0 => net # "ringing"
    /\ Premise /\ MayBeUp => DialStory

\* A method records a result under its own key only, and Rollback forgets no dial.
LEMMA OneKeyChanges ==
    ASSUME IInv, NEW key \in Keys
    PROVE  /\ \A from, changed : Mutate(key, from, changed) =>
                 /\ \A k \in Keys \ {key} : requests'[k] = requests[k]
                 /\ requests[key] # NoResult => requests'[key] = requests[key]
           /\ \A c : Rollback(key, c) => \A k \in Keys \ {key} : requests'[k] = requests[k]
BY DEF Mutate, Rollback, IInv, TypeOK

\* What a request may record.
Records(w) ==
    \/ requests' = requests
    \/ \E key \in Keys :
          /\ key.op \in {"dial", "answer", "hangup"} => key.tag \in {w, FailureOf[w]}
          /\ key.op = "dial" /\ requests[key] # NoResult => requests'[key] = requests[key]
          /\ \A k \in Keys \ {key} : requests'[k] = requests[k]

LEMMA HandleRecords ==
    ASSUME LineInv, NEW w \in Handlers, Handle(w)
    PROVE  Records(w)
<1> USE DEF LineInv, ActorsOK
<1>0. /\ w \in Attempts /\ FailureOf[w] \in Attempts
      /\ DialIds \subseteq CallIds /\ {ClientHangup, DialFailed} \subseteq HangupReasons
  BY LineConstants
<1>1. ASSUME NEW c \in CallIds, NEW op \in {"dial", "answer", "hangup"}, NEW n \in {w, FailureOf[w]},
             LET key == [op |-> op, call |-> c, tag |-> n]
             IN  /\ \A k \in Keys \ {key} : requests'[k] = requests[k]
                 /\ op = "dial" /\ requests[key] # NoResult => requests'[key] = requests[key]
      PROVE  Records(w)
  <2> DEFINE key == [op |-> op, call |-> c, tag |-> n]
  <2>1. key \in Keys
    BY <1>0 DEF Keys
  <2> QED BY <1>1, <2>1 DEF Records
<1>2. ASSUME NEW c \in CallIds, MarkCellularReady(c)
      PROVE  Records(w)
  <2> DEFINE key == [op |-> "cellular_ready", call |-> c, tag |-> NoReason]
  <2>1. key \in Keys
    BY DEF Keys
  <2>2. \A k \in Keys \ {key} : requests'[k] = requests[k]
    BY <1>2, <2>1, OneKeyChanges DEF MarkCellularReady
  <2> QED BY <2>1, <2>2 DEF Records
<1>3. ASSUME NEW c \in CallIds, NEW n \in {w, FailureOf[w]},
             Dial(c, n) \/ Answer(c, n) \/ \E r \in HangupReasons : Hangup(c, n, r)
      PROVE  Records(w)
  <2>1. DialKey(c, n) \in Keys /\ AnswerKey(c, n) \in Keys /\ HangupKey(c, n) \in Keys
    BY <1>0, KeysOfMethods
  <2>2. CASE Dial(c, n)
    <3>1. /\ \A k \in Keys \ {DialKey(c, n)} : requests'[k] = requests[k]
          /\ requests[DialKey(c, n)] # NoResult => requests'[DialKey(c, n)] = requests[DialKey(c, n)]
      BY <2>1, <2>2 DEF Dial, IInv, TypeOK
    <3> QED BY <1>1, <3>1 DEF DialKey
  <2>3. CASE Answer(c, n)
    <3>1. \A k \in Keys \ {AnswerKey(c, n)} : requests'[k] = requests[k]
      BY <2>1, <2>3, OneKeyChanges DEF Answer
    <3> QED BY <1>1, <3>1 DEF AnswerKey
  <2>4. ASSUME NEW r \in HangupReasons, Hangup(c, n, r) PROVE Records(w)
    <3>1. \A k \in Keys \ {HangupKey(c, n)} : requests'[k] = requests[k]
      BY <2>1, <2>4, OneKeyChanges DEF Hangup
    <3> QED BY <1>1, <3>1 DEF HangupKey
  <2> QED BY <1>3, <2>2, <2>3, <2>4
<1>4. ASSUME NEW c \in CallIds, Rollback(AnswerKey(c, w), c) \/ Rollback(HangupKey(c, w), c)
      PROVE  Records(w)
  <2>1. AnswerKey(c, w) \in Keys /\ HangupKey(c, w) \in Keys
    BY <1>0, KeysOfMethods
  <2>2. CASE Rollback(AnswerKey(c, w), c)
    <3>1. \A k \in Keys \ {AnswerKey(c, w)} : requests'[k] = requests[k]
      BY <2>1, <2>2, OneKeyChanges
    <3> QED BY <1>1, <3>1 DEF AnswerKey
  <2>3. CASE Rollback(HangupKey(c, w), c)
    <3>1. \A k \in Keys \ {HangupKey(c, w)} : requests'[k] = requests[k]
      BY <2>1, <2>3, OneKeyChanges
    <3> QED BY <1>1, <3>1 DEF HangupKey
  <2> QED BY <1>4, <2>2, <2>3
<1>5. CASE requests' = requests
  BY <1>5 DEF Records
<1>6. CASE DialMethod(w)
  <2>1. ASSUME NEW d \in DialIds, DialStart(w, d) PROVE Records(w)
    BY <1>0, <1>3, <2>1 DEF DialStart
  <2>2. CASE DialCellular(w) \/ DialFail(w) \/ DialFinish(w)
    <3>1. handler[w].current.id \in CallIds
      BY <2>2, WorkingHandler
         DEF DialCellular, DialFail, DialFinish, At, Outside, Hanging, HandlerPCs
    <3> QED BY <1>0, <1>2, <1>3, <1>5, <2>2, <3>1 DEF DialCellular, DialFail, DialFinish, Finish
  <2> QED BY <1>6, <2>1, <2>2 DEF DialMethod
<1>7. CASE ActionMethod(w)
  <2>1. ASSUME NEW c \in CallIds, AnswerStart(w, c) \/ HangupStart(w, c) PROVE Records(w)
    BY <1>0, <1>3, <2>1 DEF AnswerStart, HangupStart
  <2>2. CASE AnswerCellular(w) \/ AnswerRollback(w) \/ HangupModem(w)
    <3>1. handler[w].current.id \in CallIds
      BY <2>2, WorkingHandler
         DEF AnswerCellular, AnswerRollback, HangupModem, At, Outside, Hanging, HandlerPCs
    <3> QED BY <1>2, <1>4, <1>5, <2>2, <3>1 DEF AnswerCellular, AnswerRollback, HangupModem, Finish
  <2> QED BY <1>7, <2>1, <2>2 DEF ActionMethod
<1>8. CASE DialStep(w) \/ AnswerStep(w) \/ ModemHangup(w) \/ PersistCall(w)
  BY <1>5, <1>8, DialStepKeeps, AnswerStepKeeps, ModemHangupKeeps DEF PersistCall, controller
<1> QED BY <1>6, <1>7, <1>8
        DEF Handle, DialHandler, DialStep, DialMethod, ActionHandler, AnswerStep, ActionMethod

\* The event reader records ends only.
LEMMA ReaderRecords ==
    ASSUME LineInv, Reader
    PROVE  \A k \in Keys : k.op # "remote_ended" => requests'[k] = requests[k]
<1>1. CASE ReadEnded /\ Head(events).call # None
  <2> DEFINE c == Head(events).call
             r == Head(events).raw
             key == [op |-> "remote_ended", call |-> c, tag |-> r]
  <2>1. c \in CallIds /\ r \in RemoteReasons
    <3>1. Head(events) \in LineEvent /\ Head(events).kind = "ended"
      BY <1>1, TakenKeeps DEF ReadEnded, LineInv, ActorsOK, ChannelsOK
    <3> QED BY <1>1, <3>1, LineConstants DEF LineEvent, EndRaws
  <2>2. key \in Keys
    BY <2>1 DEF Keys
  <2>3. RemoteEnded(c, r)
    BY <1>1 DEF ReadEnded
  <2>4. \A k \in Keys \ {key} : requests'[k] = requests[k]
    BY <2>2, <2>3, OneKeyChanges DEF RemoteEnded, LineInv
  <2> QED BY <2>4
<1>2. CASE ~(ReadEnded /\ Head(events).call # None)
  BY <1>2 DEF Reader, ReadIncoming, PersistIncoming, ReadEnded, PersistEnding, FinishEnded,
              PersistEnded, Incoming, Finish, controller
<1> QED BY <1>1, <1>2

\* The requests of a handler that does not step are as they were, and no dial is forgotten.
LEMMA RequestsKept ==
    ASSUME LineInv, LineNext
    PROVE  /\ \A k \in Keys : k.op = "dial" /\ requests[k] # NoResult => requests'[k] # NoResult
           /\ KeysUnused => KeysUnused'
<1> USE DEF LineInv, ActorsOK
<1>1. ASSUME NEW w \in Handlers, Handle(w)
      PROVE  /\ \A k \in Keys : k.op = "dial" /\ requests[k] # NoResult => requests'[k] # NoResult
             /\ KeysUnused => KeysUnused'
  <2>1. Records(w) /\ handler'[w].pc # "new" /\ \A v \in Handlers \ {w} : handler'[v] = handler[v]
    BY <1>1, HandleRecords, RequestsBegin, OthersWait
  <2>2. FailureOf[w] \notin Handlers
    BY LineConstants
  <2>3. \A k \in Keys : k.op = "dial" /\ requests[k] # NoResult => requests'[k] # NoResult
    BY <2>1 DEF Records
  <2>4. ASSUME KeysUnused, NEW k \in Keys, NEW v \in Handlers, At(v, "new")',
               k.op \in {"dial", "answer", "hangup"}, k.tag = v
        PROVE  requests'[k] = NoResult
    <3>1. v # w /\ At(v, "new")
      BY <2>1, <2>4 DEF At
    <3>2. requests[k] = NoResult
      BY <2>4, <3>1 DEF KeysUnused
    <3>3. requests'[k] = requests[k]
      BY <2>1, <2>2, <2>4, <3>1 DEF Records
    <3> QED BY <3>2, <3>3
  <2> QED BY <2>3, <2>4 DEF KeysUnused
<1>2. CASE Reader
  <2>1. handler' = handler
    BY <1>2 DEF Reader, ReadIncoming, PersistIncoming, ReadEnded, PersistEnding, FinishEnded,
                PersistEnded
  <2>2. \A k \in Keys : k.op # "remote_ended" => requests'[k] = requests[k]
    BY <1>2, ReaderRecords
  <2>3. KeysUnused => KeysUnused'
    BY <2>1, <2>2 DEF KeysUnused, At
  <2> QED BY <2>2, <2>3
<1>3. CASE Ring \/ RemoteEnd \/ Serial \/ Forward
  <2>1. handler' = handler /\ requests' = requests
    BY <1>3, SerialFrame DEF Ring, RemoteEnd, Forward, controller
  <2> QED BY <2>1 DEF KeysUnused, At
<1> QED BY <1>1, <1>2, <1>3 DEF LineNext, Gateway

\* A handler steps to the modem, or into its dial.
LEMMA GoesUp ==
    ASSUME LineInv, NEW w \in Handlers, Handle(w)
    PROVE  /\ net' = "up" => net = "up" \/ At(w, "dial_atd") \/ net = "ringing"
           /\ handler'[w].pc \in DialBefore =>
                 \/ handler[w].pc \in DialBefore
                 \/ \E d \in DialIds : DialStart(w, d) /\ Succeeded
           /\ rings' = rings /\ cut \subseteq cut'
<1> USE DEF LineInv, ActorsOK, HandlersOK, HandlerType, Step, Over, Local, Took, CallHangup,
            HangupDone, modem, serial, DialBefore, At, CutOff
<1>1. CASE ModemHangup(w)
  BY <1>1 DEF ModemHangup, HangupRead, HangupValidate, HangupATH, FinishActive, HangupForget
<1>2. CASE DialHandler(w)
  BY <1>2 DEF DialHandler, DialStart, DialBind, DialCheck, DialATD, DialActive, DialAdapter,
              DialCellular, DialRelease, DialFail, DialFinish
<1>3. CASE ActionHandler(w)
  BY <1>3 DEF ActionHandler, AnswerStart, AnswerRead, AnswerValidate, AnswerATA, AnswerCellular,
              AnswerRollback, HangupStart, HangupModem
<1>4. CASE PersistCall(w)
  BY <1>4 DEF PersistCall
<1> QED BY <1>1, <1>2, <1>3, <1>4 DEF Handle

\* A dial that succeeds is recorded now.
LEMMA DialStarts ==
    ASSUME LineInv, KeysUnused, NEW w \in Handlers, NEW d \in DialIds, DialStart(w, d), Succeeded
    PROVE  /\ DialKey(d, w) \in Keys /\ DialKey(d, w).op = "dial"
           /\ requests[DialKey(d, w)] = NoResult
           /\ requests' = [requests EXCEPT ![DialKey(d, w)] =
                              [call |-> NewCall(d, "outbound", "outgoing_dialing"),
                               previous |-> NoCall]]
           /\ requests'[DialKey(d, w)] # NoResult
           /\ active = NoCall /\ active' = NewCall(d, "outbound", "outgoing_dialing")
<1> DEFINE new == NewCall(d, "outbound", "outgoing_dialing")
           key == DialKey(d, w)
<1>1. key \in Keys /\ key.op = "dial" /\ key.tag = w
  BY LineConstants, KeysOfMethods DEF DialKey
<1>2. requests[key] = NoResult
  BY <1>1 DEF KeysUnused, DialStart
<1>3. /\ active = NoCall /\ active' = new
      /\ requests' = [requests EXCEPT ![key] = [call |-> new, previous |-> NoCall]]
  BY <1>2 DEF DialStart, Dial, Return, Succeeded
<1>4. [call |-> new, previous |-> NoCall] # NoResult
  <2>1. new \in Call
    BY LineConstants, NewCallIsGood
  <2>2. [call |-> new, previous |-> NoCall] \in Result
    BY <2>1 DEF Result
  <2> QED BY <2>2, ConstantsOK
<1>5. requests'[key] # NoResult
  BY <1>1, <1>3, <1>4 DEF LineInv, IInv, TypeOK
<1> QED BY <1>1, <1>2, <1>3, <1>5

\* As long as the premise holds, what may be up could be up before.
LEMMA MayBeUpBefore ==
    ASSUME LineInv, DialInv, LineNext, Premise', MayBeUp'
    PROVE  Premise /\ MayBeUp /\ ~Ring
<1>0. \A k \in Keys : k.op = "dial" /\ requests[k] # NoResult => requests'[k] # NoResult
  BY RequestsKept
<1>1. rings = 0 /\ ~Ring
  <2>1. (Ring => rings' = rings + 1) /\ (~Ring => rings' = rings)
    BY GoesUp, SerialFrame
       DEF LineNext, Gateway, Ring, RemoteEnd, Forward, Reader, ReadIncoming, PersistIncoming,
           ReadEnded, PersistEnding, FinishEnded, PersistEnded, modem
  <2>2. rings \in Nat
    BY Lengths
  <2>3. rings' = 0
    BY DEF Premise
  <2> QED BY <2>1, <2>2, <2>3
<1>2. OneDial
  BY <1>0 DEF Premise, OneDial
<1>3. Dialled => Dialled'
  BY <1>0 DEF Dialled
<1>4. ASSUME NEW w \in Handlers, Handle(w) PROVE MayBeUp
  <2>1. CASE net' = "up"
    BY <1>1, <1>4, <2>1, GoesUp DEF DialInv, MayBeUp, At, DialBefore
  <2>2. ASSUME NEW v \in Handlers, handler'[v].pc \in DialBefore PROVE MayBeUp
    <3>1. CASE handler[v].pc \in DialBefore
      BY <3>1 DEF MayBeUp
    <3>2. CASE handler[v].pc \notin DialBefore
      <4>1. v = w
        BY <1>4, <2>2, <3>2, OthersWait DEF LineInv, ActorsOK
      <4>2. PICK d \in DialIds : DialStart(w, d) /\ Succeeded
        BY <1>4, <2>2, <3>2, <4>1, GoesUp
      <4>3. /\ DialKey(d, w) \in Keys /\ DialKey(d, w).op = "dial"
            /\ requests[DialKey(d, w)] = NoResult /\ requests'[DialKey(d, w)] # NoResult
        BY <4>2, DialStarts DEF DialInv
      <4>4. ~Dialled
        BY <1>0, <4>3 DEF Dialled, Premise, OneDial
      <4> QED BY <4>4 DEF MayBeUp
    <3> QED BY <3>1, <3>2
  <2> QED BY <1>3, <2>1, <2>2 DEF MayBeUp
<1>5. ASSUME RemoteEnd \/ Serial \/ Forward \/ Reader PROVE MayBeUp /\ cut' = cut
  <2>1. handler' = handler /\ (net' = "up" => net = "up") /\ cut' = cut
    BY <1>5, SerialFrame
       DEF RemoteEnd, Forward, Reader, ReadIncoming, PersistIncoming, ReadEnded, PersistEnding,
           FinishEnded, PersistEnded, modem
  <2> QED BY <1>3, <2>1 DEF MayBeUp
<1>6. cut = {}
  <2>1. cut \subseteq cut'
    BY <1>1, <1>5, GoesUp DEF LineNext, Gateway
  <2> QED BY <2>1 DEF Premise
<1> QED BY <1>1, <1>2, <1>4, <1>5, <1>6 DEF LineNext, Gateway, Premise

\* The steps of a handler, field by field.
LEMMA HandlerMoves ==
    ASSUME HandlersOK, NEW w \in Handlers
    PROVE  /\ \A where : Step(w, where) =>
                 /\ handler'[w].pc = where /\ handler'[w].return = handler[w].return
                 /\ handler'[w].phys = handler[w].phys
           /\ Over(w) => handler'[w].pc = "done"
           /\ \A where, call : Took(w, where, call) => handler'[w].pc = where
           /\ \A return, current : CallHangup(w, return, current) =>
                 handler'[w].pc = "hangup_read" /\ handler'[w].return = return
           /\ \A outcome : HangupDone(w, outcome) =>
                 handler'[w].pc = handler[w].return /\ handler'[w].outcome = outcome
<1> USE DEF HandlersOK, HandlerType
<1>1. \A where : Step(w, where) =>
          /\ handler'[w].pc = where /\ handler'[w].return = handler[w].return
          /\ handler'[w].phys = handler[w].phys
  BY DEF Step
<1>2. Over(w) => handler'[w].pc = "done"
  BY DEF Over, Local
<1>3. \A where, call : Took(w, where, call) => handler'[w].pc = where
  BY DEF Took
<1>4. \A return, current : CallHangup(w, return, current) =>
          handler'[w].pc = "hangup_read" /\ handler'[w].return = return
  BY DEF CallHangup
<1>5. \A outcome : HangupDone(w, outcome) =>
          handler'[w].pc = handler[w].return /\ handler'[w].outcome = outcome
  BY DEF HangupDone
<1> QED BY <1>1, <1>2, <1>3, <1>4, <1>5

\* No line or event comes or goes, and the others wait.
Hushed(w) ==
    /\ UNCHANGED <<lines, taken, urc, atEvents, events, reader>>
    /\ \A v \in Handlers \ {w} : handler'[v] = handler[v]

\* w's step leaves the modem and its identifiers alone.
LEMMA Retold ==
    ASSUME DialStory, NEW w \in Handlers, Hushed(w), UNCHANGED <<net, at>>,
           adapter'.active = adapter.active, Gone => Gone',
           active' = NoCall \/ active'.state # "incoming_ringing",
           handler'[w].pc \in Dialling => handler[w].pc \in Dialling,
           PlaceOK(w)', FirstDial', Committed'
    PROVE  DialStory'
<1> USE DEF DialStory, Hushed
<1>1. LineCalm'
  BY DEF LineCalm, Handled
<1>2. ASSUME NEW v \in Handlers PROVE PlaceOK(v)'
  <2>1. CASE v # w
    BY <2>1 DEF PlaceOK
  <2> QED BY <2>1
<1>3. OneDialer'
  BY DEF OneDialer
<1> QED BY <1>1, <1>2, <1>3

\* A request under way is not the first thing that happens.
LEMMA FirstKept ==
    ASSUME FirstDial, NEW w \in Handlers, Hushed(w), handler[w].pc \notin {"new", "done"},
           \A k \in Keys : k.op = "dial" /\ requests[k] # NoResult => requests'[k] # NoResult,
           handler'[w].pc \in Dialling => handler[w].pc \in Dialling,
           \/ \A k \in Keys : k.op = "cellular_ready" => requests'[k] = requests[k]
           \/ \A v \in Handlers : handler'[v].pc \notin Dialling
    PROVE  Dialled /\ Dialled' /\ FirstDial'
<1>1. Dialled
  BY DEF FirstDial, At
<1>2. Dialled'
  BY <1>1 DEF Dialled
<1>3. (\E v \in Handlers : handler'[v].pc \in Dialling) => CellularUnmarked'
  BY DEF FirstDial, Hushed, CellularUnmarked
<1> QED BY <1>1, <1>2, <1>3 DEF FirstDial

LEMMA CommittedKept ==
    ASSUME Committed, NEW w \in Handlers, Hushed(w), net' = net, adapter'.active = adapter.active,
           Attends(w) => Attends(w)',
           \/ net # "up" \/ \E v \in Handlers : Attends(v)
           \/ active' # NoCall /\ handler'[w].pc # "hangup_modem"
    PROVE  Committed'
<1> SUFFICES ASSUME net' = "up", \A v \in Handlers : ~Attends(v)'
             PROVE  active' # NoCall /\ adapter'.active # None
                    /\ \A v \in Handlers : handler'[v].pc # "hangup_modem"
  BY DEF Committed, At
<1>1. \A v \in Handlers : ~Attends(v)
  BY DEF Attends, Hushed
<1>2. adapter.active # None /\ \A v \in Handlers : handler[v].pc # "hangup_modem"
  BY <1>1 DEF Committed, At
<1> QED BY <1>1, <1>2 DEF Hushed

\* A step that leaves the controller alone too.
LEMMA ControllerAlone ==
    ASSUME DialStory, NEW w \in Handlers, Hushed(w), UNCHANGED <<net, at, active, requests>>,
           adapter'.active = adapter.active, handler[w].pc \notin {"new", "done"},
           handler'[w].pc \in Dialling => handler[w].pc \in Dialling, PlaceOK(w)',
           Attends(w) => Attends(w)',
           handler'[w].pc = "hangup_modem" => adapter.active = None
    PROVE  DialStory'
<1>1. FirstDial'
  BY FirstKept DEF DialStory
<1>2. Committed'
  BY CommittedKept DEF DialStory, Committed
<1>3. Gone => Gone'
  BY DEF Gone
<1> QED BY <1>1, <1>2, <1>3, Retold DEF DialStory, LineCalm

\* A request that is refused changes nothing.
LEMMA RefusedTells ==
    ASSUME LineInv, DialStory, NEW w \in Handlers, Hushed(w), At(w, "new"), Over(w),
           UNCHANGED <<net, at, adapter, active, requests>>
    PROVE  DialStory'
<1>1. handler'[w].pc = "done"
  BY HandlerMoves DEF LineInv, ActorsOK
<1>2. PlaceOK(w)' /\ ~Attends(w) /\ handler'[w].pc \notin Dialling
  BY <1>1 DEF PlaceOK, Attends, At, Dialling, DialBefore, DialAfter, Reaching
<1>3. FirstDial'
  <2>1. (Dialled' <=> Dialled) /\ (CellularUnmarked' <=> CellularUnmarked)
    BY DEF Dialled, CellularUnmarked
  <2>2. (\A v \in Handlers : At(v, "new") \/ At(v, "done"))
          => \A v \in Handlers : (At(v, "new") \/ At(v, "done"))'
    BY <1>1 DEF At, Hushed
  <2>3. (\E v \in Handlers : handler'[v].pc \in Dialling)
          => \E v \in Handlers : handler[v].pc \in Dialling
    BY <1>2 DEF Hushed
  <2> QED BY <2>1, <2>2, <2>3 DEF DialStory, FirstDial
<1>4. Committed'
  BY <1>1, <1>2, CommittedKept DEF DialStory, Committed
<1>5. Gone => Gone'
  BY DEF Gone
<1> QED BY <1>2, <1>3, <1>4, <1>5, Retold DEF DialStory, LineCalm

-----------------------------------------------------------------------------
(* The steps of the dial.                                                  *)

LEMMA BindTells ==
    ASSUME LineInv, DialStory, NEW w \in Handlers, DialBind(w) \/ DialCheck(w)
    PROVE  DialStory'
<1> USE DEF LineInv, ActorsOK
<1>1. /\ Hushed(w) /\ UNCHANGED <<net, at, active, requests>>
      /\ adapter'.active = adapter.active
  <2>1. \A v \in Handlers \ {w} : handler'[v] = handler[v]
    BY OthersWait DEF Handle, DialHandler
  <2> QED BY <2>1 DEF DialBind, DialCheck, Hushed, controller, modem, serial, channels, AdapterOK
<1>2. handler[w].pc \in {"dial_bind", "dial_check"} /\ net = "idle" /\ at = None
  BY DEF DialBind, DialCheck, At, DialStory, PlaceOK, DialBefore
<1>3. handler'[w].pc \in {"dial_check", "dial_atd"}
  BY <1>2, HandlerMoves DEF DialBind, DialCheck
<1>4. PlaceOK(w)' /\ ~Attends(w)
  BY <1>1, <1>2, <1>3 DEF PlaceOK, Attends, Dialling, DialBefore, DialAfter, Reaching
<1> QED BY <1>1, <1>2, <1>3, <1>4, ControllerAlone DEF Dialling, DialBefore

\* Nobody else dials.
LEMMA SoleDialer ==
    ASSUME DialStory, NEW w \in Handlers, handler[w].pc \in Dialling
    PROVE  /\ \A v \in Handlers \ {w} : handler[v].pc \notin Dialling
           /\ handler[w].pc \notin {"new", "done"} /\ Dialled /\ CellularUnmarked
<1>1. handler[w].pc \notin {"new", "done"}
  BY DEF Dialling, DialBefore, DialAfter
<1> QED BY <1>1 DEF DialStory, OneDialer, FirstDial, At

\* ATD, and the two steps that note the identifier of the call.
LEMMA CallTells ==
    ASSUME LineInv, DialStory, Premise, NEW w \in Handlers,
           DialATD(w) \/ DialActive(w) \/ DialAdapter(w), Premise', MayBeUp'
    PROVE  DialStory'
<1> USE DEF LineInv, ActorsOK
<1>0. handler[w].pc \in {"dial_atd", "dial_active", "dial_adapter"} /\ PlaceOK(w)
  BY DEF DialATD, DialActive, DialAdapter, At, DialStory
<1>1. /\ \A v \in Handlers \ {w} : handler[v].pc \notin Dialling
      /\ handler[w].pc \notin {"new", "done"} /\ Dialled /\ CellularUnmarked
  BY <1>0, SoleDialer DEF Dialling, DialBefore, DialAfter
<1>2. Hushed(w) /\ UNCHANGED <<active, requests>>
  <2>1. \A v \in Handlers \ {w} : handler'[v] = handler[v]
    BY OthersWait DEF Handle, DialHandler
  <2> QED BY <2>1 DEF DialATD, DialActive, DialAdapter, Hushed, controller, modem, serial, channels
<1>3. /\ handler'[w].pc \in DialAfter /\ PlaceOK(w)'
      /\ adapter'.active \in {None, at'}
      /\ \/ at' = at /\ adapter' = adapter
         \/ adapter.active = None /\ adapter' = adapter
         \/ adapter.active = None /\ adapter'.active # None /\ at' = at
  <2>1. CASE DialATD(w)
    <3>1. net = "idle" /\ at = None
      BY <1>0, <2>1 DEF PlaceOK, DialATD, At, DialBefore
    <3>2. at' = at /\ adapter' = adapter
      BY <2>1 DEF DialATD
    <3>3. net' = "up" /\ handler'[w].pc = "dial_active"
      <4>1. CASE net' = "up" /\ Step(w, "dial_active")
        BY <4>1, HandlerMoves
      <4>2. CASE net' = net /\ Step(w, "dial_failed")
        <5>1. handler'[w].pc = "dial_failed"
          BY <4>2, HandlerMoves
        <5>2. \A v \in Handlers : handler'[v].pc \notin DialBefore
          BY <1>1, <1>2, <5>1 DEF Hushed, Dialling, DialBefore
        <5>3. Dialled'
          BY <1>1, <1>2 DEF Dialled
        <5> QED BY <3>1, <4>2, <5>2, <5>3 DEF MayBeUp
      <4>3. ~CutOff(w)
        BY DEF CutOff, Premise
      <4> QED BY <2>1, <4>1, <4>2, <4>3 DEF DialATD
    <3>4. PlaceOK(w)' /\ handler'[w].pc \in DialAfter
      BY <3>1, <3>2, <3>3 DEF PlaceOK, Dialling, DialBefore, DialAfter, Reaching
    <3> QED BY <3>2, <3>4 DEF DialStory, LineCalm
  <2>2. CASE DialActive(w)
    <3>1. at = None /\ adapter.active = None
      BY <1>0, <2>2 DEF PlaceOK, DialActive, At, DialStory, LineCalm
    <3>2. PICK p \in fresh :
              at' = p /\ handler' = [handler EXCEPT ![w].pc = "dial_adapter", ![w].phys = p]
      BY <2>2 DEF DialActive
    <3>3. p # None /\ adapter' = adapter
      BY <2>2, NoneIsNoId DEF ModemOK, DialActive
    <3>4. handler'[w].pc = "dial_adapter" /\ handler'[w].phys = p
      BY <3>2 DEF HandlersOK, HandlerType
    <3>5. PlaceOK(w)' /\ handler'[w].pc \in DialAfter
      BY <3>1, <3>2, <3>3, <3>4 DEF PlaceOK, Dialling, DialBefore, DialAfter, Reaching
    <3> QED BY <3>1, <3>3, <3>5
  <2>3. CASE DialAdapter(w)
    <3>1. at = handler[w].phys /\ at # None /\ adapter.active = None
      BY <1>0, <2>3 DEF PlaceOK, DialAdapter, At
    <3>2. at' = at /\ adapter'.active = at /\ handler'[w].pc = "dial_cellular"
      BY <2>3, <3>1, HandlerMoves DEF DialAdapter, AdapterOK, modem
    <3>3. PlaceOK(w)' /\ handler'[w].pc \in DialAfter
      BY <3>1, <3>2 DEF PlaceOK, Dialling, DialBefore, DialAfter, Reaching
    <3> QED BY <3>1, <3>2, <3>3
  <2> QED BY <2>1, <2>2, <2>3
<1>4. ASSUME NEW v \in Handlers PROVE PlaceOK(v)'
  <2>1. CASE v # w
    <3>1. PlaceOK(v) /\ handler'[v] = handler[v] /\ handler[v].pc \notin Dialling
      BY <1>1, <1>2, <2>1 DEF DialStory, Hushed
    <3>2. Gone => Gone'
      BY <1>2 DEF Gone
    <3> QED BY <1>3, <3>1, <3>2 DEF PlaceOK, Dialling, DialBefore, DialAfter
  <2> QED BY <1>3, <2>1
<1>5. LineCalm'
  BY <1>2, <1>3 DEF DialStory, LineCalm, Handled, Hushed
<1>6. OneDialer'
  BY <1>1, <1>2 DEF OneDialer, Hushed
<1>7. FirstDial'
  BY <1>0, <1>1, <1>2, FirstKept DEF DialStory, Dialling, DialBefore, DialAfter
<1>8. Committed'
  BY <1>3 DEF Committed, Attends
<1> QED BY <1>4, <1>5, <1>6, <1>7, <1>8 DEF DialStory

\* Whether the call is still on the line decides what the dial does.
LEMMA MarkTells ==
    ASSUME LineInv, DialStory, NEW w \in Handlers, DialCellular(w)
    PROVE  DialStory'
<1> USE DEF LineInv, ActorsOK
<1> DEFINE c == handler[w].current.id
           key == [op |-> "cellular_ready", call |-> c, tag |-> NoReason]
           marked == Joined([active EXCEPT !.cellularReady = TRUE])
<1>0. handler[w].pc = "dial_cellular" /\ adapter.active # None
  BY DEF DialCellular, At, DialStory, PlaceOK
<1>1. /\ \A v \in Handlers \ {w} : handler[v].pc \notin Dialling
      /\ handler[w].pc \notin {"new", "done"} /\ Dialled /\ CellularUnmarked
  BY <1>0, SoleDialer DEF Dialling, DialAfter
<1>2. Hushed(w) /\ UNCHANGED <<net, at, adapter>>
  <2>1. \A v \in Handlers \ {w} : handler'[v] = handler[v]
    BY OthersWait DEF Handle, DialHandler
  <2> QED BY <2>1 DEF DialCellular, Hushed, modem, serial, channels
<1>3. key \in Keys /\ requests[key] = NoResult
  <2>1. c \in CallIds
    BY WorkingHandler DEF DialCellular, At, Outside, Hanging, HandlerPCs
  <2>2. key \in Keys
    BY <2>1 DEF Keys
  <2> QED BY <1>1, <2>2 DEF CellularUnmarked
<1>4. CASE UNCHANGED <<active, requests>> /\ CallHangup(w, "dial_release", NoCall)
  <2>1. handler'[w].pc = "hangup_read" /\ handler'[w].return = "dial_release"
    BY <1>4, HandlerMoves
  <2>2. PlaceOK(w)' /\ Attends(w)' /\ handler'[w].pc \notin Dialling
    BY <1>0, <1>2, <2>1 DEF PlaceOK, Attends, Dialling, DialBefore, DialAfter, Reaching
  <2> QED BY <1>1, <1>2, <1>4, <2>1, <2>2, ControllerAlone
<1>5. CASE /\ active # NoCall /\ active.state \in {"outgoing_dialing", "connecting"}
           /\ active' = marked /\ Took(w, "persist", marked)
           /\ \A k \in Keys : k.op = "dial" => requests'[k] = requests[k]
  <2>1. handler'[w].pc = "persist"
    BY <1>5, HandlerMoves
  <2>2. active' \in Call /\ active'.state \in {"connecting", "active"}
    BY <1>5 DEF Joined, IInv, TypeOK, Call, States, LiveStates
  <2>3. active' # NoCall
    BY <2>2, ConstantsOK
  <2>4. ~Gone
    BY <1>5 DEF Gone
  <2>5. \A v \in Handlers : handler[v].pc # "hangup_modem"
    BY <2>4 DEF DialStory, PlaceOK
  <2>6. \A v \in Handlers : handler'[v].pc \notin Dialling
    BY <1>1, <1>2, <2>1 DEF Hushed, Dialling, DialBefore, DialAfter
  <2>7. Committed'
    BY <1>0, <1>2, <2>1, <2>3, <2>5 DEF Committed, Hushed, At
  <2>8. FirstDial'
    BY <1>1, <1>2, <1>5, <2>6, FirstKept DEF DialStory
  <2>9. PlaceOK(w)'
    BY <2>1 DEF PlaceOK, Dialling, DialBefore, DialAfter, Reaching
  <2> QED BY <1>2, <2>2, <2>4, <2>6, <2>7, <2>8, <2>9, Retold
<1> QED
  <2>1. \/ UNCHANGED <<active, requests>> /\ ~Succeeded
        \/ /\ active # NoCall /\ active.state \in {"outgoing_dialing", "connecting"}
           /\ active' = marked /\ Succeeded /\ reply'.call = marked
           /\ requests' = [requests EXCEPT ![key] = [call |-> marked, previous |-> active]]
    <3> HIDE DEF marked
    <3>1. Mutate(key, {"outgoing_dialing", "connecting"}, marked)
      BY DEF DialCellular, MarkCellularReady, marked
    <3> QED BY <1>3, <3>1 DEF Mutate, Return, Succeeded, Holds
  <2>2. (\A k \in Keys : k # key => requests'[k] = requests[k]) =>
            \A k \in Keys : k.op = "dial" => requests'[k] = requests[k]
    BY DEF key
  <2>3. requests' = [requests EXCEPT ![key] = [call |-> marked, previous |-> active]] =>
            \A k \in Keys : k # key => requests'[k] = requests[k]
    BY DEF IInv, TypeOK
  <2>4. IF Succeeded THEN Took(w, "persist", reply'.call) ELSE CallHangup(w, "dial_release", NoCall)
    BY DEF DialCellular
  <2> QED BY <1>4, <1>5, <2>1, <2>2, <2>3, <2>4

-----------------------------------------------------------------------------
(* The requests beside it.                                                 *)

\* The first dial finds everything at rest; a second one breaks the premise.
LEMMA DialStartTells ==
    ASSUME LineInv, KeysUnused, DialStory, NEW w \in Handlers, NEW d \in DialIds, DialStart(w, d),
           OneDial'
    PROVE  DialStory'
<1> USE DEF LineInv, ActorsOK
<1>1. Hushed(w) /\ UNCHANGED <<net, at, adapter>> /\ At(w, "new")
  <2>1. \A v \in Handlers \ {w} : handler'[v] = handler[v]
    BY OthersWait DEF Handle, DialHandler
  <2> QED BY <2>1 DEF DialStart, Hushed, modem, serial, channels
<1>2. CASE ~Succeeded
  <2>1. Over(w) /\ UNCHANGED <<active, requests>>
    BY <1>2 DEF DialStart, Dial, Return, Succeeded
  <2> QED BY <1>1, <2>1, RefusedTells
<1>3. CASE Succeeded
  <2> DEFINE key == DialKey(d, w)
             new == NewCall(d, "outbound", "outgoing_dialing")
  <2>1. /\ key \in Keys /\ key.op = "dial" /\ requests[key] = NoResult /\ requests'[key] # NoResult
        /\ requests' = [requests EXCEPT ![key] = [call |-> new, previous |-> NoCall]]
        /\ active' = new
    BY <1>3, DialStarts
  <2>2. \A k \in Keys : k # key => requests'[k] = requests[k]
    BY <2>1 DEF IInv, TypeOK
  <2> HIDE DEF key
  <2>3. ~Dialled
    BY <2>1, <2>2 DEF Dialled, OneDial
  <2>4. /\ net = "idle" /\ at = None /\ CellularUnmarked
        /\ \A v \in Handlers : At(v, "new") \/ At(v, "done")
    BY <2>3 DEF DialStory, FirstDial
  <2>5. handler'[w].pc = "dial_bind"
    <3>1. Took(w, "dial_bind", reply'.call)
      BY <1>3 DEF DialStart
    <3> QED BY <3>1, HandlerMoves
  <2>6. \A v \in Handlers \ {w} : handler'[v].pc \in {"new", "done"}
    BY <1>1, <2>4 DEF Hushed, At
  <2>7. \A v \in Handlers : PlaceOK(v)'
    BY <1>1, <2>4, <2>5, <2>6 DEF PlaceOK, Dialling, DialBefore, DialAfter, Reaching
  <2>8. OneDialer'
    BY <2>5, <2>6 DEF OneDialer, Dialling, DialBefore, DialAfter
  <2>9. LineCalm'
    BY <1>1, <2>1 DEF DialStory, LineCalm, Handled, Hushed, NewCall
  <2>10. FirstDial'
    <3>1. Dialled'
      BY <2>1 DEF Dialled
    <3>2. CellularUnmarked'
      BY <2>1, <2>2, <2>4 DEF CellularUnmarked
    <3> QED BY <3>1, <3>2 DEF FirstDial
  <2>11. Committed'
    BY <1>1, <2>4 DEF Committed
  <2> QED BY <2>7, <2>8, <2>9, <2>10, <2>11 DEF DialStory
<1> QED BY <1>2, <1>3

\* Nothing rings, so nobody can answer.
LEMMA AnswerTells ==
    ASSUME LineInv, KeysUnused, DialStory, NEW w \in Handlers, NEW c \in CallIds, AnswerStart(w, c)
    PROVE  DialStory'
<1> USE DEF LineInv, ActorsOK
<1>1. Hushed(w) /\ UNCHANGED <<net, at, adapter>> /\ At(w, "new")
  <2>1. \A v \in Handlers \ {w} : handler'[v] = handler[v]
    BY OthersWait DEF Handle, ActionHandler
  <2> QED BY <2>1 DEF AnswerStart, Hushed, modem, serial, channels
<1>2. requests[AnswerKey(c, w)] = NoResult
  <2>1. AnswerKey(c, w) \in Keys
    BY LineConstants, KeysOfMethods
  <2> QED BY <1>1, <2>1 DEF KeysUnused, AnswerKey
<1>3. ~Succeeded /\ UNCHANGED <<active, requests>>
  <2> DEFINE answered == [active EXCEPT !.answered = TRUE, !.state = "connecting"]
  <2>1. Mutate(AnswerKey(c, w), {"incoming_ringing"}, answered)
    BY DEF AnswerStart, Answer
  <2> HIDE DEF answered
  <2> QED BY <1>2, <2>1 DEF Mutate, Return, Succeeded, Holds, DialStory, LineCalm
<1>4. Over(w)
  BY <1>3 DEF AnswerStart
<1> QED BY <1>1, <1>3, <1>4, RefusedTells

LEMMA HangupStartTells ==
    ASSUME LineInv, KeysUnused, DialStory, NEW w \in Handlers, NEW c \in CallIds, HangupStart(w, c)
    PROVE  DialStory'
<1> USE DEF LineInv, ActorsOK
<1> DEFINE key == HangupKey(c, w)
           ending == Ending(active, ClientHangup)
<1>1. Hushed(w) /\ UNCHANGED <<net, at, adapter>> /\ At(w, "new")
  <2>1. \A v \in Handlers \ {w} : handler'[v] = handler[v]
    BY OthersWait DEF Handle, ActionHandler
  <2> QED BY <2>1 DEF HangupStart, Hushed, modem, serial, channels
<1>2. key \in Keys /\ key.op = "hangup" /\ requests[key] = NoResult
  <2>1. key \in Keys
    BY LineConstants, KeysOfMethods
  <2> QED BY <1>1, <2>1 DEF KeysUnused, HangupKey
<1> HIDE DEF key
<1>3. \/ ~Succeeded /\ UNCHANGED <<active, requests>>
      \/ /\ Succeeded /\ active # NoCall /\ active' = ending
         /\ requests' = [requests EXCEPT ![key] = [call |-> ending, previous |-> active]]
  <2>1. Mutate(key, States, ending)
    BY DEF HangupStart, Hangup, key
  <2> HIDE DEF ending
  <2> QED BY <1>2, <2>1 DEF Mutate, Return, Succeeded, Holds
<1>4. CASE ~Succeeded
  <2>1. Over(w) /\ UNCHANGED <<active, requests>>
    BY <1>3, <1>4 DEF HangupStart
  <2> QED BY <1>1, <2>1, RefusedTells
<1>5. CASE Succeeded
  <2>1. \A k \in Keys : k # key => requests'[k] = requests[k]
    BY <1>3, <1>5 DEF IInv, TypeOK
  <2>2. active # NoCall /\ active' \in Call /\ active'.state = "ending"
    <3>1. active \in Call
      BY <1>3, <1>5 DEF IInv, TypeOK
    <3>2. ClientHangup \in HangupReasons
      BY LineConstants
    <3> QED BY <1>3, <1>5, <3>1, <3>2 DEF Ending, Call, States, LiveStates, Reasons
  <2>3. active' # NoCall
    BY <2>2, ConstantsOK
  <2>4. handler'[w].pc = "hangup_read" /\ handler'[w].return = "hangup_modem"
    <3>1. CallHangup(w, "hangup_modem", reply'.call)
      BY <1>5 DEF HangupStart
    <3> QED BY <3>1, HandlerMoves
  <2>5. Gone' /\ PlaceOK(w)' /\ handler'[w].pc \notin Dialling /\ ~Attends(w)
    BY <1>1, <2>2, <2>4 DEF Gone, PlaceOK, Attends, At, Dialling, DialBefore, DialAfter, Reaching
  <2>6. FirstDial'
    <3>1. Dialled
      BY <2>2 DEF DialStory, FirstDial
    <3>2. Dialled' /\ (CellularUnmarked => CellularUnmarked')
      BY <1>2, <2>1, <3>1 DEF Dialled, CellularUnmarked
    <3>3. (\E v \in Handlers : handler'[v].pc \in Dialling)
            => \E v \in Handlers : handler[v].pc \in Dialling
      BY <1>1, <2>5 DEF Hushed
    <3> QED BY <3>2, <3>3 DEF DialStory, FirstDial
  <2>7. Committed'
    BY <1>1, <2>3, <2>4, <2>5, CommittedKept DEF DialStory
  <2> QED BY <1>1, <2>2, <2>5, <2>6, <2>7, Retold
<1> QED BY <1>4, <1>5

\* A hangup that found no identifier, while the dial is on its way, leaves it to the dial.
LEMMA HangupModemTells ==
    ASSUME LineInv, DialStory, NEW w \in Handlers, HangupModem(w)
    PROVE  DialStory'
<1> USE DEF LineInv, ActorsOK
<1>1. Hushed(w) /\ UNCHANGED <<net, at, adapter>> /\ handler[w].pc = "hangup_modem"
  <2>1. \A v \in Handlers \ {w} : handler'[v] = handler[v]
    BY OthersWait DEF Handle, ActionHandler
  <2> QED BY <2>1 DEF HangupModem, Hushed, modem, serial, channels, At
<1>2. Gone /\ handler[w].outcome # "error"
  BY <1>1 DEF DialStory, PlaceOK
<1>3. requests' = requests /\ (active' = active \/ active' = NoCall)
  BY <1>2 DEF HangupModem, Finish
<1>4. handler'[w].pc \in {"persist", "done"}
  BY <1>2, HandlerMoves DEF HangupModem
<1>5. Gone'
  BY <1>2, <1>3 DEF Gone
<1>6. PlaceOK(w)' /\ handler'[w].pc \notin Dialling /\ ~Attends(w)
  BY <1>1, <1>4 DEF PlaceOK, Attends, Dialling, DialBefore, DialAfter, Reaching
<1>7. FirstDial'
  BY <1>1, <1>3, <1>6, FirstKept DEF DialStory
<1>8. Committed'
  <2>1. net # "up" \/ \E v \in Handlers : Attends(v)
    BY <1>1 DEF DialStory, Committed, At
  <2> QED BY <1>1, <1>6, <2>1, CommittedKept DEF DialStory
<1> QED BY <1>1, <1>3, <1>5, <1>6, <1>7, <1>8, Retold DEF DialStory, LineCalm

\* The modem's Hangup ends the cellular call, if there is one.
LEMMA ModemHangupTells ==
    ASSUME LineInv, DialStory, Premise, NEW w \in Handlers, ModemHangup(w),
           Premise', MayBeUp'
    PROVE  DialStory'
<1> USE DEF LineInv, ActorsOK
<1>0. handler[w].pc \in Reaching /\ PlaceOK(w)
  <2>1. handler[w].pc \in Hanging
    BY DEF ModemHangup, HangupRead, HangupValidate, HangupATH, FinishActive, HangupForget, At,
           Hanging
  <2> QED BY <2>1 DEF DialStory, PlaceOK, Hanging, Reaching, Dialling, DialBefore, DialAfter
<1>1. \A v \in Handlers \ {w} : handler'[v] = handler[v]
  BY OthersWait DEF Handle
<1>2. handler[w].pc \notin {"new", "done"} /\ handler[w].pc \notin Dialling
  BY <1>0 DEF Reaching, Dialling, DialBefore, DialAfter
<1>3. CASE HangupRead(w)
  <2>1. Hushed(w) /\ UNCHANGED <<net, at, adapter, active, requests>>
        /\ handler[w].pc = "hangup_read"
    BY <1>1, <1>3 DEF HangupRead, Hushed, controller, modem, serial, channels, At
  <2>2. CASE adapter.active = None
    <3>1. handler[w].return = "hangup_modem" /\ Gone
      BY <1>0, <2>2 DEF PlaceOK
    <3>2. handler'[w].pc = "hangup_modem" /\ handler'[w].outcome = "no_call"
      BY <1>3, <2>2, <3>1, HandlerMoves DEF HangupRead
    <3>3. PlaceOK(w)' /\ ~Attends(w) /\ handler'[w].pc \notin Dialling
      BY <2>1, <3>1, <3>2
         DEF PlaceOK, Attends, Gone, Dialling, DialBefore, DialAfter, Reaching
    <3> QED BY <1>2, <2>1, <2>2, <3>3, ControllerAlone
  <2>3. CASE adapter.active # None
    <3>1. /\ handler'[w].pc = "hangup_validate" /\ handler'[w].phys = adapter.active
          /\ handler'[w].return = handler[w].return
      BY <1>3, <2>3 DEF HangupRead, HandlersOK, HandlerType
    <3>2. PlaceOK(w)' /\ (Attends(w) => Attends(w)') /\ handler'[w].pc \notin Dialling
      BY <1>0, <2>1, <2>3, <3>1
         DEF PlaceOK, Attends, Gone, Dialling, DialBefore, DialAfter, Reaching
    <3> QED BY <1>2, <2>1, <3>1, <3>2, ControllerAlone
  <2> QED BY <2>2, <2>3
<1>4. CASE HangupValidate(w)
  <2>1. Hushed(w) /\ UNCHANGED <<net, at, adapter, active, requests>>
        /\ handler[w].pc = "hangup_validate"
    BY <1>1, <1>4 DEF HangupValidate, Hushed, controller, modem, serial, channels, At
  <2>2. at = handler[w].phys /\ adapter.active # None /\ handler[w].phys = adapter.active
    BY <1>0, <2>1 DEF PlaceOK, DialStory, LineCalm
  <2>3. /\ handler'[w].pc = "hangup_ath" /\ handler'[w].return = handler[w].return
        /\ handler'[w].phys = handler[w].phys
    BY <1>4, <2>2, HandlerMoves DEF HangupValidate
  <2>4. PlaceOK(w)' /\ (Attends(w) => Attends(w)') /\ handler'[w].pc \notin Dialling
    BY <1>0, <2>1, <2>2, <2>3 DEF PlaceOK, Attends, Gone, Dialling, DialBefore, DialAfter, Reaching
  <2> QED BY <1>2, <2>1, <2>3, <2>4, ControllerAlone
<1>5. CASE HangupATH(w)
  <2>0. ~CutOff(w)
    BY DEF CutOff, Premise
  <2>1. net' = "idle" /\ requests' = requests
    BY <1>5 DEF HangupATH, Premise, controller
  <2>2. handler'[w].pc = "hangup_finish"
    BY <1>5, <2>0, HandlerMoves DEF HangupATH, Premise
  <2>3. at # None
    BY <1>0, <1>5 DEF HangupATH, At, PlaceOK, DialStory, LineCalm
  <2>4. \A v \in Handlers : handler'[v].pc \notin DialBefore
    BY <1>1, <2>2, <2>3 DEF DialStory, PlaceOK, DialBefore
  <2>5. Dialled'
    BY <1>2, <2>1 DEF DialStory, FirstDial, At, Dialled
  <2> QED BY <2>1, <2>4, <2>5 DEF MayBeUp
<1>6. CASE FinishActive(w) \/ HangupForget(w)
  BY <1>0, <1>6 DEF FinishActive, HangupForget, At, Reaching
<1> QED BY <1>3, <1>4, <1>5, <1>6 DEF ModemHangup

-----------------------------------------------------------------------------
(* The other actors have nothing to do until the call is over.             *)

LEMMA HandleTells ==
    ASSUME LineInv, KeysUnused, DialStory, Premise, NEW w \in Handlers, Handle(w),
           Premise', MayBeUp'
    PROVE  DialStory'
<1>0. PlaceOK(w)
  BY DEF DialStory
<1>1. CASE ModemHangup(w)
  BY <1>1, ModemHangupTells
<1>2. CASE PersistCall(w)
  <2>1. Hushed(w) /\ UNCHANGED <<net, at, adapter, active, requests>> /\ handler[w].pc = "persist"
    <3>1. \A v \in Handlers \ {w} : handler'[v] = handler[v]
      BY OthersWait DEF LineInv, ActorsOK
    <3> QED BY <1>2, <3>1 DEF PersistCall, Hushed, controller, modem, serial, channels, At
  <2>2. handler'[w].pc = "done"
    BY <1>2, HandlerMoves DEF PersistCall, LineInv, ActorsOK
  <2>3. PlaceOK(w)' /\ ~Attends(w) /\ handler'[w].pc \notin Dialling
    BY <2>1, <2>2 DEF PlaceOK, Attends, Dialling, DialBefore, DialAfter, Reaching
  <2> QED BY <2>1, <2>2, <2>3, ControllerAlone
<1>3. CASE DialHandler(w)
  <2>1. ASSUME NEW d \in DialIds, DialStart(w, d) PROVE DialStory'
    BY <2>1, DialStartTells DEF Premise
  <2>2. CASE DialBind(w) \/ DialCheck(w)
    BY <2>2, BindTells
  <2>3. CASE DialATD(w) \/ DialActive(w) \/ DialAdapter(w)
    BY <2>3, CallTells
  <2>4. CASE DialCellular(w)
    BY <2>4, MarkTells
  <2>5. CASE DialRelease(w) \/ DialFail(w) \/ DialFinish(w)
    BY <1>0, <2>5 DEF DialRelease, DialFail, DialFinish, At, PlaceOK, Dialling, DialBefore,
                      DialAfter, Reaching
  <2> QED BY <1>3, <2>1, <2>2, <2>3, <2>4, <2>5 DEF DialHandler
<1>4. CASE ActionHandler(w)
  <2>1. ASSUME NEW c \in CallIds, AnswerStart(w, c) \/ HangupStart(w, c) PROVE DialStory'
    BY <2>1, AnswerTells, HangupStartTells
  <2>2. CASE HangupModem(w)
    BY <2>2, HangupModemTells
  <2>3. CASE AnswerRead(w) \/ AnswerValidate(w) \/ AnswerATA(w) \/ AnswerCellular(w)
               \/ AnswerRollback(w)
    BY <1>0, <2>3 DEF AnswerRead, AnswerValidate, AnswerATA, AnswerCellular, AnswerRollback, At,
                      PlaceOK, Dialling, DialBefore, DialAfter, Reaching
  <2> QED BY <1>4, <2>1, <2>2, <2>3 DEF ActionHandler
<1> QED BY <1>1, <1>2, <1>3, <1>4 DEF Handle

\* Nothing is queued, and when the network ends the call it is over.
LEMMA ElsewhereTells ==
    ASSUME LineInv, DialStory, RemoteEnd \/ Serial \/ Forward \/ Reader, MayBeUp'
    PROVE  FALSE
<1>1. LineCalm
  BY DEF DialStory
<1>2. ~Serial
  <2>1. \A t \in Takers : taken[t] = <<>> /\ urc[t].line = None
    BY <1>1 DEF LineCalm, Handled, NoUrc
  <2>2. ASSUME NEW t \in Takers PROVE ~UrcRead(t) /\ ~UrcRing(t) /\ ~UrcEnd(t)
    BY <2>1, NoneIsNoId DEF UrcRead, UrcRing, UrcEnd, UrcLines
  <2>3. 1 .. Len(lines) = {}
    BY <1>1, EmptySeq DEF LineCalm
  <2> QED BY <2>2, <2>3 DEF Serial
<1>3. ~Forward
  BY <1>1 DEF LineCalm, Forward
<1>4. ~Reader
  BY <1>1 DEF LineCalm, Reader, ReadIncoming, PersistIncoming, ReadEnded, PersistEnding,
              FinishEnded, PersistEnded
<1>5. ~RemoteEnd
  <2> SUFFICES ASSUME RemoteEnd PROVE FALSE
    OBVIOUS
  <2>1. net # "idle" /\ net' = "idle" /\ handler' = handler /\ requests' = requests
    BY DEF RemoteEnd, controller
  <2>2. Dialled
    BY <2>1 DEF DialStory, FirstDial
  <2>3. Dialled' /\ \A v \in Handlers : handler'[v].pc \notin DialBefore
    BY <2>1, <2>2 DEF Dialled, DialStory, PlaceOK
  <2> QED BY <2>1, <2>3 DEF MayBeUp
<1> QED BY <1>2, <1>3, <1>4, <1>5

LEMMA DialInvKept ==
    ASSUME LineInv, DialInv, [LineNext]_lineVars
    PROVE  DialInv'
<1>1. CASE UNCHANGED lineVars
  BY <1>1 DEF lineVars, controller, modem, serial, channels, DialInv, KeysUnused, At, Premise,
              OneDial, MayBeUp, Dialled, DialStory, LineCalm, Handled, PlaceOK, Gone, OneDialer,
              FirstDial, CellularUnmarked, Committed, Attends
<1>2. CASE LineNext
  <2>1. KeysUnused'
    BY <1>2, RequestsKept DEF DialInv
  <2>2. rings' = 0 => net' # "ringing"
    <3>1. CASE Ring
      <4>1. rings \in Nat /\ rings' = rings + 1
        BY <3>1, Lengths DEF Ring
      <4>2. rings' # 0
        BY <4>1
      <4> QED BY <4>2
    <3>2. CASE ~Ring
      <4>1. rings' = rings /\ (net' = "ringing" => net = "ringing")
        <5>1. ASSUME NEW w \in Handlers, Handle(w) PROVE rings' = rings /\ net' \in {net, "idle", "up"}
          BY <5>1 DEF Handle, ModemHangup, HangupRead, HangupValidate, HangupATH, FinishActive,
                      HangupForget, DialHandler, DialStart, DialBind, DialCheck, DialATD,
                      DialActive, DialAdapter, DialCellular, DialRelease, DialFail, DialFinish,
                      ActionHandler, AnswerStart, AnswerRead, AnswerValidate, AnswerATA,
                      AnswerCellular, AnswerRollback, HangupStart, HangupModem, PersistCall, modem
        <5>2. CASE RemoteEnd \/ Serial \/ Forward \/ Reader
          BY <5>2, SerialFrame
             DEF RemoteEnd, Forward, Reader, ReadIncoming, PersistIncoming, ReadEnded,
                 PersistEnding, FinishEnded, PersistEnded, modem
        <5> QED BY <1>2, <3>2, <5>1, <5>2 DEF LineNext, Gateway
      <4> QED BY <4>1 DEF DialInv
    <3> QED BY <3>1, <3>2
  <2>3. ASSUME Premise', MayBeUp' PROVE DialStory'
    <3>1. Premise /\ MayBeUp /\ ~Ring
      BY <1>2, <2>3, MayBeUpBefore
    <3>2. KeysUnused /\ DialStory
      BY <3>1 DEF DialInv
    <3> QED BY <1>2, <2>3, <3>1, <3>2, HandleTells, ElsewhereTells DEF LineNext, Gateway
  <2> QED BY <2>1, <2>2, <2>3 DEF DialInv
<1> QED BY <1>1, <1>2

\* However many hangups meet the one dial, and whenever the network ends the call, the
\* modem is not left up behind an idle controller (dial, callAction, ActiveCallAdapter).
THEOREM NothingHidden == LineSpec => []NoHiddenCall
<1>1. LineInit => DialInv
  <2> SUFFICES ASSUME LineInit PROVE DialInv
    OBVIOUS
  <2>1. /\ \A k \in Keys : requests[k] = NoResult
        /\ active = NoCall /\ net = "idle" /\ at = None
        /\ \A w \in Handlers : handler[w].pc = "new"
    BY DEF LineInit, Init, Local
  <2>2. KeysUnused /\ ~Dialled /\ CellularUnmarked
    BY <2>1 DEF KeysUnused, Dialled, CellularUnmarked
  <2>3. LineCalm
    BY <2>1 DEF LineInit, LineCalm, Handled, Idle
  <2>4. (\A w \in Handlers : PlaceOK(w)) /\ OneDialer
    BY <2>1 DEF PlaceOK, OneDialer, Dialling, DialBefore, DialAfter, Reaching
  <2>5. FirstDial /\ Committed
    BY <2>1, <2>2 DEF FirstDial, Committed, Dialling, DialBefore, DialAfter, At
  <2> QED BY <2>1, <2>2, <2>3, <2>4, <2>5 DEF DialInv, DialStory
<1>2. DialInv => NoHiddenCall
  <2> SUFFICES ASSUME DialInv, Premise, Quiet, net = "up" PROVE active # NoCall
    BY DEF NoHiddenCall, Premise
  <2>1. Committed
    BY DEF DialInv, MayBeUp, DialStory
  <2>2. \A w \in Handlers : ~Attends(w)
    BY DEF Quiet, At, Attends, DialAfter, Reaching
  <2> QED BY <2>1, <2>2 DEF Committed
<1>3. LineInv /\ DialInv /\ [LineNext]_lineVars => DialInv'
  BY DialInvKept
<1> QED BY <1>1, <1>2, <1>3, LineInvariance, PTL DEF LineSpec
=============================================================================
