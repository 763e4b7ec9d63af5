------------------------------ MODULE SmsInbox ------------------------------
(***************************************************************************)
(* The inbound SMS pipeline: Engine.Run and Engine.Ingest of               *)
(* gateway/internal/sms/engine.go, the MultipartAssembler of multipart.go, *)
(* the tables sms_segments and messages of gateway/internal/db, and the    *)
(* SIM storage of the modem.  One goroutine runs the engine; a step here   *)
(* is one database statement or one modem exchange of it, so that a crash  *)
(* or a failure falls between any two.                                     *)
(*                                                                         *)
(* A PDU is one part of one sent message, and stands for its own hash.     *)
(* Bodies, encodings and identifiers are abstracted: a row of `messages`   *)
(* is the set of PDUs whose bodies it concatenates, filed under the        *)
(* pdu_hash that its unique index covers.                                  *)
(***************************************************************************)
EXTENDS Naturals, FiniteSets

CONSTANTS
    Messages,       \* messages sent to the SIM
    Total,          \* Total[m] is the number of parts of m
    ConcatKey,      \* ConcatKey[m] is (sender, concat_ref) of the parts of m, 0 for no reference
    Unreadable,     \* messages whose PDUs ListSMS or DecodePDU cannot parse
    Slots,          \* storage indexes of the modem; DeleteSMS is never asked for index 0
    Retention,      \* MultipartRetention, in ticks of `clock`
    MaxClock,       \* bound: the time a behaviour spans
    MaxCopies,      \* bound: how often the network delivers one PDU
    MaxFaults,      \* bound: failures and crashes in a behaviour
    FaultPoints,    \* where failures are explored
    NoPdu, NoRow, Unlinked

AllFaultPoints ==
    {"prune", "list", "store", "assemble", "insert", "link", "delete", "crash"}

ASSUME InboxConstants ==
    /\ Total \in [Messages -> Nat \ {0}]
    /\ DOMAIN ConcatKey = Messages /\ Unreadable \subseteq Messages
    /\ Slots \subseteq Nat
    /\ {Retention, MaxClock, MaxCopies, MaxFaults} \subseteq Nat
    /\ FaultPoints \subseteq AllFaultPoints

PartsOf(m) == [msg : {m}, part : 1 .. Total[m]]
Pdus == UNION {PartsOf(m) : m \in Messages}
KeyOf(p) == <<ConcatKey[p.msg], Total[p.msg]>>

ASSUME NullsAreNew == NoPdu \notin Pdus /\ Unlinked \notin Pdus

VARIABLES
    inbox,          \* slot -> the PDU the modem stores there
    copies,         \* PDU -> how often the network delivered it
    segment,        \* table sms_segments: PDU -> its row [at, link], or NoRow
    message,        \* table messages: pdu_hash -> the PDUs in the row's body, {} for no row
    pending,        \* MultipartAssembler.pending: the segments [pdu, at] it holds
    pc,             \* where the engine goroutine is
    todo,           \* slots of the current listing that the poll still has to visit
    slot, raw,      \* the entry Ingest works on
    completed,      \* the segments of the message that Ingest writes
    notified,       \* rows announced through onMessage
    met,            \* history: long messages of which a part came while another had their key
    clock, faults

store == <<segment, message>>
engine == <<pc, todo, slot, raw, completed>>
vars == <<inbox, copies, segment, message, pending, pc, todo, slot, raw, completed,
          notified, met, clock, faults>>

Times == 0 .. MaxClock
SegmentRow == [at : Times, link : Pdus \union {Unlinked}]
ASSUME RowsAreNotNull == NoRow \notin SegmentRow

PCs == {"idle", "list", "next", "store", "assemble", "insert", "link", "delete"}

-----------------------------------------------------------------------------
(* Helpers.                                                                *)

Succeeds == UNCHANGED faults
Fails(point) ==
    /\ point \in FaultPoints
    /\ faults < MaxFaults
    /\ faults' = faults + 1

\* The engine goes on with the entry, or leaves it for the next one of the listing.
Goto(where) == pc' = where /\ UNCHANGED <<todo, slot, raw, completed>>
Leave == pc' = "next" /\ slot' = 0 /\ raw' = NoPdu /\ completed' = {} /\ UNCHANGED todo

Occupied == {s \in Slots : inbox[s] # NoPdu}

\* Mutant of Exists: only segments without a message count as known.
ExistsUnlinked(p) == segment[p] # NoRow /\ segment[p].link = Unlinked

\* SMSSegmentExistsByPDUHash.
Exists(p) == segment[p] # NoRow
IsPending(p) == Exists(p) /\ segment[p].link = Unlinked

\* ListPendingSMSSegments: the unlinked segments of the key of p, as the assembler takes them.
Listed(p) ==
    {[pdu |-> q, at |-> segment[q].at] :
        q \in {q \in Pdus : KeyOf(q) = KeyOf(p) /\ IsPending(q)}}

HeldOf(p) == {s \in pending : KeyOf(s.pdu) = KeyOf(p)}
PartNos(segments) == {s.pdu.part : s \in segments}

\* Mutant of Assembled: the number of parts is off by one.
AssembledOneShort(p, segments) == Cardinality(PartNos(segments)) >= Total[p.msg] - 1

\* MultipartAssembler.Add finds every part number of the message.
Assembled(p, segments) == PartNos(segments) = 1 .. Total[p.msg]

\* MultipartAssembler.Prune goes by the latest part of a key ...
Stale(p) == \A s \in HeldOf(p) : s.at + Retention < clock
\* ... PrunePendingSMSSegments by each row's own received_at.
Expired(p) == IsPending(p) /\ segment[p].at + Retention < clock

-----------------------------------------------------------------------------
(* The network and the modem.                                              *)

Init ==
    /\ inbox = [s \in Slots |-> NoPdu]
    /\ copies = [p \in Pdus |-> 0]
    /\ segment = [p \in Pdus |-> NoRow]
    /\ message = [p \in Pdus |-> {}]
    /\ pending = {}
    /\ pc = "idle" /\ todo = {} /\ slot = 0 /\ raw = NoPdu /\ completed = {}
    /\ notified = {} /\ met = {}
    /\ clock = 0 /\ faults = 0

\* Parts arrive in any order; the network may deliver a PDU again.
Deliver(p, s) ==
    /\ copies[p] < MaxCopies
    /\ inbox[s] = NoPdu
    /\ inbox' = [inbox EXCEPT ![s] = p]
    /\ copies' = [copies EXCEPT ![p] = @ + 1]
    /\ UNCHANGED <<store, pending, engine, notified, met, clock, faults>>

Tick ==
    /\ clock < MaxClock
    /\ clock' = clock + 1
    /\ UNCHANGED <<inbox, copies, store, pending, engine, notified, met, faults>>

-----------------------------------------------------------------------------
(* Engine.Run: one poll.                                                   *)

\* The assembler is pruned, then the database; the error of the latter is ignored.
Poll ==
    /\ pc = "idle"
    /\ pending' = {s \in pending : ~Stale(s.pdu)}
    /\ \/ Succeeds /\ segment' = [p \in Pdus |-> IF Expired(p) THEN NoRow ELSE segment[p]]
       \/ Fails("prune") /\ UNCHANGED segment
    /\ Goto("list")
    /\ UNCHANGED <<inbox, copies, message, notified, met, clock>>

\* A failed listing ends the poll; an entry that cannot be parsed may be missing from it.
List ==
    /\ pc = "list"
    /\ \/ \E skipped \in SUBSET {s \in Occupied : inbox[s].msg \in Unreadable} :
             Succeeds /\ todo' = Occupied \ skipped /\ pc' = "next"
       \/ Fails("list") /\ UNCHANGED todo /\ pc' = "idle"
    /\ UNCHANGED <<inbox, copies, store, pending, slot, raw, completed, notified, met, clock>>

\* The next entry, in the order of the modem's listing.
NextEntry(s) ==
    /\ pc = "next"
    /\ s \in todo
    /\ todo' = todo \ {s}
    /\ slot' = s /\ raw' = inbox[s]
    /\ pc' = "store"
    /\ UNCHANGED <<inbox, copies, store, pending, completed, notified, met, clock, faults>>

EndPoll ==
    /\ pc = "next" /\ todo = {}
    /\ Goto("idle")
    /\ UNCHANGED <<inbox, copies, store, pending, notified, met, clock, faults>>

-----------------------------------------------------------------------------
(* Engine.Ingest.                                                          *)

\* Mutant of Known: the entry of a known segment stays in the modem.
KnownKeepsEntry ==
    /\ pc = "store" /\ Exists(raw)
    /\ Leave
    /\ UNCHANGED <<inbox, copies, store, pending, notified, met, clock, faults>>

\* For a segment that is stored already Ingest returns (nil, nil), which Run takes for
\* an entry to delete.
Known ==
    /\ pc = "store" /\ Exists(raw)
    /\ Goto("delete")
    /\ UNCHANGED <<inbox, copies, store, pending, notified, met, clock, faults>>

\* A part of a long message that is waiting for others, in the table or in the assembler.
Waits(p) == Total[p.msg] > 1 /\ (IsPending(p) \/ \E s \in pending : s.pdu = p)

\* Other messages that wait under the key of p.
Meets(p) ==
    {m \in Messages \ {p.msg} : \E q \in Pdus : q.msg = m /\ Waits(q) /\ KeyOf(q) = KeyOf(p)}

\* The row of a new segment; a message of one part is complete with it.
Stored ==
    /\ met' = IF Meets(raw) = {} THEN met ELSE met \union Meets(raw) \union {raw.msg}
    /\ segment' = [segment EXCEPT ![raw] = [at |-> clock, link |-> Unlinked]]
    /\ pc' = IF Total[raw.msg] > 1 THEN "assemble" ELSE "insert"
    /\ completed' = IF Total[raw.msg] > 1 THEN {} ELSE {raw}
    /\ UNCHANGED <<todo, slot, raw>>

\* Mutant of StoreSegment: the error of the insertion is ignored.
StoreSegmentIgnoresError ==
    /\ pc = "store" /\ ~Exists(raw)
    /\ \/ Succeeds /\ raw.msg \notin Unreadable /\ Stored
       \/ Succeeds /\ raw.msg \in Unreadable /\ Leave /\ UNCHANGED <<segment, met>>
       \/ Fails("store") /\ Goto("delete") /\ UNCHANGED <<segment, met>>
    /\ UNCHANGED <<inbox, copies, message, pending, notified, clock>>

\* An entry that DecodePDU refuses, or whose row cannot be written, is left to the next poll.
StoreSegment ==
    /\ pc = "store" /\ ~Exists(raw)
    /\ \/ Succeeds /\ raw.msg \notin Unreadable /\ Stored
       \/ /\ (raw.msg \in Unreadable /\ Succeeds) \/ Fails("store")
          /\ Leave /\ UNCHANGED <<segment, met>>
    /\ UNCHANGED <<inbox, copies, message, pending, notified, clock>>

\* The pending rows go to the assembler one by one; it keeps the first segment it got
\* for a part number, hands the message out when it is complete, and forgets the key.
Gathered(added) ==
    LET held == HeldOf(raw)
        now == held \union added
    IN  /\ added \subseteq Listed(raw)
        /\ \A s, t \in added : s.pdu.part = t.pdu.part => s = t
        /\ PartNos(added) = PartNos(Listed(raw)) \ PartNos(held)
        /\ \/ /\ Assembled(raw, now)
              /\ pending' = pending \ held
              /\ completed' = {s.pdu : s \in now}
              /\ pc' = "insert" /\ UNCHANGED <<todo, slot, raw>>
           \/ /\ ~Assembled(raw, now)
              /\ pending' = pending \union added
              /\ Goto("delete")

Assemble ==
    /\ pc = "assemble"
    /\ \/ Succeeds /\ \E added \in SUBSET Listed(raw) : Gathered(added)
       \/ Fails("assemble") /\ Leave /\ UNCHANGED pending
    /\ UNCHANGED <<inbox, copies, store, notified, met, clock>>

\* The unique index on messages.pdu_hash refuses a second row for the same PDU.
InsertMessage ==
    /\ pc = "insert"
    /\ \/ /\ Succeeds /\ message[raw] = {}
          /\ message' = [message EXCEPT ![raw] = completed]
          /\ Goto("link")
       \/ Succeeds /\ message[raw] # {} /\ Leave /\ UNCHANGED message
       \/ Fails("insert") /\ Leave /\ UNCHANGED message
    /\ UNCHANGED <<inbox, copies, segment, pending, notified, met, clock>>

\* LinkSMSSegment, for each part in order: fills in the message_id of a row without one.
LinkSegment ==
    /\ pc = "link" /\ completed # {}
    /\ \/ \E p \in completed :
             /\ Succeeds
             /\ \A other \in completed : p.part <= other.part
             /\ segment' = IF IsPending(p) THEN [segment EXCEPT ![p].link = raw] ELSE segment
             /\ completed' = completed \ {p}
             /\ UNCHANGED <<pc, todo, slot, raw>>
       \/ Fails("link") /\ Leave /\ UNCHANGED segment
    /\ UNCHANGED <<inbox, copies, message, pending, notified, met, clock>>

\* Run calls onMessage for a message that is written and linked.
Notify ==
    /\ pc = "link" /\ completed = {}
    /\ notified' = notified \union {raw}
    /\ Goto("delete")
    /\ UNCHANGED <<inbox, copies, store, pending, met, clock, faults>>

\* Run calls DeleteSMS and ignores its error; an entry at index 0 is left where it is.
DeleteEntry ==
    /\ pc = "delete"
    /\ \/ Succeeds /\ slot > 0 /\ inbox' = [inbox EXCEPT ![slot] = NoPdu]
       \/ Succeeds /\ slot = 0 /\ UNCHANGED inbox
       \/ Fails("delete") /\ slot > 0 /\ UNCHANGED inbox
    /\ Leave
    /\ UNCHANGED <<copies, store, pending, notified, met, clock>>

\* The process ends and is started again: the assembler and the engine's locals are gone.
Crash ==
    /\ Fails("crash")
    /\ pending' = {}
    /\ pc' = "idle" /\ todo' = {} /\ slot' = 0 /\ raw' = NoPdu /\ completed' = {}
    /\ UNCHANGED <<inbox, copies, store, notified, met, clock>>

-----------------------------------------------------------------------------
Engine ==
    \/ Poll \/ List \/ EndPoll
    \/ \E s \in Slots : NextEntry(s)
    \/ Known \/ StoreSegment \/ Assemble \/ InsertMessage \/ LinkSegment \/ Notify
    \/ DeleteEntry

Next ==
    \/ Engine
    \/ Crash
    \/ Tick
    \/ \E p \in Pdus, s \in Slots : Deliver(p, s)

Spec == Init /\ [][Next]_vars

\* The ticker of Run polls for ever; nothing is promised about deliveries.
FairSpec == Spec /\ WF_vars(Engine)

-----------------------------------------------------------------------------
(* Properties.                                                             *)

TypeOK ==
    /\ inbox \in [Slots -> Pdus \union {NoPdu}]
    /\ copies \in [Pdus -> 0 .. MaxCopies]
    /\ segment \in [Pdus -> SegmentRow \union {NoRow}]
    /\ message \in [Pdus -> SUBSET Pdus]
    /\ pending \subseteq [pdu : Pdus, at : Times]
    /\ pc \in PCs /\ todo \subseteq Slots /\ slot \in Slots \union {0}
    /\ raw \in Pdus \union {NoPdu}
    /\ raw = NoPdu <=> pc \in {"idle", "list", "next"}
    /\ completed \subseteq Pdus /\ notified \subseteq Pdus /\ met \subseteq Messages
    /\ clock \in Times /\ faults \in 0 .. MaxFaults

Recorded(m) == \E h \in Pdus : \E p \in message[h] : p.msg = m
AllDelivered(m) == \A p \in PartsOf(m) : copies[p] > 0

\* Every row of `messages` is one whole message, however its parts were ordered, stored,
\* pruned and stored again, and through restarts (Ingest, Add, Prune): also when its sender
\* used the reference before, as long as that message does not wait for parts any more.
RowsAreWhole ==
    \A h \in Pdus : message[h] # {} => message[h] = PartsOf(h.msg) \/ h.msg \in met

\* While the segments are retained a message never gets two rows, although PDUs are
\* delivered again, deletions fail and the process restarts (SMSSegmentExistsByPDUHash,
\* the unique indexes).  Later it may: segments whose linking was interrupted expire.
NoMessageTwice ==
    clock <= Retention =>
        \A g, h \in Pdus :
            message[g] # {} /\ message[h] # {} /\ g.msg = h.msg => g = h \/ g.msg \in met

\* A segment is linked only to a row that has its body (LinkSMSSegment).
LinksAreSound ==
    \A p \in Pdus : Exists(p) /\ segment[p].link # Unlinked => p \in message[segment[p].link]

\* An entry leaves the modem only when its PDU is in sms_segments (Run, DeleteSMS).
DeletedOnlyWhenStored ==
    [][\A s \in Slots : inbox[s] # NoPdu /\ inbox'[s] = NoPdu => Exists(inbox[s])]_vars

\* Failures of the listing, of the pruning, of the insertion of a segment and of the
\* deletion lose nothing: a message that can be parsed and all of whose parts came in is
\* announced, if no other waited under its key (Run).
EveryMessageAnnounced ==
    \A m \in Messages \ Unreadable :
        AllDelivered(m) ~> m \in met \/ \E h \in notified : h.msg = m

\* Under the same failures no entry above index 0 that can be parsed stays in the modem for
\* good, whatever other entries do: one whose segment is known or refused is deleted by a
\* later poll (Run, Known).
SlotsDrain ==
    \A s \in Slots \ {0}, p \in Pdus :
        p.msg \notin Unreadable => (inbox[s] = p ~> inbox[s] = NoPdu)

\* Not kept by the code (README, Observations).
\* Comment "A crash before deletion is safe because PDU hashes make the next poll
\* idempotent": while no retention is over, a message whose parts have all been taken
\* off the modem is in the database when the engine is between two polls.
CrashBeforeDeletionIsSafe ==
    clock = 0 /\ pc = "idle" =>
        \A m \in Messages \ (Unreadable \union met) :
            AllDelivered(m) /\ (\A s \in Slots : inbox[s] \notin PartsOf(m)) => Recorded(m)
=============================================================================
